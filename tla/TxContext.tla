-------------------------------- MODULE TxContext --------------------------------
(***************************************************************************)
(* Nested transactions of the main and the auxiliary database (base.ts,    *)
(* db_tx.ts): what a call joins, which connection a save writes on, and    *)
(* which transaction tells the save's hooks how it ended.                  *)
(*                                                                         *)
(* The calls around a piece of work are a stack of frames; it stands for   *)
(* the context of AsyncLocalStorage that runWithTransactionContext makes.  *)
(* The turns of one database are those of TxSerial, which TxQueue          *)
(* implements; a BEGIN or COMMIT that fails is modelled there.             *)
(***************************************************************************)
EXTENDS Naturals, Sequences

CONSTANTS
  Callers,    \* requests
  Saves,      \* models that are saved: 1..n, in the order of their saves
  NoCaller,
  MaxDepth,   \* bound: calls of a request inside each other
  MaxEnters   \* bound: calls of a request

VARIABLES
  holder,   \* the request whose transaction is open, of each database
  line,     \* the requests that wait for it
  stack,    \* frames: [on: the database, own: the call began the transaction]
  enters,
  open,     \* saves written in the open transaction of a database
  hooks,    \* saves whose hooks wait for its end (OnComplete)
  fate,     \* of a save: "none", "open", "committed" or "rolled back"
  told,     \* what its hooks were told: "none", "success" or "error"
  across,   \* history: saved with a call for the other database innermost
  skipped   \* history: saves whose hooks were to run after one that threw

saveVars == <<open, hooks, fate, told, across, skipped>>
turnVars == <<holder, line, stack, enters>>
vars == <<turnVars, saveVars>>

Databases == {"main", "auxiliary"}
Other(d) == IF d = "main" THEN "auxiliary" ELSE "main"
Frames == [on : Databases, own : BOOLEAN]
ToSet(s) == {s[i] : i \in DOMAIN s}
Top(c) == stack[c][Len(stack[c])]

TypeOK ==
  /\ holder \in [Databases -> Callers \union {NoCaller}]
  /\ \A d \in Databases : ToSet(line[d]) \subseteq Callers \ {holder[d]}
  /\ \A c \in Callers : ToSet(stack[c]) \subseteq Frames /\ Len(stack[c]) \in 0..MaxDepth
  /\ enters \in [Callers -> 0..MaxEnters]
  /\ \A d \in Databases : open[d] \subseteq Saves /\ hooks[d] \subseteq Saves
  /\ fate \in [Saves -> {"none", "open", "committed", "rolled back"}]
  /\ told \in [Saves -> {"none", "success", "error"}] /\ across \subseteq Saves
  /\ skipped \subseteq Saves

Init ==
  /\ holder = [d \in Databases |-> NoCaller] /\ line = [d \in Databases |-> <<>>]
  /\ stack = [c \in Callers |-> <<>>] /\ enters = [c \in Callers |-> 0]
  /\ open = [d \in Databases |-> {}] /\ hooks = [d \in Databases |-> {}]
  /\ fate = [s \in Saves |-> "none"] /\ told = [s \in Saves |-> "none"] /\ across = {}
  /\ skipped = {}

\* mainTxInfo and auxTxInfo of the context.
\* Mutant: only the innermost transaction is looked at.
In_Top(c, d) == stack[c] # <<>> /\ Top(c).on = d

In(c, d) == \E i \in DOMAIN stack[c] : stack[c][i].on = d

Waits(c) == \E d \in Databases : c \in ToSet(line[d])

-----------------------------------------------------------------------------
\* RunInTransaction and AuxRunInTransaction: a call inside a transaction of the
\* same database joins it, another one takes its place in the line.
Enter(c, d) ==
  /\ ~Waits(c) /\ Len(stack[c]) < MaxDepth /\ enters[c] < MaxEnters
  /\ enters' = [enters EXCEPT ![c] = @ + 1]
  /\ \/ /\ In(c, d) /\ stack' = [stack EXCEPT ![c] = Append(@, [on |-> d, own |-> FALSE])]
        /\ UNCHANGED line
     \/ ~In(c, d) /\ line' = [line EXCEPT ![d] = Append(@, c)] /\ UNCHANGED stack
  /\ UNCHANGED <<holder, saveVars>>

\* acquireTransaction returns, and BEGIN is run.
Turn(c, d) ==
  /\ holder[d] = NoCaller /\ line[d] # <<>> /\ Head(line[d]) = c
  /\ holder' = [holder EXCEPT ![d] = c] /\ line' = [line EXCEPT ![d] = Tail(@)]
  /\ stack' = [stack EXCEPT ![c] = Append(@, [on |-> d, own |-> TRUE])]
  /\ UNCHANGED <<enters, saveVars>>

\* TxInfo() of a save: the transaction of the innermost call.
\* Mutant: the outermost.
Info_Outer(c) == Head(stack[c]).on

Info(c) == Top(c).on

\* A save of a model of database d. Outside a transaction of d it is committed
\* at once, when no other connection holds the database's write lock; inside any
\* transaction its hooks wait for the end of the one that TxInfo() names.
Save(c, d) ==
  /\ ~Waits(c)
  /\ \E s \in Saves :
       /\ fate[s] = "none" /\ \A r \in Saves : r < s => fate[r] # "none"
       /\ \/ /\ In(c, d) /\ open' = [open EXCEPT ![d] = @ \union {s}]
             /\ fate' = [fate EXCEPT ![s] = "open"]
          \/ /\ ~In(c, d) /\ holder[d] = NoCaller /\ UNCHANGED open
             /\ fate' = [fate EXCEPT ![s] = "committed"]
       /\ \/ /\ stack[c] = <<>> /\ told' = [told EXCEPT ![s] = "success"]
             /\ UNCHANGED <<hooks, across>>
          \/ /\ stack[c] # <<>> /\ hooks' = [hooks EXCEPT ![Info(c)] = @ \union {s}]
             /\ across' = IF Top(c).on # d THEN across \union {s} ELSE across
             /\ UNCHANGED told
  /\ UNCHANGED <<turnVars, skipped>>

\* A call that joined returns; what the outer call makes of its result is the
\* outer call's business.
Joined(c) == ~Top(c).own

\* Saves are hooked in their order. A function of OnComplete that throws ends the
\* loop of runAfterFuncs.
Heard(d) ==
  {hooks[d]} \cup {{s \in hooks[d] : s <= throws} : throws \in hooks[d]}

\* COMMIT or ROLLBACK, the release of the turn, and the functions of OnComplete.
End(d, ok) ==
  /\ holder' = [holder EXCEPT ![d] = NoCaller]
  /\ fate' = [s \in Saves |->
       IF s \in open[d] THEN IF ok THEN "committed" ELSE "rolled back" ELSE fate[s]]
  /\ \E heard \in Heard(d) :
       /\ told' = [s \in Saves |->
            IF s \in heard THEN IF ok THEN "success" ELSE "error" ELSE told[s]]
       /\ skipped' = skipped \union (hooks[d] \ heard)
  /\ open' = [open EXCEPT ![d] = {}] /\ hooks' = [hooks EXCEPT ![d] = {}]

Leave(c) ==
  /\ ~Waits(c) /\ stack[c] # <<>>
  /\ stack' = [stack EXCEPT ![c] = SubSeq(@, 1, Len(@) - 1)]
  /\ \/ Joined(c) /\ UNCHANGED <<holder, saveVars>>
     \/ ~Joined(c) /\ (\E ok \in BOOLEAN : End(Top(c).on, ok)) /\ UNCHANGED across
  /\ UNCHANGED <<line, enters>>

Next ==
  \E c \in Callers :
     Leave(c) \/ \E d \in Databases : Enter(c, d) \/ Turn(c, d) \/ Save(c, d)

Spec == Init /\ [][Next]_vars

\* Handlers return, and a resolved promise goes on.
Fairness ==
  \A c \in Callers : WF_vars(Leave(c)) /\ \A d \in Databases : WF_vars(Turn(c, d))
FairSpec == Spec /\ Fairness

-----------------------------------------------------------------------------
\* Whatever the calls around it, a save whose innermost transaction is one of its
\* own database has hooks that are told how it really ended, and once it has ended
\* they are told, unless those of an earlier save of the transaction threw. (The
\* hooks of any other save are told how the innermost transaction ended.)
HooksTold ==
  \A s \in Saves \ across :
    /\ told[s] = "success" => fate[s] = "committed"
    /\ told[s] = "error" => fate[s] = "rolled back"
    /\ fate[s] \in {"committed", "rolled back"} /\ told[s] = "none" =>
         s \in skipped /\ \E r \in Saves : r < s /\ told[r] # "none"

\* Two requests that each hold a database and wait for the other's.
Crossed ==
  \E c, e \in Callers, d \in Databases :
    /\ holder[d] = c /\ e \in ToSet(line[d])
    /\ holder[Other(d)] = e /\ c \in ToSet(line[Other(d)])

\* A request that waits for a database gets it, unless two requests hold one
\* database each and wait for the other: nothing else can stop the line.
TurnComes == \A c \in Callers : Waits(c) ~> ~Waits(c) \/ Crossed
=============================================================================
