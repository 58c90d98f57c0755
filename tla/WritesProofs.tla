---------------------------- MODULE WritesProofs ----------------------------
(***************************************************************************)
(* Proofs about how one process writes its databases, the parts of         *)
(* MCWrites: the queue of transactions, with the refinement of TxSerial;   *)
(* the hooks of nested transactions; the log entries.                      *)
(***************************************************************************)
EXTENDS MCWrites, SequenceTheorems, TLAPS

(***************************************************************************)
(* The queue of TxQueue, for any number of calls.  The chain of promises   *)
(* is a queue: among the calls that are not released, prev links each one  *)
(* to its predecessor in the order of the calls, transactionQueues holds   *)
(* the last, and the holder of the turn is the first (ChainInv).           *)
(***************************************************************************)
Live(t) == order[t] > 0 /\ t \notin unlocked
InTx == {"open", "before", "closing"}

\* Positions are given out once; a call is live from Call to Release.
OrderInv ==
  /\ \A t \in Tasks : order[t] <= calls
  /\ \A t, u \in Tasks : order[t] = order[u] /\ order[t] > 0 => t = u
  /\ \A t \in Tasks : pc[t] = "idle" <=> order[t] = 0
  /\ \A t \in Tasks : pc[t] \in {"after", "done"} <=> t \in unlocked

ChainInv ==
  /\ mapTail = None => \A t \in Tasks : ~Live(t)
  /\ mapTail # None => /\ Live(mapTail)
                       /\ \A t \in Tasks : Live(t) => order[t] <= order[mapTail]
  /\ \A t, u \in Tasks :
       Live(t) /\ Live(u) /\ order[u] < order[t] =>
         /\ prev[t] \in Tasks
         /\ Live(prev[t]) /\ order[u] <= order[prev[t]]
  /\ \A t, u \in Tasks : pc[t] \in Holding /\ Live(u) => order[t] <= order[u]

ConnInv ==
  /\ active <=> \E t \in Tasks : pc[t] \in Holding
  /\ \A t \in Tasks : pc[t] \in InTx <=> conn = t /\ ~left
  /\ ~clash
  /\ committed \subseteq unlocked
  /\ OutcomeTold

IInv == TypeOK /\ OrderInv /\ ChainInv /\ ConnInv

USE TxQueueAssumption

LEMMA InitInv == Init => IInv
<1> SUFFICES ASSUME Init PROVE IInv
  OBVIOUS
<1>1. TypeOK
  BY DEF Init, TypeOK
<1>2. OrderInv
  BY DEF Init, OrderInv
<1>3. ChainInv
  BY DEF Init, ChainInv, Live, Holding
<1>4. ConnInv
  BY DEF Init, ConnInv, OutcomeTold, Error, InTx, Holding
<1>5. QED
  BY <1>1, <1>2, <1>3, <1>4 DEF IInv

LEMMA TypeStep == TypeOK /\ [Next]_vars => TypeOK'
<1> SUFFICES ASSUME TypeOK, [Next]_vars PROVE TypeOK'
  OBVIOUS
<1> USE DEF TypeOK
<1>1. CASE RunSync
  BY <1>1 DEF RunSync, chainVars
<1>2. ASSUME NEW t \in Tasks, Call(t) PROVE TypeOK'
  BY <1>2 DEF Call, Goto
<1>3. ASSUME NEW t \in Tasks, Acquire(t) \/ Begin(t) \/ AfterFuncs(t) PROVE TypeOK'
  BY <1>3 DEF Acquire, Begin, AfterFuncs, Goto, chainVars, callVars
<1>4. ASSUME NEW t \in Tasks, Handler(t) \/ BeforeCommit(t) PROVE TypeOK'
  BY <1>4 DEF Handler, BeforeCommit, Goto, chainVars, callVars
<1>5. ASSUME NEW t \in Tasks, BeginFails(t) \/ Commit(t) \/ Rollback(t) PROVE TypeOK'
  BY <1>5 DEF BeginFails, Commit, Rollback, EndsTx, Release, TailAfter, Unlocks, Goto, callVars
<1>6. CASE UNCHANGED vars
  BY <1>6 DEF vars, chainVars, callVars
<1>7. QED
  BY <1>1, <1>2, <1>3, <1>4, <1>5, <1>6 DEF Next, Run

\* When its turn comes, a call is first in the queue and nobody holds the turn.
LEMMA TurnIsFirst ==
  ASSUME IInv, NEW t \in Tasks, pc[t] = "waiting", Turn(t)
  PROVE  \A u \in Tasks : /\ Live(u) => order[t] <= order[u]
                          /\ pc[u] \notin Holding
<1>1. Live(t)
  BY DEF IInv, OrderInv, TypeOK, Live
<1>2. ASSUME NEW u \in Tasks, Live(u) PROVE order[t] <= order[u]
  <2>1. ~(order[u] < order[t])
    BY <1>1, <1>2 DEF IInv, ChainInv, TypeOK, Turn, Live
  <2>2. QED
    BY <2>1 DEF IInv, TypeOK
<1>3. ASSUME NEW u \in Tasks, pc[u] \in Holding PROVE FALSE
  <2>1. Live(u)
    BY <1>3 DEF IInv, OrderInv, TypeOK, Live, Holding
  <2>2. order[u] = order[t]
    BY <1>1, <1>2, <1>3, <2>1 DEF IInv, ChainInv, TypeOK
  <2>3. QED
    BY <1>1, <1>3, <2>2 DEF IInv, OrderInv, Live, Holding
<1>4. QED
  BY <1>2, <1>3

\* Two holders would each come before the other.
LEMMA HolderUnique ==
  ASSUME IInv, NEW t \in Tasks, NEW u \in Tasks, pc[t] \in Holding, pc[u] \in Holding
  PROVE  t = u
<1>1. Live(t) /\ Live(u)
  BY DEF IInv, OrderInv, TypeOK, Live, Holding
<1>2. order[t] = order[u]
  BY <1>1 DEF IInv, ChainInv, TypeOK
<1>3. QED
  BY <1>1, <1>2 DEF IInv, OrderInv, Live

LEMMA OrderStep == IInv /\ [Next]_vars => OrderInv'
<1> SUFFICES ASSUME IInv, [Next]_vars PROVE OrderInv'
  OBVIOUS
<1> USE DEF IInv, TypeOK, OrderInv
<1>1. CASE RunSync
  BY <1>1 DEF RunSync, chainVars
<1>2. ASSUME NEW t \in Tasks, Call(t) PROVE OrderInv'
  BY <1>2 DEF Call, Goto
<1>3. ASSUME NEW t \in Tasks, Acquire(t) \/ Begin(t) \/ AfterFuncs(t) PROVE OrderInv'
  BY <1>3 DEF Acquire, Begin, AfterFuncs, Goto, chainVars, callVars
<1>4. ASSUME NEW t \in Tasks, Handler(t) \/ BeforeCommit(t) PROVE OrderInv'
  BY <1>4 DEF Handler, BeforeCommit, Goto, chainVars, callVars
<1>5. ASSUME NEW t \in Tasks, BeginFails(t) \/ Commit(t) \/ Rollback(t) PROVE OrderInv'
  BY <1>5 DEF BeginFails, Commit, Rollback, Release, Unlocks, Goto, callVars
<1>6. CASE UNCHANGED vars
  BY <1>6 DEF vars, chainVars, callVars
<1>7. QED
  BY <1>1, <1>2, <1>3, <1>4, <1>5, <1>6 DEF Next, Run

\* A release takes the first call out of the queue.
LEMMA ReleaseChain ==
  ASSUME IInv, NEW t \in Tasks, pc[t] \in Holding, Release(t),
         UNCHANGED <<prev, order>>, NEW q, pc' = [pc EXCEPT ![t] = q], q \notin Holding
  PROVE  ChainInv'
<1> USE DEF IInv, TypeOK, Release, Unlocks, TailAfter, Live
<1>1. \A u \in Tasks : Live(u)' <=> Live(u) /\ u # t
  OBVIOUS
<1>2. \A u \in Tasks : Live(u) => order[t] <= order[u]
  BY DEF ChainInv
<1>3. Live(t)
  BY DEF OrderInv, Holding
<1>4. mapTail' = None => \A u \in Tasks : ~Live(u)'
  <2>1. ASSUME mapTail = t, NEW u \in Tasks, Live(u) PROVE u = t
    <3>1. order[u] = order[t]
      BY <1>2, <2>1 DEF ChainInv
    <3>2. QED
      BY <2>1, <3>1 DEF OrderInv
  <2>2. QED
    BY <1>1, <2>1 DEF ChainInv
<1>5. mapTail' # None =>
        Live(mapTail)' /\ \A u \in Tasks : Live(u)' => order'[u] <= order'[mapTail']
  BY <1>1 DEF ChainInv
<1>6. ASSUME NEW u \in Tasks, NEW v \in Tasks, Live(u)', Live(v)', order'[v] < order'[u]
      PROVE  prev'[u] \in Tasks /\ Live(prev[u])' /\ order'[v] <= order'[prev'[u]]
  <2>1. prev[u] \in Tasks /\ Live(prev[u]) /\ order[v] <= order[prev[u]]
    BY <1>1, <1>6 DEF ChainInv
  <2>2. prev[u] # t
    <3>1. SUFFICES ASSUME prev[u] = t PROVE FALSE
      OBVIOUS
    <3>2. order[v] = order[t]
      BY <1>1, <1>2, <1>6, <2>1, <3>1
    <3>3. QED
      BY <1>1, <1>3, <1>6, <3>2 DEF OrderInv
  <2>3. QED
    BY <2>1, <2>2, <1>1
<1>7. ASSUME NEW u \in Tasks, NEW v \in Tasks, pc'[u] \in Holding, Live(v)'
      PROVE  order'[u] <= order'[v]
  BY <1>1, <1>7 DEF ChainInv
<1>8. QED
  BY <1>4, <1>5, <1>6, <1>7 DEF ChainInv

LEMMA ChainStep == IInv /\ [Next]_vars => ChainInv'
<1> SUFFICES ASSUME IInv, [Next]_vars PROVE ChainInv'
  OBVIOUS
<1>1. CASE RunSync \/ UNCHANGED vars
  BY <1>1 DEF RunSync, vars, chainVars, callVars, IInv, ChainInv, Live
<1>2. ASSUME NEW t \in Tasks, Call(t) PROVE ChainInv'
  <2> USE DEF IInv, TypeOK, Call, Goto
  <2>1. order[t] = 0 /\ order'[t] = calls + 1 /\ t \notin unlocked
    BY <1>2 DEF OrderInv
  <2>2. \A u \in Tasks : u # t => order'[u] = order[u] /\ prev'[u] = prev[u]
                                 /\ (Live(u)' <=> Live(u))
    BY <1>2 DEF Live
  <2>3. \A u \in Tasks : order'[u] <= order'[t]
    BY <1>2, <2>1, <2>2 DEF OrderInv
  <2>4. mapTail' = t /\ Live(t)' /\ prev'[t] = mapTail
    BY <1>2, <2>1 DEF Live
  <2>5. ASSUME NEW u \in Tasks, NEW v \in Tasks, Live(u)', Live(v)', order'[v] < order'[u]
        PROVE  prev'[u] \in Tasks /\ Live(prev[u])' /\ order'[v] <= order'[prev'[u]]
    <3>1. v # t
      BY <2>3, <2>5, <1>2
    <3>2. CASE u = t
      BY <1>2, <2>1, <2>2, <2>4, <2>5, <3>1, <3>2 DEF ChainInv, Live
    <3>3. CASE u # t
      BY <1>2, <2>1, <2>2, <2>5, <3>1, <3>3 DEF ChainInv, Live
    <3>4. QED
      BY <3>2, <3>3
  <2>6. ASSUME NEW u \in Tasks, NEW v \in Tasks, pc'[u] \in Holding, Live(v)'
        PROVE  order'[u] <= order'[v]
    <3>1. u # t /\ pc[u] \in Holding
      BY <1>2, <2>6 DEF Holding
    <3>2. CASE v = t
      BY <2>3, <3>2
    <3>3. CASE v # t
      BY <2>2, <2>6, <3>1, <3>3 DEF ChainInv
    <3>4. QED
      BY <3>2, <3>3
  <2>7. QED
    BY <2>3, <2>4, <2>5, <2>6, TxQueueAssumption DEF ChainInv
<1>3. ASSUME NEW t \in Tasks, Acquire(t) PROVE ChainInv'
  <2>1. \A u \in Tasks : Live(u) => order[t] <= order[u]
    BY <1>3, TurnIsFirst DEF Acquire, Goto
  <2>2. QED
    BY <1>3, <2>1 DEF Acquire, Goto, IInv, TypeOK, ChainInv, Live, chainVars, callVars
<1>4. ASSUME NEW t \in Tasks,
             Begin(t) \/ Handler(t) \/ BeforeCommit(t) \/ AfterFuncs(t)
      PROVE  ChainInv'
  BY <1>4 DEF Begin, Handler, BeforeCommit, AfterFuncs, Goto, IInv, TypeOK, ChainInv, Live,
              Holding, chainVars, callVars
<1>5. ASSUME NEW t \in Tasks, BeginFails(t) \/ Commit(t) \/ Rollback(t) PROVE ChainInv'
  <2>1. /\ pc[t] \in Holding /\ pc' = [pc EXCEPT ![t] = "after"]
        /\ Release(t) /\ UNCHANGED <<prev, order>>
    BY <1>5 DEF BeginFails, Commit, Rollback, Goto, Holding, callVars
  <2>2. QED
    BY <2>1, ReleaseChain DEF Holding
<1>6. QED
  BY <1>1, <1>2, <1>3, <1>4, <1>5 DEF Next, Run

LEMMA ConnStep == IInv /\ [Next]_vars => ConnInv'
<1> SUFFICES ASSUME IInv, [Next]_vars PROVE ConnInv'
  OBVIOUS
<1> USE DEF IInv, TypeOK, ConnInv, OutcomeTold, Error, InTx, Holding, Goto, chainVars, callVars
<1>1. CASE RunSync
  <2>1. conn = None \/ left
    BY <1>1 DEF RunSync, SyncRefused
  <2>2. QED
    BY <1>1, <2>1 DEF RunSync
<1>2. CASE UNCHANGED vars
  BY <1>2 DEF vars, chainVars, callVars
<1>3. ASSUME NEW t \in Tasks, Call(t) PROVE ConnInv'
  BY <1>3 DEF Call
<1>4. ASSUME NEW t \in Tasks, Acquire(t) PROVE ConnInv'
  BY <1>4 DEF Acquire
<1>5. ASSUME NEW t \in Tasks, Begin(t) PROVE ConnInv'
  <2>1. \A u \in Tasks : pc[u] \in Holding => u = t
    BY <1>5, HolderUnique DEF Begin
  <2>2. conn = None
    BY <1>5, <2>1 DEF Begin
  <2>3. QED
    BY <1>5, <2>1, <2>2 DEF Begin
<1>6. ASSUME NEW t \in Tasks, Handler(t) \/ BeforeCommit(t) \/ AfterFuncs(t) PROVE ConnInv'
  BY <1>6 DEF Handler, BeforeCommit, AfterFuncs, OrderInv
<1>7. ASSUME NEW t \in Tasks, BeginFails(t) \/ Commit(t) \/ Rollback(t) PROVE ConnInv'
  <2>1. \A u \in Tasks : pc[u] \in Holding => u = t
    BY <1>7, HolderUnique DEF BeginFails, Commit, Rollback
  <2>2. QED
    BY <1>7, <2>1 DEF BeginFails, Commit, Rollback, EndsTx, Release, Unlocks, OrderInv
<1>8. QED
  BY <1>1, <1>2, <1>3, <1>4, <1>5, <1>6, <1>7 DEF Next, Run

LEMMA Inductive == IInv /\ [Next]_vars => IInv'
BY TypeStep, OrderStep, ChainStep, ConnStep DEF IInv

\* The types of the variables of the transaction queue.
THEOREM TypeCorrect == Spec => []TypeOK
<1>1. IInv => TypeOK
  BY DEF IInv
<1>2. QED
  BY InitInv, Inductive, <1>1, PTL DEF Spec

\* However many transactions are queued, no BEGIN is run inside another one.
THEOREM TransactionsIsolated == Spec => []Isolated
<1>1. IInv => Isolated
  BY DEF IInv, ConnInv, Isolated
<1>2. QED
  BY InitInv, Inductive, <1>1, PTL DEF Spec

\* At most one call holds the turn, and the open transaction is the holder's.
THEOREM TurnHeldAlone == Spec => []OneHolder
<1>1. IInv => OneHolder
  BY HolderUnique DEF IInv, TypeOK, ConnInv, OneHolder, InTx, Holding
<1>2. QED
  BY InitInv, Inductive, <1>1, PTL DEF Spec

\* OnComplete functions are told whether the transaction committed, also where COMMIT
\* or ROLLBACK fails, and a caller that is told no error has its commit, although a
\* function that runs after the commit may add an error of its own (RunInTransaction).
THEOREM OutcomeReported == Spec => []OutcomeTold
<1>1. IInv => OutcomeTold
  BY DEF IInv, ConnInv
<1>2. QED
  BY InitInv, Inductive, <1>1, PTL DEF Spec

-----------------------------------------------------------------------------
(***************************************************************************)
(* Refinement.  A call is pending in TxSerial while it is live here.       *)
(***************************************************************************)
LEMMA PendingIsLive ==
  ASSUME IInv, NEW t \in Tasks
  PROVE  Serial!Pending(t) <=> Live(t)
BY DEF IInv, TypeOK, ConnInv, Serial!Pending, Outcome, Live

LEMMA EndStep ==
  ASSUME IInv, NEW t \in Tasks, BeginFails(t) \/ Commit(t) \/ Rollback(t)
  PROVE  Serial!End(t)
<1> DEFINE out == [u \in Tasks |-> Outcome(u)]
<1> USE DEF IInv, TypeOK, Goto, BeginFails, Commit, Rollback, Release, Unlocks, callVars
<1>1. pc[t] \in Holding /\ Live(t)
  BY DEF Holding, OrderInv, Live
<1>2. Serial!Pending(t)
  BY <1>1, PendingIsLive
<1>3. \A u \in Tasks : Serial!Pending(u) => order[t] <= order[u]
  BY <1>1, PendingIsLive DEF ChainInv
<1>4. PICK o \in {"committed", "aborted"} : Outcome(t)' = o
  BY DEF Outcome
<1>5. \A u \in Tasks : u # t => Outcome(u)' = Outcome(u)
  BY DEF Outcome
<1>6. out' = [out EXCEPT ![t] = o]
  BY <1>4, <1>5
<1>7. QED
  BY <1>2, <1>3, <1>6 DEF Serial!End

LEMMA SerialStep == IInv /\ [Next]_vars => [Serial!Next]_(Serial!vars)
<1> SUFFICES ASSUME IInv, [Next]_vars PROVE [Serial!Next]_(Serial!vars)
  OBVIOUS
<1>1. CASE RunSync
  <2>1. \A u \in Tasks : ~Serial!Pending(u)
    BY <1>1, PendingIsLive DEF RunSync, SyncRefused, IInv, ChainInv
  <2>2. \A u \in Tasks : Outcome(u)' = Outcome(u)
    BY <1>1 DEF RunSync, chainVars, Outcome
  <2>3. Serial!Sync
    BY <1>1, <2>1, <2>2 DEF RunSync, Serial!Sync
  <2>4. QED
    BY <2>3 DEF Serial!Next
<1>2. ASSUME NEW t \in Tasks, Call(t) PROVE Serial!Next
  <2>1. \A u \in Tasks : Outcome(u)' = Outcome(u)
    BY <1>2 DEF Call, Outcome
  <2>2. Serial!Call(t)
    BY <1>2, <2>1 DEF Call, Goto, IInv, TypeOK, OrderInv, Serial!Call
  <2>3. QED
    BY <2>2 DEF Serial!Next
<1>3. ASSUME NEW t \in Tasks,
             Acquire(t) \/ Begin(t) \/ Handler(t) \/ BeforeCommit(t) \/ AfterFuncs(t)
      PROVE  UNCHANGED Serial!vars
  BY <1>3 DEF Acquire, Begin, Handler, BeforeCommit, AfterFuncs, Outcome, Serial!vars, chainVars,
    callVars
<1>4. ASSUME NEW t \in Tasks, BeginFails(t) \/ Commit(t) \/ Rollback(t) PROVE Serial!Next
  BY <1>4, EndStep DEF Serial!Next
<1>5. CASE UNCHANGED vars
  BY <1>5 DEF vars, chainVars, callVars, Outcome, Serial!vars
<1>6. QED
  BY <1>1, <1>2, <1>3, <1>4, <1>5 DEF Next, Run

\* The chain of promises implements a first-come, first-served queue.
THEOREM QueueImplementsSerial == Spec => SerialSpec
<1>1. Init => Serial!Init
  BY DEF Init, Serial!Init, Outcome
<1>2. QED
  BY <1>1, InitInv, Inductive, SerialStep, PTL DEF Spec, SerialSpec, Serial!Spec

-----------------------------------------------------------------------------
(***************************************************************************)
(* TxContext. A save that is not in "across" waits in the same transaction *)
(* with its row and with its hooks (SameEnd), so one end settles both. It  *)
(* is open in one transaction (OneEnd), so nothing is told before its end. *)
(***************************************************************************)
SavesTyped ==
  /\ stack \in [Callers -> Seq(Context!Frames)]
  /\ open \in [Context!Databases -> SUBSET Saves]
  /\ hooks \in [Context!Databases -> SUBSET Saves]
  /\ fate \in [Saves -> {"none", "open", "committed", "rolled back"}]
  /\ told \in [Saves -> {"none", "success", "error"}]

SameEnd ==
  \A s \in Saves \ across, d \in Context!Databases : s \in open[d] <=> s \in hooks[d]

OneEnd ==
  \A s \in Saves, d \in Context!Databases :
    s \in open[d] =>
      fate[s] = "open" /\ \A e \in Context!Databases : s \in open[e] => e = d

ContextInv == SavesTyped /\ SameEnd /\ OneEnd /\ HooksTold

LEMMA ContextInit == Context!Init => ContextInv
BY DEF Context!Init, ContextInv, SavesTyped, SameEnd, OneEnd, HooksTold, Context!HooksTold

\* The innermost call is one of those that a save is made in.
LEMMA TopIsIn ==
  ASSUME SavesTyped, NEW c \in Callers, stack[c] # <<>>
  PROVE  /\ Context!Top(c) \in Context!Frames
         /\ Context!In(c, Context!Top(c).on)
<1>1. stack[c] \in Seq(Context!Frames)
  BY DEF SavesTyped
<1>2. Len(stack[c]) \in DOMAIN stack[c] /\ stack[c][Len(stack[c])] \in Context!Frames
  BY <1>1, EmptySeq, LenProperties, ElementOfSeq
<1>3. QED
  BY <1>2 DEF Context!Top, Context!In

LEMMA PushTyped ==
  ASSUME SavesTyped, NEW c \in Callers, NEW d \in Context!Databases, NEW own \in BOOLEAN
  PROVE  [stack EXCEPT ![c] = Append(@, [on |-> d, own |-> own])]
           \in [Callers -> Seq(Context!Frames)]
<1>1. stack \in [Callers -> Seq(Context!Frames)]
  BY DEF SavesTyped
<1>2. [on |-> d, own |-> own] \in Context!Frames
  BY DEF Context!Frames
<1>3. QED
  BY <1>1, <1>2, AppendProperties

LEMMA AddTyped ==
  ASSUME NEW D, NEW S, NEW f \in [D -> SUBSET S], NEW d \in D, NEW s \in S
  PROVE  [f EXCEPT ![d] = @ \cup {s}] \in [D -> SUBSET S]
OBVIOUS

LEMMA AddOne ==
  ASSUME NEW D, NEW S, NEW f \in [D -> SUBSET S], NEW d \in D, NEW s \in S,
         NEW g, g = [f EXCEPT ![d] = @ \cup {s}]
  PROVE  \A e \in D : g[e] = IF e = d THEN f[e] \cup {s} ELSE f[e]
OBVIOUS

LEMMA SavesTypedStep == SavesTyped /\ [Context!Next]_contextVars => SavesTyped'
<1> SUFFICES ASSUME SavesTyped, [Context!Next]_contextVars PROVE SavesTyped'
  OBVIOUS
<1>1. ASSUME NEW c \in Callers, Context!Leave(c) PROVE SavesTyped'
  <2>1. stack[c] \in Seq(Context!Frames) /\ stack[c] # <<>>
    BY <1>1 DEF SavesTyped, Context!Leave
  <2>2. SubSeq(stack[c], 1, Len(stack[c]) - 1) \in Seq(Context!Frames)
    BY <2>1, SubSeqProperties
  <2>3. stack' \in [Callers -> Seq(Context!Frames)]
    BY <1>1, <2>2 DEF SavesTyped, Context!Leave
  <2>4. Context!Top(c).on \in Context!Databases
    BY <2>1, TopIsIn DEF Context!Frames
  <2>5. QED
    BY <1>1, <2>3, <2>4 DEF SavesTyped, Context!Leave, Context!End, Context!saveVars
<1>2. ASSUME NEW c \in Callers, NEW d \in Context!Databases, Context!Enter(c, d)
      PROVE  SavesTyped'
  <2>1. stack' \in [Callers -> Seq(Context!Frames)]
    <3>1. CASE stack' = [stack EXCEPT ![c] = Append(@, [on |-> d, own |-> FALSE])]
      BY <3>1, PushTyped
    <3>2. CASE stack' = stack
      BY <3>2 DEF SavesTyped
    <3>3. QED
      BY <1>2, <3>1, <3>2 DEF Context!Enter
  <2>2. QED
    BY <1>2, <2>1 DEF SavesTyped, Context!Enter, Context!saveVars
<1>3. ASSUME NEW c \in Callers, NEW d \in Context!Databases, Context!Turn(c, d)
      PROVE  SavesTyped'
  BY <1>3, PushTyped DEF SavesTyped, Context!Turn, Context!saveVars
<1>4. ASSUME NEW c \in Callers, NEW d \in Context!Databases, Context!Save(c, d)
      PROVE  SavesTyped'
  <2> PICK s \in Saves : Context!Save(c, d)!2!(s)
    BY <1>4 DEF Context!Save
  <2>1. open' \in [Context!Databases -> SUBSET Saves]
    <3>1. [open EXCEPT ![d] = @ \cup {s}] \in [Context!Databases -> SUBSET Saves]
      BY AddTyped DEF SavesTyped
    <3>2. QED
      BY <3>1 DEF SavesTyped
  <2> fate' \in [Saves -> {"none", "open", "committed", "rolled back"}]
    BY DEF SavesTyped
  <2>2. stack[c] # <<>> => Context!Info(c) \in Context!Databases
    BY TopIsIn DEF Context!Frames, Context!Info
  <2>3. hooks' \in [Context!Databases -> SUBSET Saves]
    <3>1. stack[c] # <<>> =>
            [hooks EXCEPT ![Context!Info(c)] = @ \cup {s}] \in [Context!Databases -> SUBSET Saves]
      BY <2>2, AddTyped DEF SavesTyped
    <3>2. QED
      BY <3>1 DEF SavesTyped
  <2> told' \in [Saves -> {"none", "success", "error"}]
    BY DEF SavesTyped
  <2>4. QED
    BY <1>4, <2>1, <2>3 DEF SavesTyped, Context!Save, Context!turnVars
<1>5. CASE UNCHANGED contextVars
  BY <1>5 DEF SavesTyped, contextVars
<1>6. QED
  BY <1>1, <1>2, <1>3, <1>4, <1>5 DEF Context!Next

\* The end of a transaction of database d, which tells the hooks "heard".
LEMMA EndTells ==
  ASSUME ContextInv, NEW d \in Context!Databases, NEW ok \in BOOLEAN,
         Context!End(d, ok), across' = across
  PROVE  HooksTold'
<1>1. SavesTyped
  BY DEF ContextInv
<1> PICK heard \in Context!Heard(d) :
      /\ told' = [s \in Saves |->
           IF s \in heard THEN IF ok THEN "success" ELSE "error" ELSE told[s]]
      /\ skipped' = skipped \cup (hooks[d] \ heard)
  BY DEF Context!End
<1>2. heard \subseteq hooks[d]
  BY DEF Context!Heard
<1>3. \A s \in Saves : told[s] # "none" => told'[s] # "none"
  OBVIOUS
<1> SUFFICES ASSUME NEW s \in Saves \ across
             PROVE  /\ told'[s] = "success" => fate'[s] = "committed"
                    /\ told'[s] = "error" => fate'[s] = "rolled back"
                    /\ fate'[s] \in {"committed", "rolled back"} /\ told'[s] = "none" =>
                         s \in skipped' /\ \E r \in Saves : r < s /\ told'[r] # "none"
  BY DEF HooksTold, Context!HooksTold
<1>4. fate'[s] = IF s \in open[d] THEN IF ok THEN "committed" ELSE "rolled back"
                 ELSE fate[s]
  BY DEF Context!End
<1>5. s \in open[d] <=> s \in hooks[d]
  BY DEF ContextInv, SameEnd
<1>6. CASE s \in heard
  BY <1>2, <1>4, <1>5, <1>6
<1>7. CASE s \in hooks[d] \ heard
  <2>1. told[s] = "none" /\ told'[s] = "none" /\ s \in skipped'
    BY <1>1, <1>5, <1>7 DEF ContextInv, OneEnd, SavesTyped, HooksTold, Context!HooksTold
  <2>2. PICK r \in hooks[d] : heard = {x \in hooks[d] : x <= r}
    BY <1>7 DEF Context!Heard
  <2>3. r \in Saves /\ r \in Nat /\ s \in Nat
    BY <1>1, SavesAssumption DEF SavesTyped
  <2>4. r \in heard /\ r < s
    BY <1>7, <2>2, <2>3
  <2>5. told'[r] # "none"
    BY <2>3, <2>4
  <2>6. QED
    BY <2>1, <2>3, <2>4, <2>5
<1>8. CASE s \notin hooks[d]
  <2>1. fate'[s] = fate[s] /\ told'[s] = told[s]
    BY <1>2, <1>4, <1>5, <1>8
  <2>2. QED
    BY <1>3, <2>1 DEF ContextInv, HooksTold, Context!HooksTold
<1>9. QED
  BY <1>6, <1>7, <1>8

LEMMA ContextStep == ContextInv /\ [Context!Next]_contextVars => ContextInv'
<1> SUFFICES ASSUME ContextInv, [Context!Next]_contextVars
             PROVE  SavesTyped' /\ SameEnd' /\ OneEnd' /\ HooksTold'
  BY DEF ContextInv
<1> DEFINE Rest == SameEnd' /\ OneEnd' /\ HooksTold'
<1>1. SavesTyped /\ SavesTyped'
  BY SavesTypedStep DEF ContextInv
<1>2. ASSUME NEW c \in Callers, Context!Leave(c) PROVE Rest
  <2>1. CASE UNCHANGED Context!saveVars
    BY <2>1 DEF ContextInv, SameEnd, OneEnd, HooksTold, Context!HooksTold, Context!saveVars
  <2>2. ASSUME NEW ok \in BOOLEAN, Context!End(Context!Top(c).on, ok), across' = across
        PROVE  Rest
    <3> DEFINE d == Context!Top(c).on
    <3>1. d \in Context!Databases
      BY <1>1, <1>2, TopIsIn DEF Context!Leave, Context!Frames
    <3>2. SameEnd'
      BY <1>1, <2>2, <3>1 DEF ContextInv, SavesTyped, SameEnd, Context!End
    <3>3. OneEnd'
      <4> SUFFICES ASSUME NEW s \in Saves, NEW e \in Context!Databases, s \in open'[e]
                   PROVE  /\ fate'[s] = "open"
                          /\ \A f \in Context!Databases : s \in open'[f] => f = e
        BY DEF OneEnd
      <4>1. \A f \in Context!Databases : open'[f] = IF f = d THEN {} ELSE open[f]
        BY <1>1, <2>2 DEF SavesTyped, Context!End
      <4>2. e # d /\ s \in open[e] /\ s \notin open[d]
        BY <3>1, <4>1 DEF ContextInv, OneEnd
      <4>3. fate'[s] = fate[s]
        BY <2>2, <4>2 DEF Context!End
      <4>4. QED
        BY <4>1, <4>2, <4>3 DEF ContextInv, OneEnd
    <3>4. HooksTold'
      BY <2>2, <3>1, EndTells
    <3>5. QED
      BY <3>2, <3>3, <3>4
  <2>3. QED
    BY <1>2, <2>1, <2>2 DEF Context!Leave
<1>3. ASSUME NEW c \in Callers, NEW d \in Context!Databases,
             Context!Enter(c, d) \/ Context!Turn(c, d)
      PROVE  Rest
  BY <1>3 DEF ContextInv, SameEnd, OneEnd, HooksTold, Context!HooksTold, Context!Enter,
    Context!Turn, Context!saveVars
<1>4. ASSUME NEW c \in Callers, NEW d \in Context!Databases, Context!Save(c, d)
      PROVE  Rest
  <2> PICK n \in Saves : Context!Save(c, d)!2!(n)
    BY <1>4 DEF Context!Save
  <2>1. /\ n \in across \/ told[n] = "none"
        /\ \A e \in Context!Databases : n \notin open[e]
    BY <1>1 DEF ContextInv, SavesTyped, OneEnd, HooksTold, Context!HooksTold
  <2>2. /\ \A s \in Saves \ {n} : fate'[s] = fate[s] /\ told'[s] = told[s]
        /\ skipped' = skipped
    <3>1. \A s \in Saves \ {n} : fate'[s] = fate[s] /\ told'[s] = told[s]
      BY <1>1 DEF SavesTyped
    <3>2. skipped' = skipped
      BY <1>4 DEF Context!Save
    <3>3. QED
      BY <3>1, <3>2
  <2>3. told[n] # "none" => told'[n] # "none"
    BY <1>1 DEF SavesTyped
  <2>4. \A s \in Saves : told[s] # "none" => told'[s] # "none"
    BY <2>2, <2>3
  <2>5. open' = open \/ (fate'[n] = "open" /\ open' = [open EXCEPT ![d] = @ \cup {n}])
    BY <1>1 DEF SavesTyped
  <2>6. OneEnd'
    <3>1. open \in [Context!Databases -> SUBSET Saves]
      BY <1>1 DEF SavesTyped
    <3>2. CASE open' = open
      BY <2>1, <2>2, <3>2 DEF ContextInv, OneEnd
    <3>3. CASE fate'[n] = "open" /\ open' = [open EXCEPT ![d] = @ \cup {n}]
      <4>1. \A e \in Context!Databases : open'[e] = IF e = d THEN open[e] \cup {n} ELSE open[e]
        BY <3>1, <3>3, AddOne
      <4>2. QED
        BY <2>1, <2>2, <3>3, <4>1 DEF ContextInv, OneEnd
    <3>4. QED
      BY <2>5, <3>2, <3>3
  <2>7. ASSUME NEW s \in Saves \ {n}, s \notin across
        PROVE  /\ told'[s] = "success" => fate'[s] = "committed"
               /\ told'[s] = "error" => fate'[s] = "rolled back"
               /\ fate'[s] \in {"committed", "rolled back"} /\ told'[s] = "none" =>
                    s \in skipped' /\ \E r \in Saves : r < s /\ told'[r] # "none"
    BY <2>2, <2>4, <2>7 DEF ContextInv, HooksTold, Context!HooksTold
  <2>8. CASE stack[c] = <<>>
    <3>1. ~Context!In(c, d)
      BY <2>8 DEF Context!In
    <3>2. fate'[n] = "committed" /\ told'[n] = "success" /\ UNCHANGED <<open, hooks, across>>
      BY <1>1, <2>8, <3>1 DEF SavesTyped
    <3>3. SameEnd'
      BY <3>2 DEF ContextInv, SameEnd
    <3>4. HooksTold'
      BY <2>7, <3>2 DEF HooksTold, Context!HooksTold
    <3>5. QED
      BY <2>6, <3>3, <3>4
  <2>9. CASE stack[c] # <<>> /\ Context!Top(c).on = d
    <3>1. Context!In(c, d)
      BY <1>1, <2>9, TopIsIn
    <3>2. fate'[n] = "open" /\ told' = told /\ across' = across
      BY <1>1, <2>9, <3>1 DEF SavesTyped
    <3>3. /\ open' = [open EXCEPT ![d] = @ \cup {n}]
          /\ hooks' = [hooks EXCEPT ![d] = @ \cup {n}]
      BY <2>9, <3>1 DEF Context!Info
    <3>4. \A e \in Context!Databases :
            /\ open'[e] = IF e = d THEN open[e] \cup {n} ELSE open[e]
            /\ hooks'[e] = IF e = d THEN hooks[e] \cup {n} ELSE hooks[e]
      <4>1. open \in [Context!Databases -> SUBSET Saves] /\ hooks \in [Context!Databases -> SUBSET Saves]
        BY <1>1 DEF SavesTyped
      <4>2. \A e \in Context!Databases : open'[e] = IF e = d THEN open[e] \cup {n} ELSE open[e]
        BY <3>3, <4>1, AddOne
      <4>3. \A e \in Context!Databases : hooks'[e] = IF e = d THEN hooks[e] \cup {n} ELSE hooks[e]
        BY <3>3, <4>1, AddOne
      <4>4. QED
        BY <4>2, <4>3
    <3>5. SameEnd'
      BY <3>2, <3>4 DEF ContextInv, SameEnd
    <3>6. HooksTold'
      BY <2>1, <2>7, <3>2 DEF HooksTold, Context!HooksTold
    <3>7. QED
      BY <2>6, <3>5, <3>6
  <2>10. CASE stack[c] # <<>> /\ Context!Top(c).on # d
    <3>1. across' = across \cup {n}
      BY <2>10
    <3>2. \A s \in Saves \ {n}, e \in Context!Databases :
            (s \in open'[e] <=> s \in open[e]) /\ (s \in hooks'[e] <=> s \in hooks[e])
      <4>1. \A s \in Saves \ {n}, e \in Context!Databases : s \in open'[e] <=> s \in open[e]
        <5>1. open \in [Context!Databases -> SUBSET Saves]
          BY <1>1 DEF SavesTyped
        <5>2. CASE open' = [open EXCEPT ![d] = @ \cup {n}]
          <6>1. \A e \in Context!Databases :
                  open'[e] = IF e = d THEN open[e] \cup {n} ELSE open[e]
            BY <5>1, <5>2, AddOne
          <6>2. QED
            BY <6>1
        <5>3. QED
          BY <2>5, <5>2
      <4>2. Context!Info(c) \in Context!Databases
        BY <1>1, <2>10, TopIsIn DEF Context!Info, Context!Frames
      <4>3. hooks' = [hooks EXCEPT ![Context!Info(c)] = @ \cup {n}]
        BY <2>10
      <4>4. \A s \in Saves \ {n}, e \in Context!Databases : s \in hooks'[e] <=> s \in hooks[e]
        BY <1>1, <4>2, <4>3, AddOne DEF SavesTyped
      <4>5. QED
        BY <4>1, <4>4
    <3>3. SameEnd'
      BY <3>1, <3>2 DEF ContextInv, SameEnd
    <3>4. HooksTold'
      BY <2>7, <3>1 DEF HooksTold, Context!HooksTold
    <3>5. QED
      BY <2>6, <3>3, <3>4
  <2>11. QED
    BY <2>8, <2>9, <2>10
<1>5. CASE UNCHANGED contextVars
  BY <1>1, <1>5 DEF ContextInv, SameEnd, OneEnd, HooksTold, Context!HooksTold, contextVars
<1>6. QED
  BY <1>1, <1>2, <1>3, <1>4, <1>5 DEF Context!Next

\* Whatever calls a request makes inside each other, and on which databases, the
\* hooks of a save whose innermost transaction is its own database's are told of
\* success only when its row was committed, and of an error only when it was rolled
\* back; once its transaction has ended they are told, unless the hooks of an earlier
\* save of it threw (RunInTransaction, TxInfo, OnComplete and runAfterFuncs).
THEOREM HooksHearTheEnd == PartsSpec => []HooksTold
<1>1. PartsInit => ContextInv
  BY ContextInit DEF PartsInit
<1>2. ContextInv /\ [PartsNext]_<<part, vars, contextVars, logVars>> => ContextInv'
  <2> SUFFICES ASSUME ContextInv, [PartsNext]_<<part, vars, contextVars, logVars>>
               PROVE  ContextInv'
    OBVIOUS
  <2>1. [Context!Next]_contextVars
    BY DEF PartsNext
  <2>2. QED
    BY <2>1, ContextStep
<1>3. ContextInv => HooksTold
  BY DEF ContextInv
<1>4. QED
  BY <1>1, <1>2, <1>3, PTL DEF PartsSpec

-----------------------------------------------------------------------------
(***************************************************************************)
(* LogBatch. An entry that is not lost is in one place: the queue, one of  *)
(* the writes, the messages to the thread, or the database (PlaceInv).     *)
(* Only the thread loses one before the stop ends (WriterInv), and the     *)
(* stop ends when nothing that it owes is on its way (DueInv).             *)
(***************************************************************************)
Once(s) == \A i, j \in DOMAIN s : s[i] = s[j] => i = j
Queued == Logs!ToSet(queue)
Written == UNION {Logs!ToSet(w) : w \in writes}
Posted == Logs!ToSet(wire)
Stored == Logs!ToSet(stored)

LogTyped ==
  /\ queue \in Seq(Nat) /\ wire \in Seq(Nat) /\ stored \in Seq(Nat)
  /\ writes \subseteq Seq(Nat) /\ next \in Nat \ {0}
  /\ writer \in {"none", "starting", "ready", "failed", "closed"}
  /\ stop \in {"no", "flush", "wait", "close", "done"}

PlaceInv ==
  /\ \A e \in Queued \cup Written \cup Posted \cup Stored : e < next
  /\ Once(queue) /\ Once(wire) /\ Once(stored)
  /\ \A w \in writes : w # <<>> /\ Once(w)
  /\ \A v, w \in writes : v # w => Logs!ToSet(v) \cap Logs!ToSet(w) = {}
  /\ Queued \cap (Written \cup Posted \cup Stored) = {}
  /\ Written \cap (Posted \cup Stored) = {}
  /\ Posted \cap Stored = {}

WriterInv ==
  /\ writer = "none" => writes = {} /\ wire = <<>>
  /\ writer = "starting" => wire = <<>>
  /\ writer = "failed" => broken
  /\ writer = "closed" => stop \in {"close", "done"}
  /\ stop = "close" => writer = "closed" /\ wire # <<>> /\ Logs!Last(wire) = 0
  /\ stop = "done" => boot = "down" /\ writer \in {"none", "closed"} /\ wire = <<>>
  /\ 0 \in Posted => stop = "close"
  /\ 0 \notin Queued \cup Written \cup Stored

DueInv ==
  /\ due \subseteq 1..(next - 1)
  /\ ~broken => due \subseteq Queued \cup Written \cup Posted \cup Stored
  /\ stop # "no" => due \cap Queued = {}
  /\ stop = "wait" => \A w \in writes : Logs!Last(w) \in awaited \/ due \cap Logs!ToSet(w) = {}
  /\ stop \in {"close", "done"} => due \cap Written = {}

LogInv == LogTyped /\ PlaceInv /\ WriterInv /\ DueInv

LEMMA AppendOnce ==
  ASSUME NEW s \in Seq(Nat), NEW e \in Nat
  PROVE  /\ Append(s, e) \in Seq(Nat) /\ Append(s, e) # <<>>
         /\ Logs!ToSet(Append(s, e)) = Logs!ToSet(s) \cup {e}
         /\ Logs!Last(Append(s, e)) = e
         /\ Once(s) /\ e \notin Logs!ToSet(s) => Once(Append(s, e))
<1> DEFINE t == Append(s, e)
<1>1. /\ t \in Seq(Nat) /\ t # <<>> /\ Len(t) = Len(s) + 1
      /\ \A i \in 1..Len(s) : t[i] = s[i]
      /\ t[Len(s) + 1] = e
  BY AppendProperties
<1>2. Len(s) \in Nat /\ DOMAIN s = 1..Len(s) /\ DOMAIN t = 1..(Len(s) + 1)
  BY <1>1, LenProperties
<1> HIDE DEF t
<1>3. Logs!ToSet(t) = Logs!ToSet(s) \cup {e}
  <2>1. \A i \in DOMAIN t : t[i] \in Logs!ToSet(s) \cup {e}
    BY <1>1, <1>2 DEF Logs!ToSet
  <2>2. e = t[Len(s) + 1] /\ Len(s) + 1 \in DOMAIN t
    BY <1>1, <1>2
  <2>3. \A i \in DOMAIN s : i \in DOMAIN t /\ s[i] = t[i]
    BY <1>1, <1>2
  <2>4. QED
    BY <2>1, <2>2, <2>3 DEF Logs!ToSet
<1>4. ASSUME Once(s), e \notin Logs!ToSet(s) PROVE Once(t)
  <2>1. \A i \in DOMAIN s : s[i] # e
    BY <1>4 DEF Logs!ToSet
  <2>2. QED
    BY <1>1, <1>2, <1>4, <2>1 DEF Once
<1>5. QED
  BY <1>1, <1>3, <1>4 DEF t, Logs!Last

LEMMA TailOnce ==
  ASSUME NEW s \in Seq(Nat), s # <<>>
  PROVE  /\ Head(s) \in Nat /\ Tail(s) \in Seq(Nat)
         /\ Logs!ToSet(s) = {Head(s)} \cup Logs!ToSet(Tail(s))
         /\ Len(s) = 1 => Logs!Last(s) = Head(s) /\ Tail(s) = <<>>
         /\ Len(s) # 1 => Tail(s) # <<>> /\ Logs!Last(Tail(s)) = Logs!Last(s)
         /\ Once(s) => Once(Tail(s)) /\ Head(s) \notin Logs!ToSet(Tail(s))
<1> DEFINE t == Tail(s)
<1>1. /\ Head(s) = s[1] /\ Head(s) \in Nat /\ t \in Seq(Nat) /\ Len(t) = Len(s) - 1
      /\ \A i \in 1..Len(t) : t[i] = s[i + 1]
  BY HeadTailProperties
<1>2. /\ Len(s) \in Nat \ {0} /\ DOMAIN s = 1..Len(s)
      /\ DOMAIN t = 1..(Len(s) - 1)
  BY <1>1, EmptySeq, LenProperties
<1> HIDE DEF t
<1>3. Logs!ToSet(s) = {Head(s)} \cup Logs!ToSet(t)
  <2>1. ASSUME NEW i \in DOMAIN s, i # 1 PROVE i - 1 \in DOMAIN t /\ s[i] = t[i - 1]
    <3>1. i - 1 \in 1..(Len(s) - 1) /\ (i - 1) + 1 = i
      BY <1>2, <2>1
    <3>2. t[i - 1] = s[(i - 1) + 1]
      BY <1>1, <3>1
    <3>3. QED
      BY <1>2, <3>1, <3>2
  <2>2. \A i \in DOMAIN t : i + 1 \in DOMAIN s /\ t[i] = s[i + 1]
    BY <1>1, <1>2
  <2>3. 1 \in DOMAIN s
    BY <1>2
  <2>4. QED
    BY <1>1, <2>1, <2>2, <2>3 DEF Logs!ToSet
<1>4. Len(s) = 1 => Logs!Last(s) = Head(s) /\ t = <<>>
  BY <1>1, <1>2, EmptySeq DEF Logs!Last
<1>5. Len(s) # 1 => t # <<>> /\ Logs!Last(t) = Logs!Last(s)
  BY <1>1, <1>2, EmptySeq DEF Logs!Last
<1>6. ASSUME Once(s) PROVE Once(t) /\ Head(s) \notin Logs!ToSet(t)
  <2>1. \A i \in DOMAIN t : i \in Nat \ {0} /\ i + 1 \in DOMAIN s /\ t[i] = s[i + 1]
    BY <1>1, <1>2
  <2>2. Once(t)
    <3> SUFFICES ASSUME NEW i \in DOMAIN t, NEW j \in DOMAIN t, t[i] = t[j] PROVE i = j
      BY DEF Once
    <3>1. i + 1 = j + 1
      BY <2>1, <1>6 DEF Once
    <3>2. QED
      BY <2>1, <3>1
  <2>3. ASSUME NEW i \in DOMAIN t PROVE t[i] # s[1]
    <3>1. 1 \in DOMAIN s /\ i + 1 # 1
      BY <1>2, <2>1
    <3>2. QED
      BY <1>6, <2>1, <3>1 DEF Once
  <2>4. QED
    BY <1>1, <2>2, <2>3 DEF Logs!ToSet
<1>7. QED
  BY <1>1, <1>3, <1>4, <1>5, <1>6 DEF t

LEMMA LastIn ==
  ASSUME NEW s \in Seq(Nat), s # <<>>
  PROVE  Logs!Last(s) \in Logs!ToSet(s)
BY EmptySeq, LenProperties DEF Logs!Last, Logs!ToSet

LEMMA EmptyOnce == Once(<<>>) /\ Logs!ToSet(<<>>) = {}
BY DEF Once, Logs!ToSet

LEMMA LogInit == Logs!Init => LogInv
BY EmptyOnce, EmptySeq DEF Logs!Init, LogInv, LogTyped, PlaceInv, WriterInv, DueInv, Queued,
  Written, Posted, Stored

\* What WriteAll does to the places of the entries.
LEMMA WriteAllSets ==
  ASSUME NEW logs \in Seq(Nat), Logs!WriteAll(logs)
  PROVE  /\ queue' = <<>> /\ Queued' = {}
         /\ \/ /\ boot = "up" /\ logs # <<>> /\ writes' = writes \cup {logs}
               /\ Written' = Written \cup Logs!ToSet(logs) /\ Logs!Discarded(logs) = {}
               /\ writer' = IF writer = "none" THEN "starting" ELSE writer
            \/ /\ writes' = writes /\ Written' = Written /\ writer' = writer
               /\ Logs!Discarded(logs) = Logs!ToSet(logs)
<1>1. queue' = <<>> /\ Queued' = {}
  BY EmptyOnce DEF Logs!WriteAll, Logs!Left, Queued
<1>2. CASE boot = "up" /\ logs # <<>>
  <2>1. writes' = writes \cup {logs} /\ writer' = IF writer = "none" THEN "starting" ELSE writer
    BY <1>2 DEF Logs!WriteAll
  <2>2. Written' = Written \cup Logs!ToSet(logs)
    BY <2>1 DEF Written
  <2>3. QED
    BY <1>1, <1>2, <2>1, <2>2 DEF Logs!Discarded
<1>3. CASE boot = "up" /\ logs = <<>>
  BY <1>1, <1>3, EmptyOnce DEF Logs!WriteAll, Logs!Discarded, Written
<1>4. CASE boot # "up"
  BY <1>1, <1>4 DEF Logs!WriteAll, Logs!Discarded, Written
<1>5. QED
  BY <1>2, <1>3, <1>4

\* WriteAll of the queue, or of the queue and the entry that fills it.
LEMMA WriteAllStep ==
  ASSUME LogInv, NEW logs \in Seq(Nat), Logs!WriteAll(logs), Once(logs),
         Logs!ToSet(logs) \cap (Written \cup Posted \cup Stored) = {},
         next' \in Nat, next <= next',
         \A e \in Logs!ToSet(logs) : e # 0 /\ e < next',
         UNCHANGED <<wire, stored, boot, broken>>,
         stop' = stop \/ (stop = "no" /\ stop' = "flush")
  PROVE  LogTyped' /\ PlaceInv' /\ WriterInv'
<1>1. /\ queue' = <<>> /\ Queued' = {}
      /\ writes' = writes \/ (logs # <<>> /\ writes' = writes \cup {logs})
      /\ Written' = Written \/ Written' = Written \cup Logs!ToSet(logs)
      /\ writer' = writer \/ (boot = "up" /\ writer = "none" /\ writer' = "starting")
      /\ writer' = "none" => writes' = writes /\ writer = "none"
  BY WriteAllSets
<1>2. Posted' = Posted /\ Stored' = Stored
  BY DEF Posted, Stored
<1>3. LogTyped'
  BY <1>1, EmptySeq DEF LogInv, LogTyped
<1>4. PlaceInv'
  <2>1. \A e \in Queued' \cup Written' \cup Posted' \cup Stored' : e < next'
    <3>1. \A e \in Written \cup Posted \cup Stored : e \in Nat /\ e < next
      BY ElementOfSeq, LenProperties DEF LogInv, LogTyped, PlaceInv, Written, Posted, Stored, Logs!ToSet
    <3>2. QED
      BY <1>1, <1>2, <3>1 DEF LogInv, LogTyped
  <2>2. Once(queue') /\ Once(wire') /\ Once(stored')
    BY <1>1, EmptyOnce DEF LogInv, PlaceInv
  <2>3. \A w \in writes' : w # <<>> /\ Once(w)
    BY <1>1 DEF LogInv, PlaceInv
  <2>4. \A v, w \in writes' : v # w => Logs!ToSet(v) \cap Logs!ToSet(w) = {}
    <3>1. \A w \in writes : Logs!ToSet(w) \cap Logs!ToSet(logs) = {}
      BY DEF Written
    <3>2. QED
      BY <1>1, <3>1 DEF LogInv, PlaceInv
  <2>5. Queued' \cap (Written' \cup Posted' \cup Stored') = {}
    BY <1>1
  <2>6. Written' \cap (Posted' \cup Stored') = {} /\ Posted' \cap Stored' = {}
    BY <1>1, <1>2 DEF LogInv, PlaceInv
  <2>7. QED
    BY <2>1, <2>2, <2>3, <2>4, <2>5, <2>6 DEF PlaceInv
<1>5. WriterInv'
  <2>1. 0 \notin Queued' \cup Written' \cup Stored'
    BY <1>1, <1>2 DEF LogInv, WriterInv
  <2>2. QED
    BY <1>1, <1>2, <2>1 DEF LogInv, WriterInv
<1>6. QED
  BY <1>3, <1>4, <1>5

LEMMA LogStep == LogInv /\ Logs!Log => LogInv'
<1> SUFFICES ASSUME LogInv, Logs!Log PROVE LogInv'
  OBVIOUS
<1> DEFINE logs == Append(queue, next)
<1>1. /\ logs \in Seq(Nat) /\ Once(logs) /\ Logs!ToSet(logs) = Queued \cup {next}
      /\ next \in Nat \ {0} /\ next' = next + 1
  <2>1. queue \in Seq(Nat) /\ next \in Nat \ {0} /\ Once(queue) /\ next \notin Queued
    BY DEF LogInv, LogTyped, PlaceInv
  <2>2. QED
    BY <2>1, AppendOnce DEF Queued, Logs!Log
<1>2. \A e \in Queued \cup Written \cup Posted \cup Stored : e \in Nat /\ e < next
  BY ElementOfSeq, LenProperties
    DEF LogInv, LogTyped, PlaceInv, Queued, Written, Posted, Stored, Logs!ToSet
<1>3. next \notin Written \cup Posted \cup Stored \cup due
  BY <1>1, <1>2 DEF LogInv, DueInv
<1>4. /\ Posted' = Posted /\ Stored' = Stored
      /\ UNCHANGED <<boot, stop, awaited, wire, stored, broken>>
  BY DEF Logs!Log, Logs!stopVars, Posted, Stored
<1> HIDE DEF logs
<1>5. CASE queue' = logs /\ UNCHANGED <<writes, writer>>
           /\ due' = IF stop = "no" THEN due \cup {next} ELSE due
  <2>1. Queued' = Queued \cup {next} /\ Written' = Written
    BY <1>1, <1>5 DEF Queued, Written
  <2>2. LogTyped'
    BY <1>1, <1>4, <1>5 DEF LogInv, LogTyped
  <2>3. PlaceInv'
    BY <1>1, <1>2, <1>3, <1>4, <1>5, <2>1 DEF LogInv, PlaceInv
  <2>4. WriterInv'
    BY <1>1, <1>4, <1>5, <2>1 DEF LogInv, WriterInv
  <2>5. DueInv'
    BY <1>1, <1>3, <1>4, <1>5, <2>1 DEF LogInv, DueInv
  <2>6. QED
    BY <2>2, <2>3, <2>4, <2>5 DEF LogInv
<1>6. CASE Logs!WriteAll(logs)
           /\ due' = (IF stop = "no" THEN due \cup {next} ELSE due) \ Logs!Discarded(logs)
  <2>1. Logs!ToSet(logs) \cap (Written \cup Posted \cup Stored) = {}
    BY <1>1, <1>3 DEF LogInv, PlaceInv
  <2>2. \A e \in Logs!ToSet(logs) : e # 0 /\ e < next'
    BY <1>1, <1>2 DEF LogInv, WriterInv
  <2>3. LogTyped' /\ PlaceInv' /\ WriterInv'
    BY <1>1, <1>4, <1>6, <2>1, <2>2, WriteAllStep
  <2>4. /\ Queued' = {}
        /\ \/ /\ writes' = writes \cup {logs} /\ Written' = Written \cup Logs!ToSet(logs)
              /\ Logs!Discarded(logs) = {}
           \/ /\ writes' = writes /\ Written' = Written
              /\ Logs!Discarded(logs) = Logs!ToSet(logs)
    BY <1>1, <1>6, WriteAllSets
  <2>5. DueInv'
    <3>1. due' \subseteq 1..(next' - 1)
      <4>1. due' \subseteq due \cup {next}
        BY <1>6
      <4>2. due \subseteq 1..(next - 1)
        BY DEF LogInv, DueInv
      <4>3. QED
        BY <1>1, <4>1, <4>2
    <3>2. stop # "no" => due' \cap Logs!ToSet(logs) = {} /\ due' \subseteq due
      BY <1>1, <1>3, <1>6 DEF LogInv, DueInv
    <3>3. ~broken => due' \subseteq Queued' \cup Written' \cup Posted \cup Stored
      <4> SUFFICES ASSUME ~broken, NEW e \in due'
                   PROVE  e \in Written' \cup Posted \cup Stored
        OBVIOUS
      <4>1. e \in Logs!ToSet(logs) \cup Written \cup Posted \cup Stored
        BY <1>1, <1>6 DEF LogInv, DueInv
      <4>2. e \notin Logs!Discarded(logs)
        BY <1>6
      <4>3. QED
        BY <2>4, <4>1, <4>2
    <3>4. stop = "wait" =>
            \A w \in writes' : Logs!Last(w) \in awaited \/ due' \cap Logs!ToSet(w) = {}
      BY <2>4, <3>2 DEF LogInv, DueInv
    <3>5. stop \in {"close", "done"} => due' \cap Written' = {}
      BY <2>4, <3>2 DEF LogInv, DueInv
    <3>6. QED
      BY <1>4, <2>4, <3>1, <3>3, <3>4, <3>5 DEF DueInv
  <2>6. QED
    BY <2>3, <2>5 DEF LogInv
<1>7. QED
  BY <1>5, <1>6 DEF Logs!Log, logs

\* The queue, written by the timer or by the stop.
LEMMA QueueWritten ==
  ASSUME LogInv, Logs!WriteAll(queue), UNCHANGED <<next, wire, stored, boot, broken>>,
         stop' = stop \/ (stop = "no" /\ stop' = "flush")
  PROVE  LogTyped' /\ PlaceInv' /\ WriterInv'
<1>1. /\ queue \in Seq(Nat) /\ Once(queue)
      /\ Logs!ToSet(queue) \cap (Written \cup Posted \cup Stored) = {}
      /\ next' \in Nat /\ next <= next'
      /\ \A e \in Logs!ToSet(queue) : e # 0 /\ e < next'
  BY DEF LogInv, LogTyped, PlaceInv, WriterInv, Queued
<1>2. QED
  BY <1>1, WriteAllStep

LEMMA FlushStep == LogInv /\ Logs!Flush => LogInv'
<1> SUFFICES ASSUME LogInv, Logs!Flush PROVE LogInv'
  OBVIOUS
<1>1. /\ Logs!WriteAll(queue) /\ due' = due \ Logs!Discarded(queue)
      /\ UNCHANGED <<boot, next, stop, awaited, wire, stored, broken>>
  BY DEF Logs!Flush, Logs!stopVars
<1>2. LogTyped' /\ PlaceInv' /\ WriterInv'
  BY <1>1, QueueWritten
<1>3. /\ Queued' = {} /\ Posted' = Posted /\ Stored' = Stored
      /\ \/ /\ writes' = writes \cup {queue} /\ Written' = Written \cup Queued
            /\ Logs!Discarded(queue) = {}
         \/ /\ writes' = writes /\ Written' = Written
            /\ Logs!Discarded(queue) = Queued
  BY <1>1, WriteAllSets DEF LogInv, LogTyped, Queued, Posted, Stored
<1>4. DueInv'
  <2>1. due' \subseteq due
    BY <1>1
  <2>2. ~broken => due' \subseteq Written' \cup Posted \cup Stored
    BY <1>1, <1>3 DEF LogInv, DueInv
  <2>3. stop = "wait" =>
          \A w \in writes' : Logs!Last(w) \in awaited \/ due' \cap Logs!ToSet(w) = {}
    BY <1>3, <2>1 DEF LogInv, DueInv, Queued
  <2>4. stop \in {"close", "done"} => due' \cap Written' = {}
    BY <1>3, <2>1 DEF LogInv, DueInv
  <2>5. QED
    BY <1>1, <1>3, <2>1, <2>2, <2>3, <2>4 DEF LogInv, DueInv
<1>5. QED
  BY <1>2, <1>4 DEF LogInv

LEMMA StopBeginStep == LogInv /\ Logs!StopBegin => LogInv'
<1> SUFFICES ASSUME LogInv, Logs!StopBegin PROVE LogInv'
  OBVIOUS
<1>1. boot = "up" /\ stop = "no" /\ UNCHANGED <<next, wire, stored, due, broken>>
  BY DEF Logs!StopBegin
<1>2. CASE /\ queue = <<>> /\ writes = {} /\ writer = "none" /\ Logs!Down
           /\ UNCHANGED <<queue, writes, writer, awaited>>
  <2>1. Queued = {} /\ Written = {} /\ wire = <<>>
    BY <1>2, EmptyOnce DEF Queued, Written, LogInv, WriterInv
  <2>2. /\ Queued' = Queued /\ Written' = Written /\ Posted' = Posted /\ Stored' = Stored
        /\ stop' = "done" /\ boot' = "down" /\ UNCHANGED <<queue, writes, writer>>
    BY <1>1, <1>2 DEF Queued, Written, Posted, Stored, Logs!Down
  <2>3. LogTyped' /\ PlaceInv'
    BY <1>1, <2>2 DEF LogInv, LogTyped, PlaceInv
  <2>4. WriterInv'
    BY <1>1, <1>2, <2>1, <2>2 DEF LogInv, WriterInv
  <2>5. DueInv'
    BY <1>1, <2>1, <2>2 DEF LogInv, DueInv
  <2>6. QED
    BY <2>3, <2>4, <2>5 DEF LogInv
<1>3. CASE stop' = "flush" /\ Logs!WriteAll(queue) /\ UNCHANGED boot
  <2>1. LogTyped' /\ PlaceInv' /\ WriterInv'
    BY <1>1, <1>3, QueueWritten
  <2>2. Logs!Discarded(queue) = {}
    BY <1>1 DEF Logs!Discarded
  <2>3. /\ Queued' = {} /\ Posted' = Posted /\ Stored' = Stored
        /\ Written' = Written \cup Queued
    BY <1>1, <1>3, <2>2, WriteAllSets DEF LogInv, LogTyped, Queued, Posted, Stored
  <2>4. DueInv'
    BY <1>1, <1>3, <2>3 DEF LogInv, DueInv
  <2>5. QED
    BY <2>1, <2>4 DEF LogInv
<1>4. QED
  BY <1>2, <1>3 DEF Logs!StopBegin

LEMMA BootStep == LogInv /\ Logs!Boot => LogInv'
<1> SUFFICES ASSUME LogInv, Logs!Boot PROVE LogInv'
  OBVIOUS
<1>1. /\ boot # "down" /\ boot' = "up"
      /\ UNCHANGED <<queue, next, writes, stop, awaited, writer, wire, stored, due, broken>>
  BY DEF Logs!Boot, Logs!stopVars, Logs!threadVars
<1>2. LogTyped' /\ PlaceInv' /\ DueInv'
  BY <1>1 DEF LogInv, LogTyped, PlaceInv, DueInv, Queued, Written, Posted, Stored
<1>3. WriterInv'
  BY <1>1 DEF LogInv, WriterInv, Queued, Written, Posted, Stored
<1>4. QED
  BY <1>2, <1>3 DEF LogInv

LEMMA StartedStep == LogInv /\ Logs!Started => LogInv'
<1> SUFFICES ASSUME LogInv, Logs!Started PROVE LogInv'
  OBVIOUS
<1>1. /\ writer = "starting"
      /\ (writer' = "ready" /\ broken' = broken) \/ (writer' = "failed" /\ broken')
      /\ broken' \/ ~broken
      /\ UNCHANGED <<queue, next, writes, boot, stop, awaited, wire, stored, due>>
  BY DEF Logs!Started, Logs!Answers, Logs!stopVars
<1>2. /\ Queued' = Queued /\ Written' = Written /\ Posted' = Posted /\ Stored' = Stored
  BY <1>1 DEF Queued, Written, Posted, Stored
<1>3. LogTyped' /\ PlaceInv'
  BY <1>1, <1>2 DEF LogInv, LogTyped, PlaceInv
<1>4. WriterInv'
  BY <1>1, <1>2 DEF LogInv, WriterInv
<1>5. DueInv'
  BY <1>1, <1>2 DEF LogInv, DueInv
<1>6. QED
  BY <1>3, <1>4, <1>5 DEF LogInv

LEMMA StopWaitStep == LogInv /\ Logs!StopWait => LogInv'
<1> SUFFICES ASSUME LogInv, Logs!StopWait PROVE LogInv'
  OBVIOUS
<1>1. /\ stop = "flush" /\ stop' = "wait" /\ awaited' = {Logs!Last(w) : w \in writes}
      /\ UNCHANGED <<queue, next, writes, boot, writer, wire, stored, due, broken>>
  BY DEF Logs!StopWait, Logs!Pending, Logs!threadVars
<1>2. /\ Queued' = Queued /\ Written' = Written /\ Posted' = Posted /\ Stored' = Stored
  BY <1>1 DEF Queued, Written, Posted, Stored
<1>3. LogTyped' /\ PlaceInv' /\ WriterInv'
  BY <1>1, <1>2 DEF LogInv, LogTyped, PlaceInv, WriterInv
<1>4. DueInv'
  BY <1>1, <1>2 DEF LogInv, DueInv
<1>5. QED
  BY <1>3, <1>4 DEF LogInv

\* One entry leaves a write, and no other write has it.
LEMMA PostSets ==
  ASSUME LogInv, NEW w \in writes, Logs!Post(w)
  PROVE  /\ w \in Seq(Nat) /\ Head(w) \in Written /\ Written' = Written \ {Head(w)}
         /\ \A u \in writes' :
              /\ u \in Seq(Nat) /\ u # <<>> /\ Once(u)
              /\ \E v \in writes : Logs!Last(u) = Logs!Last(v) /\ Logs!ToSet(u) \subseteq Logs!ToSet(v)
         /\ \A u, v \in writes' : u # v => Logs!ToSet(u) \cap Logs!ToSet(v) = {}
<1> DEFINE h == Head(w)
           t == Tail(w)
<1>1. w \in Seq(Nat) /\ w # <<>> /\ Once(w) /\ writes \subseteq Seq(Nat)
  BY DEF LogInv, LogTyped, PlaceInv
<1>2. /\ t \in Seq(Nat) /\ Logs!ToSet(w) = {h} \cup Logs!ToSet(t)
      /\ Len(w) = 1 => t = <<>>
      /\ Len(w) # 1 => t # <<>> /\ Logs!Last(t) = Logs!Last(w)
      /\ Once(t) /\ h \notin Logs!ToSet(t)
  BY <1>1, TailOnce
<1>3. writes' = (writes \ {w}) \cup (IF Len(w) = 1 THEN {} ELSE {t})
  BY DEF Logs!Post
<1> HIDE DEF h, t
<1>4. \A v \in writes \ {w} : Logs!ToSet(v) \cap Logs!ToSet(w) = {}
  BY DEF LogInv, PlaceInv
<1>5. h \in Written
  BY <1>2 DEF Written
<1>6. Written' = Written \ {h}
  <2>1. \A e : e \in Written' <=> e \in (UNION {Logs!ToSet(v) : v \in writes \ {w}}) \cup Logs!ToSet(t)
    <3>1. CASE Len(w) = 1
      BY <1>2, <1>3, <3>1, EmptyOnce DEF Written
    <3>2. CASE Len(w) # 1
      BY <1>3, <3>2 DEF Written
    <3>3. QED
      BY <3>1, <3>2
  <2>2. \A e : e \in Written <=>
                 e \in (UNION {Logs!ToSet(v) : v \in writes \ {w}}) \cup {h} \cup Logs!ToSet(t)
    BY <1>2 DEF Written
  <2>3. h \notin (UNION {Logs!ToSet(v) : v \in writes \ {w}}) \cup Logs!ToSet(t)
    BY <1>2, <1>4
  <2>4. QED
    BY <2>1, <2>2, <2>3
<1>7. ASSUME NEW u \in writes'
      PROVE  /\ u \in Seq(Nat) /\ u # <<>> /\ Once(u)
             /\ \E v \in writes : Logs!Last(u) = Logs!Last(v) /\ Logs!ToSet(u) \subseteq Logs!ToSet(v)
  <2>1. CASE u \in writes \ {w}
    BY <1>1, <2>1 DEF LogInv, PlaceInv
  <2>2. CASE Len(w) # 1 /\ u = t
    BY <1>1, <1>2, <2>2
  <2>3. QED
    BY <1>3, <2>1, <2>2
<1>8. ASSUME NEW u \in writes', NEW v \in writes', u # v
      PROVE  Logs!ToSet(u) \cap Logs!ToSet(v) = {}
  <2>1. CASE u \in writes \ {w} /\ v \in writes \ {w}
    BY <1>8, <2>1 DEF LogInv, PlaceInv
  <2>2. CASE u = t /\ v \in writes \ {w}
    BY <1>2, <1>4, <2>2
  <2>3. CASE u \in writes \ {w} /\ v = t
    BY <1>2, <1>4, <2>3
  <2>4. QED
    BY <1>3, <1>8, <2>1, <2>2, <2>3
<1>9. QED
  BY <1>1, <1>5, <1>6, <1>7, <1>8 DEF h

LEMMA PostStep == LogInv /\ (\E w \in writes : Logs!Post(w)) => LogInv'
<1> SUFFICES ASSUME LogInv, NEW w \in writes, Logs!Post(w) PROVE LogInv'
  OBVIOUS
<1> DEFINE h == Head(w)
<1>1. /\ writer # "starting" /\ wire' = IF writer = "ready" THEN Append(wire, h) ELSE wire
      /\ UNCHANGED <<boot, queue, next, stop, awaited, writer, stored, due, broken>>
  BY DEF Logs!Post, Logs!stopVars
<1>2. h \in Written /\ Written' = Written \ {h} /\ h \in Nat
  <2>1. w \in Seq(Nat) /\ w # <<>>
    BY DEF LogInv, LogTyped, PlaceInv
  <2>2. QED
    BY <2>1, PostSets, TailOnce
<1>3. Queued' = Queued /\ Stored' = Stored
  BY <1>1 DEF Queued, Stored
<1>4. /\ wire' \in Seq(Nat) /\ Once(wire')
      /\ Posted' = IF writer = "ready" THEN Posted \cup {h} ELSE Posted
  <2>1. wire \in Seq(Nat) /\ Once(wire) /\ h \notin Posted
    BY <1>2 DEF LogInv, LogTyped, PlaceInv
  <2>2. CASE writer = "ready"
    BY <1>1, <1>2, <2>1, <2>2, AppendOnce DEF Posted
  <2>3. CASE writer # "ready"
    BY <1>1, <2>1, <2>3 DEF Posted
  <2>4. QED
    BY <2>2, <2>3
<1>5. /\ \A u \in writes' :
           /\ u \in Seq(Nat) /\ u # <<>> /\ Once(u)
           /\ \E v \in writes : Logs!Last(u) = Logs!Last(v) /\ Logs!ToSet(u) \subseteq Logs!ToSet(v)
      /\ \A u, v \in writes' : u # v => Logs!ToSet(u) \cap Logs!ToSet(v) = {}
  BY PostSets
<1> HIDE DEF h
<1>6. LogTyped'
  BY <1>1, <1>4, <1>5 DEF LogInv, LogTyped
<1>7. PlaceInv'
  <2>1. \A e \in Queued' \cup Written' \cup Posted' \cup Stored' : e < next'
    BY <1>1, <1>2, <1>3, <1>4 DEF LogInv, PlaceInv
  <2>2. /\ Queued' \cap (Written' \cup Posted' \cup Stored') = {}
        /\ Written' \cap (Posted' \cup Stored') = {} /\ Posted' \cap Stored' = {}
    BY <1>2, <1>3, <1>4 DEF LogInv, PlaceInv
  <2>3. QED
    BY <1>1, <1>4, <1>5, <2>1, <2>2 DEF LogInv, PlaceInv
<1>8. WriterInv'
  <2>1. writer # "none"
    BY DEF LogInv, WriterInv
  <2>2. writer = "ready" \/ wire' = wire
    BY <1>1
  <2>3. 0 \notin Queued' \cup Written' \cup Stored' /\ h # 0
    BY <1>2, <1>3 DEF LogInv, WriterInv
  <2>4. QED
    BY <1>1, <1>4, <2>1, <2>2, <2>3 DEF LogInv, WriterInv
<1>9. DueInv'
  <2>1. ~broken => due \subseteq Queued' \cup Written' \cup Posted' \cup Stored'
    <3>1. CASE writer = "ready"
      BY <1>2, <1>3, <1>4, <3>1 DEF LogInv, DueInv
    <3>2. CASE writer = "closed"
      BY <1>2, <1>3, <1>4, <3>2 DEF LogInv, DueInv, WriterInv
    <3>3. CASE writer = "failed" \/ writer = "none"
      BY <3>3 DEF LogInv, WriterInv
    <3>4. QED
      BY <1>1, <3>1, <3>2, <3>3 DEF LogInv, LogTyped
  <2>2. stop = "wait" =>
          \A u \in writes' : Logs!Last(u) \in awaited \/ due \cap Logs!ToSet(u) = {}
    <3> SUFFICES ASSUME stop = "wait", NEW u \in writes'
                 PROVE  Logs!Last(u) \in awaited \/ due \cap Logs!ToSet(u) = {}
      OBVIOUS
    <3> PICK v \in writes : Logs!Last(u) = Logs!Last(v) /\ Logs!ToSet(u) \subseteq Logs!ToSet(v)
      BY <1>5
    <3>1. Logs!Last(v) \in awaited \/ due \cap Logs!ToSet(v) = {}
      BY DEF LogInv, DueInv
    <3>2. QED
      BY <3>1
  <2>3. QED
    BY <1>1, <1>2, <1>3, <2>1, <2>2 DEF LogInv, DueInv
<1>10. QED
  BY <1>6, <1>7, <1>8, <1>9 DEF LogInv

LEMMA StoreStep == LogInv /\ Logs!Store => LogInv'
<1> SUFFICES ASSUME LogInv, Logs!Store PROVE LogInv'
  OBVIOUS
<1> DEFINE h == Head(wire)
<1>1. /\ h # 0 /\ wire' = Tail(wire) /\ wire # <<>>
      /\ \/ stored' = Append(stored, h) /\ due' = due
         \/ due' = due \ {h} /\ stored' = stored
      /\ UNCHANGED <<boot, queue, next, writes, stop, awaited, writer, broken>>
  BY DEF Logs!Store, Logs!stopVars
<1>2. wire \in Seq(Nat) /\ stored \in Seq(Nat) /\ Once(wire) /\ Once(stored)
  BY DEF LogInv, LogTyped, PlaceInv
<1>3. /\ h \in Nat /\ wire' \in Seq(Nat) /\ Once(wire')
      /\ Posted = {h} \cup Posted' /\ h \notin Posted'
      /\ Len(wire) = 1 => Logs!Last(wire) = h
      /\ Len(wire) # 1 => wire' # <<>> /\ Logs!Last(wire') = Logs!Last(wire)
  BY <1>1, <1>2, TailOnce DEF Posted
<1>4. h \notin Stored
  BY <1>3 DEF LogInv, PlaceInv
<1>5. /\ stored' \in Seq(Nat) /\ Once(stored')
      /\ \/ Stored' = Stored \cup {h} /\ due' = due
         \/ Stored' = Stored /\ due' = due \ {h}
  <2>1. CASE stored' = Append(stored, h) /\ due' = due
    BY <1>2, <1>3, <1>4, <2>1, AppendOnce DEF Stored
  <2>2. CASE due' = due \ {h} /\ stored' = stored
    BY <1>2, <2>2 DEF Stored
  <2>3. QED
    BY <1>1, <2>1, <2>2
<1>6. Queued' = Queued /\ Written' = Written
  BY <1>1 DEF Queued, Written
<1> HIDE DEF h
<1>7. LogTyped'
  BY <1>1, <1>3, <1>5 DEF LogInv, LogTyped
<1>8. PlaceInv'
  <2>1. /\ \A e \in Queued' \cup Written' \cup Posted' \cup Stored' : e < next'
        /\ Queued' \cap (Written' \cup Posted' \cup Stored') = {}
        /\ Written' \cap (Posted' \cup Stored') = {} /\ Posted' \cap Stored' = {}
    BY <1>1, <1>3, <1>5, <1>6 DEF LogInv, PlaceInv
  <2>2. QED
    BY <1>1, <1>3, <1>5, <2>1 DEF LogInv, PlaceInv
<1>9. WriterInv'
  <2>1. writer \notin {"none", "starting"} /\ stop # "done"
    BY <1>1 DEF LogInv, WriterInv
  <2>2. stop = "close" => wire' # <<>> /\ Logs!Last(wire') = 0
    BY <1>1, <1>3 DEF LogInv, WriterInv
  <2>3. 0 \notin Queued' \cup Written' \cup Stored'
    BY <1>1, <1>5, <1>6 DEF LogInv, WriterInv
  <2>4. QED
    BY <1>1, <1>3, <2>1, <2>2, <2>3 DEF LogInv, WriterInv
<1>10. DueInv'
  BY <1>1, <1>3, <1>5, <1>6 DEF LogInv, DueInv
<1>11. QED
  BY <1>7, <1>8, <1>9, <1>10 DEF LogInv

LEMMA StopCloseStep == LogInv /\ Logs!StopClose => LogInv'
<1> SUFFICES ASSUME LogInv, Logs!StopClose PROVE LogInv'
  OBVIOUS
<1>1. /\ stop = "wait" /\ UNCHANGED <<queue, next, writes, awaited, stored, due, broken>>
      /\ \A w \in writes : Logs!Last(w) \notin awaited
  BY DEF Logs!StopClose, Logs!Ended
<1>2. due \cap Queued = {} /\ due \cap Written = {}
  BY <1>1 DEF LogInv, DueInv, Written
<1>3. Queued' = Queued /\ Written' = Written /\ Stored' = Stored
  BY <1>1 DEF Queued, Written, Stored
<1>4. CASE writer = "none" /\ Logs!Down /\ UNCHANGED <<writer, wire>>
  <2>1. stop' = "done" /\ boot' = "down" /\ wire' = wire /\ Posted' = Posted
    BY <1>4 DEF Logs!Down, Posted
  <2>2. LogTyped' /\ PlaceInv'
    BY <1>1, <1>3, <1>4, <2>1 DEF LogInv, LogTyped, PlaceInv
  <2>3. WriterInv'
    BY <1>1, <1>3, <1>4, <2>1 DEF LogInv, WriterInv
  <2>4. DueInv'
    BY <1>1, <1>2, <1>3, <2>1 DEF LogInv, DueInv
  <2>5. QED
    BY <2>2, <2>3, <2>4 DEF LogInv
<1>5. CASE /\ writer # "none" /\ stop' = "close" /\ writer' = "closed"
           /\ wire' = Append(wire, 0)
  <2>1. wire \in Seq(Nat) /\ Once(wire) /\ 0 \notin Posted
    BY <1>1 DEF LogInv, LogTyped, PlaceInv, WriterInv
  <2>2. /\ wire' \in Seq(Nat) /\ wire' # <<>> /\ Once(wire')
        /\ Posted' = Posted \cup {0} /\ Logs!Last(wire') = 0
    BY <1>5, <2>1, AppendOnce DEF Posted
  <2>3. 0 \notin Queued \cup Written \cup Stored /\ 0 < next
    BY DEF LogInv, LogTyped, WriterInv
  <2>4. LogTyped'
    BY <1>1, <1>5, <2>2 DEF LogInv, LogTyped
  <2>5. PlaceInv'
    <3>1. /\ \A e \in Queued' \cup Written' \cup Posted' \cup Stored' : e < next'
          /\ Queued' \cap (Written' \cup Posted' \cup Stored') = {}
          /\ Written' \cap (Posted' \cup Stored') = {} /\ Posted' \cap Stored' = {}
      BY <1>1, <1>3, <2>2, <2>3 DEF LogInv, PlaceInv
    <3>2. QED
      BY <1>1, <2>2, <3>1 DEF LogInv, PlaceInv
  <2>6. WriterInv'
    BY <1>1, <1>3, <1>5, <2>2, <2>3 DEF WriterInv
  <2>7. DueInv'
    BY <1>1, <1>2, <1>3, <1>5, <2>2 DEF LogInv, DueInv
  <2>8. QED
    BY <2>4, <2>5, <2>6, <2>7 DEF LogInv
<1>6. QED
  BY <1>4, <1>5 DEF Logs!StopClose

LEMMA ClosedStep == LogInv /\ Logs!Closed => LogInv'
<1> SUFFICES ASSUME LogInv, Logs!Closed PROVE LogInv'
  OBVIOUS
<1>1. /\ stop = "close" /\ stop' = "done" /\ boot' = "down" /\ wire' = <<>>
      /\ (Head(wire) = 0 /\ broken' = broken) \/ (Head(wire) # 0 /\ broken')
      /\ UNCHANGED <<queue, next, writes, awaited, writer, stored, due>>
  BY DEF Logs!Closed, Logs!Down
<1>2. Queued' = Queued /\ Written' = Written /\ Stored' = Stored /\ Posted' = {}
  BY <1>1, EmptyOnce DEF Queued, Written, Stored, Posted
<1>3. writer = "closed" /\ wire # <<>> /\ Logs!Last(wire) = 0 /\ wire \in Seq(Nat) /\ Once(wire)
  BY <1>1 DEF LogInv, LogTyped, PlaceInv, WriterInv
<1>4. Head(wire) = 0 => Posted = {0}
  \* The message to close is the last one, and there is only one.
  <2> SUFFICES ASSUME Head(wire) = 0 PROVE Posted = {0}
    OBVIOUS
  <2>1. /\ Tail(wire) \in Seq(Nat) /\ Posted = {Head(wire)} \cup Logs!ToSet(Tail(wire))
        /\ Len(wire) = 1 => Tail(wire) = <<>>
        /\ Len(wire) # 1 => Tail(wire) # <<>> /\ Logs!Last(Tail(wire)) = Logs!Last(wire)
        /\ Head(wire) \notin Logs!ToSet(Tail(wire))
    BY <1>3, TailOnce DEF Posted
  <2>2. CASE Len(wire) = 1
    BY <2>1, <2>2, EmptyOnce
  <2>3. CASE Len(wire) # 1
    BY <1>3, <2>1, <2>3, LastIn
  <2>4. QED
    BY <2>2, <2>3
<1>5. LogTyped'
  BY <1>1, EmptySeq DEF LogInv, LogTyped
<1>6. PlaceInv'
  BY <1>1, <1>2, EmptyOnce DEF LogInv, PlaceInv
<1>7. WriterInv'
  BY <1>1, <1>2, <1>3 DEF LogInv, WriterInv
<1>8. DueInv'
  <2>1. ~broken' => due \subseteq Queued \cup Written \cup Stored
    <3> SUFFICES ASSUME ~broken' PROVE due \subseteq Queued \cup Written \cup Stored
      OBVIOUS
    <3>1. Posted = {0} /\ ~broken
      BY <1>1, <1>4
    <3>2. 0 \notin due
      BY DEF LogInv, DueInv
    <3>3. QED
      BY <3>1, <3>2 DEF LogInv, DueInv
  <2>2. QED
    BY <1>1, <1>2, <2>1 DEF LogInv, DueInv
<1>9. QED
  BY <1>5, <1>6, <1>7, <1>8 DEF LogInv

LEMMA LogsStep == LogInv /\ [Logs!Next]_logVars => LogInv'
<1> SUFFICES ASSUME LogInv, [Logs!Next]_logVars PROVE LogInv'
  OBVIOUS
<1>1. CASE UNCHANGED logVars
  BY <1>1 DEF logVars, LogInv, LogTyped, PlaceInv, WriterInv, DueInv, Queued, Written, Posted,
    Stored
<1>2. QED
  BY <1>1, LogStep, FlushStep, BootStep, StartedStep, StoreStep, PostStep, StopBeginStep,
    StopWaitStep, StopCloseStep, ClosedStep DEF Logs!Next

\* Writes that nobody waits for, a thread that starts late, fails or is terminated,
\* and log calls during the stop: no entry is inserted twice, and when the stop has
\* ended every entry that was logged before it is in the database, unless the thread
\* failed (the hook __pbAppLoggerFlushBeforeStop__, LogWriter and its thread).
THEOREM LogsKeptOnce == PartsSpec => []KeptOnce
<1>1. PartsInit => LogInv
  BY LogInit DEF PartsInit
<1>2. LogInv /\ [PartsNext]_<<part, vars, contextVars, logVars>> => LogInv'
  <2> SUFFICES ASSUME LogInv, [PartsNext]_<<part, vars, contextVars, logVars>> PROVE LogInv'
    OBVIOUS
  <2>1. [Logs!Next]_logVars
    BY DEF PartsNext
  <2>2. QED
    BY <2>1, LogsStep
<1>3. LogInv => KeptOnce
  <2> SUFFICES ASSUME LogInv PROVE KeptOnce
    OBVIOUS
  <2>1. \A i, j \in DOMAIN stored : stored[i] = stored[j] => i = j
    BY DEF LogInv, PlaceInv, Once
  <2>2. stop = "done" => Posted = {} /\ due \cap (Queued \cup Written) = {}
    BY EmptyOnce DEF LogInv, WriterInv, DueInv, Posted
  <2>3. stop = "done" /\ ~broken => due \subseteq Stored
    BY <2>2 DEF LogInv, DueInv
  <2>4. QED
    BY <2>1, <2>3 DEF KeptOnce, Logs!KeptOnce, Stored
<1>4. QED
  BY <1>1, <1>2, <1>3, PTL DEF PartsSpec
=============================================================================
