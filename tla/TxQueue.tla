------------------------------- MODULE TxQueue -------------------------------
(***************************************************************************)
(* The transaction queue of one SQLite connection                          *)
(* (src/core/db_tx.ts).  A worker process writes a database through one    *)
(* connection.  RunInTransaction makes its callers take turns by a chain   *)
(* of promises: a call waits for the promise of the call before it, and    *)
(* the map transactionQueues holds the promise of the last one.            *)
(* RunInTransactionSync runs at once or not at all.                        *)
(*                                                                         *)
(* One action is one turn of the event loop: the code between two awaits.  *)
(***************************************************************************)
EXTENDS Naturals

CONSTANTS
  Tasks,    \* top-level calls of RunInTransaction
  None,     \* no call
  MaxSyncs  \* bound: calls of RunInTransactionSync

ASSUME TxQueueAssumption == None \notin Tasks /\ MaxSyncs \in Nat

VARIABLES
  pc,        \* where the call is
  prev,      \* previous: the call whose promise it awaits, None if resolved
  unlocked,  \* calls that resolved their promise
  mapTail,   \* the entry of transactionQueues
  active,    \* the entry of activeTransactions
  conn,      \* the call whose BEGIN is open on the connection
  txErr,     \* txErr of the call
  committed, \* history: calls whose COMMIT succeeded
  left,      \* ROLLBACK failed: the connection is left in the transaction
  late,      \* calls of which a function of OnComplete failed
  clash,     \* history: a BEGIN was run inside an open transaction
  calls,     \* history: calls made
  order,     \* history: the position of a call, 0 before it is made
  syncs      \* synchronous transactions so far

chainVars == <<prev, unlocked, mapTail>>
callVars == <<calls, order, syncs>>
vars == <<pc, chainVars, active, conn, txErr, committed, left, late, clash, callVars>>

TypeOK ==
  /\ pc \in [Tasks -> {"idle", "waiting", "acquired", "open", "before", "closing",
                       "after", "done"}]
  /\ prev \in [Tasks -> Tasks \cup {None}]
  /\ unlocked \subseteq Tasks
  /\ mapTail \in Tasks \cup {None}
  /\ active \in BOOLEAN
  /\ conn \in Tasks \cup {None}
  /\ txErr \in [Tasks -> BOOLEAN]
  /\ committed \subseteq Tasks
  /\ left \in BOOLEAN /\ late \subseteq Tasks
  /\ clash \in BOOLEAN
  /\ calls \in Nat
  /\ order \in [Tasks -> Nat]
  /\ syncs \in Nat

Goto(t, from, to) == pc[t] = from /\ pc' = [pc EXCEPT ![t] = to]

Init ==
  /\ pc = [t \in Tasks |-> "idle"]
  /\ prev = [t \in Tasks |-> None]
  /\ unlocked = {} /\ mapTail = None /\ active = FALSE /\ conn = None
  /\ txErr = [t \in Tasks |-> FALSE]
  /\ committed = {} /\ left = FALSE /\ late = {} /\ clash = FALSE
  /\ calls = 0 /\ order = [t \in Tasks |-> 0] /\ syncs = 0

\* acquireTransaction, up to the await: the call joins the chain.
Call(t) ==
  /\ Goto(t, "idle", "waiting")
  /\ prev' = [prev EXCEPT ![t] = mapTail]
  /\ mapTail' = t
  /\ calls' = calls + 1
  /\ order' = [order EXCEPT ![t] = calls + 1]
  /\ UNCHANGED <<unlocked, active, conn, txErr, committed, left, late, clash, syncs>>

\* Mutants: the call does not await the chain; it waits for the flag instead.
Turn_Unchained(t) == TRUE
Turn_Flag(t) == ~active

\* A call resolves its promise only when the one before it is resolved, so the
\* chain up to prev[t] is resolved when prev[t] is unlocked.
Turn(t) == prev[t] # None => prev[t] \in unlocked

Acquire(t) ==
  /\ Goto(t, "waiting", "acquired") /\ Turn(t)
  /\ active' = TRUE
  /\ UNCHANGED <<chainVars, conn, txErr, committed, left, late, clash, callVars>>

TailAfter(t) == IF mapTail = t THEN None ELSE mapTail

Unlocks(t) == {t}

\* The closure that acquireTransaction returned.
Release(t) ==
  /\ active' = FALSE
  /\ unlocked' = unlocked \cup Unlocks(t)
  /\ mapTail' = TailAfter(t)

\* On a connection that is left in a transaction BEGIN throws.
Begin(t) ==
  /\ Goto(t, "acquired", "open") /\ ~left
  /\ clash' = (clash \/ conn # None)
  /\ conn' = t
  /\ UNCHANGED <<chainVars, active, txErr, committed, left, late, callVars>>

\* Mutant: the turn is not given back.
BeginFails_Leaks(t) ==
  /\ Goto(t, "acquired", "after")
  /\ txErr' = [txErr EXCEPT ![t] = TRUE]
  /\ UNCHANGED <<chainVars, active, conn, committed, left, late, clash, callVars>>

\* BEGIN throws: nothing was started, the turn ends with an error.
BeginFails(t) ==
  /\ Goto(t, "acquired", "after")
  /\ txErr' = [txErr EXCEPT ![t] = TRUE]
  /\ Release(t)
  /\ UNCHANGED <<prev, conn, committed, left, late, clash, callVars>>

\* The handler returns, and so do the functions registered with BeforeCommit,
\* which are run only when it succeeded.
Handler(t) ==
  /\ \E err \in BOOLEAN :
       /\ Goto(t, "open", IF err THEN "closing" ELSE "before")
       /\ txErr' = [txErr EXCEPT ![t] = err]
  /\ UNCHANGED <<chainVars, active, conn, committed, left, late, clash, callVars>>

BeforeCommit(t) ==
  /\ Goto(t, "before", "closing")
  /\ \E err \in BOOLEAN : txErr' = [txErr EXCEPT ![t] = err]
  /\ UNCHANGED <<chainVars, active, conn, committed, left, late, clash, callVars>>

Commit(t) ==
  /\ Goto(t, "closing", "after") /\ ~txErr[t]
  /\ conn' = None /\ committed' = committed \cup {t}
  /\ Release(t)
  /\ UNCHANGED <<prev, txErr, left, late, clash, callVars>>

\* ROLLBACK may throw, and leave the connection in the transaction.
EndsTx == (conn' = None /\ UNCHANGED left) \/ (left' = TRUE /\ UNCHANGED conn)

\* Mutant: the error of COMMIT is swallowed.
Rollback_Silent(t) ==
  /\ Goto(t, "closing", "after")
  /\ EndsTx
  /\ Release(t)
  /\ UNCHANGED <<prev, txErr, committed, late, clash, callVars>>

\* ROLLBACK after an error, or after a COMMIT that throws.
Rollback(t) ==
  /\ Goto(t, "closing", "after")
  /\ EndsTx /\ txErr' = [txErr EXCEPT ![t] = TRUE]
  /\ Release(t)
  /\ UNCHANGED <<prev, committed, late, clash, callVars>>

\* runAfterFuncs: the functions of OnComplete are told txErr, when the turn is over.
\* One may return an error or throw, whatever became of the transaction.
AfterFuncs(t) ==
  /\ Goto(t, "after", "done")
  /\ late' \in {late, late \cup {t}}
  /\ UNCHANGED <<chainVars, active, conn, txErr, committed, left, clash, callVars>>

\* What RunInTransaction returns: the errors are joined.
Error(t) == txErr[t] \/ t \in late

SyncRefused == active \/ mapTail # None

\* RunInTransactionSync begins, runs and ends in one turn; one that is refused, or
\* whose BEGIN throws, changes nothing.
RunSync ==
  /\ syncs < MaxSyncs /\ ~SyncRefused /\ ~left
  /\ syncs' = syncs + 1
  /\ clash' = (clash \/ conn # None)
  /\ UNCHANGED <<pc, chainVars, active, conn, txErr, committed, left, late, calls, order>>

Run(t) ==
  \/ Acquire(t) \/ Begin(t) \/ BeginFails(t) \/ Handler(t) \/ BeforeCommit(t)
  \/ Commit(t) \/ Rollback(t) \/ AfterFuncs(t)

Next == RunSync \/ \E t \in Tasks : Call(t) \/ Run(t)

\* The event loop goes on, and handlers return.
Fairness == \A t \in Tasks : WF_vars(Run(t))

Spec == Init /\ [][Next]_vars
FairSpec == Spec /\ Fairness

-----------------------------------------------------------------------------
Holding == {"acquired", "open", "before", "closing"}

\* No two transactions share the connection: no BEGIN is run inside another
\* transaction, asynchronous or synchronous, whichever turns interleave.
Isolated == ~clash

\* A call holds the turn alone, and the open transaction is the holder's, unless
\* ROLLBACK failed.
OneHolder ==
  /\ \A t, u \in Tasks : pc[t] \in Holding /\ pc[u] \in Holding => t = u
  /\ conn # None /\ ~left => pc[conn] \in Holding

\* The functions of OnComplete are told an error exactly when the transaction did
\* not commit, whichever of the steps failed; and a caller that is told none can rely
\* on its commit. (One that is told an error cannot conclude the opposite.)
OutcomeTold ==
  \A t \in Tasks :
    /\ pc[t] \in {"after", "done"} => (txErr[t] <=> t \notin committed)
    /\ pc[t] = "done" /\ ~Error(t) => t \in committed

\* The chain of promises implements the queue it stands for.
Outcome(t) ==
  IF t \in committed THEN "committed"
  ELSE IF t \in unlocked THEN "aborted" ELSE "none"

Serial == INSTANCE TxSerial WITH outcome <- [t \in Tasks |-> Outcome(t)]
SerialSpec == Serial!Spec

\* Every call ends: no turn is lost between two calls of the chain.
CallsEnd == \A t \in Tasks : pc[t] = "waiting" ~> pc[t] = "done"
=============================================================================
