------------------------------ MODULE TxSerial ------------------------------
(***************************************************************************)
(* What RunInTransaction promises the callers that share one writing       *)
(* connection: asynchronous transactions end one by one in the order of    *)
(* their calls, each committed or aborted once, and a synchronous          *)
(* transaction runs only when none of them is unfinished.                  *)
(***************************************************************************)
EXTENDS Naturals

CONSTANTS Tasks, MaxSyncs

VARIABLES
  calls,   \* calls made so far
  order,   \* the position of a call, 0 before it is made
  outcome, \* how the transaction of a call ended
  syncs    \* synchronous transactions so far

vars == <<calls, order, outcome, syncs>>

Pending(t) == order[t] > 0 /\ outcome[t] = "none"

Init ==
  /\ calls = 0 /\ syncs = 0
  /\ order = [t \in Tasks |-> 0]
  /\ outcome = [t \in Tasks |-> "none"]

Call(t) ==
  /\ order[t] = 0
  /\ calls' = calls + 1
  /\ order' = [order EXCEPT ![t] = calls + 1]
  /\ UNCHANGED <<outcome, syncs>>

End(t) ==
  /\ Pending(t)
  /\ \A u \in Tasks : Pending(u) => order[t] <= order[u]
  /\ \E o \in {"committed", "aborted"} : outcome' = [outcome EXCEPT ![t] = o]
  /\ UNCHANGED <<calls, order, syncs>>

Sync ==
  /\ \A u \in Tasks : ~Pending(u)
  /\ syncs' = syncs + 1
  /\ UNCHANGED <<calls, order, outcome>>

Next == Sync \/ \E t \in Tasks : Call(t) \/ End(t)
Spec == Init /\ [][Next]_vars
=============================================================================
