-------------------------------- MODULE MCWrites --------------------------------
(***************************************************************************)
(* How one process writes its databases, in one run: the queue of          *)
(* transactions of TxQueue, the nested calls of TxContext, and the log     *)
(* entries of LogBatch. The parts share no state, so a behaviour is one of *)
(* one part, and the others stay as they begin.                            *)
(***************************************************************************)
EXTENDS TxQueue

CONSTANTS
  Callers, Saves, NoCaller, MaxDepth, MaxEnters,  \* TxContext
  Entries, BatchSize                              \* LogBatch

\* The saves of TxContext are numbered in their order.
ASSUME SavesAssumption == Saves \subseteq Nat

VARIABLES
  part,
  holder, line, stack, enters, open, hooks, fate, told, across, skipped,
  boot, queue, timer, next, writes, stop, awaited, writer, wire, stored, due, broken

contextVars == <<holder, line, stack, enters, open, hooks, fate, told, across, skipped>>
logVars ==
  <<boot, queue, timer, next, writes, stop, awaited, writer, wire, stored, due, broken>>

Context == INSTANCE TxContext
Logs == INSTANCE LogBatch

PartsInit ==
  part \in {"queue", "context", "logs"} /\ Init /\ Context!Init /\ Logs!Init

PartsNext ==
  \/ part = "queue" /\ Next /\ UNCHANGED <<part, contextVars, logVars>>
  \/ part = "context" /\ Context!Next /\ UNCHANGED <<part, vars, logVars>>
  \/ part = "logs" /\ Logs!Next /\ UNCHANGED <<part, vars, contextVars>>

\* No part has a step that it must take before its first one.
PartsSpec ==
  /\ PartsInit /\ [][PartsNext]_<<part, vars, contextVars, logVars>>
  /\ Fairness /\ Context!Fairness /\ Logs!Fairness

-----------------------------------------------------------------------------
\* The types of all parts.
PartsTypeOK == TypeOK /\ Context!TypeOK /\ Logs!TypeOK

\* The properties of TxContext and LogBatch, under their own names.
HooksTold == Context!HooksTold
TurnComes == Context!TurnComes
KeptOnce == Logs!KeptOnce
StopEnds == Logs!StopEnds
=============================================================================
