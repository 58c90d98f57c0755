-------------------------------- MODULE MCMarkers --------------------------------
(***************************************************************************)
(* The files in a data directory by which processes without another link   *)
(* coordinate, in one run: the guard of a primary (PrimaryGuard) and the   *)
(* notification markers of workers (NotifyWatcher). The two share no       *)
(* state, so a behaviour is one of one part, and the other stays as it     *)
(* begins.                                                                 *)
(***************************************************************************)
EXTENDS PrimaryGuard

CONSTANTS Workers, Kinds, MaxSaves, TxKinds, MaxTxs, MaxRestarts, MaxFails  \* NotifyWatcher

VARIABLES
  part,
  committed, last, holder, cache, saving, kind, mark, gone, events, noted, timer, missed, up,
  txs, restarts, fails

notifyVars ==
  <<committed, last, holder, cache, saving, kind, mark, gone, events, noted, timer, missed, up,
    txs, restarts, fails>>

Markers == INSTANCE NotifyWatcher WITH seen <- noted

\* Only in the part of the guard are there processes that start.
PartsInit ==
  /\ part \in {"guard", "markers"}
  /\ IF part = "guard" THEN Init
     ELSE /\ guard = None /\ written = FALSE /\ crashes = 0
          /\ pc = [p \in Procs |-> "stopped"] /\ seen = [p \in Procs |-> None]
  /\ Markers!Init /\ kind = [w \in Workers |-> "settings"]

PartsNext ==
  \/ part = "guard" /\ Next /\ UNCHANGED <<part, notifyVars>>
  \/ part = "markers" /\ Markers!Next /\ UNCHANGED <<part, vars>>

PartsSpec ==
  /\ PartsInit /\ [][PartsNext]_<<part, vars, notifyVars>>
  /\ \A p \in Procs : WF_vars(Run(p))
  /\ Markers!Fairness

-----------------------------------------------------------------------------
\* The properties of NotifyWatcher, under their own names.
SettingsCommitted == Markers!SettingsCommitted
=============================================================================
