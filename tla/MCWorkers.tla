-------------------------------- MODULE MCWorkers --------------------------------
(***************************************************************************)
(* What happens while workers stop and start, in one run: the restore of   *)
(* RestoreDataDir, and the presence of realtime clients and the delivery   *)
(* of events of RealtimePresence. The two share no state, so a behaviour   *)
(* is one of one part, and the other stays as it begins.                   *)
(***************************************************************************)
EXTENDS RestoreDataDir

CONSTANTS Workers, Hosts, PerHost, Sources, MaxEvents, MaxLost, Faults  \* RealtimePresence

\* Clients connect to workers.
ASSUME PresenceAssumption == Hosts \subseteq Workers

VARIABLES
  part,
  life, running, active, queue, started, pending, tasks, chan, view, asks, client, outbox,
  awaiting, counted, made, got, dropped, missed, unknown, lost

presenceVars ==
  <<life, running, active, queue, started, pending, tasks, chan, view, asks, client, outbox,
    awaiting, counted, made, got, dropped, missed, unknown, lost>>

Presence == INSTANCE RealtimePresence WITH MaxFaults <- MaxLost, faults <- lost

\* A worker without clients or events has joined already, the others have not.
PartsInit ==
  /\ part \in {"restore", "presence"} /\ Init /\ Presence!Init
  /\ part # "restore" => first = [data |-> Names, archive |-> Names]
  /\ \A w \in Workers : life[w] = "off" <=> w \in Hosts \union Sources

PartsNext ==
  \/ part = "restore" /\ Next /\ UNCHANGED <<part, presenceVars>>
  \/ part = "presence" /\ Presence!Next /\ UNCHANGED <<part, vars>>

PartsSpec ==
  /\ PartsInit /\ [][PartsNext]_<<part, vars, presenceVars>>
  /\ WF_vars(part = "restore" /\ Run) /\ Presence!Fairness

-----------------------------------------------------------------------------
\* The types of both parts.
PartsTypeOK == TypeOK /\ Presence!TypeOK

\* The properties of RealtimePresence, under their own names.
EventReaches == Presence!EventReaches
Converges == Presence!Converges
=============================================================================
