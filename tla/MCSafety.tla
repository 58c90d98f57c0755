--------------------------------- MODULE MCSafety ---------------------------------
(***************************************************************************)
(* What must never happen, in one run: in the supervisor                   *)
(* (ClusterSupervisor); in what a primary arbitrates for its workers, that *)
(* is the deletes they tell each other of (RealtimeDelete), rate limits    *)
(* (RateLimit) and claims (ExpiringClaims); in what the workers do to      *)
(* records and collections: files (RecordFiles), hooks (HookTrigger),      *)
(* references (CascadeDelete) and definitions (CollectionSave); and in     *)
(* migrations (MigrationHistory) and thumbs (FileThumbs). The parts share  *)
(* no state, so a behaviour is one of one part, and the others stay as     *)
(* they begin.                                                             *)
(***************************************************************************)
EXTENDS ClusterSupervisor

CONSTANTS
  Remotes, Parent, Child, Ops, MaxMissed,                               \* RealtimeDelete
  Servers, Requests, OldMax, NewMax, Interval, Keep, MaxTime, MaxLate,  \* RateLimit
  TTL, MaxClock,                                                        \* ExpiringClaims
  Savers, Partial, Nobody, MaxSaves, MaxFails,                          \* RecordFiles
  Handlers, Early, Tagged, Events, Matching, OneOff, MaxChanges,        \* HookTrigger
  People, Owners, MaxDeletes, MaxSets,                                  \* CascadeDelete
  Updates, Ids, Names,                                                  \* CollectionSave
  Procs, System, App, Aux, Repaired, MaxRuns, MaxTorn,                  \* MigrationHistory
  Paths, Busy, PerPath, Permits                                         \* FileThumbs

VARIABLES
  part,
  needs, rows, op, holder, cached, key, heard, asked, outbox, awaiting, pubs, chan, prepared,
  got, flaws, missed,
  now, max, limiter, askedMax, waiting, flight, sent, down, status, verdict, windows, late,
  clock, clustered, entry, timers, requests, replies, phase, claimedAt, refusedAt, freed,
  alive, row, stored, writer, txRow, tx, snap, passed, pc, names, new, base, old, marked,
  uploaded, touched, saves, remover, met, raced, fails,
  handlers, len, index, state, ran, bound, gone, shifted, changes,
  people, refs, cascade, required, defined, known, main, from, work, deletes, saving, value,
  sets, gaps,
  def, table, objs, stage, object, original, line, noticed, clashes,
  done, history, mode, list, read, unsaved, runs, torn, lost, twice,
  thumbs, turn, joined, pending, gen, current, queue, forgotten

deleteVars ==
  <<needs, rows, op, holder, cached, key, heard, asked, outbox, awaiting, pubs, chan, prepared,
    got, flaws, missed>>
limitVars ==
  <<now, max, limiter, askedMax, waiting, flight, sent, down, status, verdict, windows, late>>
claimVars ==
  <<clock, clustered, entry, timers, requests, replies, phase, claimedAt, refusedAt, freed>>
fileVars ==
  <<alive, row, stored, writer, txRow, tx, snap, passed, pc, names, new, base, old, marked,
    uploaded, touched, saves, remover, met, raced, fails>>
hookVars == <<handlers, len, index, state, ran, bound, gone, shifted, changes>>
cascadeVars ==
  <<people, refs, cascade, required, defined, known, main, from, work, deletes, saving, value,
    sets, gaps>>
updateVars ==
  <<def, table, objs, stage, object, original, line, noticed, clashes>>
historyVars == <<done, history, mode, list, read, unsaved, runs, torn, lost, twice>>
thumbVars == <<thumbs, turn, joined, pending, gen, current, queue, forgotten>>

Deletes == INSTANCE RealtimeDelete WITH MaxFaults <- MaxMissed, told <- heard, faults <- missed
Limits == INSTANCE RateLimit WITH Workers <- Servers, up <- sent
Claims == INSTANCE ExpiringClaims
Files == INSTANCE RecordFiles
  WITH MaxFaults <- MaxFails, holder <- writer, flaws <- met, faults <- fails
Hooks == INSTANCE HookTrigger
Cascade == INSTANCE CascadeDelete
  WITH Records <- People, MaxSaves <- MaxSets, rows <- people, object <- value, saves <- sets,
       flaws <- gaps
Collections == INSTANCE CollectionSave
  WITH Workers <- Servers, Requests <- Updates, row <- def, pc <- stage, flaws <- clashes
Migrations == INSTANCE MigrationHistory WITH pc <- mode, names <- read, work <- unsaved
Thumbs == INSTANCE FileThumbs WITH stored <- thumbs, pc <- turn

\* What the proofs use of the constants of the parts.
ASSUME PartsAssumption ==
  /\ TTL \in Nat /\ Parent # Child /\ Ops \subseteq Nat \ {0}
  /\ OldMax \in Nat /\ NewMax \in Nat /\ Interval \in Nat /\ Keep \in Nat
  /\ Permits \in Nat /\ Busy \in Paths /\ None \notin Thumbs!Asks
  /\ Nobody \notin Savers /\ OneOff \notin Handlers
  /\ IsFiniteSet(Handlers) /\ IsFiniteSet(People)
  /\ System \union App \subseteq Nat \ {0}
  /\ \E n \in {0} \union System \union App : \A f \in System \union App : f <= n

\* What a part may begin with is chosen in a behaviour of that part alone.
PartsInit ==
  /\ part \in {"supervisor", "deletes", "limits", "claims", "files", "hooks", "cascade", "updates",
              "migrations", "thumbs"}
  /\ Init /\ Limits!Init /\ Files!Init /\ Migrations!Init /\ Thumbs!Init
  /\ Deletes!Init /\ (part # "deletes" => needs = [r \in Deletes!Records |-> {}])
  /\ Claims!Init /\ (part # "claims" => clustered)
  /\ Hooks!Init /\ (part # "hooks" => handlers = <<>>)
  /\ Collections!Init /\ (part # "updates" => def = CHOOSE d \in Collections!Defs : DOMAIN d = Ids)
  /\ Cascade!Init
  /\ part # "cascade" => /\ cascade = {} /\ required = {} /\ defined = Cascade!Fields
                         /\ refs = [f \in Cascade!Fields |-> [r \in People |-> {}]]

PartsNext ==
  \/ /\ part = "supervisor" /\ Next
     /\ UNCHANGED <<part, deleteVars, limitVars, claimVars, fileVars, hookVars, cascadeVars,
                    updateVars, historyVars, thumbVars>>
  \/ /\ part = "deletes" /\ Deletes!Next
     /\ UNCHANGED <<part, vars, limitVars, claimVars, fileVars, hookVars, cascadeVars,
                    updateVars, historyVars, thumbVars>>
  \/ /\ part = "limits" /\ Limits!Next
     /\ UNCHANGED <<part, vars, deleteVars, claimVars, fileVars, hookVars, cascadeVars,
                    updateVars, historyVars, thumbVars>>
  \/ /\ part = "claims" /\ Claims!Next
     /\ UNCHANGED <<part, vars, deleteVars, limitVars, fileVars, hookVars, cascadeVars,
                    updateVars, historyVars, thumbVars>>
  \/ /\ part = "files" /\ Files!Next
     /\ UNCHANGED <<part, vars, deleteVars, limitVars, claimVars, hookVars, cascadeVars,
                    updateVars, historyVars, thumbVars>>
  \/ /\ part = "hooks" /\ Hooks!Next
     /\ UNCHANGED <<part, vars, deleteVars, limitVars, claimVars, fileVars, cascadeVars,
                    updateVars, historyVars, thumbVars>>
  \/ /\ part = "cascade" /\ Cascade!Next
     /\ UNCHANGED <<part, vars, deleteVars, limitVars, claimVars, fileVars, hookVars,
                    updateVars, historyVars, thumbVars>>
  \/ /\ part = "updates" /\ Collections!Next
     /\ UNCHANGED <<part, vars, deleteVars, limitVars, claimVars, fileVars, hookVars,
                    cascadeVars, historyVars, thumbVars>>
  \/ /\ part = "migrations" /\ Migrations!Next
     /\ UNCHANGED <<part, vars, deleteVars, limitVars, claimVars, fileVars, hookVars,
                    cascadeVars, updateVars, thumbVars>>
  \/ /\ part = "thumbs" /\ Thumbs!Next
     /\ UNCHANGED <<part, vars, deleteVars, limitVars, claimVars, fileVars, hookVars,
                    cascadeVars, updateVars, historyVars>>

PartsSpec ==
  PartsInit /\ [][PartsNext]_<<part, vars, deleteVars, limitVars, claimVars, fileVars, hookVars,
                               cascadeVars, updateVars, historyVars, thumbVars>>

-----------------------------------------------------------------------------
(***************************************************************************)
(* The properties of the parts, each looked at in behaviours of its own    *)
(* part: in the others nothing of it moves.                                *)
(***************************************************************************)

\* No client is told of a delete that did not commit, the clients of every worker
\* are told of one that did, and in the order in which events were published; and
\* nobody keeps anything of a delete that is over: OnlyCommitted, DeleteHeard,
\* InOrder and NothingLeft of RealtimeDelete.
DeletesTold ==
  part = "deletes" =>
    Deletes!OnlyCommitted /\ Deletes!DeleteHeard /\ Deletes!InOrder /\ Deletes!NothingLeft

\* The coordinator grants what the rule allows, and a worker answers as it
\* decided: AllowanceKept and ToldDecision of RateLimit.
LimitsKept == part = "limits" => Limits!AllowanceKept /\ Limits!ToldDecision

\* One mail a period, and no longer refused than that: OneMailAPeriod and
\* RefusedInTime of ExpiringClaims.
ClaimsKept == part = "claims" => Claims!OneMailAPeriod /\ Claims!RefusedInTime

\* The storage has the files that the row names, and in the end no others.
FilesMatch == part = "files" => Files!FilesMatch

\* A chain runs, once and in their order, all handlers that are there throughout.
AllRun == part = "hooks" => Hooks!AllRun

\* A delete takes what the cascading relations ask for, and no reference dangles.
NoDangling == part = "cascade" => Cascade!NoDangling

\* The row, the table and the cached definitions of a collection agree.
DefinitionsAgree == part = "updates" => Collections!DefinitionsAgree

\* The history of migrations tells what is in the two databases.
HistoryTrue == part = "migrations" => Migrations!HistoryTrue

\* Generations of thumbs keep to their permits, and lose none.
PermitsKept == part = "thumbs" => Thumbs!PermitsKept
=============================================================================
