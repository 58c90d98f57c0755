---------------------------- MODULE ClusterBackup ----------------------------
(***************************************************************************)
(* A backup in a cluster (src/core/base_backup.ts, CreateBackup, with the  *)
(* backup lease of src/internal/cluster/coordinator.ts and primary.ts).    *)
(*                                                                         *)
(* The owner of the lease snapshots the database and then archives the     *)
(* storage files, while all workers go on creating and deleting records    *)
(* with files.  A worker reports a file only when its store says that a    *)
(* backup is active, which the primary broadcasts to the ready workers.    *)
(*                                                                         *)
(* A lease is known by its number; 0 stands for none.  chan[w] is the IPC  *)
(* channel of backup.state deliveries, which is first-in, first-out.       *)
(***************************************************************************)
EXTENDS Naturals, Sequences, FiniteSets

CONSTANTS
  Workers, \* worker processes
  Joiners, \* workers that may be not ready in the initial state
  Files,   \* storage files, each of one record
  None,    \* no worker
  MaxLeases, \* bound: leases requested
  MaxFaults, \* bound: faults that happen
  Faults     \* the kinds of fault that happen

FaultKinds == {
  "timeout", \* a delivery of an acquire times out
  "request", \* the worker gives up waiting for the primary's answer to its acquire
  "error",   \* a step of CreateBackup fails
  "capture", \* a deleted file cannot be captured
  "exit" }   \* a worker exits

ASSUME BackupAssumption ==
  /\ Joiners \subseteq Workers /\ None \notin Workers
  /\ MaxLeases \in Nat /\ MaxFaults \in Nat /\ Faults \subseteq FaultKinds

VARIABLES
  joining, \* the workers that are not ready at first
  wst,     \* the worker as the primary sees it
  chan,    \* deliveries of backup.state on their way to the worker
  store,   \* the worker's StoreKeyActiveBackup
  lease,   \* backupLease.workerId
  name,    \* the number of the last lease
  phase,   \* backupLease.phase
  waiting, \* ready workers that did not yet answer the acquire's delivery
  pc,      \* how far a worker is with CreateBackup
  file,    \* the life of a storage file and of its record
  by,      \* the worker that creates or deletes it
  snap,    \* files that the main database snapshot refers to
  overrides, \* captured deleted files
  excluded,  \* files reported as new
  entries,   \* files the archive has yet to read
  archive,   \* files in the archive
  uncaptured, \* history: deleted files that this backup failed to capture
  abandoned,  \* history: the worker gave up before it was granted this lease
  faults

memberVars == <<joining, wst, chan, store>>
leaseVars == <<lease, name, phase, waiting>>
fileVars == <<file, by>>
planVars == <<snap, overrides, excluded, entries, archive, uncaptured, abandoned>>
vars == <<memberVars, leaseVars, pc, fileVars, planVars, faults>>

TypeOK ==
  /\ joining \subseteq Joiners
  /\ wst \in [Workers -> {"new", "told", "sync", "ready", "gone"}]
  /\ chan \in [Workers -> Seq(0..MaxLeases)]
  /\ store \in [Workers -> 0..MaxLeases]
  /\ lease \in Workers \cup {None}
  /\ name \in 0..MaxLeases
  /\ phase \in {"idle", "delete", "write"}
  /\ waiting \subseteq Workers
  /\ pc \in [Workers -> {"idle", "acquiring", "held", "delete", "snapshot", "write",
                         "read", "archived", "finish"}]
  /\ file \in [Files -> {"absent", "report", "store", "stored", "live", "deleted",
                         "capture", "unlink", "left", "removed"}]
  /\ by \in [Files -> Workers \cup {None}]
  /\ \A f \in Files : file[f] \notin {"absent", "live"} => by[f] \in Workers
  /\ \A S \in {snap, overrides, excluded, entries, archive, uncaptured} : S \subseteq Files
  /\ abandoned \in BOOLEAN
  /\ faults \in 0..MaxFaults

ReadyWorkers == {w \in Workers : wst[w] = "ready"}
Serving == {w \in Workers : wst[w] # "gone"}
OnDisk == {f \in Files : file[f] \in {"stored", "live", "deleted", "capture", "unlink", "left"}}

Fault(kind) == kind \in Faults /\ faults < MaxFaults /\ faults' = faults + 1

Broadcast(S, n) == chan' = [w \in Workers |-> IF w \in S THEN Append(chan[w], n) ELSE chan[w]]

Init ==
  /\ joining \in SUBSET Joiners
  /\ wst = [w \in Workers |-> IF w \in joining THEN "new" ELSE "ready"]
  /\ chan = [w \in Workers |-> <<>>] /\ store = [w \in Workers |-> 0]
  /\ lease = None /\ name = 0 /\ phase = "idle" /\ waiting = {}
  /\ pc = [w \in Workers |-> "idle"]
  /\ file \in [Files -> {"absent", "live"}] /\ by = [f \in Files |-> None]
  /\ snap = {} /\ overrides = {} /\ excluded = {} /\ entries = {} /\ archive = {}
  /\ uncaptured = {} /\ abandoned = FALSE
  /\ faults = 0

-----------------------------------------------------------------------------
(***************************************************************************)
(* A worker joins.  It serves requests before it reports that it is ready; *)
(* the handler of worker.ready sends it the active backup, if there is     *)
(* one, and then the realtime presence, and awaits both.                   *)
(***************************************************************************)
WorkerReady(w) ==
  /\ wst[w] = "new"
  /\ wst' = [wst EXCEPT ![w] = IF lease = None THEN "sync" ELSE "told"]
  /\ IF lease = None THEN UNCHANGED chan ELSE Broadcast({w}, name)
  /\ UNCHANGED <<joining, store, leaseVars, pc, fileVars, planVars, faults>>

JoinTold(w) ==
  /\ wst[w] = "told" /\ chan[w] = <<>>
  /\ wst' = [wst EXCEPT ![w] = "sync"]
  /\ UNCHANGED <<joining, chan, store, leaseVars, pc, fileVars, planVars, faults>>

JoinReady(w) ==
  /\ wst[w] = "sync"
  /\ wst' = [wst EXCEPT ![w] = "ready"]
  /\ UNCHANGED <<joining, chan, store, leaseVars, pc, fileVars, planVars, faults>>

\* The worker sets or removes the key, and answers.
Receive(w) ==
  /\ chan[w] # <<>>
  /\ store' = [store EXCEPT ![w] = Head(chan[w])]
  /\ chan' = [chan EXCEPT ![w] = Tail(@)]
  /\ waiting' = IF Head(chan[w]) = name THEN waiting \ {w} ELSE waiting
  /\ UNCHANGED <<joining, wst, lease, name, phase, pc, fileVars, planVars, faults>>

-----------------------------------------------------------------------------
(***************************************************************************)
(* The lease.                                                              *)
(***************************************************************************)

\* Mutant: the lease is not looked at.
Free_Always == TRUE
Free == lease = None

\* backup.acquire, up to the await of the ready workers' answers.
Acquire(w) ==
  /\ w \in Serving /\ pc[w] = "idle" /\ name < MaxLeases
  /\ Free
  /\ lease' = w /\ name' = name + 1 /\ phase' = "idle"
  /\ waiting' = ReadyWorkers
  /\ Broadcast(ReadyWorkers, name + 1)
  /\ pc' = [pc EXCEPT ![w] = "acquiring"]
  /\ snap' = {} /\ overrides' = {} /\ excluded' = {} /\ entries' = {} /\ archive' = {}
  /\ uncaptured' = {} /\ abandoned' = FALSE
  /\ UNCHANGED <<joining, wst, store, fileVars, faults>>

AcquireDone(w) ==
  /\ pc[w] = "acquiring" /\ lease = w /\ waiting = {}
  /\ pc' = [pc EXCEPT ![w] = "held"]
  /\ UNCHANGED <<memberVars, leaseVars, fileVars, planVars, faults>>

\* The worker gives up waiting for the answer; the primary goes on, and grants it
\* a lease that it does not know of, and that nobody releases while it runs.
GiveUp(w) ==
  /\ pc[w] = "acquiring" /\ Fault("request")
  /\ pc' = [pc EXCEPT ![w] = "idle"] /\ abandoned' = TRUE
  /\ UNCHANGED <<memberVars, leaseVars, fileVars, snap, overrides, excluded, entries, archive,
                 uncaptured>>

\* Mutant: the workers are not told that the lease is gone.
Forget_Silent(S) == lease' = None /\ phase' = "idle" /\ waiting' = {} /\ UNCHANGED chan
Forget(S) == lease' = None /\ phase' = "idle" /\ waiting' = {} /\ Broadcast(S, 0)

\* A delivery of the acquire times out: the lease is released again.
AcquireFails(w) ==
  /\ lease = w /\ waiting # {} /\ Fault("timeout")
  /\ Forget(ReadyWorkers)
  /\ pc' = [pc EXCEPT ![w] = "idle"]
  /\ UNCHANGED <<joining, wst, store, name, fileVars, planVars>>

\* backup.release
Release(w) ==
  /\ pc[w] = "finish" /\ lease = w
  /\ Forget(ReadyWorkers)
  /\ pc' = [pc EXCEPT ![w] = "idle"]
  /\ UNCHANGED <<joining, wst, store, name, fileVars, planVars, faults>>

\* Mutant: an acquire goes on waiting for a worker that exited.
Ends_Owner(w) == lease = w
Ends(w) == lease = w \/ (lease # None /\ w \in waiting)

\* A worker exits: its own lease is released, and an acquire that waits for its
\* answer fails.  The file operations it was in the middle of stop.
Exit(w) ==
  /\ w \in Serving /\ Fault("exit")
  /\ IF Ends(w)
     THEN /\ lease' = None /\ phase' = "idle" /\ waiting' = {}
          /\ chan' = [v \in Workers |->
                        IF v = w THEN <<>>
                        ELSE IF v \in ReadyWorkers THEN Append(chan[v], 0) ELSE chan[v]]
          /\ pc' = [pc EXCEPT ![w] = "idle", ![lease] = "idle"]
     ELSE /\ chan' = [chan EXCEPT ![w] = <<>>] /\ pc' = [pc EXCEPT ![w] = "idle"]
          /\ UNCHANGED <<lease, phase, waiting>>
  /\ wst' = [wst EXCEPT ![w] = "gone"]
  /\ store' = [store EXCEPT ![w] = 0]
  /\ file' = [f \in Files |->
                IF by[f] # w THEN file[f]
                ELSE IF file[f] \in {"report", "store"} THEN "absent"
                ELSE IF file[f] \in {"stored", "deleted", "capture", "unlink"} THEN "left"
                ELSE file[f]]
  /\ UNCHANGED <<joining, name, by, planVars>>

-----------------------------------------------------------------------------
(***************************************************************************)
(* CreateBackup under the lease.                                           *)
(***************************************************************************)
Step(w, from, to) == pc[w] = from /\ pc' = [pc EXCEPT ![w] = to]

\* setBackupPhase("delete") and setBackupPhase("write")
PhaseDelete(w) ==
  /\ Step(w, "held", "delete") /\ phase' = "delete"
  /\ UNCHANGED <<memberVars, lease, name, waiting, fileVars, planVars, faults>>

\* VACUUM INTO of the main database
Snapshot(w) ==
  /\ Step(w, "delete", "snapshot")
  /\ snap' = {f \in Files : file[f] = "live"}
  /\ UNCHANGED <<memberVars, leaseVars, fileVars, overrides, excluded, entries, archive,
                 uncaptured, abandoned, faults>>

PhaseWrite(w) ==
  /\ Step(w, "snapshot", "write") /\ phase' = "write"
  /\ UNCHANGED <<memberVars, lease, name, waiting, fileVars, planVars, faults>>

\* collectFilesAsync: the files of the directory, with the captured ones.
Collect(w) ==
  /\ Step(w, "write", "read")
  /\ entries' = overrides \cup (OnDisk \ excluded)
  /\ UNCHANGED <<memberVars, leaseVars, fileVars, snap, overrides, excluded, archive,
                 uncaptured, abandoned, faults>>

\* buildZipAsync, for one entry: the captured file if there is one.
ReadEntry(w) ==
  /\ pc[w] = "read"
  /\ \E f \in entries :
       /\ f \in overrides \cup excluded \cup OnDisk
       /\ entries' = entries \ {f}
       /\ archive' = archive \cup ({f} \cap (overrides \cup (OnDisk \ excluded)))
  /\ UNCHANGED <<memberVars, leaseVars, pc, fileVars, snap, overrides, excluded,
                 uncaptured, abandoned, faults>>

\* The file is gone, and was not captured: the backup fails.
ReadFails(w) ==
  /\ Step(w, "read", "finish")
  /\ entries \ (overrides \cup excluded \cup OnDisk) # {}
  /\ phase' = "idle"
  /\ UNCHANGED <<memberVars, lease, name, waiting, fileVars, planVars, faults>>

\* A step fails: a request to the primary is not answered in time, or a snapshot,
\* the listing of the files, the reading or the writing of an entry fails.
Fails(w) ==
  /\ \E from \in {"held", "delete", "snapshot", "write", "read"} : Step(w, from, "finish")
  /\ Fault("error")
  /\ phase' = "idle"
  /\ UNCHANGED <<memberVars, lease, name, waiting, fileVars, planVars>>

Archived(w) ==
  /\ Step(w, "read", "archived") /\ entries = {}
  /\ UNCHANGED <<memberVars, leaseVars, fileVars, planVars, faults>>

\* setBackupPhase("idle"), then the archive is uploaded.
PhaseIdle(w) ==
  /\ Step(w, "archived", "finish") /\ phase' = "idle"
  /\ UNCHANGED <<memberVars, lease, name, waiting, fileVars, planVars, faults>>

-----------------------------------------------------------------------------
(***************************************************************************)
(* Records with files, in any worker.  A file is stored before its record  *)
(* is committed and removed after the deletion of its record is; the       *)
(* filesystem hooks of attachFilesystemHooks come before either.           *)
(***************************************************************************)
Does(w, f) == by' = [by EXCEPT ![f] = w]

FileStep(f, from, to) == file[f] = from /\ file' = [file EXCEPT ![f] = to]

Upload(w, f) ==
  /\ w \in Serving
  /\ FileStep(f, "absent", IF store[w] # 0 THEN "report" ELSE "store")
  /\ Does(w, f)
  /\ UNCHANGED <<memberVars, leaseVars, pc, planVars, faults>>

\* backup.file-write
ReportWrite(f) ==
  /\ FileStep(f, "report", "store")
  /\ excluded' = IF phase = "write" THEN excluded \cup {f} ELSE excluded
  /\ UNCHANGED <<memberVars, leaseVars, pc, by, snap, overrides, entries, archive,
                 uncaptured, abandoned, faults>>

StoreFile(f) ==
  /\ FileStep(f, "store", "stored")
  /\ UNCHANGED <<memberVars, leaseVars, pc, by, planVars, faults>>

CommitCreate(f) ==
  /\ FileStep(f, "stored", "live")
  /\ UNCHANGED <<memberVars, leaseVars, pc, by, planVars, faults>>

CommitDelete(w, f) ==
  /\ w \in Serving
  /\ FileStep(f, "live", "deleted")
  /\ Does(w, f)
  /\ UNCHANGED <<memberVars, leaseVars, pc, planVars, faults>>

\* The OnDelete hook.
DeleteHook(f) ==
  /\ FileStep(f, "deleted", IF store[by[f]] # 0 THEN "capture" ELSE "unlink")
  /\ UNCHANGED <<memberVars, leaseVars, pc, by, planVars, faults>>

\* Mutant: deletions are captured in the phase of the same name only.
Capturing_One == phase = "delete"
Capturing == phase \in {"delete", "write"}

\* backup.file-delete: backupMutationOwner captures in both phases.  An owner
\* that is not ready cannot be asked, and the file is not removed; but a capture
\* that fails in the owner is only logged there, and the file is removed.
ReportDelete(f) ==
  /\ \/ /\ Capturing /\ wst[lease] = "ready"
        /\ overrides' = overrides \cup {f} /\ FileStep(f, "capture", "unlink")
        /\ UNCHANGED <<uncaptured, faults>>
     \/ /\ Capturing /\ wst[lease] = "ready" /\ Fault("capture")
        /\ uncaptured' = uncaptured \cup {f} /\ FileStep(f, "capture", "unlink")
        /\ UNCHANGED overrides
     \/ /\ Capturing /\ wst[lease] # "ready"
        /\ FileStep(f, "capture", "left") /\ UNCHANGED <<overrides, uncaptured, faults>>
     \/ /\ ~Capturing
        /\ FileStep(f, "capture", "unlink") /\ UNCHANGED <<overrides, uncaptured, faults>>
  /\ UNCHANGED <<memberVars, leaseVars, pc, by, snap, excluded, entries, archive, abandoned>>

Unlink(f) ==
  /\ FileStep(f, "unlink", "removed")
  /\ UNCHANGED <<memberVars, leaseVars, pc, by, planVars, faults>>

FileRun(f) ==
  ReportWrite(f) \/ StoreFile(f) \/ CommitCreate(f) \/ DeleteHook(f) \/ ReportDelete(f)
  \/ Unlink(f)

Join(w) == WorkerReady(w) \/ JoinTold(w) \/ JoinReady(w) \/ Receive(w)

Backup(w) ==
  \/ AcquireDone(w) \/ PhaseDelete(w) \/ Snapshot(w) \/ PhaseWrite(w) \/ Collect(w)
  \/ ReadEntry(w) \/ ReadFails(w) \/ Archived(w) \/ PhaseIdle(w) \/ Release(w)

Next ==
  \/ \E w \in Workers :
       Join(w) \/ Acquire(w) \/ GiveUp(w) \/ AcquireFails(w) \/ Backup(w) \/ Fails(w)
       \/ Exit(w)
       \/ \E f \in Files : Upload(w, f) \/ CommitDelete(w, f)
  \/ \E f \in Files : FileRun(f)

\* Workers answer, a backup goes on, and so does a file operation.
Fairness ==
  /\ \A w \in Workers : WF_vars(Join(w)) /\ WF_vars(Backup(w))
  /\ \A f \in Files : WF_vars(FileRun(f))

Spec == Init /\ [][Next]_vars
FairSpec == Spec /\ Fairness

-----------------------------------------------------------------------------
\* An archive that is complete has every file that its database snapshot refers
\* to, whichever worker deletes it while the backup runs.
SnapshotArchived == \A w \in Workers : pc[w] = "archived" => snap \subseteq archive

\* If it lacks one, then a worker deleted it that joined on the way, or the owner
\* was asked to capture it and failed: the workers that were ready before report
\* what they delete, for as long as the archive is written.
ArchiveComplete ==
  \A w \in Workers : pc[w] = "archived" =>
    \A f \in snap : f \in archive \/ f \in uncaptured \/ by[f] \in joining

\* Once its deliveries are settled, a worker that was ready when the lease was
\* acquired says that a backup is active exactly while one is.
FlagsFollowLease ==
  (\A w \in Workers : chan[w] = <<>>) /\ waiting = {} =>
    \A w \in ReadyWorkers \ joining : store[w] = (IF lease = None THEN 0 ELSE name)

\* Backups do not overlap: one worker runs CreateBackup, and it has the lease.
OneBackup == \A w \in Workers : pc[w] # "idle" => lease = w

\* A lease ends, whatever fails under it, unless its worker gave up before it was
\* granted: then nobody releases it, and it lasts as long as that worker.
BackupEnds == \A w \in Workers : lease = w ~> (lease # w \/ abandoned)
=============================================================================
