---------------------------- MODULE PrimaryGuard ----------------------------
(***************************************************************************)
(* The guard file that gives one primary process a data directory          *)
(* (src/internal/cluster/primary.ts, acquirePrimaryGuard).  Several        *)
(* processes that share nothing but the directory start at any time; one   *)
(* action is one file-system call with the code up to the next one.        *)
(***************************************************************************)
EXTENDS Naturals

CONSTANTS
  Procs,      \* processes that start, each with its own PID and token
  Dead,       \* a process that ended long ago
  None,       \* no file
  MaxCrashes, \* bound: processes that are killed
  Guards      \* what the guard file may say before anyone starts

ASSUME GuardAssumption ==
  Dead \notin Procs /\ None \notin Procs \cup {Dead} /\ MaxCrashes \in Nat
  /\ Guards \subseteq {None, Dead}

VARIABLES
  guard,   \* the process that made the file at the path of the guard
  written, \* the file has its content
  pc,      \* where each process is
  seen,    \* existing: the owner that a process read
  crashes

vars == <<guard, written, pc, seen, crashes>>

TypeOK ==
  /\ guard \in Procs \cup {Dead, None}
  /\ written \in BOOLEAN
  /\ pc \in [Procs -> {"start", "write", "owner", "read", "stat", "recheck", "rename",
                       "release", "unlink", "stopped", "refused", "killed"}]
  /\ seen \in [Procs -> Procs \cup {Dead, None}]
  /\ \A p \in Procs : pc[p] \in {"stat", "recheck", "rename"} => seen[p] # None
  /\ crashes \in 0..MaxCrashes

\* isPidAlive
Alive(p) == p \in Procs /\ pc[p] \notin {"stopped", "refused", "killed"}

\* readGuardOwner: null for a file that is gone or has no content yet.
ReadOwner == IF written THEN guard ELSE None

Goto(p, from, to) == pc[p] = from /\ pc' = [pc EXCEPT ![p] = to]

Init ==
  /\ guard \in Guards /\ written = (guard # None)
  /\ pc = [p \in Procs |-> "start"] /\ seen = [p \in Procs |-> None]
  /\ crashes = 0

\* Mutant: the file is opened even if there is one.
Absent_Ignored == TRUE
Absent == guard = None

\* open(path, "wx")
Create(p) ==
  /\ Absent /\ Goto(p, "start", "write")
  /\ guard' = p /\ written' = FALSE
  /\ UNCHANGED <<seen, crashes>>

CreateExists(p) ==
  /\ guard # None /\ Goto(p, "start", "read")
  /\ UNCHANGED <<guard, written, seen, crashes>>

\* The content goes to the file that was opened, wherever it is by now.
Write(p) ==
  /\ Goto(p, "write", "owner")
  /\ written' = (written \/ guard = p)
  /\ UNCHANGED <<guard, seen, crashes>>

\* Mutant: an invalid guard is stale.
Refuses_Invalid(o) == o = None
Refuses(o) == o = None \/ Alive(o)

Read(p) ==
  /\ seen' = [seen EXCEPT ![p] = ReadOwner]
  /\ Goto(p, "read", IF Refuses(ReadOwner) THEN "refused" ELSE "stat")
  /\ UNCHANGED <<guard, written, crashes>>

\* The heartbeat is old enough, or the process sleeps until it would be; stat
\* throws when the file is gone.
Stat(p) ==
  /\ \/ guard = None /\ Goto(p, "stat", "refused")
     \/ guard # None /\ \E to \in {"rename", "recheck"} : Goto(p, "stat", to)
  /\ UNCHANGED <<guard, written, seen, crashes>>

Recheck(p) ==
  /\ Goto(p, "recheck", IF ReadOwner # seen[p] \/ Alive(seen[p]) THEN "start" ELSE "rename")
  /\ UNCHANGED <<guard, written, seen, crashes>>

\* Mutant: the file is copied aside.
Moved_Copied == UNCHANGED <<guard, written>>
Moved == guard' = None /\ written' = FALSE

\* rename moves away the file that is at the path now; then the loop restarts.
Rename(p) ==
  /\ Goto(p, "rename", "start")
  /\ Moved
  /\ UNCHANGED <<seen, crashes>>

Stop(p) ==
  /\ Goto(p, "owner", "release")
  /\ UNCHANGED <<guard, written, seen, crashes>>

\* release reads the token, and removes the file if it is its own.
Release(p) ==
  /\ Goto(p, "release", IF ReadOwner = p THEN "unlink" ELSE "stopped")
  /\ UNCHANGED <<guard, written, seen, crashes>>

Unlink(p) ==
  /\ Goto(p, "unlink", "stopped")
  /\ guard' = None /\ written' = FALSE
  /\ UNCHANGED <<seen, crashes>>

Crash(p) ==
  /\ Alive(p) /\ crashes < MaxCrashes /\ crashes' = crashes + 1
  /\ pc' = [pc EXCEPT ![p] = "killed"]
  /\ UNCHANGED <<guard, written, seen>>

Run(p) ==
  Create(p) \/ CreateExists(p) \/ Write(p) \/ Read(p) \/ Stat(p) \/ Recheck(p)
  \/ Rename(p) \/ Release(p) \/ Unlink(p)

Next == \E p \in Procs : Run(p) \/ Stop(p) \/ Crash(p)

Spec == Init /\ [][Next]_vars
FairSpec == Spec /\ \A p \in Procs : WF_vars(Run(p))

-----------------------------------------------------------------------------
\* Two processes never own the data directory at once.
OneOwner == \A p, q \in Procs : pc[p] = "owner" /\ pc[q] = "owner" => p = q

\* A process that is dead may have left its guard.
Disturbed == crashes > 0 \/ Dead \in Guards

\* As long as no owner died with its guard in place there is one owner at a time,
\* however many processes start and stop.
OneOwnerAlive == Disturbed \/ OneOwner

\* The file of a process that owns the directory goes only with the rename of one
\* that took the owner it had read for dead, and was right, or with the release of
\* one that found its own file there a moment before.
GuardKept ==
  [][\A p \in Procs : pc[p] = "owner" /\ guard = p /\ guard' # p =>
       \E q \in Procs : \/ pc[q] = "rename" /\ seen[q] # None /\ ~Alive(seen[q])
                        \/ pc[q] = "unlink" /\ Disturbed]_vars

\* Every process that starts gets the directory or is refused: none goes round for
\* ever or waits for an owner, and the guard of a dead one is taken over.
StartEnds ==
  <>[](\A p \in Procs : pc[p] \notin {"start", "write", "read", "stat", "recheck", "rename"})
=============================================================================
