--------------------------- MODULE RestoreDataDir ---------------------------
(***************************************************************************)
(* The replacement of the data directory by RestoreBackup                  *)
(* (src/core/base_backup.ts), one rename at a time                         *)
(* (MoveDirContentAsync, src/tools/osutils/dir.ts), up to the next start   *)
(* of the leader, which empties the temp directory.                        *)
(***************************************************************************)
EXTENDS Naturals

CONSTANTS
  Names,     \* entries of the root of a data directory
  Excluded,  \* entries that a restore leaves alone
  Database,  \* data.db
  MaxFaults, \* bound: calls that fail
  Failing    \* the calls that may fail

ASSUME RestoreAssumption ==
  Excluded \subseteq Names /\ Database \in Names \ Excluded /\ MaxFaults \in Nat

VARIABLES
  dir,     \* what each directory has under a name: of the "old" data, of the "new", or "none"
  pc,
  move,    \* the running move
  todo,    \* entries that the running move has yet to rename
  moved,   \* entries it renamed
  result,  \* what RestoreBackup returns so far
  quiesced, \* the cluster is restoring, and its other workers are stopped or about to be
  released, \* the primary gave up the lease of the restore
  stranded, \* history: nobody will ask the primary to go on, or it refused
  first,   \* what the archive and the data directory had at first
  stuck,   \* entries that could not be moved back
  faults

clusterVars == <<quiesced, released, stranded>>
vars == <<dir, pc, move, todo, moved, result, clusterVars, first, stuck, faults>>

Moves == {"old", "new", "undo new", "undo old"}
Empty == [n \in Names |-> "none"]
Holds(S, version) == [n \in Names |-> IF n \in S THEN version ELSE "none"]

TypeOK ==
  /\ dir \in [{"data", "temp", "extracted"} -> [Names -> {"old", "new", "none"}]]
  /\ pc \in {"extract", "quiesce", "restart", "cleanup", "ended", "booted",
            "move", "back"}
  /\ move \in Moves
  /\ todo \subseteq Names /\ moved \subseteq Names /\ stuck \subseteq Names
  /\ result \in {"none", "restored", "failed", "fatal"}
  /\ pc = "back" => todo \subseteq moved
  /\ pc \in {"cleanup", "ended"} => result # "none"
  /\ quiesced \in BOOLEAN /\ released \in BOOLEAN /\ stranded \in BOOLEAN
  /\ faults \in 0..MaxFaults

\* MoveDirContentAsync(Source(m), Target(m), ...Excluded)
Source(m) == IF m = "old" THEN "data" ELSE IF m = "new" THEN "extracted"
             ELSE IF m = "undo new" THEN "data" ELSE "temp"
Target(m) == IF m = "old" THEN "temp" ELSE IF m = "undo new" THEN "extracted" ELSE "data"

Fails(call) == call \in Failing /\ faults < MaxFaults /\ faults' = faults + 1

Init ==
  \E data, archive \in SUBSET Names :
    /\ Database \in data
    /\ first = [data |-> data, archive |-> archive]
    /\ dir = [data |-> Holds(data, "old"), temp |-> Empty, extracted |-> Empty]
    /\ pc = "extract" /\ move = "old" /\ todo = {} /\ moved = {} /\ result = "none"
    /\ quiesced = FALSE /\ released = FALSE /\ stranded = FALSE
    /\ stuck = {} /\ faults = 0

\* The error that ends the restore; kept to the end.
Fail(r) == result' = r /\ pc' = "cleanup"

Extract ==
  /\ pc = "extract"
  /\ dir' = [dir EXCEPT !["extracted"] = Holds(first.archive, "new")]
  /\ IF Database \in first.archive THEN pc' = "quiesce" /\ UNCHANGED result ELSE Fail("failed")
  /\ UNCHANGED <<move, todo, moved, clusterVars, first, stuck, faults>>

\* Mutant: the excluded entries are moved too.
Listed_All(d, m) == {n \in Names : d[Source(m)][n] # "none"}
Listed(d, m) == {n \in Names \ Excluded : d[Source(m)][n] # "none"}

\* MoveDirContentAsync, up to its first rename.
Begin(d, m) == pc' = "move" /\ move' = m /\ todo' = Listed(d, m) /\ moved' = {}

\* beginClusterRestore
Quiesce ==
  /\ pc = "quiesce"
  /\ Begin(dir, "old") /\ quiesced' = TRUE
  /\ UNCHANGED <<dir, result, released, stranded, first, stuck, faults>>

\* The primary refuses, or a worker does not stop: then it stays as it is.
QuiesceFails ==
  /\ pc = "quiesce" /\ Fails("quiesce") /\ Fail("failed")
  /\ quiesced' \in BOOLEAN /\ stranded' = quiesced'
  /\ UNCHANGED <<move, dir, todo, moved, released, first, stuck>>

Renamed(from, to, n) == [dir EXCEPT ![to][n] = dir[from][n], ![from][n] = "none"]

Rename(m) ==
  /\ pc = "move" /\ move = m
  /\ \E n \in todo :
       /\ dir' = Renamed(Source(m), Target(m), n)
       /\ todo' = todo \ {n} /\ moved' = moved \cup {n}
  /\ UNCHANGED <<pc, move, result, clusterVars, first, stuck, faults>>

Undone == moved

RenameFails(m) ==
  /\ pc = "move" /\ move = m /\ todo # {} /\ Fails(m)
  /\ pc' = "back" /\ todo' = Undone
  /\ UNCHANGED <<move, dir, moved, result, clusterVars, first, stuck>>

\* tryRollback goes on after an entry that it cannot move back.
RenameBack(m) ==
  /\ pc = "back" /\ move = m
  /\ \E n \in todo :
       /\ \/ dir' = Renamed(Target(m), Source(m), n) /\ UNCHANGED faults
             /\ UNCHANGED stuck
          \/ Fails("back") /\ UNCHANGED dir /\ stuck' = stuck \cup {n}
       /\ todo' = todo \ {n}
  /\ UNCHANGED <<pc, move, moved, result, clusterVars, first>>

MovedBack(m) ==
  /\ pc = "back" /\ move = m /\ todo = {}
  /\ Fail(IF m \in {"old", "new"} THEN "failed" ELSE "fatal")
  /\ UNCHANGED <<move, dir, todo, moved, clusterVars, first, stuck, faults>>

OldMoved ==
  /\ pc = "move" /\ move = "old" /\ todo = {} /\ Begin(dir, "new")
  /\ UNCHANGED <<dir, result, clusterVars, first, stuck, faults>>

NewMoved ==
  /\ pc = "move" /\ move = "new" /\ todo = {} /\ pc' = "restart"
  /\ UNCHANGED <<move, dir, todo, moved, result, clusterVars, first, stuck, faults>>

\* completeClusterRestore: the primary takes the cluster over.
Restart ==
  /\ pc = "restart" /\ Fail("restored") /\ quiesced' = FALSE /\ released' = TRUE
  /\ UNCHANGED <<move, dir, todo, moved, stranded, first, stuck, faults>>

\* Mutant: the new content is not taken out first.
Revert_Over(d) == Begin(d, "undo old")
Revert(d) == Begin(d, "undo new")

\* Before the primary released the lease, or after it, in telling its workers.
RestartFails ==
  /\ pc = "restart" /\ Fails("restart") /\ Revert(dir) /\ released' \in BOOLEAN
  /\ UNCHANGED <<dir, result, quiesced, stranded, first, stuck>>

NewTakenOut ==
  /\ pc = "move" /\ move = "undo new" /\ todo = {} /\ Begin(dir, "undo old")
  /\ UNCHANGED <<dir, result, clusterVars, first, stuck, faults>>

Reverted ==
  /\ pc = "move" /\ move = "undo old" /\ todo = {} /\ Fail("failed")
  /\ UNCHANGED <<move, dir, todo, moved, clusterVars, first, stuck, faults>>

\* Mutant: only an undo that failed is reported to the primary.
Aborts_Fatal == quiesced /\ ~stranded /\ result = "fatal"

\* clusterQuiesced, and the error that the undo leaves.
Aborts == quiesced /\ ~stranded

\* abortClusterRestore: of a lease that it released, the primary refuses it. What
\* fails here is logged only.
Abort ==
  \/ ~released /\ quiesced' = FALSE /\ UNCHANGED <<stranded, faults>>
  \/ released /\ stranded' = TRUE /\ UNCHANGED <<quiesced, faults>>
  \/ Fails("abort") /\ stranded' = TRUE /\ UNCHANGED quiesced

\* The finally blocks: the extracted content is removed and the cluster resumed.
Cleanup ==
  /\ pc = "cleanup" /\ pc' = "ended"
  /\ dir' = [dir EXCEPT !["extracted"] = Empty]
  /\ \/ Aborts /\ Abort
     \/ ~Aborts /\ UNCHANGED <<quiesced, stranded, faults>>
  /\ UNCHANGED <<move, todo, moved, result, released, first, stuck>>

\* bootstrap of the leader: the temp directory is removed.
Boot ==
  /\ pc = "ended" /\ pc' = "booted"
  /\ dir' = [dir EXCEPT !["temp"] = Empty]
  /\ UNCHANGED <<move, todo, moved, result, clusterVars, first, stuck, faults>>

Move(m) == Rename(m) \/ RenameBack(m) \/ MovedBack(m)

Run ==
  \/ Extract \/ Quiesce \/ OldMoved \/ NewMoved \/ Restart \/ NewTakenOut \/ Reverted
  \/ Cleanup \/ Boot
  \/ \E m \in Moves : Move(m)

Next == Run \/ QuiesceFails \/ RestartFails \/ \E m \in Moves : RenameFails(m)

Spec == Init /\ [][Next]_vars
FairSpec == Spec /\ WF_vars(Run)

-----------------------------------------------------------------------------
\* What the data directory should have under a name in the end: the content of
\* the archive after a restore that succeeded, and else what it had before.
Expected(n) == IF result = "restored" THEN Holds(first.archive, "new")[n]
               ELSE Holds(first.data, "old")[n]

\* After a restore that failed or succeeded, and the next start, the data
\* directory has exactly the old or exactly the new content.
AllOrNothing ==
  pc = "booted" /\ result # "fatal" =>
    \A n \in Names \ Excluded : dir["data"][n] = Expected(n)

\* The same wherever RestoreBackup undoes what it did: for every entry that could
\* be moved back, and every error but one of the second move.
DoneOrUndone ==
  pc = "booted" /\ result # "fatal" /\ ~(result = "failed" /\ move = "new") =>
    \A n \in Names \ (Excluded \cup stuck) : dir["data"][n] = Expected(n)

\* The excluded entries of the data directory stay as they are all along.
ExcludedKept ==
  \A n \in Excluded : dir["data"][n] = Holds(first.data, "old")[n]

\* A restore that stopped the other workers ends, and the cluster goes on, whichever
\* step of it failed; unless the primary is not asked to, or refuses: a worker did not
\* stop, the abort failed, or the lease was gone when the restart failed.
ClusterResumes == quiesced ~> (~quiesced \/ stranded)
=============================================================================
