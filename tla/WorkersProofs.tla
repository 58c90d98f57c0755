---------------------------- MODULE WorkersProofs ----------------------------
(***************************************************************************)
(* Proofs about the two parts of MCWorkers: about RestoreDataDir for any   *)
(* entries, excluded entries and faults, and about RealtimePresence for    *)
(* any workers, clients, events and faults.                                *)
(***************************************************************************)
EXTENDS MCWorkers, SequenceTheorems, TLAPS

Dirs == {"data", "temp", "extracted"}
Contents == [Names -> {"old", "new", "none"}]

\* What the data directory and the archive had at first.
FirstOK == first \in [data : SUBSET Names, archive : SUBSET Names]

LEMMA HoldsTypes ==
  ASSUME NEW S, NEW version \in {"old", "new"}
  PROVE  Holds(S, version) \in Contents
BY DEF Holds, Contents

LEMMA RenamedTypes ==
  ASSUME dir \in [Dirs -> Contents], NEW from \in Dirs, NEW to \in Dirs, NEW n \in Names
  PROVE  Renamed(from, to, n) \in [Dirs -> Contents]
BY DEF Renamed, Dirs, Contents

LEMMA MoveDirs == \A m \in Moves : Source(m) \in Dirs /\ Target(m) \in Dirs
BY DEF Moves, Source, Target, Dirs

LEMMA InitTypes == Init => TypeOK /\ FirstOK
<1> SUFFICES ASSUME Init PROVE TypeOK /\ FirstOK
  OBVIOUS
<1>1. PICK data \in SUBSET Names, archive \in SUBSET Names :
        /\ first = [data |-> data, archive |-> archive]
        /\ dir = [data |-> Holds(data, "old"), temp |-> Empty, extracted |-> Empty]
        /\ pc = "extract" /\ move = "old" /\ todo = {} /\ moved = {} /\ result = "none"
        /\ quiesced = FALSE /\ released = FALSE /\ stranded = FALSE
        /\ stuck = {} /\ faults = 0
  BY DEF Init
<1>2. Holds(data, "old") \in Contents /\ Empty \in Contents
  BY HoldsTypes DEF Empty, Contents
<1>3. dir \in [Dirs -> Contents]
  BY <1>1, <1>2 DEF Dirs
<1>4. FirstOK
  BY <1>1 DEF FirstOK
<1>5. quiesced \in BOOLEAN /\ released \in BOOLEAN /\ stranded \in BOOLEAN
  BY <1>1
<1>6. faults \in 0..MaxFaults
  BY <1>1, RestoreAssumption
<1> QED
  BY <1>1, <1>3, <1>4, <1>5, <1>6 DEF TypeOK, Moves, Dirs, Contents

\* A move begins with entries of the directories, in any state.
LEMMA BeginTypes ==
  ASSUME NEW d, NEW m \in Moves, Begin(d, m)
  PROVE  /\ pc' = "move" /\ move' \in Moves /\ moved' = {}
         /\ todo' \subseteq Names \ Excluded
BY DEF Begin, Listed

\* Only renames and removals of whole directories change what a directory has.
LEMMA DirTypes ==
  ASSUME TypeOK, FirstOK, [Next]_vars
  PROVE  dir' \in [Dirs -> Contents]
<1>1. dir \in [Dirs -> Contents]
  BY DEF TypeOK, Dirs, Contents
<1>2. Empty \in Contents /\ Holds(first.archive, "new") \in Contents
  BY HoldsTypes DEF Empty, Contents
<1>3. CASE Extract \/ Cleanup \/ Boot
  BY <1>1, <1>2, <1>3 DEF Extract, Cleanup, Boot, Dirs
<1>4. ASSUME NEW m \in Moves, Rename(m) \/ RenameBack(m)
      PROVE  dir' \in [Dirs -> Contents]
  <2>1. \/ UNCHANGED dir
        \/ \E n \in todo : \/ dir' = Renamed(Source(m), Target(m), n)
                           \/ dir' = Renamed(Target(m), Source(m), n)
    BY <1>4 DEF Rename, RenameBack
  <2> QED BY <2>1, <1>1, MoveDirs, RenamedTypes DEF TypeOK
<1>5. CASE \/ \E m \in Moves : MovedBack(m) \/ RenameFails(m)
           \/ Quiesce \/ QuiesceFails \/ OldMoved \/ NewMoved \/ Restart \/ RestartFails
           \/ NewTakenOut \/ Reverted \/ UNCHANGED vars
  <2>1. UNCHANGED dir
    BY <1>5 DEF MovedBack, RenameFails, Quiesce, QuiesceFails, OldMoved, NewMoved, Restart,
                RestartFails, NewTakenOut, Reverted, vars, clusterVars
  <2> QED BY <2>1, <1>1
<1> QED
  BY <1>3, <1>4, <1>5 DEF Next, Run, Move

LEMMA NextTypes == TypeOK /\ FirstOK /\ [Next]_vars => (TypeOK /\ FirstOK)'
<1> SUFFICES ASSUME TypeOK, FirstOK, [Next]_vars PROVE (TypeOK /\ FirstOK)'
  OBVIOUS
<1> DEFINE Rest ==
      /\ pc' \in {"extract", "quiesce", "restart", "cleanup", "ended", "booted", "move", "back"}
      /\ move' \in Moves
      /\ todo' \subseteq Names /\ moved' \subseteq Names /\ stuck' \subseteq Names
      /\ result' \in {"none", "restored", "failed", "fatal"}
      /\ pc' = "back" => todo' \subseteq moved'
      /\ pc' \in {"cleanup", "ended"} => result' # "none"
      /\ quiesced' \in BOOLEAN /\ released' \in BOOLEAN /\ stranded' \in BOOLEAN
      /\ faults' \in 0..MaxFaults
      /\ first' = first
<1> USE RestoreAssumption
<1>1. dir' \in [Dirs -> Contents]
  BY DirTypes
<1>2. \A m : Begin(dir, m) /\ m \in Moves => /\ pc' = "move" /\ move' \in Moves
                                             /\ moved' = {} /\ todo' \subseteq Names
  BY BeginTypes
<1>3. ASSUME Extract \/ QuiesceFails \/ NewMoved \/ Restart \/ Reverted PROVE Rest
  <2>1. ASSUME Extract PROVE Rest
    <3>1. UNCHANGED <<move, todo, moved, quiesced, released, stranded, first, stuck, faults>>
      BY <2>1 DEF Extract, clusterVars
    <3>2. \/ pc' = "quiesce" /\ result' = result
          \/ pc' = "cleanup" /\ result' = "failed"
      BY <2>1 DEF Extract, Fail
    <3> QED BY <3>1, <3>2 DEF TypeOK
  <2>2. ASSUME QuiesceFails PROVE Rest
    BY <2>2 DEF TypeOK, QuiesceFails, Fail, Fails
  <2>3. ASSUME NewMoved \/ Restart \/ Reverted PROVE Rest
    BY <2>3 DEF TypeOK, NewMoved, Restart, Reverted, Fail, clusterVars
  <2> QED BY <1>3, <2>1, <2>2, <2>3
<1>4. ASSUME Quiesce \/ OldMoved \/ NewTakenOut \/ RestartFails PROVE Rest
  <2>1. /\ pc' = "move" /\ move' \in Moves /\ moved' = {} /\ todo' \subseteq Names
    BY <1>2, <1>4 DEF Quiesce, OldMoved, NewTakenOut, RestartFails, Revert, Moves
  <2>2. UNCHANGED <<result, first, stuck>>
    BY <1>4 DEF Quiesce, OldMoved, NewTakenOut, RestartFails
  <2>3. \/ faults' = faults
        \/ faults < MaxFaults /\ faults' = faults + 1
    BY <1>4 DEF Quiesce, OldMoved, NewTakenOut, RestartFails, Fails
  <2>4. faults' \in 0..MaxFaults
    BY <2>3 DEF TypeOK
  <2>5. quiesced' \in BOOLEAN /\ released' \in BOOLEAN /\ stranded' \in BOOLEAN
    BY <1>4 DEF TypeOK, Quiesce, OldMoved, NewTakenOut, RestartFails, clusterVars
  <2> QED BY <2>1, <2>2, <2>4, <2>5 DEF TypeOK
<1>5. ASSUME NEW m \in Moves, Rename(m) \/ RenameFails(m) \/ RenameBack(m) \/ MovedBack(m)
      PROVE  Rest
  BY <1>5 DEF TypeOK, Rename, RenameFails, RenameBack, MovedBack, Undone, Fail, Fails,
                  clusterVars
<1>6. ASSUME Cleanup \/ Boot \/ UNCHANGED vars PROVE Rest
  <2>1. ASSUME Cleanup
        PROVE  /\ quiesced' \in BOOLEAN /\ released' \in BOOLEAN /\ stranded' \in BOOLEAN
               /\ faults' \in 0..MaxFaults
    <3>1. /\ quiesced' = quiesced \/ quiesced' = FALSE
          /\ released' = released
          /\ stranded' = stranded \/ stranded' = TRUE
      BY <2>1 DEF Cleanup, Abort
    <3>2. \/ faults' = faults
          \/ faults < MaxFaults /\ faults' = faults + 1
      BY <2>1 DEF Cleanup, Abort, Fails
    <3>3. faults' \in 0..MaxFaults
      BY <3>2 DEF TypeOK
    <3>4. QED
      BY <3>1, <3>3 DEF TypeOK
  <2>2. CASE Cleanup
    BY <2>1, <2>2 DEF TypeOK, Cleanup
  <2>3. CASE Boot \/ UNCHANGED vars
    BY <2>3 DEF TypeOK, Boot, vars, clusterVars
  <2> QED BY <1>6, <2>2, <2>3
<1>7. Rest
  BY <1>3, <1>4, <1>5, <1>6 DEF Next, Run, Move
<1> QED
  BY <1>1, <1>7 DEF TypeOK, FirstOK, Dirs, Contents

\* The types of the three directories and of the move that runs.
THEOREM TypeCorrect == Spec => []TypeOK
BY InitTypes, NextTypes, PTL DEF Spec

-----------------------------------------------------------------------------
\* No excluded entry is listed for a move, so none is renamed back either.
NoneExcluded == todo \cap Excluded = {} /\ moved \cap Excluded = {}

LEMMA NoneExcludedKept ==
  ASSUME TypeOK, NoneExcluded, [Next]_vars
  PROVE  NoneExcluded'
<1>1. \A m \in Moves : Begin(dir, m) => NoneExcluded'
  BY BeginTypes DEF NoneExcluded
<1>2. ASSUME Quiesce \/ OldMoved \/ NewTakenOut \/ RestartFails PROVE NoneExcluded'
  BY <1>1, <1>2 DEF Quiesce, OldMoved, NewTakenOut, RestartFails, Revert, Moves
<1>3. ASSUME NEW m \in Moves, Rename(m) \/ RenameFails(m) \/ RenameBack(m)
      PROVE  NoneExcluded'
  BY <1>3 DEF NoneExcluded, Rename, RenameFails, RenameBack, Undone
<1>4. ASSUME \/ Extract \/ QuiesceFails \/ NewMoved \/ Restart \/ Reverted \/ Cleanup \/ Boot
             \/ \E m \in Moves : MovedBack(m)
             \/ UNCHANGED vars
      PROVE  NoneExcluded'
  <2>1. UNCHANGED <<todo, moved>>
    BY <1>4 DEF Extract, QuiesceFails, NewMoved, Restart, Reverted, Cleanup, Boot, MovedBack, vars
  <2> QED BY <2>1 DEF NoneExcluded
<1> QED
  BY <1>2, <1>3, <1>4 DEF Next, Run, Move

\* Every step leaves the data directory alone under the excluded names: what it
\* renames is not excluded, and the directory itself is never replaced.
LEMMA DataKept ==
  ASSUME TypeOK, FirstOK, NoneExcluded, [Next]_vars, NEW x \in Excluded
  PROVE  dir'["data"][x] = dir["data"][x]
<1>1. dir \in [Dirs -> Contents] /\ x \in Names
  BY RestoreAssumption DEF TypeOK, Dirs, Contents
<1>2. ASSUME Extract \/ Cleanup \/ Boot PROVE dir'["data"][x] = dir["data"][x]
  BY <1>1, <1>2 DEF Extract, Cleanup, Boot, Dirs
<1>3. ASSUME NEW from \in Dirs, NEW to \in Dirs, NEW n \in Names, n # x
      PROVE  Renamed(from, to, n)["data"][x] = dir["data"][x]
  BY <1>1, <1>3 DEF Renamed, Dirs, Contents
<1>4. ASSUME NEW m \in Moves, Rename(m) \/ RenameBack(m)
      PROVE  dir'["data"][x] = dir["data"][x]
  <2>1. \/ UNCHANGED dir
        \/ \E n \in todo : \/ dir' = Renamed(Source(m), Target(m), n)
                           \/ dir' = Renamed(Target(m), Source(m), n)
    BY <1>4 DEF Rename, RenameBack
  <2>2. \A n \in todo : n \in Names /\ n # x
    BY DEF TypeOK, NoneExcluded
  <2> QED BY <2>1, <2>2, <1>3, MoveDirs
<1>5. ASSUME \/ \E m \in Moves : MovedBack(m) \/ RenameFails(m)
             \/ Quiesce \/ QuiesceFails \/ OldMoved \/ NewMoved \/ Restart \/ RestartFails
             \/ NewTakenOut \/ Reverted \/ UNCHANGED vars
      PROVE  UNCHANGED dir
  BY <1>5 DEF MovedBack, RenameFails, Quiesce, QuiesceFails, OldMoved, NewMoved, Restart,
              RestartFails, NewTakenOut, Reverted, vars, clusterVars
<1> QED
  BY <1>2, <1>4, <1>5 DEF Next, Run, Move

\* A restore, whatever becomes of it, never touches the entries it is told to
\* leave alone: they are in the data directory as they were at first.
THEOREM ExcludedUntouched == Spec => []ExcludedKept
<1> DEFINE Inv == TypeOK /\ FirstOK /\ NoneExcluded /\ ExcludedKept
<1>1. Init => Inv
  <2> SUFFICES ASSUME Init PROVE NoneExcluded /\ ExcludedKept
    BY InitTypes
  <2>1. PICK data \in SUBSET Names, archive \in SUBSET Names :
          /\ first = [data |-> data, archive |-> archive]
          /\ dir = [data |-> Holds(data, "old"), temp |-> Empty, extracted |-> Empty]
          /\ todo = {} /\ moved = {}
    BY DEF Init
  <2> QED BY <2>1 DEF NoneExcluded, ExcludedKept
<1>2. Inv /\ [Next]_vars => Inv'
  <2> SUFFICES ASSUME Inv, [Next]_vars PROVE Inv'
    OBVIOUS
  <2>1. (TypeOK /\ FirstOK)' /\ NoneExcluded'
    BY NextTypes, NoneExcludedKept
  <2>2. first' = first
    BY DEF Next, Run, Move, Extract, Quiesce, QuiesceFails, Rename, RenameFails, RenameBack,
           MovedBack, OldMoved, NewMoved, Restart, RestartFails, NewTakenOut, Reverted,
           Cleanup, Boot, Aborts, Abort, vars
  <2>3. ExcludedKept'
    BY <2>2, DataKept DEF ExcludedKept
  <2> QED BY <2>1, <2>3
<1>3. Inv => ExcludedKept
  OBVIOUS
<1> QED
  BY <1>1, <1>2, <1>3, PTL DEF Spec

-----------------------------------------------------------------------------
(***************************************************************************)
(* Where the old and the new content of each entry are while the restore   *)
(* runs.  In each phase of the four moves an entry that is yet to be       *)
(* renamed is in the source of the move, and any other in its target; what *)
(* an undo finds in the temp directory is thus what the first move put     *)
(* there.  After an error of the first move that holds for the entries     *)
(* that could be moved back; after one of the second move nothing does.    *)
(***************************************************************************)
Old(n) == Holds(first.data, "old")[n]
New(n) == Holds(first.archive, "new")[n]

Data(n) == dir["data"][n]
Temp(n) == dir["temp"][n]
Extracted(n) == dir["extracted"][n]

Moving(m) == pc = "move" /\ move = m

\* The first move: the old content goes to the temp directory, or back.
OldInv(n) ==
  /\ Moving("old") =>
       /\ Extracted(n) = New(n)
       /\ n \in todo => Data(n) = Old(n) /\ Temp(n) = "none" /\ n \notin moved
       /\ n \notin todo => Data(n) = "none" /\ Temp(n) = Old(n)
       /\ n \notin todo \cup moved => Old(n) = "none"
  /\ pc = "back" /\ move = "old" =>
       /\ n \in todo => Temp(n) = Old(n)
       /\ n \notin todo \cup stuck => Data(n) = Old(n)

\* The second move brings the new content; the last two undo both.
NewInv(n) ==
  /\ Moving("new") =>
       /\ Temp(n) = Old(n)
       /\ n \in todo => Extracted(n) = New(n) /\ Data(n) = "none"
       /\ n \notin todo => Data(n) = New(n)
  /\ pc = "restart" => Data(n) = New(n) /\ Temp(n) = Old(n)
  /\ Moving("undo new") =>
       /\ Temp(n) = Old(n)
       /\ n \notin todo => Data(n) = "none"
  /\ Moving("undo old") =>
       /\ n \in todo => Temp(n) = Old(n)
       /\ n \notin todo => Data(n) = Old(n)

\* Before the first move, and after the last.
EndInv(n) ==
  /\ pc \in {"extract", "quiesce"} => Data(n) = Old(n) /\ Temp(n) = "none"
  /\ pc = "quiesce" => Extracted(n) = New(n)
  /\ pc \in {"cleanup", "ended", "booted"} =>
       /\ result = "restored" => Data(n) = New(n)
       /\ result = "failed" /\ move # "new" /\ n \notin stuck => Data(n) = Old(n)

PlaceInv(n) == OldInv(n) /\ NewInv(n) /\ EndInv(n)

ContentInv ==
  /\ TypeOK /\ FirstOK
  /\ pc = "booted" => result # "none"
  /\ \A n \in Names \ Excluded : PlaceInv(n)

\* What a rename does to the entries of the two directories, and of the third.
LEMMA RenamedAt ==
  ASSUME dir \in [Dirs -> Contents], NEW from \in Dirs, NEW to \in Dirs, from # to,
         NEW k \in Names, NEW n \in Names, dir' = Renamed(from, to, k)
  PROVE  /\ n = k => dir'[to][n] = dir[from][n] /\ dir'[from][n] = "none"
         /\ n # k => dir'[to][n] = dir[to][n] /\ dir'[from][n] = dir[from][n]
         /\ \A d \in Dirs \ {from, to} : dir'[d] = dir[d]
BY DEF Renamed, Dirs, Contents

LEMMA DirNames ==
  /\ "data" \in Dirs /\ "temp" \in Dirs /\ "extracted" \in Dirs
  /\ "data" # "temp" /\ "temp" # "extracted" /\ "extracted" # "data"
BY DEF Dirs

LEMMA FirstKept == [Next]_vars => first' = first
BY DEF Next, Run, Move, Extract, Quiesce, QuiesceFails, Rename, RenameFails, RenameBack,
       MovedBack, OldMoved, NewMoved, Restart, RestartFails, NewTakenOut, Reverted, Cleanup,
       Boot, vars

\* A move begins with all that its source has.
LEMMA BeginLists ==
  ASSUME NEW m, Begin(dir, m), NEW n \in Names \ Excluded
  PROVE  /\ Moving(m)' /\ moved' = {}
         /\ n \in todo' <=> dir[Source(m)][n] # "none"
BY DEF Begin, Listed, Moving

LEMMA PlaceStep ==
  ASSUME ContentInv, [Next]_vars, NEW n \in Names \ Excluded
  PROVE  PlaceInv(n)'
<1>0. dir \in [Dirs -> Contents] /\ n \in Names
  BY DEF ContentInv, TypeOK, Dirs, Contents
<1>1. PlaceInv(n) /\ first' = first
  BY FirstKept DEF ContentInv
<1>2. Old(n)' = Old(n) /\ New(n)' = New(n)
  BY <1>1 DEF Old, New, Holds
<1> USE DEF PlaceInv, OldInv, NewInv, EndInv, Data, Temp, Extracted
<1>3. CASE Extract
  <2>1. /\ Data(n)' = Data(n) /\ Temp(n)' = Temp(n) /\ Extracted(n)' = New(n)
        /\ pc = "extract" /\ UNCHANGED <<move, todo, moved, stuck>>
        /\ pc' = "quiesce" \/ (pc' = "cleanup" /\ result' = "failed")
    BY <1>0, <1>3 DEF Extract, Fail, New, Dirs
  <2>2. QED
    BY <1>1, <1>2, <2>1 DEF Moving
<1>4. CASE Quiesce
  <2>1. /\ Moving("old")' /\ moved' = {} /\ pc = "quiesce" /\ UNCHANGED dir
        /\ n \in todo' <=> Data(n) # "none"
    BY <1>4, BeginLists DEF Quiesce, Source
  <2>2. QED
    BY <1>1, <1>2, <2>1 DEF Moving
<1>5. CASE QuiesceFails \/ Restart \/ Reverted
  <2>1. UNCHANGED <<dir, move, todo, moved, stuck>> /\ pc' = "cleanup"
    BY <1>5 DEF QuiesceFails, Restart, Reverted, Fail
  <2>2. \/ pc = "quiesce" /\ result' = "failed"
        \/ pc = "restart" /\ result' = "restored"
        \/ Moving("undo old") /\ todo = {} /\ result' = "failed"
    BY <1>5 DEF QuiesceFails, Restart, Reverted, Fail, Moving
  <2>3. QED
    BY <1>1, <1>2, <2>1, <2>2 DEF Moving
<1>6. CASE OldMoved
  <2>1. Moving("old") /\ todo = {} /\ UNCHANGED dir /\ Begin(dir, "new")
    BY <1>6 DEF OldMoved, Moving
  <2>2. Moving("new")' /\ moved' = {} /\ (n \in todo' <=> Extracted(n) # "none")
    BY <2>1, BeginLists DEF Source
  <2>3. QED
    BY <1>1, <1>2, <2>1, <2>2 DEF Moving
<1>7. CASE NewMoved
  BY <1>1, <1>2, <1>7 DEF NewMoved, Moving
<1>8. CASE RestartFails
  <2>1. /\ Moving("undo new")' /\ moved' = {} /\ pc = "restart" /\ UNCHANGED dir
        /\ n \in todo' <=> Data(n) # "none"
    BY <1>8, BeginLists DEF RestartFails, Revert, Source
  <2>2. QED
    BY <1>1, <1>2, <2>1 DEF Moving
<1>9. CASE NewTakenOut
  <2>1. Moving("undo new") /\ todo = {} /\ UNCHANGED dir /\ Begin(dir, "undo old")
    BY <1>9 DEF NewTakenOut, Moving
  <2>2. Moving("undo old")' /\ moved' = {} /\ (n \in todo' <=> Temp(n) # "none")
    <3>1. Source("undo old") = "temp"
      BY DEF Source
    <3>2. QED
      BY <2>1, <3>1, BeginLists
  <2>3. QED
    BY <1>1, <1>2, <2>1, <2>2 DEF Moving
<1>10. ASSUME NEW m \in Moves, Rename(m) PROVE PlaceInv(n)'
  <2>1. PICK k \in todo : /\ dir' = Renamed(Source(m), Target(m), k)
                          /\ todo' = todo \ {k} /\ moved' = moved \cup {k}
    BY <1>10 DEF Rename
  <2>2. Moving(m) /\ Moving(m)' /\ UNCHANGED <<pc, move, result, stuck>> /\ k \in Names
    BY <1>10, <2>1 DEF Rename, Moving, ContentInv, TypeOK
  <2>3. CASE m = "old"
    <3>1. dir' = Renamed("data", "temp", k)
      BY <2>1, <2>3 DEF Source, Target
    <3>2. /\ n = k => Temp(n)' = Data(n) /\ Data(n)' = "none"
          /\ n # k => Temp(n)' = Temp(n) /\ Data(n)' = Data(n)
          /\ Extracted(n)' = Extracted(n)
      BY <1>0, <2>2, <3>1, RenamedAt, DirNames
    <3>3. QED
      BY <1>1, <1>2, <2>1, <2>2, <2>3, <3>2 DEF Moving
  <2>4. CASE m = "new"
    <3>1. dir' = Renamed("extracted", "data", k)
      BY <2>1, <2>4 DEF Source, Target
    <3>2. /\ n = k => Data(n)' = Extracted(n)
          /\ n # k => Data(n)' = Data(n) /\ Extracted(n)' = Extracted(n)
          /\ Temp(n)' = Temp(n)
      BY <1>0, <2>2, <3>1, RenamedAt, DirNames
    <3>3. QED
      BY <1>1, <1>2, <2>1, <2>2, <2>4, <3>2 DEF Moving
  <2>5. CASE m = "undo new"
    <3>1. dir' = Renamed("data", "extracted", k)
      BY <2>1, <2>5 DEF Source, Target
    <3>2. /\ n = k => Data(n)' = "none"
          /\ n # k => Data(n)' = Data(n)
          /\ Temp(n)' = Temp(n)
      BY <1>0, <2>2, <3>1, RenamedAt, DirNames
    <3>3. QED
      BY <1>1, <1>2, <2>1, <2>2, <2>5, <3>2 DEF Moving
  <2>6. CASE m = "undo old"
    <3>1. dir' = Renamed("temp", "data", k)
      BY <2>1, <2>6 DEF Source, Target
    <3>2. /\ n = k => Data(n)' = Temp(n)
          /\ n # k => Data(n)' = Data(n) /\ Temp(n)' = Temp(n)
      BY <1>0, <2>2, <3>1, RenamedAt, DirNames
    <3>3. QED
      BY <1>1, <1>2, <2>1, <2>2, <2>6, <3>2 DEF Moving
  <2>7. QED
    BY <2>3, <2>4, <2>5, <2>6 DEF Moves
<1>11. ASSUME NEW m \in Moves, RenameFails(m) PROVE PlaceInv(n)'
  <2>1. /\ Moving(m) /\ pc' = "back" /\ todo' = moved
        /\ UNCHANGED <<move, dir, moved, result, stuck>>
    BY <1>11 DEF RenameFails, Undone, Moving
  <2>2. QED
    BY <1>1, <1>2, <2>1 DEF Moving
<1>12. ASSUME NEW m \in Moves, RenameBack(m) PROVE PlaceInv(n)'
  <2>1. /\ pc = "back" /\ move = m /\ UNCHANGED <<pc, move, moved, result>>
    BY <1>12 DEF RenameBack
  <2>2. CASE m # "old"
    BY <1>1, <2>1, <2>2 DEF Moving
  <2>3. CASE m = "old"
    <3>1. PICK k \in todo :
            /\ \/ dir' = Renamed("temp", "data", k) /\ stuck' = stuck
               \/ dir' = dir /\ stuck' = stuck \cup {k}
            /\ todo' = todo \ {k}
      BY <1>12, <2>3 DEF RenameBack, Source, Target
    <3>2. k \in Names
      BY <3>1 DEF ContentInv, TypeOK
    <3>3. CASE dir' = Renamed("temp", "data", k) /\ stuck' = stuck
      <4>1. /\ n = k => Data(n)' = Temp(n)
            /\ n # k => Data(n)' = Data(n) /\ Temp(n)' = Temp(n)
        BY <1>0, <3>2, <3>3, RenamedAt, DirNames
      <4>2. QED
        BY <1>1, <1>2, <2>1, <2>3, <3>1, <3>3, <4>1 DEF Moving
    <3>4. CASE dir' = dir /\ stuck' = stuck \cup {k}
      BY <1>1, <1>2, <2>1, <2>3, <3>1, <3>4 DEF Moving
    <3>5. QED
      BY <3>1, <3>3, <3>4
  <2>4. QED
    BY <2>2, <2>3
<1>13. ASSUME NEW m \in Moves, MovedBack(m) PROVE PlaceInv(n)'
  <2>1. /\ pc = "back" /\ move = m /\ todo = {} /\ pc' = "cleanup"
        /\ result' = IF m \in {"old", "new"} THEN "failed" ELSE "fatal"
        /\ UNCHANGED <<move, dir, todo, moved, stuck>>
    BY <1>13 DEF MovedBack, Fail
  <2>2. QED
    BY <1>1, <1>2, <2>1 DEF Moving, Moves
<1>14. CASE Cleanup \/ Boot
  <2>1. /\ Data(n)' = Data(n) /\ UNCHANGED <<move, result, stuck>>
        /\ pc \in {"cleanup", "ended"} /\ pc' \in {"ended", "booted"}
    BY <1>0, <1>14 DEF Cleanup, Boot, Dirs
  <2>2. QED
    BY <1>1, <1>2, <2>1 DEF Moving
<1>15. CASE UNCHANGED vars
  BY <1>1, <1>2, <1>15 DEF vars, Moving
<1>16. QED
  BY <1>3, <1>4, <1>5, <1>6, <1>7, <1>8, <1>9, <1>10, <1>11, <1>12, <1>13, <1>14, <1>15
  DEF Next, Run, Move

LEMMA ContentStep == ContentInv /\ [Next]_vars => ContentInv'
<1> SUFFICES ASSUME ContentInv, [Next]_vars PROVE ContentInv'
  OBVIOUS
<1>1. (TypeOK /\ FirstOK)' /\ \A n \in Names \ Excluded : PlaceInv(n)'
  BY NextTypes, PlaceStep DEF ContentInv
<1>2. ASSUME pc' = "booted" PROVE result' # "none"
  BY <1>2 DEF ContentInv, TypeOK, Next, Run, Move, Extract, Quiesce, QuiesceFails, Rename,
              RenameFails, RenameBack, MovedBack, OldMoved, NewMoved, Restart, RestartFails,
              NewTakenOut, Reverted, Cleanup, Boot, vars, Fail, Begin, Revert
<1>3. QED
  BY <1>1, <1>2 DEF ContentInv

LEMMA InitContent == Init => ContentInv
<1> SUFFICES ASSUME Init PROVE ContentInv
  OBVIOUS
<1>1. pc = "extract" /\ \A n \in Names : Data(n) = Old(n) /\ Temp(n) = "none"
  BY DEF Init, Data, Temp, Old, Holds, Empty
<1>2. QED
  BY <1>1, InitTypes DEF ContentInv, PlaceInv, OldInv, NewInv, EndInv, Moving

\* Wherever a restore undoes what it did, the data directory has in the end
\* exactly the new content, or, but for the entries that could not be moved back,
\* exactly the content it had before.
THEOREM RestoredOrUndone == Spec => []DoneOrUndone
<1>1. ContentInv => DoneOrUndone
  BY DEF ContentInv, TypeOK, PlaceInv, EndInv, Data, Old, New, Expected, DoneOrUndone
<1>2. QED
  BY <1>1, InitContent, ContentStep, PTL DEF Spec

-----------------------------------------------------------------------------
(***************************************************************************)
(* RealtimePresence. The requests of a worker that the coordinator has yet *)
(* to answer, and the tasks that it has yet to run for it, together tell   *)
(* whether the worker has clients (TurnInv): so a worker that was told     *)
(* that its clients are known is in the coordinator's set, and no task     *)
(* will take it out (KnownInv), until the coordinator is replaced, when    *)
(* nobody is known (RunInv). A worker that is not gone has been sent each  *)
(* set, or counts every worker (SentInv); so it sees the workers that were *)
(* told so (ViewInv), and an event is in the outbox of its worker, on its  *)
(* way to the client's, with the client, or missed (MadeInv).              *)
(***************************************************************************)
IsUpdate(t, h) == t.kind = "update" /\ t.worker = h

\* Whether h is in the set when the first n tasks of s have been run from set.
EndsOn(s, n, h, set) ==
  \/ \E j \in 1..n : /\ IsUpdate(s[j], h) /\ s[j].on = TRUE
                     /\ \A k \in 1..n : IsUpdate(s[k], h) => k <= j
  \/ (\A k \in 1..n : ~IsUpdate(s[k], h)) /\ h \in set

Asks == [on : BOOLEAN, client : Presence!Clients, sent : BOOLEAN]
Deliveries ==
  [kind : {"presence"}, set : SUBSET Workers, task : Nat]
  \cup [kind : {"events"}, from : Workers, events : Seq(Nat)]

Lives == {"off", "new", "syncing", "ready", "stopping", "gone"}

PresenceTyped ==
  /\ life \in [Workers -> Lives]
  /\ started \in BOOLEAN /\ running \in BOOLEAN
  /\ active \in SUBSET Workers /\ queue \in Seq(Presence!Tasks) /\ tasks \in Nat
  /\ chan \in [Workers -> Seq(Deliveries)] /\ view \in [Workers -> SUBSET Workers]
  /\ asks \in [Workers -> Seq(Asks)]
  /\ client \in [Presence!Clients -> {"off", "asking", "connected", "closed"}]
  /\ counted \in [Workers -> BOOLEAN] /\ outbox \in [Workers -> Seq(Nat)]
  /\ made \in Seq([from : Workers, due : SUBSET Presence!Clients])
  /\ got \in [Presence!Clients -> SUBSET Nat]

LEMMA LastDecides ==
  ASSUME NEW s, NEW h, NEW set, NEW n \in Nat \ {0}
  PROVE  EndsOn(s, n, h, set) <=>
           IF IsUpdate(s[n], h) THEN s[n].on = TRUE ELSE EndsOn(s, n - 1, h, set)
<1>1. 1..n = 1..(n - 1) \cup {n} /\ n \notin 1..(n - 1) /\ \A k \in 1..n : k <= n
  OBVIOUS
<1>2. CASE IsUpdate(s[n], h)
  <2>1. \A j \in 1..n : (\A k \in 1..n : IsUpdate(s[k], h) => k <= j) => j = n
    BY <1>1, <1>2
  <2>2. QED
    BY <1>1, <1>2, <2>1 DEF EndsOn
<1>3. CASE ~IsUpdate(s[n], h)
  <2>1. \A k \in 1..n : IsUpdate(s[k], h) => k \in 1..(n - 1)
    BY <1>1, <1>3
  <2>2. QED
    BY <1>1, <1>3, <2>1 DEF EndsOn
<1>4. QED
  BY <1>2, <1>3

LEMMA SameUpdates ==
  ASSUME NEW s, NEW t, NEW h, NEW set, NEW other, NEW n \in Nat, h \in set <=> h \in other,
         \A k \in 1..n : /\ IsUpdate(s[k], h) <=> IsUpdate(t[k], h)
                         /\ IsUpdate(s[k], h) => t[k].on = s[k].on
  PROVE  EndsOn(s, n, h, set) <=> EndsOn(t, n, h, other)
BY DEF EndsOn

\* The first task is run.
LEMMA FirstRun ==
  ASSUME NEW s, NEW t, NEW h, NEW set, NEW other, NEW n \in Nat,
         \A k \in 1..n : t[k] = s[k + 1],
         h \in other <=> IF IsUpdate(s[1], h) THEN s[1].on = TRUE ELSE h \in set
  PROVE  EndsOn(t, n, h, other) <=> EndsOn(s, n + 1, h, set)
<1>1. \A k \in 1..n : k + 1 \in 1..(n + 1) /\ t[k] = s[k + 1]
  OBVIOUS
<1>2. \A k \in 1..(n + 1) : k = 1 \/ (k - 1 \in 1..n /\ s[k] = t[k - 1] /\ (k - 1) + 1 = k)
  OBVIOUS
<1>3. 1 \in 1..(n + 1) /\ \A k \in 1..(n + 1) : k >= 1
  OBVIOUS
<1>4. (\A k \in 1..(n + 1) : ~IsUpdate(s[k], h)) <=>
        ~IsUpdate(s[1], h) /\ \A k \in 1..n : ~IsUpdate(t[k], h)
  BY <1>1, <1>2, <1>3
<1>5. ASSUME NEW j \in 1..n
      PROVE  (\A k \in 1..n : IsUpdate(t[k], h) => k <= j) <=>
             (\A k \in 1..(n + 1) : IsUpdate(s[k], h) => k <= j + 1)
  BY <1>1, <1>2
<1>6. (\A k \in 1..(n + 1) : IsUpdate(s[k], h) => k <= 1) <=> \A k \in 1..n : ~IsUpdate(t[k], h)
  BY <1>1, <1>2
<1>7. ASSUME EndsOn(t, n, h, other) PROVE EndsOn(s, n + 1, h, set)
  <2>1. CASE \A k \in 1..n : ~IsUpdate(t[k], h)
    BY <1>3, <1>4, <1>6, <1>7, <2>1 DEF EndsOn
  <2>2. ASSUME NEW j \in 1..n, IsUpdate(t[j], h), t[j].on = TRUE,
               \A k \in 1..n : IsUpdate(t[k], h) => k <= j
        PROVE  EndsOn(s, n + 1, h, set)
    BY <1>1, <1>5, <2>2 DEF EndsOn
  <2>3. QED
    BY <1>7, <2>1, <2>2 DEF EndsOn
<1>8. ASSUME EndsOn(s, n + 1, h, set) PROVE EndsOn(t, n, h, other)
  <2>1. CASE \A k \in 1..n : ~IsUpdate(t[k], h)
    <3>1. CASE IsUpdate(s[1], h)
      BY <1>2, <1>3, <1>4, <1>8, <2>1, <3>1 DEF EndsOn
    <3>2. CASE ~IsUpdate(s[1], h)
      BY <1>4, <1>8, <2>1, <3>2 DEF EndsOn
    <3>3. QED
      BY <3>1, <3>2
  <2>2. ASSUME NEW j \in 1..(n + 1), IsUpdate(s[j], h), s[j].on = TRUE,
               \A k \in 1..(n + 1) : IsUpdate(s[k], h) => k <= j,
               ~\A k \in 1..n : ~IsUpdate(t[k], h)
        PROVE  EndsOn(t, n, h, other)
    <3>1. j # 1
      BY <1>6, <2>2
    <3>2. PICK i \in 1..n : j = i + 1 /\ t[i] = s[j]
      BY <1>2, <3>1
    <3>3. QED
      BY <1>5, <2>2, <3>2 DEF EndsOn
  <2>3. QED
    BY <1>4, <1>8, <2>1, <2>2 DEF EndsOn
<1>9. QED
  BY <1>7, <1>8

Updates(s, h) == {i \in DOMAIN s : IsUpdate(s[i], h)}
Asked(s, h) == {i \in Updates(s, h) : s[i].ask = TRUE}
Wanted(s, h, set) == EndsOn(s, Len(s), h, set)

\* A task that a worker waits for is its last.
LastInv(s, h) == \A i \in Asked(s, h), k \in Updates(s, h) : k <= i

\* When it is to put h into the set, h is not there until it begins.
PriorInv(s, h, set, begun) ==
  \A i \in Asked(s, h) :
    s[i].on = TRUE /\ ~(i = 1 /\ begun = TRUE) => ~EndsOn(s, i - 1, h, set)

Adds(s, task, t) == t = Append(s, task)
Runs(s, t) == t = Tail(s)
Forgets(s, w, t) == t = Presence!Forgotten(s, w)
Sends(a, b) == b = [a EXCEPT ![1].sent = TRUE]

LEMMA TaskTypes ==
  ASSUME NEW s \in Seq(Presence!Tasks)
  PROVE  /\ Len(s) \in Nat /\ DOMAIN s = 1..Len(s)
         /\ \A i \in DOMAIN s : /\ s[i] \in Presence!Tasks /\ s[i].on \in BOOLEAN
                                /\ s[i].ask \in BOOLEAN /\ s[i].worker \in Workers
                                /\ s[i].kind \in {"update", "sync"}
<1>1. Len(s) \in Nat /\ DOMAIN s = 1..Len(s)
  BY LenProperties
<1>2. \A i \in DOMAIN s : s[i] \in Presence!Tasks
  BY <1>1, ElementOfSeq
<1>3. QED
  BY <1>1, <1>2 DEF Presence!Tasks

LEMMA TailTasks ==
  ASSUME NEW s \in Seq(Presence!Tasks), s # <<>>, NEW t, t = Tail(s)
  PROVE  /\ t \in Seq(Presence!Tasks) /\ Len(s) \in Nat \ {0} /\ Len(t) = Len(s) - 1
         /\ \A i \in 1..Len(t) : t[i] = s[i + 1] /\ i + 1 \in 1..Len(s)
<1>1. t \in Seq(Presence!Tasks) /\ Len(t) = Len(s) - 1 /\ \A i \in 1..Len(t) : t[i] = s[i + 1]
  BY HeadTailProperties
<1>2. Len(s) \in Nat /\ Len(s) # 0
  BY EmptySeq, LenProperties
<1>3. QED
  BY <1>1, <1>2

RanFor(s, t, h, set, begun) ==
  /\ Wanted(t, h, set) <=> Wanted(s, h, set)
  /\ LastInv(s, h) => LastInv(t, h)
  /\ PriorInv(s, h, set, begun) => PriorInv(t, h, set, FALSE)
  /\ \A i \in Updates(t, h) : i \in Nat /\ i + 1 \in Updates(s, h)
  /\ \A i \in Asked(t, h) : i \in Nat /\ i + 1 \in Asked(s, h) /\ t[i] = s[i + 1]

\* The first task is run and leaves the queue.
LEMMA RunTask ==
  ASSUME NEW s \in Seq(Presence!Tasks), s # <<>>, NEW t, Runs(s, t), NEW set, NEW begun,
         s[1].kind = "update" => (s[1].worker \in set <=> s[1].on = TRUE), NEW h
  PROVE  RanFor(s, t, h, set, begun)
<1>1. /\ t \in Seq(Presence!Tasks) /\ Len(s) \in Nat \ {0} /\ Len(t) = Len(s) - 1
      /\ \A i \in 1..Len(t) : t[i] = s[i + 1] /\ i + 1 \in 1..Len(s)
  BY TailTasks DEF Runs
<1>2. DOMAIN s = 1..Len(s) /\ DOMAIN t = 1..Len(t) /\ Len(t) \in Nat /\ Len(t) + 1 = Len(s)
  BY <1>1, TaskTypes
<1>3. \A i \in Updates(t, h) : i \in Nat /\ i + 1 \in Updates(s, h)
  BY <1>1, <1>2 DEF Updates
<1>4. \A i \in Asked(t, h) : /\ i \in Nat /\ i \in 1..Len(t) /\ i + 1 \in Asked(s, h)
                             /\ t[i] = s[i + 1]
  BY <1>1, <1>2, <1>3 DEF Asked, Updates
<1>5. h \in set <=> IF IsUpdate(s[1], h) THEN s[1].on = TRUE ELSE h \in set
  BY DEF IsUpdate
<1>a. ASSUME NEW n \in Nat, n <= Len(t) PROVE EndsOn(t, n, h, set) <=> EndsOn(s, n + 1, h, set)
  <2>1. \A k \in 1..n : t[k] = s[k + 1]
    BY <1>1, <1>2, <1>a
  <2>2. QED
    BY <1>5, <2>1, FirstRun
<1>6. Wanted(t, h, set) <=> Wanted(s, h, set)
  <2>1. EndsOn(t, Len(t), h, set) <=> EndsOn(s, Len(t) + 1, h, set)
    BY <1>2, <1>a
  <2>2. QED
    BY <1>2, <2>1 DEF Wanted
<1>7. LastInv(s, h) => LastInv(t, h)
  <2>1. ASSUME LastInv(s, h), NEW i \in Asked(t, h), NEW k \in Updates(t, h) PROVE k <= i
    <3>1. k + 1 <= i + 1 /\ k \in Nat /\ i \in Nat
      BY <1>3, <1>4, <2>1 DEF LastInv
    <3>2. QED
      BY <3>1
  <2>2. QED
    BY <2>1 DEF LastInv
<1>8. ASSUME PriorInv(s, h, set, begun), NEW i \in Asked(t, h), t[i].on = TRUE
      PROVE  ~EndsOn(t, i - 1, h, set)
  <2>1. i + 1 \in Asked(s, h) /\ s[i + 1].on = TRUE /\ i \in 1..Len(t) /\ i + 1 # 1
    BY <1>2, <1>4, <1>8
  <2>2. ~EndsOn(s, (i + 1) - 1, h, set)
    BY <1>8, <2>1 DEF PriorInv
  <2>3. (i + 1) - 1 = (i - 1) + 1 /\ i - 1 \in Nat /\ i - 1 <= Len(t)
    BY <1>2, <2>1
  <2>4. EndsOn(t, i - 1, h, set) <=> EndsOn(s, (i - 1) + 1, h, set)
    BY <1>a, <2>3
  <2>5. QED
    BY <2>2, <2>3, <2>4
<1>9. QED
  BY <1>3, <1>4, <1>6, <1>7, <1>8 DEF PriorInv, RanFor

BegunFor(s, h, set, other) ==
  /\ Wanted(s, h, other) <=> Wanted(s, h, set)
  /\ PriorInv(s, h, set, FALSE) => PriorInv(s, h, other, TRUE)

\* The first task puts its worker into the set or takes it out, and goes on.
LEMMA BeginTask ==
  ASSUME NEW s \in Seq(Presence!Tasks), s # <<>>, NEW set, NEW other, NEW h,
         h \in other <=> IF IsUpdate(s[1], h) THEN s[1].on = TRUE ELSE h \in set
  PROVE  BegunFor(s, h, set, other)
<1>1. Len(s) \in Nat /\ DOMAIN s = 1..Len(s) /\ Len(s) # 0
  BY EmptySeq, TaskTypes
<1>2. ASSUME NEW n \in Nat, n # 0 PROVE EndsOn(s, n, h, other) <=> EndsOn(s, n, h, set)
  <2>1. 1 \in 1..n
    BY <1>2
  <2>2. CASE IsUpdate(s[1], h)
    BY <2>1, <2>2 DEF EndsOn
  <2>3. CASE ~IsUpdate(s[1], h)
    BY <2>3 DEF EndsOn
  <2>4. QED
    BY <2>2, <2>3
<1>3. ASSUME PriorInv(s, h, set, FALSE), NEW i \in Asked(s, h), s[i].on = TRUE, i # 1
      PROVE  ~EndsOn(s, i - 1, h, other)
  <2>1. i \in 1..Len(s)
    BY <1>1 DEF Asked, Updates
  <2>2. i - 1 \in Nat /\ i - 1 # 0
    BY <1>1, <1>3, <2>1
  <2>3. QED
    BY <1>2, <1>3, <2>2 DEF PriorInv
<1>4. QED
  BY <1>1, <1>2, <1>3 DEF Wanted, PriorInv, BegunFor

Added(s, task, t) ==
  /\ t \in Seq(Presence!Tasks) /\ t # <<>> /\ Len(s) \in Nat /\ Len(t) = Len(s) + 1
  /\ s # <<>> => t[1] = s[1]
  /\ \A i \in DOMAIN s : i \in 1..Len(s) /\ i \in DOMAIN t /\ t[i] = s[i]
  /\ \A i \in 1..Len(s) : i \in DOMAIN s /\ t[i] = s[i]
  /\ DOMAIN t = DOMAIN s \cup {Len(s) + 1} /\ Len(s) + 1 \notin DOMAIN s
  /\ t[Len(s) + 1] = task

LEMMA AddTask ==
  ASSUME NEW s \in Seq(Presence!Tasks), NEW task \in Presence!Tasks, NEW t, Adds(s, task, t)
  PROVE  Added(s, task, t)
<1>1. /\ t \in Seq(Presence!Tasks) /\ Len(t) = Len(s) + 1 /\ t[Len(s) + 1] = task
      /\ \A i \in 1..Len(s) : t[i] = s[i]
  BY AppendProperties DEF Adds
<1>2. Len(s) \in Nat /\ DOMAIN s = 1..Len(s) /\ DOMAIN t = 1..Len(t) /\ (s # <<>> => Len(s) # 0)
  BY <1>1, EmptySeq, TaskTypes
<1>3. DOMAIN t = DOMAIN s \cup {Len(s) + 1} /\ Len(s) + 1 \notin DOMAIN s
  BY <1>1, <1>2
<1>4. t # <<>>
  BY <1>1, <1>2, EmptySeq
<1>5. s # <<>> => t[1] = s[1]
  BY <1>1, <1>2
<1>6. QED
  BY <1>1, <1>2, <1>3, <1>4, <1>5 DEF Added

\* For h the tasks t are as the tasks s.
SameFor(s, t, h, set, begun) ==
  /\ Updates(t, h) = Updates(s, h) /\ Asked(t, h) = Asked(s, h)
  /\ \A i \in Asked(s, h) : t[i].on = s[i].on
  /\ LastInv(s, h) => LastInv(t, h)
  /\ PriorInv(s, h, set, begun) => PriorInv(t, h, set, begun)
  /\ Wanted(t, h, set) <=> Wanted(s, h, set)

LEMMA EndsEarlier ==
  ASSUME NEW s \in Seq(Presence!Tasks), NEW task \in Presence!Tasks, NEW t, Adds(s, task, t),
         NEW h, NEW set, NEW n \in Nat, n <= Len(s)
  PROVE  EndsOn(t, n, h, set) <=> EndsOn(s, n, h, set)
<1>a. Added(s, task, t)
  BY AddTask
<1>1. \A k \in 1..n : t[k] = s[k]
  BY <1>a DEF Added
<1>2. QED
  BY <1>1, SameUpdates

LEMMA EndsNow ==
  ASSUME NEW s \in Seq(Presence!Tasks), NEW task \in Presence!Tasks, NEW t, Adds(s, task, t),
         NEW h, NEW set
  PROVE  Wanted(t, h, set) <=> IF IsUpdate(task, h) THEN task.on = TRUE ELSE Wanted(s, h, set)
<1>a. Added(s, task, t)
  BY AddTask
<1>1. Len(s) \in Nat /\ Len(t) = Len(s) + 1 /\ t[Len(s) + 1] = task
  BY <1>a DEF Added
<1>2. EndsOn(t, Len(s), h, set) <=> EndsOn(s, Len(s), h, set)
  BY <1>1, EndsEarlier
<1>3. PICK n \in Nat \ {0} : n = Len(t) /\ n - 1 = Len(s)
  BY <1>1
<1>4. EndsOn(t, n, h, set) <=> IF IsUpdate(t[n], h) THEN t[n].on = TRUE ELSE EndsOn(t, n - 1, h, set)
  BY LastDecides
<1>5. QED
  BY <1>1, <1>2, <1>3, <1>4 DEF Wanted

\* A task that is not one of h is added.
LEMMA AddOther ==
  ASSUME NEW s \in Seq(Presence!Tasks), NEW task \in Presence!Tasks, NEW t, Adds(s, task, t),
         NEW h, ~IsUpdate(task, h), NEW set, NEW begun
  PROVE  SameFor(s, t, h, set, begun)
<1>a. Added(s, task, t)
  BY AddTask
<1>1. /\ Len(s) \in Nat /\ t[Len(s) + 1] = task /\ DOMAIN t = DOMAIN s \cup {Len(s) + 1}
      /\ \A i \in DOMAIN s : i \in 1..Len(s) /\ i \in DOMAIN t /\ t[i] = s[i]
  BY <1>a DEF Added
<1>2. Updates(t, h) = Updates(s, h)
  BY <1>1 DEF Updates
<1>3. \A i \in Updates(s, h) : i \in 1..Len(s) /\ t[i] = s[i]
  BY <1>1 DEF Updates
<1>4. Asked(t, h) = Asked(s, h)
  BY <1>2, <1>3 DEF Asked
<1>5. \A i \in Asked(s, h) : i \in 1..Len(s) /\ t[i] = s[i]
  BY <1>3 DEF Asked
<1>6. LastInv(s, h) => LastInv(t, h)
  BY <1>2, <1>4 DEF LastInv
<1>7. ASSUME PriorInv(s, h, set, begun), NEW i \in Asked(t, h), t[i].on = TRUE,
             ~(i = 1 /\ begun = TRUE)
      PROVE  ~EndsOn(t, i - 1, h, set)
  <2>1. i \in Asked(s, h) /\ s[i].on = TRUE /\ i \in 1..Len(s)
    BY <1>4, <1>5, <1>7
  <2>2. i - 1 \in Nat /\ i - 1 <= Len(s)
    BY <1>1, <2>1
  <2>3. EndsOn(t, i - 1, h, set) <=> EndsOn(s, i - 1, h, set)
    BY <2>2, EndsEarlier
  <2>4. QED
    BY <1>7, <2>1, <2>3 DEF PriorInv
<1>8. PriorInv(s, h, set, begun) => PriorInv(t, h, set, begun)
  BY <1>7 DEF PriorInv
<1>9. Wanted(t, h, set) <=> Wanted(s, h, set)
  BY EndsNow
<1>10. QED
  BY <1>2, <1>4, <1>5, <1>6, <1>8, <1>9 DEF SameFor

OnlyAsked(t, h, task) == LastInv(t, h) /\ \A i \in Asked(t, h) : t[i] = task

\* A task of h is added, and nobody waits for an earlier one.
LEMMA AddOwn ==
  ASSUME NEW s \in Seq(Presence!Tasks), NEW task \in Presence!Tasks, NEW t, Adds(s, task, t),
         NEW h, IsUpdate(task, h), Asked(s, h) = {}
  PROVE  OnlyAsked(t, h, task)
<1>a. Added(s, task, t)
  BY AddTask
<1>1. /\ Len(s) \in Nat /\ t[Len(s) + 1] = task /\ DOMAIN t = DOMAIN s \cup {Len(s) + 1}
      /\ \A i \in DOMAIN s : i \in 1..Len(s) /\ t[i] = s[i]
  BY <1>a DEF Added
<1>2. \A i \in Asked(t, h) : i = Len(s) + 1 /\ t[i] = task
  BY <1>1 DEF Asked, Updates
<1>3. \A i \in Updates(t, h) : i <= Len(s) + 1
  BY <1>1 DEF Updates
<1>4. LastInv(t, h)
  BY <1>2, <1>3 DEF LastInv
<1>5. QED
  BY <1>2, <1>4 DEF OnlyAsked

LEMMA AddPrior ==
  ASSUME NEW s \in Seq(Presence!Tasks), NEW task \in Presence!Tasks, NEW t, Adds(s, task, t),
         NEW h, IsUpdate(task, h), Asked(s, h) = {}, NEW set, NEW begun,
         task.on = TRUE => ~Wanted(s, h, set)
  PROVE  PriorInv(t, h, set, begun)
<1>a. Added(s, task, t)
  BY AddTask
<1>1. /\ Len(s) \in Nat /\ t[Len(s) + 1] = task /\ DOMAIN t = DOMAIN s \cup {Len(s) + 1}
      /\ \A i \in DOMAIN s : i \in 1..Len(s) /\ t[i] = s[i]
  BY <1>a DEF Added
<1>2. \A i \in Asked(t, h) : i = Len(s) + 1 /\ t[i] = task
  BY <1>1 DEF Asked, Updates
<1>3. ASSUME NEW i \in Asked(t, h), t[i].on = TRUE PROVE ~EndsOn(t, i - 1, h, set)
  <2>1. i - 1 = Len(s) /\ ~Wanted(s, h, set)
    BY <1>1, <1>2, <1>3
  <2>2. EndsOn(t, Len(s), h, set) <=> EndsOn(s, Len(s), h, set)
    BY <1>1, EndsEarlier
  <2>3. QED
    BY <2>1, <2>2 DEF Wanted
<1>4. QED
  BY <1>3 DEF PriorInv

\* Nobody waits for the tasks of w any longer.
Forgot(s, w, t) ==
  /\ t \in Seq(Presence!Tasks) /\ Len(s) \in Nat /\ Len(t) = Len(s) /\ DOMAIN t = DOMAIN s
  /\ DOMAIN s = 1..Len(s)
  /\ \A i \in DOMAIN s : /\ t[i].kind = s[i].kind /\ t[i].worker = s[i].worker /\ t[i].on = s[i].on
                         /\ t[i].ask = IF s[i].worker = w THEN FALSE ELSE s[i].ask

LEMMA ForgetTasks ==
  ASSUME NEW s \in Seq(Presence!Tasks), NEW w, NEW t, Forgets(s, w, t)
  PROVE  Forgot(s, w, t)
<1>1. Len(s) \in Nat /\ DOMAIN s = 1..Len(s)
  BY TaskTypes
<1>2. t = [i \in 1..Len(s) |->
             IF s[i].worker = w THEN [s[i] EXCEPT !.ask = FALSE] ELSE s[i]]
  BY DEF Presence!Forgotten, Forgets
<1>3. ASSUME NEW i \in 1..Len(s)
      PROVE  /\ t[i] \in Presence!Tasks /\ t[i].kind = s[i].kind /\ t[i].worker = s[i].worker
             /\ t[i].on = s[i].on /\ t[i].ask = IF s[i].worker = w THEN FALSE ELSE s[i].ask
  <2>1. s[i] \in Presence!Tasks
    BY <1>1, TaskTypes
  <2>2. t[i] = IF s[i].worker = w THEN [s[i] EXCEPT !.ask = FALSE] ELSE s[i]
    BY <1>2
  <2>3. QED
    BY <2>1, <2>2 DEF Presence!Tasks
<1>4. /\ t \in Seq(Presence!Tasks) /\ Len(t) = Len(s) /\ DOMAIN t = DOMAIN s
  <2>1. t \in [1..Len(s) -> Presence!Tasks]
    BY <1>2, <1>3
  <2>2. QED
    BY <1>1, <2>1, IsASeq, LenProperties
<1>5. QED
  BY <1>1, <1>3, <1>4 DEF Forgot

\* For every h they are the same updates, of which w waits for none.
Unasked(s, w, t, h, set) ==
  /\ Updates(t, h) = Updates(s, h)
  /\ h = w => Asked(t, h) = {}
  /\ h # w => Asked(t, h) = Asked(s, h)
  /\ Wanted(t, h, set) <=> Wanted(s, h, set)

LEMMA ForgetUpdates ==
  ASSUME NEW s \in Seq(Presence!Tasks), NEW w, NEW t, Forgets(s, w, t), NEW h, NEW set
  PROVE  Unasked(s, w, t, h, set)
<1>a. Forgot(s, w, t)
  BY ForgetTasks
<1>1. /\ Len(t) = Len(s) /\ DOMAIN t = DOMAIN s /\ DOMAIN s = 1..Len(s) /\ Len(s) \in Nat
      /\ \A i \in DOMAIN s : t[i].kind = s[i].kind /\ t[i].worker = s[i].worker /\ t[i].on = s[i].on
                             /\ t[i].ask = IF s[i].worker = w THEN FALSE ELSE s[i].ask
  BY <1>a DEF Forgot
<1>2. \A i \in 1..Len(s) : IsUpdate(t[i], h) <=> IsUpdate(s[i], h)
  BY <1>1 DEF IsUpdate
<1>3. Updates(t, h) = Updates(s, h)
  BY <1>1, <1>2 DEF Updates
<1>4. \A i \in Updates(s, h) : i \in 1..Len(s) /\ s[i].worker = h
  BY <1>1 DEF Updates, IsUpdate
<1>5. ASSUME h = w PROVE Asked(t, h) = {}
  <2>1. \A i \in Updates(s, h) : t[i].ask = FALSE
    BY <1>1, <1>4, <1>5
  <2>2. QED
    BY <1>3, <2>1 DEF Asked
<1>6. ASSUME h # w PROVE Asked(t, h) = Asked(s, h)
  <2>1. \A i \in Updates(s, h) : t[i].ask = s[i].ask
    BY <1>1, <1>4, <1>6
  <2>2. QED
    BY <1>3, <2>1 DEF Asked
<1>7. Wanted(t, h, set) <=> Wanted(s, h, set)
  <2>1. \A k \in 1..Len(s) : (IsUpdate(s[k], h) <=> IsUpdate(t[k], h)) /\ t[k].on = s[k].on
    BY <1>1, <1>2
  <2>2. EndsOn(s, Len(s), h, set) <=> EndsOn(t, Len(s), h, set)
    BY <1>1, <2>1, SameUpdates
  <2>3. QED
    BY <1>1, <2>2 DEF Wanted
<1>8. QED
  BY <1>3, <1>5, <1>6, <1>7 DEF Unasked

LEMMA ForgetOther ==
  ASSUME NEW s \in Seq(Presence!Tasks), NEW w, NEW t, Forgets(s, w, t), NEW h, h # w,
         NEW set, NEW begun
  PROVE  SameFor(s, t, h, set, begun)
<1>a. Unasked(s, w, t, h, set) /\ Forgot(s, w, t)
  BY ForgetUpdates, ForgetTasks
<1>1. /\ Updates(t, h) = Updates(s, h) /\ Asked(t, h) = Asked(s, h)
      /\ Wanted(t, h, set) <=> Wanted(s, h, set)
  BY <1>a DEF Unasked
<1>2. /\ Len(t) = Len(s) /\ DOMAIN t = DOMAIN s /\ DOMAIN s = 1..Len(s) /\ Len(s) \in Nat
      /\ \A i \in DOMAIN s : t[i].kind = s[i].kind /\ t[i].worker = s[i].worker /\ t[i].on = s[i].on
  BY <1>a DEF Forgot
<1>3. \A i \in Asked(s, h) : i \in 1..Len(s) /\ t[i].on = s[i].on
  BY <1>2 DEF Asked, Updates
<1>4. LastInv(s, h) => LastInv(t, h)
  BY <1>1 DEF LastInv
<1>5. ASSUME NEW n \in Nat, n <= Len(s) PROVE EndsOn(t, n, h, set) <=> EndsOn(s, n, h, set)
  <2>1. \A k \in 1..n : k \in DOMAIN s
    BY <1>2, <1>5
  <2>2. \A k \in 1..n : (IsUpdate(s[k], h) <=> IsUpdate(t[k], h)) /\ t[k].on = s[k].on
    BY <1>2, <2>1 DEF IsUpdate
  <2>3. QED
    BY <2>2, SameUpdates
<1>6. ASSUME PriorInv(s, h, set, begun), NEW i \in Asked(t, h), t[i].on = TRUE,
             ~(i = 1 /\ begun = TRUE)
      PROVE  ~EndsOn(t, i - 1, h, set)
  <2>1. i \in Asked(s, h) /\ i \in 1..Len(s) /\ s[i].on = TRUE
    BY <1>1, <1>3, <1>6
  <2>2. i - 1 \in Nat /\ i - 1 <= Len(s)
    BY <1>2, <2>1
  <2>3. QED
    BY <1>5, <1>6, <2>1, <2>2 DEF PriorInv
<1>7. QED
  BY <1>1, <1>3, <1>4, <1>6 DEF SameFor, PriorInv

-----------------------------------------------------------------------------
\* The clients that h has, and whether the last request that the coordinator got
\* from h says that it has some.
Serves(cl, h) == {c \in Presence!Clients : c[1] = h /\ cl[c] \in {"asking", "connected"}}
Owes(h, a, cl) == IF a = <<>> THEN Serves(cl, h) # {} ELSE (a[1].sent = TRUE <=> a[1].on = TRUE)

\* The requests a of a worker in the state l of its life, with clients cl.
AskInv(h, l, a, cl, n) ==
  /\ l \in {"gone", "off"} => a = <<>> /\ Serves(cl, h) = {}
  /\ Len(a) <= 2
  /\ Len(a) = 2 => a[1].on = FALSE /\ a[2].on = TRUE /\ a[2].sent = FALSE
  /\ \A i \in DOMAIN a : a[i].on = TRUE => a[i].client[1] = h /\ cl[a[i].client] = "asking"
  /\ a # <<>> /\ a[Len(a)].on = FALSE => Serves(cl, h) = {}
  /\ \A c \in Presence!Clients : c[1] = h /\ cl[c] = "asking" =>
       \E i \in DOMAIN a : a[i].on = TRUE /\ a[i].client = c
  /\ n = TRUE => l \notin {"gone", "off"} /\ a = <<>> /\ Serves(cl, h) # {}

\* The coordinator answers the first request.
CoordInv(h, a, q) ==
  /\ LastInv(q, h)
  /\ \A i \in Asked(q, h) : a # <<>> /\ a[1].sent = TRUE /\ (a[1].on = TRUE <=> q[i].on = TRUE)

\* The coordinator counts h, unless it was replaced.
KnownInv(h, l, n, q, set) == n = TRUE /\ l # "stopping" => h \in set /\ Updates(q, h) = {}

\* The tasks leave h in the set only if it has clients, or says that it has.
TurnInv(h, l, a, cl, q, set, begun) ==
  l # "gone" => (Wanted(q, h, set) => Owes(h, a, cl)) /\ PriorInv(q, h, set, begun)

HostInv(h, l, a, cl, n, q, set, begun) ==
  /\ AskInv(h, l, a, cl, n) /\ CoordInv(h, a, q) /\ KnownInv(h, l, n, q, set)
  /\ TurnInv(h, l, a, cl, q, set, begun)

ClientStates == [Presence!Clients -> {"off", "asking", "connected", "closed"}]

LEMMA AskTypes ==
  ASSUME NEW a \in Seq(Asks)
  PROVE  /\ Len(a) \in Nat /\ DOMAIN a = 1..Len(a) /\ (a = <<>> <=> Len(a) = 0)
         /\ \A i \in DOMAIN a : /\ a[i] \in Asks /\ a[i].on \in BOOLEAN /\ a[i].sent \in BOOLEAN
                                /\ a[i].client \in Presence!Clients
<1>1. Len(a) \in Nat /\ DOMAIN a = 1..Len(a)
  BY LenProperties
<1>2. \A i \in DOMAIN a : a[i] \in Asks
  BY <1>1, ElementOfSeq
<1>3. QED
  BY <1>1, <1>2, EmptySeq DEF Asks

LEMMA MoreAsks ==
  ASSUME NEW a \in Seq(Asks), NEW m \in Asks
  PROVE  /\ Append(a, m) \in Seq(Asks) /\ Append(a, m) # <<>>
         /\ a = <<>> => /\ Len(Append(a, m)) = 1 /\ DOMAIN Append(a, m) = {1}
                        /\ Append(a, m)[1] = m
         /\ Len(a) = 1 => /\ Len(Append(a, m)) = 2 /\ DOMAIN Append(a, m) = {1, 2}
                          /\ Append(a, m)[1] = a[1] /\ Append(a, m)[2] = m
<1>1. PICK b : b = Append(a, m)
  OBVIOUS
<1>2. /\ b \in Seq(Asks) /\ Len(b) = Len(a) + 1 /\ b[Len(a) + 1] = m
      /\ \A i \in 1..Len(a) : b[i] = a[i]
  BY <1>1, AppendProperties
<1>3. Len(a) \in Nat /\ DOMAIN b = 1..Len(b) /\ (b = <<>> <=> Len(b) = 0) /\ (a = <<>> => Len(a) = 0)
  BY <1>2, AskTypes
<1>4. b # <<>>
  BY <1>2, <1>3
<1>5. CASE a = <<>>
  <2>1. Len(a) = 0 /\ Len(b) = 1 /\ b[1] = m
    BY <1>2, <1>3, <1>5
  <2>2. DOMAIN b = {1}
    BY <1>3, <2>1
  <2>3. QED
    BY <1>1, <1>2, <1>4, <2>1, <2>2
<1>6. CASE Len(a) = 1
  <2>1. Len(b) = 2 /\ b[1] = a[1] /\ b[2] = m
    BY <1>2, <1>6
  <2>2. DOMAIN b = {1, 2}
    BY <1>3, <2>1
  <2>3. QED
    BY <1>1, <1>2, <1>3, <1>4, <1>6, <2>1, <2>2
<1>7. QED
  BY <1>1, <1>2, <1>4, <1>5, <1>6

LEMMA FewerAsks ==
  ASSUME NEW a \in Seq(Asks), a # <<>>, Len(a) <= 2, NEW b, b = Tail(a)
  PROVE  /\ b \in Seq(Asks) /\ (Len(a) = 1 \/ Len(a) = 2) /\ 1 \in DOMAIN a
         /\ Len(a) = 1 => b = <<>> /\ DOMAIN b = {} /\ a[Len(a)] = a[1]
         /\ Len(a) = 2 => b # <<>> /\ Len(b) = 1 /\ DOMAIN b = {1} /\ b[1] = a[2] /\ 2 \in DOMAIN a
<1>1. b \in Seq(Asks) /\ Len(b) = Len(a) - 1 /\ \A i \in 1..Len(b) : b[i] = a[i + 1]
  BY HeadTailProperties
<1>2. Len(a) \in Nat /\ DOMAIN a = 1..Len(a) /\ Len(a) # 0
  BY AskTypes
<1>3. DOMAIN b = 1..Len(b) /\ (b = <<>> <=> Len(b) = 0)
  BY <1>1, AskTypes
<1>4. Len(a) = 1 \/ Len(a) = 2
  BY <1>2
<1>5. CASE Len(a) = 1
  BY <1>1, <1>2, <1>3, <1>5
<1>6. CASE Len(a) = 2
  <2>1. Len(b) = 1
    BY <1>1, <1>6
  <2>2. b[1] = a[2]
    BY <1>1, <2>1
  <2>3. QED
    BY <1>1, <1>2, <1>3, <1>6, <2>1, <2>2
<1>7. QED
  BY <1>4, <1>5, <1>6

LEMMA AskFields ==
  ASSUME NEW c \in Presence!Clients
  PROVE  /\ Presence!Ask(TRUE, c) \in Asks /\ Presence!Ask(TRUE, c).on = TRUE
         /\ Presence!Ask(TRUE, c).client = c /\ Presence!Ask(TRUE, c).sent = FALSE
         /\ Presence!Ask(FALSE, c) \in Asks /\ Presence!Ask(FALSE, c).on = FALSE
         /\ Presence!Ask(FALSE, c).client = c /\ Presence!Ask(FALSE, c).sent = FALSE
BY DEF Presence!Ask, Asks

\* A worker tells that it has no clients.
LEMMA OffAsk ==
  ASSUME NEW h, NEW l, l \notin {"gone", "off"}, NEW a \in Seq(Asks), a # <<>>, Len(a) = 1, DOMAIN a = {1},
         a[1].on = FALSE, NEW cl, Serves(cl, h) = {}, NEW n, n = FALSE
  PROVE  AskInv(h, l, a, cl, n)
<1>1. \A c \in Presence!Clients : c[1] = h => cl[c] # "asking"
  BY DEF Serves
<1>2. \A i \in DOMAIN a : a[i].on # TRUE
  OBVIOUS
<1>3. QED
  BY <1>1, <1>2 DEF AskInv

\* A client changes its state, and the requests but not the first one.
Turns(cl, c, state, cl2) ==
  \A d \in Presence!Clients : cl2[d] = IF d = c THEN state ELSE cl[d]
TellsOn(m, c) == m \in Asks /\ m.on = TRUE /\ m.client = c /\ m.sent = FALSE
TellsOff(m, c) == m \in Asks /\ m.on = FALSE /\ m.client = c /\ m.sent = FALSE
Queues(a, m, a2) == a2 = Append(a, m)

AskStep(h, l, a, a2, cl, cl2, n, n2) ==
  /\ a2 \in Seq(Asks) /\ AskInv(h, l, a2, cl2, n2) /\ (n2 = TRUE => n = TRUE)
  /\ Owes(h, a2, cl2) <=> Owes(h, a, cl)
  /\ a # <<>> => a2 # <<>> /\ a2[1] = a[1]

\* The first client of a worker connects.
LEMMA FirstClient ==
  ASSUME NEW h, NEW l, l \notin {"gone", "off"}, NEW a \in Seq(Asks), NEW cl \in ClientStates, NEW n,
         AskInv(h, l, a, cl, n), NEW c \in Presence!Clients, c[1] = h, cl[c] = "off",
         Serves(cl, h) = {}, NEW cl2, Turns(cl, c, "asking", cl2),
         NEW m, TellsOn(m, c), NEW a2, Queues(a, m, a2)
  PROVE  AskStep(h, l, a, a2, cl, cl2, n, n)
<1>1. m \in Asks /\ m.on = TRUE /\ m.client = c /\ m.sent = FALSE /\ a2 = Append(a, m)
  BY DEF TellsOn, Queues
<1>2. /\ a2 \in Seq(Asks) /\ a2 # <<>>
      /\ a = <<>> => Len(a2) = 1 /\ DOMAIN a2 = {1} /\ a2[1] = m
      /\ Len(a) = 1 => Len(a2) = 2 /\ DOMAIN a2 = {1, 2} /\ a2[1] = a[1] /\ a2[2] = m
  BY <1>1, MoreAsks
<1>3. /\ Len(a) \in Nat /\ DOMAIN a = 1..Len(a) /\ (a = <<>> <=> Len(a) = 0)
      /\ \A i \in DOMAIN a : a[i].on \in BOOLEAN /\ a[i].client \in Presence!Clients
  BY AskTypes
<1>4. cl2[c] = "asking" /\ \A d \in Presence!Clients : d # c => cl2[d] = cl[d]
  BY DEF Turns
<1>5. a # <<>> => Len(a) = 1 /\ a[1].on = FALSE /\ 1 \in DOMAIN a
  <2>1. SUFFICES ASSUME a # <<>> PROVE Len(a) = 1 /\ a[1].on = FALSE /\ 1 \in DOMAIN a
    OBVIOUS
  <2>2. Len(a) \in DOMAIN a /\ 1 \in DOMAIN a /\ (Len(a) = 1 \/ Len(a) = 2)
    BY <1>3, <2>1 DEF AskInv
  <2>3. a[Len(a)].on = FALSE
    <3>1. SUFFICES ASSUME a[Len(a)].on = TRUE PROVE FALSE
      BY <1>3, <2>2
    <3>2. a[Len(a)].client \in Serves(cl, h)
      BY <1>3, <2>2, <3>1 DEF AskInv, Serves
    <3>3. QED
      BY <3>2
  <2>4. Len(a) # 2
    BY <2>3 DEF AskInv
  <2>5. QED
    BY <2>2, <2>3, <2>4
<1>6. n # TRUE /\ Serves(cl2, h) # {}
  BY <1>4 DEF AskInv, Serves
<1>7. \A i \in DOMAIN a : a[i].on = TRUE => a[i].client[1] = h /\ cl2[a[i].client] = "asking"
  BY <1>3, <1>4 DEF AskInv
<1>a. \A d \in Presence!Clients : d[1] = h /\ cl2[d] = "asking" => d = c
  BY <1>4 DEF Serves
<1>8. CASE a = <<>>
  <2>1. Len(a2) = 1 /\ a2[1] = m /\ DOMAIN a2 = {1}
    BY <1>2, <1>8
  <2>2. \A i \in DOMAIN a2 : a2[i].on = TRUE /\ a2[i].client = c
    BY <1>1, <2>1
  <2>3. AskInv(h, l, a2, cl2, n)
    BY <1>2, <1>4, <1>6, <1>a, <2>1, <2>2 DEF AskInv
  <2>4. QED
    BY <1>1, <1>2, <1>8, <2>1, <2>3 DEF Owes, AskStep
<1>9. CASE a # <<>>
  <2>1. Len(a) = 1 /\ a[1].on = FALSE
    BY <1>5, <1>9
  <2>2. Len(a2) = 2 /\ a2[1] = a[1] /\ a2[2] = m /\ DOMAIN a2 = {1, 2}
    BY <1>2, <2>1
  <2>3. a2[1].on = FALSE /\ a2[2].on = TRUE /\ a2[2].client = c /\ a2[2].sent = FALSE
    BY <1>1, <2>1, <2>2
  <2>4. \A i \in DOMAIN a2 : a2[i].on = TRUE => a2[i].client = c
    BY <2>2, <2>3
  <2>5. AskInv(h, l, a2, cl2, n)
    BY <1>2, <1>4, <1>6, <1>a, <2>2, <2>3, <2>4 DEF AskInv
  <2>6. QED
    BY <1>2, <1>9, <2>2, <2>5 DEF Owes, AskStep
<1>10. QED
  BY <1>8, <1>9

\* Another one does.
LEMMA FurtherClient ==
  ASSUME NEW h, NEW l, l \notin {"gone", "off"}, NEW a \in Seq(Asks), NEW cl \in ClientStates, NEW n,
         AskInv(h, l, a, cl, n), NEW c \in Presence!Clients, c[1] = h, cl[c] = "off",
         Serves(cl, h) # {},
         NEW cl2, Turns(cl, c, "connected", cl2)
  PROVE  AskStep(h, l, a, a, cl, cl2, n, n)
<1>1. cl2[c] = "connected" /\ \A d \in Presence!Clients : d # c => cl2[d] = cl[d]
  BY DEF Turns
<1>2. Serves(cl2, h) # {}
  BY <1>1 DEF Serves
<1>3. \A i \in DOMAIN a : a[i].client \in Presence!Clients
  BY AskTypes
<1>4. QED
  BY <1>1, <1>2, <1>3 DEF AskInv, Owes, AskStep

\* A client that was told it is connected leaves.
TellsLast(h, a, m, a2, cl, c, n, n2) ==
  /\ IF Serves(cl, h) = {c} THEN Queues(a, m, a2) ELSE a2 = a
  /\ n2 = TRUE <=> n = TRUE /\ Serves(cl, h) # {c}

LEMMA ClientLeaves ==
  ASSUME NEW h, NEW l, NEW a \in Seq(Asks), NEW cl \in ClientStates, NEW n \in BOOLEAN,
         AskInv(h, l, a, cl, n), NEW c \in Presence!Clients, c[1] = h, cl[c] = "connected",
         NEW cl2, Turns(cl, c, "closed", cl2), NEW m, TellsOff(m, c), NEW a2,
         NEW n2 \in BOOLEAN, TellsLast(h, a, m, a2, cl, c, n, n2)
  PROVE  AskStep(h, l, a, a2, cl, cl2, n, n2)
<1>a. m \in Asks /\ m.on = FALSE /\ m.client = c /\ m.sent = FALSE
  BY DEF TellsOff
<1>1. cl2[c] = "closed" /\ \A d \in Presence!Clients : d # c => cl2[d] = cl[d]
  BY DEF Turns
<1>2. c \in Serves(cl, h) /\ Serves(cl2, h) = Serves(cl, h) \ {c} /\ l \notin {"gone", "off"}
  BY <1>1 DEF Serves, AskInv
<1>3. /\ Len(a) \in Nat /\ DOMAIN a = 1..Len(a) /\ (a = <<>> <=> Len(a) = 0)
      /\ \A i \in DOMAIN a : a[i].on \in BOOLEAN /\ a[i].client \in Presence!Clients
  BY AskTypes
<1>4. a # <<>> => a[Len(a)].on = TRUE /\ a[Len(a)].client \in Serves(cl, h) \ {c}
  <2>1. SUFFICES ASSUME a # <<>> PROVE a[Len(a)].on = TRUE /\ a[Len(a)].client \in Serves(cl, h) \ {c}
    OBVIOUS
  <2>2. Len(a) \in DOMAIN a /\ a[Len(a)].on = TRUE
    BY <1>2, <1>3, <2>1 DEF AskInv
  <2>3. QED
    BY <1>3, <2>2 DEF AskInv, Serves
<1>5. CASE Serves(cl, h) = {c}
  <2>1. a = <<>> /\ n2 = FALSE
    BY <1>4, <1>5 DEF TellsLast
  <2>3. a2 = Append(a, m)
    BY <1>5 DEF Queues, TellsLast
  <2>4. a2 \in Seq(Asks) /\ a2 # <<>> /\ Len(a2) = 1 /\ a2[1] = m /\ DOMAIN a2 = {1}
    BY <1>a, <2>1, <2>3, MoreAsks
  <2>5. a2[1].on = FALSE /\ a2[1].sent = FALSE /\ Serves(cl2, h) = {}
    BY <1>a, <1>2, <1>5, <2>4
  <2>8. AskInv(h, l, a2, cl2, n2)
    BY <1>2, <2>1, <2>4, <2>5, OffAsk
  <2>7. QED
    BY <1>2, <2>1, <2>4, <2>5, <2>8 DEF Owes, AskStep
<1>6. CASE Serves(cl, h) # {c}
  <2>1. a2 = a /\ n2 = n /\ Serves(cl2, h) # {}
    BY <1>2, <1>6 DEF TellsLast
  <2>2. \A i \in DOMAIN a : a[i].on = TRUE => a[i].client[1] = h /\ cl2[a[i].client] = "asking"
    BY <1>1, <1>3 DEF AskInv
  <2>3. a # <<>> => a[Len(a)].on # FALSE
    BY <1>4
  <2>4. AskInv(h, l, a, cl2, n)
    BY <1>1, <1>2, <2>1, <2>2, <2>3 DEF AskInv
  <2>5. QED
    BY <1>2, <2>1, <2>4 DEF Owes, AskStep
<1>7. QED
  BY <1>5, <1>6

\* The first request is answered: ok says whether the answer was good.
Answers(h, a, a2, cl, cl2, n, n2, ok, c, m) ==
  /\ c = a[1].client /\ m \in Asks /\ m.on = FALSE /\ m.client = c /\ m.sent = FALSE
  /\ \/ a[1].on = FALSE /\ a2 = Tail(a) /\ cl2 = cl /\ n2 = n
     \/ /\ a[1].on = TRUE /\ ok = TRUE
        /\ a2 = Tail(a) /\ n2 = TRUE
        /\ \A d \in Presence!Clients : cl2[d] = IF d = c THEN "connected" ELSE cl[d]
     \/ /\ a[1].on = TRUE /\ ok = FALSE
        /\ \A d \in Presence!Clients : cl2[d] = IF d = c THEN "closed" ELSE cl[d]
        /\ a2 = IF Serves(cl, h) = {c} THEN Append(Tail(a), m) ELSE Tail(a)
        /\ n2 = FALSE

AnswerInv(h, l, a, a2, cl, cl2, n2, ok) ==
  /\ a2 \in Seq(Asks) /\ n2 \in BOOLEAN
  /\ AskInv(h, l, a2, cl2, n2)
  /\ a[1].sent = TRUE => (Owes(h, a2, cl2) <=> Owes(h, a, cl))
  /\ n2 = TRUE => a[1].on = TRUE /\ ok = TRUE
  /\ \A d \in Presence!Clients : d[1] # h \/ cl[d] # "asking" => cl2[d] = cl[d]

LEMMA AnswerAsk ==
  ASSUME NEW h, NEW l, NEW a \in Seq(Asks), a # <<>>, NEW cl \in ClientStates, NEW n \in BOOLEAN,
         AskInv(h, l, a, cl, n), NEW ok \in BOOLEAN, NEW a2, NEW cl2 \in ClientStates, NEW n2,
         NEW c, NEW m, Answers(h, a, a2, cl, cl2, n, n2, ok, c, m)
  PROVE  AnswerInv(h, l, a, a2, cl, cl2, n2, ok)
<1>a. c = a[1].client /\ m \in Asks /\ m.on = FALSE /\ m.client = c /\ m.sent = FALSE
  BY DEF Answers
<1>1. PICK b : b = Tail(a)
  OBVIOUS
<1>2. Len(a) <= 2 /\ n = FALSE /\ l \notin {"gone", "off"}
  BY DEF AskInv
<1>3. /\ b \in Seq(Asks) /\ (Len(a) = 1 \/ Len(a) = 2) /\ 1 \in DOMAIN a
      /\ Len(a) = 1 => b = <<>> /\ DOMAIN b = {} /\ a[Len(a)] = a[1]
      /\ Len(a) = 2 => b # <<>> /\ Len(b) = 1 /\ DOMAIN b = {1} /\ b[1] = a[2] /\ 2 \in DOMAIN a
  BY <1>1, <1>2, FewerAsks
<1>4. \A i \in DOMAIN a : a[i].on \in BOOLEAN /\ a[i].sent \in BOOLEAN /\ a[i].client \in Presence!Clients
  BY AskTypes
<1>5. CASE a[1].on = FALSE /\ a2 = Tail(a) /\ cl2 = cl /\ n2 = n
  <2>a. cl2 = cl /\ n2 = FALSE /\ l \notin {"gone", "off"}
    BY <1>2, <1>5
  <2>1. CASE Len(a) = 1
    <3>1. a2 = <<>> /\ Serves(cl, h) = {} /\ DOMAIN a2 = {} /\ Len(a2) = 0
      BY <1>1, <1>3, <1>5, <2>1, EmptySeq DEF AskInv
    <3>2. \A d \in Presence!Clients : d[1] = h => cl[d] # "asking"
      BY <3>1 DEF Serves
    <3>3. AskInv(h, l, a2, cl2, n2)
      BY <2>a, <3>1, <3>2 DEF AskInv
    <3>4. QED
      BY <1>1, <1>2, <1>3, <1>5, <3>1, <3>3 DEF Owes, AnswerInv
  <2>2. CASE Len(a) = 2
    <3>1. a2 # <<>> /\ Len(a2) = 1 /\ DOMAIN a2 = {1} /\ a2[1].on = TRUE /\ a2[1].sent = FALSE /\ a2[1] = a[2]
      BY <1>1, <1>3, <1>5, <2>2 DEF AskInv
    <3>2. a2[1].client[1] = h /\ cl[a2[1].client] = "asking"
      BY <1>3, <2>2, <3>1 DEF AskInv
    <3>5. DOMAIN a = {1, 2}
      BY <2>2, AskTypes
    <3>6. \A d \in Presence!Clients : d[1] = h /\ cl[d] = "asking" => d = a2[1].client
      BY <1>5, <3>1, <3>5 DEF AskInv
    <3>3. AskInv(h, l, a2, cl2, n2)
      BY <2>a, <3>1, <3>2, <3>6 DEF AskInv
    <3>4. QED
      BY <1>1, <1>2, <1>3, <1>5, <3>1, <3>3 DEF Owes, AnswerInv
  <2>3. QED
    BY <1>3, <2>1, <2>2
<1>6. ASSUME a[1].on = TRUE
      PROVE  /\ Len(a) = 1 /\ b = <<>> /\ DOMAIN b = {} /\ c \in Presence!Clients
             /\ c[1] = h /\ cl[c] = "asking" /\ c \in Serves(cl, h)
             /\ \A d \in Presence!Clients : d[1] = h /\ d # c => cl[d] # "asking"
  <2>1. Len(a) # 2
    BY <1>6 DEF AskInv
  <2>2. c \in Presence!Clients /\ c[1] = h /\ cl[c] = "asking"
    BY <1>a, <1>3, <1>4, <1>6 DEF AskInv
  <2>3. DOMAIN a = {1}
    BY <1>3, <2>1, AskTypes
  <2>4. \A d \in Presence!Clients : d[1] = h /\ d # c => cl[d] # "asking"
    BY <1>a, <2>3 DEF AskInv
  <2>5. QED
    BY <1>3, <2>1, <2>2, <2>4 DEF Serves
<1>7. CASE /\ a[1].on = TRUE /\ ok = TRUE
           /\ a2 = Tail(a) /\ n2 = TRUE
            /\ \A d \in Presence!Clients : cl2[d] = IF d = c THEN "connected" ELSE cl[d]
  <2>a. /\ Len(a) = 1 /\ b = <<>> /\ c \in Presence!Clients /\ c[1] = h /\ cl[c] = "asking"
        /\ c \in Serves(cl, h) /\ \A d \in Presence!Clients : d[1] = h /\ d # c => cl[d] # "asking"
    BY <1>6, <1>7
  <2>1. cl2[c] = "connected" /\ \A d \in Presence!Clients : d # c => cl2[d] = cl[d]
    BY <1>7, <2>a
  <2>2. Serves(cl2, h) # {} /\ Serves(cl, h) # {}
    BY <1>7, <2>1, <2>a DEF Serves
  <2>3. a2 = <<>> /\ DOMAIN a2 = {} /\ Len(a2) = 0
    BY <1>1, <2>a, <1>7, EmptySeq
  <2>4. \A d \in Presence!Clients : d[1] = h => cl2[d] # "asking"
    BY <1>7, <2>1, <2>a
  <2>5. AskInv(h, l, a2, cl2, n2)
    BY <1>2, <2>2, <2>3, <2>4 DEF AskInv
  <2>6. Owes(h, a2, cl2) /\ (a[1].sent = TRUE => Owes(h, a, cl))
    BY <1>7, <2>2, <2>3 DEF Owes
  <2>7. \A d \in Presence!Clients : d[1] # h \/ cl[d] # "asking" => cl2[d] = cl[d]
    BY <2>1, <2>a
  <2>8. a2 \in Seq(Asks)
    BY <1>1, <1>3, <1>7
  <2>9. QED
    BY <1>7, <2>3, <2>5, <2>6, <2>7, <2>8 DEF AnswerInv
<1>8. CASE /\ a[1].on = TRUE /\ ok = FALSE
            /\ \A d \in Presence!Clients : cl2[d] = IF d = c THEN "closed" ELSE cl[d]
           /\ a2 = IF Serves(cl, h) = {c} THEN Append(Tail(a), m) ELSE Tail(a)
           /\ n2 = FALSE
  <2>a. /\ Len(a) = 1 /\ b = <<>> /\ c \in Presence!Clients /\ c[1] = h /\ cl[c] = "asking"
        /\ c \in Serves(cl, h) /\ \A d \in Presence!Clients : d[1] = h /\ d # c => cl[d] # "asking"
    BY <1>6, <1>8
  <2>1. cl2[c] = "closed" /\ \A d \in Presence!Clients : d # c => cl2[d] = cl[d]
    BY <1>8, <2>a
  <2>2. Serves(cl2, h) = Serves(cl, h) \ {c}
    BY <2>1, <2>a DEF Serves
  <2>3. \A d \in Presence!Clients : d[1] = h => cl2[d] # "asking"
    BY <2>1, <2>a
  <2>4. \A d \in Presence!Clients : d[1] # h \/ cl[d] # "asking" => cl2[d] = cl[d]
    BY <2>1, <2>a
  <2>5. a[1].sent = TRUE => Owes(h, a, cl)
    BY <1>8 DEF Owes
  <2>6. CASE Serves(cl, h) = {c}
    <3>2. a2 = Append(b, m)
      BY <1>1, <1>8, <2>6
    <3>3. a2 \in Seq(Asks) /\ a2 # <<>> /\ Len(a2) = 1 /\ a2[1] = m /\ DOMAIN a2 = {1}
      BY <1>a, <1>3, <2>a, <3>2, MoreAsks
    <3>4. a2[1].on = FALSE /\ a2[1].sent = FALSE /\ Serves(cl2, h) = {}
      BY <1>a, <2>2, <2>6, <3>3
    <3>5. AskInv(h, l, a2, cl2, n2)
      BY <1>2, <1>8, <3>3, <3>4, OffAsk
    <3>6. Owes(h, a2, cl2)
      BY <3>3, <3>4 DEF Owes
    <3>7. QED
      BY <1>8, <2>1, <2>4, <2>5, <3>3, <3>4, <3>5, <3>6 DEF AnswerInv
  <2>7. CASE Serves(cl, h) # {c}
    <3>1. a2 = <<>> /\ DOMAIN a2 = {} /\ Len(a2) = 0 /\ a2 \in Seq(Asks)
      BY <1>1, <1>3, <2>a, <1>8, <2>7, EmptySeq
    <3>2. Serves(cl2, h) # {}
      BY <2>2, <2>7, <2>a
    <3>3. AskInv(h, l, a2, cl2, n2)
      BY <1>2, <1>8, <2>3, <3>1 DEF AskInv
    <3>4. Owes(h, a2, cl2)
      BY <3>1, <3>2 DEF Owes
    <3>5. QED
      BY <1>8, <2>1, <2>4, <2>5, <3>1, <3>3, <3>4 DEF AnswerInv
  <2>8. QED
    BY <2>6, <2>7
<1>9. QED
  BY <1>5, <1>7, <1>8 DEF Answers

\* The first request is sent.
LEMMA SentAsk ==
  ASSUME NEW a \in Seq(Asks), a # <<>>, NEW a2, Sends(a, a2)
  PROVE  /\ a2 \in Seq(Asks) /\ a2 # <<>> /\ Len(a2) = Len(a) /\ DOMAIN a2 = DOMAIN a
         /\ a2[1].sent = TRUE
         /\ \A i \in DOMAIN a : /\ a2[i].on = a[i].on /\ a2[i].client = a[i].client
                                /\ i # 1 => a2[i] = a[i]
<1>1. /\ Len(a) \in Nat /\ Len(a) # 0 /\ DOMAIN a = 1..Len(a)
      /\ \A i \in DOMAIN a : a[i] \in Asks
  BY AskTypes
<1>2. 1 \in DOMAIN a
  BY <1>1
<1>3. PICK m : m = [a[1] EXCEPT !.sent = TRUE]
  OBVIOUS
<1>4. m \in Asks /\ m.sent = TRUE /\ m.on = a[1].on /\ m.client = a[1].client
  BY <1>1, <1>2, <1>3 DEF Asks
<1>5. a2 = [a EXCEPT ![1] = m]
  BY <1>3 DEF Sends
<1>6. a2[1] = m /\ DOMAIN a2 = DOMAIN a /\ \A i \in DOMAIN a : i # 1 => a2[i] = a[i]
  BY <1>2, <1>5
<1>7. a2 \in [1..Len(a) -> Asks]
  BY <1>1, <1>4, <1>5
<1>8. a2 \in Seq(Asks) /\ Len(a2) = Len(a)
  BY <1>1, <1>7, IsASeq, LenProperties
<1>9. a2 # <<>>
  BY <1>1, <1>8, EmptySeq
<1>10. QED
  BY <1>4, <1>6, <1>8, <1>9

Asking(task, h, a) ==
  task \in Presence!Tasks /\ IsUpdate(task, h) /\ task.on = a[1].on /\ task.ask = TRUE

LEMMA HostSends ==
  ASSUME NEW h, NEW l, NEW a \in Seq(Asks), a # <<>>, a[1].sent = FALSE, NEW cl \in ClientStates,
         NEW n \in BOOLEAN, NEW q \in Seq(Presence!Tasks), NEW set, NEW begun,
         HostInv(h, l, a, cl, n, q, set, begun),
         NEW a2, Sends(a, a2), NEW task, Asking(task, h, a), NEW q2, Adds(q, task, q2)
  PROVE  HostInv(h, l, a2, cl, n, q2, set, begun)
<1>b. /\ task \in Presence!Tasks /\ IsUpdate(task, h) /\ task.on = a[1].on /\ task.ask = TRUE
  BY DEF Asking
<1>1. /\ a2 \in Seq(Asks) /\ a2 # <<>> /\ Len(a2) = Len(a) /\ DOMAIN a2 = DOMAIN a
      /\ a2[1].sent = TRUE
      /\ \A i \in DOMAIN a : /\ a2[i].on = a[i].on /\ a2[i].client = a[i].client
                             /\ i # 1 => a2[i] = a[i]
  BY SentAsk
<1>2. /\ Len(a) \in Nat /\ Len(a) # 0 /\ DOMAIN a = 1..Len(a) /\ a[1].on \in BOOLEAN
      /\ task.on \in BOOLEAN
  BY <1>b, AskTypes DEF Presence!Tasks
<1>3. 1 \in DOMAIN a /\ Len(a) \in DOMAIN a /\ (Len(a) = 2 => 2 \in DOMAIN a)
  BY <1>2
<1>4. AskInv(h, l, a, cl, n) /\ n = FALSE
  BY DEF HostInv, AskInv
<1>5. AskInv(h, l, a2, cl, n)
  <2>1. Len(a2) = 2 => a2[1].on = FALSE /\ a2[2].on = TRUE /\ a2[2].sent = FALSE
    BY <1>1, <1>3, <1>4 DEF AskInv
  <2>2. \A i \in DOMAIN a2 : a2[i].on = TRUE => a2[i].client[1] = h /\ cl[a2[i].client] = "asking"
    BY <1>1, <1>4 DEF AskInv
  <2>3. a2[Len(a2)].on = FALSE => Serves(cl, h) = {}
    BY <1>1, <1>3, <1>4 DEF AskInv
  <2>4. \A c \in Presence!Clients : c[1] = h /\ cl[c] = "asking" =>
          \E i \in DOMAIN a2 : a2[i].on = TRUE /\ a2[i].client = c
    BY <1>1, <1>4 DEF AskInv
  <2>5. QED
    BY <1>1, <1>4, <2>1, <2>2, <2>3, <2>4 DEF AskInv
<1>6. Asked(q, h) = {}
  BY DEF HostInv, CoordInv
<1>a. OnlyAsked(q2, h, task)
  BY <1>b, <1>6, AddOwn
<1>7. LastInv(q2, h) /\ \A i \in Asked(q2, h) : q2[i] = task
  BY <1>a DEF OnlyAsked
<1>8. CoordInv(h, a2, q2)
  <2>1. \A i \in Asked(q2, h) : a2[1].on = TRUE <=> q2[i].on = TRUE
    BY <1>b, <1>1, <1>3, <1>7
  <2>2. QED
    BY <1>1, <1>7, <2>1 DEF CoordInv
<1>9. TurnInv(h, l, a2, cl, q2, set, begun)
  <2>1. SUFFICES ASSUME l # "gone"
                 PROVE  (Wanted(q2, h, set) => Owes(h, a2, cl)) /\ PriorInv(q2, h, set, begun)
    BY DEF TurnInv
  <2>2. Wanted(q, h, set) => Owes(h, a, cl)
    BY <2>1 DEF HostInv, TurnInv
  <2>3. Wanted(q, h, set) => a[1].on # TRUE
    BY <1>2, <2>2 DEF Owes
  <2>4. Owes(h, a2, cl) <=> task.on = TRUE
    BY <1>b, <1>1, <1>3 DEF Owes
  <2>5. Wanted(q2, h, set) <=> task.on = TRUE
    BY <1>b, EndsNow
  <2>6. PriorInv(q2, h, set, begun)
    BY <1>b, <1>6, <2>3, AddPrior
  <2>7. QED
    BY <2>4, <2>5, <2>6
<1>10. QED
  BY <1>1, <1>4, <1>5, <1>8, <1>9 DEF HostInv, KnownInv

LEMMA HostSame ==
  ASSUME NEW h, NEW l, NEW a, NEW cl, NEW n, NEW q, NEW q2, NEW set, NEW begun,
         HostInv(h, l, a, cl, n, q, set, begun), SameFor(q, q2, h, set, begun)
  PROVE  HostInv(h, l, a, cl, n, q2, set, begun)
BY DEF HostInv, CoordInv, KnownInv, TurnInv, SameFor

LEMMA HostForgets ==
  ASSUME NEW h, NEW l, NEW a, NEW cl, NEW n, NEW q \in Seq(Presence!Tasks), NEW set, NEW begun,
         HostInv(h, l, a, cl, n, q, set, begun), NEW w, NEW q2, Forgets(q, w, q2)
  PROVE  HostInv(h, l, a, cl, n, q2, set, begun)
<1>1. CASE h = w
  <2>1. Unasked(q, w, q2, h, set)
    BY ForgetUpdates
  <2>2. Updates(q2, h) = Updates(q, h) /\ Asked(q2, h) = {} /\ (Wanted(q2, h, set) <=> Wanted(q, h, set))
    BY <1>1, <2>1 DEF Unasked
  <2>3. QED
    BY <2>2 DEF HostInv, CoordInv, KnownInv, TurnInv, LastInv, PriorInv
<1>2. CASE h # w
  <2>1. SameFor(q, q2, h, set, begun)
    BY <1>2, ForgetOther
  <2>2. QED
    BY <1>2, <2>1, HostSame
<1>3. QED
  BY <1>1, <1>2

\* The first task ends.
LEMMA HostRuns ==
  ASSUME NEW h, NEW l, NEW a, NEW cl, NEW n, NEW q \in Seq(Presence!Tasks), q # <<>>, NEW set,
         NEW begun, HostInv(h, l, a, cl, n, q, set, begun),
         q[1].kind = "update" => (q[1].worker \in set <=> q[1].on = TRUE),
         NEW q2, Runs(q, q2), NEW later, later = FALSE
  PROVE  HostInv(h, l, a, cl, n, q2, set, later)
<1>1. RanFor(q, q2, h, set, begun)
  BY RunTask
<1>2. Updates(q, h) = {} => Updates(q2, h) = {}
  BY <1>1 DEF RanFor
<1>3. CoordInv(h, a, q2)
  <2>1. LastInv(q2, h) /\ \A i \in Asked(q2, h) : i + 1 \in Asked(q, h) /\ q2[i] = q[i + 1]
    BY <1>1 DEF RanFor, HostInv, CoordInv
  <2>2. QED
    BY <2>1 DEF HostInv, CoordInv
<1>4. TurnInv(h, l, a, cl, q2, set, later)
  BY <1>1 DEF RanFor, HostInv, TurnInv
<1>5. QED
  BY <1>2, <1>3, <1>4 DEF HostInv, KnownInv

\* When a worker waits for it, it was the last of that worker.
NoneLeft(q, h) == Updates(q, h) = {} /\ Asked(q, h) = {}

LEMMA LastRuns ==
  ASSUME NEW h, NEW q \in Seq(Presence!Tasks), q # <<>>, LastInv(q, h), 1 \in Asked(q, h),
         NEW q2, Runs(q, q2)
  PROVE  NoneLeft(q2, h)
<1>1. /\ q2 \in Seq(Presence!Tasks) /\ Len(q2) \in Nat
      /\ \A i \in 1..Len(q2) : q2[i] = q[i + 1] /\ i + 1 \in DOMAIN q
  BY TailTasks, TaskTypes DEF Runs
<1>2. ASSUME NEW i \in Updates(q2, h) PROVE FALSE
  <2>1. i \in 1..Len(q2) /\ IsUpdate(q2[i], h)
    BY <1>1, TaskTypes DEF Updates
  <2>2. i + 1 \in Updates(q, h) /\ i \in Nat /\ i >= 1
    BY <1>1, <2>1 DEF Updates
  <2>3. i + 1 <= 1
    BY <2>2 DEF LastInv
  <2>4. QED
    BY <2>2, <2>3
<1>3. QED
  BY <1>2 DEF NoneLeft, Asked

\* The first task begins, which may change the set.
LEMMA HostBegins ==
  ASSUME NEW h, NEW l, NEW a, NEW cl, NEW n, NEW q \in Seq(Presence!Tasks), q # <<>>, NEW set,
         NEW begun, begun = FALSE, HostInv(h, l, a, cl, n, q, set, begun), NEW other,
         h \in other <=> IF IsUpdate(q[1], h) THEN q[1].on = TRUE ELSE h \in set,
         NEW later, later = TRUE
  PROVE  HostInv(h, l, a, cl, n, q, other, later)
<1>1. BegunFor(q, h, set, other)
  BY BeginTask
<1>2. 1 \in DOMAIN q
  <2>1. Len(q) \in Nat /\ DOMAIN q = 1..Len(q) /\ Len(q) # 0
    BY EmptySeq, TaskTypes
  <2>2. QED
    BY <2>1
<1>3. KnownInv(h, l, n, q, other)
  <2>1. SUFFICES ASSUME n = TRUE, l # "stopping" PROVE h \in other /\ Updates(q, h) = {}
    BY DEF KnownInv
  <2>2. h \in set /\ Updates(q, h) = {}
    BY <2>1 DEF HostInv, KnownInv
  <2>3. ~IsUpdate(q[1], h)
    BY <1>2, <2>2 DEF Updates
  <2>4. QED
    BY <2>2, <2>3
<1>4. QED
  BY <1>1, <1>3 DEF BegunFor, HostInv, TurnInv

LEMMA HostGone ==
  ASSUME NEW h, NEW a, a = <<>>, NEW cl, Serves(cl, h) = {}, NEW n, n = FALSE, NEW q, NEW set,
         NEW begun, LastInv(q, h), Asked(q, h) = {}
  PROVE  HostInv(h, "gone", a, cl, n, q, set, begun)
<1>1. Len(a) = 0 /\ DOMAIN a = {}
  BY EmptySeq
<1>2. \A c \in Presence!Clients : c[1] = h => cl[c] # "asking"
  BY DEF Serves
<1>3. AskInv(h, "gone", a, cl, n)
  BY <1>1, <1>2 DEF AskInv
<1>4. QED
  BY <1>3 DEF HostInv, CoordInv, KnownInv, TurnInv

\* Only clients of other workers change, and h goes on.
Spares(h, l, l2, cl, cl2) ==
  /\ l = "gone" <=> l2 = "gone"
  /\ l2 \in {"gone", "off"} => l \in {"gone", "off"}
  /\ l2 # "stopping" => l # "stopping"
  /\ \A c \in Presence!Clients : c[1] = h => cl2[c] = cl[c]

LEMMA HostKept ==
  ASSUME NEW h, NEW l, NEW l2, NEW a \in Seq(Asks), NEW cl, NEW cl2, NEW n, NEW q, NEW set,
         NEW begun, Spares(h, l, l2, cl, cl2),
         HostInv(h, l, a, cl, n, q, set, begun)
  PROVE  HostInv(h, l2, a, cl2, n, q, set, begun)
<1>1. Serves(cl2, h) = Serves(cl, h)
  BY DEF Serves, Spares
<1>2. Owes(h, a, cl2) <=> Owes(h, a, cl)
  BY <1>1 DEF Owes
<1>3. \A i \in DOMAIN a : a[i].client \in Presence!Clients
  BY AskTypes
<1>4. AskInv(h, l2, a, cl2, n)
  BY <1>1, <1>3 DEF AskInv, HostInv, Spares
<1>5. QED
  BY <1>2, <1>4 DEF HostInv, KnownInv, TurnInv, Spares

\* The coordinator answers the first request of h, or it is refused or given up.
MayAnswer(h, l, a, q, set, ok) ==
  /\ Asked(q, h) = {} /\ (Wanted(q, h, set) => a[1].sent = TRUE)
  /\ l # "stopping" /\ a[1].on = TRUE /\ ok = TRUE => h \in set /\ Updates(q, h) = {}

LEMMA HostAnswers ==
  ASSUME NEW h, NEW l, NEW a \in Seq(Asks), a # <<>>, NEW cl \in ClientStates, NEW n \in BOOLEAN,
         NEW q, NEW set, NEW begun,
         HostInv(h, l, a, cl, n, q, set, begun), NEW ok \in BOOLEAN,
         MayAnswer(h, l, a, q, set, ok), NEW a2, NEW cl2 \in ClientStates, NEW n2,
         NEW c, NEW m, Answers(h, a, a2, cl, cl2, n, n2, ok, c, m)
  PROVE  /\ HostInv(h, l, a2, cl2, n2, q, set, begun)
         /\ AnswerInv(h, l, a, a2, cl, cl2, n2, ok)
<1>1. AnswerInv(h, l, a, a2, cl, cl2, n2, ok)
  BY AnswerAsk DEF HostInv
<1>2. /\ AskInv(h, l, a2, cl2, n2) /\ (n2 = TRUE => a[1].on = TRUE /\ ok = TRUE)
      /\ a[1].sent = TRUE => (Owes(h, a2, cl2) <=> Owes(h, a, cl))
  BY <1>1 DEF AnswerInv
<1>3. CoordInv(h, a2, q)
  BY DEF HostInv, CoordInv, MayAnswer
<1>4. KnownInv(h, l, n2, q, set)
  BY <1>2 DEF KnownInv, MayAnswer
<1>5. TurnInv(h, l, a2, cl2, q, set, begun)
  <2>1. Wanted(q, h, set) /\ l # "gone" => Owes(h, a2, cl2)
    BY <1>2 DEF HostInv, TurnInv, MayAnswer
  <2>2. QED
    BY <2>1 DEF HostInv, TurnInv
<1>6. QED
  BY <1>1, <1>2, <1>3, <1>4, <1>5 DEF HostInv

\* The requests of h change, but not the first one.
LEMMA HostAsks ==
  ASSUME NEW h, NEW l, NEW a, NEW a2, NEW cl, NEW cl2, NEW n, NEW n2, NEW q, NEW set, NEW begun,
         HostInv(h, l, a, cl, n, q, set, begun), AskStep(h, l, a, a2, cl, cl2, n, n2)
  PROVE  HostInv(h, l, a2, cl2, n2, q, set, begun)
<1>1. CoordInv(h, a2, q)
  BY DEF HostInv, CoordInv, AskStep
<1>2. KnownInv(h, l, n2, q, set) /\ TurnInv(h, l, a2, cl2, q, set, begun)
  BY DEF HostInv, KnownInv, TurnInv, AskStep
<1>3. QED
  BY <1>1, <1>2 DEF HostInv, AskStep

-----------------------------------------------------------------------------
\* What is on the way to a worker: sets that it will see, and events.
IsSet(m) == m.kind = "presence"
NoSets(s) == \A i \in DOMAIN s : ~IsSet(s[i])
SetsAre(s, set) == \A i \in DOMAIN s : IsSet(s[i]) => s[i].set = set
SetsHave(s, h) == \A i \in DOMAIN s : IsSet(s[i]) => h \in s[i].set
Carries(s, e) == \E i \in DOMAIN s : s[i].kind = "events" /\ e \in Presence!Elements(s[i].events)

\* The deliveries of task n are those of the one that is under way.
Numbered(s, n, begun, set) ==
  \A i \in DOMAIN s : IsSet(s[i]) =>
    /\ s[i].task \in Nat /\ s[i].task <= n
    /\ s[i].task = n => begun = TRUE /\ s[i].set = set /\ \A k \in DOMAIN s : IsSet(s[k]) => k <= i

Posts(s, m, t) == t = Append(s, m)
Takes(s, m, t) == s # <<>> /\ m = Head(s) /\ t = Tail(s)

Posted(s, m, t) ==
  /\ t \in Seq(Deliveries) /\ Len(t) \in DOMAIN t /\ t[Len(t)] = m
  /\ \A i \in DOMAIN s : i \in DOMAIN t /\ t[i] = s[i] /\ i <= Len(t)
  /\ \A i \in DOMAIN t : i <= Len(t) /\ ((i \in DOMAIN s /\ t[i] = s[i]) \/ i = Len(t))

Taken(s, m, t) ==
  /\ t \in Seq(Deliveries) /\ m \in Deliveries /\ 1 \in DOMAIN s /\ s[1] = m
  /\ \A i \in DOMAIN t : i \in Nat \ {0} /\ i + 1 \in DOMAIN s /\ t[i] = s[i + 1]
  /\ \A i \in DOMAIN s : i = 1 \/ (i - 1 \in DOMAIN t /\ t[i - 1] = s[i])

LEMMA ChannelTypes ==
  ASSUME NEW s \in Seq(Deliveries)
  PROVE  /\ Len(s) \in Nat /\ DOMAIN s = 1..Len(s) /\ (s = <<>> <=> Len(s) = 0)
         /\ \A i \in DOMAIN s : s[i] \in Deliveries
<1>1. Len(s) \in Nat /\ DOMAIN s = 1..Len(s)
  BY LenProperties
<1>2. \A i \in DOMAIN s : s[i] \in Deliveries
  BY <1>1, ElementOfSeq
<1>3. QED
  BY <1>1, <1>2, EmptySeq

LEMMA PostDelivery ==
  ASSUME NEW s \in Seq(Deliveries), NEW m \in Deliveries, NEW t, Posts(s, m, t)
  PROVE  Posted(s, m, t)
<1>1. /\ t \in Seq(Deliveries) /\ Len(t) = Len(s) + 1 /\ t[Len(s) + 1] = m
      /\ \A i \in 1..Len(s) : t[i] = s[i]
  BY AppendProperties DEF Posts
<1>2. Len(s) \in Nat /\ DOMAIN s = 1..Len(s) /\ DOMAIN t = 1..Len(t)
  BY <1>1, ChannelTypes
<1>3. QED
  BY <1>1, <1>2 DEF Posted

LEMMA TakeDelivery ==
  ASSUME NEW s \in Seq(Deliveries), NEW m, NEW t, Takes(s, m, t)
  PROVE  Taken(s, m, t)
<1>1. /\ t \in Seq(Deliveries) /\ Len(t) = Len(s) - 1 /\ m = s[1]
      /\ \A i \in 1..Len(t) : t[i] = s[i + 1]
  BY HeadTailProperties DEF Takes
<1>2. /\ Len(s) \in Nat /\ Len(s) # 0 /\ DOMAIN s = 1..Len(s) /\ DOMAIN t = 1..Len(t)
      /\ \A i \in DOMAIN s : s[i] \in Deliveries
  BY <1>1, ChannelTypes DEF Takes
<1>3. 1 \in DOMAIN s /\ m \in Deliveries
  BY <1>1, <1>2
<1>4. \A i \in DOMAIN t : i \in Nat \ {0} /\ i + 1 \in DOMAIN s /\ t[i] = s[i + 1]
  BY <1>1, <1>2
<1>5. \A i \in DOMAIN s : i = 1 \/ (i - 1 \in DOMAIN t /\ t[i - 1] = s[i])
  <2>1. SUFFICES ASSUME NEW i \in DOMAIN s, i # 1 PROVE i - 1 \in DOMAIN t /\ t[i - 1] = s[i]
    OBVIOUS
  <2>2. i - 1 \in 1..Len(t) /\ (i - 1) + 1 = i
    BY <1>1, <1>2, <2>1
  <2>3. QED
    BY <1>1, <1>2, <2>2
<1>6. QED
  BY <1>1, <1>3, <1>4, <1>5 DEF Taken

\* Events are added or taken: the sets stay as they are, and no event is lost.
SameSets(s, t) ==
  /\ NoSets(s) => NoSets(t)
  /\ \A set : SetsAre(s, set) => SetsAre(t, set)
  /\ \A h : SetsHave(s, h) => SetsHave(t, h)
  /\ \A n, begun, set : Numbered(s, n, begun, set) => Numbered(t, n, begun, set)

LEMMA PostEvents ==
  ASSUME NEW s, NEW m, NEW t, Posted(s, m, t), ~IsSet(m)
  PROVE  SameSets(s, t)
<1>1. \A i \in DOMAIN t : IsSet(t[i]) => i \in DOMAIN s /\ t[i] = s[i]
  BY DEF Posted
<1>2. ASSUME NEW n, NEW begun, NEW set, Numbered(s, n, begun, set) PROVE Numbered(t, n, begun, set)
  BY <1>1, <1>2 DEF Numbered
<1>3. QED
  BY <1>1, <1>2 DEF SameSets, NoSets, SetsAre, SetsHave

LEMMA PostKeeps ==
  ASSUME NEW s, NEW m, NEW t, Posted(s, m, t), NEW e, Carries(s, e)
  PROVE  Carries(t, e)
<1>1. \A i \in DOMAIN s : i \in DOMAIN t /\ t[i] = s[i]
  BY DEF Posted
<1>2. QED
  BY <1>1 DEF Carries

LEMMA PostCarries ==
  ASSUME NEW s, NEW m, NEW t, Posted(s, m, t), NEW e,
         m.kind = "events", e \in Presence!Elements(m.events)
  PROVE  Carries(t, e)
<1>1. Len(t) \in DOMAIN t /\ t[Len(t)] = m
  BY DEF Posted
<1>2. QED
  BY <1>1 DEF Carries

\* The task numbered n sends a set to the worker.
SetPosted(s, t, n, begun, set) ==
  /\ Numbered(t, n, begun, set)
  /\ NoSets(s) => SetsAre(t, set)
  /\ \A h \in set : SetsHave(s, h) => SetsHave(t, h)

LEMMA PostSet ==
  ASSUME NEW s, NEW m, NEW t, Posted(s, m, t), NEW n \in Nat, NEW set, NEW other,
         NEW before, before = FALSE, Numbered(s, n, before, other), m.task = n, m.set = set,
         NEW begun, begun = TRUE
  PROVE  SetPosted(s, t, n, begun, set)
<1>1. \A i \in DOMAIN t : i <= Len(t) /\ ((i \in DOMAIN s /\ t[i] = s[i]) \/ (i = Len(t) /\ t[i] = m))
  BY DEF Posted
<1>2. \A i \in DOMAIN s : IsSet(s[i]) => s[i].task \in Nat /\ s[i].task <= n /\ s[i].task # n
  BY DEF Numbered
<1>3. Numbered(t, n, begun, set)
  <2>1. \A i \in DOMAIN t : IsSet(t[i]) /\ t[i].task = n => t[i].set = set /\ i = Len(t)
    BY <1>1, <1>2
  <2>2. \A i \in DOMAIN t : IsSet(t[i]) => t[i].task \in Nat /\ t[i].task <= n
    BY <1>1, <1>2
  <2>3. QED
    BY <1>1, <2>1, <2>2 DEF Numbered
<1>4. QED
  BY <1>1, <1>3 DEF SetPosted, NoSets, SetsAre, SetsHave

\* It sends none to this worker.
LEMMA NumberedBefore ==
  ASSUME NEW s, NEW n, NEW set, NEW before, before = FALSE, Numbered(s, n, before, set),
         NEW begun, NEW other
  PROVE  Numbered(s, n, begun, other)
BY DEF Numbered

\* A delivery is taken.
LEMMA TakeSame ==
  ASSUME NEW s, NEW m, NEW t, Taken(s, m, t)
  PROVE  SameSets(s, t)
<1>1. \A i \in DOMAIN t : i \in Nat /\ i + 1 \in DOMAIN s /\ t[i] = s[i + 1]
  BY DEF Taken
<1>2. ASSUME NEW n, NEW begun, NEW set, Numbered(s, n, begun, set) PROVE Numbered(t, n, begun, set)
  <2>1. SUFFICES ASSUME NEW i \in DOMAIN t, IsSet(t[i])
                 PROVE  /\ t[i].task \in Nat /\ t[i].task <= n
                        /\ t[i].task = n => /\ begun = TRUE /\ t[i].set = set
                                            /\ \A k \in DOMAIN t : IsSet(t[k]) => k <= i
    BY DEF Numbered
  <2>2. i + 1 \in DOMAIN s /\ IsSet(s[i + 1]) /\ s[i + 1] = t[i] /\ i \in Nat
    BY <1>1, <2>1
  <2>3. /\ t[i].task \in Nat /\ t[i].task <= n
        /\ t[i].task = n => /\ begun = TRUE /\ t[i].set = set
                            /\ \A k \in DOMAIN s : IsSet(s[k]) => k <= i + 1
    BY <1>2, <2>2 DEF Numbered
  <2>4. ASSUME NEW k \in DOMAIN t, IsSet(t[k]), \A j \in DOMAIN s : IsSet(s[j]) => j <= i + 1
        PROVE  k <= i
    <3>1. k \in Nat /\ k + 1 \in DOMAIN s /\ IsSet(s[k + 1])
      BY <1>1, <2>4
    <3>2. k + 1 <= i + 1
      BY <2>4, <3>1
    <3>3. QED
      BY <2>2, <3>1, <3>2
  <2>5. QED
    BY <2>3, <2>4
<1>3. NoSets(s) => NoSets(t)
  BY <1>1 DEF NoSets
<1>4. \A set : SetsAre(s, set) => SetsAre(t, set)
  BY <1>1 DEF SetsAre
<1>5. \A h : SetsHave(s, h) => SetsHave(t, h)
  BY <1>1 DEF SetsHave
<1>6. QED
  BY <1>2, <1>3, <1>4, <1>5 DEF SameSets

SetTaken(s, m, t) ==
  /\ NoSets(s) => ~IsSet(m)
  /\ \A set : SetsAre(s, set) /\ IsSet(m) => m.set = set
  /\ \A h : SetsHave(s, h) /\ IsSet(m) => h \in m.set
  /\ \A n, begun, set : Numbered(s, n, begun, set) /\ IsSet(m) /\ m.task = n =>
       begun = TRUE /\ m.set = set /\ NoSets(t)

LEMMA TakeFirst ==
  ASSUME NEW s, NEW m, NEW t, Taken(s, m, t)
  PROVE  SetTaken(s, m, t)
<1>1. 1 \in DOMAIN s /\ s[1] = m
  BY DEF Taken
<1>2. ASSUME NEW n, NEW begun, NEW set, Numbered(s, n, begun, set), IsSet(m), m.task = n
      PROVE  begun = TRUE /\ m.set = set /\ NoSets(t)
  <2>1. begun = TRUE /\ m.set = set /\ \A k \in DOMAIN s : IsSet(s[k]) => k <= 1
    BY <1>1, <1>2 DEF Numbered
  <2>2. \A i \in DOMAIN t : i \in Nat \ {0} /\ i + 1 \in DOMAIN s /\ t[i] = s[i + 1]
    BY DEF Taken
  <2>3. NoSets(t)
    <3>1. SUFFICES ASSUME NEW i \in DOMAIN t, IsSet(t[i]) PROVE FALSE
      BY DEF NoSets
    <3>2. i \in Nat \ {0} /\ i + 1 <= 1
      BY <2>1, <2>2, <3>1
    <3>3. QED
      BY <3>2
  <2>4. QED
    BY <2>1, <2>3
<1>3. QED
  BY <1>1, <1>2 DEF SetTaken, NoSets, SetsAre, SetsHave

LEMMA TakeCarries ==
  ASSUME NEW s, NEW m, NEW t, Taken(s, m, t), NEW e, Carries(s, e)
  PROVE  Carries(t, e) \/ (m.kind = "events" /\ e \in Presence!Elements(m.events))
<1>1. PICK i \in DOMAIN s : s[i].kind = "events" /\ e \in Presence!Elements(s[i].events)
  BY DEF Carries
<1>2. i = 1 \/ (i - 1 \in DOMAIN t /\ t[i - 1] = s[i])
  BY DEF Taken
<1>3. CASE i = 1
  BY <1>1, <1>3 DEF Taken
<1>4. CASE i - 1 \in DOMAIN t /\ t[i - 1] = s[i]
  BY <1>1, <1>4 DEF Carries
<1>5. QED
  BY <1>2, <1>3, <1>4

LEMMA EmptyChannel ==
  ASSUME NEW s, s = <<>>
  PROVE  /\ NoSets(s) /\ \A n, begun, set : Numbered(s, n, begun, set)
         /\ \A h : SetsHave(s, h)
<1>1. DOMAIN s = {}
  OBVIOUS
<1>2. QED
  BY <1>1 DEF NoSets, Numbered, SetsHave

-----------------------------------------------------------------------------
\* A task under way has taken effect in the set. A synchronisation has no asker.
SyncsInv ==
  \A i \in DOMAIN queue :
    queue[i].kind = "sync" => queue[i].ask = FALSE /\ life[queue[i].worker] \notin {"new", "off"}

\* No task tells of clients, and nobody waits for one.
Quiet(q) == \A i \in DOMAIN q : q[i].kind = "update" => q[i].on = FALSE /\ q[i].ask = FALSE

\* While workers are replaced, the new coordinator knows of no clients.
RunInv ==
  /\ running = TRUE => \A w \in Workers : life[w] # "stopping"
  /\ running = FALSE =>
       active = {} /\ Quiet(queue)

HeadInv ==
  /\ started = TRUE =>
       /\ queue # <<>>
       /\ queue[1].kind = "update" => (queue[1].worker \in active <=> queue[1].on = TRUE)
  /\ SyncsInv /\ RunInv

HostsInv ==
  \A h \in Workers :
    HostInv(h, life[h], asks[h], client, counted[h], queue, active, started)

PendInv ==
  /\ pending \subseteq Workers \X {tasks}
  /\ started = FALSE => pending = {}
  /\ started = TRUE /\ queue[1].kind = "sync" => pending \subseteq {<<queue[1].worker, tasks>>}

\* Until it has joined, w counts every worker; then it is sent each set.
Joining(w) == started = TRUE /\ queue[1].kind = "sync" /\ queue[1].worker = w

SentInv(w) ==
  /\ life[w] \in {"off", "new", "syncing"} =>
       IF Joining(w) THEN view[w] \in {Workers, active} /\ SetsAre(chan[w], active)
       ELSE view[w] = Workers /\ NoSets(chan[w])
  /\ started = TRUE /\ queue[1].kind = "update" /\ life[w] = "ready" =>
       <<w, tasks>> \in pending \/ (view[w] = active /\ NoSets(chan[w]))

ChanInv == \A w \in Workers : Numbered(chan[w], tasks, started, active) /\ SentInv(w)

\* Workers see a worker that the coordinator counts.
ViewInv ==
  \A h, w \in Workers :
    counted[h] = TRUE /\ life[h] # "stopping" /\ life[w] # "gone"
      => h \in view[w] /\ SetsHave(chan[w], h)

\* Where an event is that c is due.
Reaches(e, c) ==
  \/ e \in dropped \/ life[made[e].from] = "gone" \/ <<c[1], e>> \in missed
  \/ e \in Presence!Elements(outbox[made[e].from]) /\ counted[c[1]] = TRUE
  \/ Carries(chan[c[1]], e) \/ e \in got[c]

MadeInv ==
  \A e \in DOMAIN made : \A c \in made[e].due :
    /\ c[1] # made[e].from /\ client[c] \in {"connected", "closed"}
    /\ client[c] = "connected" => Reaches(e, c)

PresenceInv ==
  PresenceTyped /\ HeadInv /\ HostsInv /\ PendInv /\ ChanInv /\ ViewInv /\ MadeInv

LEMMA ClientOf ==
  ASSUME NEW c \in Presence!Clients
  PROVE  c[1] \in Hosts /\ c[1] \in Workers
BY PresenceAssumption DEF Presence!Clients

LEMMA MadeTypes ==
  ASSUME PresenceTyped
  PROVE  \A e \in DOMAIN made : made[e].from \in Workers /\ made[e].due \subseteq Presence!Clients
<1>1. PICK S : S = [from : Workers, due : SUBSET Presence!Clients]
  OBVIOUS
<1>2. made \in Seq(S)
  BY <1>1 DEF PresenceTyped
<1>3. \A e \in DOMAIN made : made[e] \in S
  BY <1>2
<1>4. QED
  BY <1>1, <1>3

\* What has to stay for the events that are due.
Keeps ==
  /\ made' = made /\ got' = got /\ dropped' = dropped /\ missed \subseteq missed'
  /\ \A w \in Workers : life[w] = "gone" \/ outbox'[w] # outbox[w] => life'[w] = "gone"
  /\ \A c \in Presence!Clients :
       /\ client[c] = "closed" => client'[c] = "closed"
       /\ client[c] = "connected" => client'[c] \in {"connected", "closed"}
       /\ client[c] = "connected" /\ client'[c] = "connected" /\ counted[c[1]] = TRUE
            => counted'[c[1]] = TRUE
  /\ \A w \in Workers : (\E c \in Presence!Clients : c[1] = w /\ client'[c] = "connected")
       => \A e : Carries(chan[w], e) => Carries(chan'[w], e)

LEMMA MadeKept ==
  ASSUME PresenceTyped, MadeInv, Keeps
  PROVE  MadeInv'
<1>1. \A e \in DOMAIN made : made[e].from \in Workers /\ made[e].due \subseteq Presence!Clients
  BY MadeTypes
<1>2. SUFFICES ASSUME NEW e \in DOMAIN made, NEW c \in made[e].due
      PROVE  /\ c[1] # made[e].from /\ client'[c] \in {"connected", "closed"}
             /\ client'[c] = "connected" => Reaches(e, c)'
  BY DEF MadeInv, Keeps
<1>3. c \in Presence!Clients /\ c[1] \in Workers /\ made[e].from \in Workers
  BY <1>1, ClientOf
<1>4. /\ c[1] # made[e].from /\ client[c] \in {"connected", "closed"}
      /\ client[c] = "connected" => Reaches(e, c)
  BY DEF MadeInv
<1>5. client'[c] \in {"connected", "closed"} /\ (client'[c] = "connected" => client[c] = "connected")
  BY <1>3, <1>4 DEF Keeps
<1>6. ASSUME client'[c] = "connected"
      PROVE  Reaches(e, c)'
  <2>1. Reaches(e, c) /\ client[c] = "connected"
    BY <1>4, <1>5, <1>6
  <2>2. counted[c[1]] = TRUE => counted'[c[1]] = TRUE
    BY <1>3, <1>6, <2>1 DEF Keeps
  <2>3. \A x : Carries(chan[c[1]], x) => Carries(chan'[c[1]], x)
    BY <1>3, <1>6, <2>1 DEF Keeps
  <2>4. life'[made[e].from] = "gone" \/ outbox'[made[e].from] = outbox[made[e].from]
    BY <1>3 DEF Keeps
  <2>5. life[made[e].from] = "gone" => life'[made[e].from] = "gone"
    BY <1>3 DEF Keeps
  <2>6. made' = made /\ got' = got /\ dropped' = dropped /\ missed \subseteq missed'
    BY DEF Keeps
  <2>7. QED
    BY <2>1, <2>2, <2>3, <2>4, <2>5, <2>6 DEF Reaches
<1>7. QED
  BY <1>4, <1>5, <1>6

LEMMA PresenceStart ==
  ASSUME PartsInit
  PROVE  PresenceInv
<1>1. /\ life \in [Workers -> {"off", "ready"}] /\ running = TRUE /\ active = {} /\ queue = <<>>
      /\ started = FALSE /\ pending = {} /\ tasks = 0 /\ chan = [w \in Workers |-> <<>>]
      /\ view = [w \in Workers |-> IF life[w] = "off" THEN Workers ELSE {}]
      /\ asks = [w \in Workers |-> <<>>] /\ client = [c \in Presence!Clients |-> "off"]
      /\ counted = [w \in Workers |-> FALSE] /\ outbox = [w \in Workers |-> <<>>]
      /\ made = <<>> /\ got = [c \in Presence!Clients |-> {}]
  BY DEF PartsInit, Presence!Init, Presence!Unknown
<1>2. PresenceTyped
  <2>1. <<>> \in Seq(Presence!Tasks) /\ <<>> \in Seq(Deliveries) /\ <<>> \in Seq(Asks)
        /\ <<>> \in Seq(Nat) /\ <<>> \in Seq([from : Workers, due : SUBSET Presence!Clients])
    OBVIOUS
  <2>2. life \in [Workers -> Lives] /\ got \in [Presence!Clients -> SUBSET Nat]
    BY <1>1 DEF Lives
  <2>3. QED
    BY <1>1, <2>1, <2>2 DEF PresenceTyped
<1>3. HeadInv /\ PendInv /\ MadeInv
  <2>1. DOMAIN queue = {} /\ DOMAIN made = {}
    BY <1>1
  <2>2. QED
    BY <1>1, <2>1 DEF HeadInv, SyncsInv, RunInv, Quiet, PendInv, MadeInv
<1>4. ChanInv /\ ViewInv
  <2>1. ASSUME NEW w \in Workers
        PROVE  Numbered(chan[w], tasks, started, active) /\ NoSets(chan[w]) /\ counted[w] = FALSE
    <3>1. chan[w] = <<>> /\ counted[w] = FALSE
      BY <1>1
    <3>2. QED
      BY <3>1, EmptyChannel
  <2>2. \A w \in Workers : life[w] \in {"off", "new", "syncing"} => view[w] = Workers
    BY <1>1
  <2>3. QED
    BY <1>1, <2>1, <2>2 DEF ChanInv, SentInv, Joining, ViewInv
<1>5. HostsInv
  <2>1. SUFFICES ASSUME NEW h \in Workers
                 PROVE  HostInv(h, life[h], asks[h], client, counted[h], queue, active, started)
    BY DEF HostsInv
  <2>2. asks[h] = <<>> /\ counted[h] = FALSE /\ life[h] # "gone"
    BY <1>1
  <2>3. Serves(client, h) = {} /\ \A c \in Presence!Clients : client[c] # "asking"
    BY <1>1 DEF Serves
  <2>4. AskInv(h, life[h], asks[h], client, counted[h])
    BY <2>2, <2>3 DEF AskInv
  <2>5. DOMAIN queue = {} /\ Len(queue) = 0
    BY <1>1
  <2>6. Updates(queue, h) = {} /\ Asked(queue, h) = {}
    BY <2>5 DEF Updates, Asked
  <2>7. ~Wanted(queue, h, active)
    BY <1>1, <2>5 DEF Wanted, EndsOn
  <2>8. QED
    BY <2>2, <2>3, <2>4, <2>6, <2>7
       DEF HostInv, CoordInv, LastInv, KnownInv, TurnInv, PriorInv, Owes
<1>6. QED
  BY <1>2, <1>3, <1>4, <1>5 DEF PresenceInv

-----------------------------------------------------------------------------
\* What the tasks and the deliveries say stays, if they do.
LEMMA TasksKept ==
  ASSUME PresenceTyped, HeadInv, PendInv, ChanInv, ViewInv,
         active' = active, queue' = queue, started' = started, pending' = pending, tasks' = tasks,
         chan' = chan, view' = view, life' = life, running' = running,
         \A h \in Workers : counted'[h] = TRUE => counted[h] = TRUE \/ life[h] = "stopping"
  PROVE  HeadInv' /\ PendInv' /\ ChanInv' /\ ViewInv'
<1>1. HeadInv' /\ PendInv'
  BY DEF HeadInv, SyncsInv, RunInv, PendInv
<1>2. ChanInv'
  BY DEF ChanInv, SentInv, Joining
<1>3. ViewInv'
  BY DEF ViewInv
<1>4. QED
  BY <1>1, <1>2, <1>3

LEMMA RegisteredClients ==
  ASSUME NEW h
  PROVE  Presence!Registered(h) = Serves(client, h)
BY DEF Presence!Registered, Serves

LEMMA ConnectStep ==
  ASSUME PresenceInv, NEW c \in Presence!Clients, Presence!Connect(c)
  PROVE  PresenceInv'
<1>1. PICK h : h = c[1]
  OBVIOUS
<1>2. h \in Workers /\ h = c[1] /\ client[c] = "off" /\ life[h] \notin {"gone", "off"}
  BY <1>1, ClientOf DEF Presence!Connect, Presence!Alive
<1>3. /\ life' = life /\ running' = running /\ active' = active /\ queue' = queue
      /\ started' = started /\ pending' = pending /\ tasks' = tasks /\ chan' = chan /\ view' = view
      /\ counted' = counted /\ outbox' = outbox /\ made' = made /\ got' = got /\ dropped' = dropped /\ missed' = missed
  BY DEF Presence!Connect, Presence!memberVars, Presence!taskVars, Presence!eventVars
<1>4. PresenceTyped /\ HostsInv
  BY DEF PresenceInv
<1>5. /\ asks[h] \in Seq(Asks) /\ client \in ClientStates
      /\ HostInv(h, life[h], asks[h], client, counted[h], queue, active, started)
  BY <1>2, <1>4 DEF PresenceTyped, ClientStates, HostsInv
<1>6. AskInv(h, life[h], asks[h], client, counted[h])
  BY <1>5 DEF HostInv
<1>7. /\ asks' \in [Workers -> Seq(Asks)] /\ client' \in ClientStates
      /\ \A w \in Workers : w # h => asks'[w] = asks[w]
      /\ \A d \in Presence!Clients : d # c => client'[d] = client[d]
      /\ client'[c] \in {"asking", "connected"}
      /\ HostInv(h, life[h], asks'[h], client', counted[h], queue, active, started)
  <2>1. CASE Serves(client, h) = {}
    <3>1. PICK m : m = Presence!Ask(TRUE, c)
      OBVIOUS
    <3>2. TellsOn(m, c)
      BY <3>1, AskFields DEF TellsOn
    <3>3. client' = [client EXCEPT ![c] = "asking"] /\ asks' = [asks EXCEPT ![h] = Append(@, m)]
      BY <1>1, <2>1, <3>1, RegisteredClients DEF Presence!Connect
    <3>4. PICK a2 : a2 = Append(asks[h], m)
      OBVIOUS
    <3>a. Queues(asks[h], m, a2)
      BY <3>4 DEF Queues
    <3>5. Turns(client, c, "asking", client')
      BY <1>5, <3>3 DEF ClientStates, Turns
    <3>6. client' \in ClientStates
      BY <1>5, <3>3 DEF ClientStates
    <3>7. AskStep(h, life[h], asks[h], a2, client, client', counted[h], counted[h])
      BY <1>2, <1>5, <1>6, <2>1, <3>2, <3>a, <3>5, FirstClient
    <3>8. HostInv(h, life[h], a2, client', counted[h], queue, active, started)
      BY <1>5, <3>7, HostAsks
    <3>9. asks' = [asks EXCEPT ![h] = a2]
      BY <3>3, <3>4
    <3>10. asks'[h] = a2 /\ asks' \in [Workers -> Seq(Asks)] /\ \A w \in Workers : w # h => asks'[w] = asks[w]
      BY <1>2, <1>4, <3>7, <3>9 DEF PresenceTyped, AskStep
    <3>11. QED
      BY <3>5, <3>6, <3>8, <3>10 DEF Turns
  <2>2. CASE Serves(client, h) # {}
    <3>3. client' = [client EXCEPT ![c] = "connected"] /\ asks' = asks
      BY <1>1, <2>2, RegisteredClients DEF Presence!Connect
    <3>5. Turns(client, c, "connected", client')
      BY <1>5, <3>3 DEF ClientStates, Turns
    <3>6. client' \in ClientStates
      BY <1>5, <3>3 DEF ClientStates
    <3>7. AskStep(h, life[h], asks[h], asks[h], client, client', counted[h], counted[h])
      BY <1>2, <1>5, <1>6, <2>2, <3>5, FurtherClient
    <3>8. HostInv(h, life[h], asks[h], client', counted[h], queue, active, started)
      BY <1>5, <3>7, HostAsks
    <3>9. QED
      BY <1>4, <3>3, <3>5, <3>6, <3>8 DEF PresenceTyped, Turns
  <2>3. QED
    BY <2>1, <2>2
<1>8. PresenceTyped'
  BY <1>3, <1>4, <1>7 DEF PresenceTyped, ClientStates
<1>9. HostsInv'
  <2>1. ASSUME NEW g \in Workers, g # h
        PROVE  HostInv(g, life[g], asks[g], client', counted[g], queue, active, started)
    <3>1. \A d \in Presence!Clients : d[1] = g => client'[d] = client[d]
      BY <1>2, <1>7, <2>1
    <3>2. asks[g] \in Seq(Asks) /\ HostInv(g, life[g], asks[g], client, counted[g], queue, active, started)
      BY <1>4 DEF PresenceTyped, HostsInv
    <3>3. Spares(g, life[g], life[g], client, client')
      BY <3>1 DEF Spares
    <3>4. QED
      BY <3>2, <3>3, HostKept
  <2>2. QED
    BY <1>3, <1>7, <2>1 DEF HostsInv
<1>10. HeadInv' /\ PendInv' /\ ChanInv' /\ ViewInv'
  BY <1>3, TasksKept DEF PresenceInv
<1>11. MadeInv'
  <2>1. \A d \in Presence!Clients : client[d] \in {"connected", "closed"} => client'[d] = client[d]
    BY <1>2, <1>7
  <2>2. Keeps
    BY <1>3, <2>1 DEF Keeps
  <2>3. QED
    BY <2>2, MadeKept DEF PresenceInv
<1>12. QED
  BY <1>8, <1>9, <1>10, <1>11 DEF PresenceInv

\* Only the requests and the clients of h change.
OneHost(h) ==
  /\ asks' \in [Workers -> Seq(Asks)] /\ client' \in ClientStates
  /\ counted' \in [Workers -> BOOLEAN]
  /\ \A g \in Workers : g # h => asks'[g] = asks[g] /\ counted'[g] = counted[g]
  /\ \A d \in Presence!Clients : d[1] # h => client'[d] = client[d]

HostsHave(q, set, begun) ==
  \A g \in Workers : HostInv(g, life[g], asks[g], client, counted[g], q, set, begun)
HostsGet(q, set, begun) ==
  \A g \in Workers : HostInv(g, life[g], asks'[g], client', counted'[g], q, set, begun)

LEMMA OtherHosts ==
  ASSUME PresenceTyped, NEW h \in Workers, OneHost(h), NEW q, NEW set, NEW begun,
         HostsHave(q, set, begun),
         HostInv(h, life[h], asks'[h], client', counted'[h], q, set, begun)
  PROVE  HostsGet(q, set, begun)
<1>1. ASSUME NEW g \in Workers, g # h
      PROVE  HostInv(g, life[g], asks'[g], client', counted'[g], q, set, begun)
  <2>1. asks'[g] = asks[g] /\ counted'[g] = counted[g] /\ asks[g] \in Seq(Asks)
    BY <1>1 DEF OneHost, PresenceTyped
  <2>2. \A d \in Presence!Clients : d[1] = g => client'[d] = client[d]
    BY <1>1 DEF OneHost
  <2>3. HostInv(g, life[g], asks[g], client, counted[g], q, set, begun)
    BY DEF HostsHave
  <2>a. Spares(g, life[g], life[g], client, client')
    BY <2>2 DEF OneHost, Spares
  <2>4. HostInv(g, life[g], asks[g], client', counted[g], q, set, begun)
    BY <2>1, <2>a, <2>3, HostKept
  <2>5. QED
    BY <2>1, <2>4
<1>2. QED
  BY <1>1 DEF HostsGet

\* A client c of h leaves, and tail are the requests that are left.
LEMMA LeavesHost ==
  ASSUME PresenceTyped, NEW c \in Presence!Clients, NEW tail \in Seq(Asks),
         Presence!Leaves(c, tail)
  PROVE  /\ OneHost(c[1]) /\ Turns(client, c, "closed", client')
         /\ asks'[c[1]] = IF Serves(client, c[1]) = {c} THEN Append(tail, Presence!Ask(FALSE, c)) ELSE tail
         /\ counted'[c[1]] = TRUE <=> counted[c[1]] = TRUE /\ Serves(client, c[1]) # {c}
<1>1. PICK h \in Workers : h = c[1]
  BY ClientOf
<1>2. PICK a2 : a2 = IF Serves(client, h) = {c} THEN Append(tail, Presence!Ask(FALSE, c)) ELSE tail
  OBVIOUS
<1>3. PICK n2 \in BOOLEAN : n2 = (counted[h] /\ ~(Serves(client, h) = {c}))
  OBVIOUS
<1>4. /\ client' = [client EXCEPT ![c] = "closed"] /\ asks' = [asks EXCEPT ![h] = a2]
      /\ counted' = [counted EXCEPT ![h] = counted[h] /\ ~(Serves(client, h) = {c})]
  BY <1>1, <1>2, RegisteredClients DEF Presence!Leaves
<1>5. counted' = [counted EXCEPT ![h] = n2]
  BY <1>3, <1>4
<1>6. a2 \in Seq(Asks)
  BY <1>2, AskFields, AppendProperties
<1>7. /\ client \in ClientStates /\ asks \in [Workers -> Seq(Asks)] /\ counted \in [Workers -> BOOLEAN]
  BY DEF PresenceTyped, ClientStates
<1>8. /\ asks' \in [Workers -> Seq(Asks)] /\ asks'[h] = a2 /\ \A g \in Workers : g # h => asks'[g] = asks[g]
  BY <1>4, <1>6, <1>7
<1>9. /\ counted' \in [Workers -> BOOLEAN] /\ counted'[h] = n2
      /\ \A g \in Workers : g # h => counted'[g] = counted[g]
  BY <1>5, <1>7
<1>10. client' \in ClientStates /\ Turns(client, c, "closed", client')
  BY <1>4, <1>7 DEF ClientStates, Turns
<1>11. \A d \in Presence!Clients : d[1] # h => client'[d] = client[d]
  BY <1>1, <1>10 DEF Turns
<1>12. n2 = TRUE <=> counted[h] = TRUE /\ Serves(client, h) # {c}
  BY <1>3, <1>7
<1>13. OneHost(h)
  BY <1>8, <1>9, <1>10, <1>11 DEF OneHost
<1>14. QED
  BY <1>1, <1>2, <1>8, <1>9, <1>10, <1>12, <1>13

LEMMA DisconnectStep ==
  ASSUME PresenceInv, NEW c \in Presence!Clients, Presence!Disconnect(c)
  PROVE  PresenceInv'
<1>1. PICK h \in Workers : h = c[1]
  BY ClientOf
<1>2. client[c] = "connected" /\ Presence!Leaves(c, asks[h])
  BY <1>1 DEF Presence!Disconnect
<1>3. /\ life' = life /\ running' = running /\ active' = active /\ queue' = queue
      /\ started' = started /\ pending' = pending /\ tasks' = tasks /\ chan' = chan /\ view' = view
      /\ outbox' = outbox /\ made' = made /\ got' = got /\ dropped' = dropped /\ missed' = missed
  BY DEF Presence!Disconnect, Presence!memberVars, Presence!taskVars, Presence!eventVars
<1>4. PresenceTyped /\ HostsHave(queue, active, started)
  BY DEF PresenceInv, HostsInv, HostsHave
<1>5. /\ asks[h] \in Seq(Asks) /\ client \in ClientStates /\ counted[h] \in BOOLEAN
      /\ HostInv(h, life[h], asks[h], client, counted[h], queue, active, started)
  BY <1>4 DEF PresenceTyped, ClientStates, HostsHave
<1>6. /\ OneHost(h) /\ Turns(client, c, "closed", client')
      /\ asks'[h] = IF Serves(client, h) = {c} THEN Append(asks[h], Presence!Ask(FALSE, c)) ELSE asks[h]
      /\ counted'[h] = TRUE <=> counted[h] = TRUE /\ Serves(client, h) # {c}
  BY <1>1, <1>2, <1>3, <1>4, <1>5, LeavesHost
<1>7. HostInv(h, life[h], asks'[h], client', counted'[h], queue, active, started)
  <2>1. PICK m : m = Presence!Ask(FALSE, c)
    OBVIOUS
  <2>2. TellsOff(m, c)
    BY <2>1, AskFields DEF TellsOff
  <2>3. PICK a2 : a2 = asks'[h]
    OBVIOUS
  <2>4. TellsLast(h, asks[h], m, a2, client, c, counted[h], counted'[h])
    BY <1>6, <2>1, <2>3 DEF Queues, TellsLast
  <2>5. AskInv(h, life[h], asks[h], client, counted[h]) /\ counted'[h] \in BOOLEAN
    BY <1>5, <1>6 DEF HostInv, OneHost
  <2>a. PICK n2 \in BOOLEAN : n2 = counted'[h]
    BY <2>5
  <2>b. asks[h] \in Seq(Asks) /\ client \in ClientStates /\ counted[h] \in BOOLEAN
    BY <1>5
  <2>c. c[1] = h /\ client[c] = "connected" /\ Turns(client, c, "closed", client')
    BY <1>1, <1>2, <1>6
  <2>d. TellsLast(h, asks[h], m, a2, client, c, counted[h], n2)
    BY <2>4, <2>a
  <2>e. AskStep(h, life[h], asks[h], a2, client, client', counted[h], n2)
    BY <2>b, <2>c, <2>2, <2>d, <2>5, ClientLeaves
  <2>6. AskStep(h, life[h], asks[h], a2, client, client', counted[h], counted'[h])
    BY <2>a, <2>e
  <2>7. QED
    BY <1>5, <2>3, <2>6, HostAsks
<1>8. HostsInv'
  <2>1. HostsGet(queue, active, started)
    BY <1>3, <1>4, <1>6, <1>7, OtherHosts
  <2>2. QED
    BY <1>3, <2>1 DEF HostsGet, HostsInv
<1>9. PresenceTyped'
  BY <1>3, <1>4, <1>6 DEF PresenceTyped, OneHost, ClientStates
<1>10. \A g \in Workers : counted'[g] = TRUE => counted[g] = TRUE
  BY <1>6 DEF OneHost
<1>11. HeadInv' /\ PendInv' /\ ChanInv' /\ ViewInv'
  BY <1>3, <1>10, TasksKept DEF PresenceInv
<1>12. MadeInv'
  <2>1. client'[c] = "closed" /\ \A d \in Presence!Clients : d # c => client'[d] = client[d]
    BY <1>6 DEF Turns
  <2>2. ASSUME NEW d \in Presence!Clients, client[d] = "connected", client'[d] = "connected",
               counted[d[1]] = TRUE
        PROVE  counted'[d[1]] = TRUE
    <3>1. d[1] \in Workers /\ d # c
      BY <2>1, <2>2, ClientOf
    <3>2. CASE d[1] # h
      BY <1>6, <2>2, <3>1, <3>2 DEF OneHost
    <3>3. CASE d[1] = h
      <4>1. d \in Serves(client, h)
        BY <2>2, <3>3 DEF Serves
      <4>2. QED
        BY <1>6, <2>2, <3>1, <3>3, <4>1
    <3>4. QED
      BY <3>2, <3>3
  <2>3. Keeps
    BY <1>2, <1>3, <2>1, <2>2 DEF Keeps
  <2>4. QED
    BY <2>3, MadeKept DEF PresenceInv
<1>13. QED
  BY <1>8, <1>9, <1>11, <1>12 DEF PresenceInv

\* Then the tasks of h leave it out of the set.
LEMMA QuietWants ==
  ASSUME NEW q \in Seq(Presence!Tasks), Quiet(q), NEW set, set = {}, NEW h
  PROVE  ~Wanted(q, h, set) /\ Asked(q, h) = {}
<1>1. Len(q) \in Nat /\ DOMAIN q = 1..Len(q)
  BY TaskTypes
<1>2. \A i \in 1..Len(q) : IsUpdate(q[i], h) => q[i].on = FALSE /\ q[i].ask = FALSE
  BY <1>1 DEF Quiet, IsUpdate
<1>3. ~Wanted(q, h, set)
  BY <1>2 DEF Wanted, EndsOn
<1>4. Asked(q, h) = {}
  BY <1>1, <1>2 DEF Asked, Updates
<1>5. QED
  BY <1>3, <1>4

LEMMA QuietAdded ==
  ASSUME NEW s \in Seq(Presence!Tasks), NEW task \in Presence!Tasks, NEW t, Adds(s, task, t),
         Quiet(s), task.kind = "update" => task.on = FALSE /\ task.ask = FALSE
  PROVE  Quiet(t)
<1>1. Added(s, task, t)
  BY AddTask
<1>2. \A i \in DOMAIN t : (i \in DOMAIN s /\ t[i] = s[i]) \/ t[i] = task
  BY <1>1 DEF Added
<1>3. QED
  BY <1>2 DEF Quiet

LEMMA QuietForgotten ==
  ASSUME NEW s \in Seq(Presence!Tasks), NEW w, NEW t, Forgets(s, w, t), Quiet(s)
  PROVE  Quiet(t)
<1>1. Forgot(s, w, t)
  BY ForgetTasks
<1>2. /\ DOMAIN t = DOMAIN s
      /\ \A i \in DOMAIN s : /\ t[i].kind = s[i].kind /\ t[i].on = s[i].on
                             /\ t[i].ask = IF s[i].worker = w THEN FALSE ELSE s[i].ask
  BY <1>1 DEF Forgot
<1>3. QED
  BY <1>2 DEF Quiet

LEMMA QuietTail ==
  ASSUME NEW s \in Seq(Presence!Tasks), s # <<>>, NEW t, Runs(s, t), Quiet(s)
  PROVE  Quiet(t)
<1>1. /\ t \in Seq(Presence!Tasks)
      /\ \A i \in 1..Len(t) : t[i] = s[i + 1] /\ i + 1 \in 1..Len(s)
  BY TailTasks DEF Runs
<1>2. DOMAIN t = 1..Len(t) /\ DOMAIN s = 1..Len(s)
  BY <1>1, TaskTypes
<1>3. QED
  BY <1>1, <1>2 DEF Quiet

\* The first request of w is answered, refused or given up.
AnswerStep(w, ok) ==
  /\ OneHost(w) /\ \E c, m : Answers(w, asks[w], asks'[w], client, client', counted[w], counted'[w], ok, c, m)

LEMMA AnsweredHost ==
  ASSUME PresenceTyped, NEW w \in Workers, asks[w] # <<>>,
         AskInv(w, life[w], asks[w], client, counted[w]),
         NEW ok \in BOOLEAN, Presence!Answered(w, ok)
  PROVE  AnswerStep(w, ok)
<1>1. PICK a : a = asks[w]
  OBVIOUS
<1>2. /\ asks \in [Workers -> Seq(Asks)] /\ a \in Seq(Asks) /\ a # <<>> /\ client \in ClientStates
      /\ counted \in [Workers -> BOOLEAN] /\ Len(a) <= 2
  BY <1>1 DEF PresenceTyped, ClientStates, AskInv
<1>3. 1 \in DOMAIN a /\ a[1].on \in BOOLEAN /\ a[1].client \in Presence!Clients
  <2>1. 1 \in DOMAIN a
    BY <1>2, FewerAsks
  <2>2. QED
    BY <1>2, <2>1, AskTypes
<1>4. PICK c : c = a[1].client
  OBVIOUS
<1>5. PICK m : m = Presence!Ask(FALSE, c)
  OBVIOUS
<1>6. m \in Asks /\ m.on = FALSE /\ m.client = c /\ m.sent = FALSE
  BY <1>3, <1>4, <1>5, AskFields
<1>7. PICK b : b = Tail(a)
  OBVIOUS
<1>8. b \in Seq(Asks) /\ Head(a) = a[1]
  BY <1>2, <1>7, FewerAsks
<1>9. \/ /\ a[1].on = FALSE
         /\ asks' = [asks EXCEPT ![w] = b] /\ client' = client /\ counted' = counted
      \/ /\ a[1].on = TRUE /\ ok = TRUE /\ asks' = [asks EXCEPT ![w] = b]
         /\ client' = [client EXCEPT ![c] = "connected"] /\ counted' = [counted EXCEPT ![w] = TRUE]
      \/ a[1].on = TRUE /\ ok = FALSE /\ Presence!Leaves(c, b)
  BY <1>1, <1>2, <1>3, <1>4, <1>7, <1>8 DEF Presence!Answered
<1>10. CASE /\ a[1].on = FALSE
            /\ asks' = [asks EXCEPT ![w] = b] /\ client' = client /\ counted' = counted
  <2>1. /\ asks' \in [Workers -> Seq(Asks)] /\ asks'[w] = b
        /\ \A g \in Workers : g # w => asks'[g] = asks[g]
    BY <1>2, <1>8, <1>10
  <2>2. OneHost(w)
    BY <1>2, <1>10, <2>1 DEF OneHost
  <2>3. Answers(w, a, asks'[w], client, client', counted[w], counted'[w], ok, c, m)
    BY <1>4, <1>6, <1>7, <1>10, <2>1 DEF Answers
  <2>4. QED
    BY <1>1, <2>2, <2>3 DEF AnswerStep
<1>11. ASSUME a[1].on = TRUE PROVE c \in Presence!Clients /\ c[1] = w /\ counted[w] = FALSE
  BY <1>1, <1>2, <1>3, <1>4, <1>11 DEF AskInv
<1>12. CASE /\ a[1].on = TRUE /\ ok = TRUE /\ asks' = [asks EXCEPT ![w] = b]
            /\ client' = [client EXCEPT ![c] = "connected"] /\ counted' = [counted EXCEPT ![w] = TRUE]
  <2>1. /\ asks' \in [Workers -> Seq(Asks)] /\ asks'[w] = b
        /\ \A g \in Workers : g # w => asks'[g] = asks[g]
    BY <1>2, <1>8, <1>12
  <2>2. client' \in ClientStates /\ \A d \in Presence!Clients : client'[d] = IF d = c THEN "connected" ELSE client[d]
    BY <1>2, <1>12 DEF ClientStates
  <2>3. /\ counted' \in [Workers -> BOOLEAN] /\ counted'[w] = TRUE
        /\ \A g \in Workers : g # w => counted'[g] = counted[g]
    BY <1>2, <1>12
  <2>4. \A d \in Presence!Clients : d[1] # w => client'[d] = client[d]
    BY <1>11, <1>12, <2>2
  <2>5. OneHost(w)
    BY <2>1, <2>2, <2>3, <2>4 DEF OneHost
  <2>6. Answers(w, a, asks'[w], client, client', counted[w], counted'[w], ok, c, m)
    BY <1>4, <1>6, <1>7, <1>12, <2>1, <2>2, <2>3 DEF Answers
  <2>7. QED
    BY <1>1, <2>5, <2>6 DEF AnswerStep
<1>13. CASE a[1].on = TRUE /\ ok = FALSE /\ Presence!Leaves(c, b)
  <2>1. c \in Presence!Clients /\ c[1] = w /\ counted[w] = FALSE
    BY <1>11, <1>13
  <2>2. /\ OneHost(c[1]) /\ Turns(client, c, "closed", client')
        /\ asks'[c[1]] = IF Serves(client, c[1]) = {c} THEN Append(b, Presence!Ask(FALSE, c)) ELSE b
        /\ counted'[c[1]] = TRUE <=> counted[c[1]] = TRUE /\ Serves(client, c[1]) # {c}
    BY <1>8, <1>13, <2>1, LeavesHost
  <2>3. /\ OneHost(w) /\ asks'[w] = IF Serves(client, w) = {c} THEN Append(Tail(a), m) ELSE Tail(a)
        /\ counted'[w] # TRUE
    BY <1>5, <1>7, <2>1, <2>2
  <2>4. counted'[w] = FALSE
    BY <2>3 DEF OneHost
  <2>5. Answers(w, a, asks'[w], client, client', counted[w], counted'[w], ok, c, m)
    BY <1>4, <1>6, <1>13, <2>2, <2>3, <2>4 DEF Answers, Turns
  <2>6. QED
    BY <1>1, <2>3, <2>5 DEF AnswerStep
<1>14. QED
  BY <1>9, <1>10, <1>12, <1>13

\* It leaves what was connected or closed, and counts w if the answer is good.
AnswerEffect(w, ok, q, set, begun) ==
  /\ OneHost(w) /\ HostsGet(q, set, begun)
  /\ counted'[w] = TRUE => asks[w][1].on = TRUE /\ ok = TRUE
  /\ counted[w] # TRUE
  /\ \A d \in Presence!Clients : client[d] # "asking" => client'[d] = client[d]

LEMMA AnsweredHosts ==
  ASSUME PresenceTyped, NEW w \in Workers, asks[w] # <<>>, NEW q, NEW set, NEW begun,
         HostsHave(q, set, begun), Asked(q, w) = {},
         NEW ok \in BOOLEAN, Presence!Answered(w, ok),
         Wanted(q, w, set) => asks[w][1].sent = TRUE,
         life[w] # "stopping" /\ asks[w][1].on = TRUE /\ ok = TRUE => w \in set /\ Updates(q, w) = {}
  PROVE  AnswerEffect(w, ok, q, set, begun)
<1>1. /\ asks[w] \in Seq(Asks) /\ client \in ClientStates /\ counted[w] \in BOOLEAN
      /\ HostInv(w, life[w], asks[w], client, counted[w], q, set, begun)
  BY DEF PresenceTyped, ClientStates, HostsHave
<1>2. AskInv(w, life[w], asks[w], client, counted[w]) /\ counted[w] # TRUE
  BY <1>1 DEF HostInv, AskInv
<1>3. AnswerStep(w, ok)
  BY <1>2, AnsweredHost
<1>4. OneHost(w)
  BY <1>3 DEF AnswerStep
<1>5. PICK c, m : Answers(w, asks[w], asks'[w], client, client', counted[w], counted'[w], ok, c, m)
  BY <1>3 DEF AnswerStep
<1>6. client' \in ClientStates
  BY <1>4 DEF OneHost
<1>7. /\ HostInv(w, life[w], asks'[w], client', counted'[w], q, set, begun)
      /\ AnswerInv(w, life[w], asks[w], asks'[w], client, client', counted'[w], ok)
  <2>1. MayAnswer(w, life[w], asks[w], q, set, ok)
    BY DEF MayAnswer
  <2>2. QED
    BY <1>1, <1>5, <1>6, <2>1, HostAnswers
<1>8. HostsGet(q, set, begun)
  BY <1>4, <1>7, OtherHosts
<1>9. /\ counted'[w] = TRUE => asks[w][1].on = TRUE /\ ok = TRUE
      /\ \A d \in Presence!Clients : client[d] # "asking" => client'[d] = client[d]
  BY <1>7 DEF AnswerInv
<1>10. QED
  BY <1>2, <1>4, <1>8, <1>9 DEF AnswerEffect

-----------------------------------------------------------------------------
\* The tasks t begin as the tasks s do, and have no other synchronisations.
Follows(s, t) ==
  /\ t \in Seq(Presence!Tasks)
  /\ s # <<>> => /\ t # <<>> /\ t[1].kind = s[1].kind /\ t[1].worker = s[1].worker
                 /\ t[1].on = s[1].on
  /\ \A i \in DOMAIN t : t[i].kind = "sync" =>
       /\ i \in DOMAIN s /\ s[i].kind = "sync" /\ t[i].worker = s[i].worker
       /\ s[i].ask = FALSE => t[i].ask = FALSE

LEMMA FollowsAdded ==
  ASSUME NEW s \in Seq(Presence!Tasks), NEW task \in Presence!Tasks, task.kind = "update",
         NEW t, Adds(s, task, t)
  PROVE  Follows(s, t)
<1>1. Added(s, task, t)
  BY AddTask
<1>2. /\ t \in Seq(Presence!Tasks) /\ t # <<>> /\ (s # <<>> => t[1] = s[1])
      /\ \A i \in DOMAIN t : (i \in DOMAIN s /\ t[i] = s[i]) \/ t[i] = task
  BY <1>1 DEF Added
<1>3. QED
  BY <1>2 DEF Follows

LEMMA FollowsForgotten ==
  ASSUME NEW s \in Seq(Presence!Tasks), NEW w, NEW t, Forgets(s, w, t)
  PROVE  Follows(s, t)
<1>1. Forgot(s, w, t)
  BY ForgetTasks
<1>2. /\ t \in Seq(Presence!Tasks) /\ Len(t) = Len(s) /\ DOMAIN t = DOMAIN s
      /\ \A i \in DOMAIN s : /\ t[i].kind = s[i].kind /\ t[i].worker = s[i].worker /\ t[i].on = s[i].on
                             /\ t[i].ask = IF s[i].worker = w THEN FALSE ELSE s[i].ask
  BY <1>1 DEF Forgot
<1>3. s # <<>> => t # <<>> /\ 1 \in DOMAIN s
  <2>1. Len(s) \in Nat /\ DOMAIN s = 1..Len(s) /\ (s # <<>> => Len(s) # 0)
    BY TaskTypes, EmptySeq
  <2>2. QED
    BY <1>2, <2>1, EmptySeq
<1>4. QED
  BY <1>2, <1>3 DEF Follows

\* The tasks change and workers exit, but the task under way and what was sent stay.
Continues ==
  /\ active' = active /\ started' = started /\ pending' = pending /\ tasks' = tasks /\ view' = view
  /\ running' = running
  /\ started = TRUE => /\ queue' # <<>> /\ queue'[1].kind = queue[1].kind
                       /\ queue'[1].worker = queue[1].worker /\ queue'[1].on = queue[1].on
  /\ \A w \in Workers :
       /\ life'[w] \in {"off", "new", "syncing"} => life[w] \in {"off", "new", "syncing"}
       /\ life'[w] = "ready" => life[w] = "ready"
       /\ life'[w] = "stopping" <=> life[w] = "stopping" /\ life'[w] # "gone"
       /\ life'[w] # "gone" => life[w] # "gone" /\ chan'[w] = chan[w]
       /\ chan'[w] = chan[w] \/ chan'[w] = <<>>
  /\ \A h \in Workers : counted'[h] = TRUE => counted[h] = TRUE

LEMMA TasksContinue ==
  ASSUME HeadInv, PendInv, ChanInv, ViewInv, HostsInv', SyncsInv',
         running = FALSE /\ Quiet(queue) => Quiet(queue'), Continues
  PROVE  HeadInv' /\ PendInv' /\ ChanInv' /\ ViewInv'
<1>1. HeadInv'
  <2>1. RunInv'
    BY DEF HeadInv, RunInv, Continues
  <2>2. QED
    BY <2>1 DEF HeadInv, Continues
<1>2. PendInv'
  BY DEF PendInv, Continues
<1>3. ASSUME NEW w \in Workers PROVE Numbered(chan'[w], tasks', started', active')
  <2>1. Numbered(chan[w], tasks, started, active)
    BY DEF ChanInv
  <2>2. CASE chan'[w] = <<>>
    BY <2>2, EmptyChannel
  <2>3. CASE chan'[w] = chan[w]
    BY <2>1, <2>3 DEF Continues
  <2>4. QED
    BY <2>2, <2>3 DEF Continues
<1>4. ASSUME NEW w \in Workers PROVE SentInv(w)'
  <2>1. SentInv(w)
    BY DEF ChanInv
  <2>2. Joining(w)' <=> Joining(w)
    BY DEF Joining, Continues
  <2>3. life'[w] \in {"off", "new", "syncing"} =>
          IF Joining(w) THEN view[w] \in {Workers, active} /\ SetsAre(chan[w], active)
          ELSE view[w] = Workers /\ NoSets(chan[w])
    BY <2>1 DEF SentInv, Continues
  <2>4. life'[w] \in {"off", "new", "syncing"} => chan'[w] = chan[w]
    BY DEF Continues
  <2>5. started' = TRUE /\ queue'[1].kind = "update" /\ life'[w] = "ready" =>
          <<w, tasks>> \in pending \/ (view[w] = active /\ NoSets(chan[w]))
    BY <2>1 DEF SentInv, Continues
  <2>6. QED
    BY <2>2, <2>3, <2>4, <2>5 DEF SentInv, Continues
<1>5. ViewInv'
  <2>1. \A h \in Workers : counted'[h] = TRUE => life'[h] # "gone"
    BY DEF HostsInv, HostInv, AskInv
  <2>2. QED
    BY <2>1 DEF ViewInv, Continues
<1>6. QED
  BY <1>1, <1>2, <1>3, <1>4, <1>5 DEF ChanInv

LEMMA UpdateFields ==
  ASSUME NEW w \in Workers, NEW on \in BOOLEAN, NEW ask \in BOOLEAN
  PROVE  /\ Presence!Update(w, on, ask) \in Presence!Tasks
         /\ Presence!Update(w, on, ask).kind = "update" /\ Presence!Update(w, on, ask).worker = w
         /\ Presence!Update(w, on, ask).on = on /\ Presence!Update(w, on, ask).ask = ask
BY DEF Presence!Update, Presence!Tasks

LEMMA SyncsFollow ==
  ASSUME PresenceTyped, SyncsInv, Follows(queue, queue'),
         \A w \in Workers : life'[w] \in {"new", "off"} => life[w] \in {"new", "off"}
  PROVE  SyncsInv'
<1>1. \A i \in DOMAIN queue : queue[i].worker \in Workers
  BY TaskTypes DEF PresenceTyped
<1>2. QED
  BY <1>1 DEF SyncsInv, Follows

LEMMA SendStep ==
  ASSUME PresenceInv, NEW w \in Workers, Presence!SendAsk(w)
  PROVE  PresenceInv'
<1>1. /\ life' = life /\ active' = active /\ started' = started /\ pending' = pending
      /\ tasks' = tasks /\ chan' = chan /\ view' = view
      /\ outbox' = outbox /\ made' = made /\ got' = got /\ dropped' = dropped /\ missed' = missed
      /\ running' = running /\ asks[w] # <<>>
  BY DEF Presence!SendAsk, Presence!eventVars
<1>2. PresenceTyped /\ HostsHave(queue, active, started) /\ SyncsInv
  BY DEF PresenceInv, HostsInv, HostsHave, HeadInv
<1>3. /\ asks[w] \in Seq(Asks) /\ client \in ClientStates /\ counted[w] \in BOOLEAN
      /\ queue \in Seq(Presence!Tasks)
      /\ HostInv(w, life[w], asks[w], client, counted[w], queue, active, started)
  BY <1>2 DEF PresenceTyped, ClientStates, HostsHave
<1>4. /\ Len(asks[w]) \in Nat /\ Head(asks[w]) = asks[w][1] /\ asks[w][1].sent \in BOOLEAN
      /\ asks[w][1].on \in BOOLEAN
  <2>1. 1 \in DOMAIN asks[w] /\ Len(asks[w]) \in Nat
    BY <1>1, <1>3, AskTypes
  <2>2. QED
    BY <1>3, <2>1, AskTypes
<1>5. asks[w][1].sent = FALSE
  BY <1>4 DEF Presence!SendAsk
<1>6. CASE /\ running = TRUE
           /\ queue' = Append(queue, Presence!Update(w, Head(asks[w]).on, TRUE))
           /\ asks' = [asks EXCEPT ![w][1].sent = TRUE]
           /\ UNCHANGED <<client, counted>>
  <2>1. PICK task : task = Presence!Update(w, asks[w][1].on, TRUE)
    OBVIOUS
  <2>2. /\ task \in Presence!Tasks /\ task.kind = "update" /\ task.worker = w
        /\ task.on = asks[w][1].on /\ task.ask = TRUE
    BY <1>4, <2>1, UpdateFields
  <2>3. Adds(queue, task, queue')
    BY <1>4, <1>6, <2>1 DEF Adds
  <2>4. PICK a2 : a2 = [asks[w] EXCEPT ![1].sent = TRUE]
    OBVIOUS
  <2>5. Sends(asks[w], a2) /\ IsUpdate(task, w)
    BY <2>2, <2>4 DEF Sends, IsUpdate
  <2>a. Asking(task, w, asks[w])
    BY <2>2, <2>5 DEF Asking
  <2>b. a2 \in Seq(Asks)
    BY <1>1, <1>3, <2>5, SentAsk
  <2>c. HostInv(w, life[w], a2, client, counted[w], queue', active, started)
    BY <1>1, <1>3, <1>5, <2>a, <2>3, <2>5, HostSends
  <2>6. a2 \in Seq(Asks) /\ HostInv(w, life[w], a2, client, counted[w], queue', active, started)
    BY <2>b, <2>c
  <2>7. asks' = [asks EXCEPT ![w] = a2]
    BY <1>6, <2>4
  <2>8. asks' \in [Workers -> Seq(Asks)] /\ asks'[w] = a2 /\ \A g \in Workers : g # w => asks'[g] = asks[g]
    BY <1>2, <2>6, <2>7 DEF PresenceTyped
  <2>9. Follows(queue, queue')
    BY <1>3, <2>2, <2>3, FollowsAdded
  <2>10. HostsInv'
    <3>1. ASSUME NEW g \in Workers, g # w
          PROVE  HostInv(g, life[g], asks[g], client, counted[g], queue', active, started)
      <4>1. ~IsUpdate(task, g)
        BY <2>2, <3>1 DEF IsUpdate
      <4>2. SameFor(queue, queue', g, active, started)
        BY <1>3, <2>2, <2>3, <4>1, AddOther
      <4>3. HostInv(g, life[g], asks[g], client, counted[g], queue, active, started)
        BY <1>2 DEF HostsHave
      <4>4. QED
        BY <4>2, <4>3, HostSame
    <3>2. QED
      BY <1>1, <1>6, <2>6, <2>8, <3>1 DEF HostsInv
  <2>11. PresenceTyped'
    BY <1>1, <1>2, <1>6, <2>8, <2>9 DEF PresenceTyped, Follows
  <2>12. SyncsInv'
    BY <1>1, <1>2, <2>9, SyncsFollow
  <2>13. Continues
    BY <1>1, <1>6, <2>9 DEF Continues, Follows, PresenceInv, HeadInv
  <2>14. HeadInv' /\ PendInv' /\ ChanInv' /\ ViewInv'
    BY <1>6, <2>10, <2>12, <2>13, TasksContinue DEF PresenceInv
  <2>15. Keeps
    BY <1>1, <1>6 DEF Keeps
  <2>16. MadeInv'
    BY <2>15, MadeKept DEF PresenceInv
  <2>17. QED
    BY <2>10, <2>11, <2>14, <2>16 DEF PresenceInv
<1>7. CASE running = FALSE /\ Presence!Answered(w, FALSE) /\ UNCHANGED queue
  <2>1. Asked(queue, w) = {} /\ ~Wanted(queue, w, active)
    <3>1. active = {} /\ Quiet(queue)
      BY <1>7 DEF PresenceInv, HeadInv, RunInv
    <3>2. QED
      BY <1>3, <3>1, QuietWants
  <2>2. PICK ok \in BOOLEAN : ok = FALSE
    OBVIOUS
  <2>3. AnswerEffect(w, ok, queue, active, started)
    BY <1>1, <1>2, <1>7, <2>1, <2>2, AnsweredHosts
  <2>4. /\ OneHost(w) /\ HostsGet(queue, active, started) /\ counted'[w] # TRUE /\ counted[w] # TRUE
        /\ \A d \in Presence!Clients : client[d] # "asking" => client'[d] = client[d]
    BY <2>2, <2>3 DEF AnswerEffect
  <2>5. HostsInv'
    BY <1>1, <1>7, <2>4 DEF HostsGet, HostsInv
  <2>6. PresenceTyped'
    BY <1>1, <1>2, <1>7, <2>4 DEF PresenceTyped, OneHost, ClientStates
  <2>7. \A g \in Workers : counted'[g] = counted[g] \/ g = w
    BY <2>4 DEF OneHost
  <2>8. HeadInv' /\ PendInv' /\ ChanInv' /\ ViewInv'
    BY <1>1, <1>7, <2>4, <2>7, TasksKept DEF PresenceInv
  <2>9. \A d \in Presence!Clients : counted[d[1]] = TRUE => counted'[d[1]] = TRUE
    BY <2>4, <2>7, ClientOf
  <2>10. Keeps
    BY <1>1, <1>7, <2>4, <2>9 DEF Keeps
  <2>11. MadeInv'
    BY <2>10, MadeKept DEF PresenceInv
  <2>12. QED
    BY <2>5, <2>6, <2>8, <2>11 DEF PresenceInv
<1>8. QED
  BY <1>2, <1>6, <1>7 DEF Presence!SendAsk, PresenceTyped

\* The tasks of w are forgotten: nobody waits for them.
HostsForgot(w, q, set, begun) == HostsHave(q, set, begun) /\ Asked(q, w) = {}

LEMMA HostsForget ==
  ASSUME NEW w, NEW q \in Seq(Presence!Tasks), NEW set, NEW begun, HostsHave(q, set, begun),
         NEW q2, Forgets(q, w, q2)
  PROVE  HostsForgot(w, q2, set, begun)
<1>1. ASSUME NEW g \in Workers
      PROVE  HostInv(g, life[g], asks[g], client, counted[g], q2, set, begun)
  <2>1. HostInv(g, life[g], asks[g], client, counted[g], q, set, begun)
    BY DEF HostsHave
  <2>2. QED
    BY <2>1, HostForgets
<1>2. PICK h : h = w
  OBVIOUS
<1>3. Unasked(q, w, q2, h, set)
  BY ForgetUpdates
<1>4. QED
  BY <1>1, <1>2, <1>3 DEF HostsForgot, HostsHave, Unasked

LEMMA AskTimesOutStep ==
  ASSUME PresenceInv, NEW w \in Workers, Presence!AskTimesOut(w)
  PROVE  PresenceInv'
<1>1. /\ life' = life /\ active' = active /\ started' = started /\ pending' = pending
      /\ tasks' = tasks /\ chan' = chan /\ view' = view /\ running' = running
      /\ outbox' = outbox /\ made' = made /\ got' = got /\ dropped' = dropped /\ missed' = missed
      /\ asks[w] # <<>> /\ Presence!Answered(w, FALSE)
  BY DEF Presence!AskTimesOut, Presence!eventVars
<1>2. PresenceTyped /\ HostsHave(queue, active, started) /\ SyncsInv
  BY DEF PresenceInv, HostsInv, HostsHave, HeadInv
<1>3. queue \in Seq(Presence!Tasks) /\ asks[w] \in Seq(Asks)
  BY <1>2 DEF PresenceTyped
<1>4. asks[w][1].sent = TRUE
  <2>1. 1 \in DOMAIN asks[w] /\ Head(asks[w]) = asks[w][1]
    BY <1>1, <1>3, AskTypes
  <2>2. asks[w][1].sent \in BOOLEAN
    BY <1>3, <2>1, AskTypes
  <2>3. QED
    BY <2>1, <2>2 DEF Presence!AskTimesOut
<1>5. Forgets(queue, w, queue')
  BY DEF Presence!AskTimesOut, Forgets
<1>6. Follows(queue, queue')
  BY <1>3, <1>5, FollowsForgotten
<1>7. HostsHave(queue', active, started) /\ Asked(queue', w) = {}
  BY <1>2, <1>3, <1>5, HostsForget DEF HostsForgot
<1>8. PICK ok \in BOOLEAN : ok = FALSE
  OBVIOUS
<1>9. AnswerEffect(w, ok, queue', active, started)
  BY <1>1, <1>2, <1>4, <1>7, <1>8, AnsweredHosts
<1>10. /\ OneHost(w) /\ HostsGet(queue', active, started) /\ counted'[w] # TRUE /\ counted[w] # TRUE
       /\ \A d \in Presence!Clients : client[d] # "asking" => client'[d] = client[d]
  BY <1>8, <1>9 DEF AnswerEffect
<1>11. HostsInv'
  BY <1>1, <1>10 DEF HostsGet, HostsInv
<1>12. PresenceTyped'
  BY <1>1, <1>2, <1>6, <1>10 DEF PresenceTyped, OneHost, ClientStates, Follows
<1>13. \A g \in Workers : counted'[g] = counted[g] \/ g = w
  BY <1>10 DEF OneHost
<1>14. SyncsInv'
  BY <1>1, <1>2, <1>6, SyncsFollow
<1>15. Continues
  BY <1>1, <1>6, <1>10, <1>13 DEF Continues, Follows, PresenceInv, HeadInv
<1>16. HeadInv' /\ PendInv' /\ ChanInv' /\ ViewInv'
  <2>1. Quiet(queue) => Quiet(queue')
    BY <1>3, <1>5, QuietForgotten
  <2>2. QED
    BY <1>11, <1>14, <1>15, <2>1, TasksContinue DEF PresenceInv
<1>17. \A d \in Presence!Clients : counted[d[1]] = TRUE => counted'[d[1]] = TRUE
  BY <1>10, <1>13, ClientOf
<1>18. MadeInv'
  <2>1. Keeps
    BY <1>1, <1>10, <1>17 DEF Keeps
  <2>2. QED
    BY <2>1, MadeKept DEF PresenceInv
<1>19. QED
  BY <1>11, <1>12, <1>16, <1>18 DEF PresenceInv

\* The coordinator that was replaced answers a worker that stops.
LEMMA OldAnswersStep ==
  ASSUME PresenceInv, NEW w \in Workers, Presence!OldAnswers(w)
  PROVE  PresenceInv'
<1>1. /\ life' = life /\ active' = active /\ queue' = queue /\ started' = started
      /\ pending' = pending /\ tasks' = tasks /\ chan' = chan /\ view' = view /\ running' = running
      /\ outbox' = outbox /\ made' = made /\ got' = got /\ dropped' = dropped /\ missed' = missed
      /\ life[w] = "stopping" /\ asks[w] # <<>>
  BY DEF Presence!OldAnswers, Presence!memberVars, Presence!taskVars, Presence!eventVars
<1>2. PICK ok \in BOOLEAN : Presence!Answered(w, ok)
  BY DEF Presence!OldAnswers
<1>3. PresenceTyped /\ HostsHave(queue, active, started)
  BY DEF PresenceInv, HostsInv, HostsHave
<1>4. Asked(queue, w) = {} /\ ~Wanted(queue, w, active)
  <2>1. active = {} /\ Quiet(queue)
    BY <1>1, <1>3 DEF PresenceInv, HeadInv, RunInv, PresenceTyped
  <2>2. QED
    BY <1>3, <2>1, QuietWants DEF PresenceTyped
<1>5. AnswerEffect(w, ok, queue, active, started)
  BY <1>1, <1>2, <1>3, <1>4, AnsweredHosts
<1>6. /\ OneHost(w) /\ HostsGet(queue, active, started) /\ counted[w] # TRUE
      /\ \A d \in Presence!Clients : client[d] # "asking" => client'[d] = client[d]
  BY <1>5 DEF AnswerEffect
<1>7. HostsInv'
  BY <1>1, <1>6 DEF HostsGet, HostsInv
<1>8. PresenceTyped'
  BY <1>1, <1>3, <1>6 DEF PresenceTyped, OneHost, ClientStates
<1>9. \A g \in Workers : counted'[g] = counted[g] \/ g = w
  BY <1>6 DEF OneHost
<1>10. HeadInv' /\ PendInv' /\ ChanInv' /\ ViewInv'
  BY <1>1, <1>9, TasksKept DEF PresenceInv
<1>11. \A d \in Presence!Clients : counted[d[1]] = TRUE => counted'[d[1]] = TRUE
  BY <1>6, <1>9, ClientOf
<1>12. Keeps
  BY <1>1, <1>6, <1>11 DEF Keeps
<1>13. QED
  BY <1>7, <1>8, <1>10, <1>12, MadeKept DEF PresenceInv

\* A worker is started.
LEMMA ForkStep ==
  ASSUME PresenceInv, NEW w \in Workers, Presence!Fork(w)
  PROVE  PresenceInv'
<1>1. /\ active' = active /\ queue' = queue /\ started' = started
      /\ pending' = pending /\ tasks' = tasks /\ chan' = chan /\ view' = view /\ running' = running
      /\ asks' = asks /\ client' = client /\ counted' = counted
      /\ outbox' = outbox /\ made' = made /\ got' = got /\ dropped' = dropped /\ missed' = missed
      /\ life[w] = "off" /\ life' = [life EXCEPT ![w] = "new"]
  BY DEF Presence!Fork, Presence!taskVars, Presence!eventVars, Presence!clientVars
<1>2. PresenceTyped /\ SyncsInv
  BY DEF PresenceInv, HeadInv
<1>3. life'[w] = "new" /\ \A g \in Workers : g # w => life'[g] = life[g]
  BY <1>1, <1>2 DEF PresenceTyped
<1>4. HostsInv'
  <2>1. ASSUME NEW g \in Workers
        PROVE  HostInv(g, life'[g], asks[g], client, counted[g], queue, active, started)
    <3>1. HostInv(g, life[g], asks[g], client, counted[g], queue, active, started)
      BY DEF PresenceInv, HostsInv
    <3>2. Spares(g, life[g], life'[g], client, client)
      BY <1>1, <1>3 DEF Spares
    <3>3. asks[g] \in Seq(Asks)
      BY <1>2 DEF PresenceTyped
    <3>4. QED
      BY <3>1, <3>2, <3>3, HostKept
  <2>2. QED
    BY <1>1, <2>1 DEF HostsInv
<1>5. PresenceTyped'
  BY <1>1, <1>2 DEF PresenceTyped, Lives
<1>6. SyncsInv'
  <2>1. \A i \in DOMAIN queue : queue[i].worker \in Workers
    BY <1>2, TaskTypes DEF PresenceTyped
  <2>2. QED
    BY <1>1, <1>2, <1>3, <2>1 DEF SyncsInv
<1>7. Continues
  <2>1. started = TRUE => queue # <<>>
    BY DEF PresenceInv, HeadInv
  <2>2. QED
    BY <1>1, <1>3, <2>1 DEF Continues
<1>8. HeadInv' /\ PendInv' /\ ChanInv' /\ ViewInv'
  BY <1>1, <1>4, <1>6, <1>7, TasksContinue DEF PresenceInv
<1>9. Keeps
  BY <1>1, <1>3 DEF Keeps
<1>10. QED
  BY <1>4, <1>5, <1>8, <1>9, MadeKept DEF PresenceInv

\* The new workers have joined.
LEMMA ResumeStep ==
  ASSUME PresenceInv, Presence!Resume
  PROVE  PresenceInv'
<1>1. /\ life' = life /\ active' = active /\ queue' = queue /\ started' = started
      /\ pending' = pending /\ tasks' = tasks /\ chan' = chan /\ view' = view /\ running' = TRUE
      /\ asks' = asks /\ client' = client /\ counted' = counted
      /\ outbox' = outbox /\ made' = made /\ got' = got /\ dropped' = dropped /\ missed' = missed
  BY DEF Presence!Resume, Presence!taskVars, Presence!eventVars, Presence!clientVars
<1>2. \A w \in Workers : life[w] # "stopping"
  BY DEF Presence!Resume, Presence!Alive, Presence!Ready
<1>3. HeadInv' /\ PendInv'
  BY <1>1, <1>2 DEF PresenceInv, HeadInv, SyncsInv, RunInv, PendInv
<1>4. ChanInv' /\ ViewInv'
  BY <1>1 DEF PresenceInv, ChanInv, SentInv, Joining, ViewInv
<1>5. HostsInv' /\ PresenceTyped'
  BY <1>1 DEF PresenceInv, HostsInv, PresenceTyped
<1>6. Keeps
  BY <1>1 DEF Keeps
<1>7. QED
  BY <1>3, <1>4, <1>5, <1>6, MadeKept DEF PresenceInv

\* A started worker asks for the set.
LEMMA WorkerReadyStep ==
  ASSUME PresenceInv, NEW w \in Workers, Presence!WorkerReady(w)
  PROVE  PresenceInv'
<1>1. /\ active' = active /\ started' = started /\ pending' = pending
      /\ tasks' = tasks /\ chan' = chan /\ view' = view /\ running' = running
      /\ asks' = asks /\ client' = client /\ counted' = counted
      /\ outbox' = outbox /\ made' = made /\ got' = got /\ dropped' = dropped /\ missed' = missed
      /\ life[w] = "new" /\ life' = [life EXCEPT ![w] = "syncing"]
      /\ queue' = Append(queue, Presence!Sync(w))
  BY DEF Presence!WorkerReady, Presence!eventVars, Presence!clientVars
<1>2. PresenceTyped /\ HostsHave(queue, active, started) /\ SyncsInv
  BY DEF PresenceInv, HostsInv, HostsHave, HeadInv
<1>3. queue \in Seq(Presence!Tasks) /\ life \in [Workers -> Lives]
  BY <1>2 DEF PresenceTyped
<1>4. PICK task : task = Presence!Sync(w)
  OBVIOUS
<1>5. task \in Presence!Tasks /\ task.kind = "sync" /\ task.worker = w /\ task.ask = FALSE
  BY <1>4 DEF Presence!Sync, Presence!Tasks
<1>6. Adds(queue, task, queue')
  BY <1>1, <1>4 DEF Adds
<1>7. Added(queue, task, queue')
  BY <1>3, <1>5, <1>6, AddTask
<1>8. life'[w] = "syncing" /\ \A g \in Workers : g # w => life'[g] = life[g]
  BY <1>1, <1>3
<1>9. HostsInv'
  <2>1. ASSUME NEW g \in Workers
        PROVE  HostInv(g, life'[g], asks[g], client, counted[g], queue', active, started)
    <3>1. HostInv(g, life[g], asks[g], client, counted[g], queue, active, started)
      BY <1>2 DEF HostsHave
    <3>2. ~IsUpdate(task, g)
      BY <1>5 DEF IsUpdate
    <3>3. SameFor(queue, queue', g, active, started)
      BY <1>3, <1>5, <1>6, <3>2, AddOther
    <3>4. HostInv(g, life[g], asks[g], client, counted[g], queue', active, started)
      BY <3>1, <3>3, HostSame
    <3>5. Spares(g, life[g], life'[g], client, client)
      BY <1>1, <1>8 DEF Spares
    <3>6. asks[g] \in Seq(Asks)
      BY <1>2 DEF PresenceTyped
    <3>7. QED
      BY <3>4, <3>5, <3>6, HostKept
  <2>2. QED
    BY <1>1, <2>1 DEF HostsInv
<1>10. PresenceTyped'
  <2>1. life' \in [Workers -> Lives] /\ queue' \in Seq(Presence!Tasks)
    BY <1>1, <1>3, <1>7 DEF Added, Lives
  <2>2. QED
    BY <1>1, <1>2, <2>1 DEF PresenceTyped
<1>11. SyncsInv'
  <2>1. \A i \in DOMAIN queue' : (i \in DOMAIN queue /\ queue'[i] = queue[i]) \/ queue'[i] = task
    BY <1>7 DEF Added
  <2>2. \A i \in DOMAIN queue : queue[i].worker \in Workers
    BY <1>3, TaskTypes
  <2>3. QED
    BY <1>2, <1>5, <1>8, <2>1, <2>2 DEF SyncsInv
<1>12. Continues
  <2>1. started = TRUE => queue # <<>>
    BY DEF PresenceInv, HeadInv
  <2>2. queue' # <<>> /\ (queue # <<>> => queue'[1] = queue[1])
    BY <1>7 DEF Added
  <2>3. QED
    BY <1>1, <1>8, <2>1, <2>2 DEF Continues
<1>13. HeadInv' /\ PendInv' /\ ChanInv' /\ ViewInv'
  <2>1. Quiet(queue) => Quiet(queue')
    BY <1>3, <1>5, <1>6, QuietAdded
  <2>2. QED
    BY <1>9, <1>11, <1>12, <2>1, TasksContinue DEF PresenceInv
<1>14. MadeInv'
  <2>1. Keeps
    BY <1>1, <1>8 DEF Keeps
  <2>2. QED
    BY <2>1, MadeKept DEF PresenceInv
<1>15. QED
  BY <1>9, <1>10, <1>13, <1>14 DEF PresenceInv

\* Steps of other variables.
Idle ==
  /\ life' = life /\ active' = active /\ queue' = queue /\ started' = started /\ pending' = pending
  /\ tasks' = tasks /\ chan' = chan /\ view' = view /\ running' = running
  /\ asks' = asks /\ client' = client /\ counted' = counted
  /\ outbox' = outbox /\ made' = made /\ got' = got /\ dropped' = dropped /\ missed' = missed

LEMMA IdleStep ==
  ASSUME PresenceInv, Idle
  PROVE  PresenceInv'
<1>1. PresenceTyped'
  BY DEF PresenceInv, PresenceTyped, Idle
<1>2. HeadInv' /\ PendInv' /\ ChanInv' /\ ViewInv'
  BY TasksKept DEF PresenceInv, Idle
<1>3. HostsInv'
  BY DEF PresenceInv, HostsInv, Idle
<1>4. Keeps
  BY DEF Keeps, Idle
<1>5. QED
  BY <1>1, <1>2, <1>3, <1>4, MadeKept DEF PresenceInv

LEMMA IdleSteps ==
  ASSUME \/ \E w \in Workers : Presence!PublishFails(w) \/ Presence!PublishTimesOut(w)
         \/ UNCHANGED presenceVars
  PROVE  Idle
<1>2. CASE \E w \in Workers : Presence!PublishFails(w) \/ Presence!PublishTimesOut(w)
  BY <1>2 DEF Presence!PublishFails, Presence!PublishTimesOut, Presence!PublishEnds, Idle,
     Presence!taskVars, Presence!clientVars
<1>3. CASE UNCHANGED presenceVars
  BY <1>3 DEF presenceVars, Idle
<1>4. QED
  BY <1>2, <1>3

\* The tasks t follow s, and u follow t.
LEMMA FollowsOn ==
  ASSUME NEW s, NEW t, NEW u, Follows(s, t), Follows(t, u)
  PROVE  Follows(s, u)
BY DEF Follows

\* What an exit leaves of w and its clients, q being the tasks that go on.
Leaving(w, q) ==
  /\ PresenceTyped /\ w \in Workers /\ q \in Seq(Presence!Tasks) /\ Presence!Gone(w, q)

GoneTyped ==
  /\ life' \in [Workers -> Lives] /\ running' = running
  /\ active' = active /\ view' = view /\ made' = made /\ got' = got /\ dropped' = dropped /\ missed' = missed
  /\ chan' \in [Workers -> Seq(Deliveries)] /\ outbox' \in [Workers -> Seq(Nat)]
  /\ asks' \in [Workers -> Seq(Asks)] /\ client' \in ClientStates
  /\ counted' \in [Workers -> BOOLEAN]
GoneFrom(w) ==
  /\ life'[w] = "gone" /\ chan'[w] = <<>> /\ asks'[w] = <<>> /\ counted'[w] = FALSE
  /\ \A g \in Workers : g # w =>
       /\ life'[g] = life[g] /\ chan'[g] = chan[g] /\ asks'[g] = asks[g]
       /\ counted'[g] = counted[g] /\ outbox'[g] = outbox[g]
  /\ \A c \in Presence!Clients : client'[c] = IF c[1] = w THEN "closed" ELSE client[c]

LEMMA GoneTypes ==
  ASSUME NEW w, NEW q, Leaving(w, q)
  PROVE  GoneTyped
<1>1. <<>> \in Seq(Deliveries) /\ <<>> \in Seq(Nat) /\ <<>> \in Seq(Asks)
  BY EmptySeq
<1>2. client' \in ClientStates
  BY DEF Leaving, Presence!Gone, PresenceTyped, ClientStates
<1>3. QED
  BY <1>1, <1>2 DEF Leaving, Presence!Gone, PresenceTyped, GoneTyped, Lives

LEMMA GoneStates ==
  ASSUME NEW w, NEW q, Leaving(w, q)
  PROVE  GoneFrom(w)
BY DEF Leaving, Presence!Gone, PresenceTyped, GoneFrom

\* The tasks that go on, and the one that takes w out of the set.
LEMMA GoneTasks ==
  ASSUME NEW w, NEW q, Leaving(w, q)
  PROVE  Follows(q, queue')
<1>1. PICK s : s = Presence!Forgotten(q, w)
  OBVIOUS
<1>2. PICK task : task = Presence!Update(w, FALSE, FALSE)
  OBVIOUS
<1>3. q \in Seq(Presence!Tasks) /\ w \in Workers
  BY DEF Leaving
<1>4. task \in Presence!Tasks /\ task.kind = "update"
  BY <1>2, <1>3, UpdateFields
<1>5. Forgets(q, w, s) /\ Adds(s, task, queue')
  BY <1>1, <1>2 DEF Leaving, Presence!Gone, Forgets, Adds
<1>6. Follows(q, s)
  BY <1>3, <1>5, FollowsForgotten
<1>7. s \in Seq(Presence!Tasks)
  BY <1>6 DEF Follows
<1>8. Follows(s, queue')
  BY <1>4, <1>5, <1>7, FollowsAdded
<1>9. QED
  BY <1>6, <1>8, FollowsOn

LEMMA GoneQuiet ==
  ASSUME NEW w, NEW q, Leaving(w, q), Quiet(q)
  PROVE  Quiet(queue')
<1>1. PICK s : s = Presence!Forgotten(q, w)
  OBVIOUS
<1>2. PICK task : task = Presence!Update(w, FALSE, FALSE)
  OBVIOUS
<1>3. q \in Seq(Presence!Tasks) /\ w \in Workers
  BY DEF Leaving
<1>4. task \in Presence!Tasks /\ task.on = FALSE /\ task.ask = FALSE
  BY <1>2, <1>3, UpdateFields
<1>5. Forgets(q, w, s) /\ Adds(s, task, queue')
  BY <1>1, <1>2 DEF Leaving, Presence!Gone, Forgets, Adds
<1>6. s \in Seq(Presence!Tasks) /\ Quiet(s)
  BY <1>3, <1>5, ForgetTasks, QuietForgotten DEF Forgot
<1>7. QED
  BY <1>4, <1>5, <1>6, QuietAdded

LEMMA GoneHosts ==
  ASSUME NEW w, NEW q, Leaving(w, q), NEW begun, HostsHave(q, active, begun), begun = started'
  PROVE  HostsInv'
<1>1. PICK s : s = Presence!Forgotten(q, w)
  OBVIOUS
<1>2. PICK task : task = Presence!Update(w, FALSE, FALSE)
  OBVIOUS
<1>3. q \in Seq(Presence!Tasks) /\ w \in Workers /\ PresenceTyped
  BY DEF Leaving
<1>4. /\ task \in Presence!Tasks /\ task.kind = "update" /\ task.worker = w /\ task.ask = FALSE
  BY <1>2, <1>3, UpdateFields
<1>5. Forgets(q, w, s) /\ Adds(s, task, queue')
  BY <1>1, <1>2 DEF Leaving, Presence!Gone, Forgets, Adds
<1>6. HostsForgot(w, s, active, begun) /\ s \in Seq(Presence!Tasks)
  BY <1>3, <1>5, HostsForget, ForgetTasks DEF Forgot
<1>7. GoneTyped /\ GoneFrom(w)
  BY GoneTypes, GoneStates
<1>8. HostInv(w, life'[w], asks'[w], client', counted'[w], queue', active, begun)
  <2>1. IsUpdate(task, w) /\ Asked(s, w) = {}
    BY <1>4, <1>6 DEF IsUpdate, HostsForgot
  <2>2. OnlyAsked(queue', w, task)
    BY <1>4, <1>5, <1>6, <2>1, AddOwn
  <2>3. LastInv(queue', w) /\ Asked(queue', w) = {}
    <3>1. \A i \in Asked(queue', w) : queue'[i].ask = TRUE /\ queue'[i] = task
      BY <2>2 DEF OnlyAsked, Asked
    <3>2. QED
      BY <1>4, <2>2, <3>1 DEF OnlyAsked
  <2>4. Serves(client', w) = {}
    BY <1>7 DEF GoneFrom, Serves
  <2>5. PICK a : a = asks'[w]
    OBVIOUS
  <2>6. PICK n : n = counted'[w]
    OBVIOUS
  <2>7. a = <<>> /\ n = FALSE
    BY <1>7, <2>5, <2>6 DEF GoneFrom
  <2>8. HostInv(w, "gone", a, client', n, queue', active, begun)
    BY <2>3, <2>4, <2>7, HostGone
  <2>9. QED
    BY <1>7, <2>5, <2>6, <2>8 DEF GoneFrom
<1>9. ASSUME NEW g \in Workers, g # w
      PROVE  HostInv(g, life'[g], asks'[g], client', counted'[g], queue', active, begun)
  <2>1. HostInv(g, life[g], asks[g], client, counted[g], s, active, begun)
    BY <1>6 DEF HostsForgot, HostsHave
  <2>2. ~IsUpdate(task, g)
    BY <1>4, <1>9 DEF IsUpdate
  <2>3. SameFor(s, queue', g, active, begun)
    BY <1>4, <1>5, <1>6, <2>2, AddOther
  <2>4. HostInv(g, life[g], asks[g], client, counted[g], queue', active, begun)
    BY <2>1, <2>3, HostSame
  <2>5. life'[g] = life[g] /\ asks'[g] = asks[g] /\ counted'[g] = counted[g]
    BY <1>7, <1>9 DEF GoneFrom
  <2>6. \A c \in Presence!Clients : c[1] = g => client'[c] = client[c]
    BY <1>7, <1>9 DEF GoneFrom
  <2>7. Spares(g, life[g], life[g], client, client')
    BY <2>6 DEF Spares
  <2>8. asks[g] \in Seq(Asks)
    BY <1>3 DEF PresenceTyped
  <2>9. HostInv(g, life[g], asks[g], client', counted[g], queue', active, begun)
    BY <2>4, <2>7, <2>8, HostKept
  <2>10. QED
    BY <2>5, <2>9
<1>10. QED
  BY <1>7, <1>8, <1>9 DEF HostsInv, GoneTyped

LEMMA GoneKeeps ==
  ASSUME NEW w, NEW q, Leaving(w, q)
  PROVE  Keeps
<1>1. GoneTyped /\ GoneFrom(w)
  BY GoneTypes, GoneStates
<1>2. \A c \in Presence!Clients : c[1] \in Workers
  BY ClientOf
<1>3. \A g \in Workers : life[g] = "gone" \/ outbox'[g] # outbox[g] => life'[g] = "gone"
  BY <1>1 DEF GoneFrom
<1>4. \A c \in Presence!Clients : client'[c] = "closed" \/ (c[1] # w /\ client'[c] = client[c])
  BY <1>1 DEF GoneFrom
<1>5. \A c \in Presence!Clients : c[1] # w => counted'[c[1]] = counted[c[1]]
  BY <1>1, <1>2 DEF GoneFrom
<1>6. \A g \in Workers : (\E c \in Presence!Clients : c[1] = g /\ client'[c] = "connected")
        => \A e : Carries(chan[g], e) => Carries(chan'[g], e)
  <2>1. \A c \in Presence!Clients : client'[c] = "connected" => c[1] # w
    BY <1>4
  <2>2. QED
    BY <1>1, <2>1 DEF GoneFrom
<1>7. QED
  BY <1>1, <1>3, <1>4, <1>5, <1>6 DEF Keeps, GoneTyped

LEMMA ExitStep ==
  ASSUME PresenceInv, NEW w \in Workers, Presence!Exit(w)
  PROVE  PresenceInv'
<1>1. PresenceTyped /\ HostsHave(queue, active, started) /\ SyncsInv
  BY DEF PresenceInv, HostsInv, HostsHave, HeadInv
<1>2. Leaving(w, queue)
  BY <1>1 DEF Leaving, PresenceTyped, Presence!Exit
<1>3. started' = started /\ pending' = pending /\ tasks' = tasks
  BY DEF Presence!Exit
<1>4. GoneTyped /\ GoneFrom(w) /\ Follows(queue, queue') /\ Keeps
  BY <1>2, GoneTypes, GoneStates, GoneTasks, GoneKeeps
<1>5. HostsInv'
  BY <1>1, <1>2, <1>3, GoneHosts
<1>6. PresenceTyped'
  BY <1>1, <1>3, <1>4 DEF PresenceTyped, GoneTyped, Follows, ClientStates
<1>7. SyncsInv'
  <2>1. \A g \in Workers : life'[g] \in {"new", "off"} => life[g] \in {"new", "off"}
    BY <1>4 DEF GoneFrom
  <2>2. QED
    BY <1>1, <1>4, <2>1, SyncsFollow
<1>8. Continues
  <2>1. started = TRUE => queue # <<>>
    BY DEF PresenceInv, HeadInv
  <2>2. \A g \in Workers : g # w \/ (life'[g] = "gone" /\ chan'[g] = <<>> /\ counted'[g] = FALSE)
    BY <1>4 DEF GoneFrom
  <2>3. \A g \in Workers : g # w => life'[g] = life[g] /\ chan'[g] = chan[g] /\ counted'[g] = counted[g]
    BY <1>4 DEF GoneFrom
  <2>4. QED
    BY <1>3, <1>4, <2>1, <2>2, <2>3 DEF Continues, Follows, GoneTyped
<1>9. HeadInv' /\ PendInv' /\ ChanInv' /\ ViewInv'
  BY <1>2, <1>5, <1>7, <1>8, GoneQuiet, TasksContinue DEF PresenceInv
<1>10. MadeInv'
  BY <1>4, MadeKept DEF PresenceInv
<1>11. QED
  BY <1>5, <1>6, <1>9, <1>10 DEF PresenceInv

\* Every worker that lives sees h, and will.
Seen(h) == \A w \in Workers : life[w] # "gone" => h \in view[w] /\ SetsHave(chan[w], h)

\* The first task ends: a worker that it synchronises is not left waiting.
Ends ==
  /\ active' = active /\ started' = FALSE /\ pending' = {} /\ tasks' = tasks + 1 /\ view' = view
  /\ \A w \in Workers :
       /\ life'[w] \in {"off", "new", "syncing"} => life[w] \in {"off", "new", "syncing"} /\ ~Joining(w)
       /\ life'[w] # "gone" => life[w] # "gone"
       /\ life'[w] = "stopping" <=> life[w] = "stopping" /\ life'[w] # "gone"
       /\ chan'[w] = chan[w] \/ (life'[w] = "gone" /\ chan'[w] = <<>>)
  /\ running' = running
  /\ \A h \in Workers : counted'[h] = TRUE => counted[h] = TRUE \/ Seen(h)

LEMMA TasksEnd ==
  ASSUME tasks \in Nat, HeadInv, ChanInv, ViewInv, HostsInv', SyncsInv',
         Quiet(queue) => Quiet(queue'), Ends
  PROVE  HeadInv' /\ PendInv' /\ ChanInv' /\ ViewInv'
<1>1. HeadInv' /\ PendInv'
  <2>1. RunInv'
    BY DEF HeadInv, RunInv, Ends
  <2>2. QED
    BY <2>1 DEF HeadInv, PendInv, Ends
<1>2. ASSUME NEW w \in Workers PROVE Numbered(chan'[w], tasks', started', active')
  <2>1. Numbered(chan[w], tasks, started, active)
    BY DEF ChanInv
  <2>2. CASE chan'[w] = <<>>
    BY <2>2, EmptyChannel
  <2>3. CASE chan'[w] = chan[w]
    <3>1. PICK s : s = chan[w]
      OBVIOUS
    <3>2. \A i \in DOMAIN s : IsSet(s[i]) => s[i].task \in Nat /\ s[i].task <= tasks
      BY <2>1, <3>1 DEF Numbered
    <3>3. \A i \in DOMAIN s : IsSet(s[i]) => s[i].task \in Nat /\ s[i].task <= tasks + 1 /\ s[i].task # tasks + 1
      BY <3>2
    <3>4. QED
      BY <2>3, <3>1, <3>3 DEF Numbered, Ends
  <2>4. QED
    BY <2>2, <2>3 DEF Ends
<1>3. ASSUME NEW w \in Workers PROVE SentInv(w)'
  <2>1. SentInv(w)
    BY DEF ChanInv
  <2>2. life'[w] \in {"off", "new", "syncing"} => view'[w] = Workers /\ NoSets(chan'[w])
    BY <2>1 DEF SentInv, Ends
  <2>3. QED
    BY <2>2 DEF SentInv, Joining, Ends
<1>4. ViewInv'
  <2>1. SUFFICES ASSUME NEW h \in Workers, NEW w \in Workers,
                        counted'[h] = TRUE, life'[h] # "stopping", life'[w] # "gone"
                 PROVE  h \in view'[w] /\ SetsHave(chan'[w], h)
    BY DEF ViewInv
  <2>a. life'[h] # "gone"
    BY <2>1 DEF HostsInv, HostInv, AskInv
  <2>2. h \in view[w] /\ SetsHave(chan[w], h)
    BY <2>1, <2>a DEF ViewInv, Ends, Seen
  <2>3. view' = view /\ chan'[w] = chan[w]
    BY <2>1 DEF Ends
  <2>4. QED
    BY <2>2, <2>3
<1>5. QED
  BY <1>1, <1>2, <1>3, <1>4 DEF ChanInv

\* The first task is run, whether or not it began.
Runnable ==
  /\ PresenceTyped /\ HostsHave(queue, active, started) /\ SyncsInv /\ queue # <<>>
  /\ queue[1].kind = "update" => (queue[1].worker \in active <=> queue[1].on = TRUE)

LEMMA FirstTask ==
  ASSUME PresenceTyped, queue # <<>>
  PROVE  /\ 1 \in DOMAIN queue /\ Head(queue) = queue[1] /\ queue[1] \in Presence!Tasks
         /\ queue[1].kind \in {"update", "sync"} /\ queue[1].worker \in Workers
         /\ queue[1].on \in BOOLEAN /\ queue[1].ask \in BOOLEAN
<1>1. queue \in Seq(Presence!Tasks)
  BY DEF PresenceTyped
<1>2. 1 \in DOMAIN queue
  <2>1. Len(queue) \in Nat /\ DOMAIN queue = 1..Len(queue) /\ Len(queue) # 0
    BY <1>1, EmptySeq, TaskTypes
  <2>2. QED
    BY <2>1
<1>3. QED
  BY <1>1, <1>2, TaskTypes

LEMMA TailFollows ==
  ASSUME NEW s \in Seq(Presence!Tasks), s # <<>>, NEW t, Runs(s, t)
  PROVE  /\ t \in Seq(Presence!Tasks)
         /\ \A i \in DOMAIN t : \E k \in DOMAIN s : t[i] = s[k]
<1>1. /\ t \in Seq(Presence!Tasks) /\ Len(t) \in Nat
      /\ \A i \in 1..Len(t) : t[i] = s[i + 1] /\ i + 1 \in 1..Len(s)
  BY TailTasks, TaskTypes DEF Runs
<1>2. DOMAIN t = 1..Len(t) /\ DOMAIN s = 1..Len(s)
  BY <1>1, TaskTypes
<1>3. QED
  BY <1>1, <1>2

LEMMA TailHosts ==
  ASSUME Runnable, NEW q, Runs(queue, q), NEW later, later = FALSE
  PROVE  HostsHave(q, active, later)
<1>1. /\ queue \in Seq(Presence!Tasks) /\ queue # <<>>
      /\ queue[1].kind = "update" => (queue[1].worker \in active <=> queue[1].on = TRUE)
  BY DEF Runnable, PresenceTyped
<1>2. ASSUME NEW g \in Workers
      PROVE  HostInv(g, life[g], asks[g], client, counted[g], q, active, later)
  <2>1. HostInv(g, life[g], asks[g], client, counted[g], queue, active, started)
    BY DEF Runnable, HostsHave
  <2>2. QED
    BY <1>1, <2>1, HostRuns
<1>3. QED
  BY <1>2 DEF HostsHave

\* What the end of the first task leaves, ok being its outcome.
EndEffect(ok) ==
  /\ asks' \in [Workers -> Seq(Asks)] /\ client' \in ClientStates
  /\ counted' \in [Workers -> BOOLEAN]
  /\ HostsGet(queue', active, started') /\ queue' \in Seq(Presence!Tasks) /\ SyncsInv'
  /\ \A h \in Workers : counted[h] = TRUE => counted'[h] = TRUE
  /\ \A h \in Workers : counted'[h] = TRUE =>
       counted[h] = TRUE \/ (1 \in Asked(queue, h) /\ h \in active /\ ok = TRUE)
  /\ \A c \in Presence!Clients : client[c] # "asking" => client'[c] = client[c]
  /\ Quiet(queue) => Quiet(queue')

LEMMA EndHosts ==
  ASSUME Runnable, NEW ok \in BOOLEAN, Presence!EndTask(ok),
         \A w \in Workers : life'[w] \in {"new", "off"} => life[w] \in {"new", "off"}
  PROVE  EndEffect(ok)
<1>1. /\ PresenceTyped /\ queue # <<>> /\ queue \in Seq(Presence!Tasks)
      /\ queue[1].kind = "update" => (queue[1].worker \in active <=> queue[1].on = TRUE)
      /\ SyncsInv /\ HostsHave(queue, active, started)
  BY DEF Runnable, PresenceTyped
<1>2. Runs(queue, queue') /\ started' = FALSE
  BY DEF Presence!EndTask, Runs
<1>3. /\ queue' \in Seq(Presence!Tasks)
      /\ \A i \in DOMAIN queue' : \E k \in DOMAIN queue : queue'[i] = queue[k]
  BY <1>1, <1>2, TailFollows
<1>4. SyncsInv'
  <2>1. \A k \in DOMAIN queue : queue[k].worker \in Workers
    BY <1>1, TaskTypes
  <2>2. QED
    BY <1>1, <1>3, <2>1 DEF SyncsInv
<1>a. Quiet(queue) => Quiet(queue')
  BY <1>1, <1>2, QuietTail
<1>5. PICK later : later = started'
  OBVIOUS
<1>6. HostsHave(queue', active, later)
  BY <1>2, <1>5, TailHosts
<1>7. /\ 1 \in DOMAIN queue /\ Head(queue) = queue[1] /\ queue[1].ask \in BOOLEAN
      /\ queue[1].kind \in {"update", "sync"} /\ queue[1].worker \in Workers
  BY <1>1, FirstTask
<1>8. CASE queue[1].ask = FALSE
  <2>1. asks' = asks /\ client' = client /\ counted' = counted
    BY <1>7, <1>8 DEF Presence!EndTask
  <2>2. HostsGet(queue', active, started')
    BY <1>5, <1>6, <2>1 DEF HostsHave, HostsGet
  <2>3. QED
    BY <1>1, <1>3, <1>4, <1>a, <2>1, <2>2 DEF EndEffect, PresenceTyped, ClientStates
<1>9. CASE queue[1].ask = TRUE
  <2>1. PICK w \in Workers : w = queue[1].worker
    BY <1>7
  <2>2. queue[1].kind = "update"
    BY <1>1, <1>7, <1>9 DEF SyncsInv
  <2>3. 1 \in Updates(queue, w) /\ 1 \in Asked(queue, w) /\ IsUpdate(queue[1], w)
    BY <1>7, <1>9, <2>1, <2>2 DEF Updates, Asked, IsUpdate
  <2>4. LastInv(queue, w) /\ asks[w] # <<>> /\ asks[w][1].sent = TRUE
        /\ (asks[w][1].on = TRUE <=> queue[1].on = TRUE)
    BY <1>1, <2>3 DEF HostsHave, HostInv, CoordInv
  <2>5. NoneLeft(queue', w)
    BY <1>1, <1>2, <2>3, <2>4, LastRuns
  <2>6. Updates(queue', w) = {} /\ Asked(queue', w) = {}
    BY <2>5 DEF NoneLeft
  <2>7. Presence!Answered(w, ok)
    BY <1>7, <1>9, <2>1 DEF Presence!EndTask
  <2>8. asks[w][1].on = TRUE => w \in active
    BY <1>1, <2>1, <2>2, <2>4
  <2>9. AnswerEffect(w, ok, queue', active, later)
    BY <1>1, <1>6, <2>4, <2>6, <2>7, <2>8, AnsweredHosts
  <2>10. /\ OneHost(w) /\ HostsGet(queue', active, later) /\ counted[w] # TRUE
         /\ counted'[w] = TRUE => asks[w][1].on = TRUE /\ ok = TRUE
         /\ \A d \in Presence!Clients : client[d] # "asking" => client'[d] = client[d]
    BY <2>9 DEF AnswerEffect
  <2>11. \A h \in Workers : h # w => counted'[h] = counted[h]
    BY <2>10 DEF OneHost
  <2>12. QED
    BY <1>3, <1>4, <1>a, <1>5, <2>3, <2>8, <2>10, <2>11 DEF EndEffect, OneHost
<1>10. QED
  BY <1>7, <1>8, <1>9

\* The rest of such a step.
LEMMA EndStep ==
  ASSUME PresenceInv, NEW ok \in BOOLEAN, EndEffect(ok), Ends,
         life' \in [Workers -> Lives], running' = running,
         \A w \in Workers : life'[w] = life[w] \/ (life[w] = "syncing" /\ life'[w] = "ready"),
         chan' = chan, outbox' = outbox, made' = made, got' = got, dropped' = dropped,
         missed' = missed
  PROVE  PresenceInv'
<1>1. PresenceTyped
  BY DEF PresenceInv
<1>2. PresenceTyped'
  <2>1. active' = active /\ view' = view /\ started' = FALSE /\ tasks' \in Nat
    BY <1>1 DEF Ends, PresenceTyped
  <2>2. QED
    BY <1>1, <2>1 DEF PresenceTyped, EndEffect, ClientStates
<1>3. HostsInv'
  <2>1. ASSUME NEW g \in Workers
        PROVE  HostInv(g, life'[g], asks'[g], client', counted'[g], queue', active, started')
    <3>1. HostInv(g, life[g], asks'[g], client', counted'[g], queue', active, started')
      BY DEF EndEffect, HostsGet
    <3>2. Spares(g, life[g], life'[g], client', client')
      BY DEF Spares
    <3>3. asks'[g] \in Seq(Asks)
      BY DEF EndEffect
    <3>4. PICK a \in Seq(Asks) : a = asks'[g]
      BY <3>3
    <3>5. HostInv(g, life[g], a, client', counted'[g], queue', active, started')
      BY <3>1, <3>4
    <3>6. HostInv(g, life'[g], a, client', counted'[g], queue', active, started')
      BY <3>2, <3>5, HostKept
    <3>7. QED
      BY <3>4, <3>6
  <2>2. QED
    BY <2>1 DEF HostsInv, Ends
<1>4. HeadInv' /\ PendInv' /\ ChanInv' /\ ViewInv'
  BY <1>1, <1>3, TasksEnd DEF PresenceInv, PresenceTyped, EndEffect
<1>5. Keeps
  <2>1. \A c \in Presence!Clients : c[1] \in Workers
    BY ClientOf
  <2>2. \A w \in Workers : life[w] = "gone" \/ outbox'[w] # outbox[w] => life'[w] = "gone"
    OBVIOUS
  <2>3. \A c \in Presence!Clients : client[c] # "asking" => client'[c] = client[c]
    BY DEF EndEffect
  <2>4. \A c \in Presence!Clients : counted[c[1]] = TRUE => counted'[c[1]] = TRUE
    BY <2>1 DEF EndEffect
  <2>5. QED
    BY <2>2, <2>3, <2>4 DEF Keeps
<1>6. MadeInv'
  BY <1>1, <1>5, MadeKept DEF PresenceInv
<1>7. QED
  BY <1>2, <1>3, <1>4, <1>6 DEF PresenceInv

\* The first task begins: it sends the set to the workers of S.
Begins(S, set) ==
  /\ started = FALSE /\ queue # <<>> /\ S \subseteq Workers /\ set \subseteq Workers
  /\ \A h \in Workers :
       h \in set <=> IF IsUpdate(queue[1], h) THEN queue[1].on = TRUE ELSE h \in active
  /\ queue[1].kind = "update" => S = Presence!Ready
  /\ queue[1].kind = "sync" => S = {queue[1].worker} /\ set = active
  /\ Presence!Broadcast(S, set)
  /\ life' = life /\ running' = running /\ view' = view
  /\ outbox' = outbox /\ made' = made /\ got' = got /\ dropped' = dropped /\ missed' = missed

LEMMA BroadcastChannels ==
  ASSUME PresenceTyped, NEW S, NEW set, Begins(S, set)
  PROVE  \E m \in Deliveries :
           /\ IsSet(m) /\ m.set = set /\ m.task = tasks
           /\ chan' \in [Workers -> Seq(Deliveries)]
           /\ \A w \in Workers : IF w \in S THEN Posted(chan[w], m, chan'[w]) ELSE chan'[w] = chan[w]
<1>1. PICK m : m = [kind |-> "presence", set |-> set, task |-> tasks]
  OBVIOUS
<1>2. m \in Deliveries /\ IsSet(m) /\ m.set = set /\ m.task = tasks
  BY <1>1 DEF Deliveries, IsSet, Begins, PresenceTyped
<1>3. chan' = [w \in Workers |-> IF w \in S THEN Append(chan[w], m) ELSE chan[w]]
  BY <1>1 DEF Begins, Presence!Broadcast, Presence!Send
<1>4. ASSUME NEW w \in Workers, w \in S PROVE Posted(chan[w], m, chan'[w])
  <2>1. chan[w] \in Seq(Deliveries) /\ Posts(chan[w], m, chan'[w])
    BY <1>3, <1>4 DEF PresenceTyped, Posts
  <2>2. QED
    BY <1>2, <2>1, PostDelivery
<1>5. ASSUME NEW w \in Workers, w \notin S PROVE chan'[w] = chan[w]
  BY <1>3, <1>5
<1>6. chan' \in [Workers -> Seq(Deliveries)]
  <2>1. \A w \in Workers : chan'[w] \in Seq(Deliveries)
    BY <1>4, <1>5 DEF Posted, PresenceTyped
  <2>2. QED
    BY <1>3, <2>1
<1>7. QED
  BY <1>2, <1>4, <1>5, <1>6

LEMMA BroadcastStep ==
  ASSUME PresenceInv, NEW S, NEW set, Begins(S, set)
  PROVE  PresenceInv'
<1>1. /\ active' = set /\ started' = TRUE /\ queue' = queue /\ tasks' = tasks
      /\ asks' = asks /\ client' = client /\ counted' = counted
      /\ pending' = {<<w, tasks>> : w \in S}
      /\ life' = life /\ running' = running /\ view' = view
      /\ outbox' = outbox /\ made' = made /\ got' = got /\ dropped' = dropped /\ missed' = missed
  BY DEF Begins, Presence!Broadcast
<1>2. PresenceTyped /\ HostsHave(queue, active, started) /\ SyncsInv /\ ChanInv /\ ViewInv
  BY DEF PresenceInv, HostsInv, HostsHave, HeadInv
<1>3. /\ started = FALSE /\ queue # <<>> /\ S \subseteq Workers /\ set \subseteq Workers
      /\ \A h \in Workers :
           h \in set <=> IF IsUpdate(queue[1], h) THEN queue[1].on = TRUE ELSE h \in active
      /\ queue[1].kind = "update" => S = Presence!Ready
      /\ queue[1].kind = "sync" => S = {queue[1].worker} /\ set = active
  BY DEF Begins
<1>4. PICK m \in Deliveries :
        /\ IsSet(m) /\ m.set = set /\ m.task = tasks
        /\ chan' \in [Workers -> Seq(Deliveries)]
        /\ \A w \in Workers : IF w \in S THEN Posted(chan[w], m, chan'[w]) ELSE chan'[w] = chan[w]
  BY <1>2, BroadcastChannels
<1>5. queue[1].kind \in {"update", "sync"} /\ queue[1].worker \in Workers /\ tasks \in Nat
  BY <1>2, <1>3, FirstTask DEF PresenceTyped
<1>6. PICK later : later = started'
  OBVIOUS
<1>7. HostsInv'
  <2>1. ASSUME NEW g \in Workers
        PROVE  HostInv(g, life[g], asks[g], client, counted[g], queue, set, later)
    <3>1. HostInv(g, life[g], asks[g], client, counted[g], queue, active, started)
      BY <1>2 DEF HostsHave
    <3>2. queue \in Seq(Presence!Tasks)
      BY <1>2 DEF PresenceTyped
    <3>3. g \in set <=> IF IsUpdate(queue[1], g) THEN queue[1].on = TRUE ELSE g \in active
      BY <1>3
    <3>4. QED
      BY <1>1, <1>3, <1>6, <3>1, <3>2, <3>3, HostBegins
  <2>2. QED
    BY <1>1, <1>6, <2>1 DEF HostsInv
<1>8. PresenceTyped'
  BY <1>1, <1>2, <1>3, <1>4 DEF PresenceTyped
<1>9. HeadInv'
  <2>1. queue[1].kind = "update" => (queue[1].worker \in set <=> queue[1].on = TRUE)
    BY <1>3, <1>5 DEF IsUpdate
  <2>2. RunInv'
    <3>1. RunInv /\ queue[1].on \in BOOLEAN /\ 1 \in DOMAIN queue
      BY <1>2, <1>3, FirstTask DEF PresenceInv, HeadInv
    <3>2. running = FALSE => set = {}
      <4>1. SUFFICES ASSUME running = FALSE, NEW h \in set PROVE FALSE
        OBVIOUS
      <4>2. IsUpdate(queue[1], h) => queue[1].on = FALSE
        BY <3>1, <4>1 DEF RunInv, Quiet, IsUpdate
      <4>3. h \notin active
        BY <3>1, <4>1 DEF RunInv
      <4>4. QED
        BY <1>3, <4>1, <4>2, <4>3
    <3>3. QED
      BY <1>1, <3>1, <3>2 DEF RunInv
  <2>3. QED
    BY <1>1, <1>2, <1>3, <2>1, <2>2 DEF HeadInv, SyncsInv
<1>10. PendInv'
  BY <1>1, <1>3 DEF PendInv
<1>11. ASSUME NEW w \in Workers, w \in S PROVE SetPosted(chan[w], chan'[w], tasks, later, set)
  <2>1. Posted(chan[w], m, chan'[w]) /\ Numbered(chan[w], tasks, started, active)
    BY <1>2, <1>4, <1>11 DEF ChanInv
  <2>2. QED
    BY <1>1, <1>3, <1>4, <1>5, <1>6, <2>1, PostSet
<1>12. ASSUME NEW w \in Workers PROVE Numbered(chan'[w], tasks, later, set)
  <2>1. CASE w \in S
    BY <1>11, <2>1 DEF SetPosted
  <2>2. CASE w \notin S
    <3>1. Numbered(chan[w], tasks, started, active)
      BY <1>2 DEF ChanInv
    <3>2. Numbered(chan[w], tasks, later, set)
      BY <1>3, <3>1, NumberedBefore
    <3>3. QED
      BY <1>4, <2>2, <3>2
  <2>3. QED
    BY <2>1, <2>2
<1>13. ASSUME NEW w \in Workers PROVE SentInv(w)'
  <2>1. life[w] \in {"off", "new", "syncing"} => view[w] = Workers /\ NoSets(chan[w])
    BY <1>2, <1>3 DEF ChanInv, SentInv, Joining
  <2>2. CASE queue[1].kind = "update"
    <3>1. S = Presence!Ready /\ ~Joining(w)'
      BY <1>1, <1>3, <2>2 DEF Joining
    <3>2. life[w] # "ready" => chan'[w] = chan[w]
      BY <1>4, <3>1 DEF Presence!Ready
    <3>3. life[w] = "ready" => <<w, tasks>> \in pending'
      BY <1>1, <3>1 DEF Presence!Ready
    <3>4. QED
      BY <1>1, <2>1, <3>1, <3>2, <3>3 DEF SentInv
  <2>3. CASE queue[1].kind = "sync"
    <3>1. S = {queue[1].worker} /\ set = active
      BY <1>3, <2>3
    <3>2. CASE w = queue[1].worker
      <4>1. Joining(w)'
        BY <1>1, <2>3, <3>2 DEF Joining
      <4>2. NoSets(chan[w]) => SetsAre(chan'[w], set)
        BY <1>11, <3>1, <3>2 DEF SetPosted
      <4>3. QED
        BY <1>1, <2>1, <2>3, <3>1, <4>1, <4>2 DEF SentInv
    <3>3. CASE w # queue[1].worker
      <4>1. ~Joining(w)' /\ chan'[w] = chan[w]
        BY <1>1, <1>4, <3>1, <3>3 DEF Joining
      <4>2. QED
        BY <1>1, <2>1, <2>3, <4>1 DEF SentInv
    <3>4. QED
      BY <3>2, <3>3
  <2>4. QED
    BY <1>5, <2>2, <2>3
<1>14. ChanInv'
  BY <1>1, <1>6, <1>12, <1>13 DEF ChanInv
<1>15. ViewInv'
  <2>1. SUFFICES ASSUME NEW h \in Workers, NEW w \in Workers,
                        counted[h] = TRUE, life[h] # "stopping", life[w] # "gone"
                 PROVE  h \in view[w] /\ SetsHave(chan'[w], h)
    BY <1>1 DEF ViewInv
  <2>2. h \in view[w] /\ SetsHave(chan[w], h)
    BY <1>2, <2>1 DEF ViewInv
  <2>3. h \in set
    <3>1. HostInv(h, life[h], asks[h], client, counted[h], queue, set, later)
      BY <1>1, <1>6, <1>7 DEF HostsInv
    <3>2. QED
      BY <2>1, <3>1 DEF HostInv, KnownInv
  <2>4. SetsHave(chan'[w], h)
    BY <1>4, <1>11, <2>2, <2>3 DEF SetPosted
  <2>5. QED
    BY <2>2, <2>4
<1>16. MadeInv'
  <2>1. ASSUME NEW w \in Workers, NEW e, Carries(chan[w], e) PROVE Carries(chan'[w], e)
    <3>1. CASE w \in S
      <4>1. Posted(chan[w], m, chan'[w])
        BY <1>4, <3>1
      <4>2. QED
        BY <2>1, <4>1, PostKeeps
    <3>2. CASE w \notin S
      BY <1>4, <2>1, <3>2
    <3>3. QED
      BY <3>1, <3>2
  <2>2. Keeps
    BY <1>1, <2>1 DEF Keeps
  <2>3. QED
    BY <2>2, MadeKept DEF PresenceInv
<1>17. QED
  BY <1>7, <1>8, <1>9, <1>10, <1>14, <1>15, <1>16 DEF PresenceInv

LEMMA StartStep ==
  ASSUME PresenceInv, Presence!StartTask
  PROVE  PresenceInv'
<1>1. /\ life' = life /\ running' = running /\ view' = view
      /\ outbox' = outbox /\ made' = made /\ got' = got /\ dropped' = dropped /\ missed' = missed
      /\ queue # <<>> /\ started = FALSE
  BY DEF PresenceInv, PresenceTyped, Presence!StartTask, Presence!memberVars, Presence!eventVars
<1>2. PresenceTyped /\ HostsHave(queue, active, started) /\ SyncsInv
  BY DEF PresenceInv, HostsInv, HostsHave, HeadInv
<1>3. /\ 1 \in DOMAIN queue /\ Head(queue) = queue[1] /\ queue[1].kind \in {"update", "sync"}
      /\ queue[1].worker \in Workers /\ queue[1].on \in BOOLEAN
  BY <1>1, <1>2, FirstTask
<1>4. CASE /\ queue[1].kind = "update" /\ (queue[1].worker \in active) = queue[1].on
           /\ Presence!EndTask(TRUE) /\ UNCHANGED <<active, chan>>
  <2>1. Runnable
    BY <1>1, <1>2, <1>3, <1>4 DEF Runnable
  <2>2. PICK ok \in BOOLEAN : ok = TRUE
    OBVIOUS
  <2>3. Presence!EndTask(ok)
    BY <1>4, <2>2
  <2>4. EndEffect(ok)
    BY <1>1, <2>1, <2>3, EndHosts
  <2>5. \A h \in Workers : counted'[h] = TRUE => counted[h] = TRUE \/ Seen(h)
    <3>1. SUFFICES ASSUME NEW h \in Workers, counted'[h] = TRUE, counted[h] # TRUE
                   PROVE  FALSE
      OBVIOUS
    <3>2. 1 \in Asked(queue, h) /\ h \in active
      BY <2>4, <3>1 DEF EndEffect
    <3>3. life[h] # "gone"
      <4>1. HostInv(h, life[h], asks'[h], client', counted'[h], queue', active, started')
        BY <2>4 DEF EndEffect, HostsGet
      <4>2. QED
        BY <3>1, <4>1 DEF HostInv, AskInv
    <3>4. PriorInv(queue, h, active, started)
      BY <1>2, <3>1, <3>3 DEF HostsHave, HostInv, TurnInv
    <3>5. queue[1].on = TRUE
      BY <1>3, <1>4, <3>2 DEF Asked, Updates, IsUpdate
    <3>6. ~EndsOn(queue, 1 - 1, h, active)
      BY <1>1, <3>2, <3>4, <3>5 DEF PriorInv
    <3>7. EndsOn(queue, 1 - 1, h, active)
      BY <3>2 DEF EndsOn
    <3>8. QED
      BY <3>6, <3>7
  <2>6. Ends
    <3>1. \A w \in Workers : ~Joining(w)
      BY <1>1 DEF Joining
    <3>2. active' = active /\ started' = FALSE /\ pending' = {} /\ tasks' = tasks + 1 /\ chan' = chan
      BY <1>4 DEF Presence!EndTask
    <3>3. QED
      BY <1>1, <2>5, <3>1, <3>2 DEF Ends
  <2>7. QED
    <3>1. chan' = chan /\ life' \in [Workers -> Lives]
      BY <1>1, <1>2, <1>4 DEF PresenceTyped
    <3>2. QED
      BY <1>1, <2>4, <2>6, <3>1, EndStep
<1>5. CASE /\ queue[1].kind = "update" /\ (queue[1].worker \in active) # queue[1].on
           /\ Presence!Broadcast(Presence!Ready, IF queue[1].on THEN active \union {queue[1].worker}
                                                 ELSE active \ {queue[1].worker})
  <2>1. PICK set : set = IF queue[1].on THEN active \union {queue[1].worker}
                         ELSE active \ {queue[1].worker}
    OBVIOUS
  <2>2. set \subseteq Workers
    BY <1>2, <1>3, <2>1 DEF PresenceTyped
  <2>3. \A h \in Workers :
          h \in set <=> IF IsUpdate(queue[1], h) THEN queue[1].on = TRUE ELSE h \in active
    BY <1>3, <1>5, <2>1 DEF IsUpdate
  <2>4. PICK S : S = Presence!Ready
    OBVIOUS
  <2>5. S \subseteq Workers /\ Presence!Broadcast(S, set)
    BY <1>5, <2>1, <2>4 DEF Presence!Ready
  <2>6. Begins(S, set)
    BY <1>1, <1>5, <2>2, <2>3, <2>4, <2>5 DEF Begins
  <2>7. QED
    BY <2>6, BroadcastStep
<1>6. CASE queue[1].kind = "sync" /\ Presence!Broadcast({queue[1].worker}, active)
  <2>1. PICK S : S = {queue[1].worker}
    OBVIOUS
  <2>2. PICK set : set = active
    OBVIOUS
  <2>3. Presence!Broadcast(S, set) /\ S \subseteq Workers /\ set \subseteq Workers
    BY <1>2, <1>3, <1>6, <2>1, <2>2 DEF PresenceTyped
  <2>4. Begins(S, set)
    BY <1>1, <1>6, <2>1, <2>2, <2>3 DEF Begins, IsUpdate
  <2>5. QED
    BY <2>4, BroadcastStep
<1>7. QED
  BY <1>3, <1>4, <1>5, <1>6 DEF Presence!StartTask

LEMMA RunnableTask ==
  ASSUME PresenceInv, started = TRUE
  PROVE  Runnable
BY DEF PresenceInv, HeadInv, HostsInv, HostsHave, Runnable

\* The set has reached every worker: each of them sees the one who asked.
LEMMA DoneStep ==
  ASSUME PresenceInv, Presence!TaskDone
  PROVE  PresenceInv'
<1>1. /\ running' = running /\ view' = view /\ active' = active /\ chan' = chan
      /\ outbox' = outbox /\ made' = made /\ got' = got /\ dropped' = dropped /\ missed' = missed
      /\ started = TRUE /\ pending = {}
  BY DEF PresenceInv, PresenceTyped, Presence!TaskDone, Presence!eventVars
<1>2. PresenceTyped /\ Runnable /\ queue # <<>> /\ SyncsInv
  BY <1>1, RunnableTask DEF Runnable
<1>3. /\ 1 \in DOMAIN queue /\ Head(queue) = queue[1] /\ queue[1].kind \in {"update", "sync"}
      /\ queue[1].worker \in Workers
  BY <1>2, FirstTask
<1>4. life' = IF queue[1].kind = "sync" /\ life[queue[1].worker] = "syncing"
              THEN [life EXCEPT ![queue[1].worker] = "ready"] ELSE life
  BY <1>3 DEF Presence!TaskDone, Presence!Joined
<1>5. /\ life' \in [Workers -> Lives]
      /\ \A w \in Workers : life'[w] = life[w] \/ (life[w] = "syncing" /\ life'[w] = "ready")
      /\ \A w \in Workers : life'[w] = "syncing" =>
           life[w] = "syncing" /\ ~(queue[1].kind = "sync" /\ queue[1].worker = w)
  <2>1. life \in [Workers -> Lives]
    BY <1>2 DEF PresenceTyped
  <2>2. CASE queue[1].kind = "sync" /\ life[queue[1].worker] = "syncing"
    <3>1. life' = [life EXCEPT ![queue[1].worker] = "ready"]
      BY <1>4, <2>2
    <3>2. QED
      BY <1>3, <2>1, <2>2, <3>1 DEF Lives
  <2>3. CASE ~(queue[1].kind = "sync" /\ life[queue[1].worker] = "syncing")
    <3>1. life' = life
      BY <1>4, <2>3
    <3>2. QED
      BY <2>1, <2>3, <3>1
  <2>4. QED
    BY <2>2, <2>3
<1>6. PICK ok \in BOOLEAN : ok = TRUE
  OBVIOUS
<1>7. Presence!EndTask(ok)
  BY <1>6 DEF Presence!TaskDone
<1>8. EndEffect(ok)
  BY <1>1, <1>2, <1>5, <1>7, EndHosts
<1>9. ASSUME NEW h \in Workers, counted'[h] = TRUE, counted[h] # TRUE PROVE Seen(h)
  <2>1. 1 \in Asked(queue, h) /\ h \in active
    BY <1>8, <1>9 DEF EndEffect
  <2>2. queue[1].kind = "update"
    BY <2>1 DEF Asked, Updates, IsUpdate
  <2>a. life \in [Workers -> Lives] /\ \A w \in Workers : life[w] # "stopping"
    <3>1. queue[1].ask = TRUE /\ running \in BOOLEAN /\ life \in [Workers -> Lives]
      BY <1>2, <2>1 DEF Asked, PresenceTyped
    <3>2. QED
      BY <1>3, <2>2, <3>1 DEF PresenceInv, HeadInv, RunInv, Quiet
  <2>3. ASSUME NEW w \in Workers, life[w] # "gone" PROVE h \in view[w] /\ SetsHave(chan[w], h)
    <3>1. SentInv(w) /\ ~Joining(w)
      BY <2>2 DEF PresenceInv, ChanInv, Joining
    <3>2. CASE life[w] = "ready"
      <4>1. view[w] = active /\ NoSets(chan[w])
        BY <1>1, <2>2, <3>1, <3>2 DEF SentInv
      <4>2. QED
        BY <2>1, <4>1 DEF NoSets, SetsHave
    <3>3. CASE life[w] \in {"off", "new", "syncing"}
      <4>1. view[w] = Workers /\ NoSets(chan[w])
        BY <3>1, <3>3 DEF SentInv
      <4>2. QED
        BY <1>9, <4>1 DEF NoSets, SetsHave
    <3>4. QED
      BY <2>a, <2>3, <3>2, <3>3 DEF Lives
  <2>4. QED
    BY <2>3 DEF Seen
<1>10. Ends
  <2>1. ASSUME NEW w \in Workers, life'[w] \in {"off", "new", "syncing"}
        PROVE  life[w] \in {"off", "new", "syncing"} /\ ~Joining(w)
    <3>1. CASE life'[w] = "syncing"
      BY <1>5, <3>1 DEF Joining
    <3>2. CASE life'[w] \in {"new", "off"}
      <4>1. life[w] \in {"new", "off"}
        BY <1>5, <3>2
      <4>2. ~(queue[1].kind = "sync" /\ queue[1].worker = w)
        BY <1>2, <1>3, <4>1 DEF SyncsInv
      <4>3. QED
        BY <4>1, <4>2 DEF Joining
    <3>3. QED
      BY <2>1, <3>1, <3>2
  <2>2. started' = FALSE /\ pending' = {} /\ tasks' = tasks + 1
    BY <1>7 DEF Presence!EndTask
  <2>3. QED
    BY <1>1, <1>5, <1>9, <2>1, <2>2 DEF Ends
<1>11. QED
  BY <1>1, <1>5, <1>8, <1>10, EndStep

\* A task fails: it counts nobody.
LEMMA FailStep ==
  ASSUME PresenceInv, started = TRUE, Presence!EndTask(FALSE),
         life' = life, running' = running, view' = view, active' = active, chan' = chan,
         outbox' = outbox, made' = made, got' = got, dropped' = dropped, missed' = missed,
         queue[1].kind = "sync" => life[queue[1].worker] = "gone"
  PROVE  PresenceInv'
<1>1. PresenceTyped /\ Runnable
  BY RunnableTask DEF Runnable
<1>2. PICK ok \in BOOLEAN : ok = FALSE
  OBVIOUS
<1>3. Presence!EndTask(ok)
  BY <1>2
<1>4. EndEffect(ok)
  BY <1>1, <1>3, EndHosts
<1>5. Ends
  <2>1. \A h \in Workers : counted'[h] = TRUE => counted[h] = TRUE
    BY <1>2, <1>4 DEF EndEffect
  <2>2. \A w \in Workers : life[w] \in {"off", "new", "syncing"} => ~Joining(w)
    BY DEF Joining
  <2>3. started' = FALSE /\ pending' = {} /\ tasks' = tasks + 1
    BY <1>3 DEF Presence!EndTask
  <2>4. QED
    BY <2>1, <2>2, <2>3 DEF Ends
<1>6. life' \in [Workers -> Lives]
  BY <1>1 DEF PresenceTyped
<1>7. QED
  BY <1>4, <1>5, <1>6, EndStep

LEMMA FailsStep ==
  ASSUME PresenceInv, Presence!TaskFails
  PROVE  PresenceInv'
<1>1. /\ life' = life /\ running' = running /\ view' = view /\ active' = active /\ chan' = chan
      /\ outbox' = outbox /\ made' = made /\ got' = got /\ dropped' = dropped /\ missed' = missed
      /\ started = TRUE /\ Presence!EndTask(FALSE)
  BY DEF PresenceInv, PresenceTyped, Presence!TaskFails, Presence!eventVars, Presence!memberVars
<1>2. PICK d \in pending : life[d[1]] = "gone"
  BY DEF Presence!TaskFails
<1>3. queue[1].kind = "sync" => life[queue[1].worker] = "gone"
  <2>1. queue[1].kind = "sync" => d = <<queue[1].worker, tasks>>
    BY <1>1, <1>2 DEF PresenceInv, PendInv
  <2>2. QED
    BY <1>2, <2>1
<1>4. QED
  BY <1>1, <1>3, FailStep

LEMMA TimeoutStep ==
  ASSUME PresenceInv, Presence!DeliveryTimesOut
  PROVE  PresenceInv'
<1>1. started = TRUE
  BY DEF PresenceInv, PresenceTyped, Presence!DeliveryTimesOut
<1>2. PresenceTyped /\ Runnable /\ queue # <<>> /\ SyncsInv
  BY <1>1, RunnableTask DEF Runnable
<1>3. /\ 1 \in DOMAIN queue /\ Head(queue) = queue[1] /\ queue[1].kind \in {"update", "sync"}
      /\ queue[1].worker \in Workers /\ queue \in Seq(Presence!Tasks)
  BY <1>2, FirstTask DEF PresenceTyped
<1>4. CASE /\ queue[1].kind = "update" /\ Presence!EndTask(FALSE)
           /\ UNCHANGED <<life, running, unknown, active, chan, view, Presence!eventVars>>
  <2>1. /\ life' = life /\ running' = running /\ view' = view /\ active' = active /\ chan' = chan
        /\ outbox' = outbox /\ made' = made /\ got' = got /\ dropped' = dropped /\ missed' = missed
    BY <1>4 DEF Presence!eventVars
  <2>2. QED
    BY <1>1, <1>4, <2>1, FailStep
<1>5. CASE /\ queue[1].kind = "sync" /\ Presence!Gone(queue[1].worker, Tail(queue))
           /\ started' = FALSE /\ pending' = {} /\ tasks' = tasks + 1
  <2>1. PICK w \in Workers : w = queue[1].worker
    BY <1>3
  <2>2. PICK q : q = Tail(queue)
    OBVIOUS
  <2>3. Runs(queue, q)
    BY <2>2 DEF Runs
  <2>4. q \in Seq(Presence!Tasks) /\ \A i \in DOMAIN q : \E k \in DOMAIN queue : q[i] = queue[k]
    BY <1>2, <1>3, <2>3, TailFollows
  <2>5. Leaving(w, q)
    BY <1>2, <1>5, <2>1, <2>2, <2>4 DEF Leaving
  <2>6. GoneTyped /\ GoneFrom(w) /\ Follows(q, queue') /\ Keeps
    BY <2>5, GoneTypes, GoneStates, GoneTasks, GoneKeeps
  <2>7. PICK later : later = started'
    OBVIOUS
  <2>8. HostsHave(q, active, later)
    BY <1>2, <1>5, <2>3, <2>7, TailHosts
  <2>9. HostsInv'
    BY <2>5, <2>7, <2>8, GoneHosts
  <2>10. PresenceTyped'
    <3>0. started' = FALSE /\ tasks' = tasks + 1
      BY <1>5
    <3>a. started' \in BOOLEAN
      BY <3>0
    <3>b. tasks \in Nat
      BY <1>2 DEF PresenceTyped
    <3>c. tasks' \in Nat
      BY <3>0, <3>b
    <3>2. QED
      BY <1>2, <2>6, <3>a, <3>c DEF PresenceTyped, GoneTyped, Follows, ClientStates
  <2>11. SyncsInv'
    <3>1. \A i \in DOMAIN q : q[i].kind = "sync" =>
            q[i].ask = FALSE /\ life[q[i].worker] \notin {"new", "off"} /\ q[i].worker \in Workers
      <4>1. \A k \in DOMAIN queue : queue[k].worker \in Workers
        BY <1>3, TaskTypes
      <4>2. QED
        BY <1>2, <2>4, <4>1 DEF SyncsInv
    <3>2. \A g \in Workers : life'[g] \in {"new", "off"} => life[g] \in {"new", "off"}
      BY <2>6 DEF GoneFrom
    <3>3. QED
      BY <2>6, <3>1, <3>2 DEF SyncsInv, Follows
  <2>12. Ends
    <3>1. life'[w] = "gone" /\ chan'[w] = <<>> /\ counted'[w] = FALSE
      BY <2>6 DEF GoneFrom
    <3>2. \A g \in Workers : g # w =>
            life'[g] = life[g] /\ chan'[g] = chan[g] /\ counted'[g] = counted[g] /\ ~Joining(g)
      BY <2>1, <2>6 DEF GoneFrom, Joining
    <3>3. active' = active /\ view' = view /\ running' = running
      BY <2>6 DEF GoneTyped
    <3>4. QED
      BY <1>5, <3>1, <3>2, <3>3 DEF Ends
  <2>13. HeadInv' /\ PendInv' /\ ChanInv' /\ ViewInv'
    <3>1. Quiet(queue) => Quiet(queue')
      BY <1>2, <1>3, <2>3, <2>5, QuietTail, GoneQuiet
    <3>2. QED
      BY <1>2, <2>9, <2>11, <2>12, <3>1, TasksEnd DEF PresenceInv, PresenceTyped
  <2>14. MadeInv'
    BY <2>6, MadeKept DEF PresenceInv
  <2>15. QED
    BY <2>9, <2>10, <2>13, <2>14 DEF PresenceInv
<1>6. QED
  BY <1>3, <1>4, <1>5 DEF Presence!DeliveryTimesOut

\* The coordinator is replaced, and the workers are told to stop: then nobody is
\* known to have clients, and no set is on its way from the new coordinator.
LEMMA RecycleStep ==
  ASSUME PresenceInv, Presence!Recycle
  PROVE  PresenceInv'
<1>1. /\ running' = FALSE /\ active' = {} /\ queue' = <<>> /\ started' = FALSE
      /\ pending' = {} /\ tasks' = tasks + 1 /\ chan' = chan /\ view' = view
      /\ asks' = asks /\ client' = client /\ counted' = counted
      /\ outbox' = outbox /\ made' = made /\ got' = got /\ dropped' = dropped /\ missed' = missed
      /\ life' = [w \in Workers |-> IF Presence!Alive(w) THEN "stopping" ELSE life[w]]
  BY DEF Presence!Recycle, Presence!clientVars, Presence!eventVars
<1>2. PresenceTyped /\ SyncsInv
  BY DEF PresenceInv, HeadInv
<1>3. ASSUME NEW g \in Workers
      PROVE  \/ life[g] \in {"off", "gone"} /\ life'[g] = life[g]
             \/ life[g] \notin {"off", "gone"} /\ life'[g] = "stopping"
  BY <1>1 DEF Presence!Alive
<1>4. DOMAIN queue' = {} /\ Len(queue') = 0
  BY <1>1, EmptySeq
<1>5. HostsInv'
  <2>1. ASSUME NEW g \in Workers
        PROVE  HostInv(g, life'[g], asks[g], client, counted[g], queue', active', started')
    <3>1. HostInv(g, life[g], asks[g], client, counted[g], queue, active, started)
      BY DEF PresenceInv, HostsInv
    <3>2. AskInv(g, life'[g], asks[g], client, counted[g])
      BY <1>3, <3>1 DEF HostInv, AskInv
    <3>3. Updates(queue', g) = {} /\ Asked(queue', g) = {}
      BY <1>4 DEF Updates, Asked
    <3>4. CoordInv(g, asks[g], queue')
      BY <3>3 DEF CoordInv, LastInv
    <3>5. KnownInv(g, life'[g], counted[g], queue', active')
      BY <1>3, <3>2 DEF KnownInv, AskInv
    <3>6. ~Wanted(queue', g, active')
      BY <1>1, <1>4 DEF Wanted, EndsOn
    <3>7. TurnInv(g, life'[g], asks[g], client, queue', active', started')
      BY <3>3, <3>6 DEF TurnInv, PriorInv
    <3>8. QED
      BY <3>2, <3>4, <3>5, <3>7 DEF HostInv
  <2>2. QED
    BY <1>1, <2>1 DEF HostsInv
<1>6. HeadInv' /\ PendInv'
  BY <1>1, <1>4 DEF HeadInv, SyncsInv, RunInv, Quiet, PendInv
<1>7. PresenceTyped'
  <2>1. <<>> \in Seq(Presence!Tasks)
    BY EmptySeq
  <2>2. life' \in [Workers -> Lives]
    BY <1>1, <1>2 DEF PresenceTyped, Lives
  <2>3. running' \in BOOLEAN /\ started' \in BOOLEAN
    BY <1>1
  <2>4. tasks' \in Nat
    BY <1>1, <1>2 DEF PresenceTyped
  <2>5. QED
    BY <1>1, <1>2, <2>1, <2>2, <2>3, <2>4 DEF PresenceTyped
<1>8. ASSUME NEW w \in Workers PROVE Numbered(chan[w], tasks', started', active')
  <2>1. Numbered(chan[w], tasks, started, active)
    BY DEF PresenceInv, ChanInv
  <2>2. PICK s : s = chan[w]
    OBVIOUS
  <2>3. \A i \in DOMAIN s : IsSet(s[i]) => s[i].task \in Nat /\ s[i].task <= tasks
    BY <2>1, <2>2 DEF Numbered
  <2>4. tasks \in Nat
    BY <1>2 DEF PresenceTyped
  <2>5. \A i \in DOMAIN s : IsSet(s[i]) =>
          s[i].task \in Nat /\ s[i].task <= tasks + 1 /\ s[i].task # tasks + 1
    BY <2>3, <2>4
  <2>6. QED
    BY <1>1, <2>2, <2>5 DEF Numbered
<1>9. ASSUME NEW w \in Workers PROVE SentInv(w)'
  <2>1. CASE life[w] \in {"off", "gone"} /\ life'[w] = life[w]
    <3>1. SentInv(w)
      BY DEF PresenceInv, ChanInv
    <3>2. life[w] = "off" => ~Joining(w)
      <4>1. started = TRUE => 1 \in DOMAIN queue
        <5>1. started = TRUE => queue # <<>>
          BY DEF PresenceInv, HeadInv
        <5>2. QED
          BY <1>2, <5>1, FirstTask
      <4>2. QED
        BY <1>2, <4>1 DEF Joining, SyncsInv
    <3>3. life[w] = "off" => view[w] = Workers /\ NoSets(chan[w])
      BY <3>1, <3>2 DEF SentInv
    <3>4. QED
      BY <1>1, <2>1, <3>3 DEF SentInv, Joining
  <2>2. CASE life'[w] = "stopping"
    BY <1>1, <2>2 DEF SentInv
  <2>3. QED
    BY <1>3, <2>1, <2>2
<1>10. ViewInv'
  <2>1. ASSUME NEW h \in Workers, counted[h] = TRUE PROVE life'[h] = "stopping"
    <3>1. life[h] \notin {"off", "gone"}
      BY <2>1 DEF PresenceInv, HostsInv, HostInv, AskInv
    <3>2. QED
      BY <1>3, <3>1
  <2>2. QED
    BY <1>1, <2>1 DEF ViewInv
<1>11. Keeps
  <2>1. \A g \in Workers : life[g] = "gone" => life'[g] = "gone"
    BY <1>3
  <2>2. QED
    BY <1>1, <2>1 DEF Keeps
<1>12. QED
  BY <1>1, <1>5, <1>6, <1>7, <1>8, <1>9, <1>10, <1>11, MadeKept DEF PresenceInv, ChanInv

-----------------------------------------------------------------------------
\* Events: a commit, a publication and the deliveries.
LEMMA CommitStep ==
  ASSUME PresenceInv, NEW w \in Workers, Presence!Commit(w)
  PROVE  PresenceInv'
<1>1. /\ life' = life /\ active' = active /\ queue' = queue /\ started' = started
      /\ pending' = pending /\ tasks' = tasks /\ chan' = chan /\ view' = view /\ running' = running
      /\ asks' = asks /\ client' = client /\ counted' = counted /\ got' = got /\ dropped' = dropped
      /\ life[w] # "gone"
      /\ made' = Append(made, [from |-> w, due |-> IF running THEN Presence!MustReach(w) ELSE {}])
      /\ missed' = missed \union {h \in Hosts : ~counted[h]} \X {Len(made) + 1}
      /\ outbox' = IF Presence!HasRemote(w) THEN [outbox EXCEPT ![w] = Append(@, Len(made) + 1)] ELSE outbox
  BY DEF Presence!Commit, Presence!Alive, Presence!memberVars, Presence!taskVars, Presence!clientVars
<1>2. PresenceTyped /\ ViewInv /\ MadeInv /\ RunInv
  BY DEF PresenceInv, HeadInv
<1>3. PICK r \in [from : Workers, due : SUBSET Presence!Clients] :
        r = [from |-> w, due |-> IF running THEN Presence!MustReach(w) ELSE {}]
  <2>1. (IF running THEN Presence!MustReach(w) ELSE {}) \in SUBSET Presence!Clients
    BY DEF Presence!MustReach
  <2>2. QED
    BY <2>1
<1>4. PICK n \in Nat : n = Len(made)
  BY <1>2, LenProperties DEF PresenceTyped
<1>5. /\ made' \in Seq([from : Workers, due : SUBSET Presence!Clients])
      /\ DOMAIN made = 1..n /\ DOMAIN made' = 1..(n + 1)
      /\ made'[n + 1] = r /\ \A e \in 1..n : made'[e] = made[e]
  BY <1>1, <1>2, <1>3, <1>4, AppendProperties, LenProperties DEF PresenceTyped
<1>6. outbox[w] \in Seq(Nat) /\ n + 1 \in Nat
  BY <1>2 DEF PresenceTyped
<1>7. PICK s : s = Append(outbox[w], n + 1)
  OBVIOUS
<1>8. /\ s \in Seq(Nat) /\ n + 1 \in Presence!Elements(s)
      /\ Presence!Elements(outbox[w]) \subseteq Presence!Elements(s)
  <2>1. /\ s \in Seq(Nat) /\ Len(s) = Len(outbox[w]) + 1 /\ s[Len(outbox[w]) + 1] = n + 1
        /\ \A i \in 1..Len(outbox[w]) : s[i] = outbox[w][i]
    BY <1>6, <1>7, AppendProperties
  <2>2. Len(outbox[w]) \in Nat /\ DOMAIN outbox[w] = 1..Len(outbox[w]) /\ DOMAIN s = 1..Len(s)
    BY <1>6, <2>1, LenProperties
  <2>3. Len(outbox[w]) + 1 \in DOMAIN s /\ \A i \in DOMAIN outbox[w] : i \in DOMAIN s
    BY <2>1, <2>2
  <2>4. QED
    BY <2>1, <2>2, <2>3 DEF Presence!Elements
<1>9. outbox' = IF Presence!HasRemote(w) THEN [outbox EXCEPT ![w] = s] ELSE outbox
  BY <1>1, <1>4, <1>7
<1>10. outbox' \in [Workers -> Seq(Nat)]
  BY <1>2, <1>8, <1>9 DEF PresenceTyped
<1>11. \A g \in Workers : Presence!Elements(outbox[g]) \subseteq Presence!Elements(outbox'[g])
  BY <1>2, <1>8, <1>9 DEF PresenceTyped
<1>12. PresenceTyped'
  BY <1>1, <1>2, <1>5, <1>10 DEF PresenceTyped
<1>13. HeadInv' /\ PendInv' /\ ChanInv' /\ ViewInv'
  BY <1>1, TasksKept DEF PresenceInv
<1>14. HostsInv'
  BY <1>1 DEF PresenceInv, HostsInv
<1>15. MadeInv'
  <2>1. SUFFICES ASSUME NEW e \in DOMAIN made', NEW c \in made'[e].due
                 PROVE  /\ c[1] # made'[e].from /\ client[c] \in {"connected", "closed"}
                        /\ client[c] = "connected" => Reaches(e, c)'
    BY <1>1 DEF MadeInv
  <2>2. e \in 1..n \/ e = n + 1
    BY <1>4, <1>5
  <2>3. CASE e \in 1..n
    <3>1. made'[e] = made[e] /\ e \in DOMAIN made
      BY <1>5, <2>3
    <3>2. c \in made[e].due /\ made[e].from \in Workers
      BY <1>2, <3>1, MadeTypes
    <3>3. /\ c[1] # made[e].from /\ client[c] \in {"connected", "closed"}
          /\ client[c] = "connected" => Reaches(e, c)
      BY <1>2, <3>1, <3>2 DEF MadeInv
    <3>4. Reaches(e, c) => Reaches(e, c)'
      BY <1>1, <1>11, <3>1, <3>2 DEF Reaches
    <3>5. QED
      BY <3>1, <3>3, <3>4
  <2>4. CASE e = n + 1
    <3>1. c \in Presence!MustReach(w) /\ made'[e].from = w /\ running = TRUE
      <4>1. made'[e] = r /\ c \in r.due
        BY <1>5, <2>1, <2>4
      <4>2. CASE running = TRUE
        BY <1>3, <4>1, <4>2
      <4>3. CASE running = FALSE
        BY <1>3, <4>1, <4>3
      <4>4. QED
        BY <1>2, <4>2, <4>3 DEF PresenceTyped
    <3>2. c \in Presence!Clients /\ c[1] # w /\ client[c] = "connected"
      BY <3>1 DEF Presence!MustReach
    <3>3. c[1] \in Workers /\ c[1] \in Hosts
      BY <3>2, ClientOf
    <3>4. ASSUME counted[c[1]] = TRUE PROVE e \in Presence!Elements(outbox'[w])
      <4>1. c[1] \in view[w]
        BY <1>1, <1>2, <3>1, <3>3, <3>4 DEF ViewInv, RunInv
      <4>2. Presence!HasRemote(w)
        BY <3>2, <4>1 DEF Presence!HasRemote
      <4>3. outbox'[w] = s
        BY <1>2, <1>9, <4>2 DEF PresenceTyped
      <4>4. QED
        BY <1>8, <2>4, <4>3
    <3>5. ASSUME counted[c[1]] = FALSE PROVE <<c[1], e>> \in missed'
      BY <1>1, <1>4, <2>4, <3>3, <3>5
    <3>6. counted[c[1]] \in BOOLEAN
      BY <1>2, <3>3 DEF PresenceTyped
    <3>7. Reaches(e, c)'
      BY <1>1, <3>1, <3>4, <3>5, <3>6 DEF Reaches
    <3>8. QED
      BY <3>1, <3>2, <3>7
  <2>5. QED
    BY <2>2, <2>3, <2>4
<1>16. QED
  BY <1>12, <1>13, <1>14, <1>15 DEF PresenceInv

\* Events are put on the way or taken: what is known of the sets stays.
LEMMA ChannelsKept ==
  ASSUME PresenceTyped, HeadInv, PendInv, ChanInv, ViewInv,
         active' = active, queue' = queue, started' = started, pending' = pending, tasks' = tasks,
         view' = view, life' = life, running' = running, counted' = counted,
         \A w \in Workers : SameSets(chan[w], chan'[w])
  PROVE  HeadInv' /\ PendInv' /\ ChanInv' /\ ViewInv'
<1>1. HeadInv' /\ PendInv'
  BY DEF HeadInv, SyncsInv, RunInv, PendInv
<1>2. ASSUME NEW w \in Workers PROVE Numbered(chan[w], tasks, started, active)'
  BY DEF ChanInv, SameSets
<1>3. ASSUME NEW w \in Workers PROVE SentInv(w)'
  <2>1. SentInv(w) /\ (Joining(w)' <=> Joining(w))
    BY DEF ChanInv, Joining
  <2>2. /\ NoSets(chan[w]) => NoSets(chan'[w])
        /\ SetsAre(chan[w], active) => SetsAre(chan'[w], active)
    BY DEF SameSets
  <2>3. QED
    BY <2>1, <2>2 DEF SentInv
<1>4. ViewInv'
  BY DEF ViewInv, SameSets
<1>5. QED
  BY <1>1, <1>2, <1>3, <1>4 DEF ChanInv

LEMMA SameChannel ==
  ASSUME NEW s, NEW t, t = s
  PROVE  SameSets(s, t)
BY DEF SameSets

LEMMA PublishStep ==
  ASSUME PresenceInv, NEW w \in Workers, Presence!Publish(w)
  PROVE  PresenceInv'
<1>1. /\ life' = life /\ active' = active /\ queue' = queue /\ started' = started
      /\ pending' = pending /\ tasks' = tasks /\ view' = view /\ running' = running
      /\ asks' = asks /\ client' = client /\ counted' = counted /\ got' = got /\ made' = made
      /\ outbox' = [outbox EXCEPT ![w] = <<>>]
  BY DEF Presence!Publish, Presence!memberVars, Presence!taskVars, Presence!clientVars
<1>2. PresenceTyped /\ HostsInv /\ MadeInv /\ RunInv
  BY DEF PresenceInv, HeadInv
<1>3. PICK m : m = [kind |-> "events", from |-> w, events |-> outbox[w]]
  OBVIOUS
<1>4. m \in Deliveries /\ m.kind = "events" /\ m.events = outbox[w] /\ ~IsSet(m)
  BY <1>2, <1>3 DEF Deliveries, IsSet, PresenceTyped
<1>5. PICK S : S = Presence!Targets(w)
  OBVIOUS
<1>6. \/ /\ chan' = [g \in Workers |-> IF g \in S THEN Append(chan[g], m) ELSE chan[g]]
         /\ dropped' = dropped /\ running = TRUE
         /\ missed' = missed \union (Hosts \ Presence!Ready) \X Presence!Elements(outbox[w])
      \/ /\ chan' = chan /\ dropped' = dropped \union Presence!Elements(outbox[w])
         /\ missed' = missed
  BY <1>3, <1>5 DEF Presence!Publish, Presence!Send
<1>7. ASSUME NEW g \in Workers
      PROVE  /\ chan'[g] \in Seq(Deliveries)
             /\ chan'[g] = chan[g] \/ Posted(chan[g], m, chan'[g])
  <2>1. chan[g] \in Seq(Deliveries)
    BY <1>2 DEF PresenceTyped
  <2>2. chan'[g] = chan[g] \/ Posts(chan[g], m, chan'[g])
    BY <1>6 DEF Posts
  <2>3. CASE Posts(chan[g], m, chan'[g])
    <3>1. Posted(chan[g], m, chan'[g])
      BY <1>4, <2>1, <2>3, PostDelivery
    <3>2. QED
      BY <3>1 DEF Posted
  <2>4. CASE chan'[g] = chan[g]
    BY <2>1, <2>4
  <2>5. QED
    BY <2>2, <2>3, <2>4
<1>8. ASSUME NEW g \in Workers PROVE SameSets(chan[g], chan'[g])
  <2>1. CASE chan'[g] = chan[g]
    BY <2>1, SameChannel
  <2>2. CASE Posted(chan[g], m, chan'[g])
    BY <1>4, <2>2, PostEvents
  <2>3. QED
    BY <1>7, <2>1, <2>2
<1>9. ASSUME NEW g \in Workers, NEW e, Carries(chan[g], e) PROVE Carries(chan'[g], e)
  <2>1. CASE chan'[g] = chan[g]
    BY <1>9, <2>1
  <2>2. CASE Posted(chan[g], m, chan'[g])
    BY <1>9, <2>2, PostKeeps
  <2>3. QED
    BY <1>7, <2>1, <2>2
<1>10. HeadInv' /\ PendInv' /\ ChanInv' /\ ViewInv'
  BY <1>1, <1>8, ChannelsKept DEF PresenceInv
<1>11. PresenceTyped'
  <2>1. chan' \in [Workers -> Seq(Deliveries)]
    <3>1. chan \in [Workers -> Seq(Deliveries)]
      BY <1>2 DEF PresenceTyped
    <3>2. QED
      BY <1>6, <1>7, <3>1
  <2>2. outbox' \in [Workers -> Seq(Nat)]
    <3>1. <<>> \in Seq(Nat)
      BY EmptySeq
    <3>2. QED
      BY <1>1, <1>2, <3>1 DEF PresenceTyped
  <2>3. QED
    BY <1>1, <1>2, <2>1, <2>2 DEF PresenceTyped
<1>12. HostsInv'
  BY <1>1, <1>2 DEF HostsInv
<1>13. MadeInv'
  <2>1. SUFFICES ASSUME NEW e \in DOMAIN made, NEW c \in made[e].due
                 PROVE  /\ c[1] # made[e].from /\ client[c] \in {"connected", "closed"}
                        /\ client[c] = "connected" => Reaches(e, c)'
    BY <1>1 DEF MadeInv
  <2>2. /\ c[1] # made[e].from /\ client[c] \in {"connected", "closed"}
        /\ client[c] = "connected" => Reaches(e, c)
    BY <1>2, <2>1 DEF MadeInv
  <2>3. c \in Presence!Clients /\ c[1] \in Workers /\ c[1] \in Hosts /\ made[e].from \in Workers
    BY <1>2, <2>1, MadeTypes, ClientOf
  <2>4. ASSUME Reaches(e, c) PROVE Reaches(e, c)'
    <3>1. CASE e \in dropped \/ life[made[e].from] = "gone" \/ <<c[1], e>> \in missed \/ e \in got[c]
      BY <1>1, <1>6, <3>1 DEF Reaches
    <3>2. CASE Carries(chan[c[1]], e)
      BY <1>9, <2>3, <3>2 DEF Reaches
    <3>3. CASE e \in Presence!Elements(outbox[made[e].from]) /\ counted[c[1]] = TRUE
      <4>1. CASE made[e].from # w
        <5>1. outbox'[made[e].from] = outbox[made[e].from]
          BY <1>1, <1>2, <2>3, <4>1 DEF PresenceTyped
        <5>2. QED
          BY <1>1, <3>3, <5>1 DEF Reaches
      <4>2. CASE made[e].from = w
        <5>1. CASE dropped' = dropped \union Presence!Elements(outbox[w])
          BY <3>3, <4>2, <5>1 DEF Reaches
        <5>2. CASE /\ chan' = [g \in Workers |-> IF g \in S THEN Append(chan[g], m) ELSE chan[g]]
                   /\ running = TRUE
                   /\ missed' = missed \union (Hosts \ Presence!Ready) \X Presence!Elements(outbox[w])
          <6>1. CASE c[1] \notin Presence!Ready
            <7>1. <<c[1], e>> \in missed'
              BY <2>3, <3>3, <4>2, <5>2, <6>1
            <7>2. QED
              BY <7>1 DEF Reaches
          <6>2. CASE c[1] \in Presence!Ready
            <7>1. c[1] \in active
              <8>1. HostInv(c[1], life[c[1]], asks[c[1]], client, counted[c[1]], queue, active, started)
                BY <1>2, <2>3 DEF HostsInv
              <8>2. life[c[1]] = "ready"
                BY <6>2 DEF Presence!Ready
              <8>3. QED
                BY <3>3, <8>1, <8>2 DEF HostInv, KnownInv
            <7>2. c[1] \in S
              BY <1>5, <2>2, <4>2, <6>2, <7>1 DEF Presence!Targets
            <7>3. chan[c[1]] \in Seq(Deliveries) /\ Posts(chan[c[1]], m, chan'[c[1]])
              BY <1>2, <2>3, <5>2, <7>2 DEF PresenceTyped, Posts
            <7>4. Posted(chan[c[1]], m, chan'[c[1]])
              BY <1>4, <7>3, PostDelivery
            <7>5. e \in Presence!Elements(m.events)
              BY <1>4, <3>3, <4>2
            <7>6. Carries(chan'[c[1]], e)
              BY <1>4, <7>4, <7>5, PostCarries
            <7>7. QED
              BY <7>6 DEF Reaches
          <6>3. QED
            BY <6>1, <6>2
        <5>3. QED
          BY <1>6, <5>1, <5>2
      <4>3. QED
        BY <4>1, <4>2
    <3>4. QED
      BY <2>4, <3>1, <3>2, <3>3 DEF Reaches
  <2>5. QED
    BY <2>2, <2>4
<1>14. QED
  BY <1>10, <1>11, <1>12, <1>13 DEF PresenceInv

\* The worker w is handed its first delivery m.
Handed(w, m) ==
  /\ life' = life /\ active' = active /\ queue' = queue /\ started' = started /\ tasks' = tasks
  /\ running' = running /\ asks' = asks /\ client' = client /\ counted' = counted
  /\ outbox' = outbox /\ made' = made /\ dropped' = dropped
  /\ chan' = [chan EXCEPT ![w] = Tail(@)] /\ chan[w] # <<>> /\ m = Head(chan[w])

LEMMA HandedChannel ==
  ASSUME PresenceTyped, NEW w \in Workers, NEW m, Handed(w, m)
  PROVE  /\ Taken(chan[w], m, chan'[w]) /\ chan' \in [Workers -> Seq(Deliveries)]
         /\ \A g \in Workers : g # w => chan'[g] = chan[g]
<1>1. chan \in [Workers -> Seq(Deliveries)] /\ chan[w] \in Seq(Deliveries)
  BY DEF PresenceTyped
<1>2. Takes(chan[w], m, chan'[w])
  BY <1>1 DEF Handed, Takes
<1>3. Taken(chan[w], m, chan'[w])
  BY <1>1, <1>2, TakeDelivery
<1>4. chan'[w] \in Seq(Deliveries)
  BY <1>3 DEF Taken
<1>5. QED
  BY <1>1, <1>3, <1>4 DEF Handed

\* A set: the worker sees it from now on.
LEMMA SetStep ==
  ASSUME PresenceInv, NEW w \in Workers, NEW m, Handed(w, m), m.kind = "presence",
         view' = [view EXCEPT ![w] = m.set], pending' = pending \ {<<w, m.task>>},
         got' = got, missed' = missed
  PROVE  PresenceInv'
<1>1. /\ PresenceTyped /\ HostsInv /\ HeadInv /\ PendInv /\ ChanInv /\ ViewInv /\ MadeInv
  BY DEF PresenceInv
<1>2. /\ life' = life /\ active' = active /\ queue' = queue /\ started' = started /\ tasks' = tasks
      /\ running' = running /\ asks' = asks /\ client' = client /\ counted' = counted
      /\ outbox' = outbox /\ made' = made /\ dropped' = dropped
  BY DEF Handed
<1>3. /\ Taken(chan[w], m, chan'[w]) /\ chan' \in [Workers -> Seq(Deliveries)]
      /\ \A g \in Workers : g # w => chan'[g] = chan[g]
  BY <1>1, HandedChannel
<1>4. IsSet(m) /\ SetTaken(chan[w], m, chan'[w]) /\ SameSets(chan[w], chan'[w])
  BY <1>3, TakeFirst, TakeSame DEF IsSet
<1>5. m \in Deliveries /\ m.set \in SUBSET Workers
  <2>1. m \in Deliveries
    BY <1>3 DEF Taken
  <2>2. QED
    BY <2>1 DEF Deliveries
<1>6. /\ view' \in [Workers -> SUBSET Workers] /\ view'[w] = m.set
      /\ \A g \in Workers : g # w => view'[g] = view[g]
  BY <1>1, <1>5 DEF PresenceTyped
<1>7. PresenceTyped'
  BY <1>1, <1>2, <1>3, <1>6 DEF PresenceTyped
<1>8. HeadInv' /\ PendInv'
  BY <1>1, <1>2 DEF HeadInv, SyncsInv, RunInv, PendInv
<1>9. HostsInv'
  BY <1>1, <1>2 DEF HostsInv
<1>10. ASSUME NEW g \in Workers PROVE SameSets(chan[g], chan'[g])
  BY <1>3, <1>4, SameChannel
<1>11. ASSUME NEW g \in Workers PROVE Numbered(chan[g], tasks, started, active)'
  <2>1. Numbered(chan[g], tasks, started, active)
    BY <1>1 DEF ChanInv
  <2>2. QED
    BY <1>2, <1>10, <2>1 DEF SameSets
<1>12. ASSUME NEW g \in Workers PROVE SentInv(g)'
  <2>1. SentInv(g) /\ (Joining(g)' <=> Joining(g))
    BY <1>1, <1>2 DEF ChanInv, Joining
  <2>2. CASE g # w
    <3>1. view'[g] = view[g] /\ chan'[g] = chan[g]
      BY <1>3, <1>6, <2>2
    <3>2. <<g, tasks>> \in pending => <<g, tasks>> \in pending'
      BY <2>2
    <3>3. QED
      BY <1>2, <2>1, <3>1, <3>2 DEF SentInv
  <2>3. CASE g = w
    <3>1. ~NoSets(chan[w])
      BY <1>4 DEF SetTaken
    <3>2. ASSUME life[w] \in {"off", "new", "syncing"}
          PROVE  Joining(w) /\ view'[w] = active /\ SetsAre(chan'[w], active)
      <4>1. Joining(w) /\ SetsAre(chan[w], active)
        BY <2>1, <2>3, <3>1, <3>2 DEF SentInv
      <4>2. QED
        BY <1>4, <1>6, <4>1 DEF SetTaken, SameSets
    <3>3. ASSUME started = TRUE, queue[1].kind = "update", life[w] = "ready"
          PROVE  <<w, tasks>> \in pending' \/ (view'[w] = active /\ NoSets(chan'[w]))
      <4>1. <<w, tasks>> \in pending
        BY <2>1, <2>3, <3>1, <3>3 DEF SentInv
      <4>2. CASE m.task = tasks
        <5>1. Numbered(chan[w], tasks, started, active)
          BY <1>1 DEF ChanInv
        <5>2. m.set = active /\ NoSets(chan'[w])
          BY <1>4, <4>2, <5>1 DEF SetTaken
        <5>3. QED
          BY <1>6, <5>2
      <4>3. CASE m.task # tasks
        BY <4>1, <4>3
      <4>4. QED
        BY <4>2, <4>3
    <3>4. QED
      BY <1>2, <2>1, <2>3, <3>2, <3>3 DEF SentInv
  <2>4. QED
    BY <2>2, <2>3
<1>13. ChanInv'
  BY <1>11, <1>12 DEF ChanInv
<1>14. ViewInv'
  <2>1. SUFFICES ASSUME NEW h \in Workers, NEW g \in Workers,
                        counted[h] = TRUE, life[h] # "stopping", life[g] # "gone"
                 PROVE  h \in view'[g] /\ SetsHave(chan'[g], h)
    BY <1>2 DEF ViewInv
  <2>2. h \in view[g] /\ SetsHave(chan[g], h)
    BY <1>1, <2>1 DEF ViewInv
  <2>3. SetsHave(chan'[g], h)
    BY <1>10, <2>2 DEF SameSets
  <2>4. h \in view'[g]
    BY <1>4, <1>6, <2>2 DEF SetTaken
  <2>5. QED
    BY <2>3, <2>4
<1>15. MadeInv'
  <2>1. ASSUME NEW g \in Workers, NEW e, Carries(chan[g], e) PROVE Carries(chan'[g], e)
    <3>1. CASE g = w
      <4>1. Carries(chan[w], e)
        BY <2>1, <3>1
      <4>2. Carries(chan'[w], e) \/ (m.kind = "events" /\ e \in Presence!Elements(m.events))
        BY <1>3, <4>1, TakeCarries
      <4>3. QED
        BY <3>1, <4>2
    <3>2. CASE g # w
      BY <1>3, <2>1, <3>2
    <3>3. QED
      BY <3>1, <3>2
  <2>2. Keeps
    BY <1>2, <2>1 DEF Keeps
  <2>3. QED
    BY <1>1, <2>2, MadeKept
<1>16. QED
  BY <1>7, <1>8, <1>9, <1>13, <1>14, <1>15 DEF PresenceInv

\* Events: the clients of the worker are handed them, but those that fail.
Reads(w, m, bad) ==
  /\ missed' = missed \union {w} \X bad
  /\ got' = [c \in Presence!Clients |->
               IF c \in Presence!Registered(w)
               THEN got[c] \union (Presence!Elements(m.events) \ bad) ELSE got[c]]

LEMMA EventsStep ==
  ASSUME PresenceInv, NEW w \in Workers, NEW m, Handed(w, m), m.kind = "events",
         view' = view, pending' = pending, NEW bad \in SUBSET Presence!Elements(m.events),
         Reads(w, m, bad)
  PROVE  PresenceInv'
<1>1. /\ PresenceTyped /\ HostsInv /\ MadeInv
  BY DEF PresenceInv
<1>2. /\ life' = life /\ active' = active /\ queue' = queue /\ started' = started /\ tasks' = tasks
      /\ running' = running /\ asks' = asks /\ client' = client /\ counted' = counted
      /\ outbox' = outbox /\ made' = made /\ dropped' = dropped
      /\ missed' = missed \union {w} \X bad
  BY DEF Handed, Reads
<1>3. /\ Taken(chan[w], m, chan'[w]) /\ chan' \in [Workers -> Seq(Deliveries)]
      /\ \A g \in Workers : g # w => chan'[g] = chan[g]
  BY <1>1, HandedChannel
<1>4. Presence!Elements(m.events) \in SUBSET Nat
  <2>1. m \in Deliveries
    BY <1>3 DEF Taken
  <2>2. m.events \in Seq(Nat)
    BY <2>1 DEF Deliveries
  <2>3. QED
    BY <2>2 DEF Presence!Elements
<1>5. ASSUME NEW g \in Workers PROVE SameSets(chan[g], chan'[g])
  BY <1>3, TakeSame, SameChannel
<1>6. HeadInv' /\ PendInv' /\ ChanInv' /\ ViewInv'
  BY <1>2, <1>5, ChannelsKept DEF PresenceInv
<1>7. HostsInv'
  BY <1>1, <1>2 DEF HostsInv
<1>8. ASSUME NEW c \in Presence!Clients
      PROVE  /\ got'[c] \in SUBSET Nat /\ got[c] \subseteq got'[c]
             /\ c \in Presence!Registered(w) => Presence!Elements(m.events) \ bad \subseteq got'[c]
  <2>1. got[c] \in SUBSET Nat
    BY <1>1 DEF PresenceTyped
  <2>2. QED
    BY <1>4, <2>1 DEF Reads
<1>9. PresenceTyped'
  <2>1. got' \in [Presence!Clients -> SUBSET Nat]
    BY <1>8 DEF Reads
  <2>2. QED
    BY <1>1, <1>2, <1>3, <2>1 DEF PresenceTyped
<1>10. MadeInv'
  <2>1. SUFFICES ASSUME NEW e \in DOMAIN made, NEW c \in made[e].due
                 PROVE  /\ c[1] # made[e].from /\ client[c] \in {"connected", "closed"}
                        /\ client[c] = "connected" => Reaches(e, c)'
    BY <1>2 DEF MadeInv
  <2>2. /\ c[1] # made[e].from /\ client[c] \in {"connected", "closed"}
        /\ client[c] = "connected" => Reaches(e, c)
    BY <1>1, <2>1 DEF MadeInv
  <2>3. c \in Presence!Clients /\ c[1] \in Workers
    BY <1>1, <2>1, MadeTypes, ClientOf
  <2>4. ASSUME client[c] = "connected", Reaches(e, c) PROVE Reaches(e, c)'
    <3>1. CASE Carries(chan[c[1]], e)
      <4>1. CASE c[1] # w
        <5>1. Carries(chan'[c[1]], e)
          BY <1>3, <2>3, <3>1, <4>1
        <5>2. QED
          BY <5>1 DEF Reaches
      <4>2. CASE c[1] = w
        <5>1. Carries(chan[w], e)
          BY <3>1, <4>2
        <5>2. Carries(chan'[w], e) \/ (m.kind = "events" /\ e \in Presence!Elements(m.events))
          BY <1>3, <5>1, TakeCarries
        <5>3. c \in Presence!Registered(w)
          BY <2>3, <2>4, <4>2 DEF Presence!Registered
        <5>4. e \in Presence!Elements(m.events) => e \in got'[c] \/ e \in bad
          BY <1>8, <2>3, <5>3
        <5>5. e \in bad => <<c[1], e>> \in missed'
          BY <1>2, <4>2
        <5>6. QED
          BY <4>2, <5>2, <5>4, <5>5 DEF Reaches
      <4>3. QED
        BY <4>1, <4>2
    <3>2. CASE e \in got[c]
      <4>1. e \in got'[c]
        BY <1>8, <2>3, <3>2
      <4>2. QED
        BY <4>1 DEF Reaches
    <3>3. CASE \/ e \in dropped \/ life[made[e].from] = "gone" \/ <<c[1], e>> \in missed
               \/ e \in Presence!Elements(outbox[made[e].from]) /\ counted[c[1]] = TRUE
      BY <1>2, <3>3 DEF Reaches
    <3>4. QED
      BY <2>4, <3>1, <3>2, <3>3 DEF Reaches
  <2>5. QED
    BY <2>2, <2>4
<1>11. QED
  BY <1>6, <1>7, <1>9, <1>10 DEF PresenceInv

LEMMA ReceiveStep ==
  ASSUME PresenceInv, NEW w \in Workers, Presence!Receive(w)
  PROVE  PresenceInv'
<1>1. PICK m : m = Head(chan[w])
  OBVIOUS
<1>2. Handed(w, m)
  BY <1>1 DEF Presence!Receive, Handed, Presence!memberVars
<1>3. CASE /\ m.kind = "presence" /\ view' = [view EXCEPT ![w] = m.set]
           /\ pending' = pending \ {<<w, m.task>>} /\ got' = got /\ missed' = missed
  BY <1>2, <1>3, SetStep
<1>4. CASE /\ m.kind = "events" /\ view' = view /\ pending' = pending
           /\ \E bad \in SUBSET Presence!Elements(m.events) : Reads(w, m, bad)
  BY <1>2, <1>4, EventsStep
<1>5. CASE m.kind = "presence"
  <2>1. /\ view' = [view EXCEPT ![w] = m.set] /\ pending' = pending \ {<<w, m.task>>}
        /\ got' = got /\ missed' = missed
    BY <1>1, <1>5 DEF Presence!Receive
  <2>2. QED
    BY <1>3, <1>5, <2>1
<1>6. CASE m.kind = "events"
  <2>1. view' = view /\ pending' = pending
    BY <1>1, <1>6 DEF Presence!Receive
  <2>2. PICK bad \in SUBSET Presence!Elements(m.events) :
          /\ missed' = missed \union {w} \X bad
          /\ got' = [c \in Presence!Clients |->
                       IF c \in Presence!Registered(w)
                       THEN got[c] \union (Presence!Elements(m.events) \ bad) ELSE got[c]]
    BY <1>1, <1>6 DEF Presence!Receive
  <2>3. Reads(w, m, bad)
    BY <2>2 DEF Reads
  <2>4. QED
    BY <1>4, <1>6, <2>1, <2>3
<1>7. QED
  BY <1>1, <1>5, <1>6 DEF Presence!Receive

-----------------------------------------------------------------------------
LEMMA PresenceStep == PresenceInv /\ Presence!Next => PresenceInv'
<1>1. SUFFICES ASSUME PresenceInv, Presence!Next PROVE PresenceInv'
  OBVIOUS
<1>2. ASSUME NEW c \in Presence!Clients, Presence!Connect(c) \/ Presence!Disconnect(c)
      PROVE  PresenceInv'
  BY <1>1, <1>2, ConnectStep, DisconnectStep
<1>3. ASSUME NEW w \in Workers,
             \/ Presence!SendAsk(w) \/ Presence!OldAnswers(w) \/ Presence!WorkerReady(w)
             \/ Presence!Publish(w) \/ Presence!Receive(w)
      PROVE  PresenceInv'
  BY <1>1, <1>3, SendStep, OldAnswersStep, WorkerReadyStep, PublishStep, ReceiveStep
<1>4. ASSUME NEW w \in Workers,
             \/ Presence!AskTimesOut(w) \/ Presence!Fork(w) \/ Presence!Exit(w) \/ Presence!Commit(w)
      PROVE  PresenceInv'
  BY <1>1, <1>4, AskTimesOutStep, ForkStep, ExitStep, CommitStep
<1>5. ASSUME NEW w \in Workers, Presence!PublishFails(w) \/ Presence!PublishTimesOut(w)
      PROVE  PresenceInv'
  BY <1>1, <1>5, IdleSteps, IdleStep
<1>6. ASSUME Presence!StartTask \/ Presence!TaskDone \/ Presence!TaskFails \/ Presence!DeliveryTimesOut
      PROVE  PresenceInv'
  BY <1>1, <1>6, StartStep, DoneStep, FailsStep, TimeoutStep
<1>7. ASSUME Presence!Recycle \/ Presence!Resume PROVE PresenceInv'
  BY <1>1, <1>7, RecycleStep, ResumeStep
<1>8. QED
  BY <1>1, <1>2, <1>3, <1>4, <1>5, <1>6, <1>7 DEF Presence!Next, Presence!Steps

LEMMA PartsStep ==
  PresenceInv /\ [PartsNext]_<<part, vars, presenceVars>> => PresenceInv'
<1>1. SUFFICES ASSUME PresenceInv, [PartsNext]_<<part, vars, presenceVars>> PROVE PresenceInv'
  OBVIOUS
<1>2. CASE Presence!Next
  BY <1>1, <1>2, PresenceStep
<1>3. CASE UNCHANGED presenceVars
  BY <1>1, <1>3, IdleSteps, IdleStep
<1>4. QED
  BY <1>1, <1>2, <1>3 DEF PartsNext

LEMMA ReachesClients == PresenceInv => EventReaches
<1>1. SUFFICES ASSUME PresenceInv, NEW e \in DOMAIN made, NEW c \in made[e].due
               PROVE  \/ e \in dropped \/ life[made[e].from] = "gone" \/ client[c] # "connected"
                      \/ Presence!InFlight(e, c) \/ e \in got[c] \/ <<c[1], e>> \in missed
  BY DEF EventReaches, Presence!EventReaches, Presence!Void
<1>2. PresenceTyped /\ MadeInv
  BY <1>1 DEF PresenceInv
<1>3. c[1] \in Workers /\ made[e].from \in Workers
  BY <1>1, <1>2, MadeTypes, ClientOf
<1>4. client[c] = "connected" => Reaches(e, c)
  BY <1>1, <1>2 DEF MadeInv
<1>5. \/ e \in Presence!Elements(outbox[made[e].from]) \/ Carries(chan[c[1]], e)
      => Presence!InFlight(e, c)
  BY <1>3 DEF Presence!InFlight, Carries
<1>6. QED
  BY <1>4, <1>5 DEF Reaches

(***************************************************************************)
(* A client that was told it is connected, by whatever worker that lives,  *)
(* is handed what the other workers commit from then on, or the event is   *)
(* on its way to it, unless the event is one of those that missed counts:  *)
(* it was committed before the presence of the client's worker was known,  *)
(* published before that worker was ready at the primary, or its delivery  *)
(* there failed by itself. No change of presence, exit, timeout, join or   *)
(* restart on the way loses it otherwise, for any number of workers,       *)
(* clients, events and faults. What ends the promise is a publication      *)
(* refused while the cluster does not run, the exit of the event's worker, *)
(* and the client's leaving.                                               *)
(***************************************************************************)
THEOREM EventsReachClients == PartsSpec => []EventReaches
<1>1. PartsInit => PresenceInv
  BY PresenceStart
<1>2. PresenceInv /\ [PartsNext]_<<part, vars, presenceVars>> => PresenceInv'
  BY PartsStep
<1>3. PresenceInv => EventReaches
  BY ReachesClients
<1>4. QED
  BY <1>1, <1>2, <1>3, PTL DEF PartsSpec
=============================================================================
