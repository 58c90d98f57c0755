------------------------------- MODULE RecordFiles -------------------------------
(***************************************************************************)
(* The files of one record, and the saves that replace them                *)
(* (src/core/field_file.ts, saveModel and Delete in src/core/base.ts).     *)
(*                                                                         *)
(* Files are uploaded before the row is written, and what the row no       *)
(* longer names is deleted after the commit; storage takes no part in the  *)
(* transaction. Several callers, of one worker or of several, each load    *)
(* the record into an object of their own and save it, in a transaction or *)
(* not, while another deletes the record.                                  *)
(***************************************************************************)
EXTENDS Naturals, FiniteSets

CONSTANTS
  Savers,    \* callers that save the record
  Partial,   \* those whose objects have ignoreUnchangedFields
  Nobody,
  MaxSaves,  \* bound: saves
  MaxFaults  \* bound: uploads, writes and deletions that fail

VARIABLES
  alive, row,  \* the committed row: whether it is there, and the files it names
  stored,      \* files in the storage
  holder,      \* the caller whose transaction has written
  txRow,       \* the row as that transaction sees it
  tx,          \* callers in a transaction
  snap,        \* the row as the transaction of a caller first read it
  passed,      \* transactions that others have committed past
  pc,          \* of a caller: "idle", "loaded", "valid", "stored", "undo", "after", "aborted"
  names,       \* record object: file names in the field,
  new,         \*   uploads in it,
  base,        \*   names that were loaded or saved,
  old,         \*   names that the row had before the write,
  marked,      \*   deletedFilesPrefix,
  uploaded,    \*   uploadedFilesPrefix
  touched,     \*   whether it no longer compares equal to its original value
  saves,       \* saves so far
  remover,     \* the delete of the record: "idle", "after", "done"
  flaws,       \* history: what a save or delete met, see Flaws
  raced,       \* history: others committed since a caller validated
  faults

rowVars == <<alive, row, stored, holder, txRow>>
txVars == <<tx, snap, passed, raced>>
objVars == <<names, new, base, old, marked, uploaded, touched>>
vars == <<rowVars, txVars, pc, objVars, saves, remover, flaws, faults>>

Files == 0..MaxSaves  \* 0 is there at first, n is uploaded by the n-th save
Flaws == {"storage", "write", "overlap", "unchanged", "hook", "deleted"}

TypeOK ==
  /\ alive \in BOOLEAN /\ row \subseteq Files /\ stored \subseteq Files /\ txRow \subseteq Files
  /\ holder \in tx \union {Nobody}
  /\ passed \subseteq tx /\ tx \subseteq Savers /\ raced \subseteq Savers
  /\ snap \in [Savers -> SUBSET Files]
  /\ pc \in [Savers -> {"idle", "loaded", "valid", "stored", "undo", "after", "aborted"}]
  /\ \A f \in {names, new, base, old, marked, uploaded} : f \in [Savers -> SUBSET Files]
  /\ touched \subseteq Partial
  /\ saves \in 0..MaxSaves
  /\ remover \in {"idle", "after", "done"} /\ flaws \subseteq Flaws /\ faults \in 0..MaxFaults

Init ==
  /\ alive = TRUE /\ row = {0} /\ stored = {0} /\ holder = Nobody /\ txRow = {}
  /\ tx = {} /\ passed = {} /\ raced = {} /\ touched = {}
  /\ pc = [c \in Savers |-> "idle"] /\ saves = 0
  /\ snap = [c \in Savers |-> {}] /\ names = snap /\ new = snap /\ base = snap /\ old = snap
  /\ marked = snap /\ uploaded = snap
  /\ remover = "idle" /\ flaws = {} /\ faults = 0

Fails(flaw) == faults < MaxFaults /\ faults' = faults + 1 /\ flaws' = flaws \union {flaw}

\* The row that a caller sees: SQLite gives a transaction the state of its first
\* read, with what it wrote itself.
Seen(c) == IF c \notin tx THEN row ELSE IF holder = c THEN txRow ELSE snap[c]

\* A write has been committed: the other transactions that have begun can read
\* on but not write.
Passes(c) == /\ passed' = (passed \union tx) \ {c}
             /\ raced' = raced \union {d \in Savers \ {c} : pc[d] \in {"valid", "stored"}}

-----------------------------------------------------------------------------
\* A caller, with a transaction of its own or without.

Load(c) ==
  /\ pc[c] = "idle" /\ alive /\ pc' = [pc EXCEPT ![c] = "loaded"]
  /\ names' = [names EXCEPT ![c] = row] /\ base' = [base EXCEPT ![c] = row]
  /\ \/ tx' = tx \union {c} /\ snap' = [snap EXCEPT ![c] = row]
     \/ UNCHANGED <<tx, snap>>
  /\ UNCHANGED <<rowVars, passed, raced, new, old, marked, uploaded, touched, saves, remover, flaws,
                 faults>>

\* getLatestOldValue reads the row again.
Latest(c) == IF alive \/ c \in tx THEN Seen(c) ELSE base[c]

\* Some names are removed and an upload is added; then ValidateValue refuses any
\* name that the latest row does not have. The interceptor of a save that failed
\* outside a transaction forgets what was marked.
Validate(c) ==
  /\ pc[c] = "loaded" /\ saves < MaxSaves /\ saves' = saves + 1
  /\ \E keep \in SUBSET names[c], add \in SUBSET {saves + 1} :
       /\ names' = [names EXCEPT ![c] = keep] /\ new' = [new EXCEPT ![c] = add]
       /\ \/ /\ keep \subseteq Latest(c) /\ pc' = [pc EXCEPT ![c] = "valid"]
             /\ raced' = raced \ {c} /\ UNCHANGED marked
          \/ /\ ~(keep \subseteq Latest(c))
             /\ marked' = IF c \in tx THEN marked ELSE [marked EXCEPT ![c] = {}]
             /\ UNCHANGED <<pc, raced>>
  /\ UNCHANGED <<rowVars, tx, snap, passed, base, old, uploaded, touched, remover, flaws, faults>>

\* processFilesToUpload.
Upload(c) ==
  /\ pc[c] = "valid" /\ old' = [old EXCEPT ![c] = Latest(c)]
  /\ \/ /\ stored' = stored \union new[c] /\ pc' = [pc EXCEPT ![c] = "stored"]
        /\ UNCHANGED <<marked, flaws, faults>>
     \/ /\ new[c] # {} /\ Fails("write") /\ pc' = [pc EXCEPT ![c] = "loaded"]
        /\ marked' = IF c \in tx THEN marked ELSE [marked EXCEPT ![c] = {}]
        /\ UNCHANGED stored
  /\ UNCHANGED <<alive, row, holder, txRow, txVars, names, new, base, uploaded, touched, saves, remover>>

\* persistRecord waits for another's lock; a transaction whose snapshot is not
\* the last state gets an error.
MayWrite(c) == holder \in {Nobody, c} /\ c \notin passed

\* The field is not in the statement when it is as it was loaded. (What was
\* loaded is then compared with uploads, so that the next save does write it.)
Omitted(c) == c \in Partial \ touched /\ new[c] = {} /\ names[c] = base[c]

\* rememberFilesToDelete and afterRecordExecuteSuccess.
\* Mutant: the names that were removed are those of the object.
Marked_Loaded(c) == marked[c] \union (base[c] \ names[c])

Marked(c) == marked[c] \union (old[c] \ names[c])

Remember(c) ==
  /\ marked' = [marked EXCEPT ![c] = Marked(c)]
  /\ uploaded' = [uploaded EXCEPT ![c] = @ \union new[c]]
  /\ names' = [names EXCEPT ![c] = @ \union new[c]] /\ new' = [new EXCEPT ![c] = {}]
  /\ base' = [base EXCEPT ![c] = names[c] \union new[c]] /\ old' = [old EXCEPT ![c] = {}]
  /\ touched' = IF new[c] = {} THEN touched ELSE touched \union ({c} \cap Partial)

\* What a write may run into without failing.
Met(c) ==
  (IF c \in raced THEN {"overlap"} ELSE {}) \union (IF alive THEN {} ELSE {"deleted"})
  \union (IF Omitted(c) /\ old[c] # names[c] THEN {"unchanged"} ELSE {})

\* The row of a deleted record takes no update, and nobody notices.
SetRow(c) ==
  LET value == names[c] \union new[c] IN
    \/ /\ c \in tx /\ holder' = c /\ txRow' = IF Omitted(c) THEN Seen(c) ELSE value
       /\ UNCHANGED <<row, passed, raced>>
    \/ /\ c \notin tx /\ row' = IF Omitted(c) \/ ~alive THEN row ELSE value
       /\ Passes(c) /\ UNCHANGED <<holder, txRow>>

Write(c) ==
  /\ pc[c] = "stored" /\ MayWrite(c) /\ SetRow(c) /\ Remember(c)
  /\ pc' = [pc EXCEPT ![c] = IF c \in tx THEN "loaded" ELSE "after"]
  /\ flaws' = flaws \union Met(c)
  /\ UNCHANGED <<alive, stored, tx, snap, saves, remover, faults>>

\* The statement fails.
WriteFails(c) ==
  /\ pc[c] = "stored" /\ pc' = [pc EXCEPT ![c] = "undo"]
  /\ \/ c \in passed /\ UNCHANGED <<flaws, faults>>
     \/ c \notin passed /\ Fails("write")
  /\ UNCHANGED <<rowVars, txVars, objVars, saves, remover>>

\* A hook fails after the statement: the save counts as failed, and only a
\* transaction undoes the write.
HookFails(c) ==
  /\ pc[c] = "stored" /\ MayWrite(c) /\ SetRow(c) /\ Remember(c) /\ Fails("hook")
  /\ pc' = [pc EXCEPT ![c] = IF c \in tx THEN "loaded" ELSE "aborted"]
  /\ UNCHANGED <<alive, stored, tx, snap, saves, remover>>

\* deleteFilesByNamesList: a file that cannot be deleted does not keep the
\* others; left are those that could not.
Deletes(files, left) ==
  /\ left \subseteq files /\ stored' = stored \ (files \ left)
  /\ \/ left = {} /\ UNCHANGED <<flaws, faults>>
     \/ left # {} /\ Fails("storage")

\* afterRecordExecuteFailure, and then the interceptor of the failed save.
Undone(c) == new[c]

Undo(c) ==
  /\ pc[c] = "undo" /\ \E left \in SUBSET Undone(c) : Deletes(Undone(c), left)
  /\ pc' = [pc EXCEPT ![c] = "loaded"]
  /\ marked' = IF c \in tx THEN marked ELSE [marked EXCEPT ![c] = {}]
  /\ UNCHANGED <<alive, row, holder, txRow, txVars, names, new, base, old, uploaded, touched, saves,
                 remover>>

\* AfterUpdate: what is marked and not in the field is deleted, and what could
\* not be stays marked.
After(c) ==
  /\ pc[c] = "after" /\ uploaded' = [uploaded EXCEPT ![c] = {}]
  /\ \E left \in SUBSET (marked[c] \ names[c]) :
       Deletes(marked[c] \ names[c], left) /\ marked' = [marked EXCEPT ![c] = left]
  /\ pc' = [pc EXCEPT ![c] = "loaded"]
  /\ UNCHANGED <<alive, row, holder, txRow, txVars, names, new, base, old, touched, saves, remover>>

\* AfterUpdateError outside a transaction.
Aborted(c) ==
  /\ pc[c] = "aborted" /\ marked' = [marked EXCEPT ![c] = {}]
  /\ \E left \in SUBSET uploaded[c] :
       /\ Deletes(uploaded[c], left)
       /\ uploaded' = [uploaded EXCEPT ![c] = IF left = {} THEN {} ELSE @]
  /\ pc' = [pc EXCEPT ![c] = "loaded"]
  /\ UNCHANGED <<alive, row, holder, txRow, txVars, names, new, base, old, touched, saves, remover>>

\* COMMIT or ROLLBACK, and the OnComplete of the saves that succeeded. (One that
\* a hook failed has none.)
EndTx(c) ==
  /\ c \in tx /\ pc[c] = "loaded" /\ tx' = tx \ {c} /\ snap' = [snap EXCEPT ![c] = {}]
  /\ \/ /\ holder = c /\ row' = txRow /\ Passes(c) /\ pc' = [pc EXCEPT ![c] = "after"]
     \/ UNCHANGED <<row, raced>> /\ passed' = passed \ {c} /\ pc' = [pc EXCEPT ![c] = "aborted"]
  /\ holder' = (IF holder = c THEN Nobody ELSE holder)
  /\ txRow' = (IF holder = c THEN {} ELSE txRow)
  /\ UNCHANGED <<alive, stored, objVars, saves, remover, flaws, faults>>

-----------------------------------------------------------------------------
\* The delete of the record, and __pbFilesManagerDelete__.

Remove ==
  /\ remover = "idle" /\ holder = Nobody /\ remover' = "after"
  /\ alive' = FALSE /\ row' = {} /\ Passes(Nobody)
  /\ UNCHANGED <<stored, holder, txRow, tx, snap, pc, objVars, saves, flaws, faults>>

RemoveFiles ==
  /\ remover = "after" /\ remover' = "done" /\ \E left \in SUBSET stored : Deletes(stored, left)
  /\ UNCHANGED <<alive, row, holder, txRow, txVars, pc, objVars, saves>>

Next ==
  \/ \E c \in Savers :
        \/ Load(c) \/ Validate(c) \/ Upload(c) \/ Write(c) \/ WriteFails(c) \/ HookFails(c)
        \/ Undo(c) \/ After(c) \/ Aborted(c) \/ EndTx(c)
  \/ Remove \/ RemoveFiles

Spec == Init /\ [][Next]_vars

-----------------------------------------------------------------------------
Quiet == tx = {} /\ remover # "after" /\ \A c \in Savers : pc[c] \in {"idle", "loaded"}

\* A file that the committed row names is in the storage, at any time, whatever
\* uploads, writes and deletions fail and whoever rolls back; unless another
\* commit came between a save's validation and its write, a hook failed a save
\* whose row was written, or a save left the field out of its statement while the
\* row had more files than it knew.
\* And when all is over the storage has no other file of the record, unless one
\* could not be deleted or a save wrote to a record that was gone.
FilesMatch ==
  /\ flaws \cap {"overlap", "hook", "unchanged"} = {} => row \subseteq stored
  /\ Quiet /\ flaws \subseteq {"write"} => stored = row
=============================================================================
