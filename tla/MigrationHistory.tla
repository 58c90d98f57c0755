----------------------------- MODULE MigrationHistory -----------------------------
(***************************************************************************)
(* Migrations, and the table _migrations that remembers them               *)
(* (src/core/migrations_runner.ts).                                        *)
(*                                                                         *)
(* A runner reads the history, runs what is missing in a transaction of    *)
(* data.db inside one of auxiliary.db, and commits the two one after the   *)
(* other; the history is in data.db. Several processes may do so: a        *)
(* bootstrap, a server that starts, the migrate command.                   *)
(***************************************************************************)
EXTENDS Naturals, SequencesExt

CONSTANTS
  Procs,      \* processes on one data directory
  System,     \* migrations, numbered in the order of their names: those of the program,
  App,        \* and those of the application
  Aux,        \* those that change auxiliary.db
  Repaired,   \* of these, those with a reapplyCondition: is the change there?
  MaxRuns,    \* bound: runs
  MaxTorn     \* bound: runs that end between the two commits

Files == System \union App

\* What a runner is made for: bootstrap, serve, and the migrate command, whose
\* copy of the two lists loses the conditions (MigrationsList.copy).
Lists == {[files |-> System, repair |-> Repaired], [files |-> App, repair |-> Repaired],
          [files |-> Files, repair |-> {}]}

VARIABLES
  done,     \* migrations whose change is in its database
  history,  \* the rows of _migrations, in the order of `applied`
  pc,       \* of a process: "idle", "loaded", "asked", "open", "half"
  list,     \* the list of its runner
  names,    \* what it has read of the history
  work,     \* what it is about to commit
  runs,
  torn,     \* history: runs that ended between the commits
  lost,     \* history: migrations whose change did not get into auxiliary.db, or was
            \*   found there, or not there, against what the history says
  twice     \* history: migrations made a second time

procVars == <<pc, list, names, work>>
vars == <<done, history, procVars, runs, torn, lost, twice>>

Idle == [done |-> {}, history |-> <<>>, twice |-> {}, missed |-> {}, aux |-> FALSE]
Copied == [files |-> Files, repair |-> {}]

TypeOK ==
  /\ done \subseteq Files /\ history \in Seq(Files) /\ lost \subseteq Files /\ twice \subseteq Files
  /\ pc \in [Procs -> {"idle", "loaded", "asked", "open", "half"}]
  /\ list \in [Procs -> Lists] /\ names \in [Procs -> Seq(Files)]
  /\ \A p \in Procs : work[p].done \subseteq Files /\ work[p].history \in Seq(Files)
  /\ runs \in 0..MaxRuns /\ torn \in 0..MaxTorn

Init ==
  /\ done = {} /\ history = <<>>
  /\ pc = [p \in Procs |-> "idle"] /\ list = [p \in Procs |-> Copied]
  /\ names = [p \in Procs |-> <<>>] /\ work = [p \in Procs |-> Idle]
  /\ runs = 0 /\ torn = 0 /\ lost = {} /\ twice = {}

-----------------------------------------------------------------------------
\* What a migration does to s, the state of the two databases in a transaction.

\* up of one file: it is due when the history that was read does not have it, or
\* when its change is not there. Some migrations fail when their change is there,
\* and some make it again (strict); the row of a file that has one is refused.
Refused(rows, f) == f \in ToSet(rows)

Apply(s, f, read, repair, strict) ==
  LET again == f \in ToSet(read)
      due == ~again \/ (f \in repair /\ f \notin s.done)
      rows == IF again THEN RemoveFirst(s.history, f) ELSE s.history
      over == f \in s.done \ Repaired
  IN  IF s.failed \/ ~due THEN s
      ELSE IF Refused(rows, f) \/ (over /\ strict) THEN [s EXCEPT !.failed = TRUE]
      ELSE [s EXCEPT !.done = @ \union {f}, !.history = Append(rows, f),
                     !.twice = IF over THEN @ \union {f} ELSE @,
                     !.missed = IF f \in s.done \ ToSet(rows) THEN @ \union {f} ELSE @]

\* down of one file; the change of those with a condition may be gone.
Revert(s, f, strict) ==
  IF s.failed \/ (f \notin s.done \union Repaired /\ strict) THEN [s EXCEPT !.failed = TRUE]
  ELSE [s EXCEPT !.done = @ \ {f}, !.history = RemoveFirst(@, f),
                 !.missed = IF f \in s.done THEN @ ELSE @ \union {f}]

Start == [done |-> done, history |-> history, twice |-> {}, missed |-> {}, failed |-> FALSE]

\* The files of a run, in its order: by number, or those last applied first.
Order(p) == IF pc[p] = "loaded" THEN [f \in list[p].files |-> f] ELSE names[p]

Migrate(p, s, f, strict) ==
  IF pc[p] = "loaded" THEN Apply(s, f, names[p], list[p].repair, strict) ELSE Revert(s, f, strict)

Migrated(p, strict) ==
  MapThenFoldSet(LAMBDA f, s : Migrate(p, s, f, strict), Start,
                 LAMBDA i : Order(p)[i], LAMBDA S : Max(S), DOMAIN Order(p))

-----------------------------------------------------------------------------
\* auxiliary.db is locked by a process that has changed it and not committed.
Locked(p) == \E q \in Procs \ {p} : pc[q] = "half" /\ work[q].aux

\* A run ends: it leaves no change undone that it can repair, if it was alone.
Over(p, l, read) ==
  /\ pc' = [pc EXCEPT ![p] = "idle"] /\ work' = [work EXCEPT ![p] = Idle]
  /\ lost' = IF read = history /\ ~Locked(p) THEN lost \ (l.files \cap l.repair) ELSE lost

\* up returns early when all is applied and there is no condition to ask.
\* Mutant: when all is applied.
NothingToDo_Applied(l) == l.files \subseteq ToSet(history)

NothingToDo(l) == l.files \subseteq ToSet(history) /\ l.files \cap l.repair = {}

LoadUp(p, l) ==
  /\ pc[p] = "idle" /\ runs < MaxRuns /\ runs' = runs + 1
  /\ list' = [list EXCEPT ![p] = l] /\ names' = [names EXCEPT ![p] = history]
  /\ \/ NothingToDo(l) /\ Over(p, l, history)
     \/ ~NothingToDo(l) /\ pc' = [pc EXCEPT ![p] = "loaded"] /\ UNCHANGED <<work, lost>>
  /\ UNCHANGED <<done, history, torn, twice>>

\* migrate down n: the last n of the history, which the user has to confirm.
LoadDown(p, n) ==
  /\ pc[p] = "idle" /\ runs < MaxRuns /\ runs' = runs + 1
  /\ n \in 1..Len(history) /\ list' = [list EXCEPT ![p] = Copied]
  /\ names' = [names EXCEPT ![p] = SubSeq(Reverse(history), 1, n)]
  /\ pc' = [pc EXCEPT ![p] = "asked"]
  /\ UNCHANGED <<done, history, work, torn, lost, twice>>

\* The migrations run in one go, when no other process has the lock of data.db.
Open(p, s) ==
  LET aux == s.done \cap Aux # done \cap Aux \/ s.twice \cap Aux # {} IN
    /\ ~s.failed /\ \A q \in Procs : pc[q] # "open"
    /\ \/ /\ s.history = history /\ s.done = done /\ s.twice = {}
          /\ IF pc[p] = "loaded" THEN Over(p, list[p], names[p])
             ELSE pc' = [pc EXCEPT ![p] = "idle"] /\ UNCHANGED <<work, lost>>
       \/ /\ s.history # history \/ s.done # done \/ s.twice # {}
          /\ aux => ~Locked(p)
          /\ pc' = [pc EXCEPT ![p] = "open"]
          /\ work' = [work EXCEPT ![p] = [done |-> s.done, history |-> s.history,
                                          twice |-> s.twice, missed |-> s.missed, aux |-> aux]]
          /\ UNCHANGED lost
    /\ UNCHANGED <<done, history, list, names, runs, torn, twice>>

Up(p) == pc[p] = "loaded" /\ \E strict \in BOOLEAN : Open(p, Migrated(p, strict))
Down(p) == pc[p] = "asked" /\ \E strict \in BOOLEAN : Open(p, Migrated(p, strict))

\* A migration or a statement fails, a lock is not to be had, the user declines,
\* the process ends: both databases stay as they were.
Fail(p) ==
  /\ pc[p] \in {"loaded", "asked", "open"}
  /\ pc' = [pc EXCEPT ![p] = "idle"] /\ work' = [work EXCEPT ![p] = Idle]
  /\ UNCHANGED <<done, history, list, names, runs, torn, lost, twice>>

\* The inner transaction, that of data.db, commits first.
CommitMain(p) ==
  /\ pc[p] = "open" /\ pc' = [pc EXCEPT ![p] = "half"]
  /\ done' = (done \cap Aux) \union (work[p].done \ Aux)
  /\ history' = work[p].history /\ twice' = twice \union work[p].twice
  /\ lost' = lost \union work[p].missed
  /\ UNCHANGED <<list, names, work, runs, torn>>

CommitAux(p) ==
  /\ pc[p] = "half"
  /\ done' = IF work[p].aux THEN (done \ Aux) \union (work[p].done \cap Aux) ELSE done
  /\ Over(p, [files |-> {}, repair |-> {}], history)
  /\ UNCHANGED <<history, list, names, runs, torn, twice>>

\* The process ends between the two, or the second fails.
Tear(p) ==
  /\ pc[p] = "half" /\ torn < MaxTorn /\ torn' = torn + 1
  /\ pc' = [pc EXCEPT ![p] = "idle"] /\ work' = [work EXCEPT ![p] = Idle]
  /\ lost' = IF work[p].aux THEN lost \union {f \in Aux : (f \in work[p].done) # (f \in done)}
             ELSE lost
  /\ UNCHANGED <<done, history, list, names, runs, twice>>

Next ==
  \E p \in Procs :
    \/ \E l \in Lists : LoadUp(p, l)
    \/ \E n \in 1..2 : LoadDown(p, n)
    \/ Up(p) \/ Down(p) \/ Fail(p) \/ CommitMain(p) \/ CommitAux(p) \/ Tear(p)

Spec == Init /\ [][Next]_vars

-----------------------------------------------------------------------------
\* The history tells what is in the databases, whichever processes migrate, fail
\* and end: it differs only in a migration of auxiliary.db that was torn from its
\* row, and for those with a condition only until the next run that looks at it.
\* And no migration is made on top of itself, unless it was torn so.
HistoryTrue ==
  /\ (\A p \in Procs : pc[p] # "half") =>
       \A f \in Files : (f \in ToSet(history)) # (f \in done) => f \in lost
  /\ twice \subseteq lost
=============================================================================
