-------------------------------- MODULE LogBatch --------------------------------
(***************************************************************************)
(* The way of a log entry to auxiliary.db: the queue of BatchHandler, the  *)
(* writes that initLogger starts (core/base.ts), LogWriter's messages and  *)
(* the thread that stores them, and the flush before the application is    *)
(* cleared.                                                                *)
(*                                                                         *)
(* A write posts its entries one at a time and is not waited for, except   *)
(* by the stop; several may run at once.                                   *)
(***************************************************************************)
EXTENDS Naturals, Sequences

CONSTANTS
  Entries,    \* log calls: 1..n, in their order
  BatchSize

VARIABLES
  boot,     \* "starting", "up" or "down"
  queue,    \* handler.logs
  timer,    \* flushTimer
  next,     \* the next log call
  writes,   \* pendingWrites: what is left of the entries of each
  stop,     \* "no", or what the stop is about to end: "flush", "wait", "close"; "done"
  awaited,  \* the writes it waits for, named by their last entry
  writer,   \* "none", "starting", "ready", "failed" or "closed"
  wire,     \* messages to the thread; 0 is close
  stored,   \* entries in auxiliary.db, in the order of their insert
  due,      \* history: entries logged before the stop, not discarded and not refused
  broken    \* history: the thread failed to start, or was terminated

threadVars == <<writer, wire, stored>>
stopVars == <<stop, awaited>>
vars == <<boot, queue, timer, next, writes, stopVars, threadVars, due, broken>>

ToSet(s) == {s[i] : i \in DOMAIN s}
Last(s) == s[Len(s)]

TypeOK ==
  /\ boot \in {"starting", "up", "down"} /\ timer \in BOOLEAN
  /\ ToSet(queue) \subseteq Entries /\ Len(queue) < BatchSize
  /\ \A w \in writes : w # <<>> /\ ToSet(w) \subseteq Entries
  /\ stop \in {"no", "flush", "wait", "close", "done"} /\ awaited \subseteq Entries
  /\ writer \in {"none", "starting", "ready", "failed", "closed"}
  /\ ToSet(wire) \subseteq Entries \union {0} /\ ToSet(stored) \subseteq Entries
  /\ due \subseteq Entries /\ broken \in BOOLEAN

Init ==
  /\ boot = "starting" /\ queue = <<>> /\ timer = FALSE /\ next = 1
  /\ writes = {} /\ stop = "no" /\ awaited = {}
  /\ writer = "none" /\ wire = <<>> /\ stored = <<>> /\ due = {} /\ broken = FALSE

-----------------------------------------------------------------------------
\* WriteAll and the part of writeLogs before its first await: before the
\* application is up (and after it is down) the entries are discarded.
Left(logs) == <<>>

WriteAll(logs) ==
  /\ queue' = Left(logs)
  /\ \/ /\ boot = "up" /\ logs # <<>>
        /\ writes' = writes \union {logs}
        /\ writer' = IF writer = "none" THEN "starting" ELSE writer
     \/ logs = <<>> /\ UNCHANGED <<writes, writer>>
     \/ boot # "up" /\ logs # <<>> /\ UNCHANGED <<writes, writer>>

Discarded(logs) == IF boot = "up" THEN {} ELSE ToSet(logs)

\* Handle: BeforeAddFunc starts the timer anew, then the entry is queued.
Log ==
  /\ next \in Entries /\ boot # "down" /\ next' = next + 1
  /\ timer' = (stop = "no")
  /\ LET logs == Append(queue, next) IN
       \/ /\ Len(logs) < BatchSize /\ queue' = logs /\ UNCHANGED <<writes, writer>>
          /\ due' = IF stop = "no" THEN due \union {next} ELSE due
       \/ /\ Len(logs) >= BatchSize /\ WriteAll(logs)
          /\ due' = (IF stop = "no" THEN due \union {next} ELSE due) \ Discarded(logs)
  /\ UNCHANGED <<boot, stopVars, wire, stored, broken>>

Flush ==
  /\ timer /\ timer' = FALSE /\ WriteAll(queue) /\ due' = due \ Discarded(queue)
  /\ UNCHANGED <<boot, next, stopVars, wire, stored, broken>>

Boot ==
  /\ boot = "starting" /\ boot' = "up"
  /\ UNCHANGED <<queue, timer, next, writes, stopVars, threadVars, due, broken>>

-----------------------------------------------------------------------------
\* One entry of a write: LogWriter.run waits for the thread's first answer; a
\* closed writer and one that did not start lose the entry.
Post(w) ==
  /\ writer # "starting"
  /\ writes' = (writes \ {w}) \union (IF Len(w) = 1 THEN {} ELSE {Tail(w)})
  /\ wire' = IF writer = "ready" THEN Append(wire, Head(w)) ELSE wire
  /\ UNCHANGED <<boot, queue, timer, next, stopVars, writer, stored, due, broken>>

\* The thread answers to init, whether it could open the database or not.
\* Mutant: it answers only when it could.
Answers_Opened ==
  \/ writer' = "ready" /\ UNCHANGED broken
  \/ UNCHANGED writer /\ broken' = TRUE

Answers ==
  \/ writer' = "ready" /\ UNCHANGED broken
  \/ writer' = "failed" /\ broken' = TRUE

Started ==
  /\ writer = "starting" /\ ~broken /\ Answers
  /\ UNCHANGED <<boot, queue, timer, next, writes, stopVars, wire, stored, due>>

\* handleRun: the thread ignores an insert that fails.
Store ==
  /\ wire # <<>> /\ Head(wire) # 0 /\ wire' = Tail(wire)
  /\ \/ stored' = Append(stored, Head(wire)) /\ UNCHANGED due
     \/ due' = due \ {Head(wire)} /\ UNCHANGED stored
  /\ UNCHANGED <<boot, queue, timer, next, writes, stopVars, writer, broken>>

-----------------------------------------------------------------------------
\* The hook __pbAppLoggerFlushBeforeStop__, outside an auxiliary transaction.

Down == stop' = "done" /\ boot' = "down"

StopBegin ==
  /\ boot = "up" /\ stop = "no" /\ timer' = FALSE
  /\ \/ /\ queue = <<>> /\ writes = {} /\ writer = "none" /\ Down
        /\ UNCHANGED <<queue, writes, writer, awaited>>
     \/ /\ ~(queue = <<>> /\ writes = {} /\ writer = "none")
        /\ stop' = "flush" /\ WriteAll(queue)
        /\ awaited' = IF queue = <<>> THEN {} ELSE {Last(queue)}
        /\ UNCHANGED boot
  /\ UNCHANGED <<next, wire, stored, due, broken>>

Ended == \A w \in writes : Last(w) \notin awaited

\* Promise.all(pendingWrites): those that run now.
\* Mutant: only what the stop itself has flushed.
Pending_Own == {}

Pending == {Last(w) : w \in writes}

StopWait ==
  /\ stop = "flush" /\ Ended /\ stop' = "wait" /\ awaited' = Pending
  /\ UNCHANGED <<boot, queue, timer, next, writes, threadVars, due, broken>>

\* LogWriter.close, if there is a writer.
StopClose ==
  /\ stop = "wait" /\ Ended
  /\ \/ writer = "none" /\ Down /\ UNCHANGED <<writer, wire>>
     \/ /\ writer # "none" /\ stop' = "close" /\ writer' = "closed"
        /\ wire' = Append(wire, 0) /\ UNCHANGED boot
  /\ UNCHANGED <<queue, timer, next, writes, awaited, stored, due, broken>>

\* The thread has closed its database, or a second has passed: the thread is
\* terminated and what it did not get to is lost.
Closed ==
  /\ stop = "close"
  /\ \/ Head(wire) = 0 /\ UNCHANGED broken
     \/ Head(wire) # 0 /\ broken' = TRUE
  /\ wire' = <<>> /\ Down
  /\ UNCHANGED <<queue, timer, next, writes, awaited, writer, stored, due>>

Next ==
  \/ Log \/ Flush \/ Boot \/ Started \/ Store \/ (\E w \in writes : Post(w))
  \/ StopBegin \/ StopWait \/ StopClose \/ Closed

Spec == Init /\ [][Next]_vars

\* The event loop runs on, and the thread answers to init.
Fairness ==
  WF_vars(\E w \in writes : Post(w)) /\ WF_vars(Started)
    /\ WF_vars(StopWait) /\ WF_vars(StopClose) /\ WF_vars(Closed)
FairSpec == Spec /\ Fairness

-----------------------------------------------------------------------------
\* What was logged before the stop is stored when it has ended, if the thread
\* works, the database takes it and there is the time; and no entry is stored twice.
KeptOnce ==
  /\ \A i, j \in DOMAIN stored : stored[i] = stored[j] => i = j
  /\ stop = "done" /\ ~broken => due \subseteq ToSet(stored)

\* A stop ends, whatever the thread does.
StopEnds == stop # "no" ~> stop = "done"
=============================================================================
