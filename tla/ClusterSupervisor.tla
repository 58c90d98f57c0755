-------------------------- MODULE ClusterSupervisor --------------------------
(***************************************************************************)
(* The supervising primary of a PocketBun cluster: it starts one worker    *)
(* per slot, replaces workers that crash, recycles all of them for a       *)
(* restart, silences all but one for a restore, and stops them on a        *)
(* signal (src/internal/cluster/primary.ts, runClusterPrimary).            *)
(*                                                                         *)
(* A worker is a pair <<slot, n>>: the n-th process forked for the slot.   *)
(* One action is one turn of the primary's event loop, or one step of a    *)
(* worker process.  Delays are not measured: a timer may fire as soon as   *)
(* it is set, and what the environment may do is listed in Faults.         *)
(***************************************************************************)
EXTENDS Integers, FiniteSets

CONSTANTS
  Followers,    \* the slots of the followers
  Leader,       \* the slot of the leader
  None,         \* no worker
  MaxForks,     \* bound: processes forked for one slot
  MaxOps,       \* bound: restarts and backup/restore leases requested
  MaxFaults,    \* bound: faults that happen
  CrashBudget,  \* crashBudget: crashes of a slot in a window that are fatal
  Faults        \* the kinds of fault that happen

FaultKinds == {
  "start",    \* a worker exits, or hangs, before it is ready
  "crash",    \* a ready worker exits while no recycle is under way
  "recycle",  \* a ready worker exits while the primary recycles the cluster
  "slow",     \* a worker outlives the time the primary waits for its exit
  "delivery", \* a coordinator delivery times out
  "swap",     \* replacing the data directory fails
  "stray",    \* a worker that is not ready, or was told to exit, makes a request
  "signal" }  \* the operator stops the primary

Slots == Followers \cup {Leader}
Workers == Slots \X (1..MaxForks)

ASSUME SupervisorAssumption ==
  /\ Leader \notin Followers
  /\ None \notin Workers
  /\ MaxOps \in Nat /\ MaxFaults \in Nat
  /\ MaxForks \in Nat \ {0} /\ CrashBudget \in Nat \ {0}
  /\ Faults \subseteq FaultKinds

VARIABLES
  life,         \* lifecycleState
  shuttingDown, \* shuttingDown
  fatal,        \* fatalError is set
  stopped,      \* runClusterPrimary returned and released the guard
  boot,         \* the main routine: it awaits the leader, then the followers
  booting,      \* the slots whose loop of ensureSlot the main routine awaits
  lc,           \* the recycle or quiesce under way
  targets,      \* the workers stopWorkers waits for
  restoreOwner, \* restoreOwnerId
  lease,        \* the worker that holds the coordinator's backup lease
  opc,          \* how far that worker is with its restore
  rec,          \* records: the number of the slot's current worker, 0 if none
  forks,        \* processes forked for the slot so far
  up,           \* worker processes that run
  ready,        \* records whose ready flag is set
  intentional,  \* records whose exit is expected
  told,         \* workers that were sent a message or a signal to exit
  repl,         \* the loop of ensureSlot running for the slot, if any
  sched,        \* replacements of the slot scheduled and not started
  crashes,      \* crashes of the slot within the crash window
  stale,        \* history: workers that ran while the data was replaced
  faults, ops   \* how often the environment acted

stateVars == <<life, shuttingDown, fatal, stopped, boot, booting, lc, targets>>
leaseVars == <<restoreOwner, lease, opc, stale>>
slotVars == <<rec, forks, repl, sched, crashes>>
workerVars == <<up, ready, intentional, told>>
vars == <<stateVars, leaseVars, slotVars, workerVars, faults, ops>>

(***************************************************************************)
(* The data directory is being replaced, or is replaced and not yet        *)
(* confirmed, while the owner of a restore is in one of these steps.       *)
(***************************************************************************)
Replacing == opc \in {"swap", "complete", "undo"}

TypeOK ==
  /\ life \in {"running", "restarting", "restoring"}
  /\ shuttingDown \in BOOLEAN /\ fatal \in BOOLEAN /\ stopped \in BOOLEAN
  /\ boot \in {"leader", "followers", "done"} /\ booting \subseteq Slots
  /\ lc \in {"idle", "respond", "stop", "leader", "followers", "quiesce"}
  /\ targets \subseteq Workers
  /\ restoreOwner \in Workers \cup {None}
  /\ lease \in Workers \cup {None}
  /\ opc \in {"idle", "hold", "quiesce", "swap", "complete", "undo", "abort", "abortFatal"}
  /\ rec \in [Slots -> 0..MaxForks] /\ forks \in [Slots -> 0..MaxForks]
  /\ up \subseteq Workers /\ ready \subseteq Workers
  /\ intentional \subseteq Workers /\ told \subseteq Workers
  /\ repl \in [Slots -> {"none", "wait", "reap", "backoff"}]
  /\ sched \in [Slots -> Nat] /\ crashes \in [Slots -> Nat]
  /\ stale \subseteq Workers
  /\ faults \in Nat /\ ops \in Nat

-----------------------------------------------------------------------------
Records == {w \in Workers : rec[w[1]] = w[2]}
Ready(s) == \E w \in ready : w[1] = s /\ rec[s] = w[2]

\* The environment takes one of its faults.
Fault(kind) == kind \in Faults /\ faults < MaxFaults /\ faults' = faults + 1

(***************************************************************************)
(* ensureSlot for every slot of S: a slot that is ready or already being   *)
(* started is left alone, for the others the loop forks a worker at once.  *)
(* Nothing is forked once shuttingDown is set.                             *)
(***************************************************************************)
ForkFor(M) ==
  /\ \A s \in M : forks[s] < MaxForks
  /\ forks' = [s \in Slots |-> IF s \in M THEN forks[s] + 1 ELSE forks[s]]
  /\ rec' = [s \in Slots |-> IF s \in M THEN forks[s] + 1 ELSE rec[s]]
  /\ repl' = [s \in Slots |-> IF s \in M THEN "wait" ELSE repl[s]]
  /\ LET new == {w \in Workers : w[1] \in M /\ w[2] = forks[w[1]] + 1}
     IN  /\ up' = up \cup new
         /\ stale' = IF Replacing THEN stale \cup new ELSE stale
  /\ UNCHANGED ready

\* Mutant: a loop that runs already is not joined.
Unstarted_Joined(s) == ~shuttingDown /\ ~Ready(s)
Unstarted(s) == ~shuttingDown /\ ~Ready(s) /\ repl[s] = "none"

EnsureSlots(S) == ForkFor({s \in S : Unstarted(s)})

\* Mutant: the workers are marked and not told.
SendAway_Untold(S) == intentional' = intentional \cup S /\ UNCHANGED told

\* The primary marks workers as leaving and tells or kills them.
SendAway(S) == intentional' = intentional \cup S /\ told' = told \cup S

\* stopWorkers ends its wait: the targets exited, or the wait ran out and those
\* left are not the recorded workers of their slots any more.
\* Mutant: it waits for every worker, the owner of the restore included.
Stopped_All == up = {} /\ UNCHANGED faults
Stopped ==
  \/ targets \cap up = {} /\ UNCHANGED faults
  \/ targets \cap up # {} /\ targets \cap up \cap Records = {} /\ Fault("slow")

NotStopped == targets \cap up \cap Records # {} /\ Fault("slow")

\* fail: the first fatal error forces every recorded worker out.
Fail(records) == fatal' = TRUE /\ shuttingDown' = TRUE /\ SendAway(records)

OutOfBudget(s) == crashes[s] + 1 >= CrashBudget
CountCrash(s) == crashes' = [crashes EXCEPT ![s] = @ + 1]

-----------------------------------------------------------------------------
Init ==
  /\ life = "running" /\ shuttingDown = FALSE /\ fatal = FALSE /\ stopped = FALSE
  /\ boot = "leader" /\ booting = {Leader} /\ lc = "idle" /\ targets = {}
  /\ restoreOwner = None /\ lease = None /\ opc = "idle" /\ stale = {}
  /\ rec = [s \in Slots |-> IF s = Leader THEN 1 ELSE 0]
  /\ forks = rec
  /\ repl = [s \in Slots |-> IF s = Leader THEN "wait" ELSE "none"]
  /\ sched = [s \in Slots |-> 0] /\ crashes = [s \in Slots |-> 0]
  /\ up = {<<Leader, 1>>} /\ ready = {} /\ intentional = {} /\ told = {}
  /\ faults = 0 /\ ops = 0

\* The main routine awaits the leader, then starts the followers together.
BootFollowers ==
  /\ boot = "leader" /\ booting = {}
  /\ EnsureSlots(Followers)
  /\ boot' = "followers" /\ booting' = {s \in Followers : repl'[s] # "none"}
  /\ UNCHANGED <<life, shuttingDown, fatal, stopped, lc, targets, restoreOwner, lease,
                 opc, sched, crashes, intentional, told, faults, ops>>

BootDone ==
  /\ boot = "followers" /\ booting = {}
  /\ boot' = "done"
  /\ UNCHANGED <<life, shuttingDown, fatal, stopped, booting, lc, targets, leaseVars,
                 slotVars, workerVars, faults, ops>>

-----------------------------------------------------------------------------
(***************************************************************************)
(* The loop of ensureSlot.                                                 *)
(***************************************************************************)
LoopEnds(s) == repl' = [repl EXCEPT ![s] = "none"] /\ booting' = booting \ {s}

\* worker.ready was validated and the worker joined the ready set.
BecomeReady(w) ==
  /\ w \in up \ ready
  /\ ready' = ready \cup {w}
  /\ IF repl[w[1]] = "wait" /\ forks[w[1]] = w[2]
     THEN LoopEnds(w[1]) ELSE UNCHANGED <<repl, booting>>
  /\ UNCHANGED <<life, shuttingDown, fatal, stopped, boot, lc, targets, leaseVars, rec,
                 forks, sched, crashes, up, intentional, told, faults, ops>>

\* The worker the loop waits for is not ready in time and is killed.
ReadyTimeout(s) ==
  /\ repl[s] = "wait" /\ <<s, forks[s]>> \in up
  /\ Fault("start")
  /\ repl' = [repl EXCEPT ![s] = "reap"]
  /\ SendAway({<<s, forks[s]>>})
  /\ UNCHANGED <<stateVars, leaseVars, rec, forks, sched, crashes, up, ready, ops>>

\* The loop stops waiting for a failed worker to exit, and counts the crash.  If it
\* gives up, so does the main routine when that awaits it.
Reap(s) ==
  /\ repl[s] = "reap"
  /\ \/ <<s, forks[s]>> \notin up /\ UNCHANGED faults
     \/ <<s, forks[s]>> \in up /\ Fault("slow")
  /\ \/ /\ shuttingDown
        /\ LoopEnds(s)
        /\ UNCHANGED <<boot, crashes, fatal, shuttingDown, intentional, told>>
     \/ /\ ~shuttingDown /\ OutOfBudget(s)
        /\ LoopEnds(s) /\ boot' = (IF s \in booting THEN "done" ELSE boot)
        /\ CountCrash(s) /\ Fail(Records)
     \/ /\ ~shuttingDown /\ ~OutOfBudget(s)
        /\ repl' = [repl EXCEPT ![s] = "backoff"]
        /\ CountCrash(s)
        /\ UNCHANGED <<boot, booting, fatal, shuttingDown, intentional, told>>
  /\ UNCHANGED <<life, stopped, lc, targets, leaseVars, rec, forks, sched, up, ready, ops>>

\* The loop wakes from its delay; it looks at shuttingDown and nothing else.
Retry(s) ==
  /\ repl[s] = "backoff"
  /\ \/ ~shuttingDown /\ ForkFor({s}) /\ UNCHANGED booting
     \/ /\ shuttingDown
        /\ LoopEnds(s)
        /\ UNCHANGED <<forks, rec, up, ready, stale>>
  /\ UNCHANGED <<life, shuttingDown, fatal, stopped, boot, lc, targets, restoreOwner, lease,
                 opc, sched, crashes, intentional, told, faults, ops>>

-----------------------------------------------------------------------------
(***************************************************************************)
(* The exit handler of a worker.                                           *)
(***************************************************************************)
OwnerLost(w) == life = "restoring" /\ restoreOwner = w /\ w \notin intentional

\* Mutant: crashes count once the cluster has booted.
Crashed_Booted(w) ==
  /\ w \notin intentional /\ ~shuttingDown /\ life = "running" /\ w \in ready
  /\ boot = "done"
Crashed(w) ==
  w \notin intentional /\ ~shuttingDown /\ life = "running" /\ w \in ready

Gone(w) ==
  /\ up' = up \ {w} /\ ready' = ready \ {w}
  /\ rec' = IF rec[w[1]] = w[2] THEN [rec EXCEPT ![w[1]] = 0] ELSE rec
  /\ repl' = IF repl[w[1]] = "wait" /\ forks[w[1]] = w[2]
             THEN [repl EXCEPT ![w[1]] = "reap"] ELSE repl
  /\ lease' = IF lease = w THEN None ELSE lease
  /\ opc' = IF lease = w \/ restoreOwner = w THEN "idle" ELSE opc
  /\ UNCHANGED <<life, stopped, boot, booting, lc, targets, restoreOwner, stale, forks, ops>>

\* A worker exits because it was told to, or by a fault.
ExitCause(w) ==
  \/ w \in told /\ UNCHANGED faults
  \/ w \notin told /\ w \notin ready /\ Fault("start")
  \/ w \notin told /\ w \in ready /\ lc \notin {"leader", "followers"} /\ Fault("crash")
  \/ w \notin told /\ w \in ready /\ lc \in {"leader", "followers"} /\ Fault("recycle")

\* The worker that owns a restore is lost: fatal.
ExitOwner(w) ==
  /\ w \in up /\ OwnerLost(w)
  /\ ExitCause(w) /\ Gone(w)
  /\ Fail(Records \ {w})
  /\ UNCHANGED <<sched, crashes>>

\* A ready worker crashed: schedule its replacement, or give up.
ExitCrashed(w) ==
  /\ w \in up /\ ~OwnerLost(w) /\ Crashed(w)
  /\ ExitCause(w) /\ Gone(w) /\ CountCrash(w[1])
  /\ \/ /\ OutOfBudget(w[1])
        /\ Fail(Records \ {w}) /\ UNCHANGED sched
     \/ /\ ~OutOfBudget(w[1])
        /\ sched' = [sched EXCEPT ![w[1]] = @ + 1]
        /\ UNCHANGED <<fatal, shuttingDown, intentional, told>>

\* Any other exit is only recorded.
ExitExpected(w) ==
  /\ w \in up /\ ~OwnerLost(w) /\ ~Crashed(w)
  /\ ExitCause(w) /\ Gone(w)
  /\ UNCHANGED <<sched, crashes, fatal, shuttingDown, intentional, told>>

\* A scheduled replacement wakes up; it gives up unless the cluster is running.
StartReplacement(s) ==
  /\ sched[s] > 0
  /\ sched' = [sched EXCEPT ![s] = @ - 1]
  /\ EnsureSlots(IF life = "running" THEN {s} ELSE {})
  /\ UNCHANGED <<stateVars, restoreOwner, lease, opc, crashes, intentional, told,
                 faults, ops>>

Remembered(s) == crashes[s] > 0 /\ ~shuttingDown

\* A crash leaves the crash window.
ForgetCrash(s) ==
  /\ Remembered(s)
  /\ crashes' = [crashes EXCEPT ![s] = @ - 1]
  /\ UNCHANGED <<stateVars, leaseVars, rec, forks, repl, sched, workerVars, faults, ops>>

-----------------------------------------------------------------------------
(***************************************************************************)
(* Lifecycle requests of a worker, and the work they start.  The primary   *)
(* answers any worker process; but one makes a request while it serves,    *)
(* which it does before it is ready and until it has exited ("stray").     *)
(***************************************************************************)
Request(w) == w \in up /\ (w \in ready \ told \/ "stray" \in Faults)

\* lifecycle.restart
Restart(w) ==
  /\ Request(w) /\ ops < MaxOps /\ ops' = ops + 1
  /\ life = "running" /\ lease = None
  /\ life' = "restarting" /\ lc' = "respond"
  /\ UNCHANGED <<shuttingDown, fatal, stopped, boot, booting, targets, leaseVars, slotVars,
                 workerVars, faults>>

\* recycleWorkers tells every recorded worker to exit.
RecycleBegin ==
  /\ lc = "respond"
  /\ lc' = "stop" /\ targets' = Records /\ SendAway(Records)
  /\ UNCHANGED <<life, shuttingDown, fatal, stopped, boot, booting, leaseVars, slotVars, up,
                 ready, faults, ops>>

\* All targets exited: the leader is started first.
RecycleStopped ==
  /\ lc = "stop" /\ Stopped
  /\ lc' = "leader"
  /\ EnsureSlots({Leader})
  /\ UNCHANGED <<life, shuttingDown, fatal, stopped, boot, booting, targets, restoreOwner, lease,
                 opc, sched, crashes, intentional, told, ops>>

\* A target outlives SIGKILL's wait: recycling fails, and that is fatal.
RecycleStuck ==
  /\ lc = "stop" /\ NotStopped
  /\ lc' = "idle" /\ Fail(Records)
  /\ UNCHANGED <<life, stopped, boot, booting, targets, leaseVars, slotVars, up, ready, ops>>

RecycleFollowers ==
  /\ lc = "leader" /\ repl[Leader] = "none"
  /\ lc' = "followers"
  /\ EnsureSlots(Followers)
  /\ UNCHANGED <<life, shuttingDown, fatal, stopped, boot, booting, targets, restoreOwner, lease,
                 opc, sched, crashes, intentional, told, faults, ops>>

RecycleDone ==
  /\ lc = "followers" /\ \A s \in Followers : repl[s] = "none"
  /\ lc' = "idle" /\ life' = "running"
  /\ UNCHANGED <<shuttingDown, fatal, stopped, boot, booting, targets, leaseVars, slotVars,
                 workerVars, faults, ops>>

-----------------------------------------------------------------------------
(***************************************************************************)
(* A restore: the lease, restore.begin, and what the owner does after it.  *)
(***************************************************************************)

\* backup.acquire and backup.release around a backup or a restore.
Acquire(w) ==
  /\ Request(w) /\ ops < MaxOps /\ ops' = ops + 1
  /\ life = "running" /\ lease = None
  /\ lease' = w /\ opc' = "hold"
  /\ UNCHANGED <<stateVars, restoreOwner, stale, slotVars, workerVars, faults>>

Release(w) ==
  /\ lease = w /\ opc = "hold"
  /\ lease' = None /\ opc' = "idle"
  /\ UNCHANGED <<stateVars, restoreOwner, stale, slotVars, workerVars, faults, ops>>

\* Mutant: the owner is told to exit as well.
Others_All(w) == Records
Others(w) == Records \ {w}

\* restore.begin stops every other recorded worker.
RestoreBegin(w) ==
  /\ Request(w) /\ lease = w /\ opc = "hold" /\ life = "running"
  /\ life' = "restoring" /\ restoreOwner' = w /\ opc' = "quiesce"
  /\ lc' = "quiesce" /\ targets' = Others(w) /\ SendAway(Others(w))
  /\ UNCHANGED <<shuttingDown, fatal, stopped, boot, booting, lease, stale, slotVars, up, ready,
                 faults, ops>>

\* The others exited: the owner begins to replace the data directory.
Quiesced ==
  /\ lc = "quiesce" /\ Stopped
  /\ lc' = "idle"
  /\ opc' = IF opc = "quiesce" THEN "swap" ELSE opc
  /\ stale' = IF opc = "quiesce" THEN stale \cup up ELSE stale
  /\ UNCHANGED <<life, shuttingDown, fatal, stopped, boot, booting, targets, restoreOwner, lease,
                 slotVars, workerVars, ops>>

\* stopWorkers throws: the owner asks to abort before it touched the data.
QuiesceStuck ==
  /\ lc = "quiesce" /\ NotStopped
  /\ lc' = "idle"
  /\ opc' = IF opc = "quiesce" THEN "abort" ELSE opc
  /\ UNCHANGED <<life, shuttingDown, fatal, stopped, boot, booting, targets, restoreOwner, lease,
                 stale, slotVars, workerVars, ops>>

\* The owner replaced the data directory, or failed to.
SwapDone ==
  /\ opc = "swap"
  /\ \/ opc' = "complete" /\ UNCHANGED faults
     \/ opc' = "abort" /\ Fault("swap")
  /\ UNCHANGED <<stateVars, restoreOwner, lease, stale, slotVars, workerVars, ops>>

OwnsRestore == life = "restoring" /\ restoreOwner # None /\ restoreOwner = lease

\* The transition ends with a recycle of all workers.
\* Mutant: the cluster goes on with the workers it has.
Resume_AtOnce == life' = "running" /\ UNCHANGED lc
Resume == life' = "restarting" /\ lc' = "respond"

\* restore.complete
Complete ==
  /\ opc = "complete" /\ OwnsRestore
  /\ lease' = None /\ restoreOwner' = None /\ opc' = "idle"
  /\ Resume
  /\ UNCHANGED <<shuttingDown, fatal, stopped, boot, booting, targets, stale, slotVars,
                 workerVars, faults, ops>>

\* The lease is released, but telling the workers so fails: the owner gets an
\* error and undoes its change of the data directory.
CompleteFails ==
  /\ opc = "complete" /\ OwnsRestore /\ Fault("delivery")
  /\ lease' = None /\ opc' = "undo"
  /\ UNCHANGED <<stateVars, restoreOwner, stale, slotVars, workerVars, ops>>

UndoDone ==
  /\ opc = "undo"
  /\ \/ opc' = "abort" /\ UNCHANGED faults
     \/ opc' = "abortFatal" /\ Fault("swap")
  /\ UNCHANGED <<stateVars, restoreOwner, lease, stale, slotVars, workerVars, ops>>

\* restore.abort resumes the cluster, unless the data could not be put back.
Abort ==
  /\ opc = "abort" /\ OwnsRestore
  /\ lease' = None /\ restoreOwner' = None /\ opc' = "idle"
  /\ Resume
  /\ UNCHANGED <<shuttingDown, fatal, stopped, boot, booting, targets, stale, slotVars,
                 workerVars, faults, ops>>

AbortFatal ==
  /\ opc = "abortFatal" /\ OwnsRestore
  /\ lease' = None /\ restoreOwner' = None /\ opc' = "idle"
  /\ Fail(Records)
  /\ UNCHANGED <<life, stopped, boot, booting, lc, targets, stale, slotVars, up, ready,
                 faults, ops>>

\* The primary refuses an abort of a worker that lost the lease.
AbortRefused ==
  /\ opc \in {"abort", "abortFatal"} /\ ~OwnsRestore
  /\ opc' = "idle"
  /\ UNCHANGED <<stateVars, restoreOwner, lease, stale, slotVars, workerVars, faults, ops>>

-----------------------------------------------------------------------------
(***************************************************************************)
(* Shutdown: beginShutdown sends every recorded worker away and waits.     *)
(* The main routine, when it is done with the boot, waits for that, and    *)
(* the primary returns and releases its guard.                             *)
(***************************************************************************)
Signal ==
  /\ Fault("signal") /\ ~shuttingDown
  /\ shuttingDown' = TRUE /\ SendAway(Records)
  /\ UNCHANGED <<life, fatal, stopped, boot, booting, lc, targets, leaseVars, slotVars, up,
                 ready, ops>>

\* Mutant: only the workers that serve are awaited.
Awaited_Ready == Records \cap ready
Awaited == Records

Stop ==
  /\ shuttingDown /\ ~stopped /\ boot = "done"
  /\ \/ Awaited \cap up = {} /\ UNCHANGED faults
     \/ Awaited \cap up # {} /\ Fault("slow")
  /\ stopped' = TRUE
  /\ UNCHANGED <<life, shuttingDown, fatal, boot, booting, lc, targets, leaseVars, slotVars,
                 workerVars, ops>>

Exit(w) == ExitOwner(w) \/ ExitCrashed(w) \/ ExitExpected(w)
SlotLoop(s) == Reap(s) \/ Retry(s)
Boot == BootFollowers \/ BootDone
Recycle ==
  RecycleBegin \/ RecycleStopped \/ RecycleFollowers \/ RecycleDone
RestoreStep ==
  Quiesced \/ SwapDone \/ Complete \/ UndoDone \/ Abort \/ AbortFatal \/ AbortRefused
Stuck == RecycleStuck \/ QuiesceStuck \/ CompleteFails

Next ==
  /\ ~stopped
  /\ \/ \E w \in Workers :
          BecomeReady(w) \/ Exit(w) \/ Restart(w) \/ Acquire(w) \/ Release(w)
          \/ RestoreBegin(w)
     \/ \E s \in Slots : ReadyTimeout(s) \/ SlotLoop(s) \/ StartReplacement(s) \/ ForgetCrash(s)
     \/ Boot \/ Recycle \/ RestoreStep \/ Stuck \/ Signal \/ Stop

(***************************************************************************)
(* Fairness: the primary's event loop and its timers go on, a worker that  *)
(* was told to exit does, a worker that starts becomes ready unless it     *)
(* fails, and the owner of a lease finishes.  Faults and requests are not  *)
(* forced to happen.                                                       *)
(***************************************************************************)
Fairness ==
  /\ \A w \in Workers :
       WF_vars(~stopped /\ BecomeReady(w)) /\ WF_vars(~stopped /\ w \in told /\ Exit(w))
  /\ \A s \in Slots :
       WF_vars(~stopped /\ SlotLoop(s)) /\ WF_vars(~stopped /\ StartReplacement(s))
  /\ WF_vars(~stopped /\ Boot) /\ WF_vars(~stopped /\ Recycle)
  /\ WF_vars(~stopped /\ RestoreStep) /\ WF_vars(Stop)
  /\ \A w \in Workers : WF_vars(~stopped /\ Release(w))

Spec == Init /\ [][Next]_vars
FairSpec == Spec /\ Fairness
-----------------------------------------------------------------------------
(***************************************************************************)
(* Safety.                                                                 *)
(***************************************************************************)

\* Unless a worker outlives the time the primary waits for its exit, every
\* process that runs is the recorded one of its slot: ensureSlot, however the
\* boot, a recycle, a crash and a restore call it at once, never starts a slot
\* twice, so there is one leader and no worker that a signal would not reach.
NoOrphans == "slow" \notin Faults => up \subseteq Records

\* runClusterPrimary returns, and with that releases the guard of the data
\* directory, only after every worker exited.
GuardReleasedLast == stopped /\ "slow" \notin Faults => up = {}

\* Once the cluster runs again, no serving worker has connections that it
\* opened before the data directory was replaced.
NoStale == life = "running" => stale \cap ready \cap Records = {}

\* A restore does not outlive its owner: while the cluster is quiesced for it the
\* owner runs, or the primary shuts down.  Only the owner ends the transition, so
\* without it the cluster would refuse every request for good.  An owner that had
\* been told to exit before it began ("stray") is not looked after so.
RestoringOwned ==
  life = "restoring" /\ ~shuttingDown /\ "stray" \notin Faults => restoreOwner \in up

(***************************************************************************)
(* Liveness, under FairSpec.                                               *)
(***************************************************************************)

\* Faults are bounded: in the end every slot has a ready worker, for good,
\* unless the primary shuts down.
AllServing == <>[](shuttingDown \/ \A s \in Slots : Ready(s))

\* A shutdown completes, whatever was under way when it began: the boot, which the
\* main routine must leave first, a recycle or a restore.
ShutdownCompletes == shuttingDown ~> stopped

\* A restore ends: the cluster goes on, or the primary gives up.
RestoreEnds == life = "restoring" ~> (life # "restoring" \/ shuttingDown)
=============================================================================
