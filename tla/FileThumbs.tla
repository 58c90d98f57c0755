------------------------------- MODULE FileThumbs -------------------------------
(***************************************************************************)
(* The thumbs that downloads ask for (src/apis/file.ts): requests of one   *)
(* thumb share a generation (SingleflightGroup), and generations share a   *)
(* few permits (Semaphore) for which they wait a bounded time.             *)
(*                                                                         *)
(* A generation is named by the request that began it.                     *)
(***************************************************************************)
EXTENDS Naturals, FiniteSets, SequencesExt

CONSTANTS
  Paths,     \* of thumbs
  Busy,      \* that which is asked for more than once,
  PerPath,   \*   and how often
  Permits,
  None

Asks == (Paths \X {1}) \union ({Busy} \X (1..PerPath))
Path(r) == r[1]

VARIABLES
  stored,   \* thumbs in the storage
  pc,       \* of a request: "new", "missing", "waiting", "thumb" or "original" (served)
  joined,   \* the generation it waits for
  pending,  \* SingleflightGroup: the generation of a path
  gen,      \* of a generation: "none", "queued", "running", "made", "failed"
  current,  \* Semaphore: permits given out
  queue,    \*   generations that wait for one
  forgotten \* history: generations whose entry was removed by requests of another

vars == <<stored, pc, joined, pending, gen, current, queue, forgotten>>

TypeOK ==
  /\ stored \subseteq Paths /\ forgotten \subseteq Asks
  /\ pc \in [Asks -> {"new", "missing", "waiting", "thumb", "original"}]
  /\ joined \in [Asks -> Asks \union {None}] /\ pending \in [Paths -> Asks \union {None}]
  /\ gen \in [Asks -> {"none", "queued", "running", "made", "failed"}]
  /\ current \in 0..Permits /\ queue \in Seq(Asks)

Init ==
  /\ stored = {} /\ pc = [r \in Asks |-> "new"] /\ joined = [r \in Asks |-> None]
  /\ pending = [p \in Paths |-> None] /\ gen = [r \in Asks |-> "none"]
  /\ current = 0 /\ queue = <<>> /\ forgotten = {}

-----------------------------------------------------------------------------
\* The download handler looks for the thumb and has to wait for the answer. The
\* requests of a path are numbered in the order in which they do.
Look(r) ==
  /\ pc[r] = "new" /\ \A q \in Asks : Path(q) = Path(r) /\ pc[q] = "new" => q[2] >= r[2]
  /\ pc' = [pc EXCEPT ![r] = IF Path(r) \in stored THEN "thumb" ELSE "missing"]
  /\ UNCHANGED <<stored, joined, pending, gen, current, queue, forgotten>>

\* Semaphore.acquire.
Acquire(r) ==
  \/ /\ current < Permits /\ current' = current + 1
     /\ gen' = [gen EXCEPT ![r] = "running"] /\ UNCHANGED queue
  \/ /\ current = Permits /\ queue' = Append(queue, r)
     /\ gen' = [gen EXCEPT ![r] = "queued"] /\ UNCHANGED current

\* Mutant: the entry is not looked for.
Shared_None(p) == None

Shared(p) == pending[p]

\* createThumb: SingleflightGroup.do, and acquire if the generation is its own.
Do(r) ==
  /\ pc[r] = "missing" /\ pc' = [pc EXCEPT ![r] = "waiting"]
  /\ LET g == Shared(Path(r)) IN
       \/ /\ g # None /\ joined' = [joined EXCEPT ![r] = g]
          /\ UNCHANGED <<pending, gen, current, queue>>
       \/ /\ g = None /\ joined' = [joined EXCEPT ![r] = r]
          /\ pending' = [pending EXCEPT ![Path(r)] = r] /\ Acquire(r)
  /\ UNCHANGED <<stored, forgotten>>

\* What is left of the queue when g has waited too long.
Without(g) == RemoveAt(queue, CHOOSE i \in DOMAIN queue : queue[i] = g)

TimeOut(g) ==
  /\ gen[g] = "queued" /\ gen' = [gen EXCEPT ![g] = "failed"] /\ queue' = Without(g)
  /\ UNCHANGED <<stored, pc, joined, pending, current, forgotten>>

\* CreateThumb ends, and release hands the permit on.
Made(g) ==
  /\ gen[g] = "running"
  /\ \E outcome \in {"made", "failed"} :
       /\ stored' = IF outcome = "made" THEN stored \union {Path(g)} ELSE stored
       /\ \/ /\ queue = <<>> /\ current' = current - 1 /\ UNCHANGED queue
             /\ gen' = [gen EXCEPT ![g] = outcome]
          \/ /\ queue # <<>> /\ queue' = Tail(queue) /\ UNCHANGED current
             /\ gen' = [gen EXCEPT ![g] = outcome,
                                   ![Head(queue)] = IF @ = "queued" THEN "running" ELSE @]
  /\ UNCHANGED <<pc, joined, pending, forgotten>>

\* A request goes on when its generation has ended. Each of them forgets the
\* path; the first of the next requests may already be there.
Resume(r) ==
  /\ pc[r] = "waiting" /\ gen[joined[r]] \in {"made", "failed"}
  /\ pc' = [pc EXCEPT ![r] = IF gen[joined[r]] = "made" THEN "thumb" ELSE "original"]
  /\ pending' = [pending EXCEPT ![Path(r)] = None]
  /\ forgotten' = forgotten \union ({pending[Path(r)]} \ {None, joined[r]})
  /\ UNCHANGED <<stored, joined, gen, current, queue>>

Next == \E r \in Asks : Look(r) \/ Do(r) \/ TimeOut(r) \/ Made(r) \/ Resume(r)

Spec == Init /\ [][Next]_vars

-----------------------------------------------------------------------------
Running == {g \in Asks : gen[g] = "running"}

\* No more generations run than there are permits, no permit is idle while one
\* waits, and none is lost with one that has given up; a thumb is generated by
\* one at a time, unless a request of an earlier generation forgot the later;
\* and who is told that its thumb is there finds it.
PermitsKept ==
  /\ current = Cardinality(Running) /\ current <= Permits
  /\ queue # <<>> => current = Permits
  /\ \A g \in Asks : gen[g] = "queued" <=> g \in ToSet(queue)
  /\ \A f, g \in Running : f # g /\ Path(f) = Path(g) => {f, g} \cap forgotten # {}
  /\ \A r \in Asks : pc[r] = "thumb" => Path(r) \in stored
=============================================================================
