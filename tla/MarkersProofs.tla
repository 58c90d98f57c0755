----------------------------- MODULE MarkersProofs -----------------------------
(***************************************************************************)
(* Proofs about the files of a data directory, the guard of a primary      *)
(* (PrimaryGuard) and the markers of its workers (NotifyWatcher), for any  *)
(* number of processes, workers, saves and restarts.                       *)
(***************************************************************************)
EXTENDS MCMarkers, TLAPS

-----------------------------------------------------------------------------
(***************************************************************************)
(* PrimaryGuard. As long as there was no dead owner the guard is the file  *)
(* of the one process that holds it.                                       *)
(***************************************************************************)
\* The steps of a process that made the guard and did not remove it yet.
Holding == {"write", "owner", "release", "unlink"}

\* Without a dead owner the guard is the file of the one process that holds it,
\* and nobody gets as far as to take it over.
HeldByOne ==
  /\ guard # None => guard \in Procs /\ pc[guard] \in Holding
  /\ guard # None /\ pc[guard] # "write" => written
  /\ \A p \in Procs : pc[p] \in Holding => guard = p
  /\ \A p \in Procs : pc[p] \notin {"stat", "recheck", "rename", "killed"}

Undisturbed == ~Disturbed => HeldByOne

-----------------------------------------------------------------------------
LEMMA InitTypes == Init => TypeOK
BY GuardAssumption DEF Init, TypeOK

\* Every file-system call, stop and crash keeps the types.
LEMMA NextTypes == TypeOK /\ [Next]_vars => TypeOK'
<1> SUFFICES ASSUME TypeOK, [Next]_vars PROVE TypeOK'
  OBVIOUS
<1> USE GuardAssumption
<1>1. ASSUME NEW p \in Procs, Create(p) PROVE TypeOK'
  BY <1>1 DEF TypeOK, Create, Goto
<1>2. ASSUME NEW p \in Procs, CreateExists(p) PROVE TypeOK'
  BY <1>2 DEF TypeOK, CreateExists, Goto
<1>3. ASSUME NEW p \in Procs, Write(p) PROVE TypeOK'
  BY <1>3 DEF TypeOK, Write, Goto
<1>4. ASSUME NEW p \in Procs, Read(p) PROVE TypeOK'
  <2>1. ReadOwner \in Procs \cup {Dead, None}
    BY DEF TypeOK, ReadOwner
  <2>2. \/ pc' = [pc EXCEPT ![p] = "refused"]
        \/ pc' = [pc EXCEPT ![p] = "stat"] /\ ReadOwner # None
    BY <1>4 DEF Read, Goto, Refuses
  <2>3. seen' = [seen EXCEPT ![p] = ReadOwner] /\ UNCHANGED <<guard, written, crashes>>
    BY <1>4 DEF Read
  <2> QED BY <2>1, <2>2, <2>3 DEF TypeOK
<1>5. ASSUME NEW p \in Procs, Stat(p) PROVE TypeOK'
  BY <1>5 DEF TypeOK, Stat, Goto
<1>6. ASSUME NEW p \in Procs, Recheck(p) PROVE TypeOK'
  <2>1. pc[p] = "recheck" /\ (pc' = [pc EXCEPT ![p] = "start"] \/ pc' = [pc EXCEPT ![p] = "rename"])
    BY <1>6 DEF Recheck, Goto
  <2>2. UNCHANGED <<guard, written, seen, crashes>>
    BY <1>6 DEF Recheck
  <2> QED BY <2>1, <2>2 DEF TypeOK
<1>7. ASSUME NEW p \in Procs, Rename(p) PROVE TypeOK'
  BY <1>7 DEF TypeOK, Rename, Moved, Goto
<1>8. ASSUME NEW p \in Procs, Stop(p) \/ Release(p) PROVE TypeOK'
  BY <1>8 DEF TypeOK, Stop, Release, Goto
<1>9. ASSUME NEW p \in Procs, Unlink(p) PROVE TypeOK'
  BY <1>9 DEF TypeOK, Unlink, Goto
<1>10. ASSUME NEW p \in Procs, Crash(p) PROVE TypeOK'
  BY <1>10 DEF TypeOK, Crash
<1>11. CASE UNCHANGED vars
  BY <1>11 DEF TypeOK, vars
<1> QED
  BY <1>1, <1>2, <1>3, <1>4, <1>5, <1>6, <1>7, <1>8, <1>9, <1>10, <1>11 DEF Next, Run

\* The types of the guard's state, in every behaviour.
THEOREM TypeCorrect == Spec => []TypeOK
BY InitTypes, NextTypes, PTL DEF Spec

-----------------------------------------------------------------------------
LEMMA InitUndisturbed == Init => Undisturbed
BY GuardAssumption DEF Init, Undisturbed, Disturbed, HeldByOne, Holding

\* A process that reads a guard finds an owner that lives, and is refused; only
\* the owner's release removes the file.
LEMMA NextUndisturbed == TypeOK /\ Undisturbed /\ [Next]_vars => Undisturbed'
<1> SUFFICES ASSUME TypeOK, Undisturbed, [Next]_vars,
                    ~Disturbed'
             PROVE  HeldByOne'
  BY DEF Undisturbed
<1> USE GuardAssumption
<1>1. ~Disturbed /\ \A p \in Procs : ~Crash(p)
  BY DEF Disturbed, Next, Run, Create, CreateExists, Write, Read, Stat, Recheck, Rename, Stop,
         Release, Unlink, Crash, vars, TypeOK
<1>2. HeldByOne
  BY <1>1 DEF Undisturbed
<1>3. \A p \in Procs : ~Stat(p) /\ ~Recheck(p) /\ ~Rename(p)
  BY <1>2 DEF HeldByOne, Stat, Recheck, Rename, Goto
<1>4. ASSUME NEW p \in Procs, Create(p) PROVE HeldByOne'
  BY <1>2, <1>4 DEF HeldByOne, Create, Goto, Absent, Holding, TypeOK
<1>5. ASSUME NEW p \in Procs, CreateExists(p) PROVE HeldByOne'
  BY <1>2, <1>5 DEF HeldByOne, CreateExists, Goto, Holding, TypeOK
<1>6. ASSUME NEW p \in Procs, Write(p) PROVE HeldByOne'
  BY <1>2, <1>6 DEF HeldByOne, Write, Goto, Holding, TypeOK
<1>7. ASSUME NEW p \in Procs, Read(p) PROVE HeldByOne'
  <2>1. Refuses(ReadOwner)
    BY <1>2 DEF HeldByOne, Refuses, ReadOwner, Alive, Holding
  <2>2. pc[p] = "read" /\ pc' = [pc EXCEPT ![p] = "refused"] /\ UNCHANGED <<guard, written>>
    BY <2>1, <1>7 DEF Read, Goto
  <2> QED BY <2>2, <1>2 DEF HeldByOne, Holding, TypeOK
<1>8. ASSUME NEW p \in Procs, Stop(p) PROVE HeldByOne'
  BY <1>2, <1>8 DEF HeldByOne, Stop, Goto, Holding, TypeOK
<1>9. ASSUME NEW p \in Procs, Release(p) PROVE HeldByOne'
  BY <1>2, <1>9 DEF HeldByOne, Release, Goto, Holding, TypeOK, ReadOwner
<1>10. ASSUME NEW p \in Procs, Unlink(p) PROVE HeldByOne'
  BY <1>2, <1>10 DEF HeldByOne, Unlink, Goto, Holding, TypeOK
<1>11. CASE UNCHANGED vars
  BY <1>2, <1>11 DEF HeldByOne, vars
<1> QED
  BY <1>1, <1>3, <1>4, <1>5, <1>6, <1>7, <1>8, <1>9, <1>10, <1>11 DEF Next, Run

\* As long as nobody died with its guard in place two processes never own the
\* data directory at once, however many start, stop and read in between.
THEOREM OneLiveOwner == Spec => []OneOwnerAlive
<1>1. Undisturbed => OneOwnerAlive
  BY DEF Undisturbed, HeldByOne, OneOwnerAlive, OneOwner, Holding
<1> QED
  BY <1>1, TypeCorrect, InitUndisturbed, NextUndisturbed, PTL DEF Spec

-----------------------------------------------------------------------------
\* A process on its way to take a guard over read an owner that was dead.
FoundDead ==
  \A p \in Procs : pc[p] \in {"stat", "recheck", "rename"} =>
    seen[p] # None /\ ~Alive(seen[p])

LEMMA InitFoundDead == Init => FoundDead
BY DEF Init, FoundDead

Ended == {"stopped", "refused", "killed"}

\* A process that ended does not come back.
LEMMA EndedStays ==
  ASSUME TypeOK, [Next]_vars
  PROVE  \A o \in Procs : pc[o] \in Ended => pc'[o] \in Ended
BY DEF Next, Run, Create, CreateExists, Write, Read, Stat, Recheck, Rename, Stop,
       Release, Unlink, Crash, Goto, Alive, Ended, vars, TypeOK

LEMMA NextFoundDead == TypeOK /\ FoundDead /\ [Next]_vars => FoundDead'
<1> SUFFICES ASSUME TypeOK, FoundDead, [Next]_vars, NEW p \in Procs,
                    pc'[p] \in {"stat", "recheck", "rename"}
             PROVE  (seen[p] # None /\ ~Alive(seen[p]))'
  BY DEF FoundDead
<1>1. CASE Read(p)
  <2>1. pc'[p] = IF Refuses(ReadOwner) THEN "refused" ELSE "stat"
    BY <1>1 DEF Read, Goto, TypeOK
  <2>2. seen'[p] = ReadOwner
    BY <1>1 DEF Read, TypeOK
  <2>3. ReadOwner # None /\ ~Alive(ReadOwner)
    BY <2>1 DEF Refuses
  <2> QED BY <2>2, <2>3, EndedStays DEF Alive, Ended
<1>2. CASE ~Read(p)
  <2>1. pc[p] \in {"stat", "recheck", "rename"} /\ seen'[p] = seen[p]
    BY <1>2 DEF Next, Run, Create, CreateExists, Write, Read, Stat, Recheck, Rename, Stop,
                Release, Unlink, Crash, Goto, vars, TypeOK
  <2>2. seen[p] # None /\ ~Alive(seen[p])
    BY <2>1 DEF FoundDead
  <2> QED BY <2>1, <2>2, EndedStays DEF Alive, Ended
<1> QED
  BY <1>1, <1>2

\* The file of a process that owns the directory goes only with the rename of one
\* that found the owner it had read dead, or, if somebody died, with the release of
\* one that found its own file there a moment before.
THEOREM LiveGuardKept == Spec => GuardKept
<1>1. TypeOK /\ Undisturbed /\ FoundDead /\ [Next]_vars =>
       [\A p \in Procs : pc[p] = "owner" /\ guard = p /\ guard' # p =>
          \E q \in Procs : \/ pc[q] = "rename" /\ seen[q] # None /\ ~Alive(seen[q])
                           \/ pc[q] = "unlink" /\ Disturbed]_vars
  <2> SUFFICES ASSUME Undisturbed, FoundDead, Next, NEW p \in Procs,
                      pc[p] = "owner", guard = p, guard' # p
               PROVE  \E q \in Procs : \/ pc[q] = "rename" /\ seen[q] # None /\ ~Alive(seen[q])
                                       \/ pc[q] = "unlink" /\ Disturbed
    OBVIOUS
  <2>1. PICK q \in Procs : Run(q) \/ Stop(q) \/ Crash(q)
    BY DEF Next
  <2>2. Rename(q) \/ Unlink(q)
    BY <2>1, GuardAssumption DEF Run, Create, CreateExists, Write, Read, Stat, Recheck, Stop,
                                 Release, Crash, Absent
  <2>3. CASE Rename(q)
    <3>1. pc[q] = "rename"
      BY <2>3 DEF Rename, Goto
    <3>2. seen[q] # None /\ ~Alive(seen[q])
      BY <3>1 DEF FoundDead
    <3> QED BY <3>1, <3>2
  <2>4. CASE Unlink(q)
    <3>1. pc[q] = "unlink"
      BY <2>4 DEF Unlink, Goto
    <3>2. Disturbed
      BY <3>1 DEF Undisturbed, HeldByOne, Holding
    <3> QED BY <3>1, <3>2
  <2> QED BY <2>2, <2>3, <2>4
<1> QED
  BY <1>1, TypeCorrect, InitUndisturbed, NextUndisturbed, InitFoundDead, NextFoundDead, PTL
     DEF Spec, GuardKept

-----------------------------------------------------------------------------
(***************************************************************************)
(* NotifyWatcher. A copy is taken from what is committed, and what is      *)
(* committed stays: the only one that is not so taken is the copy that     *)
(* saveCollection reloads inside an open transaction.                      *)
(***************************************************************************)
\* Kinds that are never reloaded before their commit.
Settled == Kinds \ (Markers!Eager \cap TxKinds)

CacheTyped ==
  /\ committed \in [Kinds -> SUBSET Nat] /\ last \in [Kinds -> Nat]
  /\ cache \in [Workers -> [Kinds -> Nat]] /\ kind \in [Workers -> Kinds]
  /\ timer \in [Workers -> Kinds \cup {None}]
  /\ events \in [Workers -> SUBSET Markers!Markers]

\* There is a current version of each kind, since only finitely many were saved.
HasCurrent ==
  \A k \in Kinds : \E m \in committed[k] : \A n \in committed[k] : m >= n

CachesCommitted == \A v \in Workers, k \in Settled : cache[v][k] \in committed[k]

CacheInv == CacheTyped /\ HasCurrent /\ CachesCommitted

LEMMA CacheInit == Markers!Init => CacheInv
<1> SUFFICES ASSUME Markers!Init PROVE CacheInv
  OBVIOUS
<1>1. CacheTyped
  BY DEF Markers!Init, CacheTyped
<1>2. HasCurrent /\ CachesCommitted
  BY DEF Markers!Init, HasCurrent, CachesCommitted, Settled
<1>3. QED
  BY <1>1, <1>2 DEF CacheInv

LEMMA CurrentIsLatest ==
  ASSUME CacheTyped, HasCurrent, NEW k \in Kinds
  PROVE  /\ Markers!Current(k) \in committed[k] /\ Markers!Current(k) \in Nat
         /\ \A n \in committed[k] : Markers!Current(k) >= n
BY DEF CacheTyped, HasCurrent, Markers!Current, Markers!Max

LEMMA CommitGrows ==
  ASSUME CacheTyped, HasCurrent, NEW k \in Kinds, NEW n \in Nat,
         committed' = [committed EXCEPT ![k] = @ \cup {n}]
  PROVE  /\ committed' \in [Kinds -> SUBSET Nat] /\ HasCurrent'
         /\ \A j \in Kinds : committed[j] \subseteq committed'[j]
<1>1. committed \in [Kinds -> SUBSET Nat]
  BY DEF CacheTyped
<1>2. \A j \in Kinds : committed'[j] = IF j = k THEN committed[j] \cup {n} ELSE committed[j]
  BY <1>1
<1>3. committed' \in [Kinds -> SUBSET Nat]
  BY <1>1
<1>4. HasCurrent'
  <2> SUFFICES ASSUME NEW j \in Kinds
               PROVE  \E m \in committed'[j] : \A i \in committed'[j] : m >= i
    BY DEF HasCurrent
  <2>1. PICK m \in committed[j] : \A i \in committed[j] : m >= i
    BY DEF HasCurrent
  <2>2. m \in Nat /\ committed[j] \subseteq Nat
    BY <1>1
  <2>3. CASE j = k /\ n > m
    <3>1. n \in committed'[j]
      BY <1>2, <2>3
    <3>2. \A i \in committed'[j] : n >= i
      BY <1>2, <2>1, <2>2, <2>3
    <3>3. QED
      BY <3>1, <3>2
  <2>4. CASE ~(j = k /\ n > m)
    <3>1. m \in committed'[j]
      BY <1>2
    <3>2. \A i \in committed'[j] : m >= i
      BY <1>2, <2>1, <2>2, <2>4
    <3>3. QED
      BY <3>1, <3>2
  <2>5. QED
    BY <2>3, <2>4
<1>5. QED
  BY <1>2, <1>3, <1>4

\* What a step of a worker does to the copies: nothing, or it reloads one of them
\* or all, or it puts an uncommitted version into one of a kind that is not settled.
Reloads ==
  \E v \in Workers :
    \/ \E k \in Kinds : cache' = [cache EXCEPT ![v][k] = Markers!Current(k)]
    \/ cache' = [cache EXCEPT ![v] = [k \in Kinds |-> Markers!Current(k)]]

Overtakes ==
  \E v \in Workers, k \in Kinds \ Settled :
    last'[k] \in Nat /\ cache' = [cache EXCEPT ![v][k] = last'[k]]

CommitKept ==
  \/ committed' = committed
  \/ \E k \in Kinds, n \in Nat : committed' = [committed EXCEPT ![k] = @ \cup {n}]

LEMMA BeginTypes ==
  ASSUME CacheTyped, NEW w \in Workers, NEW k \in Kinds, NEW stage, Markers!Begin(w, k, stage)
  PROVE  /\ last' \in [Kinds -> Nat] /\ last'[k] \in Nat
         /\ kind' \in [Workers -> Kinds]
BY DEF CacheTyped, Markers!Begin

LEMMA ToldTypes ==
  ASSUME CacheTyped, NEW w \in Workers, NEW markers \in SUBSET Markers!Markers,
         Markers!Told(w, markers)
  PROVE  events' \in [Workers -> SUBSET Markers!Markers]
BY DEF CacheTyped, Markers!Told

LEMMA ScheduleTypes ==
  ASSUME CacheTyped, NEW v \in Workers, NEW k \in Kinds, NEW others,
         Markers!Schedule(v, k, others)
  PROVE  timer' \in [Workers -> Kinds \cup {None}]
BY DEF CacheTyped, Markers!Schedule

\* A worker reads what is committed, or fails to.
LEMMA LoadEffect ==
  ASSUME NEW v \in Workers, NEW k \in Kinds, Markers!Loaded(v, k) \/ Markers!NotLoaded(v, k)
  PROVE  cache' = cache \/ Reloads
BY DEF Markers!Loaded, Markers!NotLoaded, Reloads

LEMMA StepEffect ==
  ASSUME CacheTyped, HasCurrent, Markers!Next
  PROVE  /\ CommitKept
         /\ cache' = cache \/ (committed' = committed /\ Reloads) \/ Overtakes
         /\ last' \in [Kinds -> Nat] /\ kind' \in [Workers -> Kinds]
         /\ timer' \in [Workers -> Kinds \cup {None}]
         /\ events' \in [Workers -> SUBSET Markers!Markers]
<1> DEFINE Goal ==
         /\ CommitKept
         /\ cache' = cache \/ (committed' = committed /\ Reloads) \/ Overtakes
         /\ last' \in [Kinds -> Nat] /\ kind' \in [Workers -> Kinds]
         /\ timer' \in [Workers -> Kinds \cup {None}]
         /\ events' \in [Workers -> SUBSET Markers!Markers]
<1>a. /\ last \in [Kinds -> Nat] /\ kind \in [Workers -> Kinds]
      /\ timer \in [Workers -> Kinds \cup {None}]
      /\ events \in [Workers -> SUBSET Markers!Markers]
  BY DEF CacheTyped
<1>1. ASSUME NEW w \in Workers, NEW k \in Kinds, Markers!Save(w, k) PROVE Goal
  <2>1. last' \in [Kinds -> Nat] /\ last'[k] \in Nat /\ kind' \in [Workers -> Kinds]
    BY <1>1, BeginTypes DEF Markers!Save
  <2>2. CommitKept
    BY <1>1, <2>1 DEF Markers!Save, CommitKept
  <2>3. QED
    BY <1>a, <1>1, <2>1, <2>2 DEF Markers!Save, Markers!watchVars
<1>2. ASSUME NEW w \in Workers, NEW k \in Kinds, Markers!SaveInTx(w, k) PROVE Goal
  <2>1. last' \in [Kinds -> Nat] /\ last'[k] \in Nat /\ kind' \in [Workers -> Kinds]
    BY <1>2, BeginTypes DEF Markers!SaveInTx
  <2>2. cache' = cache \/ Overtakes
    <3>1. CASE k \in Markers!Eager /\ cache' = [cache EXCEPT ![w][k] = last'[k]]
      BY <1>2, <2>1, <3>1 DEF Markers!SaveInTx, Overtakes, Settled
    <3>2. CASE UNCHANGED cache
      BY <3>2
    <3>3. QED
      BY <1>2, <3>1, <3>2 DEF Markers!SaveInTx
  <2>3. QED
    BY <1>a, <1>2, <2>1, <2>2 DEF Markers!SaveInTx, Markers!watchVars, CommitKept
<1>3. ASSUME NEW w \in Workers, Markers!Commit(w) PROVE Goal
  <2>1. kind[w] \in Kinds /\ last[kind[w]] \in Nat
    BY <1>a
  <2>2. CommitKept
    BY <1>3, <2>1 DEF Markers!Commit, CommitKept
  <2>3. QED
    BY <1>a, <1>3, <2>2 DEF Markers!Commit, Markers!watchVars
<1>4. ASSUME NEW w \in Workers, Markers!Rollback(w) PROVE Goal
  BY <1>a, <1>4 DEF Markers!Rollback, Markers!watchVars, CommitKept
<1>5. ASSUME NEW w \in Workers, Markers!ReloadOwn(w) PROVE Goal
  <2>1. kind[w] \in Kinds
    BY <1>a
  <2>2. cache' = cache \/ Reloads
    BY <1>5, <2>1, LoadEffect DEF Markers!ReloadOwn
  <2>3. QED
    BY <1>a, <1>5, <2>2 DEF Markers!ReloadOwn, CommitKept
<1>6. ASSUME NEW w \in Workers, Markers!Notify(w) PROVE Goal
  <2>1. {<<w, kind[w]>>} \in SUBSET Markers!Markers
    BY <1>a DEF Markers!Markers
  <2>2. events' \in [Workers -> SUBSET Markers!Markers]
    BY <1>a, <1>6, <2>1, ToldTypes DEF Markers!Notify
  <2>3. QED
    BY <1>a, <1>6, <2>2 DEF Markers!Notify, CommitKept
<1>7. ASSUME NEW w \in Workers, Markers!WatchEvent(w) PROVE Goal
  <2>1. PICK m \in events[w] : /\ events' = [events EXCEPT ![w] = @ \ {m}]
                               /\ Markers!Schedule(w, m[2], {})
    BY <1>7 DEF Markers!WatchEvent
  <2>2. m[2] \in Kinds
    BY <1>a DEF Markers!Markers
  <2>3. timer' \in [Workers -> Kinds \cup {None}]
    BY <2>1, <2>2, ScheduleTypes
  <2>4. events' \in [Workers -> SUBSET Markers!Markers]
    BY <1>a, <2>1
  <2>5. QED
    BY <1>a, <1>7, <2>3, <2>4 DEF Markers!WatchEvent, Markers!saveVars, CommitKept
<1>8. ASSUME NEW w \in Workers, Markers!Poll(w) PROVE Goal
  <2>1. PICK m \in Markers!Changed(w), others \in {{n[2] : n \in Markers!Changed(w)}} :
          Markers!Schedule(w, m[2], others)
    BY <1>8 DEF Markers!Poll
  <2>2. m[2] \in Kinds
    BY DEF Markers!Markers, Markers!Changed
  <2>3. timer' \in [Workers -> Kinds \cup {None}]
    BY <2>1, <2>2, ScheduleTypes
  <2>4. QED
    BY <1>a, <1>8, <2>3 DEF Markers!Poll, Markers!saveVars, CommitKept
<1>9. ASSUME NEW w \in Workers, Markers!Fire(w) PROVE Goal
  <2>1. timer[w] \in Kinds
    BY <1>a, <1>9 DEF Markers!Fire
  <2>2. cache' = cache \/ Reloads
    BY <1>9, <2>1, LoadEffect DEF Markers!Fire
  <2>3. timer' \in [Workers -> Kinds \cup {None}]
    BY <1>a, <1>9 DEF Markers!Fire
  <2>4. QED
    BY <1>a, <1>9, <2>2, <2>3 DEF Markers!Fire, Markers!saveVars, CommitKept
<1>10. ASSUME NEW w \in Workers, Markers!Replace(w) PROVE Goal
  <2>1. PICK removed \in {{}, {m \in Markers!Markers \ gone : m[1] = w /\ mark[m] # 0}} :
          Markers!Told(w, removed)
    BY <1>10 DEF Markers!Replace
  <2>2. events' \in [Workers -> SUBSET Markers!Markers]
    BY <2>1, ToldTypes
  <2>3. timer' \in [Workers -> Kinds \cup {None}]
    BY <1>a, <1>10 DEF Markers!Replace
  <2>4. QED
    BY <1>a, <1>10, <2>2, <2>3 DEF Markers!Replace, Markers!saveVars, CommitKept
<1>11. ASSUME NEW w \in Workers, Markers!Load(w) PROVE Goal
  <2>1. Reloads
    BY <1>11 DEF Markers!Load, Reloads
  <2>2. QED
    BY <1>a, <1>11, <2>1 DEF Markers!Load, Markers!saveVars, CommitKept
<1>12. ASSUME NEW w \in Workers, Markers!StartWatcher(w) PROVE Goal
  BY <1>a, <1>12 DEF Markers!StartWatcher, Markers!saveVars, CommitKept
<1>13. QED
  BY <1>1, <1>2, <1>3, <1>4, <1>5, <1>6, <1>7, <1>8, <1>9, <1>10, <1>11, <1>12
    DEF Markers!Next, Markers!Run

LEMMA CacheStep == CacheInv /\ [Markers!Next]_notifyVars => CacheInv'
<1> SUFFICES ASSUME CacheInv, [Markers!Next]_notifyVars PROVE CacheInv'
  OBVIOUS
<1>1. CASE UNCHANGED notifyVars
  BY <1>1 DEF CacheInv, CacheTyped, HasCurrent, CachesCommitted, notifyVars
<1>2. CASE Markers!Next
  <2>1. CacheTyped /\ HasCurrent
    BY DEF CacheInv
  <2>2. /\ CommitKept
        /\ cache' = cache \/ (committed' = committed /\ Reloads) \/ Overtakes
        /\ last' \in [Kinds -> Nat] /\ kind' \in [Workers -> Kinds]
        /\ timer' \in [Workers -> Kinds \cup {None}]
        /\ events' \in [Workers -> SUBSET Markers!Markers]
    BY <1>2, <2>1, StepEffect
  <2>3. /\ committed' \in [Kinds -> SUBSET Nat] /\ HasCurrent'
        /\ \A j \in Kinds : committed[j] \subseteq committed'[j]
    <3>1. CASE committed' = committed
      BY <2>1, <3>1 DEF CacheTyped, HasCurrent
    <3>2. CASE \E k \in Kinds, n \in Nat : committed' = [committed EXCEPT ![k] = @ \cup {n}]
      BY <2>1, <3>2, CommitGrows
    <3>3. QED
      BY <2>2, <3>1, <3>2 DEF CommitKept
  <2>4. cache \in [Workers -> [Kinds -> Nat]]
    BY <2>1 DEF CacheTyped
  <2>5. \A k \in Kinds : Markers!Current(k) \in committed[k] /\ Markers!Current(k) \in Nat
    BY <2>1, CurrentIsLatest
  <2>6. cache' \in [Workers -> [Kinds -> Nat]]
    <3>1. CASE Reloads
      BY <2>4, <2>5, <3>1 DEF Reloads
    <3>2. CASE Overtakes
      BY <2>4, <3>2 DEF Overtakes, Settled
    <3>3. QED
      BY <2>2, <2>4, <3>1, <3>2
  <2>7. CachesCommitted'
    <3> SUFFICES ASSUME NEW u \in Workers, NEW j \in Settled
                 PROVE  cache'[u][j] \in committed[j]
      BY <2>3 DEF CachesCommitted, Settled
    <3>0. cache[u][j] \in committed[j] /\ j \in Kinds
      BY DEF CacheInv, CachesCommitted, Settled
    <3>1. CASE Reloads
      BY <2>4, <2>5, <3>0, <3>1 DEF Reloads
    <3>2. CASE Overtakes
      BY <2>4, <3>0, <3>2 DEF Overtakes
    <3>3. QED
      BY <2>2, <3>0, <3>1, <3>2
  <2>8. QED
    BY <2>2, <2>3, <2>6, <2>7 DEF CacheInv, CacheTyped
<1>3. QED
  BY <1>1, <1>2

LEMMA CacheInvariant == PartsSpec => []CacheInv
<1>1. PartsInit => CacheInv
  BY CacheInit DEF PartsInit
<1>2. CacheInv /\ [PartsNext]_<<part, vars, notifyVars>> => CacheInv'
  <2> SUFFICES ASSUME CacheInv, [PartsNext]_<<part, vars, notifyVars>> PROVE CacheInv'
    OBVIOUS
  <2>1. [Markers!Next]_notifyVars
    BY DEF PartsNext
  <2>2. QED
    BY <2>1, CacheStep
<1>3. QED
  BY <1>1, <1>2, PTL DEF PartsSpec

\* Whichever worker saves, in a transaction or not, and whatever its watcher misses:
\* no worker serves with settings that were not committed, because settings are
\* reloaded only by hooks that run after the commit (reloadSettings in core/base.ts).
THEOREM SettingsFromCommits == PartsSpec => []SettingsCommitted
<1>1. CacheInv => SettingsCommitted
  BY DEF CacheInv, CachesCommitted, SettingsCommitted, Markers!SettingsCommitted, Settled,
    Markers!Eager
<1>2. QED
  BY <1>1, CacheInvariant, PTL
=============================================================================
