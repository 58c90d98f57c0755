------------------------ MODULE ClusterBackupProofs -------------------------
(***************************************************************************)
(* Proofs about ClusterBackup, for any number of workers, files, leases    *)
(* and faults.                                                             *)
(***************************************************************************)
EXTENDS ClusterBackup, SequenceTheorems, TLAPS

LEMMA InitTypes == Init => TypeOK
<1> SUFFICES ASSUME Init PROVE TypeOK
  OBVIOUS
<1> USE BackupAssumption
<1>1. /\ joining \subseteq Joiners
      /\ wst \in [Workers -> {"new", "told", "sync", "ready", "gone"}]
      /\ chan \in [Workers -> Seq(0..MaxLeases)] /\ store \in [Workers -> 0..MaxLeases]
  BY DEF Init
<1>2. /\ lease \in Workers \cup {None} /\ name \in 0..MaxLeases
      /\ phase \in {"idle", "delete", "write"} /\ waiting \subseteq Workers
      /\ pc \in [Workers -> {"idle", "acquiring", "held", "delete", "snapshot", "write",
                             "read", "archived", "finish"}]
  BY DEF Init
<1>3. /\ file \in [Files -> {"absent", "live"}] /\ by \in [Files -> Workers \cup {None}]
  BY DEF Init
<1>4. /\ file \in [Files -> {"absent", "report", "store", "stored", "live", "deleted",
                             "capture", "unlink", "left", "removed"}]
      /\ \A f \in Files : file[f] \notin {"absent", "live"} => by[f] \in Workers
  BY <1>3
<1>5. \A S \in {snap, overrides, excluded, entries, archive, uncaptured} : S \subseteq Files
  BY DEF Init
<1>6. abandoned \in BOOLEAN
  BY DEF Init
<1>7. faults \in 0..MaxFaults
  BY DEF Init
<1>8. QED
  BY <1>1, <1>2, <1>3, <1>4, <1>5, <1>6, <1>7 DEF TypeOK

LEMMA BroadcastTypes ==
  ASSUME TypeOK, NEW S, NEW n \in 0..MaxLeases, Broadcast(S, n)
  PROVE  chan' \in [Workers -> Seq(0..MaxLeases)]
<1>1. \A w \in Workers : chan[w] \in Seq(0..MaxLeases)
  BY DEF TypeOK
<1>2. \A w \in Workers : Append(chan[w], n) \in Seq(0..MaxLeases)
  BY <1>1, AppendProperties
<1> QED
  BY <1>1, <1>2 DEF Broadcast

\* Of every file in the hands of a worker it is known which worker that is.
LEMMA FileTypes ==
  ASSUME TypeOK, NEW f \in Files, NEW w \in Workers,
         NEW to \in {"report", "store", "deleted"}, NEW from,
         FileStep(f, from, to), Does(w, f)
  PROVE  /\ file' \in [Files -> {"absent", "report", "store", "stored", "live", "deleted",
                                 "capture", "unlink", "left", "removed"}]
         /\ by' \in [Files -> Workers \cup {None}]
         /\ \A g \in Files : file'[g] \notin {"absent", "live"} => by'[g] \in Workers
BY DEF FileStep, Does, TypeOK

LEMMA FileGoesOn ==
  ASSUME TypeOK, NEW f \in Files, NEW from, from \notin {"absent", "live"},
         NEW to \in {"store", "stored", "live", "capture", "unlink", "left", "removed"},
         FileStep(f, from, to), UNCHANGED by
  PROVE  /\ file' \in [Files -> {"absent", "report", "store", "stored", "live", "deleted",
                                 "capture", "unlink", "left", "removed"}]
         /\ \A g \in Files : file'[g] \notin {"absent", "live"} => by'[g] \in Workers
BY DEF FileStep, TypeOK

LEMMA StepTypes ==
  ASSUME TypeOK, NEW w \in Workers, NEW from,
         NEW to \in {"idle", "acquiring", "held", "delete", "snapshot", "write", "read",
                     "archived", "finish"},
         Step(w, from, to)
  PROVE  pc' \in [Workers -> {"idle", "acquiring", "held", "delete", "snapshot", "write",
                              "read", "archived", "finish"}]
BY DEF Step, TypeOK

\* A join and the receipt of a delivery keep the types.
LEMMA JoinTypes ==
  ASSUME TypeOK, NEW w \in Workers, Join(w)
  PROVE  TypeOK'
<1> USE BackupAssumption
<1>1. CASE WorkerReady(w)
  <2>1. chan' \in [Workers -> Seq(0..MaxLeases)]
    BY <1>1, BroadcastTypes DEF WorkerReady, TypeOK
  <2> QED BY <1>1, <2>1 DEF WorkerReady, TypeOK, leaseVars, fileVars, planVars
<1>2. CASE JoinTold(w)
  BY <1>2 DEF JoinTold, TypeOK, leaseVars, fileVars, planVars
<1>3. CASE JoinReady(w)
  BY <1>3 DEF JoinReady, TypeOK, leaseVars, fileVars, planVars
<1>4. CASE Receive(w)
  <2>1. chan[w] \in Seq(0..MaxLeases) /\ chan[w] # <<>>
    BY <1>4 DEF Receive, TypeOK
  <2>2. Head(chan[w]) \in 0..MaxLeases /\ Tail(chan[w]) \in Seq(0..MaxLeases)
    BY <2>1, HeadTailProperties
  <2>3. chan' \in [Workers -> Seq(0..MaxLeases)] /\ store' \in [Workers -> 0..MaxLeases]
    BY <1>4, <2>2 DEF Receive, TypeOK
  <2>4. waiting' \subseteq Workers
    BY <1>4 DEF Receive, TypeOK
  <2> QED BY <1>4, <2>3, <2>4 DEF Receive, TypeOK, fileVars, planVars
<1> QED
  BY <1>1, <1>2, <1>3, <1>4 DEF Join

\* So do the requests of the lease, and the exit of a worker.
LEMMA LeaseTypes ==
  ASSUME TypeOK, NEW w \in Workers,
         \/ Acquire(w) \/ GiveUp(w) \/ AcquireDone(w) \/ AcquireFails(w) \/ Release(w)
         \/ Exit(w)
  PROVE  TypeOK'
<1> USE BackupAssumption
<1>1. CASE Acquire(w)
  <2>1. name' = name + 1 /\ name + 1 \in 0..MaxLeases
    BY <1>1 DEF Acquire, TypeOK
  <2>2. chan' \in [Workers -> Seq(0..MaxLeases)]
    BY <1>1, <2>1, BroadcastTypes DEF Acquire
  <2>3. lease' = w /\ phase' = "idle" /\ waiting' \subseteq Workers
        /\ pc' = [pc EXCEPT ![w] = "acquiring"]
    BY <1>1 DEF Acquire, ReadyWorkers
  <2>4. /\ snap' = {} /\ overrides' = {} /\ excluded' = {} /\ entries' = {} /\ archive' = {}
        /\ uncaptured' = {} /\ abandoned' = FALSE
    BY <1>1 DEF Acquire
  <2>5. UNCHANGED <<joining, wst, store, file, by, faults>>
    BY <1>1 DEF Acquire, fileVars
  <2> QED BY <2>1, <2>2, <2>3, <2>4, <2>5 DEF TypeOK
<1>2. CASE AcquireDone(w)
  BY <1>2 DEF AcquireDone, TypeOK, memberVars, leaseVars, fileVars, planVars
<1>3. CASE AcquireFails(w) \/ Release(w)
  <2>1. Forget(ReadyWorkers) /\ pc' = [pc EXCEPT ![w] = "idle"]
    BY <1>3 DEF AcquireFails, Release
  <2>2. chan' \in [Workers -> Seq(0..MaxLeases)]
    BY <2>1, BroadcastTypes DEF Forget
  <2>3. faults' \in 0..MaxFaults
    BY <1>3 DEF AcquireFails, Release, Fault, TypeOK
  <2>4. UNCHANGED <<joining, wst, store, name, fileVars, planVars>>
    BY <1>3 DEF AcquireFails, Release
  <2> QED BY <2>1, <2>2, <2>3, <2>4 DEF Forget, TypeOK, fileVars, planVars
<1>4. CASE Exit(w)
  <2>1. chan' \in [Workers -> Seq(0..MaxLeases)]
    <3>1. \A v \in Workers : chan[v] \in Seq(0..MaxLeases)
      BY DEF TypeOK
    <3>2. \A v \in Workers : Append(chan[v], 0) \in Seq(0..MaxLeases)
      BY <3>1, AppendProperties
    <3>3. <<>> \in Seq(0..MaxLeases)
      OBVIOUS
    <3>4. CASE Ends(w)
      <4>1. chan' = [v \in Workers |-> IF v = w THEN <<>>
                      ELSE IF v \in ReadyWorkers THEN Append(chan[v], 0) ELSE chan[v]]
        BY <1>4, <3>4 DEF Exit
      <4> QED BY <4>1, <3>1, <3>2, <3>3
    <3>5. CASE ~Ends(w)
      <4>1. chan' = [chan EXCEPT ![w] = <<>>]
        BY <1>4, <3>5 DEF Exit
      <4> QED BY <4>1, <3>3 DEF TypeOK
    <3> QED BY <3>4, <3>5
  <2>2. pc' \in [Workers -> {"idle", "acquiring", "held", "delete", "snapshot", "write",
                             "read", "archived", "finish"}]
    BY <1>4 DEF Exit, TypeOK
  <2>3. lease' \in Workers \cup {None} /\ phase' \in {"idle", "delete", "write"}
        /\ waiting' \subseteq Workers
    BY <1>4 DEF Exit, TypeOK
  <2>4. wst' \in [Workers -> {"new", "told", "sync", "ready", "gone"}]
        /\ store' \in [Workers -> 0..MaxLeases] /\ faults' \in 0..MaxFaults
    BY <1>4 DEF Exit, Fault, TypeOK
  <2>5. \A f \in Files : \/ file'[f] = file[f]
                         \/ file'[f] = "absent"
                         \/ file'[f] = "left" /\ by[f] \in Workers
    BY <1>4 DEF Exit
  <2>6. file' \in [Files -> {"absent", "report", "store", "stored", "live", "deleted",
                             "capture", "unlink", "left", "removed"}]
    BY <1>4 DEF Exit, TypeOK
  <2>7. UNCHANGED <<joining, name, by, planVars>>
    BY <1>4 DEF Exit
  <2> QED BY <2>1, <2>2, <2>3, <2>4, <2>5, <2>6, <2>7 DEF TypeOK, planVars
<1>5. CASE GiveUp(w)
  BY <1>5 DEF GiveUp, Fault, TypeOK, memberVars, leaseVars, fileVars
<1> QED
  BY <1>1, <1>2, <1>3, <1>4, <1>5

\* So does CreateBackup under the lease.
LEMMA BackupTypes ==
  ASSUME TypeOK, NEW w \in Workers,
         \/ PhaseDelete(w) \/ Snapshot(w) \/ PhaseWrite(w) \/ Collect(w) \/ ReadEntry(w)
         \/ ReadFails(w) \/ Fails(w) \/ Archived(w) \/ PhaseIdle(w)
  PROVE  TypeOK'
<1> USE BackupAssumption DEF memberVars, leaseVars, fileVars, planVars
<1>1. CASE \/ PhaseDelete(w) \/ PhaseWrite(w) \/ PhaseIdle(w) \/ ReadFails(w) \/ Fails(w)
           \/ Archived(w)
  <2>1. \E to \in {"delete", "write", "finish", "archived"} : pc' = [pc EXCEPT ![w] = to]
    BY <1>1 DEF PhaseDelete, PhaseWrite, PhaseIdle, ReadFails, Fails, Archived, Step
  <2>2. phase' \in {"idle", "delete", "write"} /\ faults' \in 0..MaxFaults
    BY <1>1 DEF PhaseDelete, PhaseWrite, PhaseIdle, ReadFails, Fails, Archived, Fault, TypeOK
  <2>3. UNCHANGED <<memberVars, lease, name, waiting, fileVars, planVars>>
    BY <1>1 DEF PhaseDelete, PhaseWrite, PhaseIdle, ReadFails, Fails, Archived
  <2> QED BY <2>1, <2>2, <2>3 DEF TypeOK
<1>2. CASE Snapshot(w)
  BY <1>2 DEF Snapshot, Step, TypeOK
<1>3. CASE Collect(w)
  BY <1>3 DEF Collect, Step, TypeOK, OnDisk
<1>4. CASE ReadEntry(w)
  BY <1>4 DEF ReadEntry, TypeOK
<1> QED
  BY <1>1, <1>2, <1>3, <1>4

\* So do the file operations of the records.
LEMMA RecordTypes ==
  ASSUME TypeOK, NEW f \in Files,
         FileRun(f) \/ \E w \in Workers : Upload(w, f) \/ CommitDelete(w, f)
  PROVE  TypeOK'
<1> USE BackupAssumption DEF memberVars, leaseVars, fileVars, planVars
<1>1. CASE \E w \in Workers : Upload(w, f) \/ CommitDelete(w, f)
  <2>1. PICK w \in Workers : Upload(w, f) \/ CommitDelete(w, f)
    BY <1>1
  <2>2. \E from : \E to \in {"report", "store", "deleted"} : FileStep(f, from, to) /\ Does(w, f)
    BY <2>1 DEF Upload, CommitDelete
  <2>3. UNCHANGED <<memberVars, leaseVars, pc, planVars, faults>>
    BY <2>1 DEF Upload, CommitDelete
  <2> QED BY <2>2, <2>3, FileTypes DEF TypeOK
<1>2. CASE FileRun(f)
  <2>1. \E from \in {"report", "store", "stored", "deleted", "capture", "unlink"} :
          \E to \in {"store", "stored", "live", "capture", "unlink", "left", "removed"} :
            FileStep(f, from, to)
    BY <1>2 DEF FileRun, ReportWrite, StoreFile, CommitCreate, DeleteHook, ReportDelete, Unlink
  <2>2. UNCHANGED <<memberVars, leaseVars, pc, by, snap, entries, archive, abandoned>>
    BY <1>2 DEF FileRun, ReportWrite, StoreFile, CommitCreate, DeleteHook, ReportDelete, Unlink
  <2>3. /\ excluded' \subseteq Files /\ overrides' \subseteq Files /\ uncaptured' \subseteq Files
        /\ faults' \in 0..MaxFaults
    BY <1>2 DEF FileRun, ReportWrite, StoreFile, CommitCreate, DeleteHook, ReportDelete, Unlink,
                Fault, TypeOK
  <2>4. /\ file' \in [Files -> {"absent", "report", "store", "stored", "live", "deleted",
                                "capture", "unlink", "left", "removed"}]
        /\ \A g \in Files : file'[g] \notin {"absent", "live"} => by'[g] \in Workers
    BY <2>1, <2>2, FileGoesOn
  <2> QED BY <2>2, <2>3, <2>4 DEF TypeOK
<1> QED
  BY <1>1, <1>2

LEMMA TypeStep == TypeOK /\ [Next]_vars => TypeOK'
<1>1. TypeOK /\ Next => TypeOK'
  BY JoinTypes, LeaseTypes, BackupTypes, RecordTypes DEF Next, Backup
<1>2. TypeOK /\ UNCHANGED vars => TypeOK'
  BY DEF vars, memberVars, leaseVars, fileVars, planVars, TypeOK
<1> QED
  BY <1>1, <1>2

\* The types of the lease, the deliveries, the files and the archive.
THEOREM TypeCorrect == Spec => []TypeOK
BY InitTypes, TypeStep, PTL DEF Spec

-----------------------------------------------------------------------------
LEMMA OneBackupStep == TypeOK /\ OneBackup /\ [Next]_vars => OneBackup'
<1> SUFFICES ASSUME TypeOK, OneBackup, [Next]_vars PROVE OneBackup'
  OBVIOUS
<1> USE BackupAssumption
<1>1. CASE UNCHANGED <<lease, pc>>
  BY <1>1 DEF OneBackup
<1>2. ASSUME NEW w \in Workers, Acquire(w) PROVE OneBackup'
  BY <1>2 DEF Acquire, Free, OneBackup, TypeOK
<1>3. ASSUME NEW w \in Workers, GiveUp(w) \/ AcquireFails(w) \/ Release(w) PROVE OneBackup'
  BY <1>3 DEF GiveUp, AcquireFails, Release, Forget, OneBackup, TypeOK, leaseVars
<1>4. ASSUME NEW w \in Workers, Exit(w) PROVE OneBackup'
  <2>1. \A v \in Workers : pc'[v] \in {"idle", pc[v]}
    BY <1>4 DEF Exit, TypeOK
  <2>2. CASE Ends(w)
    <3>1. lease \in Workers /\ pc' = [pc EXCEPT ![w] = "idle", ![lease] = "idle"]
      BY <1>4, <2>2 DEF Exit, Ends, TypeOK
    <3>2. \A v \in Workers : pc'[v] = "idle"
      BY <3>1 DEF OneBackup, TypeOK
    <3> QED BY <3>2 DEF OneBackup
  <2>3. CASE ~Ends(w)
    BY <1>4, <2>1, <2>3 DEF Exit, OneBackup
  <2> QED BY <2>2, <2>3
<1>5. ASSUME NEW w \in Workers, UNCHANGED lease, pc[w] # "idle",
             \A v \in Workers \ {w} : pc'[v] = pc[v]
      PROVE  OneBackup'
  BY <1>5 DEF OneBackup
<1>6. ASSUME NEW w \in Workers, Backup(w) \/ Fails(w), ~Release(w) PROVE OneBackup'
  <2>1. UNCHANGED lease
    BY <1>6 DEF Backup, AcquireDone, PhaseDelete, Snapshot, PhaseWrite, Collect, ReadEntry,
                ReadFails, Fails, Archived, PhaseIdle, leaseVars
  <2>2. pc[w] # "idle" /\ \A v \in Workers \ {w} : pc'[v] = pc[v]
    BY <1>6 DEF Backup, AcquireDone, PhaseDelete, Snapshot, PhaseWrite, Collect, ReadEntry,
                ReadFails, Fails, Archived, PhaseIdle, Step, TypeOK
  <2> QED BY <2>1, <2>2, <1>5
<1>7. ASSUME NEW w \in Workers, Join(w) PROVE UNCHANGED <<lease, pc>>
  BY <1>7 DEF Join, WorkerReady, JoinTold, JoinReady, Receive, leaseVars
<1>8. ASSUME NEW f \in Files,
             FileRun(f) \/ \E w \in Workers : Upload(w, f) \/ CommitDelete(w, f)
      PROVE  UNCHANGED <<lease, pc>>
  BY <1>8 DEF FileRun, ReportWrite, StoreFile, CommitCreate, DeleteHook, ReportDelete, Unlink,
              Upload, CommitDelete, leaseVars
<1>9. CASE UNCHANGED vars
  BY <1>9, <1>1 DEF vars, leaseVars
<1> QED
  BY <1>1, <1>2, <1>3, <1>4, <1>6, <1>7, <1>8, <1>9 DEF Next

\* Who is in CreateBackup has the lease, so no other worker is: the lease is
\* given when it is free, and whoever loses it is told by the same step.
THEOREM LeaseExclusive == Spec => []OneBackup
<1>1. Init => OneBackup
  BY DEF Init, OneBackup
<1> QED
  BY <1>1, OneBackupStep, TypeCorrect, PTL DEF Spec

-----------------------------------------------------------------------------
(***************************************************************************)
(* What a worker was told last.  The deliveries to a worker arrive in      *)
(* order, so the last one on its way, or else the one it received last,    *)
(* decides what its store will say.  A lease is named once, so that a      *)
(* worker which answered its acquire has nothing more to receive.          *)
(***************************************************************************)
LastTold(w) == IF chan[w] = <<>> THEN store[w] ELSE chan[w][Len(chan[w])]

Current == IF lease = None THEN 0 ELSE name

Heard(w) ==
  /\ LastTold(w) = Current
  /\ lease # None => /\ \A i \in 1..(Len(chan[w]) - 1) : chan[w][i] # name
                     /\ w \notin waiting => chan[w] = <<>>

ToldInv ==
  /\ lease # None => name # 0
  /\ \A w \in Workers : \A i \in 1..Len(chan[w]) : chan[w][i] <= name
  /\ \A w \in Workers \ joining : wst[w] \in {"ready", "gone"}
  /\ \A w \in ReadyWorkers \ joining : Heard(w)

\* A delivery is added at the end of a channel,
LEMMA AppendFacts ==
  ASSUME NEW s \in Seq(0..MaxLeases), NEW n \in 0..MaxLeases
  PROVE  /\ Append(s, n) # <<>> /\ Len(s) \in Nat /\ Len(Append(s, n)) = Len(s) + 1
         /\ Append(s, n)[Len(s) + 1] = n
         /\ \A i \in 1..Len(s) : Append(s, n)[i] = s[i]
BY AppendProperties

\* and received from its front.
LEMMA TailFacts ==
  ASSUME NEW s \in Seq(0..MaxLeases), s # <<>>
  PROVE  /\ Len(s) \in Nat \ {0} /\ Head(s) = s[1] /\ Len(Tail(s)) = Len(s) - 1
         /\ \A i \in 1..(Len(s) - 1) : Tail(s)[i] = s[i + 1]
         /\ Tail(s) = <<>> <=> Len(s) = 1
<1>1. Len(s) \in Nat \ {0} /\ Head(s) = s[1]
  BY EmptySeq
<1>2. /\ Tail(s) \in Seq(0..MaxLeases) /\ Len(Tail(s)) = Len(s) - 1
      /\ \A i \in 1..Len(Tail(s)) : Tail(s)[i] = s[i + 1]
  BY HeadTailProperties
<1>3. Tail(s) = <<>> <=> Len(Tail(s)) = 0
  BY <1>2, EmptySeq
<1>4. QED
  BY <1>1, <1>2, <1>3

\* A worker that was ready hears of the lease that a broadcast announces.
LEMMA BroadcastHeard ==
  ASSUME TypeOK, ToldInv, NEW n \in 0..MaxLeases, name <= name',
         name' \in 0..MaxLeases, n <= name',
         Broadcast(ReadyWorkers, n), UNCHANGED <<joining, wst, store>>,
         n = Current', lease' # None => n # 0 /\ name < name' /\ ReadyWorkers \subseteq waiting'
  PROVE  ToldInv'
<1> USE BackupAssumption
<1>1. \A w \in Workers : chan[w] \in Seq(0..MaxLeases) /\ Len(chan[w]) \in Nat
  BY DEF TypeOK
<1>2. ASSUME NEW w \in Workers, NEW i \in 1..Len(chan'[w]) PROVE chan'[w][i] <= name'
  <2>1. CASE w \in ReadyWorkers
    <3>1. chan'[w] = Append(chan[w], n)
      BY <2>1 DEF Broadcast
    <3>2. i \in 1..Len(chan[w]) \/ i = Len(chan[w]) + 1
      BY <1>1, <1>2, <3>1, AppendFacts
    <3>3. i \in 1..Len(chan[w]) => chan[w][i] <= name /\ chan[w][i] \in 0..MaxLeases
      BY <1>1 DEF ToldInv
    <3>4. QED
      BY <1>1, <3>1, <3>2, <3>3, AppendFacts DEF TypeOK
  <2>2. CASE w \notin ReadyWorkers
    <3>1. chan'[w] = chan[w] /\ i \in 1..Len(chan[w])
      BY <1>2, <2>2 DEF Broadcast
    <3>2. chan[w][i] <= name /\ chan[w][i] \in 0..MaxLeases
      BY <1>1, <3>1 DEF ToldInv
    <3>3. QED
      BY <3>1, <3>2 DEF TypeOK
  <2>3. QED
    BY <2>1, <2>2
<1>3. ASSUME NEW w \in ReadyWorkers \ joining PROVE Heard(w)'
  <2>1. w \in Workers /\ w \in ReadyWorkers /\ chan'[w] = Append(chan[w], n)
    BY DEF ReadyWorkers, Broadcast
  <2>2. LastTold(w)' = n
    BY <1>1, <2>1, AppendFacts DEF LastTold
  <2>3. \A i \in 1..Len(chan[w]) : chan'[w][i] <= name /\ chan'[w][i] \in 0..MaxLeases
    BY <1>1, <2>1, AppendFacts DEF ToldInv
  <2>4. lease' # None => \A i \in 1..(Len(chan'[w]) - 1) : chan'[w][i] # name'
    BY <1>1, <2>1, <2>3, AppendFacts DEF TypeOK
  <2>5. QED
    BY <2>1, <2>2, <2>4 DEF Heard
<1>4. lease' # None => name' # 0
  BY DEF Current
<1>5. QED
  BY <1>2, <1>3, <1>4 DEF ToldInv, ReadyWorkers

LEMMA ReceiveHeard ==
  ASSUME TypeOK, ToldInv, NEW w \in Workers, Receive(w)
  PROVE  ToldInv'
<1> USE BackupAssumption
<1> DEFINE s == chan[w]
<1>1. s \in Seq(0..MaxLeases) /\ s # <<>> /\ chan'[w] = Tail(s) /\ store'[w] = Head(s)
  BY DEF Receive, TypeOK
<1>2. \A v \in Workers \ {w} : chan'[v] = chan[v] /\ store'[v] = store[v]
  BY DEF Receive, TypeOK
<1>3. /\ UNCHANGED <<joining, wst, lease, name>>
      /\ waiting' = IF Head(s) = name THEN waiting \ {w} ELSE waiting
  BY DEF Receive
<1>4. ASSUME NEW v \in Workers, NEW i \in 1..Len(chan'[v]) PROVE chan'[v][i] <= name'
  <2>1. CASE v = w
    <3>1. Len(chan'[w]) = Len(s) - 1 /\ Len(s) \in Nat \ {0}
      BY <1>1, TailFacts
    <3>2. i \in 1..(Len(s) - 1) /\ i + 1 \in 1..Len(s)
      BY <1>4, <2>1, <3>1
    <3>3. chan'[w][i] = s[i + 1]
      BY <1>1, <3>2, TailFacts
    <3>4. QED
      BY <1>3, <2>1, <3>2, <3>3 DEF ToldInv
  <2>2. CASE v # w
    BY <1>2, <1>3, <1>4, <2>2 DEF ToldInv
  <2>3. QED
    BY <2>1, <2>2
<1>5. ASSUME NEW v \in ReadyWorkers \ joining, v # w PROVE Heard(v)'
  <2>1. Heard(v) /\ v \in Workers /\ v \in Workers \ {w}
    BY <1>5 DEF ToldInv, ReadyWorkers
  <2>2. chan'[v] = chan[v] /\ LastTold(v)' = LastTold(v) /\ (v \in waiting' <=> v \in waiting)
    BY <1>2, <1>3, <2>1 DEF LastTold
  <2>3. QED
    BY <1>3, <2>1, <2>2 DEF Heard, Current
<1>6. ASSUME w \in ReadyWorkers \ joining PROVE Heard(w)'
  <2>1. Heard(w)
    BY <1>6 DEF ToldInv
  <2>2. LastTold(w)' = LastTold(w)
    <3>1. /\ Len(s) \in Nat \ {0} /\ Len(chan'[w]) = Len(s) - 1
          /\ chan'[w] = <<>> <=> Len(s) = 1
      BY <1>1, TailFacts
    <3>2. Len(s) = 1 => store'[w] = s[Len(s)]
      BY <1>1, TailFacts
    <3>3. Len(s) # 1 => chan'[w][Len(s) - 1] = s[Len(s)]
      <4>1. Len(s) # 1 => Len(s) - 1 \in 1..(Len(s) - 1) /\ (Len(s) - 1) + 1 = Len(s)
        BY <3>1
      <4>2. QED
        BY <1>1, <4>1, TailFacts
    <3>4. QED
      BY <1>1, <3>1, <3>2, <3>3 DEF LastTold
  <2>3. ASSUME lease # None, NEW i \in 1..(Len(chan'[w]) - 1) PROVE chan'[w][i] # name
    <3>1. i + 1 \in 1..(Len(s) - 1) /\ chan'[w][i] = s[i + 1]
      BY <1>1, <2>3, TailFacts
    <3>2. QED
      BY <2>1, <2>3, <3>1 DEF Heard
  <2>4. ASSUME lease # None, w \notin waiting' PROVE chan'[w] = <<>>
    <3>1. Head(s) = name
      BY <1>1, <1>3, <2>1, <2>4 DEF Heard
    <3>2. ~(Len(s) > 1)
      BY <1>1, <2>1, <2>4, <3>1, TailFacts DEF Heard
    <3>3. QED
      BY <1>1, <3>2, TailFacts
  <2>5. QED
    BY <1>3, <2>1, <2>2, <2>3, <2>4 DEF Heard, Current
<1>7. QED
  BY <1>3, <1>4, <1>5, <1>6 DEF ToldInv, ReadyWorkers

\* A worker that is not ready at first hears of a lease by its own join.
LEMMA JoinHeard ==
  ASSUME TypeOK, ToldInv, NEW w \in Workers, WorkerReady(w) \/ JoinTold(w) \/ JoinReady(w)
  PROVE  ToldInv'
<1> USE BackupAssumption
<1>1. w \in joining
  BY DEF ToldInv, WorkerReady, JoinTold, JoinReady
<1>2. /\ UNCHANGED <<joining, store, lease, name, waiting>>
      /\ \A v \in Workers \ {w} : wst'[v] = wst[v] /\ chan'[v] = chan[v]
  BY DEF WorkerReady, JoinTold, JoinReady, Broadcast, TypeOK, leaseVars
<1>3. ASSUME NEW i \in 1..Len(chan'[w]) PROVE chan'[w][i] <= name
  <2>1. CASE chan'[w] = chan[w]
    BY <1>3, <2>1 DEF ToldInv
  <2>2. CASE chan'[w] # chan[w]
    <3>1. chan'[w] = Append(chan[w], name) /\ chan[w] \in Seq(0..MaxLeases)
      BY <2>2 DEF WorkerReady, JoinTold, JoinReady, Broadcast, TypeOK
    <3>2. i \in 1..Len(chan[w]) \/ i = Len(chan[w]) + 1
      BY <1>3, <3>1, AppendFacts DEF TypeOK
    <3>3. name \in 0..MaxLeases /\ \A j \in 1..Len(chan[w]) : chan[w][j] <= name
      BY DEF TypeOK, ToldInv
    <3>4. QED
      BY <3>1, <3>2, <3>3, AppendFacts
  <2>3. QED
    BY <2>1, <2>2
<1>4. ASSUME NEW v \in ReadyWorkers' \ joining PROVE Heard(v)'
  <2>1. v \in Workers \ {w} /\ v \in ReadyWorkers \ joining
    BY <1>1, <1>2, <1>4 DEF ReadyWorkers
  <2>2. Heard(v)
    BY <2>1 DEF ToldInv
  <2>3. QED
    BY <1>2, <2>1, <2>2 DEF Heard, LastTold, Current
<1>5. QED
  BY <1>1, <1>2, <1>3, <1>4 DEF ToldInv

\* The workers that go on hear that the lease of a worker that exits is gone.
LEMMA ExitHeard ==
  ASSUME TypeOK, ToldInv, NEW w \in Workers, Exit(w)
  PROVE  ToldInv'
<1> USE BackupAssumption
<1>1. /\ UNCHANGED <<joining, name>> /\ wst' = [wst EXCEPT ![w] = "gone"]
      /\ store' = [store EXCEPT ![w] = 0]
  BY DEF Exit
<1>2. chan'[w] = <<>>
  BY DEF Exit, TypeOK
<1>3. ASSUME NEW v \in ReadyWorkers' PROVE v \in ReadyWorkers /\ v \in Workers \ {w}
  BY <1>1, <1>3 DEF ReadyWorkers, TypeOK
<1>4. name \in 0..MaxLeases /\ \A v \in Workers : chan[v] \in Seq(0..MaxLeases)
  BY DEF TypeOK
<1>5. CASE Ends(w)
  <2>1. /\ lease' = None
        /\ \A v \in Workers \ {w} :
             chan'[v] = IF v \in ReadyWorkers THEN Append(chan[v], 0) ELSE chan[v]
    BY <1>5 DEF Exit
  <2>2. ASSUME NEW v \in Workers, NEW i \in 1..Len(chan'[v]) PROVE chan'[v][i] <= name
    <3>1. CASE v = w
      BY <1>2, <2>2, <3>1
    <3>2. CASE v # w /\ v \in ReadyWorkers
      <4>1. chan'[v] = Append(chan[v], 0)
        BY <2>1, <3>2
      <4>2. i \in 1..Len(chan[v]) \/ i = Len(chan[v]) + 1
        BY <1>4, <2>2, <4>1, AppendFacts
      <4>3. \A j \in 1..Len(chan[v]) : chan[v][j] <= name
        BY DEF ToldInv
      <4>4. QED
        BY <1>4, <4>1, <4>2, <4>3, AppendFacts
    <3>3. CASE v # w /\ v \notin ReadyWorkers
      BY <2>1, <2>2, <3>3 DEF ToldInv
    <3>4. QED
      BY <3>1, <3>2, <3>3
  <2>3. ASSUME NEW v \in ReadyWorkers' \ joining PROVE Heard(v)'
    <3>1. chan'[v] = Append(chan[v], 0) /\ v \in Workers
      BY <1>3, <2>1, <2>3
    <3>2. LastTold(v)' = 0
      BY <1>4, <3>1, AppendFacts DEF LastTold
    <3>3. QED
      BY <2>1, <3>2 DEF Heard, Current
  <2>4. QED
    BY <1>1, <2>1, <2>2, <2>3 DEF ToldInv, TypeOK
<1>6. CASE ~Ends(w)
  <2>1. UNCHANGED <<lease, waiting>> /\ chan' = [chan EXCEPT ![w] = <<>>]
    BY <1>6 DEF Exit
  <2>2. ASSUME NEW v \in Workers, NEW i \in 1..Len(chan'[v]) PROVE chan'[v][i] <= name
    BY <1>2, <2>1, <2>2 DEF ToldInv, TypeOK
  <2>3. ASSUME NEW v \in ReadyWorkers' \ joining PROVE Heard(v)'
    <3>1. Heard(v) /\ chan'[v] = chan[v] /\ store'[v] = store[v]
      BY <1>1, <1>3, <2>1, <2>3 DEF ToldInv, TypeOK
    <3>2. QED
      BY <1>1, <2>1, <3>1 DEF Heard, LastTold, Current
  <2>4. QED
    BY <1>1, <2>1, <2>2, <2>3 DEF ToldInv, TypeOK
<1>7. QED
  BY <1>5, <1>6

\* Everything else leaves the lease and the deliveries alone.
LEMMA LeaseQuiet ==
  ASSUME NEW w \in Workers,
         \/ AcquireDone(w) \/ PhaseDelete(w) \/ Snapshot(w) \/ PhaseWrite(w) \/ Collect(w)
         \/ ReadEntry(w) \/ ReadFails(w) \/ Fails(w) \/ Archived(w) \/ PhaseIdle(w)
  PROVE  UNCHANGED <<memberVars, lease, name, waiting, fileVars, excluded, overrides>>
BY DEF AcquireDone, PhaseDelete, Snapshot, PhaseWrite, Collect, ReadEntry, ReadFails, Fails,
       Archived, PhaseIdle, leaseVars, planVars

LEMMA RecordQuiet ==
  ASSUME NEW f \in Files, FileRun(f) \/ \E w \in Workers : Upload(w, f) \/ CommitDelete(w, f)
  PROVE  UNCHANGED <<memberVars, leaseVars, pc, snap, entries, archive>>
BY DEF FileRun, ReportWrite, StoreFile, CommitCreate, DeleteHook, ReportDelete, Unlink, Upload,
       CommitDelete, planVars

LEMMA ToldStep == TypeOK /\ ToldInv /\ [Next]_vars => ToldInv'
<1> SUFFICES ASSUME TypeOK, ToldInv, [Next]_vars PROVE ToldInv'
  OBVIOUS
<1> USE BackupAssumption
<1>1. CASE UNCHANGED <<memberVars, lease, name, waiting>>
  BY <1>1 DEF memberVars, ToldInv, Heard, LastTold, Current, ReadyWorkers
<1>2. ASSUME NEW w \in Workers, Acquire(w) PROVE ToldInv'
  <2>1. /\ lease' = w /\ name' = name + 1 /\ waiting' = ReadyWorkers
        /\ Broadcast(ReadyWorkers, name + 1) /\ UNCHANGED <<joining, wst, store>>
        /\ name + 1 \in 0..MaxLeases
    BY <1>2 DEF Acquire, TypeOK
  <2>2. name \in Nat /\ w # None
    BY DEF TypeOK
  <2>3. name <= name' /\ name < name' /\ name + 1 # 0 /\ name + 1 <= name'
    BY <2>1, <2>2
  <2>4. Current' = name + 1
    BY <2>1, <2>2 DEF Current
  <2>5. QED
    BY <2>1, <2>3, <2>4, BroadcastHeard
<1>3. ASSUME NEW w \in Workers, AcquireFails(w) \/ Release(w) PROVE ToldInv'
  <2>1. Forget(ReadyWorkers) /\ UNCHANGED <<joining, wst, store, name>>
    BY <1>3 DEF AcquireFails, Release
  <2>2. lease' = None /\ Current' = 0 /\ Broadcast(ReadyWorkers, 0)
    BY <2>1 DEF Forget, Current
  <2>3. name \in 0..MaxLeases /\ 0 \in 0..MaxLeases /\ name <= name /\ 0 <= name
    BY DEF TypeOK
  <2>4. QED
    BY <2>1, <2>2, <2>3, BroadcastHeard
<1>4. ASSUME NEW w \in Workers, GiveUp(w) PROVE ToldInv'
  BY <1>1, <1>4 DEF GiveUp, leaseVars
<1>5. QED
  BY <1>1, <1>2, <1>3, <1>4, JoinHeard, ReceiveHeard, ExitHeard, LeaseQuiet, RecordQuiet
  DEF Next, Join, Backup, leaseVars, vars

LEMMA InitTold == Init => ToldInv
<1> SUFFICES ASSUME Init PROVE ToldInv
  OBVIOUS
<1>1. \A w \in Workers : chan[w] = <<>> /\ store[w] = 0
  BY DEF Init
<1>2. lease = None /\ Current = 0 /\ \A w \in Workers \ joining : wst[w] = "ready"
  BY DEF Init, Current
<1>3. \A w \in Workers : Heard(w)
  BY <1>1, <1>2 DEF Heard, LastTold
<1>4. QED
  BY <1>1, <1>2, <1>3, EmptySeq DEF ToldInv, ReadyWorkers

\* When all deliveries have arrived, the workers that were ready from the start
\* agree with the primary on whether a backup is active, and on which.
THEOREM FlagsSettle == Spec => []FlagsFollowLease
<1>1. ToldInv => FlagsFollowLease
  BY DEF ToldInv, Heard, LastTold, Current, FlagsFollowLease, ReadyWorkers
<1>2. QED
  BY <1>1, InitTypes, InitTold, TypeStep, ToldStep, PTL DEF Spec

-----------------------------------------------------------------------------
(***************************************************************************)
(* The archive.  While the lease is held past its acquire, a worker that   *)
(* was ready then says that a backup is active, so the files it deletes    *)
(* after the snapshot are captured before they are removed.                *)
(***************************************************************************)
During(S) == \E w \in Workers : pc[w] \in S

LeaseInv ==
  /\ During({"held", "delete", "snapshot", "write", "read", "archived", "finish"})
       => waiting = {}
  /\ During({"acquiring", "held"}) => phase = "idle"
  /\ During({"delete", "snapshot"}) => phase = "delete"
  /\ During({"write", "read", "archived"}) => phase = "write"

\* A file operation is in the hands of a worker that runs.
ServedInv ==
  \A f \in Files :
    file[f] \in {"report", "store", "stored", "deleted", "capture", "unlink"} => by[f] \in Serving

\* A file that a worker deleted unasked, or that could not be captured.
Excused(f) == by[f] \in joining \/ f \in uncaptured

\* A file that the archive can still get, or one that it cannot.
Kept(f) ==
  \/ file[f] \in {"live", "deleted", "capture", "left"}
  \/ f \in overrides
  \/ file[f] \in {"unlink", "removed"} /\ Excused(f)

SnapInv ==
  /\ During({"acquiring", "held", "delete"}) => excluded = {}
  /\ During({"snapshot", "write", "read", "archived"}) =>
       \A f \in snap :
         /\ f \notin excluded
         /\ file[f] \in {"live", "deleted", "capture", "left", "unlink", "removed"}
         /\ Kept(f)
  /\ During({"read", "archived"}) =>
       \A f \in snap : f \in entries \cup archive \/ (file[f] = "removed" /\ Excused(f))
  /\ During({"archived"}) => entries = {}

ArchiveInv == OneBackup /\ ToldInv /\ LeaseInv /\ ServedInv /\ SnapInv

\* One worker is in CreateBackup, so a step of another one needs no look.
LEMMA OnlyOwner ==
  ASSUME OneBackup, NEW w \in Workers, pc[w] # "idle", NEW v \in Workers, v # w
  PROVE  pc[v] = "idle"
BY DEF OneBackup

LEMMA StepDuring ==
  ASSUME TypeOK, OneBackup, NEW w \in Workers, NEW from, NEW to, from # "idle",
         Step(w, from, to), NEW S, "idle" \notin S
  PROVE  /\ During(S)' <=> to \in S
         /\ During(S) <=> from \in S
<1>1. \A v \in Workers \ {w} : pc[v] = "idle" /\ pc'[v] = "idle"
  BY OnlyOwner DEF Step, TypeOK
<1>2. pc[w] = from /\ pc'[w] = to
  BY DEF Step, TypeOK
<1>3. QED
  BY <1>1, <1>2 DEF During

LEMMA LeaseStep == TypeOK /\ OneBackup /\ LeaseInv /\ [Next]_vars => LeaseInv'
<1> SUFFICES ASSUME TypeOK, OneBackup, LeaseInv, [Next]_vars PROVE LeaseInv'
  OBVIOUS
<1> USE BackupAssumption DEF leaseVars
<1>1. ASSUME UNCHANGED <<phase, pc>>, waiting' \subseteq waiting PROVE LeaseInv'
  BY <1>1 DEF LeaseInv, During
<1>2. ASSUME NEW w \in Workers, Acquire(w) PROVE LeaseInv'
  <2>1. \A v \in Workers : pc[v] = "idle"
    BY <1>2 DEF Acquire, Free, OneBackup, TypeOK
  <2>2. \A v \in Workers : pc'[v] \in {"idle", "acquiring"}
    BY <1>2, <2>1 DEF Acquire, TypeOK
  <2>3. phase' = "idle"
    BY <1>2 DEF Acquire
  <2>4. QED
    BY <2>2, <2>3 DEF LeaseInv, During
<1>3. ASSUME NEW w \in Workers, AcquireFails(w) \/ Release(w) PROVE LeaseInv'
  <2>1. \A v \in Workers : v # w => pc[v] = "idle"
    BY <1>3 DEF OneBackup, AcquireFails, Release
  <2>2. pc' = [pc EXCEPT ![w] = "idle"]
    BY <1>3 DEF AcquireFails, Release
  <2>3. \A v \in Workers : pc'[v] = "idle"
    BY <2>1, <2>2 DEF TypeOK
  <2>4. QED
    BY <2>3 DEF LeaseInv, During
<1>4. ASSUME NEW w \in Workers, Exit(w) PROVE LeaseInv'
  <2>1. \A v \in Workers : pc'[v] \in {"idle", pc[v]}
    BY <1>4 DEF Exit, TypeOK
  <2>2. CASE Ends(w)
    <3>1. lease \in Workers /\ pc' = [pc EXCEPT ![w] = "idle", ![lease] = "idle"]
      BY <1>4, <2>2 DEF Exit, Ends, TypeOK
    <3>2. \A v \in Workers : pc'[v] = "idle"
      BY <3>1 DEF OneBackup, TypeOK
    <3>3. QED
      BY <3>2 DEF LeaseInv, During
  <2>3. CASE ~Ends(w)
    <3>1. UNCHANGED <<phase, waiting>>
      BY <1>4, <2>3 DEF Exit
    <3>2. \A S : "idle" \notin S /\ During(S)' => During(S)
      BY <2>1 DEF During
    <3>3. QED
      BY <3>1, <3>2 DEF LeaseInv
  <2>4. QED
    BY <2>2, <2>3
<1>5. ASSUME NEW w \in Workers, AcquireDone(w) PROVE LeaseInv'
  <2>1. Step(w, "acquiring", "held") /\ waiting' = {} /\ UNCHANGED phase
    BY <1>5 DEF AcquireDone, Step
  <2>2. QED
    BY <2>1, StepDuring DEF LeaseInv
<1>6. ASSUME NEW w \in Workers, PhaseDelete(w) \/ Snapshot(w) PROVE LeaseInv'
  <2>1. CASE PhaseDelete(w)
    <3>1. Step(w, "held", "delete") /\ phase' = "delete" /\ UNCHANGED waiting
      BY <2>1 DEF PhaseDelete
    <3>2. QED
      BY <3>1, StepDuring DEF LeaseInv
  <2>2. CASE Snapshot(w)
    <3>1. Step(w, "delete", "snapshot") /\ UNCHANGED <<phase, waiting>>
      BY <2>2 DEF Snapshot
    <3>2. QED
      BY <3>1, StepDuring DEF LeaseInv
  <2>3. QED
    BY <1>6, <2>1, <2>2
<1>7. ASSUME NEW w \in Workers, PhaseWrite(w) \/ Collect(w) PROVE LeaseInv'
  <2>1. CASE PhaseWrite(w)
    <3>1. Step(w, "snapshot", "write") /\ phase' = "write" /\ UNCHANGED waiting
      BY <2>1 DEF PhaseWrite
    <3>2. QED
      BY <3>1, StepDuring DEF LeaseInv
  <2>2. CASE Collect(w)
    <3>1. Step(w, "write", "read") /\ UNCHANGED <<phase, waiting>>
      BY <2>2 DEF Collect
    <3>2. QED
      BY <3>1, StepDuring DEF LeaseInv
  <2>3. QED
    BY <1>7, <2>1, <2>2
<1>8. ASSUME NEW w \in Workers, ReadFails(w) \/ Archived(w) \/ PhaseIdle(w) PROVE LeaseInv'
  <2>1. CASE Archived(w)
    <3>1. Step(w, "read", "archived") /\ UNCHANGED <<phase, waiting>>
      BY <2>1 DEF Archived
    <3>2. QED
      BY <3>1, StepDuring DEF LeaseInv
  <2>2. CASE ReadFails(w) \/ PhaseIdle(w)
    <3>1. \E from \in {"read", "archived"} : Step(w, from, "finish")
      BY <2>2 DEF ReadFails, PhaseIdle
    <3>2. UNCHANGED waiting
      BY <2>2 DEF ReadFails, PhaseIdle
    <3>3. QED
      BY <3>1, <3>2, StepDuring DEF LeaseInv
  <2>3. QED
    BY <1>8, <2>1, <2>2
<1>9. ASSUME NEW w \in Workers, ReadEntry(w) \/ Join(w) PROVE LeaseInv'
  BY <1>9, <1>1 DEF ReadEntry, Join, WorkerReady, JoinTold, JoinReady, Receive
<1>10. CASE UNCHANGED vars
  BY <1>10, <1>1 DEF vars
<1>11. ASSUME NEW w \in Workers, Fails(w) PROVE LeaseInv'
  <2>1. /\ \E from \in {"held", "delete", "snapshot", "write", "read"} : Step(w, from, "finish")
        /\ UNCHANGED waiting
    BY <1>11 DEF Fails
  <2>2. QED
    BY <2>1, StepDuring DEF LeaseInv
<1>12. ASSUME NEW w \in Workers, GiveUp(w) PROVE LeaseInv'
  <2>1. \A v \in Workers : pc'[v] \in {"idle", pc[v]}
    BY <1>12 DEF GiveUp, TypeOK
  <2>2. \A S : "idle" \notin S /\ During(S)' => During(S)
    BY <2>1 DEF During
  <2>3. QED
    BY <1>12, <2>2 DEF GiveUp, LeaseInv
<1>13. QED
  BY <1>1, <1>2, <1>3, <1>4, <1>5, <1>6, <1>7, <1>8, <1>9, <1>10, <1>11, <1>12, RecordQuiet
  DEF Next, Backup

LEMMA ServedStep == TypeOK /\ ServedInv /\ [Next]_vars => ServedInv'
<1> SUFFICES ASSUME TypeOK, ServedInv, [Next]_vars PROVE ServedInv'
  OBVIOUS
<1> USE BackupAssumption DEF memberVars, fileVars
<1>1. ASSUME UNCHANGED <<file, by>>, Serving \subseteq Serving' PROVE ServedInv'
  BY <1>1 DEF ServedInv
<1>2. ASSUME NEW w \in Workers, Exit(w) PROVE ServedInv'
  <2>1. \A v \in Workers \ {w} : v \in Serving => v \in Serving'
    BY <1>2 DEF Exit, Serving, TypeOK
  <2>2. \A f \in Files : by'[f] = by[f] /\
          (by[f] = w => file'[f] \notin {"report", "store", "stored", "deleted", "capture", "unlink"})
    BY <1>2 DEF Exit
  <2>3. \A f \in Files : by[f] # w => file'[f] = file[f]
    BY <1>2 DEF Exit
  <2>4. QED
    BY <2>1, <2>2, <2>3 DEF ServedInv, Serving
<1>3. ASSUME NEW w \in Workers,
             Join(w) \/ Acquire(w) \/ GiveUp(w) \/ AcquireFails(w) \/ Release(w)
      PROVE  ServedInv'
  <2>1. UNCHANGED <<file, by>>
    BY <1>3 DEF Join, WorkerReady, JoinTold, JoinReady, Receive, Acquire, GiveUp, AcquireFails,
                Release
  <2>2. Serving \subseteq Serving'
    BY <1>3 DEF Join, WorkerReady, JoinTold, JoinReady, Receive, Acquire, GiveUp, AcquireFails,
                Release, Serving, TypeOK
  <2>3. QED
    BY <2>1, <2>2, <1>1
<1>4. ASSUME NEW w \in Workers, Backup(w) \/ Fails(w), ~Release(w) PROVE ServedInv'
  BY <1>4, <1>1, LeaseQuiet DEF Backup, Serving
<1>5. ASSUME NEW w \in Workers, NEW f \in Files, Upload(w, f) \/ CommitDelete(w, f)
      PROVE  ServedInv'
  BY <1>5 DEF Upload, CommitDelete, FileStep, Does, ServedInv, Serving, TypeOK
<1>6. ASSUME NEW f \in Files, FileRun(f) PROVE ServedInv'
  <2>1. /\ file[f] \in {"report", "store", "stored", "deleted", "capture", "unlink"}
        /\ \A g \in Files \ {f} : file'[g] = file[g]
        /\ UNCHANGED <<by, wst>>
    BY <1>6 DEF FileRun, ReportWrite, StoreFile, CommitCreate, DeleteHook, ReportDelete, Unlink,
                FileStep, TypeOK
  <2>2. QED
    BY <2>1 DEF ServedInv, Serving
<1>7. CASE UNCHANGED vars
  BY <1>7, <1>1 DEF vars, Serving
<1>8. QED
  BY <1>2, <1>3, <1>4, <1>5, <1>6, <1>7 DEF Next, Backup

\* While a backup runs, a worker that was ready when it began and goes on to run
\* says so, and so it captures what it deletes.
LEMMA DeleterKnows ==
  ASSUME TypeOK, OneBackup, ToldInv, LeaseInv,
         During({"snapshot", "write", "read", "archived"}), NEW w \in Serving \ joining
  PROVE  store[w] # 0
<1>1. lease \in Workers /\ lease # None /\ waiting = {}
  BY BackupAssumption DEF During, OneBackup, LeaseInv
<1>2. w \in ReadyWorkers \ joining
  BY DEF ToldInv, Serving, ReadyWorkers
<1>3. store[w] = name /\ name # 0
  BY <1>1, <1>2 DEF ToldInv, Heard, LastTold, Current
<1>4. QED
  BY <1>3

\* The operations on a file of the snapshot keep it within the archive's reach.
LEMMA SnapFileStep ==
  ASSUME TypeOK, OneBackup, ToldInv, LeaseInv, ServedInv, SnapInv, NEW f \in Files,
         FileRun(f) \/ \E w \in Workers : Upload(w, f) \/ CommitDelete(w, f)
  PROVE  SnapInv'
<1>1. /\ UNCHANGED <<joining, phase, pc, snap, entries, archive>>
      /\ \A S : During(S)' <=> During(S)
  BY RecordQuiet DEF memberVars, leaseVars, During
<1>2. \A g \in Files \ {f} : file'[g] = file[g] /\ by'[g] = by[g]
  BY DEF FileRun, ReportWrite, StoreFile, CommitCreate, DeleteHook, ReportDelete, Unlink, Upload,
         CommitDelete, FileStep, Does, TypeOK
<1>3. /\ overrides \subseteq overrides' /\ uncaptured \subseteq uncaptured'
      /\ excluded' \subseteq excluded \cup {f}
  BY DEF FileRun, ReportWrite, StoreFile, CommitCreate, DeleteHook, ReportDelete, Unlink, Upload,
         CommitDelete, planVars
<1>4. During({"acquiring", "held", "delete"}) => excluded' = {}
  <2>1. phase # "write" => excluded' = excluded
    BY DEF FileRun, ReportWrite, StoreFile, CommitCreate, DeleteHook, ReportDelete, Unlink,
           Upload, CommitDelete, planVars
  <2>2. During({"acquiring", "held", "delete"}) => phase # "write"
    BY DEF LeaseInv, During
  <2>3. QED
    BY <2>1, <2>2 DEF SnapInv
<1>5. ASSUME f \in snap, During({"snapshot", "write", "read", "archived"})
      PROVE  /\ f \notin excluded'
             /\ file'[f] \in {"live", "deleted", "capture", "left", "unlink", "removed"}
             /\ Kept(f)'
             /\ f \in entries \cup archive \/ (file[f] = "removed" /\ Excused(f))
                  => f \in entries \cup archive \/ (file'[f] = "removed" /\ Excused(f)')
  <2>1. /\ f \notin excluded /\ Kept(f)
        /\ file[f] \in {"live", "deleted", "capture", "left", "unlink", "removed"}
    BY <1>5 DEF SnapInv
  <2>2. \A from, to : FileStep(f, from, to) => file[f] = from /\ file'[f] = to
    BY DEF FileStep, TypeOK
  <2>3. ASSUME NEW w \in Workers, Upload(w, f) \/ CommitDelete(w, f) PROVE CommitDelete(w, f)
    BY <2>1, <2>2, <2>3 DEF Upload
  <2>4. CASE \E w \in Workers : Upload(w, f) \/ CommitDelete(w, f)
    <3>1. file[f] = "live" /\ file'[f] = "deleted" /\ UNCHANGED excluded
      BY <2>2, <2>3, <2>4 DEF CommitDelete, planVars
    <3>2. QED
      BY <2>1, <3>1 DEF Kept
  <2>5. CASE DeleteHook(f)
    <3>1. /\ file[f] = "deleted" /\ file'[f] = IF store[by[f]] # 0 THEN "capture" ELSE "unlink"
          /\ UNCHANGED <<by, excluded, overrides, uncaptured>>
      BY <2>2, <2>5 DEF DeleteHook, planVars
    <3>2. by[f] \in joining \/ file'[f] = "capture"
      BY <1>5, <3>1, DeleterKnows DEF ServedInv
    <3>3. QED
      BY <1>1, <2>1, <3>1, <3>2 DEF Kept, Excused
  <2>6. CASE ReportDelete(f)
    <3>1. Capturing
      BY <1>5 DEF LeaseInv, Capturing, During
    <3>2. /\ file[f] = "capture" /\ UNCHANGED excluded
          /\ \/ file'[f] = "left"
             \/ file'[f] = "unlink" /\ (f \in overrides' \/ f \in uncaptured')
      BY <2>2, <2>6, <3>1 DEF ReportDelete
    <3>3. QED
      BY <2>1, <3>2 DEF Kept, Excused
  <2>7. CASE Unlink(f)
    <3>1. file[f] = "unlink" /\ file'[f] = "removed"
          /\ UNCHANGED <<by, excluded, overrides, uncaptured>>
      BY <2>2, <2>7 DEF Unlink, planVars
    <3>2. QED
      BY <1>1, <2>1, <3>1 DEF Kept, Excused
  <2>8. ~ReportWrite(f) /\ ~StoreFile(f) /\ ~CommitCreate(f)
    BY <2>1, <2>2 DEF ReportWrite, StoreFile, CommitCreate
  <2>9. QED
    BY <2>4, <2>5, <2>6, <2>7, <2>8 DEF FileRun
<1>6. ASSUME NEW g \in snap, g # f, During({"snapshot", "write", "read", "archived"})
      PROVE  /\ g \notin excluded' /\ Kept(g)'
             /\ file'[g] \in {"live", "deleted", "capture", "left", "unlink", "removed"}
             /\ file'[g] = file[g] /\ by'[g] = by[g]
  <2>1. g \in Files
    BY DEF TypeOK
  <2>2. QED
    BY <1>1, <1>2, <1>3, <1>6, <2>1 DEF SnapInv, Kept, Excused
<1>7. During({"read", "archived"}) => During({"snapshot", "write", "read", "archived"})
  BY DEF During
<1>8. ASSUME NEW g \in snap, g # f, During({"snapshot", "write", "read", "archived"}), Excused(g)
      PROVE  Excused(g)'
  BY <1>1, <1>3, <1>6, <1>8 DEF Excused
<1>9. QED
  BY <1>1, <1>4, <1>5, <1>6, <1>7, <1>8 DEF SnapInv

LEMMA SnapStep ==
  TypeOK /\ OneBackup /\ ToldInv /\ LeaseInv /\ ServedInv /\ SnapInv /\ [Next]_vars => SnapInv'
<1> SUFFICES ASSUME TypeOK, OneBackup, ToldInv, LeaseInv, ServedInv, SnapInv, [Next]_vars
             PROVE  SnapInv'
  OBVIOUS
<1> USE BackupAssumption
<1>1. CASE UNCHANGED <<joining, pc, fileVars, planVars>>
  BY <1>1 DEF SnapInv, Kept, Excused, During, fileVars, planVars
<1>2. ASSUME NEW w \in Workers, Acquire(w) PROVE SnapInv'
  <2>1. \A v \in Workers : pc[v] = "idle"
    BY <1>2 DEF Acquire, Free, OneBackup, TypeOK
  <2>2. (\A v \in Workers : pc'[v] \in {"idle", "acquiring"}) /\ excluded' = {}
    BY <1>2, <2>1 DEF Acquire, TypeOK
  <2>3. QED
    BY <2>2 DEF SnapInv, During
<1>3. ASSUME \A v \in Workers : pc'[v] = "idle" PROVE SnapInv'
  BY <1>3 DEF SnapInv, During
<1>4. ASSUME NEW w \in Workers, AcquireFails(w) \/ Release(w) PROVE SnapInv'
  <2>1. \A v \in Workers : v # w => pc[v] = "idle"
    BY <1>4 DEF OneBackup, AcquireFails, Release
  <2>2. pc' = [pc EXCEPT ![w] = "idle"]
    BY <1>4 DEF AcquireFails, Release
  <2>3. QED
    BY <1>3, <2>1, <2>2 DEF TypeOK
<1>5. ASSUME NEW w \in Workers, Exit(w) PROVE SnapInv'
  <2>1. \A v \in Workers : pc'[v] \in {"idle", pc[v]}
    BY <1>5 DEF Exit, TypeOK
  <2>2. \A S : "idle" \notin S /\ During(S)' => During(S)
    BY <2>1 DEF During
  <2>3. UNCHANGED <<joining, by, snap, overrides, excluded, entries, archive, uncaptured>>
    BY <1>5 DEF Exit, planVars
  <2>4. ASSUME NEW f \in snap, During({"snapshot", "write", "read", "archived"})
        PROVE  /\ f \notin excluded /\ Kept(f)'
               /\ file'[f] \in {"live", "deleted", "capture", "left", "unlink", "removed"}
               /\ file[f] = "removed" => file'[f] = "removed"
    <3>1. /\ f \notin excluded /\ Kept(f)
          /\ file[f] \in {"live", "deleted", "capture", "left", "unlink", "removed"}
      BY <2>4 DEF SnapInv
    <3>2. \/ file'[f] = file[f]
          \/ file'[f] = "left" /\ file[f] \in {"deleted", "capture", "unlink"}
      BY <1>5, <3>1 DEF Exit, TypeOK
    <3>3. QED
      BY <2>3, <3>1, <3>2 DEF Kept, Excused
  <2>5. During({"read", "archived"}) => During({"snapshot", "write", "read", "archived"})
    BY DEF During
  <2>6. QED
    BY <2>2, <2>3, <2>4, <2>5 DEF SnapInv, Excused
<1>6. ASSUME NEW w \in Workers, AcquireDone(w) \/ PhaseDelete(w) PROVE SnapInv'
  <2>1. /\ \E from \in {"acquiring", "held"}, to \in {"held", "delete"} : Step(w, from, to)
        /\ excluded' = excluded
    BY <1>6 DEF AcquireDone, PhaseDelete, Step, planVars
  <2>2. QED
    BY <2>1, StepDuring DEF SnapInv
<1>7. ASSUME NEW w \in Workers, Snapshot(w) PROVE SnapInv'
  <2>1. /\ Step(w, "delete", "snapshot") /\ excluded = {} /\ excluded' = {}
        /\ snap' = {f \in Files : file[f] = "live"} /\ UNCHANGED file
    BY <1>7, StepDuring DEF Snapshot, SnapInv, fileVars
  <2>2. QED
    BY <2>1, StepDuring DEF SnapInv, Kept
<1>8. ASSUME NEW w \in Workers, PhaseWrite(w) PROVE SnapInv'
  <2>1. Step(w, "snapshot", "write") /\ UNCHANGED <<joining, fileVars, planVars>>
    BY <1>8 DEF PhaseWrite, memberVars
  <2>2. QED
    BY <2>1, StepDuring DEF SnapInv, Kept, Excused, fileVars, planVars
\* Each file of the snapshot is captured or on disk when the archive's files are
\* listed.
<1>9. ASSUME NEW w \in Workers, Collect(w) PROVE SnapInv'
  <2>1. /\ Step(w, "write", "read") /\ entries' = overrides \cup (OnDisk \ excluded)
        /\ UNCHANGED <<joining, file, by, snap, overrides, excluded, archive, uncaptured>>
    BY <1>9 DEF Collect, memberVars, fileVars
  <2>2. ASSUME NEW f \in snap
        PROVE  /\ f \notin excluded /\ Kept(f)
               /\ file[f] \in {"live", "deleted", "capture", "left", "unlink", "removed"}
               /\ f \in entries' \/ (file[f] = "removed" /\ Excused(f))
    <3>1. During({"snapshot", "write", "read", "archived"})
      BY <2>1, StepDuring
    <3>2. /\ f \notin excluded /\ Kept(f)
          /\ file[f] \in {"live", "deleted", "capture", "left", "unlink", "removed"}
      BY <3>1 DEF SnapInv
    <3>3. f \in Files
      BY DEF TypeOK
    <3>4. QED
      BY <2>1, <3>2, <3>3 DEF Kept, OnDisk
  <2>3. QED
    BY <2>1, <2>2, StepDuring DEF SnapInv, Kept, Excused
<1>10. ASSUME NEW w \in Workers, ReadEntry(w) PROVE SnapInv'
  <2>1. PICK f \in entries :
          /\ f \in overrides \cup excluded \cup OnDisk
          /\ entries' = entries \ {f}
          /\ archive' = archive \cup ({f} \cap (overrides \cup (OnDisk \ excluded)))
    BY <1>10 DEF ReadEntry
  <2>2. UNCHANGED <<joining, pc, file, by, snap, overrides, excluded, uncaptured>>
        /\ pc[w] = "read"
    BY <1>10 DEF ReadEntry, memberVars, fileVars
  <2>3. During({"snapshot", "write", "read", "archived"}) /\ ~During({"archived"})
    BY <2>2, OnlyOwner DEF During
  <2>4. f \in snap => f \in archive'
    BY <2>1, <2>3 DEF SnapInv
  <2>5. \A g \in snap : g \in entries \cup archive => g \in entries' \cup archive'
    BY <2>1, <2>4
  <2>6. \A S : During(S)' <=> During(S)
    BY <2>2 DEF During
  <2>7. QED
    BY <2>2, <2>3, <2>5, <2>6 DEF SnapInv, Kept, Excused
<1>11. ASSUME NEW w \in Workers, Archived(w) PROVE SnapInv'
  <2>1. /\ Step(w, "read", "archived") /\ entries = {}
        /\ UNCHANGED <<joining, fileVars, planVars>>
    BY <1>11 DEF Archived, memberVars
  <2>2. QED
    BY <2>1, StepDuring DEF SnapInv, Kept, Excused, fileVars, planVars
<1>12. ASSUME NEW w \in Workers, ReadFails(w) \/ Fails(w) \/ PhaseIdle(w) PROVE SnapInv'
  <2>1. \E from \in {"held", "delete", "snapshot", "write", "read", "archived"} :
          Step(w, from, "finish")
    BY <1>12 DEF ReadFails, Fails, PhaseIdle
  <2>2. QED
    BY <2>1, StepDuring DEF SnapInv
<1>13. ASSUME NEW w \in Workers, Join(w) PROVE SnapInv'
  BY <1>13, <1>1 DEF Join, WorkerReady, JoinTold, JoinReady, Receive
<1>14. CASE UNCHANGED vars
  BY <1>14, <1>1 DEF vars, memberVars
<1>15. ASSUME NEW w \in Workers, GiveUp(w) PROVE SnapInv'
  <2>1. \A v \in Workers : v # w => pc[v] = "idle"
    BY <1>15, OnlyOwner DEF GiveUp
  <2>2. QED
    BY <1>3, <1>15, <2>1 DEF GiveUp, TypeOK
<1>16. QED
  BY <1>2, <1>4, <1>5, <1>6, <1>7, <1>8, <1>9, <1>10, <1>11, <1>12, <1>13, <1>14, <1>15,
     SnapFileStep
  DEF Next, Backup

LEMMA InitArchive == Init => ArchiveInv
<1> SUFFICES ASSUME Init PROVE ArchiveInv
  OBVIOUS
<1>1. ~During({"acquiring", "held", "delete", "snapshot", "write", "read", "archived", "finish"})
  BY DEF Init, During
<1>2. OneBackup /\ LeaseInv /\ ServedInv /\ SnapInv
  BY <1>1 DEF Init, OneBackup, LeaseInv, ServedInv, SnapInv, During
<1>3. QED
  BY <1>2, InitTold DEF ArchiveInv

\* A complete archive lacks a file of its snapshot only if a worker deleted the
\* file that was not ready when the system began, or if the owner of the backup,
\* asked to capture the file, failed to.
THEOREM BackupComplete == Spec => []ArchiveComplete
<1>1. TypeOK /\ ArchiveInv => ArchiveComplete
  BY DEF ArchiveInv, SnapInv, Excused, During, ArchiveComplete
<1>2. TypeOK /\ ArchiveInv /\ [Next]_vars => ArchiveInv'
  BY OneBackupStep, ToldStep, LeaseStep, ServedStep, SnapStep DEF ArchiveInv
<1>3. QED
  BY <1>1, <1>2, InitTypes, InitArchive, TypeStep, PTL DEF Spec
=============================================================================
