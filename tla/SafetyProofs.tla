----------------------------- MODULE SafetyProofs -----------------------------
(***************************************************************************)
(* Proofs about parts of MCSafety, for any number of requests, claims and  *)
(* thumbs. Each part has an inductive invariant of its own, which holds in *)
(* the behaviours of the other parts as well, since nothing of it moves.   *)
(* The last section is about the supervisor alone, for any number of slots *)
(* and any bounds.                                                         *)
(***************************************************************************)
EXTENDS MCSafety, SequenceTheorems, FiniteSetTheorems, TLAPS

USE PartsAssumption

-----------------------------------------------------------------------------
(***************************************************************************)
(* FileThumbs. The generations that run are as many as the permits given   *)
(* out, and those that queue are the queue, once each. A generation under  *)
(* way is the pending one of its path unless it was forgotten, so of two   *)
(* of one path one was.                                                    *)
(***************************************************************************)
Once(s) == \A i, j \in DOMAIN s : s[i] = s[j] => i = j
Elems(s) == {s[i] : i \in DOMAIN s}

QueueInv ==
  /\ Once(queue) /\ (queue # <<>> => current = Permits)
  /\ \A g \in Thumbs!Asks : gen[g] = "queued" <=> g \in Elems(queue)

PermitInv == IsFiniteSet(Thumbs!Running) /\ current = Cardinality(Thumbs!Running)

FlightInv ==
  /\ \A g \in Thumbs!Asks :
       /\ gen[g] \in {"queued", "running"} => pending[Thumbs!Path(g)] = g \/ g \in forgotten
       /\ gen[g] # "none" => turn[g] \notin {"new", "missing"}
       /\ gen[g] = "made" => Thumbs!Path(g) \in thumbs
       /\ turn[g] = "waiting" => joined[g] \in Thumbs!Asks
                                 /\ Thumbs!Path(joined[g]) = Thumbs!Path(g)
       /\ turn[g] = "thumb" => Thumbs!Path(g) \in thumbs
  /\ \A p \in Paths : pending[p] # None => Thumbs!Path(pending[p]) = p

ThumbInv == Thumbs!TypeOK /\ QueueInv /\ PermitInv /\ FlightInv

\* A sequence without one of its elements.
LEMMA RemoveAtProperties ==
  ASSUME NEW S, NEW s \in Seq(S), NEW i \in DOMAIN s
  PROVE  /\ Thumbs!RemoveAt(s, i) \in Seq(S)
         /\ Len(Thumbs!RemoveAt(s, i)) = Len(s) - 1
         /\ \A k \in 1..(Len(s) - 1) :
              Thumbs!RemoveAt(s, i)[k] = IF k < i THEN s[k] ELSE s[k + 1]
<1> DEFINE a == SubSeq(s, 1, i - 1)
           b == SubSeq(s, i + 1, Len(s))
<1>1. Len(s) \in Nat /\ i \in 1..Len(s) /\ \A k \in 1..Len(s) : s[k] \in S
  BY LenProperties
<1>2. a \in Seq(S) /\ Len(a) = i - 1 /\ \A k \in 1..(i - 1) : a[k] = s[k]
  <2>1. \A k \in 1..(i - 1) : s[k] \in S
    BY <1>1
  <2>2. a \in Seq(S) /\ Len(a) = (IF 1 <= i - 1 THEN i - 1 - 1 + 1 ELSE 0)
        /\ \A k \in 1..(i - 1 - 1 + 1) : a[k] = s[1 + k - 1]
    BY <1>1, <2>1, SubSeqProperties
  <2>3. QED
    BY <1>1, <2>2
<1>3. b \in Seq(S) /\ Len(b) = Len(s) - i /\ \A k \in 1..(Len(s) - i) : b[k] = s[i + k]
  <2>1. \A k \in (i + 1)..Len(s) : s[k] \in S
    BY <1>1
  <2>2. b \in Seq(S) /\ Len(b) = (IF i + 1 <= Len(s) THEN Len(s) - (i + 1) + 1 ELSE 0)
        /\ \A k \in 1..(Len(s) - (i + 1) + 1) : b[k] = s[i + 1 + k - 1]
    BY <1>1, <2>1, SubSeqProperties
  <2>3. QED
    BY <1>1, <2>2
<1> HIDE DEF a, b
<1>4. /\ a \o b \in Seq(S) /\ Len(a \o b) = Len(a) + Len(b)
      /\ \A k \in 1..(Len(a) + Len(b)) :
           (a \o b)[k] = IF k <= Len(a) THEN a[k] ELSE b[k - Len(a)]
  <2>1. a \in Seq(S) /\ b \in Seq(S)
    BY <1>2, <1>3
  <2>2. QED
    BY <2>1, ConcatProperties
<1>5. \A k \in 1..(Len(s) - 1) : (a \o b)[k] = IF k < i THEN s[k] ELSE s[k + 1]
  <2> TAKE k \in 1..(Len(s) - 1)
  <2>1. k \in 1..(Len(a) + Len(b)) /\ (k <= Len(a) <=> k < i)
    BY <1>1, <1>2, <1>3
  <2>2. CASE k < i
    <3>1. (a \o b)[k] = a[k] /\ a[k] = s[k]
      BY <1>1, <1>2, <1>4, <2>1, <2>2
    <3>2. QED
      BY <2>2, <3>1
  <2>3. CASE ~(k < i)
    <3>1. (a \o b)[k] = b[k - Len(a)]
      BY <1>4, <2>1, <2>3
    <3>2. k - Len(a) \in 1..(Len(s) - i) /\ i + (k - Len(a)) = k + 1
      BY <1>1, <1>2, <2>1, <2>3
    <3>3. b[k - Len(a)] = s[i + (k - Len(a))]
      BY <1>3, <3>2
    <3>4. QED
      BY <2>3, <3>1, <3>2, <3>3
  <2>4. QED
    BY <2>2, <2>3
<1>6. Thumbs!RemoveAt(s, i) = a \o b
  BY DEF a, b, Thumbs!RemoveAt
<1>7. Len(a \o b) = Len(s) - 1
  BY <1>1, <1>2, <1>3, <1>4
<1>8. QED
  BY <1>4, <1>5, <1>6, <1>7

LEMMA RemoveOnce ==
  ASSUME NEW S, NEW s \in Seq(S), Once(s), NEW i \in DOMAIN s,
         NEW r, r = Thumbs!RemoveAt(s, i)
  PROVE  r \in Seq(S) /\ Once(r) /\ Elems(r) = Elems(s) \ {s[i]}
<1>1. Len(s) \in Nat /\ DOMAIN s = 1..Len(s) /\ i \in 1..Len(s)
  BY LenProperties
<1>2. /\ r \in Seq(S) /\ Len(r) = Len(s) - 1
      /\ \A k \in 1..(Len(s) - 1) : r[k] = IF k < i THEN s[k] ELSE s[k + 1]
  BY RemoveAtProperties
<1>3. DOMAIN r = 1..(Len(s) - 1)
  BY <1>2, LenProperties
<1> DEFINE at(k) == IF k < i THEN k ELSE k + 1
<1>a. \A k \in DOMAIN r : at(k) \in DOMAIN s /\ at(k) # i /\ r[k] = s[at(k)]
  BY <1>1, <1>2, <1>3
<1>b. \A k, l \in DOMAIN r : at(k) = at(l) => k = l
  BY <1>1, <1>3
<1> HIDE DEF at
<1>4. Once(r)
  BY <1>a, <1>b DEF Once
<1>5. \A x \in Elems(r) : x \in Elems(s) \ {s[i]}
  <2> SUFFICES ASSUME NEW k \in DOMAIN r PROVE r[k] \in Elems(s) \ {s[i]}
    BY DEF Elems
  <2>1. QED
    BY <1>a DEF Once, Elems
<1>6. ASSUME NEW x \in Elems(s) \ {s[i]} PROVE x \in Elems(r)
  <2>1. PICK k \in 1..Len(s) : s[k] = x /\ k # i
    BY <1>1 DEF Elems
  <2>2. CASE k < i
    <3>1. k \in 1..(Len(s) - 1) /\ r[k] = x
      BY <1>1, <1>2, <2>1, <2>2
    <3>2. QED
      BY <1>3, <3>1 DEF Elems
  <2>3. CASE k > i
    <3>1. k - 1 \in 1..(Len(s) - 1) /\ r[k - 1] = x
      BY <1>1, <1>2, <2>1, <2>3
    <3>2. QED
      BY <1>3, <3>1 DEF Elems
  <2>4. QED
    BY <1>1, <2>1, <2>2, <2>3
<1>7. QED
  BY <1>2, <1>4, <1>5, <1>6

LEMMA TailOnce ==
  ASSUME NEW S, NEW s \in Seq(S), Once(s), s # <<>>
  PROVE  /\ Head(s) \in Elems(s) /\ Head(s) \in S
         /\ Tail(s) \in Seq(S) /\ Once(Tail(s))
         /\ Elems(Tail(s)) = Elems(s) \ {Head(s)}
<1>1. Len(s) \in Nat \ {0} /\ DOMAIN s = 1..Len(s) /\ s[1] = Head(s)
  BY LenProperties, EmptySeq
<1>2. /\ Tail(s) \in Seq(S) /\ Head(s) \in S /\ Len(Tail(s)) = Len(s) - 1
      /\ \A i \in 1..Len(Tail(s)) : Tail(s)[i] = s[i + 1]
  BY HeadTailProperties
<1>3. DOMAIN Tail(s) = 1..(Len(s) - 1)
  BY <1>2, LenProperties
<1>4. Once(Tail(s)) /\ Head(s) \in Elems(s)
  BY <1>1, <1>2, <1>3 DEF Once, Elems
<1>5. \A x \in Elems(Tail(s)) : x \in Elems(s) \ {Head(s)}
  BY <1>1, <1>2, <1>3 DEF Once, Elems
<1>6. ASSUME NEW x \in Elems(s) \ {Head(s)} PROVE x \in Elems(Tail(s))
  <2>1. PICK k \in 1..Len(s) : s[k] = x /\ k # 1
    BY <1>1 DEF Elems
  <2>2. k - 1 \in 1..(Len(s) - 1) /\ Tail(s)[k - 1] = x
    BY <1>1, <1>2, <2>1
  <2>3. QED
    BY <1>3, <2>2 DEF Elems
<1>7. QED
  BY <1>2, <1>4, <1>5, <1>6

LEMMA AppendOnce ==
  ASSUME NEW S, NEW s \in Seq(S), Once(s), NEW e \in S, e \notin Elems(s)
  PROVE  /\ Append(s, e) \in Seq(S) /\ Once(Append(s, e))
         /\ Elems(Append(s, e)) = Elems(s) \cup {e}
<1>1. Len(s) \in Nat /\ DOMAIN s = 1..Len(s)
  BY LenProperties
<1>2. /\ Append(s, e) \in Seq(S) /\ Len(Append(s, e)) = Len(s) + 1
      /\ \A i \in 1..Len(s) : Append(s, e)[i] = s[i]
      /\ Append(s, e)[Len(s) + 1] = e
  BY AppendProperties
<1>3. DOMAIN Append(s, e) = 1..(Len(s) + 1)
  BY <1>1, <1>2, LenProperties
<1>4. QED
  BY <1>1, <1>2, <1>3 DEF Once, Elems

LEMMA AcquireStep ==
  ASSUME Thumbs!TypeOK, QueueInv, PermitInv, NEW r \in Thumbs!Asks, gen[r] = "none",
         Thumbs!Acquire(r)
  PROVE  /\ QueueInv' /\ PermitInv'
         /\ current' \in 0..Permits /\ queue' \in Seq(Thumbs!Asks)
         /\ \E s \in {"queued", "running"} : gen' = [gen EXCEPT ![r] = s]
<1> USE DEF Thumbs!TypeOK
<1>1. r \notin Elems(queue) /\ r \notin Thumbs!Running
  BY DEF QueueInv, Thumbs!Running
<1>2. CASE /\ current < Permits /\ current' = current + 1
           /\ gen' = [gen EXCEPT ![r] = "running"] /\ UNCHANGED queue
  <2>1. queue = <<>>
    BY <1>2 DEF QueueInv
  <2>2. Thumbs!Running' = Thumbs!Running \cup {r}
    BY <1>2 DEF Thumbs!Running
  <2>3. PermitInv'
    BY <1>1, <1>2, <2>2, FS_AddElement DEF PermitInv
  <2>4. \A g \in Thumbs!Asks : gen'[g] = "queued" <=> g \in Elems(queue')
    BY <1>1, <1>2 DEF QueueInv, Elems
  <2>5. QueueInv'
    BY <1>2, <2>1, <2>4 DEF QueueInv
  <2>6. current' \in 0..Permits
    BY <1>2, PartsAssumption
  <2>7. QED
    BY <1>2, <2>3, <2>5, <2>6
<1>3. CASE /\ current = Permits /\ queue' = Append(queue, r)
           /\ gen' = [gen EXCEPT ![r] = "queued"] /\ UNCHANGED current
  <2>1. /\ queue' \in Seq(Thumbs!Asks) /\ Once(queue')
        /\ Elems(queue') = Elems(queue) \cup {r}
    BY <1>1, <1>3, AppendOnce DEF QueueInv
  <2>2. Thumbs!Running' = Thumbs!Running
    BY <1>1, <1>3 DEF Thumbs!Running
  <2>3. PermitInv'
    BY <1>3, <2>2 DEF PermitInv
  <2>4. \A g \in Thumbs!Asks : gen'[g] = "queued" <=> g \in Elems(queue')
    BY <1>3, <2>1 DEF QueueInv
  <2>5. QueueInv'
    BY <1>3, <2>1, <2>4 DEF QueueInv
  <2>6. QED
    BY <1>3, <2>1, <2>3, <2>5
<1>4. QED
  BY <1>2, <1>3 DEF Thumbs!Acquire

LEMMA TimeOutStep ==
  ASSUME Thumbs!TypeOK, QueueInv, PermitInv, NEW g \in Thumbs!Asks, Thumbs!TimeOut(g)
  PROVE  QueueInv' /\ PermitInv' /\ queue' \in Seq(Thumbs!Asks)
<1> USE DEF Thumbs!TypeOK
<1>1. gen[g] = "queued" /\ gen' = [gen EXCEPT ![g] = "failed"] /\ UNCHANGED current
      /\ queue' = Thumbs!RemoveAt(queue, CHOOSE i \in DOMAIN queue : queue[i] = g)
  BY DEF Thumbs!TimeOut, Thumbs!Without
<1>a. \E i \in DOMAIN queue : queue[i] = g
  BY <1>1 DEF QueueInv, Elems
<1>2. PICK i \in DOMAIN queue : queue[i] = g /\ queue' = Thumbs!RemoveAt(queue, i)
  <2> DEFINE c == CHOOSE i \in DOMAIN queue : queue[i] = g
  <2>1. c \in DOMAIN queue /\ queue[c] = g
    BY <1>a
  <2> HIDE DEF c
  <2>2. QED
    BY <1>1, <2>1 DEF c
<1>3. queue' \in Seq(Thumbs!Asks) /\ Once(queue')
      /\ Elems(queue') = Elems(queue) \ {g}
  BY <1>2, RemoveOnce DEF QueueInv
<1>4. Thumbs!Running' = Thumbs!Running
  BY <1>1 DEF Thumbs!Running
<1>5. PermitInv'
  BY <1>1, <1>4 DEF PermitInv
<1>6. \A f \in Thumbs!Asks : gen'[f] = "queued" <=> f \in Elems(queue')
  BY <1>1, <1>3 DEF QueueInv
<1>7. queue # <<>>
  BY <1>2
<1>8. QED
  BY <1>1, <1>3, <1>5, <1>6, <1>7 DEF QueueInv

\* The permit goes to the first of the queue, or back.
LEMMA ReleaseStep ==
  ASSUME Thumbs!TypeOK, QueueInv, PermitInv, NEW g \in Thumbs!Asks, Thumbs!Made(g)
  PROVE  /\ QueueInv' /\ PermitInv' /\ current' \in 0..Permits /\ queue' \in Seq(Thumbs!Asks)
         /\ gen' \in [Thumbs!Asks -> {"none", "queued", "running", "made", "failed"}]
         /\ gen'[g] \in {"made", "failed"}
         /\ gen'[g] = "made" => thumbs' = thumbs \cup {Thumbs!Path(g)}
         /\ thumbs' \in {thumbs, thumbs \cup {Thumbs!Path(g)}}
         /\ \A f \in Thumbs!Asks \ {g} :
              gen'[f] = gen[f] \/ (gen[f] = "queued" /\ gen'[f] = "running")
<1> USE DEF Thumbs!TypeOK
<1>1. gen[g] = "running" /\ g \in Thumbs!Running
  BY DEF Thumbs!Made, Thumbs!Running
<1>2. PICK outcome \in {"made", "failed"} :
        /\ thumbs' = IF outcome = "made" THEN thumbs \union {Thumbs!Path(g)} ELSE thumbs
        /\ \/ /\ queue = <<>> /\ current' = current - 1 /\ UNCHANGED queue
              /\ gen' = [gen EXCEPT ![g] = outcome]
           \/ /\ queue # <<>> /\ queue' = Tail(queue) /\ UNCHANGED current
              /\ gen' = [gen EXCEPT ![g] = outcome,
                                    ![Head(queue)] = IF @ = "queued" THEN "running" ELSE @]
  BY DEF Thumbs!Made
<1>3. CASE /\ queue = <<>> /\ current' = current - 1 /\ UNCHANGED queue
           /\ gen' = [gen EXCEPT ![g] = outcome]
  <2>1. Thumbs!Running' = Thumbs!Running \ {g}
    BY <1>3 DEF Thumbs!Running
  <2>2. IsFiniteSet(Thumbs!Running') /\ Cardinality(Thumbs!Running') = current - 1
    BY <1>1, <2>1, FS_RemoveElement DEF PermitInv
  <2>3. Cardinality(Thumbs!Running') \in Nat
    BY <2>2, FS_CardinalityType
  <2>4. PermitInv' /\ current' \in 0..Permits
    BY <1>3, <2>2, <2>3, PartsAssumption DEF PermitInv
  <2>5. \A f \in Thumbs!Asks : gen'[f] = "queued" <=> f \in Elems(queue')
    BY <1>1, <1>3 DEF QueueInv, Elems
  <2>6. QueueInv'
    BY <1>3, <2>5 DEF QueueInv
  <2>7. QED
    BY <1>2, <1>3, <2>4, <2>6
<1>4. CASE /\ queue # <<>> /\ queue' = Tail(queue) /\ UNCHANGED current
           /\ gen' = [gen EXCEPT ![g] = outcome,
                                 ![Head(queue)] = IF @ = "queued" THEN "running" ELSE @]
  <2> DEFINE h == Head(queue)
  <2>1. /\ h \in Thumbs!Asks /\ h \in Elems(queue) /\ queue' \in Seq(Thumbs!Asks)
        /\ Once(queue') /\ Elems(queue') = Elems(queue) \ {h}
    BY <1>4, TailOnce DEF QueueInv
  <2>2. gen[h] = "queued" /\ h # g
    BY <1>1, <2>1 DEF QueueInv
  <2>3. gen' = [[gen EXCEPT ![g] = outcome] EXCEPT ![h] = "running"]
    BY <1>4, <2>2
  <2> HIDE DEF h
  <2>4. /\ gen' \in [Thumbs!Asks -> {"none", "queued", "running", "made", "failed"}]
        /\ gen'[g] = outcome /\ gen'[h] = "running"
        /\ \A f \in Thumbs!Asks \ {g, h} : gen'[f] = gen[f]
    BY <2>1, <2>2, <2>3
  <2>5. Thumbs!Running' = (Thumbs!Running \ {g}) \cup {h}
    BY <1>1, <2>1, <2>2, <2>4 DEF Thumbs!Running
  <2>6. IsFiniteSet(Thumbs!Running \ {g}) /\ Cardinality(Thumbs!Running \ {g}) = current - 1
    BY <1>1, FS_RemoveElement DEF PermitInv
  <2>7. h \notin Thumbs!Running \ {g}
    BY <2>2 DEF Thumbs!Running
  <2>8. IsFiniteSet(Thumbs!Running') /\ Cardinality(Thumbs!Running') = current - 1 + 1
    BY <2>5, <2>6, <2>7, FS_AddElement
  <2>9. PermitInv' /\ current' \in 0..Permits
    BY <1>4, <2>8 DEF PermitInv
  <2>10. \A f \in Thumbs!Asks : gen'[f] = "queued" <=> f \in Elems(queue')
    BY <1>1, <2>1, <2>4 DEF QueueInv
  <2>11. QueueInv'
    BY <1>4, <2>1, <2>10 DEF QueueInv
  <2>12. QED
    BY <1>2, <2>1, <2>2, <2>4, <2>9, <2>11
<1>5. QED
  BY <1>2, <1>3, <1>4

LEMMA ThumbInit == Thumbs!Init => ThumbInv
<1> SUFFICES ASSUME Thumbs!Init PROVE ThumbInv
  OBVIOUS
<1> USE DEF Thumbs!Init
<1>1. Thumbs!TypeOK
  BY PartsAssumption, EmptySeq DEF Thumbs!TypeOK
<1>2. QueueInv
  BY EmptySeq DEF QueueInv, Once, Elems
<1>3. PermitInv
  <2>1. Thumbs!Running = {}
    BY DEF Thumbs!Running
  <2>2. QED
    BY <2>1, FS_EmptySet DEF PermitInv
<1>4. FlightInv
  BY DEF FlightInv
<1>5. QED
  BY <1>1, <1>2, <1>3, <1>4 DEF ThumbInv

\* The queue and the permits depend on the generations only.
LEMMA SameGenerations ==
  ASSUME QueueInv, PermitInv, UNCHANGED <<gen, current, queue>>
  PROVE  QueueInv' /\ PermitInv'
<1>1. Thumbs!Running' = Thumbs!Running
  BY DEF Thumbs!Running
<1>2. Elems(queue') = Elems(queue)
  BY DEF Elems
<1>3. QED
  BY <1>1, <1>2 DEF QueueInv, PermitInv

LEMMA PathType == \A r \in Thumbs!Asks : Thumbs!Path(r) \in Paths
BY PartsAssumption DEF Thumbs!Asks, Thumbs!Path

LEMMA LookStep ==
  ASSUME ThumbInv, NEW r \in Thumbs!Asks, Thumbs!Look(r) PROVE ThumbInv'
<1>1. /\ turn[r] = "new" /\ UNCHANGED <<thumbs, joined, pending, gen, current, queue, forgotten>>
      /\ turn' = [turn EXCEPT ![r] = IF Thumbs!Path(r) \in thumbs THEN "thumb" ELSE "missing"]
  BY DEF Thumbs!Look
<1>2. QueueInv' /\ PermitInv'
  BY <1>1, SameGenerations DEF ThumbInv
<1>3. Thumbs!TypeOK'
  BY <1>1 DEF ThumbInv, Thumbs!TypeOK
<1>4. gen[r] = "none"
  BY <1>1 DEF ThumbInv, FlightInv, Thumbs!TypeOK
<1>5. FlightInv'
  BY <1>1, <1>4 DEF ThumbInv, FlightInv, Thumbs!TypeOK
<1>6. QED
  BY <1>2, <1>3, <1>5 DEF ThumbInv

LEMMA DoStep ==
  ASSUME ThumbInv, NEW r \in Thumbs!Asks, Thumbs!Do(r) PROVE ThumbInv'
<1> USE DEF ThumbInv
<1>1. /\ turn[r] = "missing" /\ turn' = [turn EXCEPT ![r] = "waiting"]
      /\ UNCHANGED <<thumbs, forgotten>> /\ gen[r] = "none"
  BY DEF Thumbs!Do, FlightInv, Thumbs!TypeOK
<1>2. CASE /\ pending[Thumbs!Path(r)] # None
           /\ joined' = [joined EXCEPT ![r] = pending[Thumbs!Path(r)]]
           /\ UNCHANGED <<pending, gen, current, queue>>
  <2>1. /\ pending[Thumbs!Path(r)] \in Thumbs!Asks
        /\ Thumbs!Path(pending[Thumbs!Path(r)]) = Thumbs!Path(r)
    BY <1>2, PathType DEF FlightInv, Thumbs!TypeOK
  <2>2. QueueInv' /\ PermitInv'
    BY <1>2, SameGenerations
  <2>3. Thumbs!TypeOK'
    BY <1>1, <1>2, <2>1 DEF Thumbs!TypeOK
  <2>4. joined'[r] = pending[Thumbs!Path(r)]
        /\ \A q \in Thumbs!Asks \ {r} : joined'[q] = joined[q] /\ turn'[q] = turn[q]
    BY <1>1, <1>2 DEF Thumbs!TypeOK
  <2>5. turn'[r] = "waiting"
    BY <1>1 DEF Thumbs!TypeOK
  <2>6. FlightInv'
    BY <1>1, <1>2, <2>1, <2>4, <2>5 DEF FlightInv
  <2>7. QED
    BY <2>2, <2>3, <2>6
<1>3. CASE /\ pending[Thumbs!Path(r)] = None /\ joined' = [joined EXCEPT ![r] = r]
           /\ pending' = [pending EXCEPT ![Thumbs!Path(r)] = r] /\ Thumbs!Acquire(r)
  <2>1. QueueInv' /\ PermitInv' /\ current' \in 0..Permits /\ queue' \in Seq(Thumbs!Asks)
    BY <1>1, <1>3, AcquireStep
  <2>2. PICK s \in {"queued", "running"} : gen' = [gen EXCEPT ![r] = s]
    BY <1>1, <1>3, AcquireStep
  <2>3. /\ joined' \in [Thumbs!Asks -> Thumbs!Asks \cup {None}] /\ joined'[r] = r
        /\ turn' \in [Thumbs!Asks -> {"new", "missing", "waiting", "thumb", "original"}]
        /\ turn'[r] = "waiting"
        /\ \A q \in Thumbs!Asks \ {r} : joined'[q] = joined[q] /\ turn'[q] = turn[q]
    BY <1>1, <1>3 DEF Thumbs!TypeOK
  <2>4. /\ gen' \in [Thumbs!Asks -> {"none", "queued", "running", "made", "failed"}]
        /\ gen'[r] \in {"queued", "running"} /\ \A q \in Thumbs!Asks \ {r} : gen'[q] = gen[q]
    BY <2>2 DEF Thumbs!TypeOK
  <2>5. /\ pending' \in [Paths -> Thumbs!Asks \cup {None}] /\ pending'[Thumbs!Path(r)] = r
        /\ \A p \in Paths \ {Thumbs!Path(r)} : pending'[p] = pending[p]
    BY <1>3, PathType DEF Thumbs!TypeOK
  <2>6. Thumbs!TypeOK'
    BY <1>1, <2>1, <2>3, <2>4, <2>5 DEF Thumbs!TypeOK
  <2>7. ASSUME NEW g \in Thumbs!Asks, gen'[g] \in {"queued", "running"}
        PROVE  pending'[Thumbs!Path(g)] = g \/ g \in forgotten'
    <3>1. CASE g = r
      BY <2>5, <3>1
    <3>2. CASE g # r
      <4>1. pending[Thumbs!Path(g)] = g \/ g \in forgotten
        BY <2>4, <2>7, <3>2 DEF FlightInv
      <4>2. Thumbs!Path(g) = Thumbs!Path(r) => pending[Thumbs!Path(g)] # g
        BY <1>3, PartsAssumption
      <4>3. QED
        BY <1>1, <2>5, <4>1, <4>2, PathType
    <3>3. QED
      BY <3>1, <3>2
  <2>8. FlightInv'
    BY <1>1, <2>3, <2>4, <2>5, <2>7 DEF FlightInv
  <2>9. QED
    BY <2>1, <2>6, <2>8
<1>4. QED
  BY <1>2, <1>3 DEF Thumbs!Do, Thumbs!Shared

LEMMA EndStep ==
  ASSUME ThumbInv, NEW g \in Thumbs!Asks, Thumbs!TimeOut(g) \/ Thumbs!Made(g) PROVE ThumbInv'
<1> USE DEF ThumbInv
<1>1. UNCHANGED <<turn, joined, pending, forgotten>>
  BY DEF Thumbs!TimeOut, Thumbs!Made
<1>2. QueueInv' /\ PermitInv' /\ current' \in 0..Permits /\ queue' \in Seq(Thumbs!Asks)
  BY TimeOutStep, ReleaseStep DEF Thumbs!TimeOut, Thumbs!TypeOK
<1>3. /\ gen' \in [Thumbs!Asks -> {"none", "queued", "running", "made", "failed"}]
      /\ gen[g] \in {"queued", "running"} /\ gen'[g] \in {"made", "failed"}
      /\ \A f \in Thumbs!Asks \ {g} :
           gen'[f] = gen[f] \/ (gen[f] = "queued" /\ gen'[f] = "running")
      /\ gen'[g] = "made" => thumbs' = thumbs \cup {Thumbs!Path(g)}
      /\ thumbs' \in {thumbs, thumbs \cup {Thumbs!Path(g)}}
  <2>1. CASE Thumbs!TimeOut(g)
    BY <2>1 DEF Thumbs!TimeOut, Thumbs!TypeOK
  <2>2. CASE Thumbs!Made(g)
    <3>1. gen[g] = "running"
      BY <2>2 DEF Thumbs!Made
    <3>2. QED
      BY <2>2, <3>1, ReleaseStep
  <2>3. QED
    BY <2>1, <2>2
<1>4. Thumbs!TypeOK'
  BY <1>1, <1>2, <1>3, PathType DEF Thumbs!TypeOK
<1>5. FlightInv'
  BY <1>1, <1>3 DEF FlightInv
<1>6. QED
  BY <1>2, <1>4, <1>5

LEMMA ResumeStep ==
  ASSUME ThumbInv, NEW r \in Thumbs!Asks, Thumbs!Resume(r) PROVE ThumbInv'
<1> USE DEF ThumbInv
<1>1. /\ turn[r] = "waiting" /\ gen[joined[r]] \in {"made", "failed"}
      /\ turn' = [turn EXCEPT ![r] = IF gen[joined[r]] = "made" THEN "thumb" ELSE "original"]
      /\ pending' = [pending EXCEPT ![Thumbs!Path(r)] = None]
      /\ forgotten' = forgotten \cup ({pending[Thumbs!Path(r)]} \ {None, joined[r]})
      /\ UNCHANGED <<thumbs, joined, gen, current, queue>>
  BY DEF Thumbs!Resume
<1>2. QueueInv' /\ PermitInv'
  BY <1>1, SameGenerations
<1>3. joined[r] \in Thumbs!Asks /\ Thumbs!Path(joined[r]) = Thumbs!Path(r)
      /\ Thumbs!Path(r) \in Paths
  BY <1>1, PathType DEF FlightInv
<1>4. /\ pending' \in [Paths -> Thumbs!Asks \cup {None}] /\ pending'[Thumbs!Path(r)] = None
      /\ \A p \in Paths \ {Thumbs!Path(r)} : pending'[p] = pending[p]
  BY <1>1, <1>3 DEF Thumbs!TypeOK
<1>5. /\ turn' \in [Thumbs!Asks -> {"new", "missing", "waiting", "thumb", "original"}]
      /\ turn'[r] = (IF gen[joined[r]] = "made" THEN "thumb" ELSE "original")
      /\ \A q \in Thumbs!Asks \ {r} : turn'[q] = turn[q]
  BY <1>1 DEF Thumbs!TypeOK
<1>6. Thumbs!TypeOK'
  BY <1>1, <1>3, <1>4, <1>5 DEF Thumbs!TypeOK
<1>7. ASSUME NEW g \in Thumbs!Asks, gen[g] \in {"queued", "running"}
      PROVE  pending'[Thumbs!Path(g)] = g \/ g \in forgotten'
  <2>1. g # joined[r] /\ g # None
    BY <1>1, <1>7, PartsAssumption
  <2>2. pending[Thumbs!Path(g)] = g \/ g \in forgotten
    BY <1>7 DEF FlightInv
  <2>3. CASE Thumbs!Path(g) = Thumbs!Path(r)
    BY <1>1, <2>1, <2>2, <2>3
  <2>4. CASE Thumbs!Path(g) # Thumbs!Path(r)
    BY <1>1, <1>4, <2>2, <2>4, PathType
  <2>5. QED
    BY <2>3, <2>4
<1>8. turn'[r] = "thumb" => Thumbs!Path(r) \in thumbs'
  BY <1>1, <1>3, <1>5 DEF FlightInv
<1>9. \A p \in Paths : pending'[p] # None => Thumbs!Path(pending'[p]) = p
  BY <1>4 DEF FlightInv
<1>10. gen[r] # "none" => turn'[r] \notin {"new", "missing"}
  BY <1>5
<1>11. FlightInv'
  BY <1>1, <1>5, <1>7, <1>8, <1>9, <1>10 DEF FlightInv
<1>12. QED
  BY <1>2, <1>6, <1>11

LEMMA ThumbStep == ThumbInv /\ [Thumbs!Next]_thumbVars => ThumbInv'
<1> SUFFICES ASSUME ThumbInv, [Thumbs!Next]_thumbVars PROVE ThumbInv'
  OBVIOUS
<1>1. CASE UNCHANGED thumbVars
  <2>1. QueueInv' /\ PermitInv'
    BY <1>1, SameGenerations DEF thumbVars, ThumbInv
  <2>2. QED
    BY <1>1, <2>1 DEF thumbVars, ThumbInv, Thumbs!TypeOK, FlightInv
<1>2. CASE Thumbs!Next
  BY <1>2, LookStep, DoStep, EndStep, ResumeStep DEF Thumbs!Next
<1>3. QED
  BY <1>1, <1>2

\* For any paths, requests and permits: as many generations run as there are permits
\* given out, none waits beside a free permit or is lost with one that timed out, one
\* path is generated by one at a time until somebody forgets it, and whoever is told of
\* a thumb finds it (SingleflightGroup and Semaphore of src/apis/file.ts).
THEOREM PermitsHonoured == PartsSpec => []PermitsKept
<1> DEFINE all == <<part, vars, deleteVars, limitVars, claimVars, fileVars, hookVars, cascadeVars,
                    updateVars, historyVars, thumbVars>>
<1>1. PartsInit => ThumbInv
  BY ThumbInit DEF PartsInit
<1>2. ThumbInv /\ [PartsNext]_all => ThumbInv'
  <2> SUFFICES ASSUME ThumbInv, [PartsNext]_all PROVE ThumbInv'
    OBVIOUS
  <2>1. [Thumbs!Next]_thumbVars
    BY DEF PartsNext
  <2>2. QED
    BY <2>1, ThumbStep
<1>3. ThumbInv => PermitsKept
  <2> SUFFICES ASSUME ThumbInv PROVE Thumbs!PermitsKept
    BY DEF PermitsKept
  <2>1. current = Cardinality(Thumbs!Running) /\ current <= Permits
    BY PartsAssumption DEF ThumbInv, PermitInv, Thumbs!TypeOK
  <2>2. ASSUME NEW f \in Thumbs!Running, NEW g \in Thumbs!Running,
               f # g, Thumbs!Path(f) = Thumbs!Path(g)
        PROVE  {f, g} \cap forgotten # {}
    BY <2>2 DEF ThumbInv, FlightInv, Thumbs!Running
  <2>3. \A r \in Thumbs!Asks : turn[r] = "thumb" => Thumbs!Path(r) \in thumbs
    BY DEF ThumbInv, FlightInv
  <2>4. Thumbs!Cardinality(Thumbs!Running) = Cardinality(Thumbs!Running)
    BY DEF Cardinality, Thumbs!Cardinality
  <2>5. QED
    BY <2>1, <2>2, <2>3, <2>4 DEF ThumbInv, QueueInv, Elems, Thumbs!ToSet, Thumbs!PermitsKept
<1>4. QED
  BY <1>1, <1>2, <1>3, PTL DEF PartsSpec

-----------------------------------------------------------------------------
(***************************************************************************)
(* CollectionSave. The updates between row and table (GapInv) are those of *)
(* one worker, each of which starts from the definition that the one       *)
(* before it wrote: the table is that of the first one's original, and the *)
(* row is what the last one wrote. So every change of the table is         *)
(* possible, and leads to the columns of the next definition.              *)
(***************************************************************************)
Gap == {r \in Updates : stage[r] = "written"}

UpdateTyped ==
  /\ def \in Collections!Defs /\ original \in [Updates -> Collections!Defs]
  /\ clashes \subseteq {"failed", "crossed", "changed", "refused"}
  /\ objs \in [Servers -> Seq(Collections!Defs)] /\ \A w \in Servers : objs[w] # <<>>
  /\ line \in [Servers -> Seq(Updates)]
  /\ stage \in [Updates -> {"idle", "found", "applied", "written", "synced", "over"}]
  /\ object \in [Updates -> {None} \cup [worker : Servers, at : Nat]]
  /\ \A r \in Updates : stage[r] # "idle" =>
       /\ object[r] \in [worker : Servers, at : Nat]
       /\ object[r].at \in 1..Len(objs[object[r].worker])

LineInv ==
  \A w \in Servers :
    /\ Once(line[w])
    /\ \A r \in Updates : r \in Elems(line[w]) <=> r \in Gap /\ Collections!Worker(r) = w

\* The updates of a line continue each other, from the table to the row.
Continued(s) ==
  s # <<>> =>
    /\ table = Collections!Columns(original[s[1]])
    /\ \A i \in 1..(Len(s) - 1) : original[s[i + 1]] = Collections!Object(s[i])
    /\ def = Collections!Object(s[Len(s)])

GapInv ==
  clashes \cap {"failed", "crossed", "changed"} = {} =>
    /\ Gap = {} => table = Collections!Columns(def)
    /\ \A q, r \in Gap : Collections!Worker(q) = Collections!Worker(r)
    /\ \A w \in Servers : Continued(line[w])

\* A worker that will not be notified has the row, or an update goes on.
CachedInv ==
  clashes = {} =>
    \A w \in Servers \ noticed :
      \/ Collections!Last(objs[w]) = def
      \/ \E r \in Updates : stage[r] \in {"applied", "written", "synced"}

UpdateInv == UpdateTyped /\ LineInv /\ GapInv /\ CachedInv

LEMMA DefProperties ==
  ASSUME NEW d \in Collections!Defs
  PROVE  /\ DOMAIN d \subseteq Ids /\ \A i \in DOMAIN d : d[i] \in Names
         /\ \A i, j \in DOMAIN d : d[i] = d[j] => i = j
BY DEF Collections!Defs, Collections!IsInjective

LEMMA ColumnsProperties ==
  ASSUME NEW d \in Collections!Defs, NEW cols, cols = Collections!Columns(d)
  PROVE  /\ DOMAIN cols = {d[i] : i \in DOMAIN d}
         /\ \A i \in DOMAIN d : cols[d[i]] = i
<1>1. cols = [n \in {d[i] : i \in DOMAIN d} |-> CHOOSE i \in DOMAIN d : d[i] = n]
  BY DEF Collections!Columns, Collections!Range
<1>2. ASSUME NEW i \in DOMAIN d PROVE cols[d[i]] = i
  <2>1. cols[d[i]] = CHOOSE j \in DOMAIN d : d[j] = d[i]
    BY <1>1
  <2>2. \A j \in DOMAIN d : d[j] = d[i] => j = i
    BY DefProperties
  <2>3. QED
    BY <2>1, <2>2
<1>3. QED
  BY <1>1, <1>2

\* A table of the old definition can be changed, and gets the columns of the new one,
\* with the data of the same fields.
LEMMA SyncWorks ==
  ASSUME NEW prior \in Collections!Defs, NEW next \in Collections!Defs,
         table = Collections!Columns(prior)
  PROVE  /\ Collections!Possible(prior, next)
         /\ Collections!Synced(prior, next) = Collections!Columns(next)
<1> DEFINE kept == Collections!Kept(prior, next)
           out == Collections!Detached(prior, next)
           in == Collections!Attached(prior, next)
<1>1. DOMAIN table = {prior[i] : i \in DOMAIN prior} /\ \A i \in DOMAIN prior : table[prior[i]] = i
  BY ColumnsProperties
<1>2. out = {prior[i] : i \in {j \in DOMAIN prior : j \notin DOMAIN next \/ prior[j] # next[j]}}
  BY DEF Collections!Detached
<1>3. in = {i \in DOMAIN next : i \notin DOMAIN prior \/ prior[i] # next[i]}
  BY DEF Collections!Attached
<1>4. kept = [n \in DOMAIN table \ out |-> table[n]]
  BY DEF Collections!Kept, Collections!Restrict
<1> HIDE DEF kept, out, in
<1>5. \A n : n \in DOMAIN kept <=> \E j \in DOMAIN prior \cap DOMAIN next : prior[j] = n /\ next[j] = n
  BY <1>1, <1>2, <1>4, DefProperties
<1>6. {next[i] : i \in in} \cap DOMAIN kept = {}
  BY <1>3, <1>5, DefProperties
<1>7. out \subseteq DOMAIN table
  BY <1>1, <1>2
<1>8. Collections!Possible(prior, next)
  BY <1>6, <1>7 DEF Collections!Possible, kept, out, in
<1> DEFINE cols == Collections!Columns(next)
           sync == Collections!Synced(prior, next)
<1>9. DOMAIN cols = {next[i] : i \in DOMAIN next} /\ \A i \in DOMAIN next : cols[next[i]] = i
  BY ColumnsProperties
<1>10. sync = [n \in DOMAIN kept \cup {next[i] : i \in in} |->
                 IF n \in DOMAIN kept THEN kept[n]
                 ELSE IF (CHOOSE i \in in : next[i] = n) \in DOMAIN prior
                      THEN table[prior[CHOOSE i \in in : next[i] = n]]
                      ELSE CHOOSE i \in in : next[i] = n]
  BY DEF Collections!Synced, kept, in
<1>11. DOMAIN kept \cup {next[i] : i \in in} = {next[i] : i \in DOMAIN next}
  BY <1>3, <1>5, DefProperties
<1> HIDE DEF cols, sync
<1>12. ASSUME NEW n \in DOMAIN kept PROVE sync[n] = cols[n]
  <2>1. PICK j \in DOMAIN prior \cap DOMAIN next : prior[j] = n /\ next[j] = n
    BY <1>5
  <2>2. sync[n] = table[n]
    BY <1>4, <1>10
  <2>3. QED
    BY <1>1, <1>9, <2>1, <2>2
<1>13. ASSUME NEW i \in in PROVE sync[next[i]] = cols[next[i]]
  <2> DEFINE k == CHOOSE j \in in : next[j] = next[i]
  <2>1. k = i
    <3>1. k \in in /\ next[k] = next[i]
      OBVIOUS
    <3>2. QED
      BY <1>3, <3>1, DefProperties
  <2>2. next[i] \notin DOMAIN kept
    BY <1>6
  <2>3. sync[next[i]] = IF k \in DOMAIN prior THEN table[prior[k]] ELSE k
    BY <1>10, <2>2
  <2>4. QED
    BY <1>1, <1>3, <1>9, <2>1, <2>3
<1>14. DOMAIN sync = DOMAIN cols
  BY <1>9, <1>10, <1>11
<1>15. sync = [n \in DOMAIN cols |-> sync[n]] /\ cols = [n \in DOMAIN cols |-> cols[n]]
  <2>1. cols = [n \in DOMAIN cols |-> cols[n]]
    BY DEF cols, Collections!Columns
  <2>2. QED
    BY <1>10, <1>14, <2>1
<1>16. \A n \in DOMAIN cols : sync[n] = cols[n]
  BY <1>9, <1>11, <1>12, <1>13
<1>17. sync = cols
  BY <1>15, <1>16
<1>18. QED
  BY <1>8, <1>17 DEF sync, cols

LEMMA UpdateInit == Collections!Init => UpdateInv
<1> SUFFICES ASSUME Collections!Init PROVE UpdateInv
  OBVIOUS
<1>1. def \in Collections!Defs /\ table = Collections!Columns(def)
      /\ objs = [w \in Servers |-> <<def>>] /\ line = [w \in Servers |-> <<>>]
      /\ stage = [r \in Updates |-> "idle"] /\ original = [r \in Updates |-> def]
      /\ object = [r \in Updates |-> None] /\ clashes = {}
  BY DEF Collections!Init
<1>2. \A w \in Servers : /\ objs[w] \in Seq(Collections!Defs) /\ objs[w] # <<>>
                         /\ Collections!Last(objs[w]) = def
  BY <1>1 DEF Collections!Last
<1>3. UpdateTyped
  BY <1>1, <1>2, EmptySeq DEF UpdateTyped
<1>4. Gap = {}
  BY <1>1 DEF Gap
<1>5. LineInv
  BY <1>1, <1>4, EmptySeq DEF LineInv, Once, Elems
<1>6. GapInv
  BY <1>1, <1>4 DEF GapInv, Continued
<1>7. CachedInv
  BY <1>2 DEF CachedInv
<1>8. QED
  BY <1>3, <1>5, <1>6, <1>7 DEF UpdateInv

LEMMA ObjectType ==
  ASSUME UpdateTyped, NEW r \in Updates, stage[r] # "idle"
  PROVE  /\ Collections!Worker(r) \in Servers /\ Collections!Object(r) \in Collections!Defs
         /\ object[r].at \in Nat /\ object[r].at \in 1..Len(objs[Collections!Worker(r)])
<1>1. /\ object[r] \in [worker : Servers, at : Nat]
      /\ object[r].at \in 1..Len(objs[object[r].worker])
  BY DEF UpdateTyped
<1>2. objs[object[r].worker] \in Seq(Collections!Defs)
  BY <1>1 DEF UpdateTyped
<1>3. objs[object[r].worker][object[r].at] \in Collections!Defs
  BY <1>1, <1>2, ElementOfSeq
<1>4. QED
  BY <1>1, <1>3 DEF Collections!Worker, Collections!Object

\* A line lists updates that are in the gap.
LEMMA LineType ==
  ASSUME UpdateTyped, LineInv, NEW w \in Servers, NEW i \in 1..Len(line[w])
  PROVE  /\ line[w][i] \in Updates /\ stage[line[w][i]] = "written"
         /\ Collections!Worker(line[w][i]) = w
<1>1. line[w] \in Seq(Updates)
  BY DEF UpdateTyped
<1>2. i \in DOMAIN line[w] /\ line[w][i] \in Updates
  BY <1>1, LenProperties
<1>3. line[w][i] \in Elems(line[w])
  BY <1>2 DEF Elems
<1>4. QED
  BY <1>2, <1>3 DEF LineInv, Gap

\* What the gap holds does not change when its updates and their objects stay.
LEMMA SameGap ==
  ASSUME UpdateTyped, LineInv, GapInv, UNCHANGED <<def, table, original, line>>,
         clashes \subseteq clashes', Gap' = Gap,
         \A r \in Gap : Collections!Worker(r)' = Collections!Worker(r),
         clashes' \cap {"failed", "crossed", "changed"} = {} =>
           \A r \in Gap : Collections!Object(r)' = Collections!Object(r)
  PROVE  LineInv' /\ GapInv'
<1>1. \A s : Elems(s)' = Elems(s)
  BY DEF Elems
<1>2. LineInv'
  BY <1>1 DEF LineInv, Once, Elems
<1>3. ASSUME clashes' \cap {"failed", "crossed", "changed"} = {} PROVE GapInv'
  <2>1. /\ Gap = {} => table = Collections!Columns(def)
        /\ \A q, r \in Gap : Collections!Worker(q) = Collections!Worker(r)
        /\ \A w \in Servers : Continued(line[w])
    BY <1>3 DEF GapInv
  <2>2. (Gap = {} => table = Collections!Columns(def))'
    BY <2>1 DEF Collections!Columns, Collections!Range
  <2>3. (\A q, r \in Gap : Collections!Worker(q) = Collections!Worker(r))'
    BY <2>1
  <2>4. ASSUME NEW w \in Servers, line[w] # <<>> PROVE Continued(line[w])'
    <3>1. \A i \in 1..Len(line[w]) :
            Collections!Object(line[w][i])' = Collections!Object(line[w][i])
      BY <1>3, LineType DEF Gap
    <3>2. Len(line[w]) \in Nat /\ Len(line[w]) # 0
      BY <2>4, EmptySeq, LenProperties DEF UpdateTyped
    <3>3. Continued(line[w])
      BY <2>1
    <3>4. (table = Collections!Columns(original[line[w][1]]))'
      BY <2>4, <3>3 DEF Continued, Collections!Columns, Collections!Range
    <3>5. (\A i \in 1..(Len(line[w]) - 1) :
            original[line[w][i + 1]] = Collections!Object(line[w][i]))'
      BY <2>4, <3>1, <3>2, <3>3 DEF Continued
    <3>6. (def = Collections!Object(line[w][Len(line[w])]))'
      BY <2>4, <3>1, <3>2, <3>3 DEF Continued
    <3>7. QED
      BY <3>4, <3>5, <3>6 DEF Continued
  <2>5. QED
    BY <2>2, <2>3, <2>4 DEF GapInv, Continued
<1>4. QED
  BY <1>2, <1>3 DEF GapInv

\* Objects that are there stay where they are when the cache is reloaded.
LEMMA ReloadKeeps ==
  ASSUME UpdateTyped, NEW w \in Servers, objs' = [objs EXCEPT ![w] = Append(@, def)],
         UNCHANGED object
  PROVE  /\ objs' \in [Servers -> Seq(Collections!Defs)] /\ \A v \in Servers : objs'[v] # <<>>
         /\ \A v \in Servers : Len(objs[v]) \in Nat /\ Len(objs'[v]) >= Len(objs[v])
                               /\ Len(objs'[v]) \in Nat
         /\ objs'[w][Len(objs'[w])] = def /\ \A v \in Servers \ {w} : objs'[v] = objs[v]
         /\ \A r \in Updates : stage[r] # "idle" =>
              /\ Collections!Worker(r)' = Collections!Worker(r)
              /\ Collections!Object(r)' = Collections!Object(r)
<1>1. objs[w] \in Seq(Collections!Defs) /\ def \in Collections!Defs
      /\ \A v \in Servers : Len(objs[v]) \in Nat
  BY LenProperties DEF UpdateTyped
<1>2. /\ objs'[w] \in Seq(Collections!Defs) /\ objs'[w] # <<>>
      /\ Len(objs'[w]) = Len(objs[w]) + 1 /\ objs'[w][Len(objs[w]) + 1] = def
      /\ \A i \in 1..Len(objs[w]) : objs'[w][i] = objs[w][i]
  <2>1. objs'[w] = Append(objs[w], def)
    BY DEF UpdateTyped
  <2>2. QED
    BY <1>1, <2>1, AppendProperties
<1>3. \A v \in Servers \ {w} : objs'[v] = objs[v]
  BY DEF UpdateTyped
<1>4. objs' \in [Servers -> Seq(Collections!Defs)]
  BY <1>1, AppendProperties DEF UpdateTyped
<1>5. ASSUME NEW r \in Updates, stage[r] # "idle"
      PROVE  /\ Collections!Worker(r)' = Collections!Worker(r)
             /\ Collections!Object(r)' = Collections!Object(r)
  <2>1. /\ object[r].worker \in Servers
        /\ object[r].at \in 1..Len(objs[object[r].worker])
    BY <1>5, ObjectType DEF Collections!Worker
  <2>2. objs'[object[r].worker][object[r].at] = objs[object[r].worker][object[r].at]
    BY <1>2, <1>3, <2>1
  <2>3. QED
    BY <2>2 DEF Collections!Worker, Collections!Object
<1>6. QED
  BY <1>1, <1>2, <1>3, <1>4, <1>5 DEF UpdateTyped

LEMMA FindStep ==
  ASSUME UpdateInv, NEW r \in Updates, NEW w \in Servers, Collections!Find(r, w)
  PROVE  UpdateInv'
<1> USE DEF UpdateInv
<1>1. /\ stage[r] = "idle" /\ stage' = [stage EXCEPT ![r] = "found"]
      /\ object' = [object EXCEPT ![r] = [worker |-> w, at |-> Len(objs[w])]]
      /\ UNCHANGED <<def, table, objs, original, line, noticed, clashes>>
  BY DEF Collections!Find
<1>2. Len(objs[w]) \in Nat /\ Len(objs[w]) # 0
  BY EmptySeq, LenProperties DEF UpdateTyped
<1>3. \A q \in Updates \ {r} : object'[q] = object[q] /\ stage'[q] = stage[q]
  BY <1>1 DEF UpdateTyped
<1>4. object'[r] = [worker |-> w, at |-> Len(objs[w])] /\ stage'[r] = "found"
  BY <1>1 DEF UpdateTyped
<1>5. object' \in [Updates -> {None} \cup [worker : Servers, at : Nat]]
  BY <1>1, <1>2 DEF UpdateTyped
<1>6. UpdateTyped'
  BY <1>1, <1>2, <1>3, <1>4, <1>5 DEF UpdateTyped
<1>7. Gap' = Gap /\ r \notin Gap
  BY <1>1, <1>3, <1>4 DEF Gap
<1>8. \A q \in Gap : /\ Collections!Worker(q)' = Collections!Worker(q)
                     /\ Collections!Object(q)' = Collections!Object(q)
  BY <1>1, <1>3, <1>7 DEF Gap, Collections!Worker, Collections!Object
<1>9. LineInv' /\ GapInv'
  BY <1>1, <1>7, <1>8, SameGap
<1>10. CachedInv'
  BY <1>1, <1>3, <1>4 DEF CachedInv, Collections!Last
<1>11. QED
  BY <1>6, <1>9, <1>10

LEMMA ApplyStep ==
  ASSUME UpdateInv, NEW r \in Updates, Collections!Apply(r) PROVE UpdateInv'
<1> USE DEF UpdateInv
<1> DEFINE w == object[r].worker
           k == object[r].at
<1>1. PICK d \in Collections!Defs \cup {Collections!Object(r)} :
        /\ stage[r] = "found" /\ stage' = [stage EXCEPT ![r] = "applied"]
        /\ objs' = [objs EXCEPT ![Collections!Worker(r)][object[r].at] = d]
        /\ clashes' = clashes \union
             (IF /\ d # Collections!Object(r)
                 /\ \E q \in Updates : stage[q] = "written" /\ object[q] = object[r]
              THEN {"changed"} ELSE {})
        /\ UNCHANGED <<def, table, object, original, line, noticed>>
  BY DEF Collections!Apply
<1>2. w \in Servers /\ k \in 1..Len(objs[w]) /\ Collections!Object(r) = objs[w][k]
      /\ d \in Collections!Defs
  BY <1>1, ObjectType DEF Collections!Worker, Collections!Object
<1>3. objs[w] \in Seq(Collections!Defs) /\ DOMAIN objs[w] = 1..Len(objs[w])
      /\ Len(objs[w]) \in Nat
  BY <1>2, LenProperties DEF UpdateTyped
<1> DEFINE s == [objs[w] EXCEPT ![k] = d]
<1>4. s \in Seq(Collections!Defs) /\ Len(s) = Len(objs[w]) /\ s # <<>>
      /\ \A i \in 1..Len(objs[w]) : s[i] = IF i = k THEN d ELSE objs[w][i]
  BY <1>2, <1>3, ExceptSeq, EmptySeq
<1>5. objs' = [objs EXCEPT ![w] = s]
  BY <1>1 DEF Collections!Worker
<1> HIDE DEF w, k, s
<1>6. objs' \in [Servers -> Seq(Collections!Defs)] /\ objs'[w] = s
      /\ \A v \in Servers \ {w} : objs'[v] = objs[v]
  BY <1>2, <1>4, <1>5 DEF UpdateTyped
<1>7. \A q \in Updates \ {r} : stage'[q] = stage[q]
  BY <1>1 DEF UpdateTyped
<1>8. stage'[r] = "applied"
  BY <1>1 DEF UpdateTyped
<1>9. \A v \in Servers : Len(objs'[v]) = Len(objs[v]) /\ objs'[v] # <<>>
  BY <1>4, <1>6 DEF UpdateTyped
<1>10. UpdateTyped'
  BY <1>1, <1>6, <1>7, <1>9 DEF UpdateTyped
<1>11. Gap' = Gap
  BY <1>1, <1>7, <1>8 DEF Gap
<1>12. ASSUME NEW q \in Gap, "changed" \notin clashes'
       PROVE  Collections!Object(q)' = Collections!Object(q)
  <2>1. /\ object[q] \in [worker : Servers, at : Nat] /\ object[r] \in [worker : Servers, at : Nat]
        /\ object[q].worker \in Servers /\ object[q].at \in 1..Len(objs[object[q].worker])
    BY <1>1 DEF Gap, UpdateTyped
  <2>2. d = objs[w][k] \/ object[q] # object[r]
    BY <1>1, <1>2, <1>12 DEF Gap
  <2>3. d = objs[w][k] \/ object[q].worker # w \/ object[q].at # k
    BY <2>1, <2>2 DEF w, k
  <2>4. objs'[object[q].worker][object[q].at] = objs[object[q].worker][object[q].at]
    BY <1>4, <1>6, <2>1, <2>3
  <2>5. QED
    BY <1>1, <2>4 DEF Collections!Object, Collections!Worker
<1>13. LineInv' /\ GapInv'
  BY <1>1, <1>11, <1>12, SameGap DEF Collections!Worker
<1>14. CachedInv'
  BY <1>8 DEF CachedInv
<1>15. QED
  BY <1>10, <1>13, <1>14

LEMMA RefuseStep ==
  ASSUME UpdateInv, NEW r \in Updates, Collections!Refuse(r) PROVE UpdateInv'
<1> USE DEF UpdateInv
<1>1. /\ stage[r] = "applied" /\ stage' = [stage EXCEPT ![r] = "over"]
      /\ clashes' = clashes \cup {"refused"}
      /\ UNCHANGED <<def, table, objs, object, original, line, noticed>>
  BY DEF Collections!Refuse
<1>2. UpdateTyped' /\ Gap' = Gap
  BY <1>1 DEF UpdateTyped, Gap
<1>3. LineInv' /\ GapInv'
  BY <1>1, <1>2, SameGap DEF Collections!Worker, Collections!Object
<1>4. CachedInv'
  BY <1>1 DEF CachedInv
<1>5. QED
  BY <1>2, <1>3, <1>4

LEMMA WriteStep ==
  ASSUME UpdateInv, NEW r \in Updates, Collections!Write(r) PROVE UpdateInv'
<1> USE DEF UpdateInv
<1>a. stage[r] = "applied"
  BY DEF Collections!Write
<1>b. PICK w \in Servers : w = Collections!Worker(r)
  BY <1>a, ObjectType
<1>c. PICK s \in Seq(Updates) : s = line[w]
  BY DEF UpdateTyped
<1>1. /\ stage[r] = "applied" /\ stage' = [stage EXCEPT ![r] = "written"]
      /\ original' = [original EXCEPT ![r] = def] /\ def' = Collections!Object(r)
      /\ line' = [line EXCEPT ![w] = Append(s, r)]
      /\ clashes' = clashes \union
           (IF \E q \in Updates : stage[q] = "written" /\ Collections!Worker(q) # w
            THEN {"crossed"} ELSE {})
      /\ UNCHANGED <<table, objs, object, noticed>>
  BY <1>b, <1>c DEF Collections!Write, Collections!Before
<1>2. Collections!Object(r) \in Collections!Defs
  BY <1>1, ObjectType
<1>3. Len(s) \in Nat /\ DOMAIN s = 1..Len(s)
  BY LenProperties
<1>4. r \notin Gap /\ r \notin Elems(s)
  BY <1>1, <1>c DEF Gap, LineInv
<1>5. /\ Append(s, r) \in Seq(Updates) /\ Once(Append(s, r))
      /\ Elems(Append(s, r)) = Elems(s) \cup {r}
  BY <1>c, <1>4, AppendOnce DEF LineInv
<1>6. /\ Append(s, r) # <<>> /\ Len(Append(s, r)) = Len(s) + 1
      /\ \A i \in 1..Len(s) : Append(s, r)[i] = s[i]
      /\ Append(s, r)[Len(s) + 1] = r
  BY <1>3, AppendProperties
<1>7. line' \in [Servers -> Seq(Updates)] /\ line'[w] = Append(s, r)
      /\ \A v \in Servers \ {w} : line'[v] = line[v]
  BY <1>1, <1>5 DEF UpdateTyped
<1>8. UpdateTyped'
  BY <1>1, <1>2, <1>7 DEF UpdateTyped
<1>9. Gap' = Gap \cup {r}
  BY <1>1 DEF Gap, UpdateTyped
<1>10. \A q \in Updates : /\ Collections!Worker(q)' = Collections!Worker(q)
                          /\ Collections!Object(q)' = Collections!Object(q)
  BY <1>1 DEF Collections!Worker, Collections!Object
<1>11. LineInv'
  <2> SUFFICES ASSUME NEW v \in Servers
               PROVE  /\ Once(line'[v])
                      /\ \A q \in Updates : q \in Elems(line'[v]) <=>
                           q \in Gap' /\ Collections!Worker(q)' = v
    BY DEF LineInv, Once, Elems
  <2>1. CASE v = w
    BY <1>b, <1>c, <1>5, <1>7, <1>9, <1>10, <2>1 DEF LineInv
  <2>2. CASE v # w
    BY <1>b, <1>7, <1>9, <1>10, <2>2 DEF LineInv
  <2>3. QED
    BY <2>1, <2>2
<1>12. ASSUME clashes' \cap {"failed", "crossed", "changed"} = {} PROVE GapInv'
  <2>1. /\ Gap = {} => table = Collections!Columns(def)
        /\ \A v \in Servers : Continued(line[v])
    BY <1>1, <1>12 DEF GapInv
  <2>2. \A q \in Gap : Collections!Worker(q) = w
    BY <1>1, <1>12 DEF Gap
  <2>3. \A v \in Servers \ {w} : line[v] = <<>>
    <3> SUFFICES ASSUME NEW v \in Servers \ {w}, line[v] # <<>> PROVE FALSE
      OBVIOUS
    <3>1. line[v] \in Seq(Updates)
      BY DEF UpdateTyped
    <3>2. 1 \in 1..Len(line[v])
      BY <3>1, EmptySeq, LenProperties
    <3>3. line[v][1] \in Gap /\ Collections!Worker(line[v][1]) = v
      BY <3>2, LineType DEF Gap
    <3>4. QED
      BY <2>2, <3>3
  <2>4. (\A p, q \in Gap : Collections!Worker(p) = Collections!Worker(q))'
    <3>1. \A q \in Gap \cup {r} : Collections!Worker(q)' = w
      BY <1>b, <1>10, <2>2 DEF Gap
    <3>2. QED
      BY <1>9, <3>1
  <2>5. /\ original'[r] = def /\ \A q \in Updates \ {r} : original'[q] = original[q]
    BY <1>1 DEF UpdateTyped
  <2>6. Continued(Append(s, r))'
    <3>1. CASE s = <<>>
      <4>1. Gap = {}
        <5> SUFFICES ASSUME NEW q \in Gap PROVE FALSE
          OBVIOUS
        <5>1. q \in Elems(s)
          BY <1>c, <2>2 DEF LineInv, Gap
        <5>2. QED
          BY <3>1, <5>1 DEF Elems
      <4>2. table' = Collections!Columns(original'[r])
        BY <1>1, <2>1, <2>5, <4>1
      <4>3. Len(s) = 0
        BY <3>1
      <4>4. Append(s, r)[1] = r /\ Len(Append(s, r)) = 1
        BY <1>6, <4>3
      <4>5. def' = Collections!Object(Append(s, r)[1])'
        BY <1>1, <1>10, <4>4
      <4>6. (table = Collections!Columns(original[Append(s, r)[1]]))'
        BY <4>2, <4>4 DEF Collections!Columns, Collections!Range
      <4>7. QED
        BY <4>4, <4>5, <4>6 DEF Continued
    <3>2. CASE s # <<>>
      <4>1. Len(s) # 0
        BY <1>3, <3>2, EmptySeq
      <4>2. Continued(s)
        BY <1>c, <2>1
      <4>3. \A i \in 1..Len(s) : s[i] \in Updates \ {r}
        BY <1>3, <1>4 DEF Elems
      <4>4. original'[s[1]] = original[s[1]] /\ Append(s, r)[1] = s[1]
        BY <1>3, <1>6, <2>5, <4>1, <4>3
      <4>5. (table = Collections!Columns(original[Append(s, r)[1]]))'
        BY <1>1, <3>2, <4>2, <4>4 DEF Continued, Collections!Columns, Collections!Range
      <4>6. ASSUME NEW i \in 1..(Len(Append(s, r)) - 1)
            PROVE  original'[Append(s, r)[i + 1]] = Collections!Object(Append(s, r)[i])'
        <5>1. i \in 1..Len(s) /\ Append(s, r)[i] = s[i] /\ s[i] \in Updates
          BY <1>3, <1>6, <4>3
        <5>2. Collections!Object(Append(s, r)[i])' = Collections!Object(s[i])
          BY <1>10, <5>1
        <5>3. CASE i = Len(s)
          <6>1. Append(s, r)[i + 1] = r
            BY <1>6, <5>3
          <6>2. def = Collections!Object(s[i])
            BY <3>2, <4>2, <5>3 DEF Continued
          <6>3. QED
            BY <2>5, <5>2, <6>1, <6>2
        <5>4. CASE i # Len(s)
          <6>1. i \in 1..(Len(s) - 1) /\ i + 1 \in 1..Len(s)
            BY <1>3, <5>1, <5>4
          <6>2. Append(s, r)[i + 1] = s[i + 1] /\ s[i + 1] \in Updates \ {r}
            BY <1>6, <4>3, <6>1
          <6>3. original[s[i + 1]] = Collections!Object(s[i])
            BY <3>2, <4>2, <6>1 DEF Continued
          <6>4. QED
            BY <2>5, <5>2, <6>2, <6>3
        <5>5. QED
          BY <5>3, <5>4
      <4>7. def' = Collections!Object(Append(s, r)[Len(Append(s, r))])'
        BY <1>1, <1>6, <1>10
      <4>8. QED
        BY <4>5, <4>6, <4>7 DEF Continued
    <3>3. QED
      BY <3>1, <3>2
  <2>7. ASSUME NEW v \in Servers PROVE Continued(line[v])'
    <3>1. CASE v = w
      BY <1>7, <2>6, <3>1 DEF Continued
    <3>2. CASE v # w
      BY <1>7, <2>3, <3>2 DEF Continued
    <3>3. QED
      BY <3>1, <3>2
  <2>8. QED
    BY <1>9, <2>4, <2>7 DEF GapInv
<1>13. CachedInv'
  BY <1>1 DEF CachedInv, UpdateTyped
<1>14. QED
  BY <1>8, <1>11, <1>12, <1>13 DEF GapInv

LEMMA SyncStep ==
  ASSUME UpdateInv, NEW r \in Updates, Collections!Sync(r) PROVE UpdateInv'
<1> USE DEF UpdateInv
<1>a. stage[r] = "written"
  BY DEF Collections!Sync
<1>b. PICK w \in Servers : w = Collections!Worker(r)
  BY <1>a, ObjectType
<1>c. PICK s \in Seq(Updates) : s = line[w]
  BY DEF UpdateTyped
<1>1. /\ Head(s) = r /\ line' = [line EXCEPT ![w] = Tail(s)]
      /\ UNCHANGED <<def, objs, object, original, noticed>>
      /\ \/ /\ Collections!Possible(original[r], Collections!Object(r))
            /\ table' = Collections!Synced(original[r], Collections!Object(r))
            /\ stage' = [stage EXCEPT ![r] = "synced"] /\ UNCHANGED clashes
         \/ /\ ~Collections!Possible(original[r], Collections!Object(r))
            /\ stage' = [stage EXCEPT ![r] = "over"] /\ UNCHANGED <<table, clashes>>
         \/ /\ stage' = [stage EXCEPT ![r] = "over"] /\ clashes' = clashes \cup {"failed"}
            /\ UNCHANGED table
  BY <1>b, <1>c DEF Collections!Sync
<1>2. r \in Gap /\ r \in Elems(s) /\ s # <<>>
  BY <1>a, <1>b, <1>c DEF Gap, LineInv, Elems
<1>3. Len(s) \in Nat /\ DOMAIN s = 1..Len(s) /\ Len(s) # 0 /\ s[1] = r
  BY <1>1, <1>2, EmptySeq, LenProperties
<1>4. PICK t \in Seq(Updates) : t = Tail(s)
  BY <1>2, HeadTailProperties
<1>5. /\ Len(t) = Len(s) - 1 /\ \A i \in 1..Len(t) : t[i] = s[i + 1]
      /\ Once(t) /\ Elems(t) = Elems(s) \ {r}
  BY <1>c, <1>1, <1>2, <1>4, HeadTailProperties, TailOnce DEF LineInv
<1>6. line' \in [Servers -> Seq(Updates)] /\ line'[w] = t
      /\ \A v \in Servers \ {w} : line'[v] = line[v]
  BY <1>1, <1>4 DEF UpdateTyped
<1>7. PICK st \in {"synced", "over"} : stage' = [stage EXCEPT ![r] = st]
  BY <1>1
<1>8. UpdateTyped'
  <2>1. stage' \in [Updates -> {"idle", "found", "applied", "written", "synced", "over"}]
        /\ \A q \in Updates : stage'[q] # "idle" => stage[q] # "idle"
    BY <1>a, <1>7 DEF UpdateTyped
  <2>2. clashes' \subseteq clashes \cup {"failed"}
    BY <1>1
  <2>3. QED
    BY <1>1, <1>6, <2>1, <2>2 DEF UpdateTyped
<1>9. Gap' = Gap \ {r}
  BY <1>7 DEF Gap, UpdateTyped
<1>10. \A q \in Updates : /\ Collections!Worker(q)' = Collections!Worker(q)
                          /\ Collections!Object(q)' = Collections!Object(q)
  BY <1>1 DEF Collections!Worker, Collections!Object
<1>11. LineInv'
  <2> SUFFICES ASSUME NEW v \in Servers
               PROVE  /\ Once(line'[v])
                      /\ \A q \in Updates : q \in Elems(line'[v]) <=>
                           q \in Gap' /\ Collections!Worker(q)' = v
    BY DEF LineInv, Once, Elems
  <2>1. CASE v = w
    BY <1>c, <1>5, <1>6, <1>9, <1>10, <2>1 DEF LineInv
  <2>2. CASE v # w
    BY <1>b, <1>6, <1>9, <1>10, <2>2 DEF LineInv
  <2>3. QED
    BY <2>1, <2>2
<1> DEFINE Sound == clashes \cap {"failed", "crossed", "changed"} = {}
<1>12. ASSUME Sound'
       PROVE  /\ Sound /\ table' = Collections!Columns(Collections!Object(r))
              /\ stage' = [stage EXCEPT ![r] = "synced"]
  <2>1. Sound /\ "failed" \notin clashes'
    BY <1>1, <1>12
  <2>2. table = Collections!Columns(original[r])
    BY <1>c, <1>2, <1>3, <2>1 DEF GapInv, Continued
  <2>3. original[r] \in Collections!Defs /\ Collections!Object(r) \in Collections!Defs
    BY <1>a, ObjectType DEF UpdateTyped
  <2>4. /\ Collections!Possible(original[r], Collections!Object(r))
        /\ Collections!Synced(original[r], Collections!Object(r))
             = Collections!Columns(Collections!Object(r))
    BY <2>2, <2>3, SyncWorks
  <2>5. QED
    BY <1>1, <2>1, <2>4
<1>13. ASSUME Sound' PROVE GapInv'
  <2>1. Continued(s)
    BY <1>c, <1>12, <1>13 DEF GapInv
  <2>2. \A p, q \in Gap : Collections!Worker(p) = Collections!Worker(q)
    BY <1>12, <1>13 DEF GapInv
  <2>3. (\A p, q \in Gap : Collections!Worker(p) = Collections!Worker(q))'
    <3>1. \A q \in Gap : Collections!Worker(q)' = w
      BY <1>b, <1>2, <1>10, <2>2 DEF Gap
    <3>2. QED
      BY <1>9, <3>1
  <2>4. PICK o : o = Collections!Object(r) /\ o = Collections!Object(r)'
    BY <1>10
  <2>5. table' = Collections!Columns(o)
    BY <1>12, <1>13, <2>4
  <2>6. ASSUME t = <<>> PROVE def = o
    <3>0. Len(t) = 0
      BY <2>6
    <3>1. Len(s) = 1
      <4>1. PICK n \in Nat : n = Len(s)
        BY <1>3
      <4>2. 0 = n - 1
        BY <1>5, <3>0, <4>1
      <4>3. n = 1
        BY <4>2
      <4>4. QED
        BY <4>1, <4>3
    <3>2. QED
      BY <1>2, <1>3, <2>1, <2>4, <3>1 DEF Continued
  <2>7. ASSUME Gap' = {} PROVE def = o
    <3>1. Elems(t) = {}
      <4>1. Elems(s) \subseteq Updates
        BY ElementOfSeq DEF Elems
      <4>2. \A q \in Updates : q \in Elems(s) => q \in Gap
        BY <1>c DEF LineInv
      <4>3. Elems(t) \subseteq Gap \ {r}
        BY <1>5, <4>1, <4>2
      <4>4. QED
        BY <1>9, <2>7, <4>3
    <3>2. ASSUME t # <<>> PROVE FALSE
      <4>1. DOMAIN t = 1..Len(t) /\ Len(t) \in Nat /\ Len(t) # 0
        BY <3>2, EmptySeq, LenProperties
      <4>2. 1 \in DOMAIN t
        BY <4>1
      <4>3. t[1] \in Elems(t)
        BY <4>2 DEF Elems
      <4>4. QED
        BY <3>1, <4>3
    <3>3. QED
      BY <2>6, <3>2
  <2>8. ASSUME t # <<>> PROVE original[t[1]] = o
    <3>1. Len(t) \in Nat /\ Len(t) # 0
      BY <2>8, EmptySeq, LenProperties
    <3>2. 1 \in 1..(Len(s) - 1) /\ t[1] = s[1 + 1]
      BY <1>3, <1>5, <3>1
    <3>3. QED
      BY <1>2, <1>3, <2>1, <2>4, <3>2 DEF Continued
  <2>9. Continued(t)'
    <3> SUFFICES ASSUME t # <<>> PROVE Continued(t)'
      BY DEF Continued
    <3>1. Len(t) \in Nat /\ Len(t) # 0 /\ \A i \in 1..Len(t) : t[i] \in Updates
      BY EmptySeq, LenProperties
    <3>2. (table = Collections!Columns(original[t[1]]))'
      BY <1>1, <2>5, <2>8 DEF Collections!Columns, Collections!Range
    <3>3. ASSUME NEW i \in 1..(Len(t) - 1)
          PROVE  original'[t[i + 1]] = Collections!Object(t[i])'
      <4>1. /\ i + 1 \in 1..(Len(s) - 1) /\ t[i] = s[i + 1] /\ t[i + 1] = s[(i + 1) + 1]
            /\ t[i] \in Updates
        BY <1>3, <1>5, <3>1
      <4>2. original[s[(i + 1) + 1]] = Collections!Object(s[i + 1])
        BY <1>2, <2>1, <4>1 DEF Continued
      <4>3. QED
        BY <1>1, <1>10, <4>1, <4>2
    <3>4. def' = Collections!Object(t[Len(t)])'
      <4>1. t[Len(t)] = s[Len(s)] /\ t[Len(t)] \in Updates
        BY <1>3, <1>5, <3>1
      <4>2. def = Collections!Object(s[Len(s)])
        BY <1>2, <2>1 DEF Continued
      <4>3. QED
        BY <1>1, <1>10, <4>1, <4>2
    <3>5. QED
      BY <3>2, <3>3, <3>4 DEF Continued
  <2>10. ASSUME NEW v \in Servers \ {w} PROVE line[v] = <<>>
    <3> SUFFICES ASSUME line[v] # <<>> PROVE FALSE
      OBVIOUS
    <3>1. line[v] \in Seq(Updates)
      BY DEF UpdateTyped
    <3>2. 1 \in 1..Len(line[v])
      BY <3>1, EmptySeq, LenProperties
    <3>3. line[v][1] \in Gap /\ Collections!Worker(line[v][1]) = v
      BY <3>2, LineType DEF Gap
    <3>4. QED
      BY <1>b, <1>2, <2>2, <3>3
  <2>11. ASSUME NEW v \in Servers PROVE Continued(line[v])'
    <3>1. CASE v = w
      BY <1>6, <2>9, <3>1 DEF Continued
    <3>2. CASE v # w
      BY <1>6, <2>10, <3>2 DEF Continued
    <3>3. QED
      BY <3>1, <3>2
  <2>12. (Gap = {} => table = Collections!Columns(def))'
    BY <1>1, <2>5, <2>7 DEF Collections!Columns, Collections!Range
  <2>13. QED
    BY <2>3, <2>11, <2>12 DEF GapInv
<1>14. CachedInv'
  <2> SUFFICES ASSUME clashes' = {} PROVE stage'[r] = "synced"
    BY DEF CachedInv
  <2>1. QED
    BY <1>12 DEF UpdateTyped
<1>15. QED
  BY <1>8, <1>11, <1>13, <1>14 DEF GapInv

LEMMA ReloadStep ==
  ASSUME UpdateInv, NEW r \in Updates, Collections!Reload(r) PROVE UpdateInv'
<1> USE DEF UpdateInv
<1>a. stage[r] = "synced"
  BY DEF Collections!Reload
<1>b. PICK w \in Servers : w = Collections!Worker(r)
  BY <1>a, ObjectType
<1>1. /\ stage' = [stage EXCEPT ![r] = "over"] /\ objs' = [objs EXCEPT ![w] = Append(@, def)]
      /\ noticed' = noticed \cup (Servers \ {w})
      /\ UNCHANGED <<def, table, object, original, line, clashes>>
  BY <1>b DEF Collections!Reload
<1>2. UpdateTyped'
  <2>1. stage' \in [Updates -> {"idle", "found", "applied", "written", "synced", "over"}]
        /\ \A q \in Updates : stage'[q] # "idle" => stage[q] # "idle"
    BY <1>a, <1>1 DEF UpdateTyped
  <2>2. /\ objs' \in [Servers -> Seq(Collections!Defs)] /\ \A v \in Servers : objs'[v] # <<>>
        /\ \A v \in Servers : Len(objs[v]) \in Nat /\ Len(objs'[v]) >= Len(objs[v])
                              /\ Len(objs'[v]) \in Nat
    BY <1>1, ReloadKeeps
  <2>3. ASSUME NEW q \in Updates, stage'[q] # "idle"
        PROVE  /\ object'[q] \in [worker : Servers, at : Nat]
               /\ object'[q].at \in 1..Len(objs'[object'[q].worker])
    <3>1. stage[q] # "idle"
      BY <2>1, <2>3
    <3>2. /\ object[q] \in [worker : Servers, at : Nat] /\ object[q].worker \in Servers
          /\ object[q].at \in 1..Len(objs[object[q].worker])
      BY <3>1 DEF UpdateTyped
    <3>3. QED
      BY <1>1, <2>2, <3>2
  <2>4. QED
    BY <1>1, <2>1, <2>2, <2>3 DEF UpdateTyped
<1>3. Gap' = Gap
  BY <1>a, <1>1 DEF Gap, UpdateTyped
<1>4. \A q \in Gap : /\ Collections!Worker(q)' = Collections!Worker(q)
                     /\ Collections!Object(q)' = Collections!Object(q)
  BY <1>1, ReloadKeeps DEF Gap
<1>5. LineInv' /\ GapInv'
  BY <1>1, <1>3, <1>4, SameGap
<1>6. Collections!Last(objs'[w]) = def
  BY <1>1, ReloadKeeps DEF Collections!Last
<1>7. CachedInv'
  BY <1>1, <1>6 DEF CachedInv, Collections!Last
<1>8. QED
  BY <1>2, <1>5, <1>7

LEMMA NoticeStep ==
  ASSUME UpdateInv, NEW w \in Servers, Collections!Notice(w) PROVE UpdateInv'
<1> USE DEF UpdateInv
<1>1. /\ noticed' = noticed \ {w} /\ objs' = [objs EXCEPT ![w] = Append(@, def)]
      /\ UNCHANGED <<def, table, stage, object, original, line, clashes>>
  BY DEF Collections!Notice
<1>2. /\ objs' \in [Servers -> Seq(Collections!Defs)] /\ \A v \in Servers : objs'[v] # <<>>
      /\ \A v \in Servers : Len(objs[v]) \in Nat /\ Len(objs'[v]) >= Len(objs[v])
                            /\ Len(objs'[v]) \in Nat
      /\ objs'[w][Len(objs'[w])] = def /\ \A v \in Servers \ {w} : objs'[v] = objs[v]
  BY <1>1, ReloadKeeps
<1>3. UpdateTyped'
  <2>1. /\ def \in Collections!Defs /\ original \in [Updates -> Collections!Defs]
        /\ clashes \subseteq {"failed", "crossed", "changed", "refused"}
        /\ line \in [Servers -> Seq(Updates)]
        /\ stage \in [Updates -> {"idle", "found", "applied", "written", "synced", "over"}]
        /\ object \in [Updates -> {None} \cup [worker : Servers, at : Nat]]
    BY DEF UpdateTyped
  <2>2. ASSUME NEW r \in Updates, stage[r] # "idle"
        PROVE  /\ object[r] \in [worker : Servers, at : Nat]
               /\ object[r].at \in 1..Len(objs'[object[r].worker])
    <3>1. /\ object[r] \in [worker : Servers, at : Nat]
          /\ object[r].at \in 1..Len(objs[object[r].worker])
      BY <2>2 DEF UpdateTyped
    <3>2. PICK v \in Servers : v = object[r].worker
      BY <3>1
    <3>3. PICK k \in Nat : k = Len(objs[v])
      BY <1>2
    <3>4. PICK m \in Nat : m = Len(objs'[v])
      BY <1>2
    <3>5. m >= k
      BY <1>2, <3>3, <3>4
    <3>6. QED
      BY <3>1, <3>2, <3>3, <3>4, <3>5
  <2>3. QED
    BY <1>1, <1>2, <2>1, <2>2 DEF UpdateTyped
<1>4. Gap' = Gap
  BY <1>1 DEF Gap
<1>5. \A q \in Gap : /\ Collections!Worker(q)' = Collections!Worker(q)
                     /\ Collections!Object(q)' = Collections!Object(q)
  BY <1>1, ReloadKeeps DEF Gap
<1>6. LineInv' /\ GapInv'
  BY <1>1, <1>4, <1>5, SameGap
<1>7. CachedInv'
  BY <1>1, <1>2 DEF CachedInv, Collections!Last
<1>8. QED
  BY <1>3, <1>6, <1>7

LEMMA UpdateStep == UpdateInv /\ [Collections!Next]_updateVars => UpdateInv'
<1> SUFFICES ASSUME UpdateInv, [Collections!Next]_updateVars PROVE UpdateInv'
  OBVIOUS
<1>1. CASE UNCHANGED updateVars
  <2>1. /\ UNCHANGED <<def, table, objs, stage, object, original, line, noticed, clashes>>
        /\ UpdateTyped /\ LineInv /\ GapInv
    BY <1>1 DEF updateVars, UpdateInv
  <2>2. Gap' = Gap
    BY <2>1 DEF Gap
  <2>3. LineInv' /\ GapInv'
    BY <2>1, <2>2, SameGap DEF Collections!Worker, Collections!Object
  <2>4. UpdateTyped' /\ CachedInv'
    BY <2>1 DEF UpdateInv, UpdateTyped, CachedInv, Collections!Last
  <2>5. QED
    BY <2>3, <2>4 DEF UpdateInv
<1>2. CASE Collections!Next
  BY <1>2, FindStep, ApplyStep, RefuseStep, WriteStep, SyncStep, ReloadStep, NoticeStep
    DEF Collections!Next
<1>3. QED
  BY <1>1, <1>2

\* For any workers, updates, fields and names: when no update is in progress the table
\* has the columns of the row, each with the data of its own field, and a worker that
\* was told of all changes caches what the row says; except after the failures that the
\* definition of DefinitionsAgree names (saveCollection and syncRecordTableSchema).
THEOREM TableFollowsRow == PartsSpec => []DefinitionsAgree
<1> DEFINE all == <<part, vars, deleteVars, limitVars, claimVars, fileVars, hookVars, cascadeVars,
                    updateVars, historyVars, thumbVars>>
<1>1. PartsInit => UpdateInv
  BY UpdateInit DEF PartsInit
<1>2. UpdateInv /\ [PartsNext]_all => UpdateInv'
  <2> SUFFICES ASSUME UpdateInv, [PartsNext]_all PROVE UpdateInv'
    OBVIOUS
  <2>1. [Collections!Next]_updateVars
    BY DEF PartsNext
  <2>2. QED
    BY <2>1, UpdateStep
<1>3. UpdateInv => DefinitionsAgree
  <2> SUFFICES ASSUME UpdateInv, Collections!Quiet,
                      clashes \cap {"failed", "crossed", "changed"} = {}
               PROVE  /\ table = Collections!Columns(def)
                      /\ "refused" \notin clashes =>
                           \A w \in Servers \ noticed : Collections!Last(objs[w]) = def
    BY DEF DefinitionsAgree, Collections!DefinitionsAgree
  <2>1. Gap = {}
    BY DEF Gap, Collections!Quiet
  <2>2. table = Collections!Columns(def)
    BY <2>1 DEF UpdateInv, GapInv
  <2>3. "refused" \notin clashes => clashes = {}
    BY DEF UpdateInv, UpdateTyped
  <2>4. QED
    BY <2>2, <2>3 DEF UpdateInv, CachedInv, Collections!Quiet
<1>4. QED
  BY <1>1, <1>2, <1>3, PTL DEF PartsSpec

-----------------------------------------------------------------------------
(***************************************************************************)
(* RecordFiles. An upload is in nothing else until its save has written    *)
(* (FreshInv), and a save that is not raced has the names that its caller  *)
(* sees (SeenInv): so what is deleted, by a rollback or after a commit, is *)
(* in no row (KeptInv). What is stored and not in the row is an upload     *)
(* under way, or due to be deleted by somebody (CleanInv).                 *)
(***************************************************************************)
FileTyped ==
  /\ saves \in Nat /\ row \subseteq 0..saves /\ txRow \subseteq 0..saves
  /\ names \in [Savers -> SUBSET (0..saves)] /\ new \in [Savers -> SUBSET (0..saves)]
  /\ base \in [Savers -> SUBSET (0..saves)] /\ old \in [Savers -> SUBSET (0..saves)]
  /\ marked \in [Savers -> SUBSET (0..saves)] /\ uploaded \in [Savers -> SUBSET (0..saves)]
  /\ snap \in [Savers -> SUBSET (0..saves)]
  /\ pc \in [Savers -> {"idle", "loaded", "valid", "stored", "undo", "after", "aborted"}]

CallerInv ==
  /\ tx \subseteq Savers /\ writer \in tx \cup {Nobody}
  /\ writer = Nobody => txRow = {}
  /\ \A c \in tx : pc[c] \in {"loaded", "valid", "stored", "undo"}
  /\ \A c \in Savers : pc[c] = "idle" => marked[c] = {} /\ uploaded[c] = {}
  /\ \A c \in tx : c # writer => uploaded[c] = {}
  /\ \A c \in Savers : marked[c] \cap names[c] = {}
  /\ remover # "idle" => ~alive
  /\ ~alive => row = {} /\ writer = Nobody /\ tx \subseteq passed

Known(d) == names[d] \cup base[d] \cup old[d] \cup marked[d] \cup uploaded[d] \cup snap[d]

InUse == row \cup txRow \cup UNION {Known(d) : d \in Savers}

FreshInv ==
  \A c \in Savers :
    /\ new[c] \cap InUse = {}
    /\ \A d \in Savers : d # c => new[c] \cap new[d] = {}

\* A save that has been validated, and past which nobody has committed since.
Going(c) == pc[c] \in {"valid", "stored"} /\ c \notin raced /\ (alive \/ c \in tx)

SeenInv ==
  /\ \A c \in tx : c \notin passed => snap[c] = row
  /\ \A c \in Savers : Going(c) => names[c] \subseteq Files!Seen(c)
  /\ \A c \in Savers : Going(c) /\ pc[c] = "stored" => old[c] = Files!Seen(c)

KeptInv ==
  met \cap {"overlap", "hook", "unchanged"} = {} =>
    /\ row \subseteq stored /\ txRow \subseteq stored
    /\ \A c \in Savers : pc[c] = "stored" /\ alive => new[c] \subseteq stored
    /\ \A c \in Savers : c \notin tx /\ pc[c] # "aborted" => marked[c] \cap (row \cup txRow) = {}
    /\ \A c \in Savers : c = writer => marked[c] \cap txRow = {}
    /\ \A c \in Savers : c \in tx \/ pc[c] = "aborted" =>
         uploaded[c] \cap row = {} /\ (c # writer => uploaded[c] \cap txRow = {})

\* What a caller still has to write or to delete.
Due(c) ==
  (IF pc[c] \in {"stored", "undo"} THEN new[c] ELSE {})
  \cup (IF pc[c] = "after" THEN marked[c] ELSE {})
  \cup (IF c \in tx \/ pc[c] = "aborted" THEN uploaded[c] ELSE {})

CleanInv ==
  met \subseteq {"write"} =>
    /\ remover # "after" => \A x \in stored : x \in row \/ \E c \in Savers : x \in Due(c)
    /\ \A c \in Savers : c = writer =>
         row \subseteq txRow \cup marked[c] /\ uploaded[c] \subseteq txRow \cup marked[c]

FileInv == FileTyped /\ CallerInv /\ FreshInv /\ SeenInv /\ KeptInv /\ CleanInv

LEMMA FileInit == Files!Init => FileInv
<1> SUFFICES ASSUME Files!Init PROVE FileInv
  OBVIOUS
<1>1. /\ alive = TRUE /\ row = {0} /\ stored = {0} /\ writer = Nobody /\ txRow = {} /\ tx = {}
      /\ saves = 0 /\ met = {} /\ remover = "idle"
      /\ pc = [c \in Savers |-> "idle"]
      /\ snap = [c \in Savers |-> {}] /\ names = [c \in Savers |-> {}]
      /\ new = [c \in Savers |-> {}] /\ base = [c \in Savers |-> {}]
      /\ old = [c \in Savers |-> {}] /\ marked = [c \in Savers |-> {}]
      /\ uploaded = [c \in Savers |-> {}]
  BY DEF Files!Init
<1>2. FileTyped
  BY <1>1 DEF FileTyped
<1>3. CallerInv
  BY <1>1 DEF CallerInv
<1>4. FreshInv
  BY <1>1 DEF FreshInv
<1>5. SeenInv
  BY <1>1 DEF SeenInv, Going
<1>6. KeptInv
  BY <1>1 DEF KeptInv
<1>7. CleanInv
  BY <1>1, PartsAssumption DEF CleanInv
<1>8. QED
  BY <1>2, <1>3, <1>4, <1>5, <1>6, <1>7 DEF FileInv

\* What is in use is in the row of the record, or with somebody.
LEMMA UseOf ==
  ASSUME NEW d \in Savers
  PROVE  /\ row \subseteq InUse /\ txRow \subseteq InUse /\ Known(d) \subseteq InUse
         /\ names[d] \subseteq InUse /\ base[d] \subseteq InUse /\ old[d] \subseteq InUse
         /\ marked[d] \subseteq InUse /\ uploaded[d] \subseteq InUse /\ snap[d] \subseteq InUse
         /\ Files!Seen(d) \subseteq InUse
<1>1. Known(d) \subseteq InUse /\ row \subseteq InUse /\ txRow \subseteq InUse
  BY DEF InUse
<1>2. QED
  BY <1>1 DEF Known, Files!Seen

\* Uploads stay what nobody else has, when no more is used than before.
LEMMA FreshKept ==
  ASSUME FreshInv, row' \subseteq InUse, txRow' \subseteq InUse,
         \A d \in Savers : Known(d)' \subseteq InUse /\ new'[d] \subseteq new[d]
  PROVE  FreshInv'
<1>1. InUse' \subseteq InUse
  BY DEF InUse
<1>2. QED
  BY <1>1 DEF FreshInv

\* What is stored stays in the row or due, when no row changes.
LEMMA CleanKept ==
  ASSUME CleanInv, met \subseteq met', row' = row, txRow' = txRow, writer' = writer,
         remover' = remover,
         \A d \in Savers : d = writer => marked[d] \subseteq marked'[d] /\ uploaded'[d] = uploaded[d],
         met' \subseteq {"write"} =>
           /\ \A x \in stored' : x \in stored \/ \E d \in Savers : x \in Due(d)'
           /\ \A d \in Savers : Due(d) \cap stored' \subseteq Due(d)'
  PROVE  CleanInv'
<1>1. SUFFICES ASSUME met' \subseteq {"write"} PROVE CleanInv'
  BY DEF CleanInv
<1>2. met \subseteq {"write"}
  BY <1>1
<1>3. ASSUME remover' # "after", NEW x \in stored'
      PROVE  x \in row' \/ \E d \in Savers : x \in Due(d)'
  <2>1. CASE x \notin stored
    BY <1>1, <2>1
  <2>2. CASE x \in stored
    <3>1. x \in row \/ \E d \in Savers : x \in Due(d)
      BY <1>2, <1>3, <2>2 DEF CleanInv
    <3>2. QED
      BY <1>1, <3>1
  <2>3. QED
    BY <2>1, <2>2
<1>4. \A d \in Savers : d = writer' =>
        row' \subseteq txRow' \cup marked'[d] /\ uploaded'[d] \subseteq txRow' \cup marked'[d]
  BY <1>2 DEF CleanInv
<1>5. QED
  BY <1>3, <1>4 DEF CleanInv

LEMMA LoadFile ==
  ASSUME FileInv, NEW c \in Savers, Files!Load(c) PROVE FileInv'
<1> USE DEF FileInv
<1>1. /\ pc[c] = "idle" /\ alive /\ pc' = [pc EXCEPT ![c] = "loaded"]
      /\ names' = [names EXCEPT ![c] = row] /\ base' = [base EXCEPT ![c] = row]
      /\ \/ tx' = tx \cup {c} /\ snap' = [snap EXCEPT ![c] = row]
         \/ UNCHANGED <<tx, snap>>
      /\ UNCHANGED <<alive, row, stored, writer, txRow, passed, raced, new, old, marked, uploaded,
                     saves, remover, met>>
  BY DEF Files!Load, Files!rowVars
<1>2. c \notin tx /\ marked[c] = {} /\ uploaded[c] = {}
  BY <1>1 DEF CallerInv
<1>3. c # writer
  BY <1>2, PartsAssumption DEF CallerInv
<1>4. FileTyped'
  BY <1>1 DEF FileTyped
<1>5. /\ pc'[c] = "loaded" /\ names'[c] = row /\ base'[c] = row
      /\ \A d \in Savers \ {c} : /\ pc'[d] = pc[d] /\ names'[d] = names[d] /\ base'[d] = base[d]
                                 /\ snap'[d] = snap[d] /\ (d \in tx' <=> d \in tx)
      /\ snap'[c] = snap[c] \/ snap'[c] = row
      /\ c \in tx' => snap'[c] = row
  BY <1>1, <1>2 DEF FileTyped
<1>6. CallerInv'
  BY <1>1, <1>2, <1>5 DEF CallerInv
<1>7. FreshInv'
  <2>1. \A d \in Savers : Known(d)' \subseteq InUse /\ new'[d] \subseteq new[d]
    BY <1>1, <1>5, UseOf DEF Known
  <2>2. row' \subseteq InUse /\ txRow' \subseteq InUse
    BY <1>1 DEF InUse
  <2>3. QED
    BY <1>1, <2>1, <2>2, FreshKept
<1>8. SeenInv'
  <2>1. \A d \in Savers \ {c} : Files!Seen(d)' = Files!Seen(d) /\ (Going(d)' <=> Going(d))
    BY <1>1, <1>5 DEF Files!Seen, Going
  <2>2. ~Going(c)'
    BY <1>5 DEF Going
  <2>3. \A d \in tx' : d \notin passed' => snap'[d] = row'
    BY <1>1, <1>5 DEF SeenInv, CallerInv
  <2>4. QED
    BY <1>1, <1>5, <2>1, <2>2, <2>3 DEF SeenInv
<1>9. KeptInv'
  BY <1>1, <1>2, <1>5 DEF KeptInv
<1>10. CleanInv'
  <2>1. \A d \in Savers : Due(d) \subseteq Due(d)'
    BY <1>1, <1>2, <1>5 DEF Due
  <2>2. QED
    BY <1>1, <2>1, CleanKept
<1>11. QED
  BY <1>4, <1>6, <1>7, <1>8, <1>9, <1>10

LEMMA ValidateFile ==
  ASSUME FileInv, NEW c \in Savers, Files!Validate(c) PROVE FileInv'
<1> USE DEF FileInv
<1>1. PICK keep \in SUBSET names[c], add \in SUBSET {saves + 1} :
        /\ pc[c] = "loaded" /\ saves' = saves + 1
        /\ names' = [names EXCEPT ![c] = keep] /\ new' = [new EXCEPT ![c] = add]
        /\ \/ /\ keep \subseteq Files!Latest(c) /\ pc' = [pc EXCEPT ![c] = "valid"]
              /\ raced' = raced \ {c} /\ UNCHANGED marked
           \/ /\ marked' = IF c \in tx THEN marked ELSE [marked EXCEPT ![c] = {}]
              /\ UNCHANGED <<pc, raced>>
        /\ UNCHANGED <<alive, row, stored, writer, txRow, tx, snap, passed, base, old, uploaded,
                       remover, met>>
  BY DEF Files!Validate, Files!rowVars
<1>2. saves \in Nat /\ 0..saves \subseteq 0..saves' /\ add \subseteq 0..saves'
      /\ saves + 1 \notin 0..saves
  BY <1>1 DEF FileTyped
<1>3. /\ \A d \in Savers : marked'[d] = marked[d] \/ (d = c /\ c \notin tx /\ marked'[d] = {})
      /\ marked' \in [Savers -> SUBSET (0..saves')]
  BY <1>1, <1>2 DEF FileTyped
<1>4. /\ names'[c] = keep /\ new'[c] = add /\ pc'[c] \in {"loaded", "valid"}
      /\ \A d \in Savers \ {c} : /\ names'[d] = names[d] /\ new'[d] = new[d] /\ pc'[d] = pc[d]
                                 /\ (d \in raced' <=> d \in raced)
      /\ pc' \in [Savers -> {"idle", "loaded", "valid", "stored", "undo", "after", "aborted"}]
  BY <1>1 DEF FileTyped
<1>5. FileTyped'
  <2>1. names' \in [Savers -> SUBSET (0..saves')] /\ new' \in [Savers -> SUBSET (0..saves')]
    BY <1>1, <1>2 DEF FileTyped
  <2>2. base' \in [Savers -> SUBSET (0..saves')] /\ old' \in [Savers -> SUBSET (0..saves')]
    BY <1>1, <1>2 DEF FileTyped
  <2>3. uploaded' \in [Savers -> SUBSET (0..saves')] /\ snap' \in [Savers -> SUBSET (0..saves')]
    BY <1>1, <1>2 DEF FileTyped
  <2>4. saves' \in Nat /\ row' \subseteq 0..saves' /\ txRow' \subseteq 0..saves'
    BY <1>1, <1>2 DEF FileTyped
  <2>5. QED
    BY <1>3, <1>4, <2>1, <2>2, <2>3, <2>4 DEF FileTyped
<1>6. CallerInv'
  BY <1>1, <1>3, <1>4 DEF CallerInv
<1>7. InUse \subseteq 0..saves
  <2>1. \A d \in Savers : Known(d) \subseteq 0..saves
    BY DEF FileTyped, Known
  <2>2. row \subseteq 0..saves /\ txRow \subseteq 0..saves
    BY DEF FileTyped
  <2>3. ASSUME NEW x \in InUse PROVE x \in 0..saves
    <3>1. x \in row \/ x \in txRow \/ \E d \in Savers : x \in Known(d)
      BY DEF InUse
    <3>2. QED
      BY <2>1, <2>2, <3>1
  <2>4. QED
    BY <2>3
<1>8. FreshInv'
  <2>1. \A d \in Savers : Known(d)' \subseteq Known(d)
    BY <1>1, <1>3, <1>4 DEF Known
  <2>2. InUse' \subseteq InUse
    BY <1>1, <2>1 DEF InUse
  <2>3. \A d \in Savers : new[d] \subseteq 0..saves
    BY DEF FileTyped
  <2>4. add \cap InUse' = {} /\ \A d \in Savers : add \cap new[d] = {}
    BY <1>2, <1>7, <2>2, <2>3
  <2>5. \A d \in Savers : new'[d] \cap InUse' = {}
    BY <1>4, <2>2, <2>4 DEF FreshInv
  <2>6. \A d, e \in Savers : e # d => new'[d] \cap new'[e] = {}
    BY <1>4, <2>4 DEF FreshInv
  <2>7. QED
    BY <2>5, <2>6 DEF FreshInv
<1>9. SeenInv'
  <2>1. \A d \in Savers : Files!Seen(d)' = Files!Seen(d)
    BY <1>1 DEF Files!Seen
  <2>2. \A d \in Savers \ {c} : Going(d)' <=> Going(d)
    BY <1>1, <1>4 DEF Going
  <2>3. Going(c)' => keep \subseteq Files!Seen(c)
    BY <1>1, <1>4 DEF Going, Files!Latest
  <2>4. QED
    BY <1>1, <1>4, <2>1, <2>2, <2>3 DEF SeenInv
<1>10. KeptInv'
  BY <1>1, <1>3, <1>4, PartsAssumption DEF KeptInv, CallerInv
<1>11. CleanInv'
  <2>1. \A d \in Savers : Due(d) \subseteq Due(d)'
    BY <1>1, <1>3, <1>4 DEF Due
  <2>2. \A d \in Savers : d = writer => marked[d] \subseteq marked'[d]
    BY <1>3, PartsAssumption DEF CallerInv
  <2>3. QED
    BY <1>1, <2>1, <2>2, CleanKept
<1>12. QED
  BY <1>5, <1>6, <1>8, <1>9, <1>10, <1>11

LEMMA UploadFile ==
  ASSUME FileInv, NEW c \in Savers, Files!Upload(c) PROVE FileInv'
<1> USE DEF FileInv
<1>1. /\ pc[c] = "valid" /\ old' = [old EXCEPT ![c] = Files!Latest(c)]
      /\ \/ /\ stored' = stored \cup new[c] /\ pc' = [pc EXCEPT ![c] = "stored"]
            /\ UNCHANGED <<marked, met>>
         \/ /\ met' = met \cup {"write"} /\ pc' = [pc EXCEPT ![c] = "loaded"]
            /\ marked' = IF c \in tx THEN marked ELSE [marked EXCEPT ![c] = {}]
            /\ UNCHANGED stored
      /\ UNCHANGED <<alive, row, writer, txRow, tx, snap, passed, raced, names, new, base, uploaded,
                     saves, remover>>
  BY DEF Files!Upload, Files!Fails, Files!txVars
<1>2. Files!Latest(c) \subseteq InUse /\ Files!Latest(c) \subseteq 0..saves
  BY UseOf DEF Files!Latest, FileTyped, Files!Seen
<1>3. /\ \A d \in Savers : marked'[d] = marked[d] \/ (d = c /\ c \notin tx /\ marked'[d] = {})
      /\ marked' \in [Savers -> SUBSET (0..saves)]
  BY <1>1 DEF FileTyped
<1>4. /\ old'[c] = Files!Latest(c) /\ pc'[c] \in {"loaded", "stored"}
      /\ \A d \in Savers \ {c} : old'[d] = old[d] /\ pc'[d] = pc[d]
      /\ pc' \in [Savers -> {"idle", "loaded", "valid", "stored", "undo", "after", "aborted"}]
      /\ old' \in [Savers -> SUBSET (0..saves)]
  BY <1>1, <1>2 DEF FileTyped
<1>5. FileTyped'
  BY <1>1, <1>3, <1>4 DEF FileTyped
<1>6. CallerInv'
  BY <1>1, <1>3, <1>4 DEF CallerInv
<1>7. FreshInv'
  <2>1. \A d \in Savers : Known(d)' \subseteq InUse /\ new'[d] \subseteq new[d]
    BY <1>1, <1>2, <1>3, <1>4, UseOf DEF Known
  <2>2. row' \subseteq InUse /\ txRow' \subseteq InUse
    BY <1>1 DEF InUse
  <2>3. QED
    BY <2>1, <2>2, FreshKept
<1>8. SeenInv'
  <2>1. \A d \in Savers : Files!Seen(d)' = Files!Seen(d)
    BY <1>1 DEF Files!Seen
  <2>2. \A d \in Savers \ {c} : Going(d)' <=> Going(d)
    BY <1>1, <1>4 DEF Going
  <2>3. Going(c)' => Going(c) /\ old'[c] = Files!Seen(c)
    BY <1>1, <1>4 DEF Going, Files!Latest
  <2>4. QED
    BY <1>1, <1>4, <2>1, <2>2, <2>3 DEF SeenInv
<1>9. KeptInv'
  <2>1. /\ met \subseteq met' /\ stored \subseteq stored'
        /\ pc'[c] = "stored" => new[c] \subseteq stored'
    BY <1>1, <1>4
  <2>2. \A d \in Savers : marked'[d] \subseteq marked[d]
    BY <1>3
  <2>3. QED
    BY <1>1, <1>4, <2>1, <2>2 DEF KeptInv
<1>10. CleanInv'
  <2>1. \A d \in Savers : Due(d) \subseteq Due(d)'
    BY <1>1, <1>3, <1>4 DEF Due
  <2>2. \A d \in Savers : d = writer => marked[d] \subseteq marked'[d]
    BY <1>3, PartsAssumption DEF CallerInv
  <2>3. \A x \in stored' : x \in stored \/ x \in Due(c)'
    BY <1>1, <1>4 DEF Due
  <2>4. met \subseteq met'
    BY <1>1
  <2>5. QED
    BY <1>1, <2>1, <2>2, <2>3, <2>4, CleanKept
<1>11. QED
  BY <1>5, <1>6, <1>7, <1>8, <1>9, <1>10

LEMMA FailFile ==
  ASSUME FileInv, NEW c \in Savers, Files!WriteFails(c) PROVE FileInv'
<1> USE DEF FileInv
<1>1. /\ pc[c] = "stored" /\ pc' = [pc EXCEPT ![c] = "undo"]
      /\ met \subseteq met'
      /\ UNCHANGED <<alive, row, stored, writer, txRow, tx, snap, passed, raced, names, new, base,
                     old, marked, uploaded, saves, remover>>
  BY DEF Files!WriteFails, Files!Fails, Files!rowVars, Files!txVars, Files!objVars
<1>2. /\ pc'[c] = "undo" /\ \A d \in Savers \ {c} : pc'[d] = pc[d]
      /\ pc' \in [Savers -> {"idle", "loaded", "valid", "stored", "undo", "after", "aborted"}]
  BY <1>1 DEF FileTyped
<1>3. FileTyped'
  BY <1>1, <1>2 DEF FileTyped
<1>4. CallerInv'
  BY <1>1, <1>2 DEF CallerInv
<1>5. FreshInv'
  <2>1. InUse' = InUse
    BY <1>1 DEF InUse, Known
  <2>2. QED
    BY <1>1, <2>1 DEF FreshInv
<1>6. SeenInv'
  <2>1. \A d \in Savers : Files!Seen(d)' = Files!Seen(d)
    BY <1>1 DEF Files!Seen
  <2>2. \A d \in Savers : Going(d)' => Going(d) /\ d # c
    BY <1>1, <1>2 DEF Going
  <2>3. QED
    BY <1>1, <1>2, <2>1, <2>2 DEF SeenInv
<1>7. KeptInv'
  BY <1>1, <1>2 DEF KeptInv
<1>8. CleanInv'
  <2>1. \A d \in Savers : Due(d) \subseteq Due(d)'
    BY <1>1, <1>2 DEF Due
  <2>2. QED
    BY <1>1, <2>1, CleanKept
<1>9. QED
  BY <1>3, <1>4, <1>5, <1>6, <1>7, <1>8

\* deleteFilesByNamesList.
LEMMA DeletedFiles ==
  ASSUME NEW files, NEW left \in SUBSET files, Files!Deletes(files, left)
  PROVE  /\ stored' \subseteq stored /\ stored \ files \subseteq stored' /\ met \subseteq met'
         /\ met' \subseteq {"write"} => stored' = stored \ files
<1>1. CASE left = {} /\ UNCHANGED met
  BY <1>1 DEF Files!Deletes
<1>2. CASE "storage" \in met' /\ met \subseteq met'
  BY <1>2 DEF Files!Deletes
<1>3. QED
  BY <1>1, <1>2 DEF Files!Deletes, Files!Fails

LEMMA UndoFile ==
  ASSUME FileInv, NEW c \in Savers, Files!Undo(c) PROVE FileInv'
<1> USE DEF FileInv
<1>1. /\ pc[c] = "undo" /\ pc' = [pc EXCEPT ![c] = "loaded"]
      /\ marked' = IF c \in tx THEN marked ELSE [marked EXCEPT ![c] = {}]
      /\ UNCHANGED <<alive, row, writer, txRow, tx, snap, passed, raced, names, new, base, old,
                     uploaded, saves, remover>>
  BY DEF Files!Undo, Files!txVars
<1>2. /\ stored' \subseteq stored /\ stored \ new[c] \subseteq stored' /\ met \subseteq met'
      /\ met' \subseteq {"write"} => stored' = stored \ new[c]
  BY DeletedFiles DEF Files!Undo, Files!Undone
<1>3. /\ \A d \in Savers : marked'[d] = marked[d] \/ (d = c /\ c \notin tx /\ marked'[d] = {})
      /\ marked' \in [Savers -> SUBSET (0..saves)]
  BY <1>1 DEF FileTyped
<1>4. /\ pc'[c] = "loaded" /\ \A d \in Savers \ {c} : pc'[d] = pc[d]
      /\ pc' \in [Savers -> {"idle", "loaded", "valid", "stored", "undo", "after", "aborted"}]
  BY <1>1 DEF FileTyped
<1>5. FileTyped'
  BY <1>1, <1>3, <1>4 DEF FileTyped
<1>6. CallerInv'
  BY <1>1, <1>3, <1>4 DEF CallerInv
<1>7. FreshInv'
  <2>1. \A d \in Savers : Known(d)' \subseteq InUse /\ new'[d] \subseteq new[d]
    BY <1>1, <1>3, UseOf DEF Known
  <2>2. row' \subseteq InUse /\ txRow' \subseteq InUse
    BY <1>1 DEF InUse
  <2>3. QED
    BY <2>1, <2>2, FreshKept
<1>8. SeenInv'
  <2>1. \A d \in Savers : Files!Seen(d)' = Files!Seen(d)
    BY <1>1 DEF Files!Seen
  <2>2. \A d \in Savers : Going(d)' => Going(d) /\ d # c
    BY <1>1, <1>4 DEF Going
  <2>3. QED
    BY <1>1, <1>4, <2>1, <2>2 DEF SeenInv
<1>9. new[c] \cap row = {} /\ new[c] \cap txRow = {}
      /\ \A d \in Savers : d # c => new[d] \cap new[c] = {}
  BY UseOf DEF FreshInv
<1>10. KeptInv'
  <2>1. \A d \in Savers : marked'[d] \subseteq marked[d]
    BY <1>3
  <2>2. \A d \in Savers : pc'[d] = "stored" => pc[d] = "stored" /\ new[d] \cap new[c] = {}
    BY <1>4, <1>9
  <2>3. QED
    BY <1>1, <1>2, <1>4, <1>9, <2>1, <2>2 DEF KeptInv
<1>11. CleanInv'
  <2>1. \A d \in Savers : Due(d) \ new[c] \subseteq Due(d)'
    BY <1>1, <1>3, <1>4 DEF Due
  <2>2. \A d \in Savers : d = writer => marked[d] \subseteq marked'[d]
    BY <1>3, PartsAssumption DEF CallerInv
  <2>3. QED
    BY <1>1, <1>2, <2>1, <2>2, CleanKept
<1>12. QED
  BY <1>5, <1>6, <1>7, <1>8, <1>10, <1>11

LEMMA AfterFile ==
  ASSUME FileInv, NEW c \in Savers, Files!After(c) PROVE FileInv'
<1> USE DEF FileInv
<1>1. PICK left \in SUBSET (marked[c] \ names[c]) :
        /\ Files!Deletes(marked[c] \ names[c], left)
        /\ pc[c] = "after" /\ pc' = [pc EXCEPT ![c] = "loaded"]
        /\ uploaded' = [uploaded EXCEPT ![c] = {}] /\ marked' = [marked EXCEPT ![c] = left]
        /\ UNCHANGED <<alive, row, writer, txRow, tx, snap, passed, raced, names, new, base, old,
                       saves, remover>>
  BY DEF Files!After, Files!txVars
<1>2. marked[c] \ names[c] = marked[c] /\ left \subseteq marked[c]
  BY DEF CallerInv
<1>3. /\ stored' \subseteq stored /\ stored \ marked[c] \subseteq stored' /\ met \subseteq met'
      /\ met' \subseteq {"write"} => stored' = stored \ marked[c]
  BY <1>1, <1>2, DeletedFiles
<1>4. /\ pc'[c] = "loaded" /\ marked'[c] = left /\ uploaded'[c] = {}
      /\ \A d \in Savers \ {c} :
           pc'[d] = pc[d] /\ marked'[d] = marked[d] /\ uploaded'[d] = uploaded[d]
      /\ pc' \in [Savers -> {"idle", "loaded", "valid", "stored", "undo", "after", "aborted"}]
      /\ marked' \in [Savers -> SUBSET (0..saves)] /\ uploaded' \in [Savers -> SUBSET (0..saves)]
  BY <1>1, <1>2 DEF FileTyped
<1>5. FileTyped'
  BY <1>1, <1>4 DEF FileTyped
<1>6. CallerInv'
  BY <1>1, <1>2, <1>4 DEF CallerInv
<1>7. FreshInv'
  <2>1. \A d \in Savers : Known(d)' \subseteq Known(d)
    BY <1>1, <1>2, <1>4 DEF Known
  <2>2. \A d \in Savers : Known(d)' \subseteq InUse /\ new'[d] \subseteq new[d]
    BY <1>1, <2>1, UseOf
  <2>3. row' \subseteq InUse /\ txRow' \subseteq InUse
    BY <1>1 DEF InUse
  <2>4. QED
    BY <2>2, <2>3, FreshKept
<1>8. SeenInv'
  <2>1. \A d \in Savers : Files!Seen(d)' = Files!Seen(d)
    BY <1>1 DEF Files!Seen
  <2>2. \A d \in Savers : Going(d)' => Going(d) /\ d # c
    BY <1>1, <1>4 DEF Going
  <2>3. QED
    BY <1>1, <1>4, <2>1, <2>2 DEF SeenInv
<1>9. c \notin tx /\ c # writer
  BY <1>1, PartsAssumption DEF CallerInv
<1>10. \A d \in Savers : new[d] \cap marked[c] = {}
  BY UseOf DEF FreshInv
<1>11. KeptInv'
  <2>1. SUFFICES ASSUME met' \cap {"overlap", "hook", "unchanged"} = {} PROVE KeptInv'
    BY DEF KeptInv
  <2>2. met \cap {"overlap", "hook", "unchanged"} = {}
    BY <1>3, <2>1
  <2>3. marked[c] \cap (row \cup txRow) = {}
    BY <1>1, <1>9, <2>2 DEF KeptInv
  <2>4. row' \subseteq stored' /\ txRow' \subseteq stored'
    BY <1>1, <1>3, <2>2, <2>3 DEF KeptInv
  <2>5. \A d \in Savers : pc'[d] = "stored" /\ alive' => new'[d] \subseteq stored'
    BY <1>1, <1>3, <1>4, <1>10, <2>2 DEF KeptInv
  <2>6. QED
    BY <1>1, <1>2, <1>4, <1>9, <2>2, <2>4, <2>5 DEF KeptInv
<1>12. CleanInv'
  <2>1. \A d \in Savers : Due(d) \ marked[c] \subseteq Due(d)'
    BY <1>1, <1>4, <1>9 DEF Due
  <2>2. QED
    BY <1>1, <1>3, <1>4, <1>9, <2>1, CleanKept
<1>13. QED
  BY <1>5, <1>6, <1>7, <1>8, <1>11, <1>12

LEMMA AbortFile ==
  ASSUME FileInv, NEW c \in Savers, Files!Aborted(c) PROVE FileInv'
<1> USE DEF FileInv
<1>1. PICK left \in SUBSET uploaded[c] :
        /\ Files!Deletes(uploaded[c], left)
        /\ uploaded' = [uploaded EXCEPT ![c] = IF left = {} THEN {} ELSE @]
        /\ pc[c] = "aborted" /\ pc' = [pc EXCEPT ![c] = "loaded"]
        /\ marked' = [marked EXCEPT ![c] = {}]
        /\ UNCHANGED <<alive, row, writer, txRow, tx, snap, passed, raced, names, new, base, old,
                       saves, remover>>
  BY DEF Files!Aborted, Files!txVars
<1>2. /\ stored' \subseteq stored /\ stored \ uploaded[c] \subseteq stored' /\ met \subseteq met'
      /\ met' \subseteq {"write"} => stored' = stored \ uploaded[c]
  BY <1>1, DeletedFiles
<1>3. /\ pc'[c] = "loaded" /\ marked'[c] = {} /\ uploaded'[c] \subseteq uploaded[c]
      /\ \A d \in Savers \ {c} :
           pc'[d] = pc[d] /\ marked'[d] = marked[d] /\ uploaded'[d] = uploaded[d]
      /\ pc' \in [Savers -> {"idle", "loaded", "valid", "stored", "undo", "after", "aborted"}]
      /\ marked' \in [Savers -> SUBSET (0..saves)] /\ uploaded' \in [Savers -> SUBSET (0..saves)]
  BY <1>1 DEF FileTyped
<1>4. FileTyped'
  BY <1>1, <1>3 DEF FileTyped
<1>5. c \notin tx /\ c # writer
  BY <1>1, PartsAssumption DEF CallerInv
<1>6. CallerInv'
  BY <1>1, <1>3, <1>5 DEF CallerInv
<1>7. FreshInv'
  <2>1. \A d \in Savers : Known(d)' \subseteq Known(d)
    BY <1>1, <1>3 DEF Known
  <2>2. \A d \in Savers : Known(d)' \subseteq InUse /\ new'[d] \subseteq new[d]
    BY <1>1, <2>1, UseOf
  <2>3. row' \subseteq InUse /\ txRow' \subseteq InUse
    BY <1>1 DEF InUse
  <2>4. QED
    BY <2>2, <2>3, FreshKept
<1>8. SeenInv'
  <2>1. \A d \in Savers : Files!Seen(d)' = Files!Seen(d)
    BY <1>1 DEF Files!Seen
  <2>2. \A d \in Savers : Going(d)' => Going(d) /\ d # c
    BY <1>1, <1>3 DEF Going
  <2>3. QED
    BY <1>1, <1>3, <2>1, <2>2 DEF SeenInv
<1>9. \A d \in Savers : new[d] \cap uploaded[c] = {}
  BY UseOf DEF FreshInv
<1>10. KeptInv'
  <2>1. SUFFICES ASSUME met' \cap {"overlap", "hook", "unchanged"} = {} PROVE KeptInv'
    BY DEF KeptInv
  <2>2. met \cap {"overlap", "hook", "unchanged"} = {}
    BY <1>2, <2>1
  <2>3. uploaded[c] \cap (row \cup txRow) = {}
    BY <1>1, <1>5, <2>2 DEF KeptInv
  <2>4. row' \subseteq stored' /\ txRow' \subseteq stored'
    BY <1>1, <1>2, <2>2, <2>3 DEF KeptInv
  <2>5. \A d \in Savers : pc'[d] = "stored" /\ alive' => new'[d] \subseteq stored'
    BY <1>1, <1>2, <1>3, <1>9, <2>2 DEF KeptInv
  <2>6. QED
    BY <1>1, <1>3, <1>5, <2>2, <2>4, <2>5 DEF KeptInv
<1>11. CleanInv'
  <2>1. \A d \in Savers : Due(d) \ uploaded[c] \subseteq Due(d)'
    BY <1>1, <1>3, <1>5 DEF Due
  <2>2. QED
    BY <1>1, <1>2, <1>3, <1>5, <2>1, CleanKept
<1>12. QED
  BY <1>4, <1>6, <1>7, <1>8, <1>10, <1>11

LEMMA RemoveRecord ==
  ASSUME FileInv, Files!Remove PROVE FileInv'
<1> USE DEF FileInv
<1>1. /\ remover = "idle" /\ writer = Nobody /\ remover' = "after" /\ alive' = FALSE /\ row' = {}
      /\ passed' = (passed \cup tx) \ {Nobody}
      /\ raced' = raced \cup {d \in Savers \ {Nobody} : pc[d] \in {"valid", "stored"}}
      /\ UNCHANGED <<stored, writer, txRow, tx, snap, pc, names, new, base, old, marked, uploaded,
                     saves, met>>
  BY DEF Files!Remove, Files!Passes, Files!objVars
<1>2. FileTyped'
  BY <1>1 DEF FileTyped
<1>3. tx \subseteq passed'
  BY <1>1, PartsAssumption DEF CallerInv
<1>4. CallerInv'
  BY <1>1, <1>3 DEF CallerInv
<1>5. FreshInv'
  <2>1. \A d \in Savers : Known(d)' \subseteq InUse /\ new'[d] \subseteq new[d]
    BY <1>1, UseOf DEF Known
  <2>2. row' \subseteq InUse /\ txRow' \subseteq InUse
    BY <1>1 DEF InUse
  <2>3. QED
    BY <2>1, <2>2, FreshKept
<1>6. SeenInv'
  <2>1. \A d \in Savers : ~Going(d)'
    BY <1>1, PartsAssumption DEF Going
  <2>2. QED
    BY <1>1, <1>3, <2>1 DEF SeenInv
<1>7. KeptInv'
  BY <1>1 DEF KeptInv
<1>8. CleanInv'
  BY <1>1, PartsAssumption DEF CleanInv
<1>9. QED
  BY <1>2, <1>4, <1>5, <1>6, <1>7, <1>8

LEMMA RemoveStored ==
  ASSUME FileInv, Files!RemoveFiles PROVE FileInv'
<1> USE DEF FileInv
<1>1. /\ remover = "after" /\ remover' = "done"
      /\ UNCHANGED <<alive, row, writer, txRow, tx, snap, passed, raced, pc, names, new, base, old,
                     marked, uploaded, saves>>
      /\ met \subseteq met'
      /\ met' \subseteq {"write"} => stored' = {}
  BY DeletedFiles DEF Files!RemoveFiles, Files!txVars, Files!objVars
<1>2. ~alive /\ row = {} /\ txRow = {} /\ writer = Nobody
  BY <1>1 DEF CallerInv
<1>3. FileTyped'
  BY <1>1 DEF FileTyped
<1>4. CallerInv'
  BY <1>1, <1>2 DEF CallerInv
<1>5. FreshInv'
  <2>1. InUse' = InUse
    BY <1>1 DEF InUse, Known
  <2>2. QED
    BY <1>1, <2>1 DEF FreshInv
<1>6. SeenInv'
  <2>1. \A d \in Savers : Files!Seen(d)' = Files!Seen(d) /\ Going(d)' = Going(d)
    BY <1>1 DEF Files!Seen, Going
  <2>2. QED
    BY <1>1, <2>1 DEF SeenInv
<1>7. KeptInv'
  BY <1>1, <1>2 DEF KeptInv
<1>8. CleanInv'
  BY <1>1, <1>2, PartsAssumption DEF CleanInv
<1>9. QED
  BY <1>3, <1>4, <1>5, <1>6, <1>7, <1>8

\* What persistRecord and rememberFilesToDelete change, whether a hook fails the
\* save afterwards or not.
LEMMA WriteFile ==
  ASSUME FileInv, NEW c \in Savers, pc[c] = "stored", Files!MayWrite(c), Files!SetRow(c),
         Files!Remember(c), NEW end \in {"after", "aborted"},
         pc' = [pc EXCEPT ![c] = IF c \in tx THEN "loaded" ELSE end],
         UNCHANGED <<alive, stored, tx, snap, saves, remover>>
  PROVE  /\ FileTyped' /\ CallerInv' /\ FreshInv' /\ SeenInv'
         /\ writer \in {Nobody, c} /\ c \notin passed
         /\ marked'[c] = marked[c] \cup (old[c] \ names[c])
         /\ uploaded'[c] = uploaded[c] \cup new[c] /\ new'[c] = {}
         /\ pc'[c] = IF c \in tx THEN "loaded" ELSE end
         /\ \A d \in Savers \ {c} : pc'[d] = pc[d] /\ marked'[d] = marked[d]
                                    /\ uploaded'[d] = uploaded[d] /\ new'[d] = new[d]
         /\ c \in tx => writer' = c /\ alive
         /\ c \notin tx => writer' = Nobody /\ txRow' = {} /\ txRow = {}
<1> USE DEF FileInv
<1>1. writer \in {Nobody, c} /\ c \notin passed
  BY DEF Files!MayWrite
<1>2. /\ marked' = [marked EXCEPT ![c] = marked[c] \cup (old[c] \ names[c])]
      /\ uploaded' = [uploaded EXCEPT ![c] = uploaded[c] \cup new[c]]
      /\ names' = [names EXCEPT ![c] = names[c] \cup new[c]] /\ new' = [new EXCEPT ![c] = {}]
      /\ base' = [base EXCEPT ![c] = names[c] \cup new[c]] /\ old' = [old EXCEPT ![c] = {}]
  BY DEF Files!Remember, Files!Marked, FileTyped
<1>3. /\ marked'[c] = marked[c] \cup (old[c] \ names[c]) /\ uploaded'[c] = uploaded[c] \cup new[c]
      /\ names'[c] = names[c] \cup new[c] /\ new'[c] = {} /\ base'[c] = names[c] \cup new[c]
      /\ old'[c] = {} /\ pc'[c] = IF c \in tx THEN "loaded" ELSE end
  BY <1>2 DEF FileTyped
<1>4. \A d \in Savers \ {c} :
        /\ marked'[d] = marked[d] /\ uploaded'[d] = uploaded[d] /\ names'[d] = names[d]
        /\ new'[d] = new[d] /\ base'[d] = base[d] /\ old'[d] = old[d] /\ pc'[d] = pc[d]
  BY <1>2 DEF FileTyped
<1>5. /\ c \in tx => writer' = c /\ alive /\ UNCHANGED <<row, passed, raced>>
      /\ c \notin tx =>
           /\ writer' = Nobody /\ writer = Nobody /\ txRow' = {} /\ txRow = {}
           /\ passed' = (passed \cup tx) \ {c}
           /\ raced' = raced \cup {d \in Savers \ {c} : pc[d] \in {"valid", "stored"}}
           /\ ~alive => row' = row
  BY <1>1, PartsAssumption DEF CallerInv, Files!SetRow, Files!Passes
<1>6. /\ txRow' \subseteq row \cup txRow \cup names[c] \cup new[c] \cup snap[c]
      /\ row' \subseteq row \cup names[c] \cup new[c]
  BY DEF Files!SetRow, Files!Seen
<1>7. FileTyped'
  <2>1. row' \subseteq 0..saves /\ txRow' \subseteq 0..saves
    BY <1>6 DEF FileTyped
  <2>2. /\ marked' \in [Savers -> SUBSET (0..saves)] /\ uploaded' \in [Savers -> SUBSET (0..saves)]
        /\ names' \in [Savers -> SUBSET (0..saves)] /\ new' \in [Savers -> SUBSET (0..saves)]
        /\ base' \in [Savers -> SUBSET (0..saves)] /\ old' \in [Savers -> SUBSET (0..saves)]
    BY <1>2 DEF FileTyped
  <2>3. pc' \in [Savers -> {"idle", "loaded", "valid", "stored", "undo", "after", "aborted"}]
    BY DEF FileTyped
  <2>4. QED
    BY <2>1, <2>2, <2>3 DEF FileTyped
<1>8. /\ new[c] \cap InUse = {}
      /\ \A d \in Savers : d # c => new[c] \cap new[d] = {}
  BY DEF FreshInv
<1>9. new[c] \cap marked[c] = {} /\ new[c] \cap old[c] = {}
  BY <1>8, UseOf
<1>10. CallerInv'
  <2>1. marked'[c] \cap names'[c] = {}
    BY <1>3, <1>9 DEF CallerInv
  <2>2. \A d \in Savers : marked'[d] \cap names'[d] = {}
    BY <1>4, <2>1 DEF CallerInv
  <2>3. \A d \in tx' : pc'[d] \in {"loaded", "valid", "stored", "undo"}
    BY <1>3, <1>4 DEF CallerInv
  <2>4. \A d \in Savers : pc'[d] = "idle" => marked'[d] = {} /\ uploaded'[d] = {}
    BY <1>3, <1>4 DEF CallerInv
  <2>5. \A d \in tx' : d # writer' => uploaded'[d] = {}
    BY <1>1, <1>4, <1>5, PartsAssumption DEF CallerInv
  <2>6. ~alive' => row' = {} /\ writer' = Nobody /\ tx' \subseteq passed'
    BY <1>5 DEF CallerInv
  <2>7. writer' \in tx' \cup {Nobody} /\ (writer' = Nobody => txRow' = {})
    BY <1>5, PartsAssumption
  <2>8. QED
    BY <2>2, <2>3, <2>4, <2>5, <2>6, <2>7 DEF CallerInv
<1>11. FreshInv'
  <2>1. row' \subseteq InUse \cup new[c] /\ txRow' \subseteq InUse \cup new[c]
    BY <1>6, UseOf
  <2>2. \A d \in Savers : Known(d)' \subseteq InUse \cup new[c]
    BY <1>3, <1>4, UseOf DEF Known
  <2>3. InUse' \subseteq InUse \cup new[c]
    BY <2>1, <2>2 DEF InUse
  <2>4. \A d \in Savers : new'[d] \cap InUse' = {}
    BY <1>3, <1>4, <1>8, <2>3 DEF FreshInv
  <2>5. \A d, e \in Savers : e # d => new'[d] \cap new'[e] = {}
    BY <1>3, <1>4 DEF FreshInv
  <2>6. QED
    BY <2>4, <2>5 DEF FreshInv
<1>12. SeenInv'
  <2>1. CASE c \in tx
    <3>1. \A d \in Savers : Going(d)' => Going(d) /\ d # c
      BY <1>3, <1>4, <1>5, <2>1 DEF Going
    <3>2. \A d \in Savers \ {c} : Files!Seen(d)' = Files!Seen(d)
      BY <1>1, <1>5, <2>1, PartsAssumption DEF Files!Seen
    <3>3. QED
      BY <1>4, <1>5, <2>1, <3>1, <3>2 DEF SeenInv
  <2>2. CASE c \notin tx
    <3>1. \A d \in Savers : ~Going(d)'
      BY <1>3, <1>4, <1>5, <2>2 DEF Going
    <3>2. tx' \subseteq passed'
      BY <1>5, <2>2
    <3>3. QED
      BY <3>1, <3>2 DEF SeenInv
  <2>3. QED
    BY <2>1, <2>2
<1>13. QED
  BY <1>1, <1>3, <1>4, <1>5, <1>7, <1>10, <1>11, <1>12

LEMMA HookFile ==
  ASSUME FileInv, NEW c \in Savers, Files!HookFails(c) PROVE FileInv'
<1>1. /\ pc[c] = "stored" /\ Files!MayWrite(c) /\ Files!SetRow(c) /\ Files!Remember(c)
      /\ pc' = [pc EXCEPT ![c] = IF c \in tx THEN "loaded" ELSE "aborted"]
      /\ UNCHANGED <<alive, stored, tx, snap, saves, remover>>
      /\ "hook" \in met'
  BY DEF Files!HookFails, Files!Fails
<1>2. FileTyped' /\ CallerInv' /\ FreshInv' /\ SeenInv'
  BY <1>1, WriteFile
<1>3. KeptInv' /\ CleanInv'
  BY <1>1 DEF KeptInv, CleanInv
<1>4. QED
  BY <1>2, <1>3 DEF FileInv

LEMMA StoreRow ==
  ASSUME FileInv, NEW c \in Savers, Files!Write(c) PROVE FileInv'
<1> USE DEF FileInv
<1>1. /\ pc[c] = "stored" /\ Files!MayWrite(c) /\ Files!SetRow(c) /\ Files!Remember(c)
      /\ pc' = [pc EXCEPT ![c] = IF c \in tx THEN "loaded" ELSE "after"]
      /\ UNCHANGED <<alive, stored, tx, snap, saves, remover>>
      /\ met' = met \cup Files!Met(c)
  BY DEF Files!Write
<1>2. /\ FileTyped' /\ CallerInv' /\ FreshInv' /\ SeenInv'
      /\ writer \in {Nobody, c} /\ c \notin passed
      /\ marked'[c] = marked[c] \cup (old[c] \ names[c])
      /\ uploaded'[c] = uploaded[c] \cup new[c] /\ new'[c] = {}
      /\ pc'[c] = IF c \in tx THEN "loaded" ELSE "after"
      /\ \A d \in Savers \ {c} : pc'[d] = pc[d] /\ marked'[d] = marked[d]
                                 /\ uploaded'[d] = uploaded[d] /\ new'[d] = new[d]
      /\ c \in tx => writer' = c /\ alive
      /\ c \notin tx => writer' = Nobody /\ txRow' = {} /\ txRow = {}
  BY <1>1, WriteFile
<1>3. PICK whole : whole = names[c] \cup new[c]
  OBVIOUS
<1>4. met \subseteq met' /\ (~alive => "deleted" \in met')
  BY <1>1 DEF Files!Met
<1>5. ASSUME met' \cap {"overlap", "hook", "unchanged"} = {}, alive
      PROVE  /\ names[c] \subseteq Files!Seen(c) /\ old[c] = Files!Seen(c)
             /\ c \in tx => txRow' = whole /\ row' = row
             /\ c \notin tx => row' = whole
  <2>1. c \notin raced /\ (Files!Omitted(c) => old[c] = names[c] /\ new[c] = {})
    BY <1>1, <1>5 DEF Files!Met, Files!Omitted
  <2>2. Going(c)
    BY <1>1, <1>5, <2>1 DEF Going
  <2>3. names[c] \subseteq Files!Seen(c) /\ old[c] = Files!Seen(c)
    BY <1>1, <2>2 DEF SeenInv
  <2>4. CASE c \in tx
    <3>1. row' = row /\ txRow' = IF Files!Omitted(c) THEN Files!Seen(c) ELSE whole
      BY <1>1, <1>3, <2>4 DEF Files!SetRow
    <3>2. QED
      BY <1>3, <2>1, <2>3, <2>4, <3>1
  <2>5. CASE c \notin tx
    <3>1. row' = IF Files!Omitted(c) THEN row ELSE whole
      BY <1>1, <1>3, <1>5, <2>5 DEF Files!SetRow
    <3>2. Files!Seen(c) = row
      BY <2>5 DEF Files!Seen
    <3>3. QED
      BY <1>3, <2>1, <2>3, <2>5, <3>1, <3>2
  <2>6. QED
    BY <2>3, <2>4, <2>5
<1>6. Files!Seen(c) \subseteq row \cup txRow
  BY <1>2 DEF Files!Seen, SeenInv
<1>7. /\ new[c] \cap row = {} /\ new[c] \cap txRow = {}
      /\ \A d \in Savers : new[c] \cap marked[d] = {} /\ new[c] \cap uploaded[d] = {}
                           /\ new[c] \cap old[d] = {}
  BY UseOf DEF FreshInv
<1>8. /\ marked'[c] \cap whole = {}
      /\ \A d \in Savers \ {c} : d # writer
  BY <1>2, <1>3, <1>7, PartsAssumption DEF CallerInv
<1>9. KeptInv'
  <2>1. SUFFICES ASSUME met' \cap {"overlap", "hook", "unchanged"} = {} PROVE KeptInv'
    BY DEF KeptInv
  <2>2. /\ row \subseteq stored /\ txRow \subseteq stored
        /\ \A d \in Savers : pc[d] = "stored" /\ alive => new[d] \subseteq stored
        /\ \A d \in Savers : d \notin tx /\ pc[d] # "aborted" => marked[d] \cap (row \cup txRow) = {}
        /\ \A d \in Savers : d \in tx \/ pc[d] = "aborted" =>
             uploaded[d] \cap row = {} /\ (d # writer => uploaded[d] \cap txRow = {})
    BY <1>4, <2>1 DEF KeptInv
  <2>3. CASE ~alive
    <3>1. c \notin tx /\ row = {} /\ row' = {} /\ txRow' = {}
      BY <1>1, <1>2, <2>3 DEF CallerInv, Files!SetRow
    <3>2. QED
      BY <1>1, <1>2, <2>3, <3>1, PartsAssumption DEF KeptInv
  <2>4. CASE alive
    <3>1. whole \subseteq row \cup txRow \cup new[c] /\ new[c] \subseteq stored
      BY <1>1, <1>3, <1>5, <1>6, <2>1, <2>2, <2>4
    <3>2. row' \subseteq row \cup whole /\ txRow' \subseteq whole
          /\ (c \notin tx => row' = whole /\ txRow' = {}) /\ (c \in tx => row' = row /\ txRow' = whole)
      BY <1>2, <1>5, <2>1, <2>4
    <3>3. row' \subseteq stored' /\ txRow' \subseteq stored'
      BY <1>1, <2>2, <3>1, <3>2
    <3>4. \A d \in Savers : pc'[d] = "stored" /\ alive' => new'[d] \subseteq stored'
      BY <1>1, <1>2, <2>2
    <3>5. \A d \in Savers : d \notin tx' /\ pc'[d] # "aborted" =>
            marked'[d] \cap (row' \cup txRow') = {}
      <4>1. c \notin tx => marked'[c] \cap (row' \cup txRow') = {}
        BY <1>8, <3>2
      <4>2. ASSUME NEW d \in Savers \ {c}, d \notin tx, pc[d] # "aborted"
            PROVE  marked[d] \cap (row' \cup txRow') = {}
        BY <1>7, <2>2, <3>1, <3>2, <4>2
      <4>3. QED
        BY <1>1, <1>2, <4>1, <4>2
    <3>6. \A d \in Savers : d = writer' => marked'[d] \cap txRow' = {}
      BY <1>2, <1>8, <3>2, PartsAssumption
    <3>7. \A d \in Savers : d \in tx' \/ pc'[d] = "aborted" =>
            uploaded'[d] \cap row' = {} /\ (d # writer' => uploaded'[d] \cap txRow' = {})
      <4>1. c \in tx => uploaded'[c] \cap row' = {}
        BY <1>2, <1>7, <2>2, <3>2
      <4>2. ASSUME NEW d \in Savers \ {c}, d \in tx \/ pc[d] = "aborted"
            PROVE  uploaded[d] \cap row' = {} /\ uploaded[d] \cap txRow' = {}
        BY <1>7, <1>8, <2>2, <3>1, <3>2, <4>2
      <4>3. QED
        BY <1>1, <1>2, <4>1, <4>2
    <3>8. QED
      BY <3>3, <3>4, <3>5, <3>6, <3>7 DEF KeptInv
  <2>5. QED
    BY <2>3, <2>4
<1>10. CleanInv'
  <2>1. SUFFICES ASSUME met' \subseteq {"write"} PROVE CleanInv'
    BY DEF CleanInv
  <2>2. alive /\ met \subseteq {"write"} /\ met' \cap {"overlap", "hook", "unchanged"} = {}
    BY <1>4, <2>1
  <2>3. /\ names[c] \subseteq Files!Seen(c) /\ old[c] = Files!Seen(c)
        /\ c \in tx => txRow' = whole /\ row' = row
        /\ c \notin tx => row' = whole
    BY <1>5, <2>2
  <2>4. /\ remover # "after"
        /\ \A x \in stored : x \in row \/ \E d \in Savers : x \in Due(d)
        /\ \A d \in Savers : d = writer =>
             row \subseteq txRow \cup marked[d] /\ uploaded[d] \subseteq txRow \cup marked[d]
    BY <2>2 DEF CleanInv, CallerInv
  <2>5. ASSUME NEW x \in stored PROVE x \in row' \/ \E d \in Savers : x \in Due(d)'
    <3>1. CASE x \in row
      <4>1. c \notin tx => row = old[c]
        BY <2>3 DEF Files!Seen
      <4>2. c \notin tx => x \in row' \/ x \in marked'[c]
        BY <1>2, <1>3, <2>3, <3>1, <4>1
      <4>3. QED
        BY <1>2, <2>3, <3>1, <4>2 DEF Due
    <3>2. ASSUME NEW d \in Savers \ {c}, x \in Due(d) PROVE x \in Due(d)'
      BY <1>1, <1>2, <3>2 DEF Due
    <3>3. CASE x \in Due(c)
      <4>1. x \in new[c] \/ (c \in tx /\ x \in uploaded[c])
        BY <1>1, <3>3 DEF Due
      <4>2. CASE c \in tx
        BY <1>1, <1>2, <4>1, <4>2 DEF Due
      <4>3. CASE c \notin tx
        BY <1>3, <2>3, <4>1, <4>3
      <4>4. QED
        BY <4>2, <4>3
    <3>4. QED
      BY <2>4, <3>1, <3>2, <3>3
  <2>6. ASSUME c \in tx
        PROVE  row' \subseteq txRow' \cup marked'[c] /\ uploaded'[c] \subseteq txRow' \cup marked'[c]
    <3>1. old[c] \subseteq txRow' \cup marked'[c] /\ new[c] \subseteq txRow'
          /\ marked[c] \subseteq marked'[c]
      BY <1>2, <1>3, <2>3, <2>6
    <3>2. CASE writer = c
      <4>1. txRow = old[c]
        BY <2>3, <2>6, <3>2 DEF Files!Seen
      <4>2. QED
        BY <1>2, <2>3, <2>4, <2>6, <3>1, <3>2, <4>1
    <3>3. CASE writer # c
      <4>1. row = old[c] /\ uploaded[c] = {}
        BY <1>2, <2>3, <2>6, <3>3 DEF Files!Seen, SeenInv, CallerInv
      <4>2. QED
        BY <1>2, <2>3, <2>6, <3>1, <4>1
    <3>4. QED
      BY <3>2, <3>3
  <2>7. \A d \in Savers : d = writer' => d = c /\ c \in tx
    BY <1>2, PartsAssumption
  <2>8. QED
    BY <1>1, <2>5, <2>6, <2>7 DEF CleanInv
<1>11. QED
  BY <1>2, <1>9, <1>10

LEMMA EndFileTx ==
  ASSUME FileInv, NEW c \in Savers, Files!EndTx(c) PROVE FileInv'
<1> USE DEF FileInv
<1>1. /\ c \in tx /\ pc[c] = "loaded" /\ tx' = tx \ {c} /\ snap' = [snap EXCEPT ![c] = {}]
      /\ \/ /\ writer = c /\ row' = txRow /\ passed' = (passed \cup tx) \ {c}
            /\ raced' = raced \cup {d \in Savers \ {c} : pc[d] \in {"valid", "stored"}}
            /\ pc' = [pc EXCEPT ![c] = "after"]
         \/ /\ UNCHANGED <<row, raced>> /\ passed' = passed \ {c}
            /\ pc' = [pc EXCEPT ![c] = "aborted"]
      /\ writer' = (IF writer = c THEN Nobody ELSE writer)
      /\ txRow' = (IF writer = c THEN {} ELSE txRow)
      /\ UNCHANGED <<alive, stored, names, new, base, old, marked, uploaded, saves, remover, met>>
  BY DEF Files!EndTx, Files!Passes, Files!objVars
<1>2. /\ pc'[c] \in {"after", "aborted"} /\ snap'[c] = {}
      /\ \A d \in Savers \ {c} : pc'[d] = pc[d] /\ snap'[d] = snap[d]
      /\ pc' \in [Savers -> {"idle", "loaded", "valid", "stored", "undo", "after", "aborted"}]
      /\ snap' \in [Savers -> SUBSET (0..saves)]
  BY <1>1 DEF FileTyped
<1>3. row' \subseteq row \cup txRow /\ txRow' \subseteq txRow
  BY <1>1
<1>4. FileTyped'
  BY <1>1, <1>2, <1>3 DEF FileTyped
<1>5. CallerInv'
  BY <1>1, <1>2, PartsAssumption DEF CallerInv
<1>6. FreshInv'
  <2>1. \A d \in Savers : Known(d)' \subseteq Known(d)
    BY <1>1, <1>2 DEF Known
  <2>2. \A d \in Savers : Known(d)' \subseteq InUse /\ new'[d] \subseteq new[d]
    BY <1>1, <2>1, UseOf
  <2>3. row' \subseteq InUse /\ txRow' \subseteq InUse
    BY <1>3 DEF InUse
  <2>4. QED
    BY <2>2, <2>3, FreshKept
<1>7. CASE pc'[c] = "after"
  <2>1. /\ writer = c /\ row' = txRow /\ passed' = (passed \cup tx) \ {c}
        /\ raced' = raced \cup {d \in Savers \ {c} : pc[d] \in {"valid", "stored"}}
        /\ writer' = Nobody /\ txRow' = {}
    BY <1>1, <1>2, <1>7
  <2>2. SeenInv'
    <3>1. \A d \in Savers : ~Going(d)'
      BY <1>2, <2>1 DEF Going
    <3>2. tx' \subseteq passed'
      BY <1>1, <2>1
    <3>3. QED
      BY <3>1, <3>2 DEF SeenInv
  <2>3. KeptInv'
    BY <1>1, <1>2, <1>7, <2>1, PartsAssumption DEF KeptInv
  <2>4. CleanInv'
    <3>1. SUFFICES ASSUME met \subseteq {"write"} PROVE CleanInv'
      BY <1>1 DEF CleanInv
    <3>2. /\ remover # "after" => \A x \in stored : x \in row \/ \E d \in Savers : x \in Due(d)
          /\ row \subseteq txRow \cup marked[c] /\ uploaded[c] \subseteq txRow \cup marked[c]
      BY <2>1, <3>1 DEF CleanInv
    <3>3. \A d \in Savers \ {c} : Due(d) \subseteq Due(d)'
      BY <1>1, <1>2 DEF Due
    <3>4. Due(c) \subseteq uploaded[c] /\ marked[c] \subseteq Due(c)'
      BY <1>1, <1>7 DEF Due
    <3>5. ASSUME NEW x \in stored, remover # "after" PROVE x \in row' \/ \E d \in Savers : x \in Due(d)'
      BY <2>1, <3>2, <3>3, <3>4, <3>5
    <3>6. QED
      BY <1>1, <2>1, <3>5, PartsAssumption DEF CleanInv
  <2>5. QED
    BY <1>4, <1>5, <1>6, <2>2, <2>3, <2>4
<1>8. CASE pc'[c] = "aborted"
  <2>1. UNCHANGED <<row, raced>> /\ passed' = passed \ {c}
    BY <1>1, <1>8 DEF FileTyped
  <2>2. SeenInv'
    <3>1. \A d \in Savers : Going(d)' => Going(d) /\ d # c
      BY <1>1, <1>2, <2>1 DEF Going
    <3>2. \A d \in Savers \ {c} : Files!Seen(d)' = Files!Seen(d)
      BY <1>1, <1>2, <2>1, PartsAssumption DEF Files!Seen
    <3>3. \A d \in tx' : d \notin passed' => snap'[d] = row'
      BY <1>1, <1>2, <2>1 DEF SeenInv, CallerInv
    <3>4. \A d \in Savers : pc'[d] = "stored" => pc[d] = "stored"
      BY <1>2
    <3>5. QED
      BY <1>1, <3>1, <3>2, <3>3, <3>4 DEF SeenInv
  <2>3. KeptInv'
    BY <1>1, <1>2, <1>8, <2>1, PartsAssumption DEF KeptInv
  <2>4. CleanInv'
    <3>1. SUFFICES ASSUME met \subseteq {"write"} PROVE CleanInv'
      BY <1>1 DEF CleanInv
    <3>2. \A d \in Savers : Due(d) \subseteq Due(d)'
      BY <1>1, <1>2, <1>8 DEF Due
    <3>3. remover # "after" => \A x \in stored : x \in row \/ \E d \in Savers : x \in Due(d)
      BY <3>1 DEF CleanInv
    <3>4. remover # "after" => \A x \in stored : x \in row \/ \E d \in Savers : x \in Due(d)'
      BY <3>2, <3>3
    <3>5. \A d \in Savers : d = writer' => d = writer /\ txRow' = txRow
      BY <1>1, PartsAssumption
    <3>6. QED
      BY <1>1, <2>1, <3>1, <3>4, <3>5 DEF CleanInv
  <2>5. QED
    BY <1>4, <1>5, <1>6, <2>2, <2>3, <2>4
<1>9. QED
  BY <1>2, <1>7, <1>8

LEMMA FileStep == FileInv /\ [Files!Next]_fileVars => FileInv'
<1> SUFFICES ASSUME FileInv, [Files!Next]_fileVars PROVE FileInv'
  OBVIOUS
<1>1. CASE UNCHANGED fileVars
  <2>1. UNCHANGED <<alive, row, stored, writer, txRow, tx, snap, passed, pc, names, new, base, old,
                    marked, uploaded, saves, remover, met, raced>>
    BY <1>1 DEF fileVars
  <2>2. FileTyped' /\ CallerInv'
    BY <2>1 DEF FileInv, FileTyped, CallerInv
  <2>3. InUse' = InUse /\ \A d \in Savers : Files!Seen(d)' = Files!Seen(d) /\ Due(d)' = Due(d)
    BY <2>1 DEF InUse, Known, Files!Seen, Due
  <2>4. FreshInv' /\ KeptInv' /\ CleanInv'
    BY <2>1, <2>3 DEF FileInv, FreshInv, KeptInv, CleanInv
  <2>5. SeenInv'
    BY <2>1, <2>3 DEF FileInv, SeenInv, Going
  <2>6. QED
    BY <2>2, <2>4, <2>5 DEF FileInv
<1>2. CASE Files!Next
  BY <1>2, LoadFile, ValidateFile, UploadFile, StoreRow, FailFile, HookFile, UndoFile, AfterFile,
     AbortFile, EndFileTx, RemoveRecord, RemoveStored
    DEF Files!Next
<1>3. QED
  BY <1>1, <1>2

\* For any callers that save a record, any number of saves and failures: a file that the
\* committed row names is in the storage, and in the end the storage has no other file of
\* the record; except after what the definition of FilesMatch names (FileField in
\* field_file.ts, saveModel).
THEOREM RowHasItsFiles == PartsSpec => []FilesMatch
<1> DEFINE all == <<part, vars, deleteVars, limitVars, claimVars, fileVars, hookVars, cascadeVars,
                    updateVars, historyVars, thumbVars>>
<1>1. PartsInit => FileInv
  BY FileInit DEF PartsInit
<1>2. FileInv /\ [PartsNext]_all => FileInv'
  <2> SUFFICES ASSUME FileInv, [PartsNext]_all PROVE FileInv'
    OBVIOUS
  <2>1. [Files!Next]_fileVars
    BY DEF PartsNext
  <2>2. QED
    BY <2>1, FileStep
<1>3. FileInv => FilesMatch
  <2> SUFFICES ASSUME FileInv PROVE Files!FilesMatch
    BY DEF FilesMatch
  <2>1. met \cap {"overlap", "hook", "unchanged"} = {} => row \subseteq stored
    BY DEF FileInv, KeptInv
  <2>2. ASSUME Files!Quiet, met \subseteq {"write"} PROVE stored \subseteq row
    <3>1. \A d \in Savers : Due(d) = {}
      BY <2>2 DEF Files!Quiet, Due
    <3>2. remover # "after"
      BY <2>2 DEF Files!Quiet
    <3>3. QED
      BY <2>2, <3>1, <3>2 DEF FileInv, CleanInv
  <2>3. met \subseteq {"write"} => met \cap {"overlap", "hook", "unchanged"} = {}
    OBVIOUS
  <2>4. QED
    BY <2>1, <2>2, <2>3 DEF Files!FilesMatch
<1>4. QED
  BY <1>1, <1>2, <1>3, PTL DEF PartsSpec
-----------------------------------------------------------------------------
(***************************************************************************)
(* ClusterSupervisor, whose behaviours are those of its own specification. *)
(*                                                                         *)
(* NoOrphans is not inductive by itself: that ensureSlot never forks a     *)
(* second process for a slot follows from what the loop, the records and   *)
(* the processes of the slot are to each other (SlotInv).                  *)
(***************************************************************************)

UpIn(s) == \E w \in up : w[1] = s

SlotInv ==
  /\ up \subseteq Records
  /\ ready \subseteq up
  /\ \A s \in Slots : rec[s] = 0 \/ rec[s] = forks[s]
  /\ \A s \in Slots : ~shuttingDown /\ repl[s] = "none" /\ ~Ready(s) => ~UpIn(s)
  /\ \A s \in Slots : repl[s] = "backoff" => ~UpIn(s)

NoOrphansInv == TypeOK /\ ("slow" \notin Faults => SlotInv)

USE SupervisorAssumption

-----------------------------------------------------------------------------
LEMMA ForkTypes ==
  ASSUME TypeOK, NEW M, M \subseteq Slots, ForkFor(M)
  PROVE  /\ rec' \in [Slots -> 0..MaxForks] /\ forks' \in [Slots -> 0..MaxForks]
         /\ up' \subseteq Workers /\ stale' \subseteq Workers
         /\ repl' \in [Slots -> {"none", "wait", "reap", "backoff"}]
         /\ ready' = ready
BY DEF TypeOK, ForkFor, Workers

LEMMA EnsureTypes ==
  ASSUME TypeOK, NEW S, S \subseteq Slots, EnsureSlots(S)
  PROVE  /\ rec' \in [Slots -> 0..MaxForks] /\ forks' \in [Slots -> 0..MaxForks]
         /\ up' \subseteq Workers /\ stale' \subseteq Workers
         /\ repl' \in [Slots -> {"none", "wait", "reap", "backoff"}]
         /\ ready' = ready
BY ForkTypes DEF EnsureSlots

LEMMA TypeStep == TypeOK /\ [Next]_vars => TypeOK'
<1> SUFFICES ASSUME TypeOK, [Next]_vars PROVE TypeOK'
  OBVIOUS
<1> USE DEF stateVars, leaseVars, slotVars, workerVars, Fault, SendAway, Fail, CountCrash,
            Records, Stopped, NotStopped, Remembered, Resume, LoopEnds, Others
<1>1. CASE Boot
  BY <1>1, EnsureTypes DEF Boot, BootFollowers, BootDone, TypeOK, Slots
<1>2. ASSUME NEW w \in Workers, BecomeReady(w) PROVE TypeOK'
  <2>1. repl' \in [Slots -> {"none", "wait", "reap", "backoff"}]
    BY <1>2 DEF BecomeReady, TypeOK
  <2>2. ready' \subseteq Workers
    BY <1>2 DEF BecomeReady, TypeOK
  <2>3. booting' \subseteq Slots
    BY <1>2 DEF BecomeReady, TypeOK
  <2>4. QED
    BY <1>2, <2>1, <2>2, <2>3 DEF BecomeReady, TypeOK
<1>3. ASSUME NEW s \in Slots, ReadyTimeout(s) PROVE TypeOK'
  BY <1>3 DEF ReadyTimeout, TypeOK
<1>4. ASSUME NEW s \in Slots, Reap(s) PROVE TypeOK'
  <2>1. /\ crashes' \in [Slots -> Nat] /\ faults' \in Nat
        /\ repl' \in [Slots -> {"none", "wait", "reap", "backoff"}]
    BY <1>4 DEF Reap, TypeOK
  <2>2. /\ fatal' \in BOOLEAN /\ shuttingDown' \in BOOLEAN
        /\ intentional' \subseteq Workers /\ told' \subseteq Workers
    BY <1>4 DEF Reap, TypeOK
  <2>3. boot' \in {"leader", "followers", "done"} /\ booting' \subseteq Slots
    BY <1>4 DEF Reap, TypeOK
  <2>4. QED
    BY <1>4, <2>1, <2>2, <2>3 DEF Reap, TypeOK
<1>5. ASSUME NEW s \in Slots, Retry(s) PROVE TypeOK'
  <2>1. CASE ForkFor({s}) /\ UNCHANGED booting
    BY <1>5, <2>1, ForkTypes DEF Retry, TypeOK
  <2>2. CASE LoopEnds(s) /\ UNCHANGED <<forks, rec, up, ready, stale>>
    <3>1. repl' \in [Slots -> {"none", "wait", "reap", "backoff"}] /\ booting' \subseteq Slots
      BY <2>2 DEF TypeOK
    <3>2. QED
      BY <1>5, <2>2, <3>1 DEF Retry, TypeOK
  <2>3. QED
    BY <1>5, <2>1, <2>2 DEF Retry
<1>6. ASSUME NEW w \in Workers, Exit(w) PROVE TypeOK'
  <2>1. Gone(w) /\ faults' \in Nat
    BY <1>6 DEF Exit, ExitOwner, ExitCrashed, ExitExpected, ExitCause, TypeOK
  <2>2. /\ up' \subseteq Workers /\ ready' \subseteq Workers
        /\ rec' \in [Slots -> 0..MaxForks] /\ lease' \in Workers \cup {None}
        /\ repl' \in [Slots -> {"none", "wait", "reap", "backoff"}]
        /\ opc' \in {"idle", "hold", "quiesce", "swap", "complete", "undo", "abort",
                      "abortFatal"}
    BY <2>1 DEF Gone, TypeOK, Workers
  <2>3. /\ fatal' \in BOOLEAN /\ shuttingDown' \in BOOLEAN
        /\ intentional' \subseteq Workers /\ told' \subseteq Workers
        /\ sched' \in [Slots -> Nat] /\ crashes' \in [Slots -> Nat]
    <3>1. w[1] \in Slots
      BY DEF Workers
    <3>2. CASE ExitOwner(w)
      BY <3>2 DEF ExitOwner, TypeOK
    <3>3. CASE ExitCrashed(w)
      <4>1. crashes' \in [Slots -> Nat] /\ sched' \in [Slots -> Nat]
        BY <3>1, <3>3 DEF ExitCrashed, TypeOK
      <4>2. QED
        BY <4>1, <3>3 DEF ExitCrashed, TypeOK
    <3>4. CASE ExitExpected(w)
      BY <3>4 DEF ExitExpected, TypeOK
    <3>5. QED
      BY <1>6, <3>2, <3>3, <3>4 DEF Exit
  <2>4. QED
    BY <2>1, <2>2, <2>3 DEF Gone, TypeOK
<1>7. ASSUME NEW s \in Slots, StartReplacement(s) PROVE TypeOK'
  BY <1>7, EnsureTypes DEF StartReplacement, TypeOK
<1>8. ASSUME NEW s \in Slots, ForgetCrash(s) PROVE TypeOK'
  BY <1>8 DEF ForgetCrash, TypeOK
<1>9. ASSUME NEW w \in Workers, Restart(w) \/ Acquire(w) \/ Release(w) \/ RestoreBegin(w)
      PROVE  TypeOK'
  BY <1>9 DEF Restart, Acquire, Release, RestoreBegin, TypeOK
<1>10. CASE RecycleBegin \/ RecycleDone
  BY <1>10 DEF RecycleBegin, RecycleDone, TypeOK
<1>11. CASE RecycleStopped \/ RecycleFollowers
  BY <1>11, EnsureTypes DEF RecycleStopped, RecycleFollowers, TypeOK, Slots
<1>12. CASE RestoreStep
  <2>1. CASE Quiesced
    BY <2>1 DEF Quiesced, TypeOK
  <2>2. CASE SwapDone \/ UndoDone
    BY <2>2 DEF SwapDone, UndoDone, TypeOK
  <2>3. CASE Complete \/ Abort
    BY <2>3 DEF Complete, Abort, TypeOK
  <2>4. CASE AbortFatal \/ AbortRefused
    BY <2>4 DEF AbortFatal, AbortRefused, TypeOK
  <2>5. QED
    BY <1>12, <2>1, <2>2, <2>3, <2>4 DEF RestoreStep
<1>13. CASE Stuck \/ Signal \/ Stop
  <2>1. CASE RecycleStuck
    BY <2>1 DEF RecycleStuck, TypeOK
  <2>2. CASE QuiesceStuck \/ CompleteFails
    BY <2>2 DEF QuiesceStuck, CompleteFails, TypeOK
  <2>3. CASE Signal
    BY <2>3 DEF Signal, TypeOK
  <2>4. CASE Stop
    BY <2>4 DEF Stop, TypeOK
  <2>5. QED
    BY <1>13, <2>1, <2>2, <2>3, <2>4 DEF Stuck
<1>14. CASE UNCHANGED vars
  BY <1>14 DEF vars, TypeOK
<1>15. QED
  BY <1>1, <1>2, <1>3, <1>4, <1>5, <1>6, <1>7, <1>8, <1>9, <1>10, <1>11, <1>12, <1>13,
     <1>14 DEF Next, SlotLoop, Recycle

LEMMA InitTypes == Init => TypeOK
<1> SUFFICES ASSUME Init PROVE TypeOK
  OBVIOUS
<1>1. Leader \in Slots /\ 1 \in 1..MaxForks /\ <<Leader, 1>> \in Workers
  BY DEF Slots, Workers
<1>2. rec \in [Slots -> 0..MaxForks] /\ forks \in [Slots -> 0..MaxForks]
  BY <1>1 DEF Init
<1>3. up \subseteq Workers /\ booting \subseteq Slots
  BY <1>1 DEF Init
<1>4. repl \in [Slots -> {"none", "wait", "reap", "backoff"}]
  BY DEF Init
<1>5. QED
  BY <1>2, <1>3, <1>4 DEF Init, TypeOK

\* The types of the state of the primary.
THEOREM TypeCorrect == Spec => []TypeOK
BY InitTypes, TypeStep, PTL DEF Spec

-----------------------------------------------------------------------------
(***************************************************************************)
(* One process for each slot.  The lemmas assume that no worker outlives   *)
(* the primary's wait ("slow").                                            *)
(***************************************************************************)
LEMMA RecordedOnce ==
  ASSUME TypeOK, SlotInv, NEW w \in up
  PROVE  /\ w \in Workers /\ w[1] \in Slots /\ w = <<w[1], w[2]>>
         /\ rec[w[1]] = w[2] /\ forks[w[1]] = w[2]
<1>1. w \in Workers /\ rec[w[1]] = w[2]
  BY DEF SlotInv, Records
<1>2. w[1] \in Slots /\ w[2] \in 1..MaxForks /\ w = <<w[1], w[2]>>
  BY <1>1 DEF Workers
<1>3. QED
  BY <1>1, <1>2 DEF SlotInv

\* Slots with no process may be forked for.
LEMMA ForkSlots ==
  ASSUME TypeOK, SlotInv, NEW M, M \subseteq Slots, \A s \in M : ~UpIn(s), ForkFor(M),
         UNCHANGED shuttingDown
  PROVE  SlotInv'
<1> USE DEF ForkFor
<1> DEFINE made == {w \in Workers : w[1] \in M /\ w[2] = forks[w[1]] + 1}
<1>1. up' = up \cup made /\ ready' = ready
  OBVIOUS
<1>2. ASSUME NEW w \in up PROVE w[1] \in Slots \ M /\ w \in Workers /\ rec'[w[1]] = w[2]
  BY <1>2, RecordedOnce DEF UpIn, TypeOK
<1>3. ASSUME NEW w \in made PROVE rec'[w[1]] = w[2]
  BY DEF TypeOK
<1>4. (up \subseteq Records)'
  BY <1>1, <1>2, <1>3 DEF Records
<1>5. (ready \subseteq up)'
  BY <1>1 DEF SlotInv
<1>6. ASSUME NEW s \in Slots PROVE rec'[s] = 0 \/ rec'[s] = forks'[s]
  BY DEF SlotInv, TypeOK
<1>7. ASSUME NEW s \in Slots \ M
      PROVE  (UpIn(s)' <=> UpIn(s)) /\ (Ready(s)' <=> Ready(s)) /\ repl'[s] = repl[s]
  BY <1>1 DEF UpIn, Ready, TypeOK
<1>8. \A s \in M : repl'[s] = "wait"
  BY DEF TypeOK
<1>9. QED
  BY <1>4, <1>5, <1>6, <1>7, <1>8 DEF SlotInv

LEMMA EnsureSlotInv ==
  ASSUME TypeOK, SlotInv, NEW S, S \subseteq Slots, EnsureSlots(S), UNCHANGED shuttingDown
  PROVE  SlotInv'
<1>1. \A s \in S : Unstarted(s) => ~UpIn(s)
  BY DEF Unstarted, SlotInv
<1>2. QED
  BY <1>1, ForkSlots DEF EnsureSlots

\* A process that exits leaves its slot empty.
LEMMA ExitSlotInv ==
  ASSUME TypeOK, SlotInv, NEW w \in up, Gone(w), UNCHANGED forks,
         shuttingDown => shuttingDown'
  PROVE  SlotInv'
<1>1. up' = up \ {w} /\ ready' = ready \ {w}
  BY DEF Gone
<1>2. w[1] \in Slots /\ rec[w[1]] = w[2] /\ forks[w[1]] = w[2]
  BY RecordedOnce
<1>3. rec' = [rec EXCEPT ![w[1]] = 0]
  BY <1>2 DEF Gone
<1>4. \A v \in up : v[1] = w[1] => v = w
  BY <1>2, RecordedOnce
<1>5. ~UpIn(w[1])'
  BY <1>1, <1>4 DEF UpIn
<1>6. \A v \in up' : v \in Workers /\ rec'[v[1]] = v[2]
  BY <1>1, <1>3, <1>4, RecordedOnce DEF TypeOK
<1>7. ASSUME NEW s \in Slots, s # w[1]
      PROVE  (UpIn(s)' <=> UpIn(s)) /\ (Ready(s)' <=> Ready(s)) /\ repl'[s] = repl[s]
  BY <1>1, <1>2, <1>3, <1>7 DEF UpIn, Ready, TypeOK, Gone
<1>8. \A s \in Slots : rec'[s] = 0 \/ rec'[s] = forks'[s]
  BY <1>3 DEF SlotInv, TypeOK
<1>9. (up \subseteq Records)' /\ (ready \subseteq up)'
  BY <1>1, <1>6 DEF Records, SlotInv
<1>10. QED
  BY <1>5, <1>7, <1>8, <1>9 DEF SlotInv

LEMMA SlotStep == TypeOK /\ SlotInv /\ [Next]_vars /\ "slow" \notin Faults => SlotInv'
<1> SUFFICES ASSUME TypeOK, SlotInv, [Next]_vars, "slow" \notin Faults PROVE SlotInv'
  OBVIOUS
<1> USE DEF stateVars, leaseVars, slotVars, workerVars, LoopEnds
<1>1. ASSUME UNCHANGED <<up, ready, rec, forks, repl>>, shuttingDown => shuttingDown'
      PROVE  SlotInv'
  BY <1>1 DEF SlotInv, Records, UpIn, Ready
<1>2. CASE Boot
  BY <1>2, <1>1, EnsureSlotInv DEF Boot, BootFollowers, BootDone, Slots
<1>3. ASSUME NEW w \in Workers, BecomeReady(w) PROVE SlotInv'
  <2>1. w \in up /\ ready' = ready \cup {w}
    BY <1>3 DEF BecomeReady
  <2>2. w[1] \in Slots /\ rec[w[1]] = w[2] /\ Ready(w[1])'
    BY <1>3, <2>1, RecordedOnce DEF BecomeReady, Ready
  <2>3. \A s \in Slots : Ready(s) => Ready(s)'
    BY <1>3 DEF BecomeReady, Ready
  <2>4. \A s \in Slots : repl'[s] # repl[s] => s = w[1] /\ repl'[s] = "none"
    BY <1>3 DEF BecomeReady, TypeOK
  <2>5. up' = up /\ UNCHANGED <<rec, forks, shuttingDown>>
    BY <1>3 DEF BecomeReady
  <2>6. QED
    BY <2>1, <2>2, <2>3, <2>4, <2>5 DEF SlotInv, Records, UpIn
<1>4. ASSUME NEW s \in Slots, ReadyTimeout(s) PROVE SlotInv'
  <2>1. UNCHANGED <<up, ready, rec, forks, shuttingDown>>
    BY <1>4 DEF ReadyTimeout
  <2>2. \A u \in Slots : repl'[u] # repl[u] => repl'[u] = "reap"
    BY <1>4 DEF ReadyTimeout, TypeOK
  <2>3. QED
    BY <2>1, <2>2 DEF SlotInv, Records, UpIn, Ready
<1>5. ASSUME NEW s \in Slots, Reap(s) PROVE SlotInv'
  <2>1. UNCHANGED <<up, ready, rec, forks>> /\ (shuttingDown => shuttingDown')
    BY <1>5 DEF Reap, Fail
  <2>2. ~UpIn(s)
    <3>1. <<s, forks[s]>> \notin up
      BY <1>5 DEF Reap, Fault
    <3>2. QED
      BY <3>1, RecordedOnce DEF UpIn
  <2>3. \A u \in Slots : repl'[u] # repl[u] => u = s
    BY <1>5 DEF Reap, TypeOK
  <2>4. QED
    BY <2>1, <2>2, <2>3 DEF SlotInv, Records, UpIn, Ready
<1>6. ASSUME NEW s \in Slots, Retry(s) PROVE SlotInv'
  <2>1. ~UpIn(s) /\ UNCHANGED shuttingDown
    BY <1>6 DEF Retry, SlotInv
  <2>2. CASE ForkFor({s})
    BY <2>1, <2>2, ForkSlots
  <2>3. CASE ~ForkFor({s})
    <3>1. /\ UNCHANGED <<up, ready, rec, forks, shuttingDown>>
          /\ shuttingDown /\ repl' = [repl EXCEPT ![s] = "none"]
      BY <1>6, <2>3 DEF Retry
    <3>2. \A u \in Slots : repl'[u] = "backoff" => repl[u] = "backoff"
      BY <3>1 DEF TypeOK
    <3>3. QED
      BY <3>1, <3>2 DEF SlotInv, Records, UpIn, Ready
  <2>4. QED
    BY <2>2, <2>3
<1>7. ASSUME NEW w \in Workers, Exit(w) PROVE SlotInv'
  <2>1. w \in up /\ Gone(w) /\ UNCHANGED forks /\ (shuttingDown => shuttingDown')
    BY <1>7 DEF Exit, ExitOwner, ExitCrashed, ExitExpected, Fail, Gone
  <2>2. QED
    BY <2>1, ExitSlotInv
<1>8. ASSUME NEW s \in Slots, StartReplacement(s) PROVE SlotInv'
  BY <1>8, EnsureSlotInv DEF StartReplacement
<1>9. CASE \E s \in Slots : ForgetCrash(s)
  BY <1>9, <1>1 DEF ForgetCrash
<1>10. CASE \E w \in Workers :
              Restart(w) \/ Acquire(w) \/ Release(w) \/ RestoreBegin(w)
  BY <1>10, <1>1 DEF Restart, Acquire, Release, RestoreBegin
<1>11. CASE RecycleBegin \/ RecycleDone
  BY <1>11, <1>1 DEF RecycleBegin, RecycleDone
<1>12. CASE RecycleStopped \/ RecycleFollowers
  BY <1>12, EnsureSlotInv DEF RecycleStopped, RecycleFollowers, Slots
<1>13. CASE RestoreStep
  BY <1>13, <1>1 DEF RestoreStep, Quiesced, SwapDone, Complete, UndoDone, Abort, AbortFatal,
                     AbortRefused, Fail
<1>14. CASE Stuck \/ Signal \/ Stop
  BY <1>14, <1>1 DEF Stuck, RecycleStuck, QuiesceStuck, CompleteFails, Signal, Stop, Fail
<1>15. CASE UNCHANGED vars
  BY <1>15, <1>1 DEF vars
<1>16. QED
  BY <1>2, <1>3, <1>4, <1>5, <1>6, <1>7, <1>8, <1>9, <1>10, <1>11, <1>12, <1>13, <1>14,
     <1>15 DEF Next, SlotLoop, Recycle

LEMMA InitSlots == Init => SlotInv
<1> SUFFICES ASSUME Init PROVE SlotInv
  OBVIOUS
<1>1. up = {<<Leader, 1>>} /\ Leader \in Slots /\ rec[Leader] = 1 /\ repl[Leader] = "wait"
  BY DEF Init, Slots
<1>2. up \subseteq Records
  BY <1>1, InitTypes DEF Records, TypeOK
<1>3. \A s \in Slots : UpIn(s) => s = Leader
  BY <1>1 DEF UpIn
<1>4. \A s \in Slots : repl[s] # "backoff" /\ (repl[s] = "none" => s # Leader)
  BY DEF Init
<1>5. QED
  BY <1>2, <1>3, <1>4 DEF SlotInv, Init

LEMMA NoOrphansInductive ==
  /\ Init => NoOrphansInv
  /\ NoOrphansInv /\ [Next]_vars => NoOrphansInv'
BY InitTypes, InitSlots, TypeStep, SlotStep DEF NoOrphansInv

\* However the boot, recycles, crashes and restores interleave, every process
\* that runs is the recorded worker of its slot.
THEOREM OneProcessPerSlot == Spec => []NoOrphans
<1>1. NoOrphansInv => NoOrphans
  BY DEF NoOrphansInv, SlotInv, NoOrphans
<1>2. QED
  BY <1>1, NoOrphansInductive, PTL DEF Spec

\* The primary releases the guard of the data directory after its last worker
\* process exited.
THEOREM GuardOutlivesWorkers == Spec => []GuardReleasedLast
<1> DEFINE Inv == NoOrphansInv /\ GuardReleasedLast
<1>1. Init => Inv
  BY NoOrphansInductive DEF Init, GuardReleasedLast
<1>2. Inv /\ [Next]_vars => Inv'
  <2> SUFFICES ASSUME Inv, [Next]_vars, "slow" \notin Faults, stopped' PROVE up' = {}
    BY NoOrphansInductive DEF GuardReleasedLast
  <2>1. CASE stopped
    BY <2>1 DEF Next, GuardReleasedLast, vars, workerVars, stateVars
  <2>2. CASE ~stopped
    <3>1. Stop
      BY <2>2 DEF Next, Boot, BootFollowers, BootDone, BecomeReady, ReadyTimeout, SlotLoop,
                  Reap, Retry, Exit, ExitOwner, ExitCrashed, ExitExpected, Gone,
                  StartReplacement, ForgetCrash, Restart, Acquire, Release, RestoreBegin,
                  Recycle, RecycleBegin, RecycleStopped, RecycleFollowers, RecycleDone,
                  RestoreStep, Quiesced, SwapDone, Complete, UndoDone, Abort, AbortFatal,
                  AbortRefused, Stuck, RecycleStuck, QuiesceStuck, CompleteFails, Signal,
                  stateVars, vars
    <3>2. up' = up /\ Records \cap up = {}
      BY <3>1 DEF Stop, Awaited, Fault, workerVars
    <3>3. QED
      BY <3>2 DEF NoOrphansInv, SlotInv
  <2>3. QED
    BY <2>1, <2>2
<1>3. QED
  BY <1>1, <1>2, PTL DEF Spec

-----------------------------------------------------------------------------
(***************************************************************************)
(* Replacing the data directory.  A worker that ran meanwhile must not     *)
(* serve once the cluster runs again.  It is stopped by the recycle that   *)
(* ends the restore, whose wait ends only when none of its targets is the  *)
(* recorded worker of its slot; a process forked in between has a number   *)
(* that no earlier one has, so it cannot be mistaken for one of them.      *)
(* These lemmas hold whatever faults happen.                               *)
(***************************************************************************)
Recorded == up \cap Records
LiveStale == stale \cap Recorded

\* What the phases of a lease and of a recycle say of lifecycleState.
PhaseInv ==
  /\ opc \in {"quiesce", "swap", "complete", "undo", "abort", "abortFatal"}
       => life = "restoring"
  /\ opc = "hold" => life = "running" /\ lease # None
  /\ lc \in {"respond", "stop", "leader", "followers"} => life = "restarting"
  /\ lc = "quiesce" => life = "restoring"

\* Every worker the primary knows of was forked.
ForkedInv ==
  /\ \A w \in up \cup targets \cup stale : w[2] <= forks[w[1]]
  /\ \A s \in Slots : rec[s] <= forks[s]
  /\ ready \subseteq up

StaleInv ==
  /\ Replacing => targets \cap Recorded = {}
  /\ lc = "stop" => LiveStale \subseteq targets
  /\ life = "running" \/ lc \in {"leader", "followers"} => LiveStale = {}

DataInv == TypeOK /\ PhaseInv /\ ForkedInv /\ StaleInv

\* A process of an earlier number that runs and is recorded after a fork ran and
\* was recorded before it.
LEMMA ForkKeeps ==
  ASSUME TypeOK, NEW M, M \subseteq Slots, ForkFor(M), NEW w \in Workers,
         w[2] <= forks[w[1]], w \in Recorded'
  PROVE  w \in Recorded
<1>1. w[1] \in Slots /\ w[2] \in 1..MaxForks /\ forks[w[1]] \in Nat
  BY DEF Workers, TypeOK
<1>2. w \in up
  BY <1>1 DEF ForkFor, Recorded
<1>3. w[1] \notin M
  BY <1>1 DEF ForkFor, Recorded, Records
<1>4. rec[w[1]] = w[2]
  BY <1>1, <1>3 DEF ForkFor, Recorded, Records
<1>5. QED
  BY <1>2, <1>4 DEF Recorded, Records

LEMMA ForkForked ==
  ASSUME TypeOK, ForkedInv, NEW M, M \subseteq Slots, ForkFor(M), UNCHANGED targets
  PROVE  ForkedInv'
<1> DEFINE made == {w \in Workers : w[1] \in M /\ w[2] = forks[w[1]] + 1}
<1>1. \A s \in Slots : forks[s] <= forks'[s]
  BY DEF ForkFor, TypeOK
<1>2. \A w \in made : w[2] <= forks'[w[1]]
  BY DEF ForkFor, TypeOK
<1>3. \A w \in up \cup targets \cup stale : w[2] <= forks'[w[1]]
  <2> SUFFICES ASSUME NEW w \in up \cup targets \cup stale PROVE w[2] <= forks'[w[1]]
    OBVIOUS
  <2>1. w[1] \in Slots /\ w[2] \in Nat /\ forks[w[1]] \in Nat /\ forks'[w[1]] \in Nat
    BY ForkTypes DEF TypeOK, Workers
  <2>2. w[2] <= forks[w[1]] /\ forks[w[1]] <= forks'[w[1]]
    BY <1>1, <2>1 DEF ForkedInv
  <2>3. QED
    BY <2>1, <2>2
<1>4. up' = up \cup made /\ stale' \subseteq stale \cup made /\ ready' = ready
  BY DEF ForkFor
<1>5. \A s \in Slots : rec'[s] <= forks'[s]
  BY DEF ForkFor, TypeOK, ForkedInv
<1>6. QED
  BY <1>2, <1>3, <1>4, <1>5 DEF ForkedInv

\* A fork adds neither a target nor, unless the data is being replaced, a stale
\* worker to those that run.
LEMMA ForkData ==
  ASSUME TypeOK, ForkedInv, NEW M, M \subseteq Slots, ForkFor(M), UNCHANGED <<targets, opc>>
  PROVE  /\ ForkedInv'
         /\ (targets \cap Recorded)' \subseteq targets \cap Recorded
         /\ ~Replacing => LiveStale' \subseteq LiveStale
<1>1. ASSUME NEW w \in targets \cup stale, w \in Recorded' PROVE w \in Recorded
  BY <1>1, ForkKeeps DEF ForkedInv, TypeOK
<1>2. ~Replacing => stale' = stale
  BY DEF ForkFor
<1>3. QED
  BY <1>1, <1>2, ForkForked DEF LiveStale

LEMMA EnsureData ==
  ASSUME TypeOK, ForkedInv, NEW S, S \subseteq Slots, EnsureSlots(S),
         UNCHANGED <<targets, opc>>
  PROVE  /\ ForkedInv'
         /\ (targets \cap Recorded)' \subseteq targets \cap Recorded
         /\ ~Replacing => LiveStale' \subseteq LiveStale
BY ForkData DEF EnsureSlots

\* What holds of the data before a step holds after it, when the step starts no
\* phase and adds no worker.
LEMMA FewerData ==
  ASSUME DataInv, UNCHANGED <<life, lc, targets>>, PhaseInv', ForkedInv',
         Replacing' => Replacing,
         (targets \cap Recorded)' \subseteq targets \cap Recorded,
         ~Replacing => LiveStale' \subseteq LiveStale
  PROVE  StaleInv'
<1>1. life = "running" \/ lc \in {"stop", "leader", "followers"} => ~Replacing
  BY DEF DataInv, PhaseInv, Replacing
<1>2. QED
  BY <1>1 DEF DataInv, StaleInv

LEMMA ExitData ==
  ASSUME DataInv, NEW w \in Workers, Gone(w)
  PROVE  PhaseInv' /\ ForkedInv' /\ StaleInv'
<1>1. UNCHANGED <<life, lc, targets, stale, forks>> /\ up' = up \ {w} /\ ready' = ready \ {w}
  BY DEF Gone
<1>2. w[1] \in Slots /\ 0 \notin 1..MaxForks
  BY DEF Workers
<1>3. Recorded' \subseteq Recorded
  <2> SUFFICES ASSUME NEW v \in Recorded' PROVE v \in Recorded
    OBVIOUS
  <2>1. v \in Workers /\ v \in up /\ rec'[v[1]] = v[2] /\ v[2] # 0 /\ v[1] \in Slots
    BY <1>1 DEF Recorded, Records, Workers
  <2>2. rec[v[1]] = v[2]
    BY <1>2, <2>1 DEF Gone, DataInv, TypeOK
  <2>3. QED
    BY <2>1, <2>2 DEF Recorded, Records
<1>4. PhaseInv'
  <2>1. opc' = "hold" => lease' # None
    BY DEF Gone, DataInv, PhaseInv
  <2>2. opc' = opc \/ opc' = "idle"
    BY DEF Gone
  <2>3. QED
    BY <1>1, <2>1, <2>2 DEF DataInv, PhaseInv
<1>5. ForkedInv'
  BY <1>1, <1>2 DEF Gone, DataInv, TypeOK, ForkedInv
<1>6. Replacing' => Replacing
  BY DEF Gone, Replacing
<1>7. QED
  BY <1>1, <1>3, <1>4, <1>5, <1>6, FewerData DEF LiveStale

LEMMA DataStep == DataInv /\ [Next]_vars => DataInv'
<1> SUFFICES ASSUME DataInv, [Next]_vars PROVE PhaseInv' /\ ForkedInv' /\ StaleInv'
  BY TypeStep DEF DataInv
<1> USE DEF stateVars, leaseVars, slotVars, workerVars
<1>1. ASSUME UNCHANGED <<life, lc, opc, lease, targets, stale, up, rec, forks>>,
             ready' \subseteq up
      PROVE  PhaseInv' /\ ForkedInv' /\ StaleInv'
  BY <1>1 DEF DataInv, PhaseInv, ForkedInv, StaleInv, Replacing, LiveStale, Recorded, Records
<1>2. ASSUME NEW S, S \subseteq Slots, EnsureSlots(S) \/ ForkFor(S),
             UNCHANGED <<life, lc, opc, lease, targets>>
      PROVE  PhaseInv' /\ ForkedInv' /\ StaleInv'
  <2>1. PhaseInv' /\ (Replacing' <=> Replacing)
    BY <1>2 DEF DataInv, PhaseInv, Replacing
  <2>2. QED
    BY <1>2, <2>1, EnsureData, ForkData, FewerData DEF DataInv
<1>3. CASE Boot
  BY <1>3, <1>1, <1>2 DEF Boot, BootFollowers, BootDone, Slots, DataInv, ForkedInv
<1>4. ASSUME NEW w \in Workers, BecomeReady(w) PROVE PhaseInv' /\ ForkedInv' /\ StaleInv'
  BY <1>4, <1>1 DEF BecomeReady, DataInv, ForkedInv
<1>5. ASSUME NEW s \in Slots, ReadyTimeout(s) \/ Reap(s) \/ ForgetCrash(s)
      PROVE  PhaseInv' /\ ForkedInv' /\ StaleInv'
  BY <1>5, <1>1 DEF ReadyTimeout, Reap, ForgetCrash, DataInv, ForkedInv
<1>6. ASSUME NEW s \in Slots, Retry(s) PROVE PhaseInv' /\ ForkedInv' /\ StaleInv'
  BY <1>6, <1>1, <1>2 DEF Retry, DataInv, ForkedInv
<1>7. ASSUME NEW w \in Workers, Exit(w) PROVE PhaseInv' /\ ForkedInv' /\ StaleInv'
  BY <1>7, ExitData DEF Exit, ExitOwner, ExitCrashed, ExitExpected
<1>8. ASSUME NEW s \in Slots, StartReplacement(s) PROVE PhaseInv' /\ ForkedInv' /\ StaleInv'
  BY <1>8, <1>2 DEF StartReplacement
<1>9. ASSUME UNCHANGED <<targets, stale, up, ready, rec, forks>>
      PROVE  ForkedInv' /\ Recorded' = Recorded /\ LiveStale' = LiveStale
  BY <1>9 DEF DataInv, ForkedInv, LiveStale, Recorded, Records
<1>10. ASSUME NEW w \in Workers, Restart(w) \/ Acquire(w) \/ Release(w)
       PROVE  PhaseInv' /\ ForkedInv' /\ StaleInv'
  <2>1. ForkedInv' /\ Recorded' = Recorded /\ LiveStale' = LiveStale
    BY <1>9, <1>10 DEF Restart, Acquire, Release
  <2>2. w # None
    BY DEF Workers
  <2>3. QED
    BY <1>10, <2>1, <2>2
    DEF Restart, Acquire, Release, DataInv, PhaseInv, StaleInv, Replacing
<1>11. ASSUME NEW w \in Workers, RestoreBegin(w) PROVE PhaseInv' /\ ForkedInv' /\ StaleInv'
  <2>1. targets' \subseteq Records /\ UNCHANGED <<stale, up, ready, rec, forks>>
    BY <1>11 DEF RestoreBegin, Others
  <2>2. ForkedInv'
    BY <2>1 DEF DataInv, ForkedInv, Records, Workers
  <2>3. life' = "restoring" /\ opc' = "quiesce" /\ lc' = "quiesce"
    BY <1>11 DEF RestoreBegin
  <2>4. QED
    BY <2>2, <2>3 DEF PhaseInv, StaleInv, Replacing
<1>12. CASE RecycleBegin
  <2>1. targets' = Records /\ UNCHANGED <<stale, up, ready, rec, forks>>
    BY <1>12 DEF RecycleBegin
  <2>2. ForkedInv'
    BY <2>1 DEF DataInv, ForkedInv, Records, Workers
  <2>3. life = "restarting" /\ lc' = "stop" /\ UNCHANGED <<life, opc, lease>>
    BY <1>12 DEF RecycleBegin, DataInv, PhaseInv
  <2>4. (LiveStale \subseteq targets)' /\ Recorded' = Recorded
    BY <2>1 DEF LiveStale, Recorded, Records
  <2>5. QED
    BY <2>2, <2>3, <2>4 DEF DataInv, PhaseInv, StaleInv, Replacing
\* The wait ends when none of the targets is recorded, so no stale worker is.
<1>13. CASE RecycleStopped
  <2>1. targets \cap Recorded = {} /\ LiveStale = {}
    BY <1>13 DEF RecycleStopped, Stopped, Recorded, DataInv, StaleInv, LiveStale
  <2>2. life = "restarting" /\ lc' = "leader" /\ UNCHANGED <<life, opc, lease, targets>>
    BY <1>13 DEF RecycleStopped, DataInv, PhaseInv
  <2>3. EnsureSlots({Leader}) /\ {Leader} \subseteq Slots
    BY <1>13 DEF RecycleStopped, Slots
  <2>4. ~Replacing /\ ~Replacing'
    BY <2>2 DEF DataInv, PhaseInv, Replacing
  <2>5. ForkedInv' /\ LiveStale' = {}
    BY <2>1, <2>2, <2>3, <2>4, EnsureData DEF DataInv
  <2>6. QED
    BY <2>2, <2>4, <2>5 DEF DataInv, PhaseInv, StaleInv
<1>14. CASE RecycleFollowers
  <2>1. life = "restarting" /\ LiveStale = {}
    BY <1>14 DEF RecycleFollowers, DataInv, PhaseInv, StaleInv
  <2>2. lc' = "followers" /\ UNCHANGED <<life, opc, lease, targets>>
    BY <1>14 DEF RecycleFollowers
  <2>3. EnsureSlots(Followers) /\ Followers \subseteq Slots
    BY <1>14 DEF RecycleFollowers, Slots
  <2>4. ~Replacing /\ ~Replacing'
    BY <2>1, <2>2 DEF DataInv, PhaseInv, Replacing
  <2>5. ForkedInv' /\ LiveStale' = {}
    BY <2>1, <2>2, <2>3, <2>4, EnsureData DEF DataInv
  <2>6. QED
    BY <2>1, <2>2, <2>4, <2>5 DEF DataInv, PhaseInv, StaleInv
<1>15. CASE RecycleDone
  <2>1. ForkedInv' /\ Recorded' = Recorded /\ LiveStale' = LiveStale
    BY <1>9, <1>15 DEF RecycleDone
  <2>2. QED
    BY <1>15, <2>1 DEF RecycleDone, DataInv, PhaseInv, StaleInv, Replacing
\* The owner replaces the data once none of the targets is recorded.
<1>16. CASE Quiesced
  <2>1. targets \cap Recorded = {} /\ life = "restoring" /\ lc' = "idle"
    BY <1>16 DEF Quiesced, Stopped, Recorded, DataInv, PhaseInv
  <2>2. UNCHANGED <<life, lease, targets, up, ready, rec, forks>>
    BY <1>16 DEF Quiesced
  <2>3. ForkedInv' /\ Recorded' = Recorded
    BY <1>16, <2>2 DEF Quiesced, DataInv, ForkedInv, Recorded, Records
  <2>4. opc' # "hold"
    BY <1>16, <2>1 DEF Quiesced, DataInv, PhaseInv
  <2>5. QED
    BY <2>1, <2>2, <2>3, <2>4 DEF PhaseInv, StaleInv
<1>17. CASE SwapDone \/ Complete \/ UndoDone \/ Abort \/ AbortFatal \/ AbortRefused
  <2>1. ForkedInv' /\ Recorded' = Recorded /\ LiveStale' = LiveStale
    BY <1>9, <1>17 DEF SwapDone, Complete, UndoDone, Abort, AbortFatal, AbortRefused
  <2>2. UNCHANGED targets
    BY <1>17 DEF SwapDone, Complete, UndoDone, Abort, AbortFatal, AbortRefused
  <2>3. PhaseInv' /\ (life' = "running" => life = "running")
    BY <1>17 DEF SwapDone, Complete, UndoDone, Abort, AbortFatal, AbortRefused, Resume,
                 OwnsRestore, DataInv, PhaseInv
  <2>4. (Replacing' => Replacing) /\ (lc' = lc \/ lc' = "respond")
    BY <1>17 DEF SwapDone, Complete, UndoDone, Abort, AbortFatal, AbortRefused, Resume,
                 Replacing
  <2>5. QED
    BY <2>1, <2>2, <2>3, <2>4 DEF DataInv, StaleInv
<1>18. CASE Stuck \/ Signal \/ Stop
  <2>1. ForkedInv' /\ Recorded' = Recorded /\ LiveStale' = LiveStale
    BY <1>9, <1>18 DEF Stuck, RecycleStuck, QuiesceStuck, CompleteFails, Signal, Stop
  <2>2. UNCHANGED <<targets, life>> /\ (lc' = lc \/ lc' = "idle")
    BY <1>18 DEF Stuck, RecycleStuck, QuiesceStuck, CompleteFails, Signal, Stop
  <2>3. PhaseInv' /\ (Replacing' => Replacing)
    BY <1>18 DEF Stuck, RecycleStuck, QuiesceStuck, CompleteFails, Signal, Stop,
                 DataInv, PhaseInv, Replacing
  <2>4. QED
    BY <2>1, <2>2, <2>3 DEF DataInv, StaleInv
<1>19. CASE UNCHANGED vars
  BY <1>19, <1>1 DEF vars, DataInv, ForkedInv
<1>20. QED
  BY <1>3, <1>4, <1>5, <1>6, <1>7, <1>8, <1>10, <1>11, <1>12, <1>13, <1>14, <1>15, <1>16,
     <1>17, <1>18, <1>19 DEF Next, SlotLoop, Recycle, RestoreStep

LEMMA InitData == Init => DataInv
<1> SUFFICES ASSUME Init PROVE PhaseInv /\ ForkedInv /\ StaleInv
  BY InitTypes DEF DataInv
<1>1. PhaseInv /\ StaleInv
  BY DEF Init, PhaseInv, StaleInv, Replacing, LiveStale
<1>2. ForkedInv
  BY InitTypes DEF Init, ForkedInv, TypeOK, Slots
<1>3. QED
  BY <1>1, <1>2

\* No worker that serves while the cluster runs has connections from before the
\* data directory was replaced, whatever failed meanwhile.
THEOREM RestoredDataServed == Spec => []NoStale
<1>1. DataInv => NoStale
  BY DEF DataInv, ForkedInv, StaleInv, LiveStale, Recorded, NoStale
<1>2. QED
  BY <1>1, InitData, DataStep, PTL DEF Spec

-----------------------------------------------------------------------------
(***************************************************************************)
(* The owner of a restore.  It was not told to exit when it began, and     *)
(* nothing tells it so while it is the owner: a start that takes too long  *)
(* is killed before its worker is ready, and the recycle comes after the   *)
(* transition.  So when the owner exits, OwnerLost holds.                  *)
(***************************************************************************)
Held(w) == w \in ready /\ w \notin intentional

OwnerInv ==
  /\ \A s \in Slots : repl[s] = "wait" => <<s, forks[s]>> \notin ready
  /\ intentional \subseteq told
  /\ life = "restoring" /\ ~shuttingDown => Held(restoreOwner)

OwnedInv == DataInv /\ ("stray" \notin Faults => OwnerInv)

\* A process that is forked is not ready.
LEMMA ForkUnready ==
  ASSUME DataInv, OwnerInv, NEW M, M \subseteq Slots, ForkFor(M)
  PROVE  (\A s \in Slots : repl[s] = "wait" => <<s, forks[s]>> \notin ready)'
<1> SUFFICES ASSUME NEW s \in Slots, repl'[s] = "wait" PROVE <<s, forks'[s]>> \notin ready
  BY DEF ForkFor
<1>1. CASE s \in M
  <2>1. forks'[s] = forks[s] + 1 /\ forks[s] \in Nat
    BY <1>1 DEF ForkFor, DataInv, TypeOK
  <2>2. \A w \in ready : w[2] <= forks[w[1]]
    BY DEF DataInv, ForkedInv
  <2>3. ~(forks[s] + 1 <= forks[s])
    BY <2>1
  <2>4. QED
    BY <2>1, <2>2, <2>3
<1>2. CASE s \notin M
  BY <1>2 DEF ForkFor, DataInv, TypeOK, OwnerInv
<1>3. QED
  BY <1>1, <1>2

\* A step that forks, or ends a loop, and leaves the owner alone.
LEMMA ForkOwner ==
  ASSUME DataInv, OwnerInv, NEW M, M \subseteq Slots, EnsureSlots(M) \/ ForkFor(M),
         UNCHANGED <<life, restoreOwner, intentional, told, shuttingDown>>
  PROVE  OwnerInv'
<1>1. ready' = ready
  BY DEF EnsureSlots, ForkFor
<1>2. PICK S : S \subseteq Slots /\ ForkFor(S)
  BY DEF EnsureSlots
<1>3. QED
  BY <1>1, <1>2, ForkUnready DEF OwnerInv, Held

LEMMA OwnerStep == DataInv /\ OwnerInv /\ [Next]_vars /\ "stray" \notin Faults => OwnerInv'
<1> SUFFICES ASSUME DataInv, OwnerInv, [Next]_vars, "stray" \notin Faults PROVE OwnerInv'
  OBVIOUS
<1> USE DEF stateVars, leaseVars, slotVars, workerVars
<1>1. ASSUME UNCHANGED <<repl, forks, ready, intentional, told>>,
             life' = "restoring" => life = "restoring" /\ restoreOwner' = restoreOwner,
             shuttingDown => shuttingDown'
      PROVE  OwnerInv'
  BY <1>1 DEF OwnerInv, Held
\* Everyone is told to exit, when nobody owns a restore or the primary shuts down.
<1>2. ASSUME UNCHANGED <<repl, forks, ready>>, NEW S, SendAway(S),
             shuttingDown' \/ life' # "restoring"
      PROVE  OwnerInv'
  BY <1>2 DEF OwnerInv, SendAway
<1>3. CASE Boot
  BY <1>3, <1>1, ForkOwner DEF Boot, BootFollowers, BootDone, Slots
<1>4. ASSUME NEW w \in Workers, BecomeReady(w) PROVE OwnerInv'
  <2>1. ready' = ready \cup {w} /\ UNCHANGED <<forks, life, restoreOwner, intentional, told, shuttingDown>>
    BY <1>4 DEF BecomeReady
  <2>2. w = <<w[1], w[2]>> /\ w[1] \in Slots
    BY DEF Workers
  <2>3. ASSUME NEW s \in Slots, repl'[s] = "wait" PROVE repl[s] = "wait" /\ <<s, forks[s]>> # w
    BY <1>4, <2>2, <2>3 DEF BecomeReady, LoopEnds, DataInv, TypeOK
  <2>4. QED
    BY <2>1, <2>3 DEF OwnerInv, Held
<1>5. ASSUME NEW s \in Slots, ReadyTimeout(s) PROVE OwnerInv'
  <2>1. <<s, forks[s]>> \notin ready
    BY <1>5 DEF ReadyTimeout, OwnerInv
  <2>2. UNCHANGED <<forks, ready, life, restoreOwner, shuttingDown>>
        /\ intentional' = intentional \cup {<<s, forks[s]>>}
        /\ told' = told \cup {<<s, forks[s]>>}
    BY <1>5 DEF ReadyTimeout, SendAway
  <2>3. \A u \in Slots : repl'[u] = "wait" => repl[u] = "wait"
    BY <1>5 DEF ReadyTimeout, DataInv, TypeOK
  <2>4. QED
    BY <2>1, <2>2, <2>3 DEF OwnerInv, Held
<1>6. ASSUME NEW s \in Slots, Reap(s) PROVE OwnerInv'
  <2>1. UNCHANGED <<forks, ready, life, restoreOwner>>
    BY <1>6 DEF Reap
  <2>2. \A u \in Slots : repl'[u] = "wait" => repl[u] = "wait"
    BY <1>6 DEF Reap, LoopEnds, DataInv, TypeOK
  <2>3. \/ UNCHANGED <<intentional, told, shuttingDown>>
        \/ shuttingDown' /\ SendAway(Records)
    BY <1>6 DEF Reap, Fail
  <2>4. QED
    BY <2>1, <2>2, <2>3 DEF OwnerInv, Held, SendAway
<1>7. ASSUME NEW s \in Slots, Retry(s) PROVE OwnerInv'
  <2>1. UNCHANGED <<life, restoreOwner, intentional, told, shuttingDown>>
    BY <1>7 DEF Retry
  <2>2. CASE ForkFor({s})
    BY <2>1, <2>2, ForkOwner
  <2>3. CASE LoopEnds(s) /\ UNCHANGED <<forks, ready>>
    <3>1. \A u \in Slots : repl'[u] = "wait" => repl[u] = "wait"
      BY <2>3 DEF LoopEnds, DataInv, TypeOK
    <3>2. QED
      BY <2>1, <2>3, <3>1 DEF OwnerInv, Held
  <2>4. QED
    BY <1>7, <2>2, <2>3 DEF Retry
<1>8. ASSUME NEW w \in Workers, Exit(w) PROVE OwnerInv'
  <2>1. Gone(w) /\ UNCHANGED <<forks, life, restoreOwner>> /\ ready' = ready \ {w}
    BY <1>8 DEF Exit, ExitOwner, ExitCrashed, ExitExpected, Gone
  <2>2. \A u \in Slots : repl'[u] = "wait" => repl[u] = "wait"
    BY <2>1 DEF Gone, DataInv, TypeOK
  <2>3. \/ UNCHANGED <<intentional, told, shuttingDown>> /\ ~OwnerLost(w)
        \/ shuttingDown' /\ SendAway(Records \ {w})
    BY <1>8 DEF Exit, ExitOwner, ExitCrashed, ExitExpected, Fail
  <2>4. QED
    BY <2>1, <2>2, <2>3 DEF OwnerInv, OwnerLost, Held, SendAway
<1>9. ASSUME NEW s \in Slots, StartReplacement(s) PROVE OwnerInv'
  <2>1. PICK S : S \subseteq Slots /\ EnsureSlots(S)
    BY <1>9 DEF StartReplacement
  <2>2. QED
    BY <1>9, <2>1, ForkOwner DEF StartReplacement
<1>10. CASE \E s \in Slots : ForgetCrash(s)
  BY <1>10, <1>1 DEF ForgetCrash
<1>11. CASE \E w \in Workers : Restart(w) \/ Acquire(w) \/ Release(w)
  BY <1>11, <1>1 DEF Restart, Acquire, Release
\* The owner serves, and was not told to exit.
<1>12. ASSUME NEW w \in Workers, RestoreBegin(w) PROVE OwnerInv'
  <2>1. UNCHANGED <<repl, forks, ready>> /\ restoreOwner' = w
        /\ intentional' = intentional \cup (Records \ {w})
        /\ told' = told \cup (Records \ {w})
    BY <1>12 DEF RestoreBegin, SendAway, Others
  <2>2. w \in ready /\ w \notin told
    BY <1>12 DEF RestoreBegin, Request
  <2>3. QED
    BY <2>1, <2>2 DEF OwnerInv, Held
<1>13. CASE RecycleBegin
  <2>1. life' # "restoring"
    BY <1>13 DEF RecycleBegin, DataInv, PhaseInv
  <2>2. QED
    BY <1>13, <1>2, <2>1 DEF RecycleBegin
<1>14. CASE RecycleStopped \/ RecycleFollowers
  BY <1>14, ForkOwner DEF RecycleStopped, RecycleFollowers, Slots
<1>15. CASE RecycleDone
  BY <1>15, <1>1 DEF RecycleDone
<1>16. CASE Quiesced \/ SwapDone \/ Complete \/ UndoDone \/ Abort \/ AbortRefused
  BY <1>16, <1>1 DEF Quiesced, SwapDone, Complete, UndoDone, Abort, AbortRefused, Resume
<1>17. CASE RecycleStuck \/ AbortFatal \/ Signal
  BY <1>17, <1>2 DEF RecycleStuck, AbortFatal, Signal, Fail
<1>18. CASE QuiesceStuck \/ CompleteFails \/ Stop
  BY <1>18, <1>1 DEF QuiesceStuck, CompleteFails, Stop
<1>19. CASE UNCHANGED vars
  BY <1>19, <1>1 DEF vars
<1>20. QED
  BY <1>3, <1>4, <1>5, <1>6, <1>7, <1>8, <1>9, <1>10, <1>11, <1>12, <1>13, <1>14, <1>15,
     <1>16, <1>17, <1>18, <1>19 DEF Next, SlotLoop, Recycle, RestoreStep, Stuck

\* While the cluster is quiesced for a restore its owner runs, or the primary shuts
\* down; provided that no worker makes a request that was told to exit.
THEOREM RestoreHasOwner == Spec => []RestoringOwned
<1>1. Init => OwnedInv
  BY InitData DEF OwnedInv, OwnerInv, Init
<1>2. OwnedInv /\ [Next]_vars => OwnedInv'
  BY DataStep, OwnerStep DEF OwnedInv
<1>3. OwnedInv => RestoringOwned
  BY DEF OwnedInv, DataInv, ForkedInv, OwnerInv, Held, RestoringOwned
<1>4. QED
  BY <1>1, <1>2, <1>3, PTL DEF Spec
=============================================================================
