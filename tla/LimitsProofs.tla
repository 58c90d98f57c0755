------------------------------ MODULE LimitsProofs ------------------------------
(***************************************************************************)
(* Proofs about three parts of MCSafety, for any workers, requests,        *)
(* settings, times and records. RateLimit: the newest window is the one    *)
(* that the limiter counts down, or the client was forgotten and its       *)
(* windows are over (Kept); and a request is in one batch until it is      *)
(* decided, whose answer then says what was decided (WayInv). Then         *)
(* ExpiringClaims, and the deletes along relations of CascadeDelete.       *)
(***************************************************************************)
EXTENDS MCSafety, SequenceTheorems, FiniteSetTheorems, WellFoundedInduction, TLAPS

Limiters == [max : Nat, start : Int, available : Int, entry : Nat]
Windows == [entry : Nat, max : Nat, start : Nat, allowed : Nat, denied : Nat]
Decisions == [Requests -> {"none"} \cup Limits!Verdicts]
Answers == {m \in [batch : Seq(Requests), verdicts : Seq(Limits!Verdicts)] :
              Len(m.verdicts) = Len(m.batch)}

LimitTyped ==
  /\ now \in Nat /\ max \in [Servers -> Nat] /\ askedMax \in [Requests -> Nat]
  /\ waiting \in [Servers -> Seq(Requests)] /\ flight \in [Servers -> Seq(Requests)]
  /\ sent \in [Servers -> Seq(Seq(Requests))] /\ down \in [Servers -> Seq(Answers)]
  /\ status \in [Requests -> {"new", "waiting", "failed"} \cup Limits!Verdicts]

\* A window of the allowance, and the windows one after another.
Fair(e, x) ==
  /\ x.allowed <= x.max /\ (x.denied > 0 => x.allowed = x.max)
  /\ x.entry <= e /\ x.start <= now

Apart(x, y) == x.entry = y.entry => y.start - x.start >= Interval

Forgotten(l, ws) ==
  l.start = -Interval /\ \A i \in DOMAIN ws : ws[i].entry = l.entry => now - ws[i].start >= Interval

Counted(l, ws) ==
  /\ ws # <<>>
  /\ \E x \in {ws[Len(ws)]} : /\ x.entry = l.entry /\ x.max = l.max /\ x.start = l.start
                              /\ l.available = x.max - x.allowed

Kept(l, ws) ==
  /\ \A i \in DOMAIN ws : Fair(l.entry, ws[i])
  /\ \A i, j \in DOMAIN ws : i < j => Apart(ws[i], ws[j])
  /\ Forgotten(l, ws) \/ Counted(l, ws)

Counts == {c \in [limiter : Limiters, windows : Seq(Windows), verdict : Decisions] :
             Kept(c.limiter, c.windows)}

Count == [limiter |-> limiter, windows |-> windows, verdict |-> verdict]

In(r, s) == r \in Limits!ToSet(s)

\* Who waits for the next batch is in no other.
WaitInv ==
  \A w \in Servers, r \in Requests : In(r, waiting[w]) =>
    /\ status[r] = "waiting" /\ verdict[r] = "none"
    /\ \A v \in Servers : /\ v # w => ~In(r, waiting[v])
                          /\ \A i \in DOMAIN sent[v] : ~In(r, sent[v][i])

\* Who is in a batch to decide is in one, and not decided.
SentInv ==
  \A w \in Servers, r \in Requests : \A i \in DOMAIN sent[w] : In(r, sent[w][i]) =>
    /\ status[r] # "new" /\ verdict[r] = "none"
    /\ \A v \in Servers : \A j \in DOMAIN sent[v] : In(r, sent[v][j]) => v = w /\ j = i

\* An answer says what was decided.
Truthful(m) == \A k \in DOMAIN m.batch : m.verdicts[k] = verdict[m.batch[k]]

DownInv == \A w \in Servers : \A i \in DOMAIN down[w] : Truthful(down[w][i])

OnWay(w, batch) ==
  \/ \E i \in DOMAIN sent[w] : sent[w][i] = batch
  \/ \E i \in DOMAIN down[w] : down[w][i].batch = batch

AnswerInv ==
  /\ \A w \in Servers : flight[w] # <<>> => OnWay(w, flight[w])
  /\ \A r \in Requests :
       /\ status[r] = "new" => verdict[r] = "none"
       /\ status[r] \in Limits!Verdicts => status[r] = verdict[r]
       /\ status[r] = "waiting" => \E w \in Servers : In(r, waiting[w]) \/ In(r, flight[w])

WayInv == WaitInv /\ SentInv /\ DownInv /\ AnswerInv

LimitInv == LimitTyped /\ Count \in Counts /\ WayInv

USE PartsAssumption

LEMMA LimitInit == Limits!Init => LimitInv
<1> SUFFICES ASSUME Limits!Init PROVE LimitInv
  OBVIOUS
<1> USE DEF Limits!Init
<1>1. LimitTyped
  BY DEF LimitTyped
<1>2. Kept(limiter, windows)
  BY DEF Kept, Forgotten, Limits!NoClient
<1>3. limiter \in Limiters /\ windows \in Seq(Windows) /\ verdict \in Decisions
  BY DEF Limiters, Decisions, Limits!NoClient
<1>4. Count \in Counts
  BY <1>2, <1>3 DEF Count, Counts
<1>5. WayInv
  BY DEF WayInv, WaitInv, SentInv, DownInv, AnswerInv, In, Limits!ToSet, Limits!Verdicts
<1>6. QED
  BY <1>1, <1>4, <1>5 DEF LimitInv

LEMMA EntryKept ==
  ASSUME now \in Nat, NEW l \in Limiters, NEW ws \in Seq(Windows), Kept(l, ws), NEW m \in Nat
  PROVE  /\ Limits!Entry(l, m) \in Limiters /\ Kept(Limits!Entry(l, m), ws)
<1>1. CASE l.max = m
  BY <1>1 DEF Limits!Entry
<1>2. CASE l.max # m
  <2>1. PICK e : e = [max |-> m, start |-> -Interval, available |-> 0, entry |-> l.entry + 1]
    OBVIOUS
  <2>2. e = Limits!Entry(l, m)
    BY <1>2, <2>1 DEF Limits!Entry, Limits!NoClient
  <2>3. e \in Limiters /\ e.entry = l.entry + 1 /\ e.start = -Interval /\ l.entry \in Nat
    BY <2>1 DEF Limiters
  <2>4. \A i \in DOMAIN ws : ws[i] \in Windows
    OBVIOUS
  <2>5. ASSUME NEW i \in DOMAIN ws PROVE Fair(e.entry, ws[i]) /\ ws[i].entry # e.entry
    <3>1. ws[i] \in Windows /\ Fair(l.entry, ws[i])
      BY <2>4 DEF Kept
    <3>2. /\ ws[i].allowed \in Nat /\ ws[i].max \in Nat /\ ws[i].denied \in Nat
          /\ ws[i].entry \in Nat /\ ws[i].start \in Nat
      BY <3>1 DEF Windows
    <3>3. QED
      BY <2>3, <3>1, <3>2 DEF Fair
  <2>6. Forgotten(e, ws)
    BY <2>3, <2>5 DEF Forgotten
  <2>7. QED
    BY <2>2, <2>3, <2>5, <2>6 DEF Kept
<1>3. QED
  BY <1>1, <1>2

\* A window that opens when the last one is over.
LEMMA OpenedKept ==
  ASSUME now \in Nat, NEW l \in Limiters, NEW ws \in Seq(Windows), Kept(l, ws),
         now - l.start >= Interval,
         NEW x \in Windows, x.entry = l.entry, x.max = l.max, x.start = now, x.allowed = 0,
         x.denied = 0,
         NEW k \in Limiters, k.entry = l.entry, k.max = l.max, k.start = now, k.available = l.max
  PROVE  Append(ws, x) \in Seq(Windows) /\ Kept(k, Append(ws, x)) /\ Counted(k, Append(ws, x))
<1>1. PICK n : n = Len(ws)
  OBVIOUS
<1>2. PICK us : us = Append(ws, x)
  OBVIOUS
<1>3. /\ us \in Seq(Windows) /\ n \in Nat /\ DOMAIN us = 1..n + 1 /\ DOMAIN ws = 1..n
      /\ us[n + 1] = x /\ Len(us) = n + 1
      /\ \A i \in 1..n : us[i] = ws[i]
  BY <1>1, <1>2, AppendProperties
<1>4. l.max \in Nat /\ l.entry \in Nat /\ l.start \in Int
  BY DEF Limiters
<1>5. Fair(k.entry, x)
  BY <1>4 DEF Fair
<1>6. \A i \in 1..n : ws[i] \in Windows /\ Fair(l.entry, ws[i])
  BY <1>3 DEF Kept
<1>7. ASSUME NEW i \in DOMAIN us PROVE Fair(k.entry, us[i])
  <2>1. i = n + 1 \/ i \in 1..n
    BY <1>3
  <2>2. QED
    BY <2>1, <1>3, <1>5, <1>6
<1>8. ASSUME NEW i \in 1..n PROVE Apart(ws[i], x)
  <2>1. SUFFICES ASSUME ws[i].entry = l.entry PROVE now - ws[i].start >= Interval
    BY DEF Apart
  <2>2. CASE Forgotten(l, ws)
    BY <1>3, <2>1, <2>2 DEF Forgotten
  <2>3. CASE Counted(l, ws)
    <3>1. ws[n].entry = l.entry /\ ws[n].start = l.start
      BY <1>1, <2>3 DEF Counted
    <3>2. i < n => Apart(ws[i], ws[n])
      BY <1>3 DEF Kept
    <3>3. i < n => l.start - ws[i].start >= Interval
      BY <2>1, <3>1, <3>2 DEF Apart
    <3>4. ws[i].start \in Nat
      BY <1>6 DEF Windows
    <3>5. PICK t \in Nat : t = ws[i].start
      BY <3>4
    <3>6. i < n => now - t >= Interval
      BY <1>4, <3>3, <3>5
    <3>7. i = n => now - t >= Interval
      BY <3>1, <3>5
    <3>8. i = n \/ i < n
      BY <1>3
    <3>9. QED
      BY <3>5, <3>6, <3>7, <3>8
  <2>4. QED
    BY <2>2, <2>3 DEF Kept
<1>9. ASSUME NEW i \in DOMAIN us, NEW j \in DOMAIN us, i < j PROVE Apart(us[i], us[j])
  <2>1. i \in 1..n /\ us[i] = ws[i]
    BY <1>3, <1>9
  <2>2. CASE j = n + 1
    BY <1>3, <1>8, <2>1, <2>2
  <2>3. CASE j # n + 1
    <3>1. j \in 1..n /\ us[j] = ws[j]
      BY <1>3, <2>3
    <3>2. QED
      BY <1>3, <1>9, <2>1, <3>1 DEF Kept
  <2>4. QED
    BY <2>2, <2>3
<1>10. Counted(k, us)
  <2>1. us # <<>>
    BY <1>3
  <2>2. k.available = x.max - x.allowed
    BY <1>4
  <2>3. QED
    BY <1>3, <2>1, <2>2 DEF Counted
<1>11. QED
  BY <1>2, <1>3, <1>7, <1>9, <1>10 DEF Kept

Taken(x, one) ==
  [entry |-> x.entry, max |-> x.max, start |-> x.start, allowed |-> x.allowed + one,
   denied |-> x.denied + 1 - one]

LEMMA TakenRecord ==
  ASSUME NEW ws \in Seq(Windows), Len(ws) \in DOMAIN ws, NEW one
  PROVE  [ws EXCEPT ![Len(ws)].allowed = @ + one, ![Len(ws)].denied = @ + 1 - one]
           = [ws EXCEPT ![Len(ws)] = Taken(ws[Len(ws)], one)]
<1>1. PICK n : n = Len(ws)
  OBVIOUS
<1>2. PICK x : x = ws[n]
  OBVIOUS
<1>3. PICK e, m, s, a, d : x = [entry |-> e, max |-> m, start |-> s, allowed |-> a, denied |-> d]
  <2>1. x \in Windows
    BY <1>1, <1>2
  <2>2. QED
    BY <2>1 DEF Windows
<1>4. PICK z : z = [x EXCEPT !.allowed = x.allowed + one]
  OBVIOUS
<1>5. z = [entry |-> e, max |-> m, start |-> s, allowed |-> a + one, denied |-> d]
  BY <1>3, <1>4
<1>6. [z EXCEPT !.denied = x.denied + 1 - one]
        = [entry |-> e, max |-> m, start |-> s, allowed |-> a + one, denied |-> d + 1 - one]
  BY <1>3, <1>5
<1>7. [z EXCEPT !.denied = x.denied + 1 - one] = Taken(x, one)
  BY <1>3, <1>6 DEF Taken
<1>8. [[ws EXCEPT ![n] = z] EXCEPT
         ![n] = [[ws EXCEPT ![n] = z][n] EXCEPT !.denied = x.denied + 1 - one]]
        = [ws EXCEPT ![n] = Taken(x, one)]
  BY <1>1, <1>7
<1>9. QED
  BY <1>1, <1>2, <1>4, <1>8

\* A request that takes one of what the last window allows, or finds nothing left.
LEMMA TakenKept ==
  ASSUME now \in Nat, NEW l \in Limiters, NEW ws \in Seq(Windows), Kept(l, ws), Counted(l, ws),
         NEW one, one = (IF l.available > 0 THEN 1 ELSE 0),
         NEW k \in Limiters, k.entry = l.entry, k.max = l.max, k.start = l.start,
         k.available = l.available - one,
         NEW us, us = [ws EXCEPT ![Len(ws)].allowed = @ + one, ![Len(ws)].denied = @ + 1 - one]
  PROVE  us \in Seq(Windows) /\ Kept(k, us)
<1>1. PICK n : n = Len(ws)
  OBVIOUS
<1>2. n \in Nat /\ DOMAIN ws = 1..n /\ n \in 1..n
  <2>1. ws # <<>>
    BY DEF Counted
  <2>2. QED
    BY <1>1, <2>1, EmptySeq
<1>3. PICK x : x = ws[n]
  OBVIOUS
<1>4. /\ x \in Windows /\ Fair(l.entry, x)
      /\ x.entry = l.entry /\ x.max = l.max /\ x.start = l.start
      /\ l.available = x.max - x.allowed
  <2>1. x \in Windows /\ Fair(l.entry, x)
    BY <1>2, <1>3 DEF Kept
  <2>2. QED
    BY <1>1, <1>3, <2>1 DEF Counted
<1>5. PICK y : y = Taken(x, one)
  OBVIOUS
<1>6. us = [ws EXCEPT ![n] = y]
  BY <1>1, <1>2, <1>3, <1>4, <1>5, TakenRecord
<1>7. /\ x.allowed \in Nat /\ x.max \in Nat /\ x.denied \in Nat
      /\ x.entry \in Nat /\ x.start \in Nat /\ one \in {0, 1} /\ l.available \in Int
      /\ x.allowed <= x.max /\ (x.denied > 0 => x.allowed = x.max) /\ x.start <= now
  BY <1>4 DEF Windows, Fair, Limiters
<1>8. /\ y \in Windows /\ y.entry = x.entry /\ y.max = x.max /\ y.start = x.start
      /\ y.allowed = x.allowed + one /\ y.denied = x.denied + 1 - one
  <2>1. /\ y.entry = x.entry /\ y.max = x.max /\ y.start = x.start
        /\ y.allowed = x.allowed + one /\ y.denied = x.denied + 1 - one
    BY <1>5 DEF Taken
  <2>2. x.allowed + one \in Nat /\ x.denied + 1 - one \in Nat
    <3>1. x.allowed \in Nat /\ x.denied \in Nat /\ one \in {0, 1}
      BY <1>7
    <3>2. CASE one = 0
      BY <3>1, <3>2
    <3>3. CASE one = 1
      BY <3>1, <3>3
    <3>4. QED
      BY <3>1, <3>2, <3>3
  <2>3. Taken(x, one) \in Windows
    BY <1>7, <2>2 DEF Windows, Taken
  <2>4. QED
    BY <1>5, <2>1, <2>3
<1>9. Fair(l.entry, y)
  <2>1. x.entry <= l.entry /\ x.allowed + one <= x.max
    BY <1>4, <1>7
  <2>2. x.denied + 1 - one > 0 => x.allowed + one = x.max
    BY <1>4, <1>7
  <2>3. QED
    BY <1>7, <1>8, <2>1, <2>2 DEF Fair
<1>10. /\ us \in Seq(Windows) /\ Len(us) = n /\ DOMAIN us = 1..n /\ us[n] = y
       /\ \A i \in 1..n : i # n => us[i] = ws[i]
  <2>1. PICK vs : vs = [ws EXCEPT ![n] = y]
    OBVIOUS
  <2>2. vs \in Seq(Windows) /\ Len(vs) = n /\ \A j \in 1..n : vs[j] = (IF j = n THEN y ELSE ws[j])
    BY <1>1, <1>2, <1>8, <2>1, ExceptSeq
  <2>3. QED
    BY <1>2, <1>6, <2>1, <2>2
<1>11. \A i \in DOMAIN us : Fair(k.entry, us[i])
  BY <1>2, <1>9, <1>10 DEF Kept
<1>12. ASSUME NEW i \in DOMAIN us, NEW j \in DOMAIN us, i < j PROVE Apart(us[i], us[j])
  <2>1. i # n /\ us[i] = ws[i] /\ i \in DOMAIN ws /\ j \in DOMAIN ws
    BY <1>2, <1>10, <1>12
  <2>2. Apart(ws[i], ws[j])
    BY <1>12, <2>1 DEF Kept
  <2>3. CASE j = n
    BY <1>3, <1>8, <1>10, <2>1, <2>2, <2>3 DEF Apart
  <2>4. CASE j # n
    BY <1>2, <1>10, <2>1, <2>2, <2>4
  <2>5. QED
    BY <2>3, <2>4
<1>13. Counted(k, us)
  <2>1. us # <<>>
    BY <1>2, <1>10
  <2>2. k.available = y.max - y.allowed
    BY <1>4, <1>7, <1>8
  <2>3. QED
    BY <1>4, <1>8, <1>10, <2>1, <2>2 DEF Counted
<1>14. QED
  BY <1>10, <1>11, <1>12, <1>13 DEF Kept

LEMMA ConsumeKept ==
  ASSUME now \in Nat, askedMax \in [Requests -> Nat], NEW c \in Counts, NEW r \in Requests
  PROVE  /\ Limits!Consume(c, r) \in Counts
         /\ \E v \in Limits!Verdicts :
              Limits!Consume(c, r).verdict = [c.verdict EXCEPT ![r] = v]
<1>1. PICK l, ws : l = Limits!Entry(c.limiter, askedMax[r]) /\ ws = c.windows
  OBVIOUS
<1>2. l \in Limiters /\ ws \in Seq(Windows) /\ c.verdict \in Decisions /\ Kept(l, ws)
  <2>1. c.limiter \in Limiters /\ c.windows \in Seq(Windows) /\ c.verdict \in Decisions
        /\ Kept(c.limiter, c.windows) /\ askedMax[r] \in Nat
    BY DEF Counts
  <2>2. QED
    BY <1>1, <2>1, EntryKept
<1>3. PICK opens, x : /\ opens = (now - l.start >= Interval)
                      /\ x = [entry |-> l.entry, max |-> l.max, start |-> now, allowed |-> 0,
                              denied |-> 0]
  OBVIOUS
<1>4. PICK a, at, one, opened :
        /\ a = (IF opens THEN l.max ELSE l.available) /\ at = (IF opens THEN now ELSE l.start)
        /\ one = (IF a > 0 THEN 1 ELSE 0) /\ opened = (IF opens THEN Append(ws, x) ELSE ws)
  OBVIOUS
<1>5. PICK k : k = [l EXCEPT !.available = a - one, !.start = at]
  OBVIOUS
<1>6. PICK us : us = [opened EXCEPT ![Len(opened)].allowed = @ + one,
                                    ![Len(opened)].denied = @ + 1 - one]
  OBVIOUS
<1>7. PICK v : v = IF one = 1 THEN "allowed" ELSE "denied"
  OBVIOUS
<1>8. Limits!Consume(c, r)
        = [limiter |-> k, windows |-> us, verdict |-> [c.verdict EXCEPT ![r] = v]]
  BY <1>1, <1>3, <1>4, <1>5, <1>6, <1>7 DEF Limits!Consume
<1>9. l.max \in Nat /\ l.start \in Int /\ l.available \in Int /\ l.entry \in Nat
  BY <1>2 DEF Limiters
<1>10. a \in Int /\ at \in Int /\ one \in {0, 1}
  BY <1>4, <1>9
<1>11. k = [max |-> l.max, start |-> at, available |-> a - one, entry |-> l.entry]
  BY <1>2, <1>5 DEF Limiters
<1>12. PICK j : j = [max |-> l.max, start |-> at, available |-> a, entry |-> l.entry]
  OBVIOUS
<1>13. /\ k \in Limiters /\ k.entry = l.entry /\ k.max = l.max /\ k.start = at
       /\ k.available = a - one
       /\ j \in Limiters /\ j.entry = l.entry /\ j.max = l.max /\ j.start = at /\ j.available = a
  BY <1>9, <1>10, <1>11, <1>12 DEF Limiters
<1>14. opened \in Seq(Windows) /\ Kept(j, opened) /\ Counted(j, opened)
  <2>1. CASE opens
    <3>1. /\ x \in Windows /\ x.entry = l.entry /\ x.max = l.max /\ x.start = now
          /\ x.allowed = 0 /\ x.denied = 0
      BY <1>3, <1>9 DEF Windows
    <3>2. j.start = now /\ j.available = l.max /\ now - l.start >= Interval
      BY <1>3, <1>4, <1>13, <2>1
    <3>3. Append(ws, x) \in Seq(Windows) /\ Kept(j, Append(ws, x)) /\ Counted(j, Append(ws, x))
      BY <1>2, <1>13, <3>1, <3>2, OpenedKept
    <3>4. QED
      BY <1>4, <2>1, <3>3
  <2>2. CASE ~opens
    <3>1. opened = ws /\ j = l
      BY <1>2, <1>4, <1>12, <2>2 DEF Limiters
    <3>2. ~Forgotten(l, ws)
      <4>1. ~(now - l.start >= Interval)
        BY <1>3, <2>2
      <4>2. l.start # -Interval
        BY <1>9, <4>1
      <4>3. QED
        BY <4>2 DEF Forgotten
    <3>3. Counted(l, ws)
      BY <1>2, <3>2 DEF Kept
    <3>4. QED
      BY <1>2, <3>1, <3>3
  <2>3. QED
    BY <2>1, <2>2
<1>15. us \in Seq(Windows) /\ Kept(k, us)
  <2>1. one = (IF j.available > 0 THEN 1 ELSE 0) /\ k.available = j.available - one
    BY <1>4, <1>13
  <2>2. k.entry = j.entry /\ k.max = j.max /\ k.start = j.start
    BY <1>13
  <2>3. QED
    BY <1>6, <1>13, <1>14, <2>1, <2>2, TakenKept
<1>16. v \in Limits!Verdicts /\ [c.verdict EXCEPT ![r] = v] \in Decisions
  BY <1>2, <1>7 DEF Decisions, Limits!Verdicts
<1>17. QED
  BY <1>8, <1>13, <1>15, <1>16 DEF Counts

\* Induction over the numbers, as the least number outside of a set.
LEMMA Induction ==
  ASSUME NEW S \in SUBSET Nat, 0 \in S, \A n \in S : n + 1 \in S
  PROVE  \A n \in Nat : n \in S
<1> DEFINE Less == {ss \in Nat \X Nat : ss[1] < ss[2]}
<1>1. IsWellFoundedOn(Less, Nat)
  BY NatLessThanWellFounded DEF OpToRel
<1>2. SUFFICES ASSUME Nat \ S # {} PROVE FALSE
  OBVIOUS
<1>3. PICK n \in Nat \ S : \A m \in Nat \ S : ~(<<m, n>> \in Less)
  <2> HIDE DEF Less
  <2>1. PICK T : T = Nat \ S
    OBVIOUS
  <2>2. T \subseteq Nat /\ T # {}
    BY <1>2, <2>1
  <2>3. \E n \in T : \A m \in T : ~(<<m, n>> \in Less)
    BY <1>1, <2>2, WFMin
  <2>4. QED
    BY <2>1, <2>3
<1>4. n - 1 \in Nat /\ n - 1 < n
  BY <1>3
<1>5. <<n - 1, n>> \in Less
  BY <1>3, <1>4
<1>6. n - 1 \in S
  BY <1>3, <1>4, <1>5
<1>7. n - 1 + 1 = n
  BY <1>3
<1>8. QED
  BY <1>3, <1>6, <1>7

\* What f counts along a batch: c at its beginning, and after each of its requests.
Through(f, c, batch) ==
  f = [n \in 0..Len(batch) |-> IF n = 0 THEN c ELSE Limits!Consume(f[n - 1], batch[n])]

\* The steps through a batch are a function: it is there for one more step.
LEMMA StepsThere ==
  ASSUME NEW c, NEW batch \in Seq(Requests) PROVE \E f : Through(f, c, batch)
<1> DEFINE To(f, k) == f = [n \in 0..k |-> IF n = 0 THEN c ELSE Limits!Consume(f[n - 1], batch[n])]
<1> DEFINE S == {k \in Nat : \E f : To(f, k)}
<1>1. 0 \in S
  <2>1. PICK f : f = [n \in 0..0 |-> c]
    OBVIOUS
  <2>2. To(f, 0)
    BY <2>1
  <2>3. QED
    BY <2>2
<1>2. ASSUME NEW k \in S PROVE k + 1 \in S
  <2>1. k \in Nat
    OBVIOUS
  <2>2. PICK f : To(f, k)
    OBVIOUS
  <2>3. PICK g : g = [n \in 0..k + 1 |->
                        IF n = k + 1 THEN Limits!Consume(f[k], batch[k + 1]) ELSE f[n]]
    OBVIOUS
  <2>4. \A n \in 0..k : g[n] = f[n]
    BY <2>1, <2>3
  <2>5. g[k + 1] = Limits!Consume(f[k], batch[k + 1])
    BY <2>1, <2>3
  <2>6. ASSUME NEW n \in 0..k + 1
        PROVE  g[n] = IF n = 0 THEN c ELSE Limits!Consume(g[n - 1], batch[n])
    <3>1. CASE n = 0
      BY <2>1, <2>2, <2>4, <3>1
    <3>2. CASE n = k + 1
      <4>1. g[k] = f[k] /\ k = n - 1
        BY <2>1, <2>4, <3>2
      <4>2. n # 0
        BY <2>1, <3>2
      <4>3. QED
        BY <2>5, <3>2, <4>1, <4>2
    <3>3. CASE n # 0 /\ n # k + 1
      <4>1. n \in 0..k /\ n - 1 \in 0..k
        BY <2>1, <3>3
      <4>2. f[n] = Limits!Consume(f[n - 1], batch[n])
        BY <2>2, <3>3, <4>1
      <4>3. g[n] = f[n] /\ g[n - 1] = f[n - 1]
        BY <2>4, <4>1
      <4>4. QED
        BY <3>3, <4>2, <4>3
    <3>4. QED
      BY <3>1, <3>2, <3>3
  <2>7. To(g, k + 1)
    BY <2>3, <2>6
  <2>8. k + 1 \in Nat
    BY <2>1
  <2>9. QED
    BY <2>7, <2>8
<1>3. \A k \in Nat : k \in S
  <2>1. S \in SUBSET Nat
    OBVIOUS
  <2> HIDE DEF S
  <2>2. QED
    BY <1>1, <1>2, <2>1, Induction
<1>4. Len(batch) \in S
  BY <1>3
<1>5. PICK f : To(f, Len(batch))
  BY <1>4
<1>6. Through(f, c, batch)
  BY <1>5 DEF Through
<1>7. QED
  BY <1>6

LEMMA ConsumedKept ==
  ASSUME now \in Nat, askedMax \in [Requests -> Nat], NEW c \in Counts,
         NEW batch \in Seq(Requests)
  PROVE  /\ Limits!Consumed(c, batch) \in Counts
         /\ \A q \in Requests :
              /\ In(q, batch) => Limits!Consumed(c, batch).verdict[q] \in Limits!Verdicts
              /\ ~In(q, batch) => Limits!Consumed(c, batch).verdict[q] = c.verdict[q]
<1>1. PICK last : last = Len(batch)
  OBVIOUS
<1>2. last \in Nat /\ DOMAIN batch = 1..last
  BY <1>1
<1> DEFINE After == CHOOSE f : Through(f, c, batch)
<1>3. Limits!Consumed(c, batch) = After[last]
  BY <1>1 DEF Limits!Consumed, Through
<1>4. After = [n \in 0..Len(batch) |-> IF n = 0 THEN c ELSE Limits!Consume(After[n - 1], batch[n])]
  <2>1. \E f : Through(f, c, batch)
    BY StepsThere
  <2>2. Through(After, c, batch)
    BY <2>1
  <2>3. QED
    <3> HIDE DEF After
    <3>1. QED
      BY <2>2 DEF Through
<1>5. PICK f : f = After
  OBVIOUS
<1>6. f[0] = c /\ \A n \in 1..last : f[n] = Limits!Consume(f[n - 1], batch[n])
  <2> HIDE DEF After
  <2>1. \A n \in 0..last : f[n] = IF n = 0 THEN c ELSE Limits!Consume(f[n - 1], batch[n])
    BY <1>1, <1>4, <1>5
  <2>2. 0 \in 0..last /\ \A n \in 1..last : n \in 0..last /\ n # 0
    BY <1>2
  <2>3. QED
    BY <2>1, <2>2
<1> HIDE DEF After
<1> DEFINE Good(n) == /\ f[n] \in Counts
                      /\ \A q \in Requests :
                           /\ (\E i \in 1..n : batch[i] = q) => f[n].verdict[q] \in Limits!Verdicts
                           /\ ~(\E i \in 1..n : batch[i] = q) => f[n].verdict[q] = c.verdict[q]
<1> DEFINE S == {n \in Nat : n <= last => Good(n)}
<1>7. 0 \in S
  <2>1. ~\E i \in 1..0 : TRUE
    OBVIOUS
  <2>2. Good(0)
    BY <1>6, <2>1
  <2>3. QED
    BY <2>2
<1>8. ASSUME NEW n \in S PROVE n + 1 \in S
  <2>1. n \in Nat /\ n + 1 \in Nat
    OBVIOUS
  <2>2. SUFFICES ASSUME n + 1 <= last PROVE Good(n + 1)
    BY <2>1
  <2>3. Good(n)
    BY <2>1, <2>2, <1>2
  <2>4. n + 1 \in 1..last /\ n + 1 - 1 = n
    BY <1>2, <2>1, <2>2
  <2>5. PICK r \in Requests : r = batch[n + 1]
    BY <1>2, <2>4
  <2>6. f[n + 1] = Limits!Consume(f[n], r)
    BY <1>6, <2>4, <2>5
  <2>7. f[n + 1] \in Counts
    BY <2>3, <2>6, ConsumeKept
  <2>8. PICK v \in Limits!Verdicts : f[n + 1].verdict = [f[n].verdict EXCEPT ![r] = v]
    <3>1. PICK d \in Counts : d = f[n]
      BY <2>3
    <3>2. \E v \in Limits!Verdicts : Limits!Consume(d, r).verdict = [d.verdict EXCEPT ![r] = v]
      BY ConsumeKept
    <3>3. QED
      BY <2>6, <3>1, <3>2
  <2>9. f[n].verdict \in Decisions
    BY <2>3 DEF Counts
  <2>10. f[n + 1].verdict[r] = v /\ \A q \in Requests \ {r} : f[n + 1].verdict[q] = f[n].verdict[q]
    BY <2>8, <2>9 DEF Decisions
  <2>11. ASSUME NEW q \in Requests
         PROVE  (\E i \in 1..n + 1 : batch[i] = q) <=> q = r \/ \E i \in 1..n : batch[i] = q
    <3>1. \A i : i \in 1..n + 1 <=> i = n + 1 \/ i \in 1..n
      BY <2>1
    <3>2. QED
      BY <2>5, <3>1
  <2>12. QED
    BY <2>3, <2>7, <2>10, <2>11
<1>9. \A n \in Nat : n \in S
  <2>1. S \in SUBSET Nat
    OBVIOUS
  <2> HIDE DEF S
  <2>2. QED
    BY <1>7, <1>8, <2>1, Induction
<1>10. Good(last)
  <2>1. last \in S
    BY <1>2, <1>9
  <2>2. QED
    BY <1>2, <2>1
<1>11. \A q : In(q, batch) <=> \E i \in 1..last : batch[i] = q
  BY <1>2 DEF In, Limits!ToSet
<1>12. QED
  BY <1>3, <1>5, <1>10, <1>11

LEMMA CountSame ==
  ASSUME Count \in Counts, UNCHANGED <<now, limiter, windows, verdict>>
  PROVE  (Count \in Counts)'
<1>1. /\ limiter \in Limiters /\ windows \in Seq(Windows) /\ verdict \in Decisions
      /\ Kept(limiter, windows)
  BY DEF Count, Counts
<1>2. Kept(limiter, windows)'
  BY <1>1 DEF Kept, Fair, Forgotten, Counted, Apart
<1>3. QED
  BY <1>1, <1>2 DEF Count, Counts, Decisions

LEMMA CountMoves ==
  ASSUME LimitTyped, Count \in Counts, Limits!Tick \/ Limits!Clean
  PROVE  (Count \in Counts)'
<1>1. /\ limiter \in Limiters /\ windows \in Seq(Windows) /\ verdict \in Decisions
      /\ Kept(limiter, windows)
  BY DEF Count, Counts
<1>2. now \in Nat /\ limiter.start \in Int
  BY <1>1 DEF LimitTyped, Limiters
<1>3. ASSUME NEW i \in DOMAIN windows
      PROVE  Fair(limiter.entry, windows[i]) /\ windows[i].start \in Nat
  <2>1. windows[i] \in Windows
    BY <1>1
  <2>2. QED
    BY <1>1, <2>1 DEF Kept, Windows
<1>4. CASE Limits!Tick
  <2>1. now' = now + 1 /\ UNCHANGED <<limiter, windows, verdict>>
    BY <1>4 DEF Limits!Tick, Limits!limiterVars
  <2>2. ASSUME NEW i \in DOMAIN windows PROVE Fair(limiter.entry, windows[i])'
    <3>1. Fair(limiter.entry, windows[i]) /\ windows[i].start \in Nat
      BY <1>3
    <3>2. QED
      BY <1>2, <2>1, <3>1 DEF Fair
  <2>3. ASSUME Forgotten(limiter, windows) PROVE Forgotten(limiter, windows)'
    <3>1. ASSUME NEW i \in DOMAIN windows, windows[i].entry = limiter.entry
          PROVE  now + 1 - windows[i].start >= Interval
      <4>1. PICK t \in Nat : t = windows[i].start
        BY <1>3
      <4>2. now - t >= Interval
        BY <2>3, <3>1, <4>1 DEF Forgotten
      <4>3. now + 1 - t >= Interval
        BY <1>2, <4>2, PartsAssumption
      <4>4. QED
        BY <4>1, <4>3
    <3>2. limiter.start = -Interval
      BY <2>3 DEF Forgotten
    <3>3. windows' = windows /\ limiter' = limiter /\ now' = now + 1
      BY <2>1
    <3>4. ASSUME NEW i \in DOMAIN windows', windows'[i].entry = limiter'.entry
          PROVE  now' - windows'[i].start >= Interval
      <4>1. i \in DOMAIN windows /\ windows[i].entry = limiter.entry
        BY <3>3, <3>4
      <4>2. now + 1 - windows[i].start >= Interval
        BY <3>1, <4>1
      <4>3. PICK t \in Nat : t = windows[i].start
        BY <1>3, <4>1
      <4>4. now' - t >= Interval
        BY <1>2, <3>3, <4>2, <4>3, PartsAssumption
      <4>5. windows'[i].start = t
        BY <3>3, <4>3
      <4>6. QED
        BY <4>4, <4>5
    <3>5. limiter'.start = -Interval
      BY <3>2, <3>3
    <3>6. QED
      BY <3>4, <3>5 DEF Forgotten
  <2>4. Counted(limiter, windows) => Counted(limiter, windows)'
    BY <2>1 DEF Counted
  <2>5. \A i, j \in DOMAIN windows : i < j => Apart(windows[i], windows[j])
    BY <1>1 DEF Kept
  <2>6. (\A i, j \in DOMAIN windows : i < j => Apart(windows[i], windows[j]))'
    BY <2>1, <2>5 DEF Apart
  <2>7. (\A i \in DOMAIN windows : Fair(limiter.entry, windows[i]))'
    BY <2>1, <2>2
  <2>8. (Forgotten(limiter, windows) \/ Counted(limiter, windows))'
    BY <1>1, <2>3, <2>4 DEF Kept
  <2>9. Kept(limiter, windows)'
    BY <2>6, <2>7, <2>8 DEF Kept
  <2>10. QED
    BY <1>1, <2>1, <2>9 DEF Count, Counts, Decisions
<1>5. CASE Limits!Clean
  <2>1. /\ limiter.start >= 0 /\ now - (limiter.start + Interval) > Keep
        /\ limiter' = [limiter EXCEPT !.start = -Interval, !.available = 0]
        /\ UNCHANGED <<now, windows, verdict>>
    BY <1>5 DEF Limits!Clean
  <2>2. /\ limiter' \in Limiters /\ limiter'.start = -Interval
        /\ limiter'.entry = limiter.entry
    <3>1. PICK at \in Int : at = -Interval
      BY PartsAssumption
    <3>2. limiter' = [limiter EXCEPT !.start = at, !.available = 0]
      BY <2>1, <3>1
    <3>3. PICK m, e, t, a :
            /\ m \in Nat /\ e \in Nat
            /\ limiter = [max |-> m, start |-> t, available |-> a, entry |-> e]
      BY <1>1 DEF Limiters
    <3>4. limiter' = [max |-> m, start |-> at, available |-> 0, entry |-> e]
      BY <3>2, <3>3
    <3>5. limiter' \in Limiters /\ limiter'.start = at /\ limiter'.entry = limiter.entry
      BY <3>3, <3>4 DEF Limiters
    <3>6. QED
      BY <3>1, <3>5
  <2>3. ASSUME NEW i \in DOMAIN windows, windows[i].entry = limiter.entry
        PROVE  now - windows[i].start >= Interval
    <3>1. CASE Forgotten(limiter, windows)
      BY <2>3, <3>1 DEF Forgotten
    <3>2. CASE Counted(limiter, windows)
      <4>1. PICK n : n = Len(windows)
        OBVIOUS
      <4>2. n \in DOMAIN windows /\ n \in Nat /\ i \in Nat /\ (i = n \/ i < n)
        BY <1>1, <3>2, <4>1, EmptySeq DEF Counted
      <4>3. windows[n].entry = limiter.entry /\ windows[n].start = limiter.start
        BY <3>2, <4>1 DEF Counted
      <4>4. i < n => Apart(windows[i], windows[n])
        BY <1>1, <4>2 DEF Kept
      <4>5. i < n => limiter.start - windows[i].start >= Interval
        BY <2>3, <4>3, <4>4 DEF Apart
      <4>6. PICK t \in Nat : t = windows[i].start
        BY <1>3
      <4>7. i = n => t = limiter.start
        BY <4>3, <4>6
      <4>8. now - limiter.start >= Interval
        BY <1>2, <2>1, PartsAssumption
      <4>9. i < n => now - t >= Interval
        BY <1>2, <4>5, <4>6, <4>8, PartsAssumption
      <4>10. QED
        BY <4>2, <4>6, <4>7, <4>8, <4>9
    <3>3. QED
      BY <1>1, <3>1, <3>2 DEF Kept
  <2>4. Forgotten(limiter, windows)'
    BY <2>1, <2>2, <2>3 DEF Forgotten
  <2>5. (\A i \in DOMAIN windows : Fair(limiter.entry, windows[i]))'
    BY <1>3, <2>1, <2>2 DEF Fair
  <2>6. \A i, j \in DOMAIN windows : i < j => Apart(windows[i], windows[j])
    BY <1>1 DEF Kept
  <2>7. (\A i, j \in DOMAIN windows : i < j => Apart(windows[i], windows[j]))'
    BY <2>1, <2>6 DEF Apart
  <2>8. Kept(limiter, windows)'
    BY <2>4, <2>5, <2>7 DEF Kept
  <2>9. QED
    BY <1>1, <2>1, <2>2, <2>8 DEF Count, Counts, Decisions
<1>6. QED
  BY <1>4, <1>5

LEMMA InProperties ==
  /\ \A q : ~In(q, <<>>)
  /\ \A s \in Seq(Requests), e \in Requests : \A q : In(q, Append(s, e)) <=> In(q, s) \/ q = e
<1>1. \A q : ~In(q, <<>>)
  BY DEF In, Limits!ToSet
<1>2. ASSUME NEW s \in Seq(Requests), NEW e \in Requests, NEW q
      PROVE  In(q, Append(s, e)) <=> In(q, s) \/ q = e
  <2>1. PICK t : t = Append(s, e)
    OBVIOUS
  <2>2. PICK n \in Nat : n = Len(s) /\ DOMAIN s = 1..n
    OBVIOUS
  <2>3. DOMAIN t = 1..n + 1 /\ t[n + 1] = e /\ \A i \in 1..n : t[i] = s[i]
    BY <2>1, <2>2, AppendProperties
  <2>4. \A i : i \in 1..n + 1 <=> i \in 1..n \/ i = n + 1
    BY <2>2
  <2>5. In(q, t) <=> \E i \in 1..n + 1 : t[i] = q
    BY <2>3 DEF In, Limits!ToSet
  <2>6. In(q, s) <=> \E i \in 1..n : s[i] = q
    BY <2>2 DEF In, Limits!ToSet
  <2>7. QED
    BY <2>1, <2>3, <2>4, <2>5, <2>6
<1>3. QED
  BY <1>1, <1>2

LEMMA ArriveWay ==
  ASSUME LimitTyped, WayInv, NEW w \in Servers, NEW r \in Requests, Limits!Arrive(w, r)
  PROVE  LimitTyped' /\ WayInv'
<1> USE DEF WayInv
<1>1. /\ status[r] = "new" /\ status' = [status EXCEPT ![r] = "waiting"]
      /\ waiting' = [waiting EXCEPT ![w] = Append(waiting[w], r)]
      /\ askedMax' = [askedMax EXCEPT ![r] = max[w]]
      /\ UNCHANGED <<now, max, limiter, verdict, windows, flight, sent, down>>
  BY DEF Limits!Arrive, Limits!limiterVars
<1>2. LimitTyped'
  BY <1>1 DEF LimitTyped
<1>3. \A v \in Servers : \A q : In(q, waiting'[v]) <=> In(q, waiting[v]) \/ (v = w /\ q = r)
  BY <1>1, InProperties DEF LimitTyped
<1>4. \A q \in Requests : status'[q] = IF q = r THEN "waiting" ELSE status[q]
  BY <1>1 DEF LimitTyped
<1>5. verdict[r] = "none" /\ \A v \in Servers : ~In(r, waiting[v])
      /\ \A i \in DOMAIN sent[v] : ~In(r, sent[v][i])
  BY <1>1 DEF AnswerInv, WaitInv, SentInv
<1>6. WaitInv'
  <2>1. ASSUME NEW v \in Servers, NEW q \in Requests, In(q, waiting'[v])
        PROVE  /\ status'[q] = "waiting" /\ verdict[q] = "none"
               /\ \A u \in Servers : /\ u # v => ~In(q, waiting'[u])
                                     /\ \A i \in DOMAIN sent[u] : ~In(q, sent[u][i])
    <3>1. CASE q = r
      BY <1>3, <1>4, <1>5, <2>1, <3>1
    <3>2. CASE q # r
      <4>1. In(q, waiting[v])
        BY <1>3, <2>1, <3>2
      <4>2. /\ status[q] = "waiting" /\ verdict[q] = "none"
            /\ \A u \in Servers : /\ u # v => ~In(q, waiting[u])
                                  /\ \A i \in DOMAIN sent[u] : ~In(q, sent[u][i])
        BY <4>1 DEF WaitInv
      <4>3. QED
        BY <1>3, <1>4, <3>2, <4>2
    <3>3. QED
      BY <3>1, <3>2
  <2>2. QED
    BY <1>1, <2>1 DEF WaitInv
<1>7. SentInv'
  BY <1>1, <1>4 DEF SentInv
<1>8. DownInv'
  BY <1>1 DEF DownInv, Truthful
<1>9. AnswerInv'
  <2>1. \A v \in Servers : flight'[v] # <<>> => OnWay(v, flight[v])'
    BY <1>1 DEF AnswerInv, OnWay
  <2>2. ASSUME NEW q \in Requests
        PROVE  /\ status'[q] = "new" => verdict'[q] = "none"
               /\ status'[q] \in Limits!Verdicts => status'[q] = verdict'[q]
               /\ status'[q] = "waiting" =>
                    \E v \in Servers : In(q, waiting'[v]) \/ In(q, flight'[v])
    <3>1. verdict' = verdict /\ flight' = flight
      BY <1>1
    <3>2. \A v \in Servers : In(q, waiting[v]) => In(q, waiting'[v])
      BY <1>3
    <3>3. CASE q = r
      <4>1. status'[q] = "waiting" /\ "waiting" \notin Limits!Verdicts
        BY <1>4, <3>3 DEF Limits!Verdicts
      <4>2. In(q, waiting'[w])
        BY <1>3, <3>3
      <4>3. QED
        BY <4>1, <4>2
    <3>4. CASE q # r
      <4>1. status'[q] = status[q]
        BY <1>4, <3>4
      <4>2. /\ status[q] = "new" => verdict[q] = "none"
            /\ status[q] \in Limits!Verdicts => status[q] = verdict[q]
            /\ status[q] = "waiting" =>
                 \E v \in Servers : In(q, waiting[v]) \/ In(q, flight[v])
        BY DEF AnswerInv
      <4>3. QED
        BY <3>1, <3>2, <4>1, <4>2
    <3>5. QED
      BY <3>3, <3>4
  <2>3. QED
    BY <1>1, <2>1, <2>2 DEF AnswerInv
<1>10. QED
  BY <1>2, <1>6, <1>7, <1>8, <1>9

LEMMA FlushWay ==
  ASSUME LimitTyped, WayInv, NEW w \in Servers, Limits!Flush(w)
  PROVE  LimitTyped' /\ WayInv'
<1> USE DEF WayInv
<1>1. /\ flight[w] = <<>> /\ flight' = [flight EXCEPT ![w] = waiting[w]]
      /\ waiting' = [waiting EXCEPT ![w] = <<>>]
      /\ sent' = [sent EXCEPT ![w] = Append(sent[w], waiting[w])]
      /\ UNCHANGED <<now, max, limiter, verdict, windows, askedMax, down, status>>
  BY DEF Limits!Flush, Limits!limiterVars
<1>2. PICK batch \in Seq(Requests) : batch = waiting[w]
  BY DEF LimitTyped
<1>3. LimitTyped'
  <2>1. Append(sent[w], batch) \in Seq(Seq(Requests)) /\ <<>> \in Seq(Requests)
    BY <1>2, AppendProperties DEF LimitTyped
  <2>2. QED
    BY <1>1, <1>2, <2>1 DEF LimitTyped
<1>4. PICK n \in Nat : n = Len(sent[w]) /\ DOMAIN sent[w] = 1..n
  BY DEF LimitTyped
<1>5. /\ DOMAIN sent'[w] = 1..n + 1 /\ sent'[w][n + 1] = batch
      /\ \A i \in 1..n : sent'[w][i] = sent[w][i]
      /\ \A v \in Servers \ {w} : sent'[v] = sent[v]
  <2>1. sent[w] \in Seq(Seq(Requests)) /\ sent'[w] = Append(sent[w], batch)
        /\ \A v \in Servers \ {w} : sent'[v] = sent[v]
    BY <1>1, <1>2 DEF LimitTyped
  <2>2. QED
    BY <1>4, <2>1, AppendProperties
<1>6. \A i : i \in 1..n + 1 <=> i \in 1..n \/ i = n + 1
  BY <1>4
<1>7. /\ \A v \in Servers : \A q : In(q, waiting'[v]) <=> v # w /\ In(q, waiting[v])
      /\ \A v \in Servers \ {w} : flight'[v] = flight[v]
      /\ flight'[w] = batch
  BY <1>1, <1>2, InProperties DEF LimitTyped
<1>8. n + 1 \notin 1..n
  BY <1>4
<1>9. WaitInv'
  <2>1. ASSUME NEW v \in Servers, NEW q \in Requests, In(q, waiting'[v])
        PROVE  /\ status[q] = "waiting" /\ verdict[q] = "none"
               /\ \A u \in Servers : /\ u # v => ~In(q, waiting'[u])
                                     /\ \A i \in DOMAIN sent'[u] : ~In(q, sent'[u][i])
    <3>1. v # w /\ In(q, waiting[v]) /\ ~In(q, batch)
      BY <1>2, <1>7, <2>1 DEF WaitInv
    <3>2. /\ status[q] = "waiting" /\ verdict[q] = "none"
          /\ \A u \in Servers : /\ u # v => ~In(q, waiting[u])
                                /\ \A i \in DOMAIN sent[u] : ~In(q, sent[u][i])
      BY <3>1 DEF WaitInv
    <3>3. ASSUME NEW u \in Servers, NEW i \in DOMAIN sent'[u] PROVE ~In(q, sent'[u][i])
      <4>1. CASE u = w
        BY <1>4, <1>5, <1>6, <3>1, <3>2, <4>1
      <4>2. CASE u # w
        BY <1>5, <3>2, <4>2
      <4>3. QED
        BY <4>1, <4>2
    <3>4. QED
      BY <1>7, <3>2, <3>3
  <2>2. QED
    BY <1>1, <2>1 DEF WaitInv
<1>10. SentInv'
  <2>1. ASSUME NEW q \in Requests, In(q, batch)
        PROVE  /\ status[q] # "new" /\ verdict[q] = "none"
               /\ \A v \in Servers : \A i \in DOMAIN sent[v] : ~In(q, sent[v][i])
    BY <1>2, <2>1 DEF WaitInv
  <2>2. ASSUME NEW v \in Servers, NEW q \in Requests, NEW i \in DOMAIN sent'[v], In(q, sent'[v][i])
        PROVE  \/ i \in DOMAIN sent[v] /\ In(q, sent[v][i])
               \/ v = w /\ i = n + 1 /\ In(q, batch)
    BY <1>4, <1>5, <1>6, <2>2
  <2>3. ASSUME NEW v \in Servers, NEW q \in Requests, NEW i \in DOMAIN sent'[v], In(q, sent'[v][i])
        PROVE  /\ status[q] # "new" /\ verdict[q] = "none"
               /\ \A u \in Servers : \A j \in DOMAIN sent'[u] : In(q, sent'[u][j]) => u = v /\ j = i
    <3>1. CASE In(q, batch)
      BY <2>1, <2>2, <2>3, <3>1
    <3>2. CASE ~In(q, batch)
      BY <2>2, <2>3, <3>2 DEF SentInv
    <3>3. QED
      BY <3>1, <3>2
  <2>4. QED
    BY <1>1, <2>3 DEF SentInv
<1>11. DownInv'
  BY <1>1 DEF DownInv, Truthful
<1>12. AnswerInv'
  <2>1. ASSUME NEW v \in Servers, flight'[v] # <<>> PROVE OnWay(v, flight[v])'
    <3>1. CASE v = w
      BY <1>5, <1>6, <1>7, <3>1 DEF OnWay
    <3>2. CASE v # w
      BY <1>1, <1>5, <1>7, <2>1, <3>2 DEF OnWay, AnswerInv
    <3>3. QED
      BY <3>1, <3>2
  <2>2. ASSUME NEW q \in Requests, status[q] = "waiting"
        PROVE  \E v \in Servers : In(q, waiting'[v]) \/ In(q, flight'[v])
    <3>1. PICK v \in Servers : In(q, waiting[v]) \/ In(q, flight[v])
      BY <2>2 DEF AnswerInv
    <3>2. CASE v = w
      BY <1>1, <1>2, <1>7, <3>1, <3>2, InProperties
    <3>3. CASE v # w
      BY <1>7, <3>1, <3>3
    <3>4. QED
      BY <3>2, <3>3
  <2>3. QED
    BY <1>1, <2>1, <2>2 DEF AnswerInv
<1>13. QED
  BY <1>3, <1>9, <1>10, <1>11, <1>12

LEMMA TailOf ==
  ASSUME NEW T, NEW s \in Seq(T), s # <<>>
  PROVE  /\ Tail(s) \in Seq(T) /\ Len(s) \in Nat /\ 1 \in DOMAIN s
         /\ Head(s) = s[1] /\ Head(s) \in T
         /\ \A i \in DOMAIN Tail(s) : i \in Nat \ {0} /\ i + 1 \in DOMAIN s /\ Tail(s)[i] = s[i + 1]
         /\ \A i \in DOMAIN s : i = 1 \/ (i - 1 \in DOMAIN Tail(s) /\ Tail(s)[i - 1] = s[i])
<1>1. PICK n \in Nat \ {0} : n = Len(s) /\ DOMAIN s = 1..n
  BY EmptySeq
<1>2. /\ Tail(s) \in Seq(T) /\ Len(Tail(s)) = n - 1 /\ \A i \in 1..n - 1 : Tail(s)[i] = s[i + 1]
      /\ Head(s) = s[1] /\ Head(s) \in T
  BY <1>1, HeadTailProperties
<1>3. DOMAIN Tail(s) = 1..n - 1
  BY <1>1, <1>2
<1>4. \A i \in 1..n - 1 : i \in Nat \ {0} /\ i + 1 \in 1..n
  BY <1>1
<1>5. \A i \in 1..n : i = 1 \/ (i - 1 \in 1..n - 1 /\ i - 1 + 1 = i)
  BY <1>1
<1>6. 1 \in 1..n
  BY <1>1
<1>7. QED
  BY <1>1, <1>2, <1>3, <1>4, <1>5, <1>6

\* A request that is in flight is decided or in a batch to decide, and does not wait.
LEMMA FlightApart ==
  ASSUME LimitTyped, WayInv, verdict \in Decisions,
         NEW w \in Servers, NEW q \in Requests, In(q, flight[w])
  PROVE  \A v \in Servers : ~In(q, waiting[v])
<1> USE DEF WayInv
<1>1. flight[w] # <<>>
  BY InProperties
<1>2. CASE \E i \in DOMAIN sent[w] : sent[w][i] = flight[w]
  BY <1>2 DEF WaitInv
<1>3. ASSUME NEW i \in DOMAIN down[w], down[w][i].batch = flight[w]
      PROVE  \A v \in Servers : ~In(q, waiting[v])
  <2>1. PICK m \in Answers : m = down[w][i]
    BY DEF LimitTyped
  <2>2. PICK k \in DOMAIN m.batch : m.batch[k] = q
    BY <1>3, <2>1 DEF In, Limits!ToSet
  <2>3. m.verdicts[k] \in Limits!Verdicts
    BY <2>1, <2>2 DEF Answers
  <2>4. m.verdicts[k] = verdict[q]
    BY <2>1, <2>2 DEF DownInv, Truthful
  <2>5. verdict[q] # "none"
    BY <2>3, <2>4 DEF Limits!Verdicts
  <2>6. QED
    BY <2>5 DEF WaitInv
<1>4. QED
  BY <1>1, <1>2, <1>3 DEF AnswerInv, OnWay

LEMMA TimeOutWay ==
  ASSUME LimitTyped, WayInv, verdict \in Decisions, NEW w \in Servers, Limits!TimeOut(w)
  PROVE  LimitTyped' /\ WayInv'
<1> USE DEF WayInv
<1>1. /\ flight' = [flight EXCEPT ![w] = <<>>]
      /\ status' = [r \in Requests |-> IF In(r, flight[w]) THEN "failed" ELSE status[r]]
      /\ UNCHANGED <<now, max, limiter, verdict, windows, askedMax, waiting, sent, down>>
  BY DEF Limits!TimeOut, Limits!limiterVars, In
<1>2. LimitTyped'
  BY <1>1 DEF LimitTyped
<1>3. flight'[w] = <<>> /\ \A v \in Servers \ {w} : flight'[v] = flight[v]
  BY <1>1 DEF LimitTyped
<1>4. \A q \in Requests : status'[q] = IF In(q, flight[w]) THEN "failed" ELSE status[q]
  BY <1>1
<1>5. WaitInv'
  <2>1. \A v \in Servers, q \in Requests : In(q, waiting[v]) => status'[q] = status[q]
    BY <1>4, FlightApart
  <2>2. QED
    BY <1>1, <2>1 DEF WaitInv
<1>6. SentInv'
  BY <1>1, <1>4 DEF SentInv
<1>7. DownInv'
  BY <1>1 DEF DownInv, Truthful
<1>8. AnswerInv'
  <2>1. \A v \in Servers : flight'[v] # <<>> => OnWay(v, flight[v])'
    BY <1>1, <1>3 DEF AnswerInv, OnWay
  <2>2. ASSUME NEW q \in Requests
        PROVE  /\ status'[q] = "new" => verdict'[q] = "none"
               /\ status'[q] \in Limits!Verdicts => status'[q] = verdict'[q]
               /\ status'[q] = "waiting" =>
                    \E v \in Servers : In(q, waiting'[v]) \/ In(q, flight'[v])
    <3>1. CASE In(q, flight[w])
      BY <1>4, <3>1 DEF Limits!Verdicts
    <3>2. CASE ~In(q, flight[w])
      BY <1>1, <1>3, <1>4, <3>2 DEF AnswerInv
    <3>3. QED
      BY <3>1, <3>2
  <2>3. QED
    BY <1>1, <2>1, <2>2 DEF AnswerInv
<1>9. QED
  BY <1>2, <1>5, <1>6, <1>7, <1>8

LEMMA AnswerWay ==
  ASSUME LimitTyped, WayInv, verdict \in Decisions, NEW w \in Servers, Limits!Answer(w)
  PROVE  LimitTyped' /\ WayInv'
<1> USE DEF WayInv
<1>1. /\ down[w] # <<>> /\ down' = [down EXCEPT ![w] = Tail(down[w])]
      /\ UNCHANGED <<now, max, limiter, verdict, windows, askedMax, waiting, sent>>
  BY DEF Limits!Answer, Limits!limiterVars
<1>2. down[w] \in Seq(Answers)
  BY DEF LimitTyped
<1>3. PICK m \in Answers : m = Head(down[w])
  BY <1>1, <1>2, TailOf
<1>4. m = down[w][1] /\ 1 \in DOMAIN down[w]
  BY <1>1, <1>2, <1>3, TailOf
<1>5. \/ /\ m.batch = flight[w] /\ flight' = [flight EXCEPT ![w] = <<>>]
         /\ status' = [r \in Requests |->
              IF In(r, m.batch) THEN m.verdicts[Limits!Place(r, m.batch)] ELSE status[r]]
      \/ m.batch # flight[w] /\ UNCHANGED <<flight, status>>
  BY <1>3 DEF Limits!Answer, In
<1>6. ASSUME NEW q \in Requests, In(q, m.batch)
      PROVE  m.verdicts[Limits!Place(q, m.batch)] = verdict[q] /\ verdict[q] \in Limits!Verdicts
  <2>1. \E k \in DOMAIN m.batch : m.batch[k] = q
    BY <1>6 DEF In, Limits!ToSet
  <2>2. PICK k \in DOMAIN m.batch : k = Limits!Place(q, m.batch) /\ m.batch[k] = q
    BY <2>1 DEF Limits!Place
  <2>3. m.verdicts[k] \in Limits!Verdicts
    BY <2>2 DEF Answers
  <2>4. m.verdicts[k] = verdict[m.batch[k]]
    BY <1>4, <2>2 DEF DownInv, Truthful
  <2>5. QED
    BY <2>2, <2>3, <2>4
<1>7. \A q \in Requests : status'[q] = status[q] \/ (In(q, m.batch) /\ status'[q] = verdict[q])
  BY <1>5, <1>6
<1>8. DOMAIN down' = Servers /\ down'[w] = Tail(down[w]) /\ \A v \in Servers \ {w} : down'[v] = down[v]
  BY <1>1 DEF LimitTyped
<1>9. /\ \A i \in DOMAIN down'[w] : i + 1 \in DOMAIN down[w] /\ down'[w][i] = down[w][i + 1]
      /\ \A i \in DOMAIN down[w] : i = 1 \/ (i - 1 \in DOMAIN down'[w] /\ down'[w][i - 1] = down[w][i])
  BY <1>1, <1>2, <1>8, TailOf
<1>10. LimitTyped'
  <2>1. down' \in [Servers -> Seq(Answers)]
    BY <1>1, <1>2, TailOf DEF LimitTyped
  <2>2. flight' \in [Servers -> Seq(Requests)]
    <3>1. <<>> \in Seq(Requests)
      OBVIOUS
    <3>2. flight \in [Servers -> Seq(Requests)]
      BY DEF LimitTyped
    <3>3. flight' = flight \/ flight' = [flight EXCEPT ![w] = <<>>]
      BY <1>5
    <3>4. CASE flight' = flight
      BY <3>2, <3>4
    <3>5. CASE flight' = [flight EXCEPT ![w] = <<>>]
      BY <3>1, <3>2, <3>5
    <3>6. QED
      BY <3>3, <3>4, <3>5
  <2>3. \A q \in Requests : status'[q] \in {"new", "waiting", "failed"} \cup Limits!Verdicts
    BY <1>6, <1>7 DEF LimitTyped
  <2>4. status' \in [Requests -> {"new", "waiting", "failed"} \cup Limits!Verdicts]
    BY <1>5, <2>3 DEF LimitTyped
  <2>5. QED
    BY <1>1, <2>1, <2>2, <2>4 DEF LimitTyped
<1>11. WaitInv'
  <2>1. \A v \in Servers, q \in Requests : In(q, waiting[v]) => status'[q] = status[q]
    BY <1>6, <1>7 DEF WaitInv, Limits!Verdicts
  <2>2. QED
    BY <1>1, <2>1 DEF WaitInv
<1>12. SentInv'
  <2>1. \A q \in Requests : status[q] # "new" => status'[q] # "new"
    BY <1>6, <1>7 DEF Limits!Verdicts
  <2>2. QED
    BY <1>1, <2>1 DEF SentInv
<1>13. DownInv'
  <2>1. ASSUME NEW v \in Servers, NEW i \in DOMAIN down'[v] PROVE Truthful(down'[v][i])
    <3>1. CASE v = w
      BY <1>9, <3>1 DEF DownInv
    <3>2. CASE v # w
      BY <1>8, <3>2 DEF DownInv
    <3>3. QED
      BY <3>1, <3>2
  <2>2. QED
    BY <1>1, <2>1 DEF DownInv, Truthful
<1>14. AnswerInv'
  <2>1. ASSUME NEW v \in Servers, flight'[v] # <<>> PROVE OnWay(v, flight[v])'
    <3>1. CASE v = w
      <4>1. m.batch # flight[w] /\ flight' = flight
        BY <1>5, <2>1, <3>1 DEF LimitTyped
      <4>2. OnWay(w, flight[w])
        BY <2>1, <3>1, <4>1 DEF AnswerInv
      <4>3. CASE \E i \in DOMAIN sent[w] : sent[w][i] = flight[w]
        BY <1>1, <3>1, <4>1, <4>3 DEF OnWay
      <4>4. ASSUME NEW i \in DOMAIN down[w], down[w][i].batch = flight[w] PROVE OnWay(v, flight[v])'
        <5>1. i # 1
          BY <1>4, <4>1, <4>4
        <5>2. i - 1 \in DOMAIN down'[w] /\ down'[w][i - 1].batch = flight'[w]
          BY <1>9, <4>1, <4>4, <5>1
        <5>3. QED
          BY <3>1, <5>2 DEF OnWay
      <4>5. QED
        BY <4>2, <4>3, <4>4 DEF OnWay
    <3>2. CASE v # w
      <4>1. flight'[v] = flight[v]
        BY <1>5, <3>2 DEF LimitTyped
      <4>2. QED
        BY <1>1, <1>8, <2>1, <3>2, <4>1 DEF AnswerInv, OnWay
    <3>3. QED
      BY <3>1, <3>2
  <2>2. ASSUME NEW q \in Requests
        PROVE  /\ status'[q] = "new" => verdict'[q] = "none"
               /\ status'[q] \in Limits!Verdicts => status'[q] = verdict'[q]
    BY <1>1, <1>6, <1>7 DEF AnswerInv, Limits!Verdicts
  <2>3. ASSUME NEW q \in Requests, status'[q] = "waiting"
        PROVE  \E v \in Servers : In(q, waiting'[v]) \/ In(q, flight'[v])
    <3>1. status[q] = "waiting"
      BY <1>6, <1>7, <2>3 DEF Limits!Verdicts
    <3>2. PICK v \in Servers : In(q, waiting[v]) \/ In(q, flight[v])
      BY <3>1 DEF AnswerInv
    <3>3. CASE In(q, waiting[v])
      BY <1>1, <3>3
    <3>4. CASE In(q, flight[v]) /\ flight'[v] = flight[v]
      BY <3>4
    <3>5. CASE In(q, flight[v]) /\ flight'[v] # flight[v]
      <4>1. v = w /\ m.batch = flight[w] /\ status'[q] = m.verdicts[Limits!Place(q, m.batch)]
        BY <1>5, <3>5 DEF LimitTyped
      <4>2. status'[q] \in Limits!Verdicts
        BY <1>6, <3>5, <4>1
      <4>3. QED
        BY <2>3, <4>2 DEF Limits!Verdicts
    <3>6. QED
      BY <3>2, <3>3, <3>4, <3>5
  <2>4. QED
    BY <2>1, <2>2, <2>3 DEF AnswerInv
<1>15. QED
  BY <1>10, <1>11, <1>12, <1>13, <1>14

LEMMA DecideWay ==
  ASSUME LimitInv, NEW w \in Servers, Limits!Decide(w) PROVE LimitInv'
<1> USE DEF LimitInv, WayInv
<1>1. /\ sent[w] # <<>> /\ sent' = [sent EXCEPT ![w] = Tail(sent[w])]
      /\ UNCHANGED <<now, max, askedMax, waiting, flight, status>>
  BY DEF Limits!Decide
<1>2. sent[w] \in Seq(Seq(Requests)) /\ down[w] \in Seq(Answers) /\ verdict \in Decisions
  BY DEF LimitTyped, Count, Counts
<1>3. PICK batch \in Seq(Requests) : batch = Head(sent[w])
  BY <1>1, <1>2, TailOf
<1>4. batch = sent[w][1] /\ 1 \in DOMAIN sent[w]
  BY <1>1, <1>2, <1>3, TailOf
<1>5. PICK c : c = Limits!Consumed(Count, batch)
  OBVIOUS
<1>6. /\ limiter' = c.limiter /\ windows' = c.windows /\ verdict' = c.verdict
      /\ down' = [down EXCEPT ![w] = Append(down[w],
           [batch |-> batch, verdicts |-> [i \in DOMAIN batch |-> c.verdict[batch[i]]]])]
  BY <1>3, <1>5 DEF Limits!Decide, Count
<1>7. /\ c \in Counts
      /\ \A q \in Requests : /\ In(q, batch) => c.verdict[q] \in Limits!Verdicts
                             /\ ~In(q, batch) => c.verdict[q] = verdict[q]
  <2>1. now \in Nat /\ askedMax \in [Requests -> Nat] /\ Count \in Counts /\ Count.verdict = verdict
    BY DEF LimitTyped, Count
  <2>2. QED
    BY <1>5, <2>1, ConsumedKept
<1>8. PICK m : m = [batch |-> batch, verdicts |-> [i \in DOMAIN batch |-> verdict'[batch[i]]]]
  OBVIOUS
<1>9. m \in Answers /\ m.batch = batch /\ Truthful(m)'
  <2>1. PICK n \in Nat : n = Len(batch) /\ DOMAIN batch = 1..n
    OBVIOUS
  <2>2. \A i \in 1..n : batch[i] \in Requests /\ In(batch[i], batch)
    BY <2>1 DEF In, Limits!ToSet
  <2>3. PICK vs : vs = [i \in 1..n |-> verdict'[batch[i]]]
    OBVIOUS
  <2>4. \A i \in 1..n : vs[i] \in Limits!Verdicts
    BY <1>6, <1>7, <2>2, <2>3
  <2>5. vs \in Seq(Limits!Verdicts) /\ Len(vs) = n
    BY <2>1, <2>3, <2>4
  <2>6. m = [batch |-> batch, verdicts |-> vs]
    BY <1>8, <2>1, <2>3
  <2>7. m \in Answers
    BY <2>1, <2>5, <2>6 DEF Answers
  <2>8. m.batch = batch /\ m.verdicts = vs
    BY <2>6
  <2>9. \A k \in DOMAIN m.batch : m.verdicts[k] = verdict'[m.batch[k]]
    BY <2>1, <2>3, <2>8
  <2>10. QED
    BY <2>7, <2>8, <2>9 DEF Truthful
<1>10. down' = [down EXCEPT ![w] = Append(down[w], m)]
  BY <1>6, <1>8
<1>11. (Count \in Counts)'
  <2>1. c \in Counts'
    BY <1>1, <1>7 DEF Counts, Kept, Fair, Forgotten, Counted, Apart, Decisions
  <2>2. Count' = c
    BY <1>6, <1>7 DEF Count, Counts
  <2>3. QED
    BY <2>1, <2>2
<1>12. LimitTyped'
  <2>1. sent' \in [Servers -> Seq(Seq(Requests))]
    BY <1>1, <1>2, TailOf DEF LimitTyped
  <2>2. Append(down[w], m) \in Seq(Answers)
    BY <1>2, <1>9, AppendProperties
  <2>3. down' \in [Servers -> Seq(Answers)]
    BY <1>10, <2>2 DEF LimitTyped
  <2>4. QED
    BY <1>1, <2>1, <2>3 DEF LimitTyped
<1>13. /\ \A v \in Servers \ {w} : sent'[v] = sent[v] /\ down'[v] = down[v]
       /\ sent'[w] = Tail(sent[w]) /\ down'[w] = Append(down[w], m)
  BY <1>1, <1>10 DEF LimitTyped
<1>14. /\ \A i \in DOMAIN sent'[w] : /\ i \in Nat \ {0} /\ i + 1 \in DOMAIN sent[w]
                                     /\ sent'[w][i] = sent[w][i + 1]
       /\ \A i \in DOMAIN sent[w] : i = 1 \/ (i - 1 \in DOMAIN sent'[w] /\ sent'[w][i - 1] = sent[w][i])
  <2>1. PICK s \in Seq(Seq(Requests)) : s = sent[w] /\ s # <<>>
    BY <1>1, <1>2
  <2>2. /\ \A i \in DOMAIN Tail(s) : i \in Nat \ {0} /\ i + 1 \in DOMAIN s /\ Tail(s)[i] = s[i + 1]
        /\ \A i \in DOMAIN s : i = 1 \/ (i - 1 \in DOMAIN Tail(s) /\ Tail(s)[i - 1] = s[i])
    BY <2>1, TailOf
  <2>3. QED
    BY <1>13, <2>1, <2>2
<1>15. PICK n \in Nat : n = Len(down[w]) /\ DOMAIN down[w] = 1..n
  <2>1. PICK d \in Seq(Answers) : d = down[w]
    BY <1>2
  <2>2. Len(d) \in Nat /\ DOMAIN d = 1..Len(d)
    OBVIOUS
  <2>3. QED
    BY <2>1, <2>2
<1>16. /\ DOMAIN down'[w] = 1..n + 1 /\ down'[w][n + 1] = m /\ n + 1 \in 1..n + 1
       /\ \A i \in 1..n : down'[w][i] = down[w][i] /\ i \in 1..n + 1
       /\ \A i \in 1..n + 1 : i = n + 1 \/ i \in 1..n
  BY <1>2, <1>9, <1>13, <1>15, AppendProperties
<1>17. \A q \in Requests : In(q, batch) => verdict[q] = "none" /\ status[q] # "new"
  BY <1>4 DEF SentInv
<1>18. \A q \in Requests : verdict[q] # "none" => verdict'[q] = verdict[q]
  BY <1>6, <1>7, <1>17
<1>19. \A q \in Requests : ~In(q, batch) => verdict'[q] = verdict[q]
  BY <1>6, <1>7
<1>20. ASSUME NEW v \in Servers, NEW i \in DOMAIN sent'[v]
       PROVE  \E j \in DOMAIN sent[v] : /\ sent'[v][i] = sent[v][j]
                                        /\ v = w => j = i + 1 /\ i \in Nat \ {0}
                                        /\ v # w => j = i
  <2>1. CASE v = w
    BY <1>14, <2>1
  <2>2. CASE v # w
    BY <1>13, <2>2
  <2>3. QED
    BY <2>1, <2>2
<1>21. WaitInv'
  <2>1. ASSUME NEW v \in Servers, NEW q \in Requests, In(q, waiting[v])
        PROVE  /\ status[q] = "waiting" /\ verdict'[q] = "none"
               /\ \A u \in Servers : /\ u # v => ~In(q, waiting[u])
                                     /\ \A i \in DOMAIN sent'[u] : ~In(q, sent'[u][i])
    <3>1. /\ status[q] = "waiting" /\ verdict[q] = "none"
          /\ \A u \in Servers : /\ u # v => ~In(q, waiting[u])
                                /\ \A i \in DOMAIN sent[u] : ~In(q, sent[u][i])
      BY <2>1 DEF WaitInv
    <3>2. ~In(q, batch)
      BY <1>4, <3>1
    <3>3. \A u \in Servers : \A i \in DOMAIN sent'[u] : ~In(q, sent'[u][i])
      BY <1>20, <3>1
    <3>4. QED
      BY <1>19, <3>1, <3>2, <3>3
  <2>2. QED
    BY <1>1, <2>1 DEF WaitInv
<1>22. SentInv'
  <2>1. ASSUME NEW v \in Servers, NEW q \in Requests, NEW i \in DOMAIN sent'[v], In(q, sent'[v][i])
        PROVE  /\ status[q] # "new" /\ verdict'[q] = "none"
               /\ \A u \in Servers : \A j \in DOMAIN sent'[u] : In(q, sent'[u][j]) => u = v /\ j = i
    <3>1. PICK k \in DOMAIN sent[v] : /\ In(q, sent[v][k]) /\ (v = w => k = i + 1 /\ i \in Nat \ {0})
                                      /\ (v # w => k = i)
      BY <1>20, <2>1
    <3>2. /\ status[q] # "new" /\ verdict[q] = "none"
          /\ \A u \in Servers : \A j \in DOMAIN sent[u] : In(q, sent[u][j]) => u = v /\ j = k
      BY <3>1 DEF SentInv
    <3>3. ~In(q, batch)
      <4>1. CASE v = w
        BY <1>4, <3>1, <3>2, <4>1
      <4>2. CASE v # w
        BY <1>4, <3>2, <4>2
      <4>3. QED
        BY <4>1, <4>2
    <3>4. ASSUME NEW u \in Servers, NEW j \in DOMAIN sent'[u], In(q, sent'[u][j])
          PROVE  u = v /\ j = i
      <4>1. PICK l \in DOMAIN sent[u] : /\ In(q, sent[u][l]) /\ (u = w => l = j + 1 /\ j \in Nat \ {0})
                                        /\ (u # w => l = j)
        BY <1>20, <3>4
      <4>2. u = v /\ l = k
        BY <3>2, <4>1
      <4>3. CASE v = w
        BY <3>1, <4>1, <4>2, <4>3
      <4>4. CASE v # w
        BY <3>1, <4>1, <4>2, <4>4
      <4>5. QED
        BY <4>2, <4>3, <4>4
    <3>5. QED
      BY <1>19, <3>2, <3>3, <3>4
  <2>2. QED
    BY <1>1, <2>1 DEF SentInv
<1> DEFINE Tells(a) == \A k \in DOMAIN a.batch : a.verdicts[k] = verdict'[a.batch[k]]
<1>23. ASSUME NEW v \in Servers, NEW i \in DOMAIN down[v] PROVE Tells(down[v][i])
  <2>1. PICK a \in Answers : a = down[v][i]
    BY DEF LimitTyped
  <2>2. ASSUME NEW k \in DOMAIN a.batch PROVE a.verdicts[k] = verdict'[a.batch[k]]
    <3>1. a.verdicts[k] = verdict[a.batch[k]]
      BY <2>1 DEF DownInv, Truthful
    <3>2. a.verdicts[k] \in Limits!Verdicts /\ a.batch[k] \in Requests
      BY DEF Answers
    <3>3. QED
      BY <1>18, <3>1, <3>2 DEF Limits!Verdicts
  <2>3. QED
    BY <2>1, <2>2
<1>24. DownInv'
  <2>1. Tells(m)
    BY <1>9 DEF Truthful
  <2>2. ASSUME NEW v \in Servers, NEW i \in DOMAIN down'[v] PROVE Tells(down'[v][i])
    <3> HIDE DEF Tells
    <3>1. CASE v = w
      <4>1. i = n + 1 \/ i \in 1..n
        BY <1>16, <3>1
      <4>2. CASE i = n + 1
        BY <1>16, <2>1, <3>1, <4>2
      <4>3. CASE i \in 1..n
        BY <1>15, <1>16, <1>23, <3>1, <4>3
      <4>4. QED
        BY <4>1, <4>2, <4>3
    <3>2. CASE v # w
      BY <1>13, <1>23, <3>2
    <3>3. QED
      BY <3>1, <3>2
  <2>3. QED
    BY <2>2 DEF DownInv, Truthful
<1>25. AnswerInv'
  <2>1. ASSUME NEW v \in Servers, flight[v] # <<>> PROVE OnWay(v, flight[v])'
    <3>1. CASE v # w
      BY <1>1, <1>13, <2>1, <3>1 DEF AnswerInv, OnWay
    <3>2. ASSUME v = w, NEW i \in DOMAIN sent[w], sent[w][i] = flight[w] PROVE OnWay(v, flight[v])'
      <4>1. CASE i = 1
        BY <1>1, <1>4, <1>9, <1>16, <3>2, <4>1 DEF OnWay
      <4>2. CASE i # 1
        <5>1. i - 1 \in DOMAIN sent'[v] /\ sent'[v][i - 1] = flight'[v]
          BY <1>1, <1>14, <3>2, <4>2
        <5>2. QED
          BY <5>1 DEF OnWay
      <4>3. QED
        BY <4>1, <4>2
    <3>3. ASSUME v = w, NEW i \in DOMAIN down[w], down[w][i].batch = flight[w]
          PROVE  OnWay(v, flight[v])'
      BY <1>1, <1>15, <1>16, <3>3 DEF OnWay
    <3>4. QED
      BY <2>1, <3>1, <3>2, <3>3 DEF AnswerInv, OnWay
  <2>2. \A q \in Requests : /\ status[q] = "new" => verdict'[q] = "none"
                            /\ status[q] \in Limits!Verdicts => status[q] = verdict'[q]
    BY <1>17, <1>18, <1>19 DEF AnswerInv, Limits!Verdicts
  <2>3. \A q \in Requests : status[q] = "waiting" =>
          \E v \in Servers : In(q, waiting[v]) \/ In(q, flight[v])
    BY DEF AnswerInv
  <2>4. QED
    BY <1>1, <2>1, <2>2, <2>3 DEF AnswerInv
<1>26. QED
  BY <1>11, <1>12, <1>21, <1>22, <1>24, <1>25

LEMMA LimitStep == LimitInv /\ [Limits!Next]_limitVars => LimitInv'
<1> SUFFICES ASSUME LimitInv, [Limits!Next]_limitVars PROVE LimitInv'
  OBVIOUS
<1> USE DEF LimitInv
<1>1. verdict \in Decisions
  BY DEF Count, Counts
<1>2. CASE UNCHANGED limitVars
  <2>1. UNCHANGED <<now, max, limiter, askedMax, waiting, flight, sent, down, status, verdict,
                    windows>>
    BY <1>2 DEF limitVars
  <2>2. (Count \in Counts)'
    BY <2>1, CountSame
  <2>3. LimitTyped' /\ WayInv'
    BY <2>1 DEF LimitTyped, WayInv, WaitInv, SentInv, DownInv, AnswerInv, OnWay, Truthful
  <2>4. QED
    BY <2>2, <2>3
<1>3. CASE Limits!Tick \/ Limits!Clean
  <2>1. UNCHANGED <<max, askedMax, waiting, flight, sent, down, status, verdict>> /\ now' \in Nat
    BY <1>3 DEF Limits!Tick, Limits!Clean, Limits!limiterVars, Limits!wireVars, LimitTyped
  <2>2. (Count \in Counts)'
    BY <1>3, CountMoves
  <2>3. LimitTyped' /\ WayInv'
    BY <2>1 DEF LimitTyped, WayInv, WaitInv, SentInv, DownInv, AnswerInv, OnWay, Truthful
  <2>4. QED
    BY <2>2, <2>3
<1>4. ASSUME NEW w \in Servers, Limits!Reload(w) PROVE LimitInv'
  <2>1. /\ max' = [max EXCEPT ![w] = NewMax]
        /\ UNCHANGED <<now, limiter, askedMax, waiting, flight, sent, down, status, verdict,
                       windows>>
    BY <1>4 DEF Limits!Reload, Limits!limiterVars, Limits!wireVars
  <2>2. (Count \in Counts)'
    BY <2>1, CountSame
  <2>3. max' \in [Servers -> Nat]
    BY <2>1, PartsAssumption DEF LimitTyped
  <2>4. LimitTyped'
    BY <2>1, <2>3 DEF LimitTyped
  <2>5. WaitInv' /\ SentInv' /\ DownInv'
    BY <2>1 DEF WayInv, WaitInv, SentInv, DownInv, Truthful
  <2>6. AnswerInv'
    BY <2>1 DEF WayInv, AnswerInv, OnWay
  <2>7. QED
    BY <2>2, <2>4, <2>5, <2>6 DEF WayInv
<1>5. ASSUME NEW w \in Servers,
             Limits!Flush(w) \/ Limits!Answer(w) \/ Limits!TimeOut(w)
             \/ \E r \in Requests : Limits!Arrive(w, r)
      PROVE  LimitInv'
  <2>1. UNCHANGED <<now, limiter, windows, verdict>>
    BY <1>5 DEF Limits!Flush, Limits!Answer, Limits!TimeOut, Limits!Arrive, Limits!limiterVars
  <2>2. (Count \in Counts)'
    BY <2>1, CountSame
  <2>3. LimitTyped' /\ WayInv'
    BY <1>1, <1>5, FlushWay, AnswerWay, TimeOutWay, ArriveWay
  <2>4. QED
    BY <2>2, <2>3
<1>6. ASSUME NEW w \in Servers, Limits!Decide(w) PROVE LimitInv'
  BY <1>6, DecideWay
<1>7. QED
  BY <1>2, <1>3, <1>4, <1>5, <1>6 DEF Limits!Next

LEMMA LimitHolds == LimitInv => Limits!AllowanceKept /\ Limits!ToldDecision
<1> SUFFICES ASSUME LimitInv PROVE Limits!AllowanceKept /\ Limits!ToldDecision
  OBVIOUS
<1>1. Kept(limiter, windows) /\ windows \in Seq(Windows)
  BY DEF LimitInv, Count, Counts
<1>2. Limits!AllowanceKept
  BY <1>1 DEF Limits!AllowanceKept, Kept, Fair, Apart
<1>3. AnswerInv
  BY DEF LimitInv, WayInv
<1>4. ASSUME NEW r \in Requests, status[r] = "waiting", NEW w \in Servers, In(r, flight[w])
      PROVE  \/ \E i \in DOMAIN sent[w] : sent[w][i] = flight[w]
             \/ \E i \in DOMAIN down[w] : down[w][i].batch = flight[w]
  BY <1>3, <1>4, InProperties DEF AnswerInv, OnWay
<1>5. ASSUME NEW r \in Requests, status[r] = "waiting"
      PROVE  \E w \in Servers :
               \/ r \in Limits!ToSet(waiting[w])
               \/ /\ r \in Limits!ToSet(flight[w])
                  /\ flight[w] \in Limits!ToSet(sent[w])
                                     \cup {m.batch : m \in Limits!ToSet(down[w])}
  <2>1. PICK w \in Servers : In(r, waiting[w]) \/ In(r, flight[w])
    BY <1>3, <1>5 DEF AnswerInv
  <2>2. CASE In(r, waiting[w])
    BY <2>2 DEF In
  <2>3. CASE In(r, flight[w])
    <3>1. flight[w] \in Limits!ToSet(sent[w]) \cup {m.batch : m \in Limits!ToSet(down[w])}
      BY <1>4, <1>5, <2>3 DEF Limits!ToSet
    <3>2. QED
      BY <2>3, <3>1 DEF In
  <2>4. QED
    BY <2>1, <2>2, <2>3
<1>6. Limits!ToldDecision
  BY <1>3, <1>5 DEF Limits!ToldDecision, AnswerInv
<1>7. QED
  BY <1>2, <1>6

\* For any workers, requests, settings and times: the workers together get the
\* allowance of a rule once in a window, nobody is refused before it is used up, and a
\* request is told what was decided for it, or is in a batch whose answer is to come
\* (RateClient of rate_limiter.ts, consumeRateLimit of coordinator.ts,
\* flushRateLimitBatch of worker.ts).
THEOREM LimitsHonoured == PartsSpec => []LimitsKept
<1> DEFINE all == <<part, vars, deleteVars, limitVars, claimVars, fileVars, hookVars, cascadeVars,
                    updateVars, historyVars, thumbVars>>
<1>1. PartsInit => LimitInv
  BY LimitInit DEF PartsInit
<1>2. LimitInv /\ [PartsNext]_all => LimitInv'
  <2> SUFFICES ASSUME LimitInv, [PartsNext]_all PROVE LimitInv'
    OBVIOUS
  <2>1. [Limits!Next]_limitVars
    BY DEF PartsNext
  <2>2. QED
    BY <2>1, LimitStep
<1>3. LimitInv => LimitsKept
  BY LimitHolds DEF LimitsKept
<1>4. QED
  BY <1>1, <1>2, <1>3, PTL DEF PartsSpec

-----------------------------------------------------------------------------
(***************************************************************************)
(* ExpiringClaims. A claim that was not given up is the entry for as long  *)
(* as it lasts (HeldInv); so whoever is granted one meanwhile finds that   *)
(* the claims before were given up, and whoever is refused finds one.      *)
(***************************************************************************)
Entry(r, at) == [owner |-> r, expiresAt |-> at + TTL]
ClaimMessage(r) == [kind |-> "claim", from |-> r]
ReleaseMessage(r) == [kind |-> "release", from |-> r]

ClaimTyped ==
  /\ clock \in Nat
  /\ entry \in [owner : Requests \cup {0}, expiresAt : Nat]
  /\ phase \in [Requests -> Claims!Phases]
  /\ claimedAt \in [Requests -> Int] /\ refusedAt \in [Requests -> Int]

\* A request is decided once, and releases only what it has given up.
OnceInv ==
  \A r \in Requests :
    /\ claimedAt[r] <= clock
    /\ phase[r] = "new" \/ ClaimMessage(r) \in requests => claimedAt[r] = -1 /\ refusedAt[r] = -1
    /\ ClaimMessage(r) \in requests => phase[r] # "new"
    /\ ReleaseMessage(r) \in requests => r \in freed

HeldInv ==
  /\ entry # Claims!Free =>
       /\ entry.owner \in Requests /\ claimedAt[entry.owner] >= 0
       /\ entry = Entry(entry.owner, claimedAt[entry.owner])
  /\ \A q \in Requests :
       claimedAt[q] >= 0 /\ q \notin freed /\ clock < claimedAt[q] + TTL =>
         entry = Entry(q, claimedAt[q])

ClaimInv == ClaimTyped /\ OnceInv /\ HeldInv /\ Claims!OneMailAPeriod /\ Claims!RefusedInTime

LEMMA ClaimInit == Claims!Init => ClaimInv
<1> SUFFICES ASSUME Claims!Init PROVE ClaimInv
  OBVIOUS
<1> USE DEF Claims!Init
<1>1. ClaimTyped
  BY DEF ClaimTyped, Claims!Phases, Claims!Free
<1>2. OnceInv /\ HeldInv
  BY DEF OnceInv, HeldInv
<1>3. Claims!OneMailAPeriod /\ Claims!RefusedInTime
  BY DEF Claims!OneMailAPeriod, Claims!RefusedInTime
<1>4. QED
  BY <1>1, <1>2, <1>3 DEF ClaimInv

\* A request that was not decided before is granted the claim or refused it.
LEMMA DecideStep ==
  ASSUME ClaimInv, NEW r \in Requests, Claims!Decide(r), claimedAt[r] = -1,
         UNCHANGED <<clock, clustered, freed>>
  PROVE  /\ HeldInv' /\ Claims!OneMailAPeriod' /\ Claims!RefusedInTime'
         /\ entry' \in [owner : Requests \cup {0}, expiresAt : Nat]
         /\ claimedAt' \in [Requests -> Int] /\ refusedAt' \in [Requests -> Int]
         /\ \A q \in Requests : claimedAt'[q] <= clock
         /\ \A q \in Requests \ {r} : claimedAt'[q] = claimedAt[q] /\ refusedAt'[q] = refusedAt[q]
<1> USE DEF ClaimInv
<1>1. CASE /\ Claims!Stands
           /\ refusedAt' = [refusedAt EXCEPT ![r] = clock] /\ UNCHANGED <<entry, claimedAt>>
  <2>1. HeldInv' /\ Claims!OneMailAPeriod'
    BY <1>1 DEF HeldInv, Claims!OneMailAPeriod
  <2>2. Claims!RefusedInTime'
    <3> SUFFICES ASSUME clustered, NEW s \in Requests, refusedAt'[s] >= 0
                 PROVE  \E q \in Requests \ {s} :
                          claimedAt[q] >= 0 /\ refusedAt'[s] - claimedAt[q] \in 0..TTL - 1
      BY <1>1 DEF Claims!RefusedInTime
    <3>1. CASE s = r
      <4>1. /\ entry # Claims!Free /\ clock < entry.expiresAt /\ refusedAt'[r] = clock
        BY <1>1 DEF Claims!Stands, ClaimTyped
      <4> DEFINE q == entry.owner
      <4>2. q \in Requests /\ claimedAt[q] >= 0 /\ entry.expiresAt = claimedAt[q] + TTL
        BY <4>1 DEF HeldInv, Entry
      <4>3. claimedAt[q] <= clock /\ q # r /\ claimedAt[q] \in Int /\ clock \in Nat
        BY <4>2 DEF OnceInv, ClaimTyped
      <4> HIDE DEF q
      <4>4. clock - claimedAt[q] \in 0..TTL - 1
        BY <4>1, <4>2, <4>3
      <4>5. QED
        BY <3>1, <4>1, <4>2, <4>3, <4>4
    <3>2. CASE s # r
      <4>1. refusedAt'[s] = refusedAt[s]
        BY <1>1, <3>2 DEF ClaimTyped
      <4>2. QED
        BY <4>1 DEF Claims!RefusedInTime
    <3>3. QED
      BY <3>1, <3>2
  <2>3. QED
    BY <1>1, <2>1, <2>2 DEF ClaimTyped, OnceInv
<1>2. CASE /\ ~Claims!Stands /\ entry' = Entry(r, clock)
           /\ claimedAt' = [claimedAt EXCEPT ![r] = clock] /\ UNCHANGED refusedAt
  <2>1. \A q \in Requests \ {r} : claimedAt'[q] = claimedAt[q]
    BY <1>2 DEF ClaimTyped
  <2>2. claimedAt'[r] = clock /\ clock \in Nat
    BY <1>2 DEF ClaimTyped
  \* Nobody else has a claim that lasts.
  <2>3. ASSUME NEW q \in Requests \ {r}, claimedAt[q] >= 0, clock < claimedAt[q] + TTL
        PROVE  q \in freed
    <3> SUFFICES ASSUME q \notin freed PROVE FALSE
      OBVIOUS
    <3>1. entry = Entry(q, claimedAt[q])
      BY <2>3 DEF HeldInv
    <3>2. entry.expiresAt = claimedAt[q] + TTL /\ claimedAt[q] \in Int
      BY <3>1 DEF Entry, ClaimTyped
    <3>3. clock < entry.expiresAt /\ entry.expiresAt # 0
      BY <2>2, <2>3, <3>2
    <3>4. entry # Claims!Free
      BY <3>3 DEF Claims!Free
    <3>5. QED
      BY <1>2, <3>3, <3>4 DEF Claims!Stands
  <2>4. HeldInv'
    <3>1. entry'.owner = r /\ entry' = Entry(r, claimedAt'[r])
      BY <1>2, <2>2 DEF Entry
    <3>2. \A q \in Requests \ {r} :
            ~(claimedAt'[q] >= 0 /\ q \notin freed /\ clock < claimedAt'[q] + TTL)
      BY <2>1, <2>3
    <3>3. QED
      BY <2>2, <3>1, <3>2 DEF HeldInv
  <2>5. Claims!OneMailAPeriod'
    <3> SUFFICES ASSUME NEW q \in Requests, NEW s \in Requests, q # s, claimedAt'[q] >= 0,
                        claimedAt'[s] >= claimedAt'[q], claimedAt'[s] < claimedAt'[q] + TTL
                 PROVE  q \in freed \/ (claimedAt'[s] = claimedAt'[q] /\ s \in freed)
      BY DEF Claims!OneMailAPeriod
    <3>1. CASE s = r
      BY <2>1, <2>2, <2>3, <3>1
    <3>2. CASE q = r
      <4>1. claimedAt[s] \in Int /\ claimedAt[s] <= clock /\ claimedAt'[s] = claimedAt[s]
        BY <2>1, <3>2 DEF OnceInv, ClaimTyped
      <4>2. claimedAt[s] = clock /\ clock < claimedAt[s] + TTL /\ claimedAt[s] >= 0
        BY <2>2, <3>2, <4>1
      <4>3. QED
        BY <2>2, <2>3, <3>2, <4>1, <4>2
    <3>3. CASE q # r /\ s # r
      BY <2>1, <3>3 DEF Claims!OneMailAPeriod
    <3>4. QED
      BY <3>1, <3>2, <3>3
  <2>6. Claims!RefusedInTime'
    <3> SUFFICES ASSUME clustered, NEW s \in Requests, refusedAt[s] >= 0
                 PROVE  \E q \in Requests \ {s} :
                          claimedAt'[q] >= 0 /\ refusedAt[s] - claimedAt'[q] \in 0..TTL - 1
      BY <1>2 DEF Claims!RefusedInTime
    <3>1. PICK q \in Requests \ {s} :
            claimedAt[q] >= 0 /\ refusedAt[s] - claimedAt[q] \in 0..TTL - 1
      BY DEF Claims!RefusedInTime
    <3>2. q # r
      BY <3>1
    <3>3. QED
      BY <2>1, <3>1, <3>2
  <2>7. entry' \in [owner : Requests \cup {0}, expiresAt : Nat]
    BY <1>2, <2>2 DEF Entry
  <2>8. QED
    BY <1>2, <2>1, <2>2, <2>4, <2>5, <2>6, <2>7 DEF ClaimTyped, OnceInv
<1>3. QED
  BY <1>1, <1>2 DEF Claims!Decide, Entry

\* The entry is deleted when its claim is over or was given up, or it stays.
LEMMA DropStep ==
  ASSUME ClaimInv, UNCHANGED <<clock, clustered, claimedAt, refusedAt>>, freed \subseteq freed',
         \/ entry' = entry
         \/ entry' = Claims!Free /\ (entry.owner \in freed' \/ clock >= entry.expiresAt)
  PROVE  /\ HeldInv' /\ Claims!OneMailAPeriod' /\ Claims!RefusedInTime'
         /\ entry' \in [owner : Requests \cup {0}, expiresAt : Nat]
<1>1. HeldInv'
  <2>1. entry' # Claims!Free => entry' = entry
    OBVIOUS
  <2>2. ASSUME NEW q \in Requests, claimedAt[q] >= 0, q \notin freed', clock < claimedAt[q] + TTL
        PROVE  entry' = Entry(q, claimedAt[q])
    <3>1. entry = Entry(q, claimedAt[q])
      BY <2>2 DEF ClaimInv, HeldInv
    <3>2. entry.owner = q /\ entry.expiresAt = claimedAt[q] + TTL
      BY <3>1 DEF Entry
    <3>3. claimedAt[q] \in Int /\ clock \in Nat
      BY DEF ClaimInv, ClaimTyped
    <3>4. QED
      BY <2>2, <3>1, <3>2, <3>3
  <2>3. QED
    BY <2>1, <2>2 DEF ClaimInv, HeldInv
<1>2. Claims!OneMailAPeriod' /\ Claims!RefusedInTime'
  BY DEF ClaimInv, Claims!OneMailAPeriod, Claims!RefusedInTime
<1>3. entry' \in [owner : Requests \cup {0}, expiresAt : Nat]
  BY DEF ClaimInv, ClaimTyped, Claims!Free
<1>4. QED
  BY <1>1, <1>2, <1>3

LEMMA ClaimStep == ClaimInv /\ [Claims!Next]_claimVars => ClaimInv'
<1> SUFFICES ASSUME ClaimInv, [Claims!Next]_claimVars PROVE ClaimInv'
  OBVIOUS
<1>a. ClaimTyped /\ OnceInv
  BY DEF ClaimInv
<1>1. CASE Claims!Tick
  <2> USE <1>1 DEF Claims!Tick, Claims!claimVars
  <2>1. ClaimTyped' /\ OnceInv'
    BY <1>a DEF ClaimTyped, OnceInv
  <2>2. HeldInv'
    BY <1>a DEF ClaimInv, HeldInv, ClaimTyped
  <2>3. Claims!OneMailAPeriod' /\ Claims!RefusedInTime'
    BY DEF ClaimInv, Claims!OneMailAPeriod, Claims!RefusedInTime
  <2>4. QED
    BY <2>1, <2>2, <2>3 DEF ClaimInv
<1>2. CASE Claims!Confirm
  <2>1. ClaimTyped' /\ HeldInv' /\ Claims!OneMailAPeriod' /\ Claims!RefusedInTime'
    BY <1>a, <1>2, DropStep DEF Claims!Confirm, ClaimTyped
  <2>2. OnceInv'
    BY <1>a, <1>2 DEF Claims!Confirm, OnceInv
  <2>3. QED
    BY <2>1, <2>2 DEF ClaimInv
<1>3. ASSUME NEW t \in timers, Claims!Timer(t) PROVE ClaimInv'
  <2>1. entry' = entry \/ (entry' = Claims!Free /\ clock >= entry.expiresAt)
    BY <1>3 DEF Claims!Timer, Claims!Expired
  <2>2. ClaimTyped' /\ HeldInv' /\ Claims!OneMailAPeriod' /\ Claims!RefusedInTime'
    BY <1>a, <1>3, <2>1, DropStep DEF Claims!Timer, ClaimTyped
  <2>3. OnceInv'
    BY <1>a, <1>3 DEF Claims!Timer, OnceInv
  <2>4. QED
    BY <2>2, <2>3 DEF ClaimInv
<1>4. ASSUME NEW r \in Requests, Claims!Ask(r) PROVE ClaimInv'
  <2>1. CASE /\ requests' = requests \cup {ClaimMessage(r)}
             /\ phase' = [phase EXCEPT ![r] = "claiming"] /\ UNCHANGED Claims!claimVars
    <3>1. ClaimTyped' /\ HeldInv' /\ Claims!OneMailAPeriod' /\ Claims!RefusedInTime'
      BY <1>a, <1>4, <2>1, DropStep DEF Claims!Ask, Claims!claimVars, ClaimTyped, Claims!Phases
    <3>2. OnceInv'
      BY <1>a, <1>4, <2>1
        DEF Claims!Ask, Claims!claimVars, OnceInv, ClaimTyped, ClaimMessage, ReleaseMessage
    <3>3. QED
      BY <3>1, <3>2 DEF ClaimInv
  <2>2. CASE Claims!Decide(r) /\ UNCHANGED requests
             /\ phase' = [phase EXCEPT ![r] = IF Claims!Stands THEN "ended" ELSE "claimed"]
    <3>1. claimedAt[r] = -1 /\ ClaimMessage(r) \notin requests /\ phase'[r] # "new"
          /\ \A q \in Requests \ {r} : phase'[q] = phase[q]
      BY <1>a, <1>4, <2>2 DEF Claims!Ask, OnceInv, ClaimTyped
    <3>2. /\ HeldInv' /\ Claims!OneMailAPeriod' /\ Claims!RefusedInTime'
          /\ entry' \in [owner : Requests \cup {0}, expiresAt : Nat]
          /\ claimedAt' \in [Requests -> Int] /\ refusedAt' \in [Requests -> Int]
          /\ \A q \in Requests : claimedAt'[q] <= clock
          /\ \A q \in Requests \ {r} : claimedAt'[q] = claimedAt[q] /\ refusedAt'[q] = refusedAt[q]
      BY <1>4, <2>2, <3>1, DecideStep DEF Claims!Ask
    <3>3. ClaimTyped'
      BY <1>a, <1>4, <2>2, <3>2 DEF Claims!Ask, ClaimTyped, Claims!Phases
    <3>4. OnceInv'
      BY <1>a, <1>4, <2>2, <3>1, <3>2 DEF Claims!Ask, OnceInv
    <3>5. QED
      BY <3>2, <3>3, <3>4 DEF ClaimInv
  <2>3. QED
    BY <1>4, <2>1, <2>2 DEF Claims!Ask, ClaimMessage
<1>5. ASSUME NEW r \in Requests,
             Claims!Answered(r) \/ Claims!TimeOut(r) \/ Claims!StartMail(r) \/ Claims!KeepClaim(r)
      PROVE  ClaimInv'
  <2>1. /\ UNCHANGED <<clock, clustered, entry, claimedAt, refusedAt, requests, freed>>
        /\ phase[r] # "new" /\ \E next \in {"claimed", "ended", "sending"} :
                                 phase' = [phase EXCEPT ![r] = next]
    BY <1>5 DEF Claims!Answered, Claims!TimeOut, Claims!StartMail, Claims!KeepClaim,
      Claims!claimVars
  <2>2. ClaimTyped' /\ HeldInv' /\ Claims!OneMailAPeriod' /\ Claims!RefusedInTime'
    BY <1>a, <2>1, DropStep DEF ClaimTyped, Claims!Phases
  <2>3. OnceInv'
    BY <1>a, <2>1 DEF OnceInv, ClaimTyped
  <2>4. QED
    BY <2>2, <2>3 DEF ClaimInv
<1>6. ASSUME NEW r \in Requests, Claims!SkipMail(r) \/ Claims!MailFails(r) PROVE ClaimInv'
  <2>1. phase[r] # "new" /\ Claims!GiveUp(r)
    BY <1>6 DEF Claims!SkipMail, Claims!MailFails
  <2>2. entry' = entry \/ (entry' = Claims!Free /\ entry.owner \in freed')
    BY <2>1 DEF Claims!GiveUp, Claims!Released
  <2>3. ClaimTyped' /\ HeldInv' /\ Claims!OneMailAPeriod' /\ Claims!RefusedInTime'
    BY <1>a, <2>1, <2>2, DropStep DEF Claims!GiveUp, ClaimTyped, Claims!Phases
  <2>4. OnceInv'
    <3>1. phase' = [phase EXCEPT ![r] = "ended"] /\ freed' = freed \cup {r}
          /\ requests' \in {requests, requests \cup {ReleaseMessage(r)}}
          /\ UNCHANGED <<clock, claimedAt, refusedAt>>
      BY <2>1 DEF Claims!GiveUp, ReleaseMessage
    <3>2. \A q \in Requests : /\ ClaimMessage(q) \in requests' => ClaimMessage(q) \in requests
                              /\ ReleaseMessage(q) \in requests' =>
                                   q = r \/ ReleaseMessage(q) \in requests
      BY <3>1 DEF ClaimMessage, ReleaseMessage
    <3>3. \A q \in Requests : phase'[q] = "new" => phase[q] = "new"
      BY <1>a, <3>1 DEF ClaimTyped
    <3>4. \A q \in Requests : phase[q] # "new" => phase'[q] # "new"
      BY <1>a, <3>1 DEF ClaimTyped
    <3>5. QED
      BY <1>a, <3>1, <3>2, <3>3, <3>4 DEF OnceInv
  <2>5. QED
    BY <2>3, <2>4 DEF ClaimInv
<1>7. ASSUME NEW r \in Requests, Claims!HandleClaim(r) PROVE ClaimInv'
  <2>1. /\ ClaimMessage(r) \in requests /\ requests' = requests \ {ClaimMessage(r)}
        /\ Claims!Decide(r) /\ UNCHANGED <<clock, clustered, phase, freed>>
    BY <1>7 DEF Claims!HandleClaim, ClaimMessage
  <2>2. claimedAt[r] = -1 /\ phase[r] # "new"
    BY <1>a, <2>1 DEF OnceInv
  <2>3. /\ HeldInv' /\ Claims!OneMailAPeriod' /\ Claims!RefusedInTime'
        /\ entry' \in [owner : Requests \cup {0}, expiresAt : Nat]
        /\ claimedAt' \in [Requests -> Int] /\ refusedAt' \in [Requests -> Int]
        /\ \A q \in Requests : claimedAt'[q] <= clock
        /\ \A q \in Requests \ {r} : claimedAt'[q] = claimedAt[q] /\ refusedAt'[q] = refusedAt[q]
    BY <2>1, <2>2, DecideStep
  <2>4. ClaimTyped'
    BY <1>a, <2>1, <2>3 DEF ClaimTyped
  <2>5. OnceInv'
    BY <1>a, <2>1, <2>2, <2>3 DEF OnceInv
  <2>6. QED
    BY <2>3, <2>4, <2>5 DEF ClaimInv
<1>8. ASSUME NEW r \in Requests, Claims!HandleRelease(r) PROVE ClaimInv'
  <2>1. /\ ReleaseMessage(r) \in requests /\ requests' \subseteq requests
        /\ UNCHANGED <<clock, clustered, claimedAt, refusedAt, phase, freed>>
        /\ entry' = Claims!Released(r)
    BY <1>8 DEF Claims!HandleRelease, ReleaseMessage
  <2>2. entry' = entry \/ (entry' = Claims!Free /\ entry.owner \in freed')
    BY <1>a, <2>1 DEF Claims!Released, OnceInv
  <2>3. ClaimTyped' /\ HeldInv' /\ Claims!OneMailAPeriod' /\ Claims!RefusedInTime'
    BY <1>a, <2>1, <2>2, DropStep DEF ClaimTyped
  <2>4. OnceInv'
    BY <1>a, <2>1 DEF OnceInv
  <2>5. QED
    BY <2>3, <2>4 DEF ClaimInv
<1>9. CASE UNCHANGED claimVars
  BY <1>9 DEF claimVars, ClaimInv, ClaimTyped, OnceInv, HeldInv, Claims!OneMailAPeriod,
    Claims!RefusedInTime
<1>10. QED
  BY <1>1, <1>2, <1>3, <1>4, <1>5, <1>6, <1>7, <1>8, <1>9 DEF Claims!Next

\* However late releases, timers and answers come: two mails of one account are a
\* claim's time apart unless the claim before was given up, and in a cluster nobody is
\* refused after a claim is over (claim and setExpiring of the coordinator,
\* claimExpiringValue and releaseExpiringValue of the record APIs).
THEOREM ClaimsHonoured == PartsSpec => []ClaimsKept
<1> DEFINE all == <<part, vars, deleteVars, limitVars, claimVars, fileVars, hookVars, cascadeVars,
                    updateVars, historyVars, thumbVars>>
<1>1. PartsInit => ClaimInv
  BY ClaimInit DEF PartsInit
<1>2. ClaimInv /\ [PartsNext]_all => ClaimInv'
  <2> SUFFICES ASSUME ClaimInv, [PartsNext]_all PROVE ClaimInv'
    OBVIOUS
  <2>1. [Claims!Next]_claimVars
    BY DEF PartsNext
  <2>2. QED
    BY <2>1, ClaimStep
<1>3. ClaimInv => ClaimsKept
  BY DEF ClaimInv, ClaimsKept
<1>4. QED
  BY <1>1, <1>2, <1>3, PTL DEF PartsSpec
-----------------------------------------------------------------------------
(***************************************************************************)
(* CascadeDelete, for any finitely many records. That a delete terminates  *)
(* is part of it: Deleted is the function that its definition asks for, as *)
(* a delete within another has fewer records to look at (DeletedRight).    *)
(* What it leaves is then told of the whole transaction (Post).            *)
(***************************************************************************)
\* A record that names m, by what g says of deletes; all of a set of them; the
\* fields one after the other; and the whole delete.
Cut(t, f, r, m) == [t EXCEPT !.refs[f][r] = @ \ {m}]

OneBy(g, m, t, f, r) ==
  IF t.refused \/ r \notin t.rows THEN t
  ELSE IF f \in cascade /\ Cascade!Rest(t, f, r, m) = {} THEN g[t][r]
  ELSE IF f \in required /\ Cascade!Rest(t, f, r, m) = {} THEN [t EXCEPT !.refused = TRUE]
  ELSE Cut(t, f, r, m)

Pick(S) == CHOOSE x \in S : TRUE

Passes(it, g, m, t, f, S) ==
  it = [x \in SUBSET S |->
          IF x = {} THEN t ELSE OneBy(g, m, it[x \ {Pick(x)}], f, Pick(x))]

AllBy(g, m, t, f, S) == (CHOOSE it : Passes(it, g, m, t, f, S))[S]

FieldBy(g, m, t, f) ==
  IF f \in from THEN AllBy(g, m, t, f, Cascade!Naming(t, f, m)) ELSE t

First(s, m) == [s EXCEPT !.rows = @ \ {m}]

Body(g, s, m) == FieldBy(g, m, FieldBy(g, m, First(s, m), "one"), "many")

LEMMA DeletedDef ==
  Cascade!Deleted = CHOOSE g : g = [s \in Cascade!Works |-> [m \in People |-> Body(g, s, m)]]
BY DEF Cascade!Deleted, Body, FieldBy, AllBy, Passes, Pick, OneBy, Cut, First,
       Cascade!FoldSet, Cascade!MapThenFoldSet

-----------------------------------------------------------------------------
\* What a delete of m has made of s: it only takes, and takes names of what is
\* gone; what is left names nothing that went, and no cascading or required field
\* of it became empty; and what went had to go, as it is in every set with m that
\* has all that the cascading fields ask for.
Lost(s, m, t) == (s.rows \ t.rows) \union {m}

Within(s, m, t) ==
  /\ t \in Cascade!Works /\ t.rows \subseteq s.rows \ {m}
  /\ \A f \in Cascade!Fields, r \in People :
       t.refs[f][r] \subseteq s.refs[f][r] /\ s.refs[f][r] \ t.refs[f][r] \subseteq Lost(s, m, t)

Clean(s, m, t) ==
  ~t.refused => \A r \in t.rows, f \in from :
    /\ t.refs[f][r] \intersect Lost(s, m, t) \subseteq {m}
    /\ f \in cascade \union required /\ s.refs[f][r] # {} => t.refs[f][r] # {}

Asks(s, X) ==
  \A r \in s.rows, f \in cascade \intersect from :
    s.refs[f][r] # {} /\ s.refs[f][r] \subseteq X => r \in X

Blocked(s, X) ==
  \E r \in s.rows, f \in required \intersect from : s.refs[f][r] # {} /\ s.refs[f][r] \subseteq X

Forced(s, m, t) ==
  \A X \in SUBSET People : m \in X /\ Asks(s, X) =>
    Lost(s, m, t) \subseteq X /\ (t.refused /\ ~s.refused => Blocked(s, X))

Mid(s, m, t) == Within(s, m, t) /\ Clean(s, m, t) /\ Forced(s, m, t)

Unnamed(m, t, f) == ~t.refused => \A r \in t.rows : m \notin t.refs[f][r]

Post(s, m, t) == Mid(s, m, t) /\ \A f \in from : Unnamed(m, t, f)

\* What a step of a delete does to what there is.
Shrinks(t, u) ==
  /\ u \in Cascade!Works /\ u.rows \subseteq t.rows /\ (t.refused => u.refused)
  /\ \A f \in Cascade!Fields, r \in People : u.refs[f][r] \subseteq t.refs[f][r]

Rank(s, m) == Cardinality(s.rows \ {m})

Right(g, k) == \A t \in Cascade!Works, r \in People : Rank(t, r) < k => Post(t, r, g[t][r])

Alike(g, h, k) == \A t \in Cascade!Works, r \in People : Rank(t, r) < k => g[t][r] = h[t][r]

LEMMA WorkTypes ==
  ASSUME NEW t \in Cascade!Works
  PROVE  /\ t.rows \in SUBSET People /\ t.refused \in BOOLEAN
         /\ t.refs \in [Cascade!Fields -> [People -> SUBSET People]]
         /\ \A f \in Cascade!Fields, r \in People : t.refs[f][r] \in SUBSET People
<1>1. /\ t.rows \in SUBSET People /\ t.refused \in BOOLEAN
      /\ t.refs \in [Cascade!Fields -> [People -> SUBSET People]]
  BY DEF Cascade!Works, Cascade!Groups, Cascade!Data
<1>2. ASSUME NEW f \in Cascade!Fields, NEW r \in People PROVE t.refs[f][r] \in SUBSET People
  BY <1>1
<1>3. QED
  BY <1>1, <1>2

LEMMA WorkRecord ==
  ASSUME NEW R \in SUBSET People, NEW b \in BOOLEAN,
         NEW d \in [Cascade!Fields -> [People -> SUBSET People]]
  PROVE  [rows |-> R, refs |-> d, refused |-> b] \in Cascade!Works
BY DEF Cascade!Works, Cascade!Groups, Cascade!Data

\* The steps that change the record itself.
LEMMA CutRecord ==
  ASSUME NEW t \in Cascade!Works, NEW f \in Cascade!Fields, NEW r \in People, NEW m,
         NEW u, u = Cut(t, f, r, m)
  PROVE  /\ u \in Cascade!Works /\ u.rows = t.rows /\ u.refused = t.refused
         /\ u.refs[f][r] = t.refs[f][r] \ {m}
         /\ \A e \in Cascade!Fields, q \in People :
              e # f \/ q # r => u.refs[e][q] = t.refs[e][q]
<1>1. /\ t.rows \in SUBSET People /\ t.refused \in BOOLEAN
      /\ t.refs \in [Cascade!Fields -> [People -> SUBSET People]]
      /\ \A e \in Cascade!Fields, q \in People : t.refs[e][q] \in SUBSET People
  BY WorkTypes
<1>2. PICK d : d = [t.refs EXCEPT ![f][r] = @ \ {m}]
  OBVIOUS
<1>3. /\ d \in [Cascade!Fields -> [People -> SUBSET People]]
      /\ d[f][r] = t.refs[f][r] \ {m}
      /\ \A e \in Cascade!Fields, q \in People : e # f \/ q # r => d[e][q] = t.refs[e][q]
  BY <1>1, <1>2
<1>4. u = [rows |-> t.rows, refs |-> d, refused |-> t.refused]
  BY <1>2 DEF Cut, Cascade!Works
<1>5. u.rows = t.rows /\ u.refused = t.refused /\ u.refs = d
  BY <1>4
<1>6. u \in Cascade!Works
  <2>1. [rows |-> t.rows, refs |-> d, refused |-> t.refused] \in Cascade!Works
    BY <1>1, <1>3, WorkRecord
  <2>2. QED
    BY <1>4, <2>1
<1>7. QED
  BY <1>3, <1>5, <1>6

LEMMA RefuseRecord ==
  ASSUME NEW t \in Cascade!Works, NEW u, u = [t EXCEPT !.refused = TRUE]
  PROVE  u \in Cascade!Works /\ u.rows = t.rows /\ u.refs = t.refs /\ u.refused
BY DEF Cascade!Works

LEMMA FirstRecord ==
  ASSUME NEW s \in Cascade!Works, NEW m
  PROVE  /\ First(s, m) \in Cascade!Works /\ First(s, m).rows = s.rows \ {m}
         /\ First(s, m).refs = s.refs /\ First(s, m).refused = s.refused
<1>1. First(s, m) = [rows |-> s.rows \ {m}, refs |-> s.refs, refused |-> s.refused]
  BY DEF First, Cascade!Works
<1>2. QED
  BY <1>1 DEF Cascade!Works, Cascade!Groups

-----------------------------------------------------------------------------
\* What is asked for by what is left was asked for before.
LEMMA AsksOn ==
  ASSUME NEW s \in Cascade!Works, NEW m \in People, NEW t, Within(s, m, t),
         from \in SUBSET Cascade!Fields,
         NEW X \in SUBSET People, Asks(s, X), Lost(s, m, t) \subseteq X
  PROVE  Asks(t, X) /\ (Blocked(t, X) => Blocked(s, X))
<1>1. t \in Cascade!Works /\ t.rows \subseteq s.rows /\ s.rows \subseteq People
  BY WorkTypes DEF Within
<1>2. ASSUME NEW r \in t.rows, NEW f \in cascade \intersect from,
             t.refs[f][r] # {}, t.refs[f][r] \subseteq X
      PROVE  r \in X
  <2>1. f \in Cascade!Fields /\ r \in People /\ r \in s.rows
    BY <1>1
  <2>2. s.refs[f][r] # {} /\ s.refs[f][r] \subseteq X
    BY <1>2, <2>1 DEF Within
  <2>3. QED
    BY <2>1, <2>2 DEF Asks
<1>3. ASSUME Blocked(t, X) PROVE Blocked(s, X)
  <2>1. PICK r \in t.rows, f \in required \intersect from :
          t.refs[f][r] # {} /\ t.refs[f][r] \subseteq X
    BY <1>3 DEF Blocked
  <2>2. f \in Cascade!Fields /\ r \in People /\ r \in s.rows
    BY <1>1
  <2>3. s.refs[f][r] # {} /\ s.refs[f][r] \subseteq X
    BY <2>1, <2>2 DEF Within
  <2>4. QED
    BY <2>2, <2>3 DEF Blocked
<1>4. QED
  BY <1>2, <1>3 DEF Asks

\* A record that names nothing but what went has to go, if a cascading field asks
\* for it; and blocks the delete, if a required one does.
LEMMA LastName ==
  ASSUME NEW s \in Cascade!Works, NEW m \in People, NEW t, Within(s, m, t),
         from \in SUBSET Cascade!Fields,
         NEW f \in from, NEW r \in t.rows, s.refs[f][r] # {}, t.refs[f][r] \subseteq {m},
         NEW X \in SUBSET People, Asks(s, X), Lost(s, m, t) \subseteq X
  PROVE  (f \in cascade => r \in X) /\ (f \in required => Blocked(s, X))
<1>1. r \in s.rows /\ r \in People /\ f \in Cascade!Fields
  BY WorkTypes DEF Within
<1>2. t.refs[f][r] \subseteq X
  BY DEF Lost
<1>3. s.refs[f][r] \subseteq X
  BY <1>1, <1>2 DEF Within
<1>4. QED
  BY <1>1, <1>3 DEF Asks, Blocked

\* The delete of a record that has to go is one more part of the delete.
LEMMA Compose ==
  ASSUME NEW s \in Cascade!Works, NEW m \in People, NEW t, Mid(s, m, t), ~t.refused,
         from \in SUBSET Cascade!Fields,
         NEW r \in t.rows, NEW u, Post(t, r, u),
         \A X \in SUBSET People : m \in X /\ Asks(s, X) /\ Lost(s, m, t) \subseteq X => r \in X
  PROVE  Mid(s, m, u) /\ Shrinks(t, u) /\ r \notin u.rows
<1>1. /\ t \in Cascade!Works /\ t.rows \subseteq s.rows \ {m} /\ s.rows \subseteq People
      /\ r \in People /\ r \in s.rows /\ r # m
      /\ \A f \in Cascade!Fields, q \in People :
           t.refs[f][q] \subseteq s.refs[f][q] /\ s.refs[f][q] \ t.refs[f][q] \subseteq Lost(s, m, t)
  BY WorkTypes DEF Mid, Within
<1>2. /\ u \in Cascade!Works /\ u.rows \subseteq t.rows \ {r}
      /\ \A f \in Cascade!Fields, q \in People :
           u.refs[f][q] \subseteq t.refs[f][q] /\ t.refs[f][q] \ u.refs[f][q] \subseteq Lost(t, r, u)
  BY DEF Post, Mid, Within
<1>3. Lost(s, m, u) = Lost(s, m, t) \union Lost(t, r, u) /\ m \notin Lost(t, r, u)
  BY <1>1, <1>2 DEF Lost
<1>4. Within(s, m, u)
  <2>1. ASSUME NEW f \in Cascade!Fields, NEW q \in People
        PROVE  /\ u.refs[f][q] \subseteq s.refs[f][q]
               /\ s.refs[f][q] \ u.refs[f][q] \subseteq Lost(s, m, u)
    <3>1. t.refs[f][q] \subseteq s.refs[f][q] /\ s.refs[f][q] \ t.refs[f][q] \subseteq Lost(s, m, t)
      BY <1>1
    <3>2. u.refs[f][q] \subseteq t.refs[f][q] /\ t.refs[f][q] \ u.refs[f][q] \subseteq Lost(t, r, u)
      BY <1>2
    <3>3. QED
      BY <1>3, <3>1, <3>2
  <2>2. QED
    BY <1>1, <1>2, <2>1 DEF Within
<1>5. Clean(s, m, u)
  <2>1. SUFFICES ASSUME ~u.refused, NEW q \in u.rows, NEW f \in from
                 PROVE  /\ u.refs[f][q] \intersect Lost(s, m, u) \subseteq {m}
                        /\ f \in cascade \union required /\ s.refs[f][q] # {} => u.refs[f][q] # {}
    BY DEF Clean
  <2>2. q \in t.rows /\ q \in People /\ f \in Cascade!Fields
    BY <1>1, <1>2
  <2>3. /\ u.refs[f][q] \intersect Lost(t, r, u) \subseteq {r}
        /\ f \in cascade \union required /\ t.refs[f][q] # {} => u.refs[f][q] # {}
    BY <2>1 DEF Post, Mid, Clean
  <2>4. r \notin u.refs[f][q]
    BY <2>1 DEF Post, Unnamed
  <2>5. /\ t.refs[f][q] \intersect Lost(s, m, t) \subseteq {m}
        /\ f \in cascade \union required /\ s.refs[f][q] # {} => t.refs[f][q] # {}
    BY <2>2 DEF Mid, Clean
  <2>6. u.refs[f][q] \subseteq t.refs[f][q]
    BY <1>2, <2>2
  <2>7. QED
    BY <1>3, <2>3, <2>4, <2>5, <2>6
<1>6. Forced(s, m, u)
  <2>1. SUFFICES ASSUME NEW X \in SUBSET People, m \in X, Asks(s, X)
                 PROVE  /\ Lost(s, m, u) \subseteq X
                        /\ (u.refused /\ ~s.refused => Blocked(s, X))
    BY DEF Forced
  <2>2. Lost(s, m, t) \subseteq X
    BY <2>1 DEF Mid, Forced
  <2>3. r \in X
    BY <2>1, <2>2
  <2>4. Asks(t, X) /\ (Blocked(t, X) => Blocked(s, X))
    BY <2>1, <2>2, AsksOn DEF Mid
  <2>5. Lost(t, r, u) \subseteq X /\ (u.refused => Blocked(t, X))
    BY <2>3, <2>4 DEF Post, Mid, Forced
  <2>6. QED
    BY <1>3, <2>2, <2>4, <2>5
<1>7. Shrinks(t, u)
  BY <1>2 DEF Shrinks
<1>8. QED
  BY <1>2, <1>4, <1>5, <1>6, <1>7 DEF Mid

-----------------------------------------------------------------------------
\* A delete within another has less to look at.
LEMMA Smaller ==
  ASSUME IsFiniteSet(People), NEW s \in Cascade!Works, NEW m \in People,
         NEW t \in Cascade!Works, t.rows \subseteq s.rows \ {m}, NEW r \in t.rows
  PROVE  Rank(t, r) \in Nat /\ Rank(s, m) \in Nat /\ Rank(t, r) < Rank(s, m)
<1>1. PICK S, T : S = s.rows \ {m} /\ T = t.rows \ {r}
  OBVIOUS
<1>2. S \in SUBSET People /\ T \in SUBSET S /\ r \in S /\ r \notin T
  BY <1>1, WorkTypes
<1>3. IsFiniteSet(S) /\ Cardinality(S) \in Nat
  BY <1>2, FS_Subset, FS_CardinalityType
<1>4. IsFiniteSet(T) /\ Cardinality(T) \in Nat /\ Cardinality(T) <= Cardinality(S)
  BY <1>2, <1>3, FS_Subset, FS_CardinalityType
<1>5. Cardinality(T) # Cardinality(S)
  BY <1>2, <1>3, FS_Subset
<1>6. Cardinality(T) < Cardinality(S)
  BY <1>3, <1>4, <1>5
<1>7. QED
  BY <1>1, <1>3, <1>4, <1>6 DEF Rank

\* One record that names m.
LEMMA OneStep ==
  ASSUME IsFiniteSet(People), from \in SUBSET Cascade!Fields,
         NEW k \in Nat, NEW g, Right(g, k),
         NEW s \in Cascade!Works, NEW m \in People, Rank(s, m) <= k, NEW t, Mid(s, m, t),
         NEW f \in from, NEW r \in People, s.refs[f][r] # {},
         NEW u, u = OneBy(g, m, t, f, r)
  PROVE  /\ Mid(s, m, u) /\ Shrinks(t, u)
         /\ ~u.refused /\ r \in u.rows => m \notin u.refs[f][r]
         /\ \A h : Alike(g, h, k) => OneBy(h, m, t, f, r) = u
<1>1. /\ t \in Cascade!Works /\ t.rows \subseteq s.rows \ {m} /\ s.rows \subseteq People
      /\ f \in Cascade!Fields /\ t.refused \in BOOLEAN
      /\ \A e \in Cascade!Fields, q \in People :
           t.refs[e][q] \subseteq s.refs[e][q] /\ s.refs[e][q] \ t.refs[e][q] \subseteq Lost(s, m, t)
  BY WorkTypes DEF Mid, Within
<1>2. CASE t.refused \/ r \notin t.rows
  <2>1. u = t /\ \A h : OneBy(h, m, t, f, r) = t
    BY <1>2 DEF OneBy
  <2>2. QED
    BY <1>1, <1>2, <2>1 DEF Shrinks
<1>3. CASE ~t.refused /\ r \in t.rows /\ f \in cascade /\ Cascade!Rest(t, f, r, m) = {}
  <2>1. u = g[t][r] /\ \A h : OneBy(h, m, t, f, r) = h[t][r]
    BY <1>3 DEF OneBy
  <2>2. Rank(t, r) < k
    BY <1>1, <1>3, Smaller
  <2>3. Post(t, r, u)
    BY <1>1, <2>1, <2>2 DEF Right
  <2>4. ASSUME NEW X \in SUBSET People, m \in X, Asks(s, X), Lost(s, m, t) \subseteq X
        PROVE  r \in X
    <3>1. t.refs[f][r] \subseteq {m}
      BY <1>3 DEF Cascade!Rest
    <3>2. QED
      BY <1>3, <2>4, <3>1, LastName DEF Mid
  <2>5. Mid(s, m, u) /\ Shrinks(t, u) /\ r \notin u.rows
    BY <1>3, <2>3, <2>4, Compose
  <2>6. ASSUME NEW h, Alike(g, h, k) PROVE OneBy(h, m, t, f, r) = u
    <3>1. g[t][r] = h[t][r]
      BY <1>1, <2>2, <2>6 DEF Alike
    <3>2. QED
      BY <2>1, <3>1
  <2>7. QED
    BY <2>5, <2>6
<1>4. CASE /\ ~t.refused /\ r \in t.rows /\ Cascade!Rest(t, f, r, m) = {}
           /\ f \notin cascade /\ f \in required
  <2>1. u = [t EXCEPT !.refused = TRUE] /\ \A h : OneBy(h, m, t, f, r) = u
    BY <1>4 DEF OneBy
  <2>2. u \in Cascade!Works /\ u.rows = t.rows /\ u.refs = t.refs /\ u.refused
    BY <1>1, <2>1, RefuseRecord
  <2>3. Lost(s, m, u) = Lost(s, m, t)
    BY <2>2 DEF Lost
  <2>4. Within(s, m, u)
    BY <1>1, <2>2, <2>3 DEF Within
  <2>5. ASSUME NEW X \in SUBSET People, m \in X, Asks(s, X)
        PROVE  Lost(s, m, u) \subseteq X /\ Blocked(s, X)
    <3>1. Lost(s, m, t) \subseteq X
      BY <2>5 DEF Mid, Forced
    <3>2. t.refs[f][r] \subseteq {m}
      BY <1>4 DEF Cascade!Rest
    <3>3. Blocked(s, X)
      BY <1>4, <2>5, <3>1, <3>2, LastName DEF Mid
    <3>4. QED
      BY <2>3, <3>1, <3>3
  <2>6. Forced(s, m, u)
    BY <2>5 DEF Forced
  <2>7. Clean(s, m, u)
    BY <2>2 DEF Clean
  <2>8. Shrinks(t, u)
    BY <2>2 DEF Shrinks
  <2>9. QED
    BY <2>1, <2>2, <2>4, <2>6, <2>7, <2>8 DEF Mid
<1>5. CASE /\ ~t.refused /\ r \in t.rows
           /\ Cascade!Rest(t, f, r, m) # {} \/ f \notin cascade \union required
  <2>1. u = Cut(t, f, r, m) /\ \A h : OneBy(h, m, t, f, r) = u
    BY <1>5 DEF OneBy
  <2>2. /\ u \in Cascade!Works /\ u.rows = t.rows /\ u.refused = t.refused
        /\ u.refs[f][r] = t.refs[f][r] \ {m}
        /\ \A e \in Cascade!Fields, q \in People :
              e # f \/ q # r => u.refs[e][q] = t.refs[e][q]
    BY <1>1, <2>1, CutRecord
  <2>3. Lost(s, m, u) = Lost(s, m, t) /\ m \in Lost(s, m, t)
    BY <2>2 DEF Lost
  <2>4. ASSUME NEW e \in Cascade!Fields, NEW q \in People
        PROVE  /\ u.refs[e][q] \subseteq t.refs[e][q] /\ t.refs[e][q] \ u.refs[e][q] \subseteq {m}
               /\ u.refs[e][q] \subseteq s.refs[e][q]
               /\ s.refs[e][q] \ u.refs[e][q] \subseteq Lost(s, m, u)
    <3>1. u.refs[e][q] \subseteq t.refs[e][q] /\ t.refs[e][q] \ u.refs[e][q] \subseteq {m}
      BY <2>2
    <3>2. t.refs[e][q] \subseteq s.refs[e][q] /\ s.refs[e][q] \ t.refs[e][q] \subseteq Lost(s, m, t)
      BY <1>1
    <3>3. QED
      BY <2>3, <3>1, <3>2
  <2>5. Within(s, m, u)
    BY <1>1, <2>2, <2>4 DEF Within
  <2>6. Forced(s, m, u)
    BY <2>2, <2>3 DEF Mid, Forced
  <2>7. Clean(s, m, u)
    <3>1. SUFFICES ASSUME ~u.refused, NEW q \in u.rows, NEW e \in from
                   PROVE  /\ u.refs[e][q] \intersect Lost(s, m, u) \subseteq {m}
                          /\ e \in cascade \union required /\ s.refs[e][q] # {}
                             => u.refs[e][q] # {}
      BY DEF Clean
    <3>2. q \in t.rows /\ q \in People /\ e \in Cascade!Fields
      BY <1>1, <2>2
    <3>3. /\ t.refs[e][q] \intersect Lost(s, m, t) \subseteq {m}
          /\ e \in cascade \union required /\ s.refs[e][q] # {} => t.refs[e][q] # {}
      BY <1>5, <3>2 DEF Mid, Clean
    <3>4. u.refs[e][q] \subseteq t.refs[e][q]
      BY <2>4, <3>2
    <3>5. e \in cascade \union required /\ t.refs[e][q] # {} => u.refs[e][q] # {}
      <4>1. CASE e = f /\ q = r
        BY <1>5, <2>2, <4>1 DEF Cascade!Rest
      <4>2. CASE e # f \/ q # r
        BY <2>2, <3>2, <4>2
      <4>3. QED
        BY <4>1, <4>2
    <3>6. QED
      BY <2>3, <3>3, <3>4, <3>5
  <2>8. Shrinks(t, u)
    BY <2>2, <2>4 DEF Shrinks
  <2>9. QED
    BY <2>1, <2>2, <2>5, <2>6, <2>7, <2>8 DEF Mid
<1>6. QED
  BY <1>1, <1>2, <1>3, <1>4, <1>5

-----------------------------------------------------------------------------
LEMMA Without ==
  ASSUME NEW x, IsFiniteSet(x), NEW e \in x
  PROVE  Cardinality(x \ {e}) = Cardinality(x) - 1
BY FS_RemoveElement

\* What holds of a set when it holds of the set without the one picked first.
LEMMA PickedInduction ==
  ASSUME NEW S, IsFiniteSet(S), NEW G \in SUBSET SUBSET S,
         \A x \in SUBSET S : x = {} \/ x \ {Pick(x)} \in G => x \in G
  PROVE  S \in G
<1> DEFINE K == {j \in Nat : \A x \in SUBSET S : Cardinality(x) < j => x \in G}
<1>1. \A x \in SUBSET S : IsFiniteSet(x) /\ Cardinality(x) \in Nat
  BY FS_Subset, FS_CardinalityType
<1>2. 0 \in K
  BY <1>1
<1>3. ASSUME NEW j \in K PROVE j + 1 \in K
  <2>1. ASSUME NEW x \in SUBSET S, Cardinality(x) < j + 1, x # {} PROVE x \in G
    <3>1. Pick(x) \in x
      BY <2>1 DEF Pick
    <3>2. Cardinality(x \ {Pick(x)}) = Cardinality(x) - 1
      <4>1. PICK e \in x : e = Pick(x)
        BY <3>1
      <4>2. Cardinality(x \ {e}) = Cardinality(x) - 1
        BY <1>1, Without
      <4>3. QED
        BY <4>1, <4>2
    <3>3. Cardinality(x \ {Pick(x)}) < j
      BY <1>1, <2>1, <3>2
    <3>4. QED
      BY <1>3, <2>1, <3>3
  <2>2. QED
    BY <2>1
<1>4. S \in G
  <2>1. PICK T : T = K
    OBVIOUS
  <2>2. T \in SUBSET Nat /\ 0 \in T /\ \A j \in T : j + 1 \in T
    BY <1>2, <1>3, <2>1
  <2>3. \A j \in Nat : j \in T
    BY <2>2, Induction
  <2>4. Cardinality(S) \in Nat /\ Cardinality(S) < Cardinality(S) + 1
    BY <1>1
  <2>5. Cardinality(S) + 1 \in K
    BY <2>1, <2>3, <2>4
  <2>6. QED
    BY <2>4, <2>5
<1>5. QED
  BY <1>4

Passed(it, g, m, t, f, x) ==
  IF x = {} THEN t ELSE OneBy(g, m, it[x \ {Pick(x)}], f, Pick(x))

LEMMA PassesIs ==
  ASSUME NEW it, NEW g, NEW m, NEW t, NEW f, NEW S
  PROVE  Passes(it, g, m, t, f, S) <=> it = [x \in SUBSET S |-> Passed(it, g, m, t, f, x)]
BY DEF Passes, Passed

\* Some function is the pass over the set.
LEMMA Passing ==
  ASSUME NEW g, NEW m, NEW t, NEW f, NEW S, IsFiniteSet(S)
  PROVE  \E it : Passes(it, g, m, t, f, S)
<1> DEFINE Upto(it, j) == /\ DOMAIN it = SUBSET S
                          /\ it = [x \in SUBSET S |-> it[x]]
                          /\ \A x \in SUBSET S : Cardinality(x) < j => it[x] = Passed(it, g, m, t, f, x)
           K == {j \in Nat : \E it : Upto(it, j)}
<1>1. \A x \in SUBSET S : IsFiniteSet(x) /\ Cardinality(x) \in Nat
  BY FS_Subset, FS_CardinalityType
<1>2. 0 \in K
  <2>1. PICK it : it = [x \in SUBSET S |-> t]
    OBVIOUS
  <2>2. DOMAIN it = SUBSET S /\ it = [x \in SUBSET S |-> it[x]]
    BY <2>1
  <2>3. Upto(it, 0)
    BY <1>1, <2>2
  <2>4. QED
    BY <2>3
<1>3. ASSUME NEW j \in K PROVE j + 1 \in K
  <2>1. PICK it : Upto(it, j)
    BY <1>3
  <2>2. PICK to : to = [x \in SUBSET S |-> Passed(it, g, m, t, f, x)]
    OBVIOUS
  <2>3. DOMAIN to = SUBSET S /\ to = [x \in SUBSET S |-> to[x]]
    BY <2>2
  <2>4. ASSUME NEW x \in SUBSET S, Cardinality(x) < j + 1
        PROVE  to[x] = Passed(to, g, m, t, f, x)
    <3>1. CASE x = {}
      BY <2>2, <3>1 DEF Passed
    <3>2. CASE x # {}
      <4>1. PICK y : y = x \ {Pick(x)}
        OBVIOUS
      <4>2. Pick(x) \in x
        BY <3>2 DEF Pick
      <4>3. Cardinality(y) = Cardinality(x) - 1 /\ y \in SUBSET S
        <5>1. PICK e \in x : e = Pick(x)
          BY <4>2
        <5>2. Cardinality(x \ {e}) = Cardinality(x) - 1
          BY <1>1, Without
        <5>3. QED
          BY <4>1, <5>1, <5>2
      <4>4. Cardinality(y) < j
        BY <1>1, <2>4, <4>3
      <4>5. to[y] = it[y]
        BY <2>1, <2>2, <4>3, <4>4
      <4>6. Passed(to, g, m, t, f, x) = Passed(it, g, m, t, f, x)
        BY <3>2, <4>1, <4>5 DEF Passed
      <4>7. QED
        BY <2>2, <4>6
    <3>3. QED
      BY <3>1, <3>2
  <2>5. Upto(to, j + 1)
    BY <2>3, <2>4
  <2>6. j + 1 \in Nat
    OBVIOUS
  <2>7. QED
    BY <2>5, <2>6
<1>4. \A j \in Nat : j \in K
  <2>1. PICK T : T = K
    OBVIOUS
  <2>2. T \in SUBSET Nat /\ 0 \in T /\ \A j \in T : j + 1 \in T
    BY <1>2, <1>3, <2>1
  <2>3. QED
    BY <2>1, <2>2, Induction
<1>5. Cardinality(S) \in Nat /\ \A x \in SUBSET S : Cardinality(x) < Cardinality(S) + 1
  <2>1. Cardinality(S) \in Nat /\ \A x \in SUBSET S : Cardinality(x) <= Cardinality(S)
    BY <1>1, FS_Subset
  <2>2. QED
    BY <1>1, <2>1
<1>6. PICK it : Upto(it, Cardinality(S) + 1)
  <2>1. PICK n \in Nat : n = Cardinality(S) + 1
    BY <1>5
  <2>2. n \in K
    BY <1>4
  <2>3. \E it : Upto(it, n)
    BY <2>2
  <2>4. QED
    BY <2>1, <2>3
<1>7. it = [x \in SUBSET S |-> Passed(it, g, m, t, f, x)]
  BY <1>5, <1>6
<1>8. QED
  BY <1>7, PassesIs

LEMMA AllIs ==
  ASSUME NEW g, NEW m, NEW t, NEW f, NEW S, IsFiniteSet(S)
  PROVE  \E it : /\ AllBy(g, m, t, f, S) = it[S]
                 /\ \A x \in SUBSET S : it[x] = Passed(it, g, m, t, f, x)
<1>1. PICK it : it = CHOOSE to : Passes(to, g, m, t, f, S)
  OBVIOUS
<1>2. Passes(it, g, m, t, f, S)
  BY <1>1, Passing
<1>3. it = [x \in SUBSET S |-> Passed(it, g, m, t, f, x)]
  BY <1>2, PassesIs
<1>4. \A x \in SUBSET S : it[x] = Passed(it, g, m, t, f, x)
  BY <1>3
<1>5. AllBy(g, m, t, f, S) = it[S]
  BY <1>1 DEF AllBy
<1>6. QED
  BY <1>4, <1>5

-----------------------------------------------------------------------------
LEMMA ShrinksOn ==
  ASSUME NEW t, NEW u, NEW v, Shrinks(t, u), Shrinks(u, v)
  PROVE  Shrinks(t, v)
BY DEF Shrinks

\* All that name m in a field.
LEMMA AllOfField ==
  ASSUME IsFiniteSet(People), from \in SUBSET Cascade!Fields,
         NEW k \in Nat, NEW g, Right(g, k),
         NEW s \in Cascade!Works, NEW m \in People, Rank(s, m) <= k, NEW t, Mid(s, m, t),
         NEW f \in from, NEW S, S = Cascade!Naming(t, f, m),
         NEW u, u = AllBy(g, m, t, f, S)
  PROVE  /\ Mid(s, m, u) /\ Shrinks(t, u) /\ Unnamed(m, u, f)
         /\ \A h : Alike(g, h, k) => AllBy(h, m, t, f, S) = u
<1>1. /\ t \in Cascade!Works /\ t.rows \subseteq s.rows \ {m} /\ t.rows \subseteq People
      /\ f \in Cascade!Fields /\ \A r \in People : t.refs[f][r] \subseteq s.refs[f][r]
  BY WorkTypes DEF Mid, Within
<1>2. S \in SUBSET People /\ \A r \in S : s.refs[f][r] # {}
  BY <1>1 DEF Cascade!Naming
<1>3. IsFiniteSet(S)
  BY <1>2, FS_Subset
<1>4. PICK it : /\ u = it[S]
                /\ \A x \in SUBSET S : it[x] = Passed(it, g, m, t, f, x)
  BY <1>3, AllIs
<1> DEFINE Ok(x) == /\ Mid(s, m, it[x]) /\ Shrinks(t, it[x])
                    /\ \A r \in x : ~it[x].refused /\ r \in it[x].rows => m \notin it[x].refs[f][r]
           G == {x \in SUBSET S : Ok(x)}
<1>5. ASSUME NEW x \in SUBSET S, x = {} PROVE Ok(x)
  <2>1. it[x] = t
    BY <1>4, <1>5 DEF Passed
  <2>2. Shrinks(t, t)
    BY <1>1 DEF Shrinks
  <2>3. QED
    BY <1>5, <2>1, <2>2
<1>6. ASSUME NEW x \in SUBSET S, x # {}
      PROVE  Pick(x) \in x /\ Pick(x) \in People /\ s.refs[f][Pick(x)] # {}
  <2>1. Pick(x) \in x
    BY <1>6 DEF Pick
  <2>2. QED
    BY <1>2, <2>1
<1>7. ASSUME NEW x \in SUBSET S, x # {}, Ok(x \ {Pick(x)}) PROVE Ok(x)
  <2>1. PICK r, v : r = Pick(x) /\ v = it[x \ {r}]
    OBVIOUS
  <2>2. PICK w : w = OneBy(g, m, v, f, r)
    OBVIOUS
  <2>3. it[x] = w
    BY <1>4, <1>7, <2>1, <2>2 DEF Passed
  <2>4. r \in x /\ r \in People /\ s.refs[f][r] # {}
    BY <1>6, <1>7, <2>1
  <2>5. /\ Mid(s, m, v) /\ Shrinks(t, v)
        /\ \A q \in x \ {r} : ~v.refused /\ q \in v.rows => m \notin v.refs[f][q]
    BY <1>7, <2>1
  <2>6. /\ Mid(s, m, w) /\ Shrinks(v, w) /\ (~w.refused /\ r \in w.rows => m \notin w.refs[f][r])
    BY <2>2, <2>4, <2>5, OneStep
  <2>7. Shrinks(t, w)
    BY <2>5, <2>6, ShrinksOn
  <2>8. ASSUME NEW q \in x, ~w.refused, q \in w.rows PROVE m \notin w.refs[f][q]
    <3>1. CASE q = r
      BY <2>6, <2>8, <3>1
    <3>2. CASE q # r
      <4>1. ~v.refused /\ q \in v.rows /\ q \in People /\ w.refs[f][q] \subseteq v.refs[f][q]
        BY <1>1, <1>2, <2>6, <2>8 DEF Shrinks
      <4>2. QED
        BY <2>5, <3>2, <4>1
    <3>3. QED
      BY <3>1, <3>2
  <2>9. QED
    BY <2>3, <2>6, <2>7, <2>8
<1>8. ASSUME NEW x \in SUBSET S, x = {} \/ x \ {Pick(x)} \in G PROVE x \in G
  BY <1>5, <1>7, <1>8
<1>9. S \in G
  <2>1. PICK H : H = G
    OBVIOUS
  <2>2. H \in SUBSET SUBSET S /\ \A x \in SUBSET S : x = {} \/ x \ {Pick(x)} \in H => x \in H
    BY <1>8, <2>1
  <2>3. QED
    BY <1>3, <2>1, <2>2, PickedInduction
<1>10. Mid(s, m, u) /\ Shrinks(t, u) /\ \A r \in S : ~u.refused /\ r \in u.rows => m \notin u.refs[f][r]
  BY <1>4, <1>9
<1>11. Unnamed(m, u, f)
  <2>1. SUFFICES ASSUME ~u.refused, NEW r \in u.rows PROVE m \notin u.refs[f][r]
    BY DEF Unnamed
  <2>2. r \in t.rows /\ r \in People /\ u.refs[f][r] \subseteq t.refs[f][r]
    BY <1>1, <1>10 DEF Shrinks
  <2>3. CASE r \in S
    BY <1>10, <2>1, <2>3
  <2>4. CASE r \notin S
    BY <1>1, <2>2, <2>4 DEF Cascade!Naming
  <2>5. QED
    BY <2>3, <2>4
<1>12. ASSUME NEW h, Alike(g, h, k) PROVE AllBy(h, m, t, f, S) = u
  <2>1. PICK to : /\ AllBy(h, m, t, f, S) = to[S]
                  /\ \A x \in SUBSET S : to[x] = Passed(to, h, m, t, f, x)
    <3>1. PICK y : y = AllBy(h, m, t, f, S)
      OBVIOUS
    <3>2. \E to : /\ y = to[S]
                  /\ \A x \in SUBSET S : to[x] = Passed(to, h, m, t, f, x)
      BY <1>3, <3>1, AllIs
    <3>3. QED
      BY <3>1, <3>2
  <2> DEFINE E == {x \in SUBSET S : to[x] = it[x] /\ Ok(x)}
  <2>2. ASSUME NEW x \in SUBSET S, x = {} PROVE to[x] = it[x]
    BY <1>4, <2>1, <2>2 DEF Passed
  <2>3. ASSUME NEW x \in SUBSET S, x # {}, x \ {Pick(x)} \in E PROVE to[x] = it[x]
    <3>1. PICK r, v : r = Pick(x) /\ v = it[x \ {r}]
      OBVIOUS
    <3>2. it[x] = OneBy(g, m, v, f, r)
      BY <1>4, <2>3, <3>1 DEF Passed
    <3>3. to[x] = OneBy(h, m, v, f, r)
      BY <2>1, <2>3, <3>1 DEF Passed
    <3>4. r \in People /\ s.refs[f][r] # {}
      BY <1>6, <2>3, <3>1
    <3>5. Mid(s, m, v)
      BY <2>3, <3>1
    <3>6. QED
      BY <1>12, <3>2, <3>3, <3>4, <3>5, OneStep
  <2>4. ASSUME NEW x \in SUBSET S, x = {} \/ x \ {Pick(x)} \in E PROVE x \in E
    BY <1>5, <1>7, <2>2, <2>3, <2>4
  <2>5. S \in E
    <3>1. PICK H : H = E
      OBVIOUS
    <3>2. H \in SUBSET SUBSET S /\ \A x \in SUBSET S : x = {} \/ x \ {Pick(x)} \in H => x \in H
      BY <2>4, <3>1
    <3>3. QED
      BY <1>3, <3>1, <3>2, PickedInduction
  <2>6. QED
    BY <1>4, <2>1, <2>5
<1>13. QED
  BY <1>10, <1>11, <1>12

LEMMA FieldOne ==
  ASSUME IsFiniteSet(People), from \in SUBSET Cascade!Fields,
         NEW k \in Nat, NEW g, Right(g, k),
         NEW s \in Cascade!Works, NEW m \in People, Rank(s, m) <= k, NEW t, Mid(s, m, t),
         NEW f \in Cascade!Fields, NEW u, u = FieldBy(g, m, t, f)
  PROVE  /\ Mid(s, m, u) /\ Shrinks(t, u) /\ (f \in from => Unnamed(m, u, f))
         /\ \A h : Alike(g, h, k) => FieldBy(h, m, t, f) = u
<1>1. CASE f \in from
  <2>1. PICK S : S = Cascade!Naming(t, f, m)
    OBVIOUS
  <2>2. u = AllBy(g, m, t, f, S) /\ \A h : FieldBy(h, m, t, f) = AllBy(h, m, t, f, S)
    BY <1>1, <2>1 DEF FieldBy
  <2>3. /\ Mid(s, m, u) /\ Shrinks(t, u) /\ Unnamed(m, u, f)
        /\ \A h : Alike(g, h, k) => AllBy(h, m, t, f, S) = u
    BY <1>1, <2>1, <2>2, AllOfField
  <2>4. QED
    BY <2>2, <2>3
<1>2. CASE f \notin from
  <2>1. u = t /\ \A h : FieldBy(h, m, t, f) = t
    BY <1>2 DEF FieldBy
  <2>2. Shrinks(t, t)
    BY DEF Shrinks, Mid, Within
  <2>3. QED
    BY <1>2, <2>1, <2>2
<1>3. QED
  BY <1>1, <1>2

\* The whole delete, if the deletes within it are right.
LEMMA BodyRight ==
  ASSUME IsFiniteSet(People), from \in SUBSET Cascade!Fields,
         NEW k \in Nat, NEW g, Right(g, k),
         NEW s \in Cascade!Works, NEW m \in People, Rank(s, m) <= k,
         NEW u, u = Body(g, s, m)
  PROVE  Post(s, m, u) /\ \A h : Alike(g, h, k) => Body(h, s, m) = u
<1>1. PICK t, v : t = First(s, m) /\ v = FieldBy(g, m, t, "one")
  OBVIOUS
<1>2. u = FieldBy(g, m, v, "many")
  BY <1>1 DEF Body
<1>3. "one" \in Cascade!Fields /\ "many" \in Cascade!Fields
      /\ \A f \in Cascade!Fields : f = "one" \/ f = "many"
  BY DEF Cascade!Fields
<1>4. Mid(s, m, t)
  <2>1. /\ t \in Cascade!Works /\ t.rows = s.rows \ {m} /\ t.refs = s.refs
        /\ t.refused = s.refused /\ s.rows \in SUBSET People
    BY <1>1, FirstRecord, WorkTypes
  <2>2. \A r : Lost(s, m, t) = {m}
    BY <2>1 DEF Lost
  <2>3. Within(s, m, t)
    BY <2>1 DEF Within
  <2>4. Clean(s, m, t)
    BY <2>1, <2>2 DEF Clean
  <2>5. Forced(s, m, t)
    BY <2>1, <2>2 DEF Forced
  <2>6. QED
    BY <2>3, <2>4, <2>5 DEF Mid
<1>5. /\ Mid(s, m, v) /\ Shrinks(t, v) /\ ("one" \in from => Unnamed(m, v, "one"))
      /\ \A h : Alike(g, h, k) => FieldBy(h, m, t, "one") = v
  BY <1>1, <1>3, <1>4, FieldOne
<1>6. /\ Mid(s, m, u) /\ Shrinks(v, u) /\ ("many" \in from => Unnamed(m, u, "many"))
      /\ \A h : Alike(g, h, k) => FieldBy(h, m, v, "many") = u
  BY <1>2, <1>3, <1>5, FieldOne
<1>7. "one" \in from => Unnamed(m, u, "one")
  <2>1. SUFFICES ASSUME Unnamed(m, v, "one"), ~u.refused, NEW r \in u.rows
                 PROVE  m \notin u.refs["one"][r]
    BY <1>5 DEF Unnamed
  <2>2. v \in Cascade!Works /\ v.rows \subseteq People
    BY <1>5, WorkTypes DEF Mid, Within
  <2>3. ~v.refused /\ r \in v.rows /\ u.refs["one"][r] \subseteq v.refs["one"][r]
    BY <1>3, <1>6, <2>1, <2>2 DEF Shrinks
  <2>4. QED
    BY <2>1, <2>3 DEF Unnamed
<1>8. Post(s, m, u)
  BY <1>3, <1>6, <1>7 DEF Post
<1>9. ASSUME NEW h, Alike(g, h, k) PROVE Body(h, s, m) = u
  BY <1>1, <1>5, <1>6, <1>9 DEF Body
<1>10. QED
  BY <1>8, <1>9

-----------------------------------------------------------------------------
Solves(g, k) ==
  \A s \in Cascade!Works, m \in People :
    Rank(s, m) < k => g[s][m] = Body(g, s, m) /\ Post(s, m, g[s][m])

LEMMA SolvesRight ==
  ASSUME NEW g, NEW k, Solves(g, k)
  PROVE  Right(g, k)
BY DEF Solves, Right

LEMMA Ranked ==
  ASSUME IsFiniteSet(People), NEW s \in Cascade!Works, NEW m \in People
  PROVE  Rank(s, m) \in Nat /\ Rank(s, m) < Cardinality(People) + 1
         /\ Cardinality(People) \in Nat
<1>1. PICK S : S = s.rows \ {m}
  OBVIOUS
<1>2. S \in SUBSET People
  BY <1>1, WorkTypes
<1>3. IsFiniteSet(S) /\ Cardinality(S) <= Cardinality(People)
  BY <1>2, FS_Subset
<1>4. Cardinality(S) \in Nat /\ Cardinality(People) \in Nat
  BY <1>3, FS_CardinalityType
<1>5. QED
  BY <1>1, <1>3, <1>4 DEF Rank

\* One more round of a delete is right for records with one more to look at.
LEMMA SolvesMore ==
  ASSUME IsFiniteSet(People), from \in SUBSET Cascade!Fields, NEW k \in Nat,
         NEW g, Solves(g, k),
         NEW h, h = [s \in Cascade!Works |-> [m \in People |-> Body(g, s, m)]]
  PROVE  Solves(h, k + 1)
<1>1. \A s \in Cascade!Works, m \in People : h[s][m] = Body(g, s, m)
  OBVIOUS
<1>2. Right(g, k)
  BY SolvesRight
<1>3. Alike(g, h, k)
  BY <1>1 DEF Solves, Alike
<1>4. ASSUME NEW s \in Cascade!Works, NEW m \in People, Rank(s, m) < k + 1
      PROVE  h[s][m] = Body(h, s, m) /\ Post(s, m, h[s][m])
  <2>1. PICK u : u = Body(g, s, m)
    OBVIOUS
  <2>2. Rank(s, m) <= k
    BY <1>4, Ranked
  <2>3. Post(s, m, u) /\ Body(h, s, m) = u
    BY <1>2, <1>3, <2>1, <2>2, BodyRight
  <2>4. QED
    BY <1>1, <2>1, <2>3
<1>5. QED
  BY <1>4 DEF Solves

LEMMA SolvesUpto ==
  ASSUME IsFiniteSet(People), from \in SUBSET Cascade!Fields, NEW k \in Nat
  PROVE  \E g : Solves(g, k)
<1> DEFINE K == {j \in Nat : \E g : Solves(g, j)}
<1>1. 0 \in K
  <2>1. ASSUME NEW s \in Cascade!Works, NEW m \in People PROVE ~(Rank(s, m) < 0)
    BY Ranked
  <2>2. \A g : Solves(g, 0)
    BY <2>1 DEF Solves
  <2>3. QED
    BY <2>2
<1>2. ASSUME NEW j \in K PROVE j + 1 \in K
  <2>1. PICK g : Solves(g, j)
    BY <1>2
  <2>2. PICK h : h = [s \in Cascade!Works |-> [m \in People |-> Body(g, s, m)]]
    OBVIOUS
  <2>3. Solves(h, j + 1)
    BY <2>1, <2>2, SolvesMore
  <2>4. QED
    BY <2>3
<1>3. k \in K
  <2>1. PICK T : T = K
    OBVIOUS
  <2>2. T \in SUBSET Nat /\ 0 \in T /\ \A j \in T : j + 1 \in T
    BY <1>1, <1>2, <2>1
  <2>3. QED
    BY <2>1, <2>2, Induction
<1>4. QED
  BY <1>3

\* So Deleted is what it is defined by, and does what a delete has to.
LEMMA DeletedRight ==
  ASSUME IsFiniteSet(People), from \in SUBSET Cascade!Fields,
         NEW s \in Cascade!Works, NEW m \in People
  PROVE  Post(s, m, Cascade!Deleted[s][m])
<1>1. PICK n : n = Cardinality(People) + 1
  OBVIOUS
<1>2. n \in Nat /\ \A t \in Cascade!Works, r \in People : Rank(t, r) \in Nat /\ Rank(t, r) < n
  BY <1>1, Ranked
<1>3. PICK g : Solves(g, n)
  BY <1>2, SolvesUpto
<1>4. PICK h : h = [t \in Cascade!Works |-> [r \in People |-> Body(g, t, r)]]
  OBVIOUS
<1>5. Solves(h, n + 1)
  BY <1>2, <1>3, <1>4, SolvesMore
<1>6. \A t \in Cascade!Works, r \in People : Body(h, t, r) = Body(g, t, r)
  <2>1. \A t \in Cascade!Works, r \in People : h[t][r] = Body(g, t, r)
    BY <1>4
  <2>2. \A t \in Cascade!Works, r \in People : Rank(t, r) < n + 1
    BY <1>2
  <2>3. QED
    BY <1>5, <2>1, <2>2 DEF Solves
<1>7. h = [t \in Cascade!Works |-> [r \in People |-> Body(h, t, r)]]
  BY <1>4, <1>6
<1>8. PICK d : d = Cascade!Deleted
  OBVIOUS
<1>9. d = [t \in Cascade!Works |-> [r \in People |-> Body(d, t, r)]]
  BY <1>7, <1>8, DeletedDef
<1>10. \A t \in Cascade!Works, r \in People : d[t][r] = Body(d, t, r)
  BY <1>9
<1>11. \A k \in Nat : Solves(d, k)
  <2> DEFINE K == {j \in Nat : Solves(d, j)}
  <2>1. 0 \in K
    <3>1. \A t \in Cascade!Works, r \in People : ~(Rank(t, r) < 0)
      BY <1>2
    <3>2. QED
      BY <3>1 DEF Solves
  <2>2. ASSUME NEW j \in K PROVE j + 1 \in K
    <3>1. Solves(d, j) /\ j \in Nat
      BY <2>2
    <3>2. Solves(d, j + 1)
      BY <1>9, <3>1, SolvesMore
    <3>3. QED
      BY <3>1, <3>2
  <2>3. PICK T : T = K
    OBVIOUS
  <2>4. T \in SUBSET Nat /\ 0 \in T /\ \A j \in T : j + 1 \in T
    BY <2>1, <2>2, <2>3
  <2>5. QED
    BY <2>3, <2>4, Induction
<1>12. Solves(d, n)
  BY <1>2, <1>11
<1>13. QED
  BY <1>2, <1>8, <1>12 DEF Solves

-----------------------------------------------------------------------------
\* The transaction is a delete of the main record, from what is committed. And
\* what is committed, or validated, names only what is committed.
CascadeTyped ==
  /\ people \in SUBSET People
  /\ refs \in [Cascade!Fields -> [People -> SUBSET People]]
  /\ value \in [Cascade!Fields -> SUBSET People]
  /\ defined \in SUBSET Cascade!Fields /\ known \subseteq defined
  /\ from \in SUBSET Cascade!Fields
  /\ main \in People \union {Cascade!Nothing} /\ saving \in People \union {Cascade!Nothing}

WorkInv == work # Cascade!Idle => main # Cascade!Nothing /\ Post(Cascade!Begun, main, work)

SchemaInv ==
  /\ "one" \in defined
  /\ \A f \in Cascade!Fields : f \notin defined =>
       value[f] = {} /\ \A r \in People : refs[f][r] = {}

NamesInv ==
  gaps = {} => /\ \A r \in people, f \in Cascade!Fields : refs[f][r] \subseteq people
               /\ saving # Cascade!Nothing => \A f \in Cascade!Fields : value[f] \subseteq people

CascadeInv == CascadeTyped /\ WorkInv /\ SchemaInv /\ NamesInv

LEMMA BegunWork ==
  ASSUME CascadeTyped
  PROVE  /\ Cascade!Begun \in Cascade!Works /\ Cascade!Begun.rows = people
         /\ Cascade!Begun.refs = refs /\ ~Cascade!Begun.refused
<1>1. Cascade!Begun = [rows |-> people, refs |-> refs, refused |-> FALSE]
  BY DEF Cascade!Begun
<1>2. [rows |-> people, refs |-> refs, refused |-> FALSE] \in Cascade!Works
  BY WorkRecord DEF CascadeTyped
<1>3. QED
  BY <1>1, <1>2

LEMMA CascadeInit == Cascade!Init => CascadeInv
<1> SUFFICES ASSUME Cascade!Init PROVE CascadeInv
  OBVIOUS
<1>1. "one" \in Cascade!Fields /\ "many" \in Cascade!Fields
      /\ \A f \in Cascade!Fields : f = "one" \/ f = "many"
  BY DEF Cascade!Fields
<1>2. /\ people = People /\ main = Cascade!Nothing /\ from = {} /\ work = Cascade!Idle
      /\ saving = Cascade!Nothing /\ value = [f \in Cascade!Fields |-> {}]
      /\ defined \in {{"one"}, Cascade!Fields} /\ known = defined
  BY DEF Cascade!Init
<1>3. refs \in [Cascade!Fields -> [People -> SUBSET People]]
  <2>1. PICK b \in [Owners -> Cascade!Groups],
             o \in [People -> {{}} \union {{x} : x \in People}] :
          refs = [f \in Cascade!Fields |-> [r \in People |->
                    IF f = "many" THEN (IF r \in Owners THEN b[r] ELSE {}) ELSE o[r]]]
    BY DEF Cascade!Init
  <2>2. \A r \in Owners : b[r] \in SUBSET People
    BY DEF Cascade!Groups
  <2>3. \A r \in People : o[r] \in SUBSET People
    OBVIOUS
  <2>4. QED
    BY <2>1, <2>2, <2>3
<1>4. CascadeTyped
  BY <1>1, <1>2, <1>3 DEF CascadeTyped
<1>5. ASSUME NEW r \in People, NEW f \in Cascade!Fields
      PROVE  refs[f][r] \subseteq people /\ (f \notin defined => refs[f][r] = {})
  <2>1. PICK w : w = [e \in Cascade!Fields |-> refs[e][r]]
    OBVIOUS
  <2>2. Cascade!Fits(r, w)
    BY <2>1 DEF Cascade!Init
  <2>3. w[f] = refs[f][r]
    BY <2>1
  <2>4. UNION {w[e] : e \in Cascade!Fields} \subseteq people
        /\ ("many" \notin defined => w["many"] = {})
    BY <2>2 DEF Cascade!Fits
  <2>5. refs[f][r] \subseteq UNION {w[e] : e \in Cascade!Fields}
    BY <2>3
  <2>6. f \notin defined => f = "many"
    BY <1>1, <1>2
  <2>7. QED
    BY <2>3, <2>4, <2>5, <2>6
<1>6. SchemaInv
  BY <1>1, <1>2, <1>5 DEF SchemaInv
<1>7. NamesInv
  BY <1>2, <1>5 DEF NamesInv
<1>8. WorkInv
  BY <1>2 DEF WorkInv
<1>9. QED
  BY <1>4, <1>6, <1>7, <1>8 DEF CascadeInv

\* The commit: what is left names only what is left.
LEMMA Committed ==
  ASSUME CascadeInv, work # Cascade!Idle, ~work.refused, gaps = {}, from = defined,
         NEW r \in work.rows, NEW f \in Cascade!Fields
  PROVE  work.refs[f][r] \subseteq work.rows
<1>1. PICK b, m : b = Cascade!Begun /\ m = main
  OBVIOUS
<1>2. /\ b \in Cascade!Works /\ b.rows = people /\ b.refs = refs /\ m \in People /\ Post(b, m, work)
  BY <1>1, BegunWork DEF CascadeInv, CascadeTyped, WorkInv
<1>3. r \in people /\ r \in People /\ work.refs[f][r] \subseteq refs[f][r]
  BY <1>2 DEF CascadeInv, CascadeTyped, Post, Mid, Within
<1>4. CASE f \in from
  <2>1. /\ work.refs[f][r] \intersect Lost(b, m, work) \subseteq {m} /\ m \notin work.refs[f][r]
    BY <1>2, <1>4 DEF Post, Mid, Clean, Unnamed
  <2>2. refs[f][r] \subseteq people
    BY <1>3 DEF CascadeInv, NamesInv
  <2>3. QED
    BY <1>2, <1>3, <2>1, <2>2 DEF Lost
<1>5. CASE f \notin from
  BY <1>3, <1>5 DEF CascadeInv, SchemaInv
<1>6. QED
  BY <1>4, <1>5

\* What is said of a delete is said in the next state as well.
LEMMA PostIs ==
  ASSUME UNCHANGED <<cascade, required, from>>, NEW s, NEW m, NEW t, Post(s, m, t),
         s = Cascade!Begun', m = main', t = work'
  PROVE  Post(Cascade!Begun, main, work)'
<1>1. Within(s, m, t) /\ Clean(s, m, t) /\ Forced(s, m, t) /\ \A f \in from : Unnamed(m, t, f)
  BY DEF Post, Mid
<1>2. Within(Cascade!Begun, main, work)'
  BY <1>1 DEF Within
<1>3. Clean(Cascade!Begun, main, work)'
  <2>1. Clean(Cascade!Begun, main, work)' <=>
          (~t.refused => \A r \in t.rows, f \in from :
             /\ t.refs[f][r] \intersect Lost(s, m, t) \subseteq {m}
             /\ f \in cascade \union required /\ s.refs[f][r] # {} => t.refs[f][r] # {})
    BY DEF Clean
  <2>2. QED
    BY <1>1, <2>1 DEF Clean
<1>4. Forced(Cascade!Begun, main, work)'
  <2>1. \A X : Asks(Cascade!Begun, X)' <=> Asks(s, X)
    BY DEF Asks
  <2>2. \A X : Blocked(Cascade!Begun, X)' <=> Blocked(s, X)
    BY DEF Blocked
  <2>3. QED
    BY <1>1, <2>1, <2>2 DEF Forced
<1>5. \A f \in from' : Unnamed(main, work, f)'
  BY <1>1 DEF Unnamed
<1>6. QED
  BY <1>2, <1>3, <1>4, <1>5 DEF Post, Mid

LEMMA PostSame ==
  ASSUME UNCHANGED <<people, refs, cascade, required, main, from, work>>, WorkInv
  PROVE  WorkInv'
<1>1. Cascade!Begun' = Cascade!Begun
  BY DEF Cascade!Begun
<1>2. SUFFICES ASSUME work # Cascade!Idle, main # Cascade!Nothing, Post(Cascade!Begun, main, work)
               PROVE  Post(Cascade!Begun, main, work)'
  BY DEF WorkInv, Cascade!Idle
<1>3. PICK s, m, t : s = Cascade!Begun /\ m = main /\ t = work
  OBVIOUS
<1>4. s = Cascade!Begun' /\ m = main' /\ t = work' /\ Post(s, m, t)
  BY <1>1, <1>2, <1>3
<1>5. QED
  BY <1>4, PostIs

LEMMA RestSame ==
  ASSUME CascadeInv, UNCHANGED <<people, refs, defined, saving, value, gaps>>
  PROVE  SchemaInv' /\ NamesInv'
BY DEF CascadeInv, SchemaInv, NamesInv

LEMMA FindStep ==
  ASSUME NEW r \in People, CascadeInv, Cascade!FindRefs(r)
  PROVE  CascadeInv'
<1>1. /\ r \in people /\ main = Cascade!Nothing /\ main' = r /\ from' = known
      /\ UNCHANGED <<people, refs, cascade, required, defined, known, work, saving, value, gaps>>
  BY DEF Cascade!FindRefs, Cascade!schemaVars, Cascade!saveVars
<1>2. CascadeTyped'
  BY <1>1 DEF CascadeInv, CascadeTyped
<1>3. SchemaInv' /\ NamesInv'
  BY <1>1, RestSame
<1>4. WorkInv'
  <2>1. work = Cascade!Idle
    BY <1>1 DEF CascadeInv, WorkInv
  <2>2. QED
    BY <1>1, <2>1 DEF WorkInv, Cascade!Idle
<1>5. QED
  BY <1>2, <1>3, <1>4 DEF CascadeInv

LEMMA ExecuteStep ==
  ASSUME IsFiniteSet(People), CascadeInv, Cascade!Execute
  PROVE  CascadeInv'
<1>1. /\ main # Cascade!Nothing /\ work' = Cascade!Deleted[Cascade!Begun][main]
      /\ UNCHANGED <<people, refs, cascade, required, defined, known, main, from, saving, value,
                     gaps>>
  BY DEF Cascade!Execute, Cascade!schemaVars, Cascade!saveVars
<1>2. CascadeTyped'
  BY <1>1 DEF CascadeInv, CascadeTyped
<1>3. SchemaInv' /\ NamesInv'
  BY <1>1, RestSame
<1>4. PICK s, m : s = Cascade!Begun /\ m = main
  OBVIOUS
<1>5. s \in Cascade!Works /\ m \in People /\ from \in SUBSET Cascade!Fields
  BY <1>1, <1>4, BegunWork DEF CascadeInv, CascadeTyped
<1>6. Post(s, m, Cascade!Deleted[s][m])
  BY <1>5, DeletedRight
<1>7. PICK u : u = Cascade!Deleted[s][m]
  OBVIOUS
<1>8. Post(s, m, u) /\ u = work'
  BY <1>1, <1>4, <1>6, <1>7
<1>9. Post(Cascade!Begun, main, work)'
  <2>1. s = Cascade!Begun' /\ m = main' /\ u = work'
    BY <1>1, <1>4, <1>8 DEF Cascade!Begun
  <2>2. QED
    BY <1>1, <1>8, <2>1, PostIs
<1>10. WorkInv'
  BY <1>1, <1>4, <1>5, <1>9 DEF WorkInv
<1>11. QED
  BY <1>2, <1>3, <1>10 DEF CascadeInv

LEMMA EndStep ==
  ASSUME CascadeInv, Cascade!End
  PROVE  CascadeInv'
<1>1. /\ main # Cascade!Nothing /\ work # Cascade!Idle
      /\ main' = Cascade!Nothing /\ work' = Cascade!Idle /\ from' = {}
      /\ UNCHANGED <<cascade, required, defined, known, saving, value>>
  BY DEF Cascade!End, Cascade!schemaVars, Cascade!saveVars
<1>2. WorkInv'
  BY <1>1 DEF WorkInv, Cascade!Idle
<1>3. CASE UNCHANGED <<people, refs, gaps>>
  <2>1. CascadeTyped'
    BY <1>1, <1>3 DEF CascadeInv, CascadeTyped, Cascade!Nothing
  <2>2. SchemaInv' /\ NamesInv'
    BY <1>1, <1>3, RestSame
  <2>3. QED
    BY <1>2, <2>1, <2>2 DEF CascadeInv
<1>4. CASE /\ ~work.refused /\ people' = work.rows /\ refs' = work.refs
           /\ gaps' = gaps \union (IF saving = Cascade!Nothing THEN {} ELSE {"raced"})
                           \union (IF from = defined THEN {} ELSE {"stale"})
  <2>1. PICK b, m : b = Cascade!Begun /\ m = main
    OBVIOUS
  <2>2. b \in Cascade!Works /\ b.refs = refs /\ Post(b, m, work)
    BY <1>1, <2>1, BegunWork DEF CascadeInv, WorkInv
  <2>3. /\ work \in Cascade!Works
        /\ \A f \in Cascade!Fields, r \in People : work.refs[f][r] \subseteq refs[f][r]
    BY <2>2 DEF Post, Mid, Within
  <2>4. CascadeTyped'
    <3>1. work.rows \in SUBSET People /\ work.refs \in [Cascade!Fields -> [People -> SUBSET People]]
      BY <2>3, WorkTypes
    <3>2. QED
      BY <1>1, <1>4, <3>1 DEF CascadeInv, CascadeTyped, Cascade!Nothing
  <2>5. SchemaInv'
    BY <1>1, <1>4, <2>3 DEF CascadeInv, SchemaInv
  <2>6. NamesInv'
    <3>1. SUFFICES ASSUME gaps' = {}
                   PROVE  /\ \A r \in people', f \in Cascade!Fields : refs'[f][r] \subseteq people'
                          /\ saving' = Cascade!Nothing
      BY DEF NamesInv, Cascade!Nothing
    <3>2. gaps = {} /\ from = defined /\ saving = Cascade!Nothing
      BY <1>4, <3>1
    <3>3. ASSUME NEW r \in work.rows, NEW f \in Cascade!Fields
          PROVE  work.refs[f][r] \subseteq work.rows
      BY <1>1, <1>4, <3>2, Committed
    <3>4. QED
      BY <1>1, <1>4, <3>2, <3>3
  <2>7. QED
    BY <1>2, <2>4, <2>5, <2>6 DEF CascadeInv
<1>5. QED
  BY <1>3, <1>4 DEF Cascade!End

LEMMA ValidateStep ==
  ASSUME NEW r \in People, CascadeInv, Cascade!Validate(r)
  PROVE  CascadeInv'
<1>1. /\ saving = Cascade!Nothing /\ r \in people /\ r \in Owners /\ saving' = r
      /\ Cascade!Fits(r, value')
      /\ UNCHANGED <<people, refs, cascade, required, defined, known, main, from, work, gaps>>
  BY DEF Cascade!Validate, Cascade!schemaVars
<1>2. PICK x \in People : value' = [one |-> refs["one"][r], many |-> {x}]
  BY DEF Cascade!Validate
<1>3. "one" \in Cascade!Fields /\ "many" \in Cascade!Fields
      /\ \A f \in Cascade!Fields : f = "one" \/ f = "many"
  BY DEF Cascade!Fields
<1>4. value' \in [Cascade!Fields -> SUBSET People]
      /\ value'["one"] = refs["one"][r] /\ value'["many"] = {x}
  <2>1. refs["one"][r] \in SUBSET People
    BY <1>3 DEF CascadeInv, CascadeTyped
  <2>2. Cascade!Fields = {"one", "many"}
    BY DEF Cascade!Fields
  <2>3. QED
    BY <1>2, <2>1, <2>2
<1>5. CascadeTyped'
  BY <1>1, <1>4 DEF CascadeInv, CascadeTyped
<1>6. WorkInv'
  BY <1>1, PostSame DEF CascadeInv
<1>7. /\ \A f \in Cascade!Fields : value'[f] \subseteq people
      /\ ("many" \notin defined => value'["many"] = {})
  <2>1. UNION {value'[f] : f \in Cascade!Fields} \subseteq people
        /\ ("many" \notin defined => value'["many"] = {})
    BY <1>1 DEF Cascade!Fits
  <2>2. QED
    BY <2>1
<1>8. SchemaInv'
  BY <1>1, <1>3, <1>7 DEF CascadeInv, SchemaInv
<1>9. NamesInv'
  BY <1>1, <1>7 DEF CascadeInv, NamesInv
<1>10. QED
  BY <1>5, <1>6, <1>8, <1>9 DEF CascadeInv

LEMMA WriteStep ==
  ASSUME CascadeInv, Cascade!Write
  PROVE  CascadeInv'
<1>1. /\ saving # Cascade!Nothing /\ work = Cascade!Idle
      /\ saving' = Cascade!Nothing /\ value' = [f \in Cascade!Fields |-> {}]
      /\ UNCHANGED <<people, cascade, required, defined, known, main, from, work, gaps>>
      /\ refs' = IF saving \in people
                 THEN [f \in Cascade!Fields |-> [refs[f] EXCEPT ![saving] = value[f]]] ELSE refs
  BY DEF Cascade!Write, Cascade!schemaVars
<1>2. WorkInv'
  BY <1>1 DEF WorkInv, Cascade!Idle
<1>3. /\ refs \in [Cascade!Fields -> [People -> SUBSET People]]
      /\ value \in [Cascade!Fields -> SUBSET People]
  BY DEF CascadeInv, CascadeTyped
<1>4. refs' \in [Cascade!Fields -> [People -> SUBSET People]]
      /\ \A f \in Cascade!Fields, r \in People :
           refs'[f][r] = refs[f][r] \/ refs'[f][r] = value[f]
  <2>1. CASE saving \in people
    BY <1>1, <1>3, <2>1
  <2>2. CASE saving \notin people
    BY <1>1, <1>3, <2>2
  <2>3. QED
    BY <2>1, <2>2
<1>5. CascadeTyped'
  BY <1>1, <1>4 DEF CascadeInv, CascadeTyped, Cascade!Nothing
<1>6. SchemaInv'
  <2>1. ASSUME NEW f \in Cascade!Fields, f \notin defined
        PROVE  value'[f] = {} /\ \A r \in People : refs'[f][r] = {}
    BY <1>1, <1>4, <2>1 DEF CascadeInv, SchemaInv
  <2>2. QED
    BY <1>1, <2>1 DEF CascadeInv, SchemaInv
<1>7. NamesInv'
  <2>1. ASSUME gaps = {}, NEW r \in people, NEW f \in Cascade!Fields
        PROVE  refs'[f][r] \subseteq people
    <3>1. r \in People
      BY DEF CascadeInv, CascadeTyped
    <3>2. refs[f][r] \subseteq people /\ value[f] \subseteq people
      BY <1>1, <2>1 DEF CascadeInv, NamesInv
    <3>3. QED
      BY <1>4, <3>1, <3>2
  <2>2. QED
    BY <1>1, <2>1 DEF NamesInv, Cascade!Nothing
<1>8. QED
  BY <1>2, <1>5, <1>6, <1>7 DEF CascadeInv

LEMMA RelationStep ==
  ASSUME CascadeInv, Cascade!AddRelation
  PROVE  CascadeInv'
<1>1. /\ work = Cascade!Idle /\ defined' = Cascade!Fields
      /\ UNCHANGED <<people, refs, cascade, required, known, main, from, work, saving, value,
                     gaps>>
  BY DEF Cascade!AddRelation, Cascade!saveVars
<1>2. CascadeTyped'
  BY <1>1 DEF CascadeInv, CascadeTyped
<1>3. WorkInv'
  BY <1>1 DEF WorkInv, Cascade!Idle
<1>4. SchemaInv'
  BY <1>1 DEF SchemaInv, Cascade!Fields
<1>5. NamesInv'
  BY <1>1 DEF CascadeInv, NamesInv
<1>6. QED
  BY <1>2, <1>3, <1>4, <1>5 DEF CascadeInv

LEMMA NoticeStep ==
  ASSUME CascadeInv, Cascade!Notice
  PROVE  CascadeInv'
<1>1. /\ known' = defined
      /\ UNCHANGED <<people, refs, cascade, required, defined, main, from, work, saving, value,
                     gaps>>
  BY DEF Cascade!Notice, Cascade!saveVars
<1>2. CascadeTyped'
  BY <1>1 DEF CascadeInv, CascadeTyped
<1>3. WorkInv'
  BY <1>1, PostSame DEF CascadeInv
<1>4. SchemaInv' /\ NamesInv'
  BY <1>1, RestSame
<1>5. QED
  BY <1>2, <1>3, <1>4 DEF CascadeInv

LEMMA CascadeStep ==
  ASSUME IsFiniteSet(People), CascadeInv, Cascade!Next \/ UNCHANGED Cascade!vars
  PROVE  CascadeInv'
<1>1. CASE Cascade!Next
  BY <1>1, FindStep, ValidateStep, ExecuteStep, EndStep, WriteStep, RelationStep, NoticeStep
     DEF Cascade!Next
<1>2. CASE UNCHANGED Cascade!vars
  <2>1. UNCHANGED <<people, refs, cascade, required, defined, known, main, from, work, saving,
                    value, gaps>>
    BY <1>2 DEF Cascade!vars, Cascade!schemaVars, Cascade!saveVars
  <2>2. CascadeTyped'
    BY <2>1 DEF CascadeInv, CascadeTyped
  <2>3. WorkInv'
    BY <2>1, PostSame DEF CascadeInv
  <2>4. SchemaInv' /\ NamesInv'
    BY <2>1, RestSame
  <2>5. QED
    BY <2>2, <2>3, <2>4 DEF CascadeInv
<1>3. QED
  BY <1>1, <1>2

-----------------------------------------------------------------------------
\* What went is the least set that the cascading fields ask for.
LEMMA AskedIs ==
  ASSUME CascadeInv, work # Cascade!Idle
  PROVE  /\ main \in Cascade!Asked /\ Asks(Cascade!Begun, Cascade!Asked)
         /\ Cascade!Asked \in SUBSET People
         /\ \A X \in SUBSET People : main \in X /\ Asks(Cascade!Begun, X) => Cascade!Asked \subseteq X
<1>1. PICK b : b = Cascade!Begun
  OBVIOUS
<1>2. /\ b.rows = people /\ b.refs = refs /\ people \in SUBSET People
      /\ main \in People /\ from \in SUBSET Cascade!Fields
  BY <1>1, BegunWork DEF CascadeInv, CascadeTyped, WorkInv
<1>3. PICK A : A = Cascade!Asked
  OBVIOUS
<1>4. \A x : x \in A <=> /\ x \in People
                         /\ \A X \in SUBSET People : main \in X /\ Asks(b, X) => x \in X
  <2>1. \A X \in SUBSET People :
          Asks(b, X) <=> \A r \in people, f \in cascade \intersect from :
                           refs[f][r] # {} /\ refs[f][r] \subseteq X => r \in X
    BY <1>2 DEF Asks
  <2>2. A = {x \in People : \A X \in SUBSET People :
                main \in X /\ (\A r \in people, f \in cascade \intersect from :
                                 refs[f][r] # {} /\ refs[f][r] \subseteq X => r \in X) => x \in X}
    BY <1>3 DEF Cascade!Asked, Cascade!Groups
  <2>3. QED
    BY <2>1, <2>2
<1>5. main \in A /\ A \in SUBSET People
  BY <1>2, <1>4
<1>6. Asks(b, A)
  <2>1. SUFFICES ASSUME NEW r \in b.rows, NEW f \in cascade \intersect from,
                        b.refs[f][r] # {}, b.refs[f][r] \subseteq A
                 PROVE  r \in A
    BY DEF Asks
  <2>2. ASSUME NEW X \in SUBSET People, main \in X, Asks(b, X) PROVE r \in X
    <3>1. A \subseteq X
      BY <1>4, <2>2
    <3>2. QED
      BY <2>1, <2>2, <3>1 DEF Asks
  <2>3. r \in People
    BY <1>2
  <2>4. QED
    BY <1>4, <2>2, <2>3
<1>7. QED
  BY <1>1, <1>3, <1>4, <1>5, <1>6

LEMMA NoDanglingHolds ==
  ASSUME CascadeInv
  PROVE  Cascade!NoDangling
<1>1. ASSUME gaps = {}, NEW r \in people, NEW f \in Cascade!Fields
      PROVE  refs[f][r] \subseteq people
  BY <1>1 DEF CascadeInv, NamesInv
<1>2. ASSUME work # Cascade!Idle
      PROVE  IF work.refused
             THEN \E f \in required \intersect from, r \in people :
                    refs[f][r] # {} /\ refs[f][r] \subseteq Cascade!Asked
             ELSE /\ work.rows = people \ Cascade!Asked
                  /\ \A r \in work.rows, f \in from :
                       /\ work.refs[f][r] = refs[f][r] \ Cascade!Asked
                       /\ f \in required /\ refs[f][r] # {} => work.refs[f][r] # {}
  <2>1. PICK b, m, A : b = Cascade!Begun /\ m = main /\ A = Cascade!Asked
    OBVIOUS
  <2>2. /\ m \in A /\ Asks(b, A) /\ A \in SUBSET People
        /\ \A X \in SUBSET People : m \in X /\ Asks(b, X) => A \subseteq X
    BY <1>2, <2>1, AskedIs
  <2>3. /\ b.rows = people /\ b.refs = refs /\ ~b.refused /\ people \in SUBSET People
        /\ m \in People /\ from \in SUBSET Cascade!Fields /\ Post(b, m, work)
    BY <1>2, <2>1, BegunWork DEF CascadeInv, CascadeTyped, WorkInv
  <2>4. PICK L : L = Lost(b, m, work)
    OBVIOUS
  <2>5. L \subseteq A /\ (work.refused => Blocked(b, A))
    BY <2>2, <2>3, <2>4 DEF Post, Mid, Forced
  <2>6. work.rows \subseteq people \ {m} /\ L = (people \ work.rows) \union {m}
        /\ \A f \in Cascade!Fields, r \in People :
             work.refs[f][r] \subseteq refs[f][r] /\ refs[f][r] \ work.refs[f][r] \subseteq L
    BY <2>3, <2>4 DEF Post, Mid, Within, Lost
  <2>7. CASE work.refused
    BY <2>1, <2>3, <2>5, <2>7 DEF Blocked
  <2>8. CASE ~work.refused
    <3>1. ASSUME NEW r \in work.rows, NEW f \in from
          PROVE  /\ work.refs[f][r] \intersect L = {}
                 /\ f \in cascade \union required /\ refs[f][r] # {} => work.refs[f][r] # {}
      <4>1. /\ work.refs[f][r] \intersect L \subseteq {m} /\ m \notin work.refs[f][r]
            /\ f \in cascade \union required /\ b.refs[f][r] # {} => work.refs[f][r] # {}
        BY <2>3, <2>4, <2>8 DEF Post, Mid, Clean, Unnamed
      <4>2. QED
        BY <2>3, <4>1
    <3>2. L \in SUBSET People
      BY <2>3, <2>6
    <3>3. Asks(b, L)
      <4>1. SUFFICES ASSUME NEW r \in people, NEW f \in cascade \intersect from,
                            refs[f][r] # {}, refs[f][r] \subseteq L
                     PROVE  r \in L
        BY <2>3 DEF Asks
      <4>2. CASE r \in work.rows
        <5>1. work.refs[f][r] \intersect L = {} /\ work.refs[f][r] # {}
          BY <3>1, <4>1, <4>2
        <5>2. work.refs[f][r] \subseteq refs[f][r]
          BY <2>3, <2>6
        <5>3. QED
          BY <4>1, <5>1, <5>2
      <4>3. QED
        BY <2>6, <4>2
    <3>4. A = L
      BY <2>2, <2>5, <2>6, <3>2, <3>3
    <3>5. work.rows = people \ A
      BY <2>6, <3>4
    <3>6. ASSUME NEW r \in work.rows, NEW f \in from
          PROVE  /\ work.refs[f][r] = refs[f][r] \ A
                 /\ f \in required /\ refs[f][r] # {} => work.refs[f][r] # {}
      <4>1. work.refs[f][r] \subseteq refs[f][r] /\ refs[f][r] \ work.refs[f][r] \subseteq L
        BY <2>3, <2>6
      <4>2. QED
        BY <3>1, <3>4, <4>1
    <3>7. QED
      BY <2>1, <2>8, <3>5, <3>6
  <2>9. work.refused \in BOOLEAN
    BY <2>3, WorkTypes DEF Post, Mid, Within
  <2>10. QED
    BY <2>7, <2>8, <2>9
<1>3. QED
  BY <1>1, <1>2 DEF Cascade!NoDangling

-----------------------------------------------------------------------------
(***************************************************************************)
(* A delete takes exactly what the cascading relations ask for, is refused *)
(* only for a required one, and no committed reference dangles, for any    *)
(* records, owners, relations and saves, unless a save was validated       *)
(* before the delete committed or the worker had not heard of a relation:  *)
(* cascadeRecordDelete and deleteRefRecords.                               *)
(***************************************************************************)
THEOREM ReferencesKept == PartsSpec => []NoDangling
<1>1. PartsInit => CascadeInv
  BY CascadeInit DEF PartsInit
<1>2. CascadeInv /\ [PartsNext]_<<part, vars, deleteVars, limitVars, claimVars, fileVars, hookVars,
                                  cascadeVars, updateVars, historyVars, thumbVars>> => CascadeInv'
  <2>1. SUFFICES ASSUME CascadeInv,
                        [PartsNext]_<<part, vars, deleteVars, limitVars, claimVars, fileVars,
                                      hookVars, cascadeVars, updateVars, historyVars, thumbVars>>
                 PROVE  CascadeInv'
    OBVIOUS
  <2>2. Cascade!Next \/ UNCHANGED cascadeVars
    BY <2>1 DEF PartsNext
  <2>3. Cascade!Next \/ UNCHANGED Cascade!vars
    BY <2>2 DEF cascadeVars, Cascade!vars, Cascade!schemaVars, Cascade!saveVars
  <2>4. QED
    BY <2>1, <2>3, CascadeStep, PartsAssumption
<1>3. CascadeInv => NoDangling
  BY NoDanglingHolds DEF NoDangling
<1>4. QED
  BY <1>1, <1>2, <1>3, PTL DEF PartsSpec
=============================================================================
