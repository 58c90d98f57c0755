------------------------------ MODULE OrderProofs ------------------------------
(***************************************************************************)
(* Proofs about the parts of MCSafety that go through a list in its order: *)
(* the handlers of a hook, for any handlers, tags, events and changes; and *)
(* the migrations of a run, for any migrations, processes and runs. And of *)
(* the realtime deletes of MCSafety what DeletesProofs proves of them.     *)
(***************************************************************************)
EXTENDS LimitsProofs, FiniteSetTheorems

(***************************************************************************)
(* Hooks. The handlers before the cursor of an event that runs are those   *)
(* that it has run, in their order, unless the event does not have their   *)
(* tag (Came); those that are there throughout are still among the ones it *)
(* goes by, in their order (There).                                        *)
(***************************************************************************)
Chains == Seq(Handlers \union {OneOff})
Once(s) == \A i, j \in DOMAIN s : s[i] = s[j] => i = j
Runs(h, e) == Hooks!CanRun(h, e)
Comes(s, g, h) == Hooks!Before(s, g, h)
Has(s, h) == \E i \in DOMAIN s : s[i] = h

HookTyped ==
  /\ handlers \in Seq(Handlers) /\ Once(handlers)
  /\ len \in [Events -> Nat] /\ index \in [Events -> Nat]
  /\ state \in [Events -> {"idle", "running", "over"}]
  /\ ran \in [Events -> Chains] /\ bound \in [Events -> Seq(Handlers)]
  /\ gone \in [Events -> SUBSET Handlers]
  /\ \A e \in Events : state[e] = "idle" => e \notin shifted /\ ran[e] = <<>>

Came(e, hs, at, r) ==
  /\ at <= Len(hs)
  /\ \A i \in DOMAIN r : \E p \in 1..at : r[i] = hs[p] /\ Runs(hs[p], e)
  /\ \A p \in 1..at : Runs(hs[p], e) => Has(r, hs[p])
  /\ \A p, q \in 1..at : p < q /\ Runs(hs[p], e) /\ Runs(hs[q], e) => Comes(r, hs[p], hs[q])
  /\ Once(r)

There(hs, to, b, without) ==
  /\ \A h \in Handlers \ without : Has(b, h) => \E p \in 1..to : p <= Len(hs) /\ hs[p] = h
  /\ \A g, h \in Handlers \ without : Comes(b, g, h) => Comes(hs, g, h)

\* What AllRun says of one event.
Throughout(e, b, without) == {h \in Handlers \ without : Has(b, h) /\ Runs(h, e)}

Ended(e, r, b, without) ==
  /\ Once(r)
  /\ \A i \in DOMAIN r : r[i] # OneOff => Runs(r[i], e)
  /\ Has(r, OneOff) =>
       \A g, h \in Throughout(e, b, without) \union {OneOff} :
         Comes(Append(b, OneOff), g, h) => Comes(r, g, h)

ChainInv ==
  \A e \in Events \ shifted :
    /\ state[e] = "running" => /\ index[e] <= len[e] /\ Came(e, handlers, index[e], ran[e])
                               /\ There(handlers, len[e], bound[e], gone[e])
    /\ state[e] = "over" => Ended(e, ran[e], bound[e], gone[e])

HookInv == HookTyped /\ ChainInv

\* A list in which one is inserted, and one from which one is taken.
LEMMA Inserted ==
  ASSUME NEW S, NEW s \in Seq(S), NEW k \in 1..Len(s) + 1, NEW h \in S
  PROVE  LET t == Hooks!InsertAt(s, k, h) IN
           /\ t \in Seq(S) /\ Len(t) = Len(s) + 1
           /\ \A p \in 1..k - 1 : t[p] = s[p]
           /\ t[k] = h
           /\ \A p \in k..Len(s) : t[p + 1] = s[p]
<1>1. PICK u : u = SubSeq(s, 1, k - 1)
  OBVIOUS
<1>2. PICK v : v = SubSeq(s, k, Len(s))
  OBVIOUS
<1>3. /\ u \in Seq(S) /\ Len(u) = k - 1
      /\ \A p \in 1..k - 1 : u[p] = s[p]
  BY <1>1
<1>4. /\ v \in Seq(S) /\ Len(v) = Len(s) - k + 1
      /\ \A p \in 1..Len(s) - k + 1 : v[p] = s[k - 1 + p]
  BY <1>2
<1>5. PICK w : w = u \o <<h>>
  OBVIOUS
<1>6. /\ w \in Seq(S) /\ Len(w) = k
      /\ \A p \in 1..k - 1 : w[p] = s[p]
      /\ w[k] = h
  BY <1>3, <1>5
<1>7. PICK t : t = w \o v
  OBVIOUS
<1>8. /\ t \in Seq(S) /\ Len(t) = Len(s) + 1
      /\ \A p \in 1..k : t[p] = w[p]
      /\ \A p \in 1..Len(s) - k + 1 : t[k + p] = v[p]
  BY <1>4, <1>6, <1>7
<1>9. \A p \in k..Len(s) : t[p + 1] = s[p]
  <2>1. SUFFICES ASSUME NEW p \in k..Len(s) PROVE t[p + 1] = s[p]
    OBVIOUS
  <2>2. PICK n \in 1..Len(s) - k + 1 : p = k - 1 + n
    <3>1. p - k + 1 \in 1..Len(s) - k + 1 /\ p = k - 1 + (p - k + 1)
      OBVIOUS
    <3>2. QED
      BY <3>1
  <2>3. p + 1 = k + n
    BY <2>2
  <2>4. QED
    BY <1>4, <1>8, <2>2, <2>3
<1>10. t = Hooks!InsertAt(s, k, h)
  BY <1>1, <1>2, <1>5, <1>7 DEF Hooks!InsertAt
<1>11. QED
  BY <1>6, <1>8, <1>9, <1>10

LEMMA Removed ==
  ASSUME NEW S, NEW s \in Seq(S), NEW a \in 1..Len(s)
  PROVE  LET t == Hooks!RemoveAt(s, a) IN
           /\ t \in Seq(S) /\ Len(t) = Len(s) - 1
           /\ \A p \in 1..a - 1 : t[p] = s[p]
           /\ \A p \in a + 1..Len(s) : t[p - 1] = s[p]
<1>1. PICK u : u = SubSeq(s, 1, a - 1)
  OBVIOUS
<1>2. PICK v : v = SubSeq(s, a + 1, Len(s))
  OBVIOUS
<1>3. /\ u \in Seq(S) /\ Len(u) = a - 1
      /\ \A p \in 1..a - 1 : u[p] = s[p]
  BY <1>1
<1>4. /\ v \in Seq(S) /\ Len(v) = Len(s) - a
      /\ \A p \in 1..Len(s) - a : v[p] = s[a + p]
  BY <1>2
<1>5. PICK t : t = u \o v
  OBVIOUS
<1>6. /\ t \in Seq(S) /\ Len(t) = Len(s) - 1
      /\ \A p \in 1..a - 1 : t[p] = u[p]
      /\ \A p \in 1..Len(s) - a : t[a - 1 + p] = v[p]
  <2>1. /\ t \in Seq(S) /\ Len(t) = Len(u) + Len(v)
        /\ \A p \in 1..Len(u) : t[p] = u[p]
        /\ \A p \in 1..Len(v) : t[Len(u) + p] = v[p]
    <3>1. \A p \in 1..Len(u) + Len(v) : t[p] = IF p <= Len(u) THEN u[p] ELSE v[p - Len(u)]
      BY <1>3, <1>4, <1>5, ConcatProperties
    <3>2. Len(u) \in Nat /\ Len(v) \in Nat
      BY <1>3, <1>4
    <3>3. \A p \in 1..Len(v) : /\ Len(u) + p \in 1..Len(u) + Len(v) /\ ~(Len(u) + p <= Len(u))
                              /\ Len(u) + p - Len(u) = p
      BY <3>2
    <3>4. \A p \in 1..Len(v) : t[Len(u) + p] = v[p]
      BY <3>1, <3>3
    <3>5. \A p \in 1..Len(u) : t[p] = u[p]
      BY <3>1, <3>2
    <3>6. QED
      BY <1>3, <1>4, <1>5, <3>4, <3>5, ConcatProperties
  <2>2. QED
    BY <1>3, <1>4, <2>1
<1>7. \A p \in a + 1..Len(s) : t[p - 1] = s[p]
  <2>1. SUFFICES ASSUME NEW p \in a + 1..Len(s) PROVE t[p - 1] = s[p]
    OBVIOUS
  <2>2. PICK k \in 1..Len(s) - a : p = a + k
    <3>1. p - a \in 1..Len(s) - a /\ p = a + (p - a)
      OBVIOUS
    <3>2. QED
      BY <3>1
  <2>3. p - 1 = a - 1 + k
    BY <2>2
  <2>4. QED
    BY <1>4, <1>6, <2>2, <2>3
<1>8. t = Hooks!RemoveAt(s, a)
  BY <1>1, <1>2, <1>5 DEF Hooks!RemoveAt
<1>9. QED
  BY <1>3, <1>6, <1>7, <1>8

LEMMA Least ==
  ASSUME NEW T \in SUBSET Nat, T # {}
  PROVE  \E m \in T : \A n \in T : m <= n
<1> DEFINE S == {n \in Nat : \A k \in 0..n : k \notin T}
<1>1. SUFFICES ASSUME \A m \in T : \E n \in T : n < m PROVE FALSE
  OBVIOUS
<1>2. 0 \in S
  BY <1>1
<1>3. ASSUME NEW n \in S PROVE n + 1 \in S
  <2>1. \A k \in 0..n : k \notin T
    BY <1>3
  <2>2. n + 1 \notin T
    <3>1. SUFFICES ASSUME n + 1 \in T PROVE FALSE
      OBVIOUS
    <3>2. PICK k \in T : k < n + 1
      BY <1>1, <3>1
    <3>3. k \in 0..n
      BY <3>2
    <3>4. QED
      BY <2>1, <3>3
  <2>3. \A k \in 0..n + 1 : k \in 0..n \/ k = n + 1
    OBVIOUS
  <2>4. QED
    BY <2>1, <2>2, <2>3
<1>4. S \subseteq Nat
  OBVIOUS
<1>5. \A n \in Nat : n \in S
  <2> HIDE DEF S
  <2>1. QED
    BY <1>2, <1>3, <1>4, Induction
<1>6. \A n \in Nat : n \in 0..n /\ n \notin T
  <2>1. SUFFICES ASSUME NEW n \in Nat PROVE n \in 0..n /\ n \notin T
    OBVIOUS
  <2>2. n \in 0..n /\ n \in S
    BY <1>5
  <2>3. QED
    BY <2>2
<1>7. QED
  BY <1>6

\* A list that has one more at its end.
LEMMA Appended ==
  ASSUME NEW S, NEW s \in Seq(S), NEW h \in S
  PROVE  LET t == Append(s, h) IN
           /\ t \in Seq(S)
           /\ \A g : Has(t, g) <=> Has(s, g) \/ g = h
           /\ Once(s) /\ ~Has(s, h) => Once(t)
           /\ \A f, g : Comes(s, f, g) => Comes(t, f, g)
           /\ \A g : Has(s, g) => Comes(t, g, h)
           /\ \A f, g : Comes(t, f, g) => Comes(s, f, g) \/ (Has(s, f) /\ g = h)
<1>1. PICK n \in Nat : n = Len(s) /\ DOMAIN s = 1..n
  OBVIOUS
<1>2. PICK t : t = Append(s, h)
  OBVIOUS
<1>3. /\ t \in Seq(S) /\ DOMAIN t = 1..n + 1 /\ t[n + 1] = h
      /\ \A i \in 1..n : t[i] = s[i]
  BY <1>1, <1>2, AppendProperties
<1>4. \A i : i \in 1..n + 1 <=> i \in 1..n \/ i = n + 1
  BY <1>1
<1>5. \A i \in 1..n : i < n + 1 /\ ~(n + 1 < i)
  BY <1>1
<1>6. \A g : Has(t, g) <=> Has(s, g) \/ g = h
  BY <1>1, <1>3, <1>4 DEF Has
<1>7. ASSUME Once(s), ~Has(s, h) PROVE Once(t)
  BY <1>1, <1>3, <1>4, <1>7 DEF Once, Has
<1>8. \A f, g : Comes(s, f, g) => Comes(t, f, g)
  BY <1>1, <1>3, <1>4 DEF Comes, Hooks!Before
<1>9. \A g : Has(s, g) => Comes(t, g, h)
  <2>1. SUFFICES ASSUME NEW g, NEW i \in 1..n, s[i] = g PROVE Comes(t, g, h)
    BY <1>1 DEF Has
  <2>2. i \in DOMAIN t /\ n + 1 \in DOMAIN t /\ i < n + 1 /\ t[i] = g
    BY <1>3, <1>4, <1>5, <2>1
  <2>3. QED
    BY <1>3, <2>2 DEF Comes, Hooks!Before
<1>10. ASSUME NEW f, NEW g, Comes(t, f, g) PROVE Comes(s, f, g) \/ (Has(s, f) /\ g = h)
  <2>1. PICK i, j \in DOMAIN t : i < j /\ t[i] = f /\ t[j] = g
    BY <1>10 DEF Comes, Hooks!Before
  <2>2. i \in 1..n
    BY <1>1, <1>3, <2>1
  <2>3. CASE j \in 1..n
    BY <1>1, <1>3, <2>1, <2>2, <2>3 DEF Comes, Hooks!Before
  <2>4. CASE j = n + 1
    BY <1>1, <1>3, <2>1, <2>2, <2>4 DEF Has
  <2>5. QED
    BY <1>3, <1>4, <2>1, <2>3, <2>4
<1>11. QED
  BY <1>2, <1>3, <1>6, <1>7, <1>8, <1>9, <1>10

\* The chain goes on with the next handler that runs for the event.
LEMMA CameOn ==
  ASSUME NEW e \in Events, NEW hs \in Seq(Handlers), Once(hs),
         NEW at \in Nat, NEW r \in Chains, Came(e, hs, at, r),
         NEW k \in at + 1..Len(hs), Runs(hs[k], e),
         \A p \in at + 1..k - 1 : ~Runs(hs[p], e)
  PROVE  Append(r, hs[k]) \in Chains /\ Came(e, hs, k, Append(r, hs[k]))
<1>1. PICK h \in Handlers : h = hs[k]
  OBVIOUS
<1>2. PICK t : t = Append(r, h)
  OBVIOUS
<1>3. \A p \in 1..at : p # k /\ p \in DOMAIN hs /\ p \in 1..k
  BY DEF Came
<1>4. ~Has(r, h)
  <2>1. \A i \in DOMAIN r : \E p \in 1..at : r[i] = hs[p]
    BY DEF Came
  <2>2. \A p \in 1..at : hs[p] # h
    BY <1>1, <1>3 DEF Once
  <2>3. QED
    BY <2>1, <2>2 DEF Has
<1>5. /\ t \in Chains /\ Once(t)
      /\ \A g : Has(t, g) <=> Has(r, g) \/ g = h
      /\ \A f, g : Comes(r, f, g) => Comes(t, f, g)
      /\ \A g : Has(r, g) => Comes(t, g, h)
  <2>1. Once(r) /\ r \in Seq(Handlers \union {OneOff}) /\ h \in Handlers \union {OneOff}
    BY DEF Came, Chains
  <2>2. QED
    BY <1>2, <1>4, <2>1, Appended DEF Chains
<1>6. \A p \in 1..k : Runs(hs[p], e) => p \in 1..at \/ p = k
  OBVIOUS
<1>7. \A i \in DOMAIN t : \E p \in 1..k : t[i] = hs[p] /\ Runs(hs[p], e)
  <2>1. ASSUME NEW i \in DOMAIN t PROVE \E p \in 1..k : t[i] = hs[p] /\ Runs(hs[p], e)
    <3>1. Has(r, t[i]) \/ t[i] = h
      BY <1>5, <2>1 DEF Has
    <3>2. CASE Has(r, t[i])
      BY <1>3, <3>2 DEF Has, Came
    <3>3. QED
      BY <1>1, <3>1, <3>2
  <2>2. QED
    BY <2>1
<1>8. \A p \in 1..k : Runs(hs[p], e) => Has(t, hs[p])
  BY <1>1, <1>5, <1>6 DEF Came
<1>9. ASSUME NEW p \in 1..k, NEW q \in 1..k, p < q, Runs(hs[p], e), Runs(hs[q], e)
      PROVE  Comes(t, hs[p], hs[q])
  <2>1. p \in 1..at
    BY <1>6, <1>9
  <2>2. CASE q \in 1..at
    BY <1>5, <1>9, <2>1, <2>2 DEF Came
  <2>3. CASE q = k
    BY <1>1, <1>5, <1>9, <2>1, <2>3 DEF Came
  <2>4. QED
    BY <1>6, <1>9, <2>2, <2>3
<1>10. QED
  BY <1>1, <1>2, <1>5, <1>7, <1>8, <1>9 DEF Came

\* Or there is none, and it ends with the function that was given.
LEMMA EndOn ==
  ASSUME NEW e \in Events, NEW hs \in Seq(Handlers), Once(hs),
         NEW at \in Nat, NEW r \in Chains, Came(e, hs, at, r),
         NEW to \in Nat, NEW b \in Seq(Handlers), NEW without, There(hs, to, b, without),
         \A p \in at + 1..to : p <= Len(hs) => ~Runs(hs[p], e),
         OneOff \notin Handlers
  PROVE  Append(r, OneOff) \in Chains /\ Ended(e, Append(r, OneOff), b, without)
<1>1. PICK t : t = Append(r, OneOff)
  OBVIOUS
<1>2. \A i \in DOMAIN r : \E p \in 1..at : r[i] = hs[p] /\ hs[p] \in Handlers /\ Runs(hs[p], e)
  <2>1. \A p \in 1..at : p \in 1..Len(hs)
    BY DEF Came
  <2>2. \A p \in 1..at : hs[p] \in Handlers
    BY <2>1
  <2>3. QED
    BY <2>2 DEF Came
<1>3. ~Has(r, OneOff)
  BY <1>2 DEF Has
<1>4. /\ t \in Chains /\ Once(t)
      /\ \A g : Has(t, g) <=> Has(r, g) \/ g = OneOff
      /\ \A f, g : Comes(r, f, g) => Comes(t, f, g)
      /\ \A g : Has(r, g) => Comes(t, g, OneOff)
  <2>1. Once(r) /\ r \in Seq(Handlers \union {OneOff}) /\ OneOff \in Handlers \union {OneOff}
    BY DEF Came, Chains
  <2>2. QED
    BY <1>1, <1>3, <2>1, Appended DEF Chains
<1>5. \A i \in DOMAIN t : t[i] # OneOff => Runs(t[i], e)
  <2>1. SUFFICES ASSUME NEW i \in DOMAIN t, t[i] # OneOff PROVE Runs(t[i], e)
    OBVIOUS
  <2>2. Has(r, t[i])
    BY <1>4, <2>1 DEF Has
  <2>3. QED
    BY <1>2, <2>2 DEF Has
<1>6. ASSUME NEW h \in Throughout(e, b, without)
      PROVE  \E p \in 1..at : hs[p] = h
  <2>1. h \in Handlers \ without /\ Has(b, h) /\ Runs(h, e)
    BY <1>6 DEF Throughout
  <2>2. PICK p \in 1..to : p <= Len(hs) /\ hs[p] = h
    BY <2>1 DEF There
  <2>3. p \in 1..at \/ p \in at + 1..to
    OBVIOUS
  <2>4. QED
    BY <2>1, <2>2, <2>3
<1>7. ASSUME NEW g \in Throughout(e, b, without) \union {OneOff},
             NEW h \in Throughout(e, b, without) \union {OneOff},
             Comes(Append(b, OneOff), g, h)
      PROVE  Comes(t, g, h)
  <2>1. Comes(b, g, h) \/ (Has(b, g) /\ h = OneOff)
    <3>1. b \in Seq(Handlers \union {OneOff}) /\ OneOff \in Handlers \union {OneOff}
      OBVIOUS
    <3>2. QED
      BY <1>7, <3>1, Appended
  <2>2. \A i \in DOMAIN b : b[i] \in Handlers
    OBVIOUS
  <2>3. g # OneOff
    BY <2>1, <2>2 DEF Comes, Hooks!Before, Has
  <2>4. PICK p \in 1..at : hs[p] = g
    BY <1>6, <2>3
  <2>5. Runs(g, e) /\ g \in Handlers \ without
    BY <2>3 DEF Throughout
  <2>6. Has(r, g)
    BY <2>4, <2>5 DEF Came
  <2>7. CASE h = OneOff
    BY <1>4, <2>6, <2>7
  <2>8. CASE h # OneOff
    <3>1. h \in Handlers \ without /\ Runs(h, e) /\ Comes(b, g, h)
      BY <2>1, <2>8 DEF Throughout
    <3>2. Comes(hs, g, h)
      BY <2>5, <3>1 DEF There
    <3>3. PICK q \in 1..at : hs[q] = h
      BY <1>6, <2>8
    <3>4. \A i \in 1..at : i \in DOMAIN hs
      BY DEF Came
    <3>5. p < q
      BY <2>4, <3>2, <3>3, <3>4 DEF Comes, Hooks!Before, Once
    <3>6. Comes(r, g, h)
      BY <2>4, <2>5, <3>1, <3>3, <3>5 DEF Came
    <3>7. QED
      BY <1>4, <3>6
  <2>9. QED
    BY <2>7, <2>8
<1>8. QED
  BY <1>1, <1>4, <1>5, <1>7 DEF Ended

\* Or a handler does not go on.
LEMMA EndEarly ==
  ASSUME NEW e \in Events, NEW hs \in Seq(Handlers), NEW at \in Nat, NEW r \in Chains,
         Came(e, hs, at, r), NEW b, NEW without, OneOff \notin Handlers
  PROVE  Ended(e, r, b, without)
<1>1. \A p \in 1..at : hs[p] \in Handlers
  <2>1. \A p \in 1..at : p \in 1..Len(hs)
    BY DEF Came
  <2>2. QED
    BY <2>1
<1>2. \A i \in DOMAIN r : r[i] # OneOff /\ Runs(r[i], e)
  BY <1>1 DEF Came
<1>3. QED
  BY <1>2 DEF Ended, Came, Has

\* What the event has run stays, when the handlers change behind its cursor.
LEMMA CameKept ==
  ASSUME NEW e \in Events, NEW hs, NEW ht, NEW at \in Nat, NEW r, Came(e, hs, at, r),
         at <= Len(ht), \A p \in 1..at : ht[p] = hs[p]
  PROVE  Came(e, ht, at, r)
BY DEF Came

\* Where the handlers of a list are after one was bound or unbound, in a way that
\* keeps the order: place is where each of the others is, if it is among them.
LEMMA ThereMoves ==
  ASSUME NEW hs \in Seq(Handlers), NEW ht \in Seq(Handlers), NEW to \in Nat, NEW b,
         NEW without, NEW more, without \subseteq more, There(hs, to, b, without),
         NEW place \in [1..Len(hs) -> Nat],
         \A p \in 1..Len(hs) : hs[p] \notin more =>
           /\ place[p] \in 1..Len(ht) /\ ht[place[p]] = hs[p]
           /\ p <= to => place[p] <= to
         ,
         \A p, q \in 1..Len(hs) : p < q /\ hs[p] \notin more /\ hs[q] \notin more =>
                                    place[p] < place[q]
  PROVE  There(ht, to, b, more)
<1>1. ASSUME NEW h \in Handlers \ more, Has(b, h)
      PROVE  \E p \in 1..to : p <= Len(ht) /\ ht[p] = h
  <2>1. PICK p \in 1..to : p <= Len(hs) /\ hs[p] = h
    BY <1>1 DEF There
  <2>2. p \in 1..Len(hs) /\ p <= to
    BY <2>1
  <2>3. place[p] \in 1..Len(ht) /\ ht[place[p]] = h /\ place[p] <= to
    BY <1>1, <2>1, <2>2
  <2>4. QED
    BY <2>3
<1>2. ASSUME NEW g \in Handlers \ more, NEW h \in Handlers \ more, Comes(b, g, h)
      PROVE  Comes(ht, g, h)
  <2>1. Comes(hs, g, h)
    BY <1>2 DEF There
  <2>2. PICK p, q \in 1..Len(hs) : p < q /\ hs[p] = g /\ hs[q] = h
    BY <2>1 DEF Comes, Hooks!Before
  <2>3. /\ place[p] \in DOMAIN ht /\ place[q] \in DOMAIN ht /\ place[p] < place[q]
        /\ ht[place[p]] = g /\ ht[place[q]] = h
    BY <1>2, <2>2
  <2>4. QED
    BY <2>3 DEF Comes, Hooks!Before
<1>3. QED
  BY <1>1, <1>2 DEF There

\* A call of Next is of one event.
LEMMA CallTyped ==
  ASSUME HookTyped, NEW e \in Events, NEW at \in Nat, NEW to \in Nat, Hooks!Call(e, at, to)
  PROVE  /\ ran' \in [Events -> Chains] /\ index' \in [Events -> Nat]
         /\ state' \in [Events -> {"idle", "running", "over"}] /\ state'[e] # "idle"
         /\ \A f \in Events \ {e} : /\ ran'[f] = ran[f] /\ index'[f] = index[f]
                                   /\ state'[f] = state[f]
<1>1. /\ handlers \in Seq(Handlers)
      /\ ran \in [Events -> Chains] /\ index \in [Events -> Nat]
      /\ state \in [Events -> {"idle", "running", "over"}]
  BY DEF HookTyped
<1>2. PICK ahead : ahead = Hooks!Ahead(e, at, to)
  OBVIOUS
<1>3. \A i : i \in ahead => i \in Nat /\ i < Len(handlers)
  BY <1>2 DEF Hooks!Ahead
<1>4. CASE ahead # {}
  <2>1. PICK m \in ahead : \A n \in ahead : m <= n
    <3>1. ahead \in SUBSET Nat
      BY <1>3
    <3>2. QED
      BY <1>4, <3>1, Least
  <2>2. PICK i : i = Hooks!Min(ahead)
    OBVIOUS
  <2>3. i \in ahead
    BY <2>1, <2>2 DEF Hooks!Min
  <2>4. /\ ran' = [ran EXCEPT ![e] = Append(ran[e], handlers[i + 1])]
        /\ index' = [index EXCEPT ![e] = i + 1]
        /\ state' = [state EXCEPT ![e] = "running"]
    BY <1>2, <1>4, <2>2 DEF Hooks!Call, Hooks!Past
  <2>5. i + 1 \in Nat /\ handlers[i + 1] \in Handlers
    BY <1>1, <1>3, <2>3
  <2>6. Append(ran[e], handlers[i + 1]) \in Chains
    BY <1>1, <2>5 DEF Chains
  <2>7. QED
    BY <1>1, <2>4, <2>5, <2>6
<1>5. CASE ahead = {}
  <2>1. /\ ran' = [ran EXCEPT ![e] = Append(ran[e], OneOff)]
        /\ index' = [index EXCEPT ![e] = to + 1]
        /\ state' = [state EXCEPT ![e] = "over"]
    BY <1>2, <1>5 DEF Hooks!Call
  <2>2. Append(ran[e], OneOff) \in Chains /\ to + 1 \in Nat
    BY <1>1 DEF Chains
  <2>3. QED
    BY <1>1, <2>1, <2>2
<1>6. QED
  BY <1>4, <1>5

LEMMA CallStep ==
  ASSUME HookTyped, OneOff \notin Handlers, NEW e \in Events, NEW at \in Nat, NEW to \in Nat,
         at <= to, Came(e, handlers, at, ran[e]), NEW b \in Seq(Handlers), NEW without,
         There(handlers, to, b, without), Hooks!Call(e, at, to)
  PROVE  \/ /\ state'[e] = "running" /\ index'[e] <= to
            /\ Came(e, handlers, index'[e], ran'[e])
         \/ state'[e] = "over" /\ Ended(e, ran'[e], b, without)
<1>1. /\ handlers \in Seq(Handlers) /\ Once(handlers)
      /\ ran \in [Events -> Chains] /\ index \in [Events -> Nat]
      /\ state \in [Events -> {"idle", "running", "over"}]
  BY DEF HookTyped
<1>2. PICK ahead : ahead = Hooks!Ahead(e, at, to)
  OBVIOUS
<1>3. \A i : i \in ahead <=> i \in at..to - 1 /\ i < Len(handlers) /\ Runs(handlers[i + 1], e)
  BY <1>2 DEF Hooks!Ahead, Runs
<1>4. CASE ahead # {}
  <2>1. PICK m \in ahead : \A n \in ahead : m <= n
    <3>1. ahead \in SUBSET Nat
      BY <1>3
    <3>2. QED
      BY <1>4, <3>1, Least
  <2>2. PICK i : i = Hooks!Min(ahead)
    OBVIOUS
  <2>3. i \in ahead /\ \A n \in ahead : i <= n
    BY <2>1, <2>2 DEF Hooks!Min
  <2>4. /\ ran' = [ran EXCEPT ![e] = Append(ran[e], handlers[i + 1])]
        /\ index' = [index EXCEPT ![e] = i + 1]
        /\ state' = [state EXCEPT ![e] = "running"]
    BY <1>2, <1>4, <2>2 DEF Hooks!Call, Hooks!Past
  <2>5. PICK k \in at + 1..Len(handlers) : k = i + 1 /\ k <= to /\ Runs(handlers[k], e)
    BY <1>1, <1>3, <2>3
  <2>6. ASSUME NEW p \in at + 1..k - 1 PROVE ~Runs(handlers[p], e)
    <3>1. p - 1 \in at..to - 1 /\ p - 1 < Len(handlers) /\ (p - 1) + 1 = p /\ ~(i <= p - 1)
      BY <1>1, <1>3, <2>3, <2>5
    <3>2. QED
      BY <1>3, <2>3, <3>1
  <2>7. /\ Append(ran[e], handlers[k]) \in Chains
        /\ Came(e, handlers, k, Append(ran[e], handlers[k]))
    BY <1>1, <2>5, <2>6, CameOn
  <2>8. ran'[e] = Append(ran[e], handlers[k]) /\ index'[e] = k /\ state'[e] = "running"
    BY <1>1, <2>4, <2>5
  <2>9. QED
    BY <2>5, <2>7, <2>8
<1>5. CASE ahead = {}
  <2>1. /\ ran' = [ran EXCEPT ![e] = Append(ran[e], OneOff)]
        /\ index' = [index EXCEPT ![e] = to + 1]
        /\ state' = [state EXCEPT ![e] = "over"]
    BY <1>2, <1>5 DEF Hooks!Call
  <2>2. ASSUME NEW p \in at + 1..to, p <= Len(handlers) PROVE ~Runs(handlers[p], e)
    <3>1. p - 1 \in at..to - 1 /\ p - 1 < Len(handlers) /\ (p - 1) + 1 = p
      BY <1>1, <2>2
    <3>2. QED
      BY <1>3, <1>5, <3>1
  <2>3. Append(ran[e], OneOff) \in Chains /\ Ended(e, Append(ran[e], OneOff), b, without)
    BY <1>1, <2>2, EndOn
  <2>4. ran'[e] = Append(ran[e], OneOff) /\ state'[e] = "over"
    BY <1>1, <2>1
  <2>5. QED
    BY <2>3, <2>4
<1>6. QED
  BY <1>4, <1>5

LEMMA TriggerStep ==
  ASSUME HookInv, OneOff \notin Handlers, NEW e \in Events, Hooks!Trigger(e)
  PROVE  HookInv'
<1>1. /\ state[e] = "idle" /\ Hooks!Call(e, 0, Len(handlers))
      /\ len' = [len EXCEPT ![e] = Len(handlers)] /\ bound' = [bound EXCEPT ![e] = handlers]
      /\ UNCHANGED <<handlers, gone, shifted, changes>>
  BY DEF Hooks!Trigger
<1>2. HookTyped /\ ChainInv
  BY DEF HookInv
<1>3. /\ handlers \in Seq(Handlers) /\ Once(handlers) /\ len \in [Events -> Nat]
      /\ bound \in [Events -> Seq(Handlers)] /\ Len(handlers) \in Nat
  BY <1>2 DEF HookTyped
<1>4. /\ ran' \in [Events -> Chains] /\ index' \in [Events -> Nat]
      /\ state' \in [Events -> {"idle", "running", "over"}] /\ state'[e] # "idle"
      /\ \A f \in Events \ {e} : ran'[f] = ran[f] /\ index'[f] = index[f] /\ state'[f] = state[f]
  BY <1>1, <1>2, <1>3, CallTyped
<1>5. /\ len' \in [Events -> Nat] /\ bound' \in [Events -> Seq(Handlers)]
      /\ len'[e] = Len(handlers) /\ bound'[e] = handlers
      /\ \A f \in Events \ {e} : len'[f] = len[f] /\ bound'[f] = bound[f]
  BY <1>1, <1>3
<1>6. HookTyped'
  BY <1>1, <1>2, <1>4, <1>5 DEF HookTyped
<1>7. There(handlers, Len(handlers), handlers, gone[e])
  BY <1>3 DEF There, Has
<1>8. Came(e, handlers, 0, ran[e])
  <2>1. ran[e] = <<>>
    BY <1>1, <1>2 DEF HookTyped
  <2>2. Came(e, handlers, 0, <<>>)
    BY <1>3 DEF Came, Once
  <2>3. QED
    BY <2>1, <2>2
<1>9. \/ /\ state'[e] = "running" /\ index'[e] <= Len(handlers)
         /\ Came(e, handlers, index'[e], ran'[e])
      \/ state'[e] = "over" /\ Ended(e, ran'[e], handlers, gone[e])
  <2>1. PICK n \in Nat : n = Len(handlers)
    BY <1>3
  <2>2. /\ 0 \in Nat /\ 0 <= n /\ Hooks!Call(e, 0, n)
        /\ There(handlers, n, handlers, gone[e])
    BY <1>1, <1>7, <2>1
  <2>3. \/ /\ state'[e] = "running" /\ index'[e] <= n
           /\ Came(e, handlers, index'[e], ran'[e])
        \/ state'[e] = "over" /\ Ended(e, ran'[e], handlers, gone[e])
    BY <1>2, <1>3, <1>8, <2>2, CallStep
  <2>4. QED
    BY <2>1, <2>3
<1>10. handlers' = handlers /\ gone' = gone /\ shifted' = shifted
  BY <1>1
<1>11. ChainInv'
  BY <1>2, <1>4, <1>5, <1>7, <1>9, <1>10 DEF ChainInv
<1>12. QED
  BY <1>6, <1>11 DEF HookInv

LEMMA NextStep ==
  ASSUME HookInv, OneOff \notin Handlers, NEW e \in Events, Hooks!CallNext(e)
  PROVE  HookInv'
<1>1. /\ state[e] = "running" /\ Hooks!Call(e, index[e], len[e])
      /\ UNCHANGED <<handlers, len, bound, gone, shifted, changes>>
  BY DEF Hooks!CallNext
<1>2. HookTyped /\ ChainInv
  BY DEF HookInv
<1>3. len[e] \in Nat /\ index[e] \in Nat /\ bound[e] \in Seq(Handlers)
  BY <1>2 DEF HookTyped
<1>4. /\ ran' \in [Events -> Chains] /\ index' \in [Events -> Nat]
      /\ state' \in [Events -> {"idle", "running", "over"}] /\ state'[e] # "idle"
      /\ \A f \in Events \ {e} : ran'[f] = ran[f] /\ index'[f] = index[f] /\ state'[f] = state[f]
  BY <1>1, <1>2, <1>3, CallTyped
<1>5. HookTyped'
  BY <1>1, <1>2, <1>4 DEF HookTyped
<1>6. ASSUME e \notin shifted
      PROVE  /\ There(handlers, len[e], bound[e], gone[e])
             /\ \/ /\ state'[e] = "running" /\ index'[e] <= len[e]
                   /\ Came(e, handlers, index'[e], ran'[e])
                \/ state'[e] = "over" /\ Ended(e, ran'[e], bound[e], gone[e])
  <2>1. /\ index[e] <= len[e] /\ Came(e, handlers, index[e], ran[e])
        /\ There(handlers, len[e], bound[e], gone[e])
    BY <1>1, <1>2, <1>6 DEF ChainInv
  <2>2. QED
    BY <1>1, <1>2, <1>3, <2>1, CallStep
<1>7. /\ handlers' = handlers /\ gone' = gone /\ shifted' = shifted /\ len' = len
      /\ bound' = bound
  BY <1>1
<1>8. ChainInv'
  BY <1>2, <1>4, <1>6, <1>7 DEF ChainInv
<1>9. QED
  BY <1>5, <1>8 DEF HookInv

LEMMA ReturnStep ==
  ASSUME HookInv, OneOff \notin Handlers, NEW e \in Events, Hooks!Return(e)
  PROVE  HookInv'
<1>1. /\ state[e] = "running" /\ state' = [state EXCEPT ![e] = "over"]
      /\ UNCHANGED <<handlers, len, index, ran, bound, gone, shifted, changes>>
  BY DEF Hooks!Return
<1>2. HookTyped /\ ChainInv
  BY DEF HookInv
<1>3. /\ state' \in [Events -> {"idle", "running", "over"}] /\ state'[e] = "over"
      /\ \A f \in Events \ {e} : state'[f] = state[f]
  BY <1>1, <1>2 DEF HookTyped
<1>4. HookTyped'
  BY <1>1, <1>2, <1>3 DEF HookTyped
<1>5. ASSUME e \notin shifted PROVE Ended(e, ran[e], bound[e], gone[e])
  <2>1. /\ handlers \in Seq(Handlers) /\ index[e] \in Nat /\ ran[e] \in Chains
        /\ Came(e, handlers, index[e], ran[e])
    BY <1>1, <1>2, <1>5 DEF HookTyped, ChainInv
  <2>2. QED
    BY <2>1, EndEarly
<1>6. ChainInv'
  BY <1>1, <1>2, <1>3, <1>5 DEF ChainInv
<1>7. QED
  BY <1>4, <1>6 DEF HookInv

LEMMA BindStep ==
  ASSUME HookInv, NEW h \in Handlers, Hooks!Bind(h)
  PROVE  HookInv'
<1>1. PICK at : at = Hooks!Cardinality({i \in DOMAIN handlers : Hooks!Priority(handlers[i])
                                                                 <= Hooks!Priority(h)})
  OBVIOUS
<1>2. /\ h \notin Hooks!ToSet(handlers) /\ handlers' = Hooks!InsertAt(handlers, at + 1, h)
      /\ shifted' = shifted \union {e \in Hooks!Running :
                       at < index[e] \/ (at < len[e] /\ Len(handlers) >= len[e])}
      /\ UNCHANGED <<len, index, state, ran, bound, gone>>
  BY <1>1, Zenon DEF Hooks!Bind
<1>3. HookTyped /\ ChainInv
  BY DEF HookInv
<1>4. PICK hs \in Seq(Handlers) : hs = handlers
  BY <1>3 DEF HookTyped
<1>5. at \in 0..Len(hs)
  <2>1. PICK T : T = {i \in DOMAIN handlers : Hooks!Priority(handlers[i]) <= Hooks!Priority(h)}
    OBVIOUS
  <2>2. T \subseteq 1..Len(hs)
    BY <1>4, <2>1
  <2>3. IsFiniteSet(1..Len(hs)) /\ Cardinality(1..Len(hs)) = Len(hs)
    <3>1. PICK n \in Nat : n = Len(hs)
      OBVIOUS
    <3>2. IsFiniteSet(1..n) /\ Cardinality(1..n) = IF 1 > n THEN 0 ELSE n - 1 + 1
      BY FS_Interval
    <3>3. QED
      BY <3>1, <3>2
  <2>4. Cardinality(T) \in Nat /\ Cardinality(T) <= Len(hs)
    BY <2>2, <2>3, FS_Subset, FS_CardinalityType
  <2>5. at = Cardinality(T)
    BY <1>1, <2>1 DEF Cardinality, Hooks!Cardinality
  <2>6. QED
    BY <2>4, <2>5
<1>6. PICK ht : ht = handlers'
  OBVIOUS
<1>7. /\ ht \in Seq(Handlers) /\ Len(ht) = Len(hs) + 1
      /\ \A p \in 1..at : ht[p] = hs[p]
      /\ ht[at + 1] = h
      /\ \A p \in at + 1..Len(hs) : ht[p + 1] = hs[p]
  <2>1. ht = Hooks!InsertAt(hs, at + 1, h)
    BY <1>2, <1>4, <1>6
  <2>2. PICK k \in 1..Len(hs) + 1 : k = at + 1
    BY <1>5
  <2>3. /\ ht \in Seq(Handlers) /\ Len(ht) = Len(hs) + 1
        /\ \A p \in 1..k - 1 : ht[p] = hs[p]
        /\ ht[k] = h
        /\ \A p \in k..Len(hs) : ht[p + 1] = hs[p]
    BY <2>1, <2>2, Inserted
  <2>4. k - 1 = at
    BY <1>5, <2>2
  <2>5. QED
    BY <2>2, <2>3, <2>4
<1>8. \A p \in 1..Len(hs) : hs[p] # h
  BY <1>2, <1>4 DEF Hooks!ToSet
<1>9. Once(hs)
  BY <1>3, <1>4 DEF HookTyped
<1>10. Once(ht)
  <2>1. SUFFICES ASSUME NEW i \in 1..Len(ht), NEW j \in 1..Len(ht), i < j, ht[i] = ht[j]
                 PROVE  FALSE
    BY <1>7 DEF Once
  <2>2. \A p \in 1..Len(ht) : p # at + 1 =>
          \E q \in 1..Len(hs) : ht[p] = hs[q] /\ q = IF p <= at THEN p ELSE p - 1
    <3>1. SUFFICES ASSUME NEW p \in 1..Len(ht), p # at + 1
                   PROVE  \E q \in 1..Len(hs) : ht[p] = hs[q] /\ q = IF p <= at THEN p ELSE p - 1
      OBVIOUS
    <3>2. CASE p <= at
      BY <1>5, <1>7, <3>2
    <3>3. CASE ~(p <= at)
      <4>1. p - 1 \in at + 1..Len(hs) /\ p - 1 \in 1..Len(hs) /\ (p - 1) + 1 = p
        BY <1>4, <1>5, <1>7, <3>1, <3>3
      <4>2. QED
        BY <1>7, <3>3, <4>1
    <3>4. QED
      BY <3>2, <3>3
  <2>3. i # at + 1 /\ j # at + 1
    BY <1>7, <1>8, <2>1, <2>2
  <2>4. PICK q \in 1..Len(hs) : ht[i] = hs[q] /\ q = IF i <= at THEN i ELSE i - 1
    BY <2>2, <2>3
  <2>5. PICK r \in 1..Len(hs) : ht[j] = hs[r] /\ r = IF j <= at THEN j ELSE j - 1
    BY <2>2, <2>3
  <2>6. q # r
    BY <1>5, <2>1, <2>3, <2>4, <2>5
  <2>7. QED
    <3>1. hs[q] = hs[r] /\ q \in DOMAIN hs /\ r \in DOMAIN hs
      <4>1. hs[q] = hs[r]
        BY <2>1, <2>4, <2>5, Zenon
      <4>2. QED
        BY <4>1
    <3>2. QED
      BY <1>9, <2>6, <3>1 DEF Once
<1>11. HookTyped'
  <2>1. \A e \in Events : state[e] = "idle" => e \notin shifted'
    BY <1>2, <1>3 DEF HookTyped, Hooks!Running
  <2>2. QED
    BY <1>2, <1>3, <1>6, <1>7, <1>10, <2>1 DEF HookTyped
<1>12. ASSUME NEW e \in Events \ shifted', state[e] = "running"
       PROVE  /\ Came(e, ht, index[e], ran[e])
              /\ There(ht, len[e], bound[e], gone[e])
  <2>1. e \notin shifted /\ e \in Hooks!Running /\ index[e] \in Nat /\ len[e] \in Nat
    BY <1>2, <1>3, <1>12 DEF Hooks!Running, HookTyped
  <2>2. at >= index[e] /\ (at >= len[e] \/ Len(hs) < len[e])
    BY <1>2, <1>4, <1>5, <1>12, <2>1
  <2>3. Came(e, hs, index[e], ran[e]) /\ There(hs, len[e], bound[e], gone[e])
    BY <1>3, <1>4, <1>12, <2>1 DEF ChainInv
  <2>4. Came(e, ht, index[e], ran[e])
    <3>1. index[e] <= Len(ht) /\ \A p \in 1..index[e] : ht[p] = hs[p]
      <4>1. PICK n \in Nat : n = index[e]
        BY <2>1
      <4>2. n <= at /\ n <= Len(ht) /\ \A p \in 1..n : p \in 1..at
        BY <1>5, <1>7, <2>2, <4>1
      <4>3. QED
        BY <1>7, <4>1, <4>2
    <3>2. QED
      BY <2>1, <2>3, <3>1, CameKept
  <2>5. PICK place \in [1..Len(hs) -> Nat] :
          \A p \in 1..Len(hs) : place[p] = IF p <= at THEN p ELSE p + 1
    <3>1. [p \in 1..Len(hs) |-> IF p <= at THEN p ELSE p + 1] \in [1..Len(hs) -> Nat]
      OBVIOUS
    <3>2. QED
      BY <3>1
  <2>6. ASSUME NEW p \in 1..Len(hs)
        PROVE  place[p] \in 1..Len(ht) /\ ht[place[p]] = hs[p] /\ (p <= len[e] => place[p] <= len[e])
    BY <1>5, <1>7, <2>1, <2>2, <2>5
  <2>7. \A p, q \in 1..Len(hs) : p < q => place[p] < place[q]
    BY <1>5, <2>5
  <2>8. There(ht, len[e], bound[e], gone[e])
    BY <1>4, <1>7, <2>1, <2>3, <2>6, <2>7, ThereMoves
  <2>9. QED
    BY <2>4, <2>8
<1>13. ChainInv'
  BY <1>2, <1>3, <1>6, <1>12 DEF ChainInv
<1>14. QED
  BY <1>11, <1>13 DEF HookInv

LEMMA UnbindStep ==
  ASSUME HookInv, NEW h \in Handlers, Hooks!Unbind(h)
  PROVE  HookInv'
<1>1. PICK a \in DOMAIN handlers :
        /\ handlers[a] = h /\ handlers' = Hooks!RemoveAt(handlers, a)
        /\ gone' = [e \in Events |-> IF e \in Hooks!Running THEN gone[e] \union {h} ELSE gone[e]]
        /\ shifted' = shifted \union {e \in Hooks!Running : a <= index[e]}
        /\ UNCHANGED <<len, index, state, ran, bound>>
  BY DEF Hooks!Unbind
<1>2. HookTyped /\ ChainInv
  BY DEF HookInv
<1>3. PICK hs \in Seq(Handlers) : hs = handlers
  BY <1>2 DEF HookTyped
<1>4. a \in 1..Len(hs) /\ hs[a] = h
  BY <1>1, <1>3
<1>5. PICK ht : ht = handlers'
  OBVIOUS
<1>6. /\ ht \in Seq(Handlers) /\ Len(ht) = Len(hs) - 1
      /\ \A p \in 1..a - 1 : ht[p] = hs[p]
      /\ \A p \in a + 1..Len(hs) : ht[p - 1] = hs[p]
  <2>1. ht = Hooks!RemoveAt(hs, a)
    BY <1>1, <1>3, <1>5
  <2>2. QED
    BY <1>4, <2>1, Removed
<1>7. Once(hs)
  BY <1>2, <1>3 DEF HookTyped
<1>8. Once(ht)
  <2>1. SUFFICES ASSUME NEW i \in 1..Len(ht), NEW j \in 1..Len(ht), i < j, ht[i] = ht[j]
                 PROVE  FALSE
    BY <1>6 DEF Once
  <2>2. \A p \in 1..Len(ht) :
          \E q \in 1..Len(hs) : ht[p] = hs[q] /\ q = IF p < a THEN p ELSE p + 1
    <3>1. SUFFICES ASSUME NEW p \in 1..Len(ht)
                   PROVE  \E q \in 1..Len(hs) : ht[p] = hs[q] /\ q = IF p < a THEN p ELSE p + 1
      OBVIOUS
    <3>2. CASE p < a
      BY <1>4, <1>6, <3>2
    <3>3. CASE ~(p < a)
      <4>1. p + 1 \in a + 1..Len(hs) /\ p + 1 \in 1..Len(hs) /\ (p + 1) - 1 = p
        BY <1>3, <1>4, <1>6, <3>1, <3>3
      <4>2. QED
        BY <1>6, <3>3, <4>1
    <3>4. QED
      BY <3>2, <3>3
  <2>3. PICK q \in 1..Len(hs) : ht[i] = hs[q] /\ q = IF i < a THEN i ELSE i + 1
    BY <2>2
  <2>4. PICK r \in 1..Len(hs) : ht[j] = hs[r] /\ r = IF j < a THEN j ELSE j + 1
    BY <2>2
  <2>5. q # r
    BY <1>4, <2>1, <2>3, <2>4
  <2>6. hs[q] = hs[r] /\ q \in DOMAIN hs /\ r \in DOMAIN hs
    <3>1. hs[q] = hs[r]
      BY <2>1, <2>3, <2>4, Zenon
    <3>2. QED
      BY <3>1
  <2>7. QED
    BY <1>7, <2>5, <2>6 DEF Once
<1>9. gone' \in [Events -> SUBSET Handlers]
  BY <1>1, <1>2 DEF HookTyped
<1>10. HookTyped'
  <2>1. \A e \in Events : state[e] = "idle" => e \notin shifted'
    BY <1>1, <1>2 DEF HookTyped, Hooks!Running
  <2>2. QED
    BY <1>1, <1>2, <1>5, <1>6, <1>8, <1>9, <2>1 DEF HookTyped
<1>11. ASSUME NEW e \in Events \ shifted', state[e] = "running"
       PROVE  /\ Came(e, ht, index[e], ran[e])
              /\ There(ht, len[e], bound[e], gone'[e])
  <2>1. e \notin shifted /\ e \in Hooks!Running /\ index[e] \in Nat /\ len[e] \in Nat
    BY <1>1, <1>2, <1>11 DEF Hooks!Running, HookTyped
  <2>2. PICK n \in Nat : n = index[e] /\ n < a
    BY <1>1, <1>4, <1>11, <2>1
  <2>3. Came(e, hs, n, ran[e]) /\ There(hs, len[e], bound[e], gone[e])
    BY <1>2, <1>3, <1>11, <2>1, <2>2 DEF ChainInv
  <2>4. n <= Len(ht) /\ \A p \in 1..n : ht[p] = hs[p]
    BY <1>4, <1>6, <2>2
  <2>5. Came(e, ht, n, ran[e])
    BY <2>3, <2>4, CameKept
  <2>6. PICK place \in [1..Len(hs) -> Nat] :
          \A p \in 1..Len(hs) : place[p] = IF p < a THEN p ELSE p - 1
    <3>1. [p \in 1..Len(hs) |-> IF p < a THEN p ELSE p - 1] \in [1..Len(hs) -> Nat]
      OBVIOUS
    <3>2. QED
      BY <3>1
  <2>7. PICK more : more = gone[e] \union {h}
    OBVIOUS
  <2>8. ASSUME NEW p \in 1..Len(hs), hs[p] \notin more
        PROVE  place[p] \in 1..Len(ht) /\ ht[place[p]] = hs[p] /\ (p <= len[e] => place[p] <= len[e])
    <3>1. p # a
      BY <1>4, <2>7, <2>8
    <3>2. CASE p < a
      <4>1. place[p] = p /\ p \in 1..a - 1
        BY <1>4, <2>6, <3>2
      <4>2. p \in 1..Len(ht) /\ ht[p] = hs[p]
        BY <1>4, <1>6, <4>1
      <4>3. QED
        BY <4>1, <4>2
    <3>3. CASE p > a
      <4>1. place[p] = p - 1 /\ p \in a + 1..Len(hs)
        BY <1>4, <2>6, <3>3
      <4>2. p - 1 \in 1..Len(ht) /\ ht[p - 1] = hs[p]
        BY <1>4, <1>6, <4>1
      <4>3. p <= len[e] => p - 1 <= len[e]
        BY <2>1
      <4>4. QED
        BY <4>1, <4>2, <4>3
    <3>4. QED
      BY <1>4, <3>1, <3>2, <3>3
  <2>9. ASSUME NEW p \in 1..Len(hs), NEW q \in 1..Len(hs), p < q, hs[p] \notin more,
               hs[q] \notin more
        PROVE  place[p] < place[q]
    <3>1. p # a /\ q # a
      BY <1>4, <2>7, <2>9
    <3>2. QED
      BY <1>4, <2>6, <2>9, <3>1
  <2>10. There(ht, len[e], bound[e], more)
    <3>1. gone[e] \subseteq more
      BY <2>7
    <3>2. QED
      BY <1>3, <1>6, <2>1, <2>3, <2>8, <2>9, <3>1, ThereMoves
  <2>11. gone'[e] = more
    BY <1>1, <2>1, <2>7
  <2>12. QED
    BY <2>2, <2>5, <2>10, <2>11
<1>12. \A e \in Events : state[e] = "over" => gone'[e] = gone[e]
  BY <1>1 DEF Hooks!Running
<1>13. ChainInv'
  BY <1>1, <1>2, <1>5, <1>11, <1>12 DEF ChainInv
<1>14. QED
  BY <1>10, <1>13 DEF HookInv

\* The handlers of the start are those of a permutation.
LEMMA HookInit == Hooks!Init => HookInv
<1> SUFFICES ASSUME Hooks!Init PROVE HookInv
  OBVIOUS
<1>1. handlers \in UNION {Hooks!SetToSeqs(S) : S \in SUBSET Handlers}
  BY DEF Hooks!Init, Hooks!SetToAllKPermutations
<1>2. PICK S \in SUBSET Handlers : handlers \in Hooks!SetToSeqs(S)
  BY <1>1
<1>3. Hooks!Cardinality(S) \in Nat
  <2>1. Hooks!Cardinality(S) = Cardinality(S)
    BY DEF Cardinality, Hooks!Cardinality
  <2>2. QED
    BY <1>2, <2>1, PartsAssumption, FS_Subset, FS_CardinalityType
<1>4. handlers \in Seq(Handlers) /\ Once(handlers)
  <2>1. PICK n \in Nat : n = Hooks!Cardinality(S)
    BY <1>3
  <2>2. PICK f \in [1..n -> S] : f = handlers /\ \A i, j \in 1..n : i # j => f[i] # f[j]
    BY <1>2, <2>1 DEF Hooks!SetToSeqs
  <2>3. f \in Seq(Handlers) /\ DOMAIN f = 1..n
    BY <1>2, <2>2
  <2>4. QED
    BY <2>2, <2>3 DEF Once
<1>5. HookTyped
  <2>1. /\ len = [e \in Events |-> 0] /\ index = len /\ state = [e \in Events |-> "idle"]
        /\ ran = [e \in Events |-> <<>>] /\ bound = ran /\ gone = [e \in Events |-> {}]
        /\ shifted = {}
    BY DEF Hooks!Init
  <2>2. <<>> \in Chains /\ <<>> \in Seq(Handlers)
    BY DEF Chains
  <2>3. QED
    BY <1>4, <2>1, <2>2 DEF HookTyped
<1>6. ChainInv
  <2>1. state = [e \in Events |-> "idle"]
    BY DEF Hooks!Init
  <2>2. QED
    BY <2>1 DEF ChainInv
<1>7. QED
  BY <1>5, <1>6 DEF HookInv

LEMMA HookStep == HookInv /\ [Hooks!Next]_hookVars => HookInv'
<1> SUFFICES ASSUME HookInv, [Hooks!Next]_hookVars PROVE HookInv'
  OBVIOUS
<1>1. OneOff \notin Handlers
  BY PartsAssumption
<1>2. ASSUME NEW e \in Events, Hooks!Trigger(e) PROVE HookInv'
  BY <1>1, <1>2, TriggerStep
<1>3. ASSUME NEW e \in Events, Hooks!CallNext(e) PROVE HookInv'
  BY <1>1, <1>3, NextStep
<1>4. ASSUME NEW e \in Events, Hooks!Return(e) PROVE HookInv'
  BY <1>1, <1>4, ReturnStep
<1>5. ASSUME NEW h \in Handlers, Hooks!Bind(h) PROVE HookInv'
  BY <1>5, BindStep
<1>6. ASSUME NEW h \in Handlers, Hooks!Unbind(h) PROVE HookInv'
  BY <1>6, UnbindStep
<1>7. CASE UNCHANGED hookVars
  BY <1>7 DEF hookVars, HookInv, HookTyped, ChainInv
<1>8. QED
  BY <1>2, <1>3, <1>4, <1>5, <1>6, <1>7 DEF Hooks!Next

LEMMA HookHolds == HookInv => Hooks!AllRun
<1> SUFFICES ASSUME HookInv PROVE Hooks!AllRun
  OBVIOUS
<1>1. HookTyped /\ ChainInv
  BY DEF HookInv
<1>2. ASSUME NEW e \in Events \ shifted
      PROVE  Ended(e, ran[e], bound[e], gone[e])
  <2>1. CASE state[e] = "idle"
    <3>1. ran[e] = <<>>
      BY <1>1, <2>1 DEF HookTyped
    <3>2. Ended(e, <<>>, bound[e], gone[e])
      BY DEF Ended, Once, Has
    <3>3. QED
      BY <3>1, <3>2
  <2>2. CASE state[e] = "running"
    <3>1. /\ handlers \in Seq(Handlers) /\ index[e] \in Nat /\ ran[e] \in Chains
          /\ Came(e, handlers, index[e], ran[e]) /\ OneOff \notin Handlers
      BY <1>1, <2>2, PartsAssumption DEF HookTyped, ChainInv
    <3>2. QED
      BY <3>1, EndEarly
  <2>3. CASE state[e] = "over"
    BY <1>1, <2>3 DEF ChainInv
  <2>4. QED
    BY <1>1, <2>1, <2>2, <2>3 DEF HookTyped
<1>3. ASSUME NEW e \in Events \ shifted
      PROVE  /\ Hooks!IsInjective(ran[e])
             /\ \A i \in DOMAIN ran[e] : ran[e][i] # OneOff => Hooks!CanRun(ran[e][i], e)
             /\ OneOff \in Hooks!ToSet(ran[e]) =>
                  \A g, h \in Hooks!Throughout(e) \union {OneOff} :
                    Hooks!Before(Append(bound[e], OneOff), g, h) => Hooks!Before(ran[e], g, h)
  <2>1. Ended(e, ran[e], bound[e], gone[e])
    BY <1>2
  <2>2. Hooks!IsInjective(ran[e])
    BY <2>1 DEF Ended, Once, Hooks!IsInjective
  <2>3. OneOff \in Hooks!ToSet(ran[e]) => Has(ran[e], OneOff)
    BY DEF Has, Hooks!ToSet
  <2>4. Hooks!Throughout(e) \subseteq Throughout(e, bound[e], gone[e])
    <3>1. \A h \in Hooks!ToSet(bound[e]) : Has(bound[e], h) /\ h \in Handlers
      <4>1. bound[e] \in Seq(Handlers)
        BY <1>1 DEF HookTyped
      <4>2. QED
        BY <4>1 DEF Has, Hooks!ToSet
    <3>2. QED
      BY <3>1 DEF Hooks!Throughout, Throughout, Runs
  <2>5. QED
    BY <2>1, <2>2, <2>3, <2>4 DEF Ended, Runs, Comes
<1>4. QED
  BY <1>3 DEF Hooks!AllRun

\* For any handlers, priorities, tags, events, and calls of Bind and Unbind while
\* handlers wait: unless these move handlers under a chain, it runs every handler
\* that is there throughout, once and in order, and then the function given to
\* Trigger (Hook.Trigger and the closure next, hook.ts).
THEOREM HandlersAllRun == PartsSpec => []AllRun
<1> DEFINE all == <<part, vars, deleteVars, limitVars, claimVars, fileVars, hookVars, cascadeVars,
                    updateVars, historyVars, thumbVars>>
<1>1. PartsInit => HookInv
  BY HookInit DEF PartsInit
<1>2. HookInv /\ [PartsNext]_all => HookInv'
  <2> SUFFICES ASSUME HookInv, [PartsNext]_all PROVE HookInv'
    OBVIOUS
  <2>1. [Hooks!Next]_hookVars
    BY DEF PartsNext
  <2>2. QED
    BY <2>1, HookStep
<1>3. HookInv => AllRun
  BY HookHolds DEF AllRun
<1>4. QED
  BY <1>1, <1>2, <1>3, PTL DEF PartsSpec

(***************************************************************************)
(* Migrations. What the two databases have, once the processes that are    *)
(* between their commits have made the second (Whole), is what the history *)
(* tells, but for what is in lost (ToldInv). One process at a time has its *)
(* migrations open, and one at a time changes auxiliary.db (OneInv). What  *)
(* it will commit is true of what it changes, and as it was elsewhere      *)
(* (Due). A run goes through its files by a fold, of which the lemmas say  *)
(* what it has done after each (Upped, Downed).                            *)
(***************************************************************************)
Works == [done : SUBSET Migrations!Files, history : Seq(Migrations!Files),
          twice : SUBSET Migrations!Files, missed : SUBSET Migrations!Files, aux : BOOLEAN]

HistoryTyped ==
  /\ done \subseteq Migrations!Files /\ history \in Seq(Migrations!Files) /\ Once(history)
  /\ mode \in [Procs -> {"idle", "loaded", "asked", "open", "half"}]
  /\ list \in [Procs -> Migrations!Lists] /\ read \in [Procs -> Seq(Migrations!Files)]
  /\ unsaved \in [Procs -> Works]

HalfAux(p) == mode[p] = "half" /\ unsaved[p].aux

Whole(f) ==
  IF f \in Aux /\ \E p \in Procs : HalfAux(p) THEN \E p \in Procs : HalfAux(p) /\ f \in unsaved[p].done
  ELSE f \in done

ToldInv ==
  /\ \A f \in Migrations!Files : (Has(history, f) <=> Whole(f)) \/ f \in lost
  /\ twice \subseteq lost /\ twice \cap Repaired = {}

OneInv ==
  /\ \A p, q \in Procs : mode[p] = "open" /\ mode[q] = "open" => p = q
  /\ \A p, q \in {r \in Procs : mode[r] \in {"open", "half"} /\ unsaved[r].aux} : p = q

Due(w) ==
  /\ Once(w.history)
  /\ \A f \in Migrations!Files :
       (f \in Aux => w.aux) /\ ~(Has(w.history, f) <=> f \in w.done)
       => (Has(w.history, f) <=> Has(history, f)) /\ (f \in w.done <=> f \in done)
  /\ ~w.aux => \A f \in Aux \cap Migrations!Files :
                 (Has(w.history, f) <=> Has(history, f)) \/ f \in w.missed
  /\ w.twice \subseteq w.missed /\ w.twice \cap Repaired = {}

OpenInv == \A p \in Procs : mode[p] = "open" => Due(unsaved[p])

HistoryInv == HistoryTyped /\ ToldInv /\ OneInv /\ OpenInv

-----------------------------------------------------------------------------
\* The fold of a run, without the operators that it is called with.
Folds(p, D, strict, r) ==
  r = [s \in SUBSET D |->
         IF s = {} THEN Migrations!Start
         ELSE Migrations!Migrate(p, r[s \ {Migrations!Max(s)}],
                                 Migrations!Order(p)[Migrations!Max(s)], strict)]

LEMMA Unfolded ==
  ASSUME NEW p, NEW strict
  PROVE  Migrations!Migrated(p, strict) =
           LET D == DOMAIN Migrations!Order(p) IN (CHOOSE r : Folds(p, D, strict, r))[D]
  BY DEF Migrations!Migrated, Migrations!MapThenFoldSet, Folds

LEMMA Greatest ==
  ASSUME NEW n \in Nat, NEW s \in SUBSET (1..n), s # {}
  PROVE  /\ Migrations!Max(s) \in s
         /\ \A i \in s : i <= Migrations!Max(s)
<1> DEFINE T == {n - i : i \in s}
<1>1. T \in SUBSET Nat /\ T # {}
  <2>1. \A i \in s : n - i \in Nat
    OBVIOUS
  <2>2. PICK i : i \in s
    OBVIOUS
  <2>3. QED
    BY <2>1, <2>2
<1>2. PICK m \in T : \A k \in T : m <= k
  BY <1>1, Least
<1>3. PICK g \in s : m = n - g
  BY <1>2
<1>4. \A i \in s : i <= g
  <2>1. TAKE i \in s
  <2>2. m <= n - i
    BY <1>2
  <2>3. QED
    BY <1>3, <2>2
<1>5. \E x \in s : \A y \in s : x >= y
  BY <1>4
<1>6. QED
  BY <1>5 DEF Migrations!Max

LEMMA FoldExists ==
  ASSUME NEW p, NEW strict, NEW n \in Nat, NEW D \in SUBSET (1..n)
  PROVE  \E r : Folds(p, D, strict, r)
<1> DEFINE Up(k) == {s \in SUBSET D : s \subseteq 1..k}
           Next1(r, s) == Migrations!Migrate(p, r[s \ {Migrations!Max(s)}],
                                             Migrations!Order(p)[Migrations!Max(s)], strict)
           Part(k, r) == r = [s \in Up(k) |-> IF s = {} THEN Migrations!Start ELSE Next1(r, s)]
           S == {k \in Nat : \E r : Part(k, r)}
<1>1. 0 \in S
  <2>1. Up(0) = {{}}
    <3>1. 1..0 = {}
      OBVIOUS
    <3>2. QED
      BY <3>1
  <2>2. PICK r : r = [s \in Up(0) |-> Migrations!Start]
    OBVIOUS
  <2>3. Part(0, r)
    BY <2>1, <2>2
  <2>4. QED
    BY <2>3
<1>2. ASSUME NEW k \in S PROVE k + 1 \in S
  <2>1. PICK g : Part(k, g)
    BY <1>2
  <2>2. PICK h : h = [s \in Up(k + 1) |-> IF s \subseteq 1..k THEN g[s] ELSE Next1(g, s)]
    OBVIOUS
  <2>3. ASSUME NEW s \in Up(k + 1), s # {}
        PROVE  s \ {Migrations!Max(s)} \in Up(k)
    <3>1. k + 1 \in Nat /\ s \in SUBSET (1..k + 1)
      BY <2>3
    <3>2. PICK m : m = Migrations!Max(s)
      OBVIOUS
    <3>3. m \in s /\ \A i \in s : i <= m
      BY <3>1, <3>2, <2>3, Greatest
    <3>4. \A i \in s \ {m} : i \in 1..k
      BY <3>1, <3>3
    <3>5. QED
      BY <3>2, <3>4
  <2>4. ASSUME NEW s \in Up(k + 1), s # {}
        PROVE  h[s \ {Migrations!Max(s)}] = g[s \ {Migrations!Max(s)}]
    <3>1. PICK t : t = s \ {Migrations!Max(s)}
      OBVIOUS
    <3>2. t \in Up(k) /\ t \in Up(k + 1)
      BY <2>3, <2>4, <3>1
    <3>3. QED
      BY <2>2, <3>1, <3>2
  <2>5. ASSUME NEW s \in Up(k + 1), s # {}
        PROVE  h[s] = Next1(g, s)
    <3>1. CASE s \subseteq 1..k
      BY <2>1, <2>2, <2>5, <3>1
    <3>2. CASE ~(s \subseteq 1..k)
      BY <2>2, <2>5, <3>2
    <3>3. QED
      BY <3>1, <3>2
  <2>6. h[{}] = Migrations!Start
    BY <2>1, <2>2
  <2>7. ASSUME NEW s \in Up(k + 1)
        PROVE  h[s] = IF s = {} THEN Migrations!Start ELSE Next1(h, s)
    BY <2>4, <2>5, <2>6, <2>7
  <2>8. Part(k + 1, h)
    <3> HIDE DEF Next1, Up
    <3>1. h = [s \in Up(k + 1) |-> h[s]]
      BY <2>2
    <3>2. QED
      BY <2>7, <3>1
  <2>9. PICK j \in Nat : j = k + 1
    OBVIOUS
  <2>10. QED
    <3> HIDE DEF Part
    <3>1. Part(j, h)
      BY <2>8, <2>9
    <3>2. j \in S
      BY <3>1
    <3>3. QED
      BY <2>9, <3>2
<1>3. n \in S
  <2> HIDE DEF Part
  <2>1. PICK T : T = S
    OBVIOUS
  <2>2. T \in SUBSET Nat /\ 0 \in T /\ \A k \in T : k + 1 \in T
    BY <1>1, <1>2, <2>1
  <2>3. QED
    BY <2>1, <2>2, Induction
<1>4. Up(n) = SUBSET D
  OBVIOUS
<1>5. QED
  BY <1>3, <1>4 DEF Folds

\* What holds of no file, and of one file more, holds of all of them.
LEMMA FoldInduction ==
  ASSUME NEW n \in Nat, NEW D \in SUBSET (1..n), NEW G \in SUBSET SUBSET D, {} \in G,
         \A s \in SUBSET D : s # {} /\ s \ {Migrations!Max(s)} \in G => s \in G
  PROVE  D \in G
<1> DEFINE S == {k \in Nat : \A s \in SUBSET D : s \subseteq 1..k => s \in G}
<1>1. 0 \in S
  <2>1. \A s : s \subseteq 1..0 => s = {}
    OBVIOUS
  <2>2. \A s \in SUBSET D : s \subseteq 1..0 => s \in G
    BY <2>1
  <2>3. QED
    BY <2>2
<1>2. ASSUME NEW k \in S PROVE k + 1 \in S
  <2>1. ASSUME NEW s \in SUBSET D, s \subseteq 1..k + 1, s # {} PROVE s \in G
    <3>1. PICK m : m = Migrations!Max(s)
      OBVIOUS
    <3>2. k + 1 \in Nat /\ s \in SUBSET (1..k + 1)
      BY <2>1
    <3>3. m \in s /\ \A i \in s : i <= m
      BY <2>1, <3>1, <3>2, Greatest
    <3>4. \A i \in s \ {m} : i \in 1..k
      BY <3>2, <3>3
    <3>5. s \ {m} \in G
      <4>1. s \ {m} \in SUBSET D /\ s \ {m} \subseteq 1..k
        BY <3>4
      <4>2. QED
        BY <1>2, <4>1
    <3>6. QED
      BY <2>1, <3>1, <3>5
  <2>2. \A s \in SUBSET D : s \subseteq 1..k + 1 => s \in G
    BY <2>1
  <2>3. k + 1 \in Nat
    OBVIOUS
  <2>4. QED
    BY <2>2, <2>3
<1>3. n \in S
  <2>1. PICK T : T = S
    OBVIOUS
  <2>2. T \in SUBSET Nat /\ 0 \in T /\ \A k \in T : k + 1 \in T
    BY <1>1, <1>2, <2>1
  <2>3. QED
    BY <2>1, <2>2, Induction
<1>4. QED
  BY <1>3

\* r is that fold, over every set of places in the order of p.
Goes(p, strict, D, r) ==
  /\ Migrations!Migrated(p, strict) = r[D]
  /\ r[{}] = Migrations!Start
  /\ \A s \in SUBSET D : s # {} =>
       r[s] = Migrations!Migrate(p, r[s \ {Migrations!Max(s)}],
                                 Migrations!Order(p)[Migrations!Max(s)], strict)

LEMMA Folded ==
  ASSUME NEW p, NEW strict, NEW n \in Nat, NEW D \in SUBSET (1..n),
         DOMAIN Migrations!Order(p) = D
  PROVE  \E r : Goes(p, strict, D, r)
<1>1. PICK r : r = CHOOSE q : Folds(p, D, strict, q)
  OBVIOUS
<1>2. Folds(p, D, strict, r)
  BY <1>1, FoldExists
<1>3. Migrations!Migrated(p, strict) = r[D]
  BY <1>1, Unfolded
<1>4. /\ r[{}] = Migrations!Start
      /\ \A s \in SUBSET D : s # {} =>
           r[s] = Migrations!Migrate(p, r[s \ {Migrations!Max(s)}],
                                     Migrations!Order(p)[Migrations!Max(s)], strict)
  BY <1>2 DEF Folds
<1>5. QED
  BY <1>3, <1>4 DEF Goes

\* What RemoveFirst takes from a history, in which no file is twice.
LEMMA FirstRemoved ==
  ASSUME NEW S, NEW s \in Seq(S), Once(s), NEW f
  PROVE  LET t == Migrations!RemoveFirst(s, f) IN
           /\ t \in Seq(S) /\ Once(t)
           /\ \A g : Has(t, g) <=> Has(s, g) /\ g # f
<1>1. CASE ~Has(s, f)
  <2>1. Migrations!RemoveFirst(s, f) = s
    BY <1>1 DEF Migrations!RemoveFirst, Has
  <2>2. QED
    BY <1>1, <2>1
<1>2. CASE Has(s, f)
  <2>1. PICK a \in DOMAIN s : s[a] = f
    BY <1>2 DEF Has
  <2>2. a \in 1..Len(s) /\ DOMAIN s = 1..Len(s)
    BY <2>1
  <2>3. {i \in 1..Len(s) : s[i] = f} = {a}
    BY <2>1, <2>2 DEF Once
  <2>4. Migrations!Min({a}) = a
    BY <2>2 DEF Migrations!Min
  <2>5. Migrations!SelectInSeq(s, LAMBDA v : v = f) = a
    BY <2>3, <2>4 DEF Migrations!SelectInSeq
  <2>6. Migrations!RemoveFirst(s, f) = Hooks!RemoveAt(s, a)
    BY <2>1, <2>2, <2>5 DEF Migrations!RemoveFirst, Migrations!RemoveAt, Hooks!RemoveAt
  <2>7. PICK t : t = Hooks!RemoveAt(s, a)
    OBVIOUS
  <2>8. /\ t \in Seq(S) /\ Len(t) = Len(s) - 1
        /\ \A p \in 1..a - 1 : t[p] = s[p]
        /\ \A p \in a + 1..Len(s) : t[p - 1] = s[p]
    BY <2>2, <2>7, Removed
  <2>9. PICK n \in Nat : n = Len(s)
    OBVIOUS
  <2>10. DOMAIN t = 1..n - 1 /\ DOMAIN s = 1..n /\ a \in 1..n
    BY <2>2, <2>8, <2>9
  <2>11. \A p \in 1..n - 1 : t[p] = IF p < a THEN s[p] ELSE s[p + 1]
    <3>1. TAKE p \in 1..n - 1
    <3>2. CASE p < a
      BY <2>8, <2>10, <3>2
    <3>3. CASE ~(p < a)
      <4>1. p + 1 \in a + 1..Len(s)
        BY <2>9, <2>10, <3>3
      <4>2. t[(p + 1) - 1] = s[p + 1]
        BY <2>8, <4>1
      <4>3. (p + 1) - 1 = p
        OBVIOUS
      <4>4. QED
        BY <3>3, <4>2, <4>3
    <3>4. QED
      BY <3>2, <3>3
  <2>12. Once(t)
    <3>1. ASSUME NEW i \in 1..n - 1, NEW j \in 1..n - 1, t[i] = t[j] PROVE i = j
      <4>1. \E b \in 1..n, c \in 1..n : /\ t[i] = s[b] /\ t[j] = s[c]
                                        /\ b = (IF i < a THEN i ELSE i + 1)
                                        /\ c = (IF j < a THEN j ELSE j + 1)
        BY <2>10, <2>11
      <4>2. PICK b \in 1..n, c \in 1..n : /\ t[i] = s[b] /\ t[j] = s[c]
                                          /\ b = (IF i < a THEN i ELSE i + 1)
                                          /\ c = (IF j < a THEN j ELSE j + 1)
        BY <4>1
      <4>3. b = c
        BY <2>10, <3>1, <4>2 DEF Once
      <4>4. QED
        BY <2>10, <4>2, <4>3
    <3>2. QED
      BY <2>10, <3>1 DEF Once
  <2>13. \A g : Has(t, g) <=> Has(s, g) /\ g # f
    <3>1. TAKE g
    <3>2. ASSUME Has(t, g) PROVE Has(s, g) /\ g # f
      <4>1. PICK p \in 1..n - 1 : t[p] = g
        BY <2>10, <3>2 DEF Has
      <4>2. \E b \in 1..n : b # a /\ s[b] = g
        BY <2>10, <2>11, <4>1
      <4>3. PICK b \in 1..n : b # a /\ s[b] = g
        BY <4>2
      <4>4. g # f
        BY <2>1, <2>10, <4>3 DEF Once
      <4>5. QED
        BY <2>10, <4>3, <4>4 DEF Has
    <3>3. ASSUME Has(s, g), g # f PROVE Has(t, g)
      <4>1. PICK b \in 1..n : s[b] = g
        BY <2>10, <3>3 DEF Has
      <4>2. b # a
        BY <2>1, <3>3, <4>1
      <4>3. \E p \in 1..n - 1 : t[p] = g
        <5>1. CASE b < a
          <6>1. b \in 1..n - 1
            BY <2>10, <5>1
          <6>2. QED
            BY <2>11, <4>1, <5>1, <6>1
        <5>2. CASE ~(b < a)
          <6>1. PICK p \in 1..n - 1 : p + 1 = b /\ ~(p < a)
            BY <2>10, <4>2, <5>2
          <6>2. t[p] = s[b]
            BY <2>11, <6>1
          <6>3. QED
            BY <4>1, <6>2
        <5>3. QED
          BY <5>1, <5>2
      <4>4. QED
        BY <2>10, <4>3 DEF Has
    <3>4. QED
      BY <3>2, <3>3
  <2>14. QED
    BY <2>6, <2>7, <2>8, <2>12, <2>13
<1>3. QED
  BY <1>1, <1>2

-----------------------------------------------------------------------------
\* What a run up has made of the two databases after the files of V (Upped), and
\* what a run down has (Downed): a migration is as it was, or on both sides.
Steps == [done : SUBSET Migrations!Files, history : Seq(Migrations!Files),
          twice : SUBSET Migrations!Files, missed : SUBSET Migrations!Files, failed : BOOLEAN]
Same(s, f) == (Has(s.history, f) <=> Has(history, f)) /\ (f \in s.done <=> f \in done)

Upped(s, V, rd, R) ==
  /\ s \in Steps /\ Once(s.history)
  /\ \A f \in Migrations!Files : Same(s, f) \/ (Has(s.history, f) /\ f \in s.done)
  /\ \A f \in done : Has(s.history, f) /\ ~Has(history, f) => f \in s.missed
  /\ s.twice \subseteq s.missed /\ s.twice \cap Repaired = {}
  /\ ~s.failed => \A f \in V : (f \in R => f \in s.done) /\ (Has(rd, f) \/ Has(s.history, f))

Downed(s) ==
  /\ s \in Steps /\ Once(s.history) /\ s.twice = {}
  /\ \A f \in Migrations!Files : Same(s, f) \/ (~Has(s.history, f) /\ f \notin s.done)
  /\ \A f \in Migrations!Files \ done : Has(history, f) /\ ~Has(s.history, f) => f \in s.missed

LEMMA Applied ==
  ASSUME NEW s \in Steps, Once(s.history), NEW f \in Migrations!Files, NEW rd,
         NEW R, NEW strict \in BOOLEAN
  PROVE  LET t == Migrations!Apply(s, f, rd, R, strict) IN
           \/ t = s /\ (s.failed \/ (Has(rd, f) /\ (f \in R => f \in s.done)))
           \/ t = [s EXCEPT !.failed = TRUE]
           \/ /\ t \in Steps /\ Once(t.history) /\ t.done = s.done \union {f}
              /\ \A g : Has(t.history, g) <=> Has(s.history, g) \/ g = f
              /\ s.missed \subseteq t.missed /\ (f \in s.done => f \in t.missed)
              /\ t.twice \subseteq s.twice \union ((s.done \cap {f}) \ Repaired)
<1>1. PICK rest : rest = IF f \in Migrations!ToSet(rd)
                         THEN Migrations!RemoveFirst(s.history, f) ELSE s.history
  OBVIOUS
<1>2. \A g, q : g \in Migrations!ToSet(q) <=> Has(q, g)
  BY DEF Migrations!ToSet, Has
<1>3. PICK S : S = Migrations!Files
  OBVIOUS
<1>4. s.history \in Seq(S) /\ s.done \in SUBSET S /\ s.twice \in SUBSET S
      /\ s.missed \in SUBSET S /\ s.failed \in BOOLEAN /\ f \in S
  BY <1>3 DEF Steps
<1>5. /\ rest \in Seq(S) /\ Once(rest)
      /\ \A g : Has(rest, g) \/ g = f <=> Has(s.history, g) \/ g = f
  <2>1. CASE f \in Migrations!ToSet(rd)
    <3>1. rest = Migrations!RemoveFirst(s.history, f)
      BY <1>1, <2>1
    <3>2. QED
      BY <1>4, <3>1, FirstRemoved
  <2>2. CASE f \notin Migrations!ToSet(rd)
    BY <1>1, <1>4, <2>2
  <2>3. QED
    BY <2>1, <2>2
<1>6. PICK t : t = Migrations!Apply(s, f, rd, R, strict)
  OBVIOUS
<1>7. PICK u : u = [s EXCEPT !.done = @ \union {f}, !.history = Append(rest, f),
                            !.twice = IF f \in s.done \ Repaired THEN @ \union {f} ELSE @,
                            !.missed = IF f \in s.done \ Migrations!ToSet(rest)
                                       THEN @ \union {f} ELSE @]
  OBVIOUS
<1>8. \/ t = s /\ (s.failed \/ (Has(rd, f) /\ (f \in R => f \in s.done)))
      \/ t = [s EXCEPT !.failed = TRUE]
      \/ t = u /\ ~Has(rest, f)
  BY <1>1, <1>2, <1>6, <1>7 DEF Migrations!Apply, Migrations!Refused
<1>9. PICK h : h = Append(rest, f)
  OBVIOUS
<1>10. ASSUME ~Has(rest, f)
       PROVE  h \in Seq(S) /\ Once(h) /\ \A g : Has(h, g) <=> Has(s.history, g) \/ g = f
  <2>1. h \in Seq(S) /\ Once(h) /\ \A g : Has(h, g) <=> Has(rest, g) \/ g = f
    BY <1>4, <1>5, <1>9, <1>10, Appended
  <2>2. QED
    BY <1>5, <2>1
<1>11. ASSUME ~Has(rest, f)
       PROVE  /\ u.done = s.done \union {f} /\ u.history = h
              /\ u.twice = IF f \in s.done \ Repaired THEN s.twice \union {f} ELSE s.twice
              /\ u.missed = IF f \in s.done THEN s.missed \union {f} ELSE s.missed
              /\ u \in Steps
  <2>1. f \notin Migrations!ToSet(rest)
    BY <1>2, <1>11
  <2>2. PICK m : m = IF f \in s.done THEN s.missed \union {f} ELSE s.missed
    OBVIOUS
  <2>3. PICK w : w = IF f \in s.done \ Repaired THEN s.twice \union {f} ELSE s.twice
    OBVIOUS
  <2>4. u = [s EXCEPT !.done = s.done \union {f}, !.history = h, !.twice = w, !.missed = m]
    BY <1>7, <1>9, <2>1, <2>2, <2>3
  <2>5. u.done = s.done \union {f} /\ u.history = h /\ u.twice = w /\ u.missed = m
    BY <2>4 DEF Steps
  <2>6. m \in SUBSET S /\ w \in SUBSET S /\ s.done \union {f} \in SUBSET S /\ h \in Seq(S)
    BY <1>4, <1>10, <1>11, <2>2, <2>3
  <2>7. u \in Steps
    BY <1>3, <2>4, <2>6 DEF Steps
  <2>8. QED
    BY <2>2, <2>3, <2>5, <2>7
<1>12. CASE t = u /\ ~Has(rest, f)
  BY <1>6, <1>10, <1>11, <1>12
<1>13. QED
  BY <1>6, <1>8, <1>12

LEMMA UpStep ==
  ASSUME NEW s, NEW V, NEW rd, NEW R, Upped(s, V, rd, R), NEW f \in Migrations!Files,
         NEW strict \in BOOLEAN, done \subseteq Migrations!Files
  PROVE  Upped(Migrations!Apply(s, f, rd, R, strict), V \union {f}, rd, R)
<1>1. PICK t : t = Migrations!Apply(s, f, rd, R, strict)
  OBVIOUS
<1>2. s \in Steps /\ Once(s.history)
  BY DEF Upped
<1>3. \/ t = s /\ (s.failed \/ (Has(rd, f) /\ (f \in R => f \in s.done)))
      \/ t = [s EXCEPT !.failed = TRUE]
      \/ /\ t \in Steps /\ Once(t.history) /\ t.done = s.done \union {f}
         /\ \A g : Has(t.history, g) <=> Has(s.history, g) \/ g = f
         /\ s.missed \subseteq t.missed /\ (f \in s.done => f \in t.missed)
         /\ t.twice \subseteq s.twice \union ((s.done \cap {f}) \ Repaired)
  BY <1>1, <1>2, Applied
<1>4. CASE t = s /\ (s.failed \/ (Has(rd, f) /\ (f \in R => f \in s.done)))
  BY <1>1, <1>4 DEF Upped
<1>5. CASE t = [s EXCEPT !.failed = TRUE]
  <2>1. /\ t \in Steps /\ t.failed /\ t.history = s.history /\ t.done = s.done
        /\ t.twice = s.twice /\ t.missed = s.missed
    BY <1>2, <1>5 DEF Steps
  <2>2. QED
    BY <1>1, <2>1 DEF Upped, Same
<1>6. CASE /\ t \in Steps /\ Once(t.history) /\ t.done = s.done \union {f}
           /\ \A g : Has(t.history, g) <=> Has(s.history, g) \/ g = f
           /\ s.missed \subseteq t.missed /\ (f \in s.done => f \in t.missed)
           /\ t.twice \subseteq s.twice \union ((s.done \cap {f}) \ Repaired)
  <2>1. \A g \in Migrations!Files : Same(t, g) \/ (Has(t.history, g) /\ g \in t.done)
    <3>1. TAKE g \in Migrations!Files
    <3>2. CASE g = f
      BY <1>6, <3>2
    <3>3. CASE g # f
      BY <1>6, <3>3 DEF Upped, Same
    <3>4. QED
      BY <3>2, <3>3
  <2>2. \A g \in done : Has(t.history, g) /\ ~Has(history, g) => g \in t.missed
    <3>1. SUFFICES ASSUME NEW g \in done, Has(t.history, g), ~Has(history, g)
                   PROVE  g \in t.missed
      OBVIOUS
    <3>2. CASE Has(s.history, g)
      BY <1>6, <3>1, <3>2 DEF Upped
    <3>3. CASE ~Has(s.history, g)
      <4>1. g = f
        BY <1>6, <3>1, <3>3
      <4>2. f \in s.done
        BY <3>1, <3>3, <4>1 DEF Upped, Same
      <4>3. QED
        BY <1>6, <4>1, <4>2
    <3>4. QED
      BY <3>2, <3>3
  <2>3. t.twice \subseteq t.missed /\ t.twice \cap Repaired = {}
    <3>1. s.twice \subseteq s.missed /\ s.twice \cap Repaired = {}
      BY DEF Upped
    <3>2. QED
      BY <1>6, <3>1
  <2>4. ~t.failed => \A g \in V \union {f} : /\ g \in R => g \in t.done
                                             /\ Has(rd, g) \/ Has(t.history, g)
    <3>1. CASE s.failed
      BY <1>1, <1>2, <1>6, <3>1 DEF Migrations!Apply
    <3>2. CASE ~s.failed
      <4>1. SUFFICES ASSUME NEW g \in V \union {f}
                     PROVE  /\ g \in R => g \in t.done
                            /\ Has(rd, g) \/ Has(t.history, g)
        OBVIOUS
      <4>2. CASE g = f
        BY <1>6, <4>2
      <4>3. CASE g # f
        <5>1. (g \in R => g \in s.done) /\ (Has(rd, g) \/ Has(s.history, g))
          BY <3>2, <4>1, <4>3 DEF Upped
        <5>2. QED
          BY <1>6, <5>1
      <4>4. QED
        BY <4>2, <4>3
    <3>3. QED
      BY <3>1, <3>2
  <2>5. QED
    BY <1>1, <1>6, <2>1, <2>2, <2>3, <2>4 DEF Upped
<1>7. QED
  BY <1>3, <1>4, <1>5, <1>6

LEMMA DownStep ==
  ASSUME NEW s, Downed(s), NEW f \in Migrations!Files, NEW strict \in BOOLEAN,
         done \subseteq Migrations!Files
  PROVE  Downed(Migrations!Revert(s, f, strict))
<1>1. PICK t : t = Migrations!Revert(s, f, strict)
  OBVIOUS
<1>2. s \in Steps /\ Once(s.history)
  BY DEF Downed
<1>3. PICK S : S = Migrations!Files
  OBVIOUS
<1>4. s.history \in Seq(S) /\ s.done \in SUBSET S /\ s.missed \in SUBSET S /\ f \in S
  BY <1>2, <1>3 DEF Steps
<1>5. PICK h : h = Migrations!RemoveFirst(s.history, f)
  OBVIOUS
<1>6. h \in Seq(S) /\ Once(h) /\ \A g : Has(h, g) <=> Has(s.history, g) /\ g # f
  BY <1>2, <1>4, <1>5, FirstRemoved
<1>7. PICK m : m = IF f \in s.done THEN s.missed ELSE s.missed \union {f}
  OBVIOUS
<1>8. \/ t = [s EXCEPT !.failed = TRUE]
      \/ t = [s EXCEPT !.done = @ \ {f}, !.history = h, !.missed = m]
  BY <1>1, <1>5, <1>7 DEF Migrations!Revert
<1>9. CASE t = [s EXCEPT !.failed = TRUE]
  <2>1. /\ t \in Steps /\ t.history = s.history /\ t.done = s.done
        /\ t.twice = s.twice /\ t.missed = s.missed
    BY <1>2, <1>9 DEF Steps
  <2>2. QED
    BY <1>1, <2>1 DEF Downed, Same
<1>10. CASE t = [s EXCEPT !.done = @ \ {f}, !.history = h, !.missed = m]
  <2>1. t.history = h /\ t.done = s.done \ {f} /\ t.twice = s.twice /\ t.missed = m
    BY <1>2, <1>10 DEF Steps
  <2>2. t \in Steps
    <3>1. m \in SUBSET S /\ s.done \ {f} \in SUBSET S
      BY <1>4, <1>7
    <3>2. QED
      BY <1>2, <1>3, <1>6, <1>10, <3>1 DEF Steps
  <2>3. \A g \in Migrations!Files : Same(t, g) \/ (~Has(t.history, g) /\ g \notin t.done)
    BY <1>6, <2>1 DEF Downed, Same
  <2>4. ASSUME NEW g \in Migrations!Files \ done, Has(history, g), ~Has(t.history, g)
        PROVE  g \in t.missed
    <3>1. CASE Has(s.history, g)
      <4>1. g = f
        BY <1>6, <2>1, <2>4, <3>1
      <4>2. g \notin s.done
        BY <2>4, <3>1 DEF Downed, Same
      <4>3. QED
        BY <1>7, <2>1, <4>1, <4>2
    <3>2. CASE ~Has(s.history, g)
      <4>1. g \in s.missed
        BY <2>4, <3>2 DEF Downed
      <4>2. QED
        BY <1>7, <2>1, <4>1
    <3>3. QED
      BY <3>1, <3>2
  <2>5. Once(t.history) /\ t.twice = {}
    BY <1>6, <2>1 DEF Downed
  <2>6. QED
    BY <1>1, <2>2, <2>3, <2>4, <2>5 DEF Downed
<1>11. QED
  BY <1>8, <1>9, <1>10

\* A run up goes through the files of its list, and one down through those that it read.
LEMMA UpFold ==
  ASSUME NEW p \in Procs, HistoryTyped, mode[p] = "loaded", NEW strict \in BOOLEAN
  PROVE  Upped(Migrations!Migrated(p, strict), list[p].files, read[p], list[p].repair)
<1>1. PICK D : D = list[p].files
  OBVIOUS
<1>2. PICK rd : rd = read[p]
  OBVIOUS
<1>3. PICK R : R = list[p].repair
  OBVIOUS
<1>4. list[p] \in Migrations!Lists
  BY DEF HistoryTyped
<1>5. D \subseteq Migrations!Files
  BY <1>1, <1>4 DEF Migrations!Lists, Migrations!Files
<1>6. PICK n \in Nat : Migrations!Files \subseteq 1..n
  <2>1. PICK n \in {0} \union System \union App : \A f \in System \union App : f <= n
    BY PartsAssumption
  <2>2. n \in Nat /\ \A f \in System \union App : f \in Nat \ {0}
    BY PartsAssumption
  <2>3. System \union App \subseteq 1..n
    BY <2>1, <2>2
  <2>4. QED
    BY <2>2, <2>3 DEF Migrations!Files
<1>7. Migrations!Order(p) = [f \in D |-> f]
  BY <1>1 DEF Migrations!Order
<1>8. DOMAIN Migrations!Order(p) = D /\ D \in SUBSET (1..n)
  BY <1>5, <1>6, <1>7
<1>9. PICK r : Goes(p, strict, D, r)
  BY <1>8, Folded
<1>10. PICK G : G = {s \in SUBSET D : Upped(r[s], s, rd, R)}
  OBVIOUS
<1>11. {} \in G
  <2>1. PICK u : u = Migrations!Start
    OBVIOUS
  <2>2. /\ u \in Steps /\ u.done = done /\ u.history = history /\ u.twice = {}
        /\ u.missed = {} /\ Once(history)
    BY <2>1 DEF Migrations!Start, Steps, HistoryTyped
  <2>3. Upped(u, {}, rd, R)
    BY <2>2 DEF Upped, Same
  <2>4. QED
    BY <1>9, <1>10, <2>1, <2>3 DEF Goes
<1>12. ASSUME NEW s \in SUBSET D, s # {}, s \ {Migrations!Max(s)} \in G PROVE s \in G
  <2>1. PICK f : f = Migrations!Max(s)
    OBVIOUS
  <2>2. f \in s
    BY <1>8, <1>12, <2>1, Greatest
  <2>3. PICK u : u = r[s \ {f}]
    OBVIOUS
  <2>4. Upped(u, s \ {f}, rd, R)
    BY <1>10, <1>12, <2>1, <2>3
  <2>5. f \in Migrations!Files /\ done \subseteq Migrations!Files
    BY <1>5, <1>12, <2>2 DEF HistoryTyped
  <2>6. r[s] = Migrations!Apply(u, f, rd, R, strict)
    BY <1>2, <1>3, <1>7, <1>9, <1>12, <2>1, <2>2, <2>3 DEF Migrations!Migrate, Goes
  <2>7. Upped(r[s], (s \ {f}) \union {f}, rd, R)
    BY <2>4, <2>5, <2>6, UpStep
  <2>8. (s \ {f}) \union {f} = s
    BY <2>2
  <2>9. QED
    BY <1>10, <1>12, <2>7, <2>8
<1>13. D \in G
  <2>1. G \in SUBSET SUBSET D
    BY <1>10
  <2>2. \A s \in SUBSET D : s # {} /\ s \ {Migrations!Max(s)} \in G => s \in G
    BY <1>12
  <2>3. QED
    BY <1>8, <1>11, <2>1, <2>2, FoldInduction
<1>14. QED
  BY <1>1, <1>2, <1>3, <1>9, <1>10, <1>13 DEF Goes

LEMMA DownFold ==
  ASSUME NEW p \in Procs, HistoryTyped, mode[p] = "asked", NEW strict \in BOOLEAN
  PROVE  Downed(Migrations!Migrated(p, strict))
<1>1. PICK rd : rd = read[p]
  OBVIOUS
<1>2. rd \in Seq(Migrations!Files)
  BY <1>1 DEF HistoryTyped
<1>3. PICK n \in Nat : n = Len(rd)
  BY <1>2
<1>4. PICK D : D = 1..n
  OBVIOUS
<1>5. Migrations!Order(p) = rd
  BY <1>1 DEF Migrations!Order
<1>6. DOMAIN Migrations!Order(p) = D /\ D \in SUBSET (1..n)
  BY <1>2, <1>3, <1>4, <1>5
<1>7. PICK r : Goes(p, strict, D, r)
  BY <1>6, Folded
<1>8. PICK G : G = {s \in SUBSET D : Downed(r[s])}
  OBVIOUS
<1>9. {} \in G
  <2>1. PICK u : u = Migrations!Start
    OBVIOUS
  <2>2. /\ u \in Steps /\ u.done = done /\ u.history = history /\ u.twice = {} /\ Once(history)
    BY <2>1 DEF Migrations!Start, Steps, HistoryTyped
  <2>3. Downed(u)
    BY <2>2 DEF Downed, Same
  <2>4. QED
    BY <1>7, <1>8, <2>1, <2>3 DEF Goes
<1>10. ASSUME NEW s \in SUBSET D, s # {}, s \ {Migrations!Max(s)} \in G PROVE s \in G
  <2>1. PICK i : i = Migrations!Max(s)
    OBVIOUS
  <2>2. i \in s
    BY <1>6, <1>10, <2>1, Greatest
  <2>3. PICK u : u = r[s \ {i}]
    OBVIOUS
  <2>4. Downed(u)
    BY <1>8, <1>10, <2>1, <2>3
  <2>5. PICK f : f = rd[i]
    OBVIOUS
  <2>6. f \in Migrations!Files /\ done \subseteq Migrations!Files
    <3>1. i \in 1..Len(rd)
      BY <1>3, <1>4, <1>10, <2>2
    <3>2. QED
      BY <1>2, <2>5, <3>1 DEF HistoryTyped
  <2>7. r[s] = Migrations!Revert(u, f, strict)
    BY <1>5, <1>7, <1>10, <2>1, <2>3, <2>5 DEF Migrations!Migrate, Goes
  <2>8. Downed(r[s])
    BY <2>4, <2>6, <2>7, DownStep
  <2>9. QED
    BY <1>8, <1>10, <2>8
<1>11. D \in G
  <2>1. G \in SUBSET SUBSET D
    BY <1>8
  <2>2. \A s \in SUBSET D : s # {} /\ s \ {Migrations!Max(s)} \in G => s \in G
    BY <1>10
  <2>3. QED
    BY <1>6, <1>9, <2>1, <2>2, FoldInduction
<1>12. QED
  BY <1>7, <1>8, <1>11 DEF Goes

-----------------------------------------------------------------------------
\* What a run leaves to commit is due.
LEMMA DueAfter ==
  ASSUME HistoryTyped, NEW s, NEW V, NEW rd, NEW R, Upped(s, V, rd, R) \/ Downed(s),
         NEW w, w = [done |-> s.done, history |-> s.history, twice |-> s.twice, missed |-> s.missed,
                     aux |-> s.done \cap Aux # done \cap Aux \/ s.twice \cap Aux # {}]
  PROVE  w \in Works /\ Due(w)
<1>1. s \in Steps /\ Once(s.history)
  BY DEF Upped, Downed
<1>2. /\ w.done = s.done /\ w.history = s.history /\ w.twice = s.twice /\ w.missed = s.missed
      /\ w.aux = (s.done \cap Aux # done \cap Aux \/ s.twice \cap Aux # {})
  OBVIOUS
<1>3. w \in Works
  BY <1>1 DEF Works, Steps
<1>4. \A f \in Migrations!Files : Same(s, f) \/ (Has(s.history, f) <=> f \in s.done)
  BY DEF Upped, Downed
<1>5. s.twice \subseteq s.missed /\ s.twice \cap Repaired = {}
  BY DEF Upped, Downed
<1>6. ASSUME ~w.aux, NEW f \in Aux \cap Migrations!Files,
             ~(Has(s.history, f) <=> Has(history, f))
      PROVE  f \in s.missed
  <2>1. s.done \cap Aux = done \cap Aux
    BY <1>2, <1>6
  <2>2. f \in s.done <=> f \in done
    BY <1>6, <2>1
  <2>3. CASE Upped(s, V, rd, R)
    BY <1>6, <2>2, <2>3 DEF Upped, Same
  <2>4. CASE Downed(s)
    BY <1>6, <2>2, <2>4 DEF Downed, Same
  <2>5. QED
    BY <2>3, <2>4
<1>7. QED
  BY <1>1, <1>2, <1>3, <1>4, <1>5, <1>6 DEF Due, Same

\* A process that is not half through its commits turns to something else.
LEMMA Aside ==
  ASSUME HistoryInv, NEW p \in Procs, mode[p] # "half", NEW x \in {"idle", "loaded", "asked"},
         mode' = [mode EXCEPT ![p] = x],
         unsaved' = unsaved \/ unsaved' = [unsaved EXCEPT ![p] = Migrations!Idle],
         done' = done, history' = history, twice' = twice,
         list' \in [Procs -> Migrations!Lists], read' \in [Procs -> Seq(Migrations!Files)],
         \A f \in lost \ lost' : (Has(history, f) <=> Whole(f)) /\ f \notin twice
  PROVE  HistoryInv'
<1>1. Migrations!Idle \in Works
  BY DEF Migrations!Idle, Works
<1>2. mode \in [Procs -> {"idle", "loaded", "asked", "open", "half"}] /\ unsaved \in [Procs -> Works]
  BY DEF HistoryInv, HistoryTyped
<1>3. /\ mode' \in [Procs -> {"idle", "loaded", "asked", "open", "half"}]
      /\ unsaved' \in [Procs -> Works]
      /\ mode'[p] = x
      /\ \A q \in Procs \ {p} : mode'[q] = mode[q] /\ unsaved'[q] = unsaved[q]
  BY <1>1, <1>2
<1>4. HistoryTyped'
  BY <1>3 DEF HistoryInv, HistoryTyped
<1>5. \A q \in Procs : /\ mode'[q] = "half" <=> mode[q] = "half"
                       /\ mode[q] = "half" => unsaved'[q] = unsaved[q]
  BY <1>3
<1>6. \A f \in Migrations!Files : Whole(f)' <=> Whole(f)
  BY <1>5 DEF Whole, HalfAux
<1>7. \A f \in Migrations!Files : (Has(history', f) <=> Whole(f)') \/ f \in lost'
  <2>1. \A f \in Migrations!Files : (Has(history, f) <=> Whole(f)) \/ f \in lost
    BY DEF HistoryInv, ToldInv
  <2>2. QED
    BY <1>6, <2>1
<1>8. ToldInv'
  BY <1>7 DEF HistoryInv, ToldInv
<1>9. OneInv'
  BY <1>3 DEF HistoryInv, OneInv
<1>10. OpenInv'
  BY <1>3 DEF HistoryInv, OpenInv, Due
<1>11. QED
  BY <1>4, <1>8, <1>9, <1>10 DEF HistoryInv

LEMMA OpenStep ==
  ASSUME HistoryInv, NEW p \in Procs, mode[p] \in {"loaded", "asked"}, NEW s,
         mode[p] = "loaded" => Upped(s, list[p].files, read[p], list[p].repair),
         mode[p] = "asked" => Downed(s),
         Migrations!Open(p, s)
  PROVE  HistoryInv'
<1>1. UNCHANGED <<done, history, list, read, runs, torn, twice>>
  BY DEF Migrations!Open
<1>2. HistoryTyped /\ ToldInv /\ OneInv /\ OpenInv
  BY DEF HistoryInv
<1>3. Upped(s, list[p].files, read[p], list[p].repair) \/ Downed(s)
  OBVIOUS
<1>4. CASE s.history # history \/ s.done # done \/ s.twice # {}
  <2>1. PICK aux : aux = (s.done \cap Aux # done \cap Aux \/ s.twice \cap Aux # {})
    OBVIOUS
  <2>2. PICK w : w = [done |-> s.done, history |-> s.history, twice |-> s.twice,
                      missed |-> s.missed, aux |-> aux]
    OBVIOUS
  <2>3. /\ \A q \in Procs : mode[q] # "open"
        /\ aux => ~Migrations!Locked(p)
        /\ mode' = [mode EXCEPT ![p] = "open"] /\ unsaved' = [unsaved EXCEPT ![p] = w]
        /\ lost' = lost
    BY <1>4, <2>1, <2>2 DEF Migrations!Open
  <2>4. w \in Works /\ Due(w) /\ w.aux = aux
    <3>1. w \in Works /\ Due(w)
      BY <1>2, <1>3, <2>1, <2>2, DueAfter
    <3>2. QED
      BY <2>2, <3>1
  <2>5. /\ mode' \in [Procs -> {"idle", "loaded", "asked", "open", "half"}]
        /\ unsaved' \in [Procs -> Works]
        /\ mode'[p] = "open" /\ unsaved'[p] = w
        /\ \A q \in Procs \ {p} : mode'[q] = mode[q] /\ unsaved'[q] = unsaved[q]
    BY <1>2, <2>3, <2>4 DEF HistoryTyped
  <2>6. HistoryTyped'
    BY <1>1, <1>2, <2>5 DEF HistoryTyped
  <2>7. \A f \in Migrations!Files : Whole(f)' <=> Whole(f)
    <3>1. \A q \in Procs : /\ mode'[q] = "half" <=> mode[q] = "half"
                           /\ mode[q] = "half" => unsaved'[q] = unsaved[q]
      BY <2>5
    <3>2. QED
      BY <1>1, <3>1 DEF Whole, HalfAux
  <2>8. ToldInv'
    BY <1>1, <1>2, <2>3, <2>7 DEF ToldInv
  <2>9. OneInv'
    <3>1. \A q \in Procs \ {p} : mode'[q] # "open"
      BY <2>3, <2>5
    <3>2. ASSUME w.aux, NEW q \in Procs \ {p} PROVE ~(mode'[q] = "half" /\ unsaved'[q].aux)
      BY <2>3, <2>4, <2>5, <3>2 DEF Migrations!Locked
    <3>3. ASSUME NEW q \in Procs, NEW r \in Procs,
                 mode'[q] \in {"open", "half"}, unsaved'[q].aux,
                 mode'[r] \in {"open", "half"}, unsaved'[r].aux
          PROVE  q = r
      <4>1. CASE q = p \/ r = p
        BY <2>5, <3>1, <3>2, <3>3, <4>1
      <4>2. CASE q # p /\ r # p
        BY <1>2, <2>5, <3>3, <4>2 DEF OneInv
      <4>3. QED
        BY <4>1, <4>2
    <3>4. QED
      BY <3>1, <3>3 DEF OneInv
  <2>10. OpenInv'
    BY <1>1, <2>3, <2>4, <2>5 DEF OpenInv, Due
  <2>11. QED
    BY <2>6, <2>8, <2>9, <2>10 DEF HistoryInv
<1>5. CASE s.history = history /\ s.done = done /\ s.twice = {}
  <2>1. mode' = [mode EXCEPT ![p] = "idle"]
    BY <1>5 DEF Migrations!Open, Migrations!Over
  <2>2. unsaved' = unsaved \/ unsaved' = [unsaved EXCEPT ![p] = Migrations!Idle]
    BY <1>5 DEF Migrations!Open, Migrations!Over
  <2>3. ASSUME NEW f \in lost \ lost'
        PROVE  (Has(history, f) <=> Whole(f)) /\ f \notin twice
    <3>1. mode[p] = "loaded" /\ lost' # lost
      BY <1>5, <2>3 DEF Migrations!Open
    <3>2. /\ read[p] = history /\ ~Migrations!Locked(p)
          /\ f \in list[p].files /\ f \in list[p].repair
      BY <1>5, <2>3, <3>1 DEF Migrations!Open, Migrations!Over
    <3>3. ~s.failed
      BY DEF Migrations!Open
    <3>4. f \in done /\ Has(history, f)
      BY <1>5, <3>1, <3>2, <3>3 DEF Upped
    <3>5. \A q \in Procs : ~HalfAux(q)
      BY <3>1, <3>2 DEF HalfAux, Migrations!Locked
    <3>6. Whole(f)
      BY <3>4, <3>5 DEF Whole
    <3>7. f \in Repaired
      BY <1>2, <3>2 DEF HistoryTyped, Migrations!Lists
    <3>8. QED
      BY <1>2, <3>4, <3>6, <3>7 DEF ToldInv
  <2>4. QED
    <3>1. mode[p] # "half" /\ "idle" \in {"idle", "loaded", "asked"}
      OBVIOUS
    <3>2. list' \in [Procs -> Migrations!Lists] /\ read' \in [Procs -> Seq(Migrations!Files)]
      BY <1>1, <1>2 DEF HistoryTyped
    <3>3. done' = done /\ history' = history /\ twice' = twice
      BY <1>1
    <3>4. \A f \in lost \ lost' : (Has(history, f) <=> Whole(f)) /\ f \notin twice
      BY <2>3
    <3>5. QED
      BY <2>1, <2>2, <3>1, <3>2, <3>3, <3>4, Aside
<1>6. QED
  BY <1>4, <1>5

LEMMA LoadStep ==
  ASSUME HistoryInv, NEW p \in Procs,
         \/ \E l \in Migrations!Lists : Migrations!LoadUp(p, l)
         \/ \E n \in 1..2 : Migrations!LoadDown(p, n)
         \/ Migrations!Fail(p)
  PROVE  HistoryInv'
<1>1. HistoryTyped
  BY DEF HistoryInv
<1>2. ASSUME NEW l \in Migrations!Lists, Migrations!LoadUp(p, l) PROVE HistoryInv'
  <2>1. /\ mode[p] # "half" /\ done' = done /\ history' = history /\ twice' = twice
        /\ list' = [list EXCEPT ![p] = l] /\ read' = [read EXCEPT ![p] = history]
    BY <1>2 DEF Migrations!LoadUp
  <2>2. list' \in [Procs -> Migrations!Lists] /\ read' \in [Procs -> Seq(Migrations!Files)]
    BY <1>1, <2>1 DEF HistoryTyped
  <2>3. PICK x \in {"idle", "loaded", "asked"} : mode' = [mode EXCEPT ![p] = x]
    BY <1>2 DEF Migrations!LoadUp, Migrations!Over
  <2>4. unsaved' = unsaved \/ unsaved' = [unsaved EXCEPT ![p] = Migrations!Idle]
    BY <1>2 DEF Migrations!LoadUp, Migrations!Over
  <2>5. lost \ lost' = {}
    BY <1>2 DEF Migrations!LoadUp, Migrations!Over, Migrations!NothingToDo
  <2>6. \A f \in lost \ lost' : (Has(history, f) <=> Whole(f)) /\ f \notin twice
    BY <2>5
  <2>7. QED
    BY <2>1, <2>2, <2>3, <2>4, <2>6, Aside
<1>3. ASSUME NEW n \in 1..2, Migrations!LoadDown(p, n) PROVE HistoryInv'
  <2>1. /\ mode[p] # "half" /\ done' = done /\ history' = history /\ twice' = twice
        /\ lost' = lost /\ unsaved' = unsaved
        /\ mode' = [mode EXCEPT ![p] = "asked"]
        /\ list' = [list EXCEPT ![p] = Migrations!Copied] /\ n \in 1..Len(history)
        /\ read' = [read EXCEPT ![p] = SubSeq(Migrations!Reverse(history), 1, n)]
    BY <1>3 DEF Migrations!LoadDown
  <2>2. Migrations!Copied \in Migrations!Lists
    BY DEF Migrations!Copied, Migrations!Lists
  <2>3. PICK S : S = Migrations!Files
    OBVIOUS
  <2>4. PICK v : v = Migrations!Reverse(history)
    OBVIOUS
  <2>5. v \in Seq(S) /\ Len(v) = Len(history)
    <3>1. history \in Seq(S)
      BY <1>1, <2>3 DEF HistoryTyped
    <3>2. \A i \in 1..Len(history) : history[(Len(history) - i) + 1] \in S
      <4>1. TAKE i \in 1..Len(history)
      <4>2. (Len(history) - i) + 1 \in 1..Len(history)
        BY <3>1
      <4>3. QED
        BY <3>1, <4>2
    <3>3. v = [i \in 1..Len(history) |-> history[(Len(history) - i) + 1]]
      BY <2>4 DEF Migrations!Reverse
    <3>4. QED
      BY <3>1, <3>2, <3>3
  <2>6. SubSeq(v, 1, n) \in Seq(S)
    BY <2>1, <2>5
  <2>7. list' \in [Procs -> Migrations!Lists] /\ read' \in [Procs -> Seq(Migrations!Files)]
    BY <1>1, <2>1, <2>2, <2>3, <2>4, <2>6 DEF HistoryTyped
  <2>8. QED
    <3>1. "asked" \in {"idle", "loaded", "asked"}
      OBVIOUS
    <3>2. \A f \in lost \ lost' : (Has(history, f) <=> Whole(f)) /\ f \notin twice
      BY <2>1
    <3>3. QED
      BY <2>1, <2>7, <3>1, <3>2, Aside
<1>4. ASSUME Migrations!Fail(p) PROVE HistoryInv'
  <2>1. /\ mode[p] # "half" /\ done' = done /\ history' = history /\ twice' = twice
        /\ lost' = lost /\ unsaved' = [unsaved EXCEPT ![p] = Migrations!Idle]
        /\ mode' = [mode EXCEPT ![p] = "idle"] /\ list' = list /\ read' = read
    BY <1>4 DEF Migrations!Fail
  <2>2. list' \in [Procs -> Migrations!Lists] /\ read' \in [Procs -> Seq(Migrations!Files)]
    BY <1>1, <2>1 DEF HistoryTyped
  <2>3. QED
    <3>1. "idle" \in {"idle", "loaded", "asked"}
      OBVIOUS
    <3>2. \A f \in lost \ lost' : (Has(history, f) <=> Whole(f)) /\ f \notin twice
      BY <2>1
    <3>3. QED
      BY <2>1, <2>2, <3>1, <3>2, Aside
<1>5. QED
  BY <1>2, <1>3, <1>4

LEMMA CommitMainStep ==
  ASSUME HistoryInv, NEW p \in Procs, Migrations!CommitMain(p)
  PROVE  HistoryInv'
<1>1. HistoryTyped /\ ToldInv /\ OneInv /\ OpenInv
  BY DEF HistoryInv
<1>2. PICK w : w = unsaved[p]
  OBVIOUS
<1>3. /\ mode[p] = "open" /\ mode' = [mode EXCEPT ![p] = "half"] /\ unsaved' = unsaved
      /\ list' = list /\ read' = read
      /\ done' = (done \cap Aux) \union (w.done \ Aux)
      /\ history' = w.history /\ twice' = twice \union w.twice /\ lost' = lost \union w.missed
  BY <1>2 DEF Migrations!CommitMain
<1>4. w \in Works /\ Due(w)
  BY <1>1, <1>2, <1>3 DEF HistoryTyped, OpenInv
<1>5. /\ mode' \in [Procs -> {"idle", "loaded", "asked", "open", "half"}] /\ mode'[p] = "half"
      /\ \A q \in Procs \ {p} : mode'[q] = mode[q]
  BY <1>1, <1>3 DEF HistoryTyped
<1>6. HistoryTyped'
  <2>1. w.done \subseteq Migrations!Files /\ w.history \in Seq(Migrations!Files) /\ Once(w.history)
    BY <1>4 DEF Works, Due
  <2>2. QED
    BY <1>1, <1>3, <1>5, <2>1 DEF HistoryTyped
<1>7. OneInv'
  BY <1>1, <1>3, <1>5 DEF OneInv
<1>8. OpenInv'
  <2>1. \A q \in Procs : mode'[q] # "open"
    BY <1>1, <1>3, <1>5 DEF OneInv
  <2>2. QED
    BY <2>1 DEF OpenInv
<1>9. ASSUME NEW f \in Migrations!Files
      PROVE  (Has(history', f) <=> Whole(f)') \/ f \in lost'
  <2>1. (Has(history, f) <=> Whole(f)) \/ f \in lost
    BY <1>1 DEF ToldInv
  <2>2. CASE f \notin Aux
    <3>1. (Whole(f) <=> f \in done) /\ (Whole(f)' <=> f \in w.done)
      BY <1>3, <2>2 DEF Whole
    <3>2. \/ Has(w.history, f) <=> f \in w.done
          \/ (Has(w.history, f) <=> Has(history, f)) /\ (f \in w.done <=> f \in done)
      BY <1>4, <2>2 DEF Due
    <3>3. QED
      BY <1>3, <2>1, <3>1, <3>2
  <2>3. CASE f \in Aux /\ w.aux
    <3>1. \A q \in Procs : HalfAux(q) => q = p
      BY <1>1, <1>2, <1>3, <2>3 DEF HalfAux, OneInv
    <3>2. \A q \in Procs : ~HalfAux(q)
      BY <1>3, <3>1 DEF HalfAux
    <3>3. Whole(f) <=> f \in done
      BY <3>2 DEF Whole
    <3>4. \A q \in Procs : (mode'[q] = "half" /\ unsaved'[q].aux) <=> q = p
      BY <1>2, <1>3, <1>5, <2>3, <3>2 DEF HalfAux
    <3>5. Whole(f)' <=> f \in w.done
      BY <1>2, <1>3, <2>3, <3>4 DEF Whole, HalfAux
    <3>6. \/ Has(w.history, f) <=> f \in w.done
          \/ (Has(w.history, f) <=> Has(history, f)) /\ (f \in w.done <=> f \in done)
      BY <1>4, <2>3 DEF Due
    <3>7. QED
      BY <1>3, <2>1, <3>3, <3>5, <3>6
  <2>4. CASE f \in Aux /\ ~w.aux
    <3>1. \A q \in Procs : (mode'[q] = "half" /\ unsaved'[q].aux) <=> HalfAux(q)
      BY <1>2, <1>3, <1>5, <2>4 DEF HalfAux
    <3>2. f \in done' <=> f \in done
      BY <1>3, <2>4
    <3>3. Whole(f)' <=> Whole(f)
      BY <1>3, <3>1, <3>2 DEF Whole, HalfAux
    <3>4. (Has(w.history, f) <=> Has(history, f)) \/ f \in w.missed
      BY <1>4, <2>4 DEF Due
    <3>5. QED
      BY <1>3, <2>1, <3>3, <3>4
  <2>5. QED
    BY <2>2, <2>3, <2>4
<1>10. ToldInv'
  <2>1. w.twice \subseteq w.missed /\ w.twice \cap Repaired = {}
    BY <1>4 DEF Due
  <2>2. twice' \subseteq lost' /\ twice' \cap Repaired = {}
    BY <1>1, <1>3, <2>1 DEF ToldInv
  <2>3. QED
    BY <1>9, <2>2 DEF ToldInv
<1>11. QED
  BY <1>6, <1>7, <1>8, <1>10 DEF HistoryInv

\* A run ends that is half through: its change to auxiliary.db is there, or torn.
LEMMA HalfStep ==
  ASSUME HistoryInv, NEW p \in Procs, Migrations!CommitAux(p) \/ Migrations!Tear(p)
  PROVE  HistoryInv'
<1>1. HistoryTyped /\ ToldInv /\ OneInv /\ OpenInv
  BY DEF HistoryInv
<1>2. PICK w : w = unsaved[p]
  OBVIOUS
<1>3. w \in Works
  BY <1>1, <1>2 DEF HistoryTyped
<1>4. /\ mode[p] = "half" /\ mode' = [mode EXCEPT ![p] = "idle"]
      /\ unsaved' = [unsaved EXCEPT ![p] = Migrations!Idle]
      /\ history' = history /\ list' = list /\ read' = read /\ twice' = twice
  BY DEF Migrations!CommitAux, Migrations!Tear, Migrations!Over
<1>5. \/ lost' = lost /\ done' = IF w.aux THEN (done \ Aux) \union (w.done \cap Aux) ELSE done
      \/ /\ done' = done
         /\ lost' = IF w.aux THEN lost \union {f \in Aux : (f \in w.done) # (f \in done)}
                    ELSE lost
  <2>1. ASSUME Migrations!CommitAux(p)
        PROVE  lost' = lost /\ done' = IF w.aux THEN (done \ Aux) \union (w.done \cap Aux) ELSE done
    <3>1. lost \ ({} \cap {}) = lost
      OBVIOUS
    <3>2. QED
      BY <1>2, <2>1, <3>1 DEF Migrations!CommitAux, Migrations!Over
  <2>2. ASSUME Migrations!Tear(p)
        PROVE  /\ done' = done
               /\ lost' = IF w.aux THEN lost \union {f \in Aux : (f \in w.done) # (f \in done)}
                          ELSE lost
    BY <1>2, <2>2 DEF Migrations!Tear
  <2>3. QED
    BY <2>1, <2>2
<1>6. lost \subseteq lost' /\ \A f : f \notin Aux \/ ~w.aux => (f \in done' <=> f \in done)
  BY <1>5
<1>7. Migrations!Idle \in Works
  BY DEF Migrations!Idle, Works
<1>8. /\ mode' \in [Procs -> {"idle", "loaded", "asked", "open", "half"}] /\ mode'[p] = "idle"
      /\ unsaved' \in [Procs -> Works]
      /\ \A q \in Procs \ {p} : mode'[q] = mode[q] /\ unsaved'[q] = unsaved[q]
  BY <1>1, <1>4, <1>7 DEF HistoryTyped
<1>9. HistoryTyped'
  <2>1. done' \subseteq Migrations!Files
    BY <1>1, <1>3, <1>5 DEF HistoryTyped, Works
  <2>2. QED
    BY <1>1, <1>4, <1>8, <2>1 DEF HistoryTyped
<1>10. OneInv'
  BY <1>1, <1>8 DEF OneInv
<1>11. ASSUME NEW q \in Procs, mode'[q] = "open" PROVE Due(unsaved[q])'
  <2>1. q # p /\ mode[q] = "open" /\ unsaved'[q] = unsaved[q]
    BY <1>8, <1>11
  <2>2. PICK u : u = unsaved[q]
    OBVIOUS
  <2>3. Due(u)
    BY <1>1, <2>1, <2>2 DEF OpenInv
  <2>4. ~(u.aux /\ w.aux)
    BY <1>1, <1>2, <1>4, <2>1, <2>2 DEF OneInv
  <2>5. \A f : (f \in Aux => u.aux) => (f \in done' <=> f \in done)
    BY <1>6, <2>4
  <2>6. QED
    BY <1>4, <2>1, <2>2, <2>3, <2>5 DEF Due
<1>12. OpenInv'
  BY <1>11 DEF OpenInv
<1>13. ASSUME NEW f \in Migrations!Files
       PROVE  (Has(history', f) <=> Whole(f)') \/ f \in lost'
  <2>1. (Has(history, f) <=> Whole(f)) \/ f \in lost
    BY <1>1 DEF ToldInv
  <2>2. CASE f \notin Aux
    BY <1>4, <1>6, <2>1, <2>2 DEF Whole
  <2>3. CASE f \in Aux /\ w.aux
    <3>1. \A q \in Procs : HalfAux(q) <=> q = p
      BY <1>1, <1>2, <1>4, <2>3 DEF HalfAux, OneInv
    <3>2. Whole(f) <=> f \in w.done
      BY <1>2, <2>3, <3>1 DEF Whole
    <3>3. \A q \in Procs : ~(mode'[q] = "half" /\ unsaved'[q].aux)
      BY <1>8, <3>1 DEF HalfAux
    <3>4. Whole(f)' <=> f \in done'
      BY <3>3 DEF Whole, HalfAux
    <3>5. (f \in done' <=> f \in w.done) \/ f \in lost'
      BY <1>5, <2>3
    <3>6. QED
      BY <1>4, <1>6, <2>1, <3>2, <3>4, <3>5
  <2>4. CASE f \in Aux /\ ~w.aux
    <3>1. \A q \in Procs : (mode'[q] = "half" /\ unsaved'[q].aux) <=> HalfAux(q)
      BY <1>2, <1>8, <2>4 DEF HalfAux
    <3>2. \A q \in Procs : HalfAux(q) => unsaved'[q] = unsaved[q]
      BY <1>2, <1>8, <2>4 DEF HalfAux
    <3>3. Whole(f)' <=> Whole(f)
      BY <1>6, <2>4, <3>1, <3>2 DEF Whole, HalfAux
    <3>4. QED
      BY <1>4, <1>6, <2>1, <3>3
  <2>5. QED
    BY <2>2, <2>3, <2>4
<1>14. ToldInv'
  <2>1. twice' \subseteq lost' /\ twice' \cap Repaired = {}
    BY <1>1, <1>4, <1>6 DEF ToldInv
  <2>2. QED
    BY <1>13, <2>1 DEF ToldInv
<1>15. QED
  BY <1>9, <1>10, <1>12, <1>14 DEF HistoryInv

LEMMA HistoryInit ==
  ASSUME Migrations!Init PROVE HistoryInv
<1>1. /\ done = {} /\ history = <<>> /\ mode = [p \in Procs |-> "idle"]
      /\ list = [p \in Procs |-> Migrations!Copied] /\ read = [p \in Procs |-> <<>>]
      /\ unsaved = [p \in Procs |-> Migrations!Idle] /\ twice = {}
  BY DEF Migrations!Init
<1>2. Migrations!Copied \in Migrations!Lists /\ Migrations!Idle \in Works
  BY DEF Migrations!Copied, Migrations!Lists, Migrations!Idle, Works
<1>3. <<>> \in Seq(Migrations!Files) /\ Once(<<>>) /\ \A f : ~Has(<<>>, f)
  BY DEF Once, Has
<1>4. HistoryTyped
  BY <1>1, <1>2, <1>3 DEF HistoryTyped
<1>5. ToldInv
  BY <1>1, <1>3 DEF ToldInv, Whole, HalfAux
<1>6. OneInv /\ OpenInv
  BY <1>1 DEF OneInv, OpenInv
<1>7. QED
  BY <1>4, <1>5, <1>6 DEF HistoryInv

LEMMA HistoryStep ==
  ASSUME HistoryInv, [Migrations!Next]_historyVars
  PROVE  HistoryInv'
<1>1. HistoryTyped
  BY DEF HistoryInv
<1>2. ASSUME NEW p \in Procs, Migrations!Up(p) PROVE HistoryInv'
  <2>1. PICK strict \in BOOLEAN : Migrations!Open(p, Migrations!Migrated(p, strict))
    BY <1>2 DEF Migrations!Up
  <2>2. mode[p] = "loaded"
    BY <1>2 DEF Migrations!Up
  <2>3. PICK s : s = Migrations!Migrated(p, strict)
    OBVIOUS
  <2>4. Upped(s, list[p].files, read[p], list[p].repair)
    BY <1>1, <2>2, <2>3, UpFold
  <2>5. Migrations!Open(p, s)
    BY <2>1, <2>3
  <2>6. QED
    BY <2>2, <2>4, <2>5, OpenStep
<1>3. ASSUME NEW p \in Procs, Migrations!Down(p) PROVE HistoryInv'
  <2>1. PICK strict \in BOOLEAN : Migrations!Open(p, Migrations!Migrated(p, strict))
    BY <1>3 DEF Migrations!Down
  <2>2. mode[p] = "asked"
    BY <1>3 DEF Migrations!Down
  <2>3. PICK s : s = Migrations!Migrated(p, strict)
    OBVIOUS
  <2>4. Downed(s)
    BY <1>1, <2>2, <2>3, DownFold
  <2>5. Migrations!Open(p, s)
    BY <2>1, <2>3
  <2>6. QED
    BY <2>2, <2>4, <2>5, OpenStep
<1>4. CASE UNCHANGED historyVars
  <2>1. UNCHANGED <<done, history, mode, list, read, unsaved, lost, twice>>
    BY <1>4 DEF historyVars
  <2>2. UNCHANGED <<HistoryTyped, ToldInv, OneInv, OpenInv>>
    BY <2>1 DEF HistoryTyped, ToldInv, Whole, HalfAux, OneInv, OpenInv, Due
  <2>3. QED
    BY <2>2 DEF HistoryInv
<1>5. CASE Migrations!Next
  <2>1. PICK p \in Procs :
          \/ \E l \in Migrations!Lists : Migrations!LoadUp(p, l)
          \/ \E n \in 1..2 : Migrations!LoadDown(p, n)
          \/ Migrations!Up(p) \/ Migrations!Down(p) \/ Migrations!Fail(p)
          \/ Migrations!CommitMain(p) \/ Migrations!CommitAux(p) \/ Migrations!Tear(p)
    BY <1>5 DEF Migrations!Next
  <2>2. CASE \/ \E l \in Migrations!Lists : Migrations!LoadUp(p, l)
             \/ \E n \in 1..2 : Migrations!LoadDown(p, n)
             \/ Migrations!Fail(p)
    BY <2>2, LoadStep
  <2>3. CASE Migrations!Up(p) \/ Migrations!Down(p)
    BY <1>2, <1>3, <2>3
  <2>4. CASE Migrations!CommitMain(p)
    BY <2>4, CommitMainStep
  <2>5. CASE Migrations!CommitAux(p) \/ Migrations!Tear(p)
    BY <2>5, HalfStep
  <2>6. QED
    BY <2>1, <2>2, <2>3, <2>4, <2>5
<1>6. QED
  BY <1>4, <1>5

\* For any migrations, processes, and runs that fail, end, or look at an old history:
\* it differs from the databases only in a migration of auxiliary.db that was torn from
\* its row, and no other is made on top of itself (MigrationsRunner.up and down).
THEOREM HistoryTells == PartsSpec => []HistoryTrue
<1> DEFINE all == <<part, vars, deleteVars, limitVars, claimVars, fileVars, hookVars, cascadeVars,
                    updateVars, historyVars, thumbVars>>
<1>1. PartsInit => HistoryInv
  BY HistoryInit DEF PartsInit
<1>2. HistoryInv /\ [PartsNext]_all => HistoryInv'
  <2> SUFFICES ASSUME HistoryInv, [PartsNext]_all PROVE HistoryInv'
    OBVIOUS
  <2>1. [Migrations!Next]_historyVars
    BY DEF PartsNext
  <2>2. QED
    BY <2>1, HistoryStep
<1>3. HistoryInv => HistoryTrue
  <2> SUFFICES ASSUME HistoryInv PROVE Migrations!HistoryTrue
    BY DEF HistoryTrue
  <2>1. twice \subseteq lost
    BY DEF HistoryInv, ToldInv
  <2>2. ASSUME \A p \in Procs : mode[p] # "half", NEW f \in Migrations!Files,
               (f \in Migrations!ToSet(history)) # (f \in done)
        PROVE  f \in lost
    <3>1. Whole(f) <=> f \in done
      BY <2>2 DEF Whole, HalfAux
    <3>2. f \in Migrations!ToSet(history) <=> Has(history, f)
      BY DEF Migrations!ToSet, Has
    <3>3. ~(Has(history, f) <=> f \in done)
      BY <2>2, <3>2
    <3>4. QED
      BY <3>1, <3>3 DEF HistoryInv, ToldInv
  <2>3. QED
    BY <2>1, <2>2 DEF Migrations!HistoryTrue
<1>4. QED
  BY <1>1, <1>2, <1>3, PTL DEF PartsSpec

-----------------------------------------------------------------------------
(***************************************************************************)
(* Realtime deletes: MCSafety has the state of RealtimeDelete under names  *)
(* of its own, and DeletesProofs speaks of that state too.                 *)
(***************************************************************************)
Told == INSTANCE DeletesProofs WITH MaxFaults <- MaxMissed, told <- heard, faults <- missed

LEMMA ToldInit == Deletes!Init => Told!Init
BY DEF Deletes!Init, Told!Init, Deletes!Records, Told!Records, Deletes!NoId, Told!NoId

LEMMA ToldStep == [Deletes!Next]_deleteVars => [Told!Next]_Told!vars
<1>1. \A o, set : Deletes!Hook(o, set) => Told!Hook(o, set)
  BY DEF Deletes!Hook, Told!Hook, Deletes!Records, Told!Records, Deletes!Visible, Told!Visible,
     Deletes!Seen, Told!Seen, Deletes!Send, Told!Send, Deletes!Met, Told!Met, Deletes!Begun,
     Told!Begun, Deletes!NoId, Told!NoId, Deletes!Deletes, Told!Deletes, Deletes!Fault,
     Told!Fault
<1>2. \A o \in Ops, r \in Deletes!Records : Deletes!StartPlain(o, r) => Told!StartPlain(o, r)
  BY <1>1 DEF Deletes!StartPlain, Told!StartPlain, Deletes!Starts, Told!Starts, Deletes!Records,
     Told!Records, Deletes!pubVars, Told!pubVars
<1>3. \A o \in Ops, r \in Deletes!Records : Deletes!StartTx(o, r) => Told!StartTx(o, r)
  BY DEF Deletes!StartTx, Told!StartTx, Deletes!Starts, Told!Starts, Deletes!Records,
     Told!Records, Deletes!Met, Told!Met, Deletes!Deletes, Told!Deletes, Deletes!pubVars,
     Told!pubVars, Deletes!remoteVars, Told!remoteVars
<1>4. \A o \in Ops, r \in Deletes!Records : Deletes!Save(o, r) => Told!Save(o, r)
  BY DEF Deletes!Save, Told!Save, Deletes!Starts, Told!Starts, Deletes!Publish, Told!Publish,
     Deletes!NoId, Told!NoId, Deletes!remoteVars, Told!remoteVars
<1>5. \A o \in Ops : Deletes!PlainPrepared(o) => Told!PlainPrepared(o)
  BY DEF Deletes!PlainPrepared, Told!PlainPrepared, Deletes!Settled, Told!Settled,
     Deletes!Fault, Told!Fault, Deletes!Met, Told!Met, Deletes!Late, Told!Late, Deletes!Records,
     Told!Records, Deletes!pubVars, Told!pubVars, Deletes!remoteVars, Told!remoteVars
<1>6. \A o \in Ops : Deletes!OpenTx(o) => Told!OpenTx(o)
  BY <1>1 DEF Deletes!OpenTx, Told!OpenTx, Deletes!InTx, Told!InTx, Deletes!pubVars,
     Told!pubVars
<1>7. \A o \in Ops : Deletes!FailTx(o) => Told!FailTx(o)
  BY DEF Deletes!FailTx, Told!FailTx, Deletes!pubVars, Told!pubVars, Deletes!remoteVars,
     Told!remoteVars
<1>8. \A o \in Ops : Deletes!CloseTx(o) => Told!CloseTx(o)
  BY DEF Deletes!CloseTx, Told!CloseTx, Deletes!Settled, Told!Settled, Deletes!Fault,
     Told!Fault, Deletes!Met, Told!Met, Deletes!Late, Told!Late, Deletes!Records, Told!Records,
     Deletes!pubVars, Told!pubVars, Deletes!remoteVars, Told!remoteVars
<1>9. \A o \in Ops : Deletes!AfterHooks(o) => Told!AfterHooks(o)
  BY DEF Deletes!AfterHooks, Told!AfterHooks, Deletes!Records, Told!Records, Deletes!NoId,
     Told!NoId, Deletes!Publish, Told!Publish, Deletes!Publications, Told!Publications,
     Deletes!Publication, Told!Publication, Deletes!remoteVars, Told!remoteVars
<1>10. Deletes!SendBatch => Told!SendBatch
  BY DEF Deletes!SendBatch, Told!SendBatch, Deletes!Send, Told!Send, Deletes!Fault, Told!Fault,
     Deletes!Met, Told!Met, Deletes!Records, Told!Records, Deletes!opVars, Told!opVars
<1>11. Deletes!BatchTimesOut => Told!BatchTimesOut
  BY DEF Deletes!BatchTimesOut, Told!BatchTimesOut, Deletes!Fault, Told!Fault, Deletes!opVars,
     Told!opVars, Deletes!remoteVars, Told!remoteVars
<1>12. \A w, events : Deletes!Handed(w, events) = Told!Handed(w, events)
  BY DEF Deletes!Handed, Told!Handed, Deletes!Hand, Told!Hand, Deletes!FoldLeft, Told!FoldLeft,
     Deletes!MapThenFoldSet, Told!MapThenFoldSet, Deletes!Max, Told!Max
<1>13. \A w \in Remotes : Deletes!Receive(w) => Told!Receive(w)
  BY <1>12 DEF Deletes!Receive, Told!Receive, Deletes!Visible, Told!Visible, Deletes!opVars,
     Told!opVars
<1>14. \A w \in Remotes, e \in Deletes!EventIds :
       Deletes!Expire(w, e) /\ Deletes!Fault => Told!Expire(w, e) /\ Told!Fault
  BY DEF Deletes!Expire, Told!Expire, Deletes!Fault, Told!Fault, Deletes!Met, Told!Met,
     Deletes!Records, Told!Records, Deletes!EventIds, Told!EventIds, Deletes!opVars,
     Told!opVars, Deletes!pubVars, Told!pubVars
<1>15. UNCHANGED deleteVars => UNCHANGED Told!vars
  BY DEF deleteVars, Told!vars, Told!opVars, Told!pubVars, Told!remoteVars
<1>16. QED
  BY <1>2, <1>3, <1>4, <1>5, <1>6, <1>7, <1>8, <1>9, <1>10, <1>11, <1>13, <1>14, <1>15
     DEF Deletes!Next, Told!Next, Deletes!Records, Told!Records, Deletes!EventIds, Told!EventIds

\* Whatever is refused, late or expires, no client is told of a delete that did
\* not commit; the clients of every worker are told once of one that did, unless
\* what happened to it excuses them; they are handed the events in the order in
\* which these were published; and when all is over nothing stays prepared.
THEOREM DeletesAreTold == PartsSpec => []DeletesTold
<1> DEFINE all == <<part, vars, deleteVars, limitVars, claimVars, fileVars, hookVars, cascadeVars,
                    updateVars, historyVars, thumbVars>>
<1>1. PartsInit => Told!DeleteInv
  <2>1. Told!Fit
    BY PartsAssumption DEF Told!Fit
  <2>2. QED
    BY <2>1, ToldInit, Told!DeleteInit DEF PartsInit
<1>2. Told!DeleteInv /\ [PartsNext]_all => Told!DeleteInv'
  <2> SUFFICES ASSUME Told!DeleteInv, [PartsNext]_all PROVE Told!DeleteInv'
    OBVIOUS
  <2>1. [Deletes!Next]_deleteVars
    BY DEF PartsNext
  <2>2. [Told!Next]_Told!vars
    BY <2>1, ToldStep
  <2>3. QED
    BY <2>2, Told!DeleteStep
<1>3. Told!DeleteInv => DeletesTold
  <2> SUFFICES ASSUME Told!DeleteInv
               PROVE  /\ Deletes!OnlyCommitted /\ Deletes!DeleteHeard
                      /\ Deletes!InOrder /\ Deletes!NothingLeft
    BY DEF DeletesTold
  <2>1. Deletes!Quiet => Told!Quiet
    BY DEF Deletes!Quiet, Told!Quiet
  <2>2. \A s, r : Deletes!Times(s, r) = Told!Times(s, r)
    BY DEF Deletes!Times, Told!Times, Deletes!Cardinality, Told!Cardinality
  <2>3. Deletes!OnlyCommitted
    BY <2>2, Told!OnlyCommittedHolds
       DEF Deletes!OnlyCommitted, Told!OnlyCommitted, Deletes!Records, Told!Records
  <2>4. Deletes!DeleteHeard
    BY <2>1, <2>2, Told!DeleteHeardHolds
       DEF Deletes!DeleteHeard, Told!DeleteHeard, Deletes!Records, Told!Records
  <2>5. Deletes!InOrder
    BY Told!InOrderHolds DEF Deletes!InOrder, Told!InOrder
  <2>6. Deletes!NothingLeft
    BY <2>1, Told!NothingLeftHolds
       DEF Deletes!NothingLeft, Told!NothingLeft, Deletes!Records, Told!Records, Deletes!NoId,
           Told!NoId
  <2>7. QED
    BY <2>3, <2>4, <2>5, <2>6
<1>4. QED
  BY <1>1, <1>2, <1>3, PTL DEF PartsSpec
=============================================================================
