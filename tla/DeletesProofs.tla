------------------------------ MODULE DeletesProofs ------------------------------
(***************************************************************************)
(* Proofs about RealtimeDelete, for any workers, operations and faults.    *)
(* Unless two deletes of a record overlap, one operation at a time has it, *)
(* and what the store has of it is that operation's (KeyInv). The events   *)
(* get to another worker in the order of their numbers (OrderInv), those   *)
(* of a commit once for a record (NoteInv). Where something is prepared,   *)
(* the event that ends it is still to come (PrepInv); and until a delete   *)
(* is heard, it is prepared there, or asked for (HeardInv).                *)
(***************************************************************************)
EXTENDS RealtimeDelete, SequenceTheorems, FiniteSetTheorems, WellFoundedInduction, TLAPS

\* What the proofs use of the constants.
Fit == Parent # Child /\ Ops \subseteq Nat \ {0}

Has(s, e) == \E i \in DOMAIN s : s[i] = e

\* Induction over the numbers, as the least number outside of a set.
LEMMA Induction ==
  ASSUME NEW S \in SUBSET Nat, 0 \in S, \A n \in S : n + 1 \in S
  PROVE  \A n \in Nat : n \in S
<1> DEFINE Less == {ss \in Nat \X Nat : ss[1] < ss[2]}
<1>1. IsWellFoundedOn(Less, Nat)
  BY NatLessThanWellFounded DEF OpToRel
<1>2. SUFFICES ASSUME Nat \ S # {} PROVE FALSE
  OBVIOUS
<1>3. PICK n \in Nat \ S : \A m \in Nat \ S : ~(<<m, n>> \in Less)
  <2> HIDE DEF Less
  <2>1. PICK T : T = Nat \ S
    OBVIOUS
  <2>2. T \subseteq Nat /\ T # {}
    BY <1>2, <2>1
  <2>3. \E n \in T : \A m \in T : ~(<<m, n>> \in Less)
    BY <1>1, <2>2, WFMin
  <2>4. QED
    BY <2>1, <2>3
<1>4. n - 1 \in Nat /\ n - 1 < n
  BY <1>3
<1>5. <<n - 1, n>> \in Less
  BY <1>3, <1>4
<1>6. n - 1 \in S
  BY <1>3, <1>4, <1>5
<1>7. n - 1 + 1 = n
  BY <1>3
<1>8. QED
  BY <1>3, <1>6, <1>7

LEMMA Least ==
  ASSUME NEW T \in SUBSET Nat, T # {}
  PROVE  \E m \in T : \A n \in T : m <= n
<1> DEFINE S == {n \in Nat : \A k \in 0..n : k \notin T}
<1>1. SUFFICES ASSUME \A m \in T : \E n \in T : n < m PROVE FALSE
  OBVIOUS
<1>2. 0 \in S
  BY <1>1
<1>3. ASSUME NEW n \in S PROVE n + 1 \in S
  <2>1. \A k \in 0..n : k \notin T
    BY <1>3
  <2>2. n + 1 \notin T
    <3>1. SUFFICES ASSUME n + 1 \in T PROVE FALSE
      OBVIOUS
    <3>2. PICK k \in T : k < n + 1
      BY <1>1, <3>1
    <3>3. k \in 0..n
      BY <3>2
    <3>4. QED
      BY <2>1, <3>3
  <2>3. \A k \in 0..n + 1 : k \in 0..n \/ k = n + 1
    OBVIOUS
  <2>4. QED
    BY <2>1, <2>2, <2>3
<1>4. S \subseteq Nat
  OBVIOUS
<1>5. \A n \in Nat : n \in S
  <2> HIDE DEF S
  <2>1. QED
    BY <1>2, <1>3, <1>4, Induction
<1>6. \A n \in Nat : n \in 0..n /\ n \notin T
  <2>1. SUFFICES ASSUME NEW n \in Nat PROVE n \in 0..n /\ n \notin T
    OBVIOUS
  <2>2. n \in 0..n /\ n \in S
    BY <1>5
  <2>3. QED
    BY <2>2
<1>7. QED
  BY <1>6

LEMMA Greatest ==
  ASSUME NEW n \in Nat, NEW s \in SUBSET (1..n), s # {}
  PROVE  /\ Max(s) \in s
         /\ \A i \in s : i <= Max(s)
<1> DEFINE T == {n - i : i \in s}
<1>1. T \in SUBSET Nat /\ T # {}
  <2>1. \A i \in s : n - i \in Nat
    OBVIOUS
  <2>2. PICK i : i \in s
    OBVIOUS
  <2>3. QED
    BY <2>1, <2>2
<1>2. PICK m \in T : \A k \in T : m <= k
  BY <1>1, Least
<1>3. PICK g \in s : m = n - g
  BY <1>2
<1>4. \A i \in s : i <= g
  <2>1. TAKE i \in s
  <2>2. m <= n - i
    BY <1>2
  <2>3. QED
    BY <1>3, <2>2
<1>5. \E x \in s : \A y \in s : x >= y
  BY <1>4
<1>6. QED
  BY <1>5 DEF Max

\* What holds of no file, and of one file more, holds of all of them.
LEMMA FoldInduction ==
  ASSUME NEW n \in Nat, NEW D \in SUBSET (1..n), NEW G \in SUBSET SUBSET D, {} \in G,
         \A s \in SUBSET D : s # {} /\ s \ {Max(s)} \in G => s \in G
  PROVE  D \in G
<1> DEFINE S == {k \in Nat : \A s \in SUBSET D : s \subseteq 1..k => s \in G}
<1>1. 0 \in S
  <2>1. \A s : s \subseteq 1..0 => s = {}
    OBVIOUS
  <2>2. \A s \in SUBSET D : s \subseteq 1..0 => s \in G
    BY <2>1
  <2>3. QED
    BY <2>2
<1>2. ASSUME NEW k \in S PROVE k + 1 \in S
  <2>1. ASSUME NEW s \in SUBSET D, s \subseteq 1..k + 1, s # {} PROVE s \in G
    <3>1. PICK m : m = Max(s)
      OBVIOUS
    <3>2. k + 1 \in Nat /\ s \in SUBSET (1..k + 1)
      BY <2>1
    <3>3. m \in s /\ \A i \in s : i <= m
      BY <2>1, <3>1, <3>2, Greatest
    <3>4. \A i \in s \ {m} : i \in 1..k
      BY <3>2, <3>3
    <3>5. s \ {m} \in G
      <4>1. s \ {m} \in SUBSET D /\ s \ {m} \subseteq 1..k
        BY <3>4
      <4>2. QED
        BY <1>2, <4>1
    <3>6. QED
      BY <2>1, <3>1, <3>5
  <2>2. \A s \in SUBSET D : s \subseteq 1..k + 1 => s \in G
    BY <2>1
  <2>3. k + 1 \in Nat
    OBVIOUS
  <2>4. QED
    BY <2>2, <2>3
<1>3. n \in S
  <2>1. PICK T : T = S
    OBVIOUS
  <2>2. T \in SUBSET Nat /\ 0 \in T /\ \A k \in T : k + 1 \in T
    BY <1>1, <1>2, <2>1
  <2>3. QED
    BY <2>1, <2>2, Induction
<1>4. QED
  BY <1>3

-----------------------------------------------------------------------------
Notes == [record : Records, what : {"commit", "abort", "update"},
          id : EventIds \union {NoId}, no : Nat]
Prepares == [kind : {"prepare"}, op : Ops, records : SUBSET Records]
Batches == [kind : {"publish"}, events : Seq(Notes)]
Handouts == [record : Records, what : {"commit", "update"}, no : Nat]
Doings == [kind : {"plain", "tx", "update"}, record : Records,
           pc : {"idle", "asking", "turn", "open", "after", "done"},
           inTx : SUBSET Records, ok : BOOLEAN]

StoreTyped ==
  /\ rows \subseteq Records /\ op \in [Ops -> Doings] /\ holder \in Ops \union {0}
  /\ cached \in [Records -> Nat] /\ told \in [Records -> Nat]
  /\ key \in [Records -> EventIds \union {NoId}]
  /\ asked \in [Ops -> SUBSET (Remotes \X SUBSET Records)]
  /\ flaws \in [Records -> SUBSET Flaws] /\ faults \in Nat

WayTyped ==
  /\ outbox \in Seq(Notes) /\ pubs \in Nat
  /\ chan \in [Remotes -> Seq(Prepares \union Batches)]
  /\ prepared \in [Remotes -> SUBSET EventIds] /\ got \in [Remotes -> Seq(Handouts)]

RuleTyped ==
  /\ needs \in [Records -> SUBSET Records] /\ needs[Parent] \subseteq {Parent}
  /\ Parent \in needs[Child] => Child \in needs[Child]

Over(o) == op[o].inTx \union {op[o].record}
Won(o, r) == op[o].ok /\ r \in Over(o)

\* The event id of r is in the store for o.
Keyed(o, r) ==
  \/ op[o].kind = "plain" /\ r = op[o].record /\ op[o].pc \in {"asking", "turn", "open", "after"}
  \/ r \in op[o].inTx /\ op[o].pc \in {"open", "after"}

OpOf(o) ==
  /\ op[o].pc = "open" <=> holder = o
  /\ op[o].kind = "update" => op[o].pc \in {"idle", "done"} /\ ~op[o].ok
  /\ op[o].pc \in {"idle", "asking", "turn"} => op[o].inTx = {}
  /\ op[o].pc \in {"idle", "asking", "turn", "open"} => ~op[o].ok
  /\ op[o].kind = "tx" => /\ op[o].pc # "asking"
                          /\ op[o].pc \in {"open", "after", "done"} => op[o].record \in op[o].inTx
  /\ op[o].kind = "plain" => op[o].record \notin op[o].inTx
  /\ op[o].inTx \subseteq {op[o].record, Child}
  /\ op[o].pc = "open" /\ op[o].record = Parent /\ Child \in rows => Child \in op[o].inTx
  /\ op[o].ok => Over(o) \cap rows = {}
  /\ op[o].pc \in {"idle", "turn", "after", "done"} => asked[o] = {}
  /\ \A a \in asked[o] : a[2] = IF op[o].pc = "open" THEN op[o].inTx ELSE {op[o].record}

OpInv == \A o \in Ops : OpOf(o)

Takes(o, r) == o \in Deletes(r) \/ Won(o, r)

\* What one operation has of r when no two of its deletes overlap.
Sole(r) ==
  /\ \A o, q \in Ops : Takes(o, r) /\ Takes(q, r) => o = q
  /\ r \notin rows => \E o \in Ops : Won(o, r)
  /\ \A o \in Ops : Keyed(o, r) => key[r] = <<o, r>>
                                   /\ ("hidden here" \notin flaws[r] => cached[r] = 1)
  /\ \A o \in Ops : Won(o, r) /\ op[o].pc # "done" => told[r] = 0
  /\ \A o \in Ops : Won(o, r) /\ op[o].pc = "done" /\ "hidden here" \notin flaws[r] => told[r] = 1

KeyOf(r) ==
  /\ key[r] = NoId \/ \E o \in Ops : key[r] = <<o, r>>
  /\ (\A o \in Ops : ~Keyed(o, r)) => key[r] = NoId /\ cached[r] = 0
  /\ told[r] > 0 => r \notin rows
  /\ "overlap" \notin flaws[r] => Sole(r)

KeyInv == \A r \in Records : KeyOf(r)

InBatch(m, e) == m.kind = "publish" /\ Has(m.events, e)
Coming(w, e) == Has(outbox, e) \/ \E i \in DOMAIN chan[w] : InBatch(chan[w][i], e)
Rising(s) == \A i, j \in DOMAIN s : i < j => s[i].no < s[j].no

OrderOf(w) ==
  /\ Rising(got[w])
  /\ \A i \in DOMAIN chan[w] : chan[w][i].kind = "publish" => Rising(chan[w][i].events)
  /\ \A i, k \in DOMAIN chan[w] : \A d, e \in Notes :
       i < k /\ InBatch(chan[w][i], d) /\ InBatch(chan[w][k], e) => d.no < e.no
  /\ \A i \in DOMAIN chan[w] : \A d, e \in Notes :
       InBatch(chan[w][i], d) => d.no <= pubs /\ (Has(outbox, e) => d.no < e.no)
  /\ \A i \in DOMAIN got[w] : got[w][i].no <= pubs
  /\ \A i \in DOMAIN got[w] : \A e \in Notes : Coming(w, e) => got[w][i].no < e.no

OrderInv ==
  /\ Rising(outbox) /\ \A e \in Notes : Has(outbox, e) => e.no <= pubs
  /\ \A w \in Remotes : OrderOf(w)

\* w was told, or will be, of the delete of r by an event with this number.
Tells(w, r, n) ==
  \/ \E e \in Notes : Coming(w, e) /\ e.what = "commit" /\ e.record = r /\ e.no = n
  \/ \E i \in DOMAIN got[w] : got[w][i].what = "commit" /\ got[w][i].record = r /\ got[w][i].no = n

\* What an event says of its operation.
Says(e) ==
  /\ e.what = "update" => e.id = NoId
  /\ e.what # "update" =>
       \E o \in Ops : /\ e.id = <<o, e.record>>
                      /\ "overlap" \notin flaws[e.record] =>
                           /\ op[o].pc = "done" /\ e.record \in Over(o)
                           /\ e.what = "commit" <=> op[o].ok

Vanished(r) == r \notin rows /\ ("overlap" \notin flaws[r] => \E o \in Ops : Won(o, r) /\ op[o].pc = "done")

NoteInv ==
  \A w \in Remotes :
    /\ \A e \in Notes : Coming(w, e) => Says(e)
    /\ \A r \in Records, n \in Nat : Tells(w, r, n) => Vanished(r)
    /\ \A r \in Records, m, n \in Nat :
         "overlap" \notin flaws[r] /\ Tells(w, r, m) /\ Tells(w, r, n) => m = n

Ends(s, o, r) == \E e \in Notes : Has(s, e) /\ e.id = <<o, r>>
Asks(m, o, r) == m.kind = "prepare" /\ m.op = o /\ r \in m.records
Ending(m, o, r) == m.kind = "publish" /\ Ends(m.events, o, r)

\* What c has on the way ends all that p has prepared or c will prepare.
Closes(c, p, o, r) ==
  /\ \A i \in DOMAIN c : Asks(c[i], o, r) => \E k \in DOMAIN c : i < k /\ Ending(c[k], o, r)
  /\ <<o, r>> \in p => \E k \in DOMAIN c : Ending(c[k], o, r)

PrepInv ==
  \A w \in Remotes, o \in Ops, r \in Records :
    flaws[r] \cap {"overlap", "refused"} = {} /\ ~Keyed(o, r) /\ ~Ends(outbox, o, r) =>
      Closes(chan[w], prepared[w], o, r)

\* w is asked to prepare r for o, and o waits for its answer.
Awaits(w, o, r) ==
  \E s \in SUBSET Records, i \in DOMAIN chan[w] :
    /\ <<w, s>> \in asked[o] /\ r \in s
    /\ chan[w][i] = [kind |-> "prepare", op |-> o, records |-> s]

Hears(w, o, r) ==
  \/ \E i \in DOMAIN got[w] : got[w][i].what = "commit" /\ got[w][i].record = r
  \/ /\ <<o, r>> \in prepared[w]
     /\ Ends(outbox, o, r) \/ \E k \in DOMAIN chan[w] : Ending(chan[w][k], o, r)

HeardOf(o, r) ==
  /\ Keyed(o, r) /\ op[o].pc # "after" => needs[r] \subseteq rows
  /\ \A w \in Remotes : /\ Keyed(o, r) => <<o, r>> \in prepared[w] \/ Awaits(w, o, r)
                        /\ Won(o, r) /\ op[o].pc = "done" => Hears(w, o, r)

HeardInv ==
  \A o \in Ops, r \in Records : flaws[r] \subseteq {"hidden here"} => HeardOf(o, r)

DeleteInv ==
  /\ Fit /\ StoreTyped /\ WayTyped /\ RuleTyped /\ OpInv /\ KeyInv /\ OrderInv /\ NoteInv
  /\ PrepInv /\ HeardInv

\* What Hook does to the records that it is called for, and to the others.
LEMMA HookTaken ==
  ASSUME StoreTyped, WayTyped, NEW o \in Ops, NEW set \in SUBSET Records,
         Hook(o, set)
  PROVE  /\ cached' \in [Records -> Nat]
         /\ key' \in [Records -> EventIds \union {NoId}]
         /\ asked' \in [Ops -> SUBSET (Remotes \X SUBSET Records)]
         /\ flaws' \in [Records -> SUBSET Flaws] /\ faults' \in Nat
         /\ \A r \in Records \ set :
              key'[r] = key[r] /\ cached'[r] = cached[r] /\ flaws'[r] = flaws[r]
         /\ \A r \in set : /\ key'[r] = <<o, r>> /\ flaws[r] \subseteq flaws'[r]
                           /\ "overlap" \notin flaws'[r] => key[r] = NoId
                           /\ "overlap" \notin flaws'[r] => Deletes(r) \subseteq {o}
                           /\ "hidden here" \notin flaws'[r] => cached'[r] = cached[r] + 1
                           /\ "hidden" \notin flaws'[r] => needs[r] \subseteq rows
         /\ \/ /\ Send([kind |-> "prepare", op |-> o, records |-> set])
               /\ asked' = [asked EXCEPT ![o] = Remotes \X {set}]
            \/ chan' = chan /\ asked' = asked /\ \A r \in set : "refused" \in flaws'[r]
<1>1. PICK more \in [Records -> SUBSET {"refused"}] :
        /\ flaws' = [r \in Records |->
                       IF r \in set THEN flaws[r] \union (Begun(o, r) \union more[r])
                       ELSE flaws[r]]
        /\ faults' \in Nat
        /\ \/ /\ Send([kind |-> "prepare", op |-> o, records |-> set])
              /\ asked' = [asked EXCEPT ![o] = Remotes \X {set}]
           \/ chan' = chan /\ asked' = asked /\ \A r \in set : more[r] = {"refused"}
  <2>1. CASE /\ Send([kind |-> "prepare", op |-> o, records |-> set])
             /\ asked' = [asked EXCEPT ![o] = Remotes \X {set}]
             /\ flaws' = Met(set, LAMBDA r : Begun(o, r)) /\ UNCHANGED faults
    <3>1. WITNESS [r \in Records |-> {}] \in [Records -> SUBSET {"refused"}]
    <3>2. QED
      BY <2>1 DEF Met, StoreTyped
  <2>2. CASE /\ Fault
             /\ flaws' = Met(set, LAMBDA r : Begun(o, r) \union {"refused"})
             /\ UNCHANGED <<chan, asked>>
    <3>1. WITNESS [r \in Records |-> {"refused"}]
                    \in [Records -> SUBSET {"refused"}]
    <3>2. QED
      BY <2>2 DEF Met, Fault, StoreTyped
  <2>3. QED
    BY <2>1, <2>2 DEF Hook
<1>2. /\ cached' = [r \in Records |->
                      IF r \in set /\ Visible(r, Seen(o, r)) THEN cached[r] + 1
                      ELSE cached[r]]
      /\ key' = [r \in Records |-> IF r \in set THEN <<o, r>> ELSE key[r]]
  BY DEF Hook
<1>3. /\ cached' \in [Records -> Nat]
      /\ key' \in [Records -> EventIds \union {NoId}]
  BY <1>2 DEF StoreTyped, EventIds
<1>4. asked' \in [Ops -> SUBSET (Remotes \X SUBSET Records)]
  BY <1>1 DEF StoreTyped
<1>5. \A r \in Records : Begun(o, r) \subseteq Flaws
  BY DEF Begun, Flaws
<1>6. flaws' \in [Records -> SUBSET Flaws]
  <2>1. "refused" \in Flaws
    BY DEF Flaws
  <2>2. QED
    BY <1>1, <1>5, <2>1 DEF StoreTyped
<1>7. \A r \in Records \ set :
        key'[r] = key[r] /\ cached'[r] = cached[r] /\ flaws'[r] = flaws[r]
  BY <1>1, <1>2
<1>8. ASSUME NEW r \in set
      PROVE  /\ key'[r] = <<o, r>> /\ flaws[r] \subseteq flaws'[r]
             /\ "overlap" \notin flaws'[r] => key[r] = NoId
             /\ "overlap" \notin flaws'[r] => Deletes(r) \subseteq {o}
             /\ "hidden here" \notin flaws'[r] => cached'[r] = cached[r] + 1
             /\ "hidden" \notin flaws'[r] => needs[r] \subseteq rows
  <2>1. flaws[r] \subseteq flaws'[r] /\ Begun(o, r) \subseteq flaws'[r]
    BY <1>1
  <2>2. key[r] # NoId \/ Deletes(r) \ {o} # {} => "overlap" \in flaws'[r]
    BY <2>1 DEF Begun
  <2>3. ~Visible(r, rows) => "hidden" \in flaws'[r]
    BY <2>1 DEF Begun
  <2>4. ~Visible(r, Seen(o, r)) => "hidden here" \in flaws'[r]
    BY <2>1 DEF Begun
  <2>5. Visible(r, Seen(o, r)) => cached'[r] = cached[r] + 1
    BY <1>2
  <2>6. key'[r] = <<o, r>>
    BY <1>2
  <2>7. Visible(r, rows) => needs[r] \subseteq rows
    BY DEF Visible
  <2>8. QED
    BY <2>1, <2>2, <2>3, <2>4, <2>5, <2>6, <2>7
<1>9. \/ /\ Send([kind |-> "prepare", op |-> o, records |-> set])
         /\ asked' = [asked EXCEPT ![o] = Remotes \X {set}]
      \/ chan' = chan /\ asked' = asked /\ \A r \in set : "refused" \in flaws'[r]
  BY <1>1
<1>10. QED
  BY <1>1, <1>3, <1>4, <1>6, <1>7, <1>8, <1>9

\* An operation moves; the others have of each record what they had.
LEMMA OthersStay ==
  ASSUME NEW o \in Ops, \A q \in Ops \ {o} : op'[q] = op[q],
         NEW q \in Ops \ {o}, NEW r
  PROVE  /\ Keyed(q, r)' <=> Keyed(q, r)
         /\ Takes(q, r)' <=> Takes(q, r)
         /\ Won(q, r)' <=> Won(q, r)
         /\ Over(q)' = Over(q)
BY DEF Keyed, Takes, Won, Over, Deletes

\* Nothing changes for one record.
LEMMA KeyStays ==
  ASSUME NEW r \in Records, KeyOf(r), r \in rows' <=> r \in rows,
         key'[r] = key[r], cached'[r] = cached[r], told'[r] = told[r],
         flaws[r] \subseteq flaws'[r],
         \A q \in Ops : /\ Keyed(q, r)' <=> Keyed(q, r)
                        /\ Takes(q, r)' => Takes(q, r)
                        /\ Won(q, r)' <=> Won(q, r)
                        /\ Won(q, r) => (op'[q].pc = "done" <=> op[q].pc = "done")
  PROVE  KeyOf(r)'
<1>1. Sole(r) => Sole(r)'
  BY DEF Sole
<1>2. QED
  BY <1>1 DEF KeyOf

\* What OpInv says of the operations that have r.
LEMMA OpFacts ==
  ASSUME StoreTyped, OpInv, NEW o \in Ops, NEW r \in Records
  PROVE  /\ Keyed(o, r) => o \in Deletes(r) /\ r \in Over(o)
         /\ Keyed(o, r) => op[o].pc \in {"asking", "turn", "open", "after"}
         /\ Won(o, r) => r \notin rows /\ op[o].pc \in {"after", "done"}
         /\ op[o].pc \in {"idle", "asking", "turn"} => Over(o) = {op[o].record}
         /\ op[o].pc = "after" /\ r \in Over(o) => Keyed(o, r)
<1>1. OpOf(o) /\ op[o] \in Doings
  BY DEF OpInv, StoreTyped
<1>2. QED
  BY <1>1 DEF OpOf, Keyed, Won, Over, Deletes, Doings

LEMMA StartPlainKeys ==
  ASSUME StoreTyped, WayTyped, OpInv, KeyInv, NEW o \in Ops, NEW r \in Records,
         StartPlain(o, r)
  PROVE  StoreTyped' /\ OpInv' /\ KeyInv'
<1>1. /\ op[o].pc = "idle" /\ r \in rows /\ holder' = holder /\ rows' = rows /\ told' = told
      /\ op' = [op EXCEPT ![o].kind = "plain", ![o].record = r, ![o].pc = "asking"]
  BY DEF StartPlain, Starts
<1>2. op[o] \in Doings /\ OpOf(o) /\ op[o].inTx = {} /\ ~op[o].ok /\ asked[o] = {}
  BY <1>1 DEF StoreTyped, OpInv, OpOf
<1>3. /\ op' \in [Ops -> Doings] /\ \A q \in Ops \ {o} : op'[q] = op[q]
      /\ op'[o].kind = "plain" /\ op'[o].record = r /\ op'[o].pc = "asking"
      /\ op'[o].inTx = {} /\ ~op'[o].ok
  BY <1>1, <1>2 DEF StoreTyped, Doings
<1>4. PICK set \in SUBSET Records : set = {r}
  OBVIOUS
<1>5. Hook(o, set)
  BY <1>4 DEF StartPlain
<1>6. StoreTyped'
  BY <1>1, <1>3, <1>5, HookTaken DEF StoreTyped
<1>7. /\ key'[r] = <<o, r>> /\ flaws[r] \subseteq flaws'[r]
      /\ "overlap" \notin flaws'[r] => Deletes(r) \subseteq {o}
      /\ "hidden here" \notin flaws'[r] => cached'[r] = cached[r] + 1
  BY <1>4, <1>5, HookTaken
<1>8. \A x \in Records \ {r} :
        key'[x] = key[x] /\ cached'[x] = cached[x] /\ flaws'[x] = flaws[x]
  BY <1>4, <1>5, HookTaken
<1>9. asked'[o] \subseteq Remotes \X {set} /\ \A q \in Ops \ {o} : asked'[q] = asked[q]
  <2>1. asked' = [asked EXCEPT ![o] = Remotes \X {set}] \/ asked' = asked
    BY <1>5, HookTaken
  <2>2. QED
    BY <1>2, <2>1 DEF StoreTyped
<1>10. OpInv'
  <2>1. OpOf(o)'
    <3>1. \A a \in asked'[o] : a[2] = {r}
      BY <1>4, <1>9
    <3>2. holder' # o
      BY <1>1, <1>2 DEF OpOf
    <3>3. QED
      BY <1>3, <3>1, <3>2 DEF OpOf
  <2>2. ASSUME NEW q \in Ops \ {o} PROVE OpOf(q)'
    <3>1. OpOf(q) /\ op'[q] = op[q] /\ asked'[q] = asked[q] /\ holder' = holder /\ rows' = rows
      BY <1>1, <1>3, <1>9 DEF OpInv
    <3>2. QED
      BY <3>1 DEF OpOf, Over
  <2>3. QED
    BY <2>1, <2>2 DEF OpInv
<1>11. \A x \in Records : ~Keyed(o, x) /\ ~Won(o, x) /\ ~Takes(o, x)
  BY <1>1, <1>2 DEF Keyed, Won, Takes, Deletes
<1>12. \A x \in Records : (Keyed(o, x)' <=> x = r) /\ ~Won(o, x)' /\ (Takes(o, x)' <=> x = r)
  BY <1>3 DEF Keyed, Won, Takes, Over, Deletes
<1>13. ASSUME NEW x \in Records \ {r} PROVE KeyOf(x)'
  <2>1. KeyOf(x)
    BY DEF KeyInv
  <2>2. ASSUME NEW q \in Ops
        PROVE  /\ (Keyed(q, x)' <=> Keyed(q, x)) /\ (Takes(q, x)' => Takes(q, x))
               /\ (Won(q, x)' <=> Won(q, x))
               /\ Won(q, x) => (op'[q].pc = "done" <=> op[q].pc = "done")
    <3>1. CASE q = o
      BY <3>1, <1>11, <1>12
    <3>2. CASE q # o
      BY <3>2, <1>3, OthersStay
    <3>3. QED
      BY <3>1, <3>2
  <2>3. QED
    BY <1>1, <1>8, <2>1, <2>2, KeyStays
<1>14. KeyOf(r)'
  <2>1. KeyOf(r)
    BY DEF KeyInv
  <2>2. \A q \in Ops : ~Won(q, r)
    BY <1>1, OpFacts
  <2>3. \A q \in Ops : ~Won(q, r)'
    BY <1>3, <1>12, <2>2, OthersStay
  <2>4. ASSUME "overlap" \notin flaws'[r] PROVE Sole(r)'
    <3>1. \A q \in Ops : q \in Deletes(r) => q = o
      BY <1>7, <2>4
    <3>2. \A q \in Ops \ {o} : ~Takes(q, r) /\ ~Keyed(q, r)
      BY <2>2, <3>1, OpFacts DEF Takes
    <3>3. \A q \in Ops : (Takes(q, r)' => q = o) /\ (Keyed(q, r)' => q = o)
      BY <1>3, <3>2, OthersStay
    <3>4. \A q \in Ops : ~Keyed(q, r)
      BY <1>11, <3>2
    <3>5. cached[r] = 0
      BY <2>1, <3>4 DEF KeyOf
    <3>6. ASSUME "hidden here" \notin flaws'[r] PROVE cached'[r] = 1
      <4>1. cached'[r] = cached[r] + 1
        BY <1>7, <3>6
      <4>2. QED
        BY <3>5, <4>1
    <3>7. QED
      BY <1>1, <1>7, <2>3, <3>3, <3>6 DEF Sole
  <2>5. Keyed(o, r)'
    BY <1>12
  <2>6. told'[r] > 0 => r \notin rows'
    BY <1>1, <2>1 DEF KeyOf
  <2>7. QED
    BY <1>7, <2>4, <2>5, <2>6 DEF KeyOf
<1>15. QED
  BY <1>6, <1>10, <1>13, <1>14 DEF KeyInv

\* An operation moves, and with it nothing of what the store has of any record.
LEMMA MoveKeys ==
  ASSUME OpInv, KeyInv, NEW o \in Ops, \A q \in Ops \ {o} : op'[q] = op[q] /\ asked'[q] = asked[q],
         OpOf(o)', rows' = rows, key' = key, cached' = cached, told' = told,
         \A r \in Records : flaws[r] \subseteq flaws'[r],
         \A q \in Ops \ {o} : holder' = q <=> holder = q,
         \A r \in Records : /\ Keyed(o, r)' <=> Keyed(o, r)
                            /\ Takes(o, r)' => Takes(o, r)
                            /\ ~Won(o, r)' /\ ~Won(o, r)
  PROVE  OpInv' /\ KeyInv'
<1>1. OpInv'
  <2>1. ASSUME NEW q \in Ops \ {o} PROVE OpOf(q)'
    <3>1. /\ OpOf(q) /\ op'[q] = op[q] /\ asked'[q] = asked[q] /\ (holder' = q <=> holder = q)
          /\ Over(q)' = Over(q)
      BY DEF OpInv, Over
    <3>2. QED
      BY <3>1 DEF OpOf
  <2>2. QED
    BY <2>1 DEF OpInv
<1>2. ASSUME NEW r \in Records PROVE KeyOf(r)'
  <2>1. KeyOf(r)
    BY DEF KeyInv
  <2>2. ASSUME NEW q \in Ops
        PROVE  /\ (Keyed(q, r)' <=> Keyed(q, r)) /\ (Takes(q, r)' => Takes(q, r))
               /\ (Won(q, r)' <=> Won(q, r))
               /\ Won(q, r) => (op'[q].pc = "done" <=> op[q].pc = "done")
    <3>1. CASE q = o
      BY <3>1
    <3>2. CASE q # o
      BY <3>2, OthersStay
    <3>3. QED
      BY <3>1, <3>2
  <2>3. QED
    BY <2>1, <2>2, KeyStays
<1>3. QED
  BY <1>1, <1>2 DEF KeyInv

LEMMA StartTxKeys ==
  ASSUME StoreTyped, OpInv, KeyInv, NEW o \in Ops, NEW r \in Records,
         StartTx(o, r)
  PROVE  StoreTyped' /\ OpInv' /\ KeyInv'
<1>1. /\ op[o].pc = "idle" /\ r \in rows
      /\ op' = [op EXCEPT ![o].kind = "tx", ![o].record = r, ![o].pc = "turn"]
  BY DEF StartTx, Starts
<1>2. /\ holder' = holder /\ rows' = rows /\ told' = told /\ key' = key /\ cached' = cached
      /\ asked' = asked /\ faults' = faults
  BY DEF StartTx
<1>3. flaws' = [q \in Records |->
                  IF q \in {r} THEN flaws[q] \union (IF Deletes(q) # {} THEN {"overlap"} ELSE {})
                  ELSE flaws[q]]
  BY DEF StartTx, Met
<1>4. op[o] \in Doings /\ OpOf(o) /\ op[o].inTx = {} /\ ~op[o].ok /\ asked[o] = {}
  BY <1>1 DEF StoreTyped, OpInv, OpOf
<1>5. /\ op' \in [Ops -> Doings] /\ \A q \in Ops \ {o} : op'[q] = op[q]
      /\ op'[o].kind = "tx" /\ op'[o].record = r /\ op'[o].pc = "turn"
      /\ op'[o].inTx = {} /\ ~op'[o].ok
  BY <1>1, <1>4 DEF StoreTyped, Doings
<1>6. flaws' \in [Records -> SUBSET Flaws]
  BY <1>3 DEF StoreTyped, Flaws
<1>7. StoreTyped'
  BY <1>2, <1>5, <1>6 DEF StoreTyped
<1>8. OpInv'
  <2>1. OpOf(o)'
    <3>1. holder' # o
      BY <1>1, <1>2, <1>4 DEF OpOf
    <3>2. asked'[o] = {}
      BY <1>2, <1>4
    <3>3. QED
      BY <1>5, <3>1, <3>2 DEF OpOf
  <2>2. ASSUME NEW q \in Ops \ {o} PROVE OpOf(q)'
    <3>1. OpOf(q) /\ op'[q] = op[q] /\ asked'[q] = asked[q] /\ holder' = holder /\ rows' = rows
      BY <1>2, <1>5 DEF OpInv
    <3>2. QED
      BY <3>1 DEF OpOf, Over
  <2>3. QED
    BY <2>1, <2>2 DEF OpInv
<1>9. \A x \in Records : ~Keyed(o, x) /\ ~Won(o, x) /\ ~Keyed(o, x)' /\ ~Won(o, x)'
  BY <1>1, <1>4, <1>5 DEF Keyed, Won
<1>10. \A x \in Records \ {r} : ~Takes(o, x)'
  BY <1>5 DEF Won, Takes, Over, Deletes
<1>11. ASSUME NEW x \in Records, x # r \/ "overlap" \in flaws'[x] PROVE KeyOf(x)'
  <2>1. KeyOf(x)
    BY DEF KeyInv
  <2>2. flaws[x] \subseteq flaws'[x]
    BY <1>3
  <2>3. \A q \in Ops : /\ (Keyed(q, x)' <=> Keyed(q, x)) /\ (Won(q, x)' <=> Won(q, x))
                       /\ Won(q, x) => (op'[q].pc = "done" <=> op[q].pc = "done")
    BY <1>5, <1>9, OthersStay
  <2>4. CASE x # r
    <3>1. \A q \in Ops : Takes(q, x)' => Takes(q, x)
      BY <1>5, <1>10, <2>4, OthersStay
    <3>2. QED
      BY <1>2, <2>1, <2>2, <2>3, <3>1, KeyStays
  <2>5. CASE "overlap" \in flaws'[x]
    BY <1>2, <2>1, <2>3, <2>5 DEF KeyOf
  <2>6. QED
    BY <1>11, <2>4, <2>5
<1>12. ASSUME "overlap" \notin flaws'[r] PROVE KeyOf(r)'
  <2>1. KeyOf(r) /\ flaws[r] \subseteq flaws'[r]
    BY <1>3 DEF KeyInv
  <2>2. Deletes(r) = {}
    BY <1>3, <1>12
  <2>3. \A q \in Ops : ~Won(q, r)
    BY <1>1, <1>7, OpFacts
  <2>4. \A q \in Ops : ~Won(q, r)'
    BY <1>5, <1>9, <2>3, OthersStay
  <2>5. \A q \in Ops \ {o} : ~Takes(q, r)
    BY <2>2, <2>3 DEF Takes
  <2>6. \A q \in Ops : Takes(q, r)' => q = o
    BY <1>5, <2>5, OthersStay
  <2>7. \A q \in Ops : ~Keyed(q, r)
    BY <2>2, OpFacts
  <2>8. \A q \in Ops : ~Keyed(q, r)'
    BY <1>5, <1>9, <2>7, OthersStay
  <2>9. Sole(r)'
    BY <1>1, <1>2, <2>4, <2>6, <2>8 DEF Sole
  <2>10. key[r] = NoId /\ cached[r] = 0
    BY <2>1, <2>7 DEF KeyOf
  <2>11. told'[r] > 0 => r \notin rows'
    BY <1>2, <2>1 DEF KeyOf
  <2>12. QED
    BY <1>2, <2>9, <2>10, <2>11 DEF KeyOf
<1>13. QED
  BY <1>7, <1>8, <1>11, <1>12 DEF KeyInv

\* A preparation is answered, or late: nothing changes but that.
LEMMA SettledFacts ==
  ASSUME StoreTyped, NEW o \in Ops, Settled(o)
  PROVE  /\ asked' \in [Ops -> SUBSET (Remotes \X SUBSET Records)]
         /\ asked'[o] = {} /\ \A q \in Ops \ {o} : asked'[q] = asked[q]
         /\ faults' \in Nat /\ (asked[o] = {} \/ Late = {"late"})
         /\ Late \subseteq {"late"}
<1>1. CASE asked[o] = {} /\ UNCHANGED <<asked, faults>>
  BY <1>1 DEF StoreTyped, Late
<1>2. CASE asked' = [asked EXCEPT ![o] = {}] /\ Fault
  <2>1. faults' # faults /\ faults' \in Nat
    BY <1>2 DEF Fault, StoreTyped
  <2>2. QED
    BY <1>2, <2>1 DEF StoreTyped, Late
<1>3. QED
  BY <1>1, <1>2 DEF Settled

LEMMA LateFlaws ==
  ASSUME StoreTyped, NEW set \in SUBSET Records, Late \subseteq {"late"},
         flaws' = Met(set, LAMBDA r : Late)
  PROVE  /\ flaws' \in [Records -> SUBSET Flaws]
         /\ \A r \in Records : flaws[r] \subseteq flaws'[r]
                               /\ flaws'[r] \subseteq flaws[r] \union {"late"}
         /\ \A r \in Records \ set : flaws'[r] = flaws[r]
         /\ \A r \in set : Late \subseteq flaws'[r]
<1>1. flaws' = [r \in Records |-> IF r \in set THEN flaws[r] \union Late ELSE flaws[r]]
  BY DEF Met
<1>2. "late" \in Flaws
  BY DEF Flaws
<1>3. QED
  BY <1>1, <1>2 DEF StoreTyped

LEMMA PlainPreparedKeys ==
  ASSUME StoreTyped, OpInv, KeyInv, NEW o \in Ops, PlainPrepared(o)
  PROVE  StoreTyped' /\ OpInv' /\ KeyInv'
<1>1. /\ op[o].pc = "asking" /\ op' = [op EXCEPT ![o].pc = "turn"] /\ Settled(o)
      /\ holder' = holder /\ rows' = rows /\ told' = told /\ key' = key /\ cached' = cached
  BY DEF PlainPrepared
<1>2. op[o] \in Doings /\ OpOf(o)
  BY DEF StoreTyped, OpInv
<1>3. op[o].kind = "plain" /\ op[o].inTx = {} /\ ~op[o].ok
  BY <1>1, <1>2 DEF OpOf, Doings
<1>4. /\ op' \in [Ops -> Doings] /\ \A q \in Ops \ {o} : op'[q] = op[q]
      /\ op'[o].kind = "plain" /\ op'[o].record = op[o].record /\ op'[o].pc = "turn"
      /\ op'[o].inTx = {} /\ ~op'[o].ok
  BY <1>1, <1>2, <1>3 DEF StoreTyped, Doings
<1>5. PICK set \in SUBSET Records : set = {op[o].record}
  BY <1>2 DEF Doings
<1>6. flaws' = Met(set, LAMBDA r : Late)
  BY <1>5 DEF PlainPrepared
<1>7. /\ flaws' \in [Records -> SUBSET Flaws]
      /\ \A r \in Records : flaws[r] \subseteq flaws'[r]
  BY <1>1, <1>6, SettledFacts, LateFlaws
<1>8. StoreTyped'
  BY <1>1, <1>4, <1>7, SettledFacts DEF StoreTyped
<1>9. asked'[o] = {} /\ \A q \in Ops \ {o} : asked'[q] = asked[q]
  BY <1>1, SettledFacts
<1>10. holder # o
  BY <1>1, <1>2 DEF OpOf
<1>11. OpOf(o)'
  BY <1>1, <1>4, <1>9, <1>10 DEF OpOf
<1>12. \A r \in Records : /\ Keyed(o, r)' <=> Keyed(o, r)
                          /\ Takes(o, r)' => Takes(o, r)
                          /\ ~Won(o, r)' /\ ~Won(o, r)
  BY <1>1, <1>3, <1>4 DEF Keyed, Takes, Won, Over, Deletes
<1>13. OpInv' /\ KeyInv'
  BY <1>1, <1>4, <1>7, <1>9, <1>11, <1>12, MoveKeys
<1>14. QED
  BY <1>8, <1>13

LEMMA FailTxKeys ==
  ASSUME StoreTyped, OpInv, KeyInv, NEW o \in Ops, FailTx(o)
  PROVE  StoreTyped' /\ OpInv' /\ KeyInv'
<1>1. /\ op[o].pc = "turn" /\ op[o].kind = "plain" /\ op' = [op EXCEPT ![o].pc = "after"]
      /\ holder' = holder /\ rows' = rows /\ told' = told /\ key' = key /\ cached' = cached
      /\ asked' = asked /\ flaws' = flaws /\ faults' = faults
  BY DEF FailTx
<1>2. op[o] \in Doings /\ OpOf(o)
  BY DEF StoreTyped, OpInv
<1>3. op[o].inTx = {} /\ ~op[o].ok /\ asked[o] = {}
  BY <1>1, <1>2 DEF OpOf
<1>4. /\ op' \in [Ops -> Doings] /\ \A q \in Ops \ {o} : op'[q] = op[q]
      /\ op'[o].kind = "plain" /\ op'[o].record = op[o].record /\ op'[o].pc = "after"
      /\ op'[o].inTx = {} /\ ~op'[o].ok
  BY <1>1, <1>2, <1>3 DEF StoreTyped, Doings
<1>5. StoreTyped'
  BY <1>1, <1>4 DEF StoreTyped
<1>6. holder # o
  BY <1>1, <1>2 DEF OpOf
<1>7. OpOf(o)'
  BY <1>1, <1>3, <1>4, <1>6 DEF OpOf
<1>8. \A r \in Records : /\ Keyed(o, r)' <=> Keyed(o, r)
                         /\ Takes(o, r)' => Takes(o, r)
                         /\ ~Won(o, r)' /\ ~Won(o, r)
  BY <1>1, <1>3, <1>4 DEF Keyed, Takes, Won, Over, Deletes
<1>9. OpInv' /\ KeyInv'
  BY <1>1, <1>4, <1>7, <1>8, MoveKeys
<1>10. QED
  BY <1>5, <1>9

LEMMA SaveKeys ==
  ASSUME StoreTyped, OpInv, KeyInv, NEW o \in Ops, NEW r \in Records, Save(o, r)
  PROVE  StoreTyped' /\ OpInv' /\ KeyInv'
<1>1. /\ op[o].pc = "idle"
      /\ op' = [op EXCEPT ![o].kind = "update", ![o].record = r, ![o].pc = "done"]
      /\ holder' = holder /\ rows' = rows /\ told' = told /\ key' = key /\ cached' = cached
      /\ asked' = asked /\ flaws' = flaws /\ faults' = faults
  BY DEF Save, Starts
<1>2. op[o] \in Doings /\ OpOf(o)
  BY DEF StoreTyped, OpInv
<1>3. op[o].inTx = {} /\ ~op[o].ok /\ asked[o] = {}
  BY <1>1, <1>2 DEF OpOf
<1>4. /\ op' \in [Ops -> Doings] /\ \A q \in Ops \ {o} : op'[q] = op[q]
      /\ op'[o].kind = "update" /\ op'[o].record = r /\ op'[o].pc = "done"
      /\ op'[o].inTx = {} /\ ~op'[o].ok
  BY <1>1, <1>2, <1>3 DEF StoreTyped, Doings
<1>5. StoreTyped'
  BY <1>1, <1>4 DEF StoreTyped
<1>6. holder # o
  BY <1>1, <1>2 DEF OpOf
<1>7. OpOf(o)'
  BY <1>1, <1>3, <1>4, <1>6 DEF OpOf
<1>8. \A x \in Records : /\ Keyed(o, x)' <=> Keyed(o, x)
                         /\ Takes(o, x)' => Takes(o, x)
                         /\ ~Won(o, x)' /\ ~Won(o, x)
  BY <1>1, <1>3, <1>4 DEF Keyed, Takes, Won, Over, Deletes
<1>9. OpInv' /\ KeyInv'
  BY <1>1, <1>4, <1>7, <1>8, MoveKeys
<1>10. QED
  BY <1>5, <1>9

\* The operations stay as they are.
LEMMA WayKeys ==
  ASSUME StoreTyped, OpInv, KeyInv, op' = op, holder' = holder, rows' = rows, told' = told,
         key' = key, cached' = cached, asked' \in [Ops -> SUBSET (Remotes \X SUBSET Records)],
         \A o \in Ops : asked'[o] \subseteq asked[o], faults' \in Nat,
         flaws' \in [Records -> SUBSET Flaws],
         \A r \in Records : flaws[r] \subseteq flaws'[r]
  PROVE  StoreTyped' /\ OpInv' /\ KeyInv'
<1>1. StoreTyped'
  BY DEF StoreTyped
<1>2. ASSUME NEW o \in Ops PROVE OpOf(o)'
  BY DEF OpInv, OpOf, Over
<1>3. ASSUME NEW r \in Records PROVE KeyOf(r)'
  <2>1. KeyOf(r)
    BY DEF KeyInv
  <2>2. \A q \in Ops : /\ (Keyed(q, r)' <=> Keyed(q, r)) /\ (Takes(q, r)' => Takes(q, r))
                       /\ (Won(q, r)' <=> Won(q, r))
    BY DEF Keyed, Takes, Won, Over, Deletes
  <2>3. QED
    BY <2>1, <2>2, KeyStays
<1>4. QED
  BY <1>1, <1>2, <1>3 DEF OpInv, KeyInv

\* The records that the transaction of o hooks, when it opens.
LEMMA InTxFacts ==
  ASSUME Fit, StoreTyped, OpInv, NEW o \in Ops, op[o].pc = "turn"
  PROVE  /\ InTx(o) \in SUBSET Records
         /\ \A r \in InTx(o) : ~Keyed(o, r)
         /\ \A r \in InTx(o) : r \in rows \/ (op[o].kind = "tx" /\ r = op[o].record)
         /\ InTx(o) \subseteq {op[o].record, Child}
         /\ op[o].kind = "tx" => op[o].record \in InTx(o)
         /\ op[o].kind = "plain" => op[o].record \notin InTx(o)
         /\ op[o].record = Parent /\ Child \in rows => Child \in InTx(o)
         /\ op[o].kind \in {"plain", "tx"} /\ op[o].inTx = {} /\ ~op[o].ok /\ asked[o] = {}
<1>1. op[o] \in Doings /\ OpOf(o) /\ Parent # Child
  BY DEF Fit, StoreTyped, OpInv
<1>2. op[o].kind \in {"plain", "tx"} /\ op[o].inTx = {} /\ ~op[o].ok /\ asked[o] = {}
  BY <1>1 DEF OpOf, Doings
<1>3. op[o].record \in {Parent, Child} /\ {Parent, Child} = Records
  BY <1>1 DEF Doings, Records
<1>4. QED
  BY <1>1, <1>2, <1>3 DEF InTx, Keyed

LEMMA OpenTxKeys ==
  ASSUME Fit, StoreTyped, WayTyped, OpInv, KeyInv, NEW o \in Ops, OpenTx(o)
  PROVE  StoreTyped' /\ OpInv' /\ KeyInv'
<1>1. PICK set : set = InTx(o)
  OBVIOUS
<1>2. /\ op[o].pc = "turn" /\ holder = 0 /\ holder' = o /\ rows' = rows /\ told' = told
      /\ op' = [op EXCEPT ![o].pc = "open", ![o].inTx = set]
  BY <1>1 DEF OpenTx
<1>3. op[o] \in Doings /\ OpOf(o) /\ set \in SUBSET Records
  BY <1>1, <1>2, InTxFacts DEF StoreTyped, OpInv
<1>4. /\ op[o].kind \in {"plain", "tx"} /\ op[o].inTx = {} /\ ~op[o].ok /\ asked[o] = {}
      /\ set \subseteq {op[o].record, Child}
      /\ op[o].kind = "tx" => op[o].record \in set
      /\ op[o].kind = "plain" => op[o].record \notin set
      /\ op[o].record = Parent /\ Child \in rows => Child \in set
  BY <1>1, <1>2, InTxFacts
<1>5. /\ op' \in [Ops -> Doings] /\ \A q \in Ops \ {o} : op'[q] = op[q]
      /\ op'[o].kind = op[o].kind /\ op'[o].record = op[o].record /\ op'[o].pc = "open"
      /\ op'[o].inTx = set /\ ~op'[o].ok
  BY <1>2, <1>3, <1>4 DEF StoreTyped, Doings
<1>6. /\ StoreTyped'
      /\ \A r \in Records \ set :
           key'[r] = key[r] /\ cached'[r] = cached[r] /\ flaws'[r] = flaws[r]
      /\ \A r \in set : /\ key'[r] = <<o, r>> /\ flaws[r] \subseteq flaws'[r]
                        /\ "overlap" \notin flaws'[r] => Deletes(r) \subseteq {o}
                        /\ "hidden here" \notin flaws'[r] => cached'[r] = cached[r] + 1
      /\ asked' = [asked EXCEPT ![o] = Remotes \X {set}] \/ asked' = asked
  <2>1. CASE set = {}
    <3>1. UNCHANGED <<cached, key, chan, asked, flaws, faults>>
      BY <1>1, <2>1 DEF OpenTx
    <3>2. QED
      BY <1>2, <1>5, <2>1, <3>1 DEF StoreTyped
  <2>2. CASE set # {}
    <3>1. Hook(o, set)
      BY <1>1, <2>2 DEF OpenTx
    <3>2. StoreTyped'
      BY <1>2, <1>3, <1>5, <3>1, HookTaken DEF StoreTyped
    <3>3. /\ \A r \in Records \ set :
               key'[r] = key[r] /\ cached'[r] = cached[r] /\ flaws'[r] = flaws[r]
          /\ \A r \in set : /\ key'[r] = <<o, r>> /\ flaws[r] \subseteq flaws'[r]
                            /\ "overlap" \notin flaws'[r] => Deletes(r) \subseteq {o}
                            /\ "hidden here" \notin flaws'[r] => cached'[r] = cached[r] + 1
      BY <1>3, <3>1, HookTaken
    <3>4. asked' = [asked EXCEPT ![o] = Remotes \X {set}] \/ asked' = asked
      BY <1>3, <3>1, HookTaken
    <3>5. QED
      BY <3>2, <3>3, <3>4
  <2>3. QED
    BY <2>1, <2>2
<1>7. asked'[o] \subseteq Remotes \X {set} /\ \A q \in Ops \ {o} : asked'[q] = asked[q]
  BY <1>4, <1>6 DEF StoreTyped
<1>8. OpInv'
  <2>1. OpOf(o)'
    <3>1. \A a \in asked'[o] : a[2] = set
      BY <1>7
    <3>2. QED
      BY <1>2, <1>4, <1>5, <3>1 DEF OpOf
  <2>2. ASSUME NEW q \in Ops \ {o} PROVE OpOf(q)'
    <3>1. OpOf(q) /\ op'[q] = op[q] /\ asked'[q] = asked[q] /\ rows' = rows
      BY <1>2, <1>5, <1>7 DEF OpInv
    <3>2. op[q].pc # "open" /\ holder' # q
      <4>1. q # 0
        BY DEF Fit
      <4>2. QED
        BY <1>2, <3>1, <4>1 DEF OpOf
    <3>3. QED
      BY <3>1, <3>2 DEF OpOf, Over
  <2>3. QED
    BY <2>1, <2>2 DEF OpInv
<1>9. \A x \in Records : ~Won(o, x) /\ ~Won(o, x)'
  BY <1>4, <1>5 DEF Won
<1>10. \A x \in Records \ set : (Keyed(o, x)' <=> Keyed(o, x)) /\ (Takes(o, x)' => Takes(o, x))
  <2>1. TAKE x \in Records \ set
  <2>2. Keyed(o, x)' <=> Keyed(o, x)
    BY <1>2, <1>4, <1>5 DEF Keyed
  <2>3. Takes(o, x)' => Takes(o, x)
    BY <1>2, <1>4, <1>5, <1>9 DEF Takes, Deletes
  <2>4. QED
    BY <2>2, <2>3
<1>11. ASSUME NEW x \in Records \ set PROVE KeyOf(x)'
  <2>1. KeyOf(x)
    BY DEF KeyInv
  <2>2. ASSUME NEW q \in Ops
        PROVE  /\ (Keyed(q, x)' <=> Keyed(q, x)) /\ (Takes(q, x)' => Takes(q, x))
               /\ (Won(q, x)' <=> Won(q, x))
               /\ Won(q, x) => (op'[q].pc = "done" <=> op[q].pc = "done")
    <3>1. CASE q = o
      BY <3>1, <1>9, <1>10
    <3>2. CASE q # o
      BY <3>2, <1>5, OthersStay
    <3>3. QED
      BY <3>1, <3>2
  <2>3. QED
    BY <1>2, <1>6, <2>1, <2>2, KeyStays
<1>12. ASSUME NEW x \in set PROVE KeyOf(x)'
  <2>1. KeyOf(x) /\ x \in Records
    BY <1>3 DEF KeyInv
  <2>2. /\ key'[x] = <<o, x>> /\ flaws[x] \subseteq flaws'[x]
        /\ "overlap" \notin flaws'[x] => Deletes(x) \subseteq {o}
        /\ "hidden here" \notin flaws'[x] => cached'[x] = cached[x] + 1
    BY <1>6
  <2>3. Keyed(o, x)' /\ ~Keyed(o, x)
    <3>1. Keyed(o, x)'
      BY <1>5 DEF Keyed
    <3>2. QED
      BY <1>1, <1>2, <3>1, InTxFacts
  <2>4. told'[x] > 0 => x \notin rows'
    BY <1>2, <2>1 DEF KeyOf
  <2>5. ASSUME "overlap" \notin flaws'[x] PROVE Sole(x)'
    <3>1. Sole(x) /\ \A q \in Ops : q \in Deletes(x) => q = o
      BY <2>1, <2>2, <2>5 DEF KeyOf
    <3>2. x \in rows
      <4>1. CASE op[o].kind = "tx" /\ x = op[o].record
        <5>1. o \in Deletes(x)
          BY <1>2, <4>1 DEF Deletes
        <5>2. \A q \in Ops : Won(q, x) => q = o
          BY <3>1, <5>1 DEF Sole, Takes
        <5>3. QED
          BY <1>9, <2>1, <3>1, <5>2 DEF Sole
      <4>2. QED
        BY <1>1, <1>2, <4>1, InTxFacts
    <3>3. \A q \in Ops : ~Won(q, x)
      BY <2>1, <3>2, OpFacts
    <3>4. \A q \in Ops : ~Won(q, x)'
      BY <1>5, <1>9, <2>1, <3>3, OthersStay
    <3>5. \A q \in Ops \ {o} : ~Takes(q, x) /\ ~Keyed(q, x)
      BY <2>1, <3>1, <3>3, OpFacts DEF Takes
    <3>6. \A q \in Ops : (Takes(q, x)' => q = o) /\ (Keyed(q, x)' => q = o)
      BY <1>5, <3>5, OthersStay
    <3>7. cached[x] = 0
      BY <2>1, <2>3, <3>5 DEF KeyOf
    <3>8. ASSUME "hidden here" \notin flaws'[x] PROVE cached'[x] = 1
      <4>1. cached'[x] = cached[x] + 1
        BY <2>2, <3>8
      <4>2. QED
        BY <3>7, <4>1
    <3>9. QED
      BY <1>2, <2>2, <3>2, <3>4, <3>6, <3>8 DEF Sole
  <2>6. QED
    BY <2>2, <2>3, <2>4, <2>5 DEF KeyOf
<1>13. QED
  BY <1>3, <1>6, <1>8, <1>11, <1>12 DEF KeyInv

LEMMA CloseTxKeys ==
  ASSUME Fit, StoreTyped, OpInv, KeyInv, NEW o \in Ops, CloseTx(o)
  PROVE  StoreTyped' /\ OpInv' /\ KeyInv'
<1>1. PICK ok \in BOOLEAN : /\ op' = [op EXCEPT ![o].pc = "after", ![o].ok = ok]
                            /\ rows' = IF ok THEN rows \ Over(o) ELSE rows
  BY DEF CloseTx, Over
<1>2. /\ op[o].pc = "open" /\ Settled(o) /\ holder' = 0
      /\ told' = told /\ key' = key /\ cached' = cached
  BY DEF CloseTx
<1>3. op[o] \in Doings /\ OpOf(o) /\ op[o].inTx \in SUBSET Records
  BY DEF StoreTyped, OpInv, Doings
<1>4. /\ op' \in [Ops -> Doings] /\ \A q \in Ops \ {o} : op'[q] = op[q]
      /\ op'[o].kind = op[o].kind /\ op'[o].record = op[o].record /\ op'[o].pc = "after"
      /\ op'[o].inTx = op[o].inTx /\ op'[o].ok = ok
  BY <1>1, <1>3 DEF StoreTyped, Doings
<1>5. flaws' = Met(op[o].inTx, LAMBDA r : Late)
  BY DEF CloseTx
<1>6. /\ flaws' \in [Records -> SUBSET Flaws]
      /\ \A r \in Records : flaws[r] \subseteq flaws'[r]
  BY <1>2, <1>3, <1>5, SettledFacts, LateFlaws
<1>7. asked'[o] = {} /\ \A q \in Ops \ {o} : asked'[q] = asked[q]
  BY <1>2, SettledFacts
<1>8. rows' \subseteq rows
  BY <1>1
<1>9. StoreTyped'
  BY <1>2, <1>4, <1>6, <1>8, SettledFacts DEF StoreTyped
<1>10. Over(o)' = Over(o) /\ ~op[o].ok /\ op[o].kind \in {"plain", "tx"} /\ holder = o
  BY <1>2, <1>3, <1>4 DEF Over, OpOf, Doings
<1>11. OpInv'
  <2>1. OpOf(o)'
    <3>1. holder' # o
      BY <1>2 DEF Fit
    <3>2. ok => Over(o)' \cap rows' = {}
      BY <1>1, <1>10
    <3>3. QED
      BY <1>2, <1>3, <1>4, <1>7, <1>10, <3>1, <3>2 DEF OpOf
  <2>2. ASSUME NEW q \in Ops \ {o} PROVE OpOf(q)'
    <3>1. OpOf(q) /\ op'[q] = op[q] /\ asked'[q] = asked[q] /\ Over(q)' = Over(q)
      BY <1>4, <1>7, OthersStay DEF OpInv
    <3>2. op[q].pc # "open" /\ holder' # q
      <4>1. q # 0
        BY DEF Fit
      <4>2. QED
        BY <1>2, <1>10, <3>1, <4>1 DEF OpOf
    <3>3. op[q].ok => Over(q) \cap rows' = {}
      BY <1>8, <3>1 DEF OpOf
    <3>4. QED
      BY <3>1, <3>2, <3>3 DEF OpOf
  <2>3. QED
    BY <2>1, <2>2 DEF OpInv
<1>12. \A x \in Records : /\ Keyed(o, x)' <=> Keyed(o, x)
                          /\ ~Won(o, x) /\ (Won(o, x)' <=> ok /\ x \in Over(o))
                          /\ o \in Deletes(x) <=> x \in Over(o)
                          /\ Takes(o, x)' => x \in Over(o)
  BY <1>2, <1>4, <1>10 DEF Keyed, Won, Over, Takes, Deletes
<1>13. ASSUME NEW x \in Records, ~ok \/ x \notin Over(o) PROVE KeyOf(x)'
  <2>1. KeyOf(x) /\ (x \in rows' <=> x \in rows)
    BY <1>1, <1>13 DEF KeyInv
  <2>2. ASSUME NEW q \in Ops
        PROVE  /\ (Keyed(q, x)' <=> Keyed(q, x)) /\ (Takes(q, x)' => Takes(q, x))
               /\ (Won(q, x)' <=> Won(q, x))
               /\ Won(q, x) => (op'[q].pc = "done" <=> op[q].pc = "done")
    <3>1. CASE q = o
      BY <3>1, <1>12, <1>13 DEF Takes
    <3>2. CASE q # o
      BY <3>2, <1>4, OthersStay
    <3>3. QED
      BY <3>1, <3>2
  <2>3. QED
    BY <1>2, <1>6, <2>1, <2>2, KeyStays
<1>14. ASSUME ok, NEW x \in Records, x \in Over(o) PROVE KeyOf(x)'
  <2>1. KeyOf(x) /\ x \notin rows'
    BY <1>1, <1>14 DEF KeyInv
  <2>2. Takes(o, x) /\ Won(o, x)'
    BY <1>12, <1>14 DEF Takes
  <2>3. \A q \in Ops : (Keyed(q, x)' <=> Keyed(q, x)) /\ (Takes(q, x)' => Takes(q, x))
    BY <1>4, <1>12, <2>2, OthersStay
  <2>4. ASSUME "overlap" \notin flaws'[x] PROVE Sole(x)'
    <3>1. Sole(x) /\ flaws[x] \subseteq flaws'[x]
      BY <1>6, <2>1, <2>4 DEF KeyOf
    <3>2. \A q \in Ops : Takes(q, x) => q = o
      BY <2>2, <3>1 DEF Sole
    <3>3. \A q \in Ops : Won(q, x)' => q = o
      BY <2>3, <3>2 DEF Takes
    <3>4. x \in rows
      <4>1. \A q \in Ops : ~Won(q, x)
        BY <1>12, <3>2 DEF Takes
      <4>2. QED
        BY <3>1, <4>1 DEF Sole
    <3>5. told[x] = 0
      BY <2>1, <3>4 DEF KeyOf, StoreTyped
    <3>6. \A q, p \in Ops : Takes(q, x)' /\ Takes(p, x)' => q = p
      BY <2>3, <3>2
    <3>7. \A q \in Ops : Keyed(q, x)' => /\ key'[x] = <<q, x>>
                                         /\ "hidden here" \notin flaws'[x] => cached'[x] = 1
      BY <1>2, <2>3, <3>1 DEF Sole
    <3>8. \A q \in Ops : Won(q, x)' => op'[q].pc # "done" /\ told'[x] = 0
      BY <1>2, <1>4, <3>3, <3>5
    <3>9. QED
      BY <2>2, <3>6, <3>7, <3>8 DEF Sole
  <2>5. key'[x] = NoId \/ \E q \in Ops : key'[x] = <<q, x>>
    BY <1>2, <2>1 DEF KeyOf
  <2>6. (\A q \in Ops : ~Keyed(q, x)') => key'[x] = NoId /\ cached'[x] = 0
    BY <1>2, <2>1, <2>3 DEF KeyOf
  <2>7. QED
    BY <2>1, <2>4, <2>5, <2>6 DEF KeyOf
<1>15. QED
  BY <1>9, <1>11, <1>13, <1>14 DEF KeyInv

\* What AfterHooks does to the store.
LEMMA AfterFacts ==
  ASSUME StoreTyped, OpInv, NEW o \in Ops, AfterHooks(o)
  PROVE  /\ op[o].pc = "after" /\ rows' = rows /\ holder' = holder /\ asked' = asked
         /\ flaws' = flaws /\ faults' = faults /\ chan' = chan /\ prepared' = prepared /\ got' = got
         /\ needs' = needs
         /\ op' \in [Ops -> Doings] /\ \A q \in Ops \ {o} : op'[q] = op[q]
         /\ op'[o].kind = op[o].kind /\ op'[o].record = op[o].record /\ op'[o].pc = "done"
         /\ op'[o].inTx = op[o].inTx /\ op'[o].ok = op[o].ok
         /\ told' = [r \in Records |->
                       IF op[o].ok /\ r \in Over(o) THEN told[r] + cached[r] ELSE told[r]]
         /\ cached' = [r \in Records |-> IF r \in Over(o) THEN 0 ELSE cached[r]]
         /\ key' = [r \in Records |-> IF r \in Over(o) THEN NoId ELSE key[r]]
         /\ Publish(Publications(Over(o), IF op[o].ok THEN "commit" ELSE "abort"))
<1>1. /\ op[o].pc = "after" /\ op' = [op EXCEPT ![o].pc = "done"]
      /\ op \in [Ops -> Doings] /\ op[o] \in Doings
  BY DEF AfterHooks, StoreTyped
<1>2. /\ op' \in [Ops -> Doings] /\ \A q \in Ops \ {o} : op'[q] = op[q]
      /\ op'[o].kind = op[o].kind /\ op'[o].record = op[o].record /\ op'[o].pc = "done"
      /\ op'[o].inTx = op[o].inTx /\ op'[o].ok = op[o].ok
  BY <1>1 DEF Doings
<1>3. /\ rows' = rows /\ holder' = holder /\ asked' = asked /\ flaws' = flaws /\ faults' = faults
      /\ chan' = chan /\ prepared' = prepared /\ got' = got /\ needs' = needs
  BY DEF AfterHooks, remoteVars
<1>4. /\ told' = [r \in Records |->
                    IF op[o].ok /\ r \in Over(o) THEN told[r] + cached[r] ELSE told[r]]
      /\ cached' = [r \in Records |-> IF r \in Over(o) THEN 0 ELSE cached[r]]
      /\ key' = [r \in Records |-> IF r \in Over(o) THEN NoId ELSE key[r]]
  BY DEF AfterHooks, Over
<1>5. Publish(Publications(Over(o), IF op[o].ok THEN "commit" ELSE "abort"))
  BY DEF AfterHooks, Over
<1>6. QED
  BY <1>1, <1>2, <1>3, <1>4, <1>5

LEMMA AfterHooksKeys ==
  ASSUME StoreTyped, OpInv, KeyInv, NEW o \in Ops, AfterHooks(o)
  PROVE  StoreTyped' /\ OpInv' /\ KeyInv'
<1>1. /\ op[o].pc = "after" /\ rows' = rows /\ holder' = holder /\ asked' = asked
      /\ flaws' = flaws /\ faults' = faults
      /\ op' \in [Ops -> Doings] /\ \A q \in Ops \ {o} : op'[q] = op[q]
      /\ op'[o].kind = op[o].kind /\ op'[o].record = op[o].record /\ op'[o].pc = "done"
      /\ op'[o].inTx = op[o].inTx /\ op'[o].ok = op[o].ok
  BY AfterFacts
<1>2. /\ told' = [r \in Records |->
                    IF op[o].ok /\ r \in Over(o) THEN told[r] + cached[r] ELSE told[r]]
      /\ cached' = [r \in Records |-> IF r \in Over(o) THEN 0 ELSE cached[r]]
      /\ key' = [r \in Records |-> IF r \in Over(o) THEN NoId ELSE key[r]]
  BY AfterFacts
<1>3. OpOf(o) /\ op[o] \in Doings
  BY DEF OpInv, StoreTyped
<1>4. StoreTyped'
  BY <1>1, <1>2 DEF StoreTyped
<1>5. OpInv'
  <2>1. OpOf(o)'
    <3>1. Over(o)' = Over(o) /\ holder # o /\ asked[o] = {}
      BY <1>1, <1>3 DEF OpOf, Over
    <3>2. QED
      BY <1>1, <1>3, <3>1 DEF OpOf
  <2>2. ASSUME NEW q \in Ops \ {o} PROVE OpOf(q)'
    <3>1. OpOf(q) /\ op'[q] = op[q] /\ asked'[q] = asked[q] /\ Over(q)' = Over(q)
      BY <1>1, OthersStay DEF OpInv
    <3>2. QED
      BY <1>1, <3>1 DEF OpOf
  <2>3. QED
    BY <2>1, <2>2 DEF OpInv
<1>6. \A x \in Records : ~Keyed(o, x)' /\ (Won(o, x)' <=> Won(o, x)) /\ (Takes(o, x)' => Takes(o, x))
  BY <1>1 DEF Keyed, Won, Over, Takes, Deletes
<1>7. op[o].kind # "update"
  BY <1>1, <1>3 DEF OpOf
<1>8. \A x \in Over(o) : Takes(o, x)
  BY <1>1, <1>7 DEF Takes, Over, Deletes
<1>9. ASSUME NEW x \in Records \ Over(o) PROVE KeyOf(x)'
  <2>1. KeyOf(x) /\ key'[x] = key[x] /\ cached'[x] = cached[x] /\ told'[x] = told[x]
    BY <1>2 DEF KeyInv
  <2>2. ~Keyed(o, x) /\ ~Won(o, x)
    BY OpFacts DEF Won
  <2>3. ASSUME NEW q \in Ops
        PROVE  /\ (Keyed(q, x)' <=> Keyed(q, x)) /\ (Takes(q, x)' => Takes(q, x))
               /\ (Won(q, x)' <=> Won(q, x))
               /\ Won(q, x) => (op'[q].pc = "done" <=> op[q].pc = "done")
    <3>1. CASE q = o
      BY <3>1, <1>6, <2>2
    <3>2. CASE q # o
      BY <3>2, <1>1, OthersStay
    <3>3. QED
      BY <3>1, <3>2
  <2>4. QED
    BY <1>1, <2>1, <2>3, KeyStays
<1>10. ASSUME NEW x \in Records, x \in Over(o) PROVE KeyOf(x)'
  <2>1. KeyOf(x)
    BY DEF KeyInv
  <2>2. key'[x] = NoId /\ cached'[x] = 0
    BY <1>2, <1>10
  <2>3. op[o].ok => x \notin rows
    BY <1>10, OpFacts DEF Won
  <2>4. told'[x] > 0 => x \notin rows'
    BY <1>1, <1>2, <2>1, <2>3 DEF KeyOf
  <2>5. ASSUME "overlap" \notin flaws'[x] PROVE Sole(x)'
    <3>1. Sole(x)
      BY <1>1, <2>1, <2>5 DEF KeyOf
    <3>2. \A q \in Ops : Takes(q, x) => q = o
      BY <1>8, <1>10, <3>1 DEF Sole
    <3>3. \A q \in Ops : (Takes(q, x)' => q = o) /\ (Won(q, x)' <=> Won(q, x))
      BY <1>1, <1>6, <3>2, OthersStay
    <3>4. \A q \in Ops : ~Keyed(q, x)'
      <4>1. \A q \in Ops \ {o} : ~Keyed(q, x)
        BY <3>2, OpFacts DEF Takes
      <4>2. QED
        BY <1>1, <1>6, <4>1, OthersStay
    <3>5. \A q \in Ops : Won(q, x)' => q = o
      BY <3>3 DEF Takes
    <3>6. ASSUME Won(o, x), "hidden here" \notin flaws[x] PROVE told'[x] = 1
      <4>1. told[x] = 0
        BY <1>1, <3>1, <3>6 DEF Sole
      <4>2. Keyed(o, x)
        BY <1>1, <1>10, OpFacts
      <4>3. cached[x] = 1
        BY <3>1, <3>6, <4>2 DEF Sole
      <4>4. told'[x] = told[x] + cached[x]
        BY <1>2, <1>10, <3>6 DEF Won
      <4>5. QED
        BY <4>1, <4>3, <4>4
    <3>7. x \notin rows' => \E q \in Ops : Won(q, x)'
      BY <1>1, <3>1, <3>3 DEF Sole
    <3>8. QED
      BY <1>1, <3>3, <3>4, <3>5, <3>6, <3>7 DEF Sole
  <2>6. QED
    BY <2>2, <2>4, <2>5 DEF KeyOf
<1>11. QED
  BY <1>4, <1>5, <1>9, <1>10 DEF KeyInv

LEMMA Joined ==
  ASSUME NEW S, NEW s \in Seq(S), NEW t \in Seq(S)
  PROVE  /\ s \o t \in Seq(S)
         /\ DOMAIN (s \o t) = 1..(Len(s) + Len(t)) /\ DOMAIN s = 1..Len(s) /\ DOMAIN t = 1..Len(t)
         /\ \A i \in DOMAIN s : i \in DOMAIN (s \o t) /\ (s \o t)[i] = s[i]
         /\ \A n : \A i \in DOMAIN t : n = Len(s) + i => n \in DOMAIN (s \o t) /\ (s \o t)[n] = t[i]
         /\ \A i \in DOMAIN (s \o t) : i \in DOMAIN s \/ \E k \in DOMAIN t : i = Len(s) + k
         /\ \A e : Has(s \o t, e) <=> Has(s, e) \/ Has(t, e)
<1>1. s \o t \in Seq(S) /\ Len(s \o t) = Len(s) + Len(t) /\ Len(s) \in Nat /\ Len(t) \in Nat
  OBVIOUS
<1>2. /\ DOMAIN (s \o t) = 1..(Len(s) + Len(t)) /\ DOMAIN s = 1..Len(s) /\ DOMAIN t = 1..Len(t)
  BY <1>1
<1>3. \A i \in DOMAIN s : i \in DOMAIN (s \o t) /\ (s \o t)[i] = s[i]
  BY <1>1, <1>2
<1>4. \A n : \A i \in DOMAIN t : n = Len(s) + i => n \in DOMAIN (s \o t) /\ (s \o t)[n] = t[i]
  BY <1>1, <1>2
<1>5. ASSUME NEW i \in DOMAIN (s \o t), i \notin DOMAIN s
      PROVE  \E k \in DOMAIN t : i = Len(s) + k
  <2>1. i - Len(s) \in DOMAIN t /\ i = Len(s) + (i - Len(s))
    BY <1>1, <1>2, <1>5
  <2>2. QED
    BY <2>1
<1>6. ASSUME NEW e PROVE Has(s \o t, e) <=> Has(s, e) \/ Has(t, e)
  <2>1. Has(s, e) \/ Has(t, e) => Has(s \o t, e)
    BY <1>3, <1>4 DEF Has
  <2>2. ASSUME Has(s \o t, e) PROVE Has(s, e) \/ Has(t, e)
    <3>1. PICK i \in DOMAIN (s \o t) : (s \o t)[i] = e
      BY <2>2 DEF Has
    <3>2. CASE i \in DOMAIN s
      BY <1>3, <3>1, <3>2 DEF Has
    <3>3. CASE i \notin DOMAIN s
      <4>1. PICK k \in DOMAIN t : i = Len(s) + k
        BY <1>5, <3>3
      <4>2. QED
        BY <1>4, <3>1, <4>1 DEF Has
    <3>4. QED
      BY <3>2, <3>3
  <2>3. QED
    BY <2>1, <2>2
<1>7. QED
  BY <1>1, <1>2, <1>3, <1>4, <1>5, <1>6

LEMMA Behind ==
  ASSUME NEW S, NEW s \in Seq(S), s # <<>>
  PROVE  /\ Head(s) = s[1] /\ 1 \in DOMAIN s /\ Tail(s) \in Seq(S) /\ s[1] \in S
         /\ \A i \in DOMAIN Tail(s) : i + 1 \in DOMAIN s /\ Tail(s)[i] = s[i + 1] /\ i \in Nat \ {0}
         /\ \A i \in DOMAIN s : i # 1 => i - 1 \in DOMAIN Tail(s) /\ Tail(s)[i - 1] = s[i]
                                         /\ i \in Nat /\ 1 < i
OBVIOUS

LEMMA Paired ==
  ASSUME NEW a, NEW b PROVE <<a>> \o <<b>> = <<a, b>>
<1>1. PICK S : S = {a, b}
  OBVIOUS
<1>2. PICK s, t, u : s = <<a>> /\ t = <<b>> /\ u = s \o t
  OBVIOUS
<1>3. s \in Seq(S) /\ t \in Seq(S) /\ Len(s) = 1 /\ Len(t) = 1 /\ s[1] = a /\ t[1] = b
  BY <1>1, <1>2
<1>4. u \in Seq(S) /\ Len(u) = 2 /\ u[1] = a /\ u[2] = b
  BY <1>2, <1>3
<1>5. PICK v : v = <<a, b>>
  OBVIOUS
<1>6. v \in Seq(S) /\ Len(v) = 2 /\ v[1] = a /\ v[2] = b
  BY <1>1, <1>5
<1>7. u = v
  BY <1>4, <1>6
<1>8. QED
  BY <1>2, <1>5, <1>7

\* What AfterHooks publishes: one event for each record that has an event id.
LEMMA Published ==
  ASSUME Fit, StoreTyped, WayTyped, NEW rs \in SUBSET Records, NEW what \in {"commit", "abort"},
         NEW made, made = Publications(rs, what)
  PROVE  /\ made \in Seq(Notes)
         /\ \A i \in DOMAIN made : /\ made[i].no = pubs + i /\ made[i].what = what
                                  /\ made[i].record \in rs /\ made[i].id = key[made[i].record]
                                  /\ made[i].id # NoId
         /\ \A r \in rs : key[r] # NoId => \E i \in DOMAIN made : made[i].record = r
         /\ \A i, j \in DOMAIN made : made[i].record = made[j].record => i = j
<1>1. Parent # Child /\ Records = {Parent, Child} /\ pubs \in Nat
  BY DEF Fit, Records, WayTyped
<1> DEFINE Note(r, n) == [record |-> r, what |-> what, id |-> key[r], no |-> n]
           both == Child \in rs /\ key[Child] # NoId
           top == Parent \in rs /\ key[Parent] # NoId
<1>2. PICK child, parent :
        /\ child = IF both THEN <<Note(Child, pubs + 1)>> ELSE <<>>
        /\ parent = IF top THEN <<Note(Parent, pubs + Len(child) + 1)>> ELSE <<>>
        /\ made = child \o parent
  BY <1>1 DEF Publications, Publication
<1>3. \A r \in Records, n \in Nat : Note(r, n) \in Notes
  BY DEF Notes, StoreTyped
<1>4. CASE both /\ top
  <2>1. made = <<Note(Child, pubs + 1), Note(Parent, pubs + 2)>>
    <3>1. child = <<Note(Child, pubs + 1)>> /\ Len(child) = 1
      BY <1>2, <1>4
    <3>2. pubs + Len(child) + 1 = pubs + 2
      BY <1>1, <3>1
    <3>3. parent = <<Note(Parent, pubs + 2)>>
      BY <1>2, <1>4, <3>2
    <3>4. PICK a, b : a = Note(Child, pubs + 1) /\ b = Note(Parent, pubs + 2)
      OBVIOUS
    <3>5. <<a>> \o <<b>> = <<a, b>>
      BY Paired
    <3>6. QED
      BY <1>2, <3>1, <3>3, <3>4, <3>5
  <2>2. DOMAIN made = {1, 2} /\ made[1] = Note(Child, pubs + 1) /\ made[2] = Note(Parent, pubs + 2)
    BY <2>1
  <2>3. made \in Seq(Notes)
    <3>1. Note(Child, pubs + 1) \in Notes /\ Note(Parent, pubs + 2) \in Notes
      BY <1>1, <1>3
    <3>2. QED
      BY <2>1, <3>1
  <2>4. QED
    BY <1>1, <1>4, <2>2, <2>3
<1>5. CASE both /\ ~top
  <2>1. made = <<Note(Child, pubs + 1)>>
    <3>1. child = <<Note(Child, pubs + 1)>> /\ parent = <<>>
      BY <1>2, <1>5
    <3>2. PICK a : a = Note(Child, pubs + 1)
      OBVIOUS
    <3>3. <<a>> \o <<>> = <<a>>
      OBVIOUS
    <3>4. QED
      BY <1>2, <3>1, <3>2, <3>3
  <2>2. DOMAIN made = {1} /\ made[1] = Note(Child, pubs + 1)
    BY <2>1
  <2>3. made \in Seq(Notes)
    <3>1. Note(Child, pubs + 1) \in Notes
      BY <1>1, <1>3
    <3>2. QED
      BY <2>1, <3>1
  <2>4. QED
    BY <1>1, <1>5, <2>2, <2>3
<1>6. CASE ~both /\ top
  <2>1. made = <<Note(Parent, pubs + 1)>>
    <3>1. child = <<>> /\ Len(child) = 0
      BY <1>2, <1>6
    <3>2. pubs + Len(child) + 1 = pubs + 1
      BY <1>1, <3>1
    <3>3. parent = <<Note(Parent, pubs + 1)>>
      BY <1>2, <1>6, <3>2
    <3>4. PICK a : a = Note(Parent, pubs + 1)
      OBVIOUS
    <3>5. <<>> \o <<a>> = <<a>>
      OBVIOUS
    <3>6. QED
      BY <1>2, <3>1, <3>3, <3>4, <3>5
  <2>2. DOMAIN made = {1} /\ made[1] = Note(Parent, pubs + 1)
    BY <2>1
  <2>3. made \in Seq(Notes)
    <3>1. Note(Parent, pubs + 1) \in Notes
      BY <1>1, <1>3
    <3>2. QED
      BY <2>1, <3>1
  <2>4. QED
    BY <1>1, <1>6, <2>2, <2>3
<1>7. CASE ~both /\ ~top
  <2>1. made = <<>>
    BY <1>2, <1>7
  <2>2. QED
    BY <1>1, <1>7, <2>1
<1>8. QED
  BY <1>4, <1>5, <1>6, <1>7

LEMMA WayFacts ==
  ASSUME WayTyped, NEW w \in Remotes
  PROVE  /\ chan[w] \in Seq(Prepares \union Batches) /\ got[w] \in Seq(Handouts)
         /\ prepared[w] \in SUBSET EventIds
         /\ \A i \in DOMAIN chan[w] : i \in Nat /\ chan[w][i] \in Prepares \union Batches
         /\ \A i \in DOMAIN chan[w] : chan[w][i].kind = "publish" => chan[w][i].events \in Seq(Notes)
BY DEF WayTyped, Prepares, Batches

\* What is on the way stays as it is, but for what is prepared.
LEMMA OrderStays ==
  ASSUME OrderInv, outbox' = outbox, pubs' = pubs, chan' = chan, got' = got
  PROVE  OrderInv'
BY DEF OrderInv, OrderOf, Rising, Coming, InBatch, Has

\* One request more is on the way to every worker.
LEMMA SentFacts ==
  ASSUME WayTyped, NEW m \in Prepares \union Batches, Send(m), NEW w \in Remotes
  PROVE  /\ chan' \in [Remotes -> Seq(Prepares \union Batches)]
         /\ DOMAIN chan[w] = 1..Len(chan[w]) /\ Len(chan[w]) \in Nat
         /\ DOMAIN chan'[w] = 1..(Len(chan[w]) + 1) /\ Len(chan[w]) + 1 \in DOMAIN chan'[w]
         /\ chan'[w][Len(chan[w]) + 1] = m
         /\ \A i \in DOMAIN chan[w] : i \in DOMAIN chan'[w] /\ chan'[w][i] = chan[w][i]
                                      /\ i \in Nat /\ i < Len(chan[w]) + 1
         /\ \A i \in DOMAIN chan'[w] : i = Len(chan[w]) + 1 \/ i \in DOMAIN chan[w]
<1>1. chan' = [v \in Remotes |-> Append(chan[v], m)] /\ chan[w] \in Seq(Prepares \union Batches)
  BY DEF Send, WayTyped
<1>2. chan'[w] = Append(chan[w], m)
  BY <1>1
<1>3. chan' \in [Remotes -> Seq(Prepares \union Batches)]
  BY <1>1 DEF WayTyped
<1>4. QED
  BY <1>1, <1>2, <1>3

LEMMA OrderAsked ==
  ASSUME WayTyped, OrderInv, NEW m \in Prepares, Send(m),
         outbox' = outbox, pubs' = pubs, got' = got
  PROVE  OrderInv'
<1>1. ASSUME NEW w \in Remotes PROVE OrderOf(w)'
  <2>1. m.kind # "publish" /\ m \in Prepares \union Batches
    BY DEF Prepares
  <2>2. \A i \in DOMAIN chan'[w] : chan'[w][i].kind = "publish" =>
          i \in DOMAIN chan[w] /\ chan'[w][i] = chan[w][i]
    BY <2>1, SentFacts
  <2>3. \A e : \A i \in DOMAIN chan'[w] : InBatch(chan'[w][i], e) =>
          i \in DOMAIN chan[w] /\ chan'[w][i] = chan[w][i] /\ InBatch(chan[w][i], e)
    BY <2>2 DEF InBatch
  <2>4. \A e \in Notes : Coming(w, e)' => Coming(w, e)
    BY <2>3 DEF Coming
  <2>5. OrderOf(w)
    BY DEF OrderInv
  <2>6. \A d, e : \A i, k \in DOMAIN chan'[w] :
          d \in Notes /\ e \in Notes /\ i < k /\ InBatch(chan'[w][i], d) /\ InBatch(chan'[w][k], e)
            => d.no < e.no
    BY <2>3, <2>5 DEF OrderOf
  <2>7. QED
    BY <2>2, <2>3, <2>4, <2>5, <2>6 DEF OrderOf
<1>2. QED
  BY <1>1 DEF OrderInv

LEMMA OrderPublished ==
  ASSUME WayTyped, OrderInv, NEW s \in Seq(Notes), \A i \in DOMAIN s : s[i].no = pubs + i,
         Publish(s), chan' = chan, got' = got
  PROVE  /\ outbox' \in Seq(Notes) /\ pubs' \in Nat
         /\ \A e : Has(outbox', e) <=> Has(outbox, e) \/ Has(s, e)
         /\ OrderInv'
<1>1. outbox' = outbox \o s /\ pubs' = pubs + Len(s) /\ pubs \in Nat /\ outbox \in Seq(Notes)
  BY DEF Publish, WayTyped
<1>2. outbox' \in Seq(Notes) /\ pubs' \in Nat /\ \A e : Has(outbox', e) <=> Has(outbox, e) \/ Has(s, e)
  BY <1>1, Joined
<1>3. \A i \in DOMAIN outbox : outbox[i].no <= pubs /\ outbox[i].no \in Nat
  <2>1. TAKE i \in DOMAIN outbox
  <2>2. outbox[i] \in Notes /\ Has(outbox, outbox[i])
    BY <1>1 DEF Has
  <2>3. QED
    BY <2>2 DEF OrderInv, Notes
<1>4. \A i \in DOMAIN s : i \in 1..Len(s) /\ Len(s) \in Nat /\ s[i].no = pubs + i
  OBVIOUS
<1>5. Rising(outbox')
  <2>1. SUFFICES ASSUME NEW i \in DOMAIN outbox', NEW j \in DOMAIN outbox', i < j
                 PROVE  outbox'[i].no < outbox'[j].no
    BY DEF Rising
  <2>2. Rising(outbox)
    BY DEF OrderInv
  <2>3. i \in DOMAIN outbox \/ \E k \in DOMAIN s : i = Len(outbox) + k /\ outbox'[i] = s[k]
    BY <1>1, Joined
  <2>4. j \in DOMAIN outbox \/ \E k \in DOMAIN s : j = Len(outbox) + k /\ outbox'[j] = s[k]
    BY <1>1, Joined
  <2>5. CASE i \in DOMAIN outbox /\ j \in DOMAIN outbox
    <3>1. outbox'[i] = outbox[i] /\ outbox'[j] = outbox[j]
      BY <1>1, <2>5, Joined
    <3>2. QED
      BY <2>1, <2>2, <2>5, <3>1 DEF Rising
  <2>6. ASSUME i \in DOMAIN outbox, NEW k \in DOMAIN s, j = Len(outbox) + k, outbox'[j] = s[k]
        PROVE  outbox'[i].no < outbox'[j].no
    <3>1. outbox'[i] = outbox[i] /\ outbox'[j] = s[k]
      BY <1>1, <2>6, Joined
    <3>2. QED
      BY <1>1, <1>3, <1>4, <2>6, <3>1
  <2>7. ASSUME NEW h \in DOMAIN s, i = Len(outbox) + h, outbox'[i] = s[h],
               NEW k \in DOMAIN s, j = Len(outbox) + k, outbox'[j] = s[k]
        PROVE  outbox'[i].no < outbox'[j].no
    <3>1. s[h].no = pubs + h /\ s[k].no = pubs + k /\ h \in Nat /\ k \in Nat
      BY <1>4, <2>7
    <3>2. Len(outbox) \in Nat
      BY <1>1
    <3>3. h < k
      BY <2>1, <2>7, <3>1, <3>2
    <3>4. QED
      BY <1>1, <2>7, <3>1, <3>3
  <2>8. ASSUME NEW h \in DOMAIN s, i = Len(outbox) + h, j \in DOMAIN outbox PROVE FALSE
    <3>1. j \in 1..Len(outbox) /\ Len(outbox) \in Nat
      BY <1>1, <2>8
    <3>2. QED
      BY <1>4, <2>1, <2>8, <3>1
  <2>9. QED
    BY <2>3, <2>4, <2>5, <2>6, <2>7, <2>8
<1>6. \A e : Has(s, e) => pubs < e.no /\ e.no <= pubs'
  BY <1>1, <1>4 DEF Has
<1>7. pubs <= pubs'
  BY <1>1
<1>8. \A e \in Notes : Has(outbox', e) => e.no <= pubs'
  <2>1. \A e \in Notes : e.no \in Nat
    BY DEF Notes
  <2>2. QED
    BY <1>1, <1>2, <1>6, <1>7, <2>1 DEF OrderInv
<1>9. ASSUME NEW w \in Remotes PROVE OrderOf(w)'
  <2>1. OrderOf(w) /\ chan'[w] = chan[w] /\ got'[w] = got[w]
    BY DEF OrderInv
  <2>2. \A e \in Notes : e.no \in Nat
    BY DEF Notes
  <2>3. \A i \in DOMAIN got[w] : got[w][i].no \in Nat /\ got[w][i].no <= pubs
    <3>1. \A i \in DOMAIN got[w] : got[w][i] \in Handouts
      BY WayFacts
    <3>2. QED
      BY <2>1, <3>1 DEF OrderOf, Handouts
  <2>4. \A i \in DOMAIN chan[w] : \A d, e \in Notes :
          InBatch(chan[w][i], d) => d.no <= pubs' /\ (Has(outbox', e) => d.no < e.no)
    <3>1. TAKE i \in DOMAIN chan[w]
    <3>2. TAKE d, e \in Notes
    <3>3. SUFFICES ASSUME InBatch(chan[w][i], d)
                   PROVE  d.no <= pubs' /\ (Has(outbox', e) => d.no < e.no)
      OBVIOUS
    <3>4. d.no <= pubs /\ (Has(outbox, e) => d.no < e.no)
      BY <2>1, <3>3 DEF OrderOf
    <3>5. Has(s, e) => d.no < e.no
      BY <1>1, <1>6, <2>2, <3>4
    <3>6. QED
      BY <1>1, <1>2, <1>7, <2>2, <3>4, <3>5
  <2>5. ASSUME NEW i \in DOMAIN got[w], NEW e \in Notes, Coming(w, e)' PROVE got[w][i].no < e.no
    <3>1. Coming(w, e) \/ Has(s, e)
      BY <1>2, <2>1, <2>5 DEF Coming
    <3>2. CASE Coming(w, e)
      BY <2>1, <3>2 DEF OrderOf
    <3>3. CASE Has(s, e)
      BY <1>1, <1>6, <2>2, <2>3, <3>3
    <3>4. QED
      BY <3>1, <3>2, <3>3
  <2>6. \A i \in DOMAIN got[w] : got[w][i].no <= pubs'
    BY <1>1, <1>2, <1>7, <2>3
  <2>7. QED
    BY <2>1, <2>4, <2>5, <2>6 DEF OrderOf
<1>10. QED
  BY <1>2, <1>5, <1>8, <1>9 DEF OrderInv

\* A batch that is on the way holds all that was in the outbox.
LEMMA OrderBatched ==
  ASSUME WayTyped, OrderInv, NEW m \in Batches, m.events = outbox, Send(m),
         outbox' = <<>>, pubs' = pubs, got' = got
  PROVE  OrderInv' /\ \A w \in Remotes, e \in Notes : Coming(w, e)' <=> Coming(w, e)
<1>1. m.kind = "publish" /\ m \in Prepares \union Batches
  BY DEF Batches
<1>2. Rising(outbox') /\ \A e : ~Has(outbox', e)
  BY DEF Rising, Has
<1>3. \A e : InBatch(m, e) <=> Has(outbox, e)
  BY <1>1 DEF InBatch
<1>4. ASSUME NEW w \in Remotes
      PROVE  OrderOf(w)' /\ \A e \in Notes : Coming(w, e)' <=> Coming(w, e)
  <2>1. OrderOf(w)
    BY DEF OrderInv
  <2>2. PICK n : n = Len(chan[w]) + 1
    OBVIOUS
  <2>3. /\ n \in DOMAIN chan'[w] /\ chan'[w][n] = m
        /\ \A i \in DOMAIN chan[w] : i \in DOMAIN chan'[w] /\ chan'[w][i] = chan[w][i] /\ i < n
        /\ \A i \in DOMAIN chan'[w] : i = n \/ i \in DOMAIN chan[w]
    BY <1>1, <2>2, SentFacts
  <2>4. ASSUME NEW e \in Notes PROVE Coming(w, e)' <=> Coming(w, e)
    <3>1. Coming(w, e)' <=> \E i \in DOMAIN chan'[w] : InBatch(chan'[w][i], e)
      BY <1>2 DEF Coming, InBatch
    <3>2. Coming(w, e) <=> InBatch(m, e) \/ \E i \in DOMAIN chan[w] : InBatch(chan[w][i], e)
      BY <1>3 DEF Coming
    <3>3. QED
      BY <2>3, <3>1, <3>2
  <2>5. \A i \in DOMAIN chan'[w] : chan'[w][i].kind = "publish" => Rising(chan'[w][i].events)
    <3>1. Rising(m.events)
      BY DEF OrderInv
    <3>2. QED
      BY <2>1, <2>3, <3>1 DEF OrderOf
  <2>6. ASSUME NEW i \in DOMAIN chan'[w], NEW k \in DOMAIN chan'[w], NEW d \in Notes, NEW e \in Notes,
               i < k, InBatch(chan'[w][i], d), InBatch(chan'[w][k], e)
        PROVE  d.no < e.no
    <3>1. CASE i \in DOMAIN chan[w] /\ k \in DOMAIN chan[w]
      BY <2>1, <2>3, <2>6, <3>1 DEF OrderOf
    <3>2. CASE i \in DOMAIN chan[w] /\ k = n
      BY <1>3, <2>1, <2>3, <2>6, <3>2 DEF OrderOf
    <3>3. CASE i = n
      <4>1. Len(chan[w]) \in Nat /\ DOMAIN chan'[w] = 1..n
        BY <1>1, <2>2, SentFacts
      <4>2. QED
        BY <2>2, <2>6, <3>3, <4>1
    <3>4. QED
      BY <2>3, <3>1, <3>2, <3>3
  <2>7. \A i \in DOMAIN chan'[w] : \A d, e \in Notes :
          InBatch(chan'[w][i], d) => d.no <= pubs' /\ (Has(outbox', e) => d.no < e.no)
    <3>1. TAKE i \in DOMAIN chan'[w]
    <3>2. TAKE d, e \in Notes
    <3>3. SUFFICES ASSUME InBatch(chan'[w][i], d) PROVE d.no <= pubs
      BY <1>2
    <3>4. CASE i = n
      BY <1>3, <2>3, <3>3, <3>4 DEF OrderInv
    <3>5. CASE i \in DOMAIN chan[w]
      BY <2>1, <2>3, <3>3, <3>5 DEF OrderOf
    <3>6. QED
      BY <2>3, <3>4, <3>5
  <2>8. QED
    <3>1. \A i, k \in DOMAIN chan'[w] : \A d, e \in Notes :
            i < k /\ InBatch(chan'[w][i], d) /\ InBatch(chan'[w][k], e) => d.no < e.no
      BY <2>6
    <3>2. QED
      BY <2>1, <2>4, <2>5, <2>7, <3>1 DEF OrderOf, InBatch
<1>5. QED
  BY <1>2, <1>4 DEF OrderInv

\* A batch that is refused is lost.
LEMMA OrderLost ==
  ASSUME OrderInv, outbox' = <<>>, pubs' = pubs, chan' = chan, got' = got
  PROVE  OrderInv' /\ \A w \in Remotes, e \in Notes : Coming(w, e)' => Coming(w, e)
<1>1. Rising(outbox') /\ \A e : ~Has(outbox', e)
  BY DEF Rising, Has
<1>2. \A w \in Remotes, e \in Notes : Coming(w, e)' => Coming(w, e)
  BY <1>1 DEF Coming, InBatch, Has
<1>3. \A w \in Remotes : OrderOf(w)'
  <2>1. TAKE w \in Remotes
  <2>2. OrderOf(w)
    BY DEF OrderInv
  <2>3. \A e \in Notes : Coming(w, e)' => Coming(w, e)
    BY <1>2
  <2>4. /\ \A i \in DOMAIN got[w] : \A e \in Notes : Coming(w, e)' => got[w][i].no < e.no
    BY <2>2, <2>3 DEF OrderOf
  <2>5. QED
    BY <1>1, <2>2, <2>4 DEF OrderOf, InBatch, Rising, Has
<1>4. QED
  BY <1>1, <1>2, <1>3 DEF OrderInv

-----------------------------------------------------------------------------
\* The fold of a batch, event by event.
Handing(w, events, r) ==
  r = [s \in SUBSET DOMAIN events |->
         IF s = {} THEN <<>>
         ELSE Hand(w, r[s \ {Max(s)}], events[Max(s)])]

LEMMA HandUnfolded ==
  ASSUME NEW w, NEW events
  PROVE  Handed(w, events) = (CHOOSE r : Handing(w, events, r))[DOMAIN events]
BY DEF Handed, FoldLeft, MapThenFoldSet, Handing

LEMMA HandingExists ==
  ASSUME NEW w, NEW events, NEW n \in Nat, DOMAIN events = 1..n
  PROVE  \E r : Handing(w, events, r)
<1> DEFINE D == DOMAIN events
           Up(k) == {s \in SUBSET D : s \subseteq 1..k}
           Next1(r, s) == Hand(w, r[s \ {Max(s)}], events[Max(s)])
           Part(k, r) == r = [s \in Up(k) |-> IF s = {} THEN <<>> ELSE Next1(r, s)]
           S == {k \in Nat : \E r : Part(k, r)}
<1>1. 0 \in S
  <2>1. Up(0) = {{}}
    <3>1. 1..0 = {}
      OBVIOUS
    <3>2. QED
      BY <3>1
  <2>2. PICK r : r = [s \in Up(0) |-> <<>>]
    OBVIOUS
  <2>3. Part(0, r)
    BY <2>1, <2>2
  <2>4. QED
    BY <2>3
<1>2. ASSUME NEW k \in S PROVE k + 1 \in S
  <2>1. PICK g : Part(k, g)
    BY <1>2
  <2>2. PICK h : h = [s \in Up(k + 1) |-> IF s \subseteq 1..k THEN g[s] ELSE Next1(g, s)]
    OBVIOUS
  <2>3. ASSUME NEW s \in Up(k + 1), s # {}
        PROVE  s \ {Max(s)} \in Up(k)
    <3>1. k + 1 \in Nat /\ s \in SUBSET (1..k + 1)
      BY <2>3
    <3>2. PICK m : m = Max(s)
      OBVIOUS
    <3>3. m \in s /\ \A i \in s : i <= m
      BY <3>1, <3>2, <2>3, Greatest
    <3>4. \A i \in s \ {m} : i \in 1..k
      BY <3>1, <3>3
    <3>5. QED
      BY <3>2, <3>4
  <2>4. ASSUME NEW s \in Up(k + 1), s # {}
        PROVE  h[s \ {Max(s)}] = g[s \ {Max(s)}]
    <3>1. PICK t : t = s \ {Max(s)}
      OBVIOUS
    <3>2. t \in Up(k) /\ t \in Up(k + 1)
      BY <2>3, <2>4, <3>1
    <3>3. QED
      BY <2>2, <3>1, <3>2
  <2>5. ASSUME NEW s \in Up(k + 1), s # {}
        PROVE  h[s] = Next1(g, s)
    <3>1. CASE s \subseteq 1..k
      BY <2>1, <2>2, <2>5, <3>1
    <3>2. CASE ~(s \subseteq 1..k)
      BY <2>2, <2>5, <3>2
    <3>3. QED
      BY <3>1, <3>2
  <2>6. h[{}] = <<>>
    BY <2>1, <2>2
  <2>7. ASSUME NEW s \in Up(k + 1)
        PROVE  h[s] = IF s = {} THEN <<>> ELSE Next1(h, s)
    BY <2>4, <2>5, <2>6, <2>7
  <2>8. Part(k + 1, h)
    <3> HIDE DEF Next1, Up
    <3>1. h = [s \in Up(k + 1) |-> h[s]]
      BY <2>2
    <3>2. QED
      BY <2>7, <3>1
  <2>9. PICK j \in Nat : j = k + 1
    OBVIOUS
  <2>10. QED
    <3> HIDE DEF Part
    <3>1. Part(j, h)
      BY <2>8, <2>9
    <3>2. j \in S
      BY <3>1
    <3>3. QED
      BY <2>9, <3>2
<1>3. n \in S
  <2> HIDE DEF Part
  <2>1. PICK T : T = S
    OBVIOUS
  <2>2. T \in SUBSET Nat /\ 0 \in T /\ \A k \in T : k + 1 \in T
    BY <1>1, <1>2, <2>1
  <2>3. QED
    BY <2>1, <2>2, Induction
<1>4. Up(n) = SUBSET D
  OBVIOUS
<1>5. QED
  BY <1>3, <1>4 DEF Handing

\* An event that a client of w is handed, and what it is handed of it.
Passes(w, e) == e.what = "update" \/ (e.what = "commit" /\ e.id \in prepared[w])
View(e) == [record |-> e.record, what |-> e.what, no |-> e.no]

\* What h holds of the events at these places.
HandedOf(w, events, places, h) ==
  /\ h \in Seq(Handouts)
  /\ \A i \in DOMAIN h : \E k \in places : h[i] = View(events[k]) /\ Passes(w, events[k])
  /\ \A k \in places : Passes(w, events[k]) => Has(h, View(events[k]))
  /\ Rising(events) => Rising(h)

LEMMA HandedOne ==
  ASSUME NEW w, NEW events \in Seq(Notes), NEW places \in SUBSET DOMAIN events,
         NEW m \in places, \A i \in places : i <= m,
         NEW h, HandedOf(w, events, places \ {m}, h)
  PROVE  HandedOf(w, events, places, Hand(w, h, events[m]))
<1>1. events[m] \in Notes /\ h \in Seq(Handouts) /\ m \in Nat
  BY DEF HandedOf
<1>2. CASE ~Passes(w, events[m])
  <2>1. Hand(w, h, events[m]) = h
    BY <1>2 DEF Hand, Passes
  <2>2. QED
    BY <1>2, <2>1 DEF HandedOf
<1>3. CASE Passes(w, events[m])
  <2>1. View(events[m]) \in Handouts
    BY <1>1, <1>3 DEF View, Handouts, Notes, Passes
  <2>2. PICK g : g = Append(h, View(events[m]))
    OBVIOUS
  <2>3. /\ g \in Seq(Handouts) /\ DOMAIN g = 1..(Len(h) + 1) /\ g[Len(h) + 1] = View(events[m])
        /\ \A i \in DOMAIN h : i \in DOMAIN g /\ g[i] = h[i] /\ i \in 1..Len(h)
        /\ \A i \in DOMAIN g : i = Len(h) + 1 \/ i \in DOMAIN h
        /\ Len(h) \in Nat
    BY <1>1, <2>1, <2>2
  <2>4. Hand(w, h, events[m]) = g
    BY <1>3, <2>2 DEF Hand, Passes, View
  <2>5. \A i \in DOMAIN g : \E k \in places : g[i] = View(events[k]) /\ Passes(w, events[k])
    BY <1>3, <2>3 DEF HandedOf
  <2>6. ASSUME NEW k \in places, Passes(w, events[k]) PROVE Has(g, View(events[k]))
    <3>1. CASE k = m
      <4>1. Len(h) + 1 \in DOMAIN g
        BY <2>3
      <4>2. QED
        BY <2>3, <3>1, <4>1 DEF Has
    <3>2. CASE k # m
      BY <2>3, <2>6, <3>2 DEF HandedOf, Has
    <3>3. QED
      BY <3>1, <3>2
  <2>7. ASSUME Rising(events), NEW i \in DOMAIN g, NEW j \in DOMAIN g, i < j
        PROVE  g[i].no < g[j].no
    <3>1. Rising(h)
      BY <2>7 DEF HandedOf
    <3>2. i \in DOMAIN h
      BY <2>3, <2>7
    <3>3. CASE j \in DOMAIN h
      BY <2>3, <2>7, <3>1, <3>2, <3>3 DEF Rising
    <3>4. CASE j = Len(h) + 1
      <4>1. PICK k \in places \ {m} : h[i] = View(events[k])
        BY <3>2 DEF HandedOf
      <4>2. k < m
        OBVIOUS
      <4>3. events[k].no < events[m].no
        BY <2>7, <4>2 DEF Rising
      <4>4. g[i] = View(events[k]) /\ g[j] = View(events[m])
        BY <2>3, <3>2, <3>4, <4>1
      <4>5. QED
        BY <4>3, <4>4 DEF View
    <3>5. QED
      BY <2>3, <3>3, <3>4
  <2>8. Rising(events) => Rising(g)
    BY <2>7 DEF Rising
  <2>9. QED
    BY <2>3, <2>4, <2>5, <2>6, <2>8 DEF HandedOf
<1>4. QED
  BY <1>2, <1>3

LEMMA HandedFacts ==
  ASSUME NEW w, NEW events \in Seq(Notes)
  PROVE  HandedOf(w, events, DOMAIN events, Handed(w, events))
<1>1. PICK n \in Nat : DOMAIN events = 1..n
  OBVIOUS
<1>2. PICK r : r = CHOOSE q : Handing(w, events, q)
  OBVIOUS
<1>3. Handing(w, events, r)
  BY <1>1, <1>2, HandingExists
<1>4. PICK D : D = DOMAIN events
  OBVIOUS
<1>5. r[{}] = <<>>
  BY <1>3 DEF Handing
<1>6. \A s \in SUBSET D : s # {} =>
        r[s] = Hand(w, r[s \ {Max(s)}], events[Max(s)])
  BY <1>3, <1>4 DEF Handing
<1>7. PICK G : G = {s \in SUBSET D : HandedOf(w, events, s, r[s])}
  OBVIOUS
<1>8. {} \in G
  <2>1. HandedOf(w, events, {}, <<>>)
    BY DEF HandedOf, Rising, Has
  <2>2. QED
    BY <1>5, <1>7, <2>1
<1>9. ASSUME NEW s \in SUBSET D, s # {}, s \ {Max(s)} \in G PROVE s \in G
  <2>1. PICK m : m = Max(s)
    OBVIOUS
  <2>2. m \in s /\ \A i \in s : i <= m
    <3>1. s \in SUBSET (1..n)
      BY <1>1, <1>4
    <3>2. QED
      BY <1>9, <2>1, <3>1, Greatest
  <2>3. PICK h : h = r[s \ {m}]
    OBVIOUS
  <2>4. HandedOf(w, events, s \ {m}, h)
    BY <1>7, <1>9, <2>1, <2>3
  <2>5. r[s] = Hand(w, h, events[m])
    BY <1>6, <1>9, <2>1, <2>3
  <2>6. HandedOf(w, events, s, r[s])
    BY <1>4, <2>2, <2>4, <2>5, HandedOne
  <2>7. QED
    BY <1>7, <2>6
<1>10. D \in G
  <2>1. G \in SUBSET SUBSET D /\ D \in SUBSET (1..n)
    BY <1>1, <1>4, <1>7
  <2>2. \A s \in SUBSET D : s # {} /\ s \ {Max(s)} \in G => s \in G
    BY <1>9
  <2>3. QED
    BY <1>8, <2>1, <2>2, FoldInduction
<1>11. Handed(w, events) = r[D]
  BY <1>2, <1>4, HandUnfolded
<1>12. QED
  BY <1>4, <1>7, <1>10, <1>11

-----------------------------------------------------------------------------
\* d is c without its first.
Shifts(c, d) ==
  /\ \A i \in DOMAIN d : \E k \in DOMAIN c : k = i + 1 /\ 1 < k /\ i \in Nat /\ d[i] = c[k]
  /\ \A k \in DOMAIN c : k = 1 \/ \E i \in DOMAIN d : k = i + 1 /\ i \in Nat /\ d[i] = c[k]

LEMMA TakenFacts ==
  ASSUME WayTyped, NEW w \in Remotes, chan[w] # <<>>, chan' = [chan EXCEPT ![w] = Tail(@)]
  PROVE  /\ chan' \in [Remotes -> Seq(Prepares \union Batches)]
         /\ \A v \in Remotes \ {w} : chan'[v] = chan[v]
         /\ Head(chan[w]) = chan[w][1] /\ 1 \in DOMAIN chan[w]
         /\ Head(chan[w]) \in Prepares \union Batches
         /\ Shifts(chan[w], chan'[w])
<1>1. PICK c : c = chan[w]
  OBVIOUS
<1>2. c \in Seq(Prepares \union Batches) /\ c # <<>> /\ chan'[w] = Tail(c)
  BY <1>1 DEF WayTyped
<1>3. chan' \in [Remotes -> Seq(Prepares \union Batches)] /\ \A v \in Remotes \ {w} : chan'[v] = chan[v]
  <2>1. Tail(c) \in Seq(Prepares \union Batches)
    BY <1>2
  <2>2. QED
    BY <1>1, <2>1 DEF WayTyped
<1>4. Head(c) = c[1] /\ 1 \in DOMAIN c /\ Head(c) \in Prepares \union Batches
  BY <1>2
<1>5. Shifts(c, Tail(c))
  <2>1. /\ \A i \in DOMAIN Tail(c) : i + 1 \in DOMAIN c /\ Tail(c)[i] = c[i + 1] /\ i \in Nat \ {0}
        /\ \A k \in DOMAIN c : k # 1 => k - 1 \in DOMAIN Tail(c) /\ Tail(c)[k - 1] = c[k] /\ k \in Nat
                                        /\ 1 < k
    BY <1>2, Behind
  <2>2. ASSUME NEW i \in DOMAIN Tail(c)
        PROVE  \E k \in DOMAIN c : k = i + 1 /\ 1 < k /\ i \in Nat /\ Tail(c)[i] = c[k]
    <3>1. PICK k : k = i + 1
      OBVIOUS
    <3>2. k \in DOMAIN c /\ 1 < k /\ i \in Nat /\ Tail(c)[i] = c[k]
      BY <2>1, <3>1
    <3>3. QED
      BY <3>1, <3>2
  <2>3. ASSUME NEW k \in DOMAIN c, k # 1
        PROVE  \E i \in DOMAIN Tail(c) : k = i + 1 /\ i \in Nat /\ Tail(c)[i] = c[k]
    <3>1. PICK i : i = k - 1
      OBVIOUS
    <3>2. i \in DOMAIN Tail(c) /\ Tail(c)[i] = c[k] /\ k = i + 1 /\ i \in Nat
      BY <2>1, <2>3, <3>1
    <3>3. QED
      BY <3>2
  <2>4. QED
    BY <2>2, <2>3 DEF Shifts
<1>6. QED
  BY <1>1, <1>2, <1>3, <1>4, <1>5

\* w takes what was sent to it, and hands h to its client.
TakesIn(w, h) ==
  /\ chan[w] # <<>> /\ chan' = [chan EXCEPT ![w] = Tail(@)]
  /\ got' = [got EXCEPT ![w] = @ \o h] /\ h \in Seq(Handouts) /\ Rising(h)
  /\ \A i \in DOMAIN h : \E e \in Notes : InBatch(Head(chan[w]), e) /\ h[i] = View(e)

LEMMA OrderReceived ==
  ASSUME WayTyped, OrderInv, NEW w \in Remotes, outbox' = outbox, pubs' = pubs,
         NEW h, TakesIn(w, h)
  PROVE  /\ got' \in [Remotes -> Seq(Handouts)] /\ OrderInv'
         /\ \A v \in Remotes, e \in Notes : Coming(v, e)' => Coming(v, e)
         /\ \A r, n : \A v \in Remotes : Tells(v, r, n)' => Tells(v, r, n)
<1> DEFINE m == Head(chan[w])
<1>0. /\ chan[w] # <<>> /\ chan' = [chan EXCEPT ![w] = Tail(@)]
      /\ got' = [got EXCEPT ![w] = @ \o h] /\ h \in Seq(Handouts) /\ Rising(h) /\ m = Head(chan[w])
      /\ \A i \in DOMAIN h : \E e \in Notes : InBatch(m, e) /\ h[i] = View(e)
  BY DEF TakesIn
<1> HIDE DEF m
<1>1. /\ \A v \in Remotes \ {w} : chan'[v] = chan[v] /\ got'[v] = got[v]
      /\ 1 \in DOMAIN chan[w] /\ m = chan[w][1] /\ Shifts(chan[w], chan'[w])
  BY <1>0, TakenFacts DEF WayTyped
<1>2. got[w] \in Seq(Handouts) /\ got'[w] = got[w] \o h
  BY <1>0 DEF WayTyped
<1>3. got' \in [Remotes -> Seq(Handouts)]
  <2>1. got[w] \o h \in Seq(Handouts)
    BY <1>0, <1>2
  <2>2. QED
    BY <1>0, <2>1 DEF WayTyped
<1>4. \A e : \A i \in DOMAIN chan'[w] : InBatch(chan'[w][i], e) =>
        \E k \in DOMAIN chan[w] : k = i + 1 /\ 1 < k /\ i \in Nat /\ InBatch(chan[w][k], e)
  BY <1>1 DEF Shifts
<1>5. \A e \in Notes : Coming(w, e)' => Coming(w, e)
  BY <1>4 DEF Coming
<1>6. \A e \in Notes : InBatch(m, e) => Coming(w, e)
  BY <1>1 DEF Coming
<1>7. \A v \in Remotes, e \in Notes : Coming(v, e)' => Coming(v, e)
  <2>1. TAKE v \in Remotes, e \in Notes
  <2>2. CASE v = w
    BY <1>5, <2>2
  <2>3. CASE v # w
    BY <1>1, <2>3 DEF Coming, InBatch, Has
  <2>4. QED
    BY <2>2, <2>3
<1>8. \A i \in DOMAIN got'[w] : \/ i \in DOMAIN got[w] /\ got'[w][i] = got[w][i]
                                \/ \E k \in DOMAIN h : i = Len(got[w]) + k /\ got'[w][i] = h[k]
  <2>1. TAKE i \in DOMAIN got'[w]
  <2>2. CASE i \in DOMAIN got[w]
    BY <1>0, <1>2, <2>2, Joined
  <2>3. CASE i \notin DOMAIN got[w]
    <3>1. PICK k \in DOMAIN h : i = Len(got[w]) + k
      BY <1>0, <1>2, <2>3, Joined
    <3>2. got'[w][i] = h[k]
      BY <1>0, <1>2, <3>1, Joined
    <3>3. QED
      BY <3>1, <3>2
  <2>4. QED
    BY <2>2, <2>3
<1>9. ASSUME NEW v \in Remotes, NEW r, NEW n, Tells(v, r, n)' PROVE Tells(v, r, n)
  <2>1. CASE \E e \in Notes : Coming(v, e)' /\ e.what = "commit" /\ e.record = r /\ e.no = n
    BY <1>7, <2>1 DEF Tells
  <2>2. CASE \E i \in DOMAIN got'[v] :
               got'[v][i].what = "commit" /\ got'[v][i].record = r /\ got'[v][i].no = n
    <3>1. CASE v # w
      BY <1>1, <2>2, <3>1 DEF Tells
    <3>2. CASE v = w
      <4>1. PICK i \in DOMAIN got'[w] :
              got'[w][i].what = "commit" /\ got'[w][i].record = r /\ got'[w][i].no = n
        BY <2>2, <3>2
      <4>2. CASE i \in DOMAIN got[w] /\ got'[w][i] = got[w][i]
        BY <3>2, <4>1, <4>2 DEF Tells
      <4>3. CASE \E k \in DOMAIN h : got'[w][i] = h[k]
        <5>1. PICK e \in Notes : InBatch(m, e) /\ got'[w][i] = View(e)
          BY <1>0, <4>3
        <5>2. e.what = "commit" /\ e.record = r /\ e.no = n
          BY <4>1, <5>1 DEF View
        <5>3. QED
          BY <1>6, <3>2, <5>1, <5>2 DEF Tells
      <4>4. QED
        BY <1>8, <4>2, <4>3
    <3>3. QED
      BY <3>1, <3>2
  <2>3. QED
    BY <1>9, <2>1, <2>2 DEF Tells
<1>10. OrderOf(w) /\ \A e \in Notes : e.no \in Nat
  BY DEF OrderInv, Notes
<1>11. OrderOf(w)'
  <2>1. \A k \in DOMAIN h : /\ h[k].no <= pubs
                            /\ \A i \in DOMAIN got[w] : got[w][i].no < h[k].no
                            /\ \A e \in Notes : Coming(w, e)' => h[k].no < e.no
    <3>1. TAKE k \in DOMAIN h
    <3>2. PICK d \in Notes : InBatch(m, d) /\ h[k] = View(d)
      BY <1>0
    <3>3. h[k].no = d.no /\ Coming(w, d)
      BY <1>6, <3>2 DEF View
    <3>4. d.no <= pubs /\ \A e \in Notes : Has(outbox, e) => d.no < e.no
      BY <1>1, <1>10, <3>2 DEF OrderOf
    <3>5. \A i \in DOMAIN got[w] : got[w][i].no < d.no
      BY <1>10, <3>3 DEF OrderOf
    <3>6. ASSUME NEW e \in Notes, Coming(w, e)' PROVE d.no < e.no
      <4>1. CASE Has(outbox, e)
        BY <3>4, <4>1
      <4>2. CASE \E i \in DOMAIN chan'[w] : InBatch(chan'[w][i], e)
        <5>1. PICK i \in DOMAIN chan[w] : 1 < i /\ InBatch(chan[w][i], e)
          BY <1>4, <4>2
        <5>2. QED
          BY <1>1, <1>10, <3>2, <5>1 DEF OrderOf
      <4>3. QED
        BY <3>6, <4>1, <4>2 DEF Coming, InBatch, Has
    <3>7. QED
      BY <3>3, <3>4, <3>5, <3>6
  <2>2. ASSUME NEW i \in DOMAIN got'[w], NEW j \in DOMAIN got'[w], i < j
        PROVE  got'[w][i].no < got'[w][j].no
    <3>1. CASE i \in DOMAIN got[w] /\ got'[w][i] = got[w][i] /\ j \in DOMAIN got[w]
                 /\ got'[w][j] = got[w][j]
      BY <1>10, <2>2, <3>1 DEF OrderOf, Rising
    <3>2. CASE /\ i \in DOMAIN got[w] /\ got'[w][i] = got[w][i]
               /\ \E k \in DOMAIN h : got'[w][j] = h[k]
      BY <2>1, <3>2
    <3>3. CASE \E k, l \in DOMAIN h : /\ i = Len(got[w]) + k /\ got'[w][i] = h[k]
                                      /\ j = Len(got[w]) + l /\ got'[w][j] = h[l]
      <4>1. PICK k, l \in DOMAIN h : /\ i = Len(got[w]) + k /\ got'[w][i] = h[k]
                                     /\ j = Len(got[w]) + l /\ got'[w][j] = h[l]
        BY <3>3
      <4>2. Len(got[w]) \in Nat /\ k \in Nat /\ l \in Nat
        BY <1>0, <1>2
      <4>3. k < l
        BY <2>2, <4>1, <4>2
      <4>4. QED
        BY <1>0, <4>1, <4>3 DEF Rising
    <3>4. CASE j \in DOMAIN got[w] /\ \E k \in DOMAIN h : i = Len(got[w]) + k
      <4>1. PICK k \in DOMAIN h : i = Len(got[w]) + k
        BY <3>4
      <4>2. Len(got[w]) \in Nat /\ k \in Nat \ {0} /\ j \in 1..Len(got[w])
        BY <1>0, <1>2, <3>4
      <4>3. QED
        BY <2>2, <4>1, <4>2
    <3>5. QED
      BY <1>8, <3>1, <3>2, <3>3, <3>4
  <2>3. \A i \in DOMAIN chan'[w] : chan'[w][i].kind = "publish" => Rising(chan'[w][i].events)
    BY <1>1, <1>10 DEF Shifts, OrderOf
  <2>4. ASSUME NEW i \in DOMAIN chan'[w], NEW k \in DOMAIN chan'[w], NEW d \in Notes, NEW e \in Notes,
               i < k, InBatch(chan'[w][i], d), InBatch(chan'[w][k], e)
        PROVE  d.no < e.no
    <3>1. PICK a \in DOMAIN chan[w] : a = i + 1 /\ i \in Nat /\ InBatch(chan[w][a], d)
      BY <1>4, <2>4
    <3>2. PICK b \in DOMAIN chan[w] : b = k + 1 /\ k \in Nat /\ InBatch(chan[w][b], e)
      BY <1>4, <2>4
    <3>3. a < b
      BY <2>4, <3>1, <3>2
    <3>4. QED
      BY <1>10, <3>1, <3>2, <3>3 DEF OrderOf
  <2>5. \A i \in DOMAIN chan'[w] : \A d, e \in Notes :
          InBatch(chan'[w][i], d) => d.no <= pubs' /\ (Has(outbox', e) => d.no < e.no)
    <3>1. TAKE i \in DOMAIN chan'[w]
    <3>2. TAKE d, e \in Notes
    <3>3. SUFFICES ASSUME InBatch(chan'[w][i], d)
                   PROVE  d.no <= pubs /\ (Has(outbox, e) => d.no < e.no)
      OBVIOUS
    <3>4. PICK a \in DOMAIN chan[w] : InBatch(chan[w][a], d)
      BY <1>4, <3>3
    <3>5. QED
      BY <1>10, <3>4 DEF OrderOf
  <2>6. \A i \in DOMAIN got'[w] : got'[w][i].no <= pubs'
    <3>1. \A i \in DOMAIN got[w] : got[w][i].no <= pubs
      BY <1>10 DEF OrderOf
    <3>2. QED
      BY <1>8, <2>1, <3>1
  <2>7. ASSUME NEW i \in DOMAIN got'[w], NEW e \in Notes, Coming(w, e)' PROVE got'[w][i].no < e.no
    <3>1. CASE i \in DOMAIN got[w] /\ got'[w][i] = got[w][i]
      BY <1>5, <1>10, <2>7, <3>1 DEF OrderOf
    <3>2. CASE \E k \in DOMAIN h : got'[w][i] = h[k]
      BY <2>1, <2>7, <3>2
    <3>3. QED
      BY <1>8, <3>1, <3>2
  <2>8. Rising(got'[w])
    BY <2>2 DEF Rising
  <2>9. \A i, k \in DOMAIN chan'[w] : \A d, e \in Notes :
          i < k /\ InBatch(chan'[w][i], d) /\ InBatch(chan'[w][k], e) => d.no < e.no
    BY <2>4
  <2>10. QED
    BY <2>3, <2>5, <2>6, <2>7, <2>8, <2>9 DEF OrderOf, Rising, InBatch, Has
<1>12. \A v \in Remotes \ {w} : OrderOf(v)'
  <2>1. TAKE v \in Remotes \ {w}
  <2>2. OrderOf(v) /\ chan'[v] = chan[v] /\ got'[v] = got[v]
    BY <1>1 DEF OrderInv
  <2>3. QED
    BY <2>2 DEF OrderOf, Rising, Coming, InBatch, Has
<1>13. OrderInv'
  <2>1. Rising(outbox)' /\ \A e \in Notes : Has(outbox', e) => e.no <= pubs'
    BY DEF OrderInv, Rising, Has
  <2>2. \A v \in Remotes : OrderOf(v)'
    BY <1>11, <1>12
  <2>3. QED
    BY <2>1, <2>2 DEF OrderInv
<1>14. QED
  BY <1>3, <1>7, <1>9, <1>13

-----------------------------------------------------------------------------
LEMMA TellsStay ==
  ASSUME NEW w \in Remotes, got'[w] = got[w],
         \A e \in Notes : Coming(w, e)' => Coming(w, e) \/ e.what # "commit"
  PROVE  \A r, n : Tells(w, r, n)' => Tells(w, r, n)
BY DEF Tells

LEMMA SaysStill ==
  ASSUME NEW e \in Notes, Says(e), \A r \in Records : flaws[r] \subseteq flaws'[r],
         \A o \in Ops : op[o].pc = "done" => op'[o] = op[o]
  PROVE  Says(e)'
<1>1. \A o \in Ops : op[o].pc = "done" => Over(o)' = Over(o)
  BY DEF Over
<1>2. e.record \in Records
  BY DEF Notes
<1>3. QED
  BY <1>1, <1>2 DEF Says

LEMMA VanishedStill ==
  ASSUME NEW r \in Records, Vanished(r), rows' \subseteq rows, flaws[r] \subseteq flaws'[r],
         \A o \in Ops : op[o].pc = "done" => op'[o] = op[o]
  PROVE  Vanished(r)'
BY DEF Vanished, Won, Over

\* No event is new but one of a save.
LEMMA NotesStay ==
  ASSUME NoteInv, rows' \subseteq rows, \A r \in Records : flaws[r] \subseteq flaws'[r],
         \A o \in Ops : op[o].pc = "done" => op'[o] = op[o],
         \A w \in Remotes, e \in Notes :
           Coming(w, e)' => Coming(w, e) \/ (e.what = "update" /\ e.id = NoId),
         \A r, n : \A w \in Remotes : Tells(w, r, n)' => Tells(w, r, n)
  PROVE  NoteInv'
<1>1. ASSUME NEW w \in Remotes, NEW e \in Notes, Coming(w, e)' PROVE Says(e)'
  <2>1. CASE e.what = "update" /\ e.id = NoId
    BY <2>1 DEF Says
  <2>2. CASE Coming(w, e)
    <3>1. Says(e)
      BY <2>2 DEF NoteInv
    <3>2. QED
      BY <3>1, SaysStill
  <2>3. QED
    BY <1>1, <2>1, <2>2
<1>2. ASSUME NEW w \in Remotes, NEW r \in Records, NEW n \in Nat, Tells(w, r, n)'
      PROVE  Vanished(r)'
  <2>1. Tells(w, r, n)
    BY <1>2
  <2>2. Vanished(r)
    BY <2>1 DEF NoteInv
  <2>3. QED
    BY <2>2, VanishedStill
<1>3. ASSUME NEW w \in Remotes, NEW r \in Records, NEW m \in Nat, NEW n \in Nat,
             "overlap" \notin flaws'[r], Tells(w, r, m)', Tells(w, r, n)'
      PROVE  m = n
  <2>1. "overlap" \notin flaws[r] /\ Tells(w, r, m) /\ Tells(w, r, n)
    BY <1>3
  <2>2. QED
    BY <2>1 DEF NoteInv
<1>4. QED
  BY <1>1, <1>2, <1>3 DEF NoteInv

\* An operation tells of its records, once of each, when it is over.
LEMMA NotesAfter ==
  ASSUME Fit, StoreTyped, WayTyped, OpInv, KeyInv, OrderInv, NoteInv, NEW o \in Ops, AfterHooks(o)
  PROVE  /\ outbox' \in Seq(Notes) /\ pubs' \in Nat /\ OrderInv' /\ NoteInv'
         /\ \A e : Has(outbox, e) => Has(outbox', e)
         /\ \A r \in Over(o) : key[r] = <<o, r>> => Ends(outbox', o, r)
         /\ \A q \in Ops, r \in Records : Ends(outbox, q, r) => Ends(outbox', q, r)
<1>1. /\ op[o].pc = "after" /\ rows' = rows /\ flaws' = flaws /\ chan' = chan /\ got' = got
      /\ op' \in [Ops -> Doings] /\ \A q \in Ops \ {o} : op'[q] = op[q]
      /\ op'[o].record = op[o].record /\ op'[o].pc = "done"
      /\ op'[o].inTx = op[o].inTx /\ op'[o].ok = op[o].ok
  BY AfterFacts
<1>2. PICK what : what = IF op[o].ok THEN "commit" ELSE "abort"
  OBVIOUS
<1>3. PICK s : s = Publications(Over(o), what)
  OBVIOUS
<1>4. Publish(s)
  BY <1>2, <1>3, AfterFacts
<1>5. Over(o) \in SUBSET Records
  BY DEF Over, StoreTyped, Doings
<1>6. /\ s \in Seq(Notes)
      /\ \A i \in DOMAIN s : /\ s[i].no = pubs + i /\ s[i].what = what
                             /\ s[i].record \in Over(o) /\ s[i].id = key[s[i].record]
                             /\ s[i].id # NoId
      /\ \A r \in Over(o) : key[r] # NoId => \E i \in DOMAIN s : s[i].record = r
      /\ \A i, j \in DOMAIN s : s[i].record = s[j].record => i = j
  BY <1>2, <1>3, <1>5, Published
<1>7. /\ outbox' \in Seq(Notes) /\ pubs' \in Nat /\ OrderInv'
      /\ \A e : Has(outbox', e) <=> Has(outbox, e) \/ Has(s, e)
  BY <1>1, <1>4, <1>6, OrderPublished
<1>8. \A q \in Ops : op[q].pc = "done" => op'[q] = op[q]
  BY <1>1
<1>9. Over(o)' = Over(o)
  BY <1>1 DEF Over
<1>10. \A r \in Over(o) : Takes(o, r) /\ Keyed(o, r) /\ KeyOf(r)
  BY <1>1, <1>5, OpFacts DEF Takes, KeyInv
<1>11. \A w \in Remotes, e \in Notes : Coming(w, e)' => Coming(w, e) \/ Has(s, e)
  BY <1>1, <1>7 DEF Coming, InBatch, Has
<1>12. ASSUME NEW e \in Notes, Has(s, e)
       PROVE  /\ e.record \in Over(o) /\ e.what = what /\ \E q \in Ops : e.id = <<q, e.record>>
              /\ "overlap" \notin flaws[e.record] => e.id = <<o, e.record>>
  <2>1. PICK i \in DOMAIN s : s[i] = e
    BY <1>12 DEF Has
  <2>2. e.record \in Over(o) /\ e.what = what /\ e.id = key[e.record] /\ e.id # NoId
    BY <1>6, <2>1
  <2>3. Keyed(o, e.record) /\ KeyOf(e.record)
    BY <1>10, <2>2
  <2>4. QED
    BY <2>2, <2>3 DEF KeyOf, Sole
<1>13. ASSUME NEW w \in Remotes, NEW e \in Notes, Coming(w, e)' PROVE Says(e)'
  <2>1. CASE Coming(w, e)
    <3>1. Says(e)
      BY <2>1 DEF NoteInv
    <3>2. QED
      BY <1>1, <1>8, <3>1, SaysStill
  <2>2. CASE Has(s, e)
    <3>1. e.what # "update" /\ (e.what = "commit" <=> op[o].ok)
      BY <1>2, <1>12, <2>2
    <3>2. PICK q \in Ops : e.id = <<q, e.record>> /\ ("overlap" \notin flaws[e.record] => q = o)
      BY <1>12, <2>2
    <3>3. e.record \in Over(o)'
      BY <1>9, <1>12, <2>2
    <3>4. QED
      BY <1>1, <3>1, <3>2, <3>3 DEF Says
  <2>3. QED
    BY <1>11, <1>13, <2>1, <2>2
<1>14. ASSUME NEW w \in Remotes, NEW r \in Records, NEW n \in Nat, Tells(w, r, n)'
       PROVE  \/ Tells(w, r, n)
              \/ \E e \in Notes : Has(s, e) /\ e.record = r /\ e.no = n /\ op[o].ok /\ r \in Over(o)
  <2>1. CASE \E e \in Notes : Coming(w, e)' /\ e.what = "commit" /\ e.record = r /\ e.no = n
    <3>1. PICK e \in Notes : Coming(w, e)' /\ e.what = "commit" /\ e.record = r /\ e.no = n
      BY <2>1
    <3>2. CASE Coming(w, e)
      BY <3>1, <3>2 DEF Tells
    <3>3. CASE Has(s, e)
      <4>1. e.what = what /\ e.record \in Over(o)
        BY <1>12, <3>3
      <4>2. QED
        BY <1>2, <3>1, <3>3, <4>1
    <3>4. QED
      BY <1>11, <3>1, <3>2, <3>3
  <2>2. CASE \E i \in DOMAIN got'[w] :
               got'[w][i].what = "commit" /\ got'[w][i].record = r /\ got'[w][i].no = n
    BY <1>1, <2>2 DEF Tells
  <2>3. QED
    BY <1>14, <2>1, <2>2 DEF Tells
<1>15. ASSUME NEW w \in Remotes, NEW r \in Records, NEW n \in Nat, Tells(w, r, n)'
       PROVE  Vanished(r)'
  <2>1. CASE Tells(w, r, n)
    <3>1. Vanished(r)
      BY <2>1 DEF NoteInv
    <3>2. QED
      BY <1>1, <1>8, <3>1, VanishedStill
  <2>2. CASE op[o].ok /\ r \in Over(o)
    <3>1. Won(o, r) /\ Won(o, r)'
      BY <1>1, <1>9, <2>2 DEF Won
    <3>2. r \notin rows
      BY <3>1, OpFacts
    <3>3. QED
      BY <1>1, <3>1, <3>2 DEF Vanished
  <2>3. QED
    BY <1>14, <1>15, <2>1, <2>2
<1>16. ASSUME NEW w \in Remotes, NEW r \in Records, NEW m \in Nat, NEW n \in Nat,
              "overlap" \notin flaws[r], Tells(w, r, m)', Tells(w, r, n)'
       PROVE  m = n
  <2>1. ASSUME r \in Over(o), NEW k \in Nat, Tells(w, r, k) PROVE FALSE
    <3>1. Vanished(r)
      BY <2>1 DEF NoteInv
    <3>2. PICK q \in Ops : Won(q, r) /\ op[q].pc = "done"
      BY <1>16, <3>1 DEF Vanished
    <3>3. Takes(o, r) /\ Sole(r) /\ Takes(q, r)
      BY <1>10, <1>16, <2>1, <3>2 DEF KeyOf, Takes
    <3>4. q = o
      BY <3>3 DEF Sole
    <3>5. QED
      BY <1>1, <3>2, <3>4
  <2>2. ASSUME NEW d \in Notes, NEW e \in Notes, Has(s, d), Has(s, e), d.record = e.record
        PROVE  d = e
    <3>1. PICK i, j \in DOMAIN s : s[i] = d /\ s[j] = e
      BY <2>2 DEF Has
    <3>2. i = j
      BY <1>6, <2>2, <3>1
    <3>3. QED
      BY <3>1, <3>2
  <2>3. CASE Tells(w, r, m) /\ Tells(w, r, n)
    BY <1>16, <2>3 DEF NoteInv
  <2>4. CASE r \in Over(o)
    <3>1. PICK d \in Notes : Has(s, d) /\ d.record = r /\ d.no = m
      BY <1>14, <1>16, <2>1, <2>4
    <3>2. PICK e \in Notes : Has(s, e) /\ e.record = r /\ e.no = n
      BY <1>14, <1>16, <2>1, <2>4
    <3>3. d = e
      BY <2>2, <3>1, <3>2
    <3>4. QED
      BY <3>1, <3>2, <3>3
  <2>5. QED
    BY <1>14, <1>16, <2>3, <2>4
<1>17. NoteInv'
  BY <1>1, <1>13, <1>15, <1>16 DEF NoteInv
<1>18. ASSUME NEW r \in Over(o), key[r] = <<o, r>> PROVE Ends(outbox', o, r)
  <2>1. key[r] # NoId
    BY <1>18 DEF Fit, NoId
  <2>2. PICK i \in DOMAIN s : s[i].record = r
    BY <1>6, <2>1
  <2>3. s[i] \in Notes /\ s[i].id = <<o, r>> /\ Has(s, s[i])
    BY <1>6, <1>18, <2>2 DEF Has
  <2>4. QED
    BY <1>7, <2>3 DEF Ends
<1>19. \A q \in Ops, r \in Records : Ends(outbox, q, r) => Ends(outbox', q, r)
  BY <1>7 DEF Ends
<1>20. QED
  BY <1>7, <1>17, <1>18, <1>19

-----------------------------------------------------------------------------
LEMMA PrepBefore ==
  ASSUME PrepInv, NEW w \in Remotes, NEW q \in Ops, NEW r \in Records,
         flaws[r] \subseteq flaws'[r], Keyed(q, r) => Keyed(q, r)',
         Ends(outbox, q, r) => Ends(outbox', q, r),
         flaws'[r] \cap {"overlap", "refused"} = {}, ~Keyed(q, r)', ~Ends(outbox', q, r)
  PROVE  Closes(chan[w], prepared[w], q, r)
BY DEF PrepInv

\* Nothing new is prepared, or asked for.
LEMMA PrepStays ==
  ASSUME PrepInv, \A r \in Records : flaws[r] \subseteq flaws'[r],
         \A q \in Ops, r \in Records : Keyed(q, r) => Keyed(q, r)',
         \A q \in Ops, r \in Records : Ends(outbox, q, r) => Ends(outbox', q, r),
         chan' = chan, \A w \in Remotes : prepared'[w] \subseteq prepared[w]
  PROVE  PrepInv'
<1>1. SUFFICES ASSUME NEW w \in Remotes, NEW q \in Ops, NEW r \in Records,
                      flaws'[r] \cap {"overlap", "refused"} = {}, ~Keyed(q, r)', ~Ends(outbox', q, r)
               PROVE  Closes(chan'[w], prepared'[w], q, r)
  BY DEF PrepInv
<1>2. Closes(chan[w], prepared[w], q, r)
  BY <1>1, PrepBefore
<1>3. QED
  BY <1>2 DEF Closes

\* The other workers are asked to prepare what is in the store.
LEMMA PrepAsked ==
  ASSUME WayTyped, PrepInv, \A r \in Records : flaws[r] \subseteq flaws'[r],
         \A q \in Ops, r \in Records : Keyed(q, r) => Keyed(q, r)',
         outbox' = outbox, prepared' = prepared,
         NEW o \in Ops, NEW set \in SUBSET Records, \A r \in set : Keyed(o, r)',
         Send([kind |-> "prepare", op |-> o, records |-> set])
  PROVE  PrepInv'
<1>1. SUFFICES ASSUME NEW w \in Remotes, NEW q \in Ops, NEW r \in Records,
                      flaws'[r] \cap {"overlap", "refused"} = {}, ~Keyed(q, r)', ~Ends(outbox', q, r)
               PROVE  Closes(chan'[w], prepared'[w], q, r)
  BY DEF PrepInv
<1>2. Closes(chan[w], prepared[w], q, r)
  BY <1>1, PrepBefore
<1>3. PICK m \in Prepares \union Batches : m = [kind |-> "prepare", op |-> o, records |-> set]
  BY DEF Prepares
<1>4. PICK n : n = Len(chan[w]) + 1
  OBVIOUS
<1>5. /\ n \in DOMAIN chan'[w] /\ chan'[w][n] = m
      /\ \A i \in DOMAIN chan[w] : i \in DOMAIN chan'[w] /\ chan'[w][i] = chan[w][i]
      /\ \A i \in DOMAIN chan'[w] : i = n \/ i \in DOMAIN chan[w]
  BY <1>3, <1>4, SentFacts
<1>6. ~Asks(m, q, r)
  BY <1>1, <1>3 DEF Asks
<1>7. \A k \in DOMAIN chan[w] : Ending(chan[w][k], q, r) => k \in DOMAIN chan'[w] /\ Ending(chan'[w][k], q, r)
  BY <1>5
<1>8. ASSUME NEW i \in DOMAIN chan'[w], Asks(chan'[w][i], q, r)
      PROVE  \E k \in DOMAIN chan'[w] : i < k /\ Ending(chan'[w][k], q, r)
  <2>1. i \in DOMAIN chan[w] /\ Asks(chan[w][i], q, r)
    BY <1>5, <1>6, <1>8
  <2>2. QED
    BY <1>2, <1>7, <2>1 DEF Closes
<1>9. <<q, r>> \in prepared'[w] => \E k \in DOMAIN chan'[w] : Ending(chan'[w][k], q, r)
  BY <1>2, <1>7 DEF Closes
<1>10. QED
  BY <1>8, <1>9 DEF Closes

\* The outbox goes on its way.
LEMMA PrepBatched ==
  ASSUME WayTyped, PrepInv, \A r \in Records : flaws[r] \subseteq flaws'[r],
         \A q \in Ops, r \in Records : Keyed(q, r) => Keyed(q, r)',
         prepared' = prepared, NEW m \in Batches, m.events = outbox, Send(m)
  PROVE  PrepInv'
<1>1. SUFFICES ASSUME NEW w \in Remotes, NEW q \in Ops, NEW r \in Records,
                      flaws'[r] \cap {"overlap", "refused"} = {}, ~Keyed(q, r)'
               PROVE  Closes(chan'[w], prepared'[w], q, r)
  BY DEF PrepInv
<1>2. m.kind = "publish" /\ m \in Prepares \union Batches
  BY DEF Batches
<1>3. PICK n : n = Len(chan[w]) + 1
  OBVIOUS
<1>4. /\ n \in DOMAIN chan'[w] /\ chan'[w][n] = m
      /\ \A i \in DOMAIN chan[w] : i \in DOMAIN chan'[w] /\ chan'[w][i] = chan[w][i] /\ i < n
      /\ \A i \in DOMAIN chan'[w] : i = n \/ i \in DOMAIN chan[w]
  BY <1>2, <1>3, SentFacts
<1>5. ASSUME NEW i \in DOMAIN chan'[w], Asks(chan'[w][i], q, r)
      PROVE  i \in DOMAIN chan[w] /\ Asks(chan[w][i], q, r) /\ i < n
  BY <1>2, <1>4, <1>5 DEF Asks
<1>6. CASE Ends(outbox, q, r)
  <2>1. Ending(chan'[w][n], q, r)
    BY <1>2, <1>4, <1>6 DEF Ending
  <2>2. QED
    BY <1>4, <1>5, <2>1 DEF Closes
<1>7. CASE ~Ends(outbox, q, r)
  <2>1. ~Keyed(q, r) /\ flaws[r] \cap {"overlap", "refused"} = {}
    BY <1>1
  <2>2. Closes(chan[w], prepared[w], q, r)
    BY <1>7, <2>1 DEF PrepInv
  <2>3. \A k \in DOMAIN chan[w] : Ending(chan[w][k], q, r) => k \in DOMAIN chan'[w] /\ Ending(chan'[w][k], q, r)
    BY <1>4
  <2>4. \A i \in DOMAIN chan'[w] : Asks(chan'[w][i], q, r) =>
          \E k \in DOMAIN chan'[w] : i < k /\ Ending(chan'[w][k], q, r)
    BY <1>4, <1>5, <2>2, <2>3 DEF Closes
  <2>5. QED
    BY <2>2, <2>3, <2>4 DEF Closes
<1>8. QED
  BY <1>6, <1>7

\* An operation is over.
LEMMA PrepAfter ==
  ASSUME StoreTyped, OpInv, KeyInv, PrepInv, NEW o \in Ops, AfterHooks(o),
         \A r \in Over(o) : key[r] = <<o, r>> => Ends(outbox', o, r),
         \A q \in Ops, r \in Records : Ends(outbox, q, r) => Ends(outbox', q, r)
  PROVE  PrepInv'
<1>1. /\ op[o].pc = "after" /\ flaws' = flaws /\ chan' = chan /\ prepared' = prepared
      /\ \A q \in Ops \ {o} : op'[q] = op[q]
  BY AfterFacts
<1>2. SUFFICES ASSUME NEW w \in Remotes, NEW q \in Ops, NEW r \in Records,
                      flaws'[r] \cap {"overlap", "refused"} = {}, ~Keyed(q, r)', ~Ends(outbox', q, r)
               PROVE  Closes(chan'[w], prepared'[w], q, r)
  BY DEF PrepInv
<1>3. CASE q = o /\ r \in Over(o)
  <2>1. Keyed(o, r) /\ KeyOf(r) /\ "overlap" \notin flaws[r]
    BY <1>1, <1>2, <1>3, OpFacts DEF KeyInv
  <2>2. key[r] = <<o, r>>
    BY <2>1 DEF KeyOf, Sole
  <2>3. QED
    BY <1>2, <1>3, <2>2
<1>4. CASE ~(q = o /\ r \in Over(o))
  <2>1. Keyed(q, r) => Keyed(q, r)'
    <3>1. CASE q = o
      BY <1>4, <3>1, OpFacts
    <3>2. CASE q # o
      BY <1>1, <3>2, OthersStay
    <3>3. QED
      BY <3>1, <3>2
  <2>2. flaws[r] \subseteq flaws'[r]
    BY <1>1
  <2>3. Closes(chan[w], prepared[w], q, r)
    BY <1>2, <2>1, <2>2, PrepBefore
  <2>4. QED
    BY <1>1, <2>3
<1>5. QED
  BY <1>3, <1>4

\* A worker takes what was sent to it.
LEMMA PrepReceived ==
  ASSUME WayTyped, PrepInv, NEW w \in Remotes, chan[w] # <<>>,
         chan' = [chan EXCEPT ![w] = Tail(@)], outbox' = outbox, flaws' = flaws, op' = op,
         NEW m, m = Head(chan[w]), \A v \in Remotes \ {w} : prepared'[v] = prepared[v],
         \/ m.kind = "prepare" /\ \A q \in Ops, r \in Records :
              <<q, r>> \in prepared'[w] => <<q, r>> \in prepared[w] \/ Asks(m, q, r)
         \/ m.kind = "publish" /\ \A q \in Ops, r \in Records :
              <<q, r>> \in prepared'[w] => <<q, r>> \in prepared[w] /\ ~Ends(m.events, q, r)
  PROVE  PrepInv'
<1>1. SUFFICES ASSUME NEW v \in Remotes, NEW q \in Ops, NEW r \in Records,
                      flaws'[r] \cap {"overlap", "refused"} = {}, ~Keyed(q, r)', ~Ends(outbox', q, r)
               PROVE  Closes(chan'[v], prepared'[v], q, r)
  BY DEF PrepInv
<1>2. Keyed(q, r)' <=> Keyed(q, r)
  BY DEF Keyed
<1>3. Closes(chan[v], prepared[v], q, r)
  BY <1>1, <1>2 DEF PrepInv
<1>4. CASE v # w
  BY <1>3, <1>4, TakenFacts
<1>5. CASE v = w
  <2>1. 1 \in DOMAIN chan[w] /\ m = chan[w][1] /\ Shifts(chan[w], chan'[w])
    BY TakenFacts
  <2>2. \A k \in DOMAIN chan[w] : Ending(chan[w][k], q, r) =>
          k = 1 \/ \E i \in DOMAIN chan'[w] : k = i + 1 /\ i \in Nat /\ Ending(chan'[w][i], q, r)
    BY <2>1 DEF Shifts
  <2>3. ASSUME NEW i \in DOMAIN chan'[w], Asks(chan'[w][i], q, r)
        PROVE  \E k \in DOMAIN chan'[w] : i < k /\ Ending(chan'[w][k], q, r)
    <3>1. PICK a \in DOMAIN chan[w] : a = i + 1 /\ i \in Nat /\ 1 < a /\ Asks(chan[w][a], q, r)
      BY <2>1, <2>3 DEF Shifts
    <3>2. PICK b \in DOMAIN chan[w] : a < b /\ Ending(chan[w][b], q, r)
      BY <1>3, <1>5, <3>1 DEF Closes
    <3>3. b # 1
      BY <3>1, <3>2
    <3>4. PICK k \in DOMAIN chan'[w] : b = k + 1 /\ k \in Nat /\ Ending(chan'[w][k], q, r)
      BY <2>2, <3>2, <3>3
    <3>5. i < k
      BY <3>1, <3>2, <3>4
    <3>6. QED
      BY <3>4, <3>5
  <2>4. ASSUME <<q, r>> \in prepared'[w]
        PROVE  \E k \in DOMAIN chan'[w] : Ending(chan'[w][k], q, r)
    <3>1. \E b \in DOMAIN chan[w] : b # 1 /\ Ending(chan[w][b], q, r)
      <4>1. CASE m.kind = "prepare"
        <5>1. <<q, r>> \in prepared[w] \/ Asks(m, q, r)
          BY <2>4, <4>1
        <5>2. CASE Asks(m, q, r)
          <6>1. PICK b \in DOMAIN chan[w] : 1 < b /\ Ending(chan[w][b], q, r)
            BY <1>3, <1>5, <2>1, <5>2 DEF Closes
          <6>2. QED
            BY <6>1
        <5>3. CASE <<q, r>> \in prepared[w]
          <6>1. PICK b \in DOMAIN chan[w] : Ending(chan[w][b], q, r)
            BY <1>3, <1>5, <5>3 DEF Closes
          <6>2. b # 1
            BY <2>1, <4>1, <6>1 DEF Ending
          <6>3. QED
            BY <6>1, <6>2
        <5>4. QED
          BY <5>1, <5>2, <5>3
      <4>2. CASE m.kind = "publish"
        <5>1. <<q, r>> \in prepared[w] /\ ~Ends(m.events, q, r)
          BY <2>4, <4>2
        <5>2. PICK b \in DOMAIN chan[w] : Ending(chan[w][b], q, r)
          BY <1>3, <1>5, <5>1 DEF Closes
        <5>3. b # 1
          BY <2>1, <5>1, <5>2 DEF Ending
        <5>4. QED
          BY <5>2, <5>3
      <4>3. QED
        BY <4>1, <4>2
    <3>2. QED
      BY <2>2, <3>1
  <2>5. QED
    BY <1>5, <2>3, <2>4 DEF Closes
<1>6. QED
  BY <1>4, <1>5

-----------------------------------------------------------------------------
LEMMA AwaitsStill ==
  ASSUME NEW w \in Remotes, NEW q \in Ops, NEW r \in Records, Awaits(w, q, r),
         asked[q] \subseteq asked'[q],
         \A i \in DOMAIN chan[w] : i \in DOMAIN chan'[w] /\ chan'[w][i] = chan[w][i]
  PROVE  Awaits(w, q, r)'
<1>1. PICK s \in SUBSET Records, i \in DOMAIN chan[w] :
        /\ <<w, s>> \in asked[q] /\ r \in s
        /\ chan[w][i] = [kind |-> "prepare", op |-> q, records |-> s]
  BY DEF Awaits
<1>2. /\ <<w, s>> \in asked'[q] /\ i \in DOMAIN chan'[w]
      /\ chan'[w][i] = [kind |-> "prepare", op |-> q, records |-> s]
  BY <1>1
<1>3. QED
  BY <1>1, <1>2 DEF Awaits

LEMMA HearsStill ==
  ASSUME NEW w \in Remotes, NEW q \in Ops, NEW r \in Records, Hears(w, q, r),
         prepared' = prepared, got' = got,
         Ends(outbox, q, r) =>
           Ends(outbox', q, r) \/ \E k \in DOMAIN chan'[w] : Ending(chan'[w][k], q, r),
         \A i \in DOMAIN chan[w] : i \in DOMAIN chan'[w] /\ chan'[w][i] = chan[w][i]
  PROVE  Hears(w, q, r)'
<1>1. (\E k \in DOMAIN chan[w] : Ending(chan[w][k], q, r)) =>
        \E k \in DOMAIN chan'[w] : Ending(chan'[w][k], q, r)
  OBVIOUS
<1>2. QED
  BY <1>1 DEF Hears

\* Nothing that is sent gets lost.
LEMMA HeardStays ==
  ASSUME NEW q \in Ops, NEW r \in Records, HeardOf(q, r), needs' = needs,
         Keyed(q, r)' => Keyed(q, r),
         Keyed(q, r)' /\ op'[q].pc # "after" =>
           op[q].pc # "after" /\ (needs[r] \subseteq rows => needs[r] \subseteq rows'),
         Won(q, r)' /\ op'[q].pc = "done" => Won(q, r) /\ op[q].pc = "done",
         \A w \in Remotes : Keyed(q, r)' /\ Awaits(w, q, r) => asked[q] \subseteq asked'[q],
         prepared' = prepared, got' = got,
         \A w \in Remotes : Ends(outbox, q, r) =>
           Ends(outbox', q, r) \/ \E k \in DOMAIN chan'[w] : Ending(chan'[w][k], q, r),
         \A w \in Remotes :
           \A i \in DOMAIN chan[w] : i \in DOMAIN chan'[w] /\ chan'[w][i] = chan[w][i]
  PROVE  HeardOf(q, r)'
<1>1. Keyed(q, r)' /\ op'[q].pc # "after" => needs'[r] \subseteq rows'
  BY DEF HeardOf
<1>2. ASSUME NEW w \in Remotes, Keyed(q, r)' PROVE <<q, r>> \in prepared'[w] \/ Awaits(w, q, r)'
  <2>1. <<q, r>> \in prepared[w] \/ Awaits(w, q, r)
    BY <1>2 DEF HeardOf
  <2>2. Awaits(w, q, r) => Awaits(w, q, r)'
    BY <1>2, AwaitsStill
  <2>3. QED
    BY <2>1, <2>2
<1>3. ASSUME NEW w \in Remotes, Won(q, r)', op'[q].pc = "done" PROVE Hears(w, q, r)'
  <2>1. Hears(w, q, r)
    BY <1>3 DEF HeardOf
  <2>2. QED
    BY <2>1, HearsStill
<1>4. QED
  BY <1>1, <1>2, <1>3 DEF HeardOf

\* The same for all deletes.
LEMMA HeardKept ==
  ASSUME HeardInv, needs' = needs, rows' = rows, prepared' = prepared, got' = got,
         \A q \in Ops : asked[q] \subseteq asked'[q],
         NEW o \in Ops, \A q \in Ops \ {o} : op'[q] = op[q],
         \A r \in Records : /\ flaws[r] \subseteq flaws'[r]
                            /\ Keyed(o, r)' => Keyed(o, r)
                            /\ Keyed(o, r)' => op'[o].pc = "after" \/ op[o].pc # "after"
                            /\ Won(o, r)' => Won(o, r) /\ op'[o] = op[o],
         \A q \in Ops, r \in Records, w \in Remotes :
           flaws'[r] \subseteq {"hidden here"} /\ Ends(outbox, q, r) =>
             Ends(outbox', q, r) \/ \E k \in DOMAIN chan'[w] : Ending(chan'[w][k], q, r),
         \A w \in Remotes :
           \A i \in DOMAIN chan[w] : i \in DOMAIN chan'[w] /\ chan'[w][i] = chan[w][i]
  PROVE  HeardInv'
<1>1. SUFFICES ASSUME NEW q \in Ops, NEW r \in Records, flaws'[r] \subseteq {"hidden here"}
               PROVE  HeardOf(q, r)'
  BY DEF HeardInv
<1>2. flaws[r] \subseteq {"hidden here"}
  BY <1>1
<1>3. HeardOf(q, r)
  BY <1>2 DEF HeardInv
<1>4. /\ Keyed(q, r)' => Keyed(q, r)
      /\ Keyed(q, r)' /\ op'[q].pc # "after" => op[q].pc # "after"
      /\ Won(q, r)' /\ op'[q].pc = "done" => Won(q, r) /\ op[q].pc = "done"
  <2>1. CASE q = o
    BY <2>1
  <2>2. CASE q # o
    BY <2>2, OthersStay
  <2>3. QED
    BY <2>1, <2>2
<1>5. \A w \in Remotes : Ends(outbox, q, r) =>
        Ends(outbox', q, r) \/ \E k \in DOMAIN chan'[w] : Ending(chan'[w][k], q, r)
  BY <1>1
<1>6. QED
  BY <1>3, <1>4, <1>5, HeardStays

\* What an operation puts into the store, the other workers are asked to prepare.
LEMMA HeardHooked ==
  ASSUME StoreTyped, WayTyped, OpInv, HeardInv, NEW o \in Ops, NEW set \in SUBSET Records,
         Hook(o, set), \A q \in Ops \ {o} : op'[q] = op[q], op[o].pc \in {"idle", "turn"},
         \A r \in Records : ~Won(o, r)', op'[o].pc # "after",
         \A r \in Records \ set : Keyed(o, r)' => Keyed(o, r),
         needs' = needs, rows' = rows, outbox' = outbox, prepared' = prepared, got' = got
  PROVE  HeardInv'
<1>1. SUFFICES ASSUME NEW q \in Ops, NEW r \in Records, flaws'[r] \subseteq {"hidden here"}
               PROVE  HeardOf(q, r)'
  BY DEF HeardInv
<1>2. PICK m \in Prepares \union Batches : m = [kind |-> "prepare", op |-> o, records |-> set]
  BY DEF Prepares
<1>3. /\ \A x \in Records \ set : flaws'[x] = flaws[x]
      /\ \A x \in set : flaws[x] \subseteq flaws'[x]
      /\ \A x \in set : "hidden" \notin flaws'[x] => needs[x] \subseteq rows
  BY HookTaken
<1>4. \/ Send(m) /\ asked' = [asked EXCEPT ![o] = Remotes \X {set}]
      \/ chan' = chan /\ asked' = asked /\ \A x \in set : "refused" \in flaws'[x]
  BY <1>2, HookTaken
<1>5. HeardOf(q, r)
  <2>1. flaws[r] \subseteq flaws'[r]
    BY <1>3
  <2>2. flaws[r] \subseteq {"hidden here"}
    BY <1>1, <2>1
  <2>3. QED
    BY <2>2 DEF HeardInv
<1>6. asked[o] = {}
  BY DEF OpInv, OpOf
<1>7. \A w \in Remotes :
        \A i \in DOMAIN chan[w] : i \in DOMAIN chan'[w] /\ chan'[w][i] = chan[w][i]
  BY <1>4, SentFacts
<1>8. CASE q = o /\ r \in set
  <2>1. Send(m) /\ asked' = [asked EXCEPT ![o] = Remotes \X {set}]
    BY <1>1, <1>4, <1>8
  <2>2. needs[r] \subseteq rows
    BY <1>1, <1>3, <1>8
  <2>3. ASSUME NEW w \in Remotes PROVE Awaits(w, o, r)'
    <3>1. PICK i : i \in DOMAIN chan'[w] /\ chan'[w][i] = m
      BY <2>1, SentFacts
    <3>2. <<w, set>> \in asked'[o]
      BY <2>1 DEF StoreTyped
    <3>3. QED
      BY <1>2, <1>8, <3>1, <3>2 DEF Awaits
  <2>4. QED
    BY <1>8, <2>2, <2>3 DEF HeardOf
<1>9. CASE ~(q = o /\ r \in set)
  <2>1. /\ Keyed(q, r)' => Keyed(q, r)
        /\ Keyed(q, r)' /\ op'[q].pc # "after" => op[q].pc # "after"
        /\ Won(q, r)' /\ op'[q].pc = "done" => Won(q, r) /\ op[q].pc = "done"
    <3>1. CASE q = o
      BY <1>9, <3>1
    <3>2. CASE q # o
      BY <3>2, OthersStay
    <3>3. QED
      BY <3>1, <3>2
  <2>2. asked[q] \subseteq asked'[q]
    BY <1>4, <1>6 DEF StoreTyped
  <2>3. QED
    BY <1>5, <1>7, <2>1, <2>2, HeardStays
<1>10. QED
  BY <1>8, <1>9

-----------------------------------------------------------------------------
LEMMA HeardPlain ==
  ASSUME StoreTyped, OpInv, HeardInv, NEW o \in Ops, PlainPrepared(o)
  PROVE  HeardInv'
<1>1. /\ op[o].pc = "asking" /\ op' = [op EXCEPT ![o].pc = "turn"] /\ Settled(o)
      /\ needs' = needs /\ rows' = rows /\ outbox' = outbox /\ chan' = chan
      /\ prepared' = prepared /\ got' = got
  BY DEF PlainPrepared, pubVars, remoteVars
<1>2. op[o] \in Doings /\ OpOf(o)
  BY DEF StoreTyped, OpInv
<1>3. op[o].kind = "plain" /\ op[o].inTx = {} /\ ~op[o].ok
  BY <1>1, <1>2 DEF OpOf, Doings
<1>4. /\ \A q \in Ops \ {o} : op'[q] = op[q]
      /\ op'[o].kind = "plain" /\ op'[o].record = op[o].record /\ op'[o].pc = "turn"
      /\ op'[o].inTx = {} /\ ~op'[o].ok
  BY <1>1, <1>2, <1>3 DEF StoreTyped, Doings
<1>5. PICK set \in SUBSET Records : set = {op[o].record}
  BY <1>2 DEF Doings
<1>6. flaws' = Met(set, LAMBDA r : Late)
  BY <1>5 DEF PlainPrepared
<1>7. /\ \A r \in Records : flaws[r] \subseteq flaws'[r]
      /\ \A r \in set : Late \subseteq flaws'[r]
      /\ asked[o] = {} \/ Late = {"late"}
      /\ \A q \in Ops \ {o} : asked'[q] = asked[q]
  BY <1>1, <1>6, SettledFacts, LateFlaws
<1>8. SUFFICES ASSUME NEW q \in Ops, NEW r \in Records, flaws'[r] \subseteq {"hidden here"}
               PROVE  HeardOf(q, r)'
  BY DEF HeardInv
<1>9. HeardOf(q, r)
  <2>1. flaws[r] \subseteq {"hidden here"}
    BY <1>7, <1>8
  <2>2. QED
    BY <2>1 DEF HeardInv
<1>10. /\ Keyed(q, r)' => Keyed(q, r)
       /\ Keyed(q, r)' /\ op'[q].pc # "after" => op[q].pc # "after"
       /\ Won(q, r)' /\ op'[q].pc = "done" => Won(q, r) /\ op[q].pc = "done"
       /\ Keyed(q, r)' => asked[q] \subseteq asked'[q]
  <2>1. CASE q = o
    <3>1. Keyed(o, r)' => Keyed(o, r) /\ r \in set
      BY <1>1, <1>3, <1>4, <1>5 DEF Keyed
    <3>2. r \in set => asked[o] = {}
      BY <1>7, <1>8
    <3>3. QED
      BY <1>1, <1>4, <2>1, <3>1, <3>2
  <2>2. CASE q # o
    BY <1>4, <1>7, <2>2, OthersStay
  <2>3. QED
    BY <2>1, <2>2
<1>11. QED
  BY <1>1, <1>9, <1>10, HeardStays

\* A rule looks at nothing that another operation's transaction takes away.
LEMMA NeedsStay ==
  ASSUME Fit, StoreTyped, RuleTyped, OpInv, NEW o \in Ops, op[o].pc = "open",
         NEW r \in Records, r \notin Over(o), needs[r] \subseteq rows
  PROVE  needs[r] \subseteq rows \ Over(o)
<1>1. op[o] \in Doings /\ OpOf(o) /\ Parent # Child
  BY DEF Fit, StoreTyped, OpInv
<1>2. Records = {Parent, Child}
  BY DEF Records
<1>3. CASE r = Parent
  BY <1>3 DEF RuleTyped
<1>4. CASE r = Child
  <2>1. Parent \notin Over(o) \/ Parent \notin needs[Child]
    <3>1. SUFFICES ASSUME Parent \in Over(o), Parent \in needs[Child] PROVE FALSE
      OBVIOUS
    <3>2. op[o].record = Parent
      BY <1>1, <3>1 DEF Over, OpOf
    <3>3. Child \in rows
      BY <1>4, <3>1 DEF RuleTyped
    <3>4. Child \in op[o].inTx
      BY <1>1, <3>2, <3>3 DEF OpOf
    <3>5. QED
      BY <1>4, <3>4 DEF Over
  <2>2. needs[Child] \subseteq {Parent, Child}
    BY <1>2 DEF RuleTyped
  <2>3. QED
    BY <1>4, <2>1, <2>2
<1>5. QED
  BY <1>2, <1>3, <1>4

LEMMA HeardClosed ==
  ASSUME Fit, StoreTyped, RuleTyped, OpInv, KeyInv, HeardInv, NEW o \in Ops, CloseTx(o)
  PROVE  HeardInv'
<1>1. PICK ok \in BOOLEAN : /\ op' = [op EXCEPT ![o].pc = "after", ![o].ok = ok]
                            /\ rows' = IF ok THEN rows \ Over(o) ELSE rows
  BY DEF CloseTx, Over
<1>2. /\ op[o].pc = "open" /\ Settled(o) /\ needs' = needs
      /\ outbox' = outbox /\ chan' = chan /\ prepared' = prepared /\ got' = got
      /\ flaws' = Met(op[o].inTx, LAMBDA r : Late)
  BY DEF CloseTx, pubVars, remoteVars
<1>3. op[o] \in Doings /\ OpOf(o) /\ op[o].inTx \in SUBSET Records
  BY DEF StoreTyped, OpInv, Doings
<1>4. /\ \A q \in Ops \ {o} : op'[q] = op[q]
      /\ op'[o].kind = op[o].kind /\ op'[o].record = op[o].record /\ op'[o].pc = "after"
      /\ op'[o].inTx = op[o].inTx
  BY <1>1, <1>3 DEF StoreTyped, Doings
<1>5. /\ \A r \in Records : flaws[r] \subseteq flaws'[r]
      /\ \A r \in op[o].inTx : Late \subseteq flaws'[r]
      /\ asked[o] = {} \/ Late = {"late"}
      /\ \A q \in Ops \ {o} : asked'[q] = asked[q]
  BY <1>2, <1>3, SettledFacts, LateFlaws
<1>6. op[o].kind \in {"plain", "tx"}
  BY <1>2, <1>3 DEF OpOf, Doings
<1>7. SUFFICES ASSUME NEW q \in Ops, NEW r \in Records, flaws'[r] \subseteq {"hidden here"}
               PROVE  HeardOf(q, r)'
  BY DEF HeardInv
<1>8. HeardOf(q, r)
  <2>1. flaws[r] \subseteq {"hidden here"}
    BY <1>5, <1>7
  <2>2. QED
    BY <2>1 DEF HeardInv
<1>9. CASE q = o
  <2>1. Keyed(o, r)' => Keyed(o, r)
    BY <1>2, <1>4 DEF Keyed
  <2>2. ASSUME NEW w \in Remotes, Awaits(w, o, r) PROVE asked[o] \subseteq asked'[o]
    <3>1. PICK s \in SUBSET Records : <<w, s>> \in asked[o] /\ r \in s
      BY <2>2 DEF Awaits
    <3>2. <<w, s>>[2] = op[o].inTx
      BY <1>2, <1>3, <3>1 DEF OpOf
    <3>3. r \in op[o].inTx
      BY <3>1, <3>2
    <3>4. asked[o] = {}
      BY <1>5, <1>7, <3>3
    <3>5. QED
      BY <3>4
  <2>3. QED
    BY <1>2, <1>4, <1>8, <1>9, <2>1, <2>2, HeardStays
<1>10. CASE q # o
  <2>1. /\ Keyed(q, r)' <=> Keyed(q, r)
        /\ Won(q, r)' <=> Won(q, r)
        /\ op'[q] = op[q] /\ asked'[q] = asked[q]
    BY <1>4, <1>5, <1>10, OthersStay
  <2>2. ASSUME Keyed(q, r), needs[r] \subseteq rows PROVE needs[r] \subseteq rows'
    <3>1. "overlap" \notin flaws[r] /\ KeyOf(r)
      BY <1>5, <1>7 DEF KeyInv
    <3>2. Sole(r) /\ Takes(q, r)
      BY <2>2, <3>1, OpFacts DEF KeyOf, Takes
    <3>3. ~Takes(o, r)
      BY <1>10, <3>2 DEF Sole
    <3>4. r \notin Over(o)
      BY <1>2, <1>6, <3>3 DEF Takes, Deletes, Over
    <3>5. needs[r] \subseteq rows \ Over(o)
      BY <1>2, <2>2, <3>4, NeedsStay
    <3>6. QED
      BY <1>1, <2>2, <3>5
  <2>3. QED
    BY <1>2, <1>8, <2>1, <2>2, HeardStays
<1>11. QED
  BY <1>9, <1>10

LEMMA HeardAfter ==
  ASSUME StoreTyped, OpInv, KeyInv, HeardInv, NEW o \in Ops, AfterHooks(o),
         \A r \in Over(o) : key[r] = <<o, r>> => Ends(outbox', o, r),
         \A q \in Ops, r \in Records : Ends(outbox, q, r) => Ends(outbox', q, r)
  PROVE  HeardInv'
<1>1. /\ op[o].pc = "after" /\ rows' = rows /\ asked' = asked /\ needs' = needs
      /\ flaws' = flaws /\ chan' = chan /\ prepared' = prepared /\ got' = got
      /\ \A q \in Ops \ {o} : op'[q] = op[q]
      /\ op'[o].record = op[o].record /\ op'[o].pc = "done"
      /\ op'[o].inTx = op[o].inTx /\ op'[o].ok = op[o].ok
  BY AfterFacts
<1>2. SUFFICES ASSUME NEW q \in Ops, NEW r \in Records, flaws'[r] \subseteq {"hidden here"}
               PROVE  HeardOf(q, r)'
  BY DEF HeardInv
<1>3. HeardOf(q, r)
  BY <1>1, <1>2 DEF HeardInv
<1>4. CASE q # o
  <2>1. /\ Keyed(q, r)' <=> Keyed(q, r)
        /\ Won(q, r)' <=> Won(q, r)
        /\ op'[q] = op[q] /\ asked'[q] = asked[q]
    BY <1>1, <1>4, OthersStay
  <2>2. QED
    BY <1>1, <1>3, <2>1, HeardStays
<1>5. CASE q = o
  <2>1. ~Keyed(o, r)'
    BY <1>1 DEF Keyed
  <2>2. ASSUME NEW w \in Remotes, Won(o, r)' PROVE Hears(w, o, r)'
    <3>1. r \in Over(o)
      BY <1>1, <2>2 DEF Won, Over
    <3>2. Keyed(o, r) /\ KeyOf(r) /\ "overlap" \notin flaws[r]
      BY <1>1, <1>2, <3>1, OpFacts DEF KeyInv
    <3>3. key[r] = <<o, r>>
      BY <3>2 DEF KeyOf, Sole
    <3>4. Ends(outbox', o, r)
      BY <3>1, <3>3
    <3>5. ~Awaits(w, o, r)
      <4>1. asked[o] = {}
        BY <1>1 DEF OpInv, OpOf
      <4>2. QED
        BY <4>1 DEF Awaits
    <3>6. <<o, r>> \in prepared'[w]
      BY <1>1, <1>3, <1>5, <3>2, <3>5 DEF HeardOf
    <3>7. QED
      BY <3>4, <3>6 DEF Hears
  <2>3. QED
    BY <1>5, <2>1, <2>2 DEF HeardOf
<1>6. QED
  BY <1>4, <1>5

-----------------------------------------------------------------------------
\* What is behind the first on a way moves up.
LEMMA EndingMoves ==
  ASSUME NEW c, NEW d, Shifts(c, d), NEW q, NEW r, ~Ending(c[1], q, r),
         \E k \in DOMAIN c : Ending(c[k], q, r)
  PROVE  \E k \in DOMAIN d : Ending(d[k], q, r)
<1>1. PICK k \in DOMAIN c : Ending(c[k], q, r)
  OBVIOUS
<1>2. PICK i \in DOMAIN d : d[i] = c[k]
  BY <1>1 DEF Shifts
<1>3. QED
  BY <1>1, <1>2

LEMMA AwaitsMoves ==
  ASSUME NEW w \in Remotes, NEW q \in Ops, NEW r \in Records, NEW m,
         m = chan[w][1], Shifts(chan[w], chan'[w]),
         NEW s \in SUBSET Records, NEW i \in DOMAIN chan[w], <<w, s>> \in asked'[q],
         r \in s, chan[w][i] = [kind |-> "prepare", op |-> q, records |-> s]
  PROVE  Awaits(w, q, r)' \/ (m.kind = "prepare" /\ m.op = q /\ r \in m.records)
<1>1. CASE i = 1
  BY <1>1
<1>2. CASE i # 1
  <2>1. PICK k \in DOMAIN chan'[w] : chan'[w][k] = chan[w][i]
    BY <1>2 DEF Shifts
  <2>2. QED
    BY <2>1 DEF Awaits
<1>3. QED
  BY <1>1, <1>2

\* The operations stay, and so does what is on the way to v.
LEMMA HeardElsewhere ==
  ASSUME NEW v \in Remotes, NEW q \in Ops, NEW r \in Records,
         chan'[v] = chan[v], prepared'[v] = prepared[v], got'[v] = got[v], outbox' = outbox,
         \A s : <<v, s>> \in asked[q] => <<v, s>> \in asked'[q]
  PROVE  (Hears(v, q, r) => Hears(v, q, r)') /\ (Awaits(v, q, r) => Awaits(v, q, r)')
BY DEF Hears, Awaits

\* A worker prepares what it is asked to, unless the rule hides it.
LEMMA HeardPrepared ==
  ASSUME StoreTyped, WayTyped, OpInv, HeardInv, NEW w \in Remotes, chan[w] # <<>>,
         chan' = [chan EXCEPT ![w] = Tail(@)], outbox' = outbox, flaws' = flaws, op' = op,
         needs' = needs, rows' = rows, got' = got, NEW m \in Prepares, m = Head(chan[w]),
         prepared' = [prepared EXCEPT
           ![w] = @ \union {<<m.op, r>> : r \in {q \in m.records : Visible(q, rows)}}],
         asked' = [asked EXCEPT ![m.op] = @ \ {<<w, m.records>>}]
  PROVE  HeardInv'
<1>1. /\ \A v \in Remotes \ {w} : chan'[v] = chan[v]
      /\ m = chan[w][1] /\ Shifts(chan[w], chan'[w])
  BY TakenFacts
<1>2. m.kind = "prepare" /\ m.op \in Ops /\ m.records \in SUBSET Records
  BY DEF Prepares
<1>3. /\ \A v \in Remotes \ {w} : prepared'[v] = prepared[v]
      /\ prepared[w] \subseteq prepared'[w]
      /\ \A r \in m.records : needs[r] \subseteq rows => <<m.op, r>> \in prepared'[w]
  BY DEF WayTyped, Visible
<1>4. /\ \A q \in Ops : \A a \in asked[q] : a \in asked'[q] \/ (q = m.op /\ a = <<w, m.records>>)
  BY <1>2 DEF StoreTyped
<1>5. SUFFICES ASSUME NEW q \in Ops, NEW r \in Records, flaws'[r] \subseteq {"hidden here"}
               PROVE  HeardOf(q, r)'
  BY DEF HeardInv
<1>6. HeardOf(q, r)
  BY <1>5 DEF HeardInv
<1>7. (Keyed(q, r)' <=> Keyed(q, r)) /\ (Won(q, r)' <=> Won(q, r))
  BY DEF Keyed, Won, Over
<1>8. ASSUME NEW v \in Remotes \ {w}
      PROVE  (Hears(v, q, r) => Hears(v, q, r)') /\ (Awaits(v, q, r) => Awaits(v, q, r)')
  <2>1. \A s : <<v, s>> \in asked[q] => <<v, s>> \in asked'[q]
    BY <1>4
  <2>2. chan'[v] = chan[v] /\ prepared'[v] = prepared[v] /\ got'[v] = got[v]
    BY <1>1, <1>3
  <2>3. QED
    BY <2>1, <2>2, HeardElsewhere
<1>9. ASSUME Hears(w, q, r) PROVE Hears(w, q, r)'
  <2>1. ~Ending(chan[w][1], q, r)
    BY <1>1, <1>2 DEF Ending
  <2>2. (\E k \in DOMAIN chan[w] : Ending(chan[w][k], q, r)) =>
          \E k \in DOMAIN chan'[w] : Ending(chan'[w][k], q, r)
    BY <1>1, <2>1, EndingMoves
  <2>3. QED
    BY <1>3, <1>9, <2>2 DEF Hears
<1>10. ASSUME Keyed(q, r), Awaits(w, q, r) PROVE <<q, r>> \in prepared'[w] \/ Awaits(w, q, r)'
  <2>1. PICK s \in SUBSET Records, i \in DOMAIN chan[w] :
          /\ <<w, s>> \in asked[q] /\ r \in s
          /\ chan[w][i] = [kind |-> "prepare", op |-> q, records |-> s]
    BY <1>10 DEF Awaits
  <2>2. op[q].pc # "after"
    BY <2>1 DEF OpInv, OpOf
  <2>3. needs[r] \subseteq rows
    BY <1>6, <1>10, <2>2 DEF HeardOf
  <2>4. q = m.op /\ r \in m.records => <<q, r>> \in prepared'[w]
    BY <1>3, <2>3
  <2>5. CASE <<w, s>> \in asked'[q]
    <3>1. Awaits(w, q, r)' \/ (m.op = q /\ r \in m.records)
      BY <1>1, <2>1, <2>5, AwaitsMoves
    <3>2. QED
      BY <2>4, <3>1
  <2>6. CASE <<w, s>> \notin asked'[q]
    <3>1. q = m.op /\ <<w, s>> = <<w, m.records>>
      BY <1>4, <2>1, <2>6
    <3>2. s = m.records
      BY <3>1
    <3>3. QED
      BY <2>1, <2>4, <3>1, <3>2
  <2>7. QED
    BY <2>5, <2>6
<1>11. ASSUME NEW v \in Remotes
       PROVE  /\ Keyed(q, r) => <<q, r>> \in prepared'[v] \/ Awaits(v, q, r)'
              /\ Won(q, r) /\ op[q].pc = "done" => Hears(v, q, r)'
  <2>1. /\ Keyed(q, r) => <<q, r>> \in prepared[v] \/ Awaits(v, q, r)
        /\ Won(q, r) /\ op[q].pc = "done" => Hears(v, q, r)
    BY <1>6 DEF HeardOf
  <2>2. CASE v = w
    BY <1>3, <1>9, <1>10, <2>1, <2>2
  <2>3. CASE v # w
    BY <1>3, <1>8, <2>1, <2>3
  <2>4. QED
    BY <2>2, <2>3
<1>12. Keyed(q, r) /\ op[q].pc # "after" => needs[r] \subseteq rows
  BY <1>6 DEF HeardOf
<1>13. QED
  BY <1>7, <1>11, <1>12 DEF HeardOf

\* A worker tells its client of a delete that committed.
LEMMA HeardTold ==
  ASSUME Fit, StoreTyped, WayTyped, OpInv, NoteInv, HeardInv, NEW w \in Remotes, chan[w] # <<>>,
         chan' = [chan EXCEPT ![w] = Tail(@)], outbox' = outbox, flaws' = flaws, op' = op,
         needs' = needs, rows' = rows, asked' = asked, NEW m \in Batches, m = Head(chan[w]),
         NEW h, HandedOf(w, m.events, DOMAIN m.events, h), got' = [got EXCEPT ![w] = @ \o h],
         prepared' = [prepared EXCEPT ![w] = @ \ {m.events[i].id : i \in DOMAIN m.events}]
  PROVE  HeardInv'
<1>1. /\ \A v \in Remotes \ {w} : chan'[v] = chan[v]
      /\ 1 \in DOMAIN chan[w] /\ m = chan[w][1] /\ Shifts(chan[w], chan'[w])
  BY TakenFacts
<1>2. m.kind = "publish" /\ m.events \in Seq(Notes)
  BY DEF Batches
<1>3. /\ \A v \in Remotes \ {w} : prepared'[v] = prepared[v] /\ got'[v] = got[v]
      /\ \A e \in prepared[w] : e \in prepared'[w] \/ \E i \in DOMAIN m.events : m.events[i].id = e
      /\ got[w] \in Seq(Handouts) /\ h \in Seq(Handouts) /\ got'[w] = got[w] \o h
  BY DEF WayTyped, HandedOf
<1>4. SUFFICES ASSUME NEW q \in Ops, NEW r \in Records, flaws'[r] \subseteq {"hidden here"}
               PROVE  HeardOf(q, r)'
  BY DEF HeardInv
<1>5. HeardOf(q, r) /\ "overlap" \notin flaws[r]
  BY <1>4 DEF HeardInv
<1>6. (Keyed(q, r)' <=> Keyed(q, r)) /\ (Won(q, r)' <=> Won(q, r))
  BY DEF Keyed, Won, Over
<1>7. ASSUME <<q, r>> \in prepared[w], <<q, r>> \notin prepared'[w]
      PROVE  Ends(m.events, q, r)
  <2>1. PICK i \in DOMAIN m.events : m.events[i].id = <<q, r>>
    BY <1>3, <1>7
  <2>2. m.events[i] \in Notes
    BY <1>2, <2>1
  <2>3. QED
    BY <2>1, <2>2 DEF Ends, Has
<1>8. ASSUME Ends(m.events, q, r)
      PROVE  /\ op[q].pc = "done"
             /\ \E e \in Notes : /\ Has(m.events, e) /\ e.id = <<q, r>> /\ e.record = r
                                 /\ e.what = "commit" <=> op[q].ok
  <2>1. PICK e \in Notes : Has(m.events, e) /\ e.id = <<q, r>>
    BY <1>8 DEF Ends
  <2>2. Coming(w, e)
    BY <1>1, <1>2, <2>1 DEF Coming, InBatch
  <2>3. Says(e)
    BY <2>2 DEF NoteInv
  <2>4. e.id # NoId
    BY <2>1 DEF Fit, NoId
  <2>5. PICK x \in Ops : /\ e.id = <<x, e.record>>
                         /\ "overlap" \notin flaws[e.record] =>
                              /\ op[x].pc = "done" /\ e.record \in Over(x)
                              /\ e.what = "commit" <=> op[x].ok
    BY <2>3, <2>4 DEF Says
  <2>6. x = q /\ e.record = r
    BY <2>1, <2>5
  <2>7. QED
    BY <1>5, <2>1, <2>5, <2>6
<1>9. ASSUME NEW v \in Remotes \ {w}
      PROVE  (Hears(v, q, r) => Hears(v, q, r)') /\ (Awaits(v, q, r) => Awaits(v, q, r)')
  BY <1>1, <1>3, HeardElsewhere
<1>10. ASSUME Keyed(q, r)
       PROVE  /\ <<q, r>> \in prepared[w] => <<q, r>> \in prepared'[w]
              /\ Awaits(w, q, r) => Awaits(w, q, r)'
  <2>1. op[q].pc # "done"
    BY <1>10, OpFacts
  <2>2. <<q, r>> \in prepared[w] => <<q, r>> \in prepared'[w]
    BY <1>7, <1>8, <2>1
  <2>3. ASSUME Awaits(w, q, r) PROVE Awaits(w, q, r)'
    <3>1. PICK s \in SUBSET Records, i \in DOMAIN chan[w] :
            /\ <<w, s>> \in asked[q] /\ r \in s
            /\ chan[w][i] = [kind |-> "prepare", op |-> q, records |-> s]
      BY <2>3 DEF Awaits
    <3>2. QED
      BY <1>1, <1>2, <3>1, AwaitsMoves
  <2>4. QED
    BY <2>2, <2>3
<1>11. ASSUME Won(q, r), Hears(w, q, r) PROVE Hears(w, q, r)'
  <2>1. CASE \E i \in DOMAIN got[w] : got[w][i].what = "commit" /\ got[w][i].record = r
    <3>1. \A i \in DOMAIN got[w] : i \in DOMAIN got'[w] /\ got'[w][i] = got[w][i]
      BY <1>3, Joined
    <3>2. QED
      BY <2>1, <3>1 DEF Hears
  <2>2. CASE <<q, r>> \in prepared[w] /\ Ends(m.events, q, r)
    <3>1. PICK e \in Notes : /\ Has(m.events, e) /\ e.id = <<q, r>> /\ e.record = r
                             /\ e.what = "commit"
      BY <1>8, <1>11, <2>2 DEF Won
    <3>2. PICK k \in DOMAIN m.events : m.events[k] = e
      BY <3>1 DEF Has
    <3>3. Passes(w, m.events[k])
      BY <2>2, <3>1, <3>2 DEF Passes
    <3>4. Has(h, View(m.events[k]))
      BY <3>3 DEF HandedOf
    <3>5. PICK i \in DOMAIN h : h[i] = View(e)
      BY <3>2, <3>4 DEF Has
    <3>6. h[i].what = "commit" /\ h[i].record = r
      BY <3>1, <3>5 DEF View
    <3>7. PICK n : n = Len(got[w]) + i
      OBVIOUS
    <3>8. n \in DOMAIN got'[w] /\ got'[w][n] = h[i]
      BY <1>3, <3>7, Joined
    <3>9. QED
      BY <3>6, <3>8 DEF Hears
  <2>3. CASE /\ <<q, r>> \in prepared[w] /\ ~Ends(m.events, q, r)
             /\ Ends(outbox, q, r) \/ \E k \in DOMAIN chan[w] : Ending(chan[w][k], q, r)
    <3>1. <<q, r>> \in prepared'[w]
      BY <1>7, <2>3
    <3>2. ~Ending(chan[w][1], q, r)
      BY <1>1, <2>3 DEF Ending
    <3>3. (\E k \in DOMAIN chan[w] : Ending(chan[w][k], q, r)) =>
            \E k \in DOMAIN chan'[w] : Ending(chan'[w][k], q, r)
      BY <1>1, <3>2, EndingMoves
    <3>4. QED
      BY <2>3, <3>1, <3>3 DEF Hears
  <2>4. QED
    BY <1>11, <2>1, <2>2, <2>3 DEF Hears
<1>12. ASSUME NEW v \in Remotes
       PROVE  /\ Keyed(q, r) => <<q, r>> \in prepared'[v] \/ Awaits(v, q, r)'
              /\ Won(q, r) /\ op[q].pc = "done" => Hears(v, q, r)'
  <2>1. /\ Keyed(q, r) => <<q, r>> \in prepared[v] \/ Awaits(v, q, r)
        /\ Won(q, r) /\ op[q].pc = "done" => Hears(v, q, r)
    BY <1>5 DEF HeardOf
  <2>2. CASE v = w
    BY <1>10, <1>11, <2>1, <2>2
  <2>3. CASE v # w
    BY <1>3, <1>9, <2>1, <2>3
  <2>4. QED
    BY <2>2, <2>3
<1>13. Keyed(q, r) /\ op[q].pc # "after" => needs[r] \subseteq rows
  BY <1>5 DEF HeardOf
<1>14. QED
  BY <1>6, <1>12, <1>13 DEF HeardOf

\* What expires is a flaw of the delete.
LEMMA HeardExpired ==
  ASSUME StoreTyped, WayTyped, HeardInv, NEW w \in Remotes, NEW e \in EventIds, Expire(w, e)
  PROVE  /\ HeardInv' /\ \A v \in Remotes : prepared'[v] \subseteq prepared[v]
         /\ flaws' \in [Records -> SUBSET Flaws]
         /\ \A r \in Records : flaws[r] \subseteq flaws'[r]
         /\ prepared' \in [Remotes -> SUBSET EventIds]
<1>1. /\ needs' = needs /\ rows' = rows /\ op' = op /\ asked' = asked /\ outbox' = outbox
      /\ chan' = chan /\ got' = got /\ prepared' = [prepared EXCEPT ![w] = @ \ {e}]
      /\ flaws' = Met({e[2]}, LAMBDA r : {"expired"})
  BY DEF Expire, opVars, pubVars
<1>2. /\ flaws' \in [Records -> SUBSET Flaws]
      /\ \A r \in Records : flaws[r] \subseteq flaws'[r]
      /\ \A r \in Records : r = e[2] => "expired" \in flaws'[r]
  BY <1>1 DEF Met, Flaws, StoreTyped
<1>3. /\ prepared' \in [Remotes -> SUBSET EventIds]
      /\ \A v \in Remotes : prepared'[v] \subseteq prepared[v]
      /\ \A v \in Remotes : \A x \in prepared[v] : x # e => x \in prepared'[v]
  BY <1>1 DEF WayTyped
<1>4. ASSUME NEW q \in Ops, NEW r \in Records, flaws'[r] \subseteq {"hidden here"}
      PROVE  HeardOf(q, r)'
  <2>1. <<q, r>> # e
    <3>1. r # e[2]
      BY <1>2, <1>4
    <3>2. QED
      BY <3>1
  <2>2. flaws[r] \subseteq {"hidden here"}
    BY <1>2, <1>4
  <2>3. HeardOf(q, r)
    BY <2>2 DEF HeardInv
  <2>4. \A v \in Remotes : <<q, r>> \in prepared[v] => <<q, r>> \in prepared'[v]
    BY <1>3, <2>1
  <2>5. (Keyed(q, r)' <=> Keyed(q, r)) /\ (Won(q, r)' <=> Won(q, r))
    BY <1>1 DEF Keyed, Won, Over
  <2>6. ASSUME NEW v \in Remotes
        PROVE  (Hears(v, q, r) => Hears(v, q, r)') /\ (Awaits(v, q, r) => Awaits(v, q, r)')
    BY <1>1, <2>4 DEF Hears, Awaits
  <2>7. ASSUME NEW v \in Remotes
        PROVE  /\ Keyed(q, r) => <<q, r>> \in prepared'[v] \/ Awaits(v, q, r)'
               /\ Won(q, r) /\ op[q].pc = "done" => Hears(v, q, r)'
    BY <2>3, <2>4, <2>6 DEF HeardOf
  <2>8. Keyed(q, r) /\ op[q].pc # "after" => needs[r] \subseteq rows
    BY <2>3 DEF HeardOf
  <2>9. QED
    BY <1>1, <2>5, <2>7, <2>8 DEF HeardOf
<1>5. HeardInv'
  BY <1>4 DEF HeardInv
<1>6. QED
  BY <1>2, <1>3, <1>5

-----------------------------------------------------------------------------
\* Nothing moves between the workers.
LEMMA WayStill ==
  ASSUME WayTyped, OrderInv, NoteInv, PrepInv, rows' \subseteq rows, outbox' = outbox, pubs' = pubs,
         chan' = chan, prepared' = prepared, got' = got,
         \A r \in Records : flaws[r] \subseteq flaws'[r],
         \A o \in Ops : op[o].pc = "done" => op'[o] = op[o],
         \A q \in Ops, r \in Records : Keyed(q, r) => Keyed(q, r)'
  PROVE  WayTyped' /\ OrderInv' /\ NoteInv' /\ PrepInv'
<1>1. WayTyped'
  BY DEF WayTyped
<1>2. \A w \in Remotes, e \in Notes : Coming(w, e)' => Coming(w, e)
  BY DEF Coming, InBatch, Has
<1>3. \A r, n : \A w \in Remotes : Tells(w, r, n)' => Tells(w, r, n)
  BY <1>2, TellsStay
<1>4. NoteInv'
  BY <1>2, <1>3, NotesStay
<1>5. PrepInv'
  BY PrepStays
<1>6. QED
  BY <1>1, <1>4, <1>5, OrderStays

\* The other workers are asked to prepare what an operation deletes.
LEMMA WayHooked ==
  ASSUME DeleteInv, NEW o \in Ops, NEW set \in SUBSET Records,
         Hook(o, set), \A q \in Ops \ {o} : op'[q] = op[q], op[o].pc \in {"idle", "turn"},
         \A r \in Records : ~Won(o, r)', op'[o].pc # "after",
         \A r \in Records : Keyed(o, r)' <=> Keyed(o, r) \/ r \in set,
         needs' = needs, rows' = rows, outbox' = outbox, pubs' = pubs, prepared' = prepared,
         got' = got
  PROVE  WayTyped' /\ OrderInv' /\ NoteInv' /\ PrepInv' /\ HeardInv'
<1>1. Fit /\ StoreTyped /\ WayTyped /\ OpInv /\ OrderInv /\ NoteInv /\ PrepInv /\ HeardInv
  BY DEF DeleteInv
<1>2. PICK m \in Prepares : m = [kind |-> "prepare", op |-> o, records |-> set]
  BY DEF Prepares
<1>3. m.kind = "prepare" /\ m \in Prepares \union Batches
  BY <1>2
<1>4. /\ \A r \in Records : flaws[r] \subseteq flaws'[r]
      /\ Send(m) \/ chan' = chan
  <2>1. /\ \A r \in Records \ set : flaws'[r] = flaws[r]
        /\ \A r \in set : flaws[r] \subseteq flaws'[r]
        /\ Send(m) \/ chan' = chan
    BY <1>1, <1>2, HookTaken
  <2>2. QED
    BY <2>1
<1>5. \A q \in Ops : op[q].pc = "done" => op'[q] = op[q]
  OBVIOUS
<1>6. \A q \in Ops, r \in Records : Keyed(q, r) => Keyed(q, r)'
  <2>1. TAKE q \in Ops, r \in Records
  <2>2. CASE q = o
    BY <2>2
  <2>3. CASE q # o
    BY <2>3, OthersStay
  <2>4. QED
    BY <2>2, <2>3
<1>7. HeardInv'
  BY <1>1, HeardHooked
<1>8. CASE chan' = chan
  <2>1. rows' \subseteq rows
    OBVIOUS
  <2>2. WayTyped' /\ OrderInv' /\ NoteInv' /\ PrepInv'
    BY <1>1, <1>4, <1>5, <1>6, <1>8, <2>1, WayStill
  <2>3. QED
    BY <1>7, <2>2
<1>9. CASE Send(m)
  <2>1. WayTyped'
    <3>1. chan' = [w \in Remotes |-> Append(chan[w], m)]
      BY <1>9 DEF Send
    <3>2. \A w \in Remotes : Append(chan[w], m) \in Seq(Prepares \union Batches)
      BY <1>1, <1>3 DEF WayTyped
    <3>3. QED
      BY <1>1, <3>1, <3>2 DEF WayTyped
  <2>2. ASSUME NEW w \in Remotes, NEW e \in Notes, Coming(w, e)' PROVE Coming(w, e)
    <3>1. CASE Has(outbox, e)'
      BY <3>1 DEF Coming, Has
    <3>2. CASE \E i \in DOMAIN chan'[w] : InBatch(chan'[w][i], e)
      <4>1. PICK i \in DOMAIN chan'[w] : InBatch(chan'[w][i], e)
        BY <3>2
      <4>2. PICK n : n = Len(chan[w]) + 1
        OBVIOUS
      <4>3. /\ chan'[w][n] = m
            /\ i = n \/ i \in DOMAIN chan[w]
            /\ \A k \in DOMAIN chan[w] : chan'[w][k] = chan[w][k]
        BY <1>1, <1>3, <1>9, <4>1, <4>2, SentFacts
      <4>4. i # n
        BY <1>3, <4>1, <4>3 DEF InBatch
      <4>5. QED
        BY <4>1, <4>3, <4>4 DEF Coming
    <3>3. QED
      BY <2>2, <3>1, <3>2 DEF Coming
  <2>3. \A r, n : \A w \in Remotes : Tells(w, r, n)' => Tells(w, r, n)
    BY <2>2, TellsStay
  <2>4. rows' \subseteq rows
    OBVIOUS
  <2>5. NoteInv'
    BY <1>1, <1>4, <1>5, <2>2, <2>3, <2>4, NotesStay
  <2>6. OrderInv'
    BY <1>1, <1>9, OrderAsked
  <2>7. PrepInv'
    <3>1. Send([kind |-> "prepare", op |-> o, records |-> set])
      BY <1>2, <1>9
    <3>2. \A r \in set : Keyed(o, r)'
      OBVIOUS
    <3>3. QED
      BY <1>1, <1>4, <1>6, <3>1, <3>2, PrepAsked
  <2>8. QED
    BY <1>7, <2>1, <2>5, <2>6, <2>7
<1>10. QED
  BY <1>4, <1>8, <1>9

LEMMA StartPlainStep ==
  ASSUME DeleteInv, NEW o \in Ops, NEW r \in Records, StartPlain(o, r)
  PROVE  DeleteInv'
<1>1. Fit /\ StoreTyped /\ WayTyped /\ OpInv /\ KeyInv
  BY DEF DeleteInv
<1>2. /\ op[o].pc = "idle"
      /\ op' = [op EXCEPT ![o].kind = "plain", ![o].record = r, ![o].pc = "asking"]
      /\ needs' = needs /\ rows' = rows /\ outbox' = outbox /\ pubs' = pubs
      /\ prepared' = prepared /\ got' = got
  BY DEF StartPlain, Starts, pubVars
<1>3. op[o] \in Doings /\ op[o].inTx = {} /\ ~op[o].ok
  BY <1>1, <1>2 DEF StoreTyped, OpInv, OpOf
<1>4. /\ \A q \in Ops \ {o} : op'[q] = op[q]
      /\ op'[o].kind = "plain" /\ op'[o].record = r /\ op'[o].pc = "asking"
      /\ op'[o].inTx = {} /\ ~op'[o].ok
  BY <1>1, <1>2, <1>3 DEF StoreTyped, Doings
<1>5. PICK set \in SUBSET Records : set = {r}
  OBVIOUS
<1>6. Hook(o, set)
  BY <1>5 DEF StartPlain
<1>7. \A x \in Records : ~Won(o, x)' /\ (Keyed(o, x)' <=> Keyed(o, x) \/ x \in set)
  BY <1>2, <1>3, <1>4, <1>5 DEF Won, Keyed
<1>8. WayTyped' /\ OrderInv' /\ NoteInv' /\ PrepInv' /\ HeardInv'
  BY <1>2, <1>4, <1>6, <1>7, WayHooked
<1>9. StoreTyped' /\ OpInv' /\ KeyInv'
  BY <1>1, StartPlainKeys
<1>10. RuleTyped'
  BY <1>2 DEF DeleteInv, RuleTyped
<1>11. QED
  BY <1>8, <1>9, <1>10 DEF DeleteInv

LEMMA OpenTxStep ==
  ASSUME DeleteInv, NEW o \in Ops, OpenTx(o)
  PROVE  DeleteInv'
<1>1. Fit /\ StoreTyped /\ WayTyped /\ OpInv /\ KeyInv /\ OrderInv /\ NoteInv /\ PrepInv /\ HeardInv
  BY DEF DeleteInv
<1>2. PICK set : set = InTx(o)
  OBVIOUS
<1>3. /\ op[o].pc = "turn" /\ op' = [op EXCEPT ![o].pc = "open", ![o].inTx = set]
      /\ needs' = needs /\ rows' = rows /\ outbox' = outbox /\ pubs' = pubs
      /\ prepared' = prepared /\ got' = got
  BY <1>2 DEF OpenTx, pubVars
<1>4. /\ set \in SUBSET Records /\ op[o].inTx = {} /\ ~op[o].ok
  BY <1>1, <1>2, <1>3, InTxFacts
<1>5. /\ \A q \in Ops \ {o} : op'[q] = op[q]
      /\ op'[o].kind = op[o].kind /\ op'[o].record = op[o].record /\ op'[o].pc = "open"
      /\ op'[o].inTx = set /\ ~op'[o].ok
  BY <1>1, <1>3, <1>4 DEF StoreTyped, Doings
<1>6. \A x \in Records : ~Won(o, x)' /\ (Keyed(o, x)' <=> Keyed(o, x) \/ x \in set)
  BY <1>3, <1>4, <1>5 DEF Won, Keyed
<1>7. WayTyped' /\ OrderInv' /\ NoteInv' /\ PrepInv' /\ HeardInv'
  <2>1. CASE set # {}
    <3>1. Hook(o, set)
      BY <1>2, <2>1 DEF OpenTx
    <3>2. QED
      BY <1>3, <1>4, <1>5, <1>6, <3>1, WayHooked
  <2>2. CASE set = {}
    <3>1. chan' = chan /\ asked' = asked /\ flaws' = flaws
      BY <1>2, <2>2 DEF OpenTx
    <3>2. \A q \in Ops : op[q].pc = "done" => op'[q] = op[q]
      BY <1>3, <1>5
    <3>3. \A q \in Ops, x \in Records : Keyed(q, x) => Keyed(q, x)'
      <4>1. TAKE q \in Ops, x \in Records
      <4>2. CASE q = o
        BY <1>6, <4>2
      <4>3. CASE q # o
        BY <1>5, <4>3, OthersStay
      <4>4. QED
        BY <4>2, <4>3
    <3>4. WayTyped' /\ OrderInv' /\ NoteInv' /\ PrepInv'
      BY <1>1, <1>3, <3>1, <3>2, <3>3, WayStill
    <3>5. HeardInv'
      <4>1. \A x \in Records : Keyed(o, x)' => Keyed(o, x)
        BY <1>6, <2>2
      <4>2. QED
        BY <1>1, <1>3, <1>5, <1>6, <3>1, <4>1, HeardKept
    <3>6. QED
      BY <3>4, <3>5
  <2>3. QED
    BY <2>1, <2>2
<1>8. StoreTyped' /\ OpInv' /\ KeyInv'
  BY <1>1, OpenTxKeys
<1>9. RuleTyped'
  BY <1>3 DEF DeleteInv, RuleTyped
<1>10. QED
  BY <1>7, <1>8, <1>9 DEF DeleteInv

-----------------------------------------------------------------------------
LEMMA StartTxStep ==
  ASSUME DeleteInv, NEW o \in Ops, NEW r \in Records, StartTx(o, r)
  PROVE  DeleteInv'
<1>1. Fit /\ StoreTyped /\ WayTyped /\ OpInv /\ KeyInv /\ OrderInv /\ NoteInv /\ PrepInv /\ HeardInv
  BY DEF DeleteInv
<1>2. /\ op[o].pc = "idle" /\ op' = [op EXCEPT ![o].kind = "tx", ![o].record = r, ![o].pc = "turn"]
      /\ needs' = needs /\ rows' = rows /\ asked' = asked /\ outbox' = outbox /\ pubs' = pubs
      /\ chan' = chan /\ prepared' = prepared /\ got' = got
  BY DEF StartTx, Starts, pubVars, remoteVars
<1>3. op[o] \in Doings /\ op[o].inTx = {} /\ ~op[o].ok
  BY <1>1, <1>2 DEF StoreTyped, OpInv, OpOf
<1>4. /\ \A q \in Ops \ {o} : op'[q] = op[q]
      /\ op'[o].kind = "tx" /\ op'[o].pc = "turn" /\ op'[o].inTx = {} /\ ~op'[o].ok
  BY <1>1, <1>2, <1>3 DEF StoreTyped, Doings
<1>5. \A x \in Records : flaws[x] \subseteq flaws'[x]
  BY <1>1 DEF StartTx, Met, StoreTyped
<1>6. \A x \in Records : ~Won(o, x)' /\ ~Keyed(o, x)' /\ ~Keyed(o, x)
  BY <1>2, <1>3, <1>4 DEF Won, Keyed
<1>7. \A q \in Ops : op[q].pc = "done" => op'[q] = op[q]
  BY <1>2, <1>4
<1>8. \A q \in Ops, x \in Records : Keyed(q, x) => Keyed(q, x)'
  <2>1. TAKE q \in Ops, x \in Records
  <2>2. CASE q = o
    BY <1>6, <2>2
  <2>3. CASE q # o
    BY <1>4, <2>3, OthersStay
  <2>4. QED
    BY <2>2, <2>3
<1>9. WayTyped' /\ OrderInv' /\ NoteInv' /\ PrepInv'
  BY <1>1, <1>2, <1>5, <1>7, <1>8, WayStill
<1>10. HeardInv'
  BY <1>1, <1>2, <1>4, <1>5, <1>6, HeardKept
<1>11. StoreTyped' /\ OpInv' /\ KeyInv'
  BY <1>1, StartTxKeys
<1>12. RuleTyped'
  BY <1>2 DEF DeleteInv, RuleTyped
<1>13. QED
  BY <1>9, <1>10, <1>11, <1>12 DEF DeleteInv

LEMMA PlainPreparedStep ==
  ASSUME DeleteInv, NEW o \in Ops, PlainPrepared(o)
  PROVE  DeleteInv'
<1>1. Fit /\ StoreTyped /\ WayTyped /\ OpInv /\ KeyInv /\ OrderInv /\ NoteInv /\ PrepInv /\ HeardInv
  BY DEF DeleteInv
<1>2. /\ op[o].pc = "asking" /\ op' = [op EXCEPT ![o].pc = "turn"] /\ Settled(o)
      /\ needs' = needs /\ rows' = rows /\ outbox' = outbox /\ pubs' = pubs
      /\ chan' = chan /\ prepared' = prepared /\ got' = got
  BY DEF PlainPrepared, pubVars, remoteVars
<1>3. op[o] \in Doings
  BY <1>1 DEF StoreTyped
<1>4. /\ \A q \in Ops \ {o} : op'[q] = op[q]
      /\ op'[o].kind = op[o].kind /\ op'[o].record = op[o].record /\ op'[o].pc = "turn"
      /\ op'[o].inTx = op[o].inTx
  BY <1>1, <1>2, <1>3 DEF StoreTyped, Doings
<1>5. PICK set \in SUBSET Records : set = {op[o].record}
  BY <1>3 DEF Doings
<1>6. flaws' = Met(set, LAMBDA r : Late)
  BY <1>5 DEF PlainPrepared
<1>7. \A r \in Records : flaws[r] \subseteq flaws'[r]
  BY <1>1, <1>2, <1>6, SettledFacts, LateFlaws
<1>8. \A q \in Ops : op[q].pc = "done" => op'[q] = op[q]
  BY <1>2, <1>4
<1>9. \A q \in Ops, x \in Records : Keyed(q, x) => Keyed(q, x)'
  <2>1. TAKE q \in Ops, x \in Records
  <2>2. CASE q = o
    BY <1>2, <1>4, <2>2 DEF Keyed
  <2>3. CASE q # o
    BY <1>4, <2>3, OthersStay
  <2>4. QED
    BY <2>2, <2>3
<1>10. WayTyped' /\ OrderInv' /\ NoteInv' /\ PrepInv'
  BY <1>1, <1>2, <1>7, <1>8, <1>9, WayStill
<1>11. HeardInv'
  BY <1>1, HeardPlain
<1>12. StoreTyped' /\ OpInv' /\ KeyInv'
  BY <1>1, PlainPreparedKeys
<1>13. RuleTyped'
  BY <1>2 DEF DeleteInv, RuleTyped
<1>14. QED
  BY <1>10, <1>11, <1>12, <1>13 DEF DeleteInv

LEMMA FailTxStep ==
  ASSUME DeleteInv, NEW o \in Ops, FailTx(o)
  PROVE  DeleteInv'
<1>1. Fit /\ StoreTyped /\ WayTyped /\ OpInv /\ KeyInv /\ OrderInv /\ NoteInv /\ PrepInv /\ HeardInv
  BY DEF DeleteInv
<1>2. /\ op[o].pc = "turn" /\ op[o].kind = "plain" /\ op' = [op EXCEPT ![o].pc = "after"]
      /\ needs' = needs /\ rows' = rows /\ asked' = asked /\ flaws' = flaws /\ outbox' = outbox
      /\ pubs' = pubs /\ chan' = chan /\ prepared' = prepared /\ got' = got
  BY DEF FailTx, pubVars, remoteVars
<1>3. op[o] \in Doings /\ ~op[o].ok
  BY <1>1, <1>2 DEF StoreTyped, OpInv, OpOf
<1>4. /\ \A q \in Ops \ {o} : op'[q] = op[q]
      /\ op'[o].kind = "plain" /\ op'[o].record = op[o].record /\ op'[o].pc = "after"
      /\ op'[o].inTx = op[o].inTx /\ ~op'[o].ok
  BY <1>1, <1>2, <1>3 DEF StoreTyped, Doings
<1>5. op[o].inTx = {}
  BY <1>1, <1>2 DEF OpInv, OpOf
<1>6. \A x \in Records : ~Won(o, x)' /\ (Keyed(o, x)' <=> Keyed(o, x))
  BY <1>2, <1>4, <1>5 DEF Won, Keyed
<1>7. \A q \in Ops : op[q].pc = "done" => op'[q] = op[q]
  BY <1>2, <1>4
<1>8. \A q \in Ops, x \in Records : Keyed(q, x) => Keyed(q, x)'
  <2>1. TAKE q \in Ops, x \in Records
  <2>2. CASE q = o
    BY <1>6, <2>2
  <2>3. CASE q # o
    BY <1>4, <2>3, OthersStay
  <2>4. QED
    BY <2>2, <2>3
<1>9. WayTyped' /\ OrderInv' /\ NoteInv' /\ PrepInv'
  BY <1>1, <1>2, <1>7, <1>8, WayStill
<1>10. HeardInv'
  BY <1>1, <1>2, <1>4, <1>6, HeardKept
<1>11. StoreTyped' /\ OpInv' /\ KeyInv'
  BY <1>1, FailTxKeys
<1>12. RuleTyped'
  BY <1>2 DEF DeleteInv, RuleTyped
<1>13. QED
  BY <1>9, <1>10, <1>11, <1>12 DEF DeleteInv

LEMMA CloseTxStep ==
  ASSUME DeleteInv, NEW o \in Ops, CloseTx(o)
  PROVE  DeleteInv'
<1>1. Fit /\ StoreTyped /\ WayTyped /\ OpInv /\ KeyInv /\ OrderInv /\ NoteInv /\ PrepInv /\ HeardInv
      /\ RuleTyped
  BY DEF DeleteInv
<1>2. PICK ok \in BOOLEAN : /\ op' = [op EXCEPT ![o].pc = "after", ![o].ok = ok]
                            /\ rows' = IF ok THEN rows \ Over(o) ELSE rows
  BY DEF CloseTx, Over
<1>3. /\ op[o].pc = "open" /\ Settled(o) /\ needs' = needs /\ outbox' = outbox
      /\ pubs' = pubs /\ chan' = chan /\ prepared' = prepared /\ got' = got
      /\ flaws' = Met(op[o].inTx, LAMBDA r : Late)
  BY DEF CloseTx, pubVars, remoteVars
<1>4. op[o] \in Doings /\ op[o].inTx \in SUBSET Records
  BY <1>1 DEF StoreTyped, Doings
<1>5. /\ \A q \in Ops \ {o} : op'[q] = op[q]
      /\ op'[o].kind = op[o].kind /\ op'[o].record = op[o].record /\ op'[o].pc = "after"
      /\ op'[o].inTx = op[o].inTx
  BY <1>1, <1>2, <1>4 DEF StoreTyped, Doings
<1>6. \A r \in Records : flaws[r] \subseteq flaws'[r]
  BY <1>1, <1>3, <1>4, SettledFacts, LateFlaws
<1>7. (\A q \in Ops : op[q].pc = "done" => op'[q] = op[q]) /\ rows' \subseteq rows
  BY <1>2, <1>3, <1>5
<1>8. \A q \in Ops, x \in Records : Keyed(q, x) => Keyed(q, x)'
  <2>1. TAKE q \in Ops, x \in Records
  <2>2. CASE q = o
    BY <1>3, <1>5, <2>2 DEF Keyed
  <2>3. CASE q # o
    BY <1>5, <2>3, OthersStay
  <2>4. QED
    BY <2>2, <2>3
<1>9. WayTyped' /\ OrderInv' /\ NoteInv' /\ PrepInv'
  BY <1>1, <1>3, <1>6, <1>7, <1>8, WayStill
<1>10. HeardInv'
  BY <1>1, HeardClosed
<1>11. StoreTyped' /\ OpInv' /\ KeyInv'
  BY <1>1, CloseTxKeys
<1>12. RuleTyped'
  BY <1>1, <1>3 DEF RuleTyped
<1>13. QED
  BY <1>9, <1>10, <1>11, <1>12 DEF DeleteInv

LEMMA AfterHooksStep ==
  ASSUME DeleteInv, NEW o \in Ops, AfterHooks(o)
  PROVE  DeleteInv'
<1>1. Fit /\ StoreTyped /\ WayTyped /\ OpInv /\ KeyInv /\ OrderInv /\ NoteInv /\ PrepInv /\ HeardInv
  BY DEF DeleteInv
<1>2. chan' = chan /\ prepared' = prepared /\ got' = got /\ needs' = needs
  BY <1>1, AfterFacts
<1>3. /\ outbox' \in Seq(Notes) /\ pubs' \in Nat /\ OrderInv' /\ NoteInv'
      /\ \A r \in Over(o) : key[r] = <<o, r>> => Ends(outbox', o, r)
      /\ \A q \in Ops, r \in Records : Ends(outbox, q, r) => Ends(outbox', q, r)
  BY <1>1, NotesAfter
<1>4. WayTyped'
  BY <1>1, <1>2, <1>3 DEF WayTyped
<1>5. PrepInv'
  BY <1>1, <1>3, PrepAfter
<1>6. HeardInv'
  BY <1>1, <1>3, HeardAfter
<1>7. StoreTyped' /\ OpInv' /\ KeyInv'
  BY <1>1, AfterHooksKeys
<1>8. RuleTyped'
  BY <1>2 DEF DeleteInv, RuleTyped
<1>9. QED
  BY <1>3, <1>4, <1>5, <1>6, <1>7, <1>8 DEF DeleteInv

LEMMA SaveStep ==
  ASSUME DeleteInv, NEW o \in Ops, NEW r \in Records, Save(o, r)
  PROVE  DeleteInv'
<1>1. Fit /\ StoreTyped /\ WayTyped /\ OpInv /\ KeyInv /\ OrderInv /\ NoteInv /\ PrepInv /\ HeardInv
  BY DEF DeleteInv
<1>2. PICK e : e = [record |-> r, what |-> "update", id |-> NoId, no |-> pubs + 1]
  OBVIOUS
<1>3. /\ op[o].pc = "idle" /\ Publish(<<e>>)
      /\ op' = [op EXCEPT ![o].kind = "update", ![o].record = r, ![o].pc = "done"]
      /\ needs' = needs /\ rows' = rows /\ asked' = asked /\ flaws' = flaws
      /\ chan' = chan /\ prepared' = prepared /\ got' = got
  BY <1>2 DEF Save, Starts, remoteVars
<1>4. op[o] \in Doings /\ op[o].inTx = {} /\ ~op[o].ok
  BY <1>1, <1>3 DEF StoreTyped, OpInv, OpOf
<1>5. /\ \A q \in Ops \ {o} : op'[q] = op[q]
      /\ op'[o].kind = "update" /\ op'[o].pc = "done" /\ op'[o].inTx = {} /\ ~op'[o].ok
  BY <1>1, <1>3, <1>4 DEF StoreTyped, Doings
<1>6. e \in Notes /\ e.what = "update" /\ e.id = NoId /\ e.no = pubs + 1
  BY <1>1, <1>2 DEF Notes, WayTyped
<1>7. PICK s \in Seq(Notes) : s = <<e>>
  <2>1. PICK S : S = Notes
    OBVIOUS
  <2>2. e \in S
    BY <1>6, <2>1
  <2>3. <<e>> \in Seq(S)
    BY <2>2
  <2>4. QED
    BY <2>1, <2>3
<1>8. (\A i \in DOMAIN s : s[i].no = pubs + i) /\ \A d : Has(s, d) => d = e
  BY <1>6, <1>7 DEF Has
<1>9. /\ outbox' \in Seq(Notes) /\ pubs' \in Nat /\ OrderInv'
      /\ \A d : Has(outbox', d) <=> Has(outbox, d) \/ Has(s, d)
  BY <1>1, <1>3, <1>7, <1>8, OrderPublished
<1>10. \A x \in Records : ~Won(o, x)' /\ ~Keyed(o, x)' /\ ~Keyed(o, x)
  BY <1>3, <1>4, <1>5 DEF Won, Keyed
<1>11. \A q \in Ops : op[q].pc = "done" => op'[q] = op[q]
  BY <1>3, <1>5
<1>12. \A q \in Ops, x \in Records : Keyed(q, x) => Keyed(q, x)'
  <2>1. TAKE q \in Ops, x \in Records
  <2>2. CASE q = o
    BY <1>10, <2>2
  <2>3. CASE q # o
    BY <1>5, <2>3, OthersStay
  <2>4. QED
    BY <2>2, <2>3
<1>13. \A q \in Ops, x \in Records : Ends(outbox, q, x) => Ends(outbox', q, x)
  BY <1>9 DEF Ends
<1>14. WayTyped'
  BY <1>1, <1>3, <1>9 DEF WayTyped
<1>15. \A w \in Remotes, d \in Notes : Coming(w, d)' => Coming(w, d) \/ d = e
  BY <1>3, <1>8, <1>9 DEF Coming, InBatch, Has
<1>16. NoteInv'
  <2>1. \A w \in Remotes, d \in Notes :
          Coming(w, d)' => Coming(w, d) \/ (d.what = "update" /\ d.id = NoId)
    BY <1>6, <1>15
  <2>2. \A x, n : \A w \in Remotes : Tells(w, x, n)' => Tells(w, x, n)
    BY <1>3, <2>1, TellsStay
  <2>3. rows' \subseteq rows /\ \A x \in Records : flaws[x] \subseteq flaws'[x]
    BY <1>3
  <2>4. QED
    BY <1>1, <1>11, <2>1, <2>2, <2>3, NotesStay
<1>17. PrepInv'
  BY <1>1, <1>3, <1>12, <1>13, PrepStays
<1>18. HeardInv'
  BY <1>1, <1>3, <1>5, <1>10, <1>13, HeardKept
<1>19. StoreTyped' /\ OpInv' /\ KeyInv'
  BY <1>1, SaveKeys
<1>20. RuleTyped'
  BY <1>3 DEF DeleteInv, RuleTyped
<1>21. QED
  BY <1>9, <1>14, <1>16, <1>17, <1>18, <1>19, <1>20 DEF DeleteInv

-----------------------------------------------------------------------------
\* An event of the outbox that ends o's delete of r is of that record.
LEMMA EndsRecord ==
  ASSUME Fit, NoteInv, NEW w \in Remotes, NEW q \in Ops, NEW r, Ends(outbox, q, r)
  PROVE  \E i \in DOMAIN outbox : outbox[i].record = r
<1>1. PICK e \in Notes : Has(outbox, e) /\ e.id = <<q, r>>
  BY DEF Ends
<1>2. Says(e)
  BY <1>1 DEF Coming, NoteInv
<1>3. e.id # NoId
  BY <1>1 DEF Fit, NoId
<1>4. \E x \in Ops : e.id = <<x, e.record>>
  BY <1>2, <1>3 DEF Says
<1>5. e.record = r
  BY <1>1, <1>4
<1>6. QED
  BY <1>1, <1>5 DEF Has

LEMMA SendBatchStep ==
  ASSUME DeleteInv, SendBatch
  PROVE  DeleteInv'
<1>1. Fit /\ StoreTyped /\ WayTyped /\ OpInv /\ KeyInv /\ OrderInv /\ NoteInv /\ PrepInv /\ HeardInv
  BY DEF DeleteInv
<1>2. /\ op' = op /\ holder' = holder /\ rows' = rows /\ told' = told /\ key' = key
      /\ cached' = cached /\ asked' = asked /\ needs' = needs /\ outbox' = <<>> /\ pubs' = pubs
      /\ prepared' = prepared /\ got' = got
  BY DEF SendBatch, opVars
<1>3. outbox \in Seq(Notes) /\ DOMAIN outbox = 1..Len(outbox)
  BY <1>1 DEF WayTyped
<1>4. PICK m \in Batches : m = [kind |-> "publish", events |-> outbox]
  BY <1>3 DEF Batches
<1>5. m.events = outbox /\ m \in Prepares \union Batches
  BY <1>4
<1>6. \/ Send(m) /\ flaws' = flaws /\ faults' = faults
      \/ /\ chan' = chan /\ Fault
         /\ flaws' = Met({outbox[i].record : i \in DOMAIN outbox}, LAMBDA r : {"refused"})
  BY <1>4 DEF SendBatch
<1>7. /\ flaws' \in [Records -> SUBSET Flaws] /\ faults' \in Nat
      /\ \A r \in Records : flaws[r] \subseteq flaws'[r]
      /\ \/ Send(m)
         \/ /\ chan' = chan
            /\ \A r \in Records :
                 (\E i \in DOMAIN outbox : outbox[i].record = r) => "refused" \in flaws'[r]
  <2>1. CASE Send(m) /\ flaws' = flaws /\ faults' = faults
    BY <1>1, <2>1 DEF StoreTyped
  <2>2. CASE /\ chan' = chan /\ Fault
             /\ flaws' = Met({outbox[i].record : i \in DOMAIN outbox}, LAMBDA r : {"refused"})
    <3>1. faults' \in Nat
      <4>1. faults' = faults + 1
        BY <2>2 DEF Fault
      <4>2. faults \in Nat
        BY <1>1 DEF StoreTyped
      <4>3. QED
        BY <4>1, <4>2
    <3>2. PICK set : set = {outbox[i].record : i \in DOMAIN outbox}
      OBVIOUS
    <3>3. flaws' = [r \in Records |->
                      IF r \in set THEN flaws[r] \union {"refused"} ELSE flaws[r]]
      BY <2>2, <3>2 DEF Met
    <3>4. /\ flaws' \in [Records -> SUBSET Flaws]
          /\ \A r \in Records : /\ flaws[r] \subseteq flaws'[r]
                                /\ r \in set => "refused" \in flaws'[r]
      BY <1>1, <3>3 DEF StoreTyped, Flaws
    <3>5. \A r : (\E i \in DOMAIN outbox : outbox[i].record = r) => r \in set
      BY <3>2
    <3>6. QED
      BY <2>2, <3>1, <3>4, <3>5
  <2>3. QED
    BY <1>6, <2>1, <2>2
<1>8. StoreTyped' /\ OpInv' /\ KeyInv'
  <2>1. asked' \in [Ops -> SUBSET (Remotes \X SUBSET Records)]
    BY <1>1, <1>2 DEF StoreTyped
  <2>2. \A o \in Ops : asked'[o] \subseteq asked[o]
    BY <1>2
  <2>3. QED
    BY <1>1, <1>2, <1>7, <2>1, <2>2, WayKeys
<1>9. WayTyped'
  <2>1. chan' \in [Remotes -> Seq(Prepares \union Batches)]
    <3>1. CASE chan' = chan
      BY <1>1, <3>1 DEF WayTyped
    <3>2. CASE Send(m)
      <4>1. chan' = [w \in Remotes |-> Append(chan[w], m)]
        BY <3>2 DEF Send
      <4>2. \A w \in Remotes : Append(chan[w], m) \in Seq(Prepares \union Batches)
        BY <1>1, <1>5 DEF WayTyped
      <4>3. QED
        BY <4>1, <4>2
    <3>3. QED
      BY <1>7, <3>1, <3>2
  <2>2. QED
    BY <1>1, <1>2, <2>1 DEF WayTyped
<1>10. OrderInv' /\ \A w \in Remotes, e \in Notes : Coming(w, e)' => Coming(w, e)
  <2>1. CASE Send(m)
    BY <1>1, <1>2, <1>5, <2>1, OrderBatched
  <2>2. CASE chan' = chan
    BY <1>1, <1>2, <2>2, OrderLost
  <2>3. QED
    BY <1>7, <2>1, <2>2
<1>11. NoteInv'
  <2>1. \A r, n : \A w \in Remotes : Tells(w, r, n)' => Tells(w, r, n)
    BY <1>2, <1>10, TellsStay
  <2>2. rows' \subseteq rows /\ \A q \in Ops : op[q].pc = "done" => op'[q] = op[q]
    BY <1>2
  <2>3. QED
    BY <1>1, <1>7, <1>10, <2>1, <2>2, NotesStay
<1>12. \A q \in Ops, r \in Records : Keyed(q, r)' <=> Keyed(q, r)
  BY <1>2 DEF Keyed
<1>13. PrepInv'
  <2>1. CASE Send(m)
    BY <1>1, <1>2, <1>5, <1>7, <1>12, <2>1, PrepBatched
  <2>2. CASE /\ chan' = chan
             /\ \A r \in Records :
                  (\E i \in DOMAIN outbox : outbox[i].record = r) => "refused" \in flaws'[r]
    <3>1. SUFFICES ASSUME NEW w \in Remotes, NEW q \in Ops, NEW r \in Records,
                          flaws'[r] \cap {"overlap", "refused"} = {}, ~Keyed(q, r)'
                   PROVE  Closes(chan'[w], prepared'[w], q, r)
      BY DEF PrepInv
    <3>2. ~Ends(outbox, q, r)
      BY <1>1, <2>2, <3>1, EndsRecord
    <3>3. ~Keyed(q, r) /\ flaws[r] \cap {"overlap", "refused"} = {}
      BY <1>7, <1>12, <3>1
    <3>4. Closes(chan[w], prepared[w], q, r)
      BY <1>1, <3>2, <3>3 DEF PrepInv
    <3>5. QED
      BY <1>2, <2>2, <3>4
  <2>3. QED
    BY <1>7, <2>1, <2>2
<1>14. HeardInv'
  <2>1. SUFFICES ASSUME NEW q \in Ops, NEW r \in Records, flaws'[r] \subseteq {"hidden here"}
                 PROVE  HeardOf(q, r)'
    BY DEF HeardInv
  <2>2. flaws[r] \subseteq {"hidden here"}
    BY <1>7, <2>1
  <2>3. HeardOf(q, r)
    BY <1>1, <2>2 DEF HeardInv
  <2>4. Won(q, r)' <=> Won(q, r)
    BY <1>2 DEF Won, Over
  <2>5. ASSUME NEW w \in Remotes
        PROVE  /\ \A i \in DOMAIN chan[w] : i \in DOMAIN chan'[w] /\ chan'[w][i] = chan[w][i]
               /\ Ends(outbox, q, r) => \E k \in DOMAIN chan'[w] : Ending(chan'[w][k], q, r)
    <3>1. CASE Send(m)
      <4>1. PICK n : n = Len(chan[w]) + 1
        OBVIOUS
      <4>2. /\ \A i \in DOMAIN chan[w] : i \in DOMAIN chan'[w] /\ chan'[w][i] = chan[w][i]
            /\ n \in DOMAIN chan'[w] /\ chan'[w][n] = m
        BY <1>1, <1>5, <3>1, <4>1, SentFacts
      <4>3. m.kind = "publish"
        BY <1>4
      <4>4. Ends(outbox, q, r) => Ending(chan'[w][n], q, r)
        BY <1>5, <4>2, <4>3 DEF Ending
      <4>5. QED
        BY <4>2, <4>4
    <3>2. CASE /\ chan' = chan
               /\ \A x \in Records :
                    (\E i \in DOMAIN outbox : outbox[i].record = x) => "refused" \in flaws'[x]
      <4>1. ~Ends(outbox, q, r)
        BY <1>1, <2>1, <3>2, EndsRecord
      <4>2. QED
        BY <3>2, <4>1
    <3>3. QED
      BY <1>7, <3>1, <3>2
  <2>6. QED
    BY <1>2, <1>12, <2>3, <2>4, <2>5, HeardStays
<1>15. RuleTyped'
  BY <1>2 DEF DeleteInv, RuleTyped
<1>16. QED
  BY <1>8, <1>9, <1>10, <1>11, <1>13, <1>14, <1>15 DEF DeleteInv

LEMMA BatchTimesOutStep ==
  ASSUME DeleteInv, BatchTimesOut
  PROVE  DeleteInv'
<1>1. Fit /\ StoreTyped /\ WayTyped /\ OpInv /\ KeyInv /\ OrderInv /\ NoteInv /\ PrepInv /\ HeardInv
  BY DEF DeleteInv
<1>2. /\ op' = op /\ holder' = holder /\ rows' = rows /\ told' = told /\ key' = key
      /\ cached' = cached /\ asked' = asked /\ needs' = needs /\ outbox' = outbox /\ pubs' = pubs
      /\ chan' = chan /\ prepared' = prepared /\ got' = got /\ flaws' = flaws
      /\ faults' = faults + 1
  BY DEF BatchTimesOut, opVars, remoteVars, Fault
<1>3. /\ rows' \subseteq rows /\ \A r \in Records : flaws[r] \subseteq flaws'[r]
      /\ \A q \in Ops : op[q].pc = "done" => op'[q] = op[q]
      /\ \A q \in Ops, r \in Records : (Keyed(q, r)' <=> Keyed(q, r)) /\ (Won(q, r)' <=> Won(q, r))
  BY <1>2 DEF Keyed, Won, Over
<1>4. WayTyped' /\ OrderInv' /\ NoteInv' /\ PrepInv'
  BY <1>1, <1>2, <1>3, WayStill
<1>5. StoreTyped' /\ OpInv' /\ KeyInv'
  <2>1. /\ asked' \in [Ops -> SUBSET (Remotes \X SUBSET Records)] /\ faults' \in Nat
        /\ flaws' \in [Records -> SUBSET Flaws]
    BY <1>1, <1>2 DEF StoreTyped
  <2>2. \A o \in Ops : asked'[o] \subseteq asked[o]
    BY <1>2
  <2>3. QED
    BY <1>1, <1>2, <1>3, <2>1, <2>2, WayKeys
<1>6. HeardInv'
  <2>1. ASSUME NEW q \in Ops, NEW r \in Records, flaws'[r] \subseteq {"hidden here"}
        PROVE  HeardOf(q, r)'
    <3>1. HeardOf(q, r)
      BY <1>1, <1>2, <2>1 DEF HeardInv
    <3>2. Ends(outbox, q, r) => Ends(outbox', q, r)
      BY <1>2
    <3>3. QED
      BY <1>2, <1>3, <3>1, <3>2, HeardStays
  <2>2. QED
    BY <2>1 DEF HeardInv
<1>7. RuleTyped'
  BY <1>2 DEF DeleteInv, RuleTyped
<1>8. QED
  BY <1>4, <1>5, <1>6, <1>7 DEF DeleteInv

LEMMA ExpireStep ==
  ASSUME DeleteInv, NEW w \in Remotes, NEW e \in EventIds, Expire(w, e), Fault
  PROVE  DeleteInv'
<1>1. Fit /\ StoreTyped /\ WayTyped /\ OpInv /\ KeyInv /\ OrderInv /\ NoteInv /\ PrepInv /\ HeardInv
  BY DEF DeleteInv
<1>2. /\ op' = op /\ holder' = holder /\ rows' = rows /\ told' = told /\ key' = key
      /\ cached' = cached /\ asked' = asked /\ needs' = needs /\ outbox' = outbox /\ pubs' = pubs
      /\ chan' = chan /\ got' = got /\ faults' = faults + 1
  BY DEF Expire, opVars, pubVars, Fault
<1>3. /\ HeardInv' /\ \A v \in Remotes : prepared'[v] \subseteq prepared[v]
      /\ flaws' \in [Records -> SUBSET Flaws]
      /\ \A r \in Records : flaws[r] \subseteq flaws'[r]
      /\ prepared' \in [Remotes -> SUBSET EventIds]
  BY <1>1, HeardExpired
<1>4. StoreTyped' /\ OpInv' /\ KeyInv'
  <2>1. asked' \in [Ops -> SUBSET (Remotes \X SUBSET Records)] /\ faults' \in Nat
    BY <1>1, <1>2 DEF StoreTyped
  <2>2. \A o \in Ops : asked'[o] \subseteq asked[o]
    BY <1>2
  <2>3. QED
    BY <1>1, <1>2, <1>3, <2>1, <2>2, WayKeys
<1>5. WayTyped'
  BY <1>1, <1>2, <1>3 DEF WayTyped
<1>6. OrderInv'
  BY <1>1, <1>2, OrderStays
<1>7. NoteInv'
  <2>1. \A v \in Remotes, d \in Notes : Coming(v, d)' => Coming(v, d)
    BY <1>2 DEF Coming, InBatch, Has
  <2>2. \A r, n : \A v \in Remotes : Tells(v, r, n)' => Tells(v, r, n)
    BY <1>2, <2>1, TellsStay
  <2>3. rows' \subseteq rows /\ \A q \in Ops : op[q].pc = "done" => op'[q] = op[q]
    BY <1>2
  <2>4. QED
    BY <1>1, <1>3, <2>1, <2>2, <2>3, NotesStay
<1>8. PrepInv'
  <2>1. /\ \A q \in Ops, r \in Records : Keyed(q, r) => Keyed(q, r)'
        /\ \A q \in Ops, r \in Records : Ends(outbox, q, r) => Ends(outbox', q, r)
    BY <1>2 DEF Keyed
  <2>2. QED
    BY <1>1, <1>2, <1>3, <2>1, PrepStays
<1>9. RuleTyped'
  BY <1>2 DEF DeleteInv, RuleTyped
<1>10. QED
  BY <1>3, <1>4, <1>5, <1>6, <1>7, <1>8, <1>9 DEF DeleteInv

-----------------------------------------------------------------------------
LEMMA PrepareStep ==
  ASSUME DeleteInv, NEW w \in Remotes, Receive(w), Head(chan[w]).kind = "prepare"
  PROVE  DeleteInv'
<1>1. Fit /\ StoreTyped /\ WayTyped /\ OpInv /\ KeyInv /\ OrderInv /\ NoteInv /\ PrepInv /\ HeardInv
  BY DEF DeleteInv
<1> DEFINE m == Head(chan[w])
<1>2. m = Head(chan[w])
  OBVIOUS
<1>3. /\ chan[w] # <<>> /\ chan' = [chan EXCEPT ![w] = Tail(@)]
      /\ op' = op /\ holder' = holder /\ rows' = rows /\ told' = told /\ key' = key
      /\ cached' = cached /\ needs' = needs /\ outbox' = outbox /\ pubs' = pubs
      /\ flaws' = flaws /\ faults' = faults
  BY DEF Receive, opVars
<1>4. /\ prepared' = [prepared EXCEPT
           ![w] = @ \union {<<m.op, r>> : r \in {q \in m.records : Visible(q, rows)}}]
      /\ asked' = [asked EXCEPT ![m.op] = @ \ {<<w, m.records>>}] /\ got' = got
  BY DEF Receive
<1> HIDE DEF m
<1>5. /\ m \in Prepares /\ m.kind = "prepare" /\ m.op \in Ops /\ m.records \in SUBSET Records
      /\ chan' \in [Remotes -> Seq(Prepares \union Batches)]
  <2>1. m \in Prepares \union Batches
    BY <1>1, <1>2, <1>3, TakenFacts
  <2>2. m \in Prepares
    BY <1>2, <2>1 DEF Batches
  <2>3. QED
    BY <1>1, <1>3, <2>2, TakenFacts DEF Prepares
<1>6. /\ asked' \in [Ops -> SUBSET (Remotes \X SUBSET Records)]
      /\ \A o \in Ops : asked'[o] \subseteq asked[o]
  BY <1>1, <1>4, <1>5 DEF StoreTyped
<1>7. /\ prepared' \in [Remotes -> SUBSET EventIds]
      /\ \A v \in Remotes \ {w} : prepared'[v] = prepared[v]
      /\ \A q \in Ops, r \in Records :
           <<q, r>> \in prepared'[w] => <<q, r>> \in prepared[w] \/ (q = m.op /\ r \in m.records)
  BY <1>1, <1>4, <1>5 DEF WayTyped, EventIds
<1>8. StoreTyped' /\ OpInv' /\ KeyInv'
  <2>1. /\ faults' \in Nat /\ flaws' \in [Records -> SUBSET Flaws]
        /\ \A r \in Records : flaws[r] \subseteq flaws'[r]
    BY <1>1, <1>3 DEF StoreTyped
  <2>2. QED
    BY <1>1, <1>3, <1>6, <2>1, WayKeys
<1>9. WayTyped'
  BY <1>1, <1>3, <1>4, <1>5, <1>7 DEF WayTyped
<1>10. /\ OrderInv' /\ \A v \in Remotes, e \in Notes : Coming(v, e)' => Coming(v, e)
       /\ \A r, n : \A v \in Remotes : Tells(v, r, n)' => Tells(v, r, n)
  <2>1. got' = [got EXCEPT ![w] = @ \o <<>>]
    <3>1. got[w] \in Seq(Handouts) /\ got \in [Remotes -> Seq(Handouts)]
      BY <1>1 DEF WayTyped
    <3>2. got[w] \o <<>> = got[w]
      BY <3>1
    <3>3. QED
      BY <1>4, <3>1, <3>2
  <2>2. TakesIn(w, <<>>)
    <3>1. <<>> \in Seq(Handouts)
      OBVIOUS
    <3>2. QED
      BY <1>3, <2>1, <3>1 DEF TakesIn, Rising
  <2>3. QED
    BY <1>1, <1>3, <2>2, OrderReceived
<1>11. NoteInv'
  <2>1. /\ rows' \subseteq rows /\ \A q \in Ops : op[q].pc = "done" => op'[q] = op[q]
        /\ \A r \in Records : flaws[r] \subseteq flaws'[r]
    BY <1>3
  <2>2. QED
    BY <1>1, <1>10, <2>1, NotesStay
<1>12. PrepInv'
  <2>1. \A q \in Ops, r \in Records :
          <<q, r>> \in prepared'[w] => <<q, r>> \in prepared[w] \/ Asks(m, q, r)
    BY <1>5, <1>7 DEF Asks
  <2>2. QED
    BY <1>1, <1>2, <1>3, <1>5, <1>7, <2>1, PrepReceived
<1>13. HeardInv'
  BY <1>1, <1>2, <1>3, <1>4, <1>5, HeardPrepared
<1>14. RuleTyped'
  BY <1>3 DEF DeleteInv, RuleTyped
<1>15. QED
  BY <1>8, <1>9, <1>10, <1>11, <1>12, <1>13, <1>14 DEF DeleteInv

LEMMA PublishStep ==
  ASSUME DeleteInv, NEW w \in Remotes, Receive(w), Head(chan[w]).kind # "prepare"
  PROVE  DeleteInv'
<1>1. Fit /\ StoreTyped /\ WayTyped /\ OpInv /\ KeyInv /\ OrderInv /\ NoteInv /\ PrepInv /\ HeardInv
  BY DEF DeleteInv
<1> DEFINE m == Head(chan[w])
<1>2. m = Head(chan[w])
  OBVIOUS
<1>3. /\ chan[w] # <<>> /\ chan' = [chan EXCEPT ![w] = Tail(@)]
      /\ op' = op /\ holder' = holder /\ rows' = rows /\ told' = told /\ key' = key
      /\ cached' = cached /\ needs' = needs /\ outbox' = outbox /\ pubs' = pubs
      /\ flaws' = flaws /\ faults' = faults
  BY DEF Receive, opVars
<1> DEFINE h == Handed(w, m.events)
<1>4. h = Handed(w, m.events)
  OBVIOUS
<1>5. /\ m.kind = "publish" /\ got' = [got EXCEPT ![w] = @ \o h] /\ asked' = asked
      /\ prepared' = [prepared EXCEPT ![w] = @ \ {m.events[i].id : i \in DOMAIN m.events}]
  BY DEF Receive
<1> HIDE DEF m, h
<1>6. /\ m \in Batches /\ m.events \in Seq(Notes) /\ 1 \in DOMAIN chan[w] /\ m = chan[w][1]
      /\ chan' \in [Remotes -> Seq(Prepares \union Batches)]
  <2>1. m \in Prepares \union Batches
    BY <1>1, <1>2, <1>3, TakenFacts
  <2>2. m \in Batches
    BY <1>2, <2>1 DEF Prepares
  <2>3. QED
    BY <1>1, <1>2, <1>3, <2>2, TakenFacts DEF Batches
<1>7. HandedOf(w, m.events, DOMAIN m.events, h)
  BY <1>4, <1>6, HandedFacts
<1>8. h \in Seq(Handouts) /\ Rising(h) /\ \A i \in DOMAIN h : \E e \in Notes : InBatch(m, e) /\ h[i] = View(e)
  <2>1. Rising(m.events)
    BY <1>1, <1>5, <1>6 DEF OrderInv, OrderOf
  <2>2. ASSUME NEW i \in DOMAIN h PROVE \E e \in Notes : InBatch(m, e) /\ h[i] = View(e)
    <3>1. PICK k \in DOMAIN m.events : h[i] = View(m.events[k])
      BY <1>7, <2>2 DEF HandedOf
    <3>2. m.events[k] \in Notes /\ InBatch(m, m.events[k])
      BY <1>5, <1>6, <3>1 DEF InBatch, Has
    <3>3. QED
      BY <3>1, <3>2
  <2>3. QED
    BY <1>7, <2>1, <2>2 DEF HandedOf
<1>9. /\ prepared' \in [Remotes -> SUBSET EventIds]
      /\ \A v \in Remotes \ {w} : prepared'[v] = prepared[v]
      /\ \A e \in prepared'[w] : e \in prepared[w] /\ \A i \in DOMAIN m.events : m.events[i].id # e
  BY <1>1, <1>5 DEF WayTyped
<1>10. StoreTyped' /\ OpInv' /\ KeyInv'
  <2>1. /\ faults' \in Nat /\ flaws' \in [Records -> SUBSET Flaws]
        /\ \A r \in Records : flaws[r] \subseteq flaws'[r]
        /\ asked' \in [Ops -> SUBSET (Remotes \X SUBSET Records)]
        /\ \A o \in Ops : asked'[o] \subseteq asked[o]
    BY <1>1, <1>3, <1>5 DEF StoreTyped
  <2>2. QED
    BY <1>1, <1>3, <2>1, WayKeys
<1>11. /\ got' \in [Remotes -> Seq(Handouts)] /\ OrderInv'
       /\ \A v \in Remotes, e \in Notes : Coming(v, e)' => Coming(v, e)
       /\ \A r, n : \A v \in Remotes : Tells(v, r, n)' => Tells(v, r, n)
  <2>1. TakesIn(w, h)
    BY <1>2, <1>3, <1>5, <1>8 DEF TakesIn
  <2>2. QED
    BY <1>1, <1>3, <2>1, OrderReceived
<1>12. WayTyped'
  BY <1>1, <1>3, <1>6, <1>9, <1>11 DEF WayTyped
<1>13. NoteInv'
  <2>1. /\ rows' \subseteq rows /\ \A q \in Ops : op[q].pc = "done" => op'[q] = op[q]
        /\ \A r \in Records : flaws[r] \subseteq flaws'[r]
    BY <1>3
  <2>2. QED
    BY <1>1, <1>11, <2>1, NotesStay
<1>14. PrepInv'
  <2>1. \A q \in Ops, r \in Records :
          <<q, r>> \in prepared'[w] => <<q, r>> \in prepared[w] /\ ~Ends(m.events, q, r)
    BY <1>9 DEF Ends, Has
  <2>2. QED
    BY <1>1, <1>2, <1>3, <1>5, <1>9, <2>1, PrepReceived
<1>15. HeardInv'
  BY <1>1, <1>2, <1>3, <1>5, <1>6, <1>7, HeardTold
<1>16. RuleTyped'
  BY <1>3 DEF DeleteInv, RuleTyped
<1>17. QED
  BY <1>10, <1>11, <1>12, <1>13, <1>14, <1>15, <1>16 DEF DeleteInv

-----------------------------------------------------------------------------
LEMMA DeleteInit ==
  ASSUME Fit, Init
  PROVE  DeleteInv
<1>1. /\ rows = Records
      /\ op = [o \in Ops |-> [kind |-> "update", record |-> Parent, pc |-> "idle",
                              inTx |-> {}, ok |-> FALSE]]
      /\ holder = 0 /\ cached = [r \in Records |-> 0]
      /\ key = [r \in Records |-> NoId] /\ told = [r \in Records |-> 0]
      /\ asked = [o \in Ops |-> {}] /\ outbox = <<>> /\ pubs = 0
      /\ chan = [w \in Remotes |-> <<>>] /\ prepared = [w \in Remotes |-> {}]
      /\ got = [w \in Remotes |-> <<>>] /\ flaws = [r \in Records |-> {}] /\ faults = 0
  BY DEF Init
<1>2. /\ Parent \in Records /\ Child \in Records /\ Parent # Child
      /\ Records = {Parent, Child} /\ 0 \notin Ops
  BY DEF Fit, Records
<1>3. StoreTyped
  BY <1>1, <1>2 DEF StoreTyped, Doings
<1>4. WayTyped
  <2>1. chan \in [Remotes -> Seq(Prepares \union Batches)] /\ got \in [Remotes -> Seq(Handouts)]
    BY <1>1
  <2>2. outbox \in Seq(Notes)
    BY <1>1
  <2>3. QED
    BY <1>1, <2>1, <2>2 DEF WayTyped
<1>5. RuleTyped
  <2>1. PICK c \in {{}, {Child}, Records}, p \in {{}, {Parent}} :
          needs = [r \in Records |-> IF r = Child THEN c ELSE p]
    BY DEF Init
  <2>2. needs[Child] = c /\ needs[Parent] = p /\ needs \in [Records -> SUBSET Records]
    BY <1>2, <2>1
  <2>3. QED
    BY <1>2, <2>2 DEF RuleTyped
<1>6. \A o \in Ops : op[o].kind = "update" /\ op[o].pc = "idle" /\ op[o].inTx = {} /\ ~op[o].ok
  BY <1>1
<1>7. OpInv
  BY <1>1, <1>2, <1>6 DEF OpInv, OpOf
<1>8. \A o \in Ops, r \in Records : ~Keyed(o, r) /\ ~Won(o, r) /\ ~Takes(o, r)
  BY <1>6 DEF Keyed, Won, Takes, Deletes
<1>9. KeyInv
  BY <1>1, <1>8 DEF KeyInv, KeyOf, Sole
<1>10. \A e : ~Has(outbox, e)
  BY <1>1 DEF Has
<1>11. \A w \in Remotes : DOMAIN chan[w] = {} /\ DOMAIN got[w] = {}
  BY <1>1
<1>12. OrderInv
  <2>1. \A w \in Remotes : OrderOf(w)
    BY <1>11 DEF OrderOf, Rising
  <2>2. Rising(outbox)
    BY <1>1 DEF Rising
  <2>3. QED
    BY <1>10, <2>1, <2>2 DEF OrderInv
<1>13. NoteInv
  <2>1. \A w \in Remotes : \A e : ~Coming(w, e)
    BY <1>10, <1>11 DEF Coming
  <2>2. \A w \in Remotes : \A r, n : ~Tells(w, r, n)
    BY <1>11, <2>1 DEF Tells
  <2>3. QED
    BY <2>1, <2>2 DEF NoteInv
<1>14. PrepInv
  <2>1. \A w \in Remotes, o \in Ops, r \in Records : Closes(chan[w], prepared[w], o, r)
    BY <1>1, <1>11 DEF Closes
  <2>2. QED
    BY <2>1 DEF PrepInv
<1>15. HeardInv
  BY <1>8 DEF HeardInv, HeardOf
<1>16. QED
  BY <1>3, <1>4, <1>5, <1>7, <1>9, <1>12, <1>13, <1>14, <1>15 DEF DeleteInv

LEMMA DeleteStep ==
  ASSUME DeleteInv, [Next]_vars
  PROVE  DeleteInv'
<1>1. ASSUME NEW o \in Ops, NEW r \in Records,
             StartPlain(o, r) \/ StartTx(o, r) \/ Save(o, r)
      PROVE  DeleteInv'
  BY <1>1, StartPlainStep, StartTxStep, SaveStep
<1>2. ASSUME NEW o \in Ops, PlainPrepared(o) \/ OpenTx(o) \/ FailTx(o)
      PROVE  DeleteInv'
  BY <1>2, PlainPreparedStep, OpenTxStep, FailTxStep
<1>3. ASSUME NEW o \in Ops, CloseTx(o) \/ AfterHooks(o)
      PROVE  DeleteInv'
  BY <1>3, CloseTxStep, AfterHooksStep
<1>4. CASE SendBatch \/ BatchTimesOut
  BY <1>4, SendBatchStep, BatchTimesOutStep
<1>5. ASSUME NEW w \in Remotes, Receive(w) PROVE DeleteInv'
  BY <1>5, PrepareStep, PublishStep
<1>6. ASSUME NEW w \in Remotes, NEW e \in EventIds, Expire(w, e), Fault
      PROVE  DeleteInv'
  BY <1>6, ExpireStep
<1>7. CASE UNCHANGED vars
  <2>1. /\ needs' = needs /\ rows' = rows /\ op' = op /\ holder' = holder /\ cached' = cached
        /\ key' = key /\ told' = told /\ asked' = asked /\ outbox' = outbox /\ pubs' = pubs
        /\ chan' = chan /\ prepared' = prepared /\ got' = got /\ flaws' = flaws
        /\ faults' = faults
    BY <1>7 DEF vars, opVars, pubVars, remoteVars
  <2>2. \A o \in Ops, r \in Records : /\ Keyed(o, r)' <=> Keyed(o, r)
                                      /\ Won(o, r)' <=> Won(o, r)
    BY <2>1 DEF Keyed, Won, Over
  <2>3. /\ Fit /\ StoreTyped /\ WayTyped /\ RuleTyped /\ OpInv /\ KeyInv /\ OrderInv /\ NoteInv
        /\ PrepInv /\ HeardInv
    BY DEF DeleteInv
  <2>4. StoreTyped' /\ OpInv' /\ KeyInv'
    <3>1. /\ asked' \in [Ops -> SUBSET (Remotes \X SUBSET Records)] /\ faults' \in Nat
          /\ flaws' \in [Records -> SUBSET Flaws]
          /\ \A r \in Records : flaws[r] \subseteq flaws'[r]
          /\ \A o \in Ops : asked'[o] \subseteq asked[o]
      BY <2>1, <2>3 DEF StoreTyped
    <3>2. QED
      BY <2>1, <2>3, <3>1, WayKeys
  <2>5. WayTyped' /\ OrderInv' /\ NoteInv' /\ PrepInv'
    BY <2>1, <2>2, <2>3, WayStill
  <2>6. HeardInv'
    <3>1. ASSUME NEW q \in Ops, NEW r \in Records, flaws'[r] \subseteq {"hidden here"}
          PROVE  HeardOf(q, r)'
      <4>1. HeardOf(q, r)
        BY <2>1, <2>3, <3>1 DEF HeardInv
      <4>2. Ends(outbox, q, r) => Ends(outbox', q, r)
        BY <2>1
      <4>3. QED
        BY <2>1, <2>2, <4>1, <4>2, HeardStays
    <3>2. QED
      BY <3>1 DEF HeardInv
  <2>7. RuleTyped'
    BY <2>1, <2>3 DEF RuleTyped
  <2>8. QED
    BY <2>4, <2>5, <2>6, <2>7 DEF DeleteInv
<1>8. QED
  BY <1>1, <1>2, <1>3, <1>4, <1>5, <1>6, <1>7 DEF Next

LEMMA OneTime ==
  ASSUME NEW n \in Nat, NEW T \in SUBSET (1..n)
  PROVE  /\ Cardinality(T) > 0 => \E i \in T : TRUE
         /\ (\E i \in T : T = {i}) => Cardinality(T) = 1
<1>1. T = {} => Cardinality(T) = 0
  BY FS_EmptySet
<1>2. ASSUME NEW i \in T, T = {i} PROVE Cardinality(T) = 1
  BY <1>2, FS_Singleton
<1>3. QED
  BY <1>1, <1>2

\* How often the client of w is told of the delete of r.
LEMMA TimesTold ==
  ASSUME WayTyped, NEW w \in Remotes, NEW r \in Records
  PROVE  /\ Times(got[w], r) > 0 => \E n \in Nat : Tells(w, r, n)
         /\ OrderInv /\ (\E i \in DOMAIN got[w] : got[w][i].what = "commit" /\ got[w][i].record = r)
            /\ (\A m, n \in Nat : Tells(w, r, m) /\ Tells(w, r, n) => m = n)
            => Times(got[w], r) = 1
<1> DEFINE T == {i \in DOMAIN got[w] : got[w][i].record = r /\ got[w][i].what = "commit"}
<1>1. /\ got[w] \in Seq(Handouts) /\ DOMAIN got[w] = 1..Len(got[w]) /\ Len(got[w]) \in Nat
      /\ \A i \in DOMAIN got[w] : got[w][i].no \in Nat /\ i \in Nat
  <2>1. got[w] \in Seq(Handouts)
    BY DEF WayTyped
  <2>2. \A i \in DOMAIN got[w] : got[w][i] \in Handouts /\ i \in Nat
    BY <2>1
  <2>3. QED
    BY <2>1, <2>2 DEF Handouts
<1>2. T \in SUBSET (1..Len(got[w]))
  BY <1>1
<1>3. Times(got[w], r) = Cardinality(T)
  BY DEF Times
<1>4. \A i \in T : Tells(w, r, got[w][i].no)
  BY DEF Tells
<1>5. Times(got[w], r) > 0 => \E n \in Nat : Tells(w, r, n)
  <2>1. SUFFICES ASSUME Cardinality(T) > 0 PROVE \E n \in Nat : Tells(w, r, n)
    BY <1>3
  <2>2. PICK i \in T : TRUE
    BY <1>1, <1>2, <2>1, OneTime
  <2>3. Tells(w, r, got[w][i].no) /\ got[w][i].no \in Nat
    BY <1>1, <1>4, <2>2
  <2>4. QED
    BY <2>3
<1>6. ASSUME OrderInv, NEW k \in DOMAIN got[w], got[w][k].what = "commit", got[w][k].record = r,
             \A m, n \in Nat : Tells(w, r, m) /\ Tells(w, r, n) => m = n
      PROVE  Times(got[w], r) = 1
  <2>1. Rising(got[w]) /\ k \in T
    BY <1>6 DEF OrderInv, OrderOf
  <2>2. ASSUME NEW i \in T PROVE i = k
    <3>1. got[w][i].no = got[w][k].no /\ got[w][i].no \in Nat /\ i \in Nat /\ k \in Nat
      BY <1>1, <1>4, <1>6, <2>1, <2>2
    <3>2. ~(i < k) /\ ~(k < i)
      BY <1>6, <2>1, <2>2, <3>1 DEF Rising
    <3>3. QED
      BY <3>1, <3>2
  <2>3. T = {k}
    BY <2>1, <2>2
  <2>4. Cardinality(T) = 1
    BY <1>1, <1>2, <2>1, <2>3, OneTime
  <2>5. QED
    BY <1>3, <2>4
<1>7. QED
  BY <1>5, <1>6

LEMMA OnlyCommittedHolds ==
  ASSUME DeleteInv PROVE OnlyCommitted
<1>1. KeyInv /\ NoteInv /\ WayTyped
  BY DEF DeleteInv
<1>2. SUFFICES ASSUME NEW r \in Records,
                      told[r] > 0 \/ \E w \in Remotes : Times(got[w], r) > 0
               PROVE  r \notin rows
  BY DEF OnlyCommitted
<1>3. CASE told[r] > 0
  BY <1>1, <1>3 DEF KeyInv, KeyOf
<1>4. CASE \E w \in Remotes : Times(got[w], r) > 0
  <2>1. PICK w \in Remotes : Times(got[w], r) > 0
    BY <1>4
  <2>2. PICK n \in Nat : Tells(w, r, n)
    BY <1>1, <2>1, TimesTold
  <2>3. QED
    BY <1>1, <2>2 DEF NoteInv, Vanished
<1>5. QED
  BY <1>2, <1>3, <1>4

LEMMA DeleteHeardHolds ==
  ASSUME DeleteInv PROVE DeleteHeard
<1>1. Fit /\ StoreTyped /\ WayTyped /\ OpInv /\ KeyInv /\ OrderInv /\ NoteInv /\ HeardInv
  BY DEF DeleteInv
<1>2. SUFFICES ASSUME Quiet, NEW r \in Records, r \notin rows
               PROVE  /\ flaws[r] \subseteq {"hidden here"} =>
                           \A w \in Remotes : Times(got[w], r) = 1
                      /\ flaws[r] \cap {"overlap", "hidden", "hidden here"} = {} => told[r] = 1
  BY DEF DeleteHeard
<1>3. /\ \A o \in Ops : op[o].pc \in {"idle", "done"}
      /\ outbox = <<>> /\ \A w \in Remotes : chan[w] = <<>>
  BY <1>2 DEF Quiet
<1>4. ASSUME "overlap" \notin flaws[r]
      PROVE  Sole(r) /\ \E o \in Ops : Won(o, r) /\ op[o].pc = "done"
  <2>1. Sole(r)
    BY <1>1, <1>4 DEF KeyInv, KeyOf
  <2>2. PICK o \in Ops : Won(o, r)
    BY <1>2, <2>1 DEF Sole
  <2>3. op[o].pc = "done"
    BY <1>1, <1>3, <2>2, OpFacts
  <2>4. QED
    BY <2>1, <2>2, <2>3
<1>5. ASSUME flaws[r] \subseteq {"hidden here"}, NEW w \in Remotes
      PROVE  Times(got[w], r) = 1
  <2>1. "overlap" \notin flaws[r]
    BY <1>5
  <2>2. PICK o \in Ops : Won(o, r) /\ op[o].pc = "done"
    BY <1>4, <2>1
  <2>3. Hears(w, o, r)
    BY <1>1, <1>5, <2>2 DEF HeardInv, HeardOf
  <2>4. ~Ends(outbox, o, r) /\ DOMAIN chan[w] = {}
    BY <1>3 DEF Ends, Has
  <2>5. \E i \in DOMAIN got[w] : got[w][i].what = "commit" /\ got[w][i].record = r
    BY <2>3, <2>4 DEF Hears
  <2>6. \A m, n \in Nat : Tells(w, r, m) /\ Tells(w, r, n) => m = n
    BY <1>1, <2>1 DEF NoteInv
  <2>7. QED
    BY <1>1, <2>5, <2>6, TimesTold
<1>6. ASSUME flaws[r] \cap {"overlap", "hidden", "hidden here"} = {}
      PROVE  told[r] = 1
  <2>1. "overlap" \notin flaws[r] /\ "hidden here" \notin flaws[r]
    BY <1>6
  <2>2. QED
    BY <1>4, <2>1 DEF Sole
<1>7. QED
  BY <1>5, <1>6

LEMMA InOrderHolds ==
  ASSUME DeleteInv PROVE InOrder
BY DEF DeleteInv, OrderInv, OrderOf, Rising, InOrder

LEMMA NothingLeftHolds ==
  ASSUME DeleteInv PROVE NothingLeft
<1>1. KeyInv /\ PrepInv
  BY DEF DeleteInv
<1>2. SUFFICES ASSUME Quiet, NEW r \in Records
               PROVE  /\ cached[r] = 0 /\ key[r] = NoId
                      /\ flaws[r] \cap {"overlap", "refused"} = {} =>
                           \A w \in Remotes : \A o \in Ops : <<o, r>> \notin prepared[w]
  BY DEF NothingLeft
<1>3. /\ \A o \in Ops : op[o].pc \in {"idle", "done"}
      /\ outbox = <<>> /\ \A w \in Remotes : chan[w] = <<>>
  BY <1>2 DEF Quiet
<1>4. \A o \in Ops : ~Keyed(o, r)
  BY <1>3 DEF Keyed
<1>5. cached[r] = 0 /\ key[r] = NoId
  BY <1>1, <1>4 DEF KeyInv, KeyOf
<1>6. ASSUME flaws[r] \cap {"overlap", "refused"} = {}, NEW w \in Remotes, NEW o \in Ops
      PROVE  <<o, r>> \notin prepared[w]
  <2>1. ~Ends(outbox, o, r) /\ DOMAIN chan[w] = {}
    BY <1>3 DEF Ends, Has
  <2>2. Closes(chan[w], prepared[w], o, r)
    BY <1>1, <1>4, <1>6, <2>1 DEF PrepInv
  <2>3. QED
    BY <2>1, <2>2 DEF Closes
<1>7. QED
  BY <1>5, <1>6
=============================================================================
