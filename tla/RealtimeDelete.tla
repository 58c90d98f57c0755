---------------------------- MODULE RealtimeDelete ----------------------------
(***************************************************************************)
(* How the clients of all workers learn of a deleted record.               *)
(*                                                                         *)
(* Who may see a record is decided before it is deleted: the messages are  *)
(* prepared in every worker, and sent or dropped when the outcome is known *)
(* (bindRealtimeEvents, src/apis/realtime.ts). One worker deletes here, a  *)
(* record and the one that refers to it, by a plain delete or within a     *)
(* caller's transaction; every other worker has a subscribed client.       *)
(***************************************************************************)
EXTENDS Naturals, SequencesExt

CONSTANTS
  Remotes,    \* the other workers
  Parent,     \* a record
  Child,      \* a record that refers to it, deleted with it
  Ops,        \* operations of the worker: a set of positive numbers
  MaxFaults   \* bound: refused or late requests, expiries

Records == {Parent, Child}
EventIds == Ops \X Records
NoId == <<0, Parent>>  \* no event id in the store
Flaws == {"overlap", "refused", "late", "expired", "hidden", "hidden here"}

VARIABLES
  needs,    \* records that the rule of each record looks at
  rows,     \* the records in the committed database
  op,       \* operations: kind, record, pc, the records its transaction hooks, outcome
  holder,   \* the operation whose transaction is open, or 0
  cached,   \* messages in the local client's dry cache, per record
  key,      \* app.store(): the event id of the delete of a record
  told,     \* delete messages the local client was sent, per record
  asked,    \* deliveries whose answer an operation awaits: <<remote, prepared records>>
  outbox,   \* publishEvents
  awaiting, \* deliveries of the batch that is being published: <<remote, last event>>
  pubs,     \* events published so far
  chan,     \* deliveries on the way to each remote
  prepared, \* prepared messages of each remote
  got,      \* what each remote's client was handed: [record, what, no]
  flaws,    \* history: what the deletes of a record met
  faults

opVars == <<rows, op, holder, cached, key, told>>
pubVars == <<outbox, awaiting, pubs>>
remoteVars == <<chan, prepared, got>>
vars == <<needs, opVars, asked, pubVars, remoteVars, flaws, faults>>

TypeOK ==
  /\ needs \in [Records -> SUBSET Records] /\ rows \subseteq Records
  /\ op \in [Ops -> [kind : {"plain", "tx", "update"}, record : Records,
                     pc : {"idle", "asking", "turn", "open", "after", "done"},
                     inTx : SUBSET Records, ok : BOOLEAN]]
  /\ holder \in Ops \union {0}
  /\ cached \in [Records -> Nat] /\ told \in [Records -> Nat]
  /\ key \in [Records -> EventIds \union {NoId}]
  /\ asked \in [Ops -> SUBSET (Remotes \X SUBSET Records)]
  /\ awaiting \subseteq Remotes \X (1..pubs)
  /\ prepared \in [Remotes -> SUBSET EventIds]
  /\ flaws \in [Records -> SUBSET Flaws] /\ faults \in 0..MaxFaults

\* An empty rule, one that needs the record's row, one that looks at its parent.
Init ==
  /\ needs \in {[r \in Records |-> IF r = Child THEN c ELSE p] :
                  c \in {{}, {Child}, Records}, p \in {{}, {Parent}}}
  /\ rows = Records
  /\ op = [o \in Ops |-> [kind |-> "update", record |-> Parent, pc |-> "idle",
                          inTx |-> {}, ok |-> FALSE]]
  /\ holder = 0
  /\ cached = [r \in Records |-> 0] /\ key = [r \in Records |-> NoId]
  /\ told = [r \in Records |-> 0]
  /\ asked = [o \in Ops |-> {}]
  /\ outbox = <<>> /\ awaiting = {} /\ pubs = 0
  /\ chan = [w \in Remotes |-> <<>>]
  /\ prepared = [w \in Remotes |-> {}] /\ got = [w \in Remotes |-> <<>>]
  /\ flaws = [r \in Records |-> {}] /\ faults = 0

Fault == faults < MaxFaults /\ faults' = faults + 1
Send(m) == chan' = [w \in Remotes |-> Append(chan[w], m)]
Visible(r, rs) == needs[r] \subseteq rs
Met(set, what(_)) == [r \in Records |-> IF r \in set THEN flaws[r] \union what(r) ELSE flaws[r]]

-----------------------------------------------------------------------------
\* OnModelDelete: the messages of the local client, and the event's id.

\* The rows that the rules of the deleted record r are checked against: those
\* its transaction sees, also where the code passes the app of outside.
Seen(o, r) == IF holder' = o /\ r # op[o].record THEN rows \ {op[o].record} ELSE rows

Deletes(r) == {o \in Ops : /\ op[o].kind # "update" /\ op[o].pc \notin {"idle", "done"}
                           /\ r \in op[o].inTx \union {op[o].record}}

\* What is wrong from the start with the delete of r.
Begun(o, r) ==
  (IF Visible(r, rows) THEN {} ELSE {"hidden"})
  \union (IF Visible(r, Seen(o, r)) THEN {} ELSE {"hidden here"})
  \union (IF key[r] # NoId \/ Deletes(r) \ {o} # {} THEN {"overlap"} ELSE {})

\* A preparation that the coordinator refuses is logged, like one that fails.
Hook(o, set) ==
  /\ cached' = [r \in Records |-> IF r \in set /\ Visible(r, Seen(o, r)) THEN cached[r] + 1
                                  ELSE cached[r]]
  /\ key' = [r \in Records |-> IF r \in set THEN <<o, r>> ELSE key[r]]
  /\ \/ /\ Send([kind |-> "prepare", op |-> o, records |-> set])
        /\ asked' = [asked EXCEPT ![o] = Remotes \X {set}]
        /\ flaws' = Met(set, LAMBDA r : Begun(o, r)) /\ UNCHANGED faults
     \/ /\ Fault /\ flaws' = Met(set, LAMBDA r : Begun(o, r) \union {"refused"})
        /\ UNCHANGED <<chan, asked>>

Starts(o, kind, r, pc) ==
  /\ op[o].pc = "idle" /\ r \in rows /\ \A q \in Ops : q < o => op[q].pc # "idle"
  /\ op' = [op EXCEPT ![o].kind = kind, ![o].record = r, ![o].pc = pc]

\* A plain delete prepares before it asks for its transaction.
StartPlain(o, r) ==
  /\ Starts(o, "plain", r, "asking") /\ holder' = holder /\ Hook(o, {r})
  /\ UNCHANGED <<needs, rows, told, pubVars, prepared, got>>

StartTx(o, r) ==
  /\ Starts(o, "tx", r, "turn")
  /\ flaws' = Met({r}, LAMBDA q : IF Deletes(q) # {} THEN {"overlap"} ELSE {})
  /\ UNCHANGED <<needs, rows, holder, cached, key, told, asked, pubVars, remoteVars, faults>>

\* The preparation was answered, or timed out while it is on its way.
Settled(o) ==
  \/ asked[o] = {} /\ UNCHANGED <<asked, faults>>
  \/ asked[o] # {} /\ asked' = [asked EXCEPT ![o] = {}] /\ Fault

Late == IF faults' # faults THEN {"late"} ELSE {}

PlainPrepared(o) ==
  /\ op[o].pc = "asking" /\ Settled(o)
  /\ op' = [op EXCEPT ![o].pc = "turn"]
  /\ flaws' = Met({op[o].record}, LAMBDA r : Late)
  /\ UNCHANGED <<needs, rows, holder, cached, key, told, pubVars, remoteVars>>

\* The transaction deletes the record and then those that refer to it
\* (handleRecordDeleteExecute). The hooks of these, and of every delete of a
\* caller's transaction, run in it and are prepared before it commits.
InTx(o) ==
  (IF op[o].kind = "tx" THEN {op[o].record} ELSE {})
  \union (IF op[o].record = Parent THEN {Child} \cap rows ELSE {})

OpenTx(o) ==
  /\ op[o].pc = "turn" /\ holder = 0
  /\ op' = [op EXCEPT ![o].pc = "open", ![o].inTx = InTx(o)] /\ holder' = o
  /\ IF InTx(o) = {} THEN UNCHANGED <<cached, key, chan, asked, flaws, faults>>
     ELSE Hook(o, InTx(o))
  /\ UNCHANGED <<needs, rows, told, pubVars, prepared, got>>

\* It fails before any of these hooks runs.
FailTx(o) ==
  /\ op[o].pc = "turn" /\ op[o].kind = "plain" /\ holder = 0
  /\ op' = [op EXCEPT ![o].pc = "after"]
  /\ UNCHANGED <<needs, rows, holder, cached, key, told, asked, pubVars, remoteVars, flaws, faults>>

CloseTx(o) ==
  /\ op[o].pc = "open" /\ Settled(o) /\ holder' = 0
  /\ \E ok \in BOOLEAN :
       /\ op' = [op EXCEPT ![o].pc = "after", ![o].ok = ok]
       /\ rows' = IF ok THEN rows \ (op[o].inTx \union {op[o].record}) ELSE rows
  /\ flaws' = Met(op[o].inTx, LAMBDA r : Late)
  /\ UNCHANGED <<needs, cached, key, told, pubVars, remoteVars>>

-----------------------------------------------------------------------------
\* OnModelAfterDeleteSuccess and OnModelAfterDeleteError: they run when the
\* transaction is over, for the referring record first, and use the event id
\* that is in the store by then.

\* publishClusterRealtimeEvent.
Publish(new) == outbox' = outbox \o new /\ pubs' = pubs + Len(new)

\* Without an event id in the store nothing is published.
Publication(r, what, no) ==
  IF key[r] = NoId THEN <<>>
  ELSE <<[record |-> r, what |-> what, id |-> key[r], no |-> no + 1]>>

Publications(rs, what) ==
  LET child == IF Child \in rs THEN Publication(Child, what, pubs) ELSE <<>>
      parent == IF Parent \in rs THEN Publication(Parent, what, pubs + Len(child)) ELSE <<>>
  IN  child \o parent

\* Mutant: the outcome does not matter.
AfterHooks_Always(o) ==
  LET over == op[o].inTx \union {op[o].record} IN
    /\ op[o].pc = "after" /\ op' = [op EXCEPT ![o].pc = "done"]
    /\ told' = [r \in Records |-> IF r \in over THEN told[r] + cached[r] ELSE told[r]]
    /\ cached' = [r \in Records |-> IF r \in over THEN 0 ELSE cached[r]]
    /\ key' = [r \in Records |-> IF r \in over THEN NoId ELSE key[r]]
    /\ Publish(Publications(over, "commit"))
    /\ UNCHANGED <<needs, rows, holder, asked, awaiting, remoteVars, flaws, faults>>

AfterHooks(o) ==
  LET over == op[o].inTx \union {op[o].record} IN
    /\ op[o].pc = "after" /\ op' = [op EXCEPT ![o].pc = "done"]
    /\ told' = [r \in Records |-> IF op[o].ok /\ r \in over THEN told[r] + cached[r] ELSE told[r]]
    /\ cached' = [r \in Records |-> IF r \in over THEN 0 ELSE cached[r]]
    /\ key' = [r \in Records |-> IF r \in over THEN NoId ELSE key[r]]
    /\ Publish(Publications(over, IF op[o].ok THEN "commit" ELSE "abort"))
    /\ UNCHANGED <<needs, rows, holder, asked, awaiting, remoteVars, flaws, faults>>

\* A saved record is published with the same transport.
Save(o, r) ==
  /\ holder = 0 /\ Starts(o, "update", r, "done")
  /\ Publish(<<[record |-> r, what |-> "update", id |-> NoId, no |-> pubs + 1]>>)
  /\ UNCHANGED <<needs, rows, holder, cached, key, told, asked, awaiting, remoteVars, flaws,
                 faults>>

-----------------------------------------------------------------------------
\* scheduleClusterRealtimePublish: one batch at a time.

SendBatch ==
  /\ outbox # <<>> /\ awaiting = {} /\ outbox' = <<>>
  /\ \/ /\ Send([kind |-> "publish", events |-> outbox])
        /\ awaiting' = Remotes \X {outbox[Len(outbox)].no} /\ UNCHANGED <<flaws, faults>>
     \/ /\ Fault
        /\ flaws' = Met({outbox[i].record : i \in DOMAIN outbox}, LAMBDA r : {"refused"})
        /\ UNCHANGED <<chan, awaiting>>
  /\ UNCHANGED <<needs, opVars, asked, pubs, prepared, got>>

\* A late batch is only logged; it still arrives.
BatchTimesOut ==
  /\ awaiting # {} /\ awaiting' = {} /\ Fault
  /\ UNCHANGED <<needs, opVars, asked, outbox, pubs, remoteVars, flaws>>

-----------------------------------------------------------------------------
\* Another worker: prepareClusterRealtimeDeletesLocally and
\* deliverClusterRealtimeEvent. It sees the committed rows.

Hand(w, s, e) ==
  IF e.what = "update" \/ (e.what = "commit" /\ e.id \in prepared[w])
  THEN Append(s, [record |-> e.record, what |-> e.what, no |-> e.no]) ELSE s

Handed(w, events) == FoldLeft(LAMBDA s, e : Hand(w, s, e), <<>>, events)

Receive(w) ==
  /\ chan[w] # <<>> /\ chan' = [chan EXCEPT ![w] = Tail(@)]
  /\ LET m == Head(chan[w]) IN
       \/ /\ m.kind = "prepare"
          /\ prepared' = [prepared EXCEPT
               ![w] = @ \union {<<m.op, r>> : r \in {q \in m.records : Visible(q, rows)}}]
          /\ asked' = [asked EXCEPT ![m.op] = @ \ {<<w, m.records>>}]
          /\ UNCHANGED <<got, awaiting>>
       \/ /\ m.kind = "publish"
          /\ got' = [got EXCEPT ![w] = @ \o Handed(w, m.events)]
          /\ prepared' = [prepared EXCEPT ![w] = @ \ {m.events[i].id : i \in DOMAIN m.events}]
          /\ awaiting' = awaiting \ {<<w, m.events[Len(m.events)].no>>}
          /\ UNCHANGED asked
  /\ UNCHANGED <<needs, opVars, outbox, pubs, flaws, faults>>

\* The timer of 30 seconds.
Expire(w, e) ==
  /\ e \in prepared[w] /\ prepared' = [prepared EXCEPT ![w] = @ \ {e}]
  /\ flaws' = Met({e[2]}, LAMBDA r : {"expired"})
  /\ UNCHANGED <<needs, opVars, asked, pubVars, chan, got>>

Next ==
  \/ \E o \in Ops, r \in Records : StartPlain(o, r) \/ StartTx(o, r) \/ Save(o, r)
  \/ \E o \in Ops : PlainPrepared(o) \/ OpenTx(o) \/ FailTx(o) \/ CloseTx(o) \/ AfterHooks(o)
  \/ SendBatch \/ BatchTimesOut
  \/ \E w \in Remotes : Receive(w)
  \/ \E w \in Remotes, e \in EventIds : Expire(w, e) /\ Fault

Spec == Init /\ [][Next]_vars

-----------------------------------------------------------------------------
\* Nothing is on its way.
Quiet ==
  /\ \A o \in Ops : op[o].pc \in {"idle", "done"}
  /\ outbox = <<>> /\ \A w \in Remotes : chan[w] = <<>>

Times(s, r) == Cardinality({i \in DOMAIN s : s[i].record = r /\ s[i].what = "commit"})

\* No client is told of a delete that was rolled back or has yet to commit.
OnlyCommitted ==
  \A r \in Records :
    told[r] > 0 \/ (\E w \in Remotes : Times(got[w], r) > 0) => r \notin rows

\* Once all is over, a committed delete was heard everywhere exactly once: by the
\* client of another worker unless two deletes of the record overlap, or its
\* preparation or publication was refused, expired or came late; by the client of
\* the worker itself unless two overlap, or the rule looks at a record that the
\* transaction deleted first (a cascade deletes the parent first, and the rule of
\* the child is asked on the transaction's connection).
DeleteHeard ==
  Quiet => \A r \in Records \ rows :
    /\ flaws[r] \subseteq {"hidden here"} => \A w \in Remotes : Times(got[w], r) = 1
    /\ flaws[r] \cap {"overlap", "hidden", "hidden here"} = {} => told[r] = 1

\* Nothing stays prepared, here or in another worker, for a delete that is over.
NothingLeft ==
  Quiet => \A r \in Records :
             /\ cached[r] = 0 /\ key[r] = NoId
             /\ flaws[r] \cap {"overlap", "refused"} = {} =>
                  \A w \in Remotes : \A o \in Ops : <<o, r>> \notin prepared[w]

\* A client is handed the events in the order in which they were published,
\* none of them twice.
InOrder == \A w \in Remotes : \A i, j \in DOMAIN got[w] : i < j => got[w][i].no < got[w][j].no
=============================================================================
