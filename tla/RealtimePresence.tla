--------------------------- MODULE RealtimePresence ---------------------------
(***************************************************************************)
(* Which workers have realtime clients, and who is told of an event.       *)
(*                                                                         *)
(* A worker tells the coordinator when its first realtime client connects  *)
(* and when its last one leaves (realtimeConnect, src/apis/realtime.ts).   *)
(* The coordinator keeps the set and broadcasts it, one change at a time   *)
(* (src/internal/cluster/coordinator.ts); a worker that sees no remote     *)
(* clients in the last set it was sent does not publish its events. A      *)
(* restart or a restore replaces the coordinator and all workers.          *)
(***************************************************************************)
EXTENDS Naturals, Sequences, FiniteSets

CONSTANTS
  Workers,    \* worker processes
  Hosts,      \* those that realtime clients connect to
  PerHost,    \* clients of each of them
  Sources,    \* those whose events are followed
  MaxEvents,  \* bound: events
  MaxFaults,  \* bound: faults
  Faults      \* kinds of faults: "exit", "delivery", "request", "event", "recycle"

Clients == Hosts \X (1..PerHost)
Unknown == Workers  \* realtimeWorkerIds = null counts as remote clients everywhere

VARIABLES
  life,     \* of a worker: "off", "new", "syncing" (sent worker.ready), "ready",
            \*   "stopping", "gone"
  running,  \* lifecycleState = "running"
  active,   \* realtimeWorkers of the coordinator
  queue,    \* realtimePresenceTail: the tasks that did not end
  started,  \* the first of them waits for its deliveries
  pending,  \* the deliveries it waits for: <<worker, number of the task>>
  tasks,    \* tasks ended so far
  chan,     \* deliveries on the way to each worker
  view,     \* realtimeWorkerIds of each worker
  asks,     \* realtimePresenceTail of each worker: its requests not answered
  client,   \* "off", "asking", "connected", "closed"
  outbox,   \* publishEvents of each worker
  awaiting, \* deliveries its publication waits for: <<worker, last event>>
  counted,  \* history: a worker was told that its clients are known
  made,     \* history: the events, with the clients each of them must reach
  got,      \* history: the events that each client was handed
  dropped,  \* history: events refused because the cluster was not running
  missed,   \* history: <<worker, event>>: see EventReaches
  unknown,  \* history: workers whose first request was refused for that reason
            \*   while they had a second client
  faults

memberVars == <<life, running, unknown, faults>>
taskVars == <<active, queue, started, pending, tasks>>
clientVars == <<view, asks, client, counted>>
eventVars == <<outbox, awaiting, made, got, dropped, missed>>
vars == <<memberVars, taskVars, chan, clientVars, eventVars>>

Update(w, on, ask) == [kind |-> "update", worker |-> w, on |-> on, ask |-> ask]
Sync(w) == [kind |-> "sync", worker |-> w, on |-> TRUE, ask |-> FALSE]
Tasks == [kind : {"update", "sync"}, worker : Workers, on : BOOLEAN, ask : BOOLEAN]

TypeOK ==
  /\ life \in [Workers -> {"off", "new", "syncing", "ready", "stopping", "gone"}]
  /\ {running, started} \subseteq BOOLEAN /\ unknown \subseteq Workers
  /\ active \subseteq Workers /\ pending \subseteq Workers \X (0..tasks)
  /\ queue \in Seq(Tasks)
  /\ view \in [Workers -> SUBSET Workers]
  /\ client \in [Clients -> {"off", "asking", "connected", "closed"}]
  /\ counted \in [Workers -> BOOLEAN]
  /\ awaiting \in [Workers -> SUBSET (Workers \X (1..MaxEvents))]
  /\ made \in Seq([from : Workers, due : SUBSET Clients])
  /\ got \in [Clients -> SUBSET (1..MaxEvents)]
  /\ dropped \subseteq 1..MaxEvents /\ missed \subseteq Hosts \X (1..MaxEvents)
  /\ faults \in 0..MaxFaults

Registered(w) == {c \in Clients : c[1] = w /\ client[c] \in {"asking", "connected"}}
Alive(w) == life[w] \notin {"off", "gone"}
Ready == {w \in Workers : life[w] = "ready"}
Fault(kind) == kind \in Faults /\ faults < MaxFaults /\ faults' = faults + 1
Send(S, m) == chan' = [w \in Workers |-> IF w \in S THEN Append(chan[w], m) ELSE chan[w]]

Init ==
  /\ life \in [Workers -> {"off", "ready"}]
  /\ running = TRUE /\ unknown = {} /\ faults = 0
  /\ active = {} /\ queue = <<>> /\ started = FALSE /\ pending = {} /\ tasks = 0
  /\ chan = [w \in Workers |-> <<>>]
  /\ view = [w \in Workers |-> IF life[w] = "off" THEN Unknown ELSE {}]
  /\ asks = [w \in Workers |-> <<>>]
  /\ client = [c \in Clients |-> "off"]
  /\ counted = [w \in Workers |-> FALSE]
  /\ outbox = [w \in Workers |-> <<>>]
  /\ awaiting = [w \in Workers |-> {}]
  /\ made = <<>> /\ got = [c \in Clients |-> {}] /\ dropped = {} /\ missed = {}

-----------------------------------------------------------------------------
\* The worker: realtimeConnect, and the tail of its presence requests.

Ask(on, c) == [on |-> on, client |-> c, sent |-> FALSE]

\* Only the first client of a worker waits until its presence is known.
Connect(c) ==
  /\ client[c] = "off" /\ Alive(c[1])
  /\ IF Registered(c[1]) = {}
     THEN /\ client' = [client EXCEPT ![c] = "asking"]
          /\ asks' = [asks EXCEPT ![c[1]] = Append(@, Ask(TRUE, c))]
     ELSE client' = [client EXCEPT ![c] = "connected"] /\ UNCHANGED asks
  /\ UNCHANGED <<memberVars, taskVars, chan, view, counted, eventVars>>

\* Mutant: Every client that leaves clears it.
Leaves_Any(c, tail) ==
  /\ client' = [client EXCEPT ![c] = "closed"]
  /\ asks' = [asks EXCEPT ![c[1]] = Append(tail, Ask(FALSE, c))]
  /\ counted' = [counted EXCEPT ![c[1]] = @ /\ Registered(c[1]) # {c}]

\* The finally block: the last client that leaves clears the presence. The
\* worker then has the requests of tail left.
Leaves(c, tail) ==
  LET last == Registered(c[1]) = {c} IN
    /\ client' = [client EXCEPT ![c] = "closed"]
    /\ asks' = [asks EXCEPT ![c[1]] = IF last THEN Append(tail, Ask(FALSE, c)) ELSE tail]
    /\ counted' = [counted EXCEPT ![c[1]] = @ /\ ~last]

Disconnect(c) ==
  /\ client[c] = "connected" /\ Leaves(c, asks[c[1]])
  /\ UNCHANGED <<memberVars, taskVars, chan, view, eventVars>>

\* The first request of a worker is answered: its client is told that it is
\* connected, or is turned away.
Answered(w, ok) ==
  LET a == Head(asks[w]) IN
    \/ /\ ~a.on
       /\ asks' = [asks EXCEPT ![w] = Tail(@)] /\ UNCHANGED <<client, counted>>
    \/ /\ a.on /\ ok
       /\ asks' = [asks EXCEPT ![w] = Tail(@)]
       /\ client' = [client EXCEPT ![a.client] = "connected"]
       /\ counted' = [counted EXCEPT ![w] = TRUE]
    \/ a.on /\ ~ok /\ Leaves(a.client, Tail(asks[w]))

\* requestCoordinator; the primary refuses it unless the cluster runs.
SendAsk(w) ==
  /\ Alive(w) /\ asks[w] # <<>> /\ ~Head(asks[w]).sent
  /\ \/ /\ running
        /\ queue' = Append(queue, Update(w, Head(asks[w]).on, TRUE))
        /\ asks' = [asks EXCEPT ![w][1].sent = TRUE]
        /\ UNCHANGED <<client, counted, unknown>>
     \/ /\ ~running /\ Answered(w, FALSE) /\ UNCHANGED queue
        /\ unknown' = unknown \union
             {v \in {w} : Head(asks[w]).on /\ Registered(w) # {Head(asks[w]).client}}
  /\ UNCHANGED <<life, running, faults, active, started, pending, tasks, chan, view, eventVars>>

\* Nobody waits for the answers of these tasks of w.
Forgotten(q, w) ==
  [i \in 1..Len(q) |-> IF q[i].worker = w THEN [q[i] EXCEPT !.ask = FALSE] ELSE q[i]]

\* The request times out in the worker; the primary goes on with it.
AskTimesOut(w) ==
  /\ asks[w] # <<>> /\ Head(asks[w]).sent /\ Fault("request") /\ Answered(w, FALSE)
  /\ queue' = Forgotten(queue, w)
  /\ UNCHANGED <<life, running, unknown, active, started, pending, tasks, chan, view, eventVars>>

-----------------------------------------------------------------------------
\* The coordinator: queueRealtimePresence runs one task after the other.

\* At the start, in the place of a worker that crashed, or in a restart.
Fork(w) ==
  /\ life[w] = "off" /\ \A v \in Workers : life[v] # "stopping"
  /\ life' = [life EXCEPT ![w] = "new"]
  /\ UNCHANGED <<running, unknown, faults, taskVars, chan, clientVars, eventVars>>

\* A worker that started serves its clients before the primary counts it.
WorkerReady(w) ==
  /\ life[w] = "new" /\ life' = [life EXCEPT ![w] = "syncing"]
  /\ queue' = Append(queue, Sync(w))
  /\ UNCHANGED <<running, unknown, faults, active, started, pending, tasks, chan, clientVars,
                 eventVars>>

EndTask(ok) ==
  /\ queue' = Tail(queue) /\ started' = FALSE /\ pending' = {} /\ tasks' = tasks + 1
  /\ IF Head(queue).ask THEN Answered(Head(queue).worker, ok)
     ELSE UNCHANGED <<asks, client, counted>>

Broadcast(S, set) ==
  /\ active' = set /\ Send(S, [kind |-> "presence", set |-> set, task |-> tasks])
  /\ started' = TRUE /\ pending' = {<<w, tasks>> : w \in S}
  /\ UNCHANGED <<queue, tasks, asks, client, counted>>

StartTask ==
  /\ queue # <<>> /\ ~started
  /\ LET t == Head(queue) IN
       \/ /\ t.kind = "update" /\ (t.worker \in active) = t.on
          /\ EndTask(TRUE) /\ UNCHANGED <<active, chan>>
       \/ /\ t.kind = "update" /\ (t.worker \in active) # t.on
          /\ Broadcast(Ready, IF t.on THEN active \union {t.worker} ELSE active \ {t.worker})
       \/ t.kind = "sync" /\ Broadcast({t.worker}, active)
  /\ UNCHANGED <<memberVars, view, eventVars>>

\* A synchronised worker is ready before the next task starts.
Joined(t) == IF t.kind = "sync" /\ life[t.worker] = "syncing"
             THEN [life EXCEPT ![t.worker] = "ready"] ELSE life

TaskDone ==
  /\ started /\ pending = {} /\ EndTask(TRUE) /\ life' = Joined(Head(queue))
  /\ UNCHANGED <<running, unknown, faults, active, chan, view, eventVars>>

\* A delivery of the task was rejected since its worker is gone.
TaskFails ==
  /\ started /\ \E d \in pending : life[d[1]] = "gone"
  /\ EndTask(FALSE)
  /\ UNCHANGED <<memberVars, active, chan, view, eventVars>>

\* Mutant: The coordinator is not told of the exit.
Gone_Kept(w, q) ==
  /\ life' = [life EXCEPT ![w] = "gone"]
  /\ queue' = Forgotten(q, w)
  /\ client' = [c \in Clients |-> IF c[1] = w THEN "closed" ELSE client[c]]
  /\ chan' = [chan EXCEPT ![w] = <<>>]
  /\ asks' = [asks EXCEPT ![w] = <<>>] /\ counted' = [counted EXCEPT ![w] = FALSE]
  /\ outbox' = [outbox EXCEPT ![w] = <<>>] /\ awaiting' = [awaiting EXCEPT ![w] = {}]
  /\ UNCHANGED <<running, unknown, active, view, made, got, dropped, missed>>

\* The exit handler of worker w, q being the tasks that are left.
Gone(w, q) ==
  /\ life' = [life EXCEPT ![w] = "gone"]
  /\ queue' = Append(Forgotten(q, w), Update(w, FALSE, FALSE))
  /\ client' = [c \in Clients |-> IF c[1] = w THEN "closed" ELSE client[c]]
  /\ chan' = [chan EXCEPT ![w] = <<>>]
  /\ asks' = [asks EXCEPT ![w] = <<>>] /\ counted' = [counted EXCEPT ![w] = FALSE]
  /\ outbox' = [outbox EXCEPT ![w] = <<>>] /\ awaiting' = [awaiting EXCEPT ![w] = {}]
  /\ UNCHANGED <<running, unknown, active, view, made, got, dropped, missed>>

Exit(w) ==
  /\ Alive(w) /\ Gone(w, queue)
  /\ \/ Fault("exit")
     \/ life[w] = "stopping" /\ UNCHANGED faults
  /\ UNCHANGED <<started, pending, tasks>>

\* A delivery times out: the task fails, and a worker that could not be
\* synchronised is killed. The delivery still arrives.
DeliveryTimesOut ==
  /\ started /\ pending # {} /\ Fault("delivery")
  /\ \/ /\ Head(queue).kind = "update" /\ EndTask(FALSE)
        /\ UNCHANGED <<life, running, unknown, active, chan, view, eventVars>>
     \/ /\ Head(queue).kind = "sync" /\ Alive(Head(queue).worker)
        /\ Gone(Head(queue).worker, Tail(queue))
        /\ started' = FALSE /\ pending' = {} /\ tasks' = tasks + 1

\* A restart or a restore: the coordinator is replaced and all workers are told
\* to stop; in a restore the old one only hears of exits before that. Requests
\* are refused until the new workers are ready.
Recycle ==
  /\ running /\ Fault("recycle") /\ running' = FALSE
  /\ life' = [w \in Workers |-> IF Alive(w) THEN "stopping" ELSE life[w]]
  /\ active' = {} /\ queue' = <<>> /\ started' = FALSE /\ pending' = {} /\ tasks' = tasks + 1
  /\ UNCHANGED <<unknown, chan, clientVars, eventVars>>

\* The tasks of the coordinator that was replaced go on, among workers that stop.
OldAnswers(w) ==
  /\ life[w] = "stopping" /\ asks[w] # <<>> /\ Head(asks[w]).sent
  /\ \E ok \in BOOLEAN : Answered(w, ok)
  /\ UNCHANGED <<memberVars, taskVars, chan, view, eventVars>>

Resume ==
  /\ ~running /\ running' = TRUE
  /\ Ready # {} /\ \A w \in Workers : Alive(w) => w \in Ready
  /\ UNCHANGED <<life, unknown, faults, taskVars, chan, clientVars, eventVars>>

-----------------------------------------------------------------------------
\* Events: publishClusterRealtimeEvent and scheduleClusterRealtimePublish.

HasRemote(w) == view[w] \ {w} # {}

\* The clients of other workers that were told they are connected.
MustReach(w) == {c \in Clients : c[1] # w /\ client[c] = "connected"}

Commit(w) ==
  /\ w \in Sources /\ Alive(w) /\ Len(made) < MaxEvents
  /\ made' = Append(made, [from |-> w, due |-> IF running THEN MustReach(w) ELSE {}])
  /\ outbox' = IF HasRemote(w) THEN [outbox EXCEPT ![w] = Append(@, Len(made) + 1)] ELSE outbox
  /\ missed' = missed \union {h \in Hosts : ~counted[h]} \X {Len(made) + 1}
  /\ UNCHANGED <<memberVars, taskVars, chan, clientVars, awaiting, got, dropped>>

Elements(s) == {s[i] : i \in DOMAIN s}
Targets(w) == (Ready \cap active) \ {w}

Publish(w) ==
  /\ Alive(w) /\ outbox[w] # <<>> /\ awaiting[w] = {}
  /\ outbox' = [outbox EXCEPT ![w] = <<>>]
  /\ \/ /\ running /\ UNCHANGED dropped
        /\ Send(Targets(w), [kind |-> "events", from |-> w, events |-> outbox[w]])
        /\ awaiting' = [awaiting EXCEPT ![w] = Targets(w) \X {outbox[w][Len(outbox[w])]}]
        /\ missed' = missed \union (Hosts \ Ready) \X Elements(outbox[w])
     \/ /\ ~running /\ dropped' = dropped \union Elements(outbox[w])
        /\ UNCHANGED <<chan, awaiting, missed>>
  /\ UNCHANGED <<memberVars, taskVars, clientVars, made, got>>

\* A failed publication is only logged: a target is gone, or is late.
PublishEnds(w) ==
  /\ awaiting' = [awaiting EXCEPT ![w] = {}]
  /\ UNCHANGED <<life, running, unknown, taskVars, chan, clientVars, outbox, made, got, dropped,
                 missed>>

PublishFails(w) == (\E d \in awaiting[w] : life[d[1]] = "gone") /\ PublishEnds(w) /\ UNCHANGED faults
PublishTimesOut(w) == awaiting[w] # {} /\ PublishEnds(w) /\ Fault("delivery")

\* handleCoordinatorDelivery, and its result at the primary. An event whose
\* delivery fails is only logged, and the loop goes on with the next.
Receive(w) ==
  /\ chan[w] # <<>> /\ chan' = [chan EXCEPT ![w] = Tail(@)]
  /\ LET m == Head(chan[w]) IN
       \/ /\ m.kind = "presence"
          /\ view' = [view EXCEPT ![w] = m.set]
          /\ pending' = pending \ {<<w, m.task>>}
          /\ UNCHANGED <<got, awaiting, missed, faults>>
       \/ /\ m.kind = "events"
          /\ \E bad \in SUBSET Elements(m.events) :
               /\ IF bad = {} THEN UNCHANGED faults ELSE Fault("event")
               /\ missed' = missed \union {w} \X bad
               /\ got' = [c \in Clients |-> IF c \in Registered(w)
                                           THEN got[c] \union (Elements(m.events) \ bad) ELSE got[c]]
          /\ awaiting' = [awaiting EXCEPT ![m.from] = @ \ {<<w, m.events[Len(m.events)]>>}]
          /\ UNCHANGED <<view, pending>>
  /\ UNCHANGED <<life, running, unknown, active, queue, started, tasks, asks, client, counted, outbox,
                 made, dropped>>

Steps(w) ==
  SendAsk(w) \/ OldAnswers(w) \/ WorkerReady(w) \/ Publish(w) \/ PublishFails(w) \/ Receive(w)

Next ==
  \/ \E c \in Clients : Connect(c) \/ Disconnect(c)
  \/ \E w \in Workers : \/ Steps(w) \/ AskTimesOut(w) \/ Fork(w) \/ Exit(w)
                        \/ Commit(w) \/ PublishTimesOut(w)
  \/ StartTask \/ TaskDone \/ TaskFails \/ DeliveryTimesOut \/ Recycle \/ Resume

Spec == Init /\ [][Next]_vars

\* What a worker or the primary can do it does in the end: messages are
\* delivered, promises settle, a worker that is told to stop exits (or is
\* killed), and a restart ends. Clients, events, forks and faults are free.
Fairness ==
  /\ \A w \in Workers : WF_vars(Steps(w) \/ (life[w] = "stopping" /\ Exit(w)))
  /\ WF_vars(StartTask \/ TaskDone \/ TaskFails \/ Resume)
FairSpec == Spec /\ Fairness

-----------------------------------------------------------------------------
\* An event is on its way to a client.
InFlight(e, c) ==
  \/ e \in Elements(outbox[made[e].from])
  \/ \E i \in DOMAIN chan[c[1]] :
        chan[c[1]][i].kind = "events" /\ e \in Elements(chan[c[1]][i].events)

\* The event was refused with the cluster not running, the worker of the event
\* has exited, or the client has left.
Void(e, c) == e \in dropped \/ life[made[e].from] = "gone" \/ client[c] # "connected"

\* A client that was told it is connected is handed what other workers commit
\* from then on: startup "can only cause extra IPC, never missed realtime
\* events" (the comment on hasRemoteClusterRealtimeClients).
AllReached ==
  \A e \in DOMAIN made : \A c \in made[e].due :
    Void(e, c) \/ InFlight(e, c) \/ e \in got[c]

\* It is, except for the three ways in which the code lets an event pass a
\* worker: at its commit no client of that worker had been told that its
\* presence is known (only the first one waits for it), at its publication the
\* worker was not ready at the primary, or its delivery there failed by itself.
\* No other change of presence, exit, timeout, join or restart does.
EventReaches ==
  \A e \in DOMAIN made : \A c \in made[e].due :
    Void(e, c) \/ InFlight(e, c) \/ e \in got[c] \/ <<c[1], e>> \in missed

Agreed ==
  /\ \A w \in Workers :
       /\ w \in active => Registered(w) # {}
       /\ Registered(w) # {} => w \in active \union unknown
  /\ \A w \in Ready : view[w] = active

\* The coordinator and every ready worker come to agree on the workers that
\* have clients, whatever failed on the way: only a worker whose first request
\* was refused in a restart, with a second client connected meanwhile, may be
\* left out.
Converges == <>[]Agreed
=============================================================================
