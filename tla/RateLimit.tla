------------------------------- MODULE RateLimit -------------------------------
(***************************************************************************)
(* The allowance of one client under one rate limit rule, in a cluster.    *)
(*                                                                         *)
(* A worker collects the requests that wait for a decision and sends them  *)
(* as one batch at a time (flushRateLimitBatch, worker.ts); the            *)
(* coordinator decides them with the limiter that a single process uses    *)
(* (consumeRateLimit, coordinator.ts, and apis/rate_limiter.ts). Time is   *)
(* counted in the whole seconds that the limiter looks at.                 *)
(***************************************************************************)
EXTENDS Integers, Sequences, FiniteSets

CONSTANTS
  Workers,
  Requests,   \* HTTP requests of the client: 1..n, in the order they arrive
  OldMax,     \* maxRequests of the rule before a change of the settings
  NewMax,     \* and after it
  Interval,   \* the rule's duration
  Keep,       \* minDeleteInterval: seconds that an idle client is kept
  MaxTime,    \* bound: the clock
  MaxLate     \* bound: batches that time out

VARIABLES
  now,
  max,      \* maxRequests in the settings of each worker
  limiter,  \* the coordinator's entry and the client in it; max 0 for no entry
  askedMax,    \* maxRequests that a request was sent with, 0 before
  waiting,  \* pendingRateLimits of each worker
  flight,   \* the batch it has sent and waits for
  up,       \* batches on the way to the primary
  down,     \* answers on the way back
  status,   \* of a request: "new", "waiting", "allowed", "denied", "failed"
  verdict,  \* history: what the coordinator decided, "none" before
  windows,  \* history: the windows that the coordinator opened
  late      \* batches that timed out

limiterVars == <<limiter, verdict, windows>>
wireVars == <<askedMax, waiting, flight, up, down>>
vars == <<now, max, limiterVars, wireVars, status, late>>

NoClient == [max |-> 0, start |-> -Interval, available |-> 0, entry |-> 0]
Verdicts == {"allowed", "denied"}
ToSet(s) == {s[i] : i \in DOMAIN s}
Place(r, s) == CHOOSE i \in DOMAIN s : s[i] = r

TypeOK ==
  /\ now \in 0..MaxTime /\ max \in [Workers -> {OldMax, NewMax}]
  /\ limiter.max \in {0, OldMax, NewMax} /\ limiter.available \in 0..limiter.max
  /\ limiter.start \in (-Interval)..now /\ limiter.entry \in 0..Cardinality(Requests)
  /\ askedMax \in [Requests -> {0, OldMax, NewMax}]
  /\ \A w \in Workers : ToSet(waiting[w]) \union ToSet(flight[w]) \subseteq Requests
  /\ \A w \in Workers : \A i \in DOMAIN up[w] : ToSet(up[w][i]) \subseteq Requests
  /\ \A w \in Workers : \A i \in DOMAIN down[w] :
       down[w][i].verdicts \in [DOMAIN down[w][i].batch -> Verdicts]
  /\ status \in [Requests -> {"new", "waiting", "failed"} \union Verdicts]
  /\ verdict \in [Requests -> {"none"} \union Verdicts]
  /\ late \in 0..MaxLate

Init ==
  /\ now = 0 /\ max = [w \in Workers |-> OldMax]
  /\ limiter = NoClient /\ windows = <<>> /\ verdict = [r \in Requests |-> "none"]
  /\ askedMax = [r \in Requests |-> 0]
  /\ waiting = [w \in Workers |-> <<>>] /\ flight = [w \in Workers |-> <<>>]
  /\ up = [w \in Workers |-> <<>>] /\ down = [w \in Workers |-> <<>>]
  /\ status = [r \in Requests |-> "new"]
  /\ late = 0

Tick == now < MaxTime /\ now' = now + 1 /\ UNCHANGED <<max, limiterVars, wireVars, status, late>>

\* A worker reloads changed settings; others may still have the old ones.
Reload(w) ==
  /\ max[w] = OldMax /\ OldMax # NewMax /\ max' = [max EXCEPT ![w] = NewMax]
  /\ UNCHANGED <<now, limiterVars, wireVars, status, late>>

-----------------------------------------------------------------------------
\* The worker: consumeClusterRateLimit, flushRateLimitBatch, requestCoordinator.

Arrive(w, r) ==
  /\ status[r] = "new" /\ \A q \in Requests : q < r => status[q] # "new"
  /\ status' = [status EXCEPT ![r] = "waiting"]
  /\ waiting' = [waiting EXCEPT ![w] = Append(@, r)] /\ askedMax' = [askedMax EXCEPT ![r] = max[w]]
  /\ UNCHANGED <<now, max, limiterVars, flight, up, down, late>>

\* splice(0): all that waits goes into the next batch.
Flush(w) ==
  /\ flight[w] = <<>> /\ waiting[w] # <<>>
  /\ flight' = [flight EXCEPT ![w] = waiting[w]] /\ waiting' = [waiting EXCEPT ![w] = <<>>]
  /\ up' = [up EXCEPT ![w] = Append(@, waiting[w])]
  /\ UNCHANGED <<now, max, limiterVars, askedMax, down, status, late>>

\* The answer is given to the requests of its batch; that of a batch that has
\* timed out finds no pending request.
Answer(w) ==
  /\ down[w] # <<>> /\ down' = [down EXCEPT ![w] = Tail(@)] /\ UNCHANGED askedMax
  /\ LET m == Head(down[w]) IN
       \/ /\ m.batch = flight[w] /\ flight' = [flight EXCEPT ![w] = <<>>]
          /\ status' = [r \in Requests |->
               IF r \in ToSet(m.batch) THEN m.verdicts[Place(r, m.batch)] ELSE status[r]]
       \/ m.batch # flight[w] /\ UNCHANGED <<flight, status>>
  /\ UNCHANGED <<now, max, limiterVars, waiting, up, late>>

\* The five seconds of a coordinator request are over: its requests fail.
TimeOut(w) ==
  /\ flight[w] # <<>> /\ late < MaxLate /\ late' = late + 1
  /\ flight' = [flight EXCEPT ![w] = <<>>]
  /\ status' = [r \in Requests |-> IF r \in ToSet(flight[w]) THEN "failed" ELSE status[r]]
  /\ UNCHANGED <<now, max, limiterVars, askedMax, waiting, up, down>>

-----------------------------------------------------------------------------
\* The coordinator.

\* consumeRateLimit replaces the entry, and the clients in it, when the rule of
\* the request is another one.
Entry(l, m) == IF l.max = m THEN l ELSE [NoClient EXCEPT !.max = m, !.entry = l.entry + 1]

\* RateClient.consume: a new window when the last one is over, then one request
\* of what is available.
Consume(c, r) ==
  LET e == Entry(c.limiter, askedMax[r])
      opens == now - e.start >= Interval
      available == IF opens THEN e.max ELSE e.available
      one == IF available > 0 THEN 1 ELSE 0
      opened == IF opens
                THEN Append(c.windows, [entry |-> e.entry, max |-> e.max, start |-> now,
                                        allowed |-> 0, denied |-> 0])
                ELSE c.windows IN
    [limiter |-> [e EXCEPT !.available = available - one, !.start = IF opens THEN now ELSE @],
     windows |-> [opened EXCEPT ![Len(opened)].allowed = @ + one,
                                ![Len(opened)].denied = @ + 1 - one],
     verdict |-> [c.verdict EXCEPT ![r] = IF one = 1 THEN "allowed" ELSE "denied"]]

\* The outcome of the first requests of a batch.
Consumed(c, batch) ==
  LET After[n \in 0..Len(batch)] == IF n = 0 THEN c ELSE Consume(After[n - 1], batch[n])
  IN  After[Len(batch)]

\* A batch is decided in one step, in its order.
Decide(w) ==
  /\ up[w] # <<>> /\ up' = [up EXCEPT ![w] = Tail(@)]
  /\ \E batch \in {Head(up[w])} :
     \E c \in {Consumed([limiter |-> limiter, windows |-> windows, verdict |-> verdict], batch)} :
       /\ limiter' = c.limiter /\ windows' = c.windows /\ verdict' = c.verdict
       /\ down' = [down EXCEPT ![w] = Append(@,
            [batch |-> batch, verdicts |-> [i \in DOMAIN batch |-> c.verdict[batch[i]]]])]
  /\ UNCHANGED <<now, max, askedMax, waiting, flight, status, late>>

\* RateLimiter.clean forgets a client that was idle long enough.
\* Mutant: as if hasExpired counted from the start of the window.
Clean_Early ==
  /\ limiter.start >= 0 /\ now - limiter.start > Keep
  /\ limiter' = [limiter EXCEPT !.start = -Interval, !.available = 0]
  /\ UNCHANGED <<now, max, verdict, windows, wireVars, status, late>>

Clean ==
  /\ limiter.start >= 0 /\ now - (limiter.start + Interval) > Keep
  /\ limiter' = [limiter EXCEPT !.start = -Interval, !.available = 0]
  /\ UNCHANGED <<now, max, verdict, windows, wireVars, status, late>>

Next ==
  \/ Tick \/ Clean
  \/ \E w \in Workers : Reload(w) \/ Flush(w) \/ Answer(w) \/ TimeOut(w) \/ Decide(w)
  \/ \E w \in Workers, r \in Requests : Arrive(w, r)

Spec == Init /\ [][Next]_vars

-----------------------------------------------------------------------------
\* The workers together get the allowance of a rule once in a window: never
\* more, and nobody is refused before it is used up; and as long as the rule is
\* not replaced a client gets no second window before the first is over, however
\* it was cleaned up in between.
AllowanceKept ==
  /\ \A i \in DOMAIN windows :
       /\ windows[i].allowed <= windows[i].max
       /\ windows[i].denied > 0 => windows[i].allowed = windows[i].max
  /\ \A i, j \in DOMAIN windows :
       i < j /\ windows[i].entry = windows[j].entry => windows[j].start - windows[i].start >= Interval

\* A request is told what was decided for it, whatever answer came late; and
\* while it waits, it is in a batch to come or in one whose answer is on its way.
ToldDecision ==
  \A r \in Requests :
    /\ status[r] \in Verdicts => status[r] = verdict[r]
    /\ status[r] = "waiting" => \E w \in Workers :
         \/ r \in ToSet(waiting[w])
         \/ /\ r \in ToSet(flight[w])
            /\ flight[w] \in ToSet(up[w]) \union {m.batch : m \in ToSet(down[w])}
=============================================================================
