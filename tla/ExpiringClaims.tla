----------------------------- MODULE ExpiringClaims -----------------------------
(***************************************************************************)
(* The claim that keeps an account from being sent a second verification   *)
(* or password reset mail too soon (expiring.ts, coordinator.ts and the    *)
(* two record_auth_*_request.ts).                                          *)
(*                                                                         *)
(* In a cluster the claim is an entry of the coordinator, asked for and    *)
(* released by messages; a single process keeps it in app.store(). Each    *)
(* request is on a worker of its own: requests on one worker share a       *)
(* channel, which only takes interleavings away. One key is modelled.      *)
(***************************************************************************)
EXTENDS Integers

CONSTANTS
  Requests,
  TTL,        \* two minutes, in units of the clock
  MaxClock    \* bound: the clock

VARIABLES
  clock,
  clustered, \* --workers is above one
  entry,     \* the claim of a request: owner and expiresAt
  timers,    \* its pending setTimeout calls, those of replaced entries included
  requests,  \* messages to the coordinator
  replies,
  phase,     \* of a request, see Phases
  claimedAt, \* history: when a request got its claim, -1 before
  refusedAt, \* history: when it was refused, -1 before
  freed      \* history: requests whose claim the application has given up

claimVars == <<entry, timers, claimedAt, refusedAt>>
vars == <<clock, clustered, claimVars, requests, replies, phase, freed>>

Free == [owner |-> 0, expiresAt |-> 0]
Phases == {"new", "claiming", "claimed", "sending", "ended"}

TypeOK ==
  /\ clock \in 0..MaxClock /\ clustered \in BOOLEAN
  /\ entry \in [owner : Requests \union {0}, expiresAt : 0..MaxClock + TTL]
  /\ timers \subseteq [owner : Requests, expiresAt : 0..MaxClock + TTL]
  /\ requests \subseteq [kind : {"claim", "release"}, from : Requests]
  /\ replies \subseteq [to : Requests, granted : BOOLEAN]
  /\ phase \in [Requests -> Phases] /\ freed \subseteq Requests
  /\ claimedAt \in [Requests -> -1..MaxClock] /\ refusedAt \in [Requests -> -1..MaxClock]

Init ==
  /\ clock = 0 /\ clustered \in BOOLEAN
  /\ entry = Free /\ timers = {} /\ requests = {} /\ replies = {}
  /\ phase = [r \in Requests |-> "new"] /\ freed = {}
  /\ claimedAt = [r \in Requests |-> -1] /\ refusedAt = [r \in Requests |-> -1]

Tick ==
  /\ clock < MaxClock /\ clock' = clock + 1
  /\ UNCHANGED <<clustered, claimVars, requests, replies, phase, freed>>

-----------------------------------------------------------------------------
\* Whether a claim stands: the coordinator looks at expiresAt (getExpiring), a
\* single process only at what its timers have left in the store.
Stands == entry # Free /\ (clustered => clock < entry.expiresAt)

\* claim, setExpiring and claimExpiringValue.
Decide(r) ==
  \/ /\ Stands
     /\ refusedAt' = [refusedAt EXCEPT ![r] = clock] /\ UNCHANGED <<entry, timers, claimedAt>>
  \/ /\ ~Stands
     /\ entry' = [owner |-> r, expiresAt |-> clock + TTL] /\ timers' = timers \union {entry'}
     /\ claimedAt' = [claimedAt EXCEPT ![r] = clock] /\ UNCHANGED refusedAt

\* A release deletes the claim that it names and no other.
\* Mutant: it deletes the key.
Released_Key(r) == Free

Released(r) == IF entry.owner = r THEN Free ELSE entry

\* A timer may be late.
Expired(t) == IF entry = t THEN Free ELSE entry

Timer(t) ==
  /\ t \in timers /\ clock >= t.expiresAt
  /\ timers' = timers \ {t} /\ entry' = Expired(t)
  /\ UNCHANGED <<clock, clustered, claimedAt, refusedAt, requests, replies, phase, freed>>

-----------------------------------------------------------------------------
\* The request.

Ask(r) ==
  /\ phase[r] = "new"
  /\ \/ /\ clustered /\ requests' = requests \union {[kind |-> "claim", from |-> r]}
        /\ phase' = [phase EXCEPT ![r] = "claiming"] /\ UNCHANGED claimVars
     \/ /\ ~clustered /\ Decide(r) /\ UNCHANGED requests
        /\ phase' = [phase EXCEPT ![r] = IF Stands THEN "ended" ELSE "claimed"]
  /\ UNCHANGED <<clock, clustered, replies, freed>>

Answered(r) ==
  /\ phase[r] = "claiming"
  /\ \E m \in replies :
       /\ m.to = r /\ replies' = replies \ {m}
       /\ phase' = [phase EXCEPT ![r] = IF m.granted THEN "claimed" ELSE "ended"]
  /\ UNCHANGED <<clock, clustered, claimVars, requests, freed>>

\* Five seconds without an answer. A claim granted meanwhile has no owner who
\* knows its token.
TimeOut(r) ==
  /\ phase[r] = "claiming" /\ phase' = [phase EXCEPT ![r] = "ended"]
  /\ UNCHANGED <<clock, clustered, claimVars, requests, replies, freed>>

\* releaseExpiringValue. The release of a worker is not waited for any longer
\* than five seconds either, which changes nothing here.
GiveUp(r) ==
  /\ phase' = [phase EXCEPT ![r] = "ended"] /\ freed' = freed \union {r}
  /\ \/ /\ clustered /\ requests' = requests \union {[kind |-> "release", from |-> r]}
        /\ UNCHANGED entry
     \/ ~clustered /\ entry' = Released(r) /\ UNCHANGED requests
  /\ UNCHANGED <<clock, clustered, timers, claimedAt, refusedAt, replies>>

\* The hooks reach the handler, which starts the mail and does not wait for it.
StartMail(r) ==
  /\ phase[r] = "claimed" /\ phase' = [phase EXCEPT ![r] = "sending"]
  /\ UNCHANGED <<clock, clustered, claimVars, requests, replies, freed>>

\* A hook ends the request without the handler.
SkipMail(r) == phase[r] = "claimed" /\ GiveUp(r)

\* A hook that throws ends the request and leaves its claim; so does a mail that
\* was sent.
KeepClaim(r) ==
  /\ phase[r] \in {"claimed", "sending"} /\ phase' = [phase EXCEPT ![r] = "ended"]
  /\ UNCHANGED <<clock, clustered, claimVars, requests, replies, freed>>

MailFails(r) == phase[r] = "sending" /\ GiveUp(r)

\* The mail's link is used: the confirm requests remove the key from app.store(),
\* which in a cluster does not hold it.
Confirm ==
  /\ ~clustered /\ entry # Free /\ claimedAt[entry.owner] >= 0
  /\ entry' = Free /\ freed' = freed \union {entry.owner}
  /\ UNCHANGED <<clock, clustered, timers, claimedAt, refusedAt, requests, replies, phase>>

-----------------------------------------------------------------------------
\* The coordinator.

HandleClaim(r) ==
  /\ [kind |-> "claim", from |-> r] \in requests
  /\ requests' = requests \ {[kind |-> "claim", from |-> r]}
  /\ Decide(r) /\ replies' = replies \union {[to |-> r, granted |-> ~Stands]}
  /\ UNCHANGED <<clock, clustered, phase, freed>>

HandleRelease(r) ==
  /\ [kind |-> "release", from |-> r] \in requests
  /\ requests' = requests \ {[kind |-> "release", from |-> r]}
  /\ entry' = Released(r)
  /\ UNCHANGED <<clock, clustered, timers, claimedAt, refusedAt, replies, phase, freed>>

Next ==
  \/ Tick \/ Confirm \/ \E t \in timers : Timer(t)
  \/ \E r \in Requests :
        \/ Ask(r) \/ Answered(r) \/ TimeOut(r) \/ HandleClaim(r) \/ HandleRelease(r)
        \/ StartMail(r) \/ SkipMail(r) \/ KeepClaim(r) \/ MailFails(r)

Spec == Init /\ [][Next]_vars

-----------------------------------------------------------------------------
\* A claim keeps others out for its time, unless the application gave it up: no
\* late release and no timer of an older claim lets a second mail out.
OneMailAPeriod ==
  \A q, r \in Requests :
    (q # r /\ claimedAt[q] >= 0 /\ claimedAt[r] >= claimedAt[q] /\ claimedAt[r] < claimedAt[q] + TTL)
      => q \in freed \/ (claimedAt[r] = claimedAt[q] /\ r \in freed)

\* In a cluster an account is refused a mail only within the time of a claim:
\* none outlives it, though its grant, its release or its timer come too late.
RefusedInTime ==
  clustered => \A r \in Requests : refusedAt[r] >= 0 =>
    \E q \in Requests \ {r} : claimedAt[q] >= 0 /\ refusedAt[r] - claimedAt[q] \in 0..TTL - 1
=============================================================================
