------------------------------- MODULE HookTrigger -------------------------------
(***************************************************************************)
(* A hook whose handlers wait, and that is bound and unbound meanwhile     *)
(* (src/tools/hook/hook.ts, tagged.ts).                                    *)
(*                                                                         *)
(* Trigger does not copy the handlers: Next moves a cursor of the event    *)
(* over the hook's own list, up to the length it had at the start, and     *)
(* then runs the function that was given to Trigger. A handler runs to its *)
(* first await; others trigger, bind or unbind before it calls Next.       *)
(***************************************************************************)
EXTENDS Naturals, FiniteSetsExt, SequencesExt

CONSTANTS
  Handlers,   \* ids of handlers
  Early,      \* those with a lower priority number than the others
  Tagged,     \* those bound through a TaggedHook
  Events,     \* triggered events
  Matching,   \* those that have the tag
  OneOff,     \* the function given to Trigger
  MaxChanges  \* bound: calls of Bind and Unbind

VARIABLES
  handlers,  \* Hook's list of handlers
  len,       \* of an event: length of the list when it was triggered,
  index,     \*   cursor of its chain, from 0,
  state,     \*   "idle", "running", "over"
  ran,       \*   history: what was run for it, in order,
  bound,     \*   history: the handlers when it was triggered,
  gone,      \*   history: those that were unbound since,
  shifted,   \* history: events whose handlers were moved, see Moves
  changes

vars == <<handlers, len, index, state, ran, bound, gone, shifted, changes>>

TypeOK ==
  /\ handlers \in Seq(Handlers) /\ IsInjective(handlers)
  /\ len \in [Events -> 0..Cardinality(Handlers)]
  /\ \A e \in Events : index[e] \in 0..len[e] + 1
  /\ state \in [Events -> {"idle", "running", "over"}]
  /\ \A e \in Events : ran[e] \in Seq(Handlers \union {OneOff}) /\ bound[e] \in Seq(Handlers)
  /\ gone \in [Events -> SUBSET Handlers] /\ shifted \subseteq Events
  /\ changes \in 0..MaxChanges

Priority(h) == IF h \in Early THEN 0 ELSE 1

\* Any of the handlers, in the order of Bind and of their priorities.
Init ==
  /\ handlers \in {s \in SetToAllKPermutations(Handlers) :
                     \A i, j \in DOMAIN s : i < j => Priority(s[i]) <= Priority(s[j])}
  /\ len = [e \in Events |-> 0] /\ index = len /\ state = [e \in Events |-> "idle"]
  /\ ran = [e \in Events |-> <<>>] /\ bound = ran /\ gone = [e \in Events |-> {}]
  /\ shifted = {} /\ changes = 0

\* canRunTaggedHandler.
CanRun(h, e) == h \in Tagged => e \in Matching

\* The positions from the cursor to the length of a chain that hold a handler
\* for the event.
Ahead(e, from, to) ==
  {i \in from..to - 1 : i < Len(handlers) /\ CanRun(handlers[i + 1], e)}

\* Where the cursor is once the handler at a position runs.
\* Mutant: positions that were passed over are not counted.
Past_One(from, i) == from + 1

Past(from, i) == i + 1

\* Next.
Call(e, from, to) ==
  IF Ahead(e, from, to) # {}
  THEN LET i == Min(Ahead(e, from, to)) IN
         /\ ran' = [ran EXCEPT ![e] = Append(@, handlers[i + 1])]
         /\ index' = [index EXCEPT ![e] = Past(from, i)]
         /\ state' = [state EXCEPT ![e] = "running"]
  ELSE /\ ran' = [ran EXCEPT ![e] = Append(@, OneOff)]
       /\ index' = [index EXCEPT ![e] = to + 1] /\ state' = [state EXCEPT ![e] = "over"]

Trigger(e) ==
  /\ state[e] = "idle" /\ Call(e, 0, Len(handlers))
  /\ len' = [len EXCEPT ![e] = Len(handlers)] /\ bound' = [bound EXCEPT ![e] = handlers]
  /\ UNCHANGED <<handlers, gone, shifted, changes>>

\* A handler that waited goes on.
CallNext(e) ==
  /\ state[e] = "running" /\ Call(e, index[e], len[e])
  /\ UNCHANGED <<handlers, len, bound, gone, shifted, changes>>

\* It returns without that.
Return(e) ==
  /\ state[e] = "running" /\ state' = [state EXCEPT ![e] = "over"]
  /\ UNCHANGED <<handlers, len, index, ran, bound, gone, shifted, changes>>

Running == {e \in Events : state[e] = "running"}

\* A new handler comes after those of its priority. It moves what an event has
\* run back under its cursor, or a handler past the length that it goes by.
Bind(h) ==
  LET at == Cardinality({i \in DOMAIN handlers : Priority(handlers[i]) <= Priority(h)}) IN
    /\ changes < MaxChanges /\ changes' = changes + 1 /\ h \notin ToSet(handlers)
    /\ handlers' = InsertAt(handlers, at + 1, h)
    /\ shifted' = shifted \union {e \in Running :
                     at < index[e] \/ (at < len[e] /\ Len(handlers) >= len[e])}
    /\ UNCHANGED <<len, index, state, ran, bound, gone>>

\* The one handler with the id goes; it moves what an event has yet to run under
\* its cursor to before it.
Unbind(h) ==
  \E i \in DOMAIN handlers :
    /\ changes < MaxChanges /\ changes' = changes + 1 /\ handlers[i] = h
    /\ handlers' = RemoveAt(handlers, i)
    /\ gone' = [e \in Events |-> IF e \in Running THEN gone[e] \union {h} ELSE gone[e]]
    /\ shifted' = shifted \union {e \in Running : i <= index[e]}
    /\ UNCHANGED <<len, index, state, ran, bound>>

Next ==
  \/ \E e \in Events : Trigger(e) \/ CallNext(e) \/ Return(e)
  \/ \E h \in Handlers : Bind(h) \/ Unbind(h)

Spec == Init /\ [][Next]_vars

-----------------------------------------------------------------------------
\* What an event should run: the handlers of its tags that are there throughout,
\* and where one is before another.
Throughout(e) == {h \in ToSet(bound[e]) \ gone[e] : CanRun(h, e)}

Before(s, g, h) == \E i, j \in DOMAIN s : i < j /\ s[i] = g /\ s[j] = h

\* Unless Bind or Unbind moved handlers under a chain that had begun, whatever
\* else is bound, unbound or triggered while handlers wait: a chain that every
\* handler goes on with runs all that are there throughout, in their order, then
\* the given function; and no chain runs anything twice.
AllRun ==
  \A e \in Events \ shifted :
    /\ IsInjective(ran[e])
    /\ \A i \in DOMAIN ran[e] : ran[e][i] # OneOff => CanRun(ran[e][i], e)
    /\ OneOff \in ToSet(ran[e]) =>
         \A g, h \in Throughout(e) \union {OneOff} :
           Before(Append(bound[e], OneOff), g, h) => Before(ran[e], g, h)
=============================================================================
