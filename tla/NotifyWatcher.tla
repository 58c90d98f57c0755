--------------------------- MODULE NotifyWatcher ----------------------------
(***************************************************************************)
(* How the workers keep their copies of the settings and of the            *)
(* collections up to date: the saves of src/core/base.ts, and the marker   *)
(* files and watchers of src/core/notify_watcher.ts.                       *)
(*                                                                         *)
(* What is saved is a version number.  Every worker has one marker file    *)
(* per kind; a watcher learns of a change from a file-system event, which  *)
(* may be lost, or from the poll.                                          *)
(***************************************************************************)
EXTENDS Naturals, FiniteSets, FiniteSetsExt

CONSTANTS
  Workers,
  Kinds,     \* subset of {"settings", "collections"}
  None,
  MaxSaves,  \* bound: saves
  TxKinds,   \* what is saved in an explicit transaction
  MaxTxs,    \* bound: saves in an explicit transaction
  MaxRestarts, \* bound: workers that are replaced
  MaxFails   \* bound: reloads, and marker files, that fail

VARIABLES
  committed, \* versions in the database, of each kind; the greatest is the current one
  last,      \* the last version that was written
  holder,    \* the worker in an explicit transaction
  cache,     \* the version that a worker serves with
  saving,    \* how far a worker is with a save
  kind,      \* the kind it saves
  mark,      \* how often a worker's marker file was written
  gone,      \* marker files that were removed
  events,    \* markers whose file-system event has not come
  seen,      \* signatures that the watcher of a worker knows
  timer,     \* the kind that its debounce timer will reload
  missed,    \* history: kinds of a change that a worker will not reload for
  up,        \* where a worker is with its bootstrap
  txs, restarts, fails

saveVars == <<committed, last, holder, saving, kind, txs>>
watchVars == <<events, seen, timer, missed>>
markVars == <<mark, gone>>
vars == <<saveVars, cache, markVars, watchVars, up, restarts, fails>>

Markers == Workers \X Kinds

TypeOK ==
  /\ committed \in [Kinds -> SUBSET (0..MaxSaves)] /\ last \in [Kinds -> 0..MaxSaves]
  /\ \A w \in Workers : holder = w <=> saving[w] = "tx"
  /\ cache \in [Workers -> [Kinds -> 0..MaxSaves]]
  /\ saving \in [Workers -> {"no", "tx", "written", "saved"}]
  /\ kind \in [Workers -> Kinds]
  /\ mark \in [Markers -> 0..MaxSaves] /\ gone \subseteq Markers
  /\ events \in [Workers -> SUBSET Markers]
  /\ seen \in [Workers -> [Markers -> 0..MaxSaves]]
  /\ timer \in [Workers -> Kinds \cup {None}]
  /\ missed \in [Workers -> SUBSET Kinds]
  /\ up \in [Workers -> {"up", "loading", "loaded"}]

Current(k) == Max(committed[k])

Init ==
  /\ committed = [k \in Kinds |-> {0}] /\ last = [k \in Kinds |-> 0] /\ holder = None
  /\ cache = [w \in Workers |-> [k \in Kinds |-> 0]]
  /\ saving = [w \in Workers |-> "no"] /\ kind \in [Workers -> Kinds]
  /\ mark = [m \in Markers |-> 0] /\ gone = {} /\ events = [w \in Workers |-> {}]
  /\ seen = [w \in Workers |-> [m \in Markers |-> 0]]
  /\ timer = [w \in Workers |-> None] /\ missed = [w \in Workers |-> {}]
  /\ up = [w \in Workers |-> "up"]
  /\ txs = 0 /\ restarts = 0 /\ fails = 0

\* A file cannot be written, or the database not read: that is logged, and no more.
Fails == fails < MaxFails /\ fails' = fails + 1

-----------------------------------------------------------------------------
(***************************************************************************)
(* A save.  The database has one writer at a time.                         *)
(***************************************************************************)
Begin(w, k, stage) ==
  /\ up[w] = "up" /\ saving[w] = "no" /\ holder = None
  /\ MapThenSumSet(LAMBDA j : last[j], Kinds) < MaxSaves
  /\ last' = [last EXCEPT ![k] = @ + 1]
  /\ saving' = [saving EXCEPT ![w] = stage] /\ kind' = [kind EXCEPT ![w] = k]

Save(w, k) ==
  /\ Begin(w, k, "written")
  /\ committed' = [committed EXCEPT ![k] = @ \cup {last'[k]}]
  /\ UNCHANGED <<holder, cache, markVars, watchVars, up, txs, restarts, fails>>

\* Mutant: both kinds are reloaded as a part of the save.
Eager_Both == {"settings", "collections"}
\* Collections are reloaded by saveCollection, settings by a success hook.
Eager == {"collections"}

\* RunInTransaction around a save.
SaveInTx(w, k) ==
  /\ k \in TxKinds /\ txs < MaxTxs /\ txs' = txs + 1
  /\ Begin(w, k, "tx") /\ holder' = w
  /\ \/ k \in Eager /\ cache' = [cache EXCEPT ![w][k] = last'[k]] /\ UNCHANGED fails
     \/ k \in Eager /\ Fails /\ UNCHANGED cache
     \/ k \notin Eager /\ UNCHANGED <<cache, fails>>
  /\ UNCHANGED <<committed, markVars, watchVars, up, restarts>>

Freed == None

\* A copy that was reloaded from what was committed before is not reloaded again.
Commit(w) ==
  /\ saving[w] = "tx" /\ holder' = Freed
  /\ committed' = [committed EXCEPT ![kind[w]] = @ \cup {last[kind[w]]}]
  /\ saving' = [saving EXCEPT ![w] = IF kind[w] = "collections" THEN "saved" ELSE "written"]
  /\ missed' = [missed EXCEPT ![w] = @ \cup {k \in Eager \cap {kind[w]} : cache[w][k] # last[k]}]
  /\ UNCHANGED <<last, kind, txs, cache, markVars, events, seen, timer, up, restarts, fails>>

\* What was reloaded too early stays.
Rollback(w) ==
  /\ saving[w] = "tx" /\ holder' = Freed
  /\ saving' = [saving EXCEPT ![w] = "no"]
  /\ missed' = [missed EXCEPT ![w] = @ \cup (Eager \cap {kind[w]})]
  /\ UNCHANGED <<committed, last, kind, txs, cache, markVars, events, seen, timer, up, restarts,
                 fails>>

-----------------------------------------------------------------------------
(***************************************************************************)
(* After the commit.  saveCollection reloads the collections of its worker *)
(* and then a success hook writes the marker; of the settings' hooks, the  *)
(* one that writes the marker is done before the one that reloads them.    *)
(***************************************************************************)
Goes(w, from, to) == saving[w] = from /\ saving' = [saving EXCEPT ![w] = to]

Loaded(v, k) ==
  /\ cache' = [cache EXCEPT ![v][k] = Current(k)]
  /\ missed' = [missed EXCEPT ![v] = @ \ {k}]
  /\ UNCHANGED fails

NotLoaded(v, k) == Fails /\ missed' = [missed EXCEPT ![v] = @ \cup {k}] /\ UNCHANGED cache

ReloadOwn(w) ==
  /\ IF kind[w] = "collections" THEN Goes(w, "written", "saved") ELSE Goes(w, "saved", "no")
  /\ Loaded(w, kind[w]) \/ NotLoaded(w, kind[w])
  /\ UNCHANGED <<committed, last, holder, kind, txs, markVars, events, seen, timer, up, restarts>>

\* What the other workers' watchers are told of, if they run.
Told(w, markers) ==
  events' = [v \in Workers |-> IF v # w /\ up[v] = "up" THEN events[v] \cup markers
                              ELSE IF v = w /\ up'[v] # "up" THEN {} ELSE events[v]]

\* settingsNotify and collectionsNotify, with writeNotifyFile.
Notify(w) ==
  /\ IF kind[w] = "collections" THEN Goes(w, "saved", "no") ELSE Goes(w, "written", "saved")
  /\ \/ /\ mark' = [mark EXCEPT ![<<w, kind[w]>>] = @ + 1]
        /\ gone' = gone \ {<<w, kind[w]>>}
        /\ UNCHANGED up /\ Told(w, {<<w, kind[w]>>})
        /\ UNCHANGED <<missed, fails>>
     \/ /\ Fails
        /\ missed' = [v \in Workers |-> IF v = w THEN missed[v] ELSE missed[v] \cup {kind[w]}]
        /\ UNCHANGED <<up, markVars, events>>
  /\ UNCHANGED <<committed, last, holder, kind, txs, cache, seen, timer, restarts>>

-----------------------------------------------------------------------------
(***************************************************************************)
(* The watcher of a worker.  It has one debounce timer, which scheduleReload*)
(* stops and starts again.                                                 *)
(***************************************************************************)

Signature(m) == mark[m]

\* scheduleReload.  What the timer was about to reload, or was to be reloaded
\* with it, is not reloaded.
Schedule(v, k, others) ==
  /\ timer' = [timer EXCEPT ![v] = k]
  /\ missed' = [missed EXCEPT ![v] = @ \cup (({timer[v]} \cup others) \ {None, k})]

WatchEvent(v) ==
  /\ \E m \in events[v] :
       /\ events' = [events EXCEPT ![v] = @ \ {m}]
       /\ seen' = [seen EXCEPT ![v][m] = Signature(m)]
       /\ Schedule(v, m[2], {})
  /\ UNCHANGED <<saveVars, cache, markVars, up, restarts, fails>>

Changed(v) == {m \in Markers \ gone : m[1] # v /\ Signature(m) # seen[v][m]}

Poll(v) ==
  /\ up[v] = "up" /\ Changed(v) # {}
  /\ seen' = [seen EXCEPT ![v] = [m \in Markers |-> Signature(m)]]
  /\ \E m \in Changed(v) : Schedule(v, m[2], {n[2] : n \in Changed(v)})
  /\ UNCHANGED <<saveVars, cache, markVars, events, up, restarts, fails>>

\* The timer reloads; a reload that fails is not tried again.
Fire(v) ==
  /\ timer[v] # None /\ timer' = [timer EXCEPT ![v] = None]
  /\ Loaded(v, timer[v]) \/ NotLoaded(v, timer[v])
  /\ UNCHANGED <<saveVars, markVars, events, seen, up, restarts>>

\* A worker is replaced.  If it terminates it removes its marker files, which is
\* an event too; what the poll of another worker has not seen by then, it will not.
Replace(v) ==
  /\ restarts < MaxRestarts /\ up[v] = "up" /\ saving[v] = "no" /\ restarts' = restarts + 1
  /\ up' = [up EXCEPT ![v] = "loading"]
  /\ timer' = [timer EXCEPT ![v] = None]
  /\ \E removed \in {{}, {m \in Markers \ gone : m[1] = v /\ mark[m] # 0}} :
       /\ gone' = gone \cup removed
       /\ missed' = [w \in Workers |-> missed[w] \cup {m[2] : m \in removed \cap Changed(w)}]
       /\ Told(v, removed)
  /\ UNCHANGED <<saveVars, cache, mark, seen, fails>>

\* seen is taken here only to tell what changes until the watcher is made.
Load(v) ==
  /\ up[v] = "loading" /\ up' = [up EXCEPT ![v] = "loaded"]
  /\ cache' = [cache EXCEPT ![v] = [k \in Kinds |-> Current(k)]]
  /\ seen' = [seen EXCEPT ![v] = [m \in Markers |-> Signature(m)]]
  /\ missed' = [missed EXCEPT ![v] = {}]
  /\ UNCHANGED <<saveVars, markVars, events, timer, restarts, fails>>

StartWatcher(v) ==
  /\ up[v] = "loaded" /\ up' = [up EXCEPT ![v] = "up"]
  /\ seen' = [seen EXCEPT ![v] = [m \in Markers |-> Signature(m)]]
  /\ missed' = [missed EXCEPT ![v] = @ \cup {m[2] : m \in Changed(v)}]
  /\ UNCHANGED <<saveVars, cache, markVars, events, timer, restarts, fails>>

Run(w) ==
  Commit(w) \/ Rollback(w) \/ ReloadOwn(w) \/ Notify(w) \/ Load(w) \/ StartWatcher(w)

Next ==
  \E w \in Workers :
    \/ Run(w) \/ WatchEvent(w) \/ Poll(w) \/ Fire(w) \/ Replace(w)
    \/ \E k \in Kinds : Save(w, k) \/ SaveInTx(w, k)

\* A save goes on, the poll and the timer run; an event need not come.
Fairness == \A w \in Workers : WF_vars(Run(w)) /\ WF_vars(Poll(w)) /\ WF_vars(Fire(w))

Spec == Init /\ [][Next]_vars
FairSpec == Spec /\ Fairness

-----------------------------------------------------------------------------
\* When no more is saved, every worker ends up serving with what is in the
\* database, whichever worker saved it.
CachesCatchUp == <>[](\A v \in Workers, k \in Kinds : cache[v][k] = Current(k))


\* No worker serves with settings that were not committed.
SettingsCommitted ==
  "settings" \in Kinds => \A v \in Workers : cache[v]["settings"] \in committed["settings"]
=============================================================================
