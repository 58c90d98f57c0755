------------------------------ MODULE CollectionSave ------------------------------
(***************************************************************************)
(* Updates of one collection over the API by several workers: its cached   *)
(* definition, its row and the columns of its table (collectionUpdate in   *)
(* src/apis/collection.ts, saveCollection in src/core/base.ts,             *)
(* src/core/collection_record_table_sync.ts).                              *)
(*                                                                         *)
(* A request changes the very object that its worker caches, then          *)
(* validates it, writes the row by a statement of its own, changes the     *)
(* table in a transaction after that, and reloads the cache: new objects   *)
(* replace the old, which earlier requests may still hold.                 *)
(***************************************************************************)
EXTENDS FiniteSets, Functions, SequencesExt

CONSTANTS
  Workers,
  Requests,
  Ids,    \* of fields
  Names,  \* of fields and columns
  None

\* The fields of a collection: their names by their ids.
Defs == {d \in UNION {[S -> Names] : S \in SUBSET Ids} : IsInjective(d)}

VARIABLES
  row,        \* the definition in _collections
  table,      \* by the name of a column, the field whose data it has
  objs,       \* objects a worker has cached, the last of them in use
  pc,         \* of a request: "idle", "found", "applied", "written", "synced", "over"
  object,     \*   the worker and the position of the object it has
  original,   \*   what findCollectionById returned before the row was written
  line,       \* requests of a worker in the order of their transactions
  noticed,    \* workers that have been notified of a change
  flaws       \* history: see DefinitionsAgree

vars == <<row, table, objs, pc, object, original, line, noticed, flaws>>

\* The columns that go with a definition.
Columns(def) == [n \in Range(def) |-> CHOOSE i \in DOMAIN def : def[i] = n]

TypeOK ==
  /\ row \in Defs /\ original \in [Requests -> Defs]
  /\ DOMAIN table \subseteq Names /\ Range(table) \subseteq Ids
  /\ \A w \in Workers : objs[w] \in Seq(Defs) /\ line[w] \in Seq(Requests)
  /\ pc \in [Requests -> {"idle", "found", "applied", "written", "synced", "over"}]
  /\ \A r \in Requests : pc[r] # "idle" =>
       object[r].worker \in Workers /\ object[r].at \in DOMAIN objs[object[r].worker]
  /\ noticed \subseteq Workers /\ flaws \subseteq {"failed", "crossed", "changed", "refused"}

Init ==
  /\ row \in {d \in Defs : DOMAIN d = Ids} /\ table = Columns(row)
  /\ objs = [w \in Workers |-> <<row>>] /\ line = [w \in Workers |-> <<>>]
  /\ pc = [r \in Requests |-> "idle"] /\ original = [r \in Requests |-> row]
  /\ object = [r \in Requests |-> None]
  /\ noticed = {} /\ flaws = {}

Worker(r) == object[r].worker
Object(r) == objs[Worker(r)][object[r].at]

-----------------------------------------------------------------------------
\* collectionUpdate looks the collection up and waits for the body of the request.
Find(r, w) ==
  /\ pc[r] = "idle" /\ pc' = [pc EXCEPT ![r] = "found"]
  /\ object' = [object EXCEPT ![r] = [worker |-> w, at |-> Len(objs[w])]]
  /\ UNCHANGED <<row, table, objs, original, line, noticed, flaws>>

\* applyCollectionData: the body has fields, or leaves them alone.
Apply(r) ==
  /\ pc[r] = "found" /\ pc' = [pc EXCEPT ![r] = "applied"]
  /\ \E def \in Defs \union {Object(r)} :
       /\ objs' = [objs EXCEPT ![Worker(r)][object[r].at] = def]
       /\ flaws' = flaws \union
            (IF def # Object(r) /\ \E q \in Requests : pc[q] = "written" /\ object[q] = object[r]
             THEN {"changed"} ELSE {})
  /\ UNCHANGED <<row, table, object, original, line, noticed>>

\* A hook or validateCollection refuses it.
Refuse(r) ==
  /\ pc[r] = "applied" /\ pc' = [pc EXCEPT ![r] = "over"] /\ flaws' = flaws \union {"refused"}
  /\ UNCHANGED <<row, table, objs, object, original, line, noticed>>

\* saveCollection compares with the row, not with the cache.
\* Mutant: with the object.
Before_Object(r) == Object(r)

Before(r) == row

Write(r) ==
  /\ pc[r] = "applied" /\ pc' = [pc EXCEPT ![r] = "written"]
  /\ original' = [original EXCEPT ![r] = Before(r)] /\ row' = Object(r)
  /\ line' = [line EXCEPT ![Worker(r)] = Append(@, r)]
  /\ flaws' = flaws \union
       (IF \E q \in Requests : pc[q] = "written" /\ Worker(q) # Worker(r) THEN {"crossed"} ELSE {})
  /\ UNCHANGED <<table, objs, object, noticed>>

\* The columns of fields that are gone or have another name, by their old names.
Detached(old, new) == {old[i] : i \in {j \in DOMAIN old : j \notin DOMAIN new \/ old[j] # new[j]}}

\* Fields that are new or have another name: under a temporary name at first.
Attached(old, new) == {i \in DOMAIN new : i \notin DOMAIN old \/ old[i] # new[i]}

\* The columns that are there when a field gets its name.
Kept(old, new) == Restrict(table, DOMAIN table \ Detached(old, new))

\* Every statement finds the column that it is about, and no other of its new name.
Possible(old, new) ==
  /\ Detached(old, new) \subseteq DOMAIN table
  /\ {new[i] : i \in Attached(old, new)} \cap DOMAIN Kept(old, new) = {}

Synced(old, new) ==
  LET kept == Kept(old, new)
      Of(n) == CHOOSE i \in Attached(old, new) : new[i] = n
      Data(i) == IF i \in DOMAIN old THEN table[old[i]] ELSE i
  IN  [n \in DOMAIN kept \union {new[i] : i \in Attached(old, new)} |->
         IF n \in DOMAIN kept THEN kept[n] ELSE Data(Of(n))]

\* syncRecordTableSchema: its transaction is undone when one of its statements
\* fails, or an index cannot be created; the row stays as it was written.
Sync(r) ==
  /\ pc[r] = "written" /\ Head(line[Worker(r)]) = r
  /\ line' = [line EXCEPT ![Worker(r)] = Tail(@)]
  /\ \/ /\ Possible(original[r], Object(r)) /\ table' = Synced(original[r], Object(r))
        /\ pc' = [pc EXCEPT ![r] = "synced"] /\ UNCHANGED flaws
     \/ /\ ~Possible(original[r], Object(r)) /\ pc' = [pc EXCEPT ![r] = "over"]
        /\ UNCHANGED <<table, flaws>>
     \/ /\ pc' = [pc EXCEPT ![r] = "over"] /\ flaws' = flaws \union {"failed"}
        /\ UNCHANGED table
  /\ UNCHANGED <<row, objs, object, original, noticed>>

\* ReloadCachedCollections; the others are notified.
Reload(r) ==
  /\ pc[r] = "synced" /\ pc' = [pc EXCEPT ![r] = "over"]
  /\ objs' = [objs EXCEPT ![Worker(r)] = Append(@, row)]
  /\ noticed' = noticed \union (Workers \ {Worker(r)})
  /\ UNCHANGED <<row, table, object, original, line, flaws>>

\* The notify watcher of a worker reloads.
Notice(w) ==
  /\ w \in noticed /\ noticed' = noticed \ {w}
  /\ objs' = [objs EXCEPT ![w] = Append(@, row)]
  /\ UNCHANGED <<row, table, pc, object, original, line, flaws>>

Next ==
  \/ \E r \in Requests : \/ \E w \in Workers : Find(r, w)
                         \/ Apply(r) \/ Refuse(r) \/ Write(r) \/ Sync(r) \/ Reload(r)
  \/ \E w \in Workers : Notice(w)

Spec == Init /\ [][Next]_vars

-----------------------------------------------------------------------------
Quiet == \A r \in Requests : pc[r] \in {"idle", "found", "over"}

\* When no update is in progress the table has the columns of the row, each with
\* the data of its own field, whatever was renamed, swapped, dropped and added
\* before and by whom; unless a table could not be changed, another request
\* changed the object between the row and the table, or two workers were in
\* that gap at once. And a worker that was told of all changes caches what the
\* row says, unless an update was refused.
DefinitionsAgree ==
  Quiet /\ flaws \cap {"failed", "crossed", "changed"} = {} =>
    /\ table = Columns(row)
    /\ "refused" \notin flaws => \A w \in Workers \ noticed : Last(objs[w]) = row
=============================================================================
