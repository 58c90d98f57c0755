------------------------------ MODULE CascadeDelete ------------------------------
(***************************************************************************)
(* The delete of a record that others refer to (cascadeRecordDelete and    *)
(* deleteRefRecords in src/core/base.ts), against saves that set such      *)
(* references (ValidateValue of src/core/field_relation.ts).               *)
(*                                                                         *)
(* All is done in one transaction: the row goes first; then, field by      *)
(* field, every record that names it loses the name and is deleted in its  *)
(* turn, or saved, or makes the whole delete fail. Which fields are        *)
(* relations to its collection is taken from the cached collections before *)
(* the transaction begins. Here one collection has two relations to itself.*)
(***************************************************************************)
EXTENDS Naturals, FiniteSetsExt

CONSTANTS
  Records,
  Owners,      \* those that use the relation for many records
  MaxDeletes,  \* bound: deletes
  MaxSaves     \* bound: saves, each of one new reference

Fields == {"one", "many"}

VARIABLES
  rows,      \* committed records
  refs,      \* ids in a field of a record
  cascade,   \* fields with CascadeDelete
  required,  \* fields with Required
  defined,   \* fields of the collection,
  known,     \*   those in the cached collection of the worker that deletes
  main,      \* the record that is being deleted, if any
  from,      \* the fields that were found for it
  work,      \* rows, refs and verdict in the transaction
  deletes,
  saving,    \* a save: its record, "" without one,
  object,    \*   its fields, validated
  saves,
  flaws      \* history: see NoDangling

schemaVars == <<cascade, required, defined, known>>
saveVars == <<saving, object, saves>>
vars == <<rows, refs, schemaVars, main, from, work, deletes, saveVars, flaws>>

Groups == SUBSET Records
Value == [Fields -> Groups]
Data == [Fields -> [Records -> Groups]]
Nothing == ""
\* No transaction: one is not refused without a record that refuses.
Idle == [rows |-> {}, refs |-> [f \in Fields |-> [r \in Records |-> {}]], refused |-> TRUE]

TypeOK ==
  /\ rows \in Groups /\ refs \in Data
  /\ cascade \subseteq Fields /\ required \subseteq Fields
  /\ defined \subseteq Fields /\ known \subseteq defined
  /\ main \in Records \union {Nothing} /\ from \subseteq Fields
  /\ work.rows \in Groups /\ work.refs \in Data /\ work.refused \in BOOLEAN
  /\ deletes \in 0..MaxDeletes
  /\ saving \in Records \union {Nothing} /\ object \in Value /\ saves \in 0..MaxSaves
  /\ flaws \subseteq {"raced", "stale"}

\* Values that validation lets pass.
Fits(r, value) ==
  /\ \E x \in Records : value["one"] \subseteq {x}
  /\ r \notin Owners \/ "many" \notin defined => value["many"] = {}
  /\ \A f \in required \cap defined : value[f] = {} => f = "many" /\ r \notin Owners
  /\ UNION {value[f] : f \in Fields} \subseteq rows

\* Any consistent data. A relation that is not there yet has none.
Init ==
  /\ rows = Records /\ cascade \in SUBSET Fields /\ required \in SUBSET Fields
  /\ defined \in {{"one"}, Fields} /\ known = defined
  /\ refs \in {[f \in Fields |-> [r \in Records |->
                  IF f = "many" THEN (IF r \in Owners THEN m[r] ELSE {}) ELSE o[r]]] :
                 m \in [Owners -> Groups], o \in [Records -> {{}} \union {{x} : x \in Records}]}
  /\ \A r \in Records : Fits(r, [f \in Fields |-> refs[f][r]])
  /\ main = Nothing /\ from = {} /\ work = Idle /\ deletes = 0
  /\ saving = Nothing /\ object = [f \in Fields |-> {}] /\ saves = 0 /\ flaws = {}

-----------------------------------------------------------------------------
\* One record that names the deleted one in a field (deleteRefRecords), and what
\* its own delete does in the same transaction (Delete, cascadeRecordDelete).

\* What is left in the field.
\* Mutant: it is looked at before the name is taken out.
Rest_Before(s, f, r, m) == s.refs[f][r]

Rest(s, f, r, m) == s.refs[f][r] \ {m}

Naming(s, f, m) == {r \in s.rows \ {m} : m \in s.refs[f][r]}

Works == [rows : Groups, refs : Data, refused : BOOLEAN]

\* Field by field of those found, record by record of those that name m.
Deleted[s \in Works] ==
  [m \in Records |->
    LET Unlinked(r, t, f) ==
          IF t.refused \/ r \notin t.rows THEN t
          ELSE IF f \in cascade /\ Rest(t, f, r, m) = {} THEN Deleted[t][r]
          ELSE IF f \in required /\ Rest(t, f, r, m) = {} THEN [t EXCEPT !.refused = TRUE]
          ELSE [t EXCEPT !.refs[f][r] = @ \ {m}]
        Field(f, t) ==
          IF f \in from THEN FoldSet(LAMBDA r, u : Unlinked(r, u, f), t, Naming(t, f, m)) ELSE t
    IN  Field("many", Field("one", [s EXCEPT !.rows = @ \ {m}]))]

-----------------------------------------------------------------------------
\* handleRecordDeleteExecute: the fields are found first.
FindRefs(m) ==
  /\ main = Nothing /\ deletes < MaxDeletes /\ deletes' = deletes + 1
  /\ m \in rows /\ main' = m /\ from' = known
  /\ UNCHANGED <<rows, refs, schemaVars, work, saveVars, flaws>>

Begun == [rows |-> rows, refs |-> refs, refused |-> FALSE]

\* The transaction: it holds the write lock from its first statement.
Execute ==
  /\ main # Nothing /\ work = Idle
  /\ work' = Deleted[Begun][main]
  /\ UNCHANGED <<rows, refs, schemaVars, main, from, deletes, saveVars, flaws>>

\* COMMIT; or ROLLBACK, when a required reference is met or a hook fails.
End ==
  /\ main # Nothing /\ work # Idle /\ main' = Nothing /\ work' = Idle /\ from' = {}
  /\ \/ /\ ~work.refused /\ rows' = work.rows /\ refs' = work.refs
        /\ flaws' = flaws \union (IF saving = Nothing THEN {} ELSE {"raced"})
                          \union (IF from = defined THEN {} ELSE {"stale"})
     \/ UNCHANGED <<rows, refs, flaws>>
  /\ UNCHANGED <<schemaVars, deletes, saveVars>>

\* A save that sets the second relation validates its references against what is
\* committed,
Validate(r) ==
  /\ saving = Nothing /\ saves < MaxSaves /\ saves' = saves + 1 /\ r \in rows \cap Owners
  /\ saving' = r
  /\ \E x \in Records : object' = [one |-> refs["one"][r], many |-> {x}]
  /\ Fits(r, object')
  /\ UNCHANGED <<rows, refs, schemaVars, main, from, work, deletes, flaws>>

\* and writes all its fields when no transaction has the lock. A row that is gone
\* takes no update.
Write ==
  /\ saving # Nothing /\ work = Idle /\ saving' = Nothing /\ object' = [f \in Fields |-> {}]
  /\ refs' = IF saving \in rows THEN [f \in Fields |-> [refs[f] EXCEPT ![saving] = object[f]]]
             ELSE refs
  /\ UNCHANGED <<rows, schemaVars, main, from, work, deletes, saves, flaws>>

\* Another worker adds the second relation, and this one hears of it.
AddRelation ==
  /\ work = Idle /\ defined' = Fields /\ defined # Fields
  /\ UNCHANGED <<rows, refs, cascade, required, known, main, from, work, deletes, saveVars, flaws>>

Notice ==
  /\ known # defined /\ known' = defined
  /\ UNCHANGED <<rows, refs, cascade, required, defined, main, from, work, deletes, saveVars, flaws>>

Next ==
  \/ \E r \in Records : FindRefs(r) \/ Validate(r)
  \/ Execute \/ End \/ Write \/ AddRelation \/ Notice

Spec == Init /\ [][Next]_vars

-----------------------------------------------------------------------------
\* What the fields ask for: the least set with the record in which a record is,
\* too, all of whose names in a cascading field are.
Asked ==
  LET Complete(gone) ==
        \A r \in rows, f \in cascade \cap from :
          refs[f][r] # {} /\ refs[f][r] \subseteq gone => r \in gone
  IN  {x \in Records : \A gone \in Groups : main \in gone /\ Complete(gone) => x \in gone}

\* A delete that can commit takes exactly the records that the cascading fields
\* ask for, through any cycle of references, keeps every other reference of the
\* rest and leaves no required field empty; it is refused only when a required
\* field of some record names nothing else. And no committed record names one
\* that is gone, unless a save was validated before the delete committed, or the
\* worker had not yet heard of a new relation.
NoDangling ==
  /\ work # Idle =>
       IF work.refused
       THEN \E f \in required \cap from, r \in rows : refs[f][r] # {} /\ refs[f][r] \subseteq Asked
       ELSE /\ work.rows = rows \ Asked
            /\ \A r \in work.rows, f \in from :
                 /\ work.refs[f][r] = refs[f][r] \ Asked
                 /\ f \in required /\ refs[f][r] # {} => work.refs[f][r] # {}
  /\ flaws = {} => \A r \in rows, f \in Fields : refs[f][r] \subseteq rows
=============================================================================
