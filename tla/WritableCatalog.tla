--------------------------- MODULE WritableCatalog ---------------------------
(***************************************************************************)
(* The writable catalogs of a worker (writable_*.go): DDL and DML          *)
(* statements over one SQLite file that every worker process shares.       *)
(*                                                                         *)
(* Each store call is atomic, a statement is several of them, and the lock *)
(* of a store does not reach the other processes.  So the statements of    *)
(* different sessions interleave call by call, unless the client runs one  *)
(* statement at a time, which the constant Serial says.  The model has one *)
(* schema and one table name per catalog, and one column that may be       *)
(* declared NOT NULL.                                                      *)
(***************************************************************************)
EXTENDS Integers, FiniteSets

CONSTANTS
    Catalogs,    \* names of the writable catalogs
    Sessions,    \* client sessions, each running a statement at a time
    Serial,      \* the sessions take turns
    MaxRowId,    \* bound on row identifiers
    MaxTables    \* bound on the tables created

BoundsAssumption ==
    /\ Serial \in BOOLEAN
    /\ MaxRowId \in Nat
    /\ MaxTables \in Nat

VARIABLES
    schema,   \* wc_schema: the catalogs that have the schema
    table,    \* wc_table: the table's definition in each catalog
    rows,     \* wc_row: the rows stored under the table's name, by row id
    born,     \* how many tables were created
    pc,       \* the store call each session's statement makes next
    home,     \* the catalog its statement was bound through
    st        \* the locals of its statement

vars == <<schema, table, rows, born, pc, home, st>>

RowIds == 0..MaxRowId

\* A definition: whether NOT NULL is recorded, whether constraint metadata
\* from before vgi.v3 is still stored, and which creation this is.
Tables == [required : BOOLEAN, legacy : BOOLEAN, born : 0..MaxTables]
NoTable == [required |-> FALSE, legacy |-> FALSE, born |-> -1]

\* A row: whether the column is NULL, and the table it was inserted into.
StoredRows == [null : BOOLEAN, of : 0..MaxTables]
NoRow == [null |-> FALSE, of |-> -1]

\* Locals: the resolved catalog and its cached NOT NULL (writableMutateState),
\* the definition a CREATE, a DROP or a migration loaded or will write.
NoCatalog == "none"
Locals == [catalog : Catalogs \cup {NoCatalog}, required : BOOLEAN, def : Tables \cup {NoTable}]
NoLocals == [catalog |-> NoCatalog, required |-> FALSE, def |-> NoTable]

Labels == {"idle", "schemaUpsert", "tableList", "schemaDrop", "schemaDropCascade",
           "tableLoad", "tableReplace", "tableUpsert", "tableDrop", "resolve", "mutate",
           "migrateScan", "migrateUpsert"}

TypeOK ==
    /\ schema \subseteq Catalogs
    /\ table \in [Catalogs -> Tables \cup {NoTable}]
    /\ rows \in [Catalogs -> [RowIds -> StoredRows \cup {NoRow}]]
    /\ born \in 0..MaxTables
    /\ pc \in [Sessions -> Labels]
    /\ home \in [Sessions -> Catalogs \cup {NoCatalog}]
    /\ st \in [Sessions -> Locals]

\* A store may hold a table written before vgi.v3, with NOT NULL metadata
\* that nothing enforced.
Init ==
    /\ schema = Catalogs
    /\ table \in [Catalogs -> {NoTable, [required |-> FALSE, legacy |-> TRUE, born |-> 0]}]
    /\ rows \in [Catalogs -> [RowIds -> [null : BOOLEAN, of : {0}] \cup {NoRow}]]
    /\ \A c \in Catalogs : \A i \in RowIds : table[c] = NoTable \/ i # 0 => rows[c][i] = NoRow
    /\ born = 0
    /\ pc = [s \in Sessions |-> "idle"]
    /\ home = [s \in Sessions |-> NoCatalog]
    /\ st = [s \in Sessions |-> NoLocals]

store == <<schema, table, rows, born>>

\* A session starts a statement through catalog c, if the client lets it.
Begin(s, c) ==
    /\ pc[s] = "idle"
    /\ Serial => \A t \in Sessions : pc[t] = "idle"
    /\ home' = [home EXCEPT ![s] = c]

Goto(s, l) == pc' = [pc EXCEPT ![s] = l]

End(s) ==
    /\ Goto(s, "idle")
    /\ home' = [home EXCEPT ![s] = NoCatalog]
    /\ st' = [st EXCEPT ![s] = NoLocals]

-----------------------------------------------------------------------------
(***************************************************************************)
(* CREATE and DROP SCHEMA.  A statement that its checks refuse changes     *)
(* nothing, so only the outcomes that go on are written.                   *)
(***************************************************************************)
writableSchemaCreate(s, c, onConflict) ==
    /\ Begin(s, c)
    /\ c \notin schema \/ onConflict = "REPLACE"
    /\ Goto(s, "schemaUpsert")
    /\ UNCHANGED <<store, st>>

schemaUpsert(s) ==
    /\ pc[s] = "schemaUpsert"
    /\ schema' = schema \cup {home[s]}
    /\ End(s)
    /\ UNCHANGED <<table, rows, born>>

writableSchemaDrop(s, c, cascade) ==
    /\ Begin(s, c)
    /\ c \in schema
    /\ Goto(s, IF cascade THEN "schemaDropCascade" ELSE "tableList")
    /\ UNCHANGED <<store, st>>

\* Without CASCADE the schema must have no table.
tableList(s) ==
    /\ pc[s] = "tableList"
    /\ IF table[home[s]] = NoTable
       THEN Goto(s, "schemaDrop") /\ UNCHANGED <<home, st>>
       ELSE End(s)
    /\ UNCHANGED store

NoRows == [i \in RowIds |-> NoRow]

schemaDrop(s) ==
    LET c == home[s]
    IN /\ pc[s] \in {"schemaDrop", "schemaDropCascade"}
       /\ schema' = schema \ {c}
       /\ IF pc[s] = "schemaDropCascade"
          THEN /\ table' = [table EXCEPT ![c] = NoTable]
               /\ rows' = [rows EXCEPT ![c] = NoRows]
          ELSE UNCHANGED <<table, rows>>
       /\ End(s)
       /\ UNCHANGED born

-----------------------------------------------------------------------------
(***************************************************************************)
(* CREATE and DROP TABLE.                                                  *)
(***************************************************************************)
writableTableCreate(s, c, required) ==
    /\ Begin(s, c)
    /\ c \in schema
    /\ born < MaxTables
    /\ born' = born + 1
    /\ Goto(s, "tableLoad")
    /\ st' = [st EXCEPT ![s].def = [required |-> required, legacy |-> FALSE, born |-> born + 1]]
    /\ UNCHANGED <<schema, table, rows>>

\* An existing table is replaced, or ends the statement.
tableLoad(s, onConflict) ==
    /\ pc[s] = "tableLoad"
    /\ \/ /\ table[home[s]] = NoTable
          /\ Goto(s, "tableUpsert")
          /\ UNCHANGED <<home, st>>
       \/ /\ table[home[s]] # NoTable
          /\ onConflict = "REPLACE"
          /\ Goto(s, "tableReplace")
          /\ UNCHANGED <<home, st>>
       \/ /\ table[home[s]] # NoTable
          /\ onConflict # "REPLACE"
          /\ End(s)
    /\ UNCHANGED store

\* Mutant: the table's rows survive it.
dropTable_KeepsRows(c) ==
    /\ table' = [table EXCEPT ![c] = NoTable]
    /\ UNCHANGED rows

\* tableDrop: the definition and the rows go in one transaction.
dropTable(c) ==
    /\ table' = [table EXCEPT ![c] = NoTable]
    /\ rows' = [rows EXCEPT ![c] = NoRows]

tableReplace(s) ==
    /\ pc[s] = "tableReplace"
    /\ dropTable(home[s])
    /\ Goto(s, "tableUpsert")
    /\ UNCHANGED <<schema, born, home, st>>

tableUpsert(s) ==
    /\ pc[s] = "tableUpsert"
    /\ table' = [table EXCEPT ![home[s]] = st[s].def]
    /\ End(s)
    /\ UNCHANGED <<schema, rows, born>>

writableTableDrop(s, c) ==
    /\ Begin(s, c)
    /\ table[c] # NoTable
    /\ Goto(s, "tableDrop")
    /\ UNCHANGED <<store, st>>

tableDrop(s) ==
    /\ pc[s] = "tableDrop"
    /\ dropTable(home[s])
    /\ End(s)
    /\ UNCHANGED <<schema, born>>

-----------------------------------------------------------------------------
(***************************************************************************)
(* INSERT, UPDATE and DELETE.  The first batch resolves the table, in any  *)
(* writable catalog that has one of this name, and caches the catalog and  *)
(* the NOT NULL columns for the rest of the statement.                     *)
(***************************************************************************)
\* The client binds a statement against a table its catalog lists.
OnBind(s, c) ==
    /\ Begin(s, c)
    /\ table[c] # NoTable
    /\ Goto(s, "resolve")
    /\ UNCHANGED <<store, st>>

findWritableTable == {c \in Catalogs : table[c] # NoTable}

resolveCatalog(s) ==
    /\ pc[s] = "resolve"
    /\ \E found \in findWritableTable :
         st' = [st EXCEPT ![s] = [catalog |-> found, required |-> table[found].required,
                                  def |-> table[found]]]
    /\ Goto(s, "mutate")
    /\ UNCHANGED <<store, home>>

Used(c) == {i \in RowIds : rows[c][i] # NoRow}

\* A row is refused when a required column is NULL.
checkNotNullRow(s, null) == ~(st[s].required /\ null)

\* The next row id is one above the largest that is stored.
rowsAppend(s, null) ==
    LET c    == st[s].catalog
        next == IF Used(c) = {} THEN 0 ELSE 1 + (CHOOSE i \in Used(c) : \A j \in Used(c) : j <= i)
    IN /\ pc[s] = "mutate"
       /\ checkNotNullRow(s, null)
       /\ next \in RowIds
       /\ rows' = [rows EXCEPT ![c][next] = [null |-> null, of |-> st[s].def.born]]
       /\ UNCHANGED <<schema, table, born, pc, home, st>>

rowsUpdate(s, i, null) ==
    /\ pc[s] = "mutate"
    /\ i \in Used(st[s].catalog)
    /\ checkNotNullRow(s, null)
    /\ rows' = [rows EXCEPT ![st[s].catalog][i].null = null]
    /\ UNCHANGED <<schema, table, born, pc, home, st>>

rowsDelete(s, i) ==
    /\ pc[s] = "mutate"
    /\ i \in Used(st[s].catalog)
    /\ rows' = [rows EXCEPT ![st[s].catalog][i] = NoRow]
    /\ UNCHANGED <<schema, table, born, pc, home, st>>

EndMutation(s) ==
    /\ pc[s] = "mutate"
    /\ End(s)
    /\ UNCHANGED store

-----------------------------------------------------------------------------
(***************************************************************************)
(* ATTACH migrates a table from before vgi.v3: its NOT NULL becomes a      *)
(* record if every stored row satisfies it, and is dropped otherwise.      *)
(***************************************************************************)
migrateLegacyConstraints(s, c) ==
    /\ Begin(s, c)
    /\ c \in schema
    /\ table[c].legacy
    /\ st' = [st EXCEPT ![s].def = table[c]]
    /\ Goto(s, "migrateScan")
    /\ UNCHANGED store

\* Mutant: the stored NOT NULL is trusted without looking at the rows.
migrateScan_Trusts(s) ==
    /\ pc[s] = "migrateScan"
    /\ st' = [st EXCEPT ![s].def = [@ EXCEPT !.legacy = FALSE, !.required = TRUE]]
    /\ Goto(s, "migrateUpsert")
    /\ UNCHANGED <<store, home>>

migrateScan(s) ==
    LET c        == home[s]
        violated == \E i \in Used(c) : rows[c][i].null
    IN /\ pc[s] = "migrateScan"
       /\ st' = [st EXCEPT ![s].def = [@ EXCEPT !.legacy = FALSE, !.required = ~violated]]
       /\ Goto(s, "migrateUpsert")
       /\ UNCHANGED <<store, home>>

migrateUpsert(s) ==
    /\ pc[s] = "migrateUpsert"
    /\ table' = [table EXCEPT ![home[s]] = st[s].def]
    /\ End(s)
    /\ UNCHANGED <<schema, rows, born>>

OnConflict == {"ERROR", "REPLACE", "IGNORE"}

Statement(s, c) ==
    \/ \E o \in OnConflict : writableSchemaCreate(s, c, o)
    \/ \E cascade \in BOOLEAN : writableSchemaDrop(s, c, cascade)
    \/ \E required \in BOOLEAN : writableTableCreate(s, c, required)
    \/ writableTableDrop(s, c)
    \/ OnBind(s, c)
    \/ migrateLegacyConstraints(s, c)

StoreCall(s) ==
    \/ resolveCatalog(s) \/ schemaUpsert(s) \/ tableList(s) \/ schemaDrop(s)
    \/ \E o \in OnConflict : tableLoad(s, o)
    \/ tableReplace(s) \/ tableUpsert(s) \/ tableDrop(s)
    \/ \E null \in BOOLEAN : rowsAppend(s, null)
    \/ \E i \in RowIds, null \in BOOLEAN : rowsUpdate(s, i, null)
    \/ \E i \in RowIds : rowsDelete(s, i)
    \/ EndMutation(s)
    \/ migrateScan(s) \/ migrateUpsert(s)

\* A process dies in the middle of a statement; what it stored stays.
Crash(s) ==
    /\ pc[s] # "idle"
    /\ End(s)
    /\ UNCHANGED store

Next ==
    \E s \in Sessions :
      \/ \E c \in Catalogs : Statement(s, c)
      \/ StoreCall(s)
      \/ Crash(s)

Spec == Init /\ [][Next]_vars

-----------------------------------------------------------------------------
(***************************************************************************)
(* A table that records NOT NULL as enforced on all rows has no stored row *)
(* with a NULL there, through CREATE, REPLACE, INSERT, UPDATE and the      *)
(* migration of older stores.                                              *)
(***************************************************************************)
NotNullHolds ==
    \A c \in Catalogs : table[c].required => \A i \in Used(c) : ~rows[c][i].null

(***************************************************************************)
(* Nothing is left without what it belongs to.  The rows stored under a    *)
(* table's name were inserted into the table that has the name now: DROP   *)
(* and CREATE OR REPLACE leave no row behind, even when the process dies   *)
(* between the two calls of a REPLACE.  And a table is stored only under a *)
(* schema that exists: schemaDrop without CASCADE refuses a schema with    *)
(* tables and tableCreate a missing schema.                                *)
(***************************************************************************)
NothingOrphaned ==
    \A c \in Catalogs :
      /\ \A i \in Used(c) : rows[c][i].of = table[c].born
      /\ table[c] # NoTable => c \in schema

(***************************************************************************)
(* The writable catalogs of a worker "have their own (writable)            *)
(* table/schema state": a statement changes rows only in the catalog it    *)
(* was bound through.                                                      *)
(***************************************************************************)
WritesOwnCatalog == \A s \in Sessions : pc[s] = "mutate" => st[s].catalog = home[s]
=============================================================================
