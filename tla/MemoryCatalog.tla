----------------------------- MODULE MemoryCatalog -----------------------------
(***************************************************************************)
(* The in-memory catalog that accepts DDL (memory_catalog.go), and clients *)
(* that keep its contents and ask its version whether they still hold.     *)
(*                                                                         *)
(* Every attach has a state of its own: a version, a tree of schemas, and  *)
(* tables and views in them.  Each handler holds the catalog's mutex,      *)
(* except catalog_contents, which takes it once for the version and once   *)
(* again for the snapshot.  Several requests of one attach may be under    *)
(* way, and their answers may arrive in any order.                         *)
(***************************************************************************)
EXTENDS Integers, Sequences

CONSTANTS
    Attaches,     \* attach tokens, each used once
    Requests,     \* catalog_contents requests that may be under way together
    Paths,        \* schema paths: sequences of names
    Names,        \* table and view names, lower-cased
    Items,        \* serialized definitions of tables and views
    Settings,     \* the settings to consider: unversioned and contentsEtag
    MaxVersion    \* bound on the version of an attach

Main == <<"main">>

ASSUME PathsAssumption == Main \in Paths /\ \A p \in Paths : p \in Seq(STRING) /\ p # <<>>
ASSUME SettingsAssumption == Settings \subseteq BOOLEAN \X BOOLEAN
ASSUME VersionAssumption == MaxVersion \in Nat \ {0}

Kinds == {"table", "view"}
OnConflicts == {"error", "ignore", "replace"}
None == [version |-> -1]

VARIABLES
    unversioned,  \* WithMemoryCatalogUnversioned; never changes
    contentsEtag, \* whether WithMemoryCatalogContentsEtag is given; never changes
    attaches,     \* the attaches that are in the map
    used,         \* the tokens given out
    st,           \* memoryState of each attach
    request,      \* the catalog_contents requests
    cached        \* what the client of each attach keeps

vars == <<unversioned, contentsEtag, attaches, used, st, request, cached>>

\* An object is named by its schema, kind and name.
Keys == Paths \X Kinds \X Names

Empty == [version |-> 1, schemas |-> {Main}, objects |-> <<>>]

NoRequest == [pc |-> "none"]

\* What catalog_contents lists.
Contents(a) == [schemas |-> st[a].schemas, objects |-> st[a].objects]

reportedVersion(a) == IF unversioned THEN 0 ELSE st[a].version

TypeOK ==
    /\ <<unversioned, contentsEtag>> \in Settings
    /\ attaches \subseteq used
    /\ used \subseteq Attaches
    /\ \A a \in Attaches :
         /\ st[a].version \in 1..MaxVersion
         /\ st[a].schemas \subseteq Paths
         /\ DOMAIN st[a].objects \subseteq Keys
         /\ \A k \in DOMAIN st[a].objects : st[a].objects[k] \in Items
         /\ cached[a].version \in -1..MaxVersion
    /\ \A r \in Requests : request[r].pc \in {"none", "build", "answer"}

Init ==
    /\ \E setting \in Settings : unversioned = setting[1] /\ contentsEtag = setting[2]
    /\ attaches = {}
    /\ used = {}
    /\ st = [a \in Attaches |-> Empty]
    /\ request = [r \in Requests |-> NoRequest]
    /\ cached = [a \in Attaches |-> None]

-----------------------------------------------------------------------------
(***************************************************************************)
(* Attach and detach                                                       *)
(***************************************************************************)

attach(a) ==
    /\ a \notin used
    /\ used' = used \cup {a}
    /\ attaches' = attaches \cup {a}
    /\ st' = [st EXCEPT ![a] = Empty]
    /\ UNCHANGED <<request, cached>>

detach(a) ==
    /\ a \in attaches
    /\ attaches' = attaches \ {a}
    /\ UNCHANGED <<used, st, request, cached>>

-----------------------------------------------------------------------------
(***************************************************************************)
(* DDL.  A statement that is refused, or that keeps what exists, changes   *)
(* nothing and is no step.                                                 *)
(***************************************************************************)

\* The state of attach a becomes these schemas and objects, at the next version.
Bump(a, schemas, objects) ==
    /\ a \in attaches
    /\ st[a].version < MaxVersion
    /\ st' = [st EXCEPT ![a] = [version |-> @.version + 1, schemas |-> schemas, objects |-> objects]]
    /\ UNCHANGED <<attaches, used, request, cached>>

\* The objects of a that are not in one of these schemas.
Outside(a, schemas) ==
    [k \in {key \in DOMAIN st[a].objects : key[1] \notin schemas} |-> st[a].objects[k]]

Parent(path) == SubSeq(path, 1, Len(path) - 1)

\* schemaCreate: a schema that is replaced begins empty, with its children kept.
schemaCreate(a, path, onConflict) ==
    /\ path \in st[a].schemas => onConflict = "replace"
    /\ Len(path) > 1 => Parent(path) \in st[a].schemas
    /\ Bump(a, st[a].schemas \cup {path}, Outside(a, {path}))

\* The schemas below path, at any depth: the path is a proper prefix of theirs.
Children(a, path) ==
    {p \in st[a].schemas : Len(p) > Len(path) /\ \A i \in 1..Len(path) : p[i] = path[i]}

\* Mutant: CASCADE drops the objects of the schema and leaves the schemas below.
schemaDrop_KeepsChildren(a, path, cascade) ==
    /\ path \in st[a].schemas
    /\ cascade \/ (Children(a, path) = {} /\ \A k \in DOMAIN st[a].objects : k[1] # path)
    /\ Bump(a, st[a].schemas \ {path}, Outside(a, {path}))

\* schemaDrop: with CASCADE everything below goes too, without it the schema must
\* be empty.
schemaDrop(a, path, cascade) ==
    LET children == Children(a, path)
        gone     == {path} \cup children
    IN /\ path \in st[a].schemas
       /\ cascade \/ (children = {} /\ \A k \in DOMAIN st[a].objects : k[1] # path)
       /\ Bump(a, st[a].schemas \ gone, Outside(a, gone))

\* The objects of a with item under key.
With(a, key, item) ==
    [k \in DOMAIN st[a].objects \cup {key} |-> IF k = key THEN item ELSE st[a].objects[k]]

\* An object is created, or replaced where on_conflict says so.
putObject(a, key, onConflict, item) ==
    /\ key[1] \in st[a].schemas
    /\ key \in DOMAIN st[a].objects => onConflict = "replace"
    /\ Bump(a, st[a].schemas, With(a, key, item))

\* An object is dropped.
dropObject(a, key) ==
    /\ key[1] \in st[a].schemas
    /\ key \in DOMAIN st[a].objects
    /\ Bump(a, st[a].schemas, [k \in DOMAIN st[a].objects \ {key} |-> st[a].objects[k]])

tableCreate(a, path, name, onConflict, item) == putObject(a, <<path, "table", name>>, onConflict, item)

tableDrop(a, path, name) == dropObject(a, <<path, "table", name>>)

viewCreate(a, path, name, onConflict, item) == putObject(a, <<path, "view", name>>, onConflict, item)

viewDrop(a, path, name) == dropObject(a, <<path, "view", name>>)

\* Mutant: the version is not bumped.
changeViewComment_NoBump(a, path, name, item) ==
    LET key == <<path, "view", name>>
    IN /\ a \in attaches
       /\ key \in DOMAIN st[a].objects
       /\ st' = [st EXCEPT ![a].objects = With(a, key, item)]
       /\ UNCHANGED <<attaches, used, request, cached>>

\* viewCommentSet and viewColumnCommentSet give the view another item.
changeViewComment(a, path, name, item) ==
    LET key == <<path, "view", name>>
    IN /\ path \in st[a].schemas
       /\ key \in DOMAIN st[a].objects
       /\ Bump(a, st[a].schemas, With(a, key, item))

-----------------------------------------------------------------------------
(***************************************************************************)
(* catalog_contents                                                        *)
(***************************************************************************)

\* contents: the version, under the mutex.  if_none_match is the etag, a hash, of
\* the contents the client keeps, if it was given one.
contents(r, a) ==
    /\ request[r].pc = "none"
    /\ a \in attaches
    /\ request' = [request EXCEPT ![r] = [pc |-> "build", attach |-> a,
                                          version |-> reportedVersion(a),
                                          kept |-> IF contentsEtag THEN cached[a] ELSE None]]
    /\ UNCHANGED <<attaches, used, st, cached>>

\* answerCatalogContents: the snapshot, under the mutex again, with the version
\* read before, or not_modified.  An attach that was detached in between is an error.
answerCatalogContents(r) ==
    LET a == request[r].attach
        same == /\ request[r].kept # None
                /\ request[r].kept.contents = Contents(a)
    IN /\ request[r].pc = "build"
       /\ request' = [request EXCEPT ![r] =
                        IF a \notin attaches THEN NoRequest
                        ELSE [pc |-> "answer", attach |-> a, version |-> request[r].version,
                              kept |-> IF same THEN request[r].kept ELSE None,
                              contents |-> IF same THEN None ELSE Contents(a)]]
       /\ UNCHANGED <<attaches, used, st, cached>>

\* The answer arrives, and the client keeps its contents, or those whose etag it
\* had sent, at the answer's version.
Answer(r) ==
    /\ request[r].pc = "answer"
    /\ cached' = [cached EXCEPT ![request[r].attach] =
                    [version |-> request[r].version,
                     contents |-> IF request[r].contents = None THEN request[r].kept.contents
                                  ELSE request[r].contents]]
    /\ request' = [request EXCEPT ![r] = NoRequest]
    /\ UNCHANGED <<attaches, used, st>>

Next ==
    /\ \/ \E a \in Attaches :
            \/ attach(a)
            \/ detach(a)
            \/ \E path \in Paths :
                 \/ \E onConflict \in OnConflicts : schemaCreate(a, path, onConflict)
                 \/ \E cascade \in BOOLEAN : schemaDrop(a, path, cascade)
                 \/ \E name \in Names :
                      \/ \E onConflict \in OnConflicts, item \in Items :
                           \/ tableCreate(a, path, name, onConflict, item)
                           \/ viewCreate(a, path, name, onConflict, item)
                      \/ tableDrop(a, path, name)
                      \/ viewDrop(a, path, name)
                      \/ \E item \in Items : changeViewComment(a, path, name, item)
            \/ \E r \in Requests : contents(r, a)
       \/ \E r \in Requests : answerCatalogContents(r) \/ Answer(r)
    /\ UNCHANGED <<unversioned, contentsEtag>>

Spec == Init /\ [][Next]_vars

-----------------------------------------------------------------------------
(***************************************************************************)
(* Properties                                                              *)
(***************************************************************************)

\* A client whose version is the one the catalog reports may use what it keeps:
\* however its requests overlap with DDL and with each other, the contents are
\* then the current ones.  (An unversioned catalog reports 0, on which a client
\* relies for nothing.)
CacheSound ==
    \A a \in attaches :
      cached[a].version = reportedVersion(a) /\ ~unversioned => cached[a].contents = Contents(a)

\* Whatever is created, replaced and dropped, with CASCADE or without, the schemas
\* stay a tree and every object is in one of them, so that a snapshot is never
\* refused by checkContentsPaths.
TreeClosed ==
    \A a \in Attaches :
      /\ \A p \in st[a].schemas : Len(p) > 1 => Parent(p) \in st[a].schemas
      /\ \A k \in DOMAIN st[a].objects : k[1] \in st[a].schemas
=============================================================================
