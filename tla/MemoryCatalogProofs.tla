-------------------------- MODULE MemoryCatalogProofs ---------------------------
(***************************************************************************)
(* What MemoryCatalog promises its clients, for any number of attaches,    *)
(* requests, schemas, names and items.                                     *)
(***************************************************************************)
EXTENDS MemoryCatalog, SequenceTheorems, TLAPS

\* Contents c under version v do not mislead a client of a: the version is not
\* ahead, and contents under the current version are the current ones.
Faithful(a, v, c) ==
    /\ v <= st[a].version
    /\ v = st[a].version => c = Contents(a)

\* What the client will keep when an answer arrives.
Kept(r) == IF request[r].contents = None THEN request[r].kept.contents ELSE request[r].contents

Shape ==
    /\ st = [a \in Attaches |-> st[a]]
    /\ cached = [a \in Attaches |-> cached[a]]
    /\ request = [r \in Requests |-> request[r]]

\* A state of an attach, with its schemas a tree.
Tree(s) ==
    /\ s.version \in 1..MaxVersion
    /\ s.schemas \subseteq Paths
    /\ DOMAIN s.objects \subseteq Keys
    /\ \A k \in DOMAIN s.objects : s.objects[k] \in Items
    /\ \A p \in s.schemas : Len(p) > 1 => Parent(p) \in s.schemas
    /\ \A k \in DOMAIN s.objects : k[1] \in s.schemas

\* A token that was not given out has the state an attach begins with.
Unused == \A a \in Attaches \ used : st[a] = Empty

CachedFaithful ==
    \A a \in Attaches :
      /\ cached[a].version \in -1..MaxVersion
      /\ ~unversioned /\ cached[a].version # -1 =>
           Faithful(a, cached[a].version, cached[a].contents)

RequestFaithful ==
    \A r \in Requests :
      /\ request[r].pc \in {"none", "build", "answer"}
      /\ request[r].pc \in {"build", "answer"} =>
           /\ request[r].attach \in used
           /\ request[r].version \in 0..MaxVersion
           /\ ~unversioned => request[r].version <= st[request[r].attach].version
      /\ request[r].pc = "answer" /\ ~unversioned =>
           Faithful(request[r].attach, request[r].version, Kept(r))

IInv ==
    /\ <<unversioned, contentsEtag>> \in Settings
    /\ attaches \subseteq used
    /\ used \subseteq Attaches
    /\ Shape
    /\ \A a \in Attaches : Tree(st[a])
    /\ Unused
    /\ CachedFaithful
    /\ RequestFaithful

-----------------------------------------------------------------------------
\* A snapshot is told from the null streams of a not_modified answer.
LEMMA ContentsNotNone == \A a \in Attaches : Contents(a) # None
  <1> SUFFICES ASSUME NEW a \in Attaches, Contents(a) = None
               PROVE  FALSE
    OBVIOUS
  <1>1. DOMAIN Contents(a) = {"schemas", "objects"}
    BY DEF Contents
  <1>2. DOMAIN None = {"version"}
    BY DEF None
  <1> QED BY <1>1, <1>2

\* A nested path and its parent's agree but for the last name.
LEMMA ParentFacts ==
    ASSUME NEW p \in Paths, Len(p) > 1
    PROVE  /\ Len(p) \in Nat
           /\ Parent(p) \in Seq(STRING)
           /\ Len(Parent(p)) = Len(p) - 1
           /\ \A i \in 1..(Len(p) - 1) : Parent(p)[i] = p[i]
  <1>1. p \in Seq(STRING) /\ Len(p) \in Nat
    BY PathsAssumption, LenProperties
  <1> QED BY <1>1, SubSeqProperties DEF Parent

\* The schemas of an attach stay a tree when one is dropped with those below it.
LEMMA DropKeepsTree ==
    ASSUME NEW a, NEW path \in Paths, st[a].schemas \subseteq Paths,
           \A p \in st[a].schemas : Len(p) > 1 => Parent(p) \in st[a].schemas
    PROVE  LET left == st[a].schemas \ ({path} \cup Children(a, path))
           IN \A p \in left : Len(p) > 1 => Parent(p) \in left
  <1> DEFINE left == st[a].schemas \ ({path} \cup Children(a, path))
  <1> SUFFICES ASSUME NEW p \in left, Len(p) > 1
               PROVE  Parent(p) \in left
    OBVIOUS
  <1>1. p \in Paths /\ p \in st[a].schemas /\ Parent(p) \in st[a].schemas
    OBVIOUS
  <1>2. /\ Len(p) \in Nat
        /\ Len(Parent(p)) = Len(p) - 1
        /\ \A i \in 1..(Len(p) - 1) : Parent(p)[i] = p[i]
    BY <1>1, ParentFacts
  <1>3. Len(path) \in Nat
    BY PathsAssumption, LenProperties
  <1>4. Parent(p) # path
    <2> SUFFICES ASSUME Parent(p) = path
                 PROVE  p \in Children(a, path)
      OBVIOUS
    <2> QED BY <1>1, <1>2, <1>3 DEF Children
  <1>5. Parent(p) \notin Children(a, path)
    <2> SUFFICES ASSUME Parent(p) \in Children(a, path)
                 PROVE  p \in Children(a, path)
      OBVIOUS
    <2>1. Len(Parent(p)) > Len(path) /\ \A i \in 1..Len(path) : Parent(p)[i] = path[i]
      BY DEF Children
    <2>2. Len(p) > Len(path)
      BY <2>1, <1>2, <1>3
    <2>3. \A i \in 1..Len(path) : p[i] = path[i]
      BY <2>1, <1>2, <1>3
    <2> QED BY <1>1, <2>2, <2>3 DEF Children
  <1> QED BY <1>1, <1>4, <1>5

\* A statement that bumps the version, to a state that is a tree again.
LEMMA BumpKeepsIInv ==
    ASSUME IInv, NEW a \in Attaches, NEW schemas, NEW objects, Bump(a, schemas, objects),
           UNCHANGED <<unversioned, contentsEtag>>,
           schemas \subseteq Paths,
           DOMAIN objects \subseteq Keys,
           \A k \in DOMAIN objects : objects[k] \in Items,
           \A p \in schemas : Len(p) > 1 => Parent(p) \in schemas,
           \A k \in DOMAIN objects : k[1] \in schemas
    PROVE  IInv'
  <1> USE VersionAssumption
  <1>1. /\ st[a].version \in Nat
        /\ st'[a] = [version |-> st[a].version + 1, schemas |-> schemas, objects |-> objects]
        /\ \A b \in Attaches : b # a => st'[b] = st[b]
        /\ a \in used
        /\ st[a].version + 1 \in 1..MaxVersion
    BY DEF IInv, Bump, Shape, Tree
  <1>2. Shape'
    BY DEF IInv, Bump, Shape
  <1>3. \A b \in Attaches : Tree(st'[b])
    BY <1>1 DEF IInv, Tree
  <1>4. Unused'
    BY <1>1 DEF IInv, Unused, Bump
  <1>5. \A c : \A b \in Attaches, v \in Int : Faithful(b, v, c) => Faithful(b, v, c)'
    BY <1>1 DEF Faithful, Contents
  <1>6. CachedFaithful'
    <2> SUFFICES ASSUME NEW b \in Attaches
                 PROVE  /\ cached'[b].version \in -1..MaxVersion
                        /\ ~unversioned' /\ cached'[b].version # -1 =>
                             Faithful(b, cached[b].version, cached[b].contents)'
      BY DEF CachedFaithful
    <2>1. cached' = cached /\ unversioned' = unversioned
      BY DEF Bump
    <2> QED BY <2>1, <1>5 DEF IInv, CachedFaithful
  <1>7. RequestFaithful'
    <2>1. request' = request /\ unversioned' = unversioned /\ used' = used
      BY DEF Bump
    <2>2. \A r \in Requests : Kept(r)' = Kept(r)
      BY <2>1 DEF Kept, None
    <2>3. \A b \in Attaches : st[b].version \in Nat /\ st[b].version <= st'[b].version
      <3> TAKE b \in Attaches
      <3>1. st[b].version \in Nat
        BY DEF IInv, Tree
      <3> QED BY <3>1, <1>1
    <2> SUFFICES ASSUME NEW r \in Requests
                 PROVE  /\ request[r].pc \in {"none", "build", "answer"}
                        /\ request[r].pc \in {"build", "answer"} =>
                             /\ request[r].attach \in used
                             /\ request[r].version \in 0..MaxVersion
                             /\ ~unversioned => request[r].version <= st'[request[r].attach].version
                        /\ request[r].pc = "answer" /\ ~unversioned =>
                             Faithful(request[r].attach, request[r].version, Kept(r))'
      BY <2>1 DEF RequestFaithful
    <2>4. /\ request[r].pc \in {"none", "build", "answer"}
          /\ request[r].pc \in {"build", "answer"} =>
               /\ request[r].attach \in used
               /\ request[r].version \in 0..MaxVersion
               /\ ~unversioned => request[r].version <= st[request[r].attach].version
          /\ request[r].pc = "answer" /\ ~unversioned =>
               Faithful(request[r].attach, request[r].version, Kept(r))
      BY DEF IInv, RequestFaithful
    <2>5. ASSUME request[r].pc \in {"build", "answer"}, ~unversioned
          PROVE  request[r].version <= st'[request[r].attach].version
      <3>1. request[r].attach \in Attaches /\ request[r].version \in Int
        BY <2>4, <2>5 DEF IInv
      <3>2. /\ st[request[r].attach].version \in Int
            /\ st'[request[r].attach].version \in Int
            /\ st[request[r].attach].version <= st'[request[r].attach].version
        BY <3>1, <2>3, <1>3 DEF Tree
      <3>3. request[r].version <= st[request[r].attach].version
        BY <2>4, <2>5
      <3> QED BY <3>1, <3>2, <3>3
    <2>6. ASSUME request[r].pc = "answer", ~unversioned
          PROVE  Faithful(request[r].attach, request[r].version, Kept(r))'
      <3>1. request[r].attach \in Attaches /\ request[r].version \in Int
        BY <2>4, <2>6 DEF IInv
      <3>2. Faithful(request[r].attach, request[r].version, Kept(r))
        BY <2>4, <2>6
      <3> HIDE DEF Faithful, Kept
      <3> QED BY <3>1, <3>2, <1>5, <2>1, <2>2, <1>1 DEF Faithful, Contents
    <2> QED BY <2>4, <2>5, <2>6
  <1> QED BY <1>2, <1>3, <1>4, <1>6, <1>7 DEF IInv, Bump

\* No attach, no request and nothing kept: the invariant holds at the start.
LEMMA InitIInv == Init => IInv
  <1> SUFFICES ASSUME Init
               PROVE  IInv
    OBVIOUS
  <1> USE VersionAssumption, PathsAssumption
  <1>1. <<unversioned, contentsEtag>> \in Settings
    BY SettingsAssumption DEF Init
  <1>2. Shape
    BY DEF Init, Shape
  <1>3. \A a \in Attaches : st[a] = Empty
    BY DEF Init
  <1>4. Tree(Empty)
    <2>1. Len(Main) = 1
      BY DEF Main
    <2>2. Empty.version = 1 /\ Empty.schemas = {Main} /\ DOMAIN Empty.objects = {}
      BY DEF Empty
    <2>3. 1 \in 1..MaxVersion
      OBVIOUS
    <2>4. \A p \in Empty.schemas : p \in Paths /\ ~(Len(p) > 1)
      <3>1. ~(Len(Main) > 1)
        BY <2>1
      <3> QED BY <3>1, <2>2, PathsAssumption, Zenon
    <2> HIDE DEF Empty
    <2> QED BY <2>2, <2>3, <2>4 DEF Tree
  <1>5. CachedFaithful
    <2>1. \A a \in Attaches : cached[a] = None
      BY DEF Init
    <2>2. None.version = -1
      BY DEF None
    <2>3. -1 \in -1..MaxVersion
      OBVIOUS
    <2> QED BY <2>1, <2>2, <2>3 DEF CachedFaithful
  <1>6. RequestFaithful
    BY DEF Init, RequestFaithful, NoRequest
  <1> QED BY <1>1, <1>2, <1>3, <1>4, <1>5, <1>6 DEF Init, IInv, Unused

\* The objects left when some schemas are gone.
LEMMA ObjectsOutside ==
    ASSUME IInv, NEW a \in Attaches, NEW gone
    PROVE  /\ DOMAIN Outside(a, gone) \subseteq Keys
           /\ \A k \in DOMAIN Outside(a, gone) : Outside(a, gone)[k] \in Items
           /\ \A k \in DOMAIN Outside(a, gone) : k[1] \in st[a].schemas \ gone
  <1>1. Tree(st[a])
    BY DEF IInv
  <1> QED BY <1>1 DEF Outside, Tree

\* The objects with one created, replaced or given another item.
LEMMA ObjectsWith ==
    ASSUME IInv, NEW a \in Attaches, NEW key \in Keys, NEW item \in Items, key[1] \in st[a].schemas
    PROVE  /\ DOMAIN With(a, key, item) \subseteq Keys
           /\ \A k \in DOMAIN With(a, key, item) : With(a, key, item)[k] \in Items
           /\ \A k \in DOMAIN With(a, key, item) : k[1] \in st[a].schemas
  <1>1. Tree(st[a])
    BY DEF IInv
  <1> QED BY <1>1 DEF With, Tree

\* Each DDL handler keeps the invariant: it bumps the version and leaves a tree.
LEMMA DDLKeepsIInv ==
    ASSUME IInv, NEW a \in Attaches, UNCHANGED <<unversioned, contentsEtag>>,
           \/ \E path \in Paths, onConflict \in OnConflicts : schemaCreate(a, path, onConflict)
           \/ \E path \in Paths, cascade \in BOOLEAN : schemaDrop(a, path, cascade)
           \/ \E key \in Keys, onConflict \in OnConflicts, item \in Items :
                putObject(a, key, onConflict, item)
           \/ \E key \in Keys : dropObject(a, key)
           \/ \E path \in Paths, name \in Names, item \in Items :
                changeViewComment(a, path, name, item)
    PROVE  IInv'
  <1> DEFINE s == st[a].schemas
  <1>0. /\ s \subseteq Paths
        /\ \A p \in s : Len(p) > 1 => Parent(p) \in s
        /\ DOMAIN st[a].objects \subseteq Keys
        /\ \A k \in DOMAIN st[a].objects : st[a].objects[k] \in Items /\ k[1] \in s
    BY DEF IInv, Tree
  <1>1. CASE \E path \in Paths, onConflict \in OnConflicts : schemaCreate(a, path, onConflict)
    <2> PICK path \in Paths, onConflict \in OnConflicts : schemaCreate(a, path, onConflict)
      BY <1>1
    <2>1. Bump(a, s \cup {path}, Outside(a, {path}))
      BY DEF schemaCreate
    <2>2. \A p \in s \cup {path} : Len(p) > 1 => Parent(p) \in s \cup {path}
      BY <1>0 DEF schemaCreate
    <2>3. s \cup {path} \subseteq Paths
      BY <1>0
    <2>4. \A k \in DOMAIN Outside(a, {path}) : k[1] \in s \cup {path}
      BY ObjectsOutside
    <2>5. /\ DOMAIN Outside(a, {path}) \subseteq Keys
          /\ \A k \in DOMAIN Outside(a, {path}) : Outside(a, {path})[k] \in Items
      BY ObjectsOutside
    <2> HIDE DEF s
    <2> QED BY <2>1, <2>2, <2>3, <2>4, <2>5, BumpKeepsIInv
  <1>2. CASE \E path \in Paths, cascade \in BOOLEAN : schemaDrop(a, path, cascade)
    <2> PICK path \in Paths, cascade \in BOOLEAN : schemaDrop(a, path, cascade)
      BY <1>2
    <2> DEFINE gone == {path} \cup Children(a, path)
    <2>1. Bump(a, s \ gone, Outside(a, gone))
      BY DEF schemaDrop
    <2>2. \A p \in s \ gone : Len(p) > 1 => Parent(p) \in s \ gone
      BY <1>0, DropKeepsTree
    <2>3. s \ gone \subseteq Paths
      BY <1>0
    <2>4. /\ DOMAIN Outside(a, gone) \subseteq Keys
          /\ \A k \in DOMAIN Outside(a, gone) : Outside(a, gone)[k] \in Items
          /\ \A k \in DOMAIN Outside(a, gone) : k[1] \in s \ gone
      BY ObjectsOutside
    <2> HIDE DEF s, gone
    <2> QED BY <2>1, <2>2, <2>3, <2>4, BumpKeepsIInv
  <1>3. CASE \E key \in Keys, onConflict \in OnConflicts, item \in Items :
               putObject(a, key, onConflict, item)
    <2> PICK key \in Keys, onConflict \in OnConflicts, item \in Items :
               putObject(a, key, onConflict, item)
      BY <1>3
    <2>1. Bump(a, s, With(a, key, item)) /\ key[1] \in s
      BY DEF putObject
    <2>2. /\ DOMAIN With(a, key, item) \subseteq Keys
          /\ \A k \in DOMAIN With(a, key, item) : With(a, key, item)[k] \in Items
          /\ \A k \in DOMAIN With(a, key, item) : k[1] \in s
      BY <2>1, ObjectsWith
    <2> HIDE DEF s
    <2> QED BY <2>1, <2>2, <1>0, BumpKeepsIInv
  <1>4. CASE \E key \in Keys : dropObject(a, key)
    <2> PICK key \in Keys : dropObject(a, key)
      BY <1>4
    <2> DEFINE left == [k \in DOMAIN st[a].objects \ {key} |-> st[a].objects[k]]
    <2>1. Bump(a, s, left)
      BY DEF dropObject
    <2>2. /\ DOMAIN left \subseteq Keys
          /\ \A k \in DOMAIN left : left[k] \in Items
          /\ \A k \in DOMAIN left : k[1] \in s
      BY <1>0
    <2> HIDE DEF s, left
    <2> QED BY <2>1, <2>2, <1>0, BumpKeepsIInv
  <1>5. CASE \E path \in Paths, name \in Names, item \in Items :
               changeViewComment(a, path, name, item)
    <2> PICK path \in Paths, name \in Names, item \in Items : changeViewComment(a, path, name, item)
      BY <1>5
    <2> DEFINE key == <<path, "view", name>>
    <2>1. Bump(a, s, With(a, key, item)) /\ key[1] \in s
      BY DEF changeViewComment
    <2>2. key \in Keys
      BY DEF Keys, Kinds
    <2> HIDE DEF key
    <2>3. /\ DOMAIN With(a, key, item) \subseteq Keys
          /\ \A k \in DOMAIN With(a, key, item) : With(a, key, item)[k] \in Items
          /\ \A k \in DOMAIN With(a, key, item) : k[1] \in s
      BY <2>1, <2>2, ObjectsWith
    <2> HIDE DEF s
    <2> QED BY <2>1, <2>3, <1>0, BumpKeepsIInv
  <1> QED BY <1>1, <1>2, <1>3, <1>4, <1>5

\* Every step keeps it; a step other than DDL leaves the catalog's state alone.
LEMMA NextKeepsIInv == IInv /\ [Next]_vars => IInv'
  <1> SUFFICES ASSUME IInv, [Next]_vars
               PROVE  IInv'
    OBVIOUS
  <1> USE VersionAssumption
  <1>t. \A a \in Attaches : st[a].version \in 1..MaxVersion
    BY DEF IInv, Tree
  <1>1. ASSUME NEW a \in Attaches, attach(a), UNCHANGED <<unversioned, contentsEtag>>
        PROVE  IInv'
    <2>1. st' = st
      BY <1>1 DEF attach, IInv, Unused, Shape
    <2>2. request' = request /\ cached' = cached /\ unversioned' = unversioned
      BY <1>1 DEF attach
    <2>3. attaches' \subseteq used' /\ used' \subseteq Attaches /\ used \subseteq used'
      BY <1>1 DEF attach, IInv
    <2>4. Unused'
      BY <2>1, <2>3 DEF IInv, Unused
    <2>5. CachedFaithful'
      BY <2>1, <2>2 DEF IInv, CachedFaithful, Faithful, Contents
    <2>6. RequestFaithful'
      BY <2>1, <2>2, <2>3 DEF IInv, RequestFaithful, Faithful, Contents, Kept
    <2> QED BY <1>1, <2>1, <2>2, <2>3, <2>4, <2>5, <2>6 DEF IInv, Shape
  <1>2. ASSUME NEW a \in Attaches, detach(a), UNCHANGED <<unversioned, contentsEtag>>
        PROVE  IInv'
    BY <1>2 DEF detach, IInv, Shape, Unused, CachedFaithful, RequestFaithful, Faithful, Contents, Kept
  <1>3. ASSUME NEW a \in Attaches, NEW r \in Requests, contents(r, a),
               UNCHANGED <<unversioned, contentsEtag>>
        PROVE  IInv'
    <2>1. st' = st /\ cached' = cached /\ used' = used /\ attaches' = attaches
      BY <1>3 DEF contents
    <2>2. /\ request'[r].pc = "build"
          /\ request'[r].attach = a
          /\ request'[r].version = reportedVersion(a)
          /\ \A q \in Requests : q # r => request'[q] = request[q]
      BY <1>3 DEF contents, IInv, Shape
    <2>3. a \in used
      BY <1>3 DEF contents, IInv
    <2>4. /\ reportedVersion(a) \in 0..MaxVersion
          /\ ~unversioned => reportedVersion(a) <= st[a].version
      BY <1>t DEF reportedVersion
    <2>5. RequestFaithful'
      BY <1>3, <2>1, <2>2, <2>3, <2>4 DEF IInv, RequestFaithful, Faithful, Contents, Kept
    <2>6. CachedFaithful'
      BY <1>3, <2>1 DEF IInv, CachedFaithful, Faithful, Contents
    <2>7. Shape'
      BY <1>3 DEF contents, IInv, Shape
    <2> QED BY <1>3, <2>1, <2>5, <2>6, <2>7 DEF IInv, Unused
  <1>4. ASSUME NEW r \in Requests, answerCatalogContents(r), UNCHANGED <<unversioned, contentsEtag>>
        PROVE  IInv'
    <2> DEFINE a == request[r].attach
    <2>1. st' = st /\ cached' = cached /\ used' = used /\ attaches' = attaches
      BY <1>4 DEF answerCatalogContents
    <2>2. /\ a \in used /\ a \in Attaches
          /\ request[r].version \in 0..MaxVersion
          /\ ~unversioned => request[r].version <= st[a].version
      BY <1>4 DEF answerCatalogContents, IInv, RequestFaithful
    <2>3. \A q \in Requests : q # r => request'[q] = request[q]
      BY <1>4 DEF answerCatalogContents, IInv, Shape
    <2>4. \/ request'[r].pc = "none"
          \/ /\ request'[r].pc = "answer"
             /\ request'[r].attach = a
             /\ request'[r].version = request[r].version
             /\ Kept(r)' = Contents(a)
      <3>1. CASE a \notin attaches
        BY <1>4, <3>1 DEF answerCatalogContents, IInv, Shape, NoRequest
      <3>2. CASE a \in attaches
        <4>1. Contents(a) # None
          BY <2>2, ContentsNotNone
        <4> QED BY <1>4, <3>2, <4>1 DEF answerCatalogContents, IInv, Shape, Kept
      <3> QED BY <3>1, <3>2
    <2>5. ~unversioned => Faithful(a, request[r].version, Contents(a))
      BY <2>2 DEF Faithful
    <2>6. RequestFaithful'
      <3> SUFFICES ASSUME NEW q \in Requests
                   PROVE  (/\ request[q].pc \in {"none", "build", "answer"}
                           /\ request[q].pc \in {"build", "answer"} =>
                                /\ request[q].attach \in used
                                /\ request[q].version \in 0..MaxVersion
                                /\ ~unversioned => request[q].version <= st[request[q].attach].version
                           /\ request[q].pc = "answer" /\ ~unversioned =>
                                Faithful(request[q].attach, request[q].version, Kept(q)))'
        BY DEF RequestFaithful
      <3>1. CASE q = r
        BY <3>1, <1>4, <2>1, <2>2, <2>4, <2>5 DEF Faithful, Contents
      <3>2. CASE q # r
        BY <3>2, <1>4, <2>1, <2>3 DEF IInv, RequestFaithful, Faithful, Contents, Kept
      <3> QED BY <3>1, <3>2
    <2>7. CachedFaithful'
      BY <1>4, <2>1 DEF IInv, CachedFaithful, Faithful, Contents
    <2>8. Shape'
      BY <1>4 DEF answerCatalogContents, IInv, Shape
    <2> QED BY <1>4, <2>1, <2>6, <2>7, <2>8 DEF IInv, Unused
  <1>5. ASSUME NEW r \in Requests, Answer(r), UNCHANGED <<unversioned, contentsEtag>>
        PROVE  IInv'
    <2> DEFINE a == request[r].attach
    <2>1. st' = st /\ used' = used /\ attaches' = attaches
      BY <1>5 DEF Answer
    <2>2. a \in Attaches /\ request[r].version \in 0..MaxVersion
      BY <1>5 DEF Answer, IInv, RequestFaithful
    <2>3. ~unversioned => Faithful(a, request[r].version, Kept(r))
      BY <1>5 DEF Answer, IInv, RequestFaithful
    <2>4. /\ cached'[a].version = request[r].version
          /\ cached'[a].contents = Kept(r)
          /\ \A b \in Attaches : b # a => cached'[b] = cached[b]
      BY <1>5, <2>2 DEF Answer, IInv, Shape, Kept
    <2>5. CachedFaithful'
      BY <1>5, <2>1, <2>2, <2>3, <2>4 DEF IInv, CachedFaithful, Faithful, Contents
    <2>6. /\ request'[r].pc = "none"
          /\ \A q \in Requests : q # r => request'[q] = request[q]
      BY <1>5 DEF Answer, IInv, Shape, NoRequest
    <2>7. RequestFaithful'
      BY <1>5, <2>1, <2>6 DEF IInv, RequestFaithful, Faithful, Contents, Kept
    <2>8. Shape'
      BY <1>5 DEF Answer, IInv, Shape
    <2> QED BY <1>5, <2>1, <2>5, <2>7, <2>8 DEF IInv, Unused
  <1>6. CASE UNCHANGED vars
    BY <1>6 DEF vars, IInv, Shape, Unused, CachedFaithful, RequestFaithful, Faithful, Contents, Kept
  <1>7. ASSUME NEW a \in Attaches, NEW path \in Paths, NEW name \in Names,
               UNCHANGED <<unversioned, contentsEtag>>,
               \/ \E onConflict \in OnConflicts, item \in Items :
                    \/ tableCreate(a, path, name, onConflict, item)
                    \/ viewCreate(a, path, name, onConflict, item)
               \/ tableDrop(a, path, name)
               \/ viewDrop(a, path, name)
        PROVE  IInv'
    <2>1. <<path, "table", name>> \in Keys /\ <<path, "view", name>> \in Keys
      BY DEF Keys, Kinds
    <2> QED BY <1>7, <2>1, DDLKeepsIInv DEF tableCreate, viewCreate, tableDrop, viewDrop
  <1> QED BY <1>1, <1>2, <1>3, <1>4, <1>5, <1>6, <1>7, DDLKeepsIInv DEF Next

\* The inductive invariant holds throughout.
LEMMA AlwaysIInv == Spec => []IInv
  BY InitIInv, NextKeepsIInv, PTL DEF Spec

\* Type correctness of the catalog's state, its requests and its clients.
THEOREM TypeAlwaysOK == Spec => []TypeOK
  <1>1. IInv => TypeOK
    BY DEF IInv, TypeOK, Tree, CachedFaithful, RequestFaithful
  <1> QED BY <1>1, AlwaysIInv, PTL

\* A client that finds its version still reported may use the contents it keeps
\* (MemoryCatalog.contents reads the version before the snapshot, and every DDL
\* handler bumps it).
THEOREM CacheAlwaysSound == Spec => []CacheSound
  <1>1. IInv => CacheSound
    BY DEF IInv, CacheSound, CachedFaithful, Faithful, Tree, reportedVersion
  <1> QED BY <1>1, AlwaysIInv, PTL

\* The schemas stay a tree that holds every object, at any depth of nesting
\* (schemaDrop removes everything below what it drops).
THEOREM TreeAlwaysClosed == Spec => []TreeClosed
  <1>1. IInv => TreeClosed
    BY DEF IInv, TreeClosed, Tree
  <1> QED BY <1>1, AlwaysIInv, PTL
=============================================================================
