------------------------- MODULE CatalogPublication -------------------------
(***************************************************************************)
(* Publication of catalog snapshots as immutable external objects          *)
(* (catalog_publication.go, catalog_publication_s3.go and                  *)
(* publishedCatalogContents in catalog_contents.go).                       *)
(*                                                                         *)
(* A request names the catalog's current identity, warms the snapshot of   *)
(* that identity and is answered with a reference to it.  Every worker has *)
(* one manager: a cache of manifests and at most one pending publication   *)
(* per key.  The managers share a repository of manifests with conditional *)
(* writes.  The catalog changes, references expire, managers crash, and    *)
(* every call of the repository or of the object storage may fail.         *)
(***************************************************************************)
EXTENDS Integers, Sequences, FiniteSets

CONSTANTS
    Managers,      \* snapshot managers, one per worker process
    Procs,         \* goroutines serving calls
    Deployments,   \* what managerOf and ordinary may be
    Renewable,     \* whether the repository renews references
    CacheLimit,    \* MaxCachedManifests
    MaxRevision,   \* bound on catalog revisions
    MaxManifests   \* bound on manifest identifiers

Nobody == "nobody"

ASSUME ActorsAssumption ==
    /\ Deployments \subseteq [Procs -> Managers] \X BOOLEAN
    /\ Nobody \notin Procs
    /\ Renewable \in BOOLEAN

ASSUME LimitsAssumption ==
    /\ CacheLimit \in Nat \ {0}
    /\ MaxRevision \in Nat \ {0}
    /\ MaxManifests \in Nat

VARIABLES
    managerOf, \* the manager each goroutine uses
    ordinary,  \* OnPublicationFailure = "ordinary"
    rev,       \* the catalog's current revision
    repo,      \* the durable manifest of every key
    cached,    \* cached manifests of every manager
    pending,   \* the goroutine publishing each key, by manager
    expired,   \* identifiers of the manifests that are no longer usable
    next,      \* the next fresh manifest or object identifier
    pc,        \* what each goroutine is about to do
    mode,      \* the call it serves
    key,       \* the key of that call
    man,       \* the manifest it holds: existing, p or winner
    read,      \* the parts of the contents its build has read
    owner      \* the goroutine whose publication it waits for

vars == <<managerOf, ordinary, rev, repo, cached, pending, expired, next, pc, mode, key, man, read, owner>>

\* The identity of a snapshot is the source revision, so that is its key.
Keys == 1..MaxRevision

\* A catalog is collected part by part; two parts show every tear.
Parts == 2

Manifests == [id : 1..MaxManifests, key : Keys, object : 1..MaxManifests,
              contents : UNION {[1..n -> Keys] : n \in 0..Parts}]

NoManifest == [id |-> 0, key |-> 0, object |-> 0, contents |-> <<>>]

Optional == Manifests \cup {NoManifest}

usable(m) == m # NoManifest /\ m.id \notin expired

\* A renewal may change the location, its expiry and the manifest id only.
checkPublicationRenewal(before, after) == before.object = after.object

Publishing == {"lookup", "renew", "putrenewed", "renewlost", "validate", "drop",
               "build", "buildcheck", "upload", "commit", "winner", "finish", "abort"}

TypeOK ==
    /\ <<managerOf, ordinary>> \in Deployments
    /\ rev \in Keys
    /\ repo \in [Keys -> Optional]
    /\ cached \in [Managers -> [Keys -> Optional]]
    /\ pending \in [Managers -> [Keys -> Procs \cup {Nobody}]]
    /\ expired \subseteq 1..MaxManifests
    /\ next \in 1..(MaxManifests + 1)
    /\ pc \in [Procs -> Publishing \cup {"idle", "warm", "wait", "failed", "check", "served",
                                         "invwait", "invcache", "invlookup", "invremove"}]
    /\ mode \in [Procs -> {"none", "warm", "ordinary", "import", "invalidate"}]
    /\ key \in [Procs -> Keys]
    /\ man \in [Procs -> Optional]
    /\ read \in [Procs -> UNION {[1..n -> Keys] : n \in 0..Parts}]
    /\ owner \in [Procs -> Procs \cup {Nobody}]

Init ==
    /\ \E d \in Deployments : managerOf = d[1] /\ ordinary = d[2]
    /\ rev = 1
    /\ repo = [k \in Keys |-> NoManifest]
    /\ cached = [m \in Managers |-> [k \in Keys |-> NoManifest]]
    /\ pending = [m \in Managers |-> [k \in Keys |-> Nobody]]
    /\ expired = {}
    /\ next = 1
    /\ pc = [p \in Procs |-> "idle"]
    /\ mode = [p \in Procs |-> "none"]
    /\ key = [p \in Procs |-> 1]
    /\ man = [p \in Procs |-> NoManifest]
    /\ read = [p \in Procs |-> <<>>]
    /\ owner = [p \in Procs |-> Nobody]

shared == <<rev, repo, cached, pending, expired, next>>
locals == <<mode, key, man, read, owner>>

Goto(p, l) == pc' = [pc EXCEPT ![p] = l]

Hold(p, m) == man' = [man EXCEPT ![p] = m]

\* The call returns; a goroutine's locals end with its call.
Return(p) ==
    /\ Goto(p, "idle")
    /\ mode' = [mode EXCEPT ![p] = "none"]
    /\ key' = [key EXCEPT ![p] = 1]
    /\ Hold(p, NoManifest)
    /\ read' = [read EXCEPT ![p] = <<>>]
    /\ owner' = [owner EXCEPT ![p] = Nobody]

-----------------------------------------------------------------------------
(***************************************************************************)
(* A request, up to the manager.                                           *)
(***************************************************************************)
publishedCatalogContents(p) ==
    /\ pc[p] = "idle"
    /\ Goto(p, "warm")
    /\ mode' = [mode EXCEPT ![p] = "warm"]
    /\ key' = [key EXCEPT ![p] = rev]
    /\ UNCHANGED <<shared, man, read, owner>>

\* Mutant: Warm ignores a publication that is pending for its key.
Warm_IgnoresPending(p) ==
    LET m == managerOf[p]
        k == key[p]
    IN /\ pc[p] = "warm"
       /\ IF usable(cached[m][k])
          THEN Goto(p, "check") /\ Hold(p, cached[m][k]) /\ UNCHANGED <<pending, owner>>
          ELSE Goto(p, "lookup") /\ pending' = [pending EXCEPT ![m][k] = p] /\ UNCHANGED <<man, owner>>
       /\ UNCHANGED <<rev, repo, cached, expired, next, mode, key, read>>

\* The locked section that opens Warm.
Warm(p) ==
    LET m == managerOf[p]
        k == key[p]
    IN /\ pc[p] = "warm"
       /\ \/ /\ usable(cached[m][k])
             /\ Goto(p, "check")
             /\ Hold(p, cached[m][k])
             /\ UNCHANGED <<pending, owner>>
          \/ /\ ~usable(cached[m][k])
             /\ pending[m][k] # Nobody
             /\ Goto(p, "wait")
             /\ owner' = [owner EXCEPT ![p] = pending[m][k]]
             /\ UNCHANGED <<pending, man>>
          \/ /\ ~usable(cached[m][k])
             /\ pending[m][k] = Nobody
             /\ Goto(p, "lookup")
             /\ pending' = [pending EXCEPT ![m][k] = p]
             /\ UNCHANGED <<man, owner>>
       /\ UNCHANGED <<rev, repo, cached, expired, next, mode, key, read>>

-----------------------------------------------------------------------------
(***************************************************************************)
(* recoverOrPublish, which runs without the manager's lock.                *)
(***************************************************************************)
Lookup(p) ==
    LET existing == repo[key[p]]
    IN /\ pc[p] = "lookup"
       /\ Hold(p, existing)
       /\ Goto(p, IF existing = NoManifest THEN "build"
                  ELSE IF Renewable /\ ~usable(existing) THEN "renew"
                  ELSE "validate")
       /\ UNCHANGED <<shared, mode, key, read, owner>>

\* What recoverOrPublish does with the manifest Renew returned.
Renewed(p, renewed) ==
    \/ /\ renewed = NoManifest
       /\ Goto(p, "validate")
       /\ UNCHANGED man
    \/ /\ renewed # NoManifest
       /\ checkPublicationRenewal(man[p], renewed)
       /\ Goto(p, "validate")
       /\ Hold(p, renewed)
    \/ /\ renewed # NoManifest
       /\ ~checkPublicationRenewal(man[p], renewed)
       /\ Goto(p, "abort")
       /\ UNCHANGED man

\* The Get that opens the S3 repository's Renew.
Renew(p) ==
    LET current == repo[key[p]]
    IN /\ pc[p] = "renew"
       /\ \/ /\ current # NoManifest
             /\ current.id = man[p].id
             /\ Goto(p, "putrenewed")
             /\ UNCHANGED man
          \/ /\ current = NoManifest \/ current.id # man[p].id
             /\ Renewed(p, current)
       /\ UNCHANGED <<shared, mode, key, read, owner>>

\* PutIfMatch replaces exactly the manifest that was read.
PutIfMatch(p) ==
    LET after == [man[p] EXCEPT !.id = next]
    IN /\ pc[p] = "putrenewed"
       /\ \/ /\ repo[key[p]] = man[p]
             /\ next <= MaxManifests
             /\ next' = next + 1
             /\ repo' = [repo EXCEPT ![key[p]] = after]
             /\ Hold(p, after)
             /\ Goto(p, "validate")
          \/ /\ repo[key[p]] # man[p]
             /\ Goto(p, "renewlost")
             /\ UNCHANGED <<repo, man, next>>
       /\ UNCHANGED <<rev, cached, pending, expired, mode, key, read, owner>>

RenewLost(p) ==
    /\ pc[p] = "renewlost"
    /\ Renewed(p, repo[key[p]])
    /\ UNCHANGED <<shared, mode, key, read, owner>>

\* A recovered manifest is invalidated when it has expired, and whenever its object
\* cannot be fetched or is not what the manifest says.
validate(p) ==
    /\ pc[p] = "validate"
    /\ \/ usable(man[p]) /\ Goto(p, "finish")
       \/ Goto(p, "drop")
    /\ UNCHANGED <<shared, locals>>

\* Mutant: invalidation does not compare the manifest id.
InvalidateIfMatch_Unconditional(k, m) == repo' = [repo EXCEPT ![k] = NoManifest]

\* The repository removes a manifest only while it is still the one named.
InvalidateIfMatch(k, m) ==
    repo' = IF repo[k].id = m.id THEN [repo EXCEPT ![k] = NoManifest] ELSE repo

Drop(p) ==
    /\ pc[p] = "drop"
    /\ InvalidateIfMatch(key[p], man[p])
    /\ Goto(p, "build")
    /\ Hold(p, NoManifest)
    /\ UNCHANGED <<rev, cached, pending, expired, next, mode, key, read, owner>>

\* catalogContentsResponse reads one part of the catalog as it is now.
Build(p) ==
    /\ pc[p] = "build"
    /\ read' = [read EXCEPT ![p] = Append(@, rev)]
    /\ Goto(p, IF Len(read[p]) + 1 = Parts THEN "buildcheck" ELSE "build")
    /\ UNCHANGED <<shared, mode, key, man, owner>>

\* Mutant: the build does not check the identity once it has the contents.
checkIdentity_Skipped(p) == TRUE

\* The catalog still has the identity the call started from.
checkIdentity(p) == rev = key[p]

BuildCheck(p) ==
    /\ pc[p] = "buildcheck"
    /\ Goto(p, IF ~checkIdentity(p) THEN "abort"
               ELSE IF mode[p] = "ordinary" THEN "served"
               ELSE "upload")
    /\ UNCHANGED <<shared, locals>>

\* The object is uploaded and the new manifest validated by reading it back.
Upload(p) ==
    /\ pc[p] = "upload"
    /\ next <= MaxManifests
    /\ next' = next + 1
    /\ Hold(p, [id |-> next, key |-> key[p], object |-> next, contents |-> read[p]])
    /\ Goto(p, "commit")
    /\ UNCHANGED <<rev, repo, cached, pending, expired, mode, key, read, owner>>

CommitIfAbsent(p) ==
    /\ pc[p] = "commit"
    /\ \/ /\ repo[key[p]] = NoManifest
          /\ repo' = [repo EXCEPT ![key[p]] = man[p]]
          /\ Goto(p, "finish")
       \/ /\ repo[key[p]] # NoManifest
          /\ Goto(p, "winner")
          /\ UNCHANGED repo
    /\ UNCHANGED <<rev, cached, pending, expired, next, locals>>

\* The winner of a lost commit is looked up and validated in its turn.
Winner(p) ==
    LET winner == repo[key[p]]
    IN /\ pc[p] = "winner"
       /\ Hold(p, winner)
       /\ Goto(p, IF usable(winner) THEN "finish" ELSE "abort")
       /\ UNCHANGED <<shared, mode, key, read, owner>>

\* A call of the repository, the storage or the collection returns an error.
Fail(p) ==
    /\ pc[p] \in Publishing \ {"validate", "finish", "abort"}
    /\ Goto(p, "abort")
    /\ UNCHANGED <<shared, locals>>

-----------------------------------------------------------------------------
(***************************************************************************)
(* The locked section that closes Warm: remember the manifest, remove the  *)
(* pending publication and release the goroutines waiting for it.          *)
(***************************************************************************)
CachedKeys(m) == {k \in Keys : cached[m][k] # NoManifest}

\* A full cache drops one entry, whichever the map yields first.
remember(m, manifest) ==
    IF Cardinality(CachedKeys(m)) >= CacheLimit
    THEN \E k \in CachedKeys(m) :
           cached' = [cached EXCEPT ![m] = [@ EXCEPT ![k] = NoManifest, ![manifest.key] = manifest]]
    ELSE cached' = [cached EXCEPT ![m][manifest.key] = manifest]

Waiters(p) == {q \in Procs : pc[q] \in {"wait", "invwait"} /\ owner[q] = p}

\* delete(m.pending, key) and close(p.done): everyone gets p's result.
Release(p, l) ==
    LET freed == Waiters(p)
    IN /\ pending' = [pending EXCEPT ![managerOf[p]][key[p]] = Nobody]
       /\ pc' = [q \in Procs |-> IF q = p THEN l
                                 ELSE IF q \notin freed THEN pc[q]
                                 ELSE IF pc[q] = "invwait" THEN "invcache" ELSE l]
       /\ man' = [q \in Procs |-> IF q \in freed /\ pc[q] = "wait" THEN man[p] ELSE man[q]]
       /\ owner' = [q \in Procs |-> IF q \in freed THEN Nobody ELSE owner[q]]

FinishWarm(p) ==
    /\ mode[p] = "warm"
    /\ \/ /\ pc[p] = "finish"
          /\ remember(managerOf[p], man[p])
          /\ Release(p, "check")
       \/ /\ pc[p] = "abort"
          /\ Release(p, "failed")
          /\ UNCHANGED cached
    /\ UNCHANGED <<rev, repo, expired, next, mode, key, read>>

\* A failed publication is an error, or falls back to the ordinary contents.
PublicationFailure(p) ==
    /\ pc[p] = "failed"
    /\ \/ /\ ordinary
          /\ Goto(p, "build")
          /\ mode' = [mode EXCEPT ![p] = "ordinary"]
          /\ Hold(p, NoManifest)
          /\ read' = [read EXCEPT ![p] = <<>>]
          /\ UNCHANGED <<key, owner>>
       \/ /\ ~ordinary
          /\ Return(p)
    /\ UNCHANGED shared

\* The ordinary fallback failed too.
AbortOrdinary(p) ==
    /\ pc[p] = "abort"
    /\ mode[p] \in {"ordinary", "import"}
    /\ Return(p)
    /\ UNCHANGED shared

\* The last check before the reference is handed out.
Check(p) ==
    /\ pc[p] = "check"
    /\ \/ checkIdentity(p) /\ Goto(p, "served") /\ UNCHANGED locals
       \/ ~checkIdentity(p) /\ Return(p)
    /\ UNCHANGED shared

Reply(p) ==
    /\ pc[p] = "served"
    /\ Return(p)
    /\ UNCHANGED shared

-----------------------------------------------------------------------------
(***************************************************************************)
(* Import of a manifest made elsewhere for key k, already validated.       *)
(***************************************************************************)
Import(p) ==
    \E k \in 1..rev :
    /\ pc[p] = "idle"
    /\ next <= MaxManifests
    /\ next' = next + 1
    /\ mode' = [mode EXCEPT ![p] = "import"]
    /\ key' = [key EXCEPT ![p] = k]
    /\ Hold(p, [id |-> next, key |-> k, object |-> next, contents |-> [i \in 1..Parts |-> k]])
    /\ Goto(p, "commit")
    /\ UNCHANGED <<rev, repo, cached, pending, expired, read, owner>>

FinishImport(p) ==
    /\ pc[p] = "finish"
    /\ mode[p] = "import"
    /\ remember(managerOf[p], man[p])
    /\ Return(p)
    /\ UNCHANGED <<rev, repo, pending, expired, next>>

(***************************************************************************)
(* Invalidate: wait for the publication pending now, forget the cached     *)
(* manifest, then look the durable one up and remove it if it is still     *)
(* there.                                                                  *)
(***************************************************************************)
Invalidate(p) ==
    \E k \in 1..rev :
    LET busy == pending[managerOf[p]][k]
    IN /\ pc[p] = "idle"
       /\ mode' = [mode EXCEPT ![p] = "invalidate"]
       /\ key' = [key EXCEPT ![p] = k]
       /\ owner' = [owner EXCEPT ![p] = busy]
       /\ Goto(p, IF busy = Nobody THEN "invcache" ELSE "invwait")
       /\ UNCHANGED <<shared, man, read>>

InvalidateCache(p) ==
    /\ pc[p] = "invcache"
    /\ cached' = [cached EXCEPT ![managerOf[p]][key[p]] = NoManifest]
    /\ Goto(p, "invlookup")
    /\ UNCHANGED <<rev, repo, pending, expired, next, locals>>

InvalidateLookup(p) ==
    /\ pc[p] = "invlookup"
    /\ \/ /\ repo[key[p]] = NoManifest
          /\ Return(p)
       \/ /\ repo[key[p]] # NoManifest
          /\ Hold(p, repo[key[p]])
          /\ Goto(p, "invremove")
          /\ UNCHANGED <<mode, key, read, owner>>
    /\ UNCHANGED shared

InvalidateRemove(p) ==
    /\ pc[p] = "invremove"
    /\ InvalidateIfMatch(key[p], man[p])
    /\ Return(p)
    /\ UNCHANGED <<rev, cached, pending, expired, next>>

-----------------------------------------------------------------------------
(***************************************************************************)
(* The environment.                                                        *)
(***************************************************************************)
ChangeCatalog ==
    /\ rev < MaxRevision
    /\ rev' = rev + 1
    /\ UNCHANGED <<repo, cached, pending, expired, next, pc, locals>>

Expire ==
    /\ \E id \in (1..(next - 1)) \ expired : expired' = expired \cup {id}
    /\ UNCHANGED <<rev, repo, cached, pending, next, pc, locals>>

\* A worker process dies with its cache, its pending table and its calls.
Crash(m) ==
    LET lost == {p \in Procs : managerOf[p] = m}
    IN /\ cached' = [cached EXCEPT ![m] = [k \in Keys |-> NoManifest]]
       /\ pending' = [pending EXCEPT ![m] = [k \in Keys |-> Nobody]]
       /\ pc' = [p \in Procs |-> IF p \in lost THEN "idle" ELSE pc[p]]
       /\ mode' = [p \in Procs |-> IF p \in lost THEN "none" ELSE mode[p]]
       /\ key' = [p \in Procs |-> IF p \in lost THEN 1 ELSE key[p]]
       /\ man' = [p \in Procs |-> IF p \in lost THEN NoManifest ELSE man[p]]
       /\ read' = [p \in Procs |-> IF p \in lost THEN <<>> ELSE read[p]]
       /\ owner' = [p \in Procs |-> IF p \in lost THEN Nobody ELSE owner[p]]
       /\ UNCHANGED <<rev, repo, expired, next>>

\* The steps of a call once it has begun.
Step(p) ==
    \/ Warm(p) \/ Lookup(p) \/ Renew(p) \/ PutIfMatch(p) \/ RenewLost(p)
    \/ validate(p) \/ Drop(p) \/ Build(p) \/ BuildCheck(p) \/ Upload(p)
    \/ CommitIfAbsent(p) \/ Winner(p) \/ Fail(p) \/ FinishWarm(p)
    \/ PublicationFailure(p) \/ AbortOrdinary(p) \/ Check(p) \/ Reply(p)
    \/ FinishImport(p) \/ InvalidateCache(p) \/ InvalidateLookup(p)
    \/ InvalidateRemove(p)

Call(p) == publishedCatalogContents(p) \/ Import(p) \/ Invalidate(p)

Next ==
    /\ \/ \E p \in Procs : Call(p) \/ Step(p)
       \/ \E m \in Managers : Crash(m)
       \/ ChangeCatalog
       \/ Expire
    /\ UNCHANGED <<managerOf, ordinary>>

Spec == Init /\ [][Next]_vars

-----------------------------------------------------------------------------
\* What a snapshot of revision k must hold: every part as of revision k.
Whole(m) == m # NoManifest => m.contents = [i \in 1..Parts |-> m.key]

(***************************************************************************)
(* The catalog may change while publishedCatalogContents collects it, yet  *)
(* no manifest that is durable or cached, and no contents or manifest a    *)
(* caller is answered with, mixes revisions or holds a revision other than *)
(* the one its key names.                                                  *)
(***************************************************************************)
PublishedWhole ==
    /\ \A k \in Keys : Whole(repo[k]) /\ repo[k].key \in {0, k}
    /\ \A m \in Managers, k \in Keys : Whole(cached[m][k]) /\ cached[m][k].key \in {0, k}
    /\ \A p \in Procs : pc[p] = "served" =>
          IF mode[p] = "ordinary" THEN read[p] = [i \in 1..Parts |-> key[p]]
          ELSE Whole(man[p]) /\ man[p].key = key[p]

(***************************************************************************)
(* Warm builds a key once per manager: the pending table names exactly the *)
(* goroutines inside recoverOrPublish, so two of them never publish one    *)
(* key, and whoever waits waits for a goroutine that is still at it.       *)
(* And remember keeps the cache within MaxCachedManifests.                 *)
(***************************************************************************)
PendingOwned ==
    /\ \A p \in Procs :
          mode[p] = "warm" /\ pc[p] \in Publishing <=> pending[managerOf[p]][key[p]] = p
    /\ \A p \in Procs : pc[p] \in {"wait", "invwait"} =>
          pending[managerOf[p]][key[p]] = owner[p] /\ owner[p] # Nobody
    /\ \A m \in Managers : Cardinality(CachedKeys(m)) <= CacheLimit

(***************************************************************************)
(* A durable manifest disappears only at the hands of a goroutine that saw *)
(* this very manifest, and is replaced only by its own renewal: no stale   *)
(* Invalidate and no commit destroys a concurrent publication.             *)
(***************************************************************************)
NoLostPublication ==
    [][\A k \in Keys :
         repo[k] # NoManifest /\ repo'[k] # repo[k] =>
           \/ repo'[k] = NoManifest /\ \E p \in Procs : key[p] = k /\ man[p] = repo[k]
           \/ repo'[k] # NoManifest /\ repo'[k].object = repo[k].object]_vars
=============================================================================
