------------------------------ MODULE AzureBlob ------------------------------
(***************************************************************************)
(* The Azure Blob front door on the shared namespace: containers and their *)
(* delayed deletion, blobs, leases, immutability policies, legal holds,    *)
(* snapshots, versions, append and page blobs, and staged blocks.          *)
(*                                                                         *)
(* A request is described by the lease id it carries and by its condition  *)
(* header; a create-only SAS acts as the condition "missing".              *)
(***************************************************************************)
EXTENDS Namespace

CONSTANT BlockIds       \* block identities of one length

VARIABLE blocks         \* staged and committed blocks of every blob

Leases == LeaseIds \cup {NoLease}

(***************************************************************************)
(* Staged blocks of a blob, as the process holds them and as they are on   *)
(* disk.  A session maps block ids to payload items (0: none).  Memory is  *)
(* an optional value: <<>> says that the disk must be asked.               *)
(***************************************************************************)
EmptySession == [i \in BlockIds |-> 0]
Unloaded == <<>>

NoBlocks == [mem |-> Unloaded, disk |-> EmptySession,
             listMem |-> Unloaded, listDisk |-> <<>>, items |-> {}]

\* load_block_session and load_committed_blocks.
Session(s) == IF s.mem = Unloaded THEN s.disk ELSE s.mem[1]
Committed(s) == IF s.listMem = Unloaded THEN s.listDisk ELSE s.listMem[1]
ItemsOfList(list) == {list[i].item : i \in DOMAIN list}
ItemsOfSession(session) == {session[i] : i \in BlockIds} \ {0}

\* Not the code: the payloads go first
PayloadsFirst(s, n) ==
    [mem |-> Unloaded, disk |-> IF n >= 2 THEN EmptySession ELSE s.disk,
     listMem |-> Unloaded, listDisk |-> IF n >= 3 THEN <<>> ELSE s.listDisk,
     items |-> IF n >= 1 THEN {} ELSE s.items]

\* clear_block_upload_state: memory first, then three durable deletions of
\* which n are done.
ClearedBlocks(s, n) ==
    [mem |-> Unloaded, disk |-> IF n >= 1 THEN EmptySession ELSE s.disk,
     listMem |-> Unloaded, listDisk |-> IF n >= 2 THEN <<>> ELSE s.listDisk,
     items |-> IF n >= 3 THEN {} ELSE s.items]

(***************************************************************************)
(* Admission.                                                              *)
(***************************************************************************)
\* azure_history_conflict: another provider's history owns the namespace.
AzureConflict(b) ==
    \/ S3HistoryMode(b) \/ GcsHistoryMode(b)
    \/ b.ver = "enabled" /\ ~AzureHistoryMode(b)

\* Not the code: a request without a lease id is let through
LeaseOptional(o, lease) == lease = NoLease \/ o.lease = NoLease \/ o.lease = lease

\* ensure_lease_allows
LeaseAllows(o, lease) == o.lease = NoLease \/ o.lease = lease

\* ensure_mutation_allowed
MutationAllowed(o, lease) == ~AzureImmutable(o) /\ LeaseAllows(o, lease)

\* Not the code: a versioned bucket is taken for one whose history Azure owns
OverwriteAnyHistory(b, o, lease) ==
    LeaseAllows(o, lease) /\ (AzureImmutable(o) => b.ver = "enabled" \/ (b.ver = "suspended" /\ o.vid # NullVid))

\* ensure_version_creating_overwrite_allowed
OverwriteAllowed(b, o, lease) ==
    LeaseAllows(o, lease) /\ (AzureImmutable(o) => b.azVersioning /\ b.ver = "enabled")

\* Not the code: only the current blobs are asked
CurrentImmutable(b) == \E o \in Current(b) : AzureImmutable(o)

\* container_has_immutable_blob: current objects, snapshots and versions.
ContainerImmutable(b) == \E o \in Stored(b) : AzureImmutable(o)

(***************************************************************************)
(* Pending deletion of the container.  Every request resolves it first.    *)
(***************************************************************************)
Due == deletion # NoDeletion /\ deletion <= now

\* purge_container, key by key: versioning is suspended, then the current
\* objects go, then the versions, then the bucket.
PurgedCurrent(done) ==
    LET b == SetVersioning(bucket, "suspended")
    IN DeleteAll(b, {k \in done : b.cur[k].g # 0}, writes + 1)

\* The versions of all keys go in the order of their random identities; each
\* delete_object_version may make an older generation of its key current again.
PurgedVersions ==
    LET b == PurgedCurrent(Keys)
        versioned == {k \in Keys : b.hist[k] # {}}
        After(k) == UNION {DeleteVersions(b, k, vids) : vids \in SUBSET {o.vid : o \in b.hist[k]}}
        Afters == {f \in [versioned -> UNION {After(k) : k \in versioned}] :
                     \A k \in versioned : f[k] \in After(k)}
    IN {[b EXCEPT !.cur = [k \in Keys |-> IF k \in versioned THEN f[k].cur[k] ELSE b.cur[k]],
                  !.hist = [k \in Keys |-> IF k \in versioned THEN f[k].hist[k] ELSE {}]] : f \in Afters}

\* purge_container, up to an error on the way.  An upload of another front door
\* makes delete_namespace fail after everything is gone.
Purge ==
    /\ \/ /\ bucket' \in {PurgedCurrent(done) : done \in SUBSET Keys} \cup PurgedVersions
          /\ UNCHANGED deletion
       \/ /\ bucket.uploads = {}
          /\ bucket' = NoBucket
          /\ deletion' \in {deletion, NoDeletion}
    /\ Uses(1)

\* A deletion that is due is abandoned when the container holds protected data.
Abandoned == deletion' = NoDeletion /\ UNCHANGED <<bucket, writes>>

\* resolve_container_deletion lets a request through to its handler when no
\* deletion is recorded, or when the one that is due was abandoned.
Resolved == deletion # NoDeletion => Due /\ ContainerImmutable(bucket)

\* A read, or a request refused by its handler: only what
\* finish_expired_container_deletion does on the way shows.
AzureRead ==
    /\ Asked("container")
    /\ Due /\ bucket.exists
    /\ IF ContainerImmutable(bucket) THEN Abandoned ELSE Purge
    /\ By("azure", NoLease)
    /\ UNCHANGED <<now, scene, blocks>>

(***************************************************************************)
(* Containers.                                                             *)
(***************************************************************************)
\* create_container; a failure after the first write is rolled back unless the
\* process dies.  A purge that has just finished leaves the name free.
CreateContainer ==
    /\ Asked("container") \/ bucket = NoBucket
    /\ \E versioning, soft \in BOOLEAN :
         LET claims == versioning \/ soft
             enabled == SetVersioning(EmptyBucket, "enabled")
             claimed == [enabled EXCEPT !.azVersioning = versioning, !.azSoft = soft]
         IN /\ claims => Asked("azHistory")
            /\ \/ Resolved /\ ~bucket.exists
               \/ Due /\ bucket.exists /\ bucket.uploads = {} /\ ~ContainerImmutable(bucket)
            /\ Serve("azure", NoLease,
                     IF claims THEN <<EmptyBucket, enabled, claimed>> ELSE <<EmptyBucket>>)
    /\ deletion' = NoDeletion
    /\ UNCHANGED <<now, writes, scene, blocks>>

\* DELETE container: only a record of the time after which it is purged.
DeleteContainer ==
    /\ Asked("container")
    /\ Resolved
    /\ bucket.exists /\ ~AzureConflict(bucket) /\ ~ContainerImmutable(bucket)
    /\ \E delay \in 0 .. 1 : deletion' = now + delay
    /\ By("azure", NoLease)
    /\ UNCHANGED <<bucket, now, writes, scene, blocks>>

(***************************************************************************)
(* Blobs.  A PUT or DELETE on a blob passes AzureBlobRequest first.        *)
(***************************************************************************)
AzureBlobRequest ==
    /\ Resolved
    /\ bucket.exists /\ ~AzureConflict(bucket)
    /\ deletion' = NoDeletion
    /\ UNCHANGED <<now, scene>>

\* Lease, hold and policy requests rewrite the metadata of the generation.
Rewrite(k, lease, o) ==
    /\ Serve("azure", lease, <<Touch(bucket, k, o)>>)
    /\ UNCHANGED <<writes, blocks>>

AcquireLease ==
    /\ Asked("lease")
    /\ AzureBlobRequest
    /\ \E k \in Names, id \in LeaseIds, cond \in Conditions :
         /\ Has(bucket, k) /\ Holds(cond, TRUE)
         /\ bucket.cur[k].lease = NoLease
         /\ Rewrite(k, id, [bucket.cur[k] EXCEPT !.lease = id])

ReleaseLease ==
    /\ Asked("lease")
    /\ AzureBlobRequest
    /\ \E k \in Names, id \in Leases, cond \in Conditions :
         /\ Has(bucket, k) /\ Holds(cond, TRUE)
         /\ LeaseAllows(bucket.cur[k], id)
         /\ Rewrite(k, id, [bucket.cur[k] EXCEPT !.lease = NoLease])

\* Breaking needs no lease id; a renewal writes the same metadata back.
BreakLease ==
    /\ Asked("lease")
    /\ AzureBlobRequest
    /\ \E k \in Names, cond \in Conditions :
         /\ Has(bucket, k) /\ Holds(cond, TRUE)
         /\ bucket.cur[k].lease # NoLease
         /\ Rewrite(k, NoLease, [bucket.cur[k] EXCEPT !.lease = NoLease])

PutPolicy ==
    /\ Asked("worm")
    /\ AzureBlobRequest
    /\ \E k \in Names, mode \in {"unlocked", "locked"}, until \in now + 1 .. MaxTime + 1 :
         LET o == bucket.cur[k]
         IN /\ Has(bucket, k)
            /\ o.policy = "locked" => mode = "locked" /\ until >= o.until
            /\ Rewrite(k, NoLease, [o EXCEPT !.policy = mode, !.until = until])

DeletePolicy ==
    /\ Asked("worm")
    /\ AzureBlobRequest
    /\ \E k \in Names :
         /\ Has(bucket, k) /\ bucket.cur[k].policy # "locked"
         /\ Rewrite(k, NoLease, [bucket.cur[k] EXCEPT !.policy = "none", !.until = 0])

PutLegalHold ==
    /\ Asked("worm")
    /\ AzureBlobRequest
    /\ \E k \in Names, on \in BOOLEAN :
         /\ Has(bucket, k)
         /\ Rewrite(k, NoLease, [bucket.cur[k] EXCEPT !.hold = on])

\* create_snapshot: a copy under the reserved key.  It keeps the hold and the
\* policy of the blob and drops its lease.
CreateSnapshot ==
    /\ Asked("snapshot")
    /\ AzureBlobRequest
    /\ \E k \in Names, lease \in Leases, renamed \in BOOLEAN :
         /\ Has(bucket, k) /\ LeaseAllows(bucket.cur[k], lease)
         /\ \E s \in SnapsOf(k) :
              LET o == bucket.cur[k]
                  copy == [o EXCEPT !.g = writes + 1, !.lease = NoLease,
                                    !.at = IF renamed THEN now ELSE o.at]
              IN /\ bucket.cur[s].g = 0 /\ bucket.hist[s] = {}
                 /\ Serve("azure", lease, <<Put(bucket, s, copy)>>)
    /\ Uses(1) /\ UNCHANGED blocks

\* update_metadata, append_block and put_page write the blob again, with the
\* metadata it has.
Again(k, lease, o) ==
    /\ Has(bucket, k) /\ MutationAllowed(bucket.cur[k], lease)
    /\ Serve("azure", lease, <<Put(bucket, k, [o EXCEPT !.g = writes + 1, !.at = now])>>)
    /\ Uses(1) /\ UNCHANGED blocks

\* update_metadata replaces the user metadata, where GCS keeps its numbers.
UpdateMetadata ==
    /\ Asked("modify")
    /\ AzureBlobRequest
    /\ \E k \in Names, lease \in Leases : Again(k, lease, [bucket.cur[k] EXCEPT !.gen = 0, !.meta = 0])

AppendBlock ==
    /\ Asked("modify")
    /\ AzureBlobRequest
    /\ \E k \in Names, lease \in Leases :
         bucket.cur[k].kind = "append" /\ Again(k, lease, bucket.cur[k])

PutPage ==
    /\ Asked("modify")
    /\ AzureBlobRequest
    /\ \E k \in Names, lease \in Leases :
         bucket.cur[k].kind = "page" /\ Again(k, lease, bucket.cur[k])

\* validate_blob_create_request: the blob types that a PUT may create.
BlobTypes == {t \in {"block", "append", "page"} : t # "block" => Asked("modify")}

\* put_blob: new bytes, no hold and no policy; an active lease stays.  The
\* staged blocks are cleared after the blob is published.
PutBlob ==
    /\ AzureBlobRequest
    /\ \E k \in Names, lease \in Leases, cond \in Conditions, kind \in BlobTypes, cleared \in 0 .. 3 :
         LET o == bucket.cur[k]
         IN /\ Holds(cond, Has(bucket, k))
            /\ Has(bucket, k) => OverwriteAllowed(bucket, o, lease)
            /\ Serve("azure", lease,
                     <<Put(bucket, k, [Fresh(writes + 1) EXCEPT !.lease = o.lease, !.kind = kind])>>)
            /\ blocks' = [blocks EXCEPT ![k] = ClearedBlocks(@, cleared)]
    /\ Uses(1)

\* delete_snapshots, up to an error on the way.
WithoutSnapshots(b, gone) == DeleteAll(b, gone, writes + 1)

\* delete_blob of the current blob.  Its snapshots must be included, or go
\* alone ("only"); neither case asks for the snapshots' own protection.
DeleteBlob ==
    /\ Asked("delete")
    /\ AzureBlobRequest
    /\ \E k \in Names, lease \in Leases, cond \in Conditions,
          mode \in {"none", "include", "only"} :
         LET snaps == {s \in SnapsOf(k) : bucket.cur[s].g # 0}
             base == IF mode = "only" THEN bucket ELSE Delete(bucket, k, writes + 1)
         IN /\ Has(bucket, k) /\ MutationAllowed(bucket.cur[k], lease)
            /\ snaps # {} => mode # "none"
            /\ Holds(cond, TRUE)
            /\ \/ \E gone \in SUBSET snaps :
                    /\ bucket' = WithoutSnapshots(base, gone)
                    /\ UNCHANGED blocks
               \/ /\ mode # "only"
                  /\ bucket' = WithoutSnapshots(base, snaps)
                  /\ \E n \in 0 .. 3 : blocks' = [blocks EXCEPT ![k] = ClearedBlocks(@, n)]
            /\ By("azure", lease)
    /\ Uses(1)

DeleteSnapshot ==
    /\ Asked("delete")
    /\ AzureBlobRequest
    /\ \E s \in UNION {SnapsOf(k) : k \in Names}, lease \in Leases :
         /\ Has(bucket, s) /\ MutationAllowed(bucket.cur[s], lease)
         /\ Serve("azure", lease, <<Delete(bucket, s, writes + 1)>>)
    /\ Uses(1) /\ UNCHANGED blocks

AzureDeleteVersion ==
    /\ Asked("delete")
    /\ AzureBlobRequest
    /\ \E k \in Names, lease \in Leases :
         \E v \in VersionsOf(bucket, k) :
           /\ MutationAllowed(v, lease)
           /\ bucket' \in DeleteVersion(bucket, k, v.vid)
           /\ By("azure", lease)
    /\ UNCHANGED <<writes, blocks>>

(***************************************************************************)
(* Blocks.                                                                 *)
(***************************************************************************)
\* put_block: the payload is staged, then the session is saved, then memory
\* follows.
PutBlock ==
    /\ Asked("block")
    /\ AzureBlobRequest
    /\ \E k \in Names, lease \in Leases, cond \in Conditions, id \in BlockIds :
         LET s == blocks[k]
             session == [Session(s) EXCEPT ![id] = writes + 1]
             staged == [s EXCEPT !.items = @ \cup {writes + 1}]
             saved == [staged EXCEPT !.disk = session]
             held == [saved EXCEPT !.mem = <<session>>]
         IN /\ Has(bucket, k) => LeaseAllows(bucket.cur[k], lease) /\ bucket.cur[k].kind = "block"
            /\ Holds(cond, Has(bucket, k))
            /\ \E step \in {staged, saved, held} : blocks' = [blocks EXCEPT ![k] = step]
            /\ By("azure", lease)
    /\ Uses(1) /\ UNCHANGED bucket

\* parse_block_list: ids and selectors in order, perhaps none.  A repeated id has
\* one selector.
BlockReferences ==
    {ref \in UNION {[1 .. n -> [id : BlockIds, selector : {"latest", "uncommitted", "committed"}]] : n \in 0 .. 2} :
       \A i, j \in DOMAIN ref : ref[i].id = ref[j].id => ref[i].selector = ref[j].selector}

\* The block that a selector finds for an id.
Resolve(s, id, selector) ==
    LET staged == Session(s)[id]
        old == {e \in {Committed(s)[i] : i \in DOMAIN Committed(s)} : e.id = id}
    IN IF selector # "committed" /\ staged # 0
       THEN {[id |-> id, item |-> staged]}
       ELSE IF selector # "uncommitted" THEN old ELSE {}

\* record_committed_block_session, up to an error on the way: the committed
\* list in memory and on disk, then the remaining session (an empty one leaves
\* memory before the disk, another one reaches the disk first), then the items.
Recorded(s, list, rest) ==
    LET listed == [s EXCEPT !.listMem = <<list>>]
        saved == [listed EXCEPT !.listDisk = list]
        halfway == IF rest = EmptySession THEN [saved EXCEPT !.mem = Unloaded]
                                          ELSE [saved EXCEPT !.disk = rest]
        moved == [saved EXCEPT !.disk = rest,
                               !.mem = IF rest = EmptySession THEN Unloaded ELSE <<rest>>]
    IN {s, listed, saved, halfway, moved,
        [moved EXCEPT !.items = ItemsOfList(list) \cup ItemsOfSession(rest)]}

\* put_block_list: the blob is composed from the payload items and published,
\* then the block lists are recorded.
PutBlockList ==
    /\ Asked("block")
    /\ AzureBlobRequest
    /\ \E k \in Names, lease \in Leases, cond \in Conditions, ref \in BlockReferences :
         LET s == blocks[k]
             o == bucket.cur[k]
             found == [i \in DOMAIN ref |-> Resolve(s, ref[i].id, ref[i].selector)]
             list == [i \in DOMAIN ref |-> CHOOSE e \in found[i] : TRUE]
             used == {ref[i].id : i \in {j \in DOMAIN ref : ref[j].selector # "committed"}}
             rest == [id \in BlockIds |-> IF id \in used THEN 0 ELSE Session(s)[id]]
         IN /\ Has(bucket, k) => OverwriteAllowed(bucket, o, lease) /\ o.kind = "block"
            /\ Holds(cond, Has(bucket, k))
            /\ \A i \in DOMAIN found : found[i] # {}
            /\ Serve("azure", lease, <<Put(bucket, k, [Fresh(writes + 1) EXCEPT !.lease = o.lease])>>)
            /\ \E step \in Recorded(s, list, rest) : blocks' = [blocks EXCEPT ![k] = step]
    /\ Uses(1)

\* The process restarts: what it held in memory is gone.
AzureRestart ==
    /\ Asked("block")
    /\ blocks' = [k \in Blobs |-> [blocks[k] EXCEPT !.mem = Unloaded, !.listMem = Unloaded]]
    /\ By("clock", NoLease)
    /\ UNCHANGED <<bucket, deletion, now, writes, scene>>

AzureInit == blocks = [k \in Blobs |-> NoBlocks]

AzureNext ==
    \/ CreateContainer \/ DeleteContainer \/ AzureRead
    \/ AcquireLease \/ ReleaseLease \/ BreakLease
    \/ PutPolicy \/ DeletePolicy \/ PutLegalHold
    \/ CreateSnapshot \/ UpdateMetadata \/ AppendBlock \/ PutPage \/ PutBlob
    \/ DeleteBlob \/ DeleteSnapshot \/ AzureDeleteVersion
    \/ PutBlock \/ PutBlockList \/ AzureRestart
=============================================================================
