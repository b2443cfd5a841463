----------------------------- MODULE FrontDoors -----------------------------
(***************************************************************************)
(* The four provider front doors and the housekeeping on one bucket name.  *)
(* Each behaviour draws its requests from one scene, a set of request      *)
(* kinds: the doors that interact in it.                                   *)
(***************************************************************************)
EXTENDS AzureBlob, S3Objects, GcsObjects, OciObjects, Housekeeping

vars == <<nsvars, blocks, ocivars, pending>>

Init == NamespaceInit /\ AzureInit /\ OciInit /\ HousekeepingInit

Next ==
    \/ AzureNext /\ UNCHANGED <<ocivars, pending>>
    \/ S3Next /\ UNCHANGED <<blocks, ocivars, pending>>
    \/ GcsNext /\ UNCHANGED <<blocks, ocivars, pending>>
    \/ OciNext /\ UNCHANGED <<blocks, pending>>
    \/ HousekeepingNext /\ UNCHANGED <<blocks, ocivars, pending>>
    \/ McpCheck /\ UNCHANGED <<blocks, ocivars>>
    \/ McpAct /\ UNCHANGED <<blocks, ocivars>>
    \/ Tick /\ UNCHANGED <<blocks, ocivars, pending>>

Spec == Init /\ [][Next]_vars

(***************************************************************************)
(* Properties.                                                             *)
(***************************************************************************)
\* The generations of a key, the current one included.
Generations(b, k) == b.hist[k] \cup {o \in {b.cur[k]} : o.g # 0}

\* A deletion or a replacement leaves this generation in the history.
Survives(b, o) == b.ver = "enabled" \/ (b.ver = "suspended" /\ Versioned(o).vid # NullVid)

\* Write-once protection of one generation: an Azure hold or policy on the current
\* blob or in a history that Azure owns, an S3 lock in a bucket whose versioning
\* keeps the generation, or the GCS retention of the current generation.
Worm(b, k, o) ==
    \/ AzureImmutable(o) /\ (o = b.cur[k] \/ AzureHistoryMode(b))
    \/ S3Locked(o) /\ Survives(b, o)
    \/ o = b.cur[k] /\ GcsRetained(b, o)

\* Three steps do not ask.  azure.rs delete_blob removes the snapshots of a blob
\* with it; the purge of a deleted container asks only for Azure's own protection
\* (ForeignKept); and the MCP tools that check before they act do not hold the
\* gate in between (ToolsKeepWorm).
SnapshotDelete(k) == k \in Snaps /\ DeleteBlob
ContainerPurge(o) == Due /\ caller'.door = "azure" /\ ~AzureImmutable(o)
Ungated(k) == pending # NoPending /\ pending' = NoPending /\ k = pending.key

\* No step weakens a lock or a locked policy; a hold and an unlocked policy are
\* Azure's to change.
Unweakened(o, p) ==
    /\ p.s3hold = o.s3hold /\ p.s3until = o.s3until
    /\ o.policy = "locked" => p.policy = "locked" /\ p.until >= o.until
    /\ caller'.door # "azure" => p.hold = o.hold /\ p.policy = o.policy /\ p.until = o.until

\* The generation o of k is stored under k after the step, as protected as it was.
Kept(k, o) == \E p \in Generations(bucket', k) : p.g = o.g /\ Unweakened(o, p)

\* A generation that is under a hold, a policy, a lock or a retention period
\* is still stored, under its key and as protected as it was, after every step of
\* a front door, a lifecycle rule or the admin API, also in the window of an
\* ungated MCP tool.  Not promised, because the code does not keep it: a snapshot
\* deleted with its blob, what the purge of a container takes, the key that an
\* ungated tool acts on, and the "null" version of a bucket whose Object Lock lost
\* its versioning (LockVersioned).
WormKept ==
    [][\A k \in Keys : \A o \in Generations(bucket, k) :
         Worm(bucket, k, o) /\ ~SnapshotDelete(k) /\ ~ContainerPurge(o) /\ ~Ungated(k)
           => Kept(k, o)]_vars

\* While a blob is leased, the blob that is current under its key is replaced or
\* removed only by an Azure request that carries the lease id, by the purge of
\* its container, or by an MCP tool that checked before the lease was taken.
LeaseHonoured ==
    [][\A k \in Blobs :
         LET o == bucket.cur[k]
         IN o.g # 0 /\ o.lease # NoLease /\ bucket'.cur[k].g # o.g /\ ~Ungated(k)
              => caller'.door = "azure" /\ (caller'.cred = o.lease \/ Due)]_vars

\* At most one provider's history and protection mode owns the bucket.
ModesExclusive ==
    Cardinality({d \in {"azure", "s3", "gcs"} :
        \/ d = "azure" /\ AzureHistoryMode(bucket)
        \/ d = "s3" /\ S3HistoryMode(bucket)
        \/ d = "gcs" /\ GcsHistoryMode(bucket)}) <= 1

\* Only the current objects are asked whether Azure protects the bucket: no
\* generation under a hold or an active policy is in the history of a bucket
\* whose history Azure does not own.
HistoryOwned ==
    (\E k \in Keys : \E o \in bucket.hist[k] : AzureImmutable(o)) => AzureHistoryMode(bucket)

\* One provider owns a bucket's history, and with it what is protected there:
\* each front door can refuse by looking at the modes and the current objects.
OneOwner == ModesExclusive /\ HistoryOwned

\* A container whose deletion is recorded holds no generation under a hold or
\* an active policy, whatever the other doors do to the bucket meanwhile: the
\* purge never meets protected data.
PendingUnprotected == deletion # NoDeletion => \A o \in Stored(bucket) : ~AzureImmutable(o)

\* Every block that a staged session or a committed list names, in memory or
\* on disk, has its payload: a block list can always be composed.
BlocksStored ==
    \A k \in Blobs :
      LET s == blocks[k]
      IN /\ ItemsOfSession(Session(s)) \cup ItemsOfSession(s.disk) \subseteq s.items
         /\ ItemsOfList(Committed(s)) \cup ItemsOfList(s.listDisk) \subseteq s.items

\* The holder of a PAR changes nothing but the object it names.
ParScoped ==
    [][caller'.door = "oci" /\ caller'.cred \in Tokens /\ bucket' # bucket =>
         /\ pars[caller'.cred].live /\ now < pars[caller'.cred].expires
         /\ \A k \in Keys : bucket'.cur[k] # bucket.cur[k] \/ bucket'.hist[k] # bucket.hist[k]
              => pars[caller'.cred].scope \in {AnyObject, k}]_vars

(***************************************************************************)
(* What the documentation says and the code does not keep.                 *)
(***************************************************************************)
\* README: while S3 or GCS owns the history of the bucket, a request of Azure
\* does not change its data or its modes.
ForeignKept ==
    [][(S3HistoryMode(bucket) \/ GcsHistoryMode(bucket)) /\ caller'.door = "azure"
         => UNCHANGED bucket]_vars

\* README: an Object Lock bucket has versioning permanently.
LockVersioned ==
    [][bucket.s3Lock /\ bucket.ver = "enabled" /\ bucket'.s3Lock => bucket'.ver = "enabled"]_vars

\* storage-writer-ownership.md: deletes and multipart completion are under the gate,
\* and admin services reject the replacement and the deletion of protected data.
\* A tool that acts on a key keeps what is protected there.
ToolsKeepWorm ==
    [][\A k \in Keys : \A o \in Generations(bucket, k) :
         Worm(bucket, k, o) /\ Ungated(k) => Kept(k, o)]_vars
=============================================================================
