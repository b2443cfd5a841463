---------------------------- MODULE Housekeeping ----------------------------
(***************************************************************************)
(* What changes the shared namespace besides the provider front doors: the *)
(* lifecycle executor and the eager expiration of S3 reads, the storage    *)
(* admin API, and the MCP tools.  Of the MCP tools only object_copy holds  *)
(* the operation gate; object_delete_many and the completion of a          *)
(* multipart upload check first and act later, with anything in between.   *)
(***************************************************************************)
EXTENDS Namespace

VARIABLE pending        \* the MCP mutation that was checked and not yet done

NoPending == [op |-> "none", key |-> NoVid]

\* foreign_provider_data_protection_active: history modes of GCS and Azure.
HistoryForeign(b) == GcsHistoryMode(b) \/ AzureHistoryMode(b)

\* object_has_active_data_protection
DataProtected(o) == S3Locked(o) \/ AzureProtected(o)

(***************************************************************************)
(* Lifecycle.  A pass applies, rule after rule, the current-object rule    *)
(* and the noncurrent-version rule; a deletion that fails is skipped.      *)
(***************************************************************************)
LifecycleRule ==
    /\ Asked("lifecycle")
    /\ bucket.exists /\ ~HistoryForeign(bucket)
    /\ UNCHANGED <<deletion, now, scene>>

Aged(o, days) == now - o.at >= days

\* apply_current_object_rule
ExpireCurrent ==
    /\ LifecycleRule
    /\ \E days \in 1 .. MaxTime :
         LET due == {k \in Keys : Has(bucket, k) /\ Aged(bucket.cur[k], days) /\ ~DataProtected(bucket.cur[k])}
         IN \E gone \in SUBSET due \ {{}} : bucket' = DeleteAll(bucket, gone, writes + 1)
    /\ By("lifecycle", NoLease)
    /\ Uses(1)

\* apply_noncurrent_version_rule for one key: the versions and the current
\* identity are read once; a deletion that fails leaves its version.
ExpireNoncurrent ==
    /\ LifecycleRule
    /\ \E k \in Keys, days \in 1 .. MaxTime :
         LET due == {o \in VersionsOf(bucket, k) : /\ o.vid # bucket.cur[k].vid \/ bucket.cur[k].g = 0
                                                   /\ Aged(o, days) /\ ~DataProtected(o)}
         IN \E gone \in SUBSET {o.vid : o \in due} \ {{}} : bucket' \in DeleteVersions(bucket, k, gone)
    /\ By("lifecycle", NoLease)
    /\ UNCHANGED writes

\* check_object_expiration, on an S3 GET, HEAD or listing.
EagerExpire ==
    /\ Asked("lifecycle")
    /\ bucket.exists /\ ~HistoryForeign(bucket) /\ ~AzureActive(bucket)
    /\ \E k \in Keys, days \in 1 .. MaxTime :
         /\ Has(bucket, k) /\ Aged(bucket.cur[k], days) /\ ~DataProtected(bucket.cur[k])
         /\ Serve("s3", NoLease, <<Delete(bucket, k, writes + 1)>>)
    /\ Uses(1)
    /\ UNCHANGED <<deletion, now, scene>>

(***************************************************************************)
(* Admin API.                                                              *)
(***************************************************************************)
\* Not the code: the versions are never asked
AdminMutableCurrent(b, k, andVersions) == b.exists /\ ~HistoryForeign(b) /\ ~DataProtected(b.cur[k])

\* ensure_admin_object_mutable
AdminMutable(b, k, andVersions) ==
    /\ b.exists /\ ~HistoryForeign(b)
    /\ ~DataProtected(b.cur[k])
    /\ andVersions => \A o \in VersionsOf(b, k) : ~DataProtected(o)

AdminRequest ==
    /\ Asked("admin")
    /\ UNCHANGED <<deletion, now, scene>>

AdminCreateBucket ==
    /\ AdminRequest
    /\ ~bucket.exists
    /\ Serve("admin", NoLease, <<EmptyBucket>>)
    /\ UNCHANGED writes

AdminDeleteBucket ==
    /\ AdminRequest
    /\ ~HistoryForeign(bucket) /\ Deletable(bucket)
    /\ Serve("admin", NoLease, <<NoBucket>>)
    /\ UNCHANGED writes

\* set_bucket_versioning asks neither for Object Lock nor for Azure leases.
AdminSetVersioning ==
    /\ AdminRequest /\ Asked("adminVersioning")
    /\ bucket.exists /\ ~HistoryForeign(bucket)
    /\ \E mode \in {"enabled", "suspended"} : Serve("admin", NoLease, <<SetVersioning(bucket, mode)>>)
    /\ UNCHANGED writes

AdminPut ==
    /\ AdminRequest
    /\ \E k \in Names :
         /\ AdminMutable(bucket, k, FALSE)
         /\ Serve("admin", NoLease, <<Put(bucket, k, Fresh(writes + 1))>>)
    /\ Uses(1)

\* delete_object of the admin API: the object, then every version it lists.
AdminDelete ==
    /\ AdminRequest
    /\ \E k \in Keys :
         LET hidden == Delete(bucket, k, writes + 1)
             vids == {o.vid : o \in VersionsOf(hidden, k)}
         IN /\ AdminMutable(bucket, k, TRUE)
            /\ Has(bucket, k) \/ bucket.ver # "disabled"
            /\ \E done \in SUBSET vids : bucket' \in DeleteVersions(hidden, k, done)
    /\ By("admin", NoLease)
    /\ Uses(1)

AdminDeleteVersion ==
    /\ AdminRequest
    /\ \E k \in Keys : \E o \in VersionsOf(bucket, k) :
         /\ AdminMutable(bucket, k, TRUE)
         /\ bucket' \in DeleteVersion(bucket, k, o.vid)
    /\ By("admin", NoLease)
    /\ UNCHANGED writes

AdminAbortUpload ==
    /\ AdminRequest
    /\ \E k \in bucket.uploads : Serve("admin", NoLease, <<[bucket EXCEPT !.uploads = @ \ {k}]>>)
    /\ UNCHANGED writes

(***************************************************************************)
(* MCP tools.                                                              *)
(***************************************************************************)
\* object_copy: under the gate; every lock, hold, policy and lease is dropped,
\* the modification time is kept.
McpCopy ==
    /\ AdminRequest
    /\ \E from \in Keys, to \in Names :
         /\ AdminMutable(bucket, to, FALSE) /\ Has(bucket, from)
         /\ Serve("mcp", NoLease,
                  <<Put(bucket, to, [bucket.cur[from] EXCEPT !.g = writes + 1, !.lease = NoLease,
                                       !.hold = FALSE, !.policy = "none", !.until = 0,
                                       !.s3hold = FALSE, !.s3until = 0])>>)
    /\ Uses(1)

\* The check of object_delete_many and of multipart_upload_complete ...
McpCheck ==
    /\ Asked("mcp")
    /\ pending = NoPending
    /\ \E k \in Names, op \in {"delete", "complete"} :
         /\ AdminMutable(bucket, k, op = "delete")
         /\ op = "complete" => k \in bucket.uploads
         /\ pending' = [op |-> op, key |-> k]
    /\ By("mcp", NoLease)
    /\ UNCHANGED nsPlaces

\* ... and the mutation that follows it.
McpAct ==
    /\ pending # NoPending
    /\ LET k == pending.key
           published == Put(bucket, k, Fresh(writes + 1))
       IN IF pending.op = "delete"
          THEN IF bucket.exists /\ (Has(bucket, k) \/ bucket.ver # "disabled")
               THEN bucket' = Delete(bucket, k, writes + 1) ELSE UNCHANGED bucket
          ELSE IF bucket.exists /\ k \in bucket.uploads
               THEN bucket' \in {published, [published EXCEPT !.uploads = @ \ {k}]}
               ELSE UNCHANGED bucket
    /\ pending' = NoPending
    /\ By("mcp", NoLease)
    /\ Uses(1)
    /\ UNCHANGED <<deletion, now, scene>>

HousekeepingInit == pending = NoPending

HousekeepingNext ==
    \/ ExpireCurrent \/ ExpireNoncurrent \/ EagerExpire
    \/ AdminCreateBucket \/ AdminDeleteBucket \/ AdminSetVersioning
    \/ AdminPut \/ AdminDelete \/ AdminDeleteVersion \/ AdminAbortUpload
    \/ McpCopy
=============================================================================
