------------------------------ MODULE S3Objects ------------------------------
(***************************************************************************)
(* The S3 front door on the shared namespace: buckets, versioning, Object  *)
(* Lock, objects, copies, multipart uploads, browser uploads and deletes.  *)
(***************************************************************************)
EXTENDS Namespace

\* s3_foreign_history_conflict: another provider protects this bucket.
S3Conflict(b) == AzureActive(b) \/ GcsHistoryMode(b) \/ AzureHistoryMode(b)

\* s3_mutation_preserves_current_version: a write or a simple delete keeps the
\* current generation in history.
Preserved(b, o) == b.ver = "enabled" \/ (b.s3 = "Suspended" /\ o.vid # NullVid)

S3Request ==
    /\ bucket.exists /\ ~S3Conflict(bucket)
    /\ UNCHANGED <<deletion, now, scene>>

(***************************************************************************)
(* Buckets.                                                                *)
(***************************************************************************)
\* create_bucket; Object Lock can only be asked for here.
S3CreateBucket ==
    /\ Asked("s3Bucket")
    /\ ~bucket.exists
    /\ \E lock \in {l \in BOOLEAN : l => Asked("s3Lock")} :
         LET enabled == SetVersioning(EmptyBucket, "enabled")
             locked == [enabled EXCEPT !.s3 = "Enabled", !.s3Lock = TRUE]
         IN Serve("s3", NoLease, IF lock THEN <<EmptyBucket, enabled, locked>> ELSE <<EmptyBucket>>)
    /\ UNCHANGED <<deletion, now, writes, scene>>

\* put_versioning: the marker file first, the status in the metadata second.
S3PutVersioning ==
    /\ Asked("s3Versioning")
    /\ S3Request
    /\ \E status \in {"Enabled", "Suspended"} :
         LET mode == IF status = "Enabled" THEN "enabled" ELSE "suspended"
             marked == SetVersioning(bucket, mode)
         IN /\ status = "Suspended" => ~bucket.s3Lock
            /\ Serve("s3", NoLease, <<marked, [marked EXCEPT !.s3 = status]>>)
    /\ UNCHANGED writes

S3DeleteBucket ==
    /\ Asked("s3Bucket")
    /\ S3Request
    /\ Deletable(bucket)
    /\ Serve("s3", NoLease, <<NoBucket>>)
    /\ UNCHANGED writes

(***************************************************************************)
(* Objects.                                                                *)
(***************************************************************************)
\* Lock headers of a PUT: nothing, a legal hold, or a date in the future.
LockRequests == {[hold |-> FALSE, until |-> 0]} \cup
    (IF bucket.s3Lock THEN {[hold |-> TRUE, until |-> 0], [hold |-> FALSE, until |-> now + 1]} ELSE {})

WithLock(o, lock) == [o EXCEPT !.s3hold = lock.hold, !.s3until = lock.until]

\* object_put refuses to replace a locked object that history would not keep.
S3Overwritable(k) == Has(bucket, k) /\ S3Locked(bucket.cur[k]) => Preserved(bucket, bucket.cur[k])

\* put_object_body starts from the provider metadata of the object it
\* replaces; the lock is dropped when that object stays in history.
S3Body(k) ==
    LET o == bucket.cur[k]
        kept == [o EXCEPT !.g = writes + 1, !.at = now, !.gen = 0, !.meta = 0]
    IN IF ~Has(bucket, k) THEN Fresh(writes + 1)
       ELSE IF Preserved(bucket, o) THEN WithLock(kept, [hold |-> FALSE, until |-> 0]) ELSE kept

S3Put ==
    /\ Asked("s3Object")
    /\ S3Request
    /\ \E k \in Names, lock \in LockRequests, cond \in Conditions :
         LET asked == lock.hold \/ lock.until > 0
         IN /\ S3Overwritable(k) /\ Holds(cond, Has(bucket, k))
            /\ Serve("s3", NoLease,
                     <<Put(bucket, k, IF asked THEN WithLock(S3Body(k), lock) ELSE S3Body(k))>>)
    /\ Uses(1)

\* The generations a copy may name: the current one, or a version that is not a
\* delete marker.
CopySources(k) == {o \in VersionsOf(bucket, k) \cup {bucket.cur[k]} : o.g # 0 /\ ~o.marker}

\* copy_loaded_object: the provider metadata of the source comes along, its
\* lock does not; GCS keeps its numbers in the metadata that may be replaced.
Copied(src, lock, replaceMetadata) ==
    WithLock([src EXCEPT !.g = writes + 1, !.at = now,
                         !.gen = IF replaceMetadata THEN 0 ELSE @,
                         !.meta = IF replaceMetadata THEN 0 ELSE @], lock)

S3Copy ==
    /\ Asked("s3Copy")
    /\ S3Request
    /\ \E from, to \in Names, lock \in LockRequests, replaceMetadata \in BOOLEAN :
         \E src \in CopySources(from) :
           /\ S3Overwritable(to)
           /\ Serve("s3", NoLease, <<Put(bucket, to, Copied(src, lock, replaceMetadata))>>)
    /\ Uses(1)

\* bucket_post_browser_upload asks for no lock of the object it replaces.
S3BrowserUpload ==
    /\ Asked("s3Object")
    /\ S3Request
    /\ \E k \in Names : Serve("s3", NoLease, <<Put(bucket, k, Fresh(writes + 1))>>)
    /\ Uses(1)

(***************************************************************************)
(* Multipart uploads live in the store; any front door may hold the id.    *)
(***************************************************************************)
S3InitiateUpload ==
    /\ Asked("upload")
    /\ S3Request
    /\ \E k \in Names : Serve("s3", NoLease, <<[bucket EXCEPT !.uploads = @ \cup {k}]>>)
    /\ UNCHANGED writes

\* complete_multipart_upload_request asks for no lock either.  The record of
\* the upload goes after the object is published.
S3CompleteUpload ==
    /\ Asked("upload")
    /\ S3Request
    /\ \E k \in bucket.uploads :
         LET published == Put(bucket, k, Fresh(writes + 1))
         IN Serve("s3", NoLease, <<published, [published EXCEPT !.uploads = @ \ {k}]>>)
    /\ Uses(1)

\* delete_multipart_upload does not ask who owns the bucket.
S3AbortUpload ==
    /\ Asked("upload")
    /\ \E k \in bucket.uploads : Serve("s3", NoLease, <<[bucket EXCEPT !.uploads = @ \ {k}]>>)
    /\ UNCHANGED <<deletion, now, writes, scene>>

(***************************************************************************)
(* Deletes.  One entry names a key, and perhaps one of its versions.       *)
(***************************************************************************)
\* The buckets a delete may lead to; a refused one leaves the bucket alone.
S3DeletedVersion(b, k, v) ==
    LET named == {o \in VersionsOf(b, k) : o.vid = v}
    IN IF named = {} \/ \E o \in named : S3Locked(o) THEN {b} ELSE DeleteVersion(b, k, v)

S3DeletedCurrent(b, k, g) ==
    LET o == b.cur[k]
    IN IF \/ o.g # 0 /\ S3Locked(o) /\ ~Preserved(b, o)
          \/ o.g = 0 /\ b.ver = "disabled"
       THEN b ELSE Delete(b, k, g)

S3Deleted(b, k, v, g) == IF v = NoVid THEN {S3DeletedCurrent(b, k, g)} ELSE S3DeletedVersion(b, k, v)

\* parse_delete_keys: an entry may name a version.
Selectors(k) == {NoVid} \cup {o.vid : o \in VersionsOf(bucket, k)}

S3Delete ==
    /\ Asked("s3Delete")
    /\ S3Request
    /\ \E k \in Names : \E v \in Selectors(k) :
         \E b \in S3Deleted(bucket, k, v, writes + 1) : Serve("s3", NoLease, <<b>>)
    /\ Uses(1)

\* DeleteObjects goes through its entries in order.
S3MultiDelete ==
    /\ Asked("s3MultiDelete")
    /\ S3Request
    /\ \E k, l \in Names : \E v \in Selectors(k), w \in Selectors(l) :
         \E b \in S3Deleted(bucket, k, v, writes + 1) :
           \E c \in S3Deleted(b, l, w, writes + 2) : Serve("s3", NoLease, <<b, c>>)
    /\ Uses(2)

S3Next ==
    \/ S3CreateBucket \/ S3PutVersioning \/ S3DeleteBucket
    \/ S3Put \/ S3Copy \/ S3BrowserUpload
    \/ S3InitiateUpload \/ S3CompleteUpload \/ S3AbortUpload
    \/ S3Delete \/ S3MultiDelete
=============================================================================
