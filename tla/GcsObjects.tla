----------------------------- MODULE GcsObjects -----------------------------
(***************************************************************************)
(* The GCS front door on the shared namespace: buckets with retention and  *)
(* soft delete, objects with generations, through the XML and JSON APIs.   *)
(* A finished resumable upload (GcsResumable.tla) publishes like any PUT.  *)
(***************************************************************************)
EXTENDS Namespace

CONSTANTS Retentions,   \* retention periods a bucket may be given
          MaxMeta       \* metadata patches of one generation (bound)

ASSUME GcsAssumption == Retentions \subseteq Nat /\ MaxMeta \in Nat

\* foreign_data_protection_active
GcsConflict(b) ==
    \/ AzureActive(b) \/ S3HistoryMode(b) \/ AzureHistoryMode(b)
    \/ b.ver = "enabled" /\ ~b.gcsSoft

GcsRequest ==
    /\ bucket.exists /\ ~GcsConflict(bucket)
    /\ UNCHANGED <<deletion, now, scene>>

\* validate_bucket_fields and validate_bucket_data_protection: the protection a
\* bucket document may ask for.  A retention policy of null is 0.
Unnamed == -1
BucketDocuments == [soft : BOOLEAN, retention : {Unnamed, 0} \cup Retentions]

\* bucket_data_protection_requested
Requested(doc) == doc.soft \/ doc.retention > 0

\* apply_bucket_data_protection: versioning for soft delete, then the metadata.
GcsProtect(b, doc) ==
    LET versioned == IF doc.soft THEN SetVersioning(b, "enabled") ELSE b
    IN <<versioned, [versioned EXCEPT !.gcsSoft = @ \/ doc.soft,
                                      !.gcsRetention = IF doc.retention = Unnamed THEN @ ELSE doc.retention]>>

\* create_json_bucket and the XML PUT; the JSON request is rolled back on an
\* error, not on a crash.
GcsCreateBucket ==
    /\ Asked("gcsBucket")
    /\ ~bucket.exists
    /\ \E doc \in BucketDocuments :
         /\ Requested(doc) => Asked("gcsProtect")
         /\ Serve("gcs", NoLease,
                  IF Requested(doc)
                  THEN <<EmptyBucket>> \o GcsProtect(EmptyBucket, doc)
                  ELSE <<EmptyBucket>>)
    /\ UNCHANGED <<deletion, now, writes, scene>>

\* PATCH of a bucket.  A document that requests no protection is applied to any
\* bucket, and may end a retention.
GcsPatchBucket ==
    /\ Asked("gcsProtect")
    /\ bucket.exists
    /\ \E doc \in BucketDocuments :
         /\ Requested(doc) => ~GcsConflict(bucket)
         /\ Serve("gcs", NoLease, GcsProtect(bucket, doc))
    /\ UNCHANGED <<deletion, now, writes, scene>>

GcsDeleteBucket ==
    /\ Asked("gcsBucket")
    /\ GcsRequest
    /\ Deletable(bucket)
    /\ Serve("gcs", NoLease, <<NoBucket>>)
    /\ UNCHANGED writes

(***************************************************************************)
(* Objects.                                                                *)
(***************************************************************************)
\* generation: the stored number, or for an object that another front door
\* wrote, its modification time.
Generation(o) == IF o.gen # 0 THEN o.gen ELSE o.at

\* next_generation
NextGeneration(o) == Max({now} \cup {Generation(x) + 1 : x \in {y \in {o} : y.g # 0}})

\* ifGenerationMatch compares the number that is stored.
GcsHolds(cond, o) == Holds(cond, o.g # 0) /\ (cond = "match" => o.gen # 0)

\* put_blob_with_generation_match and its spooled and staged forms: retention
\* first, then the condition, then the next generation.
GcsWrite(k, cond) ==
    LET o == bucket.cur[k]
    IN /\ o.g # 0 => ~GcsRetained(bucket, o)
       /\ GcsHolds(cond, o)
       /\ Serve("gcs", NoLease,
                <<Put(bucket, k, [Fresh(writes + 1) EXCEPT !.gen = NextGeneration(o), !.meta = 1])>>)

GcsXmlPut ==
    /\ Asked("gcsObject")
    /\ GcsRequest
    /\ \E k \in Names, cond \in Conditions : GcsWrite(k, cond)
    /\ Uses(1)

\* The media and multipart uploads of the JSON API.
GcsUpload ==
    /\ Asked("gcsUpload")
    /\ GcsRequest
    /\ \E k \in Names, cond \in Conditions : GcsWrite(k, cond)
    /\ Uses(1)

\* patch_json_object rewrites the metadata of the generation it read.
GcsPatchObject ==
    /\ Asked("gcsObject")
    /\ GcsRequest
    /\ \E k \in Names :
         LET o == bucket.cur[k]
         IN /\ o.g # 0 /\ o.meta < MaxMeta
            /\ Serve("gcs", NoLease,
                     <<Touch(bucket, k, [o EXCEPT !.gen = Generation(o),
                                                  !.meta = Max({o.meta, 1}) + 1])>>)
    /\ UNCHANGED writes

GcsRemove(k, cond) ==
    LET o == bucket.cur[k]
    IN /\ o.g # 0 /\ ~GcsRetained(bucket, o)
       /\ GcsHolds(cond, o)
       /\ Serve("gcs", NoLease, <<Delete(bucket, k, writes + 1)>>)
       /\ Uses(1)

GcsXmlDelete ==
    /\ Asked("gcsObject")
    /\ GcsRequest
    /\ \E k \in Names, cond \in Conditions : GcsRemove(k, cond)

\* The JSON DELETE always compares the stored generation: an object that has
\* none is never deleted through it.
GcsJsonDelete ==
    /\ Asked("gcsUpload")
    /\ GcsRequest
    /\ \E k \in Names : GcsRemove(k, "match")

GcsNext ==
    \/ GcsCreateBucket \/ GcsPatchBucket \/ GcsDeleteBucket
    \/ GcsXmlPut \/ GcsUpload \/ GcsPatchObject \/ GcsXmlDelete \/ GcsJsonDelete
=============================================================================
