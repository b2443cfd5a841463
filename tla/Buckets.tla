------------------------------ MODULE Buckets ------------------------------
(* The life of one bucket in the filesystem store: the directory with its     *)
(* name, identity and configuration files, the objects in it, what the        *)
(* process remembers of it (the proof that no object in it carries Azure      *)
(* protection metadata), and startup.  Every durable write may fail and the   *)
(* process may die before or after any of them.  The steps of one object's    *)
(* publication, and the key index, are in Publication.                        *)
(*                                                                            *)
(* Bucket operations hold the bucket's lock, object operations the object's   *)
(* lock, and a configuration write holds none.  With Gated every operation    *)
(* also holds the store's operation gate from start to end, as the listeners  *)
(* and the lifecycle loop do; without it the locks are the only order.        *)
EXTENDS Integers, FiniteSets

CONSTANTS Key,        \* keys an object may be stored under
          Metadata,   \* values of the bucket's own metadata
          Plain,      \* the metadata of a new bucket: no .bucket.meta.json
          Gated,      \* whether callers hold the operation gate
          MaxClock,   \* operations that stamp a bucket start while clock < MaxClock
          MaxErrors,  \* I/O errors in a behaviour
          MaxCrashes  \* process deaths in a behaviour

ASSUME BucketsAssumption ==
  /\ Plain \in Metadata /\ Metadata \cap {"read", "touch", "delete", "rollback"} = {}
  /\ Gated \in BOOLEAN
  /\ MaxClock \in Nat /\ MaxErrors \in Nat /\ MaxCrashes \in Nat

VARIABLES
  files,    \* what is in the bucket directory besides objects; {} if it is absent
  born,     \* creation time of .bucket.name
  ident,    \* .bucket.identity.json: creation and modification time
  meta,     \* .bucket.meta.json
  cur,      \* the current object of a key: protected, unprotected or none
  hist,     \* the historical versions of a key
  store,    \* the process: serving, dead, or refusing to start
  proof,    \* azure_protection_possible: no entry, FALSE ("absent"), TRUE ("possible")
  pc, arg,  \* the operation that holds the bucket's lock, and its argument
  cfg,      \* the configuration write under way
  op,       \* the mutation under way on each key
  clock, errors, crashes,
  acked,    \* the bucket's creation was acknowledged and no deletion began since
  seen,     \* what the last successful read or update of the bucket reported
  damage    \* how the directory lost or never got its name

durable == <<files, born, ident, meta, cur, hist>>
control == <<pc, arg, cfg, op>>
bounds == <<clock, errors, crashes>>
history == <<acked, seen, damage>>
vars == <<files, born, ident, meta, cur, hist, store, proof, pc, arg, cfg, op,
          clock, errors, crashes, acked, seen, damage>>

Sidecar == {"config", "versioning"}
Control == {"name", "identity", "metadata"} \cup Sidecar
Temporary == {"nameTmp", "otherTmp"}
File == {"dir"} \cup Control \cup Temporary
Value == {"plain", "held"}
NoIdentity == [created |-> -1, modified |-> -1]
NotSeen == [created |-> -1, modified |-> -1, meta |-> Plain]
Idle == [kind |-> "idle", v |-> "plain"]
Outcomes == {"done", "failed", "unsure"}

\* The directory of a key exists while it has a current object or history.
Stored(k) == cur[k] # "none" \/ hist[k] # {}

\* An operation may start when the gate is free; without the gate, always.
Free == Gated => pc = "idle" /\ cfg = "idle" /\ \A k \in Key : op[k] = Idle

\* One atomic_write: it is done, it failed before the rename, or the rename
\* happened and syncing the directory failed.
Outcome(out) == IF out = "done" THEN errors' = errors
                ELSE errors < MaxErrors /\ errors' = errors + 1
Written(out) == out \in {"done", "unsure"}

Init ==
  /\ files \in {{}, {"dir", "name"}}   \* an empty root, or a bucket of an older build
  /\ born = 0 /\ ident = NoIdentity /\ meta = Plain
  /\ cur = [k \in Key |-> "none"] /\ hist = [k \in Key |-> {}]
  /\ store = "down" /\ proof = "unknown"
  /\ pc = "idle" /\ arg = "read" /\ cfg = "idle" /\ op = [k \in Key |-> Idle]
  /\ clock = 0 /\ errors = 0 /\ crashes = 0
  /\ acked = FALSE /\ seen = NotSeen /\ damage = {}

-----------------------------------------------------------------------------
(* Creation: the directory, its name, its identity, then the process's view.  *)

CreateBucket(out) ==
  /\ store = "up" /\ pc = "idle" /\ Free /\ clock < MaxClock
  /\ "dir" \notin files
  /\ Outcome(out)
  /\ IF Written(out) THEN files' = {"dir"} ELSE UNCHANGED files
  /\ IF out = "done" THEN pc' = "name" ELSE UNCHANGED pc
  /\ damage' = IF out = "unsure" THEN {"nameless"} ELSE damage
  /\ UNCHANGED <<born, ident, meta, cur, hist, store, proof, arg, cfg, op, clock, crashes, acked, seen>>

WriteName(out) ==
  /\ pc = "name"
  /\ Outcome(out)
  /\ IF Written(out)
       THEN files' = files \cup {"name"} /\ born' = clock + 1 /\ clock' = clock + 1
       ELSE UNCHANGED <<files, born, clock>>
  /\ pc' = IF out = "done" THEN "identity" ELSE "idle"
  /\ damage' = IF Written(out) THEN damage ELSE damage \cup {"nameless"}
  /\ UNCHANGED <<ident, meta, cur, hist, store, proof, arg, cfg, op, crashes, acked, seen>>

\* Not the code: a failed identity write is ignored.
WriteIdentityIgnored(out) ==
  /\ pc = "identity"
  /\ Outcome(out)
  /\ IF Written(out)
       THEN /\ files' = files \cup {"identity"} /\ clock' = clock + 1
            /\ ident' = [created |-> clock + 1, modified |-> clock + 1]
       ELSE UNCHANGED <<files, ident, clock>>
  /\ pc' = "finish"
  /\ UNCHANGED <<born, meta, cur, hist, store, proof, arg, cfg, op, crashes, history>>

\* A failed identity rolls the creation back by removing the directory.
WriteIdentity(out) ==
  /\ pc = "identity"
  /\ Outcome(out)
  /\ IF Written(out)
       THEN /\ files' = files \cup {"identity"} /\ clock' = clock + 1
            /\ ident' = [created |-> clock + 1, modified |-> clock + 1]
       ELSE UNCHANGED <<files, ident, clock>>
  /\ IF out = "done" THEN pc' = "finish" /\ UNCHANGED arg
                     ELSE pc' = "remove" /\ arg' = "rollback"
  /\ UNCHANGED <<born, meta, cur, hist, store, proof, cfg, op, crashes, history>>

FinishCreate ==
  /\ pc = "finish"
  /\ proof' = IF proof = "unknown" THEN "absent" ELSE proof
  /\ acked' = TRUE /\ pc' = "idle"
  /\ UNCHANGED <<durable, store, arg, cfg, op, bounds, seen, damage>>

-----------------------------------------------------------------------------
(* Deletion: the directory may hold control entries only; it is removed entry *)
(* by entry, in an order the filesystem chooses.                              *)

OnlyControl == files \cap Temporary = {} /\ \A k \in Key : ~Stored(k)

DeleteBucket ==
  /\ store = "up" /\ pc = "idle" /\ Free
  /\ "dir" \in files /\ OnlyControl
  /\ pc' = "remove" /\ arg' = "delete"
  /\ acked' = FALSE /\ seen' = NotSeen
  /\ UNCHANGED <<durable, store, proof, cfg, op, bounds, damage>>

RemoveFile(f) ==
  /\ pc = "remove" /\ f \in files \ {"dir"}
  /\ files' = files \ {f}
  /\ ident' = IF f = "identity" THEN NoIdentity ELSE ident
  /\ meta' = IF f = "metadata" THEN Plain ELSE meta
  /\ UNCHANGED <<born, cur, hist, store, proof, control, bounds, history>>

RemoveObject(k) ==
  /\ pc = "remove" /\ Stored(k)
  /\ cur' = [cur EXCEPT ![k] = "none"] /\ hist' = [hist EXCEPT ![k] = {}]
  /\ UNCHANGED <<files, born, ident, meta, store, proof, control, bounds, history>>

RemoveDirectory ==
  /\ pc = "remove" /\ files \subseteq {"dir"} /\ \A k \in Key : ~Stored(k)
  /\ files' = {} /\ damage' = {}
  /\ pc' = "idle"
  /\ UNCHANGED <<born, ident, meta, cur, hist, store, proof, arg, cfg, op, bounds, acked, seen>>

RemoveFails ==
  /\ pc = "remove" /\ errors < MaxErrors /\ errors' = errors + 1
  /\ pc' = "idle" /\ damage' = damage \cup {"removal"}
  /\ UNCHANGED <<durable, store, proof, arg, cfg, op, clock, crashes, acked, seen>>

-----------------------------------------------------------------------------
(* get_bucket, list_buckets, update_bucket_metadata and touch_bucket_identity *)
(* all read the identity first, and derive it once from the name file if the  *)
(* bucket predates it.  Without a directory or a name they report an error.   *)

\* What the holder of the bucket's lock does once it knows the identity id.
Proceed(a, id) ==
  CASE a = "touch" -> pc' = "restamp" /\ UNCHANGED seen
    [] a \in Metadata \ {meta} -> pc' = "metadata" /\ UNCHANGED seen
    [] OTHER -> /\ pc' = "idle"
                /\ seen' = [created |-> id.created, modified |-> id.modified, meta |-> meta]

ReadIdentity(a) ==
  /\ store = "up" /\ pc = "idle"
  /\ IF a = "touch" THEN cfg = "touch" /\ cfg' = "idle"
                    ELSE Free /\ UNCHANGED cfg
  /\ a \in Metadata => clock < MaxClock
  /\ CASE "identity" \in files -> Proceed(a, ident) /\ arg' = a
       [] "identity" \notin files /\ "name" \in files -> pc' = "derive" /\ arg' = a /\ UNCHANGED seen
       [] OTHER -> UNCHANGED <<pc, arg, seen>>
  /\ UNCHANGED <<durable, store, proof, op, bounds, acked, damage>>

DeriveIdentity(out) ==
  /\ pc = "derive"
  /\ Outcome(out)
  /\ IF Written(out)
       THEN files' = files \cup {"identity"} /\ ident' = [created |-> born, modified |-> born]
       ELSE UNCHANGED <<files, ident>>
  /\ IF out = "done" THEN Proceed(arg, [created |-> born, modified |-> born])
                     ELSE pc' = "idle" /\ UNCHANGED seen
  /\ UNCHANGED <<born, meta, cur, hist, store, proof, arg, cfg, op, clock, crashes, acked, damage>>

WriteMetadata(out) ==
  /\ pc = "metadata"
  /\ Outcome(out)
  /\ IF Written(out) THEN files' = files \cup {"metadata"} /\ meta' = arg
                     ELSE UNCHANGED <<files, meta>>
  /\ pc' = IF out = "done" THEN "restamp" ELSE "idle"
  /\ UNCHANGED <<born, ident, cur, hist, store, proof, arg, cfg, op, clock, crashes, history>>

Restamp(out) ==
  /\ pc = "restamp"
  /\ Outcome(out)
  /\ IF Written(out) THEN ident' = [ident EXCEPT !.modified = clock + 1] /\ clock' = clock + 1
                     ELSE UNCHANGED <<ident, clock>>
  /\ seen' = IF out = "done" /\ arg # "touch"
               THEN [created |-> ident.created, modified |-> clock + 1, meta |-> meta]
               ELSE seen
  /\ pc' = "idle"
  /\ UNCHANGED <<files, born, meta, cur, hist, store, proof, arg, cfg, op, crashes, acked, damage>>

-----------------------------------------------------------------------------
(* Configuration: ACL, policy, lifecycle and versioning files are written     *)
(* without the bucket's lock, and the identity is touched under it.           *)

PutConfig(f) ==
  /\ store = "up" /\ cfg = "idle" /\ Free /\ clock < MaxClock
  /\ "dir" \in files
  /\ cfg' = f
  /\ UNCHANGED <<durable, store, proof, pc, arg, op, bounds, history>>

\* The versioning marker is touched only if its state changed.
WriteConfig(out) ==
  /\ cfg \in Sidecar
  /\ Outcome(out)
  /\ files' = IF Written(out) THEN files \cup {"dir", cfg} ELSE files
  /\ \/ out = "done" /\ cfg' = "touch"
     \/ out # "done" /\ cfg' = "idle"
     \/ out = "done" /\ cfg = "versioning" /\ cfg \in files /\ cfg' = "idle"
  /\ UNCHANGED <<born, ident, meta, cur, hist, store, proof, pc, arg, op, clock, crashes, history>>

DropConfig ==
  /\ store = "up" /\ cfg = "idle" /\ Free /\ clock < MaxClock
  /\ "config" \in files
  /\ files' = files \ {"config"}
  /\ cfg' = "touch"
  /\ UNCHANGED <<born, ident, meta, cur, hist, store, proof, pc, arg, op, bounds, history>>

-----------------------------------------------------------------------------
(* Objects.  Protection metadata is admitted before it is published.          *)

Admit(v) == proof' = IF v = "held" THEN "possible" ELSE proof

StartObject(k, kind, v) ==
  /\ store = "up" /\ op[k] = Idle /\ Free
  /\ Admit(v)
  /\ op' = [op EXCEPT ![k] = [kind |-> kind, v |-> v]]
  /\ UNCHANGED <<durable, store, pc, arg, cfg, bounds, history>>

PutObject(k, v) == "dir" \in files /\ StartObject(k, "put", v)
ReplaceMetadata(k, v) == cur[k] # "none" /\ StartObject(k, "replace", v)

\* Not the code: a promoted version's protection is not admitted.
PromoteUnadmitted(k, v) ==
  /\ store = "up" /\ op[k] = Idle /\ Free
  /\ v \in hist[k]
  /\ op' = [op EXCEPT ![k] = [kind |-> "promote", v |-> v]]
  /\ UNCHANGED <<durable, store, proof, pc, arg, cfg, bounds, history>>

\* Deleting the current version promotes the latest historical one.
DeleteVersion(k, v) == v \in hist[k] /\ StartObject(k, "promote", v)

\* The history a mutation leaves: a versioned bucket keeps what it replaces.
Kept(k) == IF "versioning" \in files /\ cur[k] # "none" THEN hist[k] \cup {cur[k]} ELSE hist[k]

PublishObject(k, out) ==
  /\ op[k] # Idle
  /\ Outcome(out)
  /\ op' = [op EXCEPT ![k] = Idle]
  /\ IF Written(out)
       THEN /\ cur' = [cur EXCEPT ![k] = op[k].v]
            /\ hist' = [hist EXCEPT ![k] = CASE op[k].kind = "put" -> Kept(k)
                                             [] op[k].kind = "promote" -> hist[k] \ {op[k].v}
                                             [] OTHER -> hist[k]]
            /\ files' = files \cup {"dir"}
       ELSE UNCHANGED <<cur, hist, files>>
  /\ UNCHANGED <<born, ident, meta, store, proof, pc, arg, cfg, clock, crashes, history>>

\* delete_object, and delete_object_version where nothing is promoted.
DeleteObject(k, out) ==
  /\ store = "up" /\ op[k] = Idle /\ Free
  /\ cur[k] # "none"
  /\ Outcome(out)
  /\ IF Written(out) THEN cur' = [cur EXCEPT ![k] = "none"] /\ hist' = [hist EXCEPT ![k] = Kept(k)]
                     ELSE UNCHANGED <<cur, hist>>
  /\ UNCHANGED <<files, born, ident, meta, store, proof, control, clock, crashes, history>>

DeleteHistory(k, out) ==
  /\ store = "up" /\ op[k] = Idle /\ Free
  /\ Outcome(out)
  /\ \E v \in hist[k] : hist' = IF Written(out) THEN [hist EXCEPT ![k] = @ \ {v}] ELSE hist
  /\ UNCHANGED <<files, born, ident, meta, cur, store, proof, control, clock, crashes, history>>

-----------------------------------------------------------------------------
(* Process death and startup.                                                 *)

\* Dying inside an atomic_write leaves its temporary file.
Writing == pc \in {"identity", "derive", "metadata", "restamp"} \/ cfg \in Sidecar

Crash ==
  /\ store = "up" /\ crashes < MaxCrashes /\ crashes' = crashes + 1
  /\ store' = "down" /\ proof' = "unknown"
  /\ pc' = "idle" /\ cfg' = "idle" /\ op' = [k \in Key |-> Idle]
  /\ \E left \in SUBSET Temporary :
       /\ "nameTmp" \in left => pc = "name"
       /\ "otherTmp" \in left => Writing
       /\ files' = IF left = {} THEN files ELSE files \cup {"dir"} \cup left
  /\ damage' = IF pc = "remove" THEN damage \cup {"removal"} ELSE damage
  /\ UNCHANGED <<born, ident, meta, cur, hist, arg, clock, errors, acked, seen>>

Nameless == "dir" \in files /\ "name" \notin files
\* Not the code: only an empty directory counts as uncommitted.
UncommittedEmpty == files = {"dir"} /\ \A k \in Key : ~Stored(k)

Uncommitted == files \subseteq {"dir", "nameTmp"} /\ \A k \in Key : ~Stored(k)

\* recover_uncommitted_bucket, or the refusal to start.
RecoverNameless ==
  /\ store # "up" /\ Nameless
  /\ IF Uncommitted THEN /\ files' = {} /\ damage' = {} /\ UNCHANGED store
                    ELSE /\ store' = "refused" /\ UNCHANGED <<files, damage>>
  /\ UNCHANGED <<born, ident, meta, cur, hist, proof, control, bounds, acked, seen>>

\* The proof is rebuilt from the metadata of the recovered current objects.
Open ==
  /\ store # "up" /\ ~Nameless
  /\ store' = "up"
  /\ proof' = CASE "dir" \notin files -> "unknown"
                [] \E k \in Key : cur[k] = "held" -> "possible"
                [] OTHER -> "absent"
  /\ UNCHANGED <<durable, control, bounds, history>>

-----------------------------------------------------------------------------
BucketStep ==
  \/ FinishCreate \/ DeleteBucket \/ RemoveDirectory \/ RemoveFails
  \/ \E out \in Outcomes : CreateBucket(out) \/ WriteName(out) \/ WriteIdentity(out)
                           \/ DeriveIdentity(out) \/ WriteMetadata(out) \/ Restamp(out)
  \/ \E f \in File : RemoveFile(f)
  \/ \E k \in Key : RemoveObject(k)
  \/ \E a \in Metadata \cup {"read", "touch"} : ReadIdentity(a)

ConfigStep ==
  \/ DropConfig
  \/ \E f \in Sidecar : PutConfig(f)
  \/ \E out \in Outcomes : WriteConfig(out)

ObjectStep ==
  \E k \in Key :
    \/ \E v \in Value : PutObject(k, v) \/ ReplaceMetadata(k, v) \/ DeleteVersion(k, v)
    \/ \E out \in Outcomes : PublishObject(k, out) \/ DeleteObject(k, out) \/ DeleteHistory(k, out)

Next == BucketStep \/ ConfigStep \/ ObjectStep \/ Crash \/ RecoverNameless \/ Open

Spec == Init /\ [][Next]_vars

-----------------------------------------------------------------------------
(* Every variable has its type.                                               *)
TypeOK ==
  /\ files \subseteq File /\ born \in Nat
  /\ ident \in [created : Nat \cup {-1}, modified : Nat \cup {-1}] /\ meta \in Metadata
  /\ cur \in [Key -> Value \cup {"none"}] /\ hist \in [Key -> SUBSET Value]
  /\ store \in {"up", "down", "refused"} /\ proof \in {"unknown", "absent", "possible"}
  /\ pc \in {"idle", "name", "identity", "finish", "remove", "derive", "metadata", "restamp"}
  /\ arg \in Metadata \cup {"read", "touch", "delete", "rollback"}
  /\ pc = "metadata" => arg \in Metadata
  /\ cfg \in {"idle", "touch"} \cup Sidecar
  /\ op \in [Key -> [kind : {"idle", "put", "replace", "promote"}, v : Value]]
  /\ clock \in Nat /\ errors \in 0..MaxErrors /\ crashes \in 0..MaxCrashes
  /\ acked \in BOOLEAN
  /\ seen \in [created : Nat \cup {-1}, modified : Nat \cup {-1}, meta : Metadata]
  /\ damage \subseteq {"nameless", "removal"}

(* The absence proof that lets S3 and GCS skip the scan for leases and holds  *)
(* is never wrong: not while a creation finishes late beside a protected      *)
(* write, not after a failed or half-committed write, a promotion from        *)
(* history, a bucket deleted and made again, or a restart.                    *)
AbsenceSound == proof = "absent" => \A k \in Key : cur[k] # "held"

(* A bucket whose creation was acknowledged keeps its name and its identity   *)
(* through every error, crash and restart until its deletion begins.          *)
CommittedStays == acked => {"dir", "name", "identity"} \subseteq files

(* The creation time a client was told never changes while the bucket lives:  *)
(* GCS cancellation decisions tell a bucket from its successor by it.         *)
IdentityStable == seen # NotSeen => "identity" \in files /\ ident.created = seen.created

(* Startup refuses the data root only if a bucket's removal was cut short or  *)
(* its name could not be written; no other crash or error has that effect.    *)
RefusesOnlyDamaged == store = "refused" => damage # {}
=============================================================================
