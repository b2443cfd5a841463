------------------------------ MODULE Namespace ------------------------------
(***************************************************************************)
(* The bucket namespace that the S3, Azure, GCS and OCI front doors share. *)
(* One bucket name is modelled: whether it exists, its versioning marker,  *)
(* the data-protection metadata each provider keeps in it, the current     *)
(* object and the version history of every key, and the clock.             *)
(*                                                                         *)
(* Every provider request, lifecycle pass and admin request owns the       *)
(* operation gate of the store from its first read to its last write, so a *)
(* request is one step.  What is not atomic is its list of durable         *)
(* effects: an I/O error or a crash may end it after any prefix of them    *)
(* (Serve below).  Each single effect is atomic, which is what             *)
(* Publication.tla and ObjectHistory.tla establish.                        *)
(***************************************************************************)
EXTENDS Integers, Sequences, FiniteSetsExt

CONSTANTS
    Blobs,          \* names of ordinary objects (model values)
    SnapTimes,      \* timestamps a snapshot may get
    LeaseIds,       \* Azure lease identities
    MaxTime,        \* the clock stops here (bound)
    MaxWrites,      \* object generations and markers created (bound)
    Scenes          \* what a behaviour is about; each uses one of them

\* A scene: the request kinds, the object names and the number of generations
\* that its behaviours draw on (bounds).
ASSUME NamespaceAssumption ==
    /\ MaxTime \in Nat /\ MaxWrites \in Nat
    /\ \A s \in Scenes : s.names \subseteq Blobs /\ s.writes \in 0 .. MaxWrites
    /\ Blobs \cap (Blobs \X SnapTimes) = {}

\* An Azure snapshot is an ordinary object under a reserved storage key.
Snaps == Blobs \X SnapTimes
Keys == Blobs \cup Snaps
SnapsOf(k) == {s \in Snaps : s[1] = k}

VARIABLES
    bucket,         \* the bucket and everything stored in it
    deletion,       \* Azure's durable container-deletion record (purge_after)
    now,            \* the clock
    writes,         \* the last generation handed out
    scene,          \* the scene of this behaviour (constant)
    caller          \* whose request changed something last: [door, cred]

nsPlaces == <<bucket, deletion, now, writes, scene>>
nsvars == <<nsPlaces, caller>>

NoLease == "none"
NoDeletion == -1
NoVid == -1                                  \* stored without a version id
NullVid == 0                                 \* the "null" version

(***************************************************************************)
(* A stored generation.  Of the metadata only what some front door acts on *)
(* is kept: the Azure lease, hold and immutability policy, the S3 Object   *)
(* Lock hold and date, and the GCS generation numbers.                     *)
(***************************************************************************)
NoObject ==
    [g |-> 0, at |-> 0, vid |-> NoVid, marker |-> FALSE, kind |-> "block",
     lease |-> NoLease, hold |-> FALSE, policy |-> "none", until |-> 0,
     s3hold |-> FALSE, s3until |-> 0, gen |-> 0, meta |-> 0]

\* Object::new: fresh bytes, no protection.
Fresh(g) == [NoObject EXCEPT !.g = g, !.at = now]

Modes == {"disabled", "enabled", "suspended"}

NoBucket ==
    [exists |-> FALSE, ver |-> "disabled", azVersioning |-> FALSE, azSoft |-> FALSE,
     s3 |-> "none", s3Lock |-> FALSE, gcsSoft |-> FALSE, gcsRetention |-> 0,
     uploads |-> {},
     cur |-> [k \in Keys |-> NoObject], hist |-> [k \in Keys |-> {}]]

EmptyBucket == [NoBucket EXCEPT !.exists = TRUE]

(***************************************************************************)
(* Storage operations, as functions from a bucket to the bucket after it.  *)
(***************************************************************************)
Versioned(o) == IF o.vid = NoVid THEN [o EXCEPT !.vid = NullVid] ELSE o

\* The generation that a put or a delete copies into history first.
KeptByWrite(b, k) ==
    LET c == b.cur[k]
    IN IF c.g # 0 /\ (b.ver = "enabled" \/ (b.ver = "suspended" /\ Versioned(c).vid # NullVid))
       THEN {Versioned(c)} ELSE {}

HistoryAfterWrite(b, k) ==
    LET all == b.hist[k] \cup KeptByWrite(b, k)
    IN IF b.ver = "suspended" THEN {v \in all : v.vid # NullVid} ELSE all

VidFor(b, g) == CASE b.ver = "enabled" -> g [] b.ver = "suspended" -> NullVid [] OTHER -> NoVid

\* put_object: the new generation becomes current.
Put(b, k, o) ==
    [b EXCEPT !.cur[k] = [o EXCEPT !.vid = VidFor(b, o.g)],
              !.hist[k] = HistoryAfterWrite(b, k)]

\* delete_object: a versioned bucket keeps a delete marker with identity g.
Delete(b, k, g) ==
    IF b.ver = "disabled"
    THEN [b EXCEPT !.cur[k] = NoObject]
    ELSE [b EXCEPT !.cur[k] = NoObject,
                   !.hist[k] = HistoryAfterWrite(b, k) \cup
                                 {[Fresh(g) EXCEPT !.marker = TRUE, !.vid = VidFor(b, g)]}]

\* delete_object of several keys, one after another.
DeleteAll(b, ks, g) ==
    [b EXCEPT !.cur = [k \in Keys |-> IF k \in ks THEN NoObject ELSE b.cur[k]],
              !.hist = [k \in Keys |-> IF k \in ks THEN Delete(b, k, g).hist[k] ELSE b.hist[k]]]

\* Every generation of the key that has a version id.
VersionsOf(b, k) == b.hist[k] \cup {c \in {b.cur[k]} : c.g # 0 /\ c.vid # NoVid}

\* delete_object_version for one version after another, in any order: if the
\* current one was among them, or nothing is current, the most recent remaining
\* generation becomes current unless it is a marker.  What is promoted on the way
\* and stays is the most recent of what remains, so the order does not matter.
\* Generations of equal age are ordered by random identities.
DeleteVersions(b, k, vids) ==
    LET current == b.cur[k].g # 0 /\ b.cur[k].vid \in vids
        left == {o \in VersionsOf(b, k) : o.vid \notin vids}
        latest == {o \in left : \A p \in left : p.at <= o.at}
        rest == {o \in b.hist[k] : o.vid \notin vids}
        With(c, h) == [b EXCEPT !.cur = [x \in Keys |-> IF x = k THEN c ELSE b.cur[x]],
                                !.hist = [x \in Keys |-> IF x = k THEN h ELSE b.hist[x]]]
        purged == With(IF current THEN NoObject ELSE b.cur[k], rest)
    IN IF vids = {} THEN {b}
       ELSE IF ~(current \/ b.cur[k].g = 0) \/ left = {}
       THEN {purged}
       ELSE {IF o.marker THEN purged ELSE With(o, rest \ {o}) : o \in latest}

DeleteVersion(b, k, v) == DeleteVersions(b, k, {v})

\* enable_versioning / suspend_versioning; unversioned objects become "null".
SetVersioning(b, mode) ==
    [b EXCEPT !.ver = mode,
              !.cur = [k \in Keys |-> IF b.cur[k].g # 0 THEN Versioned(b.cur[k]) ELSE NoObject]]

\* replace_object_metadata_if_unchanged: same generation, other metadata.
Touch(b, k, o) == [b EXCEPT !.cur[k] = o]

Has(b, k) == b.exists /\ b.cur[k].g # 0

\* delete_bucket refuses while an object, a version or an upload is stored.
Deletable(b) == b.exists /\ b.uploads = {} /\ \A k \in Keys : b.cur[k].g = 0 /\ b.hist[k] = {}

Current(b) == {b.cur[k] : k \in {x \in Keys : b.cur[x].g # 0}}
Stored(b) == Current(b) \cup UNION {b.hist[k] : k \in Keys}

(***************************************************************************)
(* Protection, as each front door reads it.                                *)
(***************************************************************************)
AzureImmutable(o) == o.hold \/ (o.policy # "none" /\ o.until > now)

\* object_has_active_azure_protection: immutable, or under a lease.
AzureProtected(o) == AzureImmutable(o) \/ o.lease # NoLease

\* Only the CURRENT objects of the bucket are asked.
AzureActive(b) == b.exists /\ \E o \in Current(b) : AzureProtected(o)

S3Locked(o) == o.s3hold \/ o.s3until > now

GcsRetained(b, o) == b.gcsRetention > 0 /\ now - o.at < b.gcsRetention

AzureHistoryMode(b) == b.azVersioning \/ b.azSoft
S3HistoryMode(b) == b.s3 # "none" \/ b.s3Lock
GcsHistoryMode(b) == b.gcsSoft \/ b.gcsRetention > 0

(***************************************************************************)
(* Requests.  A request that is refused changes nothing and is not a step. *)
(* One that is admitted goes through effects, the sequence of buckets its  *)
(* durable writes produce; Serve commits a prefix of it.  A prefix that is *)
(* not the whole is an I/O error or a crash on the way.                    *)
(***************************************************************************)
Asked(kind) == kind \in scene.asks
Names == scene.names

\* Conditional headers: none, "the object I read is still current", "absent".
Conditions == IF Asked("conditions") THEN {"none", "match", "missing"} ELSE {"none"}
Holds(cond, exists) == (cond = "match" => exists) /\ (cond = "missing" => ~exists)

\* The door and the credential that matters there: a lease id or a PAR token.
By(door, cred) == caller' = [door |-> door, cred |-> cred]

Serve(door, cred, effects) ==
    /\ \E n \in 1 .. Len(effects) : bucket' = effects[n]
    /\ By(door, cred)

\* The request may create n generations.
Room(n) == writes + n <= scene.writes
Uses(n) == Room(n) /\ writes' = writes + n

Tick ==
    /\ now < MaxTime
    /\ now' = now + 1
    /\ By("clock", NoLease)
    /\ UNCHANGED <<bucket, deletion, writes, scene>>

NamespaceInit ==
    /\ bucket = NoBucket
    /\ deletion = NoDeletion
    /\ now = 1
    /\ writes = 0
    /\ scene \in Scenes
    /\ caller = [door |-> "clock", cred |-> NoLease]
=============================================================================
