-------------------------- MODULE FrontDoorsProofs --------------------------
(***************************************************************************)
(* Proofs about the front doors on one bucket name, for every set of blobs,*)
(* leases, tokens and scenes and every bound, about injected faults, and   *)
(* about the repeatable sends of the mail door.                            *)
(***************************************************************************)
EXTENDS FrontDoors, Faults, EmailRepeat, FiniteSetTheorems, TLAPS

(***************************************************************************)
(* The inductive invariant.  Its parts take the time and the scene as      *)
(* arguments, so that they say of a successor state what they say of a     *)
(* state.                                                                  *)
(***************************************************************************)
Kinds == {"block", "append", "page"}
Policies == {"none", "unlocked", "locked"}
Statuses == {"none", "Enabled", "Suspended"}

Objects ==
    [g : Nat, at : Nat, vid : Int, marker : BOOLEAN, kind : Kinds,
     lease : Leases, hold : BOOLEAN, policy : Policies, until : Nat,
     s3hold : BOOLEAN, s3until : Nat, gen : Nat, meta : Nat]

Histories == SUBSET {o \in Objects : o.g # 0}

Buckets ==
    [exists : BOOLEAN, ver : Modes, azVersioning : BOOLEAN, azSoft : BOOLEAN,
     s3 : Statuses, s3Lock : BOOLEAN, gcsSoft : BOOLEAN, gcsRetention : Nat,
     uploads : SUBSET Blobs, cur : [Keys -> Objects], hist : [Keys -> Histories]]

\* The state of the shared namespace has its type.
NamespaceTypeOK ==
    /\ bucket \in Buckets
    /\ deletion \in Int
    /\ now \in Nat
    /\ writes \in Nat
    /\ scene \in Scenes

\* The MCP tools that check now and act later are kept apart from protection.
Apart(s) == "mcp" \in s.asks => s.asks \cap {"lease", "worm", "s3Lock", "gcsProtect"} = {}

\* AzureImmutable at time t.
ImmutableAt(o, t) == o.hold \/ (o.policy # "none" /\ o.until > t)

\* What is stored under k, a placeholder when nothing is current.
Under(b, k) == b.hist[k] \cup {b.cur[k]}

\* Version ids: none before versioning, then one for every generation, each its
\* own and not above the last number handed out.
Numbered(b, k, w) ==
    /\ b.cur[k].g = 0 => b.cur[k] = NoObject
    /\ b.cur[k].g # 0 => (b.cur[k].vid = NoVid <=> b.ver = "disabled")
    /\ b.ver = "disabled" => b.hist[k] = {}
    /\ \A o \in b.hist[k] : o.vid # NoVid
    /\ \A o, p \in b.hist[k] : o.vid = p.vid => o = p
    /\ b.cur[k].g # 0 => \A o \in b.hist[k] : o.vid # b.cur[k].vid
    /\ \A o \in Under(b, k) : o.vid <= w

\* No immutable generation is in a history that Azure does not own.
Owned(b, k, t) == (\E o \in b.hist[k] : ImmutableAt(o, t)) => AzureHistoryMode(b)

\* Object Lock is on generations of buckets with Object Lock.
Locked(b, k) == \A o \in Under(b, k) : o.s3hold \/ o.s3until > 0 => b.s3Lock

\* A snapshot in a bucket whose history Azure does not own has no version id of
\* its own.
Plain(b, k) ==
    /\ b.cur[k].g # 0 => b.cur[k].vid \in {NoVid, NullVid}
    /\ \A o \in b.hist[k] : ~o.marker => o.vid = NullVid

\* The leases, holds and policies that the scene does not ask for are not there.
Unasked(b, k, s) ==
    /\ "lease" \notin s.asks => \A o \in Under(b, k) : o.lease = NoLease
    /\ "worm" \notin s.asks => \A o \in Under(b, k) : ~o.hold /\ o.policy = "none"

\* A recorded deletion (d) meets nothing that is immutable.
Calm(b, k, d, t) == d # NoDeletion => \A o \in Under(b, k) : ~ImmutableAt(o, t)

KeyOK(b, k, w, d, t, s) ==
    /\ Numbered(b, k, w)
    /\ Apart(s) => Owned(b, k, t)
    /\ Locked(b, k)
    /\ k \in Snaps /\ ~AzureHistoryMode(b) => Plain(b, k)
    /\ Unasked(b, k, s)
    /\ Calm(b, k, d, t)

\* One provider owns the history; a history that Azure owns is versioned until
\* its container is purged.
ModeOK(b, d, s) ==
    /\ AzureHistoryMode(b) => ~S3HistoryMode(b) /\ ~GcsHistoryMode(b)
    /\ S3HistoryMode(b) => ~GcsHistoryMode(b)
    /\ d = NoDeletion /\ AzureHistoryMode(b) => b.ver = "enabled"
    /\ "s3Lock" \notin s.asks => ~b.s3Lock
    /\ "gcsProtect" \notin s.asks => b.gcsRetention = 0

\* A bucket that does not exist holds nothing.
Absent(b) == ~b.exists => b = NoBucket

Good(b, w, d, t, s) ==
    /\ Absent(b)
    /\ ModeOK(b, d, s)
    /\ \A k \in Keys : KeyOK(b, k, w, d, t, s)

\* An MCP tool has checked only in a scene that asks for it.
PendingOK(p, s) == p # NoPending => "mcp" \in s.asks /\ p.key \in s.names

DoorsInv ==
    /\ NamespaceTypeOK
    /\ Good(bucket, writes, deletion, now, scene)
    /\ PendingOK(pending, scene)

(***************************************************************************)
(* What the storage operations do.                                         *)
(***************************************************************************)
\* The fields of a bucket besides the objects and the uploads.
SameModes(b, c) ==
    /\ c.exists = b.exists /\ c.ver = b.ver
    /\ c.azVersioning = b.azVersioning /\ c.azSoft = b.azSoft
    /\ c.s3 = b.s3 /\ c.s3Lock = b.s3Lock
    /\ c.gcsSoft = b.gcsSoft /\ c.gcsRetention = b.gcsRetention

\* Nothing but what is stored under k has changed.
OnlyAt(b, c, k) ==
    /\ SameModes(b, c) /\ c.uploads = b.uploads
    /\ \A j \in Keys \ {k} : c.cur[j] = b.cur[j] /\ c.hist[j] = b.hist[j]

\* The placeholder is typed.
LEMMA NoObjectType ==
    /\ NoObject \in Objects /\ NoObject.g = 0 /\ NoObject.lease = NoLease
    /\ NoObject.hold = FALSE /\ NoObject.policy = "none" /\ NoObject.marker = FALSE
    /\ NoObject.s3hold = FALSE /\ NoObject.s3until = 0
  BY DEF NoObject, Objects, NoVid, NoLease, Leases, Kinds, Policies

\* Object::new is typed and unprotected.
LEMMA FreshType ==
    ASSUME now \in Nat, NEW g \in Nat
    PROVE  /\ Fresh(g) \in Objects /\ Fresh(g).g = g /\ Fresh(g).at = now
           /\ Fresh(g).lease = NoLease /\ ~Fresh(g).hold /\ Fresh(g).policy = "none"
           /\ ~Fresh(g).s3hold /\ Fresh(g).s3until = 0 /\ ~Fresh(g).marker
  <1>1. Fresh(g) = [NoObject EXCEPT !.g = g, !.at = now]  BY DEF Fresh
  <1>2. /\ Fresh(g) \in Objects /\ Fresh(g).g = g /\ Fresh(g).at = now
        /\ Fresh(g).lease = NoLease /\ Fresh(g).hold = FALSE /\ Fresh(g).policy = "none"
        /\ Fresh(g).s3hold = FALSE /\ Fresh(g).s3until = 0 /\ Fresh(g).marker = FALSE
    BY <1>1, NoObjectType DEF Objects
  <1> QED  BY <1>2

\* A bucket that has just been created, and one that is not there, are typed.
LEMMA NoBucketType == NoBucket \in Buckets /\ EmptyBucket \in Buckets
  BY NoObjectType DEF NoBucket, EmptyBucket, Buckets, Modes, Statuses, Histories

\* The fields of a bucket are typed.
LEMMA BucketFields ==
    ASSUME NEW b \in Buckets
    PROVE  /\ b.exists \in BOOLEAN /\ b.ver \in Modes /\ b.azVersioning \in BOOLEAN
           /\ b.azSoft \in BOOLEAN /\ b.s3 \in Statuses /\ b.s3Lock \in BOOLEAN
           /\ b.gcsSoft \in BOOLEAN /\ b.gcsRetention \in Nat /\ b.uploads \subseteq Blobs
           /\ b.cur \in [Keys -> Objects] /\ b.hist \in [Keys -> Histories]
           /\ \A k \in Keys : b.cur[k] \in Objects
           /\ \A k \in Keys : b.hist[k] \subseteq Objects /\ \A o \in b.hist[k] : o.g # 0
           /\ \A k \in Keys : Under(b, k) \subseteq Objects
  BY DEF Buckets, Histories, Under

\* A generation that history keeps is the generation, at most renamed "null".
LEMMA VersionedIs ==
    ASSUME NEW o \in Objects
    PROVE  /\ Versioned(o) \in Objects
           /\ Versioned(o).g = o.g /\ Versioned(o).at = o.at /\ Versioned(o).marker = o.marker
           /\ Versioned(o).lease = o.lease /\ Versioned(o).hold = o.hold
           /\ Versioned(o).policy = o.policy /\ Versioned(o).until = o.until
           /\ Versioned(o).s3hold = o.s3hold /\ Versioned(o).s3until = o.s3until
           /\ Versioned(o).vid = IF o.vid = NoVid THEN NullVid ELSE o.vid
           /\ o.vid # NoVid => Versioned(o) = o
  BY DEF Versioned, Objects, NoVid, NullVid

\* A generation that a write does not copy into history.
Dropped(b, k) == b.ver # "enabled" /\ b.cur[k].vid \in {NoVid, NullVid}

\* What a write leaves in history is what was there or the current generation.
LEMMA HistoryIs ==
    ASSUME NEW b \in Buckets, NEW k \in Keys
    PROVE  /\ HistoryAfterWrite(b, k) \in Histories
           /\ HistoryAfterWrite(b, k) \subseteq b.hist[k] \cup {Versioned(b.cur[k])}
           /\ b.ver = "enabled" => b.hist[k] \subseteq HistoryAfterWrite(b, k)
           /\ b.ver = "enabled" /\ b.cur[k].g # 0 => Versioned(b.cur[k]) \in HistoryAfterWrite(b, k)
           /\ b.ver = "disabled" => HistoryAfterWrite(b, k) = b.hist[k]
           /\ b.ver = "suspended" => \A o \in HistoryAfterWrite(b, k) : o.vid # NullVid
           /\ b.cur[k].g = 0 \/ Dropped(b, k) => HistoryAfterWrite(b, k) \subseteq b.hist[k]
           /\ \A o \in b.hist[k] : o.vid # NoVid /\ Survives(b, o) => o \in HistoryAfterWrite(b, k)
           /\ b.cur[k].g # 0 /\ Survives(b, b.cur[k])
                => Versioned(b.cur[k]) \in HistoryAfterWrite(b, k)
  <1>1. b.cur[k] \in Objects /\ b.hist[k] \in Histories  BY BucketFields DEF Buckets
  <1>2. Versioned(b.cur[k]) \in Objects /\ Versioned(b.cur[k]).g = b.cur[k].g  BY <1>1, VersionedIs
  <1>3. Versioned(b.cur[k]).vid = IF b.cur[k].vid = NoVid THEN NullVid ELSE b.cur[k].vid
    BY <1>1, VersionedIs
  <1>4. \A o \in b.hist[k] : o.vid # NoVid => Versioned(o) = o
    BY <1>1, VersionedIs DEF Histories
  <1>5. /\ \A o \in b.hist[k] : o.vid # NoVid /\ Survives(b, o) => o \in HistoryAfterWrite(b, k)
        /\ b.cur[k].g # 0 /\ Survives(b, b.cur[k])
             => Versioned(b.cur[k]) \in HistoryAfterWrite(b, k)
    BY <1>1, <1>2, <1>3, <1>4 DEF HistoryAfterWrite, KeptByWrite, Survives
  <1> QED  BY <1>1, <1>2, <1>3, <1>5 DEF HistoryAfterWrite, KeptByWrite, Histories, Dropped

\* put_object replaces what is current under its key, and nothing else.
LEMMA PutIs ==
    ASSUME NEW b \in Buckets, NEW k \in Keys, NEW o \in Objects, o.g # 0
    PROVE  /\ Put(b, k, o) \in Buckets
           /\ OnlyAt(b, Put(b, k, o), k)
           /\ Put(b, k, o).cur[k] = [o EXCEPT !.vid = VidFor(b, o.g)]
           /\ Put(b, k, o).hist[k] = HistoryAfterWrite(b, k)
  <1>1. HistoryAfterWrite(b, k) \in Histories  BY HistoryIs
  <1> DEFINE new == [o EXCEPT !.vid = VidFor(b, o.g)]
             h == HistoryAfterWrite(b, k)
  <1>2. new \in Objects
    BY DEF Objects, VidFor, NoVid, NullVid
  <1>3. h \in Histories  BY <1>1
  <1>4. Put(b, k, o) = [b EXCEPT !.cur[k] = new, !.hist[k] = h]  BY DEF Put
  <1> HIDE DEF new, h
  <1>5. /\ [b EXCEPT !.cur[k] = new, !.hist[k] = h] \in Buckets
        /\ OnlyAt(b, [b EXCEPT !.cur[k] = new, !.hist[k] = h], k)
        /\ [b EXCEPT !.cur[k] = new, !.hist[k] = h].cur[k] = new
        /\ [b EXCEPT !.cur[k] = new, !.hist[k] = h].hist[k] = h
    BY <1>2, <1>3 DEF Buckets, OnlyAt, SameModes
  <1> QED  BY <1>4, <1>5 DEF new, h

\* The delete marker that a delete leaves in a versioned bucket.
Marker(b, g) == [Fresh(g) EXCEPT !.marker = TRUE, !.vid = VidFor(b, g)]

\* A delete marker is typed and unprotected.
LEMMA MarkerIs ==
    ASSUME now \in Nat, NEW g \in Nat, NEW b \in Buckets
    PROVE  /\ Marker(b, g) \in Objects /\ Marker(b, g).g = g /\ Marker(b, g).marker
           /\ Marker(b, g).vid = VidFor(b, g) /\ Marker(b, g).at = now
           /\ Marker(b, g).lease = NoLease /\ ~Marker(b, g).hold /\ Marker(b, g).policy = "none"
           /\ ~Marker(b, g).s3hold /\ Marker(b, g).s3until = 0
  <1>1. VidFor(b, g) \in Int  BY DEF VidFor, NoVid, NullVid
  <1>2. Fresh(g) \in Objects  BY FreshType
  <1>3. Marker(b, g) = [Fresh(g) EXCEPT !.marker = TRUE, !.vid = VidFor(b, g)]  BY DEF Marker
  <1>4. /\ Fresh(g).g = g /\ Fresh(g).at = now /\ Fresh(g).lease = NoLease
        /\ Fresh(g).hold = FALSE /\ Fresh(g).policy = "none"
        /\ Fresh(g).s3hold = FALSE /\ Fresh(g).s3until = 0
    BY <1>2, FreshType DEF Objects
  <1>5. /\ Marker(b, g) \in Objects /\ Marker(b, g).g = g /\ Marker(b, g).marker = TRUE
        /\ Marker(b, g).vid = VidFor(b, g) /\ Marker(b, g).at = now
        /\ Marker(b, g).lease = NoLease /\ Marker(b, g).hold = FALSE /\ Marker(b, g).policy = "none"
        /\ Marker(b, g).s3hold = FALSE /\ Marker(b, g).s3until = 0
    BY <1>1, <1>2, <1>3, <1>4 DEF Objects
  <1> QED  BY <1>5

\* What deleting leaves in the history of a key.
HistoryAfterDelete(b, k, g) ==
    IF b.ver = "disabled" THEN b.hist[k] ELSE HistoryAfterWrite(b, k) \cup {Marker(b, g)}

\* delete_object of a set of keys removes what is current under them.
LEMMA DeleteAllIs ==
    ASSUME now \in Nat, NEW b \in Buckets, NEW ks \in SUBSET Keys, NEW g \in Nat, g # 0
    PROVE  /\ DeleteAll(b, ks, g) \in Buckets
           /\ SameModes(b, DeleteAll(b, ks, g)) /\ DeleteAll(b, ks, g).uploads = b.uploads
           /\ \A k \in Keys \ ks : /\ DeleteAll(b, ks, g).cur[k] = b.cur[k]
                                   /\ DeleteAll(b, ks, g).hist[k] = b.hist[k]
           /\ \A k \in ks : /\ DeleteAll(b, ks, g).cur[k] = NoObject
                            /\ DeleteAll(b, ks, g).hist[k] = HistoryAfterDelete(b, k, g)
  <1> DEFINE c == [k \in Keys |-> IF k \in ks THEN NoObject ELSE b.cur[k]]
             h == [k \in Keys |-> IF k \in ks THEN HistoryAfterDelete(b, k, g) ELSE b.hist[k]]
             d == [k \in Keys |-> IF k \in ks THEN Delete(b, k, g).hist[k] ELSE b.hist[k]]
  <1>1. \A k \in Keys : Delete(b, k, g).hist[k] = HistoryAfterDelete(b, k, g)
    <2> TAKE k \in Keys
    <2> DEFINE n == HistoryAfterWrite(b, k) \cup {Marker(b, g)}
    <2>1. Delete(b, k, g) = IF b.ver = "disabled" THEN [b EXCEPT !.cur[k] = NoObject]
                            ELSE [b EXCEPT !.cur[k] = NoObject, !.hist[k] = n]
      BY DEF Delete, Marker
    <2> HIDE DEF n
    <2>2. /\ [b EXCEPT !.cur[k] = NoObject].hist[k] = b.hist[k]
          /\ [b EXCEPT !.cur[k] = NoObject, !.hist[k] = n].hist[k] = n
      BY DEF Buckets
    <2> QED  BY <2>1, <2>2 DEF HistoryAfterDelete, n
  <1>2. d = h  BY <1>1
  <1>3. DeleteAll(b, ks, g) = [b EXCEPT !.cur = c, !.hist = h]
    <2>1. DeleteAll(b, ks, g) = [b EXCEPT !.cur = c, !.hist = d]  BY DEF DeleteAll
    <2> QED  BY <2>1, <1>2
  <1>4. c \in [Keys -> Objects]  BY NoObjectType, BucketFields
  <1>5. h \in [Keys -> Histories]
    <2>1. \A k \in Keys : HistoryAfterDelete(b, k, g) \in Histories
      <3> TAKE k \in Keys
      <3>1. HistoryAfterWrite(b, k) \in Histories /\ b.hist[k] \in Histories  BY HistoryIs, BucketFields
      <3>2. Marker(b, g) \in Objects /\ Marker(b, g).g = g  BY MarkerIs
      <3> QED  BY <3>1, <3>2 DEF HistoryAfterDelete, Histories
    <2> QED  BY <2>1, BucketFields
  <1>6. /\ \A k \in Keys : k \notin ks => c[k] = b.cur[k] /\ h[k] = b.hist[k]
        /\ \A k \in ks : c[k] = NoObject /\ h[k] = HistoryAfterDelete(b, k, g)
    OBVIOUS
  <1> HIDE DEF c, h, d
  <1>7. /\ [b EXCEPT !.cur = c, !.hist = h] \in Buckets
        /\ SameModes(b, [b EXCEPT !.cur = c, !.hist = h])
        /\ [b EXCEPT !.cur = c, !.hist = h].uploads = b.uploads
        /\ [b EXCEPT !.cur = c, !.hist = h].cur = c
        /\ [b EXCEPT !.cur = c, !.hist = h].hist = h
    BY <1>4, <1>5 DEF Buckets, SameModes
  <1> QED  BY <1>3, <1>6, <1>7

\* delete_object of one key.
LEMMA DeleteIs ==
    ASSUME now \in Nat, NEW b \in Buckets, NEW k \in Keys, NEW g \in Nat, g # 0
    PROVE  Delete(b, k, g) = DeleteAll(b, {k}, g)
  <1> DEFINE n == HistoryAfterWrite(b, k) \cup {Marker(b, g)}
  <1>1. Delete(b, k, g) = IF b.ver = "disabled" THEN [b EXCEPT !.cur[k] = NoObject]
                          ELSE [b EXCEPT !.cur[k] = NoObject, !.hist[k] = n]
    BY DEF Delete, Marker
  <1> DEFINE d == Delete(b, k, g)
             c == [j \in Keys |-> IF j \in {k} THEN NoObject ELSE b.cur[j]]
             h == [j \in Keys |-> IF j \in {k} THEN d.hist[j] ELSE b.hist[j]]
             h2 == [j \in Keys |-> IF j \in {k} THEN Delete(b, j, g).hist[j] ELSE b.hist[j]]
  <1>2. h = h2  OBVIOUS
  <1>3. DeleteAll(b, {k}, g) = [b EXCEPT !.cur = c, !.hist = h]
    <2>1. DeleteAll(b, {k}, g) = [b EXCEPT !.cur = c, !.hist = h2]  BY DEF DeleteAll
    <2> QED  BY <2>1, <1>2
  <1> HIDE DEF n
  <1>4. d.cur = c /\ d.hist = h /\ d = [b EXCEPT !.cur = d.cur, !.hist = d.hist]
    <2>1. CASE b.ver = "disabled"
      <3>1. d = [b EXCEPT !.cur[k] = NoObject]  BY <1>1, <2>1
      <3> HIDE DEF d
      <3> QED  BY <3>1 DEF Buckets
    <2>2. CASE b.ver # "disabled"
      <3>1. d = [b EXCEPT !.cur[k] = NoObject, !.hist[k] = n]  BY <1>1, <2>2
      <3> HIDE DEF d
      <3> QED  BY <3>1 DEF Buckets
    <2> QED  BY <2>1, <2>2
  <1> HIDE DEF d, c, h
  <1>5. d = [b EXCEPT !.cur = c, !.hist = h]  BY <1>4
  <1> QED  BY <1>3, <1>5 DEF d

\* delete_object_version of a set of versions: what is left of them stays, and
\* the key is current with what it was, with nothing, or with what was promoted.
LEMMA DeleteVersionsIs ==
    ASSUME NEW b \in Buckets, NEW k \in Keys, NEW vids, NEW c \in DeleteVersions(b, k, vids)
    PROVE  /\ c \in Buckets
           /\ OnlyAt(b, c, k)
           /\ Under(c, k) \subseteq Under(b, k) \cup {NoObject}
           /\ c.hist[k] \subseteq b.hist[k]
           /\ \A o \in VersionsOf(b, k) : o.vid \notin vids => o \in Generations(c, k)
           /\ \/ c.cur[k] = b.cur[k]
              \/ c.cur[k] = NoObject /\ b.cur[k].vid \in vids
              \/ /\ c.cur[k] \in b.hist[k] /\ ~c.cur[k].marker
                 /\ b.cur[k].g = 0 \/ b.cur[k].vid \in vids
           /\ c.cur[k].g # 0 => c.cur[k] \notin c.hist[k] \/ c.cur[k] = b.cur[k]
  <1> DEFINE current == b.cur[k].g # 0 /\ b.cur[k].vid \in vids
             left == {o \in VersionsOf(b, k) : o.vid \notin vids}
             latest == {o \in left : \A p \in left : p.at <= o.at}
             h == {o \in b.hist[k] : o.vid \notin vids}
             u == IF current THEN NoObject ELSE b.cur[k]
             At(x, y) == [b EXCEPT !.cur = [j \in Keys |-> IF j = k THEN x ELSE b.cur[j]],
                                   !.hist = [j \in Keys |-> IF j = k THEN y ELSE b.hist[j]]]
             purged == At(u, h)
  <1>1. b.cur[k] \in Objects /\ b.hist[k] \in Histories  BY BucketFields
  <1>2. u \in Objects /\ h \in Histories  BY <1>1, NoObjectType DEF Histories
  <1>3. \A x \in Objects, y \in Histories :
          At(x, y) \in Buckets /\ OnlyAt(b, At(x, y), k) /\ At(x, y).cur[k] = x /\ At(x, y).hist[k] = y
    <2> TAKE x \in Objects, y \in Histories
    <2> DEFINE xs == [j \in Keys |-> IF j = k THEN x ELSE b.cur[j]]
               ys == [j \in Keys |-> IF j = k THEN y ELSE b.hist[j]]
    <2>1. xs \in [Keys -> Objects] /\ ys \in [Keys -> Histories]  BY BucketFields
    <2>2. xs[k] = x /\ ys[k] = y /\ \A j \in Keys \ {k} : xs[j] = b.cur[j] /\ ys[j] = b.hist[j]
      OBVIOUS
    <2> HIDE DEF xs, ys
    <2>3. /\ [b EXCEPT !.cur = xs, !.hist = ys] \in Buckets
          /\ SameModes(b, [b EXCEPT !.cur = xs, !.hist = ys])
          /\ [b EXCEPT !.cur = xs, !.hist = ys].uploads = b.uploads
          /\ [b EXCEPT !.cur = xs, !.hist = ys].cur = xs
          /\ [b EXCEPT !.cur = xs, !.hist = ys].hist = ys
      BY <2>1 DEF Buckets, SameModes
    <2> QED  BY <2>2, <2>3 DEF OnlyAt, xs, ys
  <1>4. \A o \in left : o \in Objects /\ h \ {o} \in Histories
    BY <1>1, <1>2 DEF VersionsOf, Histories
  <1>5. \/ vids = {} /\ c = b
        \/ ~(current \/ b.cur[k].g = 0) /\ c = purged
        \/ left = {} /\ c = purged
        \/ /\ current \/ b.cur[k].g = 0
           /\ \E o \in latest : c = IF o.marker THEN purged ELSE At(o, h \ {o})
    <2>1. c \in IF vids = {} THEN {b}
                ELSE IF ~(current \/ b.cur[k].g = 0) \/ left = {} THEN {purged}
                ELSE {IF o.marker THEN purged ELSE At(o, h \ {o}) : o \in latest}
      BY DEF DeleteVersions
    <2> HIDE DEF purged, current, left, latest, h, At
    <2> QED  BY <2>1
  <1>6. CASE c = b
    BY <1>6 DEF OnlyAt, SameModes, Under, Generations, VersionsOf
  <1>7. CASE c = purged
    <2>1. c.cur[k] = u /\ c.hist[k] = h /\ c \in Buckets /\ OnlyAt(b, c, k)
      <3> HIDE DEF At, u, h
      <3> QED  BY <1>2, <1>3, <1>7
    <2> HIDE DEF At
    <2> QED  BY <2>1, NoObjectType DEF Under, Generations, VersionsOf
  <1>8. CASE \E o \in latest : /\ c = At(o, h \ {o})
                               /\ ~o.marker /\ (current \/ b.cur[k].g = 0)
    <2> PICK o \in latest : /\ c = At(o, h \ {o})
                            /\ ~o.marker /\ (current \/ b.cur[k].g = 0)
      BY <1>8
    <2>1. c.cur[k] = o /\ c.hist[k] = h \ {o} /\ c \in Buckets /\ OnlyAt(b, c, k)
      <3> DEFINE y == h \ {o}
      <3>1. o \in Objects /\ y \in Histories /\ c = At(o, y)  BY <1>4
      <3> HIDE DEF At, y
      <3>2. c.cur[k] = o /\ c.hist[k] = y /\ c \in Buckets /\ OnlyAt(b, c, k)  BY <1>3, <3>1
      <3> QED  BY <3>2 DEF y
    <2>2. o \in b.hist[k] /\ o.vid \notin vids  BY DEF VersionsOf
    <2>3. o.g # 0  BY <2>2, <1>1 DEF Histories
    <2> HIDE DEF At
    <2> QED  BY <2>1, <2>2, <2>3 DEF Under, Generations, VersionsOf
  <1> HIDE DEF purged, latest, At
  <1> QED  BY <1>5, <1>6, <1>7, <1>8

\* enable_versioning and suspend_versioning rename, and change no generation.
LEMMA SetVersioningIs ==
    ASSUME NEW b \in Buckets, NEW mode \in Modes,
           \A k \in Keys : b.cur[k].g = 0 => b.cur[k] = NoObject
    PROVE  /\ SetVersioning(b, mode) \in Buckets
           /\ SetVersioning(b, mode).ver = mode
           /\ SameModes(b, [SetVersioning(b, mode) EXCEPT !.ver = b.ver])
           /\ SetVersioning(b, mode).uploads = b.uploads
           /\ SetVersioning(b, mode).hist = b.hist
           /\ \A k \in Keys : SetVersioning(b, mode).cur[k] =
                                IF b.cur[k].g # 0 THEN Versioned(b.cur[k]) ELSE b.cur[k]
  <1> DEFINE u == [k \in Keys |-> IF b.cur[k].g # 0 THEN Versioned(b.cur[k]) ELSE NoObject]
  <1>1. u \in [Keys -> Objects]  BY VersionedIs, BucketFields, NoObjectType
  <1>2. SetVersioning(b, mode) = [b EXCEPT !.ver = mode, !.cur = u]  BY DEF SetVersioning
  <1>3. \A k \in Keys : u[k] = IF b.cur[k].g # 0 THEN Versioned(b.cur[k]) ELSE b.cur[k]  OBVIOUS
  <1> HIDE DEF u
  <1> QED  BY <1>1, <1>2, <1>3 DEF Buckets, SameModes

\* replace_object_metadata_if_unchanged puts its object at the key.
LEMMA TouchIs ==
    ASSUME NEW b \in Buckets, NEW k \in Keys, NEW o \in Objects
    PROVE  /\ Touch(b, k, o) \in Buckets /\ OnlyAt(b, Touch(b, k, o), k)
           /\ Touch(b, k, o).cur[k] = o /\ Touch(b, k, o).hist[k] = b.hist[k]
  BY DEF Touch, Buckets, OnlyAt, SameModes

(***************************************************************************)
(* What the storage operations keep of the invariant.                      *)
(***************************************************************************)
\* What a request does not touch is as good as it was.
LEMMA KeyKept ==
    ASSUME NEW b, NEW c, NEW k, NEW w \in Nat, NEW v \in Nat, w <= v, NEW d, NEW t, NEW s,
           b \in Buckets, k \in Keys,
           SameModes(b, c), c.cur[k] = b.cur[k], c.hist[k] = b.hist[k],
           KeyOK(b, k, w, d, t, s)
    PROVE  KeyOK(c, k, v, d, t, s)
  <1>1. Under(c, k) = Under(b, k) /\ \A o \in Under(b, k) : o.vid \in Int
    BY BucketFields DEF Under, Objects
  <1>2. AzureHistoryMode(c) = AzureHistoryMode(b)  BY DEF SameModes, AzureHistoryMode
  <1>3. Numbered(c, k, v)  BY <1>1 DEF KeyOK, Numbered, SameModes
  <1>4. Apart(s) => Owned(c, k, t)  BY <1>2 DEF KeyOK, Owned
  <1>5. Locked(c, k)  BY <1>1 DEF KeyOK, Locked, SameModes
  <1>6. k \in Snaps /\ ~AzureHistoryMode(c) => Plain(c, k)  BY <1>2 DEF KeyOK, Plain
  <1>7. Unasked(c, k, s) /\ Calm(c, k, d, t)  BY <1>1 DEF KeyOK, Unasked, Calm
  <1> QED  BY <1>3, <1>4, <1>5, <1>6, <1>7 DEF KeyOK

\* A request that changes one key of a bucket, and leaves it good, leaves the
\* bucket good.
LEMMA OneKey ==
    ASSUME NEW b \in Buckets, NEW c \in Buckets, NEW k \in Keys,
           NEW w \in Nat, NEW v \in Nat, w <= v, NEW d, NEW t, NEW s,
           Good(b, w, d, t, s), b.exists, OnlyAt(b, c, k), KeyOK(c, k, v, d, t, s)
    PROVE  Good(c, v, d, t, s)
  <1>1. Absent(c)  BY DEF Absent, OnlyAt, SameModes
  <1>2. ModeOK(c, d, s)
    BY DEF Good, ModeOK, OnlyAt, SameModes, AzureHistoryMode, S3HistoryMode, GcsHistoryMode
  <1>3. \A j \in Keys : KeyOK(c, j, v, d, t, s)
    <2> TAKE j \in Keys
    <2>1. CASE j = k  BY <2>1
    <2>2. CASE j # k  BY <2>2, KeyKept DEF Good, OnlyAt
    <2> QED  BY <2>1, <2>2
  <1> QED  BY <1>1, <1>2, <1>3 DEF Good

\* Numbers that are handed out and not used do no harm.
LEMMA LaterGood ==
    ASSUME NEW b \in Buckets, NEW w \in Nat, NEW v \in Nat, w <= v, NEW d, NEW t, NEW s,
           Good(b, w, d, t, s)
    PROVE  Good(b, v, d, t, s)
  <1>1. SameModes(b, b)  BY DEF SameModes
  <1> QED  BY <1>1, KeyKept DEF Good

\* A put keeps the invariant when the generation it hides is Azure's own to keep
\* and the one it publishes is what the scene and the bucket allow.
LEMMA PutGood ==
    ASSUME NEW b \in Buckets, NEW k \in Keys, NEW o \in Objects, NEW w \in Nat,
           NEW d, NEW t, NEW s, Good(b, w, d, t, s), b.exists, o.g = w + 1,
           Apart(s) /\ ImmutableAt(b.cur[k], t) => AzureHistoryMode(b),
           o.s3hold \/ o.s3until > 0 => b.s3Lock,
           k \in Snaps => AzureHistoryMode(b) \/ b.ver # "enabled",
           "lease" \notin s.asks => o.lease = NoLease,
           "worm" \notin s.asks => ~o.hold /\ o.policy = "none",
           d # NoDeletion => ~ImmutableAt(o, t)
    PROVE  Put(b, k, o) \in Buckets /\ Good(Put(b, k, o), w + 1, d, t, s)
  <1> DEFINE c == Put(b, k, o)
             n == [o EXCEPT !.vid = VidFor(b, o.g)]
  <1>1. o.g # 0  OBVIOUS
  <1>2. c \in Buckets /\ OnlyAt(b, c, k) /\ c.cur[k] = n /\ c.hist[k] = HistoryAfterWrite(b, k)
    BY <1>1, PutIs
  <1>3. /\ n \in Objects /\ n.g = w + 1 /\ n.vid = VidFor(b, w + 1)
        /\ n.s3hold = o.s3hold /\ n.s3until = o.s3until /\ n.lease = o.lease
        /\ n.hold = o.hold /\ n.policy = o.policy /\ n.until = o.until
    <2>1. VidFor(b, o.g) \in Int  BY DEF VidFor, NoVid, NullVid, Objects
    <2> QED  BY <2>1 DEF Objects
  <1>4. b.cur[k] \in Objects /\ b.hist[k] \subseteq Objects /\ b.ver \in Modes  BY BucketFields
  <1>5. KeyOK(b, k, w, d, t, s)  BY DEF Good
  <1>6. Versioned(b.cur[k]).vid = IF b.cur[k].vid = NoVid THEN NullVid ELSE b.cur[k].vid
    BY <1>4, VersionedIs
  <1>7. /\ Versioned(b.cur[k]).hold = b.cur[k].hold /\ Versioned(b.cur[k]).policy = b.cur[k].policy
        /\ Versioned(b.cur[k]).until = b.cur[k].until /\ Versioned(b.cur[k]).lease = b.cur[k].lease
        /\ Versioned(b.cur[k]).s3hold = b.cur[k].s3hold
        /\ Versioned(b.cur[k]).s3until = b.cur[k].s3until
    BY <1>4, VersionedIs
  <1>8. /\ HistoryAfterWrite(b, k) \subseteq b.hist[k] \cup {Versioned(b.cur[k])}
        /\ b.ver = "disabled" => HistoryAfterWrite(b, k) = b.hist[k]
        /\ b.ver = "suspended" => \A p \in HistoryAfterWrite(b, k) : p.vid # NullVid
        /\ b.cur[k].g = 0 => HistoryAfterWrite(b, k) \subseteq b.hist[k]
    BY HistoryIs
  <1>9. SameModes(b, c)  BY <1>2 DEF OnlyAt
  <1>10. AzureHistoryMode(c) = AzureHistoryMode(b)  BY <1>9 DEF SameModes, AzureHistoryMode
  <1> HIDE DEF c, n
  <1>11. Numbered(c, k, w + 1)
    <2>1. Numbered(b, k, w)  BY <1>5 DEF KeyOK
    <2>2. \A p \in c.hist[k] : p.vid # NoVid /\ p.vid <= w /\ p.vid \in Int
      BY <1>2, <1>4, <1>6, <1>8, <2>1 DEF Numbered, Under, Objects, NoVid, NullVid, Modes
    <2>3. \A p, q \in c.hist[k] : p.vid = q.vid => p = q
      BY <1>2, <1>6, <1>8, <2>1 DEF Numbered, NoVid, NullVid, Modes
    <2>4. \A p \in c.hist[k] : p.vid # n.vid
      BY <1>2, <1>3, <1>4, <1>8, <2>1, <2>2 DEF VidFor, Modes, Numbered, NoVid, NullVid
    <2>5. n.vid <= w + 1 /\ (n.vid = NoVid <=> b.ver = "disabled")
      BY <1>3, <1>4 DEF VidFor, Modes, NoVid, NullVid
    <2>6. c.ver = b.ver /\ (b.ver = "disabled" => c.hist[k] = {})
      BY <1>2, <1>8, <1>9, <2>1 DEF SameModes, Numbered
    <2> QED  BY <1>2, <1>3, <2>2, <2>3, <2>4, <2>5, <2>6 DEF Numbered, Under
  <1>12. Apart(s) => Owned(c, k, t)
    BY <1>2, <1>5, <1>7, <1>8, <1>10 DEF KeyOK, Owned, ImmutableAt
  <1>13. Locked(c, k)
    BY <1>2, <1>3, <1>5, <1>7, <1>8, <1>9 DEF KeyOK, Locked, Under, SameModes
  <1>14. k \in Snaps /\ ~AzureHistoryMode(c) => Plain(c, k)
    <2> SUFFICES ASSUME k \in Snaps, ~AzureHistoryMode(c)  PROVE Plain(c, k)  OBVIOUS
    <2>1. Plain(b, k) /\ b.ver # "enabled"  BY <1>5, <1>10 DEF KeyOK
    <2>2. n.vid \in {NoVid, NullVid}  BY <1>3, <2>1 DEF VidFor
    <2>3. \A p \in c.hist[k] : ~p.marker => p.vid = NullVid
      BY <1>2, <1>6, <1>8, <2>1 DEF Plain
    <2> QED  BY <1>2, <2>2, <2>3 DEF Plain
  <1>15. Unasked(c, k, s)
    BY <1>2, <1>3, <1>5, <1>7, <1>8 DEF KeyOK, Unasked, Under
  <1>16. Calm(c, k, d, t)
    BY <1>2, <1>3, <1>5, <1>7, <1>8 DEF KeyOK, Calm, Under, ImmutableAt
  <1>17. KeyOK(c, k, w + 1, d, t, s)  BY <1>11, <1>12, <1>13, <1>14, <1>15, <1>16 DEF KeyOK
  <1>18. Good(c, w + 1, d, t, s)  BY <1>2, <1>17, OneKey
  <1> QED  BY <1>2, <1>18 DEF c

\* So does a delete of any set of keys.
LEMMA DeleteAllGood ==
    ASSUME now \in Nat, NEW b \in Buckets, NEW ks \in SUBSET Keys, NEW w \in Nat,
           NEW d, NEW s, Good(b, w, d, now, s), b.exists,
           \A k \in ks : Apart(s) /\ ImmutableAt(b.cur[k], now) => AzureHistoryMode(b) \/ Dropped(b, k)
    PROVE  /\ DeleteAll(b, ks, w + 1) \in Buckets
           /\ Good(DeleteAll(b, ks, w + 1), w + 1, d, now, s)
  <1> DEFINE c == DeleteAll(b, ks, w + 1)
             m == Marker(b, w + 1)
  <1>1. w + 1 \in Nat /\ w + 1 # 0  OBVIOUS
  <1>2. /\ c \in Buckets /\ SameModes(b, c) /\ c.uploads = b.uploads
        /\ \A k \in Keys \ ks : c.cur[k] = b.cur[k] /\ c.hist[k] = b.hist[k]
        /\ \A k \in ks : c.cur[k] = NoObject /\ c.hist[k] = HistoryAfterDelete(b, k, w + 1)
    <2> DEFINE g == w + 1
    <2>1. g \in Nat /\ g # 0  BY <1>1
    <2> HIDE DEF g
    <2>2. /\ DeleteAll(b, ks, g) \in Buckets /\ SameModes(b, DeleteAll(b, ks, g))
          /\ DeleteAll(b, ks, g).uploads = b.uploads
          /\ \A k \in Keys \ ks : /\ DeleteAll(b, ks, g).cur[k] = b.cur[k]
                                  /\ DeleteAll(b, ks, g).hist[k] = b.hist[k]
          /\ \A k \in ks : /\ DeleteAll(b, ks, g).cur[k] = NoObject
                           /\ DeleteAll(b, ks, g).hist[k] = HistoryAfterDelete(b, k, g)
      BY ONLY now \in Nat, b \in Buckets, ks \in SUBSET Keys, <2>1, DeleteAllIs
    <2> QED  BY <2>2 DEF g
  <1>3. /\ m \in Objects /\ m.g = w + 1 /\ m.marker /\ m.vid = VidFor(b, w + 1)
        /\ m.lease = NoLease /\ ~m.hold /\ m.policy = "none" /\ ~m.s3hold /\ m.s3until = 0
    BY <1>1, MarkerIs
  <1>4. AzureHistoryMode(c) = AzureHistoryMode(b)  BY <1>2 DEF SameModes, AzureHistoryMode
  <1> HIDE DEF c, m
  <1>5. \A k \in ks : KeyOK(c, k, w + 1, d, now, s)
    <2> SUFFICES ASSUME NEW k \in ks  PROVE KeyOK(c, k, w + 1, d, now, s)  OBVIOUS
    <2>1. b.cur[k] \in Objects /\ b.hist[k] \subseteq Objects /\ b.ver \in Modes  BY BucketFields
    <2>2. KeyOK(b, k, w, d, now, s)  BY DEF Good
    <2>3. Numbered(b, k, w)  BY <2>2 DEF KeyOK
    <2>4. Versioned(b.cur[k]).vid = IF b.cur[k].vid = NoVid THEN NullVid ELSE b.cur[k].vid
      BY <2>1, VersionedIs
    <2>5. /\ Versioned(b.cur[k]).hold = b.cur[k].hold /\ Versioned(b.cur[k]).policy = b.cur[k].policy
          /\ Versioned(b.cur[k]).until = b.cur[k].until /\ Versioned(b.cur[k]).lease = b.cur[k].lease
          /\ Versioned(b.cur[k]).s3hold = b.cur[k].s3hold
          /\ Versioned(b.cur[k]).s3until = b.cur[k].s3until
      BY <2>1, VersionedIs
    <2>6. /\ HistoryAfterWrite(b, k) \subseteq b.hist[k] \cup {Versioned(b.cur[k])}
          /\ b.ver = "suspended" => \A p \in HistoryAfterWrite(b, k) : p.vid # NullVid
          /\ b.cur[k].g = 0 \/ Dropped(b, k) => HistoryAfterWrite(b, k) \subseteq b.hist[k]
      BY HistoryIs
    <2>7. /\ c.cur[k] = NoObject
          /\ b.ver = "disabled" => c.hist[k] = b.hist[k]
          /\ b.ver # "disabled" => c.hist[k] = HistoryAfterWrite(b, k) \cup {m}
      BY <1>2 DEF HistoryAfterDelete, m
    <2>8. /\ NoObject.g = 0 /\ NoObject.vid = NoVid /\ NoObject.lease = NoLease
          /\ ~NoObject.hold /\ NoObject.policy = "none" /\ ~NoObject.s3hold /\ NoObject.s3until = 0
      BY DEF NoObject
    <2>9. \A p \in c.hist[k] : p = m \/ p \in b.hist[k] \/ (p = Versioned(b.cur[k]) /\ b.cur[k].g # 0 /\ ~Dropped(b, k))
      BY <2>6, <2>7
    <2> HIDE DEF NoObject
    <2>10. Numbered(c, k, w + 1)
      <3>1. CASE b.ver = "disabled"
        BY <1>2, <2>3, <2>7, <2>8, <3>1 DEF Numbered, Under, SameModes, NoVid
      <3>2. CASE b.ver # "disabled"
        <4>1. m.vid = IF b.ver = "enabled" THEN w + 1 ELSE NullVid
          BY <1>3, <2>1, <3>2 DEF VidFor, Modes
        <4>2. \A p \in HistoryAfterWrite(b, k) : p.vid # NoVid /\ p.vid <= w /\ p.vid \in Int
          BY <2>1, <2>3, <2>4, <2>6 DEF Numbered, Under, Objects, NoVid, NullVid
        <4>3. \A p, q \in HistoryAfterWrite(b, k) : p.vid = q.vid => p = q
          BY <2>1, <2>3, <2>4, <2>6, <3>2 DEF Numbered, NoVid, NullVid
        <4>4. \A p \in HistoryAfterWrite(b, k) : p.vid # m.vid
          BY <2>1, <2>6, <3>2, <4>1, <4>2 DEF Modes
        <4>5. \A p, q \in c.hist[k] : p.vid = q.vid => p = q
          BY <2>7, <3>2, <4>3, <4>4
        <4>6. \A p \in c.hist[k] : p.vid # NoVid /\ p.vid <= w + 1
          BY <2>7, <3>2, <4>1, <4>2 DEF NoVid, NullVid
        <4> QED  BY <1>2, <2>7, <2>8, <3>2, <4>5, <4>6 DEF Numbered, Under, SameModes, NoVid
      <3> QED  BY <3>1, <3>2
    <2>11. Apart(s) => Owned(c, k, now)
      BY <1>3, <1>4, <2>2, <2>5, <2>9 DEF KeyOK, Owned, ImmutableAt
    <2>12. Locked(c, k)
      BY <1>2, <1>3, <2>2, <2>5, <2>7, <2>8, <2>9 DEF KeyOK, Locked, Under, SameModes
    <2>13. k \in Snaps /\ ~AzureHistoryMode(c) => Plain(c, k)
      BY <1>3, <1>4, <2>2, <2>4, <2>7, <2>8, <2>9 DEF KeyOK, Plain
    <2>14. Unasked(c, k, s)
      BY <1>3, <2>2, <2>5, <2>7, <2>8, <2>9 DEF KeyOK, Unasked, Under
    <2>15. Calm(c, k, d, now)
      BY <1>3, <2>2, <2>5, <2>7, <2>8, <2>9 DEF KeyOK, Calm, Under, ImmutableAt
    <2> QED  BY <2>10, <2>11, <2>12, <2>13, <2>14, <2>15 DEF KeyOK
  <1>6. \A k \in Keys : KeyOK(c, k, w + 1, d, now, s)
    <2> TAKE k \in Keys
    <2>1. CASE k \in ks  BY <1>5, <2>1
    <2>2. CASE k \notin ks  BY <1>2, <2>2, KeyKept DEF Good
    <2> QED  BY <2>1, <2>2
  <1>7. Absent(c)  BY <1>2 DEF Absent, SameModes
  <1>8. ModeOK(c, d, s)
    BY <1>2 DEF Good, ModeOK, SameModes, AzureHistoryMode, S3HistoryMode, GcsHistoryMode
  <1>9. Good(c, w + 1, d, now, s)  BY <1>6, <1>7, <1>8 DEF Good
  <1> QED  BY <1>2, <1>9 DEF c

\* And a deletion of any set of versions.
LEMMA VersionsGood ==
    ASSUME NEW b \in Buckets, NEW k \in Keys, NEW vids, NEW c \in DeleteVersions(b, k, vids),
           NEW w \in Nat, NEW d, NEW t, NEW s, Good(b, w, d, t, s), b.exists
    PROVE  c \in Buckets /\ Good(c, w, d, t, s)
  <1>1. /\ c \in Buckets /\ OnlyAt(b, c, k)
        /\ Under(c, k) \subseteq Under(b, k) \cup {NoObject} /\ c.hist[k] \subseteq b.hist[k]
        /\ \/ c.cur[k] = b.cur[k]
           \/ c.cur[k] = NoObject
           \/ c.cur[k] \in b.hist[k] /\ ~c.cur[k].marker
        /\ c.cur[k].g # 0 => c.cur[k] \notin c.hist[k] \/ c.cur[k] = b.cur[k]
    BY DeleteVersionsIs
  <1>2. /\ NoObject.g = 0 /\ NoObject.vid = NoVid /\ NoObject.lease = NoLease
        /\ ~NoObject.hold /\ NoObject.policy = "none" /\ ~NoObject.s3hold /\ NoObject.s3until = 0
    BY DEF NoObject
  <1>3. KeyOK(b, k, w, d, t, s)  BY DEF Good
  <1>4. SameModes(b, c)  BY <1>1 DEF OnlyAt
  <1>5. AzureHistoryMode(c) = AzureHistoryMode(b)  BY <1>4 DEF SameModes, AzureHistoryMode
  <1>6. b.hist[k] \subseteq Objects /\ \A o \in b.hist[k] : o.g # 0  BY BucketFields
  <1> HIDE DEF NoObject
  <1>7. Numbered(c, k, w)
    <2>1. Numbered(b, k, w) /\ c.ver = b.ver  BY <1>3, <1>4 DEF KeyOK, SameModes
    <2>2. \A o \in Under(c, k) : o.vid <= w  BY <1>1, <1>2, <2>1 DEF Numbered, NoVid
    <2>3. c.cur[k].g # 0 => (c.cur[k].vid = NoVid <=> c.ver = "disabled")
      BY <1>1, <1>2, <2>1 DEF Numbered
    <2>4. c.cur[k].g # 0 => \A o \in c.hist[k] : o.vid # c.cur[k].vid
      BY <1>1, <1>2, <2>1 DEF Numbered
    <2>5. c.cur[k].g = 0 => c.cur[k] = NoObject  BY <1>1, <1>6, <2>1 DEF Numbered
    <2> QED  BY <1>1, <2>1, <2>2, <2>3, <2>4, <2>5 DEF Numbered
  <1>8. Apart(s) => Owned(c, k, t)  BY <1>1, <1>3, <1>5 DEF KeyOK, Owned
  <1>9. Locked(c, k)  BY <1>1, <1>2, <1>3, <1>4 DEF KeyOK, Locked, SameModes
  <1>10. k \in Snaps /\ ~AzureHistoryMode(c) => Plain(c, k)
    BY <1>1, <1>2, <1>3, <1>5 DEF KeyOK, Plain
  <1>11. Unasked(c, k, s)  BY <1>1, <1>2, <1>3 DEF KeyOK, Unasked
  <1>12. Calm(c, k, d, t)  BY <1>1, <1>2, <1>3 DEF KeyOK, Calm, ImmutableAt
  <1>13. KeyOK(c, k, w, d, t, s)  BY <1>7, <1>8, <1>9, <1>10, <1>11, <1>12 DEF KeyOK
  <1> QED  BY <1>1, <1>13, OneKey

\* Switching the versioning on or off keeps it, where it may be switched off.
LEMMA VersioningGood ==
    ASSUME NEW b \in Buckets, NEW mode \in {"enabled", "suspended"},
           NEW w \in Nat, NEW d, NEW t, NEW s, Good(b, w, d, t, s), b.exists,
           d = NoDeletion /\ AzureHistoryMode(b) => mode = "enabled"
    PROVE  SetVersioning(b, mode) \in Buckets /\ Good(SetVersioning(b, mode), w, d, t, s)
  <1> DEFINE c == SetVersioning(b, mode)
  <1>1. \A k \in Keys : b.cur[k].g = 0 => b.cur[k] = NoObject  BY DEF Good, KeyOK, Numbered
  <1>2. /\ c \in Buckets /\ c.ver = mode /\ SameModes(b, [c EXCEPT !.ver = b.ver])
        /\ c.uploads = b.uploads /\ c.hist = b.hist
        /\ \A k \in Keys : c.cur[k] = IF b.cur[k].g # 0 THEN Versioned(b.cur[k]) ELSE b.cur[k]
    <2>1. mode \in Modes  BY DEF Modes
    <2> QED  BY <1>1, <2>1, SetVersioningIs
  <1> HIDE DEF c
  <1>3. /\ c.exists = b.exists /\ c.azVersioning = b.azVersioning /\ c.azSoft = b.azSoft
        /\ c.s3 = b.s3 /\ c.s3Lock = b.s3Lock
        /\ c.gcsSoft = b.gcsSoft /\ c.gcsRetention = b.gcsRetention
    BY <1>2 DEF SameModes, Buckets
  <1>4. AzureHistoryMode(c) = AzureHistoryMode(b)  BY <1>3 DEF AzureHistoryMode
  <1>5. \A k \in Keys : KeyOK(c, k, w, d, t, s)
    <2> SUFFICES ASSUME NEW k \in Keys  PROVE KeyOK(c, k, w, d, t, s)  OBVIOUS
    <2>1. b.cur[k] \in Objects /\ b.ver \in Modes  BY BucketFields
    <2>2. KeyOK(b, k, w, d, t, s)  BY DEF Good
    <2>3. c.hist[k] = b.hist[k]  BY <1>2
    <2>4. /\ c.cur[k].g = b.cur[k].g
          /\ c.cur[k].hold = b.cur[k].hold /\ c.cur[k].policy = b.cur[k].policy
          /\ c.cur[k].until = b.cur[k].until /\ c.cur[k].lease = b.cur[k].lease
          /\ c.cur[k].s3hold = b.cur[k].s3hold /\ c.cur[k].s3until = b.cur[k].s3until
      BY <1>2, <2>1, VersionedIs
    <2>5. b.cur[k].g # 0 => c.cur[k].vid = IF b.cur[k].vid = NoVid THEN NullVid ELSE b.cur[k].vid
      BY <1>2, <2>1, VersionedIs
    <2>6. b.cur[k].g = 0 => c.cur[k] = b.cur[k]  BY <1>2
    <2>7. Numbered(c, k, w)
      <3>1. Numbered(b, k, w)  BY <2>2 DEF KeyOK
      <3>2. c.cur[k].vid <= w  BY <2>1, <2>5, <2>6, <3>1 DEF Numbered, Under, NullVid, NoVid
      <3>3. c.ver # "disabled"  BY <1>2
      <3> QED  BY <2>1, <2>3, <2>4, <2>5, <2>6, <3>1, <3>2, <3>3 DEF Numbered, Under, NullVid, NoVid
    <2>8. Apart(s) => Owned(c, k, t)  BY <1>4, <2>2, <2>3 DEF KeyOK, Owned
    <2>9. Locked(c, k)  BY <1>3, <2>2, <2>3, <2>4 DEF KeyOK, Locked, Under
    <2>10. k \in Snaps /\ ~AzureHistoryMode(c) => Plain(c, k)
      BY <1>4, <2>2, <2>3, <2>4, <2>5 DEF KeyOK, Plain
    <2>11. Unasked(c, k, s)  BY <2>2, <2>3, <2>4 DEF KeyOK, Unasked, Under
    <2>12. Calm(c, k, d, t)  BY <2>2, <2>3, <2>4 DEF KeyOK, Calm, Under, ImmutableAt
    <2> QED  BY <2>7, <2>8, <2>9, <2>10, <2>11, <2>12 DEF KeyOK
  <1>6. ModeOK(c, d, s)
    BY <1>2, <1>3 DEF Good, ModeOK, AzureHistoryMode, S3HistoryMode, GcsHistoryMode
  <1>7. Good(c, w, d, t, s)  BY <1>3, <1>5, <1>6 DEF Good, Absent
  <1> QED  BY <1>2, <1>7 DEF c

\* So does a change of the bucket's own metadata or uploads that leaves its
\* objects alone and takes no ownership away.
LEMMA MetaGood ==
    ASSUME NEW b \in Buckets, NEW c \in Buckets, NEW w \in Nat, NEW d, NEW t, NEW s,
           Good(b, w, d, t, s), b.exists, c.exists, c.ver = b.ver, c.cur = b.cur, c.hist = b.hist,
           AzureHistoryMode(b) => AzureHistoryMode(c), b.s3Lock => c.s3Lock, ModeOK(c, d, s)
    PROVE  Good(c, w, d, t, s)
  <1>1. \A k \in Keys : KeyOK(c, k, w, d, t, s)
    <2> SUFFICES ASSUME NEW k \in Keys  PROVE KeyOK(c, k, w, d, t, s)  OBVIOUS
    <2>1. KeyOK(b, k, w, d, t, s)  BY DEF Good
    <2>2. c.cur[k] = b.cur[k] /\ c.hist[k] = b.hist[k] /\ Under(c, k) = Under(b, k)  BY DEF Under
    <2> QED  BY <2>1, <2>2 DEF KeyOK, Numbered, Owned, Locked, Plain, Unasked, Calm
  <1> QED  BY <1>1 DEF Good, Absent

\* So does new metadata of a current generation, of the kinds the scene asks for.
LEMMA TouchGood ==
    ASSUME NEW b \in Buckets, NEW k \in Keys, NEW o \in Objects,
           NEW w \in Nat, NEW d, NEW t, NEW s, Good(b, w, d, t, s), b.exists,
           b.cur[k].g # 0, o.g = b.cur[k].g, o.vid = b.cur[k].vid,
           o.s3hold = b.cur[k].s3hold, o.s3until = b.cur[k].s3until,
           "lease" \notin s.asks => o.lease = NoLease,
           "worm" \notin s.asks => ~o.hold /\ o.policy = "none",
           d # NoDeletion => ~ImmutableAt(o, t)
    PROVE  Touch(b, k, o) \in Buckets /\ Good(Touch(b, k, o), w, d, t, s)
  <1> DEFINE c == Touch(b, k, o)
  <1>1. c \in Buckets /\ OnlyAt(b, c, k) /\ c.cur[k] = o /\ c.hist[k] = b.hist[k]  BY TouchIs
  <1> HIDE DEF c
  <1>2. KeyOK(b, k, w, d, t, s)  BY DEF Good
  <1>3. SameModes(b, c)  BY <1>1 DEF OnlyAt
  <1>4. AzureHistoryMode(c) = AzureHistoryMode(b)  BY <1>3 DEF SameModes, AzureHistoryMode
  <1>5. Numbered(c, k, w)  BY <1>1, <1>2, <1>3 DEF KeyOK, Numbered, Under, SameModes
  <1>6. Apart(s) => Owned(c, k, t)  BY <1>1, <1>2, <1>4 DEF KeyOK, Owned
  <1>7. Locked(c, k)  BY <1>1, <1>2, <1>3 DEF KeyOK, Locked, Under, SameModes
  <1>8. k \in Snaps /\ ~AzureHistoryMode(c) => Plain(c, k)  BY <1>1, <1>2, <1>4 DEF KeyOK, Plain
  <1>9. Unasked(c, k, s)  BY <1>1, <1>2 DEF KeyOK, Unasked, Under
  <1>10. Calm(c, k, d, t)  BY <1>1, <1>2 DEF KeyOK, Calm, Under
  <1>11. KeyOK(c, k, w, d, t, s)  BY <1>5, <1>6, <1>7, <1>8, <1>9, <1>10 DEF KeyOK
  <1>12. Good(c, w, d, t, s)  BY <1>1, <1>11, OneKey
  <1> QED  BY <1>1, <1>12 DEF c

\* A bucket that holds nothing is good in any mode the modes allow.
LEMMA HollowGood ==
    ASSUME NEW c \in Buckets, NEW w \in Nat, NEW d, NEW t, NEW s,
           c.cur = NoBucket.cur, c.hist = NoBucket.hist, Absent(c), ModeOK(c, d, s)
    PROVE  Good(c, w, d, t, s)
  <1>1. \A k \in Keys : c.cur[k] = NoObject /\ c.hist[k] = {}  BY DEF NoBucket
  <1>2. /\ NoObject.g = 0 /\ NoObject.vid = NoVid /\ NoObject.lease = NoLease
        /\ NoObject.hold = FALSE /\ NoObject.policy = "none"
        /\ NoObject.s3hold = FALSE /\ NoObject.s3until = 0
    BY DEF NoObject
  <1> HIDE DEF NoObject
  <1>3. \A k \in Keys : KeyOK(c, k, w, d, t, s)
    <2> SUFFICES ASSUME NEW k \in Keys  PROVE KeyOK(c, k, w, d, t, s)  OBVIOUS
    <2>1. c.cur[k] = NoObject /\ c.hist[k] = {} /\ Under(c, k) = {NoObject}  BY <1>1 DEF Under
    <2> QED
      BY <1>2, <2>1 DEF KeyOK, Numbered, Owned, Locked, Plain, Unasked, Calm, ImmutableAt, NoVid
  <1> QED  BY <1>3 DEF Good

\* The names that are free, and the buckets just created, are good.
LEMMA NewGood ==
    ASSUME NEW w \in Nat, NEW d, NEW t, NEW s
    PROVE  Good(NoBucket, w, d, t, s) /\ Good(EmptyBucket, w, d, t, s)
  <1>1. NoBucket \in Buckets /\ EmptyBucket \in Buckets  BY NoBucketType
  <1>2. EmptyBucket.cur = NoBucket.cur /\ EmptyBucket.hist = NoBucket.hist /\ EmptyBucket.exists
    BY DEF EmptyBucket, NoBucket
  <1>3. ModeOK(NoBucket, d, s) /\ ModeOK(EmptyBucket, d, s)
    BY DEF ModeOK, EmptyBucket, NoBucket, AzureHistoryMode, S3HistoryMode, GcsHistoryMode
  <1>4. Absent(NoBucket) /\ Absent(EmptyBucket)  BY <1>2 DEF Absent
  <1> QED  BY <1>1, <1>2, <1>3, <1>4, HollowGood

\* A bucket is good when each of its keys is that of a good one in the same modes.
LEMMA KeysGood ==
    ASSUME NEW b \in Buckets, NEW c \in Buckets, NEW w \in Nat, NEW d, NEW t, NEW s,
           Good(b, w, d, t, s), SameModes(b, c), b.exists,
           \A k \in Keys : \E a \in Buckets :
             /\ Good(a, w, d, t, s) /\ SameModes(a, c)
             /\ c.cur[k] = a.cur[k] /\ c.hist[k] = a.hist[k]
    PROVE  Good(c, w, d, t, s)
  <1>1. \A k \in Keys : KeyOK(c, k, w, d, t, s)
    <2> TAKE k \in Keys
    <2>1. PICK a \in Buckets : /\ Good(a, w, d, t, s) /\ SameModes(a, c)
                               /\ c.cur[k] = a.cur[k] /\ c.hist[k] = a.hist[k]
      OBVIOUS
    <2>2. KeyOK(a, k, w, d, t, s)  BY <2>1 DEF Good
    <2> QED  BY <2>1, <2>2, KeyKept
  <1>2. ModeOK(c, d, s)
    BY DEF Good, ModeOK, SameModes, AzureHistoryMode, S3HistoryMode, GcsHistoryMode
  <1> QED  BY <1>1, <1>2 DEF Good, Absent, SameModes

\* Time only ends protection.
LEMMA TickGood ==
    ASSUME NEW b \in Buckets, NEW w \in Nat, NEW d, NEW t \in Nat, NEW s, Good(b, w, d, t, s)
    PROVE  Good(b, w, d, t + 1, s)
  <1>1. \A k \in Keys : \A o \in Under(b, k) : ImmutableAt(o, t + 1) => ImmutableAt(o, t)
    <2> TAKE k \in Keys
    <2> TAKE o \in Under(b, k)
    <2>1. o.until \in Nat  BY BucketFields DEF Objects
    <2> QED  BY <2>1 DEF ImmutableAt
  <1>2. \A k \in Keys : KeyOK(b, k, w, d, t + 1, s)
    <2> SUFFICES ASSUME NEW k \in Keys  PROVE KeyOK(b, k, w, d, t + 1, s)  OBVIOUS
    <2>1. KeyOK(b, k, w, d, t, s)  BY DEF Good
    <2>2. \A o \in Under(b, k) : ImmutableAt(o, t + 1) => ImmutableAt(o, t)  BY <1>1
    <2>3. b.hist[k] \subseteq Under(b, k)  BY DEF Under
    <2> HIDE DEF ImmutableAt
    <2> QED  BY <2>1, <2>2, <2>3 DEF KeyOK, Owned, Calm
  <1> QED  BY <1>2 DEF Good

(***************************************************************************)
(* Steps that keep the invariant: one lemma for each storage operation a   *)
(* request may end in.                                                     *)
(***************************************************************************)
\* Names are blobs, and no blob is a snapshot.
LEMMA NamesAreBlobs ==
    ASSUME scene \in Scenes
    PROVE  Names \subseteq Blobs /\ Blobs \subseteq Keys /\ \A k \in Blobs : k \notin Snaps
  BY NamespaceAssumption DEF Names, Keys, Snaps

\* A request with one effect commits it.
LEMMA ServeOne ==
    ASSUME NEW door, NEW cred, NEW x, Serve(door, cred, <<x>>)
    PROVE  bucket' = x
  BY DEF Serve

\* A request with two commits the first or the second.
LEMMA ServeTwo ==
    ASSUME NEW door, NEW cred, NEW x, NEW y, Serve(door, cred, <<x, y>>)
    PROVE  bucket' = x \/ bucket' = y
  BY DEF Serve

\* A request with three commits one of them.
LEMMA ServeThree ==
    ASSUME NEW door, NEW cred, NEW x, NEW y, NEW z, Serve(door, cred, <<x, y, z>>)
    PROVE  bucket' = x \/ bucket' = y \/ bucket' = z
  BY DEF Serve

\* The deletion, the clock, the scene and the MCP tools are left alone.
Aside == UNCHANGED <<deletion, now, scene, pending>>

\* A bucket that is good after a request leaves the invariant.
LEMMA Carry ==
    ASSUME DoorsInv, Aside, bucket' \in Buckets, writes' \in Nat,
           Good(bucket', writes', deletion, now, scene)
    PROVE  DoorsInv'
  BY DEF DoorsInv, NamespaceTypeOK, Aside

\* A step that puts an object.
LEMMA PutStep ==
    ASSUME DoorsInv, Aside, Uses(1), bucket.exists, NEW k \in Keys, NEW o \in Objects,
           bucket' = Put(bucket, k, o), o.g = writes + 1,
           Apart(scene) /\ ImmutableAt(bucket.cur[k], now) => AzureHistoryMode(bucket),
           o.s3hold \/ o.s3until > 0 => bucket.s3Lock,
           k \in Snaps => AzureHistoryMode(bucket) \/ bucket.ver # "enabled",
           "lease" \notin scene.asks => o.lease = NoLease,
           "worm" \notin scene.asks => ~o.hold /\ o.policy = "none",
           deletion # NoDeletion => ~ImmutableAt(o, now)
    PROVE  DoorsInv'
  <1>1. writes \in Nat /\ bucket \in Buckets /\ Good(bucket, writes, deletion, now, scene)
    BY DEF DoorsInv, NamespaceTypeOK
  <1>2. writes' = writes + 1  BY DEF Uses
  <1>3. bucket' \in Buckets /\ Good(bucket', writes + 1, deletion, now, scene)  BY <1>1, PutGood
  <1> QED  BY <1>1, <1>2, <1>3, Carry

\* A step that deletes some keys.
LEMMA DeleteAllStep ==
    ASSUME DoorsInv, Aside, Uses(1), bucket.exists, NEW ks \in SUBSET Keys,
           bucket' = DeleteAll(bucket, ks, writes + 1),
           \A k \in ks : Apart(scene) /\ ImmutableAt(bucket.cur[k], now)
                           => AzureHistoryMode(bucket) \/ Dropped(bucket, k)
    PROVE  DoorsInv'
  <1>1. writes \in Nat /\ bucket \in Buckets /\ now \in Nat /\ Good(bucket, writes, deletion, now, scene)
    BY DEF DoorsInv, NamespaceTypeOK
  <1>2. writes' = writes + 1  BY DEF Uses
  <1>3. bucket' \in Buckets /\ Good(bucket', writes + 1, deletion, now, scene)
    BY <1>1, DeleteAllGood
  <1> QED  BY <1>1, <1>2, <1>3, Carry

\* A step that deletes one key.
LEMMA DeleteStep ==
    ASSUME DoorsInv, Aside, Uses(1), bucket.exists, NEW k \in Keys,
           bucket' = Delete(bucket, k, writes + 1),
           Apart(scene) /\ ImmutableAt(bucket.cur[k], now) => AzureHistoryMode(bucket)
    PROVE  DoorsInv'
  <1>1. writes \in Nat /\ bucket \in Buckets /\ now \in Nat  BY DEF DoorsInv, NamespaceTypeOK
  <1>2. bucket' = DeleteAll(bucket, {k}, writes + 1)
    <2> DEFINE g == writes + 1
    <2>1. g \in Nat /\ g # 0  BY <1>1
    <2> HIDE DEF g
    <2>2. Delete(bucket, k, g) = DeleteAll(bucket, {k}, g)  BY <1>1, <2>1, DeleteIs
    <2> QED  BY <2>2 DEF g
  <1>3. {k} \in SUBSET Keys  OBVIOUS
  <1> QED  BY <1>2, <1>3, DeleteAllStep

\* A step that deletes some versions of a key.
LEMMA VersionsStep ==
    ASSUME DoorsInv, Aside, writes' = writes, bucket.exists, NEW k \in Keys, NEW vids,
           bucket' \in DeleteVersions(bucket, k, vids)
    PROVE  DoorsInv'
  <1>1. writes \in Nat /\ bucket \in Buckets /\ Good(bucket, writes, deletion, now, scene)
    BY DEF DoorsInv, NamespaceTypeOK
  <1>2. bucket' \in Buckets /\ Good(bucket', writes, deletion, now, scene)  BY <1>1, VersionsGood
  <1> QED  BY <1>1, <1>2, Carry

\* A step that changes the metadata of a current generation.
LEMMA TouchStep ==
    ASSUME DoorsInv, Aside, writes' = writes, bucket.exists, NEW k \in Keys, NEW o \in Objects,
           bucket' = Touch(bucket, k, o), bucket.cur[k].g # 0,
           o.g = bucket.cur[k].g, o.vid = bucket.cur[k].vid,
           o.s3hold = bucket.cur[k].s3hold, o.s3until = bucket.cur[k].s3until,
           "lease" \notin scene.asks => o.lease = NoLease,
           "worm" \notin scene.asks => ~o.hold /\ o.policy = "none",
           deletion # NoDeletion => ~ImmutableAt(o, now)
    PROVE  DoorsInv'
  <1>1. writes \in Nat /\ bucket \in Buckets /\ Good(bucket, writes, deletion, now, scene)
    BY DEF DoorsInv, NamespaceTypeOK
  <1>2. bucket' \in Buckets /\ Good(bucket', writes, deletion, now, scene)  BY <1>1, TouchGood
  <1> QED  BY <1>1, <1>2, Carry

\* A step that only starts or ends uploads.
LEMMA UploadsStep ==
    ASSUME DoorsInv, Aside, writes' = writes, bucket.exists, NEW u \in SUBSET Blobs,
           bucket' = [bucket EXCEPT !.uploads = u]
    PROVE  DoorsInv'
  <1>1. writes \in Nat /\ bucket \in Buckets /\ Good(bucket, writes, deletion, now, scene)
    BY DEF DoorsInv, NamespaceTypeOK
  <1>2. /\ bucket' \in Buckets /\ SameModes(bucket, bucket')
        /\ bucket'.cur = bucket.cur /\ bucket'.hist = bucket.hist
    BY <1>1 DEF Buckets, SameModes
  <1>3. ModeOK(bucket', deletion, scene) /\ (AzureHistoryMode(bucket) => AzureHistoryMode(bucket'))
    BY <1>1, <1>2 DEF Good, ModeOK, SameModes, AzureHistoryMode, S3HistoryMode, GcsHistoryMode
  <1>4. Good(bucket', writes, deletion, now, scene)
    BY <1>1, <1>2, <1>3, MetaGood DEF SameModes
  <1> QED  BY <1>1, <1>2, <1>4, Carry

\* A step that creates a plain bucket or removes one.
LEMMA ResetStep ==
    ASSUME DoorsInv, Aside, writes' = writes, bucket' \in {NoBucket, EmptyBucket}
    PROVE  DoorsInv'
  <1>1. writes \in Nat  BY DEF DoorsInv, NamespaceTypeOK
  <1> QED  BY <1>1, NoBucketType, NewGood, Carry

\* A step that changes nothing here, whatever numbers it hands out.
LEMMA IdleStep ==
    ASSUME DoorsInv, Aside, bucket' = bucket, writes' \in Nat, writes <= writes'
    PROVE  DoorsInv'
  <1>1. writes \in Nat /\ bucket \in Buckets /\ Good(bucket, writes, deletion, now, scene)
    BY DEF DoorsInv, NamespaceTypeOK
  <1>2. Good(bucket', writes', deletion, now, scene)  BY <1>1, LaterGood
  <1> QED  BY <1>1, <1>2, Carry

\* What the invariant says of a key.
LEMMA KeyFacts ==
    ASSUME DoorsInv, NEW k \in Keys
    PROVE  /\ bucket \in Buckets /\ now \in Nat /\ writes \in Nat /\ scene \in Scenes
           /\ bucket.cur[k] \in Objects /\ bucket.hist[k] \subseteq Objects
           /\ bucket.cur[k].g = 0 => bucket.cur[k] = NoObject
           /\ KeyOK(bucket, k, writes, deletion, now, scene)
           /\ \A o \in bucket.hist[k] \cup {bucket.cur[k]} :
                /\ o.s3hold \/ o.s3until > 0 => bucket.s3Lock
                /\ "lease" \notin scene.asks => o.lease = NoLease
                /\ "worm" \notin scene.asks => ~o.hold /\ o.policy = "none"
                /\ deletion # NoDeletion => ~ImmutableAt(o, now)
  <1>1. bucket \in Buckets /\ now \in Nat /\ writes \in Nat /\ scene \in Scenes
    BY DEF DoorsInv, NamespaceTypeOK
  <1>2. KeyOK(bucket, k, writes, deletion, now, scene)  BY DEF DoorsInv, Good
  <1>3. bucket.cur[k] \in Objects /\ bucket.hist[k] \subseteq Objects  BY <1>1, BucketFields
  <1> QED  BY <1>1, <1>2, <1>3 DEF KeyOK, Numbered, Locked, Unasked, Calm, Under

\* A bucket in which Azure protects nothing has no current hold, policy or lease.
LEMMA Unprotected ==
    ASSUME DoorsInv, bucket.exists, ~AzureActive(bucket), NEW k \in Keys
    PROVE  ~ImmutableAt(bucket.cur[k], now) /\ bucket.cur[k].lease = NoLease
  <1>1. CASE bucket.cur[k].g = 0
    BY <1>1, KeyFacts, NoObjectType DEF ImmutableAt
  <1>2. CASE bucket.cur[k].g # 0
    <2>1. bucket.cur[k] \in Current(bucket)  BY <1>2 DEF Current
    <2> QED  BY <2>1 DEF AzureActive, AzureProtected, AzureImmutable, ImmutableAt
  <1> QED  BY <1>1, <1>2

\* Object::new, possibly with GCS numbers, may be put anywhere.
LEMMA FreshFits ==
    ASSUME DoorsInv
    PROVE  /\ Fresh(writes + 1) \in Objects /\ Fresh(writes + 1).g = writes + 1
           /\ Fresh(writes + 1).lease = NoLease
           /\ ~Fresh(writes + 1).hold /\ Fresh(writes + 1).policy = "none"
           /\ ~Fresh(writes + 1).s3hold /\ ~(Fresh(writes + 1).s3until > 0)
           /\ ~ImmutableAt(Fresh(writes + 1), now)
  <1>1. now \in Nat /\ writes \in Nat  BY DEF DoorsInv, NamespaceTypeOK
  <1> DEFINE g == writes + 1
  <1>2. g \in Nat  BY <1>1
  <1> HIDE DEF g
  <1>3. /\ Fresh(g) \in Objects /\ Fresh(g).g = g /\ Fresh(g).lease = NoLease
        /\ ~Fresh(g).hold /\ Fresh(g).policy = "none" /\ ~Fresh(g).s3hold /\ Fresh(g).s3until = 0
    BY ONLY <1>1, <1>2, FreshType
  <1>4. ~(Fresh(g).s3until > 0)  BY <1>3
  <1> QED  BY <1>3, <1>4 DEF g, ImmutableAt

(***************************************************************************)
(* S3.                                                                     *)
(***************************************************************************)
\* What S3 asks before every request.
LEMMA S3Clear ==
    ASSUME DoorsInv, S3Request
    PROVE  /\ bucket.exists /\ ~AzureHistoryMode(bucket) /\ ~GcsHistoryMode(bucket)
           /\ ~AzureActive(bucket) /\ UNCHANGED <<deletion, now, scene>>
           /\ \A k \in Keys : ~ImmutableAt(bucket.cur[k], now) /\ bucket.cur[k].lease = NoLease
  <1>1. /\ bucket.exists /\ ~AzureHistoryMode(bucket) /\ ~GcsHistoryMode(bucket)
        /\ ~AzureActive(bucket) /\ UNCHANGED <<deletion, now, scene>>
    BY DEF S3Request, S3Conflict
  <1> QED  BY <1>1, Unprotected

\* Lock headers are taken only by a bucket with Object Lock.
LEMMA LockRequestsFit ==
    ASSUME now \in Nat, NEW lock \in LockRequests
    PROVE  /\ lock.hold \in BOOLEAN /\ lock.until \in Nat
           /\ lock.hold \/ lock.until > 0 => bucket.s3Lock
  <1>1. \/ lock = [hold |-> FALSE, until |-> 0]
        \/ bucket.s3Lock /\ lock = [hold |-> TRUE, until |-> 0]
        \/ bucket.s3Lock /\ lock = [hold |-> FALSE, until |-> now + 1]
    BY DEF LockRequests
  <1>2. CASE lock = [hold |-> FALSE, until |-> 0]
    <2>1. lock.hold = FALSE /\ lock.until = 0  BY <1>2
    <2>2. ~(lock.until > 0) /\ lock.until \in Nat  BY <2>1
    <2>3. ~lock.hold /\ lock.hold \in BOOLEAN  BY <2>1
    <2> QED  BY <2>2, <2>3
  <1>3. CASE bucket.s3Lock /\ lock = [hold |-> TRUE, until |-> 0]
    <2>1. lock.hold = TRUE /\ lock.until = 0  BY <1>3
    <2> QED  BY <1>3, <2>1
  <1>4. CASE bucket.s3Lock /\ lock = [hold |-> FALSE, until |-> now + 1]
    <2>1. lock.hold = FALSE /\ lock.until = now + 1  BY <1>4
    <2> QED  BY <1>4, <2>1
  <1> QED  BY <1>1, <1>2, <1>3, <1>4

\* The object that S3 puts when the headers of the request ask for lock.
S3New(k, lock) ==
    IF lock.hold \/ lock.until > 0 THEN WithLock(S3Body(k), lock) ELSE S3Body(k)

\* put_object_body carries over only what protects nothing.
LEMMA S3BodyFits ==
    ASSUME DoorsInv, S3Request, NEW k \in Names, NEW lock \in LockRequests, NEW o, o = S3New(k, lock)
    PROVE  /\ o \in Objects /\ o.g = writes + 1
           /\ o.s3hold \/ o.s3until > 0 => bucket.s3Lock
           /\ "lease" \notin scene.asks => o.lease = NoLease
           /\ "worm" \notin scene.asks => ~o.hold /\ o.policy = "none"
           /\ ~ImmutableAt(o, now)
  <1>1. k \in Keys  BY NamesAreBlobs DEF DoorsInv, NamespaceTypeOK
  <1> DEFINE c == bucket.cur[k]
             kept == [c EXCEPT !.g = writes + 1, !.at = now, !.gen = 0, !.meta = 0]
             f == Fresh(writes + 1)
             body == S3Body(k)
  <1>2. /\ c \in Objects /\ now \in Nat /\ writes \in Nat
        /\ c.s3hold \/ c.s3until > 0 => bucket.s3Lock
        /\ "lease" \notin scene.asks => c.lease = NoLease
        /\ "worm" \notin scene.asks => ~c.hold /\ c.policy = "none"
    BY <1>1, KeyFacts
  <1>3. ~ImmutableAt(c, now)  BY <1>1, S3Clear
  <1>4. /\ f \in Objects /\ f.g = writes + 1 /\ f.lease = NoLease /\ ~f.hold /\ f.policy = "none"
        /\ ~f.s3hold /\ ~(f.s3until > 0) /\ ~ImmutableAt(f, now)
    BY FreshFits
  <1>5. /\ lock.hold \in BOOLEAN /\ lock.until \in Nat
        /\ lock.hold \/ lock.until > 0 => bucket.s3Lock
    BY <1>2, LockRequestsFit
  <1>6. \/ body = f
        \/ body = kept
        \/ body = [kept EXCEPT !.s3hold = FALSE, !.s3until = 0]
    <2>1. S3Body(k) = IF ~Has(bucket, k) THEN f
                      ELSE IF Preserved(bucket, c) THEN WithLock(kept, [hold |-> FALSE, until |-> 0]) ELSE kept
      BY DEF S3Body
    <2>2. WithLock(kept, [hold |-> FALSE, until |-> 0]) = [kept EXCEPT !.s3hold = FALSE, !.s3until = 0]
      BY DEF WithLock
    <2> HIDE DEF kept, f, c
    <2> QED  BY <2>1, <2>2
  <1> HIDE DEF c, f
  <1>7. /\ kept \in Objects /\ kept.g = writes + 1 /\ kept.s3hold = c.s3hold /\ kept.s3until = c.s3until
        /\ kept.lease = c.lease /\ kept.hold = c.hold /\ kept.policy = c.policy /\ kept.until = c.until
    <2>1. writes + 1 \in Nat /\ 0 \in Nat  BY <1>2
    <2>2. c \in Objects /\ now \in Nat  BY <1>2
    <2> QED  BY ONLY <2>1, <2>2 DEF Objects, kept
  <1> HIDE DEF kept
  <1>8. /\ body \in Objects /\ body.g = writes + 1
        /\ body.s3hold \/ body.s3until > 0 => bucket.s3Lock
        /\ "lease" \notin scene.asks => body.lease = NoLease
        /\ "worm" \notin scene.asks => ~body.hold /\ body.policy = "none"
        /\ ~ImmutableAt(body, now)
    <2>1. CASE body = f  BY <1>4, <2>1
    <2>2. CASE body = kept  BY <1>2, <1>3, <1>7, <2>2 DEF ImmutableAt
    <2>3. CASE body = [kept EXCEPT !.s3hold = FALSE, !.s3until = 0]
      <3> DEFINE x == [kept EXCEPT !.s3hold = FALSE, !.s3until = 0]
      <3>1. /\ x \in Objects /\ x.g = writes + 1 /\ x.s3hold = FALSE /\ x.s3until = 0
            /\ x.lease = c.lease /\ x.hold = c.hold /\ x.policy = c.policy /\ x.until = c.until
        BY <1>7 DEF Objects
      <3>2. body = x  BY <2>3
      <3> HIDE DEF x
      <3> QED  BY <1>2, <1>3, <3>1, <3>2 DEF ImmutableAt
    <2> QED  BY <1>6, <2>1, <2>2, <2>3
  <1>9. o = IF lock.hold \/ lock.until > 0
            THEN [body EXCEPT !.s3hold = lock.hold, !.s3until = lock.until] ELSE body
    BY DEF S3New, WithLock
  <1> HIDE DEF body
  <1>10. CASE lock.hold \/ lock.until > 0
    <2>1. o = [body EXCEPT !.s3hold = lock.hold, !.s3until = lock.until]  BY <1>9, <1>10
    <2>2. /\ o \in Objects /\ o.g = body.g /\ o.lease = body.lease /\ o.hold = body.hold
          /\ o.policy = body.policy /\ o.until = body.until
      BY <1>5, <1>8, <2>1 DEF Objects
    <2> QED  BY <1>5, <1>8, <1>10, <2>2 DEF ImmutableAt
  <1>11. CASE ~(lock.hold \/ lock.until > 0)
    <2>1. o = body  BY <1>9, <1>11
    <2> QED  BY <1>8, <2>1
  <1> QED  BY <1>10, <1>11

\* A copy carries the provider metadata of its source, which the scene allows.
LEMMA CopiedFits ==
    ASSUME DoorsInv, NEW k \in Keys, NEW src \in CopySources(k), NEW lock \in LockRequests,
           NEW r \in BOOLEAN, NEW o, o = Copied(src, lock, r)
    PROVE  /\ o \in Objects /\ o.g = writes + 1
           /\ o.s3hold \/ o.s3until > 0 => bucket.s3Lock
           /\ "lease" \notin scene.asks => o.lease = NoLease
           /\ "worm" \notin scene.asks => ~o.hold /\ o.policy = "none"
           /\ deletion # NoDeletion => ~ImmutableAt(o, now)
  <1>1. src \in bucket.hist[k] \cup {bucket.cur[k]}  BY DEF CopySources, VersionsOf
  <1>2. /\ src \in Objects /\ now \in Nat /\ writes \in Nat
        /\ "lease" \notin scene.asks => src.lease = NoLease
        /\ "worm" \notin scene.asks => ~src.hold /\ src.policy = "none"
        /\ deletion # NoDeletion => ~ImmutableAt(src, now)
    BY <1>1, KeyFacts
  <1>3. /\ lock.hold \in BOOLEAN /\ lock.until \in Nat
        /\ lock.hold \/ lock.until > 0 => bucket.s3Lock
    BY <1>2, LockRequestsFit
  <1> DEFINE gen == IF r THEN 0 ELSE src.gen
             meta == IF r THEN 0 ELSE src.meta
  <1>4. gen \in Nat /\ meta \in Nat  BY <1>2 DEF Objects
  <1> DEFINE n == [src EXCEPT !.g = writes + 1, !.at = now, !.gen = gen, !.meta = meta]
  <1>5. o = [n EXCEPT !.s3hold = lock.hold, !.s3until = lock.until]
    BY DEF Copied, WithLock
  <1> HIDE DEF gen, meta
  <1>7. /\ n \in Objects /\ n.g = writes + 1
        /\ n.lease = src.lease /\ n.hold = src.hold /\ n.policy = src.policy /\ n.until = src.until
    <2>1. writes + 1 \in Nat  BY <1>2
    <2>2. src \in Objects /\ now \in Nat  BY <1>2
    <2> QED  BY ONLY <1>4, <2>1, <2>2 DEF Objects, n
  <1> HIDE DEF n
  <1>6. /\ o \in Objects /\ o.g = writes + 1 /\ o.s3hold = lock.hold /\ o.s3until = lock.until
        /\ o.lease = src.lease /\ o.hold = src.hold /\ o.policy = src.policy /\ o.until = src.until
    <2>1. lock.hold \in BOOLEAN /\ lock.until \in Nat  BY <1>3
    <2> QED  BY ONLY <1>5, <1>7, <2>1 DEF Objects
  <1> QED  BY <1>2, <1>3, <1>6 DEF ImmutableAt

\* One entry of a delete request, in a bucket that is S3's to change.
LEMMA S3DeletedGood ==
    ASSUME now \in Nat, NEW b \in Buckets, NEW k \in Keys, NEW v, NEW w \in Nat,
           NEW c \in S3Deleted(b, k, v, w + 1), NEW d, NEW s,
           Good(b, w, d, now, s), b.exists, ~AzureHistoryMode(b),
           Apart(s) => \A j \in Keys : ~ImmutableAt(b.cur[j], now)
    PROVE  /\ c \in Buckets /\ Good(c, w + 1, d, now, s) /\ SameModes(b, c)
           /\ Apart(s) => \A j \in Keys : ~ImmutableAt(c.cur[j], now)
  <1>1. CASE c = b
    <2>1. w + 1 \in Nat /\ w <= w + 1  OBVIOUS
    <2> QED  BY <1>1, <2>1, LaterGood DEF SameModes
  <1>2. CASE c = Delete(b, k, w + 1)
    <2> DEFINE g == w + 1
               ks == {k}
    <2>1. g \in Nat /\ g # 0 /\ ks \in SUBSET Keys  OBVIOUS
    <2> HIDE DEF g
    <2>2. c = DeleteAll(b, ks, g)  BY <1>2, <2>1, DeleteIs DEF g
    <2> HIDE DEF ks
    <2>3. /\ DeleteAll(b, ks, g) \in Buckets
          /\ SameModes(b, DeleteAll(b, ks, g)) /\ DeleteAll(b, ks, g).uploads = b.uploads
          /\ \A j \in Keys \ ks : /\ DeleteAll(b, ks, g).cur[j] = b.cur[j]
                                  /\ DeleteAll(b, ks, g).hist[j] = b.hist[j]
          /\ \A j \in ks : /\ DeleteAll(b, ks, g).cur[j] = NoObject
                           /\ DeleteAll(b, ks, g).hist[j] = HistoryAfterDelete(b, j, g)
      BY ONLY now \in Nat, b \in Buckets, <2>1, DeleteAllIs
    <2>4. Good(c, w + 1, d, now, s)
      <3>1. \A j \in ks : Apart(s) /\ ImmutableAt(b.cur[j], now) => AzureHistoryMode(b)  BY <2>1
      <3> QED  BY <2>1, <2>2, <3>1, DeleteAllGood DEF g
    <2>5. ~ImmutableAt(NoObject, now)  BY NoObjectType DEF ImmutableAt
    <2> HIDE DEF ImmutableAt
    <2> QED  BY <2>2, <2>3, <2>4, <2>5
  <1>3. CASE c \in DeleteVersions(b, k, {v})
    <2>1. c \in Buckets /\ Good(c, w, d, now, s)  BY <1>3, VersionsGood
    <2>2. /\ OnlyAt(b, c, k)
          /\ c.cur[k] = b.cur[k] \/ c.cur[k] = NoObject \/ c.cur[k] \in b.hist[k]
      BY <1>3, DeleteVersionsIs
    <2>3. w + 1 \in Nat /\ w <= w + 1  OBVIOUS
    <2>4. Good(c, w + 1, d, now, s)  BY <2>1, <2>3, LaterGood
    <2>5. ~ImmutableAt(NoObject, now)  BY NoObjectType DEF ImmutableAt
    <2>6. Apart(s) => \A o \in b.hist[k] : ~ImmutableAt(o, now)  BY DEF Good, KeyOK, Owned
    <2> QED  BY <2>1, <2>2, <2>4, <2>5, <2>6 DEF OnlyAt
  <1> QED
    BY <1>1, <1>2, <1>3 DEF S3Deleted, S3DeletedVersion, S3DeletedCurrent, DeleteVersion

\* A request that publishes an upload and then drops its record.
LEMMA CompleteStep ==
    ASSUME DoorsInv, Aside, Uses(1), bucket.exists, NEW k \in Blobs,
           \/ bucket' = Put(bucket, k, Fresh(writes + 1))
           \/ bucket' = [Put(bucket, k, Fresh(writes + 1)) EXCEPT !.uploads = @ \ {k}],
           Apart(scene) /\ ImmutableAt(bucket.cur[k], now) => AzureHistoryMode(bucket)
    PROVE  DoorsInv'
  <1> DEFINE p == Put(bucket, k, Fresh(writes + 1))
             f == Fresh(writes + 1)
  <1>1. writes \in Nat /\ bucket \in Buckets /\ now \in Nat /\ scene \in Scenes
        /\ Good(bucket, writes, deletion, now, scene)
    BY DEF DoorsInv, NamespaceTypeOK
  <1>2. k \in Keys /\ k \notin Snaps  BY <1>1, NamesAreBlobs
  <1>3. /\ f \in Objects /\ f.g = writes + 1 /\ f.lease = NoLease /\ ~f.hold /\ f.policy = "none"
        /\ ~f.s3hold /\ ~(f.s3until > 0) /\ ~ImmutableAt(f, now)
    BY FreshFits
  <1> HIDE DEF f
  <1>4. Put(bucket, k, f) \in Buckets /\ Good(Put(bucket, k, f), writes + 1, deletion, now, scene)
    BY <1>1, <1>2, <1>3, PutGood
  <1>5. p \in Buckets /\ Good(p, writes + 1, deletion, now, scene)  BY <1>4 DEF f
  <1>6. p.exists
    <2>1. f.g # 0  BY <1>1, <1>3
    <2>2. OnlyAt(bucket, Put(bucket, k, f), k)  BY <1>1, <1>2, <1>3, <2>1, PutIs
    <2> QED  BY <2>2 DEF OnlyAt, SameModes, f
  <1>7. writes' = writes + 1 /\ writes + 1 \in Nat  BY <1>1 DEF Uses
  <1>8. CASE bucket' = p  BY <1>1, <1>5, <1>7, <1>8, Carry
  <1>9. CASE bucket' = [p EXCEPT !.uploads = @ \ {k}]
    <2> HIDE DEF p
    <2>1. /\ bucket' \in Buckets /\ SameModes(p, bucket')
          /\ bucket'.cur = p.cur /\ bucket'.hist = p.hist
      BY <1>5, <1>9 DEF Buckets, SameModes
    <2>2. ModeOK(bucket', deletion, scene) /\ (AzureHistoryMode(p) => AzureHistoryMode(bucket'))
      BY <1>5, <2>1 DEF Good, ModeOK, SameModes, AzureHistoryMode, S3HistoryMode, GcsHistoryMode
    <2>3. Good(bucket', writes + 1, deletion, now, scene)
      BY <1>5, <1>6, <1>7, <2>1, <2>2, MetaGood DEF SameModes
    <2> QED  BY <1>1, <1>7, <2>1, <2>3, Carry
  <1> QED  BY <1>8, <1>9

\* A bucket just created with versioning, and possibly a mode, keeps the invariant.
LEMMA CreatedGood ==
    ASSUME NEW w \in Nat, NEW d, NEW t, NEW s
    PROVE  /\ SetVersioning(EmptyBucket, "enabled") \in Buckets
           /\ Good(SetVersioning(EmptyBucket, "enabled"), w, d, t, s)
           /\ SetVersioning(EmptyBucket, "enabled").exists
           /\ SetVersioning(EmptyBucket, "enabled").ver = "enabled"
           /\ SameModes(EmptyBucket, [SetVersioning(EmptyBucket, "enabled") EXCEPT !.ver = "disabled"])
           /\ ~EmptyBucket.azVersioning /\ ~EmptyBucket.azSoft /\ EmptyBucket.s3 = "none"
           /\ ~EmptyBucket.s3Lock /\ ~EmptyBucket.gcsSoft /\ EmptyBucket.gcsRetention = 0
           /\ EmptyBucket.exists /\ EmptyBucket.ver = "disabled"
  <1>1. EmptyBucket \in Buckets /\ Good(EmptyBucket, w, d, t, s)  BY NoBucketType, NewGood
  <1>2. /\ EmptyBucket.azVersioning = FALSE /\ EmptyBucket.azSoft = FALSE /\ EmptyBucket.s3 = "none"
        /\ EmptyBucket.s3Lock = FALSE /\ EmptyBucket.gcsSoft = FALSE /\ EmptyBucket.gcsRetention = 0
        /\ EmptyBucket.exists = TRUE /\ EmptyBucket.ver = "disabled"
    BY DEF EmptyBucket, NoBucket
  <1> HIDE DEF EmptyBucket
  <1>3. ~AzureHistoryMode(EmptyBucket)  BY <1>2 DEF AzureHistoryMode
  <1>4. /\ SetVersioning(EmptyBucket, "enabled") \in Buckets
        /\ Good(SetVersioning(EmptyBucket, "enabled"), w, d, t, s)
    BY <1>1, <1>2, <1>3, VersioningGood
  <1>5. \A k \in Keys : EmptyBucket.cur[k].g = 0 => EmptyBucket.cur[k] = NoObject
    BY <1>1 DEF Good, KeyOK, Numbered
  <1>6. /\ SetVersioning(EmptyBucket, "enabled").ver = "enabled"
        /\ SameModes(EmptyBucket, [SetVersioning(EmptyBucket, "enabled") EXCEPT !.ver = EmptyBucket.ver])
    <2>1. "enabled" \in Modes  BY DEF Modes
    <2> QED  BY <1>1, <1>5, <2>1, SetVersioningIs
  <1>7. SetVersioning(EmptyBucket, "enabled").exists
    BY <1>2, <1>4, <1>6 DEF SameModes, Buckets
  <1> QED  BY <1>2, <1>4, <1>6, <1>7

\* S3 keeps the invariant.
LEMMA S3Step ==
    ASSUME DoorsInv, S3Next, UNCHANGED pending
    PROVE  DoorsInv'
  <1>1. /\ bucket \in Buckets /\ now \in Nat /\ writes \in Nat /\ scene \in Scenes
        /\ Good(bucket, writes, deletion, now, scene) /\ bucket.uploads \subseteq Blobs
    BY BucketFields DEF DoorsInv, NamespaceTypeOK
  <1>2. Names \subseteq Keys /\ Names \subseteq Blobs /\ \A k \in Names : k \notin Snaps
    BY <1>1, NamesAreBlobs
  <1>3. ASSUME S3Request
        PROVE  /\ Aside /\ bucket.exists /\ ~AzureHistoryMode(bucket) /\ ~GcsHistoryMode(bucket)
               /\ \A k \in Keys : ~ImmutableAt(bucket.cur[k], now)
    BY <1>3, S3Clear DEF Aside
  <1>4. CASE S3CreateBucket
    <2>1. Aside /\ writes' = writes  BY <1>4 DEF S3CreateBucket, Aside
    <2> DEFINE e == SetVersioning(EmptyBucket, "enabled")
               l == [e EXCEPT !.s3 = "Enabled", !.s3Lock = TRUE]
    <2>2. PICK lock \in {x \in BOOLEAN : x => Asked("s3Lock")} :
            Serve("s3", NoLease, IF lock THEN <<EmptyBucket, e, l>> ELSE <<EmptyBucket>>)
      BY <1>4 DEF S3CreateBucket
    <2>3. bucket' = EmptyBucket \/ (Asked("s3Lock") /\ (bucket' = e \/ bucket' = l))
      <3> HIDE DEF e, l
      <3>1. CASE lock
        <4>1. Serve("s3", NoLease, <<EmptyBucket, e, l>>)  BY <2>2, <3>1
        <4>2. bucket' = EmptyBucket \/ bucket' = e \/ bucket' = l  BY ONLY <4>1, ServeThree
        <4> QED  BY <2>2, <3>1, <4>2
      <3>2. CASE ~lock
        <4>1. Serve("s3", NoLease, <<EmptyBucket>>)  BY <2>2, <3>2
        <4> QED  BY <4>1, ServeOne
      <3> QED  BY <3>1, <3>2
    <2>4. /\ e \in Buckets /\ Good(e, writes, deletion, now, scene) /\ e.exists /\ e.ver = "enabled"
          /\ SameModes(EmptyBucket, [e EXCEPT !.ver = "disabled"])
          /\ ~EmptyBucket.azVersioning /\ ~EmptyBucket.azSoft
          /\ ~EmptyBucket.gcsSoft /\ EmptyBucket.gcsRetention = 0
      BY <1>1, CreatedGood
    <2> HIDE DEF e
    <2>5. /\ l \in Buckets /\ l.exists /\ l.ver = "enabled" /\ l.cur = e.cur /\ l.hist = e.hist
          /\ l.azVersioning = e.azVersioning /\ l.azSoft = e.azSoft
          /\ l.gcsSoft = e.gcsSoft /\ l.gcsRetention = e.gcsRetention /\ l.s3Lock = TRUE
      BY <2>4 DEF Buckets, Statuses
    <2>6. ~e.azVersioning /\ ~e.azSoft /\ ~e.gcsSoft /\ e.gcsRetention = 0
      BY <2>4 DEF SameModes, Buckets
    <2> HIDE DEF l
    <2>7. CASE bucket' = EmptyBucket  BY <2>1, <2>7, ResetStep
    <2>8. CASE bucket' = e  BY <1>1, <2>1, <2>4, <2>8, Carry
    <2>9. CASE bucket' = l /\ Asked("s3Lock")
      <3>1. ~AzureHistoryMode(l) /\ ~GcsHistoryMode(l) /\ ~AzureHistoryMode(e)
        BY <2>5, <2>6 DEF AzureHistoryMode, GcsHistoryMode
      <3>2. ModeOK(l, deletion, scene)
        BY <2>5, <2>6, <2>9, <3>1 DEF ModeOK, Asked
      <3>3. Good(l, writes, deletion, now, scene)
        BY <1>1, <2>4, <2>5, <3>1, <3>2, MetaGood
      <3> QED  BY <1>1, <2>1, <2>5, <2>9, <3>3, Carry
    <2> QED  BY <2>3, <2>7, <2>8, <2>9
  <1>5. CASE S3PutVersioning
    <2>1. S3Request /\ writes' = writes  BY <1>5 DEF S3PutVersioning
    <2>2. /\ Aside /\ bucket.exists /\ ~AzureHistoryMode(bucket) /\ ~GcsHistoryMode(bucket)
      BY <1>3, <2>1
    <2>3. PICK status \in {"Enabled", "Suspended"} :
            LET mode == IF status = "Enabled" THEN "enabled" ELSE "suspended"
                marked == SetVersioning(bucket, mode)
            IN /\ status = "Suspended" => ~bucket.s3Lock
               /\ Serve("s3", NoLease, <<marked, [marked EXCEPT !.s3 = status]>>)
      BY <1>5 DEF S3PutVersioning
    <2> DEFINE mode == IF status = "Enabled" THEN "enabled" ELSE "suspended"
               m == SetVersioning(bucket, mode)
               n == [m EXCEPT !.s3 = status]
    <2>4. (status = "Suspended" => ~bucket.s3Lock) /\ Serve("s3", NoLease, <<m, n>>)  BY <2>3
    <2>5. mode \in {"enabled", "suspended"} /\ (bucket.s3Lock => mode = "enabled")  BY <2>4
    <2> HIDE DEF mode
    <2>6. m \in Buckets /\ Good(m, writes, deletion, now, scene)
      BY <1>1, <2>2, <2>5, VersioningGood
    <2>7. m.ver = mode /\ SameModes(bucket, [m EXCEPT !.ver = bucket.ver])
      <3>1. \A k \in Keys : bucket.cur[k].g = 0 => bucket.cur[k] = NoObject
        BY <1>1 DEF Good, KeyOK, Numbered
      <3>2. mode \in Modes  BY <2>5 DEF Modes
      <3> QED  BY <1>1, <3>1, <3>2, SetVersioningIs
    <2> HIDE DEF m
    <2>8. /\ m.exists = bucket.exists /\ m.azVersioning = bucket.azVersioning /\ m.azSoft = bucket.azSoft
          /\ m.s3Lock = bucket.s3Lock /\ m.gcsSoft = bucket.gcsSoft /\ m.gcsRetention = bucket.gcsRetention
      BY <2>6, <2>7 DEF SameModes, Buckets
    <2>9. /\ n \in Buckets /\ n.exists = m.exists /\ n.ver = m.ver /\ n.cur = m.cur /\ n.hist = m.hist
          /\ n.azVersioning = m.azVersioning /\ n.azSoft = m.azSoft
          /\ n.gcsSoft = m.gcsSoft /\ n.gcsRetention = m.gcsRetention /\ n.s3Lock = m.s3Lock
      BY <2>6 DEF Buckets, Statuses
    <2> HIDE DEF n
    <2>10. ~AzureHistoryMode(n) /\ ~GcsHistoryMode(n) /\ ~AzureHistoryMode(m)
      BY <2>2, <2>8, <2>9 DEF AzureHistoryMode, GcsHistoryMode
    <2>11. ModeOK(n, deletion, scene)
      BY <2>6, <2>9, <2>10 DEF Good, ModeOK
    <2>12. Good(n, writes, deletion, now, scene)
      BY <1>1, <2>2, <2>6, <2>8, <2>9, <2>10, <2>11, MetaGood
    <2>13. bucket' = m \/ bucket' = n  BY <2>4, ServeTwo
    <2> QED  BY <1>1, <2>1, <2>2, <2>6, <2>9, <2>12, <2>13, Carry
  <1>6. CASE S3DeleteBucket
    <2>1. S3Request /\ writes' = writes /\ bucket' = NoBucket  BY <1>6, ServeOne DEF S3DeleteBucket
    <2> QED  BY <1>3, <2>1, ResetStep
  <1>7. CASE S3Put
    <2>1. S3Request /\ Uses(1)  BY <1>7 DEF S3Put
    <2>2. PICK k \in Names, lock \in LockRequests :
            Serve("s3", NoLease, <<Put(bucket, k, S3New(k, lock))>>)
      BY <1>7 DEF S3Put, S3New
    <2> DEFINE o == S3New(k, lock)
    <2>3. /\ o \in Objects /\ o.g = writes + 1 /\ (o.s3hold \/ o.s3until > 0 => bucket.s3Lock)
          /\ "lease" \notin scene.asks => o.lease = NoLease
          /\ "worm" \notin scene.asks => ~o.hold /\ o.policy = "none"
          /\ ~ImmutableAt(o, now)
      BY <2>1, S3BodyFits
    <2>4. bucket' = Put(bucket, k, o)  BY <2>2, ServeOne
    <2> HIDE DEF o
    <2> QED  BY <1>2, <1>3, <2>1, <2>3, <2>4, PutStep
  <1>8. CASE S3Copy
    <2>1. S3Request /\ Uses(1)  BY <1>8 DEF S3Copy
    <2>2. PICK from \in Names, to \in Names, lock \in LockRequests, r \in BOOLEAN :
            \E src \in CopySources(from) : Serve("s3", NoLease, <<Put(bucket, to, Copied(src, lock, r))>>)
      BY <1>8 DEF S3Copy
    <2>3. PICK src \in CopySources(from) : Serve("s3", NoLease, <<Put(bucket, to, Copied(src, lock, r))>>)
      BY <2>2
    <2> DEFINE o == Copied(src, lock, r)
    <2>4. /\ o \in Objects /\ o.g = writes + 1 /\ (o.s3hold \/ o.s3until > 0 => bucket.s3Lock)
          /\ "lease" \notin scene.asks => o.lease = NoLease
          /\ "worm" \notin scene.asks => ~o.hold /\ o.policy = "none"
          /\ deletion # NoDeletion => ~ImmutableAt(o, now)
      BY <1>2, CopiedFits
    <2>5. bucket' = Put(bucket, to, o)  BY <2>3, ServeOne
    <2> HIDE DEF o
    <2> QED  BY <1>2, <1>3, <2>1, <2>4, <2>5, PutStep
  <1>9. CASE S3BrowserUpload
    <2>1. S3Request /\ Uses(1)  BY <1>9 DEF S3BrowserUpload
    <2>2. PICK k \in Names : Serve("s3", NoLease, <<Put(bucket, k, Fresh(writes + 1))>>)
      BY <1>9 DEF S3BrowserUpload
    <2>3. bucket' = Put(bucket, k, Fresh(writes + 1))  BY <2>2, ServeOne
    <2> QED  BY <1>2, <1>3, <2>1, <2>3, CompleteStep
  <1>10. CASE S3InitiateUpload
    <2>1. S3Request /\ writes' = writes  BY <1>10 DEF S3InitiateUpload
    <2>2. PICK k \in Names : bucket' = [bucket EXCEPT !.uploads = @ \cup {k}]
      BY <1>10, ServeOne DEF S3InitiateUpload
    <2>3. bucket' = [bucket EXCEPT !.uploads = bucket.uploads \cup {k}]  BY <2>2
    <2>4. bucket.uploads \cup {k} \in SUBSET Blobs  BY <1>1, <1>2
    <2> QED  BY <1>3, <2>1, <2>3, <2>4, UploadsStep
  <1>11. CASE S3CompleteUpload
    <2>1. S3Request /\ Uses(1)  BY <1>11 DEF S3CompleteUpload
    <2>2. PICK k \in bucket.uploads :
            LET published == Put(bucket, k, Fresh(writes + 1))
            IN Serve("s3", NoLease, <<published, [published EXCEPT !.uploads = @ \ {k}]>>)
      BY <1>11 DEF S3CompleteUpload
    <2>3. \/ bucket' = Put(bucket, k, Fresh(writes + 1))
          \/ bucket' = [Put(bucket, k, Fresh(writes + 1)) EXCEPT !.uploads = @ \ {k}]
      <3> DEFINE p == Put(bucket, k, Fresh(writes + 1))
                 q == [p EXCEPT !.uploads = @ \ {k}]
      <3>1. Serve("s3", NoLease, <<p, q>>)  BY <2>2
      <3> HIDE DEF p, q
      <3>2. bucket' = p \/ bucket' = q  BY ONLY <3>1, ServeTwo
      <3> QED  BY <3>2 DEF p, q
    <2> QED  BY <1>1, <1>3, <2>1, <2>3, CompleteStep, NamesAreBlobs
  <1>12. CASE S3AbortUpload
    <2>1. Aside /\ writes' = writes  BY <1>12 DEF S3AbortUpload, Aside
    <2>2. PICK k \in bucket.uploads : bucket' = [bucket EXCEPT !.uploads = @ \ {k}]
      BY <1>12, ServeOne DEF S3AbortUpload
    <2>3. bucket' = [bucket EXCEPT !.uploads = bucket.uploads \ {k}]  BY <2>2
    <2>4. bucket.exists  BY <1>1 DEF Good, Absent, NoBucket
    <2>5. bucket.uploads \ {k} \in SUBSET Blobs  BY <1>1
    <2> QED  BY <2>1, <2>3, <2>4, <2>5, UploadsStep
  <1>13. CASE S3Delete
    <2>1. S3Request /\ Uses(1)  BY <1>13 DEF S3Delete
    <2>2. PICK k \in Names, v \in Int \cup {NoVid} :
            \E b \in S3Deleted(bucket, k, v, writes + 1) : Serve("s3", NoLease, <<b>>)
      <3>1. PICK k \in Names : \E v \in Selectors(k) :
              \E b \in S3Deleted(bucket, k, v, writes + 1) : Serve("s3", NoLease, <<b>>)
        BY <1>13 DEF S3Delete
      <3>2. Selectors(k) \subseteq Int \cup {NoVid}
        BY <1>1, <1>2, BucketFields DEF Selectors, VersionsOf, Objects
      <3> QED  BY <3>1, <3>2
    <2>3. PICK b \in S3Deleted(bucket, k, v, writes + 1) : bucket' = b  BY <2>2, ServeOne
    <2>4. b \in Buckets /\ Good(b, writes + 1, deletion, now, scene)
      BY <1>1, <1>2, <1>3, <2>1, <2>3, S3DeletedGood
    <2>5. writes' = writes + 1 /\ writes + 1 \in Nat  BY <1>1, <2>1 DEF Uses
    <2> QED  BY <1>3, <2>1, <2>3, <2>4, <2>5, Carry
  <1>14. CASE S3MultiDelete
    <2>1. S3Request /\ Uses(2)  BY <1>14 DEF S3MultiDelete
    <2>2. PICK k \in Names, l \in Names :
            \E v \in Selectors(k), w \in Selectors(l) :
              \E b \in S3Deleted(bucket, k, v, writes + 1) :
                \E c \in S3Deleted(b, l, w, writes + 2) : Serve("s3", NoLease, <<b, c>>)
      BY <1>14 DEF S3MultiDelete
    <2>3. PICK v \in Selectors(k), w \in Selectors(l) :
              \E b \in S3Deleted(bucket, k, v, writes + 1) :
                \E c \in S3Deleted(b, l, w, writes + 2) : Serve("s3", NoLease, <<b, c>>)
      BY <2>2
    <2>4. PICK b \in S3Deleted(bucket, k, v, writes + 1) :
                \E c \in S3Deleted(b, l, w, writes + 2) : Serve("s3", NoLease, <<b, c>>)
      BY <2>3
    <2>5. PICK c \in S3Deleted(b, l, w, writes + 2) : Serve("s3", NoLease, <<b, c>>)  BY <2>4
    <2>6. bucket' = b \/ bucket' = c  BY <2>5, ServeTwo
    <2>7. /\ b \in Buckets /\ Good(b, writes + 1, deletion, now, scene) /\ SameModes(bucket, b)
          /\ Apart(scene) => \A j \in Keys : ~ImmutableAt(b.cur[j], now)
      BY <1>1, <1>2, <1>3, <2>1, <2>4, S3DeletedGood
    <2>8. b.exists /\ ~AzureHistoryMode(b)
      BY <1>3, <2>1, <2>7 DEF SameModes, AzureHistoryMode
    <2> DEFINE u == writes + 1
    <2>9. u \in Nat /\ writes + 2 = u + 1 /\ Good(b, u, deletion, now, scene)  BY <1>1, <2>7
    <2>10. c \in S3Deleted(b, l, w, u + 1)  BY <2>5, <2>9
    <2> HIDE DEF u
    <2>11. c \in Buckets /\ Good(c, u + 1, deletion, now, scene)
      BY <1>1, <1>2, <2>7, <2>8, <2>9, <2>10, S3DeletedGood
    <2>12. writes' = u + 1 /\ u + 1 \in Nat /\ u <= u + 1  BY <2>1, <2>9 DEF Uses
    <2>13. Good(b, u + 1, deletion, now, scene)  BY <2>7, <2>9, <2>12, LaterGood
    <2> QED  BY <1>3, <2>1, <2>6, <2>7, <2>11, <2>12, <2>13, Carry
  <1> QED
    BY <1>4, <1>5, <1>6, <1>7, <1>8, <1>9, <1>10, <1>11, <1>12, <1>13, <1>14 DEF S3Next

(***************************************************************************)
(* GCS.                                                                    *)
(***************************************************************************)
\* What GCS asks before every request to an object.
LEMMA GcsClear ==
    ASSUME DoorsInv, GcsRequest
    PROVE  /\ bucket.exists /\ ~AzureHistoryMode(bucket) /\ ~S3HistoryMode(bucket)
           /\ ~AzureActive(bucket) /\ UNCHANGED <<deletion, now, scene>>
           /\ \A k \in Keys : ~ImmutableAt(bucket.cur[k], now) /\ bucket.cur[k].lease = NoLease
  <1>1. /\ bucket.exists /\ ~AzureHistoryMode(bucket) /\ ~S3HistoryMode(bucket)
        /\ ~AzureActive(bucket) /\ UNCHANGED <<deletion, now, scene>>
    BY DEF GcsRequest, GcsConflict
  <1> QED  BY <1>1, Unprotected

\* The larger of two numbers is a number.
LEMMA MaxOfTwo ==
    ASSUME NEW x \in Nat, NEW y \in Nat
    PROVE  Max({x, y}) \in Nat
  <1>1. \E z \in {x, y} : \A u \in {x, y} : z >= u
    <2>1. CASE x >= y  BY <2>1
    <2>2. CASE ~(x >= y)  BY <2>2
    <2> QED  BY <2>1, <2>2
  <1>2. Max({x, y}) \in {x, y}  BY <1>1 DEF Max
  <1> QED  BY <1>2

\* Generation numbers are numbers.
LEMMA NextGenerationType ==
    ASSUME now \in Nat, NEW o \in Objects
    PROVE  NextGeneration(o) \in Nat /\ Generation(o) \in Nat
  <1>1. Generation(o) \in Nat  BY DEF Generation, Objects
  <1>2. NextGeneration(o) = Max({now} \cup {Generation(x) + 1 : x \in {y \in {o} : y.g # 0}})
    BY DEF NextGeneration
  <1>3. CASE o.g = 0
    <2>1. {now} \cup {Generation(x) + 1 : x \in {y \in {o} : y.g # 0}} = {now, now}  BY <1>3
    <2> QED  BY <1>1, <1>2, <2>1, MaxOfTwo
  <1>4. CASE o.g # 0
    <2> DEFINE n == Generation(o) + 1
    <2>1. n \in Nat  BY <1>1
    <2>2. {now} \cup {Generation(x) + 1 : x \in {y \in {o} : y.g # 0}} = {now, n}  BY <1>4
    <2> HIDE DEF n
    <2> QED  BY <1>1, <1>2, <2>1, <2>2, MaxOfTwo
  <1> QED  BY <1>3, <1>4

\* The object that GCS writes fits anywhere.
LEMMA GcsNewFits ==
    ASSUME DoorsInv, NEW gen \in Nat,
           NEW o, o = [Fresh(writes + 1) EXCEPT !.gen = gen, !.meta = 1]
    PROVE  /\ o \in Objects /\ o.g = writes + 1 /\ o.lease = NoLease
           /\ ~o.hold /\ o.policy = "none" /\ ~o.s3hold /\ ~(o.s3until > 0) /\ ~ImmutableAt(o, now)
  <1> DEFINE f == Fresh(writes + 1)
  <1>1. /\ f \in Objects /\ f.g = writes + 1 /\ f.lease = NoLease /\ ~f.hold /\ f.policy = "none"
        /\ ~f.s3hold /\ ~(f.s3until > 0)
    BY FreshFits
  <1>2. o = [f EXCEPT !.gen = gen, !.meta = 1]  OBVIOUS
  <1> HIDE DEF f
  <1>3. f \in Objects /\ 1 \in Nat  BY <1>1
  <1>4. /\ o \in Objects /\ o.g = f.g /\ o.lease = f.lease /\ o.hold = f.hold /\ o.policy = f.policy
        /\ o.s3hold = f.s3hold /\ o.s3until = f.s3until
    BY ONLY gen \in Nat, <1>2, <1>3 DEF Objects
  <1> QED  BY <1>1, <1>4 DEF ImmutableAt

\* The two effects of apply_bucket_data_protection, where the bucket may be
\* protected by GCS.
LEMMA ProtectGood ==
    ASSUME NEW b \in Buckets, NEW w \in Nat, NEW d, NEW t, NEW s,
           Good(b, w, d, t, s), b.exists, "gcsProtect" \in s.asks, NEW doc \in BucketDocuments,
           Requested(doc) => ~AzureHistoryMode(b) /\ ~S3HistoryMode(b),
           NEW c, c = GcsProtect(b, doc)[1] \/ c = GcsProtect(b, doc)[2]
    PROVE  c \in Buckets /\ Good(c, w, d, t, s)
  <1> DEFINE v == IF doc.soft THEN SetVersioning(b, "enabled") ELSE b
             r == IF doc.retention = Unnamed THEN v.gcsRetention ELSE doc.retention
             x == [v EXCEPT !.gcsSoft = v.gcsSoft \/ doc.soft, !.gcsRetention = r]
  <1>1. doc.soft \in BOOLEAN /\ doc.retention \in {Unnamed, 0} \cup Retentions
    BY DEF BucketDocuments
  <1>2. v \in Buckets /\ Good(v, w, d, t, s)
    <2>1. CASE doc.soft
      <3>1. ~AzureHistoryMode(b)  BY <2>1 DEF Requested
      <3>2. "enabled" \in {"enabled", "suspended"}  OBVIOUS
      <3>3. SetVersioning(b, "enabled") \in Buckets /\ Good(SetVersioning(b, "enabled"), w, d, t, s)
        BY <3>1, <3>2, VersioningGood
      <3> QED  BY <2>1, <3>3
    <2>2. CASE ~doc.soft  BY <2>2
    <2> QED  BY <1>1, <2>1, <2>2
  <1>3. /\ v.exists = b.exists /\ v.azVersioning = b.azVersioning /\ v.azSoft = b.azSoft
        /\ v.s3 = b.s3 /\ v.s3Lock = b.s3Lock
        /\ v.gcsSoft = b.gcsSoft /\ v.gcsRetention = b.gcsRetention
    <2>1. CASE doc.soft
      <3> DEFINE e == SetVersioning(b, "enabled")
      <3>1. \A k \in Keys : b.cur[k].g = 0 => b.cur[k] = NoObject  BY DEF Good, KeyOK, Numbered
      <3>2. "enabled" \in Modes  BY DEF Modes
      <3>3. e \in Buckets /\ SameModes(b, [e EXCEPT !.ver = b.ver])  BY <3>1, <3>2, SetVersioningIs
      <3>4. v = e  BY <2>1
      <3> HIDE DEF e, v
      <3> QED  BY <3>3, <3>4 DEF SameModes, Buckets
    <2>2. CASE ~doc.soft  BY <2>2
    <2> QED  BY <1>1, <2>1, <2>2
  <1>4. c = v \/ c = x  BY DEF GcsProtect
  <1> HIDE DEF v
  <1>5. r \in Nat
    <2>1. v.gcsRetention \in Nat  BY <1>2, BucketFields
    <2>2. doc.retention # Unnamed => doc.retention \in Nat
      <3>1. doc.retention \in Retentions => doc.retention \in Nat  BY GcsAssumption
      <3> QED  BY <1>1, <3>1
    <2> QED  BY <2>1, <2>2
  <1>7. /\ x \in Buckets /\ x.exists = v.exists /\ x.ver = v.ver /\ x.cur = v.cur /\ x.hist = v.hist
        /\ x.azVersioning = v.azVersioning /\ x.azSoft = v.azSoft /\ x.s3 = v.s3 /\ x.s3Lock = v.s3Lock
        /\ x.gcsSoft = (v.gcsSoft \/ doc.soft) /\ x.gcsRetention = r
    <2> DEFINE q == v.gcsSoft \/ doc.soft
    <2>1. q \in BOOLEAN  OBVIOUS
    <2>2. x = [v EXCEPT !.gcsSoft = q, !.gcsRetention = r] /\ v \in Buckets  BY <1>2
    <2> HIDE DEF q, r, x
    <2>3. /\ x \in Buckets /\ x.exists = v.exists /\ x.ver = v.ver /\ x.cur = v.cur /\ x.hist = v.hist
          /\ x.azVersioning = v.azVersioning /\ x.azSoft = v.azSoft /\ x.s3 = v.s3
          /\ x.s3Lock = v.s3Lock /\ x.gcsSoft = q /\ x.gcsRetention = r
      BY ONLY <1>5, <2>1, <2>2 DEF Buckets
    <2> QED  BY <2>3 DEF q
  <1>8. AzureHistoryMode(x) = AzureHistoryMode(v) /\ AzureHistoryMode(v) = AzureHistoryMode(b)
    BY <1>3, <1>7 DEF AzureHistoryMode
  <1>9. S3HistoryMode(x) = S3HistoryMode(v) /\ S3HistoryMode(v) = S3HistoryMode(b)
    BY <1>3, <1>7 DEF S3HistoryMode
  <1>10. ~Requested(doc) => (GcsHistoryMode(x) => GcsHistoryMode(v))
    <2> SUFFICES ASSUME ~Requested(doc)  PROVE GcsHistoryMode(x) => GcsHistoryMode(v)  OBVIOUS
    <2>1. ~doc.soft /\ ~(doc.retention > 0)  BY DEF Requested
    <2>2. r = v.gcsRetention \/ ~(r > 0)  BY <2>1
    <2> HIDE DEF r
    <2> QED  BY <1>7, <2>1, <2>2 DEF GcsHistoryMode
  <1> HIDE DEF x
  <1>11. ModeOK(v, d, s)  BY <1>2 DEF Good
  <1>12. ModeOK(x, d, s)
    BY <1>7, <1>8, <1>9, <1>10, <1>11 DEF ModeOK
  <1>13. Good(x, w, d, t, s)
    <2>1. v.exists /\ x.exists /\ (v.s3Lock => x.s3Lock) /\ (AzureHistoryMode(v) => AzureHistoryMode(x))
      BY <1>3, <1>7, <1>8
    <2> QED  BY <1>2, <1>7, <1>12, <2>1, MetaGood
  <1> QED  BY <1>2, <1>4, <1>7, <1>13

\* GCS keeps the invariant.
LEMMA GcsStep ==
    ASSUME DoorsInv, GcsNext, UNCHANGED pending
    PROVE  DoorsInv'
  <1>1. /\ bucket \in Buckets /\ now \in Nat /\ writes \in Nat /\ scene \in Scenes
        /\ Good(bucket, writes, deletion, now, scene)
    BY DEF DoorsInv, NamespaceTypeOK
  <1>2. Names \subseteq Keys /\ \A k \in Names : k \notin Snaps  BY <1>1, NamesAreBlobs
  <1>3. ASSUME GcsRequest
        PROVE  /\ Aside /\ bucket.exists
               /\ \A k \in Keys : ~ImmutableAt(bucket.cur[k], now) /\ bucket.cur[k].lease = NoLease
    BY <1>3, GcsClear DEF Aside
  <1>4. ASSUME NEW k \in Names, NEW cond, GcsWrite(k, cond), GcsRequest, Uses(1)
        PROVE  DoorsInv'
    <2> DEFINE gen == NextGeneration(bucket.cur[k])
               o == [Fresh(writes + 1) EXCEPT !.gen = gen, !.meta = 1]
    <2>1. bucket' = Put(bucket, k, o)  BY <1>4, ServeOne DEF GcsWrite
    <2>2. bucket.cur[k] \in Objects  BY <1>2, KeyFacts
    <2>3. gen \in Nat  BY <1>1, <2>2, NextGenerationType
    <2> HIDE DEF gen
    <2>4. /\ o \in Objects /\ o.g = writes + 1 /\ o.lease = NoLease
          /\ ~o.hold /\ o.policy = "none" /\ ~o.s3hold /\ ~(o.s3until > 0) /\ ~ImmutableAt(o, now)
      BY <2>3, GcsNewFits
    <2> HIDE DEF o
    <2> QED  BY <1>2, <1>3, <1>4, <2>1, <2>4, PutStep
  <1>5. ASSUME NEW k \in Names, NEW cond, GcsRemove(k, cond), GcsRequest
        PROVE  DoorsInv'
    <2>1. bucket' = Delete(bucket, k, writes + 1) /\ Uses(1)  BY <1>5, ServeOne DEF GcsRemove
    <2> QED  BY <1>2, <1>3, <1>5, <2>1, DeleteStep
  <1>6. CASE GcsCreateBucket
    <2>1. Aside /\ writes' = writes  BY <1>6 DEF GcsCreateBucket, Aside
    <2>2. PICK doc \in BucketDocuments :
            /\ Requested(doc) => Asked("gcsProtect")
            /\ Serve("gcs", NoLease, IF Requested(doc) THEN <<EmptyBucket>> \o GcsProtect(EmptyBucket, doc)
                                                       ELSE <<EmptyBucket>>)
      BY <1>6 DEF GcsCreateBucket
    <2>3. CASE ~Requested(doc)
      <3>1. Serve("gcs", NoLease, <<EmptyBucket>>)  BY <2>2, <2>3
      <3> QED  BY <2>1, <3>1, ServeOne, ResetStep
    <2>4. CASE Requested(doc)
      <3> DEFINE x == GcsProtect(EmptyBucket, doc)[1]
                 y == GcsProtect(EmptyBucket, doc)[2]
      <3>1. GcsProtect(EmptyBucket, doc) = <<x, y>>  BY DEF GcsProtect
      <3>2. Serve("gcs", NoLease, <<EmptyBucket>> \o <<x, y>>)  BY <2>2, <2>4, <3>1
      <3>3. bucket' = EmptyBucket \/ bucket' = x \/ bucket' = y
        <4> HIDE DEF x, y
        <4> DEFINE q == <<EmptyBucket>> \o <<x, y>>
        <4>1. Len(q) = 3 /\ q[1] = EmptyBucket /\ q[2] = x /\ q[3] = y  OBVIOUS
        <4>2. \E n \in 1 .. Len(q) : bucket' = q[n]  BY <3>2 DEF Serve
        <4> HIDE DEF q
        <4>3. PICK n \in 1 .. 3 : bucket' = q[n]  BY <4>1, <4>2
        <4>4. n = 1 \/ n = 2 \/ n = 3  OBVIOUS
        <4> QED  BY <4>1, <4>3, <4>4
      <3>4. /\ EmptyBucket \in Buckets /\ EmptyBucket.exists
            /\ Good(EmptyBucket, writes, deletion, now, scene)
            /\ ~AzureHistoryMode(EmptyBucket) /\ ~S3HistoryMode(EmptyBucket)
        BY <1>1, NoBucketType, NewGood, CreatedGood DEF AzureHistoryMode, S3HistoryMode
      <3>5. "gcsProtect" \in scene.asks  BY <2>2, <2>4 DEF Asked
      <3>6. /\ x \in Buckets /\ Good(x, writes, deletion, now, scene)
            /\ y \in Buckets /\ Good(y, writes, deletion, now, scene)
        BY <1>1, <3>4, <3>5, ProtectGood
      <3> HIDE DEF x, y
      <3> QED  BY <1>1, <2>1, <3>3, <3>4, <3>6, Carry
    <2> QED  BY <2>3, <2>4
  <1>7. CASE GcsPatchBucket
    <2>1. Aside /\ writes' = writes /\ bucket.exists /\ "gcsProtect" \in scene.asks
      BY <1>7 DEF GcsPatchBucket, Aside, Asked
    <2>2. PICK doc \in BucketDocuments : /\ Requested(doc) => ~GcsConflict(bucket)
                                         /\ Serve("gcs", NoLease, GcsProtect(bucket, doc))
      BY <1>7 DEF GcsPatchBucket
    <2> DEFINE x == GcsProtect(bucket, doc)[1]
               y == GcsProtect(bucket, doc)[2]
    <2>3. GcsProtect(bucket, doc) = <<x, y>>  BY DEF GcsProtect
    <2>4. bucket' = x \/ bucket' = y
      <3>1. Serve("gcs", NoLease, <<x, y>>)  BY <2>2, <2>3
      <3> HIDE DEF x, y
      <3> QED  BY <3>1, ServeTwo
    <2>5. Requested(doc) => ~AzureHistoryMode(bucket) /\ ~S3HistoryMode(bucket)
      BY <2>2 DEF GcsConflict
    <2>6. /\ x \in Buckets /\ Good(x, writes, deletion, now, scene)
          /\ y \in Buckets /\ Good(y, writes, deletion, now, scene)
      BY <1>1, <2>1, <2>5, ProtectGood
    <2> HIDE DEF x, y
    <2> QED  BY <1>1, <2>1, <2>4, <2>6, Carry
  <1>8. CASE GcsDeleteBucket
    <2>1. GcsRequest /\ writes' = writes /\ bucket' = NoBucket  BY <1>8, ServeOne DEF GcsDeleteBucket
    <2> QED  BY <1>3, <2>1, ResetStep
  <1>9. CASE GcsXmlPut  BY <1>4, <1>9 DEF GcsXmlPut
  <1>10. CASE GcsUpload  BY <1>4, <1>10 DEF GcsUpload
  <1>11. CASE GcsPatchObject
    <2>1. GcsRequest /\ writes' = writes  BY <1>11 DEF GcsPatchObject
    <2>2. PICK k \in Names :
            LET o == bucket.cur[k]
            IN /\ o.g # 0 /\ o.meta < MaxMeta
               /\ Serve("gcs", NoLease, <<Touch(bucket, k, [o EXCEPT !.gen = Generation(o),
                                                                    !.meta = Max({o.meta, 1}) + 1])>>)
      BY <1>11 DEF GcsPatchObject
    <2> DEFINE c == bucket.cur[k]
               gen == Generation(c)
               meta == Max({c.meta, 1}) + 1
               o == [c EXCEPT !.gen = gen, !.meta = meta]
    <2>3. c.g # 0 /\ bucket' = Touch(bucket, k, o)  BY <2>2, ServeOne
    <2>4. /\ c \in Objects /\ ("lease" \notin scene.asks => c.lease = NoLease)
          /\ "worm" \notin scene.asks => ~c.hold /\ c.policy = "none"
          /\ deletion # NoDeletion => ~ImmutableAt(c, now)
      BY <1>2, KeyFacts
    <2> HIDE DEF c
    <2>5. gen \in Nat  BY <1>1, <2>4, NextGenerationType
    <2>6. meta \in Nat
      <3>1. c.meta \in Nat /\ 1 \in Nat  BY <2>4 DEF Objects
      <3>2. Max({c.meta, 1}) \in Nat  BY <3>1, MaxOfTwo
      <3> QED  BY <3>2
    <2> HIDE DEF gen, meta
    <2>7. /\ o \in Objects /\ o.g = c.g /\ o.vid = c.vid /\ o.s3hold = c.s3hold /\ o.s3until = c.s3until
          /\ o.lease = c.lease /\ o.hold = c.hold /\ o.policy = c.policy /\ o.until = c.until
      <3>1. c \in Objects  BY <2>4
      <3> QED  BY ONLY <2>5, <2>6, <3>1 DEF Objects, o
    <2> HIDE DEF o
    <2> QED  BY <1>2, <1>3, <2>1, <2>3, <2>4, <2>7, TouchStep DEF c, ImmutableAt
  <1>12. CASE GcsXmlDelete  BY <1>5, <1>12 DEF GcsXmlDelete
  <1>13. CASE GcsJsonDelete  BY <1>5, <1>13 DEF GcsJsonDelete
  <1> QED
    BY <1>6, <1>7, <1>8, <1>9, <1>10, <1>11, <1>12, <1>13 DEF GcsNext

(***************************************************************************)
(* OCI.                                                                    *)
(***************************************************************************)
\* What OCI asks before it writes.
LEMMA OciClear ==
    ASSUME DoorsInv, bucket.exists, ~OciConflict(bucket)
    PROVE  /\ ~AzureHistoryMode(bucket) /\ ~S3HistoryMode(bucket) /\ ~GcsHistoryMode(bucket)
           /\ ~AzureActive(bucket)
           /\ \A k \in Keys : ~ImmutableAt(bucket.cur[k], now) /\ bucket.cur[k].lease = NoLease
  <1>1. /\ ~AzureHistoryMode(bucket) /\ ~S3HistoryMode(bucket) /\ ~GcsHistoryMode(bucket)
        /\ ~AzureActive(bucket)
    BY DEF OciConflict
  <1> QED  BY <1>1, Unprotected

\* OCI keeps the invariant.
LEMMA OciStep ==
    ASSUME DoorsInv, OciNext, UNCHANGED pending
    PROVE  DoorsInv'
  <1>1. /\ bucket \in Buckets /\ now \in Nat /\ writes \in Nat /\ scene \in Scenes
        /\ Good(bucket, writes, deletion, now, scene) /\ bucket.uploads \subseteq Blobs
    BY BucketFields DEF DoorsInv, NamespaceTypeOK
  <1>2. Names \subseteq Keys /\ Names \subseteq Blobs  BY <1>1, NamesAreBlobs
  <1>3. OciRequest => Aside  BY DEF OciRequest, Aside
  <1>4. bucket.uploads # {} => bucket.exists  BY <1>1 DEF Good, Absent, NoBucket
  <1>5. CASE OciCreateBucket
    <2>1. OciRequest /\ writes' = writes /\ bucket' = EmptyBucket
      BY <1>5, ServeOne DEF OciCreateBucket
    <2> QED  BY <1>3, <2>1, ResetStep
  <1>6. CASE OciDeleteBucket
    <2>1. OciRequest /\ writes' = writes /\ bucket' = NoBucket
      BY <1>6, ServeOne DEF OciDeleteBucket
    <2> QED  BY <1>3, <2>1, ResetStep
  <1>7. CASE OciPut
    <2>1. OciRequest /\ Uses(1)  BY <1>7 DEF OciPut
    <2>2. PICK k \in Names, cred \in Credentials :
            /\ bucket.exists /\ ~OciConflict(bucket)
            /\ Serve("oci", cred, <<Put(bucket, k, Fresh(writes + 1))>>)
      BY <1>7 DEF OciPut
    <2>3. bucket' = Put(bucket, k, Fresh(writes + 1))  BY <2>2, ServeOne
    <2> QED  BY <1>2, <1>3, <2>1, <2>2, <2>3, OciClear, CompleteStep
  <1>8. CASE OciDelete
    <2>1. OciRequest /\ Uses(1)  BY <1>8 DEF OciDelete
    <2>2. PICK k \in Names : /\ ~OciConflict(bucket) /\ bucket.exists
                             /\ Serve("oci", Signed, <<Delete(bucket, k, writes + 1)>>)
      BY <1>8 DEF OciDelete, Has
    <2>3. bucket' = Delete(bucket, k, writes + 1)  BY <2>2, ServeOne
    <2> QED  BY <1>2, <1>3, <2>1, <2>2, <2>3, OciClear, DeleteStep
  <1>9. CASE OciInitiateUpload
    <2>1. OciRequest /\ writes' = writes  BY <1>9 DEF OciInitiateUpload
    <2>2. PICK k \in Names, cred \in Credentials :
            bucket.exists /\ Serve("oci", cred, <<[bucket EXCEPT !.uploads = @ \cup {k}]>>)
      BY <1>9 DEF OciInitiateUpload
    <2>3. bucket' = [bucket EXCEPT !.uploads = bucket.uploads \cup {k}]  BY <2>2, ServeOne
    <2>4. bucket.uploads \cup {k} \in SUBSET Blobs  BY <1>1, <1>2
    <2> QED  BY <1>3, <2>1, <2>2, <2>3, <2>4, UploadsStep
  <1>10. CASE OciCommitUpload
    <2>1. OciRequest /\ Uses(1)  BY <1>10 DEF OciCommitUpload
    <2>2. PICK k \in bucket.uploads, cred \in Credentials :
            LET published == Put(bucket, k, Fresh(writes + 1))
            IN /\ MayWrite(cred, k) /\ ~OciConflict(bucket)
               /\ Serve("oci", cred, <<published, [published EXCEPT !.uploads = @ \ {k}]>>)
      BY <1>10 DEF OciCommitUpload
    <2>3. \/ bucket' = Put(bucket, k, Fresh(writes + 1))
          \/ bucket' = [Put(bucket, k, Fresh(writes + 1)) EXCEPT !.uploads = @ \ {k}]
      <3> DEFINE p == Put(bucket, k, Fresh(writes + 1))
                 q == [p EXCEPT !.uploads = @ \ {k}]
      <3>1. Serve("oci", cred, <<p, q>>)  BY <2>2
      <3> HIDE DEF p, q
      <3>2. bucket' = p \/ bucket' = q  BY ONLY <3>1, ServeTwo
      <3> QED  BY <3>2 DEF p, q
    <2>4. bucket.exists /\ ~OciConflict(bucket) /\ k \in Blobs  BY <1>1, <1>4, <2>2
    <2>5. k \in Keys  BY <1>1, <2>4, NamesAreBlobs
    <2> QED  BY <1>3, <2>1, <2>3, <2>4, <2>5, OciClear, CompleteStep
  <1>11. CASE OciAbortUpload
    <2>1. OciRequest /\ writes' = writes  BY <1>11 DEF OciAbortUpload
    <2>2. PICK k \in bucket.uploads, cred \in Credentials :
            Serve("oci", cred, <<[bucket EXCEPT !.uploads = @ \ {k}]>>)
      BY <1>11 DEF OciAbortUpload
    <2>3. bucket' = [bucket EXCEPT !.uploads = bucket.uploads \ {k}]  BY <2>2, ServeOne
    <2>4. bucket.uploads \ {k} \in SUBSET Blobs /\ bucket.exists  BY <1>1, <1>4, <2>2
    <2> QED  BY <1>3, <2>1, <2>3, <2>4, UploadsStep
  <1>12. CASE CreatePar \/ DeletePar
    <2>1. Aside /\ bucket' = bucket /\ writes' = writes
      BY <1>12 DEF CreatePar, DeletePar, nsPlaces, Aside
    <2> QED  BY <1>1, <2>1, IdleStep
  <1> QED
    BY <1>5, <1>6, <1>7, <1>8, <1>9, <1>10, <1>11, <1>12 DEF OciNext

(***************************************************************************)
(* Lifecycle, admin API and MCP tools.                                     *)
(***************************************************************************)
\* A generation that no admin request or lifecycle rule finds protected.
LEMMA PlainObject ==
    ASSUME NEW o, ~DataProtected(o)
    PROVE  ~ImmutableAt(o, now) /\ ~S3Locked(o) /\ o.lease = NoLease
  BY DEF DataProtected, AzureProtected, AzureImmutable, ImmutableAt

\* Housekeeping keeps the invariant.
LEMMA HousekeepingStep ==
    ASSUME DoorsInv, HousekeepingNext, UNCHANGED pending
    PROVE  DoorsInv'
  <1>1. /\ bucket \in Buckets /\ now \in Nat /\ writes \in Nat /\ scene \in Scenes
        /\ Good(bucket, writes, deletion, now, scene) /\ bucket.uploads \subseteq Blobs
    BY BucketFields DEF DoorsInv, NamespaceTypeOK
  <1>2. Names \subseteq Keys /\ Names \subseteq Blobs /\ \A k \in Names : k \notin Snaps
    BY <1>1, NamesAreBlobs
  <1>3. (LifecycleRule => Aside /\ bucket.exists) /\ (AdminRequest => Aside)
    BY DEF LifecycleRule, AdminRequest, Aside
  <1>4. bucket.uploads # {} => bucket.exists  BY <1>1 DEF Good, Absent, NoBucket
  <1>5. CASE ExpireCurrent
    <2>1. LifecycleRule /\ Uses(1)  BY <1>5 DEF ExpireCurrent
    <2>2. PICK gone \in SUBSET Keys :
            /\ \A k \in gone : ~DataProtected(bucket.cur[k])
            /\ bucket' = DeleteAll(bucket, gone, writes + 1)
      <3>1. PICK days \in 1 .. MaxTime :
              LET due == {k \in Keys : Has(bucket, k) /\ Aged(bucket.cur[k], days)
                                                      /\ ~DataProtected(bucket.cur[k])}
              IN \E gone \in SUBSET due \ {{}} : bucket' = DeleteAll(bucket, gone, writes + 1)
        BY <1>5 DEF ExpireCurrent
      <3> DEFINE due == {k \in Keys : Has(bucket, k) /\ Aged(bucket.cur[k], days)
                                                     /\ ~DataProtected(bucket.cur[k])}
      <3>2. PICK gone \in SUBSET due \ {{}} : bucket' = DeleteAll(bucket, gone, writes + 1)  BY <3>1
      <3>3. gone \in SUBSET Keys /\ \A k \in gone : ~DataProtected(bucket.cur[k])  OBVIOUS
      <3> QED  BY <3>2, <3>3
    <2> QED  BY <1>3, <2>1, <2>2, PlainObject, DeleteAllStep
  <1>6. CASE ExpireNoncurrent
    <2>1. LifecycleRule /\ writes' = writes  BY <1>6 DEF ExpireNoncurrent
    <2>2. PICK k \in Keys : \E gone : bucket' \in DeleteVersions(bucket, k, gone)
      BY <1>6 DEF ExpireNoncurrent
    <2> QED  BY <1>3, <2>1, <2>2, VersionsStep
  <1>7. CASE EagerExpire
    <2>1. Aside /\ Uses(1) /\ bucket.exists  BY <1>7 DEF EagerExpire, Aside
    <2>2. PICK k \in Keys : /\ ~DataProtected(bucket.cur[k])
                            /\ Serve("s3", NoLease, <<Delete(bucket, k, writes + 1)>>)
      BY <1>7 DEF EagerExpire
    <2>3. bucket' = Delete(bucket, k, writes + 1)  BY <2>2, ServeOne
    <2> QED  BY <2>1, <2>2, <2>3, PlainObject, DeleteStep
  <1>8. CASE AdminCreateBucket
    <2>1. AdminRequest /\ writes' = writes /\ bucket' = EmptyBucket
      BY <1>8, ServeOne DEF AdminCreateBucket
    <2> QED  BY <1>3, <2>1, ResetStep
  <1>9. CASE AdminDeleteBucket
    <2>1. AdminRequest /\ writes' = writes /\ bucket' = NoBucket
      BY <1>9, ServeOne DEF AdminDeleteBucket
    <2> QED  BY <1>3, <2>1, ResetStep
  <1>10. CASE AdminSetVersioning
    <2>1. /\ AdminRequest /\ writes' = writes /\ bucket.exists
          /\ "adminVersioning" \in scene.asks /\ ~AzureHistoryMode(bucket)
      BY <1>10 DEF AdminSetVersioning, Asked, HistoryForeign
    <2>2. PICK mode \in {"enabled", "suspended"} : Serve("admin", NoLease, <<SetVersioning(bucket, mode)>>)
      BY <1>10 DEF AdminSetVersioning
    <2>3. bucket' = SetVersioning(bucket, mode)  BY <2>2, ServeOne
    <2>4. bucket' \in Buckets /\ Good(bucket', writes, deletion, now, scene)
      BY <1>1, <2>1, <2>3, VersioningGood
    <2> QED  BY <1>1, <1>3, <2>1, <2>4, Carry
  <1>11. CASE AdminPut
    <2>1. AdminRequest /\ Uses(1)  BY <1>11 DEF AdminPut
    <2>2. PICK k \in Names : /\ bucket.exists /\ ~DataProtected(bucket.cur[k])
                             /\ Serve("admin", NoLease, <<Put(bucket, k, Fresh(writes + 1))>>)
      BY <1>11 DEF AdminPut, AdminMutable
    <2>3. bucket' = Put(bucket, k, Fresh(writes + 1))  BY <2>2, ServeOne
    <2> QED  BY <1>2, <1>3, <2>1, <2>2, <2>3, PlainObject, CompleteStep
  <1>12. CASE AdminDelete
    <2>1. AdminRequest /\ Uses(1)  BY <1>12 DEF AdminDelete
    <2>2. PICK k \in Keys :
            LET hidden == Delete(bucket, k, writes + 1)
                vids == {o.vid : o \in VersionsOf(hidden, k)}
            IN /\ AdminMutable(bucket, k, TRUE)
               /\ \E done \in SUBSET vids : bucket' \in DeleteVersions(hidden, k, done)
      BY <1>12 DEF AdminDelete
    <2> DEFINE h == Delete(bucket, k, writes + 1)
    <2>3. PICK done : bucket' \in DeleteVersions(h, k, done)  BY <2>2
    <2>4. bucket.exists /\ ~DataProtected(bucket.cur[k])  BY <2>2 DEF AdminMutable
    <2>5. ~ImmutableAt(bucket.cur[k], now)  BY <2>4, PlainObject
    <2>6. h \in Buckets /\ Good(h, writes + 1, deletion, now, scene) /\ h.exists
      <3> DEFINE ks == {k}
                 g == writes + 1
      <3>1. ks \in SUBSET Keys /\ g \in Nat /\ g # 0  BY <1>1
      <3>2. h = DeleteAll(bucket, ks, g)
        <4> HIDE DEF g
        <4> QED  BY <1>1, <3>1, DeleteIs DEF g
      <3>3. \A j \in ks : Apart(scene) /\ ImmutableAt(bucket.cur[j], now) => AzureHistoryMode(bucket)
        BY <2>5
      <3> HIDE DEF ks, h
      <3>4. h \in Buckets /\ Good(h, writes + 1, deletion, now, scene)
        BY <1>1, <2>4, <3>1, <3>2, <3>3, DeleteAllGood DEF g
      <3> HIDE DEF g
      <3>5. bucket \in Buckets /\ now \in Nat  BY <1>1
      <3>6. /\ DeleteAll(bucket, ks, g) \in Buckets
            /\ SameModes(bucket, DeleteAll(bucket, ks, g))
            /\ DeleteAll(bucket, ks, g).uploads = bucket.uploads
        BY ONLY <3>5, <3>1, DeleteAllIs
      <3> QED  BY <2>4, <3>2, <3>4, <3>6 DEF SameModes
    <2> HIDE DEF h
    <2>7. writes' = writes + 1 /\ writes + 1 \in Nat  BY <1>1, <2>1 DEF Uses
    <2>8. bucket' \in Buckets /\ Good(bucket', writes + 1, deletion, now, scene)
      BY <2>3, <2>6, <2>7, VersionsGood
    <2> QED  BY <1>1, <1>3, <2>1, <2>7, <2>8, Carry
  <1>13. CASE AdminDeleteVersion
    <2>1. AdminRequest /\ writes' = writes  BY <1>13 DEF AdminDeleteVersion
    <2>2. PICK k \in Keys : bucket.exists /\ \E vids : bucket' \in DeleteVersions(bucket, k, vids)
      BY <1>13 DEF AdminDeleteVersion, AdminMutable, DeleteVersion
    <2> QED  BY <1>3, <2>1, <2>2, VersionsStep
  <1>14. CASE AdminAbortUpload
    <2>1. AdminRequest /\ writes' = writes  BY <1>14 DEF AdminAbortUpload
    <2>2. PICK k \in bucket.uploads : Serve("admin", NoLease, <<[bucket EXCEPT !.uploads = @ \ {k}]>>)
      BY <1>14 DEF AdminAbortUpload
    <2>3. bucket' = [bucket EXCEPT !.uploads = bucket.uploads \ {k}]  BY <2>2, ServeOne
    <2>4. bucket.uploads \ {k} \in SUBSET Blobs /\ bucket.exists  BY <1>1, <1>4, <2>2
    <2> QED  BY <1>3, <2>1, <2>3, <2>4, UploadsStep
  <1>15. CASE McpCopy
    <2>1. AdminRequest /\ Uses(1)  BY <1>15 DEF McpCopy
    <2>2. PICK from \in Keys, to \in Names :
            /\ bucket.exists /\ ~DataProtected(bucket.cur[to])
            /\ Serve("mcp", NoLease,
                  <<Put(bucket, to, [bucket.cur[from] EXCEPT !.g = writes + 1, !.lease = NoLease,
                                       !.hold = FALSE, !.policy = "none", !.until = 0,
                                       !.s3hold = FALSE, !.s3until = 0])>>)
      BY <1>15 DEF McpCopy, AdminMutable
    <2> DEFINE c == bucket.cur[from]
               g == writes + 1
               o == [c EXCEPT !.g = g, !.lease = NoLease, !.hold = FALSE, !.policy = "none",
                              !.until = 0, !.s3hold = FALSE, !.s3until = 0]
    <2>3. bucket' = Put(bucket, to, o)  BY <2>2, ServeOne
    <2>4. c \in Objects /\ g \in Nat /\ NoLease \in Leases /\ "none" \in Policies /\ 0 \in Nat
      BY <1>1, KeyFacts DEF Leases, Policies
    <2> HIDE DEF c, g
    <2>5. /\ o \in Objects /\ o.g = g /\ o.lease = NoLease /\ o.hold = FALSE /\ o.policy = "none"
          /\ o.s3hold = FALSE /\ o.s3until = 0
      BY ONLY <2>4 DEF o, Objects
    <2>6. ~(o.s3until > 0) /\ ~ImmutableAt(o, now)  BY <2>5 DEF ImmutableAt
    <2> HIDE DEF o
    <2> QED  BY <1>2, <1>3, <2>1, <2>2, <2>3, <2>5, <2>6, PlainObject, PutStep DEF g
  <1> QED
    BY <1>5, <1>6, <1>7, <1>8, <1>9, <1>10, <1>11, <1>12, <1>13, <1>14, <1>15 DEF HousekeepingNext

\* The check of an MCP tool keeps the invariant.
LEMMA McpCheckStep ==
    ASSUME DoorsInv, McpCheck
    PROVE  DoorsInv'
  <1>1. "mcp" \in scene.asks /\ \E k \in Names, op \in {"delete", "complete"} : pending' = [op |-> op, key |-> k]
    BY DEF McpCheck, Asked
  <1>2. UNCHANGED <<bucket, deletion, now, writes, scene>>  BY DEF McpCheck, nsPlaces
  <1>3. PendingOK(pending', scene)
    <2>1. pending'.key \in scene.names  BY <1>1 DEF Names
    <2> QED  BY <1>1, <2>1 DEF PendingOK
  <1> QED  BY <1>2, <1>3 DEF DoorsInv, NamespaceTypeOK

\* So does the mutation, which asks for nothing again: where MCP tools act,
\* nothing can have been put under a hold or a policy in between.
LEMMA McpActStep ==
    ASSUME DoorsInv, McpAct
    PROVE  DoorsInv'
  <1>1. /\ bucket \in Buckets /\ now \in Nat /\ writes \in Nat /\ scene \in Scenes
        /\ Good(bucket, writes, deletion, now, scene)
    BY DEF DoorsInv, NamespaceTypeOK
  <1> DEFINE k == pending.key
             p == Put(bucket, k, Fresh(writes + 1))
  <1>2. pending # NoPending /\ pending' = NoPending /\ Uses(1) /\ UNCHANGED <<deletion, now, scene>>
    BY DEF McpAct
  <1>3. "mcp" \in scene.asks /\ k \in Names  BY <1>2 DEF DoorsInv, PendingOK, Names
  <1>4. k \in Blobs /\ k \in Keys /\ k \notin Snaps  BY <1>1, <1>3, NamesAreBlobs
  <1>5. Apart(scene) => ~ImmutableAt(bucket.cur[k], now)
    <2>1. Apart(scene) => "worm" \notin scene.asks  BY <1>3 DEF Apart
    <2>2. "worm" \notin scene.asks => ~bucket.cur[k].hold /\ bucket.cur[k].policy = "none"
      BY <1>4, KeyFacts
    <2> QED  BY <2>1, <2>2 DEF ImmutableAt
  <1>6. writes' = writes + 1 /\ writes' \in Nat /\ writes <= writes'  BY <1>1, <1>2 DEF Uses
  <1>7. \/ bucket' = bucket
        \/ bucket.exists /\ bucket' = Delete(bucket, k, writes + 1)
        \/ bucket.exists /\ (bucket' = p \/ bucket' = [p EXCEPT !.uploads = @ \ {k}])
    BY DEF McpAct
  <1>8. bucket' \in Buckets /\ Good(bucket', writes', deletion, now, scene)
    <2>1. CASE bucket' = bucket  BY <1>1, <1>6, <2>1, LaterGood
    <2>2. CASE bucket.exists /\ bucket' = Delete(bucket, k, writes + 1)
      <3> DEFINE ks == {k}
                 g == writes + 1
      <3>1. ks \in SUBSET Keys /\ g \in Nat /\ g # 0  BY <1>1, <1>4
      <3>2. \A j \in ks : Apart(scene) /\ ImmutableAt(bucket.cur[j], now) => AzureHistoryMode(bucket)
        BY <1>5
      <3> HIDE DEF k
      <3>3. bucket' = DeleteAll(bucket, ks, g)
        <4>1. bucket' = Delete(bucket, k, g)  BY <2>2
        <4> HIDE DEF g
        <4> QED  BY <1>1, <1>4, <3>1, <4>1, DeleteIs
      <3> HIDE DEF ks
      <3> QED  BY <1>1, <1>6, <2>2, <3>1, <3>2, <3>3, DeleteAllGood
    <2>3. CASE bucket.exists /\ (bucket' = p \/ bucket' = [p EXCEPT !.uploads = @ \ {k}])
      <3> DEFINE f == Fresh(writes + 1)
      <3>1. /\ f \in Objects /\ f.g = writes + 1 /\ f.lease = NoLease /\ ~f.hold /\ f.policy = "none"
            /\ ~f.s3hold /\ ~(f.s3until > 0) /\ ~ImmutableAt(f, now)
        BY FreshFits
      <3>2. p = Put(bucket, k, f)  OBVIOUS
      <3> HIDE DEF f, k, p
      <3>3. p \in Buckets /\ Good(p, writes + 1, deletion, now, scene)
        BY <1>1, <1>4, <1>5, <2>3, <3>1, <3>2, PutGood
      <3>4. p.exists
        <4>1. f.g # 0  BY <1>1, <3>1
        <4>2. OnlyAt(bucket, p, k)  BY <1>1, <1>4, <3>1, <3>2, <4>1, PutIs
        <4> QED  BY <2>3, <4>2 DEF OnlyAt, SameModes
      <3>5. CASE bucket' = p  BY <1>6, <3>3, <3>5
      <3>6. CASE bucket' = [p EXCEPT !.uploads = @ \ {k}]
        <4>1. /\ bucket' \in Buckets /\ SameModes(p, bucket')
              /\ bucket'.cur = p.cur /\ bucket'.hist = p.hist
          BY <3>3, <3>6 DEF Buckets, SameModes
        <4>2. ModeOK(bucket', deletion, scene) /\ (AzureHistoryMode(p) => AzureHistoryMode(bucket'))
          BY <3>3, <4>1 DEF Good, ModeOK, SameModes, AzureHistoryMode, S3HistoryMode, GcsHistoryMode
        <4>3. Good(bucket', writes', deletion, now, scene)
          BY <1>6, <3>3, <3>4, <4>1, <4>2, MetaGood DEF SameModes
        <4> QED  BY <4>1, <4>3
      <3> QED  BY <2>3, <3>5, <3>6
    <2> QED  BY <1>7, <2>1, <2>2, <2>3
  <1>9. PendingOK(pending', scene')  BY <1>2 DEF PendingOK
  <1> QED  BY <1>2, <1>6, <1>8, <1>9 DEF DoorsInv, NamespaceTypeOK

\* So does the clock.
LEMMA TickStep ==
    ASSUME DoorsInv, Tick, UNCHANGED pending
    PROVE  DoorsInv'
  <1>1. /\ bucket \in Buckets /\ now \in Nat /\ writes \in Nat
        /\ Good(bucket, writes, deletion, now, scene)
    BY DEF DoorsInv, NamespaceTypeOK
  <1>2. now' = now + 1 /\ UNCHANGED <<bucket, deletion, writes, scene>>  BY DEF Tick
  <1>3. Good(bucket, writes, deletion, now + 1, scene)  BY <1>1, TickGood
  <1> QED  BY <1>1, <1>2, <1>3 DEF DoorsInv, NamespaceTypeOK

(***************************************************************************)
(* Azure.                                                                  *)
(***************************************************************************)
\* A recorded deletion meets nothing immutable, so none is ever abandoned.
LEMMA NeverAbandoned ==
    ASSUME DoorsInv, deletion # NoDeletion
    PROVE  ~ContainerImmutable(bucket)
  <1> SUFFICES ASSUME NEW o \in Stored(bucket)  PROVE ~AzureImmutable(o)
    BY DEF ContainerImmutable
  <1>1. PICK k \in Keys : o \in Under(bucket, k)  BY DEF Stored, Current, Under
  <1>2. Calm(bucket, k, deletion, now)  BY DEF DoorsInv, Good, KeyOK
  <1> QED  BY <1>1, <1>2 DEF Calm, ImmutableAt, AzureImmutable

\* What Azure asks before every request to a blob.
LEMMA AzureClear ==
    ASSUME DoorsInv, AzureBlobRequest
    PROVE  /\ bucket.exists /\ ~S3HistoryMode(bucket) /\ ~GcsHistoryMode(bucket)
           /\ AzureHistoryMode(bucket) <=> bucket.ver = "enabled"
           /\ deletion = NoDeletion /\ UNCHANGED <<deletion, now, scene>>
  <1>1. deletion = NoDeletion  BY NeverAbandoned DEF AzureBlobRequest, Resolved
  <1>2. /\ bucket.exists /\ ~S3HistoryMode(bucket) /\ ~GcsHistoryMode(bucket)
        /\ bucket.ver = "enabled" => AzureHistoryMode(bucket)
        /\ UNCHANGED <<deletion, now, scene>>
    BY <1>1 DEF AzureBlobRequest, AzureConflict
  <1>3. AzureHistoryMode(bucket) => bucket.ver = "enabled"
    BY <1>1 DEF DoorsInv, Good, ModeOK
  <1> QED  BY <1>1, <1>2, <1>3

\* A request that rewrites the metadata of the current blob.
LEMMA RewriteStep ==
    ASSUME DoorsInv, AzureBlobRequest, UNCHANGED pending, NEW k \in Names, NEW lease,
           NEW o \in Objects, Rewrite(k, lease, o), Has(bucket, k),
           o.g = bucket.cur[k].g, o.vid = bucket.cur[k].vid,
           o.s3hold = bucket.cur[k].s3hold, o.s3until = bucket.cur[k].s3until,
           "lease" \notin scene.asks => o.lease = NoLease,
           "worm" \notin scene.asks => ~o.hold /\ o.policy = "none"
    PROVE  DoorsInv'
  <1>1. deletion = NoDeletion /\ bucket.exists /\ Aside  BY AzureClear DEF Aside
  <1>2. k \in Keys  BY NamesAreBlobs DEF DoorsInv, NamespaceTypeOK
  <1>3. bucket' = Touch(bucket, k, o) /\ writes' = writes  BY ServeOne DEF Rewrite
  <1> QED  BY <1>1, <1>2, <1>3, TouchStep DEF Has

\* The lease, policy and hold requests.
LEMMA RewritesStep ==
    ASSUME DoorsInv, UNCHANGED pending,
           \/ AcquireLease \/ ReleaseLease \/ BreakLease
           \/ PutPolicy \/ DeletePolicy \/ PutLegalHold
    PROVE  DoorsInv'
  <1>1. now \in Nat /\ MaxTime \in Nat  BY NamespaceAssumption DEF DoorsInv, NamespaceTypeOK
  <1>2. \A k \in Names :
           LET c == bucket.cur[k]
           IN /\ c \in Objects
              /\ "lease" \notin scene.asks => c.lease = NoLease
              /\ "worm" \notin scene.asks => ~c.hold /\ c.policy = "none"
    BY KeyFacts, NamesAreBlobs DEF DoorsInv, NamespaceTypeOK
  <1>3. ASSUME NEW k \in Names, NEW lease, NEW id \in Leases, AzureBlobRequest, Asked("lease"),
               Has(bucket, k), Rewrite(k, lease, [bucket.cur[k] EXCEPT !.lease = id])
        PROVE  DoorsInv'
    <2> DEFINE c == bucket.cur[k]
               o == [c EXCEPT !.lease = id]
    <2>1. /\ c \in Objects /\ ("lease" \notin scene.asks => c.lease = NoLease)
          /\ "worm" \notin scene.asks => ~c.hold /\ c.policy = "none"
      BY <1>2
    <2>2. Rewrite(k, lease, o)  BY <1>3
    <2> HIDE DEF c
    <2>3. /\ o \in Objects /\ o.g = c.g /\ o.vid = c.vid /\ o.s3hold = c.s3hold
          /\ o.s3until = c.s3until /\ o.hold = c.hold /\ o.policy = c.policy
      <3>1. c \in Objects /\ id \in Leases  BY <2>1
      <3> QED  BY ONLY <3>1 DEF o, Objects
    <2> HIDE DEF o
    <2> QED  BY <1>3, <2>1, <2>2, <2>3, RewriteStep DEF c, Asked
  <1>4. ASSUME NEW k \in Names, NEW policy \in Policies, NEW until \in Nat, NEW hold \in BOOLEAN,
               NEW o, o = [bucket.cur[k] EXCEPT !.policy = policy, !.until = until, !.hold = hold],
               AzureBlobRequest, Asked("worm"), Has(bucket, k), Rewrite(k, NoLease, o)
        PROVE  DoorsInv'
    <2> DEFINE c == bucket.cur[k]
    <2>1. c \in Objects /\ ("lease" \notin scene.asks => c.lease = NoLease)  BY <1>2
    <2>2. o = [c EXCEPT !.policy = policy, !.until = until, !.hold = hold]  BY <1>4
    <2> HIDE DEF c
    <2>3. /\ o \in Objects /\ o.g = c.g /\ o.vid = c.vid /\ o.s3hold = c.s3hold
          /\ o.s3until = c.s3until /\ o.lease = c.lease
      <3>1. c \in Objects /\ policy \in Policies /\ until \in Nat /\ hold \in BOOLEAN  BY <2>1
      <3> QED  BY ONLY <2>2, <3>1 DEF Objects
    <2> QED  BY <1>4, <2>1, <2>3, RewriteStep DEF c, Asked
  <1>5. ASSUME NEW c \in Objects, NEW p, NEW u, NEW h
        PROVE  /\ [c EXCEPT !.policy = p, !.until = u] = [c EXCEPT !.policy = p, !.until = u, !.hold = c.hold]
               /\ [c EXCEPT !.hold = h] = [c EXCEPT !.policy = c.policy, !.until = c.until, !.hold = h]
    BY DEF Objects
  <1>6. CASE AcquireLease
    BY <1>3, <1>6 DEF AcquireLease, Leases
  <1>7. CASE ReleaseLease
    BY <1>3, <1>7 DEF ReleaseLease, Leases
  <1>8. CASE BreakLease
    BY <1>3, <1>8 DEF BreakLease, Leases
  <1>9. CASE PutPolicy
    <2>1. AzureBlobRequest /\ Asked("worm")  BY <1>9 DEF PutPolicy
    <2>2. PICK k \in Names, mode \in {"unlocked", "locked"}, until \in now + 1 .. MaxTime + 1 :
            /\ Has(bucket, k)
            /\ Rewrite(k, NoLease, [bucket.cur[k] EXCEPT !.policy = mode, !.until = until])
      BY <1>9 DEF PutPolicy
    <2>3. mode \in Policies /\ until \in Nat  BY <1>1 DEF Policies
    <2>4. bucket.cur[k] \in Objects  BY <1>2
    <2>5. bucket.cur[k].hold \in BOOLEAN  BY <2>4 DEF Objects
    <2>6. Rewrite(k, NoLease, [bucket.cur[k] EXCEPT !.policy = mode, !.until = until,
                                                  !.hold = bucket.cur[k].hold])
      BY <2>2, <2>4, <1>5
    <2> QED  BY <1>4, <2>1, <2>2, <2>3, <2>5, <2>6
  <1>10. CASE DeletePolicy
    <2>1. AzureBlobRequest /\ Asked("worm")  BY <1>10 DEF DeletePolicy
    <2>2. PICK k \in Names :
            /\ Has(bucket, k)
            /\ Rewrite(k, NoLease, [bucket.cur[k] EXCEPT !.policy = "none", !.until = 0])
      BY <1>10 DEF DeletePolicy
    <2>3. "none" \in Policies /\ 0 \in Nat  BY DEF Policies
    <2>4. bucket.cur[k] \in Objects  BY <1>2
    <2>5. bucket.cur[k].hold \in BOOLEAN  BY <2>4 DEF Objects
    <2>6. Rewrite(k, NoLease, [bucket.cur[k] EXCEPT !.policy = "none", !.until = 0,
                                                  !.hold = bucket.cur[k].hold])
      BY <2>2, <2>4, <1>5
    <2> QED  BY <1>4, <2>1, <2>2, <2>3, <2>5, <2>6
  <1>11. CASE PutLegalHold
    <2>1. AzureBlobRequest /\ Asked("worm")  BY <1>11 DEF PutLegalHold
    <2>2. PICK k \in Names, on \in BOOLEAN :
            Has(bucket, k) /\ Rewrite(k, NoLease, [bucket.cur[k] EXCEPT !.hold = on])
      BY <1>11 DEF PutLegalHold
    <2>4. bucket.cur[k] \in Objects  BY <1>2
    <2>5. bucket.cur[k].policy \in Policies /\ bucket.cur[k].until \in Nat  BY <2>4 DEF Objects
    <2>6. Rewrite(k, NoLease, [bucket.cur[k] EXCEPT !.policy = bucket.cur[k].policy,
                                                  !.until = bucket.cur[k].until, !.hold = on])
      BY <2>2, <2>4, <1>5
    <2> QED  BY <1>4, <2>1, <2>2, <2>5, <2>6
  <1> QED  BY <1>6, <1>7, <1>8, <1>9, <1>10, <1>11

\* Deleting one key and then others is deleting them all.
LEMMA DeleteTwice ==
    ASSUME now \in Nat, NEW b \in Buckets, NEW k \in Keys, NEW gone \in SUBSET Keys, k \notin gone,
           NEW g \in Nat, g # 0
    PROVE  DeleteAll(Delete(b, k, g), gone, g) = DeleteAll(b, gone \cup {k}, g)
  <1> DEFINE ks == {k}
             all == gone \cup {k}
             h == DeleteAll(b, ks, g)
             x == DeleteAll(h, gone, g)
             y == DeleteAll(b, all, g)
  <1>1. ks \in SUBSET Keys /\ all \in SUBSET Keys  OBVIOUS
  <1>2. Delete(b, k, g) = h  BY DeleteIs
  <1>3. /\ h \in Buckets /\ SameModes(b, h) /\ h.uploads = b.uploads
        /\ \A j \in Keys \ ks : h.cur[j] = b.cur[j] /\ h.hist[j] = b.hist[j]
        /\ \A j \in ks : h.cur[j] = NoObject /\ h.hist[j] = HistoryAfterDelete(b, j, g)
    <2> HIDE DEF ks
    <2> QED  BY ONLY now \in Nat, b \in Buckets, g \in Nat, g # 0, <1>1, DeleteAllIs
  <1>4. /\ y \in Buckets /\ SameModes(b, y) /\ y.uploads = b.uploads
        /\ \A j \in Keys \ all : y.cur[j] = b.cur[j] /\ y.hist[j] = b.hist[j]
        /\ \A j \in all : y.cur[j] = NoObject /\ y.hist[j] = HistoryAfterDelete(b, j, g)
    <2> HIDE DEF all
    <2> QED  BY ONLY now \in Nat, b \in Buckets, g \in Nat, g # 0, <1>1, DeleteAllIs
  <1>5. /\ x \in Buckets /\ SameModes(h, x) /\ x.uploads = h.uploads
        /\ \A j \in Keys \ gone : x.cur[j] = h.cur[j] /\ x.hist[j] = h.hist[j]
        /\ \A j \in gone : x.cur[j] = NoObject /\ x.hist[j] = HistoryAfterDelete(h, j, g)
    <2>1. h \in Buckets  BY <1>3
    <2> HIDE DEF h
    <2> QED  BY ONLY now \in Nat, gone \in SUBSET Keys, g \in Nat, g # 0, <2>1, DeleteAllIs
  <1> HIDE DEF h, x, y
  <1>6. \A j \in gone : HistoryAfterDelete(h, j, g) = HistoryAfterDelete(b, j, g)
    <2> SUFFICES ASSUME NEW j \in gone  PROVE HistoryAfterDelete(h, j, g) = HistoryAfterDelete(b, j, g)
      OBVIOUS
    <2>1. h.ver = b.ver /\ h.cur[j] = b.cur[j] /\ h.hist[j] = b.hist[j]  BY <1>3 DEF SameModes
    <2>2. HistoryAfterWrite(h, j) = HistoryAfterWrite(b, j)
      BY <2>1 DEF HistoryAfterWrite, KeptByWrite
    <2>3. Marker(h, g) = Marker(b, g)  BY <2>1 DEF Marker, VidFor
    <2> QED  BY <2>1, <2>2, <2>3 DEF HistoryAfterDelete
  <1>7. \A j \in Keys : x.cur[j] = y.cur[j] /\ x.hist[j] = y.hist[j]
    <2> TAKE j \in Keys
    <2>1. CASE j \in gone  BY <1>4, <1>5, <1>6, <2>1
    <2>2. CASE j = k  BY <1>3, <1>4, <1>5, <2>2
    <2>3. CASE j \notin gone /\ j # k  BY <1>3, <1>4, <1>5, <2>3
    <2> QED  BY <2>1, <2>2, <2>3
  <1>8. x.cur = y.cur /\ x.hist = y.hist
    <2>1. x.cur \in [Keys -> Objects] /\ y.cur \in [Keys -> Objects]  BY <1>4, <1>5, BucketFields
    <2>2. x.hist \in [Keys -> Histories] /\ y.hist \in [Keys -> Histories]  BY <1>4, <1>5, BucketFields
    <2>3. x.cur = y.cur  BY <1>7, <2>1
    <2>4. x.hist = y.hist  BY <1>7, <2>2
    <2> QED  BY <2>3, <2>4
  <1>9. x = y
    BY <1>3, <1>4, <1>5, <1>8 DEF Buckets, SameModes
  <1> QED  BY <1>2, <1>9 DEF x, y, h

\* The container requests: a container is created, possibly with a history of
\* its own, or its deletion is recorded.
LEMMA CreateContainerStep ==
    ASSUME DoorsInv, CreateContainer, UNCHANGED pending
    PROVE  DoorsInv'
  <1>1. now \in Nat /\ writes \in Nat /\ scene \in Scenes  BY DEF DoorsInv, NamespaceTypeOK
  <1>2. deletion' = NoDeletion /\ UNCHANGED <<now, writes, scene>>  BY DEF CreateContainer
  <1> DEFINE e == SetVersioning(EmptyBucket, "enabled")
  <1>3. PICK versioning \in BOOLEAN, soft \in BOOLEAN :
          LET claims == versioning \/ soft
              claimed == [e EXCEPT !.azVersioning = versioning, !.azSoft = soft]
          IN Serve("azure", NoLease, IF claims THEN <<EmptyBucket, e, claimed>> ELSE <<EmptyBucket>>)
    BY DEF CreateContainer
  <1> DEFINE c == [e EXCEPT !.azVersioning = versioning, !.azSoft = soft]
  <1>4. bucket' = EmptyBucket \/ bucket' = e \/ bucket' = c
    <2> HIDE DEF e
    <2>1. Serve("azure", NoLease, IF versioning \/ soft THEN <<EmptyBucket, e, c>> ELSE <<EmptyBucket>>)
      BY <1>3
    <2> HIDE DEF c
    <2>2. CASE versioning \/ soft
      <3>1. Serve("azure", NoLease, <<EmptyBucket, e, c>>)  BY <2>1, <2>2
      <3> QED  BY ONLY <3>1, ServeThree
    <2>3. CASE ~(versioning \/ soft)
      <3>1. Serve("azure", NoLease, <<EmptyBucket>>)  BY <2>1, <2>3
      <3> QED  BY <3>1, ServeOne
    <2> QED  BY <2>2, <2>3
  <1>5. /\ e \in Buckets /\ Good(e, writes, NoDeletion, now, scene) /\ e.exists /\ e.ver = "enabled"
        /\ SameModes(EmptyBucket, [e EXCEPT !.ver = "disabled"])
        /\ ~EmptyBucket.azVersioning /\ ~EmptyBucket.azSoft /\ EmptyBucket.s3 = "none"
        /\ ~EmptyBucket.s3Lock /\ ~EmptyBucket.gcsSoft /\ EmptyBucket.gcsRetention = 0
    BY <1>1, CreatedGood
  <1> HIDE DEF e
  <1>6. /\ ~e.azVersioning /\ ~e.azSoft /\ e.s3 = "none" /\ ~e.s3Lock /\ ~e.gcsSoft /\ e.gcsRetention = 0
    BY <1>5 DEF SameModes, Buckets
  <1>7. /\ c \in Buckets /\ c.exists = e.exists /\ c.ver = e.ver /\ c.cur = e.cur /\ c.hist = e.hist
        /\ c.s3 = e.s3 /\ c.s3Lock = e.s3Lock /\ c.gcsSoft = e.gcsSoft /\ c.gcsRetention = e.gcsRetention
    BY <1>5 DEF Buckets
  <1> HIDE DEF c
  <1>8. ~S3HistoryMode(c) /\ ~GcsHistoryMode(c) /\ ~AzureHistoryMode(e)
    BY <1>6, <1>7 DEF S3HistoryMode, GcsHistoryMode, AzureHistoryMode
  <1>9. ModeOK(c, NoDeletion, scene)
    BY <1>5, <1>6, <1>7, <1>8 DEF ModeOK
  <1>10. Good(c, writes, NoDeletion, now, scene)
    BY <1>1, <1>5, <1>6, <1>7, <1>8, <1>9, MetaGood
  <1>11. bucket' \in Buckets /\ Good(bucket', writes, NoDeletion, now, scene)
    BY <1>1, <1>4, <1>5, <1>7, <1>10, NoBucketType, NewGood
  <1>12. NoDeletion \in Int  BY DEF NoDeletion
  <1> QED  BY <1>1, <1>2, <1>11, <1>12 DEF DoorsInv, NamespaceTypeOK

\* A container is deleted only when nothing in it is immutable.
LEMMA DeleteContainerStep ==
    ASSUME DoorsInv, DeleteContainer, UNCHANGED pending
    PROVE  DoorsInv'
  <1>1. /\ bucket \in Buckets /\ now \in Nat /\ writes \in Nat /\ scene \in Scenes
        /\ Good(bucket, writes, deletion, now, scene)
    BY DEF DoorsInv, NamespaceTypeOK
  <1>2. /\ UNCHANGED <<bucket, now, writes, scene>> /\ ~ContainerImmutable(bucket)
        /\ \E delay \in 0 .. 1 : deletion' = now + delay
    BY DEF DeleteContainer
  <1>3. deletion' \in Int /\ deletion' # NoDeletion  BY <1>1, <1>2 DEF NoDeletion
  <1>4. \A k \in Keys : \A o \in Under(bucket, k) : ~ImmutableAt(o, now)
    <2> SUFFICES ASSUME NEW k \in Keys, NEW o \in Under(bucket, k)  PROVE ~ImmutableAt(o, now)
      OBVIOUS
    <2>1. CASE o \in bucket.hist[k] \/ o.g # 0
      <3>1. o \in Stored(bucket)
        BY <2>1 DEF Under, Stored, Current
      <3> QED  BY <1>2, <3>1 DEF ContainerImmutable, AzureImmutable, ImmutableAt
    <2>2. CASE o = bucket.cur[k] /\ o.g = 0
      BY <2>2, KeyFacts, NoObjectType DEF ImmutableAt
    <2> QED  BY <2>1, <2>2 DEF Under
  <1>5. Good(bucket, writes, deletion', now, scene)
    <2>1. ModeOK(bucket, deletion', scene)  BY <1>1, <1>3 DEF Good, ModeOK
    <2>2. \A k \in Keys : KeyOK(bucket, k, writes, deletion', now, scene)
      BY <1>1, <1>4 DEF Good, KeyOK, Calm
    <2> QED  BY <1>1, <2>1, <2>2 DEF Good
  <1> QED  BY <1>1, <1>2, <1>3, <1>5 DEF DoorsInv, NamespaceTypeOK

\* The purge of the versions leaves every key as it was or as deleting some of its
\* versions leaves it.
LEMMA PurgedVersionsIs ==
    ASSUME PurgedCurrent(Keys) \in Buckets, NEW c \in PurgedVersions
    PROVE  LET b == PurgedCurrent(Keys)
           IN /\ c \in Buckets /\ SameModes(b, c)
              /\ \A k \in Keys :
                   \/ c.cur[k] = b.cur[k] /\ c.hist[k] = b.hist[k]
                   \/ \E vids : \E a \in DeleteVersions(b, k, vids) :
                        c.cur[k] = a.cur[k] /\ c.hist[k] = a.hist[k]
  <1> DEFINE b == PurgedCurrent(Keys)
             versioned == {k \in Keys : b.hist[k] # {}}
             Left(k) == UNION {DeleteVersions(b, k, vids) : vids \in SUBSET {o.vid : o \in b.hist[k]}}
             Lefts == {f \in [versioned -> UNION {Left(k) : k \in versioned}] :
                          \A k \in versioned : f[k] \in Left(k)}
             Cur(f) == [k \in Keys |-> IF k \in versioned THEN f[k].cur[k] ELSE b.cur[k]]
             Hist(f) == [k \in Keys |-> IF k \in versioned THEN f[k].hist[k] ELSE {}]
  <1>1. PICK f \in Lefts : c = [b EXCEPT !.cur = Cur(f), !.hist = Hist(f)]
    BY DEF PurgedVersions
  <1>2. b \in Buckets  OBVIOUS
  <1> HIDE DEF b
  <1>3. \A k \in versioned : \E vids : f[k] \in DeleteVersions(b, k, vids)  OBVIOUS
  <1>4. \A k \in versioned : f[k] \in Buckets
    BY <1>2, <1>3, DeleteVersionsIs
  <1>5. Cur(f) \in [Keys -> Objects] /\ Hist(f) \in [Keys -> Histories]
    <2>1. \A k \in Keys : Cur(f)[k] \in Objects /\ Hist(f)[k] \in Histories
      BY <1>2, <1>4, BucketFields DEF Histories
    <2> QED  BY <2>1
  <1>6. \A k \in Keys :
          /\ k \in versioned => Cur(f)[k] = f[k].cur[k] /\ Hist(f)[k] = f[k].hist[k]
          /\ k \notin versioned => Cur(f)[k] = b.cur[k] /\ Hist(f)[k] = b.hist[k]
    OBVIOUS
  <1> DEFINE x == Cur(f)
             y == Hist(f)
  <1>7. c = [b EXCEPT !.cur = x, !.hist = y]  BY <1>1
  <1>8. x \in [Keys -> Objects] /\ y \in [Keys -> Histories]  BY <1>5
  <1>9. \A k \in Keys : \/ x[k] = b.cur[k] /\ y[k] = b.hist[k]
                        \/ \E vids : \E a \in DeleteVersions(b, k, vids) :
                             x[k] = a.cur[k] /\ y[k] = a.hist[k]
    <2> TAKE k \in Keys
    <2> HIDE DEF Left, Lefts, Cur, Hist
    <2> QED  BY <1>3, <1>6
  <1> HIDE DEF x, y
  <1>10. c \in Buckets /\ SameModes(b, c) /\ c.cur = x /\ c.hist = y
    BY <1>2, <1>7, <1>8 DEF Buckets, SameModes
  <1> QED  BY <1>9, <1>10 DEF b

\* The purge of a container that is due, wherever it stops.
LEMMA PurgeStep ==
    ASSUME DoorsInv, AzureRead, UNCHANGED pending
    PROVE  DoorsInv'
  <1>1. /\ bucket \in Buckets /\ now \in Nat /\ writes \in Nat /\ scene \in Scenes /\ deletion \in Int
        /\ Good(bucket, writes, deletion, now, scene)
    BY DEF DoorsInv, NamespaceTypeOK
  <1>2. UNCHANGED <<now, scene>> /\ bucket.exists /\ deletion # NoDeletion /\ Purge /\ Uses(1)
    BY NeverAbandoned DEF AzureRead, Purge, Due
  <1>3. writes' = writes + 1 /\ writes' \in Nat  BY <1>1, <1>2 DEF Uses
  <1>4. \/ UNCHANGED deletion /\ \E done \in SUBSET Keys : bucket' = PurgedCurrent(done)
        \/ UNCHANGED deletion /\ bucket' \in PurgedVersions
        \/ bucket' = NoBucket /\ deletion' \in {deletion, NoDeletion}
    BY <1>2 DEF Purge
  <1> DEFINE b == SetVersioning(bucket, "suspended")
  <1>5. b \in Buckets /\ Good(b, writes, deletion, now, scene)
    BY <1>1, <1>2, VersioningGood
  <1>6. b.exists
    <2>1. \A k \in Keys : bucket.cur[k].g = 0 => bucket.cur[k] = NoObject
      BY <1>1 DEF Good, KeyOK, Numbered
    <2>2. "suspended" \in Modes  BY DEF Modes
    <2>3. SameModes(bucket, [b EXCEPT !.ver = bucket.ver])  BY <1>1, <2>1, <2>2, SetVersioningIs
    <2> HIDE DEF b
    <2> QED  BY <1>2, <1>5, <2>3 DEF SameModes, Buckets
  <1>7. ASSUME NEW done \in SUBSET Keys
        PROVE  /\ PurgedCurrent(done) \in Buckets /\ PurgedCurrent(done).exists
               /\ Good(PurgedCurrent(done), writes + 1, deletion, now, scene)
    <2> DEFINE ks == {k \in done : b.cur[k].g # 0}
               g == writes + 1
    <2>1. ks \in SUBSET Keys /\ g \in Nat /\ g # 0  BY <1>1
    <2>2. PurgedCurrent(done) = DeleteAll(b, ks, g)  BY DEF PurgedCurrent
    <2> HIDE DEF b, ks
    <2>3. \A k \in ks : ~ImmutableAt(b.cur[k], now)
      BY <1>2, <1>5, <2>1 DEF Good, KeyOK, Calm, Under
    <2>4. PurgedCurrent(done) \in Buckets /\ Good(PurgedCurrent(done), writes + 1, deletion, now, scene)
      BY <1>1, <1>5, <1>6, <2>1, <2>2, <2>3, DeleteAllGood
    <2> HIDE DEF g
    <2>5. b \in Buckets /\ now \in Nat  BY <1>1, <1>5
    <2>6. /\ DeleteAll(b, ks, g) \in Buckets
          /\ SameModes(b, DeleteAll(b, ks, g)) /\ DeleteAll(b, ks, g).uploads = b.uploads
      BY ONLY <2>1, <2>5, DeleteAllIs
    <2> QED  BY <1>6, <2>2, <2>4, <2>6 DEF SameModes
  <1>8. ASSUME NEW v \in PurgedVersions
        PROVE  v \in Buckets /\ Good(v, writes + 1, deletion, now, scene)
    <2> DEFINE c == PurgedCurrent(Keys)
    <2>1. c \in Buckets /\ c.exists /\ Good(c, writes + 1, deletion, now, scene)  BY <1>7
    <2>2. /\ v \in Buckets /\ SameModes(c, v)
          /\ \A k \in Keys :
               \/ v.cur[k] = c.cur[k] /\ v.hist[k] = c.hist[k]
               \/ \E vids : \E a \in DeleteVersions(c, k, vids) :
                    v.cur[k] = a.cur[k] /\ v.hist[k] = a.hist[k]
      BY <2>1, PurgedVersionsIs
    <2>3. writes + 1 \in Nat  BY <1>1
    <2> DEFINE w == writes + 1
    <2> HIDE DEF c, w
    <2>4. \A k \in Keys : \E a \in Buckets :
            /\ Good(a, w, deletion, now, scene) /\ SameModes(a, v)
            /\ v.cur[k] = a.cur[k] /\ v.hist[k] = a.hist[k]
      <3> TAKE k \in Keys
      <3>1. CASE v.cur[k] = c.cur[k] /\ v.hist[k] = c.hist[k]  BY <2>1, <2>2, <3>1 DEF w
      <3>2. CASE \E vids : \E a \in DeleteVersions(c, k, vids) :
                   v.cur[k] = a.cur[k] /\ v.hist[k] = a.hist[k]
        <4>0. PICK vids : \E a \in DeleteVersions(c, k, vids) : v.cur[k] = a.cur[k] /\ v.hist[k] = a.hist[k]
          BY <3>2
        <4>1. PICK a \in DeleteVersions(c, k, vids) : v.cur[k] = a.cur[k] /\ v.hist[k] = a.hist[k]
          BY <4>0
        <4>2. a \in Buckets /\ Good(a, w, deletion, now, scene)
          BY <2>1, <2>3, <4>1, VersionsGood DEF w
        <4>3. SameModes(c, a)  BY <2>1, <4>1, DeleteVersionsIs DEF OnlyAt
        <4>4. SameModes(a, v)  BY <2>2, <4>3 DEF SameModes
        <4> QED  BY <4>1, <4>2, <4>4
      <3> QED  BY <2>2, <3>1, <3>2
    <2>5. Good(v, w, deletion, now, scene)  BY <2>1, <2>2, <2>3, <2>4, KeysGood DEF w
    <2> QED  BY <2>2, <2>5 DEF w
  <1>9. /\ bucket' \in Buckets /\ deletion' \in Int
        /\ Good(bucket', writes + 1, deletion', now, scene)
    <2>1. CASE UNCHANGED deletion /\ \E done \in SUBSET Keys : bucket' = PurgedCurrent(done)
      BY <1>1, <1>7, <2>1
    <2>3. CASE UNCHANGED deletion /\ bucket' \in PurgedVersions
      BY <1>1, <1>8, <2>3
    <2>2. CASE bucket' = NoBucket /\ deletion' \in {deletion, NoDeletion}
      <3>1. writes + 1 \in Nat /\ NoDeletion \in Int  BY <1>1 DEF NoDeletion
      <3> QED  BY <1>1, <2>2, <3>1, NoBucketType, NewGood
    <2> QED  BY <1>4, <2>1, <2>2, <2>3
  <1> QED  BY <1>1, <1>2, <1>3, <1>9 DEF DoorsInv, NamespaceTypeOK

\* put_blob and put_block_list: new bytes that keep the lease of the blob.
LEMMA BlobStep ==
    ASSUME DoorsInv, AzureBlobRequest, UNCHANGED pending, Uses(1), NEW k \in Names, NEW lease,
           NEW kind \in Kinds, NEW o,
           o = [Fresh(writes + 1) EXCEPT !.lease = bucket.cur[k].lease, !.kind = kind],
           Has(bucket, k) => OverwriteAllowed(bucket, bucket.cur[k], lease),
           Serve("azure", lease, <<Put(bucket, k, o)>>)
    PROVE  DoorsInv'
  <1>1. deletion = NoDeletion /\ bucket.exists /\ Aside  BY AzureClear DEF Aside
  <1>2. k \in Keys /\ k \notin Snaps  BY NamesAreBlobs DEF DoorsInv, NamespaceTypeOK
  <1> DEFINE c == bucket.cur[k]
             f == Fresh(writes + 1)
             l == c.lease
  <1>3. c \in Objects /\ ("lease" \notin scene.asks => c.lease = NoLease) /\ (c.g = 0 => c = NoObject)
    BY <1>2, KeyFacts
  <1>4. /\ f \in Objects /\ f.g = writes + 1 /\ ~f.hold /\ f.policy = "none"
        /\ ~f.s3hold /\ ~(f.s3until > 0)
    BY FreshFits
  <1>5. o = [f EXCEPT !.lease = l, !.kind = kind]  OBVIOUS
  <1>6. ImmutableAt(c, now) => AzureHistoryMode(bucket)
    <2>1. CASE c.g = 0  BY <1>3, <2>1, NoObjectType DEF ImmutableAt
    <2>2. CASE c.g # 0
      BY <1>1, <2>2 DEF Has, OverwriteAllowed, AzureImmutable, ImmutableAt, AzureHistoryMode
    <2> QED  BY <2>1, <2>2
  <1>7. l \in Leases  BY <1>3 DEF Objects
  <1> HIDE DEF c, f
  <1>8. /\ o \in Objects /\ o.g = f.g /\ o.lease = l /\ o.hold = f.hold /\ o.policy = f.policy
        /\ o.s3hold = f.s3hold /\ o.s3until = f.s3until
    <2>1. f \in Objects  BY <1>4
    <2> HIDE DEF l
    <2> QED  BY ONLY kind \in Kinds, <1>5, <1>7, <2>1 DEF Objects
  <1>9. bucket' = Put(bucket, k, o)  BY ServeOne
  <1> QED  BY <1>1, <1>2, <1>3, <1>4, <1>6, <1>8, <1>9, PutStep DEF c

\* In a bucket that Azure may change nothing is locked by S3.
LEMMA AzureUnlocked ==
    ASSUME DoorsInv, AzureBlobRequest, NEW k \in Keys
    PROVE  LET c == bucket.cur[k]
           IN /\ "lease" \notin scene.asks => c.lease = NoLease
              /\ "worm" \notin scene.asks => ~c.hold /\ c.policy = "none"
              /\ ~c.s3hold /\ ~(c.s3until > 0)
  BY KeyFacts, AzureClear DEF S3HistoryMode

\* update_metadata, append_block and put_page.
LEMMA AgainStep ==
    ASSUME DoorsInv, AzureBlobRequest, UNCHANGED pending, NEW k \in Names, NEW lease,
           NEW gen \in Nat, NEW meta \in Nat,
           NEW x, x = [bucket.cur[k] EXCEPT !.gen = gen, !.meta = meta], Again(k, lease, x)
    PROVE  DoorsInv'
  <1>1. deletion = NoDeletion /\ bucket.exists /\ Aside  BY AzureClear DEF Aside
  <1>2. k \in Keys /\ k \notin Snaps /\ now \in Nat /\ writes \in Nat
    BY NamesAreBlobs DEF DoorsInv, NamespaceTypeOK
  <1> DEFINE c == bucket.cur[k]
             g == writes + 1
             l == c.lease
             o == [c EXCEPT !.g = g, !.lease = l, !.at = now, !.gen = gen, !.meta = meta]
  <1>3. c \in Objects  BY <1>2, KeyFacts
  <1>4. ~ImmutableAt(c, now) /\ Uses(1) /\ Serve("azure", lease, <<Put(bucket, k, [x EXCEPT !.g = g, !.at = now])>>)
    BY DEF Again, MutationAllowed, AzureImmutable, ImmutableAt
  <1>5. [x EXCEPT !.g = g, !.at = now] = o
    <2>1. x = [c EXCEPT !.gen = gen, !.meta = meta]  OBVIOUS
    <2> HIDE DEF c, g
    <2> QED  BY <1>3, <2>1 DEF Objects
  <1>6. bucket' = Put(bucket, k, o)  BY <1>4, <1>5, ServeOne
  <1>7. l \in Leases  BY <1>3 DEF Objects
  <1>8. /\ o \in Objects /\ o.g = writes + 1 /\ ~o.s3hold /\ ~(o.s3until > 0)
        /\ "lease" \notin scene.asks => o.lease = NoLease
        /\ "worm" \notin scene.asks => ~o.hold /\ o.policy = "none"
    <2>1. g \in Nat /\ g = writes + 1 /\ now \in Nat  BY <1>2
    <2>2. /\ "lease" \notin scene.asks => c.lease = NoLease
          /\ "worm" \notin scene.asks => ~c.hold /\ c.policy = "none"
          /\ ~c.s3hold /\ ~(c.s3until > 0) /\ l = c.lease
      BY <1>2, AzureUnlocked
    <2> HIDE DEF c, g, l
    <2>3. /\ o \in Objects /\ o.g = g /\ o.lease = l /\ o.s3hold = c.s3hold
          /\ o.s3until = c.s3until /\ o.hold = c.hold /\ o.policy = c.policy
      BY ONLY <1>3, <1>7, <2>1, gen \in Nat, meta \in Nat DEF Objects, o
    <2> HIDE DEF o
    <2> QED  BY <2>1, <2>2, <2>3
  <1> HIDE DEF o
  <1> QED  BY <1>1, <1>2, <1>4, <1>6, <1>8, PutStep

\* create_snapshot.
LEMMA SnapshotStep ==
    ASSUME DoorsInv, CreateSnapshot, UNCHANGED pending
    PROVE  DoorsInv'
  <1>1. AzureBlobRequest /\ Uses(1)  BY DEF CreateSnapshot
  <1>2. /\ deletion = NoDeletion /\ bucket.exists /\ Aside
        /\ AzureHistoryMode(bucket) <=> bucket.ver = "enabled"
    BY <1>1, AzureClear DEF Aside
  <1>3. PICK k \in Names, lease \in Leases, renamed \in BOOLEAN :
          \E s \in SnapsOf(k) :
            LET o == bucket.cur[k]
                copy == [o EXCEPT !.g = writes + 1, !.lease = NoLease, !.at = IF renamed THEN now ELSE o.at]
            IN /\ bucket.cur[s].g = 0 /\ bucket.hist[s] = {}
               /\ Serve("azure", lease, <<Put(bucket, s, copy)>>)
    BY DEF CreateSnapshot
  <1> DEFINE c == bucket.cur[k]
             at == IF renamed THEN now ELSE c.at
             gen == c.gen
             meta == c.meta
             o == [c EXCEPT !.g = writes + 1, !.lease = NoLease, !.at = at, !.gen = gen, !.meta = meta]
             copy == [c EXCEPT !.g = writes + 1, !.lease = NoLease, !.at = at]
  <1>4. k \in Keys /\ now \in Nat /\ writes \in Nat  BY NamesAreBlobs DEF DoorsInv, NamespaceTypeOK
  <1>5. PICK s \in SnapsOf(k) : bucket.cur[s].g = 0 /\ Serve("azure", lease, <<Put(bucket, s, copy)>>)
    BY <1>3
  <1>6. s \in Keys  BY DEF SnapsOf, Keys
  <1>7. c \in Objects  BY <1>4, KeyFacts
  <1>8. at \in Nat /\ gen \in Nat /\ meta \in Nat  BY <1>4, <1>7 DEF Objects
  <1>9. copy = o
    <2> HIDE DEF c, at
    <2> QED  BY <1>7 DEF Objects
  <1>10. NoLease \in Leases  BY DEF Leases
  <1>11. /\ o \in Objects /\ o.g = writes + 1 /\ ~o.s3hold /\ ~(o.s3until > 0)
         /\ "lease" \notin scene.asks => o.lease = NoLease
         /\ "worm" \notin scene.asks => ~o.hold /\ o.policy = "none"
    <2> DEFINE g == writes + 1
    <2>1. g \in Nat /\ g = writes + 1  BY <1>4
    <2>2. /\ "worm" \notin scene.asks => ~c.hold /\ c.policy = "none"
          /\ ~c.s3hold /\ ~(c.s3until > 0)
      BY <1>1, <1>4, AzureUnlocked
    <2>4. o = [c EXCEPT !.g = g, !.lease = NoLease, !.at = at, !.gen = gen, !.meta = meta]  OBVIOUS
    <2> HIDE DEF c, g, at, gen, meta, o
    <2>3. /\ o \in Objects /\ o.g = g /\ o.lease = NoLease /\ o.s3hold = c.s3hold
          /\ o.s3until = c.s3until /\ o.hold = c.hold /\ o.policy = c.policy
      BY ONLY <1>7, <1>8, <1>10, <2>1, <2>4 DEF Objects
    <2> QED  BY <2>1, <2>2, <2>3
  <1>12. bucket' = Put(bucket, s, o)  BY <1>5, <1>9, ServeOne
  <1>13. ~ImmutableAt(bucket.cur[s], now)  BY <1>5, <1>6, KeyFacts, NoObjectType DEF ImmutableAt
  <1> HIDE DEF o
  <1> QED  BY <1>1, <1>2, <1>6, <1>11, <1>12, <1>13, PutStep

\* A snapshot goes without its protection being asked for, and never into a
\* history that Azure does not own.
LEMMA SnapshotDropped ==
    ASSUME DoorsInv, AzureBlobRequest, NEW s \in Snaps, bucket.cur[s].g # 0
    PROVE  AzureHistoryMode(bucket) \/ Dropped(bucket, s)
  <1>1. s \in Keys  BY DEF Keys
  <1>2. KeyOK(bucket, s, writes, deletion, now, scene)  BY <1>1, KeyFacts
  <1>3. AzureHistoryMode(bucket) <=> bucket.ver = "enabled"  BY AzureClear
  <1> QED  BY <1>2, <1>3 DEF KeyOK, Plain, Dropped

\* delete_blob, with its snapshots or without.
LEMMA DeleteBlobStep ==
    ASSUME DoorsInv, DeleteBlob, UNCHANGED pending
    PROVE  DoorsInv'
  <1>1. AzureBlobRequest /\ Uses(1)  BY DEF DeleteBlob
  <1>2. bucket.exists /\ Aside  BY <1>1, AzureClear DEF Aside
  <1>3. /\ bucket \in Buckets /\ now \in Nat /\ writes \in Nat /\ scene \in Scenes
    BY DEF DoorsInv, NamespaceTypeOK
  <1>4. PICK k \in Names, lease \in Leases, mode \in {"none", "include", "only"} :
          LET snaps == {s \in SnapsOf(k) : bucket.cur[s].g # 0}
              base == IF mode = "only" THEN bucket ELSE Delete(bucket, k, writes + 1)
          IN /\ MutationAllowed(bucket.cur[k], lease)
             /\ \E gone \in SUBSET snaps : bucket' = WithoutSnapshots(base, gone)
    BY DEF DeleteBlob
  <1> DEFINE snaps == {s \in SnapsOf(k) : bucket.cur[s].g # 0}
             base == IF mode = "only" THEN bucket ELSE Delete(bucket, k, writes + 1)
  <1>5. PICK gone \in SUBSET snaps : bucket' = DeleteAll(base, gone, writes + 1)
    BY <1>4 DEF WithoutSnapshots
  <1>6. k \in Keys /\ k \notin Snaps  BY <1>3, NamesAreBlobs
  <1>7. gone \subseteq Snaps /\ gone \subseteq Keys /\ k \notin gone /\ \A s \in gone : bucket.cur[s].g # 0
    BY <1>6 DEF SnapsOf, Keys
  <1>8. ~ImmutableAt(bucket.cur[k], now)  BY <1>4 DEF MutationAllowed, AzureImmutable, ImmutableAt
  <1>9. \A s \in gone : AzureHistoryMode(bucket) \/ Dropped(bucket, s)
    BY <1>1, <1>7, SnapshotDropped
  <1>10. CASE mode = "only"
    <2>1. bucket' = DeleteAll(bucket, gone, writes + 1)  BY <1>5, <1>10
    <2> QED  BY <1>1, <1>2, <1>7, <1>9, <2>1, DeleteAllStep
  <1>11. CASE mode # "only"
    <2> DEFINE all == gone \cup {k}
               g == writes + 1
    <2>1. all \in SUBSET Keys /\ g \in Nat /\ g # 0  BY <1>3, <1>6, <1>7
    <2>2. bucket' = DeleteAll(Delete(bucket, k, g), gone, g)  BY <1>5, <1>11
    <2>3. bucket' = DeleteAll(bucket, all, g)
      <3> HIDE DEF g
      <3> QED  BY <1>3, <1>6, <1>7, <2>1, <2>2, DeleteTwice
    <2>4. \A j \in all : ImmutableAt(bucket.cur[j], now) => AzureHistoryMode(bucket) \/ Dropped(bucket, j)
      BY <1>8, <1>9
    <2> HIDE DEF all
    <2> QED  BY <1>1, <1>2, <2>1, <2>3, <2>4, DeleteAllStep
  <1> QED  BY <1>10, <1>11

\* Azure keeps the invariant.
LEMMA AzureStep ==
    ASSUME DoorsInv, AzureNext, UNCHANGED pending
    PROVE  DoorsInv'
  <1>1. /\ bucket \in Buckets /\ now \in Nat /\ writes \in Nat /\ scene \in Scenes
    BY DEF DoorsInv, NamespaceTypeOK
  <1>2. Names \subseteq Keys  BY <1>1, NamesAreBlobs
  <1>3. AzureBlobRequest => bucket.exists /\ Aside  BY AzureClear DEF Aside
  <1>4. \A k \in Names : /\ bucket.cur[k] \in Objects
                         /\ bucket.cur[k].gen \in Nat /\ bucket.cur[k].meta \in Nat
                         /\ bucket.cur[k] = [bucket.cur[k] EXCEPT !.gen = bucket.cur[k].gen, !.meta = bucket.cur[k].meta]
    <2> SUFFICES ASSUME NEW k \in Names, NEW c, c = bucket.cur[k]
                 PROVE  /\ c \in Objects /\ c.gen \in Nat /\ c.meta \in Nat
                        /\ c = [c EXCEPT !.gen = c.gen, !.meta = c.meta]
      OBVIOUS
    <2>1. c \in Objects  BY <1>2, KeyFacts
    <2> QED  BY ONLY <2>1 DEF Objects
  <1>5. CASE CreateContainer  BY <1>5, CreateContainerStep
  <1>6. CASE DeleteContainer  BY <1>6, DeleteContainerStep
  <1>7. CASE AzureRead  BY <1>7, PurgeStep
  <1>8. CASE \/ AcquireLease \/ ReleaseLease \/ BreakLease \/ PutPolicy \/ DeletePolicy \/ PutLegalHold
    BY <1>8, RewritesStep
  <1>9. CASE CreateSnapshot  BY <1>9, SnapshotStep
  <1>10. CASE UpdateMetadata
    <2>1. 0 \in Nat  OBVIOUS
    <2> QED  BY <1>10, <2>1, AgainStep DEF UpdateMetadata
  <1>11. CASE AppendBlock
    <2>1. AzureBlobRequest  BY <1>11 DEF AppendBlock
    <2>2. PICK k \in Names, lease \in Leases : Again(k, lease, bucket.cur[k])  BY <1>11 DEF AppendBlock
    <2> QED  BY <1>4, <2>1, <2>2, AgainStep
  <1>12. CASE PutPage
    <2>1. AzureBlobRequest  BY <1>12 DEF PutPage
    <2>2. PICK k \in Names, lease \in Leases : Again(k, lease, bucket.cur[k])  BY <1>12 DEF PutPage
    <2> QED  BY <1>4, <2>1, <2>2, AgainStep
  <1>13. CASE PutBlob
    <2>1. AzureBlobRequest /\ Uses(1)  BY <1>13 DEF PutBlob
    <2>2. PICK k \in Names, lease \in Leases, kind \in BlobTypes :
            /\ Has(bucket, k) => OverwriteAllowed(bucket, bucket.cur[k], lease)
            /\ Serve("azure", lease, <<Put(bucket, k, [Fresh(writes + 1) EXCEPT !.lease = bucket.cur[k].lease,
                                                                             !.kind = kind])>>)
      BY <1>13 DEF PutBlob
    <2>3. kind \in Kinds  BY DEF BlobTypes, Kinds
    <2> QED  BY <2>1, <2>2, <2>3, BlobStep
  <1>14. CASE DeleteBlob  BY <1>14, DeleteBlobStep
  <1>15. CASE DeleteSnapshot
    <2>1. AzureBlobRequest /\ Uses(1)  BY <1>15 DEF DeleteSnapshot
    <2>2. PICK s \in UNION {SnapsOf(k) : k \in Names}, lease \in Leases :
            /\ MutationAllowed(bucket.cur[s], lease)
            /\ Serve("azure", lease, <<Delete(bucket, s, writes + 1)>>)
      BY <1>15 DEF DeleteSnapshot
    <2>3. s \in Keys  BY DEF SnapsOf, Keys
    <2>4. ~ImmutableAt(bucket.cur[s], now)  BY <2>2 DEF MutationAllowed, AzureImmutable, ImmutableAt
    <2>5. bucket' = Delete(bucket, s, writes + 1)  BY <2>2, ServeOne
    <2> QED  BY <1>3, <2>1, <2>3, <2>4, <2>5, DeleteStep
  <1>16. CASE AzureDeleteVersion
    <2>1. AzureBlobRequest /\ writes' = writes  BY <1>16 DEF AzureDeleteVersion
    <2>2. PICK k \in Names : \E vids : bucket' \in DeleteVersions(bucket, k, vids)
      BY <1>16 DEF AzureDeleteVersion, DeleteVersion
    <2> QED  BY <1>2, <1>3, <2>1, <2>2, VersionsStep
  <1>17. CASE PutBlock
    <2>1. AzureBlobRequest /\ bucket' = bucket /\ writes' = writes + 1  BY <1>17 DEF PutBlock, Uses
    <2>2. writes' \in Nat /\ writes <= writes'  BY <1>1, <2>1
    <2> QED  BY <1>3, <2>1, <2>2, IdleStep
  <1>18. CASE PutBlockList
    <2>1. AzureBlobRequest /\ Uses(1)  BY <1>18 DEF PutBlockList
    <2>2. PICK k \in Names, lease \in Leases :
            /\ Has(bucket, k) => OverwriteAllowed(bucket, bucket.cur[k], lease)
            /\ Serve("azure", lease, <<Put(bucket, k, [Fresh(writes + 1) EXCEPT !.lease = bucket.cur[k].lease])>>)
      BY <1>18 DEF PutBlockList
    <2> DEFINE f == Fresh(writes + 1)
               l == bucket.cur[k].lease
    <2>3. f \in Objects  BY FreshFits
    <2>4. [f EXCEPT !.lease = l] = [f EXCEPT !.lease = l, !.kind = f.kind] /\ f.kind \in Kinds
      <3> HIDE DEF f, l
      <3> QED  BY <2>3 DEF Objects
    <2>5. Serve("azure", lease, <<Put(bucket, k, [Fresh(writes + 1) EXCEPT !.lease = bucket.cur[k].lease,
                                                                           !.kind = f.kind])>>)
      BY <2>2, <2>4
    <2> QED  BY <2>1, <2>2, <2>4, <2>5, BlobStep
  <1>19. CASE AzureRestart
    <2>1. Aside /\ bucket' = bucket /\ writes' = writes  BY <1>19 DEF AzureRestart, Aside
    <2> QED  BY <1>1, <2>1, IdleStep
  <1> QED
    BY <1>5, <1>6, <1>7, <1>8, <1>9, <1>10, <1>11, <1>12, <1>13, <1>14, <1>15, <1>16, <1>17, <1>18, <1>19
       DEF AzureNext

(***************************************************************************)
(* The invariant, and what follows from it.                                *)
(***************************************************************************)
\* A stuttering step keeps the invariant.
LEMMA DoorsStutter ==
    ASSUME DoorsInv, UNCHANGED vars
    PROVE  DoorsInv'
  BY DEF DoorsInv, NamespaceTypeOK, vars, nsvars, nsPlaces

\* The shared namespace stays typed, numbered and owned whatever the four
\* providers, the lifecycle rules, the admin API and the MCP tools do to it, and
\* wherever their requests stop.
THEOREM DoorsInvariance == Spec => []DoorsInv
  <1>1. Init => DoorsInv
    <2> SUFFICES ASSUME Init  PROVE DoorsInv  OBVIOUS
    <2>1. /\ bucket = NoBucket /\ deletion = NoDeletion /\ now = 1 /\ writes = 0 /\ scene \in Scenes
          /\ pending = NoPending
      BY DEF Init, NamespaceInit, HousekeepingInit
    <2>2. writes \in Nat /\ now \in Nat /\ deletion \in Int  BY <2>1 DEF NoDeletion
    <2>3. Good(NoBucket, writes, deletion, now, scene) /\ NoBucket \in Buckets
      BY <2>2, NewGood, NoBucketType
    <2> QED  BY <2>1, <2>2, <2>3 DEF DoorsInv, NamespaceTypeOK, PendingOK
  <1>2. DoorsInv /\ [Next]_vars => DoorsInv'
    <2> SUFFICES ASSUME DoorsInv, [Next]_vars  PROVE DoorsInv'  OBVIOUS
    <2>1. CASE AzureNext /\ UNCHANGED pending  BY <2>1, AzureStep
    <2>2. CASE S3Next /\ UNCHANGED pending  BY <2>2, S3Step
    <2>3. CASE GcsNext /\ UNCHANGED pending  BY <2>3, GcsStep
    <2>4. CASE OciNext /\ UNCHANGED pending  BY <2>4, OciStep
    <2>5. CASE HousekeepingNext /\ UNCHANGED pending  BY <2>5, HousekeepingStep
    <2>6. CASE McpCheck  BY <2>6, McpCheckStep
    <2>7. CASE McpAct  BY <2>7, McpActStep
    <2>8. CASE Tick /\ UNCHANGED pending  BY <2>8, TickStep
    <2>9. CASE UNCHANGED vars  BY <2>9, DoorsStutter
    <2> QED  BY <2>1, <2>2, <2>3, <2>4, <2>5, <2>6, <2>7, <2>8, <2>9 DEF Next
  <1> QED  BY <1>1, <1>2, PTL DEF Spec

\* The purge of a deleted container never meets protected data, whatever the
\* other doors did to the bucket since the deletion was recorded.
THEOREM PurgesUnprotected == Spec => []PendingUnprotected
  <1>1. DoorsInv => PendingUnprotected
    <2> SUFFICES ASSUME DoorsInv, deletion # NoDeletion, NEW o \in Stored(bucket)
                 PROVE  ~AzureImmutable(o)
      BY DEF PendingUnprotected
    <2>1. \E k \in Keys : o \in Under(bucket, k)  BY DEF Stored, Current, Under
    <2>2. ~ImmutableAt(o, now)  BY <2>1 DEF DoorsInv, Good, KeyOK, Calm
    <2> QED  BY <2>2 DEF AzureImmutable, ImmutableAt
  <1> QED  BY <1>1, DoorsInvariance, PTL

\* One provider at a time owns the history of the bucket; where no MCP tool
\* acts on an earlier check of protected data, nothing protected by Azure is in
\* a history that Azure does not own.
THEOREM HistoryHasOneOwner ==
    ASSUME \A s \in Scenes : Apart(s)
    PROVE  Spec => []OneOwner
  <1>1. DoorsInv => OneOwner
    <2> SUFFICES ASSUME DoorsInv  PROVE ModesExclusive /\ HistoryOwned  BY DEF OneOwner
    <2>1. ModeOK(bucket, deletion, scene) /\ scene \in Scenes  BY DEF DoorsInv, NamespaceTypeOK, Good
    <2>2. HistoryOwned
      <3> SUFFICES ASSUME NEW k \in Keys, NEW o \in bucket.hist[k], AzureImmutable(o)
                   PROVE  AzureHistoryMode(bucket)
        BY DEF HistoryOwned
      <3>1. ImmutableAt(o, now)  BY DEF AzureImmutable, ImmutableAt
      <3>2. Owned(bucket, k, now)  BY <2>1 DEF DoorsInv, Good, KeyOK
      <3> QED  BY <3>1, <3>2 DEF Owned
    <2>3. ModesExclusive
      <3> DEFINE P(d) == \/ d = "azure" /\ AzureHistoryMode(bucket)
                         \/ d = "s3" /\ S3HistoryMode(bucket)
                         \/ d = "gcs" /\ GcsHistoryMode(bucket)
                 S == {d \in {"azure", "s3", "gcs"} : P(d)}
      <3>1. \E d : S \subseteq {d}
        <4>1. CASE AzureHistoryMode(bucket)
          <5>1. S \subseteq {"azure"}  BY <2>1, <4>1 DEF ModeOK
          <5> QED  BY <5>1
        <4>2. CASE ~AzureHistoryMode(bucket) /\ S3HistoryMode(bucket)
          <5>1. S \subseteq {"s3"}  BY <2>1, <4>2 DEF ModeOK
          <5> QED  BY <5>1
        <4>3. CASE ~AzureHistoryMode(bucket) /\ ~S3HistoryMode(bucket)
          <5>1. S \subseteq {"gcs"}  BY <4>3
          <5> QED  BY <5>1
        <4> QED  BY <4>1, <4>2, <4>3
      <3> HIDE DEF S
      <3>2. PICK d : S \subseteq {d}  BY <3>1
      <3>3. S = {} \/ S = {d}  BY <3>2
      <3>4. Cardinality({}) = 0 /\ Cardinality({d}) = 1  BY FS_EmptySet, FS_Singleton
      <3>5. Cardinality(S) <= 1  BY <3>3, <3>4
      <3> QED  BY <3>5 DEF ModesExclusive, S
    <2> QED  BY <2>2, <2>3
  <1> QED  BY <1>1, DoorsInvariance, PTL

(***************************************************************************)
(* Pre-authenticated requests.                                             *)
(***************************************************************************)
\* The door and the credential of a request that is served.
LEMMA CallerIs ==
    ASSUME NEW door, NEW cred
    PROVE  /\ By(door, cred) => caller'.door = door /\ caller'.cred = cred
           /\ \A effects : Serve(door, cred, effects) => caller'.door = door /\ caller'.cred = cred
  BY DEF By, Serve

\* The requests of Azure are not those of OCI.
LEMMA AzureCalls ==
    ASSUME AzureNext
    PROVE  caller'.door \in {"azure", "clock"}
  <1>1. \A cred : /\ By("azure", cred) => caller'.door = "azure"
                  /\ \A e : Serve("azure", cred, e) => caller'.door = "azure"
                  /\ By("clock", cred) => caller'.door = "clock"
    BY CallerIs
  <1>2. CASE CreateContainer \/ DeleteContainer
    BY <1>1, <1>2 DEF CreateContainer, DeleteContainer
  <1>3. CASE AzureRead  BY <1>1, <1>3 DEF AzureRead
  <1>4. CASE AcquireLease \/ ReleaseLease \/ BreakLease
    BY <1>1, <1>4 DEF AcquireLease, ReleaseLease, BreakLease, Rewrite
  <1>5. CASE PutPolicy \/ DeletePolicy \/ PutLegalHold
    BY <1>1, <1>5 DEF PutPolicy, DeletePolicy, PutLegalHold, Rewrite
  <1>6. CASE CreateSnapshot  BY <1>1, <1>6 DEF CreateSnapshot
  <1>7. CASE UpdateMetadata \/ AppendBlock \/ PutPage
    BY <1>1, <1>7 DEF UpdateMetadata, AppendBlock, PutPage, Again
  <1>8. CASE PutBlob  BY <1>1, <1>8 DEF PutBlob
  <1>9. CASE DeleteBlob  BY <1>1, <1>9 DEF DeleteBlob
  <1>10. CASE DeleteSnapshot \/ AzureDeleteVersion
    BY <1>1, <1>10 DEF DeleteSnapshot, AzureDeleteVersion
  <1>11. CASE PutBlock \/ AzureRestart  BY <1>1, <1>11 DEF PutBlock, AzureRestart
  <1>12. CASE PutBlockList  BY <1>1, <1>12 DEF PutBlockList
  <1> QED
    BY <1>2, <1>3, <1>4, <1>5, <1>6, <1>7, <1>8, <1>9, <1>10, <1>11, <1>12 DEF AzureNext

\* Nor are those of S3 and GCS, ...
LEMMA OthersCall ==
    ASSUME S3Next \/ GcsNext
    PROVE  caller'.door \in {"s3", "gcs"}
  <1>1. \A cred, e : /\ Serve("s3", cred, e) => caller'.door = "s3"
                     /\ Serve("gcs", cred, e) => caller'.door = "gcs"
    BY CallerIs
  <1>2. CASE S3CreateBucket \/ S3PutVersioning \/ S3DeleteBucket
    BY <1>1, <1>2 DEF S3CreateBucket, S3PutVersioning, S3DeleteBucket
  <1>3. CASE S3Put \/ S3Copy \/ S3BrowserUpload
    BY <1>1, <1>3 DEF S3Put, S3Copy, S3BrowserUpload
  <1>4. CASE S3InitiateUpload \/ S3CompleteUpload \/ S3AbortUpload
    BY <1>1, <1>4 DEF S3InitiateUpload, S3CompleteUpload, S3AbortUpload
  <1>5. CASE S3Delete \/ S3MultiDelete
    BY <1>1, <1>5 DEF S3Delete, S3MultiDelete
  <1>6. CASE GcsCreateBucket \/ GcsPatchBucket \/ GcsDeleteBucket
    BY <1>1, <1>6 DEF GcsCreateBucket, GcsPatchBucket, GcsDeleteBucket
  <1>7. CASE GcsXmlPut \/ GcsUpload
    BY <1>1, <1>7 DEF GcsXmlPut, GcsUpload, GcsWrite
  <1>8. CASE GcsPatchObject
    BY <1>1, <1>8 DEF GcsPatchObject
  <1>9. CASE GcsXmlDelete \/ GcsJsonDelete
    BY <1>1, <1>9 DEF GcsXmlDelete, GcsJsonDelete, GcsRemove
  <1> QED
    BY <1>2, <1>3, <1>4, <1>5, <1>6, <1>7, <1>8, <1>9 DEF S3Next, GcsNext

\* ... nor housekeeping.
LEMMA HousekeepingCalls ==
    ASSUME HousekeepingNext \/ McpCheck \/ McpAct \/ Tick
    PROVE  caller'.door \in {"s3", "admin", "mcp", "lifecycle", "clock"}
  <1>1. \A cred : /\ By("admin", cred) => caller'.door = "admin"
                  /\ By("mcp", cred) => caller'.door = "mcp"
                  /\ By("lifecycle", cred) => caller'.door = "lifecycle"
                  /\ By("clock", cred) => caller'.door = "clock"
                  /\ \A e : Serve("s3", cred, e) => caller'.door = "s3"
                  /\ \A e : Serve("admin", cred, e) => caller'.door = "admin"
                  /\ \A e : Serve("mcp", cred, e) => caller'.door = "mcp"
    BY CallerIs
  <1>2. CASE ExpireCurrent \/ ExpireNoncurrent \/ EagerExpire
    BY <1>1, <1>2 DEF ExpireCurrent, ExpireNoncurrent, EagerExpire
  <1>3. CASE AdminCreateBucket \/ AdminDeleteBucket \/ AdminSetVersioning
    BY <1>1, <1>3 DEF AdminCreateBucket, AdminDeleteBucket, AdminSetVersioning
  <1>4. CASE AdminPut \/ AdminDelete \/ AdminDeleteVersion \/ AdminAbortUpload
    BY <1>1, <1>4 DEF AdminPut, AdminDelete, AdminDeleteVersion, AdminAbortUpload
  <1>5. CASE McpCopy \/ McpCheck \/ McpAct \/ Tick
    BY <1>1, <1>5 DEF McpCopy, McpCheck, McpAct, Tick
  <1> QED  BY <1>2, <1>3, <1>4, <1>5 DEF HousekeepingNext

\* put_object of a new object under k, with or without the record of its
\* upload, leaves every other key alone.
LEMMA PublishElsewhere ==
    ASSUME DoorsInv, NEW k \in Keys,
           \/ bucket' = Put(bucket, k, Fresh(writes + 1))
           \/ bucket' = [Put(bucket, k, Fresh(writes + 1)) EXCEPT !.uploads = @ \ {k}]
    PROVE  \A j \in Keys \ {k} : bucket'.cur[j] = bucket.cur[j] /\ bucket'.hist[j] = bucket.hist[j]
  <1> DEFINE f == Fresh(writes + 1)
             p == Put(bucket, k, f)
  <1>1. bucket \in Buckets /\ writes \in Nat  BY DEF DoorsInv, NamespaceTypeOK
  <1>2. f \in Objects /\ f.g # 0  BY <1>1, FreshFits
  <1> HIDE DEF f
  <1>3. p \in Buckets /\ OnlyAt(bucket, p, k)  BY <1>1, <1>2, PutIs
  <1>4. bucket' = p \/ bucket' = [p EXCEPT !.uploads = @ \ {k}]  BY DEF f
  <1> HIDE DEF p
  <1>5. bucket'.cur = p.cur /\ bucket'.hist = p.hist  BY <1>3, <1>4 DEF Buckets
  <1> QED  BY <1>3, <1>5 DEF OnlyAt

\* A request with a pre-authenticated token writes one key, the one the token
\* is checked for.
LEMMA ParWrites ==
    ASSUME DoorsInv, OciNext, caller'.cred \in Tokens, bucket' # bucket
    PROVE  \E k \in Keys : /\ MayWrite(caller'.cred, k)
                           /\ \A j \in Keys \ {k} : bucket'.cur[j] = bucket.cur[j] /\ bucket'.hist[j] = bucket.hist[j]
  <1>1. /\ bucket \in Buckets /\ scene \in Scenes /\ bucket.uploads \subseteq Blobs
    BY BucketFields DEF DoorsInv, NamespaceTypeOK
  <1>2. Names \subseteq Keys /\ Blobs \subseteq Keys  BY <1>1, NamesAreBlobs
  <1>3. \A e : ~Serve("oci", Signed, e)  BY CallerIs, OciAssumption DEF Signed
  <1>4. \A cred, e : Serve("oci", cred, e) => caller'.cred = cred  BY CallerIs
  <1>5. ASSUME NEW k \in Keys, NEW u, bucket' = [bucket EXCEPT !.uploads = u]
        PROVE  bucket'.cur = bucket.cur /\ bucket'.hist = bucket.hist
    BY <1>1, <1>5 DEF Buckets
  <1>6. CASE OciCreateBucket \/ OciDeleteBucket \/ OciDelete
    BY <1>3, <1>6 DEF OciCreateBucket, OciDeleteBucket, OciDelete
  <1>7. CASE OciPut
    <2>1. PICK k \in Names, cred \in Credentials :
            MayWrite(cred, k) /\ Serve("oci", cred, <<Put(bucket, k, Fresh(writes + 1))>>)
      BY <1>7 DEF OciPut
    <2>2. bucket' = Put(bucket, k, Fresh(writes + 1)) /\ caller'.cred = cred  BY <1>4, <2>1, ServeOne
    <2> QED  BY <1>2, <2>1, <2>2, PublishElsewhere
  <1>8. CASE OciInitiateUpload
    <2>1. PICK k \in Names, cred \in Credentials :
            MayWrite(cred, k) /\ Serve("oci", cred, <<[bucket EXCEPT !.uploads = @ \cup {k}]>>)
      BY <1>8 DEF OciInitiateUpload
    <2>2. bucket' = [bucket EXCEPT !.uploads = bucket.uploads \cup {k}] /\ caller'.cred = cred
      BY <1>4, <2>1, ServeOne
    <2> QED  BY <1>2, <1>5, <2>1, <2>2
  <1>9. CASE OciCommitUpload
    <2>1. PICK k \in bucket.uploads, cred \in Credentials :
            LET published == Put(bucket, k, Fresh(writes + 1))
            IN /\ MayWrite(cred, k)
               /\ Serve("oci", cred, <<published, [published EXCEPT !.uploads = @ \ {k}]>>)
      BY <1>9 DEF OciCommitUpload
    <2>2. /\ \/ bucket' = Put(bucket, k, Fresh(writes + 1))
             \/ bucket' = [Put(bucket, k, Fresh(writes + 1)) EXCEPT !.uploads = @ \ {k}]
          /\ caller'.cred = cred
      <3> DEFINE p == Put(bucket, k, Fresh(writes + 1))
                 q == [p EXCEPT !.uploads = @ \ {k}]
      <3>1. Serve("oci", cred, <<p, q>>)  BY <2>1
      <3> HIDE DEF p, q
      <3>2. bucket' = p \/ bucket' = q  BY ONLY <3>1, ServeTwo
      <3>3. caller'.cred = cred  BY <1>4, <3>1
      <3> QED  BY <3>2, <3>3 DEF p, q
    <2>3. k \in Keys  BY <1>1, <1>2
    <2>4. \A j \in Keys \ {k} : bucket'.cur[j] = bucket.cur[j] /\ bucket'.hist[j] = bucket.hist[j]
      BY <2>2, <2>3, PublishElsewhere
    <2> QED  BY <2>1, <2>2, <2>3, <2>4
  <1>10. CASE OciAbortUpload
    <2>1. PICK k \in bucket.uploads, cred \in Credentials :
            MayWrite(cred, k) /\ Serve("oci", cred, <<[bucket EXCEPT !.uploads = @ \ {k}]>>)
      BY <1>10 DEF OciAbortUpload
    <2>2. bucket' = [bucket EXCEPT !.uploads = bucket.uploads \ {k}] /\ caller'.cred = cred
      BY <1>4, <2>1, ServeOne
    <2> QED  BY <1>1, <1>2, <1>5, <2>1, <2>2
  <1>11. CASE CreatePar \/ DeletePar  BY <1>11 DEF CreatePar, DeletePar, nsPlaces
  <1> QED  BY <1>6, <1>7, <1>8, <1>9, <1>10, <1>11 DEF OciNext

\* The holder of a pre-authenticated request changes nothing but the object
\* that the request names, and only while it lives.
THEOREM ParsStayInScope == Spec => ParScoped
  <1> DEFINE P == caller'.door = "oci" /\ caller'.cred \in Tokens /\ bucket' # bucket =>
                    /\ pars[caller'.cred].live /\ now < pars[caller'.cred].expires
                    /\ \A k \in Keys : bucket'.cur[k] # bucket.cur[k] \/ bucket'.hist[k] # bucket.hist[k]
                         => pars[caller'.cred].scope \in {AnyObject, k}
  <1>1. DoorsInv /\ [Next]_vars => [P]_vars
    <2> SUFFICES ASSUME DoorsInv, Next, caller'.door = "oci", caller'.cred \in Tokens, bucket' # bucket
                 PROVE  P
      OBVIOUS
    <2>1. OciNext  BY AzureCalls, OthersCall, HousekeepingCalls DEF Next
    <2>2. PICK k \in Keys :
            /\ MayWrite(caller'.cred, k)
            /\ \A j \in Keys \ {k} : bucket'.cur[j] = bucket.cur[j] /\ bucket'.hist[j] = bucket.hist[j]
      BY <2>1, ParWrites
    <2>3. caller'.cred # Signed  BY OciAssumption DEF Signed
    <2> QED  BY <2>2, <2>3 DEF MayWrite
  <1> QED  BY <1>1, DoorsInvariance, PTL DEF Spec, ParScoped

(***************************************************************************)
(* What leases and write-once protection survive.  Honoured says of a step *)
(* what both properties need; each storage operation gives it for all keys *)
(* once the request has asked for what the operation takes away.           *)
(***************************************************************************)
\* The request may replace what is current under k as far as leases go.
LeaseOK(k) ==
    bucket.cur[k].lease = NoLease \/ (caller'.door = "azure" /\ caller'.cred = bucket.cur[k].lease)

\* The purge of the container, which has asked for every generation.
PurgeIsOn == Due /\ caller'.door = "azure" /\ ~ContainerImmutable(bucket)

KeyHonoured(k) ==
    /\ k \in Blobs /\ bucket.cur[k].g # 0 /\ bucket'.cur[k].g # bucket.cur[k].g => LeaseOK(k)
    /\ \A o \in Generations(bucket, k) : Worm(bucket, k, o) => Kept(k, o)

\* The steps that do not ask, and the keys of all others.
Honoured == PurgeIsOn \/ \A k \in Keys : SnapshotDelete(k) \/ Ungated(k) \/ KeyHonoured(k)

\* The same generation in another place, or under another version id.
Kin(o, p) ==
    /\ p.g = o.g /\ p.s3hold = o.s3hold /\ p.s3until = o.s3until
    /\ p.hold = o.hold /\ p.policy = o.policy /\ p.until = o.until

\* It is as protected as it was.
LEMMA KinKept ==
    ASSUME NEW k, NEW o \in Objects, NEW p \in Generations(bucket', k), Kin(o, p)
    PROVE  Kept(k, o)
  <1>1. o.until \in Nat  BY DEF Objects
  <1>2. p.until >= o.until  BY <1>1 DEF Kin
  <1> QED  BY <1>2 DEF Kept, Unweakened, Kin

\* The generations of a key are typed.
LEMMA GenerationsTyped ==
    ASSUME DoorsInv, NEW k \in Keys, NEW o \in Generations(bucket, k)
    PROVE  o \in Objects /\ o.g # 0 /\ o \in Under(bucket, k)
  <1>1. bucket \in Buckets  BY DEF DoorsInv, NamespaceTypeOK
  <1> QED  BY <1>1, BucketFields DEF Generations, Under

\* Where protected generations are: in a history that keeps them, or current.
LEMMA WormPlace ==
    ASSUME DoorsInv, NEW k \in Keys, NEW o \in Generations(bucket, k), Worm(bucket, k, o)
    PROVE  \/ /\ Survives(bucket, o)
              /\ (bucket.s3Lock /\ S3Locked(o)) \/ (AzureHistoryMode(bucket) /\ AzureImmutable(o))
           \/ o = bucket.cur[k] /\ (AzureImmutable(o) \/ GcsRetained(bucket, o))
  <1>1. /\ o \in Objects /\ o \in Under(bucket, k) /\ now \in Nat
        /\ KeyOK(bucket, k, writes, deletion, now, scene) /\ ModeOK(bucket, deletion, scene)
    BY GenerationsTyped DEF DoorsInv, NamespaceTypeOK, Good
  <1>2. CASE S3Locked(o) /\ Survives(bucket, o)
    <2>1. o.s3until > now => o.s3until > 0  BY <1>1 DEF Objects
    <2>2. bucket.s3Lock  BY <1>1, <1>2, <2>1 DEF S3Locked, KeyOK, Locked
    <2> QED  BY <1>2, <2>2
  <1>3. CASE AzureImmutable(o) /\ AzureHistoryMode(bucket)
    <2>1. ImmutableAt(o, now)  BY <1>3 DEF AzureImmutable, ImmutableAt
    <2>2. deletion = NoDeletion  BY <1>1, <2>1 DEF KeyOK, Calm
    <2> QED  BY <1>1, <1>3, <2>2 DEF ModeOK, Survives
  <1>4. CASE o = bucket.cur[k] /\ (AzureImmutable(o) \/ GcsRetained(bucket, o))  BY <1>4
  <1> QED  BY <1>2, <1>3, <1>4 DEF Worm

\* A key that a step leaves alone.
LEMMA KeptHonoured ==
    ASSUME DoorsInv, NEW k \in Keys, bucket'.cur[k] = bucket.cur[k], bucket'.hist[k] = bucket.hist[k]
    PROVE  KeyHonoured(k)
  <1>1. \A o \in Generations(bucket, k) : Kept(k, o)
    <2> TAKE o \in Generations(bucket, k)
    <2>1. o \in Objects  BY GenerationsTyped
    <2>2. o \in Generations(bucket', k)  BY DEF Generations
    <2> QED  BY <2>1, <2>2, KinKept DEF Kin
  <1> QED  BY <1>1 DEF KeyHonoured

\* A key whose current generation only gets other metadata or a version id.
LEMMA RewrittenHonoured ==
    ASSUME DoorsInv, NEW k \in Keys, bucket'.hist[k] = bucket.hist[k],
           bucket'.cur[k].g = bucket.cur[k].g,
           bucket.cur[k].g # 0 => Unweakened(bucket.cur[k], bucket'.cur[k])
    PROVE  KeyHonoured(k)
  <1>1. \A o \in Generations(bucket, k) : Kept(k, o)
    <2> TAKE o \in Generations(bucket, k)
    <2>1. o \in Objects  BY GenerationsTyped
    <2>2. CASE o \in bucket.hist[k]
      <3>1. o \in Generations(bucket', k)  BY <2>2 DEF Generations
      <3> QED  BY <2>1, <3>1, KinKept DEF Kin
    <2>3. CASE o = bucket.cur[k] /\ o.g # 0
      <3>1. bucket'.cur[k] \in Generations(bucket', k)  BY <2>3 DEF Generations
      <3> QED  BY <2>3, <3>1 DEF Kept
    <2> QED  BY <2>2, <2>3 DEF Generations
  <1> QED  BY <1>1 DEF KeyHonoured

\* A key where a generation is put or deleted: history keeps what survives
\* there, and what is protected only while it is current is not hidden unless
\* history keeps it.
LEMMA WrittenHonoured ==
    ASSUME DoorsInv, NEW k \in Keys, k \in Blobs => LeaseOK(k),
           \/ bucket.ver = "enabled"
           \/ ~AzureImmutable(bucket.cur[k]) /\ ~GcsRetained(bucket, bucket.cur[k]),
           bucket.ver # "disabled" => HistoryAfterWrite(bucket, k) \subseteq bucket'.hist[k]
    PROVE  KeyHonoured(k)
  <1>1. ASSUME NEW o \in Generations(bucket, k), Worm(bucket, k, o)
        PROVE  Kept(k, o)
    <2>1. o \in Objects  BY <1>1, GenerationsTyped
    <2>2. Survives(bucket, o)  BY <1>1, WormPlace DEF Survives
    <2>3. HistoryAfterWrite(bucket, k) \subseteq bucket'.hist[k]  BY <2>2 DEF Survives
    <2>4. /\ \A x \in bucket.hist[k] : x.vid # NoVid /\ Survives(bucket, x) => x \in HistoryAfterWrite(bucket, k)
          /\ bucket.cur[k].g # 0 /\ Survives(bucket, bucket.cur[k])
               => Versioned(bucket.cur[k]) \in HistoryAfterWrite(bucket, k)
          /\ \A x \in bucket.hist[k] : x.vid # NoVid
      <3>1. bucket \in Buckets /\ Numbered(bucket, k, writes)
        BY DEF DoorsInv, NamespaceTypeOK, Good, KeyOK
      <3> QED  BY <3>1, HistoryIs DEF Numbered
    <2>5. CASE o \in bucket.hist[k]
      <3>1. o \in Generations(bucket', k)  BY <2>2, <2>3, <2>4, <2>5 DEF Generations
      <3> QED  BY <2>1, <3>1, KinKept DEF Kin
    <2>6. CASE o = bucket.cur[k] /\ o.g # 0
      <3>1. Versioned(o) \in Generations(bucket', k)  BY <2>2, <2>3, <2>4, <2>6 DEF Generations
      <3>2. Kin(o, Versioned(o))  BY <2>1, VersionedIs DEF Kin
      <3> QED  BY <2>1, <3>1, <3>2, KinKept
    <2> QED  BY <1>1, <2>5, <2>6 DEF Generations
  <1> QED  BY <1>1 DEF KeyHonoured

\* A key that has nothing protected.
LEMMA BareHonoured ==
    ASSUME NEW k \in Keys, k \in Blobs => LeaseOK(k),
           \A o \in Generations(bucket, k) : ~Worm(bucket, k, o)
    PROVE  KeyHonoured(k)
  BY DEF KeyHonoured

\* A step that changes nothing under any key, or nothing in the bucket.
LEMMA QuietHonours ==
    ASSUME DoorsInv, bucket'.cur = bucket.cur, bucket'.hist = bucket.hist
    PROVE  Honoured
  BY KeptHonoured DEF Honoured

\* A step on a bucket that holds nothing.
LEMMA EmptyHonours ==
    ASSUME \A k \in Keys : bucket.cur[k].g = 0 /\ bucket.hist[k] = {}
    PROVE  Honoured
  <1>1. \A k \in Keys : KeyHonoured(k)
    <2> TAKE k \in Keys
    <2>1. Generations(bucket, k) = {}  BY DEF Generations
    <2> QED  BY <2>1 DEF KeyHonoured
  <1> QED  BY <1>1 DEF Honoured

\* A bucket that does not exist holds nothing.
LEMMA AbsentHonours ==
    ASSUME DoorsInv, ~bucket.exists
    PROVE  Honoured
  <1>1. bucket = NoBucket  BY DEF DoorsInv, Good, Absent
  <1>2. \A k \in Keys : NoBucket.cur[k] = NoObject /\ NoBucket.hist[k] = {}  BY DEF NoBucket
  <1> QED  BY <1>1, <1>2, NoObjectType, EmptyHonours

\* A step that sets the versioning of the bucket.
LEMMA VersioningHonours ==
    ASSUME DoorsInv, NEW mode \in Modes,
           bucket'.cur = SetVersioning(bucket, mode).cur, bucket'.hist = SetVersioning(bucket, mode).hist
    PROVE  Honoured
  <1>1. bucket \in Buckets /\ \A k \in Keys : bucket.cur[k].g = 0 => bucket.cur[k] = NoObject
    BY KeyFacts DEF DoorsInv, NamespaceTypeOK
  <1>2. /\ bucket'.hist = bucket.hist
        /\ \A k \in Keys : bucket'.cur[k] = IF bucket.cur[k].g # 0 THEN Versioned(bucket.cur[k]) ELSE bucket.cur[k]
    <2> DEFINE v == SetVersioning(bucket, mode)
    <2>1. /\ v.hist = bucket.hist
          /\ \A k \in Keys : v.cur[k] = IF bucket.cur[k].g # 0 THEN Versioned(bucket.cur[k]) ELSE bucket.cur[k]
      BY <1>1, SetVersioningIs
    <2>2. bucket'.cur = v.cur /\ bucket'.hist = v.hist  OBVIOUS
    <2> HIDE DEF v
    <2> QED  BY <2>1, <2>2
  <1>3. ASSUME NEW k \in Keys  PROVE KeyHonoured(k)
    <2> DEFINE c == bucket.cur[k]
    <2>1. c \in Objects  BY KeyFacts
    <2>2. Kin(c, Versioned(c)) /\ Versioned(c).g = c.g  BY <2>1, VersionedIs DEF Kin
    <2>3. c.until \in Nat  BY <2>1 DEF Objects
    <2>4. Versioned(c).until >= c.until  BY <2>2, <2>3 DEF Kin
    <2>5. Unweakened(c, Versioned(c))  BY <2>2, <2>4 DEF Unweakened, Kin
    <2>6. CASE c.g # 0
      <3>1. bucket'.cur[k] = Versioned(c)  BY <1>2, <2>6
      <3> QED  BY <1>2, <2>2, <2>5, <3>1, RewrittenHonoured
    <2>7. CASE c.g = 0
      <3>1. bucket'.cur[k] = c  BY <1>2, <2>7
      <3> QED  BY <1>2, <3>1, KeptHonoured
    <2> QED  BY <2>6, <2>7
  <1> QED  BY <1>3 DEF Honoured

\* A step that puts an object, and perhaps ends its upload.
LEMMA PutHonours ==
    ASSUME DoorsInv, NEW k \in Keys, NEW x \in Objects, x.g # 0,
           bucket'.cur = Put(bucket, k, x).cur, bucket'.hist = Put(bucket, k, x).hist,
           k \in Blobs => LeaseOK(k),
           \/ bucket.ver = "enabled"
           \/ ~AzureImmutable(bucket.cur[k]) /\ ~GcsRetained(bucket, bucket.cur[k])
    PROVE  Honoured
  <1>1. bucket \in Buckets  BY DEF DoorsInv, NamespaceTypeOK
  <1> DEFINE p == Put(bucket, k, x)
  <1>2. OnlyAt(bucket, p, k) /\ p.hist[k] = HistoryAfterWrite(bucket, k)  BY <1>1, PutIs
  <1> HIDE DEF p
  <1>3. bucket'.cur = p.cur /\ bucket'.hist = p.hist  BY DEF p
  <1>4. \A j \in Keys \ {k} : KeyHonoured(j)
    <2> TAKE j \in Keys \ {k}
    <2>1. bucket'.cur[j] = bucket.cur[j] /\ bucket'.hist[j] = bucket.hist[j]  BY <1>2, <1>3 DEF OnlyAt
    <2> QED  BY <2>1, KeptHonoured
  <1>5. KeyHonoured(k)
    <2>1. bucket'.hist[k] = HistoryAfterWrite(bucket, k)  BY <1>2, <1>3
    <2> QED  BY <2>1, WrittenHonoured
  <1> QED  BY <1>4, <1>5 DEF Honoured

\* A step that deletes some keys.
LEMMA DeleteAllHonours ==
    ASSUME DoorsInv, NEW ks \in SUBSET Keys, bucket' = DeleteAll(bucket, ks, writes + 1),
           \A k \in ks : \/ SnapshotDelete(k)
                         \/ /\ k \in Blobs => LeaseOK(k)
                            /\ \/ bucket.ver = "enabled"
                               \/ ~AzureImmutable(bucket.cur[k]) /\ ~GcsRetained(bucket, bucket.cur[k])
    PROVE  Honoured
  <1> DEFINE g == writes + 1
  <1>1. bucket \in Buckets /\ now \in Nat /\ g \in Nat /\ g # 0  BY DEF DoorsInv, NamespaceTypeOK
  <1>2. bucket' = DeleteAll(bucket, ks, g)  OBVIOUS
  <1> HIDE DEF g
  <1>3. /\ DeleteAll(bucket, ks, g) \in Buckets
        /\ SameModes(bucket, DeleteAll(bucket, ks, g)) /\ DeleteAll(bucket, ks, g).uploads = bucket.uploads
        /\ \A k \in Keys \ ks : /\ DeleteAll(bucket, ks, g).cur[k] = bucket.cur[k]
                                /\ DeleteAll(bucket, ks, g).hist[k] = bucket.hist[k]
        /\ \A k \in ks : /\ DeleteAll(bucket, ks, g).cur[k] = NoObject
                         /\ DeleteAll(bucket, ks, g).hist[k] = HistoryAfterDelete(bucket, k, g)
    BY ONLY ks \in SUBSET Keys, <1>1, DeleteAllIs
  <1>4. /\ \A k \in Keys \ ks : bucket'.cur[k] = bucket.cur[k] /\ bucket'.hist[k] = bucket.hist[k]
        /\ \A k \in ks : bucket'.hist[k] = HistoryAfterDelete(bucket, k, g)
    BY <1>2, <1>3
  <1>5. \A k \in Keys \ ks : KeyHonoured(k)  BY <1>4, KeptHonoured
  <1>6. ASSUME NEW k \in ks, ~SnapshotDelete(k)  PROVE KeyHonoured(k)
    <2>1. k \in Keys  OBVIOUS
    <2>2. bucket.ver # "disabled" => HistoryAfterWrite(bucket, k) \subseteq bucket'.hist[k]
      BY <1>4 DEF HistoryAfterDelete
    <2> QED  BY <1>6, <2>1, <2>2, WrittenHonoured
  <1> QED  BY <1>5, <1>6 DEF Honoured

\* A step that deletes one key.
LEMMA DeleteHonours ==
    ASSUME DoorsInv, NEW k \in Keys, bucket' = Delete(bucket, k, writes + 1),
           \/ SnapshotDelete(k)
           \/ /\ k \in Blobs => LeaseOK(k)
              /\ \/ bucket.ver = "enabled"
                 \/ ~AzureImmutable(bucket.cur[k]) /\ ~GcsRetained(bucket, bucket.cur[k])
    PROVE  Honoured
  <1>1. writes \in Nat /\ bucket \in Buckets /\ now \in Nat  BY DEF DoorsInv, NamespaceTypeOK
  <1>2. bucket' = DeleteAll(bucket, {k}, writes + 1)
    <2> DEFINE g == writes + 1
    <2>1. g \in Nat /\ g # 0  BY <1>1
    <2> HIDE DEF g
    <2>2. Delete(bucket, k, g) = DeleteAll(bucket, {k}, g)  BY <1>1, <2>1, DeleteIs
    <2> QED  BY <2>2 DEF g
  <1>3. {k} \in SUBSET Keys  OBVIOUS
  <1> QED  BY <1>2, <1>3, DeleteAllHonours

\* A step that deletes some versions of a key, none of them protected.
LEMMA VersionsHonour ==
    ASSUME DoorsInv, NEW k \in Keys, NEW vids, bucket' \in DeleteVersions(bucket, k, vids), NoVid \notin vids,
           \A o \in VersionsOf(bucket, k) : o.vid \in vids => ~Worm(bucket, k, o),
           k \in Blobs /\ bucket.cur[k].g # 0 /\ bucket.cur[k].vid \in vids => LeaseOK(k)
    PROVE  Honoured
  <1>1. bucket \in Buckets  BY DEF DoorsInv, NamespaceTypeOK
  <1>2. /\ OnlyAt(bucket, bucket', k)
        /\ \A o \in VersionsOf(bucket, k) : o.vid \notin vids => o \in Generations(bucket', k)
        /\ \/ bucket'.cur[k] = bucket.cur[k]
           \/ bucket'.cur[k] = NoObject /\ bucket.cur[k].vid \in vids
           \/ /\ bucket'.cur[k] \in bucket.hist[k] /\ ~bucket'.cur[k].marker
              /\ bucket.cur[k].g = 0 \/ bucket.cur[k].vid \in vids
    BY <1>1, DeleteVersionsIs
  <1>3. \A j \in Keys \ {k} : KeyHonoured(j)  BY <1>2, KeptHonoured DEF OnlyAt
  <1>4. ASSUME NEW o \in Generations(bucket, k), Worm(bucket, k, o)  PROVE Kept(k, o)
    <2>1. o \in Objects /\ o.g # 0  BY <1>4, GenerationsTyped
    <2>2. o \in Generations(bucket', k)
      <3>1. CASE o \in VersionsOf(bucket, k)  BY <1>2, <1>4, <3>1
      <3>2. CASE o \notin VersionsOf(bucket, k)
        <4>1. o = bucket.cur[k] /\ o.vid = NoVid  BY <2>1, <3>2 DEF VersionsOf, Generations
        <4>2. bucket'.cur[k] = o  BY <1>2, <2>1, <4>1
        <4> QED  BY <2>1, <4>2 DEF Generations
      <3> QED  BY <3>1, <3>2
    <2> QED  BY <2>1, <2>2, KinKept DEF Kin
  <1>5. KeyHonoured(k)
    <2>1. bucket.cur[k].g # 0 /\ bucket'.cur[k].g # bucket.cur[k].g => bucket.cur[k].vid \in vids
      BY <1>2
    <2> QED  BY <1>4, <2>1 DEF KeyHonoured
  <1> QED  BY <1>3, <1>5 DEF Honoured

\* A step that publishes a new object, and perhaps ends its upload.
LEMMA PublishHonours ==
    ASSUME DoorsInv, NEW k \in Keys,
           \/ bucket' = Put(bucket, k, Fresh(writes + 1))
           \/ bucket' = [Put(bucket, k, Fresh(writes + 1)) EXCEPT !.uploads = @ \ {k}],
           k \in Blobs => LeaseOK(k),
           \/ bucket.ver = "enabled"
           \/ ~AzureImmutable(bucket.cur[k]) /\ ~GcsRetained(bucket, bucket.cur[k])
    PROVE  Honoured
  <1> DEFINE f == Fresh(writes + 1)
             p == Put(bucket, k, f)
  <1>1. bucket \in Buckets /\ writes \in Nat  BY DEF DoorsInv, NamespaceTypeOK
  <1>2. f \in Objects /\ f.g # 0  BY <1>1, FreshFits
  <1> HIDE DEF f
  <1>3. p \in Buckets  BY <1>1, <1>2, PutIs
  <1>4. bucket' = p \/ bucket' = [p EXCEPT !.uploads = @ \ {k}]  BY DEF f
  <1> HIDE DEF p
  <1>5. bucket'.cur = p.cur /\ bucket'.hist = p.hist  BY <1>3, <1>4 DEF Buckets
  <1>6. bucket'.cur = Put(bucket, k, f).cur /\ bucket'.hist = Put(bucket, k, f).hist  BY <1>5 DEF p
  <1> QED  BY <1>2, <1>6, PutHonours

\* A step that only starts or ends uploads.
LEMMA UploadsHonour ==
    ASSUME DoorsInv, NEW u, bucket' = [bucket EXCEPT !.uploads = u]
    PROVE  Honoured
  <1>1. bucket \in Buckets  BY DEF DoorsInv, NamespaceTypeOK
  <1>2. bucket'.cur = bucket.cur /\ bucket'.hist = bucket.hist  BY <1>1 DEF Buckets
  <1> QED  BY <1>2, QuietHonours

\* A bucket that may be deleted holds nothing.
LEMMA DeletableHonours ==
    ASSUME Deletable(bucket)
    PROVE  Honoured
  BY EmptyHonours DEF Deletable

\* Nothing that S3, GCS or OCI may change is under a lease, a hold or a policy.
LEMMA Undisturbed ==
    ASSUME DoorsInv, bucket.exists, ~AzureActive(bucket)
    PROVE  \A k \in Keys : LeaseOK(k) /\ ~AzureImmutable(bucket.cur[k])
  <1>1. \A k \in Keys : ~ImmutableAt(bucket.cur[k], now) /\ bucket.cur[k].lease = NoLease
    BY Unprotected
  <1> QED  BY <1>1 DEF LeaseOK, AzureImmutable, ImmutableAt

\* An entry of a delete request keeps what Object Lock holds and history keeps.
LEMMA S3DeletedKeeps ==
    ASSUME now \in Nat, NEW b \in Buckets, NEW k \in Keys, NEW v, NEW g \in Nat, g # 0,
           NEW c \in S3Deleted(b, k, v, g), NEW j \in Keys,
           NEW o \in Generations(b, j), S3Locked(o), Survives(b, o), o.vid # NoVid
    PROVE  Survives(c, o) /\ o \in Generations(c, j)
  <1>1. o \in Objects /\ o.g # 0  BY BucketFields DEF Generations
  <1>2. b.ver # "disabled" /\ \A d : d.ver = b.ver => Survives(d, o)  BY DEF Survives
  <1>3. CASE c = b  BY <1>3
  <1>4. CASE c = Delete(b, k, g)
    <2> DEFINE ks == {k}
    <2>1. ks \in SUBSET Keys  OBVIOUS
    <2>2. c = DeleteAll(b, ks, g)  BY <1>4, DeleteIs
    <2> HIDE DEF ks
    <2>3. /\ DeleteAll(b, ks, g) \in Buckets
          /\ SameModes(b, DeleteAll(b, ks, g)) /\ DeleteAll(b, ks, g).uploads = b.uploads
          /\ \A i \in Keys \ ks : /\ DeleteAll(b, ks, g).cur[i] = b.cur[i]
                                  /\ DeleteAll(b, ks, g).hist[i] = b.hist[i]
          /\ \A i \in ks : /\ DeleteAll(b, ks, g).cur[i] = NoObject
                           /\ DeleteAll(b, ks, g).hist[i] = HistoryAfterDelete(b, i, g)
      BY ONLY now \in Nat, b \in Buckets, g \in Nat, g # 0, <2>1, DeleteAllIs
    <2>4. Survives(c, o)  BY <1>2, <2>2, <2>3 DEF SameModes
    <2>5. CASE j \notin ks
      <3>1. o \in Generations(c, j)  BY <2>2, <2>3, <2>5 DEF Generations
      <3> QED  BY <2>4, <3>1
    <2>6. CASE j \in ks
      <3>1. HistoryAfterWrite(b, j) \subseteq c.hist[j]
        BY <1>2, <2>2, <2>3, <2>6 DEF HistoryAfterDelete
      <3>2. /\ \A x \in b.hist[j] : x.vid # NoVid /\ Survives(b, x) => x \in HistoryAfterWrite(b, j)
            /\ b.cur[j].g # 0 /\ Survives(b, b.cur[j]) => Versioned(b.cur[j]) \in HistoryAfterWrite(b, j)
        BY HistoryIs
      <3>3. Versioned(o) = o  BY <1>1, VersionedIs
      <3>4. o \in b.hist[j] \/ (o = b.cur[j] /\ b.cur[j].g # 0)  BY DEF Generations
      <3>5. o \in c.hist[j]  BY <3>1, <3>2, <3>3, <3>4
      <3> QED  BY <2>4, <3>5 DEF Generations
    <2> QED  BY <2>5, <2>6
  <1>5. CASE c \in DeleteVersions(b, k, {v}) /\ \A x \in VersionsOf(b, k) : x.vid = v => ~S3Locked(x)
    <2>1. /\ OnlyAt(b, c, k)
          /\ \A x \in VersionsOf(b, k) : x.vid \notin {v} => x \in Generations(c, k)
      BY <1>5, DeleteVersionsIs
    <2>2. Survives(c, o)  BY <1>2, <2>1 DEF OnlyAt, SameModes
    <2>3. CASE j = k
      <3>1. o \in VersionsOf(b, k)  BY <2>3 DEF VersionsOf, Generations
      <3>2. o \in Generations(c, k)  BY <1>5, <2>1, <3>1
      <3> QED  BY <2>2, <2>3, <3>2
    <2>4. CASE j # k
      <3>1. o \in Generations(c, j)  BY <2>1, <2>4 DEF OnlyAt, Generations
      <3> QED  BY <2>2, <3>1
    <2> QED  BY <2>3, <2>4
  <1> QED
    BY <1>3, <1>4, <1>5 DEF S3Deleted, S3DeletedVersion, S3DeletedCurrent, DeleteVersion

\* What history keeps of a bucket that is versioned has a version id.
LEMMA VersionIds ==
    ASSUME NEW b, NEW w, NEW d, NEW t, NEW s, Good(b, w, d, t, s), NEW k \in Keys,
           NEW o \in Generations(b, k), Survives(b, o)
    PROVE  o.vid # NoVid
  <1>1. Numbered(b, k, w)  BY DEF Good, KeyOK
  <1> QED  BY <1>1 DEF Numbered, Generations, Survives

\* A step of S3 honours what is protected when it keeps what Object Lock holds.
LEMMA S3Keeps ==
    ASSUME DoorsInv, S3Request,
           \A k \in Keys : \A o \in Generations(bucket, k) :
             S3Locked(o) /\ Survives(bucket, o) => o \in Generations(bucket', k)
    PROVE  Honoured
  <1>1. /\ bucket.exists /\ ~AzureHistoryMode(bucket) /\ ~GcsHistoryMode(bucket) /\ ~AzureActive(bucket)
    BY S3Clear
  <1>2. \A k \in Keys : LeaseOK(k) /\ ~AzureImmutable(bucket.cur[k])  BY <1>1, Undisturbed
  <1>3. \A o : ~GcsRetained(bucket, o)  BY <1>1 DEF GcsHistoryMode, GcsRetained
  <1>4. ASSUME NEW k \in Keys, NEW o \in Generations(bucket, k), Worm(bucket, k, o)
        PROVE  Kept(k, o)
    <2>1. o \in Objects  BY <1>4, GenerationsTyped
    <2>2. Survives(bucket, o) /\ S3Locked(o)  BY <1>1, <1>2, <1>3, <1>4, WormPlace
    <2>3. o \in Generations(bucket', k)  BY <1>4, <2>2
    <2> QED  BY <2>1, <2>3, KinKept DEF Kin
  <1> QED  BY <1>2, <1>4 DEF Honoured, KeyHonoured

\* S3 honours leases and write-once protection.
LEMMA S3Honours ==
    ASSUME DoorsInv, S3Next
    PROVE  Honoured
  <1>1. /\ bucket \in Buckets /\ now \in Nat /\ writes \in Nat /\ scene \in Scenes
        /\ Good(bucket, writes, deletion, now, scene) /\ bucket.uploads \subseteq Blobs
    BY BucketFields DEF DoorsInv, NamespaceTypeOK
  <1>2. Names \subseteq Keys /\ Blobs \subseteq Keys  BY <1>1, NamesAreBlobs
  <1>3. ASSUME S3Request, NEW k \in Keys
        PROVE  /\ LeaseOK(k) /\ ~AzureImmutable(bucket.cur[k]) /\ ~GcsRetained(bucket, bucket.cur[k])
               /\ ~ImmutableAt(bucket.cur[k], now)
    <2>1. /\ bucket.exists /\ ~GcsHistoryMode(bucket) /\ ~AzureActive(bucket)
          /\ ~ImmutableAt(bucket.cur[k], now)
      BY <1>3, S3Clear
    <2> QED  BY <1>3, <2>1, Undisturbed DEF GcsHistoryMode, GcsRetained
  <1>4. CASE S3CreateBucket  BY <1>4, AbsentHonours DEF S3CreateBucket
  <1>5. CASE S3PutVersioning
    <2>1. PICK status \in {"Enabled", "Suspended"} :
            LET mode == IF status = "Enabled" THEN "enabled" ELSE "suspended"
                marked == SetVersioning(bucket, mode)
            IN Serve("s3", NoLease, <<marked, [marked EXCEPT !.s3 = status]>>)
      BY <1>5 DEF S3PutVersioning
    <2> DEFINE mode == IF status = "Enabled" THEN "enabled" ELSE "suspended"
               m == SetVersioning(bucket, mode)
               n == [m EXCEPT !.s3 = status]
    <2>2. Serve("s3", NoLease, <<m, n>>)  BY <2>1
    <2>3. mode \in Modes  BY DEF Modes
    <2> HIDE DEF mode
    <2>4. m \in Buckets
      <3>1. \A k \in Keys : bucket.cur[k].g = 0 => bucket.cur[k] = NoObject
        BY <1>1 DEF Good, KeyOK, Numbered
      <3> QED  BY <1>1, <2>3, <3>1, SetVersioningIs
    <2>5. bucket' = m \/ bucket' = n
      <3> HIDE DEF m, n
      <3> QED  BY <2>2, ServeTwo
    <2>6. bucket'.cur = m.cur /\ bucket'.hist = m.hist
      <3> HIDE DEF m
      <3> QED  BY <2>4, <2>5 DEF Buckets
    <2> QED  BY <2>3, <2>6, VersioningHonours
  <1>6. CASE S3DeleteBucket  BY <1>6, DeletableHonours DEF S3DeleteBucket
  <1>7. CASE S3Put
    <2>1. S3Request /\ Uses(1)  BY <1>7 DEF S3Put
    <2>2. PICK k \in Names, lock \in LockRequests :
            Serve("s3", NoLease, <<Put(bucket, k, S3New(k, lock))>>)
      BY <1>7 DEF S3Put, S3New
    <2> DEFINE o == S3New(k, lock)
    <2>3. o \in Objects /\ o.g = writes + 1  BY <2>1, S3BodyFits
    <2>4. bucket' = Put(bucket, k, o)  BY <2>2, ServeOne
    <2> HIDE DEF o
    <2>5. o.g # 0  BY <1>1, <2>3
    <2> QED  BY <1>2, <1>3, <2>1, <2>3, <2>4, <2>5, PutHonours
  <1>8. CASE S3Copy
    <2>1. S3Request /\ Uses(1)  BY <1>8 DEF S3Copy
    <2>2. PICK from \in Names, to \in Names, lock \in LockRequests, r \in BOOLEAN :
            \E src \in CopySources(from) : Serve("s3", NoLease, <<Put(bucket, to, Copied(src, lock, r))>>)
      BY <1>8 DEF S3Copy
    <2>3. PICK src \in CopySources(from) : Serve("s3", NoLease, <<Put(bucket, to, Copied(src, lock, r))>>)
      BY <2>2
    <2> DEFINE o == Copied(src, lock, r)
    <2>4. o \in Objects /\ o.g = writes + 1  BY <1>2, CopiedFits
    <2>5. bucket' = Put(bucket, to, o)  BY <2>3, ServeOne
    <2> HIDE DEF o
    <2>6. o.g # 0  BY <1>1, <2>4
    <2> QED  BY <1>2, <1>3, <2>1, <2>4, <2>5, <2>6, PutHonours
  <1>9. CASE S3BrowserUpload
    <2>1. S3Request  BY <1>9 DEF S3BrowserUpload
    <2>2. PICK k \in Names : Serve("s3", NoLease, <<Put(bucket, k, Fresh(writes + 1))>>)
      BY <1>9 DEF S3BrowserUpload
    <2>3. bucket' = Put(bucket, k, Fresh(writes + 1))  BY <2>2, ServeOne
    <2> QED  BY <1>2, <1>3, <2>1, <2>3, PublishHonours
  <1>10. CASE S3InitiateUpload
    <2>1. PICK k \in Names : bucket' = [bucket EXCEPT !.uploads = @ \cup {k}]
      BY <1>10, ServeOne DEF S3InitiateUpload
    <2> QED  BY <2>1, UploadsHonour
  <1>11. CASE S3CompleteUpload
    <2>1. S3Request  BY <1>11 DEF S3CompleteUpload
    <2>2. PICK k \in bucket.uploads :
            LET published == Put(bucket, k, Fresh(writes + 1))
            IN Serve("s3", NoLease, <<published, [published EXCEPT !.uploads = @ \ {k}]>>)
      BY <1>11 DEF S3CompleteUpload
    <2>3. \/ bucket' = Put(bucket, k, Fresh(writes + 1))
          \/ bucket' = [Put(bucket, k, Fresh(writes + 1)) EXCEPT !.uploads = @ \ {k}]
      <3> DEFINE p == Put(bucket, k, Fresh(writes + 1))
                 q == [p EXCEPT !.uploads = @ \ {k}]
      <3>1. Serve("s3", NoLease, <<p, q>>)  BY <2>2
      <3> HIDE DEF p, q
      <3>2. bucket' = p \/ bucket' = q  BY ONLY <3>1, ServeTwo
      <3> QED  BY <3>2 DEF p, q
    <2>4. k \in Keys  BY <1>1, <1>2
    <2> QED  BY <1>3, <2>1, <2>3, <2>4, PublishHonours
  <1>12. CASE S3AbortUpload
    <2>1. PICK k \in bucket.uploads : bucket' = [bucket EXCEPT !.uploads = @ \ {k}]
      BY <1>12, ServeOne DEF S3AbortUpload
    <2> QED  BY <2>1, UploadsHonour
  <1>13. CASE S3Delete
    <2>1. S3Request  BY <1>13 DEF S3Delete
    <2>2. PICK k \in Names : \E v : \E b \in S3Deleted(bucket, k, v, writes + 1) : Serve("s3", NoLease, <<b>>)
      BY <1>13 DEF S3Delete
    <2>3. PICK v : bucket' \in S3Deleted(bucket, k, v, writes + 1)  BY <2>2, ServeOne
    <2> DEFINE g == writes + 1
    <2>4. g \in Nat /\ g # 0 /\ bucket' \in S3Deleted(bucket, k, v, g)  BY <1>1, <2>3
    <2> HIDE DEF g
    <2>5. ASSUME NEW j \in Keys, NEW o \in Generations(bucket, j), S3Locked(o), Survives(bucket, o)
          PROVE  o \in Generations(bucket', j)
      <3>1. o.vid # NoVid  BY <1>1, <2>5, VersionIds
      <3> QED  BY <1>1, <1>2, <2>4, <2>5, <3>1, S3DeletedKeeps
    <2> QED  BY <2>1, <2>5, S3Keeps
  <1>14. CASE S3MultiDelete
    <2>1. S3Request  BY <1>14 DEF S3MultiDelete
    <2>0. PICK k \in Names, l \in Names : \E v, w :
            \E b \in S3Deleted(bucket, k, v, writes + 1) :
              \E c \in S3Deleted(b, l, w, writes + 2) : Serve("s3", NoLease, <<b, c>>)
      BY <1>14 DEF S3MultiDelete
    <2>2. PICK v, w :
            \E b \in S3Deleted(bucket, k, v, writes + 1) :
              \E c \in S3Deleted(b, l, w, writes + 2) : Serve("s3", NoLease, <<b, c>>)
      BY <2>0
    <2>3. PICK b \in S3Deleted(bucket, k, v, writes + 1) :
                \E c \in S3Deleted(b, l, w, writes + 2) : Serve("s3", NoLease, <<b, c>>)
      BY <2>2
    <2>4. PICK c \in S3Deleted(b, l, w, writes + 2) : Serve("s3", NoLease, <<b, c>>)  BY <2>3
    <2>5. bucket' = b \/ bucket' = c  BY <2>4, ServeTwo
    <2>6. b \in Buckets /\ Good(b, writes + 1, deletion, now, scene)
      BY <1>1, <1>2, <1>3, <2>1, <2>3, S3Clear, S3DeletedGood
    <2> DEFINE g == writes + 1
               h == writes + 2
    <2>7. /\ g \in Nat /\ g # 0 /\ h \in Nat /\ h # 0
          /\ b \in S3Deleted(bucket, k, v, g) /\ c \in S3Deleted(b, l, w, h)
          /\ Good(b, g, deletion, now, scene)
      BY <1>1, <2>3, <2>4, <2>6
    <2> HIDE DEF g, h
    <2>8. ASSUME NEW j \in Keys, NEW o \in Generations(bucket, j), S3Locked(o), Survives(bucket, o)
          PROVE  o \in Generations(bucket', j)
      <3>1. o.vid # NoVid  BY <1>1, <2>8, VersionIds
      <3>2. Survives(b, o) /\ o \in Generations(b, j)
        BY <1>1, <1>2, <2>7, <2>8, <3>1, S3DeletedKeeps
      <3>3. o \in Generations(c, j)
        BY <1>1, <1>2, <2>6, <2>7, <2>8, <3>1, <3>2, S3DeletedKeeps
      <3> QED  BY <2>5, <3>2, <3>3
    <2> QED  BY <2>1, <2>8, S3Keeps
  <1> QED
    BY <1>4, <1>5, <1>6, <1>7, <1>8, <1>9, <1>10, <1>11, <1>12, <1>13, <1>14 DEF S3Next

\* GCS honours them.
LEMMA GcsHonours ==
    ASSUME DoorsInv, GcsNext
    PROVE  Honoured
  <1>1. /\ bucket \in Buckets /\ now \in Nat /\ writes \in Nat /\ scene \in Scenes
        /\ Good(bucket, writes, deletion, now, scene)
    BY DEF DoorsInv, NamespaceTypeOK
  <1>2. Names \subseteq Keys  BY <1>1, NamesAreBlobs
  <1>3. ASSUME GcsRequest, NEW k \in Keys
        PROVE  LeaseOK(k) /\ ~AzureImmutable(bucket.cur[k])
    BY <1>3, GcsClear, Undisturbed
  <1>4. ASSUME NEW k \in Names, NEW cond, GcsWrite(k, cond), GcsRequest
        PROVE  Honoured
    <2> DEFINE gen == NextGeneration(bucket.cur[k])
               o == [Fresh(writes + 1) EXCEPT !.gen = gen, !.meta = 1]
    <2>1. bucket' = Put(bucket, k, o)  BY <1>4, ServeOne DEF GcsWrite
    <2>2. bucket.cur[k] \in Objects  BY <1>2, KeyFacts
    <2>3. gen \in Nat  BY <1>1, <2>2, NextGenerationType
    <2>4. ~GcsRetained(bucket, bucket.cur[k]) \/ bucket.cur[k].g = 0  BY <1>4 DEF GcsWrite
    <2> HIDE DEF gen
    <2>5. o \in Objects /\ o.g = writes + 1  BY <2>3, GcsNewFits
    <2> HIDE DEF o
    <2>6. o.g # 0  BY <1>1, <2>5
    <2>7. CASE ~GcsRetained(bucket, bucket.cur[k])
      BY <1>2, <1>3, <1>4, <2>1, <2>5, <2>6, <2>7, PutHonours
    <2>8. CASE bucket.cur[k].g = 0
      <3>1. k \in Keys /\ bucket.ver \in Modes  BY <1>1, <1>2, BucketFields
      <3>2. OnlyAt(bucket, bucket', k)  BY <1>1, <2>1, <2>5, <2>6, <3>1, PutIs
      <3>3. \A j \in Keys \ {k} : KeyHonoured(j)  BY <3>2, KeptHonoured DEF OnlyAt
      <3>4. \A x \in Generations(bucket, k) : ~Worm(bucket, k, x)
        <4> SUFFICES ASSUME NEW x \in Generations(bucket, k), Worm(bucket, k, x)
                     PROVE  FALSE
          OBVIOUS
        <4>1. x \in bucket.hist[k] /\ x.g # 0  BY <2>8, <3>1, GenerationsTyped DEF Generations
        <4>2. ~S3HistoryMode(bucket) /\ ~AzureHistoryMode(bucket)  BY <1>4, GcsClear
        <4> QED  BY <2>8, <3>1, <4>1, <4>2, WormPlace DEF S3HistoryMode
      <3>5. KeyHonoured(k)  BY <2>8, <3>4 DEF KeyHonoured
      <3> QED  BY <3>3, <3>5 DEF Honoured
    <2> QED  BY <2>4, <2>7, <2>8
  <1>5. ASSUME NEW k \in Names, NEW cond, GcsRemove(k, cond), GcsRequest
        PROVE  Honoured
    <2>1. bucket' = Delete(bucket, k, writes + 1) /\ ~GcsRetained(bucket, bucket.cur[k])
      BY <1>5, ServeOne DEF GcsRemove
    <2> QED  BY <1>2, <1>3, <1>5, <2>1, DeleteHonours
  <1>6. CASE GcsCreateBucket  BY <1>6, AbsentHonours DEF GcsCreateBucket
  <1>7. CASE GcsPatchBucket
    <2>1. PICK doc \in BucketDocuments : Serve("gcs", NoLease, GcsProtect(bucket, doc))
      BY <1>7 DEF GcsPatchBucket
    <2> DEFINE v == IF doc.soft THEN SetVersioning(bucket, "enabled") ELSE bucket
               soft == v.gcsSoft \/ doc.soft
               r == IF doc.retention = Unnamed THEN v.gcsRetention ELSE doc.retention
               x == [v EXCEPT !.gcsSoft = soft, !.gcsRetention = r]
    <2>2. GcsProtect(bucket, doc) = <<v, x>>  BY DEF GcsProtect
    <2>3. bucket' = v \/ bucket' = x
      <3>1. Serve("gcs", NoLease, <<v, x>>)  BY <2>1, <2>2
      <3> HIDE DEF v, x
      <3> QED  BY <3>1, ServeTwo
    <2>4. "enabled" \in Modes  BY DEF Modes
    <2>5. v \in Buckets
      <3>1. \A k \in Keys : bucket.cur[k].g = 0 => bucket.cur[k] = NoObject
        BY <1>1 DEF Good, KeyOK, Numbered
      <3>2. SetVersioning(bucket, "enabled") \in Buckets  BY <1>1, <2>4, <3>1, SetVersioningIs
      <3> QED  BY <1>1, <3>2
    <2>6. bucket'.cur = v.cur /\ bucket'.hist = v.hist
      <3> HIDE DEF v, soft, r
      <3> QED  BY <2>3, <2>5 DEF Buckets
    <2>7. CASE doc.soft
      <3>1. bucket'.cur = SetVersioning(bucket, "enabled").cur /\ bucket'.hist = SetVersioning(bucket, "enabled").hist
        BY <2>6, <2>7
      <3> QED  BY <2>4, <3>1, VersioningHonours
    <2>8. CASE ~doc.soft
      <3>1. bucket'.cur = bucket.cur /\ bucket'.hist = bucket.hist  BY <2>6, <2>8
      <3> QED  BY <3>1, QuietHonours
    <2> QED  BY <2>7, <2>8
  <1>8. CASE GcsDeleteBucket  BY <1>8, DeletableHonours DEF GcsDeleteBucket
  <1>9. CASE GcsXmlPut  BY <1>4, <1>9 DEF GcsXmlPut
  <1>10. CASE GcsUpload  BY <1>4, <1>10 DEF GcsUpload
  <1>11. CASE GcsPatchObject
    <2>1. PICK k \in Names :
            LET o == bucket.cur[k]
            IN Serve("gcs", NoLease, <<Touch(bucket, k, [o EXCEPT !.gen = Generation(o),
                                                                  !.meta = Max({o.meta, 1}) + 1])>>)
      BY <1>11 DEF GcsPatchObject
    <2> DEFINE c == bucket.cur[k]
               gen == Generation(c)
               meta == Max({c.meta, 1}) + 1
               o == [c EXCEPT !.gen = gen, !.meta = meta]
    <2>2. bucket' = Touch(bucket, k, o)  BY <2>1, ServeOne
    <2>3. c \in Objects /\ k \in Keys  BY <1>2, KeyFacts
    <2> HIDE DEF c
    <2>4. gen \in Nat  BY <1>1, <2>3, NextGenerationType
    <2>5. meta \in Nat
      <3>1. c.meta \in Nat /\ 1 \in Nat  BY <2>3 DEF Objects
      <3>2. Max({c.meta, 1}) \in Nat  BY <3>1, MaxOfTwo
      <3> QED  BY <3>2
    <2> HIDE DEF gen, meta
    <2>6. o \in Objects /\ Kin(c, o) /\ c.until \in Nat  BY ONLY <2>3, <2>4, <2>5 DEF Objects, Kin, o
    <2> HIDE DEF o
    <2>7. OnlyAt(bucket, bucket', k) /\ bucket'.cur[k] = o /\ bucket'.hist[k] = bucket.hist[k]
      BY <1>1, <2>2, <2>3, <2>6, TouchIs
    <2>8. \A j \in Keys \ {k} : KeyHonoured(j)  BY <2>7, KeptHonoured DEF OnlyAt
    <2>9. KeyHonoured(k)
      <3>1. o.until >= c.until  BY <2>6 DEF Kin
      <3>2. Unweakened(c, o) /\ o.g = c.g  BY <2>6, <3>1 DEF Unweakened, Kin
      <3> QED  BY <2>3, <2>7, <3>2, RewrittenHonoured DEF c
    <2> QED  BY <2>8, <2>9 DEF Honoured
  <1>12. CASE GcsXmlDelete  BY <1>5, <1>12 DEF GcsXmlDelete
  <1>13. CASE GcsJsonDelete  BY <1>5, <1>13 DEF GcsJsonDelete
  <1> QED
    BY <1>6, <1>7, <1>8, <1>9, <1>10, <1>11, <1>12, <1>13 DEF GcsNext

\* OCI honours them.
LEMMA OciHonours ==
    ASSUME DoorsInv, OciNext
    PROVE  Honoured
  <1>1. /\ bucket \in Buckets /\ scene \in Scenes /\ bucket.uploads \subseteq Blobs
        /\ Good(bucket, writes, deletion, now, scene)
    BY BucketFields DEF DoorsInv, NamespaceTypeOK
  <1>2. Names \subseteq Keys /\ Blobs \subseteq Keys  BY <1>1, NamesAreBlobs
  <1>3. ASSUME bucket.exists, ~OciConflict(bucket), NEW k \in Keys
        PROVE  LeaseOK(k) /\ ~AzureImmutable(bucket.cur[k]) /\ ~GcsRetained(bucket, bucket.cur[k])
    BY <1>3, OciClear, Undisturbed DEF GcsHistoryMode, GcsRetained
  <1>4. bucket.uploads # {} => bucket.exists  BY <1>1 DEF Good, Absent, NoBucket
  <1>5. CASE OciCreateBucket  BY <1>5, AbsentHonours DEF OciCreateBucket
  <1>6. CASE OciDeleteBucket  BY <1>6, DeletableHonours DEF OciDeleteBucket
  <1>7. CASE OciPut
    <2>1. PICK k \in Names, cred \in Credentials :
            /\ bucket.exists /\ ~OciConflict(bucket)
            /\ Serve("oci", cred, <<Put(bucket, k, Fresh(writes + 1))>>)
      BY <1>7 DEF OciPut
    <2>2. bucket' = Put(bucket, k, Fresh(writes + 1))  BY <2>1, ServeOne
    <2> QED  BY <1>2, <1>3, <2>1, <2>2, PublishHonours
  <1>8. CASE OciDelete
    <2>1. PICK k \in Names : /\ ~OciConflict(bucket) /\ bucket.exists
                             /\ Serve("oci", Signed, <<Delete(bucket, k, writes + 1)>>)
      BY <1>8 DEF OciDelete, Has
    <2>2. bucket' = Delete(bucket, k, writes + 1)  BY <2>1, ServeOne
    <2> QED  BY <1>2, <1>3, <2>1, <2>2, DeleteHonours
  <1>9. CASE OciInitiateUpload
    <2>1. PICK k \in Names, cred \in Credentials :
            Serve("oci", cred, <<[bucket EXCEPT !.uploads = @ \cup {k}]>>)
      BY <1>9 DEF OciInitiateUpload
    <2>2. bucket' = [bucket EXCEPT !.uploads = bucket.uploads \cup {k}]  BY <2>1, ServeOne
    <2> QED  BY <2>2, UploadsHonour
  <1>10. CASE OciCommitUpload
    <2>1. PICK k \in bucket.uploads, cred \in Credentials :
            LET published == Put(bucket, k, Fresh(writes + 1))
            IN /\ ~OciConflict(bucket)
               /\ Serve("oci", cred, <<published, [published EXCEPT !.uploads = @ \ {k}]>>)
      BY <1>10 DEF OciCommitUpload
    <2>2. \/ bucket' = Put(bucket, k, Fresh(writes + 1))
          \/ bucket' = [Put(bucket, k, Fresh(writes + 1)) EXCEPT !.uploads = @ \ {k}]
      <3> DEFINE p == Put(bucket, k, Fresh(writes + 1))
                 q == [p EXCEPT !.uploads = @ \ {k}]
      <3>1. Serve("oci", cred, <<p, q>>)  BY <2>1
      <3> HIDE DEF p, q
      <3>2. bucket' = p \/ bucket' = q  BY ONLY <3>1, ServeTwo
      <3> QED  BY <3>2 DEF p, q
    <2>3. k \in Keys /\ bucket.exists /\ ~OciConflict(bucket)  BY <1>1, <1>2, <1>4, <2>1
    <2> QED  BY <1>3, <2>2, <2>3, PublishHonours
  <1>11. CASE OciAbortUpload
    <2>1. PICK k \in bucket.uploads, cred \in Credentials :
            Serve("oci", cred, <<[bucket EXCEPT !.uploads = @ \ {k}]>>)
      BY <1>11 DEF OciAbortUpload
    <2>2. bucket' = [bucket EXCEPT !.uploads = bucket.uploads \ {k}]  BY <2>1, ServeOne
    <2> QED  BY <2>2, UploadsHonour
  <1>12. CASE CreatePar \/ DeletePar
    <2>1. bucket' = bucket  BY <1>12 DEF CreatePar, DeletePar, nsPlaces
    <2> QED  BY <2>1, QuietHonours
  <1> QED
    BY <1>5, <1>6, <1>7, <1>8, <1>9, <1>10, <1>11, <1>12 DEF OciNext

\* What no admin request or lifecycle rule finds protected is not write-once.
LEMMA PlainSpared ==
    ASSUME NEW k, NEW o, ~HistoryForeign(bucket), ~DataProtected(o)
    PROVE  ~Worm(bucket, k, o) /\ ~AzureImmutable(o) /\ ~GcsRetained(bucket, o) /\ o.lease = NoLease
  <1>1. ~ImmutableAt(o, now) /\ ~S3Locked(o) /\ o.lease = NoLease  BY PlainObject
  <1>2. ~GcsRetained(bucket, o)  BY DEF HistoryForeign, GcsHistoryMode, GcsRetained
  <1> QED  BY <1>1, <1>2 DEF Worm, AzureImmutable, ImmutableAt

\* The versions of a key are told apart by their version ids.
LEMMA VersionsApart ==
    ASSUME DoorsInv, NEW k \in Keys, NEW o \in VersionsOf(bucket, k)
    PROVE  /\ o.vid # NoVid
           /\ \A p \in VersionsOf(bucket, k) : p.vid = o.vid => p = o
           /\ bucket.cur[k].g # 0 /\ bucket.cur[k].vid = o.vid => o = bucket.cur[k]
  <1>1. Numbered(bucket, k, writes)  BY KeyFacts DEF KeyOK
  <1> QED  BY <1>1 DEF Numbered, VersionsOf

\* Lifecycle rules, the admin API and the MCP copy honour leases and protection.
LEMMA HousekeepingHonours ==
    ASSUME DoorsInv, HousekeepingNext
    PROVE  Honoured
  <1>1. /\ bucket \in Buckets /\ now \in Nat /\ writes \in Nat /\ scene \in Scenes
        /\ bucket.uploads \subseteq Blobs
    BY BucketFields DEF DoorsInv, NamespaceTypeOK
  <1>2. Names \subseteq Keys  BY <1>1, NamesAreBlobs
  <1>3. ASSUME NEW k \in Keys, ~HistoryForeign(bucket), ~DataProtected(bucket.cur[k])
        PROVE  LeaseOK(k) /\ ~AzureImmutable(bucket.cur[k]) /\ ~GcsRetained(bucket, bucket.cur[k])
    BY <1>3, PlainSpared DEF LeaseOK
  <1>4. ASSUME NEW k \in Keys, AdminMutable(bucket, k, TRUE)
        PROVE  LeaseOK(k) /\ \A o \in Generations(bucket, k) : ~Worm(bucket, k, o)
    <2>1. /\ ~HistoryForeign(bucket) /\ ~DataProtected(bucket.cur[k])
          /\ \A o \in VersionsOf(bucket, k) : ~DataProtected(o)
      BY <1>4 DEF AdminMutable
    <2>2. \A o \in Generations(bucket, k) : ~DataProtected(o)  BY <2>1 DEF Generations, VersionsOf
    <2> QED  BY <1>3, <2>1, <2>2, PlainSpared
  <1>5. CASE ExpireCurrent
    <2>1. ~HistoryForeign(bucket)  BY <1>5 DEF ExpireCurrent, LifecycleRule
    <2>2. PICK gone \in SUBSET Keys :
            /\ \A k \in gone : ~DataProtected(bucket.cur[k])
            /\ bucket' = DeleteAll(bucket, gone, writes + 1)
      <3>1. PICK days \in 1 .. MaxTime :
              LET due == {k \in Keys : Has(bucket, k) /\ Aged(bucket.cur[k], days)
                                                      /\ ~DataProtected(bucket.cur[k])}
              IN \E gone \in SUBSET due \ {{}} : bucket' = DeleteAll(bucket, gone, writes + 1)
        BY <1>5 DEF ExpireCurrent
      <3> DEFINE due == {k \in Keys : Has(bucket, k) /\ Aged(bucket.cur[k], days)
                                                     /\ ~DataProtected(bucket.cur[k])}
      <3>2. PICK gone \in SUBSET due \ {{}} : bucket' = DeleteAll(bucket, gone, writes + 1)  BY <3>1
      <3>3. gone \in SUBSET Keys /\ \A k \in gone : ~DataProtected(bucket.cur[k])  OBVIOUS
      <3> QED  BY <3>2, <3>3
    <2> QED  BY <1>3, <2>1, <2>2, DeleteAllHonours
  <1>6. CASE ExpireNoncurrent
    <2>1. ~HistoryForeign(bucket)  BY <1>6 DEF ExpireNoncurrent, LifecycleRule
    <2>2. PICK k \in Keys, days \in 1 .. MaxTime :
            LET due == {o \in VersionsOf(bucket, k) : /\ o.vid # bucket.cur[k].vid \/ bucket.cur[k].g = 0
                                                      /\ Aged(o, days) /\ ~DataProtected(o)}
            IN \E gone \in SUBSET {o.vid : o \in due} \ {{}} : bucket' \in DeleteVersions(bucket, k, gone)
      BY <1>6 DEF ExpireNoncurrent
    <2> DEFINE due == {o \in VersionsOf(bucket, k) : /\ o.vid # bucket.cur[k].vid \/ bucket.cur[k].g = 0
                                                     /\ Aged(o, days) /\ ~DataProtected(o)}
    <2>3. PICK gone \in SUBSET {o.vid : o \in due} \ {{}} : bucket' \in DeleteVersions(bucket, k, gone)
      BY <2>2
    <2>4. \A v \in gone : \E p \in VersionsOf(bucket, k) :
            /\ p.vid = v /\ ~DataProtected(p)
            /\ p.vid # bucket.cur[k].vid \/ bucket.cur[k].g = 0
      OBVIOUS
    <2> HIDE DEF due
    <2>5. NoVid \notin gone  BY <2>4, VersionsApart
    <2>6. \A o \in VersionsOf(bucket, k) : o.vid \in gone => ~DataProtected(o)
      BY <2>4, VersionsApart
    <2>7. ~(bucket.cur[k].g # 0 /\ bucket.cur[k].vid \in gone)  BY <2>4
    <2> QED  BY <2>1, <2>3, <2>5, <2>6, <2>7, PlainSpared, VersionsHonour
  <1>7. CASE EagerExpire
    <2>1. ~HistoryForeign(bucket)  BY <1>7 DEF EagerExpire
    <2>2. PICK k \in Keys : /\ ~DataProtected(bucket.cur[k])
                            /\ Serve("s3", NoLease, <<Delete(bucket, k, writes + 1)>>)
      BY <1>7 DEF EagerExpire
    <2>3. bucket' = Delete(bucket, k, writes + 1)  BY <2>2, ServeOne
    <2> QED  BY <1>3, <2>1, <2>2, <2>3, DeleteHonours
  <1>8. CASE AdminCreateBucket  BY <1>8, AbsentHonours DEF AdminCreateBucket
  <1>9. CASE AdminDeleteBucket  BY <1>9, DeletableHonours DEF AdminDeleteBucket
  <1>10. CASE AdminSetVersioning
    <2>1. PICK mode \in {"enabled", "suspended"} : Serve("admin", NoLease, <<SetVersioning(bucket, mode)>>)
      BY <1>10 DEF AdminSetVersioning
    <2>2. bucket' = SetVersioning(bucket, mode)  BY <2>1, ServeOne
    <2>3. mode \in Modes  BY DEF Modes
    <2> QED  BY <2>2, <2>3, VersioningHonours
  <1>11. CASE AdminPut
    <2>1. PICK k \in Names : /\ ~HistoryForeign(bucket) /\ ~DataProtected(bucket.cur[k])
                             /\ Serve("admin", NoLease, <<Put(bucket, k, Fresh(writes + 1))>>)
      BY <1>11 DEF AdminPut, AdminMutable
    <2>2. bucket' = Put(bucket, k, Fresh(writes + 1))  BY <2>1, ServeOne
    <2> QED  BY <1>2, <1>3, <2>1, <2>2, PublishHonours
  <1>12. CASE AdminDelete
    <2>1. PICK k \in Keys :
            LET hidden == Delete(bucket, k, writes + 1)
                vids == {o.vid : o \in VersionsOf(hidden, k)}
            IN /\ AdminMutable(bucket, k, TRUE)
               /\ \E done \in SUBSET vids : bucket' \in DeleteVersions(hidden, k, done)
      BY <1>12 DEF AdminDelete
    <2> DEFINE h == Delete(bucket, k, writes + 1)
               g == writes + 1
               ks == {k}
    <2>2. PICK done : bucket' \in DeleteVersions(h, k, done)  BY <2>1
    <2>3. ks \in SUBSET Keys /\ g \in Nat /\ g # 0  BY <1>1
    <2>4. h = DeleteAll(bucket, ks, g)
      <3> HIDE DEF g
      <3> QED  BY <1>1, <2>3, DeleteIs DEF g
    <2>5. bucket \in Buckets /\ now \in Nat  BY <1>1
    <2> HIDE DEF g, h
    <2>6. /\ DeleteAll(bucket, ks, g) \in Buckets
          /\ SameModes(bucket, DeleteAll(bucket, ks, g)) /\ DeleteAll(bucket, ks, g).uploads = bucket.uploads
          /\ \A j \in Keys \ ks : /\ DeleteAll(bucket, ks, g).cur[j] = bucket.cur[j]
                                  /\ DeleteAll(bucket, ks, g).hist[j] = bucket.hist[j]
          /\ \A j \in ks : /\ DeleteAll(bucket, ks, g).cur[j] = NoObject
                           /\ DeleteAll(bucket, ks, g).hist[j] = HistoryAfterDelete(bucket, j, g)
      <3> HIDE DEF ks
      <3> QED  BY ONLY <2>3, <2>5, DeleteAllIs
    <2>7. h \in Buckets /\ \A j \in Keys \ {k} : h.cur[j] = bucket.cur[j] /\ h.hist[j] = bucket.hist[j]
      BY <2>4, <2>6
    <2>8. OnlyAt(h, bucket', k)  BY <2>2, <2>7, DeleteVersionsIs
    <2>9. \A j \in Keys \ {k} : KeyHonoured(j)
      <3> TAKE j \in Keys \ {k}
      <3>1. bucket'.cur[j] = bucket.cur[j] /\ bucket'.hist[j] = bucket.hist[j]  BY <2>7, <2>8 DEF OnlyAt
      <3> QED  BY <3>1, KeptHonoured
    <2>10. KeyHonoured(k)  BY <1>4, <2>1, BareHonoured
    <2> QED  BY <2>9, <2>10 DEF Honoured
  <1>13. CASE AdminDeleteVersion
    <2>0. PICK k \in Keys : \E o \in VersionsOf(bucket, k) :
            AdminMutable(bucket, k, TRUE) /\ bucket' \in DeleteVersions(bucket, k, {o.vid})
      BY <1>13 DEF AdminDeleteVersion, DeleteVersion
    <2>1. PICK o \in VersionsOf(bucket, k) :
            AdminMutable(bucket, k, TRUE) /\ bucket' \in DeleteVersions(bucket, k, {o.vid})
      BY <2>0
    <2>2. NoVid \notin {o.vid}  BY <2>1, VersionsApart
    <2>3. \A p \in VersionsOf(bucket, k) : ~Worm(bucket, k, p)
      BY <2>1, PlainSpared DEF AdminMutable
    <2>4. LeaseOK(k)  BY <1>4, <2>1
    <2> QED  BY <2>1, <2>2, <2>3, <2>4, VersionsHonour
  <1>14. CASE AdminAbortUpload
    <2>1. PICK k \in bucket.uploads : bucket' = [bucket EXCEPT !.uploads = @ \ {k}]
      BY <1>14, ServeOne DEF AdminAbortUpload
    <2> QED  BY <2>1, UploadsHonour
  <1>15. CASE McpCopy
    <2>2. PICK from \in Keys, to \in Names :
            /\ ~HistoryForeign(bucket) /\ ~DataProtected(bucket.cur[to])
            /\ Serve("mcp", NoLease,
                  <<Put(bucket, to, [bucket.cur[from] EXCEPT !.g = writes + 1, !.lease = NoLease,
                                       !.hold = FALSE, !.policy = "none", !.until = 0,
                                       !.s3hold = FALSE, !.s3until = 0])>>)
      BY <1>15 DEF McpCopy, AdminMutable
    <2> DEFINE c == bucket.cur[from]
               g == writes + 1
               o == [c EXCEPT !.g = g, !.lease = NoLease, !.hold = FALSE, !.policy = "none",
                              !.until = 0, !.s3hold = FALSE, !.s3until = 0]
    <2>3. bucket' = Put(bucket, to, o)  BY <2>2, ServeOne
    <2>4. c \in Objects /\ g \in Nat /\ NoLease \in Leases /\ "none" \in Policies /\ 0 \in Nat
      BY <1>1, KeyFacts DEF Leases, Policies
    <2>5. g # 0  BY <1>1
    <2> HIDE DEF c, g
    <2>6. o \in Objects /\ o.g = g  BY ONLY <2>4 DEF o, Objects
    <2> HIDE DEF o
    <2> QED  BY <1>2, <1>3, <2>2, <2>3, <2>5, <2>6, PutHonours
  <1> QED
    BY <1>5, <1>6, <1>7, <1>8, <1>9, <1>10, <1>11, <1>12, <1>13, <1>14, <1>15 DEF HousekeepingNext

\* The MCP tools that act on an earlier check touch one key.
LEMMA McpHonours ==
    ASSUME DoorsInv, McpAct
    PROVE  Honoured
  <1> DEFINE k == pending.key
             g == writes + 1
             ks == {k}
  <1>1. /\ bucket \in Buckets /\ now \in Nat /\ writes \in Nat /\ scene \in Scenes
    BY DEF DoorsInv, NamespaceTypeOK
  <1>2. k \in Keys  BY <1>1, NamesAreBlobs DEF McpAct, DoorsInv, PendingOK, Names
  <1>3. Ungated(k)  BY DEF McpAct, Ungated
  <1>4. \/ bucket' = bucket
        \/ bucket' = Delete(bucket, k, g)
        \/ bucket' = Put(bucket, k, Fresh(g))
        \/ bucket' = [Put(bucket, k, Fresh(g)) EXCEPT !.uploads = @ \ {k}]
    BY DEF McpAct
  <1>5. g \in Nat /\ g # 0 /\ ks \in SUBSET Keys  BY <1>1, <1>2
  <1>6. \A j \in Keys \ {k} : bucket'.cur[j] = bucket.cur[j] /\ bucket'.hist[j] = bucket.hist[j]
    <2>1. CASE bucket' = bucket  BY <2>1
    <2>2. CASE bucket' = Delete(bucket, k, g)
      <3> HIDE DEF k, g
      <3>1. bucket' = DeleteAll(bucket, ks, g)  BY <1>1, <1>2, <1>5, <2>2, DeleteIs
      <3>2. \A j \in Keys \ ks : /\ DeleteAll(bucket, ks, g).cur[j] = bucket.cur[j]
                                /\ DeleteAll(bucket, ks, g).hist[j] = bucket.hist[j]
        <4> HIDE DEF ks
        <4> QED  BY <1>1, <1>5, DeleteAllIs
      <3> QED  BY <3>1, <3>2
    <2>3. CASE \/ bucket' = Put(bucket, k, Fresh(writes + 1))
               \/ bucket' = [Put(bucket, k, Fresh(writes + 1)) EXCEPT !.uploads = @ \ {k}]
      <3> HIDE DEF k
      <3> QED  BY <1>2, <2>3, PublishElsewhere
    <2> QED  BY <1>4, <2>1, <2>2, <2>3
  <1> HIDE DEF k
  <1>7. \A j \in Keys \ {k} : KeyHonoured(j)  BY <1>6, KeptHonoured
  <1> QED  BY <1>3, <1>7 DEF Honoured

\* What a lease id, and what Azure's own mode, allow a request of Azure.
LEMMA AzureAllowed ==
    ASSUME DoorsInv, AzureBlobRequest, NEW k \in Keys, NEW lease,
           caller'.door = "azure", caller'.cred = lease
    PROVE  /\ LeaseAllows(bucket.cur[k], lease) => LeaseOK(k)
           /\ \A o : ~GcsRetained(bucket, o)
           /\ \A o \in Under(bucket, k) : ~S3Locked(o)
           /\ bucket.cur[k].g = 0 => LeaseOK(k) /\ ~AzureImmutable(bucket.cur[k])
  <1>1. ~S3HistoryMode(bucket) /\ ~GcsHistoryMode(bucket)  BY AzureClear
  <1>2. \A o : ~GcsRetained(bucket, o)  BY <1>1 DEF GcsHistoryMode, GcsRetained
  <1>3. ASSUME NEW o \in Under(bucket, k)  PROVE ~S3Locked(o)
    <2>1. o \in Objects /\ now \in Nat  BY KeyFacts DEF Under
    <2>2. ~o.s3hold /\ ~(o.s3until > 0)  BY <1>1, KeyFacts DEF Under, S3HistoryMode
    <2> QED  BY <2>1, <2>2 DEF S3Locked, Objects
  <1>4. bucket.cur[k].g = 0 => LeaseOK(k) /\ ~AzureImmutable(bucket.cur[k])
    BY KeyFacts, NoObjectType DEF LeaseOK, AzureImmutable
  <1> QED  BY <1>2, <1>3, <1>4 DEF LeaseOK, LeaseAllows

\* A request that rewrites the metadata of the current blob.
LEMMA RewriteHonours ==
    ASSUME DoorsInv, NEW k \in Names, NEW lease, NEW o \in Objects, Rewrite(k, lease, o),
           o.g = bucket.cur[k].g, o.s3hold = bucket.cur[k].s3hold, o.s3until = bucket.cur[k].s3until,
           bucket.cur[k].policy = "locked" => o.policy = "locked" /\ o.until >= bucket.cur[k].until
    PROVE  Honoured
  <1>1. k \in Keys /\ bucket \in Buckets  BY NamesAreBlobs DEF DoorsInv, NamespaceTypeOK
  <1>2. bucket' = Touch(bucket, k, o) /\ caller'.door = "azure"
    BY ServeOne, CallerIs DEF Rewrite
  <1>3. OnlyAt(bucket, bucket', k) /\ bucket'.cur[k] = o /\ bucket'.hist[k] = bucket.hist[k]
    BY <1>1, <1>2, TouchIs
  <1>4. \A j \in Keys \ {k} : KeyHonoured(j)
    <2> TAKE j \in Keys \ {k}
    <2>1. bucket'.cur[j] = bucket.cur[j] /\ bucket'.hist[j] = bucket.hist[j]  BY <1>3 DEF OnlyAt
    <2> QED  BY <2>1, KeptHonoured
  <1>5. Unweakened(bucket.cur[k], bucket'.cur[k])  BY <1>2, <1>3 DEF Unweakened
  <1>6. KeyHonoured(k)  BY <1>1, <1>3, <1>5, RewrittenHonoured
  <1> QED  BY <1>4, <1>6 DEF Honoured

\* Leases, policies and holds.
LEMMA RewritesHonour ==
    ASSUME DoorsInv,
           AcquireLease \/ ReleaseLease \/ BreakLease \/ PutPolicy \/ DeletePolicy \/ PutLegalHold
    PROVE  Honoured
  <1>1. now \in Nat /\ scene \in Scenes  BY DEF DoorsInv, NamespaceTypeOK
  <1>2. ASSUME NEW k \in Names
        PROVE  /\ bucket.cur[k] \in Objects /\ bucket.cur[k].until \in Nat
               /\ bucket.cur[k].until >= bucket.cur[k].until
    <2>1. k \in Keys  BY <1>1, NamesAreBlobs
    <2>2. bucket.cur[k] \in Objects  BY <2>1, KeyFacts
    <2>3. bucket.cur[k].until \in Nat  BY <2>2 DEF Objects
    <2> QED  BY <2>2, <2>3
  <1>3. ASSUME NEW k \in Names, NEW lease, NEW id \in Leases,
               Rewrite(k, lease, [bucket.cur[k] EXCEPT !.lease = id])
        PROVE  Honoured
    <2> DEFINE c == bucket.cur[k]
               o == [c EXCEPT !.lease = id]
    <2>1. c \in Objects /\ c.until >= c.until  BY <1>2
    <2>2. Rewrite(k, lease, o)  BY <1>3
    <2> HIDE DEF c
    <2>3. /\ o \in Objects /\ o.g = c.g /\ o.s3hold = c.s3hold /\ o.s3until = c.s3until
          /\ o.policy = c.policy /\ o.until = c.until
      <3>1. c \in Objects /\ id \in Leases  BY <2>1, <1>3
      <3> QED  BY ONLY <3>1 DEF o, Objects
    <2> HIDE DEF o
    <2> QED  BY <2>1, <2>2, <2>3, RewriteHonours DEF c
  <1>4. ASSUME NEW k \in Names, NEW policy \in Policies, NEW until \in Nat,
               bucket.cur[k].policy = "locked" => policy = "locked" /\ until >= bucket.cur[k].until,
               Rewrite(k, NoLease, [bucket.cur[k] EXCEPT !.policy = policy, !.until = until])
        PROVE  Honoured
    <2> DEFINE c == bucket.cur[k]
               o == [c EXCEPT !.policy = policy, !.until = until]
    <2>1. c \in Objects  BY <1>2
    <2>2. Rewrite(k, NoLease, o) /\ (c.policy = "locked" => policy = "locked" /\ until >= c.until)  BY <1>4
    <2> HIDE DEF c
    <2>3. /\ o \in Objects /\ o.g = c.g /\ o.s3hold = c.s3hold /\ o.s3until = c.s3until
          /\ o.policy = policy /\ o.until = until
      <3>1. c \in Objects /\ policy \in Policies /\ until \in Nat  BY <2>1, <1>4
      <3> QED  BY ONLY <3>1 DEF o, Objects
    <2> HIDE DEF o
    <2> QED  BY <2>2, <2>3, RewriteHonours DEF c
  <1>5. ASSUME NEW k \in Names, NEW on \in BOOLEAN, Rewrite(k, NoLease, [bucket.cur[k] EXCEPT !.hold = on])
        PROVE  Honoured
    <2> DEFINE c == bucket.cur[k]
               o == [c EXCEPT !.hold = on]
    <2>1. c \in Objects /\ c.until >= c.until  BY <1>2
    <2>2. Rewrite(k, NoLease, o)  BY <1>5
    <2> HIDE DEF c
    <2>3. /\ o \in Objects /\ o.g = c.g /\ o.s3hold = c.s3hold /\ o.s3until = c.s3until
          /\ o.policy = c.policy /\ o.until = c.until
      <3>1. c \in Objects /\ on \in BOOLEAN  BY <2>1, <1>5
      <3> QED  BY ONLY <3>1 DEF o, Objects
    <2> HIDE DEF o
    <2> QED  BY <2>1, <2>2, <2>3, RewriteHonours DEF c
  <1>6. CASE AcquireLease  BY <1>3, <1>6 DEF AcquireLease, Leases
  <1>7. CASE ReleaseLease  BY <1>3, <1>7 DEF ReleaseLease, Leases
  <1>8. CASE BreakLease  BY <1>3, <1>8 DEF BreakLease, Leases
  <1>9. CASE PutPolicy
    <2>1. PICK k \in Names, mode \in {"unlocked", "locked"}, until \in now + 1 .. MaxTime + 1 :
            /\ bucket.cur[k].policy = "locked" => mode = "locked" /\ until >= bucket.cur[k].until
            /\ Rewrite(k, NoLease, [bucket.cur[k] EXCEPT !.policy = mode, !.until = until])
      BY <1>9 DEF PutPolicy
    <2>2. mode \in Policies /\ until \in Nat  BY <1>1 DEF Policies
    <2> QED  BY <1>4, <2>1, <2>2
  <1>10. CASE DeletePolicy
    <2>1. PICK k \in Names :
            /\ bucket.cur[k].policy # "locked"
            /\ Rewrite(k, NoLease, [bucket.cur[k] EXCEPT !.policy = "none", !.until = 0])
      BY <1>10 DEF DeletePolicy
    <2>2. "none" \in Policies /\ 0 \in Nat  BY DEF Policies
    <2> QED  BY <1>4, <2>1, <2>2
  <1>11. CASE PutLegalHold  BY <1>5, <1>11 DEF PutLegalHold
  <1> QED  BY <1>6, <1>7, <1>8, <1>9, <1>10, <1>11

\* put_blob and put_block_list.
LEMMA BlobHonours ==
    ASSUME DoorsInv, AzureBlobRequest, NEW k \in Names, NEW lease,
           NEW kind \in Kinds, NEW o,
           o = [Fresh(writes + 1) EXCEPT !.lease = bucket.cur[k].lease, !.kind = kind],
           Has(bucket, k) => OverwriteAllowed(bucket, bucket.cur[k], lease),
           Serve("azure", lease, <<Put(bucket, k, o)>>)
    PROVE  Honoured
  <1>1. k \in Keys /\ writes \in Nat /\ bucket.exists
    BY AzureClear, NamesAreBlobs DEF DoorsInv, NamespaceTypeOK
  <1> DEFINE c == bucket.cur[k]
             f == Fresh(writes + 1)
             l == c.lease
  <1>2. c \in Objects  BY <1>1, KeyFacts
  <1>3. f \in Objects /\ f.g = writes + 1 /\ f.g # 0  BY <1>1, FreshFits
  <1>4. o = [f EXCEPT !.lease = l, !.kind = kind]  OBVIOUS
  <1>5. l \in Leases  BY <1>2 DEF Objects
  <1>6. bucket' = Put(bucket, k, o) /\ caller'.door = "azure" /\ caller'.cred = lease
    BY ServeOne, CallerIs
  <1>7. /\ LeaseAllows(c, lease) => LeaseOK(k)
        /\ ~GcsRetained(bucket, c)
        /\ c.g = 0 => LeaseOK(k) /\ ~AzureImmutable(c)
    BY <1>1, <1>6, AzureAllowed
  <1>8. c.g # 0 => LeaseAllows(c, lease) /\ (AzureImmutable(c) => bucket.ver = "enabled")
    BY <1>1 DEF Has, OverwriteAllowed
  <1> HIDE DEF c, f
  <1>9. o \in Objects /\ o.g = f.g
    <2>1. f \in Objects  BY <1>3
    <2> HIDE DEF l
    <2> QED  BY ONLY kind \in Kinds, <1>4, <1>5, <2>1 DEF Objects
  <1> QED  BY <1>1, <1>3, <1>6, <1>7, <1>8, <1>9, PutHonours DEF c

\* update_metadata, append_block and put_page.
LEMMA AgainHonours ==
    ASSUME DoorsInv, AzureBlobRequest, NEW k \in Names, NEW lease,
           NEW x \in Objects, Again(k, lease, x)
    PROVE  Honoured
  <1>1. k \in Keys /\ now \in Nat /\ writes \in Nat
    BY NamesAreBlobs DEF DoorsInv, NamespaceTypeOK
  <1> DEFINE g == writes + 1
             o == [x EXCEPT !.g = g, !.at = now]
  <1>2. ~AzureImmutable(bucket.cur[k]) /\ LeaseAllows(bucket.cur[k], lease) /\ Serve("azure", lease, <<Put(bucket, k, o)>>)
    BY DEF Again, MutationAllowed
  <1>3. bucket' = Put(bucket, k, o) /\ caller'.door = "azure" /\ caller'.cred = lease
    BY <1>2, ServeOne, CallerIs
  <1>4. g \in Nat /\ g # 0 /\ now \in Nat /\ x \in Objects  BY <1>1
  <1> HIDE DEF g
  <1>5. o \in Objects /\ o.g = g  BY ONLY <1>4 DEF o, Objects
  <1> HIDE DEF o
  <1>6. LeaseOK(k) /\ ~GcsRetained(bucket, bucket.cur[k])  BY <1>1, <1>2, <1>3, AzureAllowed
  <1> QED  BY <1>1, <1>2, <1>3, <1>4, <1>5, <1>6, PutHonours

\* create_snapshot.
LEMMA SnapshotHonours ==
    ASSUME DoorsInv, CreateSnapshot
    PROVE  Honoured
  <1>1. PICK k \in Names, lease \in Leases, renamed \in BOOLEAN :
          \E s \in SnapsOf(k) :
            LET o == bucket.cur[k]
                copy == [o EXCEPT !.g = writes + 1, !.lease = NoLease, !.at = IF renamed THEN now ELSE o.at]
            IN /\ bucket.cur[s].g = 0 /\ bucket.hist[s] = {}
               /\ Serve("azure", lease, <<Put(bucket, s, copy)>>)
    BY DEF CreateSnapshot
  <1> DEFINE c == bucket.cur[k]
             at == IF renamed THEN now ELSE c.at
             g == writes + 1
             o == [c EXCEPT !.g = g, !.lease = NoLease, !.at = at]
  <1>2. PICK s \in SnapsOf(k) : /\ bucket.cur[s].g = 0 /\ bucket.hist[s] = {}
                                /\ Serve("azure", lease, <<Put(bucket, s, o)>>)
    BY <1>1
  <1>3. /\ k \in Keys /\ now \in Nat /\ writes \in Nat /\ bucket \in Buckets
    BY NamesAreBlobs DEF DoorsInv, NamespaceTypeOK
  <1>4. s \in Keys /\ s \in Snaps  BY DEF SnapsOf, Keys
  <1>5. bucket' = Put(bucket, s, o) /\ caller'.door = "azure"  BY <1>2, ServeOne, CallerIs
  <1>6. c \in Objects  BY <1>3, KeyFacts
  <1>7. at \in Nat /\ g \in Nat /\ g # 0 /\ NoLease \in Leases  BY <1>3, <1>6 DEF Objects, Leases
  <1> HIDE DEF c, at, g
  <1>8. o \in Objects /\ o.g = g  BY ONLY <1>6, <1>7 DEF o, Objects
  <1> HIDE DEF o
  <1>9. OnlyAt(bucket, bucket', s)  BY <1>3, <1>4, <1>5, <1>7, <1>8, PutIs
  <1>10. \A j \in Keys \ {s} : KeyHonoured(j)
    <2> TAKE j \in Keys \ {s}
    <2>1. bucket'.cur[j] = bucket.cur[j] /\ bucket'.hist[j] = bucket.hist[j]  BY <1>9 DEF OnlyAt
    <2> QED  BY <2>1, KeptHonoured
  <1>11. KeyHonoured(s)
    <2>1. Generations(bucket, s) = {}  BY <1>2 DEF Generations
    <2> QED  BY <1>2, <2>1 DEF KeyHonoured
  <1> QED  BY <1>10, <1>11 DEF Honoured

\* delete_blob: the blob has been asked for, its snapshots need not be.
LEMMA DeleteBlobHonours ==
    ASSUME DoorsInv, DeleteBlob
    PROVE  Honoured
  <1>1. AzureBlobRequest  BY DEF DeleteBlob
  <1>2. /\ bucket \in Buckets /\ now \in Nat /\ writes \in Nat /\ scene \in Scenes
    BY DEF DoorsInv, NamespaceTypeOK
  <1>3. PICK k \in Names, lease \in Leases, mode \in {"none", "include", "only"} :
          LET snaps == {s \in SnapsOf(k) : bucket.cur[s].g # 0}
              base == IF mode = "only" THEN bucket ELSE Delete(bucket, k, writes + 1)
          IN /\ MutationAllowed(bucket.cur[k], lease) /\ By("azure", lease)
             /\ \E gone \in SUBSET snaps : bucket' = WithoutSnapshots(base, gone)
    BY DEF DeleteBlob
  <1> DEFINE snaps == {s \in SnapsOf(k) : bucket.cur[s].g # 0}
             base == IF mode = "only" THEN bucket ELSE Delete(bucket, k, writes + 1)
  <1>4. PICK gone \in SUBSET snaps : bucket' = DeleteAll(base, gone, writes + 1)
    BY <1>3 DEF WithoutSnapshots
  <1>5. k \in Keys /\ k \notin Snaps  BY <1>2, NamesAreBlobs
  <1>6. gone \subseteq Snaps /\ gone \subseteq Keys /\ k \notin gone  BY <1>5 DEF SnapsOf, Keys
  <1>7. caller'.door = "azure" /\ caller'.cred = lease  BY <1>3, CallerIs
  <1>8. LeaseOK(k) /\ ~AzureImmutable(bucket.cur[k]) /\ ~GcsRetained(bucket, bucket.cur[k])
    BY <1>1, <1>3, <1>5, <1>7, AzureAllowed DEF MutationAllowed
  <1>9. \A s \in gone : SnapshotDelete(s)  BY <1>6 DEF SnapshotDelete
  <1>10. CASE mode = "only"
    <2>1. bucket' = DeleteAll(bucket, gone, writes + 1)  BY <1>4, <1>10
    <2> QED  BY <1>6, <1>9, <2>1, DeleteAllHonours
  <1>11. CASE mode # "only"
    <2> DEFINE all == gone \cup {k}
               g == writes + 1
    <2>1. all \in SUBSET Keys /\ g \in Nat /\ g # 0  BY <1>2, <1>5, <1>6
    <2>2. bucket' = DeleteAll(Delete(bucket, k, g), gone, g)  BY <1>4, <1>11
    <2>3. bucket' = DeleteAll(bucket, all, g)
      <3> HIDE DEF g
      <3> QED  BY <1>2, <1>5, <1>6, <2>1, <2>2, DeleteTwice
    <2>4. \A j \in all : \/ SnapshotDelete(j)
                         \/ /\ LeaseOK(j) /\ ~AzureImmutable(bucket.cur[j])
                            /\ ~GcsRetained(bucket, bucket.cur[j])
      BY <1>8, <1>9
    <2> HIDE DEF all
    <2> QED  BY <2>1, <2>3, <2>4, DeleteAllHonours
  <1> QED  BY <1>10, <1>11

\* Azure honours leases and write-once protection.
LEMMA AzureHonours ==
    ASSUME DoorsInv, AzureNext
    PROVE  Honoured
  <1>1. /\ bucket \in Buckets /\ now \in Nat /\ writes \in Nat /\ scene \in Scenes
    BY DEF DoorsInv, NamespaceTypeOK
  <1>2. Names \subseteq Keys  BY <1>1, NamesAreBlobs
  <1>3. ASSUME NEW k \in Names  PROVE bucket.cur[k] \in Objects
    BY <1>2, KeyFacts
  <1>4. CASE CreateContainer
    <2>1. \/ ~bucket.exists
          \/ Due /\ ~ContainerImmutable(bucket)
      BY <1>4 DEF CreateContainer
    <2>2. caller'.door = "azure"  BY <1>4, CallerIs DEF CreateContainer
    <2> QED  BY <2>1, <2>2, AbsentHonours DEF Honoured, PurgeIsOn
  <1>5. CASE AzureRead
    <2>1. caller'.door = "azure" /\ Due  BY <1>5, CallerIs DEF AzureRead
    <2>2. ~ContainerImmutable(bucket)  BY <2>1, NeverAbandoned DEF Due
    <2> QED  BY <2>1, <2>2 DEF Honoured, PurgeIsOn
  <1>6. CASE DeleteContainer \/ PutBlock \/ AzureRestart
    <2>1. bucket' = bucket  BY <1>6 DEF DeleteContainer, PutBlock, AzureRestart
    <2> QED  BY <2>1, QuietHonours
  <1>7. CASE \/ AcquireLease \/ ReleaseLease \/ BreakLease \/ PutPolicy \/ DeletePolicy \/ PutLegalHold
    BY <1>7, RewritesHonour
  <1>8. CASE CreateSnapshot  BY <1>8, SnapshotHonours
  <1>9. CASE UpdateMetadata
    <2>1. AzureBlobRequest  BY <1>9 DEF UpdateMetadata
    <2>2. PICK k \in Names, lease \in Leases : Again(k, lease, [bucket.cur[k] EXCEPT !.gen = 0, !.meta = 0])
      BY <1>9 DEF UpdateMetadata
    <2> DEFINE c == bucket.cur[k]
               x == [c EXCEPT !.gen = 0, !.meta = 0]
    <2>3. c \in Objects /\ 0 \in Nat  BY <1>3
    <2>4. Again(k, lease, x)  BY <2>2
    <2> HIDE DEF c
    <2>5. x \in Objects  BY ONLY <2>3 DEF x, Objects
    <2> HIDE DEF x
    <2> QED  BY <2>1, <2>4, <2>5, AgainHonours
  <1>10. CASE AppendBlock
    <2>1. AzureBlobRequest  BY <1>10 DEF AppendBlock
    <2>2. PICK k \in Names, lease \in Leases : Again(k, lease, bucket.cur[k])  BY <1>10 DEF AppendBlock
    <2> QED  BY <1>3, <2>1, <2>2, AgainHonours
  <1>11. CASE PutPage
    <2>1. AzureBlobRequest  BY <1>11 DEF PutPage
    <2>2. PICK k \in Names, lease \in Leases : Again(k, lease, bucket.cur[k])  BY <1>11 DEF PutPage
    <2> QED  BY <1>3, <2>1, <2>2, AgainHonours
  <1>12. CASE PutBlob
    <2>1. AzureBlobRequest  BY <1>12 DEF PutBlob
    <2>2. PICK k \in Names, lease \in Leases, kind \in BlobTypes :
            /\ Has(bucket, k) => OverwriteAllowed(bucket, bucket.cur[k], lease)
            /\ Serve("azure", lease, <<Put(bucket, k, [Fresh(writes + 1) EXCEPT !.lease = bucket.cur[k].lease,
                                                                             !.kind = kind])>>)
      BY <1>12 DEF PutBlob
    <2>3. kind \in Kinds  BY DEF BlobTypes, Kinds
    <2> QED  BY <2>1, <2>2, <2>3, BlobHonours
  <1>13. CASE DeleteBlob  BY <1>13, DeleteBlobHonours
  <1>14. CASE DeleteSnapshot
    <2>1. PICK s \in UNION {SnapsOf(k) : k \in Names}, lease \in Leases :
            MutationAllowed(bucket.cur[s], lease) /\ Serve("azure", lease, <<Delete(bucket, s, writes + 1)>>)
      BY <1>14 DEF DeleteSnapshot
    <2>2. s \in Keys /\ AzureBlobRequest  BY <1>14 DEF DeleteSnapshot, SnapsOf, Keys
    <2>3. bucket' = Delete(bucket, s, writes + 1) /\ caller'.door = "azure" /\ caller'.cred = lease
      BY <2>1, ServeOne, CallerIs
    <2>4. LeaseOK(s) /\ ~AzureImmutable(bucket.cur[s]) /\ ~GcsRetained(bucket, bucket.cur[s])
      BY <2>1, <2>2, <2>3, AzureAllowed DEF MutationAllowed
    <2> QED  BY <2>2, <2>3, <2>4, DeleteHonours
  <1>15. CASE AzureDeleteVersion
    <2>1. AzureBlobRequest  BY <1>15 DEF AzureDeleteVersion
    <2>0. PICK k \in Names, lease \in Leases : \E v \in VersionsOf(bucket, k) :
            /\ MutationAllowed(v, lease)
            /\ bucket' \in DeleteVersions(bucket, k, {v.vid}) /\ By("azure", lease)
      BY <1>15 DEF AzureDeleteVersion, DeleteVersion
    <2>2. PICK v \in VersionsOf(bucket, k) :
            /\ MutationAllowed(v, lease)
            /\ bucket' \in DeleteVersions(bucket, k, {v.vid}) /\ By("azure", lease)
      BY <2>0
    <2>3. k \in Keys /\ caller'.door = "azure" /\ caller'.cred = lease  BY <1>2, <2>2, CallerIs
    <2>4. /\ LeaseAllows(bucket.cur[k], lease) => LeaseOK(k)
          /\ ~GcsRetained(bucket, v) /\ \A o \in Under(bucket, k) : ~S3Locked(o)
      BY <2>1, <2>3, AzureAllowed
    <2>5. v \in Under(bucket, k)  BY <2>2 DEF VersionsOf, Under
    <2>6. ~Worm(bucket, k, v)  BY <2>2, <2>4, <2>5 DEF Worm, MutationAllowed
    <2>7. /\ NoVid \notin {v.vid}
          /\ \A o \in VersionsOf(bucket, k) : o.vid \in {v.vid} => o = v
          /\ bucket.cur[k].g # 0 /\ bucket.cur[k].vid \in {v.vid} => v = bucket.cur[k]
      BY <2>2, <2>3, VersionsApart
    <2> QED  BY <2>2, <2>3, <2>4, <2>6, <2>7, VersionsHonour DEF MutationAllowed
  <1>16. CASE PutBlockList
    <2>1. AzureBlobRequest  BY <1>16 DEF PutBlockList
    <2>2. PICK k \in Names, lease \in Leases :
            /\ Has(bucket, k) => OverwriteAllowed(bucket, bucket.cur[k], lease)
            /\ Serve("azure", lease, <<Put(bucket, k, [Fresh(writes + 1) EXCEPT !.lease = bucket.cur[k].lease])>>)
      BY <1>16 DEF PutBlockList
    <2> DEFINE f == Fresh(writes + 1)
               l == bucket.cur[k].lease
    <2>3. f \in Objects  BY FreshFits
    <2>4. [f EXCEPT !.lease = l] = [f EXCEPT !.lease = l, !.kind = f.kind] /\ f.kind \in Kinds
      <3> HIDE DEF f, l
      <3> QED  BY <2>3 DEF Objects
    <2>5. Serve("azure", lease, <<Put(bucket, k, [Fresh(writes + 1) EXCEPT !.lease = bucket.cur[k].lease,
                                                                           !.kind = f.kind])>>)
      BY <2>2, <2>4
    <2> QED  BY <2>1, <2>2, <2>4, <2>5, BlobHonours
  <1> QED
    BY <1>4, <1>5, <1>6, <1>7, <1>8, <1>9, <1>10, <1>11, <1>12, <1>13, <1>14, <1>15, <1>16 DEF AzureNext

\* Every step of the system does.
LEMMA StepsHonour ==
    ASSUME DoorsInv, [Next]_vars
    PROVE  Honoured
  <1>1. CASE AzureNext  BY <1>1, AzureHonours
  <1>2. CASE S3Next  BY <1>2, S3Honours
  <1>3. CASE GcsNext  BY <1>3, GcsHonours
  <1>4. CASE OciNext  BY <1>4, OciHonours
  <1>5. CASE HousekeepingNext  BY <1>5, HousekeepingHonours
  <1>6. CASE McpAct  BY <1>6, McpHonours
  <1>7. CASE McpCheck \/ Tick \/ UNCHANGED vars
    <2>1. bucket' = bucket  BY <1>7 DEF McpCheck, Tick, vars, nsvars, nsPlaces
    <2> QED  BY <2>1, QuietHonours
  <1> QED  BY <1>1, <1>2, <1>3, <1>4, <1>5, <1>6, <1>7 DEF Next

\* A leased blob is replaced or removed only by an Azure request that carries
\* its lease, by the purge of its container, or by an MCP tool that checked before
\* the lease was taken, whoever else writes to the bucket and wherever requests
\* stop.
THEOREM LeasesAreHonoured == Spec => LeaseHonoured
  <1> DEFINE Step == \A k \in Blobs :
                       LET o == bucket.cur[k]
                       IN o.g # 0 /\ o.lease # NoLease /\ bucket'.cur[k].g # o.g /\ ~Ungated(k)
                            => caller'.door = "azure" /\ (caller'.cred = o.lease \/ Due)
  <1>1. DoorsInv /\ [Next]_vars => Step
    <2> SUFFICES ASSUME DoorsInv, [Next]_vars, NEW k \in Blobs, bucket.cur[k].g # 0,
                        bucket.cur[k].lease # NoLease, bucket'.cur[k].g # bucket.cur[k].g, ~Ungated(k)
                 PROVE  caller'.door = "azure" /\ (caller'.cred = bucket.cur[k].lease \/ Due)
      OBVIOUS
    <2>1. scene \in Scenes  BY DEF DoorsInv, NamespaceTypeOK
    <2>2. k \in Keys /\ k \notin Snaps  BY <2>1, NamesAreBlobs
    <2>3. Honoured  BY StepsHonour
    <2>4. PurgeIsOn \/ KeyHonoured(k)  BY <2>2, <2>3 DEF Honoured, SnapshotDelete
    <2> QED  BY <2>4 DEF PurgeIsOn, KeyHonoured, LeaseOK
  <1>2. Spec => [][Step]_vars
    <2>1. DoorsInv /\ [Next]_vars => [Step]_vars  BY <1>1
    <2> HIDE DEF Step
    <2> QED  BY <2>1, DoorsInvariance, PTL DEF Spec
  <1> QED  BY <1>2 DEF LeaseHonoured

\* A generation under a hold, a policy, a lock or a retention period outlives
\* every request of every door, rule and tool, as protected as it was, in every
\* scene.  What the steps that do not ask take away is named in WormKept: the
\* snapshots of a deleted blob, what the purge of a container removes, and the
\* key that an ungated MCP tool acts on.
THEOREM WormsAreKept == Spec => WormKept
  <1> DEFINE Step == \A k \in Keys : \A o \in Generations(bucket, k) :
                       Worm(bucket, k, o) /\ ~SnapshotDelete(k) /\ ~ContainerPurge(o) /\ ~Ungated(k)
                         => Kept(k, o)
  <1>1. DoorsInv /\ [Next]_vars => Step
    <2> SUFFICES ASSUME DoorsInv, [Next]_vars, NEW k \in Keys, NEW o \in Generations(bucket, k),
                        Worm(bucket, k, o), ~SnapshotDelete(k), ~ContainerPurge(o), ~Ungated(k)
                 PROVE  Kept(k, o)
      OBVIOUS
    <2>1. Honoured  BY StepsHonour
    <2>2. o \in Stored(bucket)  BY DEF Generations, Stored, Current
    <2>3. ~PurgeIsOn  BY <2>2 DEF PurgeIsOn, ContainerPurge, ContainerImmutable
    <2> QED  BY <2>1, <2>3 DEF Honoured, KeyHonoured
  <1>2. Spec => [][Step]_vars
    <2>1. DoorsInv /\ [Next]_vars => [Step]_vars  BY <1>1
    <2> HIDE DEF Step
    <2> QED  BY <2>1, DoorsInvariance, PTL DEF Spec
  <1> QED  BY <1>2 DEF WormKept

(***************************************************************************)
(* Staged blocks.                                                          *)
(***************************************************************************)
Sessions == [BlockIds -> Nat]
Entries == [id : BlockIds, item : Nat]
BlockLists == UNION {[1 .. n -> Entries] : n \in 0 .. 2}

\* A value that the process may have to ask the disk for.
Loaded(S) == {Unloaded} \cup {<<x>> : x \in S}

BlockStates ==
    [mem : Loaded(Sessions), disk : Sessions, listMem : Loaded(BlockLists), listDisk : BlockLists,
     items : SUBSET Nat]

\* What BlocksStored says of one blob.
Backed(s) ==
    /\ ItemsOfSession(Session(s)) \cup ItemsOfSession(s.disk) \subseteq s.items
    /\ ItemsOfList(Committed(s)) \cup ItemsOfList(s.listDisk) \subseteq s.items

\* The blocks of every blob are typed, and the payloads of all that name them
\* are there.
BlocksInv == blocks \in [Blobs -> BlockStates] /\ \A k \in Blobs : Backed(blocks[k])

\* What is read, from memory or from the disk, is typed.
LEMMA ReadsTyped ==
    ASSUME NEW s \in BlockStates
    PROVE  Session(s) \in Sessions /\ Committed(s) \in BlockLists
  <1>1. s.mem \in Loaded(Sessions) /\ s.disk \in Sessions /\ s.listMem \in Loaded(BlockLists)
        /\ s.listDisk \in BlockLists
    BY DEF BlockStates
  <1>2. Session(s) \in Sessions  BY <1>1 DEF Session, Loaded
  <1>3. Committed(s) \in BlockLists  BY <1>1 DEF Committed, Loaded
  <1> QED  BY <1>2, <1>3

\* What memory holds is what is read.
LEMMA ReadsMemory ==
    ASSUME NEW s, NEW x
    PROVE  /\ s.mem = <<x>> => Session(s) = x
           /\ s.mem = Unloaded => Session(s) = s.disk
           /\ s.listMem = <<x>> => Committed(s) = x
           /\ s.listMem = Unloaded => Committed(s) = s.listDisk
  <1>1. <<x>> # Unloaded /\ <<x>>[1] = x  BY DEF Unloaded
  <1> QED  BY <1>1 DEF Session, Committed

\* An empty session and an empty list name nothing.
LEMMA NothingNamed ==
    /\ EmptySession \in Sessions /\ ItemsOfSession(EmptySession) = {}
    /\ <<>> \in BlockLists /\ ItemsOfList(<<>>) = {}
  <1>1. <<>> \in [1 .. 0 -> Entries]  OBVIOUS
  <1>2. <<>> \in BlockLists  BY <1>1 DEF BlockLists
  <1> QED  BY <1>2 DEF EmptySession, Sessions, ItemsOfSession, ItemsOfList

\* A step on the blocks of one blob.
LEMMA BlocksAt ==
    ASSUME BlocksInv, NEW k \in Blobs, NEW t \in BlockStates, Backed(t), blocks' = [blocks EXCEPT ![k] = t]
    PROVE  BlocksInv'
  BY DEF BlocksInv

\* clear_block_upload_state, wherever it stops: what names the payloads goes
\* before the payloads.
LEMMA ClearedBacked ==
    ASSUME NEW s \in BlockStates, Backed(s), NEW n \in 0 .. 3
    PROVE  ClearedBlocks(s, n) \in BlockStates /\ Backed(ClearedBlocks(s, n))
  <1> DEFINE t == ClearedBlocks(s, n)
  <1>1. /\ s.disk \in Sessions /\ s.listDisk \in BlockLists /\ s.items \in SUBSET Nat
        /\ Unloaded \in Loaded(Sessions) /\ Unloaded \in Loaded(BlockLists)
    BY DEF BlockStates, Loaded
  <1>2. /\ t.mem = Unloaded /\ t.listMem = Unloaded
        /\ t.disk = IF n >= 1 THEN EmptySession ELSE s.disk
        /\ t.listDisk = IF n >= 2 THEN <<>> ELSE s.listDisk
        /\ t.items = IF n >= 3 THEN {} ELSE s.items
    BY DEF ClearedBlocks
  <1>3. t \in BlockStates  BY <1>1, NothingNamed DEF ClearedBlocks, BlockStates
  <1> HIDE DEF t
  <1>4. Session(t) = t.disk /\ Committed(t) = t.listDisk  BY <1>2, ReadsMemory
  <1>5. ItemsOfSession(t.disk) \subseteq t.items
    BY <1>2, NothingNamed DEF Backed
  <1>6. ItemsOfList(t.listDisk) \subseteq t.items
    BY <1>2, NothingNamed DEF Backed
  <1>7. Backed(t)  BY <1>4, <1>5, <1>6 DEF Backed
  <1> QED  BY <1>3, <1>7 DEF t

\* put_block, wherever it stops: the payload comes before what names it.
LEMMA StagedBacked ==
    ASSUME NEW s \in BlockStates, Backed(s), NEW id \in BlockIds, NEW item \in Nat,
           NEW session, session = [Session(s) EXCEPT ![id] = item],
           NEW staged, staged = [s EXCEPT !.items = @ \cup {item}],
           NEW saved, saved = [staged EXCEPT !.disk = session],
           NEW held, held = [saved EXCEPT !.mem = <<session>>]
    PROVE  \A t \in {staged, saved, held} : t \in BlockStates /\ Backed(t)
  <1>1. Session(s) \in Sessions /\ Committed(s) \in BlockLists  BY ReadsTyped
  <1>2. session \in Sessions /\ ItemsOfSession(session) \subseteq ItemsOfSession(Session(s)) \cup {item}
    BY <1>1 DEF Sessions, ItemsOfSession
  <1>3. /\ staged \in BlockStates /\ staged.items = s.items \cup {item} /\ staged.disk = s.disk
        /\ staged.mem = s.mem /\ staged.listMem = s.listMem /\ staged.listDisk = s.listDisk
    BY DEF BlockStates
  <1>4. /\ saved \in BlockStates /\ saved.items = staged.items /\ saved.disk = session
        /\ saved.mem = s.mem /\ saved.listMem = s.listMem /\ saved.listDisk = s.listDisk
    BY <1>2, <1>3 DEF BlockStates
  <1>5. <<session>> \in Loaded(Sessions)  BY <1>2 DEF Loaded
  <1>6. /\ held \in BlockStates /\ held.items = staged.items /\ held.disk = session
        /\ held.mem = <<session>> /\ held.listMem = s.listMem /\ held.listDisk = s.listDisk
    BY <1>4, <1>5 DEF BlockStates
  <1>7. /\ Session(staged) = Session(s) /\ Session(saved) = IF s.mem = Unloaded THEN session ELSE Session(s)
        /\ Session(held) = session
    <2>1. Session(staged) = Session(s)  BY <1>3 DEF Session
    <2>2. Session(saved) = IF s.mem = Unloaded THEN session ELSE Session(s)  BY <1>4 DEF Session
    <2>3. held.mem = <<session>>  BY <1>6
    <2>4. Session(held) = session  BY ONLY <2>3, ReadsMemory
    <2> QED  BY <2>1, <2>2, <2>4
  <1>8. Committed(staged) = Committed(s) /\ Committed(saved) = Committed(s) /\ Committed(held) = Committed(s)
    BY <1>3, <1>4, <1>6 DEF Committed
  <1>9. Backed(staged)  BY <1>3, <1>7, <1>8 DEF Backed
  <1>10. ItemsOfSession(session) \subseteq staged.items  BY <1>2, <1>3 DEF Backed
  <1>11. Backed(saved)  BY <1>3, <1>4, <1>7, <1>8, <1>10 DEF Backed
  <1>12. Backed(held)  BY <1>3, <1>6, <1>7, <1>8, <1>10 DEF Backed
  <1> QED  BY <1>3, <1>4, <1>6, <1>9, <1>11, <1>12

\* The block that a selector finds has its payload.
LEMMA ResolvedStored ==
    ASSUME NEW s \in BlockStates, Backed(s), NEW id \in BlockIds, NEW selector,
           NEW e \in Resolve(s, id, selector)
    PROVE  e \in Entries /\ e.item \in s.items
  <1>1. Session(s) \in Sessions /\ Committed(s) \in BlockLists  BY ReadsTyped
  <1>2. CASE e = [id |-> id, item |-> Session(s)[id]] /\ Session(s)[id] # 0
    <2>1. e.id = id /\ e.item = Session(s)[id]  BY <1>2
    <2>2. e.item \in ItemsOfSession(Session(s))  BY <1>2, <2>1 DEF ItemsOfSession
    <2>3. Session(s)[id] \in Nat  BY <1>1 DEF Sessions
    <2> QED  BY <1>2, <2>2, <2>3 DEF Backed, Entries
  <1>3. CASE \E i \in DOMAIN Committed(s) : e = Committed(s)[i]
    <2> DEFINE l == Committed(s)
    <2>1. PICK i \in DOMAIN l : e = l[i]  BY <1>3
    <2>2. e.item \in ItemsOfList(l)  BY <2>1 DEF ItemsOfList
    <2> HIDE DEF l
    <2>3. l \in BlockLists  BY <1>1 DEF l
    <2>4. e \in Entries
      <3>1. PICK n \in 0 .. 2 : l \in [1 .. n -> Entries]  BY <2>3 DEF BlockLists
      <3> QED  BY <2>1, <3>1
    <2> QED  BY <2>2, <2>4 DEF Backed, l
  <1> QED  BY <1>2, <1>3 DEF Resolve

\* record_committed_block_session, wherever it stops.
LEMMA RecordedBacked ==
    ASSUME NEW s \in BlockStates, Backed(s), NEW list \in BlockLists, NEW rest \in Sessions,
           ItemsOfList(list) \subseteq s.items, ItemsOfSession(rest) \subseteq s.items,
           NEW t \in Recorded(s, list, rest)
    PROVE  t \in BlockStates /\ Backed(t)
  <1> DEFINE listed == [s EXCEPT !.listMem = <<list>>]
             saved == [listed EXCEPT !.listDisk = list]
             mem == IF rest = EmptySession THEN Unloaded ELSE <<rest>>
             left == [saved EXCEPT !.mem = Unloaded]
             kept == [saved EXCEPT !.disk = rest]
             moved == [saved EXCEPT !.disk = rest, !.mem = mem]
             items == ItemsOfList(list) \cup ItemsOfSession(rest)
             done == [moved EXCEPT !.items = items]
  <1>1. t = s \/ t = listed \/ t = saved \/ t = left \/ t = kept \/ t = moved \/ t = done
    BY DEF Recorded
  <1>2. /\ <<list>> \in Loaded(BlockLists) /\ <<rest>> \in Loaded(Sessions)
        /\ mem \in Loaded(Sessions) /\ Unloaded \in Loaded(Sessions)
    BY DEF Loaded
  <1>3. s.items \subseteq Nat  BY DEF BlockStates
  <1>4. items \subseteq s.items /\ items \in SUBSET Nat  BY <1>3
  <1>5. mem = Unloaded \/ mem = <<rest>>  OBVIOUS
  <1> HIDE DEF mem, items
  <1>6. /\ listed \in BlockStates /\ listed.items = s.items /\ listed.disk = s.disk
        /\ listed.mem = s.mem /\ listed.listMem = <<list>> /\ listed.listDisk = s.listDisk
    BY <1>2 DEF BlockStates
  <1> HIDE DEF listed
  <1>7. /\ saved \in BlockStates /\ saved.items = s.items /\ saved.disk = s.disk
        /\ saved.mem = s.mem /\ saved.listMem = <<list>> /\ saved.listDisk = list
    BY <1>6 DEF BlockStates
  <1> HIDE DEF saved
  <1>8. /\ left \in BlockStates /\ left.items = s.items /\ left.disk = s.disk
        /\ left.mem = Unloaded /\ left.listMem = <<list>> /\ left.listDisk = list
    BY <1>2, <1>7 DEF BlockStates
  <1>9. /\ kept \in BlockStates /\ kept.items = s.items /\ kept.disk = rest
        /\ kept.mem = s.mem /\ kept.listMem = <<list>> /\ kept.listDisk = list
    BY <1>7 DEF BlockStates
  <1>10. /\ moved \in BlockStates /\ moved.items = s.items /\ moved.disk = rest
         /\ moved.mem = mem /\ moved.listMem = <<list>> /\ moved.listDisk = list
    BY <1>2, <1>7 DEF BlockStates
  <1> HIDE DEF left, kept, moved
  <1>11. /\ done \in BlockStates /\ done.items = items /\ done.disk = rest
         /\ done.mem = mem /\ done.listMem = <<list>> /\ done.listDisk = list
    BY <1>4, <1>10 DEF BlockStates
  <1> HIDE DEF done
  <1>12. ASSUME NEW x, x.listMem = <<list>>  PROVE Committed(x) = list
    BY <1>12, ReadsMemory
  <1>13. ItemsOfSession(Session(s)) \subseteq s.items /\ ItemsOfSession(s.disk) \subseteq s.items
         /\ ItemsOfList(s.listDisk) \subseteq s.items
    BY DEF Backed
  <1>14. Session(listed) = Session(s) /\ Session(saved) = Session(s)  BY <1>6, <1>7 DEF Session
  <1>15. Session(left) = s.disk  BY <1>8, ReadsMemory
  <1>16. Session(kept) = rest \/ Session(kept) = Session(s)  BY <1>9 DEF Session
  <1>17. Session(moved) = rest /\ Session(done) = rest  BY <1>5, <1>10, <1>11, ReadsMemory
  <1>18. Backed(listed) /\ Backed(saved) /\ Backed(left) /\ Backed(kept) /\ Backed(moved)
    BY <1>6, <1>7, <1>8, <1>9, <1>10, <1>12, <1>13, <1>14, <1>15, <1>16, <1>17 DEF Backed
  <1>19. ItemsOfList(list) \subseteq items /\ ItemsOfSession(rest) \subseteq items  BY DEF items
  <1>20. Backed(done)  BY <1>11, <1>12, <1>17, <1>19 DEF Backed
  <1> QED  BY <1>1, <1>6, <1>7, <1>8, <1>9, <1>10, <1>11, <1>18, <1>20

\* Every block that is staged or committed has its payload, whatever requests
\* meet and wherever they or the process stop: put_block_list can always compose
\* the blob it is asked for.
THEOREM BlocksAreStored == Spec => []BlocksStored
  <1>1. Init => BlocksInv
    <2> SUFFICES ASSUME Init  PROVE BlocksInv  OBVIOUS
    <2>1. blocks = [k \in Blobs |-> NoBlocks]  BY DEF Init, AzureInit
    <2>2. NoBlocks \in BlockStates  BY NothingNamed DEF NoBlocks, BlockStates, Loaded
    <2>3. NoBlocks.mem = Unloaded /\ NoBlocks.listMem = Unloaded /\ NoBlocks.disk = EmptySession /\ NoBlocks.listDisk = <<>>
      BY DEF NoBlocks
    <2>4. Backed(NoBlocks)
      <3>1. Session(NoBlocks) = EmptySession /\ Committed(NoBlocks) = <<>>  BY <2>3, ReadsMemory
      <3> QED  BY <2>3, <3>1, NothingNamed DEF Backed
    <2> QED  BY <2>1, <2>2, <2>4 DEF BlocksInv
  <1>2. BlocksInv /\ DoorsInv /\ [Next]_vars => BlocksInv'
    <2> SUFFICES ASSUME BlocksInv, DoorsInv, [Next]_vars  PROVE BlocksInv'  OBVIOUS
    <2>1. writes \in Nat /\ scene \in Scenes  BY DEF DoorsInv, NamespaceTypeOK
    <2>2. Names \subseteq Blobs  BY <2>1, NamesAreBlobs
    <2>3. \A k \in Blobs : blocks[k] \in BlockStates /\ Backed(blocks[k])  BY DEF BlocksInv
    <2>4. CASE UNCHANGED blocks  BY <2>4 DEF BlocksInv
    <2>5. ASSUME NEW k \in Names, NEW n \in 0 .. 3, blocks' = [blocks EXCEPT ![k] = ClearedBlocks(@, n)]
          PROVE  BlocksInv'
      <3>1. blocks' = [blocks EXCEPT ![k] = ClearedBlocks(blocks[k], n)]  BY <2>5
      <3> QED  BY <2>2, <2>3, <3>1, ClearedBacked, BlocksAt
    <2>6. CASE PutBlob
      <3>1. PICK k \in Names, n \in 0 .. 3 : blocks' = [blocks EXCEPT ![k] = ClearedBlocks(@, n)]
        BY <2>6 DEF PutBlob
      <3> QED  BY <2>5, <3>1
    <2>7. CASE DeleteBlob
      <3>1. \/ UNCHANGED blocks
            \/ \E k \in Names, n \in 0 .. 3 : blocks' = [blocks EXCEPT ![k] = ClearedBlocks(@, n)]
        BY <2>7 DEF DeleteBlob
      <3> QED  BY <2>4, <2>5, <3>1
    <2>8. CASE PutBlock
      <3>1. PICK k \in Names, id \in BlockIds :
              LET s == blocks[k]
                  session == [Session(s) EXCEPT ![id] = writes + 1]
                  staged == [s EXCEPT !.items = @ \cup {writes + 1}]
                  saved == [staged EXCEPT !.disk = session]
                  held == [saved EXCEPT !.mem = <<session>>]
              IN \E step \in {staged, saved, held} : blocks' = [blocks EXCEPT ![k] = step]
        BY <2>8 DEF PutBlock
      <3> DEFINE s == blocks[k]
                 item == writes + 1
                 session == [Session(s) EXCEPT ![id] = item]
                 staged == [s EXCEPT !.items = @ \cup {item}]
                 saved == [staged EXCEPT !.disk = session]
                 held == [saved EXCEPT !.mem = <<session>>]
      <3>2. PICK step \in {staged, saved, held} : blocks' = [blocks EXCEPT ![k] = step]  BY <3>1
      <3>3. s \in BlockStates /\ Backed(s) /\ item \in Nat  BY <2>1, <2>2, <2>3
      <3> HIDE DEF s, item
      <3>4. step \in BlockStates /\ Backed(step)
        BY <3>2, <3>3, StagedBacked
      <3> HIDE DEF session, staged, saved, held
      <3> QED  BY <2>2, <3>2, <3>4, BlocksAt
    <2>9. CASE PutBlockList
      <3>1. PICK k \in Names, ref \in BlockReferences :
              LET s == blocks[k]
                  found == [i \in DOMAIN ref |-> Resolve(s, ref[i].id, ref[i].selector)]
                  list == [i \in DOMAIN ref |-> CHOOSE e \in found[i] : TRUE]
                  taken == {ref[i].id : i \in {j \in DOMAIN ref : ref[j].selector # "committed"}}
                  rest == [id \in BlockIds |-> IF id \in taken THEN 0 ELSE Session(s)[id]]
              IN /\ \A i \in DOMAIN found : found[i] # {}
                 /\ \E step \in Recorded(s, list, rest) : blocks' = [blocks EXCEPT ![k] = step]
        BY <2>9 DEF PutBlockList
      <3> DEFINE s == blocks[k]
                 found == [i \in DOMAIN ref |-> Resolve(s, ref[i].id, ref[i].selector)]
                 list == [i \in DOMAIN ref |-> CHOOSE e \in found[i] : TRUE]
                 taken == {ref[i].id : i \in {j \in DOMAIN ref : ref[j].selector # "committed"}}
                 rest == [id \in BlockIds |-> IF id \in taken THEN 0 ELSE Session(s)[id]]
      <3>2. PICK step \in Recorded(s, list, rest) : blocks' = [blocks EXCEPT ![k] = step]  BY <3>1
      <3>3. s \in BlockStates /\ Backed(s)  BY <2>2, <2>3
      <3>4. PICK n \in 0 .. 2 : ref \in [1 .. n -> [id : BlockIds, selector : {"latest", "uncommitted", "committed"}]]
        BY DEF BlockReferences
      <3>5. DOMAIN ref = 1 .. n /\ \A i \in DOMAIN ref : ref[i].id \in BlockIds  BY <3>4
      <3>6. \A i \in DOMAIN ref : found[i] # {}  BY <3>1
      <3> HIDE DEF s
      <3>7. \A i \in DOMAIN ref : list[i] \in Resolve(s, ref[i].id, ref[i].selector)  BY <3>6
      <3>8. \A i \in DOMAIN ref : list[i] \in Entries /\ list[i].item \in s.items
        <4> TAKE i \in DOMAIN ref
        <4>1. ref[i].id \in BlockIds /\ list[i] \in Resolve(s, ref[i].id, ref[i].selector)  BY <3>5, <3>7
        <4> HIDE DEF list
        <4> QED  BY <3>3, <4>1, ResolvedStored
      <3>9. list \in [DOMAIN ref -> Entries]  BY <3>8
      <3>10. list \in BlockLists
        <4> HIDE DEF list
        <4> QED  BY <3>5, <3>9 DEF BlockLists
      <3> HIDE DEF found
      <3>11. ItemsOfList(list) \subseteq s.items  BY <3>8, <3>9 DEF ItemsOfList
      <3> HIDE DEF list
      <3>12. Session(s) \in Sessions  BY <3>3, ReadsTyped
      <3>13. rest \in Sessions /\ ItemsOfSession(rest) \subseteq ItemsOfSession(Session(s))
        BY <3>12 DEF Sessions, ItemsOfSession
      <3>14. ItemsOfSession(rest) \subseteq s.items  BY <3>3, <3>13 DEF Backed
      <3> HIDE DEF rest
      <3>15. step \in BlockStates /\ Backed(step)
        BY <3>2, <3>3, <3>10, <3>11, <3>13, <3>14, RecordedBacked
      <3> QED  BY <2>2, <3>2, <3>15, BlocksAt
    <2>10. CASE AzureRestart
      <3>1. blocks' = [k \in Blobs |-> [blocks[k] EXCEPT !.mem = Unloaded, !.listMem = Unloaded]]
        BY <2>10 DEF AzureRestart
      <3>2. ASSUME NEW s \in BlockStates, Backed(s), NEW t, t = [s EXCEPT !.mem = Unloaded, !.listMem = Unloaded]
            PROVE  t \in BlockStates /\ Backed(t)
        <4>1. Unloaded \in Loaded(Sessions) /\ Unloaded \in Loaded(BlockLists)  BY DEF Loaded
        <4>2. /\ t \in BlockStates /\ t.mem = Unloaded /\ t.listMem = Unloaded
              /\ t.disk = s.disk /\ t.listDisk = s.listDisk /\ t.items = s.items
          BY <3>2, <4>1 DEF BlockStates
        <4>3. Session(t) = s.disk /\ Committed(t) = s.listDisk  BY <4>2, ReadsMemory
        <4> QED  BY <3>2, <4>2, <4>3 DEF Backed
      <3>3. \A k \in Blobs : blocks'[k] \in BlockStates /\ Backed(blocks'[k])  BY <2>3, <3>1, <3>2
      <3>4. blocks' \in [Blobs -> BlockStates]  BY <3>1, <3>3
      <3> QED  BY <3>3, <3>4 DEF BlocksInv
    <2>11. CASE AzureNext
      <3>1. CASE CreateContainer \/ DeleteContainer \/ AzureRead
        BY <2>4, <3>1 DEF CreateContainer, DeleteContainer, AzureRead
      <3>2. CASE \/ AcquireLease \/ ReleaseLease \/ BreakLease \/ PutPolicy \/ DeletePolicy \/ PutLegalHold
        BY <2>4, <3>2 DEF AcquireLease, ReleaseLease, BreakLease, PutPolicy, DeletePolicy, PutLegalHold, Rewrite
      <3>3. CASE CreateSnapshot \/ UpdateMetadata \/ AppendBlock \/ PutPage
        BY <2>4, <3>3 DEF CreateSnapshot, UpdateMetadata, AppendBlock, PutPage, Again
      <3>4. CASE DeleteSnapshot \/ AzureDeleteVersion
        BY <2>4, <3>4 DEF DeleteSnapshot, AzureDeleteVersion
      <3> QED  BY <2>6, <2>7, <2>8, <2>9, <2>10, <2>11, <3>1, <3>2, <3>3, <3>4 DEF AzureNext
    <2> QED  BY <2>4, <2>11 DEF Next, vars
  <1>3. BlocksInv => BlocksStored  BY DEF BlocksInv, Backed, BlocksStored
  <1> QED  BY <1>1, <1>2, <1>3, DoorsInvariance, PTL DEF Spec

(***************************************************************************)
(* Injected faults.                                                        *)
(***************************************************************************)

FaultStatuses == {"none", "3xx", "409", "429", "503", "5xx", "412", "404", "2xx", "lost", "cut"}

AttemptRecords ==
    [pc : {"unsent", "arrived", "gate", "ran", "answered"}, failpoint : Failpoints, result : {"none", "404", "412", "2xx"},
     status : FaultStatuses, applied : BOOLEAN, wrote : BOOLEAN]

FaultTypeOK ==
    /\ object \in Clients \cup {"none"}
    /\ attempt \in [Clients -> [Attempts -> AttemptRecords]]

\* What an attempt has done and been told, by how far it has come.
AttemptOK(c, n) ==
    LET a == attempt[c][n]
    IN  /\ a.pc \in {"unsent", "arrived", "gate"} => ~a.wrote
        /\ a.pc = "ran" => a.result \in {"404", "412", "2xx"} /\ (a.wrote <=> a.result = "2xx" /\ IsMutation(goal[c]))
        /\ a.pc # "answered" => a.status = "none"
        /\ a.status \in {"404", "412"} => a.result = a.status
        /\ a.pc = "answered" => TellsTruth(c, n)

NoDeletes == \A d \in Clients : ~Deletes(goal[d])

\* Somebody has created the object.
Created == \E d \in Clients, m \in Attempts : Creates(goal[d]) /\ attempt[d][m].wrote

Once(c) == Completes(goal[c]) \/ (Creates(goal[c]) /\ goal[c].conditional /\ NoDeletes)

\* The object there is has been created by some attempt, and stays if nobody
\* deletes; what can be done once is done once, and only what was done refuses a
\* second attempt.
WrittenOK ==
    /\ object # "none" => Created
    /\ NoDeletes /\ Created => object # "none"
    /\ \A c \in Clients, n, m \in Attempts : Once(c) /\ attempt[c][n].wrote /\ attempt[c][m].wrote => n = m
    /\ \A c \in Clients, n \in Attempts :
          /\ attempt[c][n].result = "412" => Created
          /\ attempt[c][n].result = "404" => \E m \in Attempts : attempt[c][m].wrote

FaultInv == FaultTypeOK /\ (\A c \in Clients, n \in Attempts : AttemptOK(c, n)) /\ WrittenOK

\* What the hooks make of the handler's answer.
LEMMA AfterFacts ==
    ASSUME NEW g, NEW f \in Failpoints, NEW status \in {"404", "412", "2xx"}
    PROVE  LET r == After(g, f, status)
           IN  /\ r.applied \in BOOLEAN
               /\ \/ r.status = status
                  \/ r.status = "lost" /\ IsMutation(g) /\ status = "2xx"
                  \/ r.status = "5xx" /\ ~r.applied /\ f = "checksum-receipt" /\ g.answer = "binary"
                  \/ r.status = "cut"
  BY DEF After, Failpoints, RewriteChecksum, Truncate, RewritePagination

\* What they answer instead of it.
LEMMA BeforeFacts ==
    ASSUME NEW g, NEW f \in Failpoints
    PROVE  Before(g, f) \in {"3xx", "409", "429", "503", "5xx", "none"}
  BY DEF Before, Failpoints, ProviderError

\* The invariant holds initially.
LEMMA InitFault == FaultInit => FaultInv
<1> SUFFICES ASSUME FaultInit PROVE FaultInv
  OBVIOUS
<1>1. /\ Unsent \in AttemptRecords /\ Unsent.pc = "unsent" /\ ~Unsent.wrote
      /\ Unsent.status = "none" /\ Unsent.result = "none"
  BY DEF Unsent, AttemptRecords, Failpoints, FaultStatuses
<1>2. attempt \in [Clients -> [Attempts -> AttemptRecords]] /\ \A c \in Clients, n \in Attempts : attempt[c][n] = Unsent
  BY <1>1 DEF FaultInit
<1>3. FaultTypeOK
  BY <1>2 DEF FaultInit, FaultTypeOK
<1>4. \A c \in Clients, n \in Attempts : AttemptOK(c, n)
  BY <1>1, <1>2 DEF AttemptOK
<1>5. WrittenOK
  BY <1>1, <1>2 DEF FaultInit, WrittenOK, Created
<1> QED
  BY <1>3, <1>4, <1>5 DEF FaultInv

\* Every step preserves it.
LEMMA NextFault == FaultInv /\ [FaultNext]_faultVars => FaultInv'
<1> SUFFICES ASSUME FaultInv, [FaultNext]_faultVars PROVE FaultInv'
  OBVIOUS
<1>t. FaultTypeOK /\ WrittenOK /\ \A c \in Clients, n \in Attempts : AttemptOK(c, n) /\ attempt[c][n] \in AttemptRecords
  BY DEF FaultInv, FaultTypeOK
<1>p. ASSUME NEW c \in Clients, NEW n \in Attempts, NEW r \in AttemptRecords, Set(c, n, r)
      PROVE  /\ attempt' \in [Clients -> [Attempts -> AttemptRecords]] /\ attempt'[c][n] = r
             /\ \A d \in Clients, m \in Attempts : (d # c \/ m # n) => attempt'[d][m] = attempt[d][m]
  BY <1>p, <1>t DEF Set, FaultTypeOK
<1>w. ASSUME NEW c \in Clients, NEW n \in Attempts, NEW r \in AttemptRecords, Set(c, n, r),
             r.wrote = attempt[c][n].wrote, r.result \in {"404", "412"} => attempt[c][n].result = r.result,
             UNCHANGED <<object, goal>>
      PROVE  WrittenOK' /\ FaultTypeOK'
  <2>1. /\ attempt' \in [Clients -> [Attempts -> AttemptRecords]] /\ attempt'[c][n] = r
        /\ \A d \in Clients, m \in Attempts : (d # c \/ m # n) => attempt'[d][m] = attempt[d][m]
    BY <1>w, <1>p
  <2>2. \A d \in Clients, m \in Attempts :
           /\ attempt'[d][m].wrote = attempt[d][m].wrote
           /\ attempt'[d][m].result \in {"404", "412"} => attempt[d][m].result = attempt'[d][m].result
    BY <1>w, <2>1
  <2>3. Created' = Created /\ NoDeletes' = NoDeletes /\ \A d \in Clients : Once(d)' = Once(d)
    BY <1>w, <2>2 DEF Created, NoDeletes, Once
  <2>4. WrittenOK'
    BY <1>w, <1>t, <2>2, <2>3 DEF WrittenOK
  <2> QED
    BY <1>w, <1>t, <2>1, <2>4 DEF FaultTypeOK
<1>o. ASSUME NEW c \in Clients, NEW n \in Attempts, NEW r \in AttemptRecords, Set(c, n, r), UNCHANGED goal, AttemptOK(c, n)'
      PROVE  \A d \in Clients, m \in Attempts : AttemptOK(d, m)'
  BY <1>o, <1>p, <1>t DEF AttemptOK, TellsTruth
<1>1. CASE UNCHANGED faultVars
  BY <1>1, <1>t DEF faultVars, FaultInv, FaultTypeOK, AttemptOK, TellsTruth, WrittenOK, Created, NoDeletes, Once
<1>2. ASSUME NEW c \in Clients, NEW n \in Attempts, SendAttempt(c, n) PROVE FaultInv'
  <2>1. PICK f \in Failpoints : Set(c, n, [Unsent EXCEPT !.pc = "arrived", !.failpoint = f])
    BY <1>2 DEF SendAttempt, Failpoints
  <2> DEFINE r == [Unsent EXCEPT !.pc = "arrived", !.failpoint = f]
  <2>2. r \in AttemptRecords /\ r.pc = "arrived" /\ ~r.wrote /\ r.status = "none" /\ r.result = "none"
    BY DEF Unsent, AttemptRecords, FaultStatuses
  <2> HIDE DEF r
  <2>3. Set(c, n, r)
    BY <2>1 DEF r
  <2>4. attempt[c][n].pc = "unsent" /\ UNCHANGED <<object, goal>>
    BY <1>2 DEF SendAttempt
  <2>5. r.wrote = attempt[c][n].wrote
    BY <1>t, <2>2, <2>4 DEF AttemptOK, AttemptRecords
  <2>6. AttemptOK(c, n)'
    BY <1>p, <2>2, <2>3 DEF AttemptOK
  <2> QED
    BY <1>o, <1>w, <2>2, <2>3, <2>4, <2>5, <2>6 DEF FaultInv
<1>3. ASSUME NEW c \in Clients, NEW n \in Attempts, PassBefore(c, n) PROVE FaultInv'
  <2> DEFINE a == attempt[c][n]
             injected == Before(goal[c], a.failpoint)
             r == IF injected # "none" THEN [a EXCEPT !.pc = "answered", !.status = injected, !.applied = TRUE]
                  ELSE [a EXCEPT !.pc = "gate"]
  <2>1. a.pc = "arrived" /\ Set(c, n, r) /\ UNCHANGED <<object, goal>>
    BY <1>3 DEF PassBefore
  <2>2. a \in AttemptRecords /\ ~a.wrote /\ a.status = "none"
    BY <1>t, <2>1 DEF AttemptOK
  <2>3. injected \in {"3xx", "409", "429", "503", "5xx", "none"}
    BY <2>2, BeforeFacts DEF AttemptRecords
  <2> HIDE DEF injected
  <2>4. /\ r \in AttemptRecords /\ r.wrote = a.wrote /\ r.result = a.result /\ r.pc \in {"answered", "gate"}
        /\ r.pc = "answered" => r.status \in {"3xx", "409", "429", "503", "5xx"}
        /\ r.pc = "gate" => r.status = a.status
    BY <2>2, <2>3 DEF AttemptRecords, FaultStatuses
  <2> HIDE DEF r
  <2>5. AttemptOK(c, n)'
    BY <1>p, <2>1, <2>2, <2>4 DEF AttemptOK, TellsTruth
  <2> QED
    BY <1>o, <1>w, <2>1, <2>2, <2>4, <2>5 DEF FaultInv
<1>4. ASSUME NEW c \in Clients, NEW n \in Attempts, Run(c, n) PROVE FaultInv'
  <2> DEFINE a == attempt[c][n]
             g == goal[c]
             v == Verdict(c)
             w == v = "2xx" /\ IsMutation(g)
             r == [a EXCEPT !.pc = "ran", !.result = v, !.wrote = w]
  <2>1. a.pc = "gate" /\ Set(c, n, r) /\ UNCHANGED goal
    BY <1>4 DEF Run
  <2>2. object' = IF w /\ Creates(g) THEN c ELSE IF w /\ Deletes(g) THEN "none" ELSE object
    BY <1>4 DEF Run
  <2>3. a \in AttemptRecords /\ ~a.wrote /\ a.status = "none"
    BY <1>t, <2>1 DEF AttemptOK
  <2>4. /\ v \in {"404", "412", "2xx"} /\ w \in BOOLEAN
        /\ v = "404" => Completed(c)
        /\ v = "412" => object # "none"
        /\ v = "2xx" => ~Completed(c) /\ ~(g.conditional /\ object # "none")
    BY DEF Verdict, IsMutation
  <2>5. r \in AttemptRecords /\ r.pc = "ran" /\ r.result = v /\ r.wrote = w /\ r.status = a.status
    <3> HIDE DEF v, w
    <3> QED
      BY <2>3, <2>4 DEF AttemptRecords
  <2> HIDE DEF r, a, v
  <2>6. /\ attempt' \in [Clients -> [Attempts -> AttemptRecords]] /\ attempt'[c][n] = r
        /\ \A d \in Clients, m \in Attempts : (d # c \/ m # n) => attempt'[d][m] = attempt[d][m]
    BY <1>p, <2>1, <2>5
  <2>7. AttemptOK(c, n)'
    BY <2>1, <2>3, <2>4, <2>5, <2>6 DEF AttemptOK
  <2>8. FaultTypeOK'
    BY <1>t, <2>2, <2>6 DEF FaultTypeOK
  <2>9. \A d \in Clients, m \in Attempts : attempt'[d][m].wrote <=> attempt[d][m].wrote \/ (d = c /\ m = n /\ w)
    BY <2>3, <2>5, <2>6 DEF AttemptRecords, a
  <2>10. /\ NoDeletes' = NoDeletes /\ \A d \in Clients : Once(d)' = Once(d)
         /\ Created' <=> Created \/ (w /\ Creates(g))
    BY <2>1, <2>9 DEF NoDeletes, Once, Created
  <2>11. w /\ Creates(g) => object' # "none"
    BY <2>2, FaultAssumption
  <2>12. ASSUME NEW d \in Clients, NEW m \in Attempts, NEW l \in Attempts, Once(d), attempt'[d][m].wrote, attempt'[d][l].wrote
         PROVE  m = l
    <3>1. CASE d = c /\ w
      <4>1. \A x \in Attempts : ~attempt[c][x].wrote
        <5>1. CASE Completes(g)
          BY <2>4, <3>1, <5>1 DEF Completed
        <5>2. CASE Creates(g) /\ g.conditional /\ NoDeletes
          <6>1. object = "none"
            BY <2>4, <3>1, <5>2
          <6>2. ~Created
            BY <1>t, <5>2, <6>1 DEF WrittenOK
          <6> QED
            BY <5>2, <6>2 DEF Created
        <5> QED
          BY <2>12, <3>1, <5>1, <5>2 DEF Once
      <4> QED
        BY <2>9, <2>12, <3>1, <4>1
    <3>2. CASE ~(d = c /\ w)
      BY <1>t, <2>9, <2>12, <3>2 DEF WrittenOK
    <3> QED
      BY <3>1, <3>2
  <2>13. ASSUME NEW d \in Clients, NEW m \in Attempts
         PROVE  /\ attempt'[d][m].result = "412" => Created'
                /\ attempt'[d][m].result = "404" => \E l \in Attempts : attempt'[d][l].wrote
    <3>1. CASE d = c /\ m = n
      BY <1>t, <2>4, <2>5, <2>6, <2>9, <2>10, <3>1 DEF WrittenOK, Completed
    <3>2. CASE ~(d = c /\ m = n)
      BY <1>t, <2>6, <2>9, <2>10, <3>2 DEF WrittenOK
    <3> QED
      BY <3>1, <3>2
  <2>14. object' # "none" => Created'
    BY <1>t, <2>2, <2>10 DEF WrittenOK
  <2>15. NoDeletes /\ Created' => object' # "none"
    BY <1>t, <2>2, <2>10, <2>11 DEF WrittenOK, NoDeletes
  <2>16. WrittenOK'
    BY <2>10, <2>12, <2>13, <2>14, <2>15 DEF WrittenOK
  <2> QED
    BY <1>o, <2>1, <2>5, <2>7, <2>8, <2>16 DEF FaultInv
<1>5. ASSUME NEW c \in Clients, NEW n \in Attempts, PassAfter(c, n) PROVE FaultInv'
  <2> DEFINE a == attempt[c][n]
             seen == After(goal[c], a.failpoint, a.result)
             r == [a EXCEPT !.pc = "answered", !.status = seen.status, !.applied = seen.applied]
  <2>1. a.pc = "ran" /\ Set(c, n, r) /\ UNCHANGED <<object, goal>>
    BY <1>5 DEF PassAfter
  <2>2. a \in AttemptRecords /\ AttemptOK(c, n)
    BY <1>t
  <2>3. a.result \in {"404", "412", "2xx"} /\ (a.wrote <=> a.result = "2xx" /\ IsMutation(goal[c])) /\ a.failpoint \in Failpoints
    BY <2>1, <2>2 DEF AttemptOK, AttemptRecords
  <2>4. /\ seen.applied \in BOOLEAN
        /\ \/ seen.status = a.result
           \/ seen.status = "lost" /\ IsMutation(goal[c]) /\ a.result = "2xx"
           \/ seen.status = "5xx" /\ ~seen.applied /\ a.failpoint = "checksum-receipt" /\ goal[c].answer = "binary"
           \/ seen.status = "cut"
    BY <2>3, AfterFacts
  <2> HIDE DEF seen
  <2>5. /\ r \in AttemptRecords /\ r.pc = "answered" /\ r.status = seen.status /\ r.wrote = a.wrote
        /\ r.result = a.result /\ r.applied = seen.applied /\ r.failpoint = a.failpoint
    BY <2>2, <2>3, <2>4 DEF AttemptRecords, FaultStatuses
  <2> HIDE DEF r
  <2>6. attempt'[c][n] = r
    BY <1>p, <2>1, <2>5
  <2>7. AttemptOK(c, n)'
    BY <2>1, <2>3, <2>4, <2>5, <2>6 DEF AttemptOK, TellsTruth
  <2> QED
    BY <1>o, <1>w, <2>1, <2>3, <2>4, <2>5, <2>7 DEF FaultInv
<1> QED
  BY <1>1, <1>2, <1>3, <1>4, <1>5 DEF FaultNext, FaultStep

\* FaultsHonest in every reachable state, for any clients, operations, attempts
\* and providers: what an answer tells of the write is true, with the checksum
\* hook's error over an answer that is no text as the one stated exception, and a
\* completion or conditional creation that is retried is done once.
THEOREM HonestFaults == FaultSpec => []FaultsHonest
<1>1. FaultInv => FaultsHonest
  <2> SUFFICES ASSUME FaultInv PROVE FaultsHonest
    OBVIOUS
  <2>1. \A c \in Clients, n \in Attempts : Concluded(c, n) => TellsTruth(c, n)
    BY DEF FaultInv, AttemptOK, Concluded
  <2>2. ASSUME NEW c \in Clients, Once(c)
        PROVE  Cardinality(WritesOf(c)) <= 1
    <3>1. CASE WritesOf(c) = {}
      BY <3>1, FS_EmptySet
    <3>2. CASE WritesOf(c) # {}
      <4>1. PICK n \in WritesOf(c) : TRUE
        BY <3>2
      <4>2. WritesOf(c) = {n}
        BY <2>2, <4>1 DEF FaultInv, WrittenOK, WritesOf
      <4>3. Cardinality({n}) = 1
        BY FS_Singleton
      <4> QED
        BY <4>2, <4>3
    <3> QED
      BY <3>1, <3>2
  <2>3. ASSUME NEW c \in Clients, NEW n \in Attempts,
               \/ attempt[c][n].status = "404"
               \/ attempt[c][n].status = "412" /\ \A d \in Clients \ {c} : ~Creates(goal[d])
        PROVE  WritesOf(c) # {}
    <3>1. CASE attempt[c][n].status = "404"
      <4>1. attempt[c][n].result = "404"
        BY <3>1 DEF FaultInv, AttemptOK
      <4> QED
        BY <4>1 DEF FaultInv, WrittenOK, WritesOf
    <3>2. CASE attempt[c][n].status = "412" /\ \A d \in Clients \ {c} : ~Creates(goal[d])
      <4>1. attempt[c][n].result = "412"
        BY <3>2 DEF FaultInv, AttemptOK
      <4>2. Created
        BY <4>1 DEF FaultInv, WrittenOK
      <4> QED
        BY <3>2, <4>2 DEF Created, WritesOf
    <3> QED
      BY <2>3, <3>1, <3>2
  <2> QED
    BY <2>1, <2>2, <2>3 DEF FaultsHonest, Once, NoDeletes
<1> QED
  BY <1>1, InitFault, NextFault, PTL DEF FaultSpec

-----------------------------------------------------------------------------
(***************************************************************************)
(* The mail door of ACS: at most one capture per request id and one answer *)
(* to all its repeats, for any number of clients, request ids, operation   *)
(* ids and bodies.                                                         *)
(***************************************************************************)
Claiming == {"lookup", "legacy", "parse", "reserve", "commit"}

\* The claim lock is held exactly while a handler is past it.
ClaimOK == \A c \in Client : (holder = c) <=> point[c] \in Claiming

\* What the holder has found out stays true until it commits.
HolderOK ==
    \A c \in Client :
      /\ point[c] \in {"lookup", "legacy"} => req[c].rid \in Rid
      /\ point[c] \in {"legacy", "parse", "reserve", "commit"} /\ req[c].rid \in Rid => record[req[c].rid] = NoRecord
      /\ point[c] = "commit" => opid[c] \in Op \ reserved

\* A record or a message stands for an operation that was captured.
Captured(o) == o \in old \/ used[o] = 1
RecordOK ==
    /\ \A r \in Rid : record[r].status = "accepted" => record[r].op \in reserved /\ Captured(record[r].op)
    /\ \A m \in mail : Captured(m.op)
    /\ \A o \in Op : used[o] > 0 => o \in reserved

\* An answer repeats the record of its request id.
AnswerOK ==
    \A a \in answers :
      record[a.rid] = [hash |-> a.hash, sent |-> a.sent, status |-> a.status, op |-> a.op]

EmailInv ==
    /\ EmailTypeOK /\ ClaimOK /\ HolderOK /\ RecordOK /\ AnswerOK
    /\ AtMostOnce /\ OperationUnique /\ AcceptedKept

-----------------------------------------------------------------------------
\* The invariant holds in every initial state.
LEMMA EmailInitInv == EmailInit => EmailInv
  BY EmailAssumption
  DEF EmailInit, EmailInv, EmailTypeOK, ClaimOK, Claiming, HolderOK, RecordOK, Captured, AnswerOK, AtMostOnce,
      OperationUnique, AcceptedKept, NoRecord, EmailMessages

\* The placeholders are no requests and no records.
LEMMA Placeholders == NoRequest \notin EmailRequests /\ NoRecord \notin EmailRecords
<1>1. ASSUME NoRequest \in EmailRequests PROVE FALSE
  BY <1>1 DEF NoRequest, EmailRequests
<1>2. ASSUME NoRecord \in EmailRecords PROVE FALSE
  BY <1>2 DEF NoRecord, EmailRecords
<1> QED
  BY <1>1, <1>2

\* A client with work in hand has a well-formed request.
LEMMA BusyRequest ==
    ASSUME EmailTypeOK, NEW c \in Client, point[c] # "idle"
    PROVE  /\ req[c] \in EmailRequests
           /\ req[c].rid \in Rid \cup {NoRid} /\ req[c].op \in Op \cup {NoOp}
           /\ req[c].body \in Body /\ req[c].sent \in Sent
           /\ Fingerprint(req[c]) \in Fingerprints
<1>1. req[c] \in EmailRequests
  BY DEF EmailTypeOK
<1>2. req[c].rid \in Rid \cup {NoRid} /\ req[c].op \in Op \cup {NoOp} /\ req[c].body \in Body /\ req[c].sent \in Sent
  BY <1>1 DEF EmailRequests
<1> QED
  BY <1>1, <1>2 DEF Fingerprint, Fingerprints

\* Every step keeps the types.
LEMMA EmailNextType == EmailInv /\ [EmailNext]_emailVars => EmailTypeOK'
<1> SUFFICES ASSUME EmailInv, [EmailNext]_emailVars PROVE EmailTypeOK'
  OBVIOUS
<1> USE EmailAssumption
<1>1. CASE UNCHANGED emailVars
  BY <1>1 DEF EmailInv, EmailTypeOK, emailVars, emailStore, local, history, told
<1>2. CASE \E c \in Client, r \in EmailRequests : Receive(c, r)
  BY <1>2, Placeholders DEF EmailInv, EmailTypeOK, Receive, emailStore, local, history, told
<1>3. CASE \E c \in Client : EmailClaim(c)
  BY <1>3 DEF EmailInv, EmailTypeOK, HolderOK, EmailRequests, NoRequest, Fingerprint, Fingerprints, EmailAnswers, EmailClaim, emailStore,
     local, history, told
<1>4. CASE \E c \in Client : Lookup(c)
  <2>1. PICK c \in Client : Lookup(c)
    BY <1>4
  <2>2. point[c] = "lookup" /\ EmailTypeOK
    BY <2>1 DEF Lookup, EmailInv
  <2>3. /\ req[c] \in EmailRequests /\ req[c].rid \in Rid /\ req[c].sent \in Sent
        /\ Fingerprint(req[c]) \in Fingerprints
    BY <2>2, BusyRequest DEF EmailInv, HolderOK
  <2> DEFINE r == record[req[c].rid]
  <2>4. r = NoRecord \/ (r \in EmailRecords /\ r # NoRecord)
    BY <2>2, <2>3, Placeholders DEF EmailTypeOK
  <2>5. r \in EmailRecords => /\ r.status \in {"accepted", "rejected"} /\ r.op \in Op \cup {NoOp}
                             /\ (r.status = "accepted" => r.op \in Op)
    BY <2>2, <2>3 DEF EmailRecords, EmailInv, RecordOK, EmailTypeOK
  <2>6. record' = record /\ reserved' = reserved /\ mail' = mail /\ made' = made /\ used' = used /\ old' = old
    BY <2>1 DEF Lookup, emailStore, history
  <2>7. CASE r = NoRecord
    BY <2>1, <2>2, <2>6, <2>7 DEF Lookup, Go, told, EmailTypeOK
  <2>8. CASE r # NoRecord /\ Refuse(c)
    BY <2>2, <2>6, <2>8 DEF Refuse, Finish, told, EmailTypeOK
  <2>9. CASE r # NoRecord /\ Reply(c, r.status, r.op)
    <3>1. answers' \subseteq EmailAnswers
      BY <2>2, <2>3, <2>4, <2>5, <2>9 DEF Reply, EmailTypeOK, EmailAnswers
    <3>2. accepted' \subseteq Op
      BY <2>2, <2>3, <2>4, <2>5, <2>9 DEF Reply, EmailTypeOK
    <3> QED
      BY <2>2, <2>6, <2>9, <3>1, <3>2 DEF Reply, Finish, EmailTypeOK
  <2> QED
    BY <2>1, <2>7, <2>8, <2>9 DEF Lookup
<1>5. CASE \E c \in Client : LegacyNone(c)
  BY <1>5 DEF EmailInv, EmailTypeOK, HolderOK, EmailRequests, NoRequest, Fingerprint, Fingerprints, EmailAnswers, LegacyNone, Go,
     emailStore, local, history, told
<1>6. CASE \E c \in Client, out \in Outcomes, m \in mail : LegacyFound(c, m, out)
  <2>1. PICK c \in Client, out \in Outcomes, m \in mail : LegacyFound(c, m, out)
    BY <1>6
  <2>2. point[c] = "legacy" /\ EmailTypeOK /\ m.op \in Op
    BY <2>1 DEF LegacyFound, EmailInv, EmailTypeOK, EmailMessages
  <2>3. /\ req[c] \in EmailRequests /\ req[c].rid \in Rid /\ req[c].sent \in Sent
        /\ Fingerprint(req[c]) \in Fingerprints
    BY <2>2, BusyRequest DEF EmailInv, HolderOK
  <2>4. mail' = mail /\ made' = made /\ used' = used /\ old' = old
    BY <2>1 DEF LegacyFound, emailStore, history
  <2>5. record' \in [Rid -> EmailRecords \cup {NoRecord}] /\ reserved' \subseteq Op
    BY <2>1, <2>2, <2>3 DEF LegacyFound, EmailTypeOK, EmailRecords, emailStore
  <2>6. CASE Refuse(c)
    BY <2>2, <2>4, <2>5, <2>6 DEF Refuse, Finish, told, EmailTypeOK
  <2>7. CASE Reply(c, "accepted", m.op)
    <3>1. answers' \subseteq EmailAnswers /\ accepted' \subseteq Op
      BY <2>2, <2>3, <2>7 DEF Reply, EmailTypeOK, EmailAnswers
    <3> QED
      BY <2>2, <2>4, <2>5, <2>7, <3>1 DEF Reply, Finish, EmailTypeOK
  <2> QED
    BY <2>1, <2>6, <2>7 DEF LegacyFound
<1>7. CASE \E c \in Client, out \in Outcomes : Parse(c, out)
  BY <1>7, SMTT(40) DEF EmailInv, EmailTypeOK, HolderOK, EmailRequests, NoRequest, Fingerprint, Fingerprints, EmailAnswers,
     Parse, RejectedRequest, Go, Reply, Refuse, Finish, Outcomes, EmailRecords, emailStore, local, history, told
<1>8. CASE \E c \in Client, out \in Outcomes : Commit(c, out)
  BY <1>8 DEF EmailInv, EmailTypeOK, HolderOK, EmailRequests, NoRequest, Fingerprint, Fingerprints, EmailAnswers, Commit, Reply,
     Refuse, Finish, Outcomes, EmailRecords, EmailMessages, emailStore, local, history, told
<1>9. CASE \E c \in Client, out \in Outcomes, o \in Op : Reserve(c, o, out)
  BY <1>9, SMTT(40) DEF EmailInv, EmailTypeOK, HolderOK, EmailRequests, NoRequest, Fingerprint, Fingerprints, EmailAnswers,
     Reserve, RejectedRequest, Reply, Refuse, Finish, Outcomes, EmailRecords, emailStore, local, history, told
<1>10. CASE \E m \in mail : DeleteMessage(m)
  BY <1>10 DEF EmailInv, EmailTypeOK, HolderOK, EmailRequests, NoRequest, Fingerprint, Fingerprints, EmailAnswers, DeleteMessage,
     emailStore, local, history, told
<1>11. CASE EmailCrash
  BY <1>11 DEF EmailInv, EmailTypeOK, HolderOK, EmailRequests, NoRequest, Fingerprint, Fingerprints, EmailAnswers, EmailCrash, emailStore,
     local, history, told
<1>12. CASE \E c \in Client : ReadFails(c)
  BY <1>12 DEF EmailInv, EmailTypeOK, ReadFails, Refuse, Finish, emailStore, history, told
<1> QED
  BY <1>12, <1>1, <1>2, <1>3, <1>4, <1>5, <1>6, <1>7, <1>8, <1>9, <1>10, <1>11 DEF EmailNext

\* Records are written once, so an answer given now or before stays the record.
LEMMA AnswerStep ==
    ASSUME EmailInv, NEW c \in Client, NEW status, NEW op,
           \A r \in Rid : record[r] # NoRecord => record'[r] = record[r],
           \/ answers' = answers
           \/ /\ Reply(c, status, op) /\ req[c].rid \in Rid \cup {NoRid}
              /\ req[c].rid \in Rid =>
                   record'[req[c].rid] = [hash |-> Fingerprint(req[c]), sent |-> req[c].sent,
                                          status |-> status, op |-> op]
    PROVE  AnswerOK'
<1> SUFFICES ASSUME NEW a \in answers'
             PROVE  record'[a.rid] = [hash |-> a.hash, sent |-> a.sent, status |-> a.status, op |-> a.op]
  BY DEF AnswerOK
<1>1. CASE a \in answers
  <2>1. a \in EmailAnswers /\ record[a.rid] = [hash |-> a.hash, sent |-> a.sent, status |-> a.status, op |-> a.op]
    BY <1>1 DEF EmailInv, EmailTypeOK, AnswerOK
  <2>2. a.rid \in Rid /\ record[a.rid] \in EmailRecords
    BY <2>1 DEF EmailAnswers, EmailRecords
  <2> QED
    BY <2>1, <2>2, Placeholders
<1>2. CASE a \notin answers
  <2>1. /\ req[c].rid \in Rid
        /\ a = [rid |-> req[c].rid, hash |-> Fingerprint(req[c]), sent |-> req[c].sent, status |-> status, op |-> op]
    BY <1>2, EmailAssumption DEF Reply
  <2>2. a.rid = req[c].rid /\ a.hash = Fingerprint(req[c]) /\ a.sent = req[c].sent /\ a.status = status /\ a.op = op
    BY <2>1
  <2> QED
    BY <2>1, <2>2, <1>2
<1> QED
  BY <1>1, <1>2

\* A commit that is reported has happened.
LEMMA Reported == \A out \in Outcomes : out[2] => out[1]
<1> SUFFICES ASSUME NEW out \in Outcomes PROVE out[2] => out[1]
  OBVIOUS
<1>1. CASE out = <<TRUE, TRUE>>
  BY <1>1
<1>2. CASE out = <<TRUE, FALSE>>
  BY <1>2
<1>3. CASE out = <<FALSE, FALSE>>
  BY <1>3
<1> QED
  BY <1>1, <1>2, <1>3 DEF Outcomes

\* What a rejection does to the records and the answers.
LEMMA RejectedStep ==
    ASSUME EmailInv, NEW c \in Client, NEW out \in Outcomes, RejectedRequest(c, out),
           point[c] \in {"parse", "reserve"}
    PROVE  AnswerOK'
<1>1. req[c].rid \in Rid \cup {NoRid} /\ (req[c].rid \in Rid => record[req[c].rid] = NoRecord) /\ EmailTypeOK
  BY BusyRequest DEF EmailInv, HolderOK
<1>2. \A r \in Rid : record[r] # NoRecord => record'[r] = record[r]
  BY <1>1, EmailAssumption DEF RejectedRequest, EmailTypeOK
<1>3. \/ answers' = answers
      \/ /\ Reply(c, "rejected", NoOp)
         /\ req[c].rid \in Rid =>
              record'[req[c].rid] = [hash |-> Fingerprint(req[c]), sent |-> req[c].sent,
                                     status |-> "rejected", op |-> NoOp]
  BY <1>1, EmailAssumption, Reported DEF RejectedRequest, Refuse, told, EmailTypeOK
<1> QED
  BY <1>1, <1>2, <1>3, AnswerStep

\* Every step keeps the invariant: one case per action, one step per part it can disturb.
LEMMA EmailNextInv == EmailInv /\ [EmailNext]_emailVars => EmailInv'
<1> SUFFICES ASSUME EmailInv, [EmailNext]_emailVars PROVE EmailInv'
  OBVIOUS
<1>t. EmailTypeOK /\ EmailTypeOK'
  BY EmailNextType DEF EmailInv
<1> USE EmailAssumption
<1>1. CASE UNCHANGED emailVars
  BY <1>1, <1>t DEF EmailInv, emailVars, emailStore, local, history, told, ClaimOK, Claiming, HolderOK, EmailRecords, NoRecord,
     NoRequest, EmailRequests, EmailMessages, RecordOK, Captured, AnswerOK, EmailAnswers, AtMostOnce, OperationUnique,
     AcceptedKept
<1>2. CASE \E c \in Client, r \in EmailRequests : Receive(c, r)
  <2>1. ClaimOK'
    BY <1>2, <1>t, Placeholders DEF EmailInv, EmailTypeOK, ClaimOK, Claiming, Receive, emailStore, local, history, told
  <2>2. HolderOK'
    BY <1>2, <1>t, Placeholders DEF EmailInv, EmailTypeOK, HolderOK, EmailRecords, NoRecord, NoRequest, EmailRequests, EmailMessages,
       Receive, emailStore, local, history, told
  <2>3. RecordOK'
    BY <1>2, <1>t, Placeholders DEF EmailInv, EmailTypeOK, RecordOK, Captured, EmailRecords, NoRecord, NoRequest, EmailRequests,
       EmailMessages, Receive, emailStore, local, history, told
  <2>4. AnswerOK'
    BY <1>2, <1>t, Placeholders DEF EmailInv, EmailTypeOK, AnswerOK, EmailAnswers, EmailRecords, NoRecord, NoRequest, EmailRequests,
       EmailMessages, Receive, emailStore, local, history, told
  <2>5. AtMostOnce'
    BY <1>2, <1>t, Placeholders DEF EmailInv, EmailTypeOK, AtMostOnce, NoRecord, Receive, emailStore, local, history, told
  <2>6. OperationUnique'
    BY <1>2, <1>t, Placeholders DEF EmailInv, EmailTypeOK, OperationUnique, Receive, emailStore, local, history, told
  <2>7. AcceptedKept'
    BY <1>2, <1>t, Placeholders DEF EmailInv, EmailTypeOK, AcceptedKept, Receive, emailStore, local, history, told
  <2> QED
    BY <1>t, <2>1, <2>2, <2>3, <2>4, <2>5, <2>6, <2>7 DEF EmailInv
<1>3. CASE \E c \in Client : EmailClaim(c)
  <2>1. ClaimOK'
    BY <1>3, <1>t, Placeholders DEF EmailInv, EmailTypeOK, ClaimOK, Claiming, EmailClaim, emailStore, local, history, told
  <2>2. HolderOK'
    BY <1>3, <1>t, Placeholders DEF EmailInv, EmailTypeOK, HolderOK, EmailRecords, NoRecord, NoRequest, EmailRequests, EmailMessages,
       EmailClaim, emailStore, local, history, told
  <2>3. RecordOK'
    BY <1>3, <1>t, Placeholders DEF EmailInv, EmailTypeOK, RecordOK, Captured, EmailRecords, NoRecord, NoRequest, EmailRequests,
       EmailMessages, EmailClaim, emailStore, local, history, told
  <2>4. AnswerOK'
    BY <1>3, <1>t, Placeholders DEF EmailInv, EmailTypeOK, AnswerOK, EmailAnswers, EmailRecords, NoRecord, NoRequest, EmailRequests,
       EmailMessages, EmailClaim, emailStore, local, history, told
  <2>5. AtMostOnce'
    BY <1>3, <1>t, Placeholders DEF EmailInv, EmailTypeOK, AtMostOnce, NoRecord, EmailClaim, emailStore, local, history, told
  <2>6. OperationUnique'
    BY <1>3, <1>t, Placeholders DEF EmailInv, EmailTypeOK, OperationUnique, EmailClaim, emailStore, local, history, told
  <2>7. AcceptedKept'
    BY <1>3, <1>t, Placeholders DEF EmailInv, EmailTypeOK, AcceptedKept, EmailClaim, emailStore, local, history, told
  <2> QED
    BY <1>t, <2>1, <2>2, <2>3, <2>4, <2>5, <2>6, <2>7 DEF EmailInv
<1>4. CASE \E c \in Client : Lookup(c)
  <2>1. ClaimOK'
    BY <1>4, <1>t, Placeholders DEF EmailInv, EmailTypeOK, ClaimOK, Claiming, Lookup, Go, Reply, Refuse, Finish,
       Fingerprint, emailStore, local, history, told
  <2>2. HolderOK'
    BY <1>4, <1>t, Placeholders DEF EmailInv, EmailTypeOK, HolderOK, EmailRecords, NoRecord, NoRequest, EmailRequests, EmailMessages,
       Lookup, Go, Reply, Refuse, Finish, Fingerprint, emailStore, local, history, told
  <2>3. RecordOK'
    BY <1>4, <1>t, Placeholders DEF EmailInv, EmailTypeOK, RecordOK, Captured, EmailRecords, NoRecord, NoRequest, EmailRequests,
       EmailMessages, Lookup, Go, Reply, Refuse, Finish, Fingerprint, emailStore, local, history, told
  <2>4. AnswerOK'
    <3>1. PICK c \in Client : Lookup(c)
      BY <1>4
    <3>2. point[c] = "lookup" /\ record' = record /\ EmailTypeOK
      BY <3>1, <1>t DEF Lookup, emailStore
    <3>3. req[c].rid \in Rid
      BY <3>2 DEF EmailInv, HolderOK
    <3> DEFINE r == record[req[c].rid]
    <3>4. r \in EmailRecords \cup {NoRecord}
      BY <3>2, <3>3 DEF EmailTypeOK
    <3>5. \/ answers' = answers
          \/ Reply(c, r.status, r.op) /\ r # NoRecord /\ r.hash = Fingerprint(req[c]) /\ r.sent = req[c].sent
      BY <3>1 DEF Lookup, Refuse, told
    <3>6. r \in EmailRecords => r = [hash |-> r.hash, sent |-> r.sent, status |-> r.status, op |-> r.op]
      BY DEF EmailRecords
    <3> HIDE DEF r
    <3>7. \/ answers' = answers
          \/ /\ Reply(c, r.status, r.op)
             /\ r = [hash |-> Fingerprint(req[c]), sent |-> req[c].sent, status |-> r.status, op |-> r.op]
      BY <3>4, <3>5, <3>6
    <3> QED
      BY <3>2, <3>3, <3>7, AnswerStep DEF r
  <2>5. AtMostOnce'
    BY <1>4, <1>t, Placeholders DEF EmailInv, EmailTypeOK, AtMostOnce, NoRecord, Lookup, Go, Reply, Refuse, Finish,
       Fingerprint, emailStore, local, history, told
  <2>6. OperationUnique'
    BY <1>4, <1>t, Placeholders DEF EmailInv, EmailTypeOK, OperationUnique, Lookup, Go, Reply, Refuse, Finish,
       Fingerprint, emailStore, local, history, told
  <2>7. AcceptedKept'
    BY <1>4, <1>t, Placeholders DEF EmailInv, EmailTypeOK, AcceptedKept, HolderOK, RecordOK, Captured, EmailRecords,
       NoRecord, NoRequest, EmailRequests, EmailMessages, Lookup, Go, Reply, Refuse, Finish, Fingerprint, emailStore, local,
       history, told
  <2> QED
    BY <1>t, <2>1, <2>2, <2>3, <2>4, <2>5, <2>6, <2>7 DEF EmailInv
<1>5. CASE \E c \in Client : LegacyNone(c)
  <2>1. ClaimOK'
    BY <1>5, <1>t, Placeholders DEF EmailInv, EmailTypeOK, ClaimOK, Claiming, LegacyNone, Go, emailStore, local, history, told
  <2>2. HolderOK'
    BY <1>5, <1>t, Placeholders DEF EmailInv, EmailTypeOK, HolderOK, EmailRecords, NoRecord, NoRequest, EmailRequests, EmailMessages,
       LegacyNone, Go, emailStore, local, history, told
  <2>3. RecordOK'
    BY <1>5, <1>t, Placeholders DEF EmailInv, EmailTypeOK, RecordOK, Captured, EmailRecords, NoRecord, NoRequest, EmailRequests,
       EmailMessages, LegacyNone, Go, emailStore, local, history, told
  <2>4. AnswerOK'
    BY <1>5, <1>t, Placeholders DEF EmailInv, EmailTypeOK, AnswerOK, EmailAnswers, EmailRecords, NoRecord, NoRequest, EmailRequests,
       EmailMessages, LegacyNone, Go, emailStore, local, history, told
  <2>5. AtMostOnce'
    BY <1>5, <1>t, Placeholders DEF EmailInv, EmailTypeOK, AtMostOnce, NoRecord, LegacyNone, Go, emailStore, local, history,
       told
  <2>6. OperationUnique'
    BY <1>5, <1>t, Placeholders DEF EmailInv, EmailTypeOK, OperationUnique, LegacyNone, Go, emailStore, local, history, told
  <2>7. AcceptedKept'
    BY <1>5, <1>t, Placeholders DEF EmailInv, EmailTypeOK, AcceptedKept, LegacyNone, Go, emailStore, local, history, told
  <2> QED
    BY <1>t, <2>1, <2>2, <2>3, <2>4, <2>5, <2>6, <2>7 DEF EmailInv
<1>6. CASE \E c \in Client, out \in Outcomes, m \in mail : LegacyFound(c, m, out)
  <2>1. ClaimOK'
    BY <1>6, <1>t, Placeholders DEF EmailInv, EmailTypeOK, ClaimOK, Claiming, LegacyFound, Outcomes, Reply, Refuse,
       Finish, Fingerprint, emailStore, local, history, told
  <2>2. HolderOK'
    BY <1>6, <1>t, Placeholders DEF EmailInv, EmailTypeOK, HolderOK, EmailRecords, NoRecord, NoRequest, EmailRequests, EmailMessages,
       ClaimOK, Claiming, RecordOK, Captured, LegacyFound, Outcomes, Reply, Refuse, Finish, Fingerprint, emailStore,
       local, history, told
  <2>3. RecordOK'
    BY <1>6, <1>t, Placeholders DEF EmailInv, EmailTypeOK, RecordOK, Captured, EmailRecords, NoRecord, NoRequest, EmailRequests,
       EmailMessages, LegacyFound, Outcomes, Reply, Refuse, Finish, Fingerprint, emailStore, local, history, told
  <2>4. AnswerOK'
    <3>1. PICK c \in Client, out \in Outcomes, m \in mail : LegacyFound(c, m, out)
      BY <1>6
    <3>2. point[c] = "legacy" /\ EmailTypeOK
      BY <3>1, <1>t DEF LegacyFound
    <3>3. req[c].rid \in Rid /\ record[req[c].rid] = NoRecord
      BY <3>2 DEF EmailInv, HolderOK
    <3>4. \A r \in Rid : record[r] # NoRecord => record'[r] = record[r]
      BY <3>1, <3>2, <3>3 DEF LegacyFound, emailStore, EmailTypeOK
    <3>5. \/ answers' = answers
          \/ /\ Reply(c, "accepted", m.op)
             /\ record'[req[c].rid] = [hash |-> Fingerprint(req[c]), sent |-> req[c].sent,
                                       status |-> "accepted", op |-> m.op]
      BY <3>1, <3>2, <3>3, Reported DEF LegacyFound, Refuse, told, EmailTypeOK
    <3> QED
      BY <3>3, <3>4, <3>5, AnswerStep
  <2>5. AtMostOnce'
    BY <1>6, <1>t, Placeholders DEF EmailInv, EmailTypeOK, AtMostOnce, NoRecord, LegacyFound, Outcomes, Reply, Refuse,
       Finish, Fingerprint, emailStore, local, history, told
  <2>6. OperationUnique'
    BY <1>6, <1>t, Placeholders DEF EmailInv, EmailTypeOK, OperationUnique, LegacyFound, Outcomes, Reply, Refuse,
       Finish, Fingerprint, emailStore, local, history, told
  <2>7. AcceptedKept'
    <3>1. PICK c \in Client, out \in Outcomes, m \in mail : LegacyFound(c, m, out)
      BY <1>6
    <3>2. Captured(m.op) /\ used' = used /\ old' = old /\ reserved \subseteq reserved'
      BY <3>1 DEF EmailInv, RecordOK, LegacyFound, history, emailStore
    <3>3. \A o \in accepted' : o \in accepted \/ (o = m.op /\ o \in reserved')
      BY <3>1, Reported DEF LegacyFound, Reply, Refuse, told
    <3> QED
      BY <3>2, <3>3 DEF EmailInv, AcceptedKept, Captured
  <2> QED
    BY <1>t, <2>1, <2>2, <2>3, <2>4, <2>5, <2>6, <2>7 DEF EmailInv
<1>7. CASE \E c \in Client, out \in Outcomes : Parse(c, out)
  <2>1. ClaimOK'
    BY <1>7, <1>t, Placeholders DEF EmailInv, EmailTypeOK, ClaimOK, Claiming, Parse, RejectedRequest, Go, Outcomes, Reply,
       Refuse, Finish, Fingerprint, emailStore, local, history, told
  <2>2. HolderOK'
    BY <1>7, <1>t, Placeholders DEF EmailInv, EmailTypeOK, HolderOK, EmailRecords, NoRecord, NoRequest, EmailRequests, EmailMessages,
       ClaimOK, Claiming, RecordOK, Captured, Parse, RejectedRequest, Go, Outcomes, Reply, Refuse, Finish, Fingerprint,
       emailStore, local, history, told
  <2>3. RecordOK'
    BY <1>7, <1>t, Placeholders DEF EmailInv, EmailTypeOK, RecordOK, Captured, EmailRecords, NoRecord, NoRequest, EmailRequests,
       EmailMessages, Parse, RejectedRequest, Go, Outcomes, Reply, Refuse, Finish, Fingerprint, emailStore, local, history, told
  <2>4. AnswerOK'
    <3>1. PICK c \in Client, out \in Outcomes : Parse(c, out)
      BY <1>7
    <3>2. CASE RejectedRequest(c, out)
      BY <3>1, <3>2, RejectedStep DEF Parse
    <3>3. CASE ~RejectedRequest(c, out)
      <4>1. answers' = answers /\ record' = record
        BY <3>1, <3>3 DEF Parse, Refuse, told, emailStore
      <4> QED
        BY <4>1 DEF EmailInv, AnswerOK
    <3> QED
      BY <3>2, <3>3
  <2>5. AtMostOnce'
    BY <1>7, <1>t, Placeholders DEF EmailInv, EmailTypeOK, AtMostOnce, NoRecord, HolderOK, RecordOK, Captured, EmailRecords,
       NoRequest, EmailRequests, EmailMessages, Parse, RejectedRequest, Go, Outcomes, Reply, Refuse, Finish, Fingerprint, emailStore,
       local, history, told
  <2>6. OperationUnique'
    BY <1>7, <1>t, Placeholders DEF EmailInv, EmailTypeOK, OperationUnique, Parse, RejectedRequest, Go, Outcomes, Reply,
       Refuse, Finish, Fingerprint, emailStore, local, history, told
  <2>7. AcceptedKept'
    BY <1>7, <1>t, Placeholders DEF EmailInv, EmailTypeOK, AcceptedKept, Parse, RejectedRequest, Go, Outcomes, Reply, Refuse,
       Finish, Fingerprint, emailStore, local, history, told
  <2> QED
    BY <1>t, <2>1, <2>2, <2>3, <2>4, <2>5, <2>6, <2>7 DEF EmailInv
<1>8. CASE \E c \in Client, out \in Outcomes : Commit(c, out)
  <2>1. ClaimOK'
    BY <1>8, <1>t, Placeholders DEF EmailInv, EmailTypeOK, ClaimOK, Claiming, Commit, Outcomes, Reply, Refuse, Finish,
       Fingerprint, emailStore, local, history, told
  <2>2. HolderOK'
    BY <1>8, <1>t, Placeholders DEF EmailInv, EmailTypeOK, HolderOK, EmailRecords, NoRecord, NoRequest, EmailRequests, EmailMessages,
       ClaimOK, Claiming, RecordOK, Captured, Commit, Outcomes, Reply, Refuse, Finish, Fingerprint, emailStore, local,
       history, told
  <2>3. RecordOK'
    BY <1>8, <1>t, Placeholders DEF EmailInv, EmailTypeOK, RecordOK, Captured, EmailRecords, NoRecord, NoRequest, EmailRequests,
       EmailMessages, HolderOK, Commit, Outcomes, Reply, Refuse, Finish, Fingerprint, emailStore, local, history, told
  <2>4. AnswerOK'
    <3>1. PICK c \in Client, out \in Outcomes : Commit(c, out)
      BY <1>8
    <3>2. point[c] = "commit" /\ EmailTypeOK
      BY <3>1, <1>t DEF Commit
    <3>3. req[c].rid \in Rid \cup {NoRid} /\ (req[c].rid \in Rid => record[req[c].rid] = NoRecord)
      BY <3>2, BusyRequest DEF EmailInv, HolderOK
    <3>4. \A r \in Rid : record[r] # NoRecord => record'[r] = record[r]
      BY <3>1, <3>2, <3>3 DEF Commit, emailStore, EmailTypeOK
    <3>5. \/ answers' = answers
          \/ /\ Reply(c, "accepted", opid[c])
             /\ req[c].rid \in Rid =>
                  record'[req[c].rid] = [hash |-> Fingerprint(req[c]), sent |-> req[c].sent,
                                         status |-> "accepted", op |-> opid[c]]
      BY <3>1, <3>2, <3>3, Reported DEF Commit, Refuse, told, EmailTypeOK
    <3> QED
      BY <3>3, <3>4, <3>5, AnswerStep
  <2>5. AtMostOnce'
    BY <1>8, <1>t, Placeholders, SMTT(40) DEF EmailInv, EmailTypeOK, AtMostOnce, NoRecord, HolderOK, RecordOK, Captured,
       EmailRecords, NoRequest, EmailRequests, EmailMessages, Commit, Outcomes, Reply, Refuse, Finish, Fingerprint, emailStore, local,
       history, told
  <2>6. OperationUnique'
    BY <1>8, <1>t, Placeholders DEF EmailInv, EmailTypeOK, OperationUnique, HolderOK, RecordOK, Captured, EmailRecords,
       NoRecord, NoRequest, EmailRequests, EmailMessages, Commit, Outcomes, Reply, Refuse, Finish, Fingerprint, emailStore,
       local, history, told
  <2>7. AcceptedKept'
    <3>1. PICK c \in Client, out \in Outcomes : Commit(c, out)
      BY <1>8
    <3>2. opid[c] \in Op /\ opid[c] \notin reserved /\ used[opid[c]] = 0
      BY <3>1, <1>t DEF EmailInv, HolderOK, RecordOK, Commit, EmailTypeOK
    <3>3. old' = old /\ reserved \subseteq reserved'
      BY <3>1 DEF Commit, emailStore
    <3>4. \A o \in Op : o # opid[c] => used'[o] = used[o]
      BY <3>1, <1>t DEF Commit, EmailTypeOK
    <3>5. opid[c] \in accepted' => opid[c] \in accepted \/ (opid[c] \in reserved' /\ used'[opid[c]] = 1)
      BY <3>1, <3>2, <1>t, Reported DEF Commit, Reply, Refuse, told, EmailTypeOK
    <3>6. \A o \in accepted' : o \in accepted \/ o = opid[c]
      BY <3>1 DEF Commit, Reply, Refuse, told
    <3>7. accepted \subseteq reserved
      BY DEF EmailInv, AcceptedKept
    <3> QED
      BY <3>2, <3>3, <3>4, <3>5, <3>6, <3>7, <1>t DEF EmailInv, AcceptedKept, EmailTypeOK
  <2> QED
    BY <1>t, <2>1, <2>2, <2>3, <2>4, <2>5, <2>6, <2>7 DEF EmailInv
<1>9. CASE \E c \in Client, out \in Outcomes, o \in Op : Reserve(c, o, out)
  <2>1. ClaimOK'
    BY <1>9, <1>t, Placeholders DEF EmailInv, EmailTypeOK, ClaimOK, Claiming, Reserve, Exists, RejectedRequest, Outcomes, Reply,
       Refuse, Finish, Fingerprint, emailStore, local, history, told
  <2>2. HolderOK'
    BY <1>9, <1>t, Placeholders DEF EmailInv, EmailTypeOK, HolderOK, EmailRecords, NoRecord, NoRequest, EmailRequests, EmailMessages,
       ClaimOK, Claiming, RecordOK, Captured, Reserve, Exists, RejectedRequest, Outcomes, Reply, Refuse, Finish,
       Fingerprint, emailStore, local, history, told
  <2>3. RecordOK'
    BY <1>9, <1>t, Placeholders DEF EmailInv, EmailTypeOK, RecordOK, Captured, EmailRecords, NoRecord, NoRequest, EmailRequests,
       EmailMessages, Reserve, Exists, RejectedRequest, Outcomes, Reply, Refuse, Finish, Fingerprint, emailStore, local,
       history, told
  <2>4. AnswerOK'
    <3>1. PICK c \in Client, out \in Outcomes, o \in Op : Reserve(c, o, out)
      BY <1>9
    <3>2. CASE RejectedRequest(c, out)
      BY <3>1, <3>2, RejectedStep DEF Reserve
    <3>3. CASE ~RejectedRequest(c, out)
      <4>1. answers' = answers /\ record' = record
        BY <3>1, <3>3 DEF Reserve, told, emailStore
      <4> QED
        BY <4>1 DEF EmailInv, AnswerOK
    <3> QED
      BY <3>2, <3>3
  <2>5. AtMostOnce'
    BY <1>9, <1>t, Placeholders DEF EmailInv, EmailTypeOK, AtMostOnce, NoRecord, HolderOK, RecordOK, Captured, EmailRecords,
       NoRequest, EmailRequests, EmailMessages, Reserve, Exists, RejectedRequest, Outcomes, Reply, Refuse, Finish, Fingerprint,
       emailStore, local, history, told
  <2>6. OperationUnique'
    BY <1>9, <1>t, Placeholders DEF EmailInv, EmailTypeOK, OperationUnique, Reserve, Exists, RejectedRequest, Outcomes, Reply,
       Refuse, Finish, Fingerprint, emailStore, local, history, told
  <2>7. AcceptedKept'
    BY <1>9, <1>t, Placeholders DEF EmailInv, EmailTypeOK, AcceptedKept, Reserve, Exists, RejectedRequest, Outcomes, Reply,
       Refuse, Finish, Fingerprint, emailStore, local, history, told
  <2> QED
    BY <1>t, <2>1, <2>2, <2>3, <2>4, <2>5, <2>6, <2>7 DEF EmailInv
<1>10. CASE \E m \in mail : DeleteMessage(m)
  <2>1. ClaimOK'
    BY <1>10, <1>t, Placeholders DEF EmailInv, EmailTypeOK, ClaimOK, Claiming, DeleteMessage, emailStore, local, history, told
  <2>2. HolderOK'
    BY <1>10, <1>t, Placeholders DEF EmailInv, EmailTypeOK, HolderOK, EmailRecords, NoRecord, NoRequest, EmailRequests, EmailMessages,
       DeleteMessage, emailStore, local, history, told
  <2>3. RecordOK'
    BY <1>10, <1>t, Placeholders DEF EmailInv, EmailTypeOK, RecordOK, Captured, EmailRecords, NoRecord, NoRequest, EmailRequests,
       EmailMessages, DeleteMessage, emailStore, local, history, told
  <2>4. AnswerOK'
    BY <1>10, <1>t, Placeholders DEF EmailInv, EmailTypeOK, AnswerOK, EmailAnswers, EmailRecords, NoRecord, NoRequest, EmailRequests,
       EmailMessages, DeleteMessage, emailStore, local, history, told
  <2>5. AtMostOnce'
    BY <1>10, <1>t, Placeholders DEF EmailInv, EmailTypeOK, AtMostOnce, NoRecord, DeleteMessage, emailStore, local, history,
       told
  <2>6. OperationUnique'
    BY <1>10, <1>t, Placeholders DEF EmailInv, EmailTypeOK, OperationUnique, DeleteMessage, emailStore, local, history, told
  <2>7. AcceptedKept'
    BY <1>10, <1>t, Placeholders DEF EmailInv, EmailTypeOK, AcceptedKept, DeleteMessage, emailStore, local, history, told
  <2> QED
    BY <1>t, <2>1, <2>2, <2>3, <2>4, <2>5, <2>6, <2>7 DEF EmailInv
<1>11. CASE \E c \in Client : ReadFails(c)
  <2>1. ClaimOK'
    BY <1>11, <1>t, Placeholders DEF EmailInv, EmailTypeOK, ClaimOK, Claiming, ReadFails, Refuse, Finish, emailStore, local,
       history, told
  <2>2. HolderOK'
    BY <1>11, <1>t, Placeholders DEF EmailInv, EmailTypeOK, HolderOK, EmailRecords, NoRecord, NoRequest, EmailRequests, EmailMessages,
       ReadFails, Refuse, Finish, emailStore, local, history, told
  <2>3. RecordOK'
    BY <1>11, <1>t, Placeholders DEF EmailInv, EmailTypeOK, RecordOK, Captured, EmailRecords, NoRecord, NoRequest, EmailRequests,
       EmailMessages, ReadFails, Refuse, Finish, emailStore, local, history, told
  <2>4. AnswerOK'
    BY <1>11, <1>t, Placeholders DEF EmailInv, EmailTypeOK, AnswerOK, EmailAnswers, EmailRecords, NoRecord, NoRequest, EmailRequests,
       EmailMessages, ReadFails, Refuse, Finish, emailStore, local, history, told
  <2>5. AtMostOnce'
    BY <1>11, <1>t, Placeholders DEF EmailInv, EmailTypeOK, AtMostOnce, NoRecord, ReadFails, Refuse, Finish, emailStore,
       local, history, told
  <2>6. OperationUnique'
    BY <1>11, <1>t, Placeholders DEF EmailInv, EmailTypeOK, OperationUnique, ReadFails, Refuse, Finish, emailStore, local,
       history, told
  <2>7. AcceptedKept'
    BY <1>11, <1>t, Placeholders DEF EmailInv, EmailTypeOK, AcceptedKept, ReadFails, Refuse, Finish, emailStore, local,
       history, told
  <2> QED
    BY <1>t, <2>1, <2>2, <2>3, <2>4, <2>5, <2>6, <2>7 DEF EmailInv
<1>12. CASE EmailCrash
  <2>1. ClaimOK'
    BY <1>12, <1>t, Placeholders DEF EmailInv, EmailTypeOK, ClaimOK, Claiming, EmailCrash, emailStore, local, history, told
  <2>2. HolderOK'
    BY <1>12, <1>t, Placeholders DEF EmailInv, EmailTypeOK, HolderOK, EmailRecords, NoRecord, NoRequest, EmailRequests, EmailMessages,
       EmailCrash, emailStore, local, history, told
  <2>3. RecordOK'
    BY <1>12, <1>t, Placeholders DEF EmailInv, EmailTypeOK, RecordOK, Captured, EmailRecords, NoRecord, NoRequest, EmailRequests,
       EmailMessages, EmailCrash, emailStore, local, history, told
  <2>4. AnswerOK'
    BY <1>12, <1>t, Placeholders DEF EmailInv, EmailTypeOK, AnswerOK, EmailAnswers, EmailRecords, NoRecord, NoRequest, EmailRequests,
       EmailMessages, EmailCrash, emailStore, local, history, told
  <2>5. AtMostOnce'
    BY <1>12, <1>t, Placeholders DEF EmailInv, EmailTypeOK, AtMostOnce, NoRecord, EmailCrash, emailStore, local, history, told
  <2>6. OperationUnique'
    BY <1>12, <1>t, Placeholders DEF EmailInv, EmailTypeOK, OperationUnique, EmailCrash, emailStore, local, history, told
  <2>7. AcceptedKept'
    BY <1>12, <1>t, Placeholders DEF EmailInv, EmailTypeOK, AcceptedKept, EmailCrash, emailStore, local, history, told
  <2> QED
    BY <1>t, <2>1, <2>2, <2>3, <2>4, <2>5, <2>6, <2>7 DEF EmailInv
<1> QED
  BY <1>1, <1>2, <1>3, <1>4, <1>5, <1>6, <1>7, <1>8, <1>9, <1>10, <1>11, <1>12 DEF EmailNext

-----------------------------------------------------------------------------
\* The inductive invariant: the claim lock covers what its holder has found out,
\* and every record stands for a captured operation.
THEOREM EmailInvariance == EmailSpec => []EmailInv
<1>1. EmailInit => EmailInv
  BY EmailInitInv
<1>2. EmailInv /\ [EmailNext]_emailVars => EmailInv'
  BY EmailNextInv
<1> QED
  BY <1>1, <1>2, PTL DEF EmailSpec

\* A repeatable send captures at most one message, however its requests,
\* repeats, lost answers, crashes and deletions interleave.
THEOREM CapturedOnce == EmailSpec => []AtMostOnce
<1>1. EmailInv => AtMostOnce
  BY DEF EmailInv
<1> QED
  BY <1>1, EmailInvariance, PTL

\* All answers to one repeatability request id are equal: replay_response
\* repeats the stored record, and a record is written once.
THEOREM RepeatsAgree == EmailSpec => []SameAnswer
<1>1. EmailInv => SameAnswer
  <2> SUFFICES ASSUME EmailInv, NEW a \in answers, NEW b \in answers, a.rid = b.rid PROVE a = b
    BY DEF SameAnswer
  <2>1. a \in EmailAnswers /\ b \in EmailAnswers
    BY DEF EmailInv, EmailTypeOK
  <2>2. /\ record[a.rid] = [hash |-> a.hash, sent |-> a.sent, status |-> a.status, op |-> a.op]
        /\ record[a.rid] = [hash |-> b.hash, sent |-> b.sent, status |-> b.status, op |-> b.op]
    BY DEF EmailInv, AnswerOK
  <2>3. a.hash = b.hash /\ a.sent = b.sent /\ a.status = b.status /\ a.op = b.op
    BY <2>2
  <2> QED
    BY <2>1, <2>3 DEF EmailAnswers
<1> QED
  BY <1>1, EmailInvariance, PTL

\* No two new captures share an operation id, even after one is deleted.
THEOREM OperationsUnique == EmailSpec => []OperationUnique
<1>1. EmailInv => OperationUnique
  BY DEF EmailInv
<1> QED
  BY <1>1, EmailInvariance, PTL

\* An operation reported as accepted was captured and stays reserved.
THEOREM AcceptedStays == EmailSpec => []AcceptedKept
<1>1. EmailInv => AcceptedKept
  BY DEF EmailInv
<1> QED
  BY <1>1, EmailInvariance, PTL
=============================================================================
