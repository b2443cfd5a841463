----------------------------- MODULE Downloads -----------------------------
(***************************************************************************)
(* A client that downloads one object in ranges, pinning the later         *)
(* requests to what the first answer named, or asks whether its cached     *)
(* copy is still current.  The XML door of GCS ignores conditions; there   *)
(* the client compares the generation that each answer names.              *)
(*                                                                         *)
(* Every door reads twice: the metadata, against which the conditions and  *)
(* the range are checked, and then metadata and bytes together under the   *)
(* object's lock, after which the conditions are checked again.  The       *)
(* operation gate keeps the doors' own writes out between the two reads;   *)
(* the MCP tools that write without the gate (multipart completion,        *)
(* deletion) come in between.                                              *)
(*                                                                         *)
(* The ETag of an object is a digest of its content: here, the content.    *)
(* Stamps count half seconds: HTTP dates name whole seconds.               *)
(***************************************************************************)
EXTENDS Listing

CONSTANTS Target,   \* the key that is downloaded
          Scenes    \* [versions, uploads, client]: what the bucket holds when its one client begins

VARIABLE get        \* the download or the revalidation of one client

getVars == <<listVars, get>>

\* What a client is: one listing, one download or one revalidation.
Clients ==
    [kind : {"list"}, by : {"key", "folder", "group", "search", "version", "upload", "ofKey", "recent"},
     door : {"s3", "gcs", "gcsXml", "admin", "search", "uploads", "azure", "oci", "versions", "offset"},
     parent : {Root} \cup Folders \cup Keys]
    \cup [kind : {"download"}, door : {"s3", "azure", "gcs", "gcsXml", "oci"}, pinning : BOOLEAN]
    \cup [kind : {"revalidate"}, door : {"s3", "azure", "gcs", "oci"}, headers : {"etag", "date", "both"}]

\* A bucket that a scene begins with: one version of a key for a stamp.
ASSUME SceneAssumption ==
    /\ Target \in Keys
    /\ \A s \in Scenes :
          /\ s.client \in Clients
          /\ s.client.kind = "list" /\ s.client.by # "ofKey" => s.client.parent \in {Root} \cup Folders
          /\ IsFiniteSet(s.versions) /\ IsFiniteSet(s.uploads)
          /\ s.versions \subseteq [key : Keys, stamp : 0 .. FirstStamp - 1, live : BOOLEAN, body : Bodies \cup {<<>>}]
          /\ \A v, w \in s.versions : v.key = w.key /\ v.stamp = w.stamp => v = w
          /\ s.uploads \subseteq Keys \X (0 .. FirstStamp - 1)

NoGet == [phase |-> "none"]
Content(v) == v.body
ETag(v) == v.body
Generation(v) == v.stamp
Second(stamp) == stamp \div 2

-----------------------------------------------------------------------------
(* Conditions of a download: pinned to the version of the first answer. *)

Unpinned == [pinned |-> FALSE]
PinnedTo(v) == [pinned |-> TRUE, version |-> v]

S3Holds(pin, v) == pin.pinned => ETag(v) = ETag(pin.version)
AzureHolds(pin, v) == pin.pinned => ETag(v) = ETag(pin.version)
OciHolds(pin, v) == pin.pinned => ETag(v) = ETag(pin.version)
GcsHolds(pin, v) == pin.pinned => Generation(v) = Generation(pin.version)

Holds(g, v) ==
    CASE g.door = "s3"    -> S3Holds(g.pin, v)
      [] g.door = "azure" -> AzureHolds(g.pin, v)
      [] g.door = "oci"   -> OciHolds(g.pin, v)
      [] g.door = "gcs"   -> GcsHolds(g.pin, v)
      [] g.door = "gcsXml" -> TRUE

\* What a client of the XML door, whose conditions nobody checks, accepts.
Accepted(g, v) == g.door = "gcsXml" => GcsHolds(g.pin, v)

\* Bytes that a range selects of an object of this size: none if it starts behind the end.
Selected(size, start, n) == start + 1 .. (IF start + n <= size THEN start + n ELSE size)
Taken(v, start, n) == SubSeq(Content(v), start + 1, start + Cardinality(Selected(Len(Content(v)), start, n)))
Satisfiable(v, start) == start < Len(Content(v))

-----------------------------------------------------------------------------
(* The steps of one request *)

Ended(phase) == get' = [get EXCEPT !.phase = phase]

\* Metadata is read; a condition that fails, a missing object or a range behind the end ends it.
Admit ==
    /\ get.phase = "ready"
    /\ \E n \in PageSizes :
          LET start == Len(get.have)
              current == CurrentOf(bucket, Target)
          IN IF \E v \in current : Holds(get, v) /\ Satisfiable(v, start)
             THEN get' = [get EXCEPT !.phase = "admitted", !.asked = n]
             ELSE IF \E v \in current : Holds(get, v) /\ start = 0
             THEN \E v \in current : get' = [get EXCEPT !.phase = "done", !.pin = PinnedTo(v)]
             ELSE Ended("failed")
    /\ UNCHANGED listVars

\* Metadata and bytes are read together and the conditions are checked again on them.
Fetched(v) ==
    LET have == get.have \o Taken(v, Len(get.have), get.asked)
    IN IF ~Accepted(get, v)
       THEN Ended("failed")
       ELSE get' = [get EXCEPT !.have = have,
                               !.pin = IF get.pinning /\ ~@.pinned THEN PinnedTo(v) ELSE @,
                               !.phase = IF Len(have) = Len(Content(v)) THEN "done" ELSE "ready"]

\* Not the code: the conditions are not checked again on what is read.
ReadableUnchecked(v) == Satisfiable(v, Len(get.have))

Readable(v) == Satisfiable(v, Len(get.have)) /\ Holds(get, v)

Fetch ==
    /\ get.phase = "admitted"
    /\ LET current == CurrentOf(bucket, Target)
       IN IF \E v \in current : Readable(v)
          THEN \E v \in current : Fetched(v)
          ELSE Ended("failed")
    /\ UNCHANGED listVars

-----------------------------------------------------------------------------
(* Revalidation of a cached copy *)

\* If-None-Match answers first; If-Modified-Since is asked all the same when the ETag differs.
S3NotModified(headers, copy, v) ==
    \/ headers # "date" /\ ETag(v) = ETag(copy)
    \/ headers # "etag" /\ v.stamp <= 2 * Second(copy.stamp)

\* Not the code: either condition is enough.
AzureNotModifiedEither(headers, copy, v) ==
    \/ headers # "date" /\ ETag(v) = ETag(copy)
    \/ headers # "etag" /\ Second(v.stamp) <= Second(copy.stamp)

\* Not modified only if every condition that is given says so; dates by whole seconds.
AzureNotModified(headers, copy, v) ==
    /\ headers # "date" => ETag(v) = ETag(copy)
    /\ headers # "etag" => Second(v.stamp) <= Second(copy.stamp)

\* Only the ETag is considered.
OciNotModified(headers, copy, v) == headers # "date" /\ ETag(v) = ETag(copy)
GcsNotModified(headers, copy, v) == headers # "date" /\ Generation(v) = Generation(copy)

NotModified(g, v) ==
    CASE g.door = "s3"    -> S3NotModified(g.headers, g.copy, v)
      [] g.door = "azure" -> AzureNotModified(g.headers, g.copy, v)
      [] g.door = "oci"   -> OciNotModified(g.headers, g.copy, v)
      [] g.door = "gcs"   -> GcsNotModified(g.headers, g.copy, v)

Revalidate ==
    /\ get.phase = "cached"
    /\ LET current == CurrentOf(bucket, Target)
       IN IF current = {} THEN Ended("failed")
          ELSE \E v \in current :
                  get' = [get EXCEPT !.phase = IF NotModified(get, v) THEN "unchanged" ELSE "replaced",
                                     !.answer = v]
    /\ UNCHANGED listVars

-----------------------------------------------------------------------------
(* The handlers of the doors: GET in two reads, HEAD (or a conditional GET) in one. *)

Asked(door) == get # NoGet /\ get.door = door

S3Get == Asked("s3") /\ (Admit \/ Fetch)
S3Head == Asked("s3") /\ Revalidate
AzureGet == Asked("azure") /\ (Admit \/ Fetch)
AzureHead == Asked("azure") /\ Revalidate
GcsGet == Asked("gcs") /\ (Admit \/ Fetch)
GcsXmlGet == Asked("gcsXml") /\ (Admit \/ Fetch)
GcsHead == Asked("gcs") /\ Revalidate
OciGet == Asked("oci") /\ (Admit \/ Fetch)
OciHead == Asked("oci") /\ Revalidate

-----------------------------------------------------------------------------
(* Clients *)

\* A listing, a download or a revalidation that has just begun.
Listed(c, b) == c.kind = "list" /\ list = Begun(c, b) /\ get = NoGet

Downloading(c) ==
    /\ c.kind = "download"
    /\ list = NoListing
    /\ get = [phase |-> "ready", door |-> c.door, pinning |-> c.pinning, pin |-> Unpinned,
              have |-> <<>>, asked |-> 0]

Cached(c, b) ==
    /\ c.kind = "revalidate"
    /\ list = NoListing
    /\ \E v \in CurrentOf(b, Target) :
          get = [phase |-> "cached", door |-> c.door, headers |-> c.headers, copy |-> v,
                 answer |-> v, rewound |-> FALSE]

ReadsInit ==
    /\ clock = FirstStamp
    /\ \E s \in Scenes :
          /\ bucket = Rebuilt(s.versions, s.uploads)
          /\ Listed(s.client, Rebuilt(s.versions, s.uploads)) \/ Downloading(s.client)
             \/ Cached(s.client, Rebuilt(s.versions, s.uploads))

\* A write of a door waits for the gate, so it never falls between the two reads.
GateFree == get.phase # "admitted"

\* A version of the target that is removed may make an older one current again.
Rewound == get' = IF get.phase = "cached" THEN [get EXCEPT !.rewound = TRUE] ELSE get

\* The writes that the client of the scene can notice.
NoticesUploads == list # NoListing /\ list.by \in {"upload", "recent"}
Noticed == IF NoticesUploads THEN {} ELSE IF list = NoListing THEN {Target} ELSE Keys
NoticedBodies == IF list = NoListing THEN Bodies ELSE {CHOOSE body \in Bodies : TRUE}

ReadsNext ==
    \/ ListPage /\ UNCHANGED get
    \/ S3Get \/ AzureGet \/ GcsGet \/ GcsXmlGet \/ OciGet
    \/ S3Head \/ AzureHead \/ GcsHead \/ OciHead
    \/ GateFree /\ UNCHANGED get /\ \E k \in Noticed, body \in NoticedBodies : PutObject(k, body)
    \/ GateFree /\ UNCHANGED get /\ \E k \in Noticed : DeleteObject(k)
    \/ GateFree /\ Rewound /\ \E k \in Noticed : \E v \in VersionsOf(bucket, k) : DeleteVersion(v)
    \/ NoticesUploads /\ UNCHANGED get /\ \E k \in Keys : CreateUpload(k)
    \/ NoticesUploads /\ UNCHANGED get /\ \E u \in bucket.uploads : EndUpload(u)
    \* MCP: multipart completion and deletion without the gate, between the two reads
    \/ ~GateFree /\ UNCHANGED get /\ \E k \in Noticed, body \in NoticedBodies : PutObject(k, body)
    \/ ~GateFree /\ UNCHANGED get /\ \E k \in Noticed : DeleteObject(k)

ReadsSpec == ReadsInit /\ [][ReadsNext]_getVars /\ WF_getVars(ListPage /\ UNCHANGED get)

-----------------------------------------------------------------------------
(* Properties *)

\* A download whose later requests are pinned to the ETag (or generation) of
\* the first answer ends with exactly the content that was named, whatever is
\* written between the requests and between the two reads of one request; at
\* the XML door of GCS, which pins nothing, because every answer names the
\* generation that its own bytes are of.
DownloadWhole ==
    get.phase = "done" /\ get.pin.pinned => get.have = Content(get.pin.version)

\* "Not modified" is only said of a copy that is the current content: always
\* for an ETag alone, and for a date or both unless a version was removed, and
\* an older one so became current, since the copy was taken; Azure's date alone
\* is exact to the second only.
CacheCurrent ==
    get.phase = "unchanged" =>
        \/ Content(get.copy) = Content(get.answer)
        \/ get.headers # "etag" /\ get.rewound
        \/ get.headers = "date" /\ get.door = "azure"
=============================================================================
