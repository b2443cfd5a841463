------------------------------ MODULE Checksums ------------------------------
(***************************************************************************)
(* Digests that an upload declares, and the digests that are given out for *)
(* an object: S3 PUTs and multipart uploads, GCS XML and JSON uploads, OCI *)
(* PUTs and parts, and Azure, whose blobs the other doors may replace.     *)
(* One key and one multipart upload are modelled.  Each request owns the   *)
(* operation gate and is one step, refused or done.                        *)
(*                                                                         *)
(* A body is a sequence.  A digest is the pair of its algorithm and its    *)
(* body; a header value is a digest, or Garbled when it is not Base64 of   *)
(* any.  A header is the sequence of its values, <<>> when it is absent.   *)
(* Digests are stored in the object's provider metadata.                   *)
(***************************************************************************)
EXTENDS Naturals, Sequences, FiniteSets, FiniteSetsExt, SequencesExt

CONSTANTS
    Bodies,             \* the bodies of uploads
    Algorithms,         \* the algorithms of S3, CRC32C and SHA256 among them
    SumRequests,        \* requests, see the doors below
    MaxObject           \* bound on the length of an object

Header == Seq([algorithm : STRING, of : Seq(Nat)])

Uploads == [door : {"s3", "gcs", "oci", "azure"}, op : STRING, body : Seq(Nat), sums : [Algorithms -> Header],
            selector : Seq(STRING), md5 : Header, extra : SUBSET STRING, hash : Header, part : Nat,
            manifest : Seq([part : Nat, etag : Seq(Nat), sum : Header]), size : Seq(Nat), condition : STRING]

\* A request has the headers that its operation reads: the others are absent, and a header that only its
\* first value is read of has one.
Sensible(q) ==
    LET NoSums == \A a \in Algorithms : q.sums[a] = <<>>
        Plain == q.hash = <<>> /\ q.size = <<>>
    IN  CASE q.op \in {"put", "part"} -> Plain /\ q.door = "s3"
          [] q.op \in {"initiate", "copy", "append"} -> TRUE
          [] q.op = "complete" -> q.md5 = <<>> /\ q.hash = <<>> /\ q.door = "s3" /\ Len(q.size) <= 1
                                  /\ \A e \in ToSet(q.manifest) : Len(e.sum) <= 1
          [] q.op = "xml" -> q.size = <<>> /\ NoSums /\ q.door = "gcs"
          [] q.op = "json" -> q.size = <<>> /\ q.md5 = <<>> /\ NoSums /\ q.door = "gcs"
          [] q.op \in {"ociPut", "ociPart"} -> /\ Plain /\ Len(q.md5) <= 1 /\ Len(q.selector) <= 1 /\ q.door = "oci"
                                               /\ \A a \in Algorithms : Len(q.sums[a]) <= 1
          [] q.op = "azurePut" -> Plain /\ Len(q.md5) <= 1 /\ NoSums /\ q.door = "azure"
          [] OTHER -> FALSE

ASSUME ChecksumAssumption ==
    /\ MaxObject \in Nat /\ (\A body \in Bodies : Len(body) <= MaxObject) /\ {"CRC32C", "SHA256"} \subseteq Algorithms
    /\ \A q \in SumRequests : q \in Uploads /\ Sensible(q)

VARIABLES
    blob,       \* [bytes, kind, s3, gcs, oci, by]: the digests of each door, and (history) who wrote it
    upload,     \* the multipart upload: [open, enabled, parts]
    unmet       \* history: the claims of the last request that do not hold of what it has stored

sumVars == <<blob, upload, unmet>>

NoBlob == [bytes |-> <<>>, kind |-> "none", s3 |-> {}, gcs |-> {}, oci |-> {}, by |-> "none"]
NewBlob(body, door) == [NoBlob EXCEPT !.bytes = body, !.kind = "block", !.by = door]

NoUpload == [open |-> FALSE, enabled |-> FALSE, parts |-> <<>>]

Garbled == [algorithm |-> "none", of |-> <<>>]
Digest(algorithm, body) == [algorithm |-> algorithm, of |-> body]

\* A value decodes as a digest of an algorithm when it has its length.
Width(algorithm) == CASE algorithm \in {"CRC32", "CRC32C"} -> 4 [] algorithm = "MD5" -> 16 [] algorithm = "SHA256" -> 32 [] OTHER -> 0
Decodes(value, algorithm) == Width(value.algorithm) = Width(algorithm)

\* The first code that is not "ok".
FirstOf(codes) ==
    LET bad == {i \in DOMAIN codes : codes[i] # "ok"} IN IF bad = {} THEN "ok" ELSE codes[Min(bad)]

Unless(code, refused) == IF refused THEN code ELSE "ok"

\* A single declared value against the bytes that have arrived.
Compared(values, algorithm, body) ==
    IF values = <<>> THEN "ok"
    ELSE IF ~Decodes(values[1], algorithm) THEN "InvalidDigest"
    ELSE IF values[1] # Digest(algorithm, body) THEN "BadDigest"
    ELSE "ok"

-----------------------------------------------------------------------------
(* S3: a request is [door, op, body, sums, selector, md5, extra, ...], where  *)
(* sums maps every algorithm to the values of its header, selector holds the  *)
(* SDK's algorithm, extra the trailer, type and algorithm headers.            *)

Supplied(q) == {a \in Algorithms : q.sums[a] # <<>>}

\* checksums::requested
Requested(q) == Supplied(q) # {} \/ q.selector # <<>> \/ q.extra # {}

ContentMd5(q) == IF Len(q.md5) > 1 THEN "InvalidDigest" ELSE Compared(q.md5, "MD5", q.body)

\* checksums::validate_put: at most one algorithm, the one the SDK has selected.
ValidatePut(q) ==
    FirstOf(<<
        Unless("NotImplemented", q.extra # {}),
        Unless("InvalidRequest", Len(q.selector) > 1 \/ \E a \in Algorithms : Len(q.sums[a]) > 1),
        Unless("NotImplemented", ToSet(q.selector) \cap Algorithms # ToSet(q.selector)),
        Unless("InvalidRequest", Cardinality(Supplied(q)) > 1 \/ (q.selector # <<>> /\ Supplied(q) = {})),
        Unless("BadDigest", q.selector # <<>> /\ q.selector[1] \notin Supplied(q)),
        Unless("InvalidDigest", \E a \in Supplied(q) : ~Decodes(q.sums[a][1], a)),
        Unless("BadDigest", \E a \in Supplied(q) : q.sums[a][1] # Digest(a, q.body))>>)

\* Not the code: the digests of the bytes that are replaced stay.
ReplaceIdentityKeeping(o, q) == [o EXCEPT !.s3 = @ \cup {Digest(a, q.body) : a \in Supplied(q)}]

\* checksums::replace_identity: S3's own digests are those of the new bytes.
ReplaceIdentity(o, q) == [o EXCEPT !.s3 = {Digest(a, q.body) : a \in Supplied(q)}]

\* put_object_body begins with the provider metadata of the object it replaces:
\* the kind of an Azure blob and the digests of the other doors stay.
PutObjectBody(q) ==
    [code |-> FirstOf(<<ValidatePut(q), ContentMd5(q)>>),
     blob |-> ReplaceIdentity([blob EXCEPT !.bytes = q.body, !.by = "s3",
                                           !.kind = IF @ = "none" THEN "block" ELSE @], q),
     upload |-> upload]

\* multipart_checksums::allowed and validate_headers: each of the headers once,
\* and no other checksum header than these.
ValidateHeaders(q) ==
    FirstOf(<<Unless("InvalidDigest", \E a \in Algorithms : Len(q.sums[a]) > 1),
              Unless("InvalidRequest", Len(q.selector) > 1)>>)
Allowed(q, algorithms, selectable, extra) ==
    Supplied(q) \subseteq algorithms /\ (q.selector # <<>> => selectable) /\ q.extra \subseteq extra

\* multipart_checksums::initiate: CRC32C of the whole object, or none.
Initiate(q) ==
    [code |-> FirstOf(<<ValidateHeaders(q), Unless("NotImplemented", Requested(q) /\
                ~(Allowed(q, {}, FALSE, {"algorithm", "type"}) /\ q.extra = {"algorithm", "type"}))>>),
     blob |-> blob,
     upload |-> [open |-> TRUE, enabled |-> Requested(q), parts |-> <<>>]]

\* record_uploaded_part: the digest of what is staged, when checksums are on.
WithPart(n, body) ==
    LET part == [bytes |-> body, crc |-> IF upload.enabled THEN {Digest("CRC32C", body)} ELSE {}]
    IN [upload EXCEPT !.parts = [i \in DOMAIN @ \cup {n} |-> IF i = n THEN part ELSE @[i]]]

\* multipart_checksums::validate_part
ValidatePart(q) ==
    FirstOf(<<
        ValidateHeaders(q),
        IF ~upload.enabled THEN Unless("NotImplemented", Requested(q))
        ELSE FirstOf(<<Unless("NotImplemented", ~Allowed(q, {"CRC32C"}, TRUE, {})),
                       Unless("InvalidRequest", q.selector # <<>> /\ q.sums["CRC32C"] = <<>>),
                       Compared(q.sums["CRC32C"], "CRC32C", q.body)>>)>>)

UploadMultipartPart(q) ==
    [code |-> FirstOf(<<Unless("NoSuchUpload", ~upload.open), ValidatePart(q), ContentMd5(q)>>),
     blob |-> blob, upload |-> WithPart(q.part, q.body)]

\* The source of a part is the object itself; not for an upload with checksums.
UploadPartCopy(q) ==
    [code |-> FirstOf(<<Unless("NotImplemented", Requested(q)), Unless("NoSuchUpload", ~upload.open),
                        Unless("NotImplemented", upload.enabled), Unless("NoSuchKey", blob = NoBlob)>>),
     blob |-> blob, upload |-> WithPart(q.part, blob.bytes)]

-----------------------------------------------------------------------------
(* Completion: q has manifest, a sequence of [part, etag, sum], the headers   *)
(* of the whole object, and condition.  An ETag is a digest of the part.      *)

\* What complete_multipart_upload_request asks of the manifest itself.
ValidateOrder(q) ==
    FirstOf(<<Unless("InvalidPartOrder", \E i \in 2 .. Len(q.manifest) : q.manifest[i].part <= q.manifest[i - 1].part),
              Unless("InvalidPart", \E e \in ToSet(q.manifest) :
                        e.part \notin DOMAIN upload.parts \/ upload.parts[e.part].bytes # e.etag)>>)

\* A digest that the manifest gives for a part is the stored one.
ValidateManifestPart(e) ==
    Unless("InvalidPart", e.sum # <<>> /\ ~(Decodes(e.sum[1], "CRC32C") /\ e.sum[1] \in upload.parts[e.part].crc))

ValidateManifest(q) == FirstOf([i \in DOMAIN q.manifest |-> ValidateManifestPart(q.manifest[i])])

Consecutive(q) == \A i \in DOMAIN q.manifest : q.manifest[i].part = i

\* multipart_checksums::completion
Completion(q) ==
    FirstOf(<<
        ValidateHeaders(q),
        Unless("NotImplemented",
               \/ ~Allowed(q, {"CRC32C"}, FALSE, {"type"})
               \/ ~upload.enabled /\ (Requested(q) \/ \E e \in ToSet(q.manifest) : e.sum # <<>>)),
        Unless("InvalidDigest", q.sums["CRC32C"] # <<>> /\ ~Decodes(q.sums["CRC32C"][1], "CRC32C")),
        Unless("InvalidPartOrder", upload.enabled /\ ~Consecutive(q)),
        IF upload.enabled THEN ValidateManifest(q) ELSE "ok">>)

Assembled(q) == FlattenSeq([i \in DOMAIN q.manifest |-> upload.parts[q.manifest[i].part].bytes])

\* complete_multipart_upload_checked: the size, the bytes as they are assembled,
\* and the condition, before the object is published.
CompleteChecked(q) ==
    FirstOf(<<Unless("InvalidPartOrder", q.manifest = <<>>),
              Unless("InvalidRequest", q.size # <<>> /\ q.size[1] # Len(Assembled(q))),
              Compared(q.sums["CRC32C"], "CRC32C", Assembled(q)),
              Unless("NoSuchKey", q.condition = "existing" /\ blob = NoBlob),
              Unless("PreconditionFailed", q.condition = "missing" /\ blob # NoBlob)>>)

CompleteMultipartUpload(q) ==
    LET code == FirstOf(<<Unless("NoSuchUpload", ~upload.open), ValidateOrder(q)>>)
        checked == IF code # "ok" THEN code ELSE FirstOf(<<Completion(q), CompleteChecked(q)>>)
    IN IF checked # "ok" THEN [code |-> checked, blob |-> blob, upload |-> upload]
       ELSE [code |-> "ok",
             blob |-> [NewBlob(Assembled(q), "s3") EXCEPT
                         !.s3 = IF upload.enabled THEN {Digest("CRC32C", Assembled(q))} ELSE {}],
             upload |-> NoUpload]

-----------------------------------------------------------------------------
(* The other doors *)

\* validate_xml_upload_checksums: q.hash lists the tokens of every X-Goog-Hash
\* value; tokens of one algorithm agree.
GoogHash(q, algorithms) ==
    LET tokens == ToSet(q.hash)
    IN FirstOf(<<
        Unless("InvalidHash", \E t \in tokens : t.algorithm \notin algorithms),
        Unless("InvalidHash", \E t, u \in tokens : t # u /\ t.algorithm = u.algorithm),
        Unless("BadDigest", \E t \in tokens : t # Digest(t.algorithm, q.body))>>)

\* A JSON upload has the header's tokens and the crc32c of its metadata.
JsonHash(q) == GoogHash(q, {"CRC32C"})

GcsBlob(q) == [NewBlob(q.body, "gcs") EXCEPT !.gcs = {Digest("CRC32C", q.body)}]

GcsXmlUpload(q) ==
    [code |-> FirstOf(<<Unless("InvalidDigest", \E v, w \in ToSet(q.md5) : ~Decodes(v, "MD5") \/ v # w),
                        GoogHash([q EXCEPT !.hash = @ \o q.md5], {"MD5", "CRC32C"})>>),
     blob |-> GcsBlob(q), upload |-> upload]

GcsJsonUpload(q) == [code |-> JsonHash(q), blob |-> GcsBlob(q), upload |-> upload]

\* put_provider_metadata: the MD5 always, one more if its algorithm is named;
\* a digest header of an algorithm that is not named is not looked at.
OciVerdict(q) ==
    FirstOf(<<Unless("UnmatchedContentMD5", q.md5 # <<>> /\ q.md5[1] # Digest("MD5", q.body)),
              Unless("InvalidParameter", q.selector # <<>> /\ q.selector[1] \notin {"CRC32C", "SHA256"})>>
            \o [i \in DOMAIN q.selector |->
                 LET values == q.sums[q.selector[i]]
                 IN Unless("UnmatchedContent", values # <<>> /\ values[1] # Digest(q.selector[i], q.body))])

OciPut(q) ==
    [code |-> OciVerdict(q),
     blob |-> [NewBlob(q.body, "oci") EXCEPT !.oci = {Digest(a, q.body) : a \in {"MD5"} \cup ToSet(q.selector)}],
     upload |-> upload]

OciUploadPart(q) ==
    [code |-> FirstOf(<<OciVerdict(q), Unless("NoSuchUpload", ~upload.open)>>),
     blob |-> blob, upload |-> WithPart(q.part, q.body)]

\* validate_transactional_checksum, of the MD5.
Transactional(q) == Unless("Md5Mismatch", q.md5 # <<>> /\ q.md5[1] # Digest("MD5", q.body))

\* An append blob is created empty, and a block blob here is not; what is
\* appended to keeps its provider metadata.
AzurePut(q) ==
    [code |-> Transactional(q),
     blob |-> [NewBlob(q.body, "azure") EXCEPT !.kind = IF q.body = <<>> THEN "append" ELSE "block"], upload |-> upload]

AzureAppend(q) ==
    [code |-> FirstOf(<<Transactional(q), Unless("BlobNotFound", blob = NoBlob), Unless("InvalidBlobType", blob.kind # "append")>>),
     blob |-> [blob EXCEPT !.bytes = @ \o q.body, !.by = "azure"], upload |-> upload]

-----------------------------------------------------------------------------
Served(q) ==
    CASE q.op = "put"      -> PutObjectBody(q)
      [] q.op = "initiate" -> Initiate(q)
      [] q.op = "part"     -> UploadMultipartPart(q)
      [] q.op = "copy"     -> UploadPartCopy(q)
      [] q.op = "complete" -> CompleteMultipartUpload(q)
      [] q.op = "xml"      -> GcsXmlUpload(q)
      [] q.op = "json"     -> GcsJsonUpload(q)
      [] q.op = "ociPut"   -> OciPut(q)
      [] q.op = "ociPart"  -> OciUploadPart(q)
      [] q.op = "azurePut" -> AzurePut(q)
      [] q.op = "append"   -> AzureAppend(q)

\* What a client claims of the bytes it has sent or named, each claim with the
\* bytes it is about: a digest, the size, and the parts of a completion.
Declared(q) ==
    ToSet(q.md5) \cup ToSet(q.hash) \cup
    UNION {ToSet(q.sums[a]) : a \in IF q.door = "oci" THEN ToSet(q.selector) ELSE Algorithms}

NamedBytes(q) ==
    FlattenSeq([i \in DOMAIN q.manifest |-> IF q.manifest[i].sum = <<>> THEN q.manifest[i].etag ELSE q.manifest[i].sum[1].of])

Unmet(q, served) ==
    LET stored == IF q.op \in {"part", "ociPart"} THEN served.upload.parts[q.part].bytes ELSE served.blob.bytes
    IN  IF q.op \in {"initiate", "copy", "append"} THEN {}
        ELSE {d \in Declared(q) : d # Digest(d.algorithm, stored)}
             \cup {n \in ToSet(q.size) : n # Len(stored)}
             \cup {b \in {NamedBytes(q)} : q.op = "complete" /\ b # stored}

Fits(served) ==
    /\ Len(served.blob.bytes) <= MaxObject
    /\ MapThenSumSet(LAMBDA n : Len(served.upload.parts[n].bytes), DOMAIN served.upload.parts) <= MaxObject

\* A request that is refused changes nothing.
UploadRequest(q) ==
    LET served == Served(q)
    IN  IF served.code = "ok"
        THEN Fits(served) /\ blob' = served.blob /\ upload' = served.upload /\ unmet' = Unmet(q, served)
        ELSE UNCHANGED <<blob, upload>> /\ unmet' = {}

ChecksumInit == blob = NoBlob /\ upload = NoUpload /\ unmet = {}

ChecksumNext == \E q \in SumRequests : UploadRequest(q)

-----------------------------------------------------------------------------
(* Properties *)

\* The digests that the door of the last write gives out for the object.
Receipts == CASE blob.by = "s3" -> blob.s3 [] blob.by = "gcs" -> blob.gcs [] blob.by = "oci" -> blob.oci [] OTHER -> {}

\* An upload that is accepted has stored bytes with every digest that it
\* declared, whole or part by part, and of the size it declared; the digests
\* that a door gives out for an object it wrote are those of its bytes, also
\* when the object replaces one with digests, when its parts came through
\* different doors, were copied or sent again; and a part's digest is kept of
\* every part of an upload that has checksums.
ChecksumsHonoured ==
    /\ unmet = {}
    /\ \A d \in Receipts : d = Digest(d.algorithm, blob.bytes)
    /\ upload.enabled => \A n \in DOMAIN upload.parts : upload.parts[n].crc = {Digest("CRC32C", upload.parts[n].bytes)}
=============================================================================
