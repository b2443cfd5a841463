----------------------------- MODULE Signatures -----------------------------
(***************************************************************************)
(* What every front door checks of a signed request, a signed link or a    *)
(* token: the time, the scope, that what must be signed is signed, and     *)
(* the signature over a text made of the request.                          *)
(*                                                                         *)
(* A request is a record with the fields                                   *)
(*   scheme, method, key, query     how it is signed and what it asks for  *)
(*   ext                            the vendor's extension header          *)
(*   sha, body                      the body digest header, the body       *)
(*   id, date, scope, expires       as the signature's fields say          *)
(*   signed                         the headers listed as signed           *)
(*   sas                            fields of a shared access signature    *)
(*   sig                            [secret, text]                         *)
(* A keyed digest is the pair of its secret and its text: canonical forms  *)
(* differ exactly when the fields that they are made of differ.  Time      *)
(* counts units of five minutes.                                           *)
(***************************************************************************)
EXTENDS Integers, Sequences, FiniteSets, SequencesExt

CONSTANTS MaxExpires,    \* the longest life of a link: seven days
          DayLength,     \* units of time in a day
          SessionTtl     \* life of an admin session: eight hours

ASSUME TimeAssumption == MaxExpires \in Nat /\ DayLength \in Nat \ {0} /\ SessionTtl \in Nat

Absent == "absent"
NoDate == -100           \* no date, or one that cannot be parsed
NoSha == <<>>
HolderId == "holder"
HolderSecret == "holder-secret"

FifteenMinutes == 3
FiveMinutes == 1

Day(t) == t \div DayLength
Fresh(now, date, window) == now - window <= date /\ date <= now + window

Digest(body) == <<"digest", body>>
Sign(secret, text) == [secret |-> secret, text |-> text]
NoSig == Sign("none", <<>>)

\* What one check of a request answers, and a list of them: the first refusal, 200 if there is none.
Check(refused, status) == IF refused THEN status ELSE 200
FirstRefusal(checks) ==
    LET failing == {i \in DOMAIN checks : checks[i] # 200}
    IN IF failing = {} THEN 200 ELSE checks[Min(failing)]

\* Headers that the request carries, and the signed ones with their values.
Carried(r) == {"host", "date", "target"} \cup (IF r.ext = Absent THEN {} ELSE {"ext"})
                                         \cup (IF r.sha = NoSha THEN {} ELSE {"sha"})
Header(r, name) ==
    CASE name = "ext"    -> r.ext
      [] name = "sha"    -> r.sha
      [] name = "date"   -> r.date
      [] name = "target" -> <<r.method, r.key, r.query>>
      [] name = "host"   -> "host"
SignedHeaders(r) == {<<name, Header(r, name)>> : name \in r.signed}

-----------------------------------------------------------------------------
(* AWS Signature Version 4, as an authorization header and as a link *)

PayloadHash(r) == IF r.sha # NoSha THEN r.sha ELSE Digest(r.body)

V4Text(r) == <<"v4", r.method, r.key, r.query, SignedHeaders(r), r.signed, PayloadHash(r), r.date, r.scope>>

\* Everything in the query of a link is signed, the payload is not.
LinkText(r) == <<"link", r.method, r.key, r.query, r.id, r.date, r.scope, r.expires, r.signed, SignedHeaders(r)>>

ValidatePayload(r, service) ==
    <<Check(r.sha = <<"streaming">> \/ (r.sha = <<"unsigned">> /\ service # "s3"), 501),
      Check(r.sha = <<"malformed">>, 400),
      Check(r.sha \notin {NoSha, <<"unsigned">>, Digest(r.body)}, 400)>>

SignsEnough(r) == "host" \in r.signed /\ r.signed \subseteq Carried(r) /\ (r.ext # Absent => "ext" \in r.signed)

\* Freshness, scope, and that host, date and every extension header is signed.
ValidateRequest(r, now, service) ==
    <<Check(r.date = NoDate, 400),
      Check(~Fresh(now, r.date, IF service = "s3" THEN FifteenMinutes ELSE FiveMinutes), 403),
      Check(r.scope # <<Day(r.date), service>>, 403),
      Check("date" \notin r.signed \/ ~SignsEnough(r), 403)>>
    \o ValidatePayload(r, service)

ValidateLink(r, now) ==
    <<Check(r.expires = 0 \/ r.expires > MaxExpires, 403),
      Check(r.date > now + FifteenMinutes, 403),
      Check(now > r.date + r.expires, 403),
      Check(r.id # HolderId, 403),
      Check(r.scope # <<Day(r.date), "s3">>, 403),
      Check(~SignsEnough(r), 403),
      Check(r.sig # Sign(HolderSecret, LinkText(r)), 403)>>

S3Verify(r, now) ==
    CASE r.scheme = "none"    -> 200
      [] r.scheme = "partial" -> 403
      [] r.scheme = "v2"      -> 403
      [] r.scheme = "link"    ->
            FirstRefusal(<<Check(r.date = NoDate, 400)>> \o ValidateLink(r, now) \o ValidatePayload(r, "s3"))
      [] r.scheme = "v4"      ->
            FirstRefusal(<<Check(r.date = NoDate \/ r.sig = NoSig \/ r.signed = {}, 400), Check(r.id # HolderId, 403)>>
                         \o ValidateRequest(r, now, "s3")
                         \o <<Check(r.sig # Sign(HolderSecret, V4Text(r)), 403)>>)

\* The text services and SES build the same text, each by its own code.
SnsText(r) == V4Text(r)
SesText(r) == V4Text(r)

SnsVerify(r, now) ==
    FirstRefusal(<<Check(r.sig = NoSig \/ r.signed = {} \/ r.id # HolderId \/ r.scope[2] # "sns", 403),
                   Check(FirstRefusal(ValidateRequest(r, now, "sns")) # 200, 403),
                   Check(r.sig # Sign(HolderSecret, SnsText(r)), 403)>>)
SesVerify(r, now) ==
    FirstRefusal(<<Check(r.sig = NoSig \/ r.signed = {} \/ r.scope[2] # "ses" \/ r.id # HolderId, 403),
                   Check(r.date = NoDate \/ "host" \notin r.signed, 403),
                   Check(FirstRefusal(ValidateRequest(r, now, "ses")) # 200, 403),
                   Check(r.sig # Sign(HolderSecret, SesText(r)), 403)>>)

-----------------------------------------------------------------------------
(* Azure: shared keys and shared access signatures *)

SharedKeyText(r) == <<"sharedKey", r.method, r.date, r.ext, r.key, r.query>>

NoSas == [type |-> "none", perms |-> {}, start |-> NoDate, https |-> FALSE, extra |-> FALSE]

\* A blob's signature names the blob, a container's the container; the method is not signed.
SasResource(r) == IF r.sas.type = "b" THEN r.key ELSE "container"
SasText(r) == <<"sas", r.sas.perms, r.sas.start, r.expires, SasResource(r), r.sas.type>>

SharedKeyVerify(r, now) ==
    FirstRefusal(<<Check(r.id # HolderId, 403),
                   Check(r.date = NoDate \/ ~Fresh(now, r.date, FifteenMinutes), 403),
                   Check(r.sig # Sign(HolderSecret, SharedKeyText(r)), 403)>>)

\* Fields that the emulator cannot honour refuse the request.
SasVerify(r, now) ==
    FirstRefusal(<<Check(r.id # HolderId \/ r.sas.extra \/ r.sas.perms = {}, 403),
                   Check(now > r.expires, 403),
                   Check(r.sas.start # NoDate /\ (r.sas.start >= r.expires \/ now < r.sas.start), 403),
                   Check(r.sas.https, 403),
                   Check(r.sas.type \notin {"b", "c"} \/ (r.sas.type = "b" /\ r.key = Absent), 403),
                   Check(r.sig # Sign(HolderSecret, SasText(r)), 403)>>)

\* One of these permissions is needed; a blob that is not there may be created with c alone.
SasRequired(r, exists) ==
    CASE r.key = Absent -> IF r.method = "GET" /\ r.query = "list" /\ r.sas.type = "c" THEN {"l"} ELSE {}
      [] r.key # Absent /\ r.method = "GET" -> {"r"}
      [] r.key # Absent /\ r.method = "DELETE" -> IF r.query = "versionid" THEN {"x"}
                                                  ELSE IF r.query = "immutability" THEN {"i"} ELSE {"d"}
      [] r.key # Absent /\ r.method = "PUT" ->
            CASE r.query = "immutability" -> {"i"}
              [] r.query = "snapshot"     -> {"c", "w"}
              [] r.query = "append"       -> {"a", "w"}
              [] r.query = "leaseBreak"   -> {"d", "w"}
              [] r.query \in {Absent, "block"} /\ ~exists -> {"c", "w"}
              [] OTHER -> {"w"}
      [] OTHER -> {}
SasAllows(r, exists) == r.scheme = "sas" => r.sas.perms \cap SasRequired(r, exists) # {}
CreateOnly(r) == r.scheme = "sas" /\ "c" \in r.sas.perms /\ "w" \notin r.sas.perms

-----------------------------------------------------------------------------
(* Google Cloud Storage, OCI, Azure Communication Services *)

Goog4Text(r) == <<"goog4", r.method, r.key, r.query, r.id, r.date, r.scope, r.expires, SignedHeaders(r)>>

Goog4Verify(r, now) ==
    FirstRefusal(<<Check(r.id # HolderId \/ r.date = NoDate, 403),
                   Check(r.scope # <<Day(r.date), "storage">>, 403),
                   Check(r.expires = 0 \/ r.expires > MaxExpires, 403),
                   Check(now < r.date - FifteenMinutes \/ now > r.date + r.expires, 403),
                   Check(~(r.signed \subseteq Carried(r)), 403),
                   Check(r.sig # Sign(HolderSecret, Goog4Text(r)), 403)>>)

\* A version 2 link signs its expiry, a version 1 header its date; neither signs the query.
Goog2Text(r, time) == <<"goog", r.method, time, r.ext, r.key>>

Goog2Verify(r, now) ==
    FirstRefusal(<<Check(r.expires <= now, 403), Check(r.id # HolderId, 403),
                   Check(r.sig # Sign(HolderSecret, Goog2Text(r, r.expires)), 403)>>)
Goog1Verify(r) ==
    FirstRefusal(<<Check(r.id # HolderId, 403), Check(r.sig # Sign(HolderSecret, Goog2Text(r, r.date)), 403)>>)
\* The secret itself, sent as a token.
BearerText == <<"token">>
BearerVerify(r) == FirstRefusal(<<Check(r.sig # Sign(HolderSecret, BearerText), 401)>>)

OciText(r) == <<"oci", SignedHeaders(r)>>

OciVerify(r, now, upload) ==
    FirstRefusal(<<Check(r.sig = NoSig \/ r.id # HolderId, 401),
                   Check(~({"target", "host", "date"} \subseteq r.signed) \/ r.date = NoDate, 401),
                   Check(r.method \in {"PUT", "POST"} /\ ~upload /\ "sha" \notin r.signed, 401),
                   Check(r.sha # NoSha /\ ("sha" \notin r.signed \/ r.sha # Digest(r.body)), 401),
                   Check(~Fresh(now, r.date, FiveMinutes), 401),
                   Check(~(r.signed \subseteq Carried(r)), 401),
                   Check(r.sig # Sign(HolderSecret, OciText(r)), 401)>>)

AcsText(r) == <<"acs", r.method, r.key, r.query, r.date, r.sha>>

AcsSigns(r) == {"host", "date", "sha"} \subseteq r.signed
AcsCurrent(r, now) == r.date # NoDate /\ Fresh(now, r.date, FifteenMinutes)
AcsSignature(r) == r.sig = Sign(HolderSecret, AcsText(r))

AcsSmsVerify(r, now) ==
    FirstRefusal(<<Check(r.sig = NoSig \/ ~AcsSigns(r), 401),
                   Check(~AcsCurrent(r, now) \/ r.sha # Digest(r.body), 401),
                   Check(~AcsSignature(r), 401)>>)
\* Mail insists on exactly these three headers.
AcsMailVerify(r, now) ==
    FirstRefusal(<<Check(r.sig = NoSig \/ Cardinality(r.signed) # 3 \/ ~AcsSigns(r), 401),
                   Check(~AcsCurrent(r, now) \/ r.sha # Digest(r.body), 401),
                   Check(~AcsSignature(r), 401)>>)

-----------------------------------------------------------------------------
(* Admin sessions: signed with a secret that each process makes at its start *)

SessionCookie(process, now) == [process |-> process, issued |-> now, expires |-> now + SessionTtl]
\* The library's leeway of sixty seconds is less than a unit of time.
SessionVerify(cookie, process, now) == cookie.process = process /\ now <= cookie.expires
=============================================================================
