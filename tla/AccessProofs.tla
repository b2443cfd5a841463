---------------------------- MODULE AccessProofs ----------------------------
(***************************************************************************)
(* Proofs about Access, for every clock, request, policy and key set: what *)
(* the front doors serve is what the holder of the secret signed, policies *)
(* compose, and the MCP front never accepts a key that is too old and lets *)
(* its callers refresh the keys in turn.                                   *)
(* SignerAssumption says what the signers hand out: requests of a known    *)
(* scheme whose payload hash is true and whose provider headers are        *)
(* signed, as the SDKs of the providers make them. A signature is a term   *)
(* that holds its secret and its text, so two are equal only when both are;*)
(* what a sender alters is anything but the signature.                     *)
(***************************************************************************)
EXTENDS Access, WellFoundedInduction, TLAPS

\* The numbers are well founded, as a set of pairs.
LEMMA LessThan == \E R : IsWellFoundedOn(R, Nat) /\ \A x, y \in Nat : y < x => <<y, x>> \in R
<1> WITNESS OpToRel(<, Nat)
<1>1. IsWellFoundedOn(OpToRel(<, Nat), Nat)
  BY NatLessThanWellFounded
<1>2. \A x, y \in Nat : y < x => <<y, x>> \in OpToRel(<, Nat)
  BY Zenon DEF OpToRel
<1> QED BY <1>1, <1>2

\* A nonempty set of numbers has a least member.
LEMMA SmallestIn == ASSUME NEW T, T \subseteq Nat, T # {} PROVE Min(T) \in T
<1>1. PICK R : IsWellFoundedOn(R, Nat) /\ \A x, y \in Nat : y < x => <<y, x>> \in R
  BY LessThan
<1>3. PICK x \in T : \A y \in T : ~(<<y, x>> \in R)
  BY <1>1, WFMin
<1>4. ASSUME NEW y \in T PROVE x <= y
  <2>1. y < x => <<y, x>> \in R
    BY <1>1
  <2>2. <<y, x>> \notin R
    BY <1>3
  <2> QED BY <2>1, <2>2
<1> QED
  BY <1>4 DEF Min

\* A list of checks that refuses nothing passes each of them: every verifier returns at its first failed check.
LEMMA NoRefusal ==
    ASSUME NEW checks, DOMAIN checks \subseteq Nat, FirstRefusal(checks) = 200
    PROVE  \A j \in DOMAIN checks : checks[j] = 200
<1> DEFINE failing == {i \in DOMAIN checks : checks[i] # 200}
<1>1. failing # {} => Min(failing) \in failing
  <2> failing \subseteq Nat OBVIOUS
  <2> HIDE DEF failing
  <2> QED BY SmallestIn
<1>2. failing # {} => checks[Min(failing)] = 200
  BY DEF FirstRefusal
<1>3. failing = {}
  BY <1>1, <1>2
<1> QED BY <1>3

\* Two lists of checks, one after the other, refuse nothing only when neither does.
LEMMA Appended ==
    ASSUME NEW a \in Seq(Int), NEW b \in Seq(Int), FirstRefusal(a \o b) = 200
    PROVE  FirstRefusal(a) = 200 /\ FirstRefusal(b) = 200
<1> DEFINE c == a \o b
<1>1. DOMAIN c \subseteq Nat OBVIOUS
<1>2. \A j \in DOMAIN a : j \in DOMAIN c /\ c[j] = a[j]
  OBVIOUS
<1>3. \A j \in DOMAIN b : Len(a) + j \in DOMAIN c /\ c[Len(a) + j] = b[j]
  OBVIOUS
<1>0. FirstRefusal(c) = 200 OBVIOUS
<1> HIDE DEF c
<1>4. \A j \in DOMAIN c : c[j] = 200
  BY <1>0, <1>1, NoRefusal
<1>5. /\ \A j \in DOMAIN a : a[j] = 200
      /\ \A j \in DOMAIN b : b[j] = 200
  BY <1>2, <1>3, <1>4
<1> QED BY <1>5 DEF FirstRefusal

-----------------------------------------------------------------------------
(* Texts *)

\* The kind of a text is its first word.
Word(scheme) ==
    CASE scheme \in {"v4", "sns", "ses"} -> "v4"
      [] scheme \in {"goog2", "goog1"} -> "goog"
      [] scheme \in {"acsSms", "acsMail"} -> "acs"
      [] scheme = "bearer" -> "token"
      [] OTHER -> scheme

\* What is signed under a scheme starts with that scheme's word, so that no text of one scheme is a text of another.
LEMMA TextWord == ASSUME NEW i, WellFormed(i) PROVE TextOf(i)[1] = Word(i.scheme)
<1> DEFINE t == TextOf(i)
<1>1. CASE i.scheme \in {"v4", "sns", "ses"}
  <2>1. t = V4Text(i) BY <1>1 DEF TextOf
  <2> QED BY <1>1, <2>1 DEF V4Text, Word
<1>2. CASE i.scheme = "link"
  <2>1. t = LinkText(i) BY <1>2 DEF TextOf
  <2> QED BY <1>2, <2>1 DEF LinkText, Word
<1>3. CASE i.scheme = "sharedKey"
  <2>1. t = SharedKeyText(i) BY <1>3 DEF TextOf
  <2> QED BY <1>3, <2>1 DEF SharedKeyText, Word
<1>4. CASE i.scheme = "sas"
  <2>1. t = SasText(i) BY <1>4 DEF TextOf
  <2> QED BY <1>4, <2>1 DEF SasText, Word
<1>5. CASE i.scheme = "goog4"
  <2>1. t = Goog4Text(i) BY <1>5 DEF TextOf
  <2> QED BY <1>5, <2>1 DEF Goog4Text, Word
<1>6. CASE i.scheme \in {"goog2", "goog1"}
  <2>1. t \in {Goog2Text(i, i.expires), Goog2Text(i, i.date)} BY <1>6 DEF TextOf
  <2> QED BY <1>6, <2>1 DEF Goog2Text, Word
<1>7. CASE i.scheme = "oci"
  <2>1. t = OciText(i) BY <1>7 DEF TextOf
  <2> QED BY <1>7, <2>1 DEF OciText, Word
<1>8. CASE i.scheme \in {"acsSms", "acsMail"}
  <2>1. t = AcsText(i) BY <1>8 DEF TextOf
  <2> QED BY <1>8, <2>1 DEF AcsText, Word
<1>9. CASE i.scheme = "bearer"
  <2>1. t = BearerText BY <1>9 DEF TextOf
  <2> QED BY <1>9, <2>1 DEF BearerText, Word
<1> QED BY <1>1, <1>2, <1>3, <1>4, <1>5, <1>6, <1>7, <1>8, <1>9 DEF WellFormed

\* A request r that carries the signature of a request i of the holder.
Carries(r, i) == /\ WellFormed(i) /\ i.date \in Int
                 /\ i.sig = Sign(HolderSecret, TextOf(i)) /\ r.sig = i.sig

\* A signature made with the holder's secret over a text is the holder's own only for the text the holder signed.
LEMMA SameText == ASSUME NEW r, NEW i, Carries(r, i), NEW t, r.sig = Sign(HolderSecret, t)
                  PROVE  t = TextOf(i)
BY DEF Carries, Sign

\* A request that carries a V4 signature of the holder asks for what the holder signed: method, path, query, signed
\* headers, payload hash and date.
LEMMA V4Same ==
    ASSUME NEW r, NEW i, Carries(r, i), r.sig = Sign(HolderSecret, V4Text(r))
    PROVE  /\ i.scheme \in {"v4", "sns", "ses"}
           /\ r.method = i.method /\ r.key = i.key /\ r.query = i.query
           /\ SignedHeaders(r) = SignedHeaders(i) /\ r.signed = i.signed
           /\ PayloadHash(r) = PayloadHash(i) /\ r.date = i.date
<1>1. V4Text(r) = TextOf(i) BY SameText
<1>2. V4Text(r)[1] = "v4" BY DEF V4Text
<1>3. i.scheme \in {"v4", "sns", "ses"}
  <2>1. Word(i.scheme) = "v4" BY <1>1, <1>2, TextWord DEF Carries
  <2> QED BY <2>1 DEF Word, Carries, WellFormed
<1>4. V4Text(r) = V4Text(i) BY <1>1, <1>3 DEF TextOf
<1> QED BY <1>3, <1>4 DEF V4Text
-----------------------------------------------------------------------------
(* Lists of checks that refuse nothing *)

\* A list of one check that refuses nothing passes it.
LEMMA Passed1 ==
    ASSUME NEW c1, FirstRefusal(<<c1>>) = 200
    PROVE  c1 = 200
<1> DEFINE checks == <<c1>>
<1>1. DOMAIN checks = 1 .. 1 /\ checks[1] = c1
  OBVIOUS
<1>2. FirstRefusal(checks) = 200
  OBVIOUS
<1> HIDE DEF checks
<1>3. \A j \in 1 .. 1 : checks[j] = 200
  BY <1>1, <1>2, NoRefusal
<1> QED BY <1>1, <1>3

\* The same of two checks.
LEMMA Passed2 ==
    ASSUME NEW c1, NEW c2, FirstRefusal(<<c1, c2>>) = 200
    PROVE  c1 = 200 /\ c2 = 200
<1> DEFINE checks == <<c1, c2>>
<1>1. DOMAIN checks = 1 .. 2 /\ checks[1] = c1 /\ checks[2] = c2
  OBVIOUS
<1>2. FirstRefusal(checks) = 200
  OBVIOUS
<1> HIDE DEF checks
<1>3. \A j \in 1 .. 2 : checks[j] = 200
  BY <1>1, <1>2, NoRefusal
<1> QED BY <1>1, <1>3

\* The same of three checks.
LEMMA Passed3 ==
    ASSUME NEW c1, NEW c2, NEW c3, FirstRefusal(<<c1, c2, c3>>) = 200
    PROVE  c1 = 200 /\ c2 = 200 /\ c3 = 200
<1> DEFINE checks == <<c1, c2, c3>>
<1>1. DOMAIN checks = 1 .. 3 /\ checks[1] = c1 /\ checks[2] = c2 /\ checks[3] = c3
  OBVIOUS
<1>2. FirstRefusal(checks) = 200
  OBVIOUS
<1> HIDE DEF checks
<1>3. \A j \in 1 .. 3 : checks[j] = 200
  BY <1>1, <1>2, NoRefusal
<1> QED BY <1>1, <1>3

\* The same of four checks.
LEMMA Passed4 ==
    ASSUME NEW c1, NEW c2, NEW c3, NEW c4, FirstRefusal(<<c1, c2, c3, c4>>) = 200
    PROVE  c1 = 200 /\ c2 = 200 /\ c3 = 200 /\ c4 = 200
<1> DEFINE checks == <<c1, c2, c3, c4>>
<1>1. DOMAIN checks = 1 .. 4 /\ checks[1] = c1 /\ checks[2] = c2 /\ checks[3] = c3 /\ checks[4] = c4
  OBVIOUS
<1>2. FirstRefusal(checks) = 200
  OBVIOUS
<1> HIDE DEF checks
<1>3. \A j \in 1 .. 4 : checks[j] = 200
  BY <1>1, <1>2, NoRefusal
<1> QED BY <1>1, <1>3

\* The same of six checks.
LEMMA Passed6 ==
    ASSUME NEW c1, NEW c2, NEW c3, NEW c4, NEW c5, NEW c6, FirstRefusal(<<c1, c2, c3, c4, c5, c6>>) = 200
    PROVE  c1 = 200 /\ c2 = 200 /\ c3 = 200 /\ c4 = 200 /\ c5 = 200 /\ c6 = 200
<1> DEFINE checks == <<c1, c2, c3, c4, c5, c6>>
<1>1. DOMAIN checks = 1 .. 6 /\ checks[1] = c1 /\ checks[2] = c2 /\ checks[3] = c3 /\ checks[4] = c4 /\ checks[5] = c5 /\ checks[6] = c6
  OBVIOUS
<1>2. FirstRefusal(checks) = 200
  OBVIOUS
<1> HIDE DEF checks
<1>3. \A j \in 1 .. 6 : checks[j] = 200
  BY <1>1, <1>2, NoRefusal
<1> QED BY <1>1, <1>3

\* The same of seven checks.
LEMMA Passed7 ==
    ASSUME NEW c1, NEW c2, NEW c3, NEW c4, NEW c5, NEW c6, NEW c7, FirstRefusal(<<c1, c2, c3, c4, c5, c6, c7>>) = 200
    PROVE  c1 = 200 /\ c2 = 200 /\ c3 = 200 /\ c4 = 200 /\ c5 = 200 /\ c6 = 200 /\ c7 = 200
<1> DEFINE checks == <<c1, c2, c3, c4, c5, c6, c7>>
<1>1. DOMAIN checks = 1 .. 7 /\ checks[1] = c1 /\ checks[2] = c2 /\ checks[3] = c3 /\ checks[4] = c4 /\ checks[5] = c5 /\ checks[6] = c6 /\ checks[7] = c7
  OBVIOUS
<1>2. FirstRefusal(checks) = 200
  OBVIOUS
<1> HIDE DEF checks
<1>3. \A j \in 1 .. 7 : checks[j] = 200
  BY <1>1, <1>2, NoRefusal
<1> QED BY <1>1, <1>3

-----------------------------------------------------------------------------
(* What each verifier asks for *)

\* The payload check of AWS: the hash header is absent, says "unsigned" (S3 only), or is the hash of the body.
LEMMA PayloadPasses ==
    ASSUME NEW r, NEW service, FirstRefusal(ValidatePayload(r, service)) = 200
    PROVE  /\ r.sha \in {NoSha, <<"unsigned">>, Digest(r.body)}
           /\ service # "s3" => r.sha # <<"unsigned">>
<1>1. /\ Check(r.sha = <<"streaming">> \/ (r.sha = <<"unsigned">> /\ service # "s3"), 501) = 200
      /\ Check(r.sha \notin {NoSha, <<"unsigned">>, Digest(r.body)}, 400) = 200
  BY Passed3 DEF ValidatePayload
<1> QED BY <1>1 DEF Check

\* The shared AWS checks: a true payload hash, a date within the window, and every header that must be signed signed.
LEMMA RequestPasses ==
    ASSUME NEW r, NEW now, NEW service, FirstRefusal(ValidateRequest(r, now, service)) = 200
    PROVE  /\ r.sha \in {NoSha, <<"unsigned">>, Digest(r.body)}
           /\ service # "s3" => r.sha # <<"unsigned">>
           /\ Fresh(now, r.date, IF service = "s3" THEN FifteenMinutes ELSE FiveMinutes)
           /\ SignsEnough(r)
<1> DEFINE c1 == Check(r.date = NoDate, 400)
           c2 == Check(~Fresh(now, r.date, IF service = "s3" THEN FifteenMinutes ELSE FiveMinutes), 403)
           c3 == Check(r.scope # <<Day(r.date), service>>, 403)
           c4 == Check("date" \notin r.signed \/ ~SignsEnough(r), 403)
           first == <<c1, c2, c3, c4>>
           second == ValidatePayload(r, service)
<1>1. first \in Seq(Int) /\ second \in Seq(Int)
  BY DEF Check, ValidatePayload
<1>2. FirstRefusal(first \o second) = 200
  BY DEF ValidateRequest
<1>3. FirstRefusal(first) = 200 /\ FirstRefusal(second) = 200
  <2> HIDE DEF first, second
  <2> QED BY <1>1, <1>2, Appended
<1>4. c2 = 200 /\ c4 = 200
  <2> HIDE DEF c1, c2, c3, c4
  <2> QED BY <1>3, Passed4
<1>5. FirstRefusal(second) = 200
  BY <1>3
<1> HIDE DEF first, second
<1> QED BY <1>4, <1>3, PayloadPasses DEF Check, second

\* S3's verifier of a signed request ends with the comparison of the signature, after the shared AWS checks.
LEMMA S3V4Passes ==
    ASSUME NEW r, NEW now, r.scheme = "v4", S3Verify(r, now) = 200
    PROVE  /\ r.sig = Sign(HolderSecret, V4Text(r))
           /\ FirstRefusal(ValidateRequest(r, now, "s3")) = 200
<1> DEFINE c1 == Check(r.date = NoDate \/ r.sig = NoSig \/ r.signed = {}, 400)
           c2 == Check(r.id # HolderId, 403)
           c3 == Check(r.sig # Sign(HolderSecret, V4Text(r)), 403)
           a == <<c1, c2>>
           b == ValidateRequest(r, now, "s3")
           c == <<c3>>
<1>1. FirstRefusal((a \o b) \o c) = 200
  BY DEF S3Verify
<1>2. a \in Seq(Int) /\ c \in Seq(Int)
  BY DEF Check
<1>3. b \in Seq(Int)
  BY DEF Check, ValidateRequest, ValidatePayload
<1>4. FirstRefusal(b) = 200 /\ FirstRefusal(c) = 200
  <2> HIDE DEF a, b, c
  <2>1. a \o b \in Seq(Int) BY <1>2, <1>3
  <2>2. FirstRefusal(a \o b) = 200 /\ FirstRefusal(c) = 200
    <3> DEFINE ab == a \o b
    <3>1. ab \in Seq(Int) /\ FirstRefusal(ab \o c) = 200 BY <1>1, <2>1
    <3> HIDE DEF ab
    <3>2. FirstRefusal(ab) = 200 /\ FirstRefusal(c) = 200 BY <3>1, <1>2, Appended
    <3> QED BY <3>2 DEF ab
  <2>3. FirstRefusal(b) = 200 BY <2>2, <1>2, <1>3, Appended
  <2> QED BY <2>2, <2>3
<1>5. c3 = 200
  <2> HIDE DEF c3
  <2> QED BY <1>4, Passed1
<1> QED BY <1>4, <1>5 DEF Check

\* S3's verifier of a presigned link: the signature, the lifetime and the signed headers.
LEMMA LinkPasses ==
    ASSUME NEW r, NEW now, r.scheme = "link", S3Verify(r, now) = 200
    PROVE  /\ r.sig = Sign(HolderSecret, LinkText(r))
           /\ ~(r.date > now + FifteenMinutes) /\ ~(now > r.date + r.expires)
           /\ SignsEnough(r)
<1> DEFINE a == <<Check(r.date = NoDate, 400)>>
           b == ValidateLink(r, now)
           c == ValidatePayload(r, "s3")
<1>1. FirstRefusal((a \o b) \o c) = 200
  BY DEF S3Verify
<1>2. a \in Seq(Int) /\ c \in Seq(Int)
  BY DEF Check, ValidatePayload
<1>3. b \in Seq(Int)
  BY DEF Check, ValidateLink
<1>4. FirstRefusal(b) = 200
  <2> DEFINE ab == a \o b
  <2>1. ab \in Seq(Int) /\ FirstRefusal(ab \o c) = 200
    <3> HIDE DEF a, b, c
    <3> QED BY <1>1, <1>2, <1>3
  <2> HIDE DEF a, b, c
  <2>2. FirstRefusal(ab) = 200
    <3> HIDE DEF ab
    <3> QED BY <2>1, <1>2, Appended
  <2> QED BY <2>2, <1>2, <1>3, Appended
<1>5. /\ Check(r.date > now + FifteenMinutes, 403) = 200
      /\ Check(now > r.date + r.expires, 403) = 200
      /\ Check(~SignsEnough(r), 403) = 200
      /\ Check(r.sig # Sign(HolderSecret, LinkText(r)), 403) = 200
  BY <1>4, Passed7 DEF ValidateLink
<1> QED BY <1>5 DEF Check

\* The verifiers of SNS and SES make the shared AWS checks for their own service and compare the signature.
LEMMA AwsPasses ==
    ASSUME NEW r, NEW now,
           (r.scheme = "sns" /\ SnsVerify(r, now) = 200) \/ (r.scheme = "ses" /\ SesVerify(r, now) = 200)
    PROVE  /\ r.sig = Sign(HolderSecret, V4Text(r))
           /\ FirstRefusal(ValidateRequest(r, now, r.scheme)) = 200
<1>1. CASE r.scheme = "sns" /\ SnsVerify(r, now) = 200
  <2>1. /\ Check(FirstRefusal(ValidateRequest(r, now, "sns")) # 200, 403) = 200
        /\ Check(r.sig # Sign(HolderSecret, SnsText(r)), 403) = 200
    BY <1>1, Passed3 DEF SnsVerify
  <2> QED BY <1>1, <2>1 DEF Check, SnsText
<1>2. CASE r.scheme = "ses" /\ SesVerify(r, now) = 200
  <2>1. /\ Check(FirstRefusal(ValidateRequest(r, now, "ses")) # 200, 403) = 200
        /\ Check(r.sig # Sign(HolderSecret, SesText(r)), 403) = 200
    BY <1>2, Passed4 DEF SesVerify
  <2> QED BY <1>2, <2>1 DEF Check, SesText
<1> QED BY <1>1, <1>2

\* Azure's Shared Key verifier compares the signature of a request within the window.
LEMMA SharedKeyPasses ==
    ASSUME NEW r, NEW now, SharedKeyVerify(r, now) = 200
    PROVE  Fresh(now, r.date, FifteenMinutes) /\ r.sig = Sign(HolderSecret, SharedKeyText(r))
<1>1. /\ Check(r.date = NoDate \/ ~Fresh(now, r.date, FifteenMinutes), 403) = 200
      /\ Check(r.sig # Sign(HolderSecret, SharedKeyText(r)), 403) = 200
  BY Passed3 DEF SharedKeyVerify
<1> QED BY <1>1 DEF Check

\* Azure's shared access signature verifier compares the signature of a request before its end.
LEMMA SasPasses ==
    ASSUME NEW r, NEW now, SasVerify(r, now) = 200
    PROVE  /\ ~(now > r.expires) /\ r.sig = Sign(HolderSecret, SasText(r))
           /\ r.sas.start # NoDate => ~(now < r.sas.start)
<1>1. /\ Check(now > r.expires, 403) = 200
      /\ Check(r.sas.start # NoDate /\ (r.sas.start >= r.expires \/ now < r.sas.start), 403) = 200
      /\ Check(r.sig # Sign(HolderSecret, SasText(r)), 403) = 200
  BY Passed6 DEF SasVerify
<1> QED BY <1>1 DEF Check

\* The four ways in at GCS: each compares the signature over its own text, and each signed link is within its lifetime.
LEMMA GoogPasses ==
    ASSUME NEW r, NEW now
    PROVE  /\ Goog4Verify(r, now) = 200 =>
                 /\ ~(now < r.date - FifteenMinutes) /\ ~(now > r.date + r.expires)
                 /\ r.sig = Sign(HolderSecret, Goog4Text(r))
           /\ Goog2Verify(r, now) = 200 =>
                 ~(r.expires <= now) /\ r.sig = Sign(HolderSecret, Goog2Text(r, r.expires))
           /\ Goog1Verify(r) = 200 => r.sig = Sign(HolderSecret, Goog2Text(r, r.date))
           /\ BearerVerify(r) = 200 => r.sig = Sign(HolderSecret, BearerText)
<1>1. Goog4Verify(r, now) = 200 =>
          /\ Check(now < r.date - FifteenMinutes \/ now > r.date + r.expires, 403) = 200
          /\ Check(r.sig # Sign(HolderSecret, Goog4Text(r)), 403) = 200
  BY Passed6 DEF Goog4Verify
<1>2. Goog2Verify(r, now) = 200 =>
          /\ Check(r.expires <= now, 403) = 200
          /\ Check(r.sig # Sign(HolderSecret, Goog2Text(r, r.expires)), 403) = 200
  BY Passed3 DEF Goog2Verify
<1>3. Goog1Verify(r) = 200 => Check(r.sig # Sign(HolderSecret, Goog2Text(r, r.date)), 403) = 200
  BY Passed2 DEF Goog1Verify
<1>4. BearerVerify(r) = 200 => Check(r.sig # Sign(HolderSecret, BearerText), 401) = 200
  BY Passed1 DEF BearerVerify
<1> QED BY <1>1, <1>2, <1>3, <1>4 DEF Check

\* OCI's verifier: target, host and date are signed, a payload hash is signed and true, and the date is within the window.
LEMMA OciPasses ==
    ASSUME NEW r, NEW now, NEW upload, OciVerify(r, now, upload) = 200
    PROVE  /\ {"target", "host", "date"} \subseteq r.signed
           /\ r.sha # NoSha => "sha" \in r.signed /\ r.sha = Digest(r.body)
           /\ Fresh(now, r.date, FiveMinutes) /\ r.sig = Sign(HolderSecret, OciText(r))
<1>1. /\ Check(~({"target", "host", "date"} \subseteq r.signed) \/ r.date = NoDate, 401) = 200
      /\ Check(r.sha # NoSha /\ ("sha" \notin r.signed \/ r.sha # Digest(r.body)), 401) = 200
      /\ Check(~Fresh(now, r.date, FiveMinutes), 401) = 200
      /\ Check(r.sig # Sign(HolderSecret, OciText(r)), 401) = 200
  BY Passed7 DEF OciVerify
<1> QED BY <1>1 DEF Check

\* The ACS verifiers: a true payload hash, a date within the window, and the signature.
LEMMA AcsPasses ==
    ASSUME NEW r, NEW now, AcsSmsVerify(r, now) = 200 \/ AcsMailVerify(r, now) = 200
    PROVE  /\ Fresh(now, r.date, FifteenMinutes) /\ r.sha = Digest(r.body)
           /\ r.sig = Sign(HolderSecret, AcsText(r))
<1>1. /\ Check(~AcsCurrent(r, now) \/ r.sha # Digest(r.body), 401) = 200
      /\ Check(~AcsSignature(r), 401) = 200
  <2>1. CASE AcsSmsVerify(r, now) = 200
    BY <2>1, Passed3 DEF AcsSmsVerify
  <2>2. CASE AcsMailVerify(r, now) = 200
    BY <2>2, Passed3 DEF AcsMailVerify
  <2> QED BY <2>1, <2>2
<1> QED BY <1>1 DEF Check, AcsCurrent, AcsSignature

-----------------------------------------------------------------------------
(* A request that carries the holder's signature and that its verifier lets pass is vouched for *)

\* Two requests with the same signed headers have the same value of each of them.
LEMMA SignedValue ==
    ASSUME NEW r, NEW i, NEW name, name \in r.signed, SignedHeaders(r) = SignedHeaders(i)
    PROVE  Header(r, name) = Header(i, name)
<1>1. <<name, Header(r, name)>> \in SignedHeaders(i)
  BY DEF SignedHeaders
<1>2. PICK other \in i.signed : <<name, Header(r, name)>> = <<other, Header(i, other)>>
  BY <1>1 DEF SignedHeaders
<1> QED BY <1>2

\* A provider header must be signed when it is there, so equal signed headers mean equal provider headers.
LEMMA SameExt ==
    ASSUME NEW r, NEW i, SignsEnough(r), r.signed = i.signed, SignedHeaders(r) = SignedHeaders(i),
           i.ext # Absent => "ext" \in i.signed
    PROVE  r.ext = i.ext
<1>1. CASE "ext" \in r.signed
  BY <1>1, SignedValue DEF Header
<1>2. CASE "ext" \notin r.signed
  BY <1>2 DEF SignsEnough
<1> QED BY <1>1, <1>2

\* Equal payload hashes, each of them true, mean equal bodies, unless the payload is declared unsigned.
LEMMA SamePayload ==
    ASSUME NEW r, NEW i, r.sha \in {NoSha, <<"unsigned">>, Digest(r.body)},
           i.sha \in {NoSha, <<"unsigned">>, Digest(i.body)}, PayloadHash(r) = PayloadHash(i)
    PROVE  r.sha # <<"unsigned">> => r.body = i.body
<1> SUFFICES ASSUME r.sha # <<"unsigned">> PROVE r.body = i.body
  OBVIOUS
<1>1. PayloadHash(r) = Digest(r.body)
  BY DEF PayloadHash
<1>2. PayloadHash(i) \in {<<"unsigned">>, Digest(i.body)}
  BY DEF PayloadHash
<1>3. Digest(r.body)[1] = "digest" /\ Digest(r.body)[2] = r.body /\ Digest(i.body)[2] = i.body
  BY DEF Digest
<1>4. <<"unsigned">>[1] = "unsigned"
  OBVIOUS
<1>5. PayloadHash(i) # <<"unsigned">>
  BY <1>1, <1>3, <1>4
<1> QED BY <1>1, <1>2, <1>3, <1>5

\* A V4 request that S3, SNS or SES lets in is one the holder vouches for.
LEMMA V4Vouched ==
    ASSUME NEW r, NEW i, Carries(r, i), clock \in Int, r.scheme \in {"v4", "sns", "ses"},
           r.sig = Sign(HolderSecret, V4Text(r)),
           FirstRefusal(ValidateRequest(r, clock, IF r.scheme = "v4" THEN "s3" ELSE r.scheme)) = 200
    PROVE  Vouches(r, i)
<1> DEFINE service == IF r.scheme = "v4" THEN "s3" ELSE r.scheme
<1>1. /\ r.sha \in {NoSha, <<"unsigned">>, Digest(r.body)}
      /\ service # "s3" => r.sha # <<"unsigned">>
      /\ Fresh(clock, r.date, IF service = "s3" THEN FifteenMinutes ELSE FiveMinutes)
      /\ SignsEnough(r)
  <2> FirstRefusal(ValidateRequest(r, clock, service)) = 200 OBVIOUS
  <2> HIDE DEF service
  <2> QED BY RequestPasses
<1>2. /\ i.scheme \in {"v4", "sns", "ses"}
      /\ r.method = i.method /\ r.key = i.key /\ r.query = i.query
      /\ SignedHeaders(r) = SignedHeaders(i) /\ r.signed = i.signed
      /\ PayloadHash(r) = PayloadHash(i) /\ r.date = i.date
  BY V4Same
<1>3. r.ext = i.ext
  BY <1>1, <1>2, SameExt DEF Carries, WellFormed
<1>4. r.sha # <<"unsigned">> => r.body = i.body
  BY <1>1, <1>2, SamePayload DEF Carries, WellFormed
<1>5. i.date \in Int
  BY DEF Carries
<1>6. CASE r.scheme = "v4"
  <2>1. Within(i.date - FifteenMinutes, i.date + FifteenMinutes)
    BY <1>1, <1>2, <1>5, <1>6 DEF Fresh, Within, FifteenMinutes
  <2> QED BY <1>2, <1>3, <1>4, <1>6, <2>1 DEF Vouches, SameTarget, SameQuery, SameBody
<1>7. CASE r.scheme \in {"sns", "ses"}
  <2>1. Within(i.date - FiveMinutes, i.date + FiveMinutes)
    BY <1>1, <1>2, <1>5, <1>7 DEF Fresh, Within, FiveMinutes
  <2>2. r.body = i.body
    BY <1>1, <1>4, <1>7
  <2> QED BY <1>2, <1>3, <1>7, <2>1, <2>2 DEF Vouches, SameTarget, SameQuery, SameBody
<1> QED BY <1>6, <1>7

\* A presigned link that S3 lets in is one the holder vouches for.
LEMMA LinkVouched ==
    ASSUME NEW r, NEW i, Carries(r, i), clock \in Int, r.scheme = "link", S3Verify(r, clock) = 200
    PROVE  Vouches(r, i)
<1>1. /\ r.sig = Sign(HolderSecret, LinkText(r))
      /\ ~(r.date > clock + FifteenMinutes) /\ ~(clock > r.date + r.expires)
      /\ SignsEnough(r)
  BY LinkPasses
<1>2. LinkText(r) = TextOf(i) /\ LinkText(r)[1] = "link"
  BY <1>1, SameText DEF LinkText
<1>3. i.scheme = "link"
  <2>1. Word(i.scheme) = "link" BY <1>2, TextWord DEF Carries
  <2> QED BY <2>1 DEF Word, Carries, WellFormed
<1>4. LinkText(r) = LinkText(i)
  BY <1>2, <1>3 DEF TextOf
<1>5. /\ r.method = i.method /\ r.key = i.key /\ r.query = i.query /\ r.date = i.date /\ r.expires = i.expires
      /\ r.signed = i.signed /\ SignedHeaders(r) = SignedHeaders(i)
  BY <1>4 DEF LinkText
<1>6. r.ext = i.ext
  BY <1>1, <1>3, <1>5, SameExt DEF Carries, WellFormed
<1>7. Within(i.date - FifteenMinutes, i.date + i.expires)
  BY <1>1, <1>5 DEF Within, FifteenMinutes, Carries, WellFormed
<1> QED BY <1>5, <1>6, <1>7 DEF Vouches, SameTarget, SameQuery

\* A Shared Key request that Azure lets in is one the holder vouches for.
LEMMA SharedKeyVouched ==
    ASSUME NEW r, NEW i, Carries(r, i), clock \in Int, r.scheme = "sharedKey", SharedKeyVerify(r, clock) = 200
    PROVE  i.scheme = "sharedKey" /\ Vouches(r, i)
<1>1. Fresh(clock, r.date, FifteenMinutes) /\ r.sig = Sign(HolderSecret, SharedKeyText(r))
  BY SharedKeyPasses
<1>2. SharedKeyText(r) = TextOf(i) /\ SharedKeyText(r)[1] = "sharedKey"
  BY <1>1, SameText DEF SharedKeyText
<1>3. i.scheme = "sharedKey"
  <2>1. Word(i.scheme) = "sharedKey" BY <1>2, TextWord DEF Carries
  <2> QED BY <2>1 DEF Word, Carries, WellFormed
<1>4. SharedKeyText(r) = SharedKeyText(i)
  BY <1>2, <1>3 DEF TextOf
<1>5. r.method = i.method /\ r.date = i.date /\ r.ext = i.ext /\ r.key = i.key /\ r.query = i.query
  BY <1>4 DEF SharedKeyText
<1>6. Within(i.date - FifteenMinutes, i.date + FifteenMinutes)
  BY <1>1, <1>5 DEF Within, Fresh, FifteenMinutes, Carries
<1> QED BY <1>3, <1>5, <1>6 DEF Vouches, SameTarget, SameQuery

\* A request under a shared access signature that Azure lets in, with a permission for what it does, is one the
\* holder vouches for.
LEMMA SasVouched ==
    ASSUME NEW r, NEW i, Carries(r, i), clock \in Int, r.scheme = "sas", SasVerify(r, clock) = 200,
           SasAllows(r, blob # "none")
    PROVE  i.scheme = "sas" /\ r.sas.perms = i.sas.perms /\ Vouches(r, i)
<1>1. /\ ~(clock > r.expires) /\ r.sig = Sign(HolderSecret, SasText(r))
      /\ r.sas.start # NoDate => ~(clock < r.sas.start)
  BY SasPasses
<1>2. SasText(r) = TextOf(i) /\ SasText(r)[1] = "sas"
  BY <1>1, SameText DEF SasText
<1>3. i.scheme = "sas"
  <2>1. Word(i.scheme) = "sas" BY <1>2, TextWord DEF Carries
  <2> QED BY <2>1 DEF Word, Carries, WellFormed
<1>4. SasText(r) = SasText(i)
  BY <1>2, <1>3 DEF TextOf
<1>5. r.sas.perms = i.sas.perms /\ r.sas.start = i.sas.start /\ r.expires = i.expires /\ SasResource(r) = SasResource(i) /\ r.sas.type = i.sas.type
  BY <1>4 DEF SasText
<1>6. i.sas.type = "b" => r.key = i.key
  BY <1>5 DEF SasResource
<1>7. clock <= i.expires /\ (i.sas.start # NoDate => i.sas.start <= clock)
  BY <1>1, <1>5 DEF Carries, WellFormed
<1>8. PICK p \in i.sas.perms : p \in SasRequired(r, blob # "none")
  BY <1>5 DEF SasAllows
<1>9. Permits(p, r)
  <2>1. CASE r.key # Absent /\ r.method = "PUT"
    BY <1>8, <2>1 DEF SasRequired, Permits, Absent
  <2>2. CASE ~(r.key # Absent /\ r.method = "PUT")
    BY <1>8, <2>2 DEF SasRequired, Permits, Absent
  <2> QED BY <2>1, <2>2
<1> QED BY <1>3, <1>5, <1>6, <1>7, <1>8, <1>9 DEF Vouches

\* A V4 signed link that GCS lets in is one the holder vouches for.
LEMMA Goog4Vouched ==
    ASSUME NEW r, NEW i, Carries(r, i), clock \in Int, r.scheme = "goog4", Goog4Verify(r, clock) = 200
    PROVE  Vouches(r, i)
<1>1. /\ ~(clock < r.date - FifteenMinutes) /\ ~(clock > r.date + r.expires)
      /\ r.sig = Sign(HolderSecret, Goog4Text(r))
  BY GoogPasses
<1>2. Goog4Text(r) = TextOf(i) /\ Goog4Text(r)[1] = "goog4"
  BY <1>1, SameText DEF Goog4Text
<1>3. i.scheme = "goog4"
  <2>1. Word(i.scheme) = "goog4" BY <1>2, TextWord DEF Carries
  <2> QED BY <2>1 DEF Word, Carries, WellFormed
<1>4. Goog4Text(r) = Goog4Text(i)
  BY <1>2, <1>3 DEF TextOf
<1>5. r.method = i.method /\ r.key = i.key /\ r.query = i.query /\ r.date = i.date /\ r.expires = i.expires
  BY <1>4 DEF Goog4Text
<1>6. Within(i.date - FifteenMinutes, i.date + i.expires)
  BY <1>1, <1>5 DEF Within, FifteenMinutes, Carries, WellFormed
<1> QED BY <1>5, <1>6 DEF Vouches, SameTarget

\* The texts of the two older GCS schemes hold the method, the object, the provider headers and a time.
LEMMA GoogSame ==
    ASSUME NEW r, NEW i, Carries(r, i), NEW time, r.sig = Sign(HolderSecret, Goog2Text(r, time))
    PROVE  r.method = i.method /\ r.key = i.key /\ r.ext = i.ext /\ time \in Int
<1>1. Goog2Text(r, time) = TextOf(i) /\ Goog2Text(r, time)[1] = "goog"
  BY SameText DEF Goog2Text
<1>2. i.scheme \in {"goog2", "goog1"}
  <2>1. Word(i.scheme) = "goog" BY <1>1, TextWord DEF Carries
  <2> QED BY <2>1 DEF Word, Carries, WellFormed
<1>3. PICK other \in {i.expires, i.date} : Goog2Text(r, time) = Goog2Text(i, other)
  BY <1>1, <1>2 DEF TextOf
<1>4. r.method = i.method /\ time = other /\ r.ext = i.ext /\ r.key = i.key
  BY <1>3 DEF Goog2Text
<1> QED BY <1>3, <1>4 DEF Carries, WellFormed

\* A V2 signed link, an HMAC request or a bearer token that GCS lets in is one the holder vouches for.
LEMMA GoogVouched ==
    ASSUME NEW r, NEW i, Carries(r, i), clock \in Int,
           \/ r.scheme = "goog2" /\ Goog2Verify(r, clock) = 200
           \/ r.scheme = "goog1" /\ Goog1Verify(r) = 200
           \/ r.scheme = "bearer" /\ BearerVerify(r) = 200
    PROVE  Vouches(r, i)
<1>1. CASE r.scheme = "goog2" /\ Goog2Verify(r, clock) = 200
  <2>1. ~(r.expires <= clock) /\ r.sig = Sign(HolderSecret, Goog2Text(r, r.expires))
    BY <1>1, GoogPasses
  <2>2. r.method = i.method /\ r.key = i.key /\ r.ext = i.ext /\ r.expires \in Int
    BY <2>1, GoogSame
  <2> QED BY <1>1, <2>1, <2>2 DEF Vouches, SameTarget
<1>2. CASE r.scheme = "goog1" /\ Goog1Verify(r) = 200
  <2>1. r.sig = Sign(HolderSecret, Goog2Text(r, r.date))
    BY <1>2, GoogPasses
  <2>2. r.method = i.method /\ r.key = i.key /\ r.ext = i.ext
    BY <2>1, GoogSame
  <2> QED BY <1>2, <2>2 DEF Vouches, SameTarget
<1>3. CASE r.scheme = "bearer" /\ BearerVerify(r) = 200
  <2>1. r.sig = Sign(HolderSecret, BearerText)
    BY <1>3, GoogPasses
  <2>2. BearerText = TextOf(i) /\ BearerText[1] = "token"
    BY <2>1, SameText DEF BearerText
  <2>3. i.scheme = "bearer"
    <3>1. Word(i.scheme) = "token" BY <2>2, TextWord DEF Carries
    <3> QED BY <3>1 DEF Word, Carries, WellFormed
  <2> QED BY <1>3, <2>3 DEF Vouches
<1> QED BY <1>1, <1>2, <1>3

\* The hash of a body is the hash of no other body, and neither a missing nor an unsigned hash.
LEMMA SameDigest ==
    ASSUME NEW b, NEW c, Digest(b) \in {NoSha, <<"unsigned">>, Digest(c)}
    PROVE  b = c
<1>1. Digest(b)[1] = "digest" /\ Digest(b)[2] = b /\ Digest(c)[2] = c /\ DOMAIN Digest(b) = 1 .. 2
  BY DEF Digest
<1>2. <<"unsigned">>[1] = "unsigned" /\ DOMAIN NoSha = {}
  BY DEF NoSha
<1>3. Digest(b) # <<"unsigned">> /\ Digest(b) # NoSha
  BY <1>1, <1>2
<1> QED BY <1>1, <1>3

\* A signed request that OCI lets in is one the holder vouches for.
LEMMA OciVouched ==
    ASSUME NEW r, NEW i, Carries(r, i), clock \in Int, NEW upload, r.scheme = "oci",
           OciVerify(r, clock, upload) = 200
    PROVE  Vouches(r, i)
<1>1. /\ {"target", "host", "date"} \subseteq r.signed
      /\ r.sha # NoSha => "sha" \in r.signed /\ r.sha = Digest(r.body)
      /\ Fresh(clock, r.date, FiveMinutes) /\ r.sig = Sign(HolderSecret, OciText(r))
  BY OciPasses
<1>2. OciText(r) = TextOf(i) /\ OciText(r)[1] = "oci"
  BY <1>1, SameText DEF OciText
<1>3. i.scheme = "oci"
  <2>1. Word(i.scheme) = "oci" BY <1>2, TextWord DEF Carries
  <2> QED BY <2>1 DEF Word, Carries, WellFormed
<1>4. SignedHeaders(r) = SignedHeaders(i)
  <2>1. OciText(r) = OciText(i) BY <1>2, <1>3 DEF TextOf
  <2> QED BY <2>1 DEF OciText
<1>5. r.method = i.method /\ r.key = i.key /\ r.query = i.query
  <2>1. Header(r, "target") = Header(i, "target")
    BY <1>1, <1>4, SignedValue
  <2> QED BY <2>1 DEF Header
<1>6. r.date = i.date
  <2>1. Header(r, "date") = Header(i, "date")
    BY <1>1, <1>4, SignedValue
  <2> QED BY <2>1 DEF Header
<1>7. r.sha # NoSha => r.body = i.body
  <2>1. r.sha # NoSha => Header(r, "sha") = Header(i, "sha")
    BY <1>1, <1>4, SignedValue
  <2>2. r.sha # NoSha => r.sha = i.sha
    BY <2>1 DEF Header
  <2>3. r.sha # NoSha => Digest(r.body) \in {NoSha, <<"unsigned">>, Digest(i.body)}
    BY <1>1, <2>2 DEF Carries, WellFormed
  <2> QED BY <2>3, SameDigest
<1>8. Within(i.date - FiveMinutes, i.date + FiveMinutes)
  BY <1>1, <1>6 DEF Within, Fresh, FiveMinutes, Carries
<1> QED BY <1>5, <1>7, <1>8 DEF Vouches, SameTarget, SameBody

\* A signed request that an ACS front lets in is one the holder vouches for.
LEMMA AcsVouched ==
    ASSUME NEW r, NEW i, Carries(r, i), clock \in Int, r.scheme \in {"acsSms", "acsMail"},
           AcsSmsVerify(r, clock) = 200 \/ AcsMailVerify(r, clock) = 200
    PROVE  Vouches(r, i)
<1>1. /\ Fresh(clock, r.date, FifteenMinutes) /\ r.sha = Digest(r.body)
      /\ r.sig = Sign(HolderSecret, AcsText(r))
  BY AcsPasses
<1>2. AcsText(r) = TextOf(i) /\ AcsText(r)[1] = "acs"
  BY <1>1, SameText DEF AcsText
<1>3. i.scheme \in {"acsSms", "acsMail"}
  <2>1. Word(i.scheme) = "acs" BY <1>2, TextWord DEF Carries
  <2> QED BY <2>1 DEF Word, Carries, WellFormed
<1>4. AcsText(r) = AcsText(i)
  BY <1>2, <1>3 DEF TextOf
<1>5. r.method = i.method /\ r.key = i.key /\ r.query = i.query /\ r.date = i.date /\ r.sha = i.sha
  BY <1>4 DEF AcsText
<1>6. r.body = i.body
  <2>1. i.sha \in {NoSha, <<"unsigned">>, Digest(i.body)}
    BY DEF Carries, WellFormed
  <2>2. r.sha = Digest(r.body) /\ r.sha = i.sha
    BY <1>1, <1>5
  <2>3. Digest(r.body) \in {NoSha, <<"unsigned">>, Digest(i.body)}
    BY <2>1, <2>2
  <2> QED BY <2>3, SameDigest
<1>7. Within(i.date - FifteenMinutes, i.date + FifteenMinutes)
  BY <1>1, <1>5 DEF Within, Fresh, FifteenMinutes, Carries
<1> QED BY <1>5, <1>6, <1>7 DEF Vouches, SameTarget, SameBody

-----------------------------------------------------------------------------
(* Requests at the doors *)

\* Whatever a sender alters in a request, the signature it carries is still the holder's.
LEMMA AlteredCarries ==
    ASSUME NEW i, Carries(i, i), NEW r \in Altered(i)
    PROVE  Carries(r, i)
<1> USE SignerAssumption
<1>1. CASE r = i
  BY <1>1
<1>2. CASE r # i
  <2>1. PICK f \in DOMAIN Values, g \in DOMAIN Values : r \in Rewritten(i, f, g)
    BY <1>2 DEF Altered
  <2>2. PICK v \in Values[f], w \in Values[g] : r = [i EXCEPT ![f] = v, ![g] = w]
    BY <2>1 DEF Rewritten
  <2>3. f # "sig" /\ g # "sig" /\ "sig" \in DOMAIN i
    BY DEF Carries, WellFormed
  <2>4. r.sig = i.sig
    BY <2>2, <2>3
  <2> QED BY <2>4 DEF Carries
<1> QED BY <1>1, <1>2

\* A door answers 200 only through one of its verifiers, or, for a request with no credential, through the policy.
LEMMA LetIn ==
    ASSUME NEW r, Answer(r) = 200
    PROVE  \/ r.scheme = "none" /\ Decision(policy, acl, FromRequest(r)) = "Allow"
           \/ r.scheme \in {"v4", "link"} /\ S3Verify(r, clock) = 200
           \/ r.scheme = "sns" /\ SnsVerify(r, clock) = 200
           \/ r.scheme = "ses" /\ SesVerify(r, clock) = 200
           \/ r.scheme = "sharedKey" /\ door = "azure" /\ SharedKeyVerify(r, clock) = 200
           \/ r.scheme = "sas" /\ door = "azure" /\ SasVerify(r, clock) = 200
           \/ r.scheme = "goog4" /\ Goog4Verify(r, clock) = 200
           \/ r.scheme = "goog2" /\ Goog2Verify(r, clock) = 200
           \/ r.scheme = "goog1" /\ Goog1Verify(r) = 200
           \/ r.scheme = "bearer" /\ BearerVerify(r) = 200
           \/ r.scheme = "oci" /\ OciVerify(r, clock, r.method = "PUT" /\ r.key # Absent) = 200
           \/ r.scheme = "acsSms" /\ AcsSmsVerify(r, clock) = 200
           \/ r.scheme = "acsMail" /\ AcsMailVerify(r, clock) = 200
<1>1. CASE door = "s3" /\ r.scheme \in {"none", "partial", "v2", "v4", "link"}
  <2>1. S3Verify(r, clock) = 200 /\ Decision(policy, acl, FromRequest(r)) = "Allow"
    BY <1>1 DEF Answer
  <2>2. r.scheme \notin {"partial", "v2"}
    BY <2>1 DEF S3Verify
  <2> QED BY <1>1, <2>1, <2>2
<1>2. CASE ~(door = "s3" /\ r.scheme \in {"none", "partial", "v2", "v4", "link"})
  BY <1>2 DEF Answer
<1> QED BY <1>1, <1>2

\* A request that carries the holder's signature and that a door lets in is entitled to what it asks.
LEMMA Admitted ==
    ASSUME NEW i \in issued, NEW r, Carries(r, i), clock \in Int, Answer(r) = 200,
           door = "azure" => SasAllows(r, blob # "none")
    PROVE  Entitled(r)
<1>1. CASE r.scheme = "none" /\ Decision(policy, acl, FromRequest(r)) = "Allow"
  BY <1>1 DEF Entitled
<1>2. CASE r.scheme = "v4" /\ S3Verify(r, clock) = 200
  <2>1. Vouches(r, i)
    BY <1>2, S3V4Passes, V4Vouched
  <2> QED BY <1>2, <2>1 DEF Entitled
<1>3. CASE r.scheme = "link" /\ S3Verify(r, clock) = 200
  <2>1. Vouches(r, i)
    BY <1>3, LinkVouched
  <2> QED BY <1>3, <2>1 DEF Entitled
<1>4. CASE (r.scheme = "sns" /\ SnsVerify(r, clock) = 200) \/ (r.scheme = "ses" /\ SesVerify(r, clock) = 200)
  <2>1. /\ r.sig = Sign(HolderSecret, V4Text(r))
        /\ FirstRefusal(ValidateRequest(r, clock, r.scheme)) = 200
    BY <1>4, AwsPasses
  <2>2. Vouches(r, i)
    BY <1>4, <2>1, V4Vouched
  <2> QED BY <1>4, <2>2 DEF Entitled
<1>5. CASE r.scheme = "sharedKey" /\ SharedKeyVerify(r, clock) = 200
  <2>1. Vouches(r, i)
    BY <1>5, SharedKeyVouched
  <2> QED BY <1>5, <2>1 DEF Entitled
<1>6. CASE r.scheme = "sas" /\ door = "azure" /\ SasVerify(r, clock) = 200
  <2>1. Vouches(r, i)
    BY <1>6, SasVouched
  <2> QED BY <1>6, <2>1 DEF Entitled
<1>7. CASE r.scheme = "goog4" /\ Goog4Verify(r, clock) = 200
  <2>1. Vouches(r, i)
    BY <1>7, Goog4Vouched
  <2> QED BY <1>7, <2>1 DEF Entitled
<1>8. CASE \/ r.scheme = "goog2" /\ Goog2Verify(r, clock) = 200
           \/ r.scheme = "goog1" /\ Goog1Verify(r) = 200
           \/ r.scheme = "bearer" /\ BearerVerify(r) = 200
  <2>1. Vouches(r, i)
    BY <1>8, GoogVouched
  <2> QED BY <1>8, <2>1 DEF Entitled
<1>9. CASE r.scheme = "oci" /\ OciVerify(r, clock, r.method = "PUT" /\ r.key # Absent) = 200
  <2>1. Vouches(r, i)
    BY <1>9, OciVouched
  <2> QED BY <1>9, <2>1 DEF Entitled
<1>10. CASE \/ r.scheme = "acsSms" /\ AcsSmsVerify(r, clock) = 200
            \/ r.scheme = "acsMail" /\ AcsMailVerify(r, clock) = 200
  <2>1. Vouches(r, i)
    BY <1>10, AcsVouched
  <2> QED BY <1>10, <2>1 DEF Entitled
<1> QED BY <1>1, <1>2, <1>3, <1>4, <1>5, <1>6, <1>7, <1>8, <1>9, <1>10, LetIn

-----------------------------------------------------------------------------
(* The invariant *)

\* What is issued at a door is one request with the holder's signature, or one session.
IssuedOK ==
    /\ clock \in Int
    /\ \A i, j \in issued : i = j
    /\ \A i \in issued : IF door = "admin" THEN i.expires = i.issued + SessionTtl ELSE Carries(i, i)

\* An upload on its way, when the issued signature is a shared access signature.
PutOK ==
    /\ put # {} => door = "azure" /\ issued # {}
    /\ \A r \in put, i \in issued : i.scheme = "sas" => CreateOnly(r) \/ "w" \in i.sas.perms

AccessInv == policy \in Seq(Statements) /\ IssuedOK /\ PutOK

\* A request the holder has just signed carries the holder's signature.
LEMMA Sealed ==
    ASSUME NEW r, WellFormed(r), r.date \in Int
    PROVE  LET i == [r EXCEPT !.sig = Sign(HolderSecret, TextOf(r))] IN Carries(i, i)
<1> DEFINE t == TextOf(r)
           i == [r EXCEPT !.sig = Sign(HolderSecret, t)]
<1> HIDE DEF t
<1>1. DOMAIN i = DOMAIN r /\ i.sig = Sign(HolderSecret, t)
  BY DEF WellFormed
<1>2. \A f \in DOMAIN r \ {"sig"} : i[f] = r[f]
  OBVIOUS
<1>3. /\ i.scheme = r.scheme /\ i.method = r.method /\ i.key = r.key /\ i.query = r.query /\ i.ext = r.ext
      /\ i.sha = r.sha /\ i.body = r.body /\ i.id = r.id /\ i.date = r.date /\ i.scope = r.scope
      /\ i.expires = r.expires /\ i.signed = r.signed /\ i.sas = r.sas
  BY <1>2 DEF WellFormed
<1> HIDE DEF i
<1>4. WellFormed(i)
  BY <1>1, <1>3 DEF WellFormed
<1>5. TextOf(i) = TextOf(r)
  <2>1. \A name : Header(i, name) = Header(r, name)
    BY <1>3 DEF Header
  <2>2. SignedHeaders(i) = SignedHeaders(r)
    BY <1>3, <2>1 DEF SignedHeaders
  <2>3. V4Text(i) = V4Text(r)
    BY <1>3, <2>2 DEF V4Text, PayloadHash
  <2>4. LinkText(i) = LinkText(r) /\ Goog4Text(i) = Goog4Text(r) /\ OciText(i) = OciText(r)
    BY <1>3, <2>2 DEF LinkText, Goog4Text, OciText
  <2>5. SharedKeyText(i) = SharedKeyText(r) /\ SasText(i) = SasText(r) /\ AcsText(i) = AcsText(r)
    BY <1>3 DEF SharedKeyText, SasText, SasResource, AcsText
  <2>6. Goog2Text(i, i.expires) = Goog2Text(r, r.expires) /\ Goog2Text(i, i.date) = Goog2Text(r, r.date)
    BY <1>3 DEF Goog2Text
  <2> QED BY <1>3, <2>3, <2>4, <2>5, <2>6 DEF TextOf
<1> QED BY <1>1, <1>3, <1>4, <1>5 DEF Carries, i, t

\* Signing a request keeps the invariant.
LEMMA SignStep ==
    ASSUME AccessInv, SignRequest
    PROVE  AccessInv'
<1> USE SignerAssumption
<1>1. PICK s \in Signable[door], skew \in Skews :
          LET at == clock + skew
              r == [s EXCEPT !.date = at, !.scope = <<Day(at), s.scope[2]>>,
                             !.expires = IF s.scheme \in {"sas", "goog2"} THEN at + @ ELSE @]
          IN issued' = {[r EXCEPT !.sig = Sign(HolderSecret, TextOf(r))]}
  BY DEF SignRequest
<1> DEFINE at == clock + skew
           life == IF s.scheme \in {"sas", "goog2"} THEN at + s.expires ELSE s.expires
           r == [s EXCEPT !.date = at, !.scope = <<Day(at), s.scope[2]>>, !.expires = life]
<1>2. issued' = {[r EXCEPT !.sig = Sign(HolderSecret, TextOf(r))]}
  BY <1>1
<1>3. door \in DOMAIN Signable /\ door # "admin" /\ WellFormed(s)
  BY DEF SignRequest
<1>4. at \in Int /\ life \in Int
  BY <1>3 DEF AccessInv, IssuedOK, WellFormed
<1>5. /\ DOMAIN r = DOMAIN s /\ r.scheme = s.scheme /\ r.sha = s.sha /\ r.body = s.body /\ r.ext = s.ext
      /\ r.signed = s.signed /\ r.date = at /\ r.expires = life /\ r.sas = s.sas
  <2> HIDE DEF at, life
  <2> QED BY <1>3 DEF WellFormed
<1>6. WellFormed(r) /\ r.date \in Int
  <2> HIDE DEF at, life, r
  <2> QED BY <1>3, <1>4, <1>5 DEF WellFormed
<1> HIDE DEF r
<1>7. \A i \in issued' : Carries(i, i)
  BY <1>2, <1>6, Sealed
<1>8. put = {} /\ UNCHANGED <<door, clock, policy, put>>
  BY DEF SignRequest, AccessInv, PutOK
<1> QED BY <1>2, <1>3, <1>7, <1>8 DEF AccessInv, IssuedOK, PutOK, Carries

\* Azure's check before the write keeps the invariant and lets in only what is entitled.
LEMMA CheckStep ==
    ASSUME AccessInv, AzureCheck
    PROVE  AccessInv' /\ Entitled(served')
<1>1. PICK i \in issued : \E r \in Altered(i) :
          /\ Answer(r) = 200 /\ SasAllows(r, blob # "none")
          /\ served' = r
          /\ put' = IF r.method = "PUT" /\ r.key = "k" /\ r.query = Absent THEN {r} ELSE {}
  BY DEF AzureCheck
<1>2. PICK r \in Altered(i) :
          /\ Answer(r) = 200 /\ SasAllows(r, blob # "none")
          /\ served' = r
          /\ put' = IF r.method = "PUT" /\ r.key = "k" /\ r.query = Absent THEN {r} ELSE {}
  BY <1>1
<1>3. door = "azure" /\ UNCHANGED <<door, clock, issued, policy>>
  BY DEF AzureCheck
<1>4. Carries(r, i) /\ clock \in Int
  BY <1>3, AlteredCarries DEF AccessInv, IssuedOK
<1>5. Entitled(r)
  BY <1>2, <1>4, Admitted
<1>6. ASSUME r.method = "PUT", r.key = "k", r.query = Absent, i.scheme = "sas"
      PROVE  CreateOnly(r) \/ "w" \in i.sas.perms
  <2>1. r.scheme = "sas" /\ r.sas.perms = i.sas.perms
    <3>1. r.scheme = "sharedKey" /\ SharedKeyVerify(r, clock) = 200 => i.scheme = "sharedKey"
      BY <1>4, SharedKeyVouched
    <3>2. ASSUME r.scheme = "sas", SasVerify(r, clock) = 200 PROVE r.sas.perms = i.sas.perms
      BY <1>2, <1>4, <3>2, SasVouched
    <3>3. \/ r.scheme = "sharedKey" /\ SharedKeyVerify(r, clock) = 200
          \/ r.scheme = "sas" /\ SasVerify(r, clock) = 200
      BY <1>2, <1>3 DEF Answer
    <3> QED BY <1>6, <3>1, <3>2, <3>3
  <2>2. SasRequired(r, blob # "none") \subseteq {"c", "w"}
    BY <1>6 DEF SasRequired, Absent
  <2> QED BY <1>2, <2>1, <2>2 DEF SasAllows, CreateOnly
<1>7. PutOK'
  <2>1. \A q \in put' : q = r /\ r.method = "PUT" /\ r.key = "k" /\ r.query = Absent
    BY <1>2
  <2>2. \A j \in issued : j = i
    BY DEF AccessInv, IssuedOK
  <2> QED BY <1>3, <1>6, <2>1, <2>2 DEF PutOK
<1> QED BY <1>2, <1>3, <1>5, <1>7 DEF AccessInv, IssuedOK

\* The invariant holds before anything is signed.
LEMMA AccessInit == Init => AccessInv
BY DEF Init, AccessInv, IssuedOK, PutOK

\* Every step keeps the invariant.
LEMMA AccessNext ==
    ASSUME AccessInv, [Next]_vars
    PROVE  AccessInv'
<1> USE DEF AccessInv
<1>1. CASE SignRequest
  BY <1>1, SignStep
<1>2. CASE Request \/ AzureWrite \/ McpTool \/ PutAcl \/ AdminRequest \/ Restart \/ SendAnswer
  <2>1. UNCHANGED <<door, clock, issued, policy>> /\ put' \in {put, {}}
    BY <1>2 DEF Request, AzureWrite, McpTool, PutAcl, AdminRequest, Restart, SendAnswer
  <2> QED BY <2>1 DEF IssuedOK, PutOK
<1>3. CASE Tick
  BY <1>3 DEF Tick, IssuedOK, PutOK
<1>4. CASE AzureCheck
  BY <1>4, CheckStep
<1>5. CASE PutPolicy \/ DeletePolicy
  <2>1. UNCHANGED <<door, clock, issued, put>>
    BY <1>5 DEF PutPolicy, DeletePolicy
  <2>2. policy' \in Seq(Statements)
    <3>1. CASE DeletePolicy
      BY <3>1 DEF DeletePolicy
    <3>2. CASE PutPolicy
      <4>1. PICK m \in 0 .. MaxStatements : policy' \in [1 .. m -> Statements]
        BY <3>2 DEF PutPolicy, BoundedSeq, SeqOf
      <4> QED BY <4>1
    <3> QED BY <1>5, <3>1, <3>2
  <2> QED BY <2>1, <2>2 DEF IssuedOK, PutOK
<1>6. CASE Login
  BY <1>6 DEF Login, SessionCookie, IssuedOK, PutOK
<1>7. CASE Logout
  BY <1>7 DEF Logout, IssuedOK, PutOK
<1>8. CASE AtMcp(McpNext) \/ UNCHANGED vars
  BY <1>8 DEF AtMcp, accessVars, vars, IssuedOK, PutOK
<1> QED BY <1>1, <1>2, <1>3, <1>4, <1>5, <1>6, <1>7, <1>8 DEF Next

\* What is issued at a door is one request signed by the holder or one session, and an upload on its way under a
\* shared access signature may overwrite only when the signature permits writing.
THEOREM AccessInvariance == Spec => []AccessInv
<1>1. AccessInv /\ [Next]_vars => AccessInv'
  BY AccessNext
<1> QED BY <1>1, AccessInit, PTL DEF Spec

\* Every request that a door serves is entitled to what it asks: the holder of the secret signed that request, or one
\* that differs only in what the scheme leaves unsigned, and it is within its lifetime; an overwrite after Azure's
\* existence check had the permission to write; an admin session is one that this process opened and is within its life.
THEOREM CredentialsAreHonoured == Spec => CredentialsHonoured
<1> DEFINE A == /\ served' \notin {served, Nothing} => Entitled(served')
                /\ blob = "mcp" /\ blob' = "upload" => \A i \in issued : i.scheme = "sas" => "w" \in i.sas.perms
<1>1. ASSUME AccessInv, [Next]_vars PROVE [A]_vars
  <2>1. CASE Request
    <3>1. door # "azure" /\ door # "admin" /\ blob' = blob
      BY <2>1 DEF Request
    <3>2. PICK i \in issued : \E r \in Altered(i) : Answer(r) = 200 /\ served' = r
      BY <2>1 DEF Request
    <3>3. PICK r \in Altered(i) : Answer(r) = 200 /\ served' = r
      BY <3>2
    <3>4. Carries(r, i) /\ clock \in Int
      BY <1>1, <3>1, AlteredCarries DEF AccessInv, IssuedOK
    <3>5. Entitled(r)
      BY <3>1, <3>3, <3>4, Admitted
    <3> QED BY <3>1, <3>3, <3>5
  <2>2. CASE AzureCheck
    <3>1. Entitled(served') /\ blob' = blob
      BY <1>1, <2>2, CheckStep DEF AzureCheck
    <3> QED BY <3>1
  <2>3. CASE AzureWrite
    <3>1. PICK r \in put : blob' = IF WriteCondition(r) THEN "upload" ELSE blob
      BY <2>3 DEF AzureWrite
    <3>2. served' = served
      BY <2>3 DEF AzureWrite
    <3>3. ASSUME blob = "mcp", blob' = "upload", NEW i \in issued, i.scheme = "sas"
          PROVE  "w" \in i.sas.perms
      <4>1. ~CreateOnly(r)
        BY <3>1, <3>3 DEF WriteCondition
      <4> QED BY <1>1, <3>3, <4>1 DEF AccessInv, PutOK
    <3> QED BY <3>2, <3>3
  <2>4. CASE AdminRequest
    <3>1. PICK cookie \in issued : /\ SessionVerify(cookie, process, clock)
                                   /\ served' = [scheme |-> "session", cookie |-> cookie]
      BY <2>4 DEF AdminRequest
    <3>2. door = "admin" /\ blob' = blob
      BY <2>4 DEF AdminRequest
    <3>3. served'.scheme = "session" /\ served'.cookie = cookie
      BY <3>1
    <3>4. cookie.process = process /\ clock <= cookie.issued + SessionTtl
      BY <1>1, <3>1, <3>2 DEF AccessInv, IssuedOK, SessionVerify
    <3>5. Entitled(served')
      BY <3>3, <3>4 DEF Entitled
    <3> QED BY <3>2, <3>5
  <2>5. CASE SendAnswer
    BY <2>5 DEF SendAnswer
  <2>6. CASE McpTool
    BY <2>6 DEF McpTool
  <2>7. CASE SignRequest \/ Tick \/ PutPolicy \/ DeletePolicy \/ PutAcl \/ Login \/ Logout \/ Restart
    <3>1. served' = served /\ blob' = blob
      BY <2>7 DEF SignRequest, Tick, PutPolicy, DeletePolicy, PutAcl, Login, Logout, Restart
    <3> QED BY <3>1
  <2>8. CASE AtMcp(McpNext) \/ UNCHANGED vars
    <3>1. served' = served /\ blob' = blob
      BY <2>8 DEF AtMcp, accessVars, vars
    <3> QED BY <3>1
  <2> HIDE DEF A
  <2> QED BY <1>1, <2>1, <2>2, <2>3, <2>4, <2>5, <2>6, <2>7, <2>8 DEF Next
<1>2. AccessInv /\ [Next]_vars => [A]_vars
  BY <1>1
<1> QED BY <1>2, AccessInvariance, PTL DEF Spec, CredentialsHonoured

-----------------------------------------------------------------------------
(* Policies *)

\* The effects of the statements that apply.
Effects(p, ctx) == {p[i].effect : i \in {j \in DOMAIN p : StatementApplies(p[j], ctx)}}

\* A statement added at either end of a policy adds its effect where it applies, and takes none away.
LEMMA EffectsAdded ==
    ASSUME NEW p \in Seq(Statements), NEW s \in Statements, NEW ctx, NEW q \in {<<s>> \o p, Append(p, s)}
    PROVE  Effects(q, ctx) = Effects(p, ctx) \cup (IF StatementApplies(s, ctx) THEN {s.effect} ELSE {})
<1>1. {q[i] : i \in DOMAIN q} = {p[i] : i \in DOMAIN p} \cup {s}
  <2>1. CASE q = <<s>> \o p
    <3>1. \A i \in DOMAIN p : i + 1 \in DOMAIN q /\ q[i + 1] = p[i]
      BY <2>1
    <3>2. 1 \in DOMAIN q /\ q[1] = s
      BY <2>1
    <3>3. \A i \in DOMAIN q : i = 1 \/ (i - 1 \in DOMAIN p /\ q[i] = p[i - 1])
      BY <2>1
    <3>4. \A i \in DOMAIN p : p[i] \in {q[j] : j \in DOMAIN q}
      BY <3>1
    <3>5. \A i \in DOMAIN q : q[i] \in {p[j] : j \in DOMAIN p} \cup {s}
      BY <3>2, <3>3
    <3> QED BY <3>2, <3>4, <3>5
  <2>2. CASE q = Append(p, s)
    <3>1. \A i \in DOMAIN p : i \in DOMAIN q /\ q[i] = p[i]
      BY <2>2
    <3>2. Len(p) + 1 \in DOMAIN q /\ q[Len(p) + 1] = s
      BY <2>2
    <3>3. \A i \in DOMAIN q : i = Len(p) + 1 \/ i \in DOMAIN p
      BY <2>2
    <3> QED BY <3>1, <3>2, <3>3
  <2> QED BY <2>1, <2>2
<1>2. \A e : e \in Effects(q, ctx) <=> \E t \in {q[i] : i \in DOMAIN q} : StatementApplies(t, ctx) /\ t.effect = e
  BY DEF Effects
<1>3. \A e : e \in Effects(p, ctx) <=> \E t \in {p[i] : i \in DOMAIN p} : StatementApplies(t, ctx) /\ t.effect = e
  BY DEF Effects
<1> QED BY <1>1, <1>2, <1>3

\* The order of the statements does not matter to the effects that apply.
LEMMA EffectsReversed ==
    ASSUME NEW p \in Seq(Statements), NEW ctx
    PROVE  Effects(Reverse(p), ctx) = Effects(p, ctx)
<1> DEFINE q == Reverse(p)
<1>1. DOMAIN q = DOMAIN p /\ \A i \in DOMAIN p : q[i] = p[Len(p) - i + 1]
  BY DEF Reverse
<1>2. \A i \in DOMAIN p : Len(p) - i + 1 \in DOMAIN p /\ p[i] = q[Len(p) - i + 1]
  BY <1>1
<1> HIDE DEF q
<1>3. {q[i] : i \in DOMAIN q} = {p[i] : i \in DOMAIN p}
  BY <1>1, <1>2
<1>4. \A e : e \in Effects(q, ctx) <=> \E t \in {q[i] : i \in DOMAIN q} : StatementApplies(t, ctx) /\ t.effect = e
  BY DEF Effects
<1>5. \A e : e \in Effects(p, ctx) <=> \E t \in {p[i] : i \in DOMAIN p} : StatementApplies(t, ctx) /\ t.effect = e
  BY DEF Effects
<1> QED BY <1>3, <1>4, <1>5 DEF q

\* The decision depends on the effects that apply and on the ACL only: a Deny wins, then an Allow, then the ACL.
LEMMA DecisionOf ==
    ASSUME NEW p, NEW a, NEW ctx
    PROVE  /\ "Deny" \in Effects(p, ctx) => Decision(p, a, ctx) = "Deny"
           /\ "Deny" \notin Effects(p, ctx) /\ "Allow" \in Effects(p, ctx) => Decision(p, a, ctx) = "Allow"
           /\ Decision(p, a, ctx) = "Allow" => "Deny" \notin Effects(p, ctx)
           /\ \A q : Effects(q, ctx) = Effects(p, ctx) => Decision(q, a, ctx) = Decision(p, a, ctx)
<1>1. \A q : EvaluatePolicy(q, ctx) = IF "Deny" \in Effects(q, ctx) THEN "Deny"
                                     ELSE IF "Allow" \in Effects(q, ctx) THEN "Allow" ELSE "Neutral"
  BY DEF EvaluatePolicy, Effects
<1> QED BY <1>1 DEF Decision

\* A Deny statement, wherever it is added, denies what it applies to and changes nothing else; an Allow statement never
\* takes an access away; the order of the statements never matters.
THEOREM StatementsAlwaysCompose == Spec => []StatementsCompose
<1>1. ASSUME policy \in Seq(Statements) PROVE StatementsCompose
  <2> SUFFICES ASSUME NEW ctx \in Contexts, NEW s \in Statements
               PROVE  LET before == Decision(policy, acl, ctx)
                          after == {Decision(<<s>> \o policy, acl, ctx), Decision(Append(policy, s), acl, ctx)}
                      IN /\ s.effect = "Deny" => after = {IF StatementApplies(s, ctx) THEN "Deny" ELSE before}
                         /\ (s.effect = "Allow" /\ before = "Allow") => after = {"Allow"}
                         /\ Decision(Reverse(policy), acl, ctx) = before
    BY DEF StatementsCompose
  <2> DEFINE before == Decision(policy, acl, ctx)
  <2>1. ASSUME NEW q \in {<<s>> \o policy, Append(policy, s)}
        PROVE  /\ s.effect = "Deny" => Decision(q, acl, ctx) = IF StatementApplies(s, ctx) THEN "Deny" ELSE before
               /\ (s.effect = "Allow" /\ before = "Allow") => Decision(q, acl, ctx) = "Allow"
    <3>1. Effects(q, ctx) = Effects(policy, ctx) \cup (IF StatementApplies(s, ctx) THEN {s.effect} ELSE {})
      BY <1>1, EffectsAdded
    <3>2. CASE StatementApplies(s, ctx)
      BY <3>1, <3>2, DecisionOf
    <3>3. CASE ~StatementApplies(s, ctx)
      <4>1. Effects(q, ctx) = Effects(policy, ctx)
        BY <3>1, <3>3
      <4>2. Decision(q, acl, ctx) = before
        BY <4>1, DecisionOf
      <4> QED BY <3>3, <4>2
    <3> QED BY <3>2, <3>3
  <2>2. Decision(Reverse(policy), acl, ctx) = before
    BY <1>1, EffectsReversed, DecisionOf
  <2>3. s.effect = "Deny" => {Decision(<<s>> \o policy, acl, ctx), Decision(Append(policy, s), acl, ctx)}
                             = {IF StatementApplies(s, ctx) THEN "Deny" ELSE before}
    BY <2>1
  <2>4. (s.effect = "Allow" /\ before = "Allow") =>
            {Decision(<<s>> \o policy, acl, ctx), Decision(Append(policy, s), acl, ctx)} = {"Allow"}
    BY <2>1
  <2> QED BY <2>2, <2>3, <2>4
<1>2. AccessInv => StatementsCompose
  BY <1>1 DEF AccessInv
<1> QED BY <1>2, AccessInvariance, PTL

-----------------------------------------------------------------------------
(* Keys of the issuer *)

\* A key that the issuer no longer publishes was withdrawn after the request for the set that holds it began.
KeysOK ==
    /\ gone \in [Kids -> 0 .. Stale] /\ jwks.age \in 0 .. JwksTtl /\ fetch.age \in 0 .. FetchTimeout
    /\ jwks.keys \subseteq Kids /\ fetch.keys \subseteq Kids /\ published \subseteq Kids
    /\ ~Fetching => fetch.keys = {}
    /\ \A k \in Kids \ published :
          /\ k \in jwks.keys /\ Unexpired => gone[k] <= jwks.age + FetchTimeout
          /\ k \in fetch.keys => gone[k] <= fetch.age
    /\ DOMAIN calls = Clients

\* The invariant of the key cache holds at the start.
LEMMA KeysInit == McpInit => KeysOK
<1> USE JwksAssumption
<1> SUFFICES ASSUME McpInit PROVE KeysOK
  OBVIOUS
<1>1. jwks.age = JwksTtl /\ jwks.keys = {} /\ fetch.age = 0 /\ fetch.keys = {}
  BY DEF McpInit, NoJwks, NoFetch
<1>2. Stale \in Nat
  BY DEF Stale
<1>3. gone \in [Kids -> 0 .. Stale] /\ published \subseteq Kids /\ DOMAIN calls = Clients
  BY <1>2 DEF McpInit
<1> QED BY <1>1, <1>3 DEF KeysOK

\* Every step of the MCP front keeps the invariant of the key cache.
LEMMA KeysNext ==
    ASSUME KeysOK, McpNext
    PROVE  KeysOK'
<1> USE JwksAssumption
<1> USE DEF KeysOK
<1>0. Stale \in Nat
  BY DEF Stale
<1>1. ASSUME NEW c \in Clients, Authenticate(c) PROVE KeysOK'
  <2>1. UNCHANGED <<jwks, fetch, published, gone>> /\ DOMAIN calls' = Clients
    BY <1>1 DEF Authenticate, Ends
  <2>2. Fetching => Fetching'
    <3> SUFFICES ASSUME NEW d \in Clients, calls[d] \in {"fetching", "answered"} PROVE calls'[d] = calls[d]
      BY DEF Fetching
    <3>1. d # c
      BY <1>1 DEF Authenticate, Resting
    <3> QED BY <1>1, <3>1 DEF Authenticate, Ends
  <2> QED BY <2>1, <2>2 DEF Unexpired
<1>2. ASSUME NEW c \in Clients, AcquireRefresh(c) PROVE KeysOK'
  <2>1. UNCHANGED <<jwks, published, gone>> /\ DOMAIN calls' = Clients
    BY <1>2 DEF AcquireRefresh, Ends
  <2>2. \/ fetch' = NoFetch
        \/ fetch' = fetch /\ (Fetching => Fetching')
    <3> SUFFICES ASSUME fetch' = fetch, NEW d \in Clients, calls[d] \in {"fetching", "answered"}
                 PROVE  calls'[d] = calls[d]
      BY <1>2 DEF Fetching, AcquireRefresh
    <3>1. d # c
      BY <1>2 DEF AcquireRefresh
    <3> QED BY <1>2, <3>1 DEF AcquireRefresh, Ends
  <2> QED BY <2>1, <2>2 DEF Unexpired, NoFetch
<1>3. ASSUME NEW c \in Clients, Answered(c) PROVE KeysOK'
  <2>1. UNCHANGED <<jwks, published, gone>> /\ DOMAIN calls' = Clients /\ calls'[c] = "answered"
    BY <1>3 DEF Answered, Ends
  <2>2. fetch' = [fetch EXCEPT !.keys = published]
    BY <1>3 DEF Answered
  <2>3. Fetching'
    BY <2>1 DEF Fetching
  <2>4. fetch'.age = fetch.age /\ (fetch'.keys = published \/ fetch'.keys = fetch.keys)
    BY <2>2
  <2> QED BY <2>1, <2>3, <2>4 DEF Unexpired
<1>4. ASSUME NEW c \in Clients, StoreJwks(c) PROVE KeysOK'
  <2>1. UNCHANGED <<published, gone>> /\ DOMAIN calls' = Clients
    BY <1>4 DEF StoreJwks, Ends
  <2>2. jwks'.keys = fetch.keys /\ jwks'.age = 0 /\ fetch'.age = 0 /\ fetch'.keys = {}
    BY <1>4 DEF StoreJwks, NoFetch
  <2>3. \A k \in Kids \ published : k \in jwks'.keys => gone[k] <= jwks'.age + FetchTimeout
    BY <2>2
  <2> QED BY <2>1, <2>2, <2>3
<1>5. ASSUME NEW c \in Clients, FetchFails(c) PROVE KeysOK'
  <2>1. UNCHANGED <<jwks, published, gone>> /\ DOMAIN calls' = Clients
    BY <1>5 DEF FetchFails, Ends
  <2>2. fetch'.age = 0 /\ fetch'.keys = {}
    BY <1>5 DEF FetchFails, NoFetch
  <2> QED BY <2>1, <2>2 DEF Unexpired
<1>6. ASSUME TimePasses PROVE KeysOK'
  <2>1. UNCHANGED <<published, calls>> /\ (Fetching' <=> Fetching)
    BY <1>6 DEF TimePasses, Fetching
  <2>2. gone' = [k \in Kids |-> Grown(gone[k], Stale)]
    BY <1>6 DEF TimePasses
  <2>3. \A k \in Kids : gone'[k] \in 0 .. Stale /\ gone'[k] <= gone[k] + 1
    BY <1>0, <2>2 DEF Grown
  <2>4. gone' \in [Kids -> 0 .. Stale]
    BY <2>2, <2>3
  <2>5. jwks'.keys = jwks.keys /\ jwks'.age \in 0 .. JwksTtl /\ (Unexpired' => Unexpired /\ jwks'.age = jwks.age + 1)
    <3>1. jwks' = [jwks EXCEPT !.age = Grown(@, JwksTtl)]
      BY <1>6 DEF TimePasses
    <3>2. "age" \in DOMAIN jwks => jwks'.age = Grown(jwks.age, JwksTtl)
      BY <3>1
    <3> QED BY <3>1, <3>2 DEF Grown, Unexpired
  <2>6. CASE Fetching
    <3>1. fetch'.keys = fetch.keys /\ fetch'.age = fetch.age + 1 /\ fetch.age < FetchTimeout
      BY <1>6, <2>6 DEF TimePasses
    <3> QED BY <2>1, <2>3, <2>4, <2>5, <2>6, <3>1
  <2>7. CASE ~Fetching
    <3>1. fetch' = fetch
      BY <1>6, <2>7 DEF TimePasses
    <3> QED BY <2>1, <2>3, <2>4, <2>5, <2>7, <3>1
  <2> QED BY <2>6, <2>7
<1>7. ASSUME NEW k \in Kids, Publish(k) \/ Withdraw(k) PROVE KeysOK'
  <2>1. UNCHANGED <<jwks, fetch, calls>> /\ (Fetching' <=> Fetching)
    BY <1>7 DEF Publish, Withdraw, Fetching
  <2>2. CASE Publish(k)
    BY <2>1, <2>2 DEF Publish, Unexpired
  <2>3. CASE Withdraw(k)
    <3>1. published' = published \ {k} /\ gone' = [gone EXCEPT ![k] = 0]
      BY <2>3 DEF Withdraw
    <3>2. gone' \in [Kids -> 0 .. Stale] /\ gone'[k] = 0 /\ \A j \in Kids \ {k} : gone'[j] = gone[j]
      BY <1>0, <3>1
    <3> QED BY <2>1, <3>1, <3>2 DEF Unexpired
  <2> QED BY <1>7, <2>2, <2>3
<1>8. ASSUME Outage PROVE KeysOK'
  BY <1>8 DEF Outage, Fetching, Unexpired
<1> QED BY <1>1, <1>2, <1>3, <1>4, <1>5, <1>6, <1>7, <1>8 DEF McpNext, McpCall

\* A cached or fetched key that the issuer has withdrawn was withdrawn no longer ago than the age of the set that holds
\* it and the time a request for it may take.
THEOREM KeysInvariance == Spec => []KeysOK
<1>1. Init => KeysOK
  BY KeysInit DEF Init
<1>2. ASSUME KeysOK, [Next]_vars PROVE KeysOK'
  <2>1. CASE AtMcp(McpNext)
    BY <1>2, <2>1, KeysNext DEF AtMcp
  <2>2. CASE UNCHANGED mcpVars
    BY <1>2, <2>2 DEF mcpVars, KeysOK, Fetching, Unexpired
  <2>3. CASE UNCHANGED vars
    <3>1. UNCHANGED mcpVars
      BY <2>3 DEF vars
    <3> QED BY <2>2, <3>1
  <2>4. \/ AtMcp(McpNext) \/ UNCHANGED vars \/ UNCHANGED mcpVars
    BY <1>2 DEF Next, SignRequest, Request, Tick, AzureCheck, AzureWrite, McpTool, PutPolicy, DeletePolicy,
                PutAcl, Login, Logout, AdminRequest, Restart, SendAnswer
  <2> QED BY <2>1, <2>2, <2>3, <2>4
<1>3. KeysOK /\ [Next]_vars => KeysOK'
  BY <1>2
<1> QED BY <1>1, <1>3, PTL DEF Spec

\* A token is accepted only under a key that the issuer publishes or withdrew less than the life of the cached set and
\* one request ago: no cached key set outlives its bound, whatever the order of requests, answers and rotations.
THEOREM KeysAreFresh == Spec => KeyFresh
<1> USE JwksAssumption
<1> DEFINE A == \A c \in Clients : (calls[c] # "200" /\ calls'[c] = "200") =>
                    TokenOf[c].kid \in published \/ gone[TokenOf[c].kid] < Stale
<1>1. ASSUME KeysOK, McpNext PROVE A
  <2> SUFFICES ASSUME NEW c \in Clients, calls[c] # "200", calls'[c] = "200"
               PROVE  TokenOf[c].kid \in published \/ gone[TokenOf[c].kid] < Stale
    OBVIOUS
  <2> DEFINE kid == TokenOf[c].kid
  <2>1. \/ kid \in jwks.keys /\ Unexpired
        \/ kid \in fetch.keys
    <3>1. PICK d \in Clients : McpCall(d)
      BY <1>1 DEF McpNext, TimePasses, Publish, Withdraw, Outage
    <3>2. d = c
      BY <1>1, <3>1 DEF KeysOK, McpCall, Authenticate, AcquireRefresh, Answered, StoreJwks, FetchFails, Ends
    <3>3. CASE Authenticate(c)
      <4>1. FreshCachedSetFor(kid)
        BY <1>1, <3>3 DEF Authenticate, Ends, KeysOK
      <4> QED BY <4>1 DEF FreshCachedSetFor
    <3>4. CASE AcquireRefresh(c)
      <4>1. Unexpired /\ Verdict(TokenOf[c], jwks.keys) = "200"
        BY <1>1, <3>4 DEF AcquireRefresh, Ends, KeysOK
      <4> QED BY <4>1 DEF Verdict
    <3>5. CASE StoreJwks(c)
      <4>1. Verdict(TokenOf[c], fetch.keys) = "200"
        BY <1>1, <3>5 DEF StoreJwks, Ends, KeysOK
      <4> QED BY <4>1 DEF Verdict
    <3>6. ~Answered(c) /\ ~FetchFails(c)
      BY <1>1 DEF Answered, FetchFails, Ends, KeysOK
    <3> QED BY <3>1, <3>2, <3>3, <3>4, <3>5, <3>6 DEF McpCall
  <2> HIDE DEF kid
  <2>2. CASE kid \in jwks.keys /\ Unexpired
    <3>1. kid \in published \/ gone[kid] < Stale
      BY <1>1, <2>2 DEF KeysOK, Unexpired, Stale
    <3> QED BY <3>1 DEF kid
  <2>3. CASE kid \in fetch.keys
    <3>1. kid \in published \/ gone[kid] < Stale
      BY <1>1, <2>3 DEF KeysOK, Stale
    <3> QED BY <3>1 DEF kid
  <2> QED BY <2>1, <2>2, <2>3
<1>2. ASSUME KeysOK, [Next]_vars PROVE [A]_mcpVars
  <2>1. CASE AtMcp(McpNext)
    BY <1>1, <1>2, <2>1 DEF AtMcp
  <2>2. CASE UNCHANGED vars
    BY <2>2 DEF vars
  <2>3. \/ AtMcp(McpNext) \/ UNCHANGED vars \/ UNCHANGED mcpVars
    BY <1>2 DEF Next, SignRequest, Request, Tick, AzureCheck, AzureWrite, McpTool, PutPolicy, DeletePolicy,
                PutAcl, Login, Logout, AdminRequest, Restart, SendAnswer
  <2> QED BY <2>1, <2>2, <2>3
<1>3. KeysOK /\ [Next]_vars => [A]_mcpVars
  BY <1>2
<1> QED BY <1>3, KeysInvariance, PTL DEF Spec, KeyFresh

-----------------------------------------------------------------------------
(* The refresh lock: the safety half of KeyLearned *)

\* A call that waits for the lock or holds it.
Queued(c) == calls[c] \in {"waiting", "fetching", "answered"}

\* Every call that waits or fetches stands in the queue, once, and the one that fetches stands first.
QueueOK ==
    /\ queue \in Seq(Clients) /\ DOMAIN calls = Clients
    /\ \A i, j \in 1 .. Len(queue) : queue[i] = queue[j] => i = j
    /\ \A c \in Clients : Queued(c) <=> \E i \in 1 .. Len(queue) : queue[i] = c
    /\ \A c \in Clients : calls[c] \in {"fetching", "answered"} => Len(queue) > 0 /\ queue[1] = c

\* Nobody waits for a lock that nobody holds, and one refresh is under way at most: if a call waits, there
\* is one that stands first, and no other call fetches.
LockHeld ==
    \A c \in Clients : Queued(c) =>
        \E h \in Clients : /\ Head(queue) = h /\ Queued(h)
                           /\ \A d \in Clients \ {h} : calls[d] \notin {"fetching", "answered"}

\* c stands before d.
Ahead(c, d) == \E i, j \in 1 .. Len(queue) : i < j /\ queue[i] = c /\ queue[j] = d

\* A call that stands before another has its answer first.
FirstServed ==
    \A c, d \in Clients : Ahead(c, d) => Queued(d)' /\ (Ahead(c, d)' \/ Resting(c)')

\* What a step does to the queue: nothing, or a call joins it at the end, or the first one leaves it.
QueueStays ==
    /\ queue' = queue /\ DOMAIN calls' = Clients
    /\ \A d \in Clients : /\ Queued(d)' <=> Queued(d)
                          /\ calls'[d] \in {"fetching", "answered"} =>
                                calls[d] \in {"fetching", "answered"} \/ (Len(queue) > 0 /\ queue[1] = d)
Joins(c) == ~Queued(c) /\ queue' = Append(queue, c) /\ calls' = [calls EXCEPT ![c] = "waiting"]
Leaves(c) ==
    /\ Len(queue) > 0 /\ queue[1] = c /\ queue' = Tail(queue)
    /\ calls' = [calls EXCEPT ![c] = calls'[c]] /\ Resting(c)'

\* The answer to a call ends it.
LEMMA VerdictRests == \A t, keys : Verdict(t, keys) \in {"200", "401", "403"}
BY DEF Verdict

\* Every step of the MCP front is one of these.
LEMMA QueueMoves ==
    ASSUME QueueOK, McpNext
    PROVE  QueueStays \/ \E c \in Clients : Joins(c) \/ Leaves(c)
<1>0. DOMAIN calls = Clients /\ queue \in Seq(Clients)
  BY DEF QueueOK
<1>1. ASSUME NEW c \in Clients, Authenticate(c) PROVE QueueStays \/ Joins(c)
  <2>1. ~Queued(c)
    BY <1>1 DEF Authenticate, Resting, Queued
  <2>2. ASSUME NEW x, Ends(c, x), x \in {"200", "401", "403"}, UNCHANGED queue PROVE QueueStays
    BY <1>0, <2>1, <2>2 DEF Ends, QueueStays, Queued
  <2>3. ASSUME Ends(c, "waiting"), queue' = Append(queue, c) PROVE Joins(c)
    BY <2>1, <2>3 DEF Ends, Joins
  <2> QED
    BY <1>1, <2>2, <2>3, VerdictRests DEF Authenticate
<1>2. ASSUME NEW c \in Clients, Queued(c) PROVE Len(queue) > 0
  BY <1>0, <1>2 DEF QueueOK
<1>3. ASSUME NEW c \in Clients, NEW x, Ends(c, x), x \in {"200", "401", "403", "503"}, queue' = Tail(queue),
             Len(queue) > 0, queue[1] = c
      PROVE  Leaves(c)
  BY <1>0, <1>3 DEF Ends, Leaves, Resting
<1>4. ASSUME NEW c \in Clients, AcquireRefresh(c) PROVE QueueStays \/ Leaves(c)
  <2>1. calls[c] = "waiting" /\ Head(queue) = c
    BY <1>4 DEF AcquireRefresh
  <2>2. Len(queue) > 0 /\ queue[1] = c
    BY <1>0, <1>2, <2>1 DEF Queued
  <2>3. ASSUME Ends(c, "fetching"), UNCHANGED queue PROVE QueueStays
    BY <1>0, <2>1, <2>2, <2>3 DEF Ends, QueueStays, Queued
  <2> QED
    BY <1>3, <1>4, <2>2, <2>3, VerdictRests DEF AcquireRefresh
<1>5. ASSUME NEW c \in Clients, Answered(c) PROVE QueueStays
  BY <1>0, <1>5 DEF Answered, Ends, QueueStays, Queued
<1>6. ASSUME NEW c \in Clients, StoreJwks(c) \/ FetchFails(c) PROVE Leaves(c)
  <2>1. calls[c] \in {"fetching", "answered"} /\ queue' = Tail(queue)
    BY <1>6 DEF StoreJwks, FetchFails
  <2>2. Len(queue) > 0 /\ queue[1] = c
    BY <2>1 DEF QueueOK
  <2> QED
    BY <1>3, <1>6, <2>1, <2>2, VerdictRests DEF StoreJwks, FetchFails
<1>7. ASSUME UNCHANGED <<queue, calls>> PROVE QueueStays
  BY <1>0, <1>7 DEF QueueStays, Queued
<1>8. TimePasses \/ Outage \/ (\E k \in Kids : Publish(k) \/ Withdraw(k)) => UNCHANGED <<queue, calls>>
  BY DEF TimePasses, Outage, Publish, Withdraw
<1> QED
  BY <1>1, <1>4, <1>5, <1>6, <1>7, <1>8 DEF McpNext, McpCall

\* Each of them keeps the queue in order.
LEMMA QueueStep ==
    ASSUME QueueOK, QueueStays \/ \E c \in Clients : Joins(c) \/ Leaves(c)
    PROVE  QueueOK' /\ FirstServed
<1>0. /\ queue \in Seq(Clients) /\ DOMAIN calls = Clients
      /\ \A i, j \in 1 .. Len(queue) : queue[i] = queue[j] => i = j
      /\ \A c \in Clients : Queued(c) <=> \E i \in 1 .. Len(queue) : queue[i] = c
      /\ \A c \in Clients : calls[c] \in {"fetching", "answered"} => Len(queue) > 0 /\ queue[1] = c
  BY DEF QueueOK
<1>1. CASE QueueStays
  <2>1. QueueOK'
    BY <1>0, <1>1 DEF QueueStays, QueueOK
  <2>2. FirstServed
    BY <1>0, <1>1 DEF QueueStays, FirstServed, Ahead
  <2> QED
    BY <2>1, <2>2
<1>2. ASSUME NEW c \in Clients, Joins(c) PROVE QueueOK' /\ FirstServed
  <2>1. /\ queue' \in Seq(Clients) /\ Len(queue') = Len(queue) + 1 /\ queue'[Len(queue')] = c
        /\ \A i \in 1 .. Len(queue) : queue'[i] = queue[i]
    BY <1>0, <1>2 DEF Joins
  <2>2. \A i \in 1 .. Len(queue) : queue[i] # c
    BY <1>0, <1>2 DEF Joins
  <2>3. DOMAIN calls' = Clients /\ calls'[c] = "waiting" /\ \A d \in Clients \ {c} : calls'[d] = calls[d]
    BY <1>0, <1>2 DEF Joins
  <2>4. \A i, j \in 1 .. Len(queue') : queue'[i] = queue'[j] => i = j
    BY <1>0, <2>1, <2>2
  <2>5. \A d \in Clients : Queued(d)' <=> (d = c \/ Queued(d))
    BY <2>3 DEF Queued
  <2>6. \A d \in Clients : (\E i \in 1 .. Len(queue') : queue'[i] = d) <=> (d = c \/ \E i \in 1 .. Len(queue) : queue[i] = d)
    <3> SUFFICES ASSUME NEW d \in Clients
                 PROVE  (\E i \in 1 .. Len(queue') : queue'[i] = d) <=> (d = c \/ \E i \in 1 .. Len(queue) : queue[i] = d)
      OBVIOUS
    <3>1. Len(queue') \in 1 .. Len(queue') /\ 1 .. Len(queue') = 1 .. Len(queue) \cup {Len(queue')}
      BY <1>0, <2>1
    <3> QED
      BY <2>1, <3>1
  <2>7. \A d \in Clients : calls'[d] \in {"fetching", "answered"} => Len(queue') > 0 /\ queue'[1] = d
    BY <1>0, <2>1, <2>3
  <2>8. \A d \in Clients : Queued(d)' <=> \E i \in 1 .. Len(queue') : queue'[i] = d
    BY <1>0, <2>5, <2>6
  <2>9. QueueOK'
    BY <2>1, <2>3, <2>4, <2>7, <2>8 DEF QueueOK
  <2>10. FirstServed
    <3> SUFFICES ASSUME NEW d \in Clients, NEW e \in Clients, Ahead(d, e) PROVE Queued(e)' /\ Ahead(d, e)'
      BY DEF FirstServed
    <3>1. PICK i \in 1 .. Len(queue), j \in 1 .. Len(queue) : i < j /\ queue[i] = d /\ queue[j] = e
      BY DEF Ahead
    <3>2. i \in 1 .. Len(queue') /\ j \in 1 .. Len(queue') /\ queue'[i] = d /\ queue'[j] = e
      BY <1>0, <2>1, <3>1
    <3>3. Ahead(d, e)'
      BY <3>1, <3>2 DEF Ahead
    <3>4. Queued(e)'
      BY <1>0, <2>5, <3>1
    <3> QED
      BY <3>3, <3>4
  <2> QED
    BY <2>9, <2>10
<1>3. ASSUME NEW c \in Clients, Leaves(c) PROVE QueueOK' /\ FirstServed
  <2>1. /\ queue' \in Seq(Clients) /\ Len(queue') = Len(queue) - 1 /\ queue[1] = c /\ Len(queue) > 0
        /\ \A i \in 1 .. Len(queue') : queue'[i] = queue[i + 1]
    BY <1>0, <1>3 DEF Leaves
  <2>2. DOMAIN calls' = Clients /\ ~Queued(c)' /\ \A d \in Clients \ {c} : calls'[d] = calls[d]
    BY <1>0, <1>3 DEF Leaves, Resting, Queued
  <2>3. \A i \in 1 .. Len(queue') : i + 1 \in 1 .. Len(queue) /\ queue[i + 1] # c
    BY <1>0, <2>1
  <2>4. \A i, j \in 1 .. Len(queue') : queue'[i] = queue'[j] => i = j
    <3> SUFFICES ASSUME NEW i \in 1 .. Len(queue'), NEW j \in 1 .. Len(queue'), queue'[i] = queue'[j] PROVE i = j
      OBVIOUS
    <3>1. i + 1 = j + 1
      BY <1>0, <2>1, <2>3
    <3> QED
      BY <3>1
  <2>5. \A d \in Clients : Queued(d)' <=> (d # c /\ Queued(d))
    BY <2>2 DEF Queued
  <2>6. ASSUME NEW d \in Clients PROVE Queued(d)' <=> \E i \in 1 .. Len(queue') : queue'[i] = d
    <3>1. ASSUME NEW i \in 1 .. Len(queue'), queue'[i] = d PROVE Queued(d)'
      BY <1>0, <2>1, <2>3, <2>5, <3>1
    <3>2. ASSUME Queued(d)' PROVE \E i \in 1 .. Len(queue') : queue'[i] = d
      <4>1. d # c
        BY <2>5, <3>2
      <4>2. PICK i \in 1 .. Len(queue) : queue[i] = d
        BY <1>0, <2>5, <3>2
      <4>3. i # 1
        BY <2>1, <4>1, <4>2
      <4>4. i - 1 \in 1 .. Len(queue') /\ (i - 1) + 1 = i
        BY <1>0, <2>1, <4>3
      <4>5. queue'[i - 1] = queue[i]
        BY <2>1, <4>4
      <4> QED
        BY <4>2, <4>4, <4>5
    <3> QED
      BY <3>1, <3>2
  <2>7. \A d \in Clients : calls'[d] \notin {"fetching", "answered"}
    BY <1>0, <2>1, <2>2 DEF Queued
  <2>8. QueueOK'
    BY <2>1, <2>2, <2>4, <2>6, <2>7 DEF QueueOK
  <2>9. FirstServed
    <3> SUFFICES ASSUME NEW d \in Clients, NEW e \in Clients, Ahead(d, e)
                 PROVE  Queued(e)' /\ (Ahead(d, e)' \/ Resting(d)')
      BY DEF FirstServed
    <3>1. PICK i \in 1 .. Len(queue), j \in 1 .. Len(queue) : i < j /\ queue[i] = d /\ queue[j] = e
      BY DEF Ahead
    <3>2. j # 1 /\ e # c
      BY <1>0, <2>1, <3>1
    <3>3. Queued(e)'
      BY <1>0, <2>5, <3>1, <3>2
    <3>4. CASE i = 1
      BY <1>3, <2>1, <3>1, <3>3, <3>4 DEF Leaves
    <3>5. CASE i # 1
      <4>1. /\ i - 1 \in 1 .. Len(queue') /\ j - 1 \in 1 .. Len(queue') /\ i - 1 < j - 1
            /\ (i - 1) + 1 = i /\ (j - 1) + 1 = j
        BY <1>0, <2>1, <3>1, <3>2, <3>5
      <4>2. queue'[i - 1] = d /\ queue'[j - 1] = e
        BY <2>1, <3>1, <4>1
      <4> QED
        BY <3>3, <4>1, <4>2 DEF Ahead
    <3> QED
      BY <3>4, <3>5
  <2> QED
    BY <2>8, <2>9
<1> QED
  BY <1>1, <1>2, <1>3

\* The lock of the refresh passes from call to call in the order of their arrival, for any callers, keys
\* and times: a call that waits waits for the one that stands first, and nobody is overtaken.
THEOREM CallersTakeTurns == Spec => []LockHeld /\ [][FirstServed]_vars
<1>1. Init => QueueOK
  <2> SUFFICES ASSUME Init PROVE QueueOK
    OBVIOUS
  <2>1. queue = <<>> /\ calls = [c \in Clients |-> "idle"]
    BY DEF Init, McpInit
  <2>2. queue \in Seq(Clients) /\ Len(queue) = 0 /\ 1 .. Len(queue) = {}
    BY <2>1
  <2>3. \A c \in Clients : calls[c] = "idle"
    BY <2>1
  <2> QED
    BY <2>1, <2>2, <2>3 DEF QueueOK, Queued
<1>2. ASSUME QueueOK, [Next]_vars PROVE QueueOK' /\ [FirstServed]_vars
  <2>1. CASE AtMcp(McpNext)
    BY <1>2, <2>1, QueueMoves, QueueStep DEF AtMcp
  <2>2. CASE UNCHANGED mcpVars
    <3>1. QueueStays
      BY <1>2, <2>2 DEF mcpVars, QueueOK, QueueStays, Queued
    <3> QED
      BY <1>2, <3>1, QueueStep
  <2>3. CASE UNCHANGED vars
    BY <2>2, <2>3 DEF vars
  <2>4. \/ AtMcp(McpNext) \/ UNCHANGED vars \/ UNCHANGED mcpVars
    BY <1>2 DEF Next, SignRequest, Request, Tick, AzureCheck, AzureWrite, McpTool, PutPolicy, DeletePolicy,
                PutAcl, Login, Logout, AdminRequest, Restart, SendAnswer
  <2> QED
    BY <2>1, <2>2, <2>3, <2>4
<1>3. QueueOK /\ [Next]_vars => QueueOK' /\ [FirstServed]_vars
  BY <1>2
<1>4. QueueOK => LockHeld
  <2> SUFFICES ASSUME QueueOK, NEW c \in Clients, Queued(c)
               PROVE  \E h \in Clients : /\ Head(queue) = h /\ Queued(h)
                                         /\ \A d \in Clients \ {h} : calls[d] \notin {"fetching", "answered"}
    BY DEF LockHeld
  <2>1. queue \in Seq(Clients) /\ Len(queue) > 0
    BY DEF QueueOK
  <2>2. queue[1] \in Clients /\ Head(queue) = queue[1] /\ 1 \in 1 .. Len(queue)
    BY <2>1
  <2>3. Queued(queue[1])
    BY <2>2 DEF QueueOK
  <2>4. \A d \in Clients \ {queue[1]} : calls[d] \notin {"fetching", "answered"}
    BY DEF QueueOK
  <2> QED
    BY <2>2, <2>3, <2>4
<1> QED
  BY <1>1, <1>3, <1>4, PTL DEF Spec
=============================================================================
