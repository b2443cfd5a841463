----------------------------- MODULE MCIngress ------------------------------
(***************************************************************************)
(* The doors by which messages and storage requests come in, one scene     *)
(* each: an SMTP connection, the HTTP mail adapters, the text adapters,    *)
(* repeatable ACS texts and mail, storage requests under injected failures,*)
(* and uploads that declare digests.                                       *)
(* SMTP and the mail adapters file through the same fan-out.  A scene's    *)
(* requests do not read what another's have left, so one behaviour stays   *)
(* in one scene.  The instance is small, with requests that differ in what *)
(* the doors' checks tell apart.                                           *)
(***************************************************************************)
EXTENDS Smtp, MailAdapters, TextAdapters, AcsSms, EmailRepeat, Faults, Checksums

VARIABLE scene

ingressVars == <<scene, fanoutVars, smtpVars, mailVars, textVars, acsVars, emailVars, faultVars, sumVars>>

Scenes == {"smtp", "mail", "text", "acs", "email", "faults", "checksums"}

\* What the scene does not use is in one of its initial states.
IngressInit ==
    /\ scene \in Scenes
    /\ FanoutInit /\ (scene \notin {"smtp", "mail"} => store = "journal")
    /\ SmtpInit /\ MailInit /\ TextInit
    /\ AcsInit /\ (scene # "acs" => texts = {})
    /\ EmailInit /\ (scene # "email" => mail = {})
    /\ FaultInit /\ (scene # "faults" => provider = "s3" /\ \A c \in Clients : goal[c].method = "GET")
    /\ ChecksumInit

SmtpScene ==
    /\ scene = "smtp" /\ (SmtpNext \/ (Filing /\ UNCHANGED smtpVars))
    /\ UNCHANGED <<scene, mailVars, textVars, acsVars, emailVars, faultVars, sumVars>>

MailScene ==
    /\ scene = "mail" /\ (MailNext \/ (Filing /\ UNCHANGED mailVars))
    /\ UNCHANGED <<scene, smtpVars, textVars, acsVars, emailVars, faultVars, sumVars>>

TextScene ==
    /\ scene = "text" /\ TextNext
    /\ UNCHANGED <<scene, fanoutVars, smtpVars, mailVars, acsVars, emailVars, faultVars, sumVars>>

AcsScene ==
    /\ scene = "acs" /\ AcsNext
    /\ UNCHANGED <<scene, fanoutVars, smtpVars, mailVars, textVars, emailVars, faultVars, sumVars>>

EmailScene ==
    /\ scene = "email" /\ EmailNext
    /\ UNCHANGED <<scene, fanoutVars, smtpVars, mailVars, textVars, acsVars, faultVars, sumVars>>

FaultScene ==
    /\ scene = "faults" /\ FaultNext
    /\ UNCHANGED <<scene, fanoutVars, smtpVars, mailVars, textVars, acsVars, emailVars, sumVars>>

ChecksumScene ==
    /\ scene = "checksums" /\ ChecksumNext
    /\ UNCHANGED <<scene, fanoutVars, smtpVars, mailVars, textVars, acsVars, emailVars, faultVars>>

IngressNext == SmtpScene \/ MailScene \/ TextScene \/ AcsScene \/ EmailScene \/ FaultScene \/ ChecksumScene

IngressSpec == IngressInit /\ [][IngressNext]_ingressVars

-----------------------------------------------------------------------------
\* The answer of a mail or text adapter tells what has become of the request:
\* AnswersTrue for the mail adapters' fan-out, TextAnswersTrue for the text
\* adapters' one capture.
AnsweredAsFiled == AnswersTrue /\ TextAnswersTrue

-----------------------------------------------------------------------------
\* Mail clients and operation ids are interchangeable.
MCSymmetry == Permutations(Client) \cup Permutations(Op)

-----------------------------------------------------------------------------
MCCommands ==
    {<<"EHLO", "h">>, <<"EHLO">>, <<"MAIL", "a">>, <<"MAIL", "<>">>, <<"MAIL", "a", "p">>,
     <<"RCPT", "a">>, <<"RCPT", "b">>, <<"RCPT", "?">>, <<"DATA">>, <<"DATA", "x">>, <<"RSET">>,
     <<"NOOP">>, <<"QUIT">>, <<"VRFY", "a", "b", "c">>, <<>>}

MCBodyLines ==
    {<<>>, <<".">>, <<".", "x">>, <<"QUIT">>, <<"Cc:b">>,
     <<"x", "x", "x", "x", "x", "x">>, <<".", ".", "x", "x", "x">>}

-----------------------------------------------------------------------------
MailDoors == {"sendgrid", "ses", "acs"}

MCMaxRecipients == [door \in MailDoors |-> 3]
MCMaxReplyTo == [door \in MailDoors |-> 1]

A == [box |-> "a", form |-> "plain"]
A2 == [box |-> "a", form |-> "upper"]
B == [box |-> "b", form |-> "plain"]
Wrong == [box |-> "c", form |-> "bad"]

Person == [extra |-> FALSE, to |-> <<<<A>>>>, cc |-> <<>>, bcc |-> <<>>, from |-> <<>>,
           subject |-> <<>>, headers |-> <<>>]

Persons ==
    {Person, [Person EXCEPT !.extra = TRUE],
     [Person EXCEPT !.to = <<<<B>>>>, !.headers = <<[name |-> "h", form |-> "upper"]>>],
     [Person EXCEPT !.to = <<<<B>>>>, !.subject = <<"own">>, !.from = <<B>>],
     [Person EXCEPT !.to = <<<<A, A2>>>>], [Person EXCEPT !.cc = <<<<A2>>>>],
     [Person EXCEPT !.cc = <<<<B>>>>, !.bcc = <<<<A2>>>>],
     [Person EXCEPT !.to = <<>>, !.cc = <<<<B>>>>], [Person EXCEPT !.to = <<<<>>>>],
     [Person EXCEPT !.bcc = <<<<Wrong>>>>]}

Doc == [json |-> TRUE, extra |-> FALSE, people |-> <<Person>>, from |-> <<A>>, subject |-> <<"s">>,
        content |-> <<"text">>, attachments |-> <<>>, headers |-> <<>>, replyTo |-> <<>>, replyToList |-> <<>>]

Docs ==
    {[Doc EXCEPT !.people = ps, !.headers = hs] :
        ps \in {<<>>} \cup {<<p>> : p \in Persons} \cup {<<p, q>> : p, q \in Persons}
                 \cup {<<Person, Person, Person>>},
        hs \in {<<>>, <<[name |-> "h", form |-> "plain"]>>}}
    \cup {[Doc EXCEPT !.json = FALSE], [Doc EXCEPT !.extra = TRUE], [Doc EXCEPT !.from = <<>>],
          [Doc EXCEPT !.from = <<Wrong>>], [Doc EXCEPT !.subject = <<>>], [Doc EXCEPT !.subject = <<"">>],
          [Doc EXCEPT !.content = <<>>], [Doc EXCEPT !.content = <<"text", "html">>],
          [Doc EXCEPT !.attachments = <<<<>>>>], [Doc EXCEPT !.attachments = <<<<"ok">>>>],
          [Doc EXCEPT !.attachments = <<<<"bad">>>>],
          [Doc EXCEPT !.headers = <<[name |-> "reserved", form |-> "plain"]>>],
          [Doc EXCEPT !.headers = <<[name |-> "h", form |-> "plain"], [name |-> "h", form |-> "upper"]>>],
          [Doc EXCEPT !.headers = <<[name |-> "h", form |-> "bad"]>>],
          [Doc EXCEPT !.replyTo = <<A>>, !.replyToList = <<<<B>>>>],
          [Doc EXCEPT !.replyToList = <<<<A, B>>>>], [Doc EXCEPT !.replyTo = <<Wrong>>]}

MailRequest(door, doc) ==
    [door |-> door, method |-> "POST", authorized |-> TRUE, type |-> "json", body |-> "whole", doc |-> doc]

MCMailRequests ==
    {MailRequest("sendgrid", d) : d \in Docs}
    \cup {MailRequest(door, d) : door \in {"ses", "acs"}, d \in {x \in Docs : Len(x.people) = 1}}
    \cup UNION {LET q == MailRequest(door, Doc)
                IN  {[q EXCEPT !.method = "GET"], [q EXCEPT !.authorized = FALSE], [q EXCEPT !.type = "form"],
                     [q EXCEPT !.body = "large"], [q EXCEPT !.body = "cut"], [q EXCEPT !.body = "over"]} :
                door \in MailDoors}

-----------------------------------------------------------------------------
Field(n, v) == [name |-> n, value |-> v]

\* A form with at most one of its fields left out, and at most one added.
Forms(base, extra) ==
    LET short == {base} \cup {SelectSeq(base, LAMBDA f : f # base[i]) : i \in 1..Len(base)}
    IN  short \cup {Append(s, x) : s \in short, x \in extra}

SnsForms ==
    Forms(<<Field("Action", "Publish"), Field("Version", "2010-03-31"), Field("PhoneNumber", "+1"), Field("Message", "m")>>,
          {Field("PhoneNumber", "+2"), Field("Message", "long"), Field("Message", "{default,sms}"),
           Field("MessageStructure", "json"), Field("MessageStructure", "xml"), Field("Subject", "bad"),
           Field("TopicArn", "t"), Field("MessageGroupId", "g"), Field("Attribute", "a"),
           Field("Attribute", "bad type"), Field("Other", "o")})
    \cup {<<Field("Action", "Publish"), Field("Version", "2010-03-31"), Field("PhoneNumber", "+1"),
            Field("Message", m), Field("MessageStructure", "json")>> : m \in {"{default}", "{default,sms}", "{sms}"}}
    \cup {<<Field("Action", "Subscribe")>>}

VoiceForms ==
    Forms(<<Field("DestinationPhoneNumber", "+1"), Field("MessageBody", "m"), Field("OriginationIdentity", "o")>>,
          {Field("DryRun", "true"), Field("DryRun", "false"), Field("MediaUrls", "u"), Field("Keyword", "k"),
           Field("MaxPrice", "bad"), Field("Other", "x")})
    \cup {<<Field("DestinationPhoneNumber", "+1"), Field("OriginationIdentity", "o"),
            Field("MediaUrls", "u"), Field("MediaUrls", "v")>>}

TwilioForms ==
    Forms(<<Field("To", "+1"), Field("From", "+9"), Field("Body", "m")>>,
          {Field("To", "+2"), Field("Body", "n"), Field("Body", "long"), Field("MediaUrl", "u"), Field("MediaUrl", "bad"),
           Field("MessagingServiceSid", "s"), Field("StatusCallback", "bad"), Field("From", "bad"), Field("Other", "x")})
    \cup {<<Field("To", "+1"), Field("From", "+9"), Field("MediaUrl", "u"), Field("MediaUrl", "v"), Field("MediaUrl", "w")>>}

TextRequest(path, scope, target, method, type, form) ==
    [path |-> path, scope |-> scope, target |-> target, method |-> method, type |-> type,
     authorized |-> TRUE, json |-> TRUE, body |-> "whole", form |-> form]

Spoiled(q) ==
    {q, [q EXCEPT !.authorized = FALSE], [q EXCEPT !.json = FALSE], [q EXCEPT !.body = "large"], [q EXCEPT !.body = "cut"],
     [q EXCEPT !.method = "PUT"], [q EXCEPT !.method = "GET"], [q EXCEPT !.type = "json"], [q EXCEPT !.scope = "none"]}

MCTextRequests ==
    UNION {Spoiled(TextRequest("root", "sns", "none", "POST", "form", f)) : f \in SnsForms}
    \cup UNION {Spoiled(TextRequest("root", "voice", t, "POST", "json", f)) :
                  t \in VoiceTargets \cup {"none"}, f \in VoiceForms}
    \cup UNION {Spoiled(TextRequest("twilio", "none", t, "POST", "form", f)) :
                  t \in {"messages", "media", "bad account"}, f \in TwilioForms}
    \cup {TextRequest("storage", "none", "none", "GET", "none", <<>>)}

-----------------------------------------------------------------------------
Recipient(to, rid, first) == [to |-> to, rid |-> rid, first |-> first]

R == Recipient("p", <<"r">>, <<"d">>)

SendOf(rs, hash) == [recipients |-> rs, hash |-> hash, fields |-> TRUE, options |-> TRUE, fits |-> TRUE]

MCSends ==
    {SendOf(<<R>>, "x"), SendOf(<<R>>, "y"), SendOf(<<R, R>>, "x"), SendOf(<<R, Recipient("q", <<>>, <<>>)>>, "x"),
     SendOf(<<Recipient("p", <<"r">>, <<"e">>)>>, "x"), SendOf(<<Recipient("p", <<"r">>, <<>>)>>, "x"),
     SendOf(<<Recipient("bad", <<"r">>, <<"d">>)>>, "x"), SendOf(<<>>, "x"),
     [SendOf(<<R>>, "x") EXCEPT !.fields = FALSE], [SendOf(<<R>>, "x") EXCEPT !.options = FALSE], [SendOf(<<R>>, "x") EXCEPT !.fits = FALSE]}

MCLegacyTexts == {[to |-> "p", rid |-> <<"r">>, first |-> <<"d">>, hash |-> "x", n |-> 0]}

-----------------------------------------------------------------------------
Operation(method, target, conditional, gives) ==
    [method |-> method, target |-> target, conditional |-> conditional, answer |-> gives]

\* The last answer is of a form that the hooks provide for and no write's handler gives.
MCOperations ==
    {Operation("PUT", "object", c, "empty") : c \in BOOLEAN} \cup {Operation("POST", "upload", c, "text") : c \in BOOLEAN}
    \cup {Operation("DELETE", "object", FALSE, "empty"), Operation("GET", "object", FALSE, "text"),
          Operation("PATCH", "other", FALSE, "binary")}

MCTries == [c \in Clients |-> IF c \in Hooked THEN 2 ELSE 1]

-----------------------------------------------------------------------------
NoSums == [a \in Algorithms |-> <<>>]

SumRequest(door, op, body) ==
    [door |-> door, op |-> op, body |-> body, sums |-> NoSums, selector |-> <<>>, md5 |-> <<>>, extra |-> {},
     hash |-> <<>>, part |-> 1, manifest |-> <<>>, size |-> <<>>, condition |-> "any"]

\* One value, of some bytes or no digest at all, or two.
DigestValues(a) == UNION {{<<Digest(a, b)>>, <<Digest(a, b), Digest(a, b)>>} : b \in Bodies} \cup {<<Garbled>>}

WithSums(q) ==
    UNION {{[q EXCEPT !.sums[a] = vs] : vs \in DigestValues(a)} : a \in Algorithms}
    \cup {[q EXCEPT !.sums = [a \in Algorithms |-> <<Digest(a, q.body)>>]]}
WithMd5(q) == {[q EXCEPT !.md5 = vs] : vs \in DigestValues("MD5")}
WithSelector(q) ==
    {[q EXCEPT !.selector = <<a>>] : a \in Algorithms}
    \cup {[q EXCEPT !.selector = <<a>>, !.sums[b] = <<Digest(b, c)>>] : a, b \in Algorithms, c \in Bodies}
WithExtra(q) == {[q EXCEPT !.extra = e] : e \in {{}, {"trailer"}, {"type"}, {"algorithm", "type"}}}

Entry(n, b, vs) == [part |-> n, etag |-> b, sum |-> vs]
Entries(n) == {Entry(n, b, vs) : b \in Bodies, vs \in {<<>>, <<Garbled>>} \cup {<<Digest("CRC32C", c)>> : c \in Bodies}}

\* Manifests without digests, in order, with a gap, out of order and empty.
Plain ==
    {<<>>} \cup {<<Entry(n, b, <<>>)>> : n \in 1..2, b \in Bodies}
    \cup {<<Entry(n, b, <<>>), Entry(3 - n, c, <<>>)>> : n \in 1..2, b, c \in Bodies}

Completions ==
    LET q == SumRequest("s3", "complete", <<>>)
        plain == {[q EXCEPT !.manifest = mf] : mf \in Plain}
        whole == [q EXCEPT !.manifest = <<Entry(1, <<1>>, <<>>)>>]
    IN  plain \cup {[q EXCEPT !.manifest = <<e>>] : e \in Entries(1)}
        \cup {[q EXCEPT !.manifest = <<e, f>>] : e \in Entries(1), f \in Entries(2)}
        \cup {[w EXCEPT !.sums["CRC32C"] = <<Digest("CRC32C", c)>>] : w \in plain, c \in {<<1>>, <<2>>, <<1, 2>>}}
        \cup {[w EXCEPT !.size = <<1>>] : w \in plain}
        \cup {[w EXCEPT !.condition = c] : w \in plain, c \in {"existing", "missing"}}
        \cup WithSums(whole) \cup WithSelector(whole) \cup WithExtra(whole)

Single(qs) == {q \in qs : Len(q.md5) < 2}

OfBody(b) ==
    LET s3 == SumRequest("s3", "put", b)
        oci == SumRequest("oci", "ociPut", b)
        xml == SumRequest("gcs", "xml", b)
        azure == SumRequest("azure", "azurePut", b)
        append == SumRequest("azure", "append", b)
    IN  WithSums(s3) \cup WithMd5(s3) \cup WithSelector(s3) \cup WithExtra(s3)
        \cup WithSelector(oci) \cup Single(WithMd5(oci) \cup WithMd5(azure) \cup WithMd5(append)) \cup WithMd5(xml)
        \cup {oci, xml, [xml EXCEPT !.op = "json"], azure, append}
        \cup {[xml EXCEPT !.op = op, !.hash = vs] : op \in {"xml", "json"}, vs \in DigestValues("CRC32C") \cup DigestValues("SHA256")}
        \cup {[xml EXCEPT !.hash = <<Digest("CRC32C", c), Digest("MD5", d)>>, !.md5 = <<Digest("MD5", b)>>] : c, d \in Bodies}

OfPart(b, n) ==
    LET part == [SumRequest("s3", "part", b) EXCEPT !.part = n]
        oci == [SumRequest("oci", "ociPart", b) EXCEPT !.part = n]
    IN  WithSums(part) \cup WithExtra(part) \cup {oci}
        \cup (IF n = 1 THEN WithMd5(part) \cup WithSelector(part) \cup WithSelector(oci) \cup Single(WithMd5(oci)) ELSE {})

MCSumRequests ==
    UNION {OfBody(b) : b \in Bodies} \cup UNION {OfPart(b, n) : b \in Bodies, n \in 1..2} \cup Completions
    \cup {[q EXCEPT !.part = n] : q \in WithExtra(SumRequest("s3", "copy", <<>>)), n \in 1..2}
    \cup WithExtra(SumRequest("s3", "initiate", <<>>)) \cup WithSums(SumRequest("s3", "initiate", <<1>>))
    \cup {SumRequest("azure", "azurePut", <<>>)}

MCBodies == {<<1>>, <<2>>}
=============================================================================
