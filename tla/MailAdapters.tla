---------------------------- MODULE MailAdapters ----------------------------
(***************************************************************************)
(* The HTTP mail doors: SendGrid Mail Send, SES SendEmail and ACS Email    *)
(* (whose repeatable sends are module EmailRepeat).  A door checks the     *)
(* whole request before it files the first copy.  What a request carries   *)
(* is abstracted to what its checks tell apart; an optional part is a      *)
(* sequence of at most one value, "bad" whatever a field's own syntax      *)
(* refuses.                                                                *)
(***************************************************************************)
EXTENDS Fanout

CONSTANTS MaxPersonalizations, MaxHeaders,
          MaxRecipients, MaxReplyTo,    \* [door -> limit]
          MailRequests,     \* the requests that arrive
          AttachmentBytes, MessageBytes     \* sizes of an attachment and of the rest

VARIABLES request,      \* the mail request being served, a sequence of at most one
          answer        \* its answer

mailVars == <<request, answer>>

IsList(s) == s \in Seq(ToSet(s))
IsOptionalList(s) == IsList(s) /\ \A x \in ToSet(s) : IsList(x)

\* Requests are documents of people with lists of addresses; only SendGrid takes several people.
ASSUME MailAssumption ==
    \A q \in MailRequests :
        /\ q.door \in {"sendgrid", "ses", "acs"}
        /\ IsList(q.doc.people) /\ IsList(q.doc.headers)
        /\ q.door # "sendgrid" => Len(q.doc.people) = 1
        /\ \A p \in ToSet(q.doc.people) :
              /\ IsOptionalList(p.to) /\ IsOptionalList(p.cc) /\ IsOptionalList(p.bcc)
              /\ IsList(p.headers)

MailInit == request = <<>> /\ answer = "none"

Distinct(s) == Cardinality(ToSet(s)) = Len(s)

ValidEmailAddress(a) == a.form # "bad"

ValidAddresses(as) == \A a \in ToSet(as) : ValidEmailAddress(a)

Given(opt, default) == IF opt = <<>> THEN default ELSE opt[1]

People(p) == Given(p.to, <<>>) \o Given(p.cc, <<>>) \o Given(p.bcc, <<>>)

\* Text comes before HTML, each at most once.
ParseContent(parts) == parts \in {<<"text">>, <<"html">>, <<"text", "html">>}

\* Header names are compared without case; some are the provider's own.
HeaderNames(hs) == [i \in 1..Len(hs) |-> hs[i].name]

AcsHeaders(hs) == \A h \in ToSet(hs) : h.form # "bad"

ParseHeaders(hs) ==
    /\ AcsHeaders(hs)
    /\ Distinct(HeaderNames(hs))
    /\ "reserved" \notin ToSet(HeaderNames(hs))

SesHeaders(hs) == ParseHeaders(hs) /\ Len(hs) <= MaxHeaders

\* SendGrid refuses an empty list of attachments, ACS does not.
AcsAttachments(as) == as # <<>> => "bad" \notin ToSet(as[1])

ParseAttachments(as) == as # << <<>> >> /\ AcsAttachments(as)

\* A recipient list that is there may not be empty for SendGrid.
ParseAddresses(as) == as # << <<>> >> /\ ValidAddresses(Given(as, <<>>))

SesAddresses(as) == ValidAddresses(Given(as, <<>>))

AcsAddresses(as) == ValidAddresses(Given(as, <<>>))

\* The personalization's headers replace the request's of the same name, whatever the case.
MergeHeaders(base, own) ==
    {h \in ToSet(base) : h.name \notin ToSet(HeaderNames(own))} \cup ToSet(own)

ParseReplyTo(d) ==
    /\ d.replyTo = <<>> \/ d.replyToList = <<>>
    /\ d.replyTo # <<>> => ValidAddresses(d.replyTo)
    /\ ParseAddresses(d.replyToList)
    /\ LET l == Given(d.replyToList, <<>>)
       IN  Len(l) <= MaxReplyTo["sendgrid"] /\ Distinct([i \in 1..Len(l) |-> MailboxKey(l[i])])

Message(d, p, headers) ==
    [from |-> IF p.from # <<>> THEN p.from[1] ELSE d.from[1],
     to |-> Given(p.to, <<>>), cc |-> Given(p.cc, <<>>), bcc |-> Given(p.bcc, <<>>),
     subject |-> IF p.subject # <<>> THEN p.subject[1] ELSE Given(d.subject, "none"),
     headers |-> headers, body |-> d.content, raw |-> 0,
     size |-> MessageBytes + AttachmentBytes * Len(Given(d.attachments, <<>>))]

-----------------------------------------------------------------------------
(* The three parsers: <<>> for a request that is refused *)

Everyone(ps) == FlattenSeq([j \in 1..Len(ps) |-> People(ps[j])])

MailboxKeys(as) == [i \in 1..Len(as) |-> MailboxKey(as[i])]

\* Recipients are unique over the whole request, so that no mailbox gets two messages of it.
UniqueRecipients(ps) == Distinct(MailboxKeys(Everyone(ps)))

ParsePersonalization(d, p) ==
    /\ ~p.extra
    /\ p.to # <<>>
    /\ ParseAddresses(p.to) /\ ParseAddresses(p.cc) /\ ParseAddresses(p.bcc)
    /\ ValidAddresses(p.from)
    /\ p.from # <<>> \/ d.from # <<>>
    /\ (IF p.subject # <<>> THEN p.subject ELSE d.subject) \notin {<<>>, <<"">>}
    /\ ParseHeaders(p.headers)

ParseSendGrid(d) ==
    LET ps == d.people
    IN  IF /\ d.json /\ ~d.extra
           /\ Len(ps) \in 1..MaxPersonalizations
           /\ ValidAddresses(d.from)
           /\ ParseContent(d.content)
           /\ ParseAttachments(d.attachments)
           /\ ParseHeaders(d.headers) /\ ParseReplyTo(d)
           /\ Len(Everyone(ps)) <= MaxRecipients["sendgrid"]
           /\ UniqueRecipients(ps)
           /\ \A j \in 1..Len(ps) : ParsePersonalization(d, ps[j])
          THEN [j \in 1..Len(ps) |-> Message(d, ps[j], MergeHeaders(d.headers, ps[j].headers))]
          ELSE <<>>

\* One Destination; attachments, raw and template content are refused.
ParseSes(d) ==
    LET p == d.people[1]
    IN  IF /\ d.json /\ ~d.extra /\ ~p.extra
           /\ d.from # <<>> /\ ValidAddresses(d.from)
           /\ SesAddresses(p.to) /\ SesAddresses(p.cc) /\ SesAddresses(p.bcc)
           /\ Len(People(p)) \in 1..MaxRecipients["ses"]
           /\ SesAddresses(d.replyToList) /\ Len(Given(d.replyToList, <<>>)) <= MaxReplyTo["ses"]
           /\ d.attachments = <<>>
           /\ d.subject # <<>> /\ d.content # <<>>
           /\ SesHeaders(d.headers)
          THEN <<Message(d, p, ToSet(d.headers))>> ELSE <<>>

ParseAcs(d) ==
    LET p == d.people[1]
    IN  IF /\ d.json /\ ~d.extra /\ ~p.extra
           /\ d.from # <<>> /\ ValidAddresses(d.from)
           /\ AcsAddresses(p.to) /\ AcsAddresses(p.cc) /\ AcsAddresses(p.bcc)
           /\ Len(People(p)) \in 1..MaxRecipients["acs"]
           /\ d.subject \notin {<<>>, <<"">>} /\ d.content # <<>>
           /\ AcsHeaders(d.headers)
           /\ AcsAddresses(d.replyToList)
           /\ AcsAttachments(d.attachments)
          THEN <<Message(d, p, ToSet(d.headers))>> ELSE <<>>

\* SendGrid charges each message as it is planned: an admission that fails
\* answers before a later personalization is looked at.
PlanTooLarge(q) ==
    /\ q.door = "sendgrid" /\ Len(q.doc.people) <= MaxPersonalizations
    /\ \E k \in 1..Len(q.doc.people) :
          LET ms == ParseSendGrid([q.doc EXCEPT !.people = SubSeq(@, 1, k)])
          IN  ms # <<>> /\ ~CheckMessages(ms)

ParseMessages(q) ==
    CASE q.door = "sendgrid" -> ParseSendGrid(q.doc)
      [] q.door = "ses"      -> ParseSes(q.doc)
      [] q.door = "acs"      -> ParseAcs(q.doc)

-----------------------------------------------------------------------------
(* A request from its head to its answer *)

\* A body that is too long or breaks off is answered from the head alone, for a POST.
HeadAnswer(q) ==
    CASE q.body = "large" -> "413" [] q.body = "cut" -> "400" [] OTHER -> "none"

\* The checks of handle before the document is parsed.
Admits(q) ==
    CASE q.method # "POST"  -> "405"
      [] ~q.authorized      -> IF q.door = "ses" THEN "403" ELSE "401"
      [] q.type # "json"    -> "415"
      [] q.door = "sendgrid" /\ q.body = "over" -> "413"   \* 30 MB
      [] OTHER -> "none"

ReceiveMail ==
    /\ request = <<>>
    /\ \E q \in MailRequests :
          /\ request' = <<q>>
          /\ LET head == IF q.method = "POST" THEN HeadAnswer(q) ELSE "none"
                 early == IF head # "none" THEN head ELSE Admits(q)
                 ms == ParseMessages(q)
             IN  IF early # "none" THEN answer' = early /\ UNCHANGED fanoutVars
                 ELSE IF PlanTooLarge(q) THEN answer' = "413" /\ UNCHANGED fanoutVars
                 ELSE IF ms = <<>> THEN answer' = "400" /\ UNCHANGED fanoutVars
                 ELSE answer' = "none" /\ FanOutBatch(ms)

FanOutStatus(result) ==
    CASE result = "ok"    -> "2xx"
      [] result = "large" -> "413"
      [] OTHER            -> "500"

AnswerRequest ==
    /\ request # <<>> /\ answer = "none" /\ job.pc = "done"
    /\ answer' = FanOutStatus(job.result)
    /\ UNCHANGED <<request, fanoutVars>>

\* The sender has the answer.
NextRequest ==
    /\ request # <<>> /\ answer # "none"
    /\ request' = <<>> /\ answer' = "none" /\ Settle

MailNext == ReceiveMail \/ AnswerRequest \/ NextRequest

-----------------------------------------------------------------------------
\* What the request asked for, read off the request itself: per person, the
\* mailboxes, and for each header name the most specific value.
AskedBoxes(q) == {AllMailbox} \cup UNION {{MailboxKey(a) : a \in ToSet(People(p))} : p \in ToSet(q.doc.people)}

\* An answer tells what became of the request, also when filing failed half
\* way: after a success every recipient's mailbox has one copy of it and the
\* account-wide mailbox one per person, no other mailbox has any, and no header
\* stands twice in it; after a refusal nothing of it is filed; and after an
\* error all of it or nothing is, unless the rollback has reported its own failure.
AnswersTrue ==
    request # <<>> /\ answer # "none" =>
        LET q == request[1]
            n == Len(q.doc.people)
            at(box) == {c \in copies : c.box = box}
            whole == /\ {c.box : c \in copies} = AskedBoxes(q)
                     /\ Cardinality(at(AllMailbox)) = n
                     /\ q.door = "sendgrid" =>
                            \A box \in AskedBoxes(q) \ {AllMailbox} : Cardinality(at(box)) = 1
                     /\ q.door # "acs" => \A c \in copies : \A g, h \in c.message.headers : g.name = h.name => g = h
        IN  CASE answer = "2xx" -> whole
              [] answer = "500" -> job.stuck \/ copies = {} \/ (store = "journal" /\ whole)
              [] OTHER          -> copies = {}
=============================================================================
