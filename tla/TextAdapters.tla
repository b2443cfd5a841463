---------------------------- MODULE TextAdapters ----------------------------
(***************************************************************************)
(* The text doors that capture one message per request: SNS Publish, AWS   *)
(* End User Messaging SendTextMessage and SendMediaMessage, and Twilio     *)
(* Messages.  Several doors share a path, so a request's shape decides     *)
(* who claims it.  Every check comes before the one store call.  A form is *)
(* the sequence of its fields, a JSON document a set of them; a value is   *)
(* "ok" or what its syntax check finds.                                    *)
(***************************************************************************)
EXTENDS Naturals, Sequences, FiniteSets, SequencesExt

CONSTANTS TextRequests,
          MaxMedia, MaxAttributes

VARIABLES texting,      \* the request being served, a sequence of at most one
          texted,       \* its answer: [status, id]
          stored        \* what it has captured: a sequence of messages

textVars == <<texting, texted, stored>>

NoAnswer == [status |-> "none", id |-> "none"]

TextInit == texting = <<>> /\ texted = NoAnswer /\ stored = <<>>

-----------------------------------------------------------------------------
(* Forms *)

Names(form) == {form[i].name : i \in 1..Len(form)}

Places(form, name) == {i \in 1..Len(form) : form[i].name = name}

\* form_value: the first field of that name
FormValue(form, name) ==
    LET at == Places(form, name)
    IN  IF at = {} THEN "absent" ELSE form[Min(at)].value

\* The values of all fields of that name, in the order of the form.
Values(form, name) ==
    LET at == Places(form, name)
        nth(k) == CHOOSE i \in at : Cardinality({j \in at : j <= i}) = k
    IN  [k \in 1..Cardinality(at) |-> form[nth(k)].value]

Repeated(form, name) == Cardinality(Places(form, name)) > 1

-----------------------------------------------------------------------------
(* SNS *)

SnsSingular == {"Action", "Version", "PhoneNumber", "Message", "MessageStructure", "Subject",
                "TopicArn", "TargetArn", "MessageDeduplicationId", "MessageGroupId"}

ValidateSnsFields(form) ==
    /\ \A n \in Names(form) : n \in SnsSingular \cup {"Attribute"}
    /\ \A n \in SnsSingular : ~Repeated(form, n)
    /\ Names(form) \cap {"MessageDeduplicationId", "MessageGroupId"} = {}
    /\ FormValue(form, "Subject") # "bad"

\* An attribute is its three members: a name, a data type and a value of that type.
SnsMessageAttributes(form) ==
    LET as == Values(form, "Attribute")
    IN  /\ Len(as) <= MaxAttributes
        /\ Cardinality(ToSet(as)) = Len(as)
        /\ ToSet(as) \cap {"incomplete", "bad sender", "bad type"} = {}

\* With MessageStructure=json the "sms" entry is the text, or else "default", which must be there.
SnsBody(form) ==
    LET structure == FormValue(form, "MessageStructure")
        message == FormValue(form, "Message")
    IN  CASE structure = "absent" -> IF message = "" THEN "refused" ELSE message
          [] structure = "json"   ->
                CASE message = "{default}"      -> "default"
                  [] message = "{default,sms}"  -> "sms"
                  [] OTHER                      -> "refused"
          [] OTHER -> "refused"

Publish(q) ==
    LET form == q.form
    IN  IF /\ ValidateSnsFields(form)
           /\ FormValue(form, "Version") = "2010-03-31"
           /\ Names(form) \cap {"TopicArn", "TargetArn"} = {}
           /\ FormValue(form, "PhoneNumber") \notin {"absent", "bad"}
           /\ FormValue(form, "Message") \notin {"absent", "long"}
           /\ SnsBody(form) # "refused"
           /\ SnsMessageAttributes(form)
          THEN <<[to |-> FormValue(form, "PhoneNumber"), from |-> "SNS", body |-> SnsBody(form), media |-> <<>>]>>
          ELSE <<>>

SnsHandle(q) ==
    CASE q.method \notin {"GET", "POST"} -> "405"
      [] FormValue(q.form, "Action") # "Publish" -> "400"
      [] ~q.authorized -> "403"
      [] OTHER -> "none"

-----------------------------------------------------------------------------
(* AWS SMS Voice V2 *)

CommonFields == {"ConfigurationSetName", "Context", "DestinationPhoneNumber", "DryRun", "MaxPrice", "MessageBody",
                 "MessageFeedbackEnabled", "OriginationIdentity", "ProtectConfigurationId", "TimeToLive"}

TextOnlyFields == {"DestinationCountryParameters", "Keyword", "MessageType"}

IsMedia(q) == q.target = "SendMediaMessage"

\* Each value has its type and stays in its range.
WellTyped(form) == \A i \in 1..Len(form) : form[i].value # "bad"

\* A text may leave its body out; a field of the other operation is refused.
ValidateAwsSmsFields(q) ==
    /\ Names(q.form) \subseteq CommonFields \cup IF IsMedia(q) THEN {"MediaUrls"} ELSE TextOnlyFields
    /\ WellTyped(q.form)

VoiceSend(q) ==
    LET form == q.form
        urls == Values(form, "MediaUrls")
    IN  IF /\ q.json
           /\ FormValue(form, "DestinationPhoneNumber") # "absent"
           /\ ValidateAwsSmsFields(q)
           /\ IsMedia(q) => FormValue(form, "OriginationIdentity") # "absent" /\ Len(urls) <= 1
          THEN <<[to |-> FormValue(form, "DestinationPhoneNumber"),
                  from |-> IF FormValue(form, "OriginationIdentity") = "absent" THEN "AWS"
                           ELSE FormValue(form, "OriginationIdentity"),
                  body |-> IF FormValue(form, "MessageBody") = "absent" THEN "" ELSE FormValue(form, "MessageBody"),
                  media |-> urls]>>
          ELSE <<>>

\* A dry run is answered with an identifier and captures nothing.
DryRun(q) == FormValue(q.form, "DryRun") = "true"

VoiceHandle(q) ==
    CASE q.method # "POST" -> "400"
      [] q.target \notin {"SendTextMessage", "SendMediaMessage"} -> "400"
      [] ~q.authorized -> "400"
      [] OTHER -> "none"

-----------------------------------------------------------------------------
(* Twilio *)

TwilioFields == {"To", "From", "MessagingServiceSid", "Body", "MediaUrl", "StatusCallback"}

ValidateSendFields(form) ==
    Names(form) \subseteq TwilioFields /\ \A n \in TwilioFields \ {"MediaUrl"} : ~Repeated(form, n)

TwilioSend(q) ==
    LET form == q.form
        media == Values(form, "MediaUrl")
        body == FormValue(form, "Body")
        from == FormValue(form, "From")
        service == FormValue(form, "MessagingServiceSid")
    IN  IF /\ ValidateSendFields(form)
           /\ FormValue(form, "To") \notin {"absent", "bad"}
           /\ from # "absent" \/ service # "absent"
           /\ "bad" \notin {from, service}
           /\ body \notin {"absent", ""} \/ media # <<>>
           /\ body # "long"
           /\ Len(media) <= MaxMedia /\ "bad" \notin ToSet(media)
           /\ FormValue(form, "StatusCallback") # "bad"
          THEN <<[to |-> FormValue(form, "To"), from |-> IF from # "absent" THEN from ELSE service,
                  body |-> IF body = "absent" THEN "" ELSE body, media |-> media]>>
          ELSE <<>>

TwilioHandle(q) ==
    CASE q.target = "bad account" -> "400"
      [] ~q.authorized -> "401"
      [] q.target = "messages" /\ q.method = "POST" -> IF q.type = "form" THEN "none" ELSE "415"
      [] q.target = "media" /\ q.method = "GET" -> "media"
      [] OTHER -> "405"

-----------------------------------------------------------------------------
(* Which adapter claims a request, in the order of the registry *)

TwilioMatches(q) == q.path = "twilio"

SnsMatches(q) ==
    q.path = "root" /\ (\/ q.scope = "sns" \/ "Action" \in Names(q.form)
                        \/ q.method = "POST" /\ q.type = "form")

\* Operations that x-amz-target names; the prefix of the first three is what a head is known by.
VoiceSends == {"SendTextMessage", "SendMediaMessage", "SendVoiceMessage"}
VoiceTargets == VoiceSends \cup {"DescribeKeywords"}

VoiceMatches(q) == q.path = "root" /\ (q.scope = "voice" \/ q.target \in VoiceTargets)

Door(q) ==
    CASE TwilioMatches(q) -> "twilio" [] SnsMatches(q) -> "sns" [] VoiceMatches(q) -> "voice" [] OTHER -> "none"

\* Requests are forms; a JSON document names a field once, its list of media apart.
ASSUME TextAssumption ==
    \A q \in TextRequests :
        /\ q.form \in Seq(ToSet(q.form))
        /\ \A i \in 1..Len(q.form) : q.form[i].value # "absent"
        /\ Door(q) = "voice" => \A n \in Names(q.form) \ {"MediaUrls"} : ~Repeated(q.form, n)

\* What the request's head alone shows, for a body that is too long or breaks off.
HeadDoor(q) ==
    CASE q.method # "POST" -> "none"
      [] q.path = "twilio" -> IF q.target = "media" THEN "none" ELSE "twilio"
      [] q.path = "root" /\ (q.scope = "sns" \/ q.type = "form") -> "sns"
      [] q.path = "root" /\ q.target \in VoiceSends -> "voice"
      [] OTHER -> "none"

Refusal(q) ==
    CASE Door(q) = "sns" -> SnsHandle(q) [] Door(q) = "voice" -> VoiceHandle(q) [] OTHER -> TwilioHandle(q)

Messages(q) ==
    CASE Door(q) = "sns" -> Publish(q) [] Door(q) = "voice" -> VoiceSend(q) [] OTHER -> TwilioSend(q)

Replies(status, id) == texted' = [status |-> status, id |-> id]

ReceiveText ==
    /\ texting = <<>>
    /\ \E q \in TextRequests :
          /\ texting' = <<q>>
          /\ IF q.body # "whole" /\ HeadDoor(q) # "none"
               THEN Replies(IF q.body = "large" THEN "413" ELSE "400", "none") /\ UNCHANGED stored
             ELSE IF q.body # "whole" \/ Door(q) = "none"   \* the storage doors answer
               THEN Replies("other", "none") /\ UNCHANGED stored
             ELSE IF Refusal(q) = "media"   \* Twilio media of a message that is not there
               THEN Replies("404", "none") /\ UNCHANGED stored
             ELSE IF Refusal(q) # "none"
               THEN Replies(Refusal(q), "none") /\ UNCHANGED stored
             ELSE IF Messages(q) = <<>>
               THEN Replies("400", "none") /\ UNCHANGED stored
             ELSE IF Door(q) = "voice" /\ DryRun(q)
               THEN Replies("2xx", "unused") /\ UNCHANGED stored
             ELSE \/ stored' = Messages(q) /\ Replies("2xx", "stored")
                  \/ UNCHANGED stored /\ Replies("413", "none")       \* the capture budget
                  \/ stored' \in {<<>>, Messages(q)} /\ Replies("500", "none")

TextAnswered ==
    /\ texting # <<>>
    /\ texting' = <<>> /\ texted' = NoAnswer /\ stored' = <<>>

TextNext == ReceiveText \/ TextAnswered

-----------------------------------------------------------------------------
Agrees(form, names, value) == \A i \in 1..Len(form) : form[i].name \in names => form[i].value = value

\* After a success the message is captured, once, and is what every field of the
\* request says: no field was overruled by another of the same name, and no media
\* dropped; unless the request asked for a dry run, which captures nothing.  A
\* request that is refused captures nothing.
TextAnswersTrue ==
    texting # <<>> =>
        LET q == texting[1]
        IN  CASE texted.status = "2xx" ->
                    IF Agrees(q.form, {"DryRun"}, "true") /\ "DryRun" \in Names(q.form)
                      THEN stored = <<>>
                      ELSE /\ Len(stored) = 1
                           /\ Agrees(q.form, {"PhoneNumber", "DestinationPhoneNumber", "To"}, stored[1].to)
                           /\ "MessageStructure" \notin Names(q.form) =>
                                 Agrees(q.form, {"Message", "MessageBody", "Body"}, stored[1].body)
                           /\ Values(q.form, "MediaUrl") \o Values(q.form, "MediaUrls") = stored[1].media
              [] texted.status = "500" -> Len(stored) <= 1
              [] OTHER -> stored = <<>>
=============================================================================
