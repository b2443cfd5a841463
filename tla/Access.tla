------------------------------- MODULE Access -------------------------------
(***************************************************************************)
(* Requests at the doors that authenticate.  The holder of the credential  *)
(* signs one request, link or token; requests arrive that carry that       *)
(* signature, with up to two of their fields as somebody wrote them, at    *)
(* any later time.  In the S3 scene the owner changes the bucket's policy, *)
(* its ACL and the object's; in the Azure scene a signature that may only  *)
(* create a blob meets the MCP tools, which write without the gate that    *)
(* serializes the doors; in the MCP scene the issuer rotates its keys.     *)
(***************************************************************************)
EXTENDS BucketPolicy, Signatures, McpAuth

CONSTANTS Doors,        \* the scenes: one door each
          Signable,     \* [door -> requests that the holder may sign, without date and signature]
          Values,       \* [field -> what may be written over it]
          Skews,        \* how far the signer's clock may be ahead
          MaxClock,     \* bound on time
          MaxProcesses, \* bound on restarts
          Statements, Contexts, Acls, MaxStatements

VARIABLES door, clock, process,
          issued,       \* what the holder has signed: a set of at most one request or cookie
          served,       \* the request that is being let in
          policy,       \* statements of the bucket's policy
          acl,          \* the set of the one ACL that a request for the object reads
          blob,         \* what the blob holds: "none", "mcp" or "upload"
          put           \* uploads between the check of their permission and their write

accessVars == <<door, clock, process, issued, served, policy, acl, blob, put>>
vars == <<accessVars, mcpVars>>

Nothing == [scheme |-> "nothing"]

Init ==
    /\ door \in Doors
    /\ clock = 0 /\ process = 1 /\ issued = {} /\ served = Nothing
    /\ policy = <<>> /\ acl = {} /\ blob = "none" /\ put = {}
    /\ McpInit /\ (door # "mcp" => published = {})

-----------------------------------------------------------------------------
(* Signed requests *)

TextOf(r) ==
    CASE r.scheme \in {"v4", "sns", "ses"} -> V4Text(r)
      [] r.scheme = "link"      -> LinkText(r)
      [] r.scheme = "sharedKey" -> SharedKeyText(r)
      [] r.scheme = "sas"       -> SasText(r)
      [] r.scheme = "goog4"     -> Goog4Text(r)
      [] r.scheme = "goog2"     -> Goog2Text(r, r.expires)
      [] r.scheme = "goog1"     -> Goog2Text(r, r.date)
      [] r.scheme = "oci"       -> OciText(r)
      [] r.scheme \in {"acsSms", "acsMail"} -> AcsText(r)
      [] r.scheme = "bearer"    -> BearerText

\* What the holder signs is a request as its scheme asks for it: the digest header, where there is one, is
\* that of the body, and the AWS schemes sign the extension header that the request carries.  The signature
\* is the one field that nobody else can write.
WellFormed(s) ==
    /\ DOMAIN s = {"scheme", "method", "key", "query", "ext", "sha", "body", "id", "date", "scope", "expires",
                   "signed", "sas", "sig"}
    /\ s.scheme \in {"v4", "sns", "ses", "link", "sharedKey", "sas", "goog4", "goog2", "goog1", "oci",
                     "acsSms", "acsMail", "bearer"}
    /\ s.expires \in Int /\ s.sas.start \in Int
    /\ s.sha \in {NoSha, <<"unsigned">>, Digest(s.body)}
    /\ s.scheme \in {"v4", "sns", "ses", "link"} /\ s.ext # Absent => "ext" \in s.signed

ASSUME SignerAssumption ==
    /\ \A d \in DOMAIN Signable : d # "admin" /\ \A s \in Signable[d] : WellFormed(s)
    /\ "sig" \notin DOMAIN Values /\ Skews \subseteq Int

\* The holder signs with its own clock.
SignRequest ==
    /\ issued = {} /\ door \in DOMAIN Signable
    /\ \E s \in Signable[door], skew \in Skews :
          LET at == clock + skew
              r == [s EXCEPT !.date = at, !.scope = <<Day(at), s.scope[2]>>,
                             !.expires = IF s.scheme \in {"sas", "goog2"} THEN at + @ ELSE @]
          IN issued' = {[r EXCEPT !.sig = Sign(HolderSecret, TextOf(r))]}
    /\ UNCHANGED <<door, clock, process, served, policy, acl, blob, put, mcpVars>>

\* A request that carries what was signed, up to two of its fields as somebody wrote them.
Rewritten(i, f, g) == {[i EXCEPT ![f] = v, ![g] = w] : v \in Values[f], w \in Values[g]}
Altered(i) == {i} \cup UNION {Rewritten(i, f, g) : f \in DOMAIN Values, g \in DOMAIN Values}

ActionOf(r) == CASE r.method = "GET" -> <<"Get", "Object">> [] r.method = "PUT" -> <<"Put", "Object">>
                 [] r.method = "DELETE" -> <<"Delete", "Object">>

\* The principal is whom the credential names, once the signature has been checked.
FromRequest(r) ==
    [principal |-> IF r.scheme = "none" THEN Nobody ELSE OwnerArn, authenticated |-> r.scheme # "none",
     action |-> ActionOf(r), resource |-> <<"bucket", "/", r.key>>,
     headers |-> <<>>, query |-> <<>>, tags |-> <<>>, requestTags |-> <<>>]

\* What the door that the request is for answers, by the clock when its turn comes.
Answer(r) ==
    CASE door = "s3" /\ r.scheme \in {"none", "partial", "v2", "v4", "link"} ->
            IF S3Verify(r, clock) # 200 THEN S3Verify(r, clock)
            ELSE IF Decision(policy, acl, FromRequest(r)) = "Allow" THEN 200 ELSE 403
      [] door = "aws" /\ r.scheme = "sns"         -> SnsVerify(r, clock)
      [] door = "aws" /\ r.scheme = "ses"         -> SesVerify(r, clock)
      [] door = "azure" /\ r.scheme = "sharedKey" -> SharedKeyVerify(r, clock)
      [] door = "azure" /\ r.scheme = "sas"       -> SasVerify(r, clock)
      [] door = "gcs" /\ r.scheme = "goog4"       -> Goog4Verify(r, clock)
      [] door = "gcs" /\ r.scheme = "goog2"       -> Goog2Verify(r, clock)
      [] door = "gcs" /\ r.scheme = "goog1"       -> Goog1Verify(r)
      [] door = "gcs" /\ r.scheme = "bearer"      -> BearerVerify(r)
      [] door = "oci" /\ r.scheme = "oci"         -> OciVerify(r, clock, r.method = "PUT" /\ r.key # Absent)
      [] door = "acs" /\ r.scheme = "acsSms"      -> AcsSmsVerify(r, clock)
      [] door = "acs" /\ r.scheme = "acsMail"     -> AcsMailVerify(r, clock)
      [] OTHER                                    -> 403

Request ==
    /\ door \in {"s3", "gcs", "oci", "aws", "acs"}
    /\ \E i \in issued : \E r \in Altered(i) : Answer(r) = 200 /\ served' = r
    /\ UNCHANGED <<door, clock, process, issued, policy, acl, blob, put, mcpVars>>

Tick ==
    /\ clock < MaxClock /\ door \notin {"policy", "mcp"}
    /\ clock' = clock + 1
    /\ UNCHANGED <<door, process, issued, served, policy, acl, blob, put, mcpVars>>

-----------------------------------------------------------------------------
(* Azure: whether the blob exists decides which permission a signature needs *)

AzureCheck ==
    /\ door = "azure" /\ put = {}
    /\ \E i \in issued : \E r \in Altered(i) :
          /\ Answer(r) = 200 /\ SasAllows(r, blob # "none")
          /\ served' = r
          /\ put' = IF r.method = "PUT" /\ r.key = "k" /\ r.query = Absent THEN {r} ELSE {}
    /\ UNCHANGED <<door, clock, process, issued, policy, acl, blob, mcpVars>>

\* Not the code: the check that the blob does not exist is not repeated by the write.
WritesAnyway(r) == TRUE

\* A signature that may only create writes on the condition that there is no blob.
WriteCondition(r) == CreateOnly(r) => blob = "none"

AzureWrite ==
    /\ \E r \in put : blob' = IF WriteCondition(r) THEN "upload" ELSE blob
    /\ put' = {}
    /\ UNCHANGED <<door, clock, process, issued, served, policy, acl, mcpVars>>

\* Tools that do not wait for the provider gate: an upload is completed, the object is deleted.
McpTool ==
    /\ door = "azure"
    /\ blob' \in {"none", "mcp"} \ {blob}
    /\ UNCHANGED <<door, clock, process, issued, served, policy, acl, put, mcpVars>>

-----------------------------------------------------------------------------
(* S3: the owner changes policy and ACL, by requests that are themselves authorized *)

OwnerContext(action, resource) ==
    [principal |-> OwnerArn, authenticated |-> TRUE, action |-> action, resource |-> resource,
     headers |-> <<>>, query |-> <<>>, tags |-> <<>>, requestTags |-> <<>>]

\* A document replaces the one before it.  The bucket's own ACL is private.
PutPolicy ==
    /\ door = "policy"
    /\ Decision(policy, {[canned |-> "private", grants |-> {}]},
                OwnerContext(<<"Put", "Bucket", "Policy">>, <<"bucket">>)) = "Allow"
    /\ policy' \in BoundedSeq(Statements, MaxStatements)
    /\ UNCHANGED <<door, clock, process, issued, served, acl, blob, put, mcpVars>>

DeletePolicy ==
    /\ door = "policy" /\ policy # <<>>
    /\ Decision(policy, {[canned |-> "private", grants |-> {}]},
                OwnerContext(<<"Delete", "Bucket", "Policy">>, <<"bucket">>)) = "Allow"
    /\ policy' = <<>>
    /\ UNCHANGED <<door, clock, process, issued, served, acl, blob, put, mcpVars>>

PutAcl ==
    /\ door \in {"policy", "s3"}
    /\ Decision(policy, acl, OwnerContext(<<"Put", "Object", "Acl">>, <<"bucket", "/", "k">>)) = "Allow"
    /\ \E a \in Acls : acl' = {NormalizeAcl(a)}
    /\ UNCHANGED <<door, clock, process, issued, served, policy, blob, put, mcpVars>>

-----------------------------------------------------------------------------
(* Admin sessions: nothing is kept of them, a restart ends them all *)

Login ==
    /\ door = "admin" /\ issued = {}
    /\ issued' = {SessionCookie(process, clock)}
    /\ UNCHANGED <<door, clock, process, served, policy, acl, blob, put, mcpVars>>

\* The browser drops its cookie.
Logout ==
    /\ door = "admin" /\ issued # {}
    /\ issued' = {}
    /\ UNCHANGED <<door, clock, process, served, policy, acl, blob, put, mcpVars>>

AdminRequest ==
    /\ door = "admin"
    /\ \E cookie \in issued : /\ SessionVerify(cookie, process, clock)
                              /\ served' = [scheme |-> "session", cookie |-> cookie]
    /\ UNCHANGED <<door, clock, process, issued, policy, acl, blob, put, mcpVars>>

Restart ==
    /\ door = "admin" /\ process < MaxProcesses
    /\ process' = process + 1
    /\ UNCHANGED <<door, clock, issued, served, policy, acl, blob, put, mcpVars>>

-----------------------------------------------------------------------------
AtMcp(Step) == door = "mcp" /\ Step /\ UNCHANGED accessVars

\* The answer has been sent: what follows does not depend on it.
SendAnswer ==
    /\ served # Nothing /\ served' = Nothing
    /\ UNCHANGED <<door, clock, process, issued, policy, acl, blob, put, mcpVars>>

Next ==
    \/ /\ served = Nothing
       /\ \/ SignRequest \/ Request \/ Tick
          \/ AzureCheck \/ AzureWrite \/ McpTool
          \/ PutPolicy \/ DeletePolicy \/ PutAcl
          \/ Login \/ Logout \/ AdminRequest \/ Restart
    \/ SendAnswer
    \/ AtMcp(McpNext)

\* Calls are repeated, the refresh lock queues its callers, time passes, and an issuer within reach
\* answers in time now and then.
Fairness ==
    /\ WF_vars(AtMcp(TimePasses))
    /\ \A c \in Clients : /\ WF_vars(AtMcp(Authenticate(c))) /\ WF_vars(AtMcp(AcquireRefresh(c)))
                          /\ WF_vars(AtMcp(FetchFails(c)))
                          /\ SF_vars(AtMcp(Answered(c))) /\ SF_vars(AtMcp(StoreJwks(c)))

Spec == Init /\ [][Next]_vars /\ Fairness

-----------------------------------------------------------------------------
(* Properties *)

SameTarget(r, i) == r.method = i.method /\ r.key = i.key
SameQuery(r, i) == r.query = i.query /\ r.ext = i.ext
SameBody(r, i) == r.body = i.body
Within(from, to) == from <= clock /\ clock <= to

\* What one permission of a shared access signature is for.
Permits(p, r) ==
    CASE p = "r" -> r.method = "GET" /\ r.key # Absent
      [] p = "l" -> r.method = "GET" /\ r.key = Absent
      [] p = "c" -> r.method = "PUT" /\ (blob = "none" \/ r.query = "snapshot")
      [] p = "w" -> r.method = "PUT" /\ r.query # "immutability"
      [] p = "a" -> r.method = "PUT" /\ r.query = "append"
      [] p = "d" -> (r.method = "DELETE" /\ r.query \notin {"versionid", "immutability"}) \/ (r.method = "PUT" /\ r.query = "leaseBreak")
      [] p = "x" -> r.method = "DELETE" /\ r.query = "versionid"
      [] p = "i" -> r.method # "GET" /\ r.query = "immutability"
      [] OTHER   -> FALSE

\* What a scheme's signature i vouches for in a request r.
Vouches(r, i) ==
    CASE r.scheme = "v4"  -> /\ SameTarget(r, i) /\ SameQuery(r, i) /\ (r.sha # <<"unsigned">> => SameBody(r, i))
                             /\ Within(i.date - FifteenMinutes, i.date + FifteenMinutes)
      [] r.scheme \in {"sns", "ses"} -> /\ SameTarget(r, i) /\ SameQuery(r, i) /\ SameBody(r, i)
                                        /\ Within(i.date - FiveMinutes, i.date + FiveMinutes)
      [] r.scheme = "link" -> SameTarget(r, i) /\ SameQuery(r, i) /\ Within(i.date - FifteenMinutes, i.date + i.expires)
      [] r.scheme = "sharedKey" -> /\ SameTarget(r, i) /\ SameQuery(r, i)
                                   /\ Within(i.date - FifteenMinutes, i.date + FifteenMinutes)
      [] r.scheme = "sas" -> /\ i.sas.type = "b" => r.key = i.key
                             /\ \E p \in i.sas.perms : Permits(p, r)
                             /\ (i.sas.start # NoDate => i.sas.start <= clock) /\ clock <= i.expires
      [] r.scheme = "goog4" -> SameTarget(r, i) /\ r.query = i.query /\ Within(i.date - FifteenMinutes, i.date + i.expires)
      [] r.scheme = "goog2" -> SameTarget(r, i) /\ r.ext = i.ext /\ clock < r.expires
      [] r.scheme = "goog1" -> SameTarget(r, i) /\ r.ext = i.ext
      [] r.scheme = "bearer" -> i.scheme = "bearer"
      [] r.scheme = "oci" -> /\ SameTarget(r, i) /\ r.query = i.query /\ (r.sha # NoSha => SameBody(r, i))
                             /\ Within(i.date - FiveMinutes, i.date + FiveMinutes)
      [] r.scheme \in {"acsSms", "acsMail"} -> /\ SameTarget(r, i) /\ r.query = i.query /\ SameBody(r, i)
                             /\ Within(i.date - FifteenMinutes, i.date + FifteenMinutes)

(* What lets a request in: an issued signature of its method, resource, query and headers, and of its body
   where the scheme covers it, within the time that the signature allows; a shared access signature's blob
   or container, with one of its permissions, in its interval; for an unsigned request policy
   and ACL, if they let anybody in; for a session the process that opened it. *)
Entitled(q) ==
    CASE q.scheme = "none" -> Decision(policy, acl, FromRequest(q)) = "Allow"
      [] q.scheme = "session" -> q.cookie.process = process /\ clock <= q.cookie.issued + SessionTtl
      [] OTHER -> \E i \in issued : Vouches(q, i)

(* A credential lets its holder do what it was made for and nothing else, at every door (the verifiers of
   the doors): no other request is served, and a signature without the write permission never replaces a
   blob that exists, not even one that a tool outside the provider gate created after the signature's
   permission was checked. *)
CredentialsHonoured ==
    [][/\ served' \notin {served, Nothing} => Entitled(served')
       /\ blob = "mcp" /\ blob' = "upload" => \A i \in issued : i.scheme = "sas" => "w" \in i.sas.perms]_vars

(* A further Deny refuses exactly the requests that it applies to and a further Allow refuses none,
   wherever in the policy they stand; no order or repetition of statements changes a decision. *)
StatementsCompose ==
    door = "policy" =>
    \A ctx \in Contexts, s \in Statements :
        LET before == Decision(policy, acl, ctx)
            after == {Decision(<<s>> \o policy, acl, ctx), Decision(Append(policy, s), acl, ctx)}
        IN /\ s.effect = "Deny" => after = {IF StatementApplies(s, ctx) THEN "Deny" ELSE before}
           /\ (s.effect = "Allow" /\ before = "Allow") => after = {"Allow"}
           /\ Decision(Reverse(policy), acl, ctx) = before
=============================================================================
