----------------------------- MODULE EmailRepeat -----------------------------
(***************************************************************************)
(* Repeatable sends of ACS Email (mail/providers/acs.rs): a request id     *)
(* and an operation id are claimed under one lock, and the message and its *)
(* replay records are captured in one transaction.  Admin deletions take   *)
(* no part in the lock; clients repeat a request whose answer was lost.    *)
(*                                                                         *)
(* capture_batch is atomic here (module Capture): it commits, or not, and  *)
(* may report an error in both cases.  A fingerprint is reduced to the     *)
(* operation id and body it is computed from.                              *)
(***************************************************************************)
EXTENDS Naturals

CONSTANTS
    Rid,            \* Repeatability-Request-Id values, case folded
    NoRid,          \* a request without repeatability headers
    Op, NoOp,       \* Operation-Id values; NoOp: the header is absent
    Body,           \* request bodies
    BadBody,        \* the ones parse_message refuses, or sent with an Operation-Id that is no UUID
    BigBody,        \* the ones over the capture budget
    Sent,           \* Repeatability-First-Sent values
    Client, NoClient

ASSUME EmailAssumption ==
    /\ NoRid \notin Rid /\ NoOp \notin Op /\ NoClient \notin Client
    /\ BadBody \subseteq Body /\ BigBody \subseteq Body

EmailRequests == [rid : Rid \cup {NoRid}, op : Op \cup {NoOp}, body : Body, sent : Sent]
NoRequest == [rid |-> NoRid, op |-> NoOp]
Fingerprint(r) == <<r.op, r.body>>
Fingerprints == (Op \cup {NoOp}) \X Body

EmailRecords == [hash : Fingerprints, sent : Sent, status : {"accepted", "rejected"}, op : Op \cup {NoOp}]
NoRecord == [status |-> "none"]
EmailMessages == [op : Op, rid : Rid \cup {NoRid}, hash : Fingerprints, sent : Sent]

VARIABLES
    record,     \* Rid -> replay record "acs-email/<rid>"
    reserved,   \* operation ids with a record "acs-email-operation/<op>"
    mail,       \* captured ACS messages in the _all mailbox
    holder,     \* holder of ACS_EMAIL_CLAIMS
    point, req, opid, \* Client -> control point, request, operation id it uses
    made, used, \* history: captures per request id, and per operation id
    old,        \* operation ids of the messages found at the start
    answers,    \* history: every answer to a repeatable request
    accepted    \* history: operation ids reported as accepted

emailStore == <<record, reserved, mail>>
local == <<holder, point, req, opid>>
history == <<made, used, old>>
told == <<answers, accepted>>
emailVars == <<emailStore, local, history, told>>

EmailAnswers == [rid : Rid, hash : Fingerprints, sent : Sent,
                 status : {"accepted", "rejected"}, op : Op \cup {NoOp}]

EmailTypeOK ==
    /\ record \in [Rid -> EmailRecords \cup {NoRecord}]
    /\ reserved \in SUBSET Op
    /\ mail \in SUBSET EmailMessages
    /\ holder \in Client \cup {NoClient}
    /\ point \in [Client -> {"idle", "claim", "lookup", "legacy", "parse", "reserve", "commit"}]
    /\ req \in [Client -> EmailRequests \cup {NoRequest}]
    /\ \A c \in Client : point[c] # "idle" => req[c] # NoRequest
    /\ opid \in [Client -> Op \cup {NoOp}]
    /\ made \in [Rid -> Nat] /\ used \in [Op -> Nat] /\ old \in SUBSET Op
    /\ answers \in SUBSET EmailAnswers /\ accepted \in SUBSET Op

\* The store may hold messages of builds that kept no replay records.
EmailInit ==
    /\ record = [r \in Rid |-> NoRecord]
    /\ reserved = {}
    /\ mail \in {{}} \cup {{m} : m \in {n \in EmailMessages : n.rid # NoRid}}
    /\ holder = NoClient
    /\ point = [c \in Client |-> "idle"]
    /\ req = [c \in Client |-> NoRequest]
    /\ opid = [c \in Client |-> NoOp]
    /\ answers = {} /\ accepted = {}
    /\ made = [r \in Rid |-> 0] /\ used = [o \in Op |-> 0] /\ old = {m.op : m \in mail}

-----------------------------------------------------------------------------
Go(c, where) == point' = [point EXCEPT ![c] = where] /\ UNCHANGED <<holder, req, opid>>

\* The handler returns: the claim guard is dropped.
Finish(c) ==
    /\ point' = [point EXCEPT ![c] = "idle"]
    /\ holder' = NoClient
    /\ opid' = [opid EXCEPT ![c] = NoOp]
    /\ req' = [req EXCEPT ![c] = NoRequest]
Reply(c, status, op) ==
    /\ Finish(c)
    /\ answers' = IF req[c].rid = NoRid THEN answers
                  ELSE answers \cup {[rid |-> req[c].rid, hash |-> Fingerprint(req[c]), sent |-> req[c].sent,
                                      status |-> status, op |-> op]}
    /\ accepted' = IF status = "accepted" THEN accepted \cup {op} ELSE accepted
\* An error that promises nothing: 413, a mismatch, or an internal error.
Refuse(c) == Finish(c) /\ UNCHANGED told

\* A request that has passed authentication and repeatability's header checks.
Receive(c, r) ==
    /\ point[c] = "idle"
    /\ point' = [point EXCEPT ![c] = "claim"]
    /\ req' = [req EXCEPT ![c] = r]
    /\ UNCHANGED <<emailStore, holder, opid, history, told>>

\* Not the code: requests run without the repeatability claim.
Unclaimed(c) ==
    /\ point[c] = "claim"
    /\ holder' = c
    /\ point' = [point EXCEPT ![c] = IF req[c].rid = NoRid THEN "parse" ELSE "lookup"]
    /\ UNCHANGED <<emailStore, req, opid, history, told>>
EmailClaim(c) ==
    /\ point[c] = "claim"
    /\ holder = NoClient
    /\ holder' = c
    /\ point' = [point EXCEPT ![c] = IF req[c].rid = NoRid THEN "parse" ELSE "lookup"]
    /\ UNCHANGED <<emailStore, req, opid, history, told>>

\* A record decides the answer: replay_response, or a refusal when the
\* fingerprint or the first-sent value has changed.
Lookup(c) ==
    /\ point[c] = "lookup"
    /\ LET r == record[req[c].rid] IN
         IF r = NoRecord THEN Go(c, "legacy") /\ UNCHANGED told
         ELSE IF r.hash = Fingerprint(req[c]) /\ r.sent = req[c].sent THEN Reply(c, r.status, r.op)
         ELSE Refuse(c)
    /\ UNCHANGED <<emailStore, history>>

\* capture_batch of records alone, or of a message with its records.  The
\* outcome is <<committed, reported>>: an error may hide a commit.
Outcomes == {<<TRUE, TRUE>>, <<TRUE, FALSE>>, <<FALSE, FALSE>>}

\* Not the code: an older message is answered without a reservation.
LegacyUnreserved(c, m, out) ==
    /\ point[c] = "legacy"
    /\ m \in mail /\ m.rid = req[c].rid
    /\ IF m.hash = Fingerprint(req[c]) /\ m.sent = req[c].sent THEN Reply(c, "accepted", m.op) ELSE Refuse(c)
    /\ UNCHANGED <<emailStore, history>>
\* existing_repeatability: an older message stands for its record, which is
\* now written together with the reservation of its operation id.
LegacyFound(c, m, out) ==
    /\ point[c] = "legacy"
    /\ m \in mail /\ m.rid = req[c].rid
    /\ IF m.hash # Fingerprint(req[c]) \/ m.sent # req[c].sent
         THEN Refuse(c) /\ UNCHANGED emailStore
         ELSE /\ IF out[1]
                   THEN /\ record' = [record EXCEPT ![req[c].rid] =
                              [hash |-> Fingerprint(req[c]), sent |-> req[c].sent, status |-> "accepted", op |-> m.op]]
                        /\ reserved' = reserved \cup {m.op}
                        /\ UNCHANGED mail
                   ELSE UNCHANGED emailStore
              /\ IF out[2] THEN Reply(c, "accepted", m.op) ELSE Refuse(c)
    /\ UNCHANGED <<history>>

LegacyNone(c) ==
    /\ point[c] = "legacy"
    /\ \A m \in mail : m.rid # req[c].rid
    /\ Go(c, "parse")
    /\ UNCHANGED <<emailStore, history, told>>

\* rejected_request: a repeatable error is remembered, and nothing is captured.
RejectedRequest(c, out) ==
    LET r == req[c] IN
      /\ record' = IF r.rid # NoRid /\ out[1]
                     THEN [record EXCEPT ![r.rid] = [hash |-> Fingerprint(r), sent |-> r.sent,
                                                     status |-> "rejected", op |-> NoOp]]
                     ELSE record
      /\ IF out[2] THEN Reply(c, "rejected", NoOp) ELSE Refuse(c)
      /\ UNCHANGED <<reserved, mail, history>>

\* A body over the budget is refused without a reservation.
Parse(c, out) ==
    /\ point[c] = "parse"
    /\ \/ req[c].body \in BadBody /\ RejectedRequest(c, out)
       \/ req[c].body \in BigBody \ BadBody /\ Refuse(c) /\ UNCHANGED <<emailStore, history>>
       \/ /\ req[c].body \notin BadBody \cup BigBody
          /\ Go(c, "reserve") /\ UNCHANGED <<emailStore, history, told>>

\* The operation id: the header's, or a new one.  Only a header's id is also
\* looked up among the captured messages.
Exists(o) == \E m \in mail : m.op = o
Reserve(c, o, out) ==
    /\ point[c] = "reserve"
    /\ IF req[c].op = NoOp
         THEN o \notin reserved /\ ~Exists(o) /\ (\A d \in Client : opid[d] # o /\ req[d].op # o)
         ELSE o = req[c].op
    /\ IF o \in reserved \/ (req[c].op # NoOp /\ Exists(o))
         THEN RejectedRequest(c, out)
         ELSE /\ point' = [point EXCEPT ![c] = "commit"] /\ opid' = [opid EXCEPT ![c] = o]
              /\ UNCHANGED <<emailStore, holder, req, history, told>>

\* The message, its reservation and its replay record commit together.
Commit(c, out) ==
    /\ point[c] = "commit"
    /\ LET r == req[c]
           o == opid[c]
       IN  /\ IF out[1]
                THEN /\ mail' = mail \cup {[op |-> o, rid |-> r.rid, hash |-> Fingerprint(r), sent |-> r.sent]}
                     /\ reserved' = reserved \cup {o}
                     /\ record' = IF r.rid = NoRid THEN record
                          ELSE [record EXCEPT ![r.rid] = [hash |-> Fingerprint(r), sent |-> r.sent,
                                                          status |-> "accepted", op |-> o]]
                     /\ made' = IF r.rid = NoRid THEN made ELSE [made EXCEPT ![r.rid] = @ + 1]
                     /\ used' = [used EXCEPT ![o] = @ + 1]
                ELSE UNCHANGED <<emailStore, made, used>>
           /\ IF out[2] THEN Reply(c, "accepted", o) ELSE Refuse(c)
    /\ UNCHANGED old

-----------------------------------------------------------------------------
\* Admin deletion of a capture leaves records and reservations alone.
DeleteMessage(m) ==
    /\ m \in mail
    /\ mail' = mail \ {m}
    /\ UNCHANGED <<record, reserved, local, history, told>>

\* A record or a mailbox cannot be read: the handler returns the error.
ReadFails(c) ==
    /\ point[c] \in {"lookup", "legacy", "reserve"}
    /\ Refuse(c)
    /\ UNCHANGED <<emailStore, history>>

\* Process death: requests are dropped unanswered.
EmailCrash ==
    /\ \E c \in Client : point[c] # "idle"
    /\ point' = [c \in Client |-> "idle"] /\ opid' = [c \in Client |-> NoOp]
    /\ req' = [c \in Client |-> NoRequest]
    /\ holder' = NoClient
    /\ UNCHANGED <<emailStore, history, told>>

EmailNext ==
    \/ \E c \in Client :
         \/ \E r \in EmailRequests : Receive(c, r)
         \/ EmailClaim(c) \/ Lookup(c) \/ LegacyNone(c) \/ ReadFails(c)
         \/ \E out \in Outcomes :
              \/ \E m \in mail : LegacyFound(c, m, out)
              \/ Parse(c, out) \/ Commit(c, out)
              \/ \E o \in Op : Reserve(c, o, out)
    \/ \E m \in mail : DeleteMessage(m)
    \/ EmailCrash

EmailSpec == EmailInit /\ [][EmailNext]_emailVars

-----------------------------------------------------------------------------
(* Properties *)

\* However often a request is repeated, beside others, after lost answers and
\* hidden commits, after crashes and deletions, it captures at most one
\* message; a remembered rejection captures none.
AtMostOnce ==
    \A r \in Rid : made[r] <= 1 /\ (made[r] = 1 => record[r].status = "accepted")

\* "Matching retries return the original result, while changed fingerprints or
\* first-sent values fail": all answers to one request id are the same.
SameAnswer ==
    \A a, b \in answers : a.rid = b.rid => a = b

\* An operation id names at most one new capture, even once it is deleted.
OperationUnique == \A o \in Op : used[o] <= 1

\* An accepted request was captured, and its operation can be polled for ever,
\* whatever the administrator deletes.
AcceptedKept ==
    \A o \in accepted : o \in reserved /\ (o \in old \/ used[o] = 1)
=============================================================================
