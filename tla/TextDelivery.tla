---------------------------- MODULE TextDelivery ----------------------------
(***************************************************************************)
(* Delivery of captured text messages: the simulator that moves outbound   *)
(* messages to a terminal state and injects inbound ones, the HTTP         *)
(* callbacks it sends, their retries, and the admin deletions, listings    *)
(* and media lookups that run beside them (sms/simulator.rs,               *)
(* sms/filesystem.rs, api/admin_text.rs).                                  *)
(*                                                                         *)
(* Admin requests run concurrently.  The store's write lock covers each    *)
(* write; reads take no lock, so a deletion is visible step by step.  The  *)
(* capture of a message is atomic here: module Capture justifies it.       *)
(***************************************************************************)
EXTENDS Naturals, FiniteSets

CONSTANTS
    OutMsg, InMsg,      \* outbound and inbound message identities
    Client, NoClient,   \* admin requests in flight
    Attempt, NoAttempt, \* callback attempt identities
    Url, NoUrl,         \* callback URLs
    MaxFailures         \* bound: filesystem errors and process deaths together

ASSUME TextAssumption ==
    /\ OutMsg \cap InMsg = {}
    /\ NoClient \notin Client /\ NoAttempt \notin Attempt /\ NoUrl \notin Url
    /\ MaxFailures \in Nat

Msg == OutMsg \cup InMsg
Terminal == {"delivered", "failed"}
Kinds == {"inbound", "delivery"}

VARIABLES
    msg,        \* Msg -> "absent", its delivery state, or "gone" once deleted
    hook,       \* Msg -> status_callback URL of its metadata
    dest,       \* callback destination of the local number
    attempt,    \* Attempt -> its record, or NoRecord
    lock        \* holder of the store's write lock across steps

VARIABLES
    pc,         \* Client -> control point
    req,        \* Client -> what the request has read so far
    todo        \* Client -> messages or attempts still to be visited

VARIABLES
    received,   \* callbacks that reached their endpoint
    late,       \* messages whose deletion overlapped a callback or failed
    unused,     \* attempt identities not yet drawn
    lost,       \* attempts whose record a failure prevented
    failures

store == <<msg, hook, dest, attempt>>
client == <<pc, req, todo>>
past == <<received, late, unused, lost>>
vars == <<store, lock, client, past, failures>>

NoRecord == [msg |-> "none"]
Record(m, k, u, r, ok) == [msg |-> m, kind |-> k, url |-> u, retryOf |-> r, ok |-> ok]
Records == [msg : Msg, kind : Kinds, url : Url, retryOf : Attempt \cup {NoAttempt}, ok : BOOLEAN]
Recorded == {a \in Attempt : attempt[a] # NoRecord}
AttemptsOf(m) == {a \in Recorded : attempt[a].msg = m}

NoReq == [msg |-> "none"]
Request(m, s, b) ==
    [msg |-> m, state |-> s, before |-> b, kind |-> "none", url |-> NoUrl, prior |-> NoAttempt,
     id |-> NoAttempt, ok |-> FALSE]
Requests ==
    [msg : Msg, state : Terminal \cup {"none"}, before : {"absent", "accepted", "gone"} \cup Terminal,
     kind : Kinds \cup {"none"}, url : Url \cup {NoUrl}, prior : Attempt \cup {NoAttempt},
     id : Attempt \cup {NoAttempt}, ok : BOOLEAN]

Live(m) == msg[m] \in {"accepted"} \cup Terminal
\* Bound: a request that may send a callback starts only while an identity is
\* left for it.
Room == Cardinality(unused) > Cardinality({c \in Client : pc[c] \in {"transition", "route", "reload", "send"}})

TypeOK ==
    /\ msg \in [Msg -> {"absent", "accepted", "gone"} \cup Terminal]
    /\ hook \in [Msg -> Url \cup {NoUrl}] /\ dest \in Url \cup {NoUrl}
    /\ attempt \in [Attempt -> Records \cup {NoRecord}]
    /\ lock \in Client \cup {NoClient}
    /\ pc \in [Client -> {"idle", "transition", "route", "send", "record", "reload", "list",
                          "delete", "purge", "scan", "missing"}]
    /\ req \in [Client -> Requests \cup {NoReq}]
    /\ todo \in [Client -> SUBSET (Msg \cup Attempt)]
    /\ received \subseteq [id : Attempt, msg : Msg, kind : Kinds, told : {"accepted"} \cup Terminal, retry : BOOLEAN]
    /\ late \in SUBSET Msg /\ unused \in SUBSET Attempt /\ lost \in SUBSET Attempt /\ failures \in Nat

Init ==
    /\ msg = [m \in Msg |-> "absent"] /\ hook = [m \in Msg |-> NoUrl] /\ dest = NoUrl
    /\ attempt = [a \in Attempt |-> NoRecord]
    /\ lock = NoClient
    /\ pc = [c \in Client |-> "idle"] /\ req = [c \in Client |-> NoReq]
    /\ todo = [c \in Client |-> {}]
    /\ received = {} /\ late = {} /\ unused = Attempt /\ lost = {} /\ failures = 0

-----------------------------------------------------------------------------
\* Moves of a request: to its next step, or to its answer.
Go(c, where, r) ==
    /\ pc' = [pc EXCEPT ![c] = where]
    /\ req' = [req EXCEPT ![c] = r]
    /\ UNCHANGED todo
Answer(c) ==
    /\ pc' = [pc EXCEPT ![c] = "idle"]
    /\ req' = [req EXCEPT ![c] = NoReq]
    /\ todo' = [todo EXCEPT ![c] = {}]
Start(c, where, r, t) ==
    /\ pc[c] \in {"idle", "missing"}
    /\ pc' = [pc EXCEPT ![c] = where]
    /\ req' = [req EXCEPT ![c] = r]
    /\ todo' = [todo EXCEPT ![c] = t]

\* A provider adapter captures an outbound message.
CaptureOutbound(m, u) ==
    /\ lock = NoClient
    /\ m \in OutMsg /\ msg[m] = "absent"
    /\ msg' = [msg EXCEPT ![m] = "accepted"]
    /\ hook' = [hook EXCEPT ![m] = u]
    /\ UNCHANGED <<dest, attempt, lock, client, past, failures>>

\* put_destination and delete_destination.
SetDestination(u) ==
    /\ lock = NoClient
    /\ dest' = u
    /\ UNCHANGED <<msg, hook, attempt, lock, client, past, failures>>

-----------------------------------------------------------------------------
(* The simulator *)

\* inject_inbound stores the message, then looks its destination up.
InjectInbound(c, m) ==
    /\ lock = NoClient /\ Room
    /\ m \in InMsg /\ msg[m] = "absent"
    /\ Start(c, "route", [Request(m, "none", "accepted") EXCEPT !.kind = "inbound"], {})
    /\ msg' = [msg EXCEPT ![m] = "accepted"]
    /\ UNCHANGED <<hook, dest, attempt, lock, past, failures>>

\* transition_delivery reads the message first, without the lock ...
TransitionDelivery(c, m, s) ==
    /\ Room
    /\ IF Live(m) /\ m \in OutMsg
         THEN Start(c, "transition", [Request(m, s, msg[m]) EXCEPT !.kind = "delivery"], {})
         ELSE pc[c] \in {"idle", "missing"} /\ Answer(c)
    /\ UNCHANGED <<store, lock, past, failures>>

\* Not the code: a terminal state can be left.
TransitionOver(c) ==
    /\ pc[c] = "transition"
    /\ lock = NoClient
    /\ LET r == req[c] IN
         IF msg[r.msg] = "gone"
           THEN Answer(c) /\ UNCHANGED msg
           ELSE /\ msg' = [msg EXCEPT ![r.msg] = r.state]
                /\ IF r.before = "accepted" THEN Go(c, "route", r) ELSE Go(c, "list", NoReq)
    /\ UNCHANGED <<hook, dest, attempt, lock, past, failures>>
\* ... and applies the transition under it.
Transition(c) ==
    /\ pc[c] = "transition"
    /\ lock = NoClient
    /\ LET r == req[c] IN
         IF msg[r.msg] \in {"accepted", r.state}
           THEN /\ msg' = [msg EXCEPT ![r.msg] = r.state]
                /\ IF r.before = "accepted" THEN Go(c, "route", r) ELSE Go(c, "list", NoReq)
           ELSE Answer(c) /\ UNCHANGED msg
    /\ UNCHANGED <<hook, dest, attempt, lock, past, failures>>

\* Delivery callbacks prefer the message's own URL, inbound ones have none.
Route(c) ==
    /\ pc[c] = "route"
    /\ LET r == req[c]
           u == IF r.kind = "delivery" /\ hook[r.msg] # NoUrl THEN hook[r.msg] ELSE dest
       IN  IF u = NoUrl THEN Go(c, "list", NoReq) ELSE Go(c, "send", [r EXCEPT !.url = u])
    /\ UNCHANGED <<store, lock, past, failures>>

\* retry reads the prior attempt, then its message.
Retry(c, a) ==
    /\ a \in Recorded /\ Room
    /\ Start(c, "reload", [Request(attempt[a].msg, "none", "accepted") EXCEPT
                             !.kind = attempt[a].kind, !.url = attempt[a].url, !.prior = a], {})
    /\ UNCHANGED <<store, lock, past, failures>>

Reload(c) ==
    /\ pc[c] = "reload"
    /\ LET r == req[c] IN
         IF Live(r.msg)
           THEN Go(c, "send", [r EXCEPT !.state = IF msg[r.msg] \in Terminal THEN msg[r.msg] ELSE "none"])
           ELSE Answer(c)
    /\ UNCHANGED <<store, lock, past, failures>>

\* attempt_callback: the payload tells what the request has read.  The request
\* may reach the endpoint or not, and its answer may be a success, a failure
\* or, after callback_timeout, nothing.
Sent(c, a, arrives, ok) ==
    /\ LET r == req[c] IN
         /\ received' = IF ~arrives THEN received
              ELSE received \cup {[id |-> a, msg |-> r.msg, kind |-> r.kind,
                                   told |-> IF r.state = "none" THEN "accepted" ELSE r.state,
                                   retry |-> r.prior # NoAttempt]}
         /\ Go(c, "record", [r EXCEPT !.id = a, !.ok = ok])
    /\ unused' = unused \ {a}
    /\ UNCHANGED <<store, lock, late, lost, failures>>
SendCallback(c, a, arrives, ok) ==
    /\ pc[c] = "send"
    /\ a \in unused
    /\ ok => arrives
    /\ Sent(c, a, arrives, ok)

\* Not the code: a recorded callback also changes the message.
RecordSuccess(c) ==
    /\ pc[c] = "record"
    /\ lock = NoClient
    /\ LET r == req[c] IN
         /\ attempt' = IF r.ok THEN [attempt EXCEPT ![r.id] = Record(r.msg, r.kind, r.url, r.prior, r.ok)] ELSE attempt
         /\ Go(c, "list", NoReq)
    /\ UNCHANGED <<msg, hook, dest, lock, past, failures>>
\* record_callback never looks at the message again.
RecordCallback(c) ==
    /\ pc[c] = "record"
    /\ lock = NoClient
    /\ LET r == req[c] IN
         /\ attempt' = [attempt EXCEPT ![r.id] = Record(r.msg, r.kind, r.url, r.prior, r.ok)]
         /\ IF r.prior = NoAttempt THEN Go(c, "list", NoReq) ELSE Answer(c)
    /\ UNCHANGED <<msg, hook, dest, lock, past, failures>>

-----------------------------------------------------------------------------
(* Reads of the admin and provider interfaces *)

\* The answer lists the message's attempts: every attempt file is enumerated,
\* then opened, and one that a deletion has removed meanwhile is an error.
ListCallbacks(c) ==
    /\ pc[c] = "list"
    /\ \/ /\ todo[c] = {} /\ Recorded # {}
          /\ todo' = [todo EXCEPT ![c] = Recorded]
          /\ UNCHANGED <<pc, req>>
       \/ /\ \E a \in todo[c] :
               IF a \notin Recorded THEN Answer(c)
               ELSE IF todo[c] = {a} THEN Answer(c)
               ELSE todo' = [todo EXCEPT ![c] = @ \ {a}] /\ UNCHANGED <<pc, req>>
       \/ Recorded = {} /\ todo[c] = {} /\ Answer(c)
    /\ UNCHANGED <<store, lock, past, failures>>

\* get_message_by_provider_id reads the message files one after the other.
LookupByProviderId(c, m) ==
    /\ Start(c, "scan", Request(m, "none", msg[m]), {n \in Msg : Live(n)})
    /\ UNCHANGED <<store, lock, past, failures>>

ScanNext(c) ==
    /\ pc[c] = "scan"
    /\ \/ todo[c] = {} /\ Go(c, "missing", req[c])
       \/ \E n \in todo[c] :
            IF ~Live(n)
              THEN /\ pc' = [pc EXCEPT ![c] = "missing"]
                   /\ todo' = [todo EXCEPT ![c] = {}] /\ UNCHANGED req
              ELSE IF n = req[c].msg THEN Answer(c)
              ELSE todo' = [todo EXCEPT ![c] = @ \ {n}] /\ UNCHANGED <<pc, req>>
    /\ UNCHANGED <<store, lock, past, failures>>

-----------------------------------------------------------------------------
(* delete_message and delete_conversation: one hold of the lock *)

InFlight(m) == \E c \in Client : req[c] # NoReq /\ req[c].msg = m /\ pc[c] \in {"route", "send", "record"}

BeginDelete(c, S) ==
    /\ lock = NoClient
    /\ lock' = c
    /\ Start(c, "delete", NoReq, S)
    /\ UNCHANGED <<store, past, failures>>

DeleteMessage(c, m) ==
    /\ pc[c] = "delete"
    /\ m \in todo[c]
    /\ msg' = [msg EXCEPT ![m] = "gone"]
    /\ late' = IF InFlight(m) THEN late \cup {m} ELSE late
    /\ pc' = [pc EXCEPT ![c] = "purge"]
    /\ req' = [req EXCEPT ![c] = Request(m, "none", "gone")]
    /\ UNCHANGED <<hook, dest, attempt, lock, todo, received, unused, lost, failures>>

PurgeAttempt(c, a) ==
    /\ pc[c] = "purge"
    /\ a \in AttemptsOf(req[c].msg)
    /\ attempt' = [attempt EXCEPT ![a] = NoRecord]
    /\ UNCHANGED <<msg, hook, dest, lock, client, past, failures>>

PurgeDone(c) ==
    /\ pc[c] = "purge"
    /\ AttemptsOf(req[c].msg) = {}
    /\ IF todo[c] = {req[c].msg}
         THEN Answer(c) /\ lock' = NoClient
         ELSE /\ pc' = [pc EXCEPT ![c] = "delete"] /\ req' = [req EXCEPT ![c] = NoReq]
              /\ todo' = [todo EXCEPT ![c] = @ \ {req[c].msg}]
              /\ UNCHANGED lock
    /\ UNCHANGED <<store, past, failures>>

-----------------------------------------------------------------------------
(* Failures *)

\* A write or an unlink of the request fails; the guard releases the lock.
Fault(c) ==
    /\ failures < MaxFailures
    /\ failures' = failures + 1
    /\ pc[c] \in {"transition", "record", "delete", "purge"}
    /\ pc[c] \in {"transition", "record"} => lock = NoClient
    /\ Answer(c)
    /\ lock' = IF lock = c THEN NoClient ELSE lock
    /\ lost' = IF pc[c] = "record" THEN lost \cup {req[c].id} ELSE lost
    /\ late' = IF pc[c] = "purge" THEN late \cup {req[c].msg} ELSE late
    /\ UNCHANGED <<store, received, unused>>

Crash ==
    /\ failures < MaxFailures
    /\ failures' = failures + 1
    /\ pc' = [c \in Client |-> "idle"] /\ req' = [c \in Client |-> NoReq]
    /\ todo' = [c \in Client |-> {}]
    /\ lock' = NoClient
    /\ lost' = lost \cup {req[c].id : c \in {d \in Client : pc[d] = "record"}}
    /\ late' = late \cup {req[c].msg : c \in {d \in Client : pc[d] = "purge"}}
    /\ UNCHANGED <<store, received, unused>>

-----------------------------------------------------------------------------
Deletions == {{m} : m \in {n \in Msg : msg[n] # "absent"}} \cup {{m \in Msg : Live(m)}}

Begin ==
    \/ \E m \in Msg, u \in Url \cup {NoUrl} : CaptureOutbound(m, u)
    \/ \E u \in Url \cup {NoUrl} : SetDestination(u)
    \/ \E c \in Client :
         \/ \E m \in Msg : InjectInbound(c, m) \/ LookupByProviderId(c, m)
         \/ \E m \in Msg, s \in Terminal : TransitionDelivery(c, m, s)
         \/ \E a \in Attempt : Retry(c, a)
         \/ \E S \in Deletions : S # {} /\ BeginDelete(c, S)

Step(c) ==
    \/ Transition(c) \/ Route(c) \/ Reload(c) \/ RecordCallback(c)
    \/ \E a \in Attempt, arrives, ok \in BOOLEAN : SendCallback(c, a, arrives, ok)
    \/ ListCallbacks(c) \/ ScanNext(c)
    \/ \E m \in Msg : DeleteMessage(c, m)
    \/ \E a \in Attempt : PurgeAttempt(c, a)
    \/ PurgeDone(c)

Next == Begin \/ (\E c \in Client : Step(c) \/ Fault(c)) \/ Crash

Spec == Init /\ [][Next]_vars

-----------------------------------------------------------------------------
(* Properties *)

Deliveries(m) == {e \in received : e.msg = m /\ e.kind = "delivery"}

\* Whatever transitions, retries and deletions race, every delivery callback an
\* endpoint receives for a message tells the one terminal state it reached
\* (store.transition_delivery: "terminal delivery states are immutable").
OneStory ==
    \A m \in Msg : \A e \in Deliveries(m) :
      /\ e.told \in Terminal
      /\ msg[m] \in {e.told, "gone"}
      /\ \A f \in Deliveries(m) : f.told = e.told

\* Every callback that went out can be inspected: its attempt is recorded or
\* about to be, unless its message was deleted or a failure came between.
Inspectable ==
    \A e \in received :
      \/ e.id \in Recorded \cup lost
      \/ msg[e.msg] = "gone"
      \/ \E c \in Client : pc[c] = "record" /\ req[c].id = e.id

\* Only a callback that was already on its way when its message was deleted,
\* or a deletion that failed, can leave an attempt behind.
Purged ==
    \A a \in Recorded :
      msg[attempt[a].msg] = "gone" =>
        \/ attempt[a].msg \in late
        \/ \E c \in Client : pc[c] = "purge" /\ req[c].msg = attempt[a].msg

\* The recorded attempts account for the callbacks: none that concerns a message
\* still there is missing, and none is left of a message that went quietly.
Accounted == Inspectable /\ Purged

=============================================================================
