----------------------------- MODULE TextProofs -----------------------------
(***************************************************************************)
(* What TLAPS proves of text messages: of the delivery simulator and its   *)
(* callbacks (TextDelivery), whose attempts are told to a receiver while   *)
(* the message may be deleted, and of the repeatable sends of ACS SMS      *)
(* (AcsSms).                                                               *)
(***************************************************************************)
EXTENDS TextDelivery, AcsSms, FiniteSetTheorems, SequenceTheorems, WellFoundedInduction, TLAPS

-----------------------------------------------------------------------------
(* The delivery simulator: the inductive invariant *)

\* A request with a message in hand holds what it has read of it.
Sound(c) ==
    /\ pc[c] \in {"transition", "route", "send", "record", "reload", "purge", "scan", "missing"} =>
         req[c] \in Requests
    /\ pc[c] = "transition" => req[c].kind = "delivery" /\ req[c].state \in Terminal
    /\ pc[c] \in {"route", "send", "record", "reload"} => req[c].kind \in Kinds
    /\ pc[c] = "record" => req[c].id \in Attempt
    /\ pc[c] \in {"send", "record", "reload"} => req[c].url \in Url
    /\ pc[c] = "purge" => msg[req[c].msg] = "gone"
ReqOK == \A c \in Client : Sound(c)

\* Request c has a delivery callback of message m to send or to record.
Telling(c, m) == pc[c] \in {"route", "send", "record"} /\ req[c].kind = "delivery" /\ req[c].msg = m

\* Every delivery callback on its way tells what those received tell: the
\* state of the message, also once the message is gone.
StoryOK ==
    /\ \A c \in Client, m \in Msg : Telling(c, m) => req[c].state \in Terminal /\ msg[m] \in {req[c].state, "gone"}
    /\ \A c, d \in Client, m \in Msg : Telling(c, m) /\ Telling(d, m) => req[c].state = req[d].state
    /\ \A c \in Client, m \in Msg : \A e \in Deliveries(m) : Telling(c, m) => req[c].state = e.told
    /\ \A c \in Client : pc[c] = "reload" /\ req[c].kind = "delivery" => msg[req[c].msg] \in Terminal \cup {"gone"}
    /\ \A a \in Recorded : attempt[a].kind = "delivery" => msg[attempt[a].msg] \in Terminal \cup {"gone"}

\* An attempt identity belongs to one callback, and is drawn once.
IdentityOK ==
    /\ \A e \in received : e.id \notin unused
    /\ \A a \in Recorded : a \notin unused
    /\ \A c \in Client : pc[c] = "record" => req[c].id \notin unused
    /\ \A e \in received : e.id \in Recorded => attempt[e.id].msg = e.msg
    /\ \A e \in received, c \in Client : pc[c] = "record" /\ req[c].id = e.id => req[c].msg = e.msg

\* A callback on its way when its message went is known to be late.
LateOK ==
    \A c \in Client : pc[c] \in {"route", "send", "record"} /\ msg[req[c].msg] = "gone" => req[c].msg \in late

TInv == TypeOK /\ ReqOK /\ StoryOK /\ IdentityOK /\ LateOK /\ OneStory /\ Inspectable /\ Purged

-----------------------------------------------------------------------------
PCs == {"idle", "transition", "route", "send", "record", "reload", "list", "delete", "purge", "scan", "missing"}

\* The fields of requests and records; the blanks are neither.
LEMMA Fields ==
    /\ \A r \in Requests : /\ r.msg \in Msg /\ r.state \in Terminal \cup {"none"}
                            /\ r.kind \in Kinds \cup {"none"} /\ r.url \in Url \cup {NoUrl}
                            /\ r.prior \in Attempt \cup {NoAttempt} /\ r.id \in Attempt \cup {NoAttempt}
                            /\ r.ok \in BOOLEAN
    /\ \A r \in Records : r.msg \in Msg /\ r.kind \in Kinds /\ r.url \in Url
    /\ NoReq \notin Requests /\ NoRecord \notin Records
<1>1. NoReq \notin Requests
  BY DEF NoReq, Requests
<1>2. NoRecord \notin Records
  BY DEF NoRecord, Records
<1> QED
  BY <1>1, <1>2 DEF Requests, Records

ClientOK ==
    /\ pc \in [Client -> PCs] /\ req \in [Client -> Requests \cup {NoReq}]
    /\ todo \in [Client -> SUBSET (Msg \cup Attempt)]
Others(c) == \A d \in Client \ {c} : pc'[d] = pc[d] /\ req'[d] = req[d]

\* The moves of a request leave the other requests where they are.
LEMMA Moves ==
    ASSUME ClientOK, NEW c \in Client
    PROVE  /\ Answer(c) => ClientOK' /\ Others(c) /\ pc'[c] = "idle" /\ req'[c] = NoReq
           /\ \A w \in PCs, r \in Requests \cup {NoReq} :
                Go(c, w, r) => ClientOK' /\ Others(c) /\ pc'[c] = w /\ req'[c] = r
           /\ \A w \in PCs, r \in Requests \cup {NoReq}, t \in SUBSET (Msg \cup Attempt) :
                Start(c, w, r, t) => /\ ClientOK' /\ Others(c) /\ pc'[c] = w /\ req'[c] = r
                                     /\ pc[c] \in {"idle", "missing"}
<1> USE DEF ClientOK, Others, PCs
<1>1. Answer(c) => ClientOK' /\ Others(c) /\ pc'[c] = "idle" /\ req'[c] = NoReq
  BY DEF Answer
<1>2. ASSUME NEW w \in PCs, NEW r \in Requests \cup {NoReq}, Go(c, w, r)
      PROVE  ClientOK' /\ Others(c) /\ pc'[c] = w /\ req'[c] = r
  BY <1>2 DEF Go
<1>3. ASSUME NEW w \in PCs, NEW r \in Requests \cup {NoReq}, NEW t \in SUBSET (Msg \cup Attempt), Start(c, w, r, t)
      PROVE  ClientOK' /\ Others(c) /\ pc'[c] = w /\ req'[c] = r /\ pc[c] \in {"idle", "missing"}
  BY <1>3 DEF Start
<1> QED
  BY <1>1, <1>2, <1>3

\* A message moves on: it is captured or reaches a terminal state.
Advances ==
    \A m \in Msg : msg'[m] = msg[m] \/ (msg[m] \in {"absent", "accepted"} /\ msg'[m] \in {"accepted"} \cup Terminal)
KInv == ReqOK /\ StoryOK /\ IdentityOK /\ LateOK /\ OneStory /\ Inspectable /\ Purged

\* Request c moves on beside messages that do, and tells nothing but the truth.
LEMMA Advance ==
    ASSUME TInv, TypeOK', Advances, UNCHANGED <<attempt, received, unused, late, lost>>,
           NEW c, Others(c), c \in Client => Sound(c)',
           c \in Client => pc[c] \notin {"record", "purge"} /\ pc'[c] \notin {"record", "purge"},
           c \in Client => \A m \in Msg : Telling(c, m)' =>
             \/ Telling(c, m) /\ req'[c].state = req[c].state
             \/ req'[c].state \in Terminal /\ msg'[m] = req'[c].state,
           c \in Client /\ pc'[c] = "reload" /\ req'[c].kind = "delivery" => msg'[req'[c].msg] \in Terminal \cup {"gone"},
           c \in Client /\ pc'[c] \in {"route", "send"} => msg'[req'[c].msg] # "gone" \/ req'[c].msg \in late
    PROVE  KInv'
<1> USE Fields
<1>t. TypeOK /\ ReqOK /\ StoryOK /\ IdentityOK /\ LateOK /\ OneStory /\ Inspectable /\ Purged
  BY DEF TInv
<1>r. Recorded' = Recorded /\ \A m : Deliveries(m)' = Deliveries(m)
  BY DEF Recorded, Deliveries
<1>m. \A m \in Msg : /\ msg[m] \in Terminal \cup {"gone"} => msg'[m] = msg[m]
                     /\ msg'[m] = "gone" => msg[m] = "gone"
  BY DEF Advances, Terminal
<1>o. \A d \in Client : d # c => pc'[d] = pc[d] /\ req'[d] = req[d]
  BY DEF Others
<1>a. \A a \in Recorded : attempt[a] \in Records /\ attempt[a].msg \in Msg
  BY <1>t DEF TypeOK, Recorded
<1>e. \A e \in received : e.msg \in Msg
  BY <1>t DEF TypeOK
<1>1. ReqOK'
  <2>1. ASSUME NEW d \in Client, d # c PROVE Sound(d)'
    BY <1>t, <1>m, <1>o, <2>1 DEF ReqOK, Sound
  <2> QED
    BY <2>1 DEF ReqOK
<1>2. \A d \in Client, m \in Msg : d # c => (Telling(d, m)' <=> Telling(d, m)) /\ req'[d].state = req[d].state
  BY <1>o DEF Telling
<1>3. \A d \in Client, m \in Msg : Telling(d, m)' => req'[d].state \in Terminal /\ msg'[m] \in {req'[d].state, "gone"}
  BY <1>t, <1>2, <1>m DEF StoryOK
<1>4. \A d \in Client, m \in Msg : Telling(d, m)' =>
        (Telling(d, m) /\ req'[d].state = req[d].state) \/ msg'[m] = req'[d].state
  BY <1>2
<1>5. \A b, d \in Client, m \in Msg : Telling(b, m)' /\ Telling(d, m)' => req'[b].state = req'[d].state
  BY <1>t, <1>3, <1>4 DEF StoryOK, Terminal
<1>6. \A d \in Client, m \in Msg : \A e \in Deliveries(m) : Telling(d, m)' => req'[d].state = e.told
  BY <1>t, <1>m, <1>3, <1>4 DEF StoryOK, OneStory, Terminal
<1>7. \A d \in Client : pc'[d] = "reload" /\ req'[d].kind = "delivery" => msg'[req'[d].msg] \in Terminal \cup {"gone"}
  BY <1>t, <1>m, <1>o DEF StoryOK, ReqOK, Sound
<1>8. StoryOK'
  BY <1>t, <1>r, <1>a, <1>m, <1>3, <1>5, <1>6, <1>7 DEF StoryOK
<1>9. IdentityOK'
  BY <1>t, <1>r, <1>o DEF IdentityOK
<1>10. LateOK'
  BY <1>t, <1>o, <1>m DEF LateOK, ReqOK, Sound
<1>11. OneStory'
  BY <1>t, <1>r, <1>m DEF OneStory
<1>12. Inspectable'
  BY <1>t, <1>r, <1>o, <1>m, <1>e DEF Inspectable
<1>13. Purged'
  BY <1>t, <1>r, <1>o, <1>m, <1>a DEF Purged
<1> QED
  BY <1>1, <1>8, <1>9, <1>10, <1>11, <1>12, <1>13 DEF KInv

\* Requests that end, by an error, a crash or the completion of a purge.
LEMMA Drop ==
    ASSUME TInv, TypeOK', UNCHANGED <<msg, attempt, received, unused>>, late \subseteq late', lost \subseteq lost',
           \A d \in Client : (pc'[d] = pc[d] /\ req'[d] = req[d]) \/ pc'[d] \in {"idle", "delete"},
           \A d \in Client : pc[d] = "record" => (pc'[d] = pc[d] /\ req'[d] = req[d]) \/ req[d].id \in lost',
           \A d \in Client : pc[d] = "purge" =>
             (pc'[d] = pc[d] /\ req'[d] = req[d]) \/ req[d].msg \in late' \/ AttemptsOf(req[d].msg) = {}
    PROVE  KInv'
<1>t. TypeOK /\ ReqOK /\ StoryOK /\ IdentityOK /\ LateOK /\ OneStory /\ Inspectable /\ Purged
  BY DEF TInv
<1>r. Recorded' = Recorded /\ \A m : Deliveries(m)' = Deliveries(m)
  BY DEF Recorded, Deliveries
<1>1. ReqOK'
  BY <1>t DEF ReqOK, Sound
<1>2. \A d \in Client, m \in Msg : Telling(d, m)' => Telling(d, m) /\ req'[d].state = req[d].state
  BY DEF Telling
<1>3. StoryOK'
  BY <1>t, <1>r, <1>2 DEF StoryOK
<1>4. IdentityOK'
  BY <1>t, <1>r DEF IdentityOK
<1>5. LateOK'
  BY <1>t DEF LateOK
<1>6. OneStory'
  BY <1>t, <1>r DEF OneStory
<1>7. Inspectable'
  BY <1>t, <1>r DEF Inspectable
<1>8. Purged'
  BY <1>t, <1>r DEF Purged, AttemptsOf
<1> QED
  BY <1>1, <1>3, <1>4, <1>5, <1>6, <1>7, <1>8 DEF KInv

\* A recorded attempt is one that was sent, of a message that is there or late.
LEMMA RecordStep ==
    ASSUME TInv, NEW c \in Client, pc[c] = "record", NEW x \in Records,
           x.msg = req[c].msg, x.kind = req[c].kind, attempt' = [attempt EXCEPT ![req[c].id] = x],
           UNCHANGED <<msg, received, unused, late, lost>>, Others(c), pc'[c] \in {"list", "idle"}
    PROVE  KInv'
<1> USE Fields
<1> DEFINE i == req[c].id
<1>t. TypeOK /\ ReqOK /\ StoryOK /\ IdentityOK /\ LateOK /\ OneStory /\ Inspectable /\ Purged
  BY DEF TInv
<1>i. i \in Attempt /\ req[c] \in Requests /\ req[c].msg \in Msg
  BY <1>t DEF ReqOK, Sound
<1>r. /\ Recorded' = Recorded \cup {i} /\ attempt'[i] = x
      /\ \A a \in Recorded : a # i => attempt'[a] = attempt[a]
  BY <1>t, <1>i DEF TypeOK, Recorded
<1>d. \A m : Deliveries(m)' = Deliveries(m)
  BY DEF Deliveries
<1>o. \A d \in Client : d # c => pc'[d] = pc[d] /\ req'[d] = req[d]
  BY DEF Others
<1>1. ReqOK'
  BY <1>t, <1>o DEF ReqOK, Sound
<1>2. \A d \in Client, m \in Msg : Telling(d, m)' => Telling(d, m) /\ req'[d].state = req[d].state
  BY <1>o DEF Telling
<1>3. StoryOK'
  <2>1. x.kind = "delivery" => msg[x.msg] \in Terminal \cup {"gone"}
    <3>1. x.kind = "delivery" => Telling(c, req[c].msg)
      BY DEF Telling
    <3>2. Telling(c, req[c].msg) => req[c].state \in Terminal /\ msg[req[c].msg] \in {req[c].state, "gone"}
      BY <1>t, <1>i DEF StoryOK
    <3> QED
      BY <3>1, <3>2
  <2>2. \A a \in Recorded' : attempt'[a].kind = "delivery" => msg[attempt'[a].msg] \in Terminal \cup {"gone"}
    BY <1>t, <1>r, <2>1 DEF StoryOK
  <2>3. \A d \in Client : pc'[d] = "reload" /\ req'[d].kind = "delivery" => msg[req'[d].msg] \in Terminal \cup {"gone"}
    BY <1>t, <1>o DEF StoryOK
  <2> QED
    BY <1>t, <1>d, <1>2, <2>2, <2>3 DEF StoryOK
<1>4. IdentityOK'
  BY <1>t, <1>r, <1>o DEF IdentityOK
<1>5. LateOK'
  BY <1>t, <1>o DEF LateOK
<1>6. OneStory'
  BY <1>t, <1>d DEF OneStory
<1>7. Inspectable'
  BY <1>t, <1>r, <1>o DEF Inspectable
<1>8. Purged'
  BY <1>t, <1>r, <1>o DEF Purged, LateOK
<1> QED
  BY <1>1, <1>3, <1>4, <1>5, <1>6, <1>7, <1>8 DEF KInv

\* A callback that goes out is about to be recorded under its own identity.
LEMMA SendStep ==
    ASSUME TInv, NEW c \in Client, pc[c] = "send", NEW a \in unused, NEW q \in Requests,
           q.msg = req[c].msg, q.kind = req[c].kind, q.state = req[c].state, q.url = req[c].url, q.id = a,
           Others(c), pc'[c] = "record", req'[c] = q,
           UNCHANGED <<msg, attempt, late, lost>>, unused' = unused \ {a},
           NEW e, e.id = a, e.msg = q.msg, e.kind = q.kind,
           e.told = IF q.state = "none" THEN "accepted" ELSE q.state,
           received' \in {received, received \cup {e}}
    PROVE  KInv'
<1> USE Fields
<1>t. TypeOK /\ ReqOK /\ StoryOK /\ IdentityOK /\ LateOK /\ OneStory /\ Inspectable /\ Purged
  BY DEF TInv
<1>i. a \in Attempt /\ req[c] \in Requests /\ q.msg \in Msg /\ a \notin Recorded
  BY <1>t DEF ReqOK, Sound, TypeOK, IdentityOK
<1>r. Recorded' = Recorded
  BY DEF Recorded
<1>o. \A d \in Client : d # c => pc'[d] = pc[d] /\ req'[d] = req[d]
  BY DEF Others
<1>d. \A m : \A f \in Deliveries(m)' : f \in Deliveries(m) \/ (f = e /\ m = q.msg /\ q.kind = "delivery")
  BY DEF Deliveries
<1>1. ReqOK'
  BY <1>t, <1>o, <1>i DEF ReqOK, Sound
<1>2. \A d \in Client, m \in Msg : Telling(d, m)' => Telling(d, m) /\ req'[d].state = req[d].state
  BY <1>o DEF Telling
<1>3. q.kind = "delivery" => /\ Telling(c, q.msg) /\ q.state \in Terminal
                             /\ e.told = q.state /\ msg[q.msg] \in {e.told, "gone"}
  <2>1. q.kind = "delivery" => Telling(c, q.msg)
    BY DEF Telling
  <2>2. Telling(c, q.msg) => q.state \in Terminal /\ msg[q.msg] \in {q.state, "gone"}
    BY <1>t, <1>i DEF StoryOK
  <2>3. q.state \in Terminal => e.told = q.state
    BY DEF Terminal
  <2> QED
    BY <2>1, <2>2, <2>3
<1>4. StoryOK'
  <2>1. \A d \in Client, m \in Msg : \A f \in Deliveries(m)' : Telling(d, m)' => req'[d].state = f.told
    BY <1>t, <1>d, <1>2, <1>3 DEF StoryOK
  <2>2. \A d \in Client : pc'[d] = "reload" /\ req'[d].kind = "delivery" => msg[req'[d].msg] \in Terminal \cup {"gone"}
    BY <1>t, <1>o DEF StoryOK
  <2> QED
    BY <1>t, <1>r, <1>2, <2>1, <2>2 DEF StoryOK
<1>5. IdentityOK'
  <2>1. \A f \in received' : f.id \in Recorded => attempt[f.id].msg = f.msg
    BY <1>t, <1>i DEF IdentityOK
  <2>2. \A f \in received', d \in Client : pc'[d] = "record" /\ req'[d].id = f.id => req'[d].msg = f.msg
    BY <1>t, <1>o DEF IdentityOK
  <2> QED
    BY <1>t, <1>r, <1>o, <2>1, <2>2 DEF IdentityOK
<1>6. LateOK'
  BY <1>t, <1>o DEF LateOK
<1>7. OneStory'
  <2>1. \A m \in Msg : \A f \in Deliveries(m)' : f.told \in Terminal /\ msg[m] \in {f.told, "gone"}
    BY <1>t, <1>d, <1>3 DEF OneStory
  <2>2. \A m \in Msg : \A f, g \in Deliveries(m)' : f.told = g.told
    BY <1>t, <1>d, <1>3 DEF OneStory, StoryOK
  <2> QED
    BY <2>1, <2>2 DEF OneStory
<1>8. Inspectable'
  BY <1>t, <1>r, <1>o DEF Inspectable
<1>9. Purged'
  BY <1>t, <1>r, <1>o DEF Purged
<1> QED
  BY <1>1, <1>4, <1>5, <1>6, <1>7, <1>8, <1>9 DEF KInv

\* A deletion marks what is on its way as late.
LEMMA DeleteStep ==
    ASSUME TInv, NEW c \in Client, pc[c] = "delete", NEW m \in Msg, NEW q \in Requests, q.msg = m,
           Others(c), pc'[c] = "purge", req'[c] = q, msg' = [msg EXCEPT ![m] = "gone"],
           late' = IF InFlight(m) THEN late \cup {m} ELSE late, UNCHANGED <<attempt, received, unused, lost>>
    PROVE  KInv'
<1> USE Fields
<1>t. TypeOK /\ ReqOK /\ StoryOK /\ IdentityOK /\ LateOK /\ OneStory /\ Inspectable /\ Purged
  BY DEF TInv
<1>r. Recorded' = Recorded /\ \A n : Deliveries(n)' = Deliveries(n)
  BY DEF Recorded, Deliveries
<1>o. \A d \in Client : d # c => pc'[d] = pc[d] /\ req'[d] = req[d]
  BY DEF Others
<1>m. msg'[m] = "gone" /\ (\A n \in Msg : n # m => msg'[n] = msg[n]) /\ late \subseteq late'
  BY <1>t DEF TypeOK
<1>a. \A a \in Recorded : attempt[a] \in Records /\ attempt[a].msg \in Msg
  BY <1>t DEF TypeOK, Recorded
<1>e. \A e \in received : e.msg \in Msg
  BY <1>t DEF TypeOK
<1>q. \A d \in Client : pc[d] \in {"route", "send", "record", "reload", "purge"} => req[d] \in Requests /\ req[d].msg \in Msg
  BY <1>t DEF ReqOK, Sound
<1>1. ReqOK'
  BY <1>t, <1>o, <1>m, <1>q DEF ReqOK, Sound
<1>2. \A d \in Client, n \in Msg : Telling(d, n)' => Telling(d, n) /\ req'[d].state = req[d].state
  BY <1>o DEF Telling
<1>3. StoryOK'
  <2>1. \A d \in Client, n \in Msg : Telling(d, n)' => req'[d].state \in Terminal /\ msg'[n] \in {req'[d].state, "gone"}
    BY <1>t, <1>2, <1>m DEF StoryOK
  <2>2. \A d \in Client : pc'[d] = "reload" /\ req'[d].kind = "delivery" => msg'[req'[d].msg] \in Terminal \cup {"gone"}
    BY <1>t, <1>o, <1>m, <1>q DEF StoryOK
  <2>3. \A a \in Recorded : attempt[a].kind = "delivery" => msg'[attempt[a].msg] \in Terminal \cup {"gone"}
    BY <1>t, <1>a, <1>m DEF StoryOK
  <2> QED
    BY <1>t, <1>r, <1>2, <2>1, <2>2, <2>3 DEF StoryOK
<1>4. IdentityOK'
  BY <1>t, <1>r, <1>o DEF IdentityOK
<1>5. LateOK'
  <2>1. ASSUME NEW d \in Client, pc[d] \in {"route", "send", "record"}, req[d].msg = m PROVE m \in late'
    BY <2>1, <1>q DEF InFlight
  <2> QED
    BY <1>t, <1>o, <1>m, <1>q, <2>1 DEF LateOK
<1>6. OneStory'
  BY <1>t, <1>r, <1>m DEF OneStory
<1>7. Inspectable'
  BY <1>t, <1>r, <1>o, <1>m, <1>e DEF Inspectable
<1>8. Purged'
  BY <1>t, <1>r, <1>o, <1>m, <1>a DEF Purged
<1> QED
  BY <1>1, <1>3, <1>4, <1>5, <1>6, <1>7, <1>8 DEF KInv

\* A purge takes attempts of a message that is gone.
LEMMA PurgeStep ==
    ASSUME TInv, NEW c \in Client, NEW a \in Attempt, PurgeAttempt(c, a)
    PROVE  KInv'
<1> USE Fields
<1>t. TypeOK /\ ReqOK /\ StoryOK /\ IdentityOK /\ LateOK /\ OneStory /\ Inspectable /\ Purged
  BY DEF TInv
<1>u. /\ attempt' = [attempt EXCEPT ![a] = NoRecord] /\ UNCHANGED <<msg, pc, req, received, unused, late, lost>>
      /\ a \in Recorded /\ attempt[a].msg = req[c].msg /\ msg[req[c].msg] = "gone"
  BY <1>t DEF PurgeAttempt, client, past, AttemptsOf, ReqOK, Sound
<1>r. Recorded' = Recorded \ {a} /\ \A b \in Recorded' : attempt'[b] = attempt[b]
  BY <1>t, <1>u DEF TypeOK, Recorded
<1>d. \A m : Deliveries(m)' = Deliveries(m)
  BY <1>u DEF Deliveries
<1>1. ReqOK'
  BY <1>t, <1>u DEF ReqOK, Sound
<1>2. StoryOK'
  BY <1>t, <1>u, <1>r, <1>d DEF StoryOK, Telling
<1>3. IdentityOK'
  BY <1>t, <1>u, <1>r DEF IdentityOK
<1>4. LateOK' /\ OneStory'
  BY <1>t, <1>u, <1>d DEF LateOK, OneStory
<1>5. Inspectable'
  BY <1>t, <1>u, <1>r DEF Inspectable, IdentityOK
<1>6. Purged'
  BY <1>t, <1>u, <1>r DEF Purged
<1> QED
  BY <1>1, <1>2, <1>3, <1>4, <1>5, <1>6 DEF KInv

\* The invariant holds initially.
LEMMA InitTInv == Init => TInv
<1> SUFFICES ASSUME Init PROVE TInv
  OBVIOUS
<1> USE DEF Init
<1>1. Recorded = {} /\ (\A m : Deliveries(m) = {}) /\ \A c \in Client : pc[c] = "idle"
  BY DEF Recorded, Deliveries
<1>2. TypeOK
  BY TextAssumption DEF TypeOK
<1>3. ReqOK /\ StoryOK /\ IdentityOK /\ LateOK
  BY <1>1 DEF ReqOK, Sound, StoryOK, Telling, IdentityOK, LateOK
<1>4. OneStory /\ Inspectable /\ Purged
  BY <1>1 DEF OneStory, Inspectable, Purged
<1> QED
  BY <1>2, <1>3, <1>4 DEF TInv

\* Every step preserves it.
LEMMA NextTInv == TInv /\ [Next]_vars => TInv'
<1> SUFFICES ASSUME TInv, [Next]_vars PROVE TypeOK' /\ KInv'
  BY DEF TInv, KInv
<1> USE Fields, TextAssumption
<1>t. TypeOK /\ ReqOK /\ ClientOK
  BY DEF TInv, TypeOK, ClientOK, PCs
<1>p. ASSUME ClientOK', msg' \in [Msg -> {"absent", "accepted", "gone"} \cup Terminal], UNCHANGED <<hook, dest>>,
             attempt' \in [Attempt -> Records \cup {NoRecord}], lock' \in Client \cup {NoClient},
             UNCHANGED <<received, unused>>, late' \subseteq Msg, lost' \subseteq Attempt, failures' \in Nat
      PROVE  TypeOK'
  BY <1>p, <1>t DEF TypeOK, ClientOK, PCs
<1>s. ASSUME UNCHANGED <<store, lock, past, failures>>, ClientOK' PROVE TypeOK'
  BY <1>s, <1>t DEF TypeOK, ClientOK, PCs, store, past
<1>a. ASSUME UNCHANGED msg PROVE Advances
  BY <1>a DEF Advances
<1>n. ASSUME NEW c \in Client, pc'[c] \in {"idle", "list", "delete"}
      PROVE  Sound(c)' /\ \A m \in Msg : ~Telling(c, m)'
  BY <1>n DEF Sound, Telling
<1>1. CASE UNCHANGED vars
  <2>1. TypeOK'
    BY <1>1, <1>t DEF TypeOK, vars, store, client, past
  <2> QED
    BY <1>1, <2>1, Drop DEF vars, store, client, past
<1>2. ASSUME NEW m \in Msg, NEW u \in Url \cup {NoUrl}, CaptureOutbound(m, u) PROVE TypeOK' /\ KInv'
  <2>1. TypeOK'
    BY <1>2, <1>t DEF CaptureOutbound, TypeOK, client, past
  <2>2. Advances
    BY <1>2, <1>t DEF CaptureOutbound, Advances, TypeOK
  <2>3. Others(NoClient) /\ UNCHANGED <<attempt, received, unused, late, lost>>
    BY <1>2 DEF CaptureOutbound, Others, client, past
  <2> QED
    BY <2>1, <2>2, <2>3, Advance
<1>3. ASSUME NEW u \in Url \cup {NoUrl}, SetDestination(u) PROVE TypeOK' /\ KInv'
  <2>1. TypeOK'
    BY <1>3, <1>t DEF SetDestination, TypeOK, client, past
  <2> QED
    BY <1>3, <2>1, Drop DEF SetDestination, client, past
<1>4. ASSUME NEW c \in Client, NEW m \in Msg, InjectInbound(c, m) PROVE TypeOK' /\ KInv'
  <2> DEFINE r == [Request(m, "none", "accepted") EXCEPT !.kind = "inbound"]
  <2>1. r \in Requests /\ r.msg = m /\ r.kind = "inbound"
    BY DEF Kinds, Request, Requests
  <2>2. Start(c, "route", r, {}) /\ msg[m] = "absent" /\ msg' = [msg EXCEPT ![m] = "accepted"]
        /\ UNCHANGED <<hook, dest, attempt, lock, received, late, unused, lost, failures>>
    BY <1>4 DEF InjectInbound, past
  <2> HIDE DEF r
  <2>3. ClientOK' /\ Others(c) /\ pc'[c] = "route" /\ req'[c] = r /\ pc[c] \in {"idle", "missing"}
    BY <1>t, <2>1, <2>2, Moves DEF PCs
  <2>4. TypeOK'
    BY <1>t, <1>p, <2>2, <2>3 DEF TypeOK
  <2>5. Advances /\ msg'[m] = "accepted"
    BY <1>t, <2>2 DEF Advances, TypeOK
  <2>6. Sound(c)' /\ \A n \in Msg : ~Telling(c, n)'
    BY <2>1, <2>3 DEF Sound, Telling, Kinds
  <2> QED
    BY <2>1, <2>2, <2>3, <2>4, <2>5, <2>6, Advance
<1>5. ASSUME NEW c \in Client, NEW m \in Msg, LookupByProviderId(c, m) PROVE TypeOK' /\ KInv'
  <2> DEFINE r == Request(m, "none", msg[m])
  <2>1. r \in Requests
    BY <1>t DEF TypeOK, Request, Requests
  <2>2. Start(c, "scan", r, {n \in Msg : Live(n)}) /\ UNCHANGED <<store, lock, past, failures>>
    BY <1>5 DEF LookupByProviderId
  <2> HIDE DEF r
  <2>3. ClientOK' /\ Others(c) /\ pc'[c] = "scan" /\ req'[c] = r /\ pc[c] \in {"idle", "missing"}
    BY <1>t, <2>1, <2>2, Moves DEF PCs
  <2>4. TypeOK' /\ Advances
    BY <1>s, <1>a, <2>2, <2>3 DEF store
  <2>5. Sound(c)' /\ \A n \in Msg : ~Telling(c, n)'
    BY <2>1, <2>3 DEF Sound, Telling
  <2> QED
    BY <2>2, <2>3, <2>4, <2>5, Advance DEF store, past
<1>6. ASSUME NEW c \in Client, NEW m \in Msg, NEW s \in Terminal, TransitionDelivery(c, m, s) PROVE TypeOK' /\ KInv'
  <2> DEFINE r == [Request(m, s, msg[m]) EXCEPT !.kind = "delivery"]
  <2>1. r \in Requests /\ r.kind = "delivery" /\ r.state = s
    BY <1>t DEF TypeOK, Kinds, Request, Requests
  <2>2. /\ Start(c, "transition", r, {}) \/ (pc[c] \in {"idle", "missing"} /\ Answer(c))
        /\ UNCHANGED <<store, lock, past, failures>>
    BY <1>6 DEF TransitionDelivery
  <2> HIDE DEF r
  <2>3. /\ ClientOK' /\ Others(c) /\ pc[c] \in {"idle", "missing"}
        /\ (pc'[c] = "transition" /\ req'[c] = r) \/ pc'[c] = "idle"
    BY <1>t, <2>1, <2>2, Moves DEF PCs
  <2>4. TypeOK' /\ Advances
    BY <1>s, <1>a, <2>2, <2>3 DEF store
  <2>5. Sound(c)' /\ \A n \in Msg : ~Telling(c, n)'
    BY <2>1, <2>3 DEF Sound, Telling
  <2> QED
    BY <2>2, <2>3, <2>4, <2>5, Advance DEF store, past
<1>7. ASSUME NEW c \in Client, NEW a \in Attempt, Retry(c, a) PROVE TypeOK' /\ KInv'
  <2> DEFINE r == [Request(attempt[a].msg, "none", "accepted") EXCEPT
                     !.kind = attempt[a].kind, !.url = attempt[a].url, !.prior = a]
  <2>0. a \in Recorded /\ attempt[a] \in Records
    BY <1>7, <1>t DEF Retry, Recorded, TypeOK
  <2>1. r \in Requests /\ r.msg = attempt[a].msg /\ r.kind = attempt[a].kind /\ r.kind \in Kinds /\ r.url \in Url
    BY <2>0 DEF Request, Requests
  <2>2. Start(c, "reload", r, {}) /\ UNCHANGED <<store, lock, past, failures>>
    BY <1>7 DEF Retry
  <2> HIDE DEF r
  <2>3. ClientOK' /\ Others(c) /\ pc'[c] = "reload" /\ req'[c] = r /\ pc[c] \in {"idle", "missing"}
    BY <1>t, <2>1, <2>2, Moves DEF PCs
  <2>4. TypeOK' /\ Advances
    BY <1>s, <1>a, <2>2, <2>3 DEF store
  <2>5. Sound(c)' /\ \A n \in Msg : ~Telling(c, n)'
    BY <2>1, <2>3 DEF Sound, Telling
  <2>6. r.kind = "delivery" => msg'[r.msg] \in Terminal \cup {"gone"}
    BY <2>0, <2>1, <2>2 DEF TInv, StoryOK, store
  <2> QED
    BY <2>2, <2>3, <2>4, <2>5, <2>6, Advance DEF store, past
<1>8. ASSUME NEW c \in Client, NEW S \in Deletions, BeginDelete(c, S) PROVE TypeOK' /\ KInv'
  <2>1. Start(c, "delete", NoReq, S) /\ lock' = c /\ UNCHANGED <<store, past, failures>> /\ S \subseteq Msg
    BY <1>8 DEF BeginDelete, Deletions
  <2>2. ClientOK' /\ Others(c) /\ pc'[c] = "delete" /\ pc[c] \in {"idle", "missing"}
    BY <1>t, <2>1, Moves DEF PCs
  <2>3. TypeOK' /\ Advances
    BY <1>t, <1>p, <1>a, <2>1, <2>2 DEF store, past, TypeOK
  <2> QED
    BY <1>n, <2>1, <2>2, <2>3, Advance DEF store, past
<1>9. ASSUME NEW c \in Client, Transition(c) PROVE TypeOK' /\ KInv'
  <2> DEFINE r == req[c]
  <2>1. r \in Requests /\ r.msg \in Msg /\ r.state \in Terminal /\ r.kind = "delivery" /\ pc[c] = "transition"
    BY <1>9, <1>t DEF Transition, ReqOK, Sound
  <2>2. UNCHANGED <<hook, dest, attempt, lock, received, late, unused, lost, failures>>
    BY <1>9 DEF Transition, past
  <2>3. \/ /\ msg[r.msg] \in {"accepted", r.state} /\ msg' = [msg EXCEPT ![r.msg] = r.state]
           /\ Go(c, "route", r) \/ Go(c, "list", NoReq)
        \/ Answer(c) /\ UNCHANGED msg
    BY <1>9 DEF Transition
  <2> HIDE DEF r
  <2>4. /\ ClientOK' /\ Others(c)
        /\ \/ /\ msg' = [msg EXCEPT ![r.msg] = r.state]
              /\ msg[r.msg] \in {"accepted", r.state}
              /\ (pc'[c] = "route" /\ req'[c] = r) \/ pc'[c] = "list"
           \/ pc'[c] = "idle" /\ UNCHANGED msg
    BY <1>t, <2>1, <2>3, Moves DEF PCs
  <2>5. Advances /\ msg' \in [Msg -> {"absent", "accepted", "gone"} \cup Terminal]
    <3>1. CASE msg' = [msg EXCEPT ![r.msg] = r.state] /\ msg[r.msg] \in {"accepted", r.state}
      <4>1. \A n \in Msg : msg'[n] = IF n = r.msg THEN r.state ELSE msg[n]
        BY <1>t, <2>1, <3>1 DEF TypeOK
      <4> QED
        BY <1>t, <2>1, <3>1, <4>1 DEF Advances, TypeOK
    <3>2. CASE UNCHANGED msg
      BY <1>t, <1>a, <3>2 DEF TypeOK
    <3> QED
      BY <2>4, <3>1, <3>2
  <2>6. TypeOK'
    BY <1>t, <1>p, <2>2, <2>4, <2>5 DEF TypeOK
  <2>7. CASE pc'[c] = "route" /\ req'[c] = r
    <3>1. msg'[r.msg] = r.state /\ r.state # "gone"
      BY <1>t, <2>1, <2>4, <2>7 DEF TypeOK, Terminal
    <3>2. Sound(c)' /\ \A n \in Msg : Telling(c, n)' => n = r.msg
      BY <2>1, <2>7 DEF Sound, Telling, Kinds
    <3> QED
      BY <2>1, <2>2, <2>4, <2>5, <2>6, <2>7, <3>1, <3>2, Advance
  <2>8. CASE pc'[c] \in {"list", "idle"}
    BY <1>n, <2>1, <2>2, <2>4, <2>5, <2>6, <2>8, Advance
  <2> QED
    BY <2>4, <2>7, <2>8
<1>10. ASSUME NEW c \in Client, Route(c) PROVE TypeOK' /\ KInv'
  <2> DEFINE r == req[c]
             u == IF r.kind = "delivery" /\ hook[r.msg] # NoUrl THEN hook[r.msg] ELSE dest
             q == [r EXCEPT !.url = u]
  <2>1. r \in Requests /\ r.msg \in Msg /\ r.kind \in Kinds /\ pc[c] = "route"
    BY <1>10, <1>t DEF Route, ReqOK, Sound
  <2>2. /\ Go(c, "list", NoReq) \/ (u # NoUrl /\ Go(c, "send", q))
        /\ UNCHANGED <<store, lock, past, failures>>
    BY <1>10 DEF Route
  <2>3. u # NoUrl => u \in Url
    BY <1>t, <2>1 DEF TypeOK
  <2> HIDE DEF u
  <2>4. u # NoUrl => q \in Requests /\ q.msg = r.msg /\ q.kind = r.kind /\ q.state = r.state /\ q.url = u
    BY <2>1, <2>3 DEF Requests
  <2> HIDE DEF q
  <2>5. /\ ClientOK' /\ Others(c)
        /\ pc'[c] = "list" \/ (u # NoUrl /\ pc'[c] = "send" /\ req'[c] = q)
    BY <1>t, <2>2, <2>4, Moves DEF PCs
  <2>6. TypeOK' /\ Advances /\ UNCHANGED <<msg, attempt, received, unused, late, lost>>
    BY <1>s, <1>a, <2>2, <2>5 DEF store, past
  <2>7. CASE u # NoUrl /\ pc'[c] = "send" /\ req'[c] = q
    <3>1. Sound(c)'
      BY <2>1, <2>3, <2>4, <2>7 DEF Sound
    <3>2. \A n \in Msg : Telling(c, n)' => Telling(c, n) /\ req'[c].state = req[c].state
      BY <2>1, <2>4, <2>7 DEF Telling
    <3>3. msg'[req'[c].msg] # "gone" \/ req'[c].msg \in late
      BY <2>1, <2>4, <2>6, <2>7 DEF TInv, LateOK
    <3> QED
      BY <2>1, <2>5, <2>6, <2>7, <3>1, <3>2, <3>3, Advance
  <2>8. CASE pc'[c] = "list"
    BY <1>n, <2>1, <2>5, <2>6, <2>8, Advance
  <2> QED
    BY <2>5, <2>7, <2>8
<1>11. ASSUME NEW c \in Client, Reload(c) PROVE TypeOK' /\ KInv'
  <2> DEFINE r == req[c]
             s == IF msg[r.msg] \in Terminal THEN msg[r.msg] ELSE "none"
             q == [r EXCEPT !.state = s]
  <2>1. r \in Requests /\ r.msg \in Msg /\ r.kind \in Kinds /\ r.url \in Url /\ pc[c] = "reload"
    BY <1>11, <1>t DEF Reload, ReqOK, Sound
  <2>2. /\ (Live(r.msg) /\ Go(c, "send", q)) \/ Answer(c)
        /\ UNCHANGED <<store, lock, past, failures>>
    BY <1>11 DEF Reload
  <2>3. /\ q \in Requests /\ q.msg = r.msg /\ q.kind = r.kind /\ q.state = s /\ q.url = r.url
        /\ s \in Terminal \cup {"none"}
    BY <2>1 DEF Requests
  <2>4. Live(r.msg) /\ r.kind = "delivery" => s \in Terminal /\ msg[r.msg] = s
    BY <2>1 DEF TInv, StoryOK, Live, Terminal
  <2>5. Live(r.msg) => msg[r.msg] # "gone"
    BY DEF Live, Terminal
  <2> HIDE DEF s, q
  <2>6. /\ ClientOK' /\ Others(c)
        /\ pc'[c] = "idle" \/ (Live(r.msg) /\ pc'[c] = "send" /\ req'[c] = q)
    BY <1>t, <2>2, <2>3, Moves DEF PCs
  <2>7. TypeOK' /\ Advances /\ UNCHANGED <<msg, attempt, received, unused, late, lost>>
    BY <1>s, <1>a, <2>2, <2>6 DEF store, past
  <2>8. CASE Live(r.msg) /\ pc'[c] = "send" /\ req'[c] = q
    <3>1. Sound(c)'
      BY <2>1, <2>3, <2>8 DEF Sound
    <3>2. \A n \in Msg : Telling(c, n)' => req'[c].state \in Terminal /\ msg'[n] = req'[c].state
      BY <2>3, <2>4, <2>7, <2>8 DEF Telling
    <3>3. msg'[req'[c].msg] # "gone"
      BY <2>3, <2>5, <2>7, <2>8
    <3> QED
      BY <2>1, <2>6, <2>7, <2>8, <3>1, <3>2, <3>3, Advance
  <2>9. CASE pc'[c] = "idle"
    BY <1>n, <2>1, <2>6, <2>7, <2>9, Advance
  <2> QED
    BY <2>6, <2>8, <2>9
<1>12. ASSUME NEW c \in Client, RecordCallback(c) PROVE TypeOK' /\ KInv'
  <2> DEFINE r == req[c]
             x == Record(r.msg, r.kind, r.url, r.prior, r.ok)
  <2>1. r \in Requests /\ r.kind \in Kinds /\ r.url \in Url /\ r.id \in Attempt /\ pc[c] = "record"
    BY <1>12, <1>t DEF RecordCallback, ReqOK, Sound
  <2>2. x \in Records /\ x.msg = r.msg /\ x.kind = r.kind
    BY <2>1 DEF Record, Records
  <2>3. /\ attempt' = [attempt EXCEPT ![r.id] = x] /\ (Go(c, "list", NoReq) \/ Answer(c))
        /\ UNCHANGED <<msg, hook, dest, lock, past, failures>>
    BY <1>12 DEF RecordCallback
  <2> HIDE DEF x
  <2>4. ClientOK' /\ Others(c) /\ pc'[c] \in {"list", "idle"}
    BY <1>t, <2>3, Moves DEF PCs
  <2>5. attempt' = [attempt EXCEPT ![r.id] = x] /\ attempt' \in [Attempt -> Records \cup {NoRecord}]
    BY <1>t, <1>12, <2>1, <2>2 DEF TypeOK, RecordCallback, x
  <2>6. TypeOK'
    BY <1>t, <1>p, <2>3, <2>4, <2>5 DEF TypeOK, past
  <2> QED
    BY <2>1, <2>2, <2>3, <2>4, <2>5, <2>6, RecordStep DEF past
<1>13. ASSUME NEW c \in Client, NEW a \in Attempt, NEW arrives \in BOOLEAN, NEW ok \in BOOLEAN,
              SendCallback(c, a, arrives, ok)
       PROVE  TypeOK' /\ KInv'
  <2> DEFINE r == req[c]
             q == [r EXCEPT !.id = a, !.ok = ok]
             e == [id |-> a, msg |-> r.msg, kind |-> r.kind,
                   told |-> IF r.state = "none" THEN "accepted" ELSE r.state, retry |-> r.prior # NoAttempt]
  <2>1. r \in Requests /\ r.kind \in Kinds /\ r.url \in Url /\ pc[c] = "send" /\ a \in unused
    BY <1>13, <1>t DEF SendCallback, ReqOK, Sound
  <2>2. /\ q \in Requests /\ q.msg = r.msg /\ q.kind = r.kind /\ q.state = r.state
        /\ q.url = r.url /\ q.id = a
    BY <2>1 DEF Requests
  <2>3. /\ Go(c, "record", q) /\ received' \in {received, received \cup {e}} /\ unused' = unused \ {a}
        /\ UNCHANGED <<store, lock, late, lost, failures>>
    BY <1>13 DEF SendCallback, Sent
  <2>4. /\ e \in [id : Attempt, msg : Msg, kind : Kinds, told : {"accepted"} \cup Terminal, retry : BOOLEAN]
        /\ e.id = a /\ e.msg = r.msg /\ e.kind = r.kind
        /\ e.told = IF r.state = "none" THEN "accepted" ELSE r.state
    BY <2>1
  <2> HIDE DEF q, e
  <2>5. ClientOK' /\ Others(c) /\ pc'[c] = "record" /\ req'[c] = q
    BY <1>t, <2>2, <2>3, Moves DEF PCs
  <2>6. TypeOK'
    BY <1>t, <2>3, <2>4, <2>5 DEF TypeOK, ClientOK, PCs, store
  <2> QED
    BY <2>1, <2>2, <2>3, <2>4, <2>5, <2>6, SendStep DEF store
<1>14. ASSUME NEW c \in Client, ListCallbacks(c) PROVE TypeOK' /\ KInv'
  <2>1. ClientOK' /\ Others(c) /\ pc'[c] \in {"list", "idle"}
    <3>1. CASE Answer(c)
      BY <1>t, <3>1, Moves
    <3>2. CASE UNCHANGED <<pc, req>>
      <4>1. todo' \in [Client -> SUBSET (Msg \cup Attempt)]
        BY <1>t, <1>14, <3>2 DEF ListCallbacks, Answer, ClientOK, Recorded
      <4> QED
        BY <1>t, <1>14, <3>2, <4>1 DEF ListCallbacks, ClientOK, Others
    <3> QED
      BY <1>14, <3>1, <3>2 DEF ListCallbacks
  <2>2. pc[c] = "list" /\ UNCHANGED <<store, lock, past, failures>>
    BY <1>14 DEF ListCallbacks
  <2>3. TypeOK' /\ Advances
    BY <1>s, <1>a, <2>1, <2>2 DEF store
  <2> QED
    BY <1>n, <2>1, <2>2, <2>3, Advance DEF store, past
<1>15. ASSUME NEW c \in Client, ScanNext(c) PROVE TypeOK' /\ KInv'
  <2>0. req[c] \in Requests /\ pc[c] = "scan" /\ UNCHANGED <<store, lock, past, failures>>
    BY <1>15, <1>t DEF ScanNext, ReqOK, Sound
  <2>1. /\ ClientOK' /\ Others(c)
        /\ pc'[c] = "idle" \/ (pc'[c] \in {"scan", "missing"} /\ req'[c] = req[c])
    <3>1. CASE Answer(c)
      BY <1>t, <3>1, Moves
    <3>2. CASE Go(c, "missing", req[c])
      BY <1>t, <2>0, <3>2, Moves DEF PCs
    <3>3. CASE pc' = [pc EXCEPT ![c] = "missing"] /\ todo' = [todo EXCEPT ![c] = {}] /\ UNCHANGED req
      BY <1>t, <2>0, <3>3 DEF ClientOK, Others, PCs
    <3>4. ASSUME NEW n, todo' = [todo EXCEPT ![c] = @ \ {n}], UNCHANGED <<pc, req>>
          PROVE  /\ ClientOK' /\ Others(c)
                 /\ pc'[c] = "idle" \/ (pc'[c] \in {"scan", "missing"} /\ req'[c] = req[c])
      BY <1>t, <2>0, <3>4 DEF ClientOK, Others, PCs
    <3> QED
      BY <1>15, <3>1, <3>2, <3>3, <3>4 DEF ScanNext
  <2>2. TypeOK' /\ Advances
    BY <1>s, <1>a, <2>0, <2>1 DEF store
  <2>3. Sound(c)' /\ \A n \in Msg : ~Telling(c, n)'
    BY <2>0, <2>1 DEF Sound, Telling
  <2> QED
    BY <2>0, <2>1, <2>2, <2>3, Advance DEF store, past
<1>16. ASSUME NEW c \in Client, NEW m \in Msg, DeleteMessage(c, m) PROVE TypeOK' /\ KInv'
  <2> DEFINE q == Request(m, "none", "gone")
  <2>1. q \in Requests /\ q.msg = m
    BY DEF Request, Requests
  <2>2. /\ pc[c] = "delete" /\ pc' = [pc EXCEPT ![c] = "purge"] /\ req' = [req EXCEPT ![c] = q]
        /\ msg' = [msg EXCEPT ![m] = "gone"] /\ late' = IF InFlight(m) THEN late \cup {m} ELSE late
        /\ UNCHANGED <<hook, dest, attempt, lock, todo, received, unused, lost, failures>>
    BY <1>16 DEF DeleteMessage
  <2> HIDE DEF q
  <2>3. ClientOK' /\ Others(c) /\ pc'[c] = "purge" /\ req'[c] = q
    BY <1>t, <2>1, <2>2 DEF ClientOK, PCs, Others
  <2>4. msg' \in [Msg -> {"absent", "accepted", "gone"} \cup Terminal] /\ late' \subseteq Msg
    BY <1>t, <2>2 DEF TypeOK
  <2>5. TypeOK'
    BY <1>t, <1>p, <2>2, <2>3, <2>4 DEF TypeOK
  <2> QED
    BY <2>1, <2>2, <2>3, <2>5, DeleteStep
<1>17. ASSUME NEW c \in Client, NEW a \in Attempt, PurgeAttempt(c, a) PROVE TypeOK' /\ KInv'
  <2>1. TypeOK'
    BY <1>17, <1>t DEF PurgeAttempt, TypeOK, client, past
  <2> QED
    BY <1>17, <2>1, PurgeStep
<1>18. ASSUME NEW c \in Client, PurgeDone(c) PROVE TypeOK' /\ KInv'
  <2>0. pc[c] = "purge" /\ AttemptsOf(req[c].msg) = {} /\ lock' \in {lock, NoClient} /\ UNCHANGED <<store, past, failures>>
    BY <1>18 DEF PurgeDone
  <2>1. ClientOK' /\ Others(c) /\ pc'[c] \in {"idle", "delete"}
    <3>1. CASE Answer(c)
      BY <1>t, <3>1, Moves
    <3>2. CASE ~Answer(c)
      BY <1>18, <1>t, <3>2 DEF PurgeDone, ClientOK, Others, PCs
    <3> QED
      BY <3>1, <3>2
  <2>2. TypeOK'
    BY <1>t, <1>p, <2>0, <2>1 DEF TypeOK, store, past
  <2> QED
    BY <2>0, <2>1, <2>2, Drop DEF store, past, Others
<1>19. ASSUME NEW c \in Client, Fault(c) PROVE TypeOK' /\ KInv'
  <2>0. /\ Answer(c) /\ lock' \in {lock, NoClient} /\ failures' = failures + 1 /\ UNCHANGED <<store, received, unused>>
        /\ lost' = IF pc[c] = "record" THEN lost \cup {req[c].id} ELSE lost
        /\ late' = IF pc[c] = "purge" THEN late \cup {req[c].msg} ELSE late
    BY <1>19 DEF Fault
  <2>1. ClientOK' /\ Others(c) /\ pc'[c] = "idle"
    BY <1>t, <2>0, Moves
  <2>2. (pc[c] = "record" => req[c].id \in Attempt) /\ (pc[c] = "purge" => req[c].msg \in Msg)
    BY <1>t DEF ReqOK, Sound
  <2>3. late' \subseteq Msg /\ lost' \subseteq Attempt /\ late \subseteq late' /\ lost \subseteq lost'
    BY <1>t, <2>0, <2>2 DEF TypeOK
  <2>4. TypeOK'
    BY <1>t, <1>p, <2>0, <2>1, <2>3 DEF TypeOK, store
  <2> QED
    BY <2>0, <2>1, <2>3, <2>4, Drop DEF store, Others
<1>20. CASE Crash
  <2>1. \A d \in Client : (pc[d] = "record" => req[d].id \in Attempt) /\ (pc[d] = "purge" => req[d].msg \in Msg)
    BY <1>t DEF ReqOK, Sound
  <2>2. /\ late' \subseteq Msg /\ lost' \subseteq Attempt /\ late \subseteq late' /\ lost \subseteq lost'
        /\ \A d \in Client : (pc[d] = "record" => req[d].id \in lost') /\ (pc[d] = "purge" => req[d].msg \in late')
    BY <1>t, <1>20, <2>1 DEF Crash, TypeOK
  <2>3. ClientOK' /\ (\A d \in Client : pc'[d] = "idle") /\ UNCHANGED <<store, received, unused>>
    BY <1>20 DEF Crash, ClientOK, PCs
  <2>4. TypeOK'
    BY <1>t, <1>p, <1>20, <2>2, <2>3 DEF Crash, TypeOK, store
  <2> QED
    BY <2>2, <2>3, <2>4, Drop DEF store
<1>21. ASSUME Begin PROVE TypeOK' /\ KInv'
  BY <1>21, <1>2, <1>3, <1>4, <1>5, <1>6, <1>7, <1>8 DEF Begin
<1>22. ASSUME NEW c \in Client, Step(c) \/ Fault(c) PROVE TypeOK' /\ KInv'
  BY <1>22, <1>9, <1>10, <1>11, <1>12, <1>13, <1>14, <1>15, <1>16, <1>17, <1>18, <1>19 DEF Step
<1> QED
  BY <1>1, <1>20, <1>21, <1>22 DEF Next

-----------------------------------------------------------------------------
\* The types and the invariant hold throughout.
THEOREM TextInvariance == Spec => []TInv
<1>1. Init => TInv
  BY InitTInv
<1>2. TInv /\ [Next]_vars => TInv'
  BY NextTInv
<1> QED
  BY <1>1, <1>2, PTL DEF Spec

\* However transitions, retries and deletions race, the delivery callbacks that
\* endpoints receive for a message all tell the one terminal state it reached.
THEOREM ToldOnce == Spec => []OneStory
<1>1. TInv => OneStory
  BY DEF TInv
<1> QED
  BY TextInvariance, <1>1, PTL

\* No callback of a message still there goes unrecorded without a failure, and
\* only a late callback or a failed deletion leaves an attempt of one deleted.
THEOREM CallbacksAccounted == Spec => []Accounted
<1>1. TInv => Accounted
  BY DEF TInv, Accounted
<1> QED
  BY TextInvariance, <1>1, PTL

-----------------------------------------------------------------------------
(* ACS SMS sends *)

Texts ==
    [to : {r.to : r \in Addressees}, rid : {r.rid : r \in Addressees}, first : {r.first : r \in Addressees},
     hash : {s.hash : s \in Sends}, n : Nat]

Outcomes == [ok : BOOLEAN, why : Nat \cup {"number", "repeatability"}]

Replays == [key : Keys, hash : {s.hash : s \in Sends}, first : {r.first[1] : r \in {x \in Addressees : x.first # <<>>}},
            result : Outcomes]

Drafts ==
    [pc : {"idle", "waiting", "preparing", "202", "400", "413", "500"},
     doc : {<<>>} \cup {<<d>> : d \in Sends}, at : Nat \ {0}, results : Seq(Outcomes),
     captured : Seq(Texts), records : Seq(Replays)]

AcsTypeOK ==
    /\ texts \subseteq Texts \cup LegacyTexts
    /\ records \subseteq Replays
    /\ claim \subseteq Senders
    /\ send \in [Senders -> Drafts]
    /\ sentOnce \in [Keys -> Nat]

Preparing(c) == send[c].pc = "preparing"

\* One send at a time is between the lookup of the records and the capture.
ClaimOK ==
    /\ \A c \in Senders : c \in claim <=> Preparing(c)
    /\ \A c, d \in claim : c = d
    /\ \A c \in Senders : send[c].pc \in {"waiting", "preparing"} => send[c].doc # <<>>

\* A record a send has reserved is the first of its key, and no text of an older
\* build has the key.
ReservedOK(c) ==
    LET own == send[c].records
    IN  /\ \A i, j \in 1..Len(own) : own[i].key = own[j].key => i = j
        /\ \A i \in 1..Len(own) : \A x \in records : x.key # own[i].key
        /\ \A i \in 1..Len(own) : \A t \in texts : t.rid # <<>> /\ t.n = 0 => KeyOf(t) # own[i].key

\* A text with an identifier that a send will capture has its record, which tells
\* of success, and is the only one with its key.
DraftedOK(c) ==
    LET own == send[c].records
        new == send[c].captured
    IN  /\ \A i \in 1..Len(new) : new[i].rid # <<>> =>
              new[i].n # 0 /\ \E j \in 1..Len(own) : own[j].key = KeyOf(new[i]) /\ own[j].result.ok
        /\ \A i, j \in 1..Len(new) : new[i].rid # <<>> /\ new[j].rid # <<>> /\ KeyOf(new[i]) = KeyOf(new[j]) => i = j

\* A send that waits for the lock has prepared nothing.
WaitingOK == \A c \in Senders : send[c].pc = "waiting" => send[c].records = <<>> /\ send[c].captured = <<>>

PreparedOK == \A c \in Senders : Preparing(c) => ReservedOK(c) /\ DraftedOK(c)

\* What the guarantee rests on.
AcsInv == AcsTypeOK /\ ClaimOK /\ WaitingOK /\ PreparedOK /\ SentOnce

\* Where records and texts only lose texts and a send is claimed, dropped or left
\* as it is, the guarantee stays.
LEMMA AcsSteady ==
    ASSUME AcsInv, texts' \subseteq texts, UNCHANGED <<records, sentOnce>>,
           send' \in [Senders -> Drafts], claim' \subseteq Senders, ClaimOK',
           \A c \in Senders : Preparing(c)' =>
              \/ Preparing(c) /\ send'[c].records = send[c].records /\ send'[c].captured = send[c].captured
              \/ send'[c].records = <<>> /\ send'[c].captured = <<>>,
           \A c \in Senders : send'[c].pc = "waiting" =>
              send'[c] = send[c] \/ (send'[c].records = <<>> /\ send'[c].captured = <<>>)
    PROVE  AcsInv'
<1>1. AcsTypeOK'
  BY DEF AcsInv, AcsTypeOK
<1>2. PreparedOK'
  <2> SUFFICES ASSUME NEW c \in Senders, Preparing(c)' PROVE (ReservedOK(c) /\ DraftedOK(c))'
    BY DEF PreparedOK
  <2>1. CASE Preparing(c) /\ send'[c].records = send[c].records /\ send'[c].captured = send[c].captured
    <3>1. ReservedOK(c) /\ DraftedOK(c)
      BY <2>1 DEF AcsInv, PreparedOK
    <3>2. ReservedOK(c)'
      BY <2>1, <3>1 DEF ReservedOK, KeyOf
    <3>3. DraftedOK(c)'
      BY <2>1, <3>1 DEF DraftedOK
    <3> QED
      BY <3>2, <3>3
  <2>2. CASE send'[c].records = <<>> /\ send'[c].captured = <<>>
    BY <2>2 DEF ReservedOK, DraftedOK
  <2> QED
    BY <2>1, <2>2
<1>3. SentOnce'
  BY DEF AcsInv, SentOnce, KeyOf
<1>4. WaitingOK'
  BY DEF AcsInv, WaitingOK
<1> QED
  BY <1>1, <1>2, <1>3, <1>4 DEF AcsInv

\* A new text's number is not that of an older build's text when it has an
\* identifier.
LEMMA FreshNumber ==
    ASSUME AcsTypeOK, NEW r \in Addressees
    PROVE  Fresh(r) \in Nat /\ (r.rid # <<>> => KeyOf(r) \in Keys /\ Fresh(r) # 0)
  BY DEF AcsTypeOK, Fresh, Keys, KeyOf

\* A set of positions has a least one.
LEMMA LeastOf ==
    ASSUME NEW S \in SUBSET Nat, S # {}
    PROVE  \E i \in S : \A j \in S : i <= j
<1>1. PICK i \in S : \A j \in S : ~(<<j, i>> \in OpToRel(<, Nat))
  BY NatLessThanWellFounded, WFMin
<1>2. \A j \in S : ~(j < i)
  BY <1>1 DEF OpToRel
<1> QED
  BY <1>2

\* What prepare_recipient hands to the send: nothing; a text without identifier;
\* or, where neither a record nor a text has the identifier, its record, with a
\* text when the record tells of success.
LEMMA Prepared ==
    ASSUME AcsInv, NEW d \in Sends, NEW r \in ToSet(d.recipients), NEW pending \in Seq(Replays),
           RepeatabilityValid(r)
    PROVE  LET p == PrepareRecipient(r, d.hash, Fresh(r), pending)
               t == [to |-> r.to, rid |-> r.rid, first |-> r.first, hash |-> d.hash, n |-> Fresh(r)]
           IN  /\ p.result \in Outcomes
               /\ \/ p.text = <<>> /\ p.record = <<>>
                  \/ r.rid = <<>> /\ p.text = <<t>> /\ p.record = <<>>
                  \/ /\ r.rid # <<>>
                     /\ \A i \in 1..Len(pending) : pending[i].key # KeyOf(r)
                     /\ \A x \in records : x.key # KeyOf(r)
                     /\ \A u \in texts : ~(u.to = r.to /\ u.rid = r.rid)
                     /\ \E x \in Replays : /\ p.record = <<x>> /\ x.key = KeyOf(r)
                                           /\ p.text = <<>> \/ (p.text = <<t>> /\ x.result.ok)
<1> DEFINE n == Fresh(r)
           p == PrepareRecipient(r, d.hash, n, pending)
           t == [to |-> r.to, rid |-> r.rid, first |-> r.first, hash |-> d.hash, n |-> n]
           known == IF r.rid = <<>> THEN {} ELSE RecordFor(KeyOf(r), pending)
           legacy == IF r.rid = <<>> THEN {} ELSE LegacyFor(r)
           result == IF IsE164(r.to) THEN [ok |-> TRUE, why |-> n] ELSE [ok |-> FALSE, why |-> "number"]
           x == [key |-> KeyOf(r), hash |-> d.hash, first |-> r.first[1], result |-> result]
<1> DEFINE Goal == /\ p.result \in Outcomes
                   /\ \/ p.text = <<>> /\ p.record = <<>>
                      \/ r.rid = <<>> /\ p.text = <<t>> /\ p.record = <<>>
                      \/ /\ r.rid # <<>>
                         /\ \A i \in 1..Len(pending) : pending[i].key # KeyOf(r)
                         /\ \A y \in records : y.key # KeyOf(r)
                         /\ \A u \in texts : ~(u.to = r.to /\ u.rid = r.rid)
                         /\ \E y \in Replays : /\ p.record = <<y>> /\ y.key = KeyOf(r)
                                               /\ p.text = <<>> \/ (p.text = <<t>> /\ y.result.ok)
<1>1. r \in Addressees /\ n \in Nat /\ (r.rid # <<>> => KeyOf(r) \in Keys)
  BY FreshNumber DEF Addressees, AcsInv
<1>2. Rejected \in Outcomes
  BY DEF Rejected, Outcomes
<1> HIDE DEF n
<1>3. result \in Outcomes /\ (IsE164(r.to) <=> result.ok)
  BY <1>1 DEF Outcomes
<1>4. ASSUME known # {} PROVE Goal
  <2>1. PICK y \in known : p = [result |-> Replay(y, r, d.hash, y.result), text |-> <<>>, record |-> <<>>]
    <3> DEFINE y == CHOOSE y \in known : TRUE
    <3>1. y \in known
      BY <1>4
    <3>2. p = [result |-> Replay(y, r, d.hash, y.result), text |-> <<>>, record |-> <<>>]
      BY <1>4 DEF PrepareRecipient
    <3> QED
      BY <3>1, <3>2
  <2>2. known \subseteq Replays
    <3> DEFINE own == {i \in 1..Len(pending) : pending[i].key = KeyOf(r)}
               least == CHOOSE i \in own : \A j \in own : i <= j
    <3>1. CASE own # {}
      <4>0. own \in SUBSET Nat
        OBVIOUS
      <4>1. \E i \in own : \A j \in own : i <= j
        <5> HIDE DEF own
        <5> QED
          BY <3>1, <4>0, LeastOf
      <4>2. least \in own
        BY <4>1
      <4>3. pending[least] \in Replays
        BY <4>2
      <4> HIDE DEF least
      <4> QED
        BY <3>1, <4>3 DEF RecordFor, least
    <3>2. CASE own = {}
      BY <3>2 DEF RecordFor, AcsInv, AcsTypeOK
    <3> QED
      BY <3>1, <3>2
  <2>3. y.result \in Outcomes
    BY <2>1, <2>2 DEF Replays
  <2> QED
    <3> HIDE DEF p
    <3> QED
      BY <1>2, <2>1, <2>3 DEF Replay
<1>5. ASSUME known = {}, legacy # {} PROVE Goal
  <2>1. PICK u \in legacy : p = [result |-> Replay([hash |-> u.hash, first |-> u.first[1]], r, d.hash, [ok |-> TRUE, why |-> u.n]),
                                 text |-> <<>>, record |-> <<>>]
    <3> DEFINE y == CHOOSE y \in legacy : TRUE
    <3>1. y \in legacy
      BY <1>5
    <3>2. p = [result |-> Replay([hash |-> y.hash, first |-> y.first[1]], r, d.hash, [ok |-> TRUE, why |-> y.n]),
               text |-> <<>>, record |-> <<>>]
      BY <1>5 DEF PrepareRecipient
    <3> QED
      BY <3>1, <3>2
  <2>2. u.n \in Nat
    BY AcsAssumption DEF LegacyFor, AcsInv, AcsTypeOK, Texts
  <2>3. [ok |-> TRUE, why |-> u.n] \in Outcomes
    BY <2>2 DEF Outcomes
  <2> QED
    <3> HIDE DEF p
    <3> QED
      BY <1>2, <2>1, <2>3 DEF Replay
<1>6. ASSUME known = {}, legacy = {} PROVE Goal
  <2>1. p = [result |-> result, text |-> IF IsE164(r.to) THEN <<t>> ELSE <<>>,
             record |-> IF r.rid = <<>> THEN <<>> ELSE <<x>>]
    BY <1>6 DEF PrepareRecipient
  <2> HIDE DEF p, t, result
  <2>2. CASE r.rid = <<>>
    BY <1>3, <2>1, <2>2
  <2>3. CASE r.rid # <<>>
    <3>1. x \in Replays
      <4>1. r.first # <<>>
        BY <2>3 DEF RepeatabilityValid
      <4> QED
        BY <1>1, <1>3, <2>3, <4>1 DEF Replays
    <3>0. x.key = KeyOf(r) /\ x.result = result
      OBVIOUS
    <3> HIDE DEF x
    <3>2. /\ \A i \in 1..Len(pending) : pending[i].key # KeyOf(r)
          /\ \A y \in records : y.key # KeyOf(r)
      BY <1>6, <2>3 DEF RecordFor
    <3>3. \A u \in texts : ~(u.to = r.to /\ u.rid = r.rid)
      BY <1>6, <2>3 DEF LegacyFor
    <3>4. p.record = <<x>> /\ (p.text = <<>> \/ (p.text = <<t>> /\ x.result.ok))
      BY <1>3, <2>1, <2>3, <3>0
    <3>5. p.result \in Outcomes
      BY <1>3, <2>1
    <3> QED
      BY <2>3, <3>0, <3>1, <3>2, <3>3, <3>4, <3>5
  <2> QED
    BY <2>2, <2>3
<1> QED
  BY <1>4, <1>5, <1>6 DEF n

\* A sequence with what prepare_recipient hands over at its end.
LEMMA AtEnd ==
    ASSUME NEW S, NEW s \in Seq(S), NEW e, e = <<>> \/ \E x \in S : e = <<x>>
    PROVE  /\ e = <<>> => s \o e = s
           /\ \A x \in S : e = <<x>> => /\ s \o e \in Seq(S) /\ Len(s \o e) = Len(s) + 1
                                        /\ \A i \in 1..Len(s) : (s \o e)[i] = s[i]
                                        /\ (s \o e)[Len(s) + 1] = x
<1>1. e = <<>> => s \o e = s
  BY ConcatEmptySeq
<1>2. ASSUME NEW x \in S, e = <<x>> PROVE s \o e = Append(s, x)
  BY <1>2, AppendIsConcat
<1> QED
  BY <1>1, <1>2

\* Preparing one recipient.
LEMMA PrepareStep ==
    ASSUME AcsInv, NEW c \in Senders, Prepare(c)
    PROVE  AcsInv'
<1> DEFINE s == send[c]
           d == s.doc[1]
           r == d.recipients[s.at]
           p == IF ~RepeatabilityValid(r) THEN [result |-> Rejected, text |-> <<>>, record |-> <<>>]
                ELSE PrepareRecipient(r, d.hash, Fresh(r), s.records)
           t == [to |-> r.to, rid |-> r.rid, first |-> r.first, hash |-> d.hash, n |-> Fresh(r)]
           new == s.captured \o p.text
           own == s.records \o p.record
           q == [s EXCEPT !.at = s.at + 1, !.results = Append(s.results, p.result), !.captured = new, !.records = own]
<1>1. /\ s.pc = "preparing" /\ s.at <= Len(d.recipients)
      /\ send' = [send EXCEPT ![c] = q]
      /\ UNCHANGED <<texts, records, claim, sentOnce>>
  BY DEF Prepare
<1>2. s \in Drafts /\ s.captured \in Seq(Texts) /\ s.records \in Seq(Replays) /\ s.at \in Nat \ {0} /\ s.results \in Seq(Outcomes)
  BY DEF AcsInv, AcsTypeOK, Drafts
<1>3. s.doc # <<>> /\ ReservedOK(c) /\ DraftedOK(c)
  BY <1>1 DEF AcsInv, ClaimOK, PreparedOK, Preparing
<1>4. d \in Sends
  BY <1>2, <1>3 DEF Drafts
<1>5. r \in ToSet(d.recipients) /\ r \in Addressees
  <2>1. d.recipients \in Seq(ToSet(d.recipients))
    BY <1>4, AcsAssumption
  <2>2. s.at \in 1..Len(d.recipients)
    BY <1>1, <1>2, <2>1
  <2>3. r \in ToSet(d.recipients)
    BY <2>1, <2>2
  <2> QED
    BY <1>4, <2>3 DEF Addressees
<1>6. t \in Texts
  <2>1. Fresh(r) \in Nat
    BY <1>5, FreshNumber DEF AcsInv
  <2> QED
    BY <1>4, <1>5, <2>1 DEF Texts
<1>7. /\ p.result \in Outcomes
      /\ \/ p.text = <<>> /\ p.record = <<>>
         \/ r.rid = <<>> /\ p.text = <<t>> /\ p.record = <<>>
         \/ /\ r.rid # <<>>
            /\ \A i \in 1..Len(s.records) : s.records[i].key # KeyOf(r)
            /\ \A x \in records : x.key # KeyOf(r)
            /\ \A u \in texts : ~(u.to = r.to /\ u.rid = r.rid)
            /\ \E x \in Replays : /\ p.record = <<x>> /\ x.key = KeyOf(r)
                                  /\ p.text = <<>> \/ (p.text = <<t>> /\ x.result.ok)
  <2>1. CASE ~RepeatabilityValid(r)
    BY <2>1 DEF Rejected, Outcomes
  <2>2. CASE RepeatabilityValid(r)
    <3> DEFINE pending == s.records
    <3>1. pending \in Seq(Replays)
      BY <1>2
    <3> HIDE DEF r, d, pending
    <3>2. LET o == PrepareRecipient(r, d.hash, Fresh(r), pending)
          IN  /\ o.result \in Outcomes
              /\ \/ o.text = <<>> /\ o.record = <<>>
                 \/ r.rid = <<>> /\ o.text = <<t>> /\ o.record = <<>>
                 \/ /\ r.rid # <<>>
                    /\ \A i \in 1..Len(pending) : pending[i].key # KeyOf(r)
                    /\ \A x \in records : x.key # KeyOf(r)
                    /\ \A u \in texts : ~(u.to = r.to /\ u.rid = r.rid)
                    /\ \E x \in Replays : /\ o.record = <<x>> /\ x.key = KeyOf(r)
                                          /\ o.text = <<>> \/ (o.text = <<t>> /\ x.result.ok)
      BY <1>4, <1>5, <2>2, <3>1, Prepared
    <3>3. p = PrepareRecipient(r, d.hash, Fresh(r), pending)
      BY <2>2 DEF pending
    <3> HIDE DEF p
    <3> QED
      BY <3>2, <3>3 DEF pending
  <2> QED
    BY <2>1, <2>2
<1>8. t.rid = r.rid /\ KeyOf(t) = KeyOf(r) /\ (r.rid # <<>> => t.n # 0)
  BY <1>5, FreshNumber DEF KeyOf, AcsInv
<1> HIDE DEF p, t, r, d
<1> DEFINE Longer == /\ new \in Seq(Texts) /\ Len(new) = Len(s.captured) + 1 /\ new[Len(s.captured) + 1] = t
                     /\ \A i \in 1..Len(s.captured) : new[i] = s.captured[i]
<1>9. /\ p.text = <<>> => new = s.captured
      /\ p.text # <<>> => p.text = <<t>> /\ Longer
  <2>1. p.text = <<>> \/ \E x \in Texts : p.text = <<x>>
    BY <1>6, <1>7
  <2>2. p.text # <<>> => p.text = <<t>>
    BY <1>7
  <2> DEFINE e == p.text
             l == s.captured
  <2>3. l \in Seq(Texts)
    BY <1>2
  <2>4. e = <<>> \/ \E x \in Texts : e = <<x>>
    BY <2>1
  <2> HIDE DEF e, l
  <2>5. /\ e = <<>> => l \o e = l
        /\ \A x \in Texts : e = <<x>> => /\ l \o e \in Seq(Texts) /\ Len(l \o e) = Len(l) + 1
                                         /\ \A i \in 1..Len(l) : (l \o e)[i] = l[i]
                                         /\ (l \o e)[Len(l) + 1] = x
    BY <2>3, <2>4, AtEnd
  <2> QED
    BY <1>6, <2>2, <2>5 DEF e, l
<1>9a. /\ p.record = <<>> => own = s.records
       /\ \A x \in Replays : p.record = <<x>> =>
            /\ own \in Seq(Replays) /\ Len(own) = Len(s.records) + 1
            /\ \A i \in 1..Len(s.records) : own[i] = s.records[i]
            /\ own[Len(s.records) + 1] = x
  <2>1. p.record = <<>> \/ \E x \in Replays : p.record = <<x>>
    BY <1>7
  <2> DEFINE e == p.record
             l == s.records
  <2>3. l \in Seq(Replays)
    BY <1>2
  <2>4. e = <<>> \/ \E x \in Replays : e = <<x>>
    BY <2>1
  <2> HIDE DEF e, l
  <2>5. /\ e = <<>> => l \o e = l
        /\ \A x \in Replays : e = <<x>> => /\ l \o e \in Seq(Replays) /\ Len(l \o e) = Len(l) + 1
                                           /\ \A i \in 1..Len(l) : (l \o e)[i] = l[i]
                                           /\ (l \o e)[Len(l) + 1] = x
    BY <2>3, <2>4, AtEnd
  <2> QED
    BY <2>5 DEF e, l
<1> HIDE DEF new, own, Longer
<1>10. new \in Seq(Texts) /\ own \in Seq(Replays)
  BY <1>2, <1>7, <1>9, <1>9a DEF Longer
<1>11. q \in Drafts /\ q.pc = "preparing" /\ q.doc = s.doc /\ q.captured = new /\ q.records = own
  <2> DEFINE told == Append(s.results, p.result)
  <2>1. told \in Seq(Outcomes) /\ s.at + 1 \in Nat \ {0}
    BY <1>2, <1>7
  <2> HIDE DEF told
  <2> QED
    BY <1>1, <1>2, <1>10, <2>1 DEF Drafts, told
<1> HIDE DEF q
<1>12. /\ send' \in [Senders -> Drafts] /\ send'[c] = q
       /\ \A e \in Senders : e # c => send'[e] = send[e]
  BY <1>1, <1>11 DEF AcsInv, AcsTypeOK
<1>13. AcsTypeOK'
  BY <1>1, <1>12 DEF AcsInv, AcsTypeOK
<1>14. ClaimOK'
  BY <1>1, <1>3, <1>11, <1>12 DEF AcsInv, ClaimOK, Preparing
<1>15. \A e \in Senders : Preparing(e)' => e = c
  BY <1>14, <1>1, <1>11, <1>12 DEF ClaimOK, Preparing
<1>16. ReservedOK(c)'
  <2> SUFFICES /\ \A i, j \in 1..Len(own) : own[i].key = own[j].key => i = j
               /\ \A i \in 1..Len(own) : \A x \in records : x.key # own[i].key
               /\ \A i \in 1..Len(own) : \A u \in texts : u.rid # <<>> /\ u.n = 0 => KeyOf(u) # own[i].key
    BY <1>1, <1>11, <1>12 DEF ReservedOK
  <2>1. CASE p.record = <<>>
    BY <1>3, <1>9a, <2>1 DEF ReservedOK
  <2>2. CASE p.record # <<>>
    <3>1. PICK x \in Replays : p.record = <<x>> /\ x.key = KeyOf(r)
      BY <1>7, <2>2
    <3>2. /\ r.rid # <<>>
          /\ \A i \in 1..Len(s.records) : s.records[i].key # KeyOf(r)
          /\ \A y \in records : y.key # KeyOf(r)
          /\ \A u \in texts : ~(u.to = r.to /\ u.rid = r.rid)
      BY <1>7, <2>2
    <3>3. \A u \in texts : u.rid # <<>> /\ u.n = 0 => KeyOf(u) # KeyOf(r)
      <4> SUFFICES ASSUME NEW u \in texts, u.rid # <<>>, KeyOf(u) = KeyOf(r) PROVE FALSE
        OBVIOUS
      <4>1. u.to = r.to /\ u.rid[1] = r.rid[1]
        BY DEF KeyOf
      <4>2. Optional(u.rid) /\ Optional(r.rid)
        BY <1>5, AcsAssumption DEF AcsInv, AcsTypeOK, Texts
      <4> QED
        BY <3>2, <4>1, <4>2 DEF Optional
    <3>4. /\ Len(own) = Len(s.records) + 1 /\ own[Len(s.records) + 1].key = KeyOf(r) /\ Len(s.records) \in Nat
          /\ \A i \in 1..Len(s.records) : own[i] = s.records[i]
      BY <1>2, <1>9a, <3>1
    <3>5. /\ \A i, j \in 1..Len(s.records) : s.records[i].key = s.records[j].key => i = j
          /\ \A i \in 1..Len(s.records) : \A y \in records : y.key # s.records[i].key
          /\ \A i \in 1..Len(s.records) : \A u \in texts : u.rid # <<>> /\ u.n = 0 => KeyOf(u) # s.records[i].key
      BY <1>3 DEF ReservedOK
    <3>6. \A i \in 1..Len(own) : (i \in 1..Len(s.records) /\ own[i] = s.records[i])
                                  \/ (i = Len(s.records) + 1 /\ own[i].key = KeyOf(r))
      BY <3>4
    <3> QED
      BY <3>2, <3>3, <3>5, <3>6
  <2> QED
    BY <2>1, <2>2
<1>17. DraftedOK(c)'
  <2> SUFFICES /\ \A i \in 1..Len(new) : new[i].rid # <<>> =>
                     new[i].n # 0 /\ \E j \in 1..Len(own) : own[j].key = KeyOf(new[i]) /\ own[j].result.ok
               /\ \A i, j \in 1..Len(new) :
                     new[i].rid # <<>> /\ new[j].rid # <<>> /\ KeyOf(new[i]) = KeyOf(new[j]) => i = j
    BY <1>11, <1>12 DEF DraftedOK
  <2>1. \A j \in 1..Len(s.records) : j \in 1..Len(own) /\ own[j] = s.records[j]
    <3>1. CASE p.record = <<>>
      BY <1>9a, <3>1
    <3>2. CASE p.record # <<>>
      BY <1>2, <1>7, <1>9a, <3>2
    <3> QED
      BY <3>1, <3>2
  <2>2. \A i \in 1..Len(s.captured) : s.captured[i].rid # <<>> =>
           s.captured[i].n # 0 /\ \E j \in 1..Len(own) : own[j].key = KeyOf(s.captured[i]) /\ own[j].result.ok
    BY <1>3, <2>1 DEF DraftedOK
  <2>3. \A i, j \in 1..Len(s.captured) :
           s.captured[i].rid # <<>> /\ s.captured[j].rid # <<>> /\ KeyOf(s.captured[i]) = KeyOf(s.captured[j]) => i = j
    BY <1>3 DEF DraftedOK
  <2>4. CASE p.text = <<>>
    BY <1>9, <2>2, <2>3, <2>4
  <2>5. CASE p.text # <<>>
    <3>1. Longer
      BY <1>9, <2>5
    <3>0. \A i \in 1..Len(new) : (i \in 1..Len(s.captured) /\ new[i] = s.captured[i])
                                  \/ (i = Len(s.captured) + 1 /\ new[i] = t)
      BY <1>2, <3>1 DEF Longer
    <3>2. CASE r.rid = <<>>
      BY <1>8, <2>2, <2>3, <3>0, <3>2
    <3>3. CASE r.rid # <<>>
      <4>1. PICK x \in Replays : p.record = <<x>> /\ x.key = KeyOf(r) /\ x.result.ok
        BY <1>7, <2>5, <3>3
      <4>2. Len(s.records) + 1 \in 1..Len(own) /\ own[Len(s.records) + 1] = x
        BY <1>2, <1>9a, <4>1
      <4>3. \A i \in 1..Len(s.records) : s.records[i].key # KeyOf(r)
        BY <1>7, <4>1
      <4>4. \A i \in 1..Len(s.captured) : s.captured[i].rid # <<>> => KeyOf(s.captured[i]) # KeyOf(t)
        BY <1>3, <1>8, <4>3 DEF DraftedOK
      <4>5. t.n # 0 /\ \E j \in 1..Len(own) : own[j].key = KeyOf(t) /\ own[j].result.ok
        BY <1>8, <3>3, <4>1, <4>2
      <4>6. \A i \in 1..Len(new) : new[i].rid # <<>> =>
                new[i].n # 0 /\ \E j \in 1..Len(own) : own[j].key = KeyOf(new[i]) /\ own[j].result.ok
        BY <2>2, <3>0, <4>5
      <4>7. \A i, j \in 1..Len(new) :
                new[i].rid # <<>> /\ new[j].rid # <<>> /\ KeyOf(new[i]) = KeyOf(new[j]) => i = j
        BY <2>3, <3>0, <4>4
      <4> QED
        BY <4>6, <4>7
    <3> QED
      BY <3>2, <3>3
  <2> QED
    BY <2>4, <2>5
<1>18. SentOnce'
  BY <1>1 DEF AcsInv, SentOnce, KeyOf
<1>19. WaitingOK'
  BY <1>11, <1>12 DEF AcsInv, WaitingOK
<1> QED
  BY <1>19, <1>13, <1>14, <1>15, <1>16, <1>17, <1>18 DEF AcsInv, PreparedOK

\* Publishing what a send has prepared.
LEMMA CaptureStep ==
    ASSUME AcsInv, NEW c \in Senders, Preparing(c), Captured(c), claim' = claim \ {c},
           NEW q \in Drafts, q.pc \in {"202", "500"}, send' = [send EXCEPT ![c] = q]
    PROVE  AcsInv'
<1> DEFINE new == send[c].captured
           own == send[c].records
           at(k) == {i \in 1..Len(new) : new[i].rid # <<>> /\ KeyOf(new[i]) = k}
<1>1. new \in Seq(Texts) /\ own \in Seq(Replays)
  BY DEF AcsInv, AcsTypeOK, Drafts
<1>2. /\ texts' = texts \cup {new[i] : i \in 1..Len(new)}
      /\ records' = records \cup {own[i] : i \in 1..Len(own)}
      /\ sentOnce' = [k \in Keys |-> sentOnce[k] + Cardinality(at(k))]
  BY <1>1 DEF Captured, ToSet
<1>3. ReservedOK(c) /\ DraftedOK(c)
  BY DEF AcsInv, PreparedOK
<1>4. \A k : \/ at(k) = {} /\ Cardinality(at(k)) = 0
             \/ at(k) # {} /\ Cardinality(at(k)) = 1
  <2> TAKE k
  <2>1. CASE at(k) = {}
    BY <2>1, FS_EmptySet
  <2>2. CASE at(k) # {}
    <3>1. PICK i \in at(k) : TRUE
      BY <2>2
    <3>2. at(k) = {i}
      BY <1>3, <3>1 DEF DraftedOK
    <3> QED
      BY <2>2, <3>2, FS_Singleton
  <2> QED
    BY <2>1, <2>2
<1>5. \A k : at(k) # {} => \E j \in 1..Len(own) : own[j].key = k /\ own[j].result.ok
  BY <1>3 DEF DraftedOK
<1>6. \A i \in 1..Len(new) : new[i].rid # <<>> => new[i].n # 0
  BY <1>3 DEF DraftedOK
<1>7. /\ \A i, j \in 1..Len(own) : own[i].key = own[j].key => i = j
      /\ \A i \in 1..Len(own) : \A x \in records : x.key # own[i].key
      /\ \A i \in 1..Len(own) : \A t \in texts : t.rid # <<>> /\ t.n = 0 => KeyOf(t) # own[i].key
  BY <1>3 DEF ReservedOK
<1>8. /\ \A i \in 1..Len(new) : new[i] \in Texts
      /\ \A i \in 1..Len(own) : own[i] \in Replays
  BY <1>1
<1> HIDE DEF new, own, at
<1>9. /\ send' \in [Senders -> Drafts] /\ send'[c] = q
      /\ \A e \in Senders : e # c => send'[e] = send[e]
  BY DEF AcsInv, AcsTypeOK
<1>10. AcsTypeOK'
  <2>1. \A k \in Keys : sentOnce[k] \in Nat /\ sentOnce[k] + Cardinality(at(k)) \in Nat
    BY <1>4 DEF AcsInv, AcsTypeOK
  <2>2. sentOnce' \in [Keys -> Nat]
    BY <1>2, <2>1
  <2>3. texts' \subseteq Texts \cup LegacyTexts /\ records' \subseteq Replays
    BY <1>2, <1>8 DEF AcsInv, AcsTypeOK
  <2>4. claim' \subseteq Senders
    BY DEF AcsInv, AcsTypeOK
  <2> QED
    BY <1>9, <2>2, <2>3, <2>4 DEF AcsTypeOK
<1>11. ClaimOK'
  BY <1>9 DEF AcsInv, ClaimOK, Preparing
<1>12. \A e \in Senders : ~Preparing(e)'
  BY <1>9 DEF AcsInv, ClaimOK, Preparing
<1>13. SentOnce'
  <2> SUFFICES ASSUME NEW k \in Keys
               PROVE  /\ sentOnce'[k] <= 1
                      /\ sentOnce'[k] = 1 => \E x \in records' : x.key = k /\ x.result.ok
                      /\ \A x, y \in records' : x.key = k /\ y.key = k => x = y
                      /\ \A t \in texts' : t.n = 0 /\ t.rid # <<>> /\ KeyOf(t) = k => sentOnce'[k] = 0
    BY DEF SentOnce
  <2>1. /\ sentOnce[k] \in Nat /\ sentOnce[k] <= 1
        /\ sentOnce[k] = 1 => \E x \in records : x.key = k /\ x.result.ok
        /\ \A x, y \in records : x.key = k /\ y.key = k => x = y
        /\ \A t \in texts : t.n = 0 /\ t.rid # <<>> /\ KeyOf(t) = k => sentOnce[k] = 0
    BY DEF AcsInv, AcsTypeOK, SentOnce
  <2>2. sentOnce'[k] = sentOnce[k] + Cardinality(at(k))
    BY <1>2
  <2>3. \A x, y \in records' : x.key = k /\ y.key = k => x = y
    BY <1>2, <1>7, <2>1
  <2>4. CASE at(k) = {}
    <3>1. sentOnce'[k] = sentOnce[k]
      <4>1. Cardinality(at(k)) = 0
        BY <1>4, <2>4
      <4> QED
        BY <2>1, <2>2, <4>1
    <3> QED
      BY <1>2, <1>6, <2>1, <2>3, <3>1
  <2>5. CASE at(k) # {}
    <3>1. PICK j \in 1..Len(own) : own[j].key = k /\ own[j].result.ok
      BY <1>5, <2>5
    <3>2. sentOnce[k] # 1
      BY <1>7, <2>1, <3>1
    <3>3. sentOnce'[k] = 1
      BY <1>4, <2>1, <2>2, <2>5, <3>2
    <3>4. \A t \in texts : t.n = 0 /\ t.rid # <<>> => KeyOf(t) # k
      BY <1>7, <3>1
    <3> QED
      BY <1>2, <1>6, <2>3, <3>1, <3>3, <3>4
  <2> QED
    BY <2>4, <2>5
<1>14. WaitingOK'
  BY <1>9 DEF AcsInv, WaitingOK
<1> QED
  BY <1>10, <1>11, <1>12, <1>13, <1>14 DEF AcsInv, PreparedOK

\* The invariant holds initially.
LEMMA InitAcs == AcsInit => AcsInv
<1> SUFFICES ASSUME AcsInit PROVE AcsInv
  OBVIOUS
<1>1. NoSend \in Drafts
  BY DEF NoSend, Drafts
<1>2. \A c \in Senders : send[c].pc = "idle"
  BY DEF AcsInit, NoSend
<1>3. AcsTypeOK
  BY <1>1 DEF AcsInit, AcsTypeOK
<1>4. ClaimOK /\ PreparedOK /\ WaitingOK
  BY <1>2 DEF AcsInit, ClaimOK, PreparedOK, WaitingOK, Preparing
<1>5. SentOnce
  BY DEF AcsInit, SentOnce
<1> QED
  BY <1>3, <1>4, <1>5 DEF AcsInv

\* Every step preserves it.
LEMMA NextAcs == AcsInv /\ [AcsNext]_acsVars => AcsInv'
<1> SUFFICES ASSUME AcsInv, [AcsNext]_acsVars PROVE AcsInv'
  OBVIOUS
<1>1. NoSend \in Drafts /\ NoSend.pc = "idle"
  BY DEF NoSend, Drafts
<1>t. AcsTypeOK /\ ClaimOK
  BY DEF AcsInv
<1>p. ASSUME NEW c \in Senders, NEW q \in Drafts, send' = [send EXCEPT ![c] = q]
      PROVE  /\ send' \in [Senders -> Drafts] /\ send'[c] = q
             /\ \A e \in Senders : e # c => send'[e] = send[e]
  BY <1>p, <1>t DEF AcsTypeOK
<1>2. CASE UNCHANGED acsVars
  BY <1>2, <1>t, AcsSteady DEF acsVars, AcsTypeOK, ClaimOK, Preparing
<1>3. ASSUME NEW c \in Senders, ReceiveSend(c) PROVE AcsInv'
  <2>1. PICK d \in Sends : send' = [send EXCEPT ![c] = [NoSend EXCEPT !.doc = <<d>>,
               !.pc = IF ~d.fits THEN "413" ELSE IF ~FieldsValid(d) \/ ~OptionsValid(d) THEN "400" ELSE "waiting"]]
    BY <1>3 DEF ReceiveSend
  <2> DEFINE w == IF ~d.fits THEN "413" ELSE IF ~FieldsValid(d) \/ ~OptionsValid(d) THEN "400" ELSE "waiting"
             q == [NoSend EXCEPT !.doc = <<d>>, !.pc = w]
  <2>2. w \in {"413", "400", "waiting"}
    OBVIOUS
  <2> HIDE DEF w
  <2>3. q \in Drafts /\ q.pc = w /\ q.doc # <<>> /\ q.records = <<>> /\ q.captured = <<>>
    BY <1>1, <2>2 DEF NoSend, Drafts
  <2>4. send' = [send EXCEPT ![c] = q]
    BY <2>1 DEF w
  <2> HIDE DEF q
  <2>5. send[c].pc = "idle" /\ UNCHANGED <<texts, records, claim, sentOnce>>
    BY <1>3 DEF ReceiveSend
  <2>6. /\ send' \in [Senders -> Drafts] /\ send'[c] = q
        /\ \A e \in Senders : e # c => send'[e] = send[e]
    BY <1>p, <2>3, <2>4
  <2>7. ClaimOK'
    BY <1>t, <2>2, <2>3, <2>5, <2>6 DEF ClaimOK, Preparing
  <2> QED
    BY <1>t, <2>2, <2>3, <2>5, <2>6, <2>7, AcsSteady DEF AcsTypeOK, Preparing
<1>4. ASSUME NEW c \in Senders, Claim(c) PROVE AcsInv'
  <2> DEFINE q == [send[c] EXCEPT !.pc = "preparing"]
  <2>1. /\ send[c].pc = "waiting" /\ claim = {} /\ claim' = {c} /\ send' = [send EXCEPT ![c] = q]
        /\ UNCHANGED <<texts, records, sentOnce>>
    BY <1>4 DEF Claim, ClaimFree
  <2>2. send[c] \in Drafts
    BY <1>t DEF AcsTypeOK
  <2>3. q \in Drafts /\ q.pc = "preparing" /\ q.doc = send[c].doc /\ q.records = send[c].records /\ q.captured = send[c].captured
    BY <2>2 DEF Drafts
  <2> HIDE DEF q
  <2>4. /\ send' \in [Senders -> Drafts] /\ send'[c] = q
        /\ \A e \in Senders : e # c => send'[e] = send[e]
    BY <1>p, <2>1, <2>3
  <2>5. ClaimOK'
    BY <1>t, <2>1, <2>3, <2>4 DEF ClaimOK, Preparing
  <2>6. send[c].records = <<>> /\ send[c].captured = <<>>
    BY <2>1 DEF AcsInv, WaitingOK
  <2> QED
    BY <1>t, <2>1, <2>3, <2>4, <2>5, <2>6, AcsSteady DEF AcsTypeOK, Preparing
<1>5. ASSUME NEW c \in Senders, Prepare(c) PROVE AcsInv'
  BY <1>5, PrepareStep
<1>a. ASSUME NEW c \in Senders, NEW status \in {"202", "500"}, Answers(c, status)
      PROVE  \E q \in Drafts : q.pc = status /\ q.records = <<>> /\ q.captured = <<>> /\ send' = [send EXCEPT ![c] = q]
  <2> DEFINE q == [NoSend EXCEPT !.pc = status, !.results = send[c].results]
  <2>1. send[c].results \in Seq(Outcomes)
    BY <1>t DEF AcsTypeOK, Drafts
  <2>2. q \in Drafts /\ q.pc = status /\ q.records = <<>> /\ q.captured = <<>>
    BY <1>1, <2>1 DEF NoSend, Drafts
  <2>3. send' = [send EXCEPT ![c] = q]
    BY <1>a DEF Answers
  <2> QED
    BY <2>2, <2>3
<1>d. ASSUME NEW c \in Senders, NEW q \in Drafts, q.pc \in {"idle", "202", "500"}, send' = [send EXCEPT ![c] = q],
             q.records = <<>>, q.captured = <<>>,
             claim' = claim \ {c}, UNCHANGED <<texts, records, sentOnce>>
      PROVE  AcsInv'
  <2>1. /\ send' \in [Senders -> Drafts] /\ send'[c] = q
        /\ \A e \in Senders : e # c => send'[e] = send[e]
    BY <1>p, <1>d
  <2>2. ClaimOK'
    BY <1>t, <1>d, <2>1 DEF ClaimOK, Preparing
  <2> QED
    BY <1>t, <1>d, <2>1, <2>2, AcsSteady DEF AcsTypeOK, Preparing
<1>6. ASSUME NEW c \in Senders, PrepareFails(c) PROVE AcsInv'
  <2>1. PICK q \in Drafts : q.pc = "500" /\ q.records = <<>> /\ q.captured = <<>> /\ send' = [send EXCEPT ![c] = q]
    BY <1>6, <1>a DEF PrepareFails
  <2> QED
    BY <1>6, <1>d, <2>1 DEF PrepareFails
<1>7. ASSUME NEW c \in Senders, CaptureSend(c) PROVE AcsInv'
  <2>1. PICK q \in Drafts : q.pc = "202" /\ q.records = <<>> /\ q.captured = <<>> /\ send' = [send EXCEPT ![c] = q]
    BY <1>7, <1>a DEF CaptureSend
  <2> QED
    BY <1>7, <2>1, CaptureStep DEF CaptureSend, Preparing
<1>8. ASSUME NEW c \in Senders, CaptureFails(c) PROVE AcsInv'
  <2>1. PICK q \in Drafts : q.pc = "500" /\ q.records = <<>> /\ q.captured = <<>> /\ send' = [send EXCEPT ![c] = q]
    BY <1>8, <1>a DEF CaptureFails
  <2>2. CASE Captured(c)
    BY <1>8, <2>1, <2>2, CaptureStep DEF CaptureFails, Preparing
  <2>3. CASE UNCHANGED <<texts, records, sentOnce>>
    BY <1>8, <1>d, <2>1, <2>3 DEF CaptureFails
  <2> QED
    BY <1>8, <2>2, <2>3 DEF CaptureFails
<1>9. ASSUME NEW c \in Senders, Answered(c) PROVE AcsInv'
  <2>1. send' = [send EXCEPT ![c] = NoSend] /\ NoSend.records = <<>> /\ NoSend.captured = <<>>
    BY <1>9 DEF Answered, NoSend
  <2>2. claim' = claim \ {c}
    BY <1>9, <1>t DEF Answered, ClaimOK, Preparing
  <2> QED
    BY <1>1, <1>9, <1>d, <2>1, <2>2 DEF Answered
<1>10. CASE DeleteText
  BY <1>10, <1>t, AcsSteady DEF DeleteText, AcsTypeOK, ClaimOK, Preparing
<1>11. CASE AcsCrash
  <2>1. \A c \in Senders : send'[c].pc = "idle"
    BY <1>1, <1>11 DEF AcsCrash
  <2>2. send' \in [Senders -> Drafts]
    BY <1>1, <1>11 DEF AcsCrash
  <2>3. ClaimOK'
    BY <1>11, <2>1 DEF AcsCrash, ClaimOK, Preparing
  <2> QED
    BY <1>11, <2>1, <2>2, <2>3, AcsSteady DEF AcsCrash, Preparing
<1> QED
  BY <1>2, <1>3, <1>4, <1>5, <1>6, <1>7, <1>8, <1>9, <1>10, <1>11 DEF AcsNext

\* SentOnce in every reachable state, for any senders and sends: an identifier
\* captures at most one text, whatever is repeated, fails, stops or is deleted.
THEOREM TextsSentOnce == AcsSpec => []SentOnce
<1>1. AcsInv => SentOnce
  BY DEF AcsInv
<1> QED
  BY <1>1, InitAcs, NextAcs, PTL DEF AcsSpec
=============================================================================
