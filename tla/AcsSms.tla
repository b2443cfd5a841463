------------------------------- MODULE AcsSms -------------------------------
(***************************************************************************)
(* ACS SMS sends (sms/providers/acs.rs).  A send names up to 100           *)
(* recipients, each of which may carry a repeatability identifier; its     *)
(* text and its replay record are captured in one batch, under a lock that *)
(* covers the lookup and the capture.  Senders retry what they have not    *)
(* seen answered; the process may stop at any point; texts of an older     *)
(* build have no record.  The store is the file system's, which captures a *)
(* batch as one: the loop of single captures for a store without           *)
(* capture_batch (lines 519-545) runs with no store the program has.       *)
(***************************************************************************)
EXTENDS Naturals, Sequences, FiniteSets, SequencesExt

CONSTANTS Senders,
          Sends,            \* the sends: [recipients, hash, fields, options, fits]
          LegacyTexts       \* texts an older build has left, numbered 0

\* What the sends ask for.
Addressees == UNION {ToSet(s.recipients) : s \in Sends}

\* A list of at most one element is an optional field.
Optional(f) == f = <<>> \/ f = <<f[1]>>

\* Sends are documents that were parsed; an older build's texts are numbered 0.
ASSUME AcsAssumption ==
    /\ \A s \in Sends : s.recipients \in Seq(ToSet(s.recipients))
    /\ \A r \in Addressees : Optional(r.rid) /\ Optional(r.first)
    /\ \A t \in LegacyTexts : Optional(t.rid) /\ Optional(t.first) /\ t.n = 0

VARIABLES texts,        \* the captured texts: [to, rid, first, hash, n]
          records,      \* replay records: [key, hash, first, result]
          claim,        \* who holds ACS_SMS_CLAIMS: a set
          send,         \* per sender, its send
          sentOnce      \* history: <<to, rid>> -> texts ever captured for it by this build

acsVars == <<texts, records, claim, send, sentOnce>>

Keys == {<<r.to, r.rid[1]>> : r \in {x \in Addressees : x.rid # <<>>}}

NoSend == [pc |-> "idle", doc |-> <<>>, at |-> 1, results |-> <<>>, captured |-> <<>>, records |-> <<>>]

AcsInit ==
    /\ texts \in SUBSET LegacyTexts
    /\ records = {} /\ claim = {} /\ send = [c \in Senders |-> NoSend]
    /\ sentOnce = [k \in Keys |-> 0]

\* The identifier and the date come together, and each is well formed.
RepeatabilityValid(r) ==
    /\ (r.rid = <<>>) <=> (r.first = <<>>)
    /\ r.rid # <<"bad">> /\ r.first # <<"bad">>

KeyOf(r) == <<r.to, r.rid[1]>>

Rejected == [ok |-> FALSE, why |-> "repeatability"]

IsE164(to) == to # "bad"

-----------------------------------------------------------------------------
(* prepare_recipient *)

\* The record of an earlier send, or of an earlier recipient of this one.
RecordFor(k, pending) ==
    LET own == {i \in 1..Len(pending) : pending[i].key = k}
    IN  IF own # {} THEN {pending[CHOOSE i \in own : \A j \in own : i <= j]}
        ELSE {x \in records : x.key = k}

\* A text of the older build with the identifier.
LegacyFor(r) == {t \in texts : t.to = r.to /\ t.rid = r.rid}

\* A repetition says the same and names the same first time.
SameRequest(x, r, hash) == x.hash = hash /\ <<x.first>> = r.first

Replay(x, r, hash, result) == IF SameRequest(x, r, hash) THEN result ELSE Rejected

\* What a recipient answers, captures and reserves.
PrepareRecipient(r, hash, n, pending) ==
    LET known == IF r.rid = <<>> THEN {} ELSE RecordFor(KeyOf(r), pending)
        legacy == IF r.rid = <<>> THEN {} ELSE LegacyFor(r)
        result == IF IsE164(r.to) THEN [ok |-> TRUE, why |-> n] ELSE [ok |-> FALSE, why |-> "number"]
        text == [to |-> r.to, rid |-> r.rid, first |-> r.first, hash |-> hash, n |-> n]
    IN  IF known # {} THEN LET x == CHOOSE x \in known : TRUE
                           IN  [result |-> Replay(x, r, hash, x.result), text |-> <<>>, record |-> <<>>]
        ELSE IF legacy # {} THEN LET t == CHOOSE t \in legacy : TRUE
                                 IN  [result |-> Replay([hash |-> t.hash, first |-> t.first[1]], r, hash,
                                                        [ok |-> TRUE, why |-> t.n]),
                                      text |-> <<>>, record |-> <<>>]
        ELSE [result |-> result,
              text |-> IF IsE164(r.to) THEN <<text>> ELSE <<>>,
              record |-> IF r.rid = <<>> THEN <<>>
                         ELSE <<[key |-> KeyOf(r), hash |-> hash, first |-> r.first[1], result |-> result]>>]

-----------------------------------------------------------------------------
(* send *)

Answers(c, status) == send' = [send EXCEPT ![c] = [NoSend EXCEPT !.pc = status, !.results = send[c].results]]

OptionsValid(d) == d.options

FieldsValid(d) == d.fields /\ d.recipients # <<>>

\* The document is checked before the lock is taken.
ReceiveSend(c) ==
    /\ send[c].pc = "idle"
    /\ \E d \in Sends :
          send' = [send EXCEPT ![c] = [NoSend EXCEPT !.doc = <<d>>,
                     !.pc = IF ~d.fits THEN "413" ELSE IF ~FieldsValid(d) \/ ~OptionsValid(d) THEN "400" ELSE "waiting"]]
    /\ UNCHANGED <<texts, records, claim, sentOnce>>

\* A faulty form of ClaimFree.
ClaimIgnored == TRUE

\* Who may enter: nobody else is between the lookup of the records and the capture.
ClaimFree == claim = {}

Claim(c) ==
    /\ send[c].pc = "waiting" /\ ClaimFree
    /\ claim' = claim \cup {c} /\ send' = [send EXCEPT ![c].pc = "preparing"]
    /\ UNCHANGED <<texts, records, sentOnce>>

\* A new text is told apart by the number of texts with its identifier so far.
Fresh(r) == IF r.rid = <<>> \/ KeyOf(r) \notin Keys THEN 0 ELSE sentOnce[KeyOf(r)] + 1

Prepare(c) ==
    LET s == send[c]
        r == s.doc[1].recipients[s.at]
        p == IF ~RepeatabilityValid(r) THEN [result |-> Rejected, text |-> <<>>, record |-> <<>>]
             ELSE PrepareRecipient(r, s.doc[1].hash, Fresh(r), s.records)
    IN  /\ s.pc = "preparing" /\ s.at <= Len(s.doc[1].recipients)
        /\ send' = [send EXCEPT ![c] = [s EXCEPT !.at = @ + 1, !.results = Append(@, p.result),
                                                 !.captured = @ \o p.text, !.records = @ \o p.record]]
        /\ UNCHANGED <<texts, records, claim, sentOnce>>

\* A lookup fails, or the batch is too large: nothing is captured.
PrepareFails(c) ==
    /\ send[c].pc = "preparing"
    /\ claim' = claim \ {c} /\ Answers(c, "500")
    /\ UNCHANGED <<texts, records, sentOnce>>

Captured(c) ==
    LET s == send[c]
        count(k) == Cardinality({i \in 1..Len(s.captured) : s.captured[i].rid # <<>> /\ KeyOf(s.captured[i]) = k})
    IN  /\ texts' = texts \cup ToSet(s.captured)
        /\ records' = records \cup ToSet(s.records)
        /\ sentOnce' = [k \in Keys |-> sentOnce[k] + count(k)]

\* capture_batch publishes texts and records at once.
CaptureSend(c) ==
    /\ send[c].pc = "preparing" /\ send[c].at > Len(send[c].doc[1].recipients)
    /\ Captured(c) /\ claim' = claim \ {c} /\ Answers(c, "202")

\* The journal reports an error, before its commit marker or while syncing it.
CaptureFails(c) ==
    /\ send[c].pc = "preparing" /\ send[c].at > Len(send[c].doc[1].recipients)
    /\ Captured(c) \/ UNCHANGED <<texts, records, sentOnce>>
    /\ claim' = claim \ {c} /\ Answers(c, "500")

\* The answer arrives or is lost; the sender may send again what it has sent.
Answered(c) ==
    /\ send[c].pc \in {"202", "400", "413", "500"}
    /\ send' = [send EXCEPT ![c] = NoSend]
    /\ UNCHANGED <<texts, records, claim, sentOnce>>

\* Deleting a text or a conversation leaves the records.
DeleteText ==
    /\ \E t \in texts : texts' = texts \ {t}
    /\ UNCHANGED <<records, claim, send, sentOnce>>

AcsCrash ==
    /\ \E c \in Senders : send[c].pc # "idle"
    /\ send' = [c \in Senders |-> NoSend] /\ claim' = {}
    /\ UNCHANGED <<texts, records, sentOnce>>

AcsNext ==
    \/ \E c \in Senders :
          \/ ReceiveSend(c) \/ Claim(c) \/ Prepare(c) \/ PrepareFails(c)
          \/ CaptureSend(c) \/ CaptureFails(c) \/ Answered(c)
    \/ DeleteText \/ AcsCrash

AcsSpec == AcsInit /\ [][AcsNext]_acsVars

-----------------------------------------------------------------------------
\* However often a send is repeated - by two senders at once, twice in one
\* request, after a lost answer, a failed capture or a restart, with the text
\* deleted or not - an identifier captures at most one text, none beside the text
\* an older build has left while that is there, and never without its record.
SentOnce ==
    \A k \in Keys :
        /\ sentOnce[k] <= 1
        /\ sentOnce[k] = 1 => \E x \in records : x.key = k /\ x.result.ok
        /\ \A x, y \in records : x.key = k /\ y.key = k => x = y
        /\ \A t \in texts : t.n = 0 /\ t.rid # <<>> /\ KeyOf(t) = k => sentOnce[k] = 0
=============================================================================
