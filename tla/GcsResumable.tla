---------------------------- MODULE GcsResumable ----------------------------
(***************************************************************************)
(* One GCS resumable upload from its initiation to its completion,         *)
(* cancellation or expiry (providers/gcs.rs, storage/upload_cancellation,  *)
(* the provider state and upload stores of storage/filesystem.rs).         *)
(*                                                                         *)
(* Requests on a session are serialised by the operation gate; the actions *)
(* of a request are its durable effects, each of which may fail, and the   *)
(* process may die between any two.  The client is honest: it sends pieces *)
(* of one content and tells its true length, but it repeats and overlaps   *)
(* them at will.  A chunk is known by the positions it covers.             *)
(***************************************************************************)
EXTENDS Naturals, Sequences

CONSTANTS
    Lengths,     \* the lengths of contents
    Quantum,     \* non-final chunks are multiples of this (256 KiB)
    MaxChunks,   \* bound: staged chunks
    MaxEpoch,    \* bound: creations of the bucket
    MaxErrors,   \* bound: filesystem errors
    MaxCrashes   \* bound: process deaths

ASSUME GcsAssumption ==
    /\ Lengths \subseteq Nat /\ Quantum \in Nat \ {0}
    /\ MaxChunks \in Nat \ {0} /\ MaxEpoch \in Nat \ {0}
    /\ MaxErrors \in Nat /\ MaxCrashes \in Nat

VARIABLES
    disk,        \* the session record in .provider-state, or NoSession
    mem,         \* its copy in resumable_sessions, or NoSession
    staged,      \* chunk files in .provider-uploads
    decision,    \* the cancellation decision: the bucket's creation, 0 if there is none
    bucket,      \* creation identity of the bucket, 0 while it does not exist
    made,        \* creations of the bucket so far
    target,      \* the destination object
    expired,     \* seven days have passed since the initiation
    store,       \* the process: up or down
    phase, goal, \* the request or startup under way, and what a removal is for
    work, piece, final, \* the record to save, the chunk to stage, whether it ends the content
    sess,        \* what the initiation fixed, and whether the client knows the session
    reply,       \* the last answer
    acked,       \* how far the client was told its bytes are stored
    fate,        \* whether the session's removal has begun and been acknowledged
    cancelled,   \* creation of the bucket at the cancellation, 0 before
    doubt,       \* a save of the record failed after it had replaced the record
    errors, crashes

gcsFiles == <<disk, staged, decision>>
request == <<phase, goal, work, piece, final>>
world == <<bucket, made, expired>>
gcsHistory == <<acked, fate, cancelled, doubt>>
gcsVars == <<disk, mem, staged, decision, bucket, made, target, expired, store, phase, goal, work, piece,
             final, sess, reply, acked, fate, cancelled, doubt, errors, crashes>>

Kind == {"json", "xml", "legacy"}
NoSession == [cuts |-> << >>, told |-> FALSE, live |-> FALSE]
NoChunk == [from |-> 0, to |-> 0]
Empty == [i \in 1..MaxChunks |-> NoChunk]
Nothing == [by |-> "nobody", bytes |-> << >>]

\* Where chunk i of a record begins; the record lists where its chunks end.
Begins(r, i) == IF i = 1 THEN 0 ELSE r.cuts[i - 1]
Received(r) == Begins(r, Len(r.cuts) + 1)

\* The content that a sequence of chunks makes is the first n positions, in order.
Whole(s, n) ==
    /\ s = << >> => n = 0
    /\ \A i \in 1..Len(s) : s[i].from = (IF i = 1 THEN 0 ELSE s[i - 1].to)
    /\ s # << >> => s[Len(s)].to = n

\* A durable effect succeeds, fails, or takes place and still reports an error.
Outcome(out) ==
    /\ out # "done" => errors < MaxErrors
    /\ errors' = IF out = "done" THEN errors ELSE errors + 1

Answer(r) == phase' = "idle" /\ goal' = "none" /\ reply' = r
Idle == store = "up" /\ phase = "idle"

-----------------------------------------------------------------------------
(* Initiation *)

\* A session about to be created, or one that an older build has stored.
GcsInit ==
    /\ \E k \in Kind, n \in Lengths, c \in {"none", "missing"} :
         /\ sess = [kind |-> k, size |-> n, cond |-> c, known |-> k = "legacy"]
         /\ disk = [NoSession EXCEPT !.live = (k = "legacy")]
         /\ phase = IF k = "legacy" THEN "idle" ELSE "start"
    /\ mem = NoSession /\ staged = Empty /\ decision = 0
    /\ bucket = 1 /\ made = 1 /\ target = Nothing /\ expired = FALSE
    /\ store = "up" /\ work = NoSession /\ piece = NoChunk /\ final = FALSE /\ goal = "none"
    /\ reply = "none" /\ acked = 0 /\ fate = "live" /\ cancelled = 0 /\ doubt = FALSE
    /\ errors = 0 /\ crashes = 0

\* The client learns the session's URI only from a success.
Start(told, out) ==
    /\ phase = "start" /\ Outcome(out)
    /\ LET r == [cuts |-> << >>, told |-> told, live |-> TRUE] IN
         /\ disk' = IF out # "failed" THEN r ELSE disk
         /\ mem' = IF out = "done" THEN r ELSE mem
    /\ sess' = [sess EXCEPT !.known = (out = "done")]
    /\ Answer(IF out = "done" THEN "started" ELSE "error")
    /\ UNCHANGED <<staged, decision, world, target, store, work, piece, final, gcsHistory, crashes>>

-----------------------------------------------------------------------------
(* Every request first lets a cancellation decision take effect, then loads   *)
(* the session, from memory before the disk.                                  *)

LoadedSession == IF mem.live THEN mem ELSE disk

\* remove_resumable_session is to run, and the request goes on with g.
Remove(g) == phase' = "forget" /\ goal' = g /\ UNCHANGED reply

\* A decision holds until the session would have expired and while its bucket is the same.
Binding == ~expired /\ bucket = decision

\* Not the code: a decision that no longer holds is dropped with the session still there.
DecidedStale ==
    /\ Idle /\ sess.known /\ decision # 0
    /\ IF Binding THEN Remove("decided") ELSE phase' = "drop" /\ goal' = "decided" /\ UNCHANGED reply
    /\ UNCHANGED <<gcsFiles, mem, world, target, store, work, piece, final, sess, gcsHistory, errors,
                   crashes>>

Decided ==
    /\ Idle /\ sess.known /\ decision # 0
    /\ Remove("decided")
    /\ UNCHANGED <<gcsFiles, mem, world, target, store, work, piece, final, sess, gcsHistory, errors,
                   crashes>>

Undecided == Idle /\ sess.known /\ decision = 0

Missing ==
    /\ Undecided /\ ~LoadedSession.live
    /\ Answer("notfound")
    /\ UNCHANGED <<gcsFiles, mem, world, target, store, work, piece, final, sess, gcsHistory, errors,
                   crashes>>

Overdue ==
    /\ Undecided /\ LoadedSession.live /\ expired
    /\ Remove("expired")
    /\ fate' = "ending"
    /\ UNCHANGED <<gcsFiles, mem, world, target, store, work, piece, final, sess, acked, cancelled,
                   doubt, errors, crashes>>

Found == Undecided /\ LoadedSession.live /\ ~expired

StatusQuery ==
    /\ Found
    /\ Answer("incomplete")
    /\ acked' = Received(LoadedSession) /\ fate' = "live" /\ final' = FALSE
    /\ UNCHANGED <<gcsFiles, mem, world, target, store, work, piece, sess, cancelled, doubt, errors,
                   crashes>>

-----------------------------------------------------------------------------
(* Data *)

\* The positions a request may carry: no gap, and whole quanta unless it ends
\* the content and says so.  An empty content is sent as the range 0-0.
Sendable(start, end, tells) ==
    /\ start <= end /\ start <= Received(LoadedSession)
    /\ IF sess.size = 0 THEN end = 0 /\ tells
       ELSE /\ end < sess.size
            /\ (tells /\ end + 1 = sess.size) \/ (end + 1 - start) % Quantum = 0

\* Not the code: the whole payload is staged, what was received before included.
PieceWhole(r, start, end) == [from |-> start, to |-> end + 1]

\* What a request adds: its payload without the source_offset that is there already.
Piece(r, start, end) ==
    LET source_offset == Received(r) - start IN [from |-> start + source_offset, to |-> end + 1]
\* committed_end: the last position received, and 0 when nothing was.
Committed(r) == IF Received(r) = 0 THEN 0 ELSE Received(r) - 1

DataRequest(start, end, tells) ==
    /\ Found /\ Sendable(start, end, tells)
    /\ final' = (tells /\ end + 1 = sess.size)
    /\ LET r == LoadedSession IN
         IF end > Committed(r)
           THEN /\ Len(r.cuts) < MaxChunks
                /\ phase' = "stage"
                /\ work' = [r EXCEPT !.cuts = Append(@, end + 1), !.told = @ \/ tells]
                /\ piece' = Piece(r, start, end)
           ELSE /\ phase' = "save"
                /\ work' = [r EXCEPT !.told = @ \/ tells]
                /\ UNCHANGED piece
    /\ goal' = "none" /\ fate' = "live"
    /\ UNCHANGED <<gcsFiles, mem, world, target, store, sess, reply, acked, cancelled, doubt, errors,
                   crashes>>

\* The chunk file is named after the number of chunks received before it.
StageChunk(out) ==
    /\ phase = "stage" /\ Outcome(out)
    /\ staged' = IF out = "failed" THEN staged
                 ELSE [staged EXCEPT ![Len(work.cuts)] = piece]
    /\ piece' = NoChunk
    /\ IF out = "done" THEN phase' = "save" /\ UNCHANGED <<goal, reply>> ELSE Answer("error")
    /\ UNCHANGED <<disk, mem, decision, world, target, store, work, final, sess, gcsHistory, crashes>>

\* Not the code: the session is answered for before its record is replaced.
SaveInMemory(out) ==
    /\ phase = "save" /\ Outcome(out)
    /\ disk' = IF out = "late" THEN work ELSE disk
    /\ mem' = work
    /\ doubt' = (doubt \/ out = "late")
    /\ IF final /\ work.told /\ Received(work) = sess.size
         THEN phase' = "finish" /\ UNCHANGED <<goal, reply, acked>>
         ELSE Answer("incomplete") /\ acked' = Received(work)
    /\ UNCHANGED <<staged, decision, world, target, store, work, piece, final, sess, fate,
                   cancelled, crashes>>

SaveSession(out) ==
    /\ phase = "save" /\ Outcome(out)
    /\ disk' = IF out = "failed" THEN disk ELSE work
    /\ mem' = IF out = "done" THEN work ELSE mem
    /\ doubt' = (doubt \/ out = "late")
    /\ IF out = "done"
         THEN IF final /\ work.told /\ Received(work) = sess.size
                THEN phase' = "finish" /\ UNCHANGED <<goal, reply, acked>>
                ELSE Answer("incomplete") /\ acked' = Received(work)
         ELSE Answer("error") /\ UNCHANGED acked
    /\ UNCHANGED <<staged, decision, world, target, store, work, piece, final, sess, fate,
                   cancelled, crashes>>

-----------------------------------------------------------------------------
(* Completion *)

\* A checksum that does not match, foreign protection or retention of the
\* existing object, and a condition that fails: the session stays.
RefuseFinal ==
    /\ phase = "finish"
    /\ Answer("refused")
    /\ UNCHANGED <<gcsFiles, mem, world, target, store, work, piece, final, sess, gcsHistory, errors,
                   crashes>>

Items(r) == 1..Len(r.cuts)
Composable == bucket # 0 /\ \A i \in Items(work) : staged[i] # NoChunk

\* compose_upload_payloads and the conditional write of the object, which is
\* atomic (module Publication) but can be decided and still report an error.
Publish(out) ==
    /\ phase = "finish" /\ Outcome(out)
    /\ sess.cond = "missing" => target.by = "nobody"
    /\ Composable
    /\ target' = IF out = "failed" THEN target
                 ELSE [by |-> "session", bytes |-> [i \in Items(work) |-> staged[i]]]
    /\ IF out = "done" THEN Remove("completed") /\ fate' = "ending"
                       ELSE Answer("error") /\ UNCHANGED fate
    /\ UNCHANGED <<gcsFiles, mem, world, store, work, piece, final, sess, acked, cancelled, doubt,
                   crashes>>

\* Without the bucket an upload cannot complete and an XML session cannot be
\* cancelled; a missing chunk fails the composition.
Impossible ==
    /\ \/ phase = "finish" /\ ~Composable
       \/ Found /\ sess.kind = "xml" /\ bucket = 0
    /\ Answer("error")
    /\ UNCHANGED <<gcsFiles, mem, world, target, store, work, piece, final, sess, gcsHistory, errors,
                   crashes>>

-----------------------------------------------------------------------------
(* Cancellation.  An XML session leaves a decision before anything of it is   *)
(* removed; without its bucket it cannot be cancelled.                        *)

CancelXml(out) ==
    /\ Found /\ sess.kind = "xml" /\ bucket # 0 /\ Outcome(out)
    /\ decision' = IF out = "failed" THEN decision ELSE bucket
    /\ cancelled' = IF out = "failed" THEN cancelled ELSE bucket
    /\ IF out = "done" THEN Remove("cancelled") ELSE Answer("error")
    /\ fate' = IF out = "failed" THEN "live" ELSE "ending"
    /\ UNCHANGED <<disk, mem, staged, world, target, store, work, piece, final, sess, acked, doubt,
                   crashes>>

CancelOther ==
    /\ Found /\ sess.kind # "xml"
    /\ Remove("cancelled") /\ fate' = "ending"
    /\ UNCHANGED <<gcsFiles, mem, world, target, store, work, piece, final, sess, acked, cancelled,
                   doubt, errors, crashes>>

-----------------------------------------------------------------------------
(* remove_resumable_session: the copy in memory and the record go first, the  *)
(* chunks after them one by one.  Startup does the same for a decision.       *)

Forget(out) ==
    /\ phase = "forget" /\ out # "late" /\ Outcome(out)
    /\ mem' = NoSession
    /\ IF out = "done" THEN disk' = NoSession /\ phase' = "unstage" /\ UNCHANGED <<goal, reply>>
                       ELSE Answer("error") /\ UNCHANGED disk
    /\ UNCHANGED <<staged, decision, world, target, store, work, piece, final, sess, gcsHistory,
                   crashes>>

Unstage(i, out) ==
    /\ phase = "unstage" /\ out # "late" /\ Outcome(out)
    /\ staged[i] # NoChunk
    /\ IF out = "done" THEN staged' = [staged EXCEPT ![i] = NoChunk] /\ UNCHANGED <<phase, goal, reply>>
                       ELSE Answer("error") /\ UNCHANGED staged
    /\ UNCHANGED <<disk, mem, decision, world, target, store, work, piece, final, sess, gcsHistory,
                   crashes>>

RemovedSession ==
    /\ phase = "unstage" /\ staged = Empty
    /\ \/ /\ goal \in {"completed", "cancelled"}
          /\ Answer(goal) /\ fate' = "ended"
          /\ cancelled' = IF goal = "cancelled" /\ cancelled = 0 THEN made ELSE cancelled
          /\ UNCHANGED store
       \/ /\ goal = "expired"
          /\ Answer("notfound") /\ UNCHANGED <<fate, cancelled, store>>
       \/ /\ goal = "decided" /\ Binding
          /\ Answer("cancelled") /\ fate' = "ended" /\ UNCHANGED <<cancelled, store>>
       \/ /\ goal = "open" /\ Binding
          /\ Answer("none") /\ store' = "up" /\ UNCHANGED <<fate, cancelled>>
       \/ /\ goal \in {"decided", "open"} /\ ~Binding
          /\ phase' = "drop" /\ UNCHANGED <<goal, reply, fate, cancelled, store>>
    /\ UNCHANGED <<gcsFiles, mem, world, target, work, piece, final, sess, acked, doubt, errors,
                   crashes>>

DropDecision(out) ==
    /\ phase = "drop" /\ out # "late" /\ Outcome(out)
    /\ decision' = IF out = "done" THEN 0 ELSE decision
    /\ store' = IF out = "done" THEN "up" ELSE store
    /\ Answer(IF out = "failed" THEN "error" ELSE IF goal = "open" THEN "none" ELSE "notfound")
    /\ UNCHANGED <<disk, mem, staged, world, target, work, piece, final, sess, gcsHistory, crashes>>

-----------------------------------------------------------------------------
(* Process death and startup, and what happens around the session.            *)

Crash ==
    /\ phase # "start" /\ (store = "up" \/ phase # "idle")
    /\ crashes < MaxCrashes
    /\ crashes' = crashes + 1
    /\ store' = "down" /\ mem' = NoSession
    /\ phase' = "idle" /\ goal' = "none" /\ reply' = "none"
    /\ UNCHANGED <<gcsFiles, world, target, work, piece, final, sess, gcsHistory, errors>>

\* recover_gcs_cancellations runs before the store serves; an error ends the attempt.
GcsRestart ==
    /\ store = "down" /\ phase = "idle"
    /\ IF decision = 0 THEN store' = "up" /\ UNCHANGED <<phase, goal>>
                       ELSE phase' = "forget" /\ goal' = "open" /\ UNCHANGED store
    /\ UNCHANGED <<gcsFiles, mem, world, target, work, piece, final, sess, reply, gcsHistory, errors,
                   crashes>>

Expire ==
    /\ ~expired /\ expired' = TRUE
    /\ UNCHANGED <<gcsFiles, mem, bucket, made, target, store, request, sess, reply, gcsHistory, errors,
                   crashes>>

\* Other writers of the destination, and the bucket's deletion and creation.
OtherWrite(o) ==
    /\ Idle /\ bucket # 0
    /\ target' = IF o = "put" THEN [by |-> "other", bytes |-> << >>] ELSE Nothing
    /\ UNCHANGED <<gcsFiles, mem, world, store, request, sess, reply, gcsHistory, errors, crashes>>

DeleteBucket ==
    /\ Idle /\ target.by = "nobody" /\ bucket' = 0
    /\ UNCHANGED <<gcsFiles, mem, made, target, expired, store, request, sess, reply, gcsHistory, errors,
                   crashes>>

CreateBucket ==
    /\ Idle /\ bucket = 0 /\ made < MaxEpoch
    /\ made' = made + 1 /\ bucket' = made + 1
    /\ UNCHANGED <<gcsFiles, mem, target, expired, store, request, sess, reply, gcsHistory, errors,
                   crashes>>

-----------------------------------------------------------------------------
Results == {"done", "failed", "late"}
Positions == 0..(CHOOSE n \in Lengths : \A m \in Lengths : m <= n)

Request ==
    \/ Decided \/ Missing \/ Overdue \/ StatusQuery \/ CancelOther
    \/ \E start, end \in Positions, tells \in BOOLEAN : DataRequest(start, end, tells)

Effect(out) ==
    \/ \E told \in BOOLEAN : Start(told, out)
    \/ StageChunk(out) \/ SaveSession(out) \/ Publish(out) \/ CancelXml(out)
    \/ Forget(out) \/ (\E i \in 1..MaxChunks : Unstage(i, out)) \/ DropDecision(out)

Around ==
    \/ Crash \/ GcsRestart \/ Expire \/ DeleteBucket \/ CreateBucket
    \/ \E o \in {"put", "delete"} : OtherWrite(o)

GcsNext == Request \/ (\E out \in Results : Effect(out)) \/ RefuseFinal \/ Impossible \/ RemovedSession \/ Around

GcsSpec == GcsInit /\ [][GcsNext]_gcsVars

-----------------------------------------------------------------------------
(* Properties *)

Record == [cuts : Seq(Nat), told : BOOLEAN, live : BOOLEAN]
Chunk == [from : Nat, to : Nat]
GcsTypeOK ==
    /\ disk \in Record /\ mem \in Record /\ work \in Record
    /\ Len(disk.cuts) <= MaxChunks /\ Len(mem.cuts) <= MaxChunks /\ Len(work.cuts) <= MaxChunks
    /\ staged \in [1..MaxChunks -> Chunk] /\ piece \in Chunk
    /\ made \in 1..MaxEpoch /\ bucket \in 0..made /\ decision \in 0..made /\ cancelled \in 0..made
    /\ target \in [by : {"nobody", "other", "session"}, bytes : Seq(Chunk)]
    /\ expired \in BOOLEAN /\ doubt \in BOOLEAN /\ final \in BOOLEAN
    /\ store \in {"up", "down"}
    /\ phase \in {"start", "idle", "stage", "save", "finish", "forget", "unstage", "drop"}
    /\ goal \in {"none", "decided", "expired", "completed", "cancelled", "open"}
    /\ (goal # "none") = (phase \in {"forget", "unstage", "drop"})
    /\ sess \in [kind : Kind, size : Lengths, cond : {"none", "missing"}, known : BOOLEAN]
    /\ reply \in {"none", "started", "incomplete", "refused", "error", "completed", "cancelled", "notfound"}
    /\ acked \in Nat /\ fate \in {"live", "ending", "ended"}
    /\ errors \in 0..MaxErrors /\ crashes \in 0..MaxCrashes

(* The object that an upload publishes is the client's content, every position *)
(* once and in order, whatever was repeated, interrupted or resumed after a    *)
(* restart; unless a save of the session had failed after replacing its record.*)
Exact == target.by = "session" /\ ~doubt => Whole(target.bytes, sess.size)

(* What a 308 answer says is stored stays stored until the session ends: the   *)
(* client may discard those bytes.                                             *)
AckedKept ==
    sess.known /\ fate = "live" =>
      /\ disk.live /\ Received(disk) >= acked
      /\ \A i \in Items(disk) : staged[i] # NoChunk
      /\ mem.live => Received(mem) >= acked

(* An acknowledged completion or cancellation leaves neither record nor chunks *)
(* (README: "Successful aborts and removals reclaim session payloads").        *)
Reclaimed == fate = "ended" => ~disk.live /\ ~mem.live /\ staged = Empty

(* Once a cancellation is decided the session never publishes an object, even  *)
(* if its removal fails, is cut short, or the bucket is made anew.             *)
CancelFinal == [][cancelled # 0 /\ target' # target => target'.by # "session"]_gcsVars

(* A cancelled XML session is remembered until its deadline while its bucket   *)
(* lives, across failed clean-ups and restarts, so that it answers 204.        *)
CancelRemembered ==
    sess.kind = "xml" /\ cancelled # 0 /\ ~expired /\ bucket = cancelled => decision = cancelled

=============================================================================
