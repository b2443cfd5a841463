------------------------- MODULE GcsResumableProofs -------------------------
(* The content of completed uploads, acknowledged bytes and the finality of   *)
(* cancellations, for any length, quantum, number of chunks, errors, crashes  *)
(* and creations of the bucket.                                               *)
EXTENDS GcsResumable, TLAPS

Dead == ~disk.live /\ ~mem.live
Upload == {"start", "stage", "save", "finish"}
Removal == {"forget", "unstage", "drop"}

\* Where a session is while it is not yet made, being removed and ended.
RemovalOK ==
    /\ phase = "start" => /\ Dead /\ ~sess.known /\ fate = "live" /\ acked = 0
                          /\ decision = 0 /\ cancelled = 0
    /\ phase \in {"unstage", "drop"} => Dead
    /\ phase \in Removal => fate # "live"
    /\ fate = "ended" => Dead /\ staged = Empty /\ phase \notin Upload

\* What a decision stands for, and what remains of it once it is dropped.
DecisionOK ==
    /\ decision # 0 => fate # "live" /\ decision = cancelled /\ sess.kind = "xml"
    /\ cancelled # 0 => phase \notin Upload /\ (decision # 0 \/ Dead)
    /\ phase = "drop" => expired \/ bucket # decision
    /\ goal = "cancelled" /\ sess.kind = "xml" => cancelled # 0
    /\ CancelRemembered

\* Chunks a record counts are staged.
Kept(r) == \A i \in Items(r) : staged[i] # NoChunk

\* The record on disk, the copy in memory and the one about to be saved never
\* fall behind what was acknowledged.
AckedOK ==
    /\ sess.known /\ fate = "live" => disk.live
    /\ disk.live => Received(disk) >= acked /\ Kept(disk)
    /\ mem.live => /\ disk.live /\ Kept(mem)
                   /\ Received(mem) >= acked /\ Received(disk) >= Received(mem)
    /\ phase \in {"stage", "save"} => /\ work.live /\ Received(work) >= acked
                                      /\ mem.live => Received(work) >= Received(mem)
    /\ phase = "stage" => /\ Len(work.cuts) > 0 /\ piece.to > 0
                          /\ \A i \in 1..(Len(work.cuts) - 1) : staged[i] # NoChunk
    /\ phase = "save" => Kept(work)

\* The chunks that a record counts are the ones it was saved for.
Matches(r) == \A i \in Items(r) : staged[i] = [from |-> Begins(r, i), to |-> r.cuts[i]]

\* Without a save of unknown outcome memory and disk agree and the chunks match.
ExactOK == ~doubt =>
    /\ disk.live => Matches(disk)
    /\ mem.live => mem = disk
    /\ phase = "stage" => /\ disk.live /\ work.cuts = Append(disk.cuts, piece.to)
                          /\ piece.from = Received(disk)
    /\ phase \in {"save", "finish"} => Matches(work)
    /\ phase = "finish" => Received(work) = sess.size
    /\ target.by = "session" => Whole(target.bytes, sess.size)

IInv == GcsTypeOK /\ RemovalOK /\ DecisionOK /\ AckedOK /\ ExactOK

-----------------------------------------------------------------------------
(* The operators on records *)

\* Positions are natural numbers whatever the lengths are.
LEMMA PositionsNat == \A p \in Positions : p \in Nat
  BY DEF Positions

\* What was received is a number.
LEMMA ReceivedNat ==
  ASSUME NEW r \in Record PROVE Received(r) \in Nat
  BY DEF Received, Begins, Record

\* A record and the one with a chunk more.
LEMMA Extended ==
  ASSUME NEW r \in Record, NEW w \in Record, NEW n \in Nat, w.cuts = Append(r.cuts, n)
  PROVE  /\ Len(w.cuts) = Len(r.cuts) + 1 /\ Received(w) = n
         /\ \A i \in Items(r) : w.cuts[i] = r.cuts[i] /\ Begins(w, i) = Begins(r, i)
         /\ w.cuts[Len(w.cuts)] = n /\ Begins(w, Len(w.cuts)) = Received(r)
<1>1. r.cuts \in Seq(Nat) /\ w.cuts \in Seq(Nat)
  BY DEF Record
<1>2. Len(w.cuts) = Len(r.cuts) + 1 /\ w.cuts[Len(r.cuts) + 1] = n
  BY <1>1
<1>3. \A i \in 1..Len(r.cuts) : w.cuts[i] = r.cuts[i]
  BY <1>1
<1> QED
  BY <1>1, <1>2, <1>3 DEF Received, Begins, Items

\* The chunks a record counts have places.
LEMMA ItemsBound ==
  ASSUME NEW r \in Record, Len(r.cuts) <= MaxChunks
  PROVE  /\ Len(r.cuts) \in Nat /\ Items(r) = 1..Len(r.cuts) /\ Items(r) \subseteq 1..MaxChunks
  BY GcsAssumption DEF Record, Items

\* Records with the same cuts have received the same.
LEMMA SameCuts ==
  ASSUME NEW r \in Record, NEW w \in Record, w.cuts = r.cuts
  PROVE  /\ Received(w) = Received(r) /\ Items(w) = Items(r)
         /\ \A i \in Items(r) : Begins(w, i) = Begins(r, i)
  BY DEF Received, Begins, Items

\* Chunks that match their record make up everything the record has received.
LEMMA WholeMatches ==
  ASSUME GcsTypeOK, Matches(work)
  PROVE  Whole([i \in Items(work) |-> staged[i]], Received(work))
<1> DEFINE n == Len(work.cuts)
           s == [i \in Items(work) |-> staged[i]]
<1>1. n \in Nat /\ n <= MaxChunks /\ work.cuts \in Seq(Nat) /\ Items(work) = 1..n
  BY DEF GcsTypeOK, Record, Items
<1>2. s \in Seq(Chunk) /\ Len(s) = n /\ \A i \in 1..n : s[i] = staged[i]
  BY <1>1, GcsAssumption DEF GcsTypeOK
<1> HIDE DEF s
<1>3. \A i \in 1..n : s[i].from = Begins(work, i) /\ s[i].to = work.cuts[i]
  <2>1. \A i \in 1..n : staged[i] = [from |-> Begins(work, i), to |-> work.cuts[i]]
    BY <1>1 DEF Matches
  <2> TAKE i \in 1..n
  <2>2. s[i] = [from |-> Begins(work, i), to |-> work.cuts[i]]
    BY <1>2, <2>1
  <2> QED
    BY <2>2
<1>4. s = << >> => n = 0
  BY <1>2
<1>5. s # << >> => n \in 1..n
  BY <1>1, <1>2
<1>6. s = << >> => Received(work) = 0
  BY <1>4 DEF Received, Begins
<1>7. \A i \in 1..Len(s) : s[i].from = (IF i = 1 THEN 0 ELSE s[i - 1].to)
  BY <1>1, <1>2, <1>3 DEF Begins
<1>8. s # << >> => s[Len(s)].to = Received(work)
  BY <1>1, <1>2, <1>3, <1>5 DEF Received, Begins
<1>9. Whole(s, Received(work))
  BY <1>6, <1>7, <1>8 DEF Whole
<1> QED
  BY <1>9 DEF s

\* What a request with data does: a chunk more that begins where the record
\* ended, or the same chunks.
LEMMA DataFacts ==
  ASSUME GcsTypeOK, GcsTypeOK', NEW start \in Positions, NEW end \in Positions, NEW tells \in BOOLEAN,
         DataRequest(start, end, tells)
  PROVE  /\ LoadedSession \in Record /\ LoadedSession.live /\ work' \in Record /\ work'.live /\ fate' = "live"
         /\ UNCHANGED <<disk, mem, staged, target, sess, acked, doubt>>
         /\ \/ /\ phase' = "stage" /\ work'.cuts = Append(LoadedSession.cuts, piece'.to)
               /\ piece'.from = Received(LoadedSession) /\ piece'.to > Received(LoadedSession)
            \/ phase' = "save" /\ work'.cuts = LoadedSession.cuts
<1>1. LoadedSession \in Record /\ Received(LoadedSession) \in Nat /\ work' \in Record
  BY ReceivedNat DEF LoadedSession, GcsTypeOK
<1>2. start \in Nat /\ end \in Nat /\ start <= Received(LoadedSession)
  BY PositionsNat DEF DataRequest, Sendable
<1>3. /\ LoadedSession.live /\ fate' = "live"
      /\ UNCHANGED <<disk, mem, staged, target, sess, acked, doubt>>
  BY DEF DataRequest, Found, gcsFiles
<1>4. CASE end > Committed(LoadedSession)
  <2>1. /\ phase' = "stage" /\ piece' = Piece(LoadedSession, start, end)
        /\ work' = [LoadedSession EXCEPT !.cuts = Append(@, end + 1), !.told = @ \/ tells]
    BY <1>4 DEF DataRequest
  <2>2. work'.cuts = Append(LoadedSession.cuts, end + 1) /\ work'.live = LoadedSession.live
    BY <1>1, <2>1 DEF Record
  <2>3. piece'.from = Received(LoadedSession) /\ piece'.to = end + 1
    BY <1>1, <1>2, <2>1 DEF Piece
  <2>4. end + 1 > Received(LoadedSession)
    BY <1>1, <1>2, <1>4 DEF Committed
  <2> QED
    BY <1>1, <1>3, <2>1, <2>2, <2>3, <2>4
<1>5. CASE ~(end > Committed(LoadedSession))
  <2>1. phase' = "save" /\ work' = [LoadedSession EXCEPT !.told = @ \/ tells]
    BY <1>5 DEF DataRequest
  <2>2. work'.cuts = LoadedSession.cuts /\ work'.live = LoadedSession.live
    BY <1>1, <2>1 DEF Record
  <2> QED
    BY <1>1, <1>3, <2>1, <2>2
<1> QED
  BY <1>4, <1>5

-----------------------------------------------------------------------------
\* Every step keeps the types.
LEMMA NextType == GcsTypeOK /\ [GcsNext]_gcsVars => GcsTypeOK'
<1> SUFFICES ASSUME GcsTypeOK, [GcsNext]_gcsVars PROVE GcsTypeOK'
  OBVIOUS
<1> USE GcsAssumption
<1>1. CASE UNCHANGED gcsVars
  BY <1>1 DEF gcsVars, GcsTypeOK
<1>2. CASE \E told \in BOOLEAN, out \in Results : Start(told, out)
  <2>1. PICK told \in BOOLEAN, out \in Results : Start(told, out)
    BY <1>2
  <2>2. errors' \in 0..MaxErrors
    BY <2>1 DEF Start, Outcome, GcsTypeOK
  <2>3. sess' \in [kind : Kind, size : Lengths, cond : {"none", "missing"}, known : BOOLEAN]
    BY <2>1 DEF Start, GcsTypeOK
  <2> DEFINE r == [cuts |-> << >>, told |-> told, live |-> TRUE]
  <2>4. r \in Record /\ Len(r.cuts) = 0
    BY DEF Record
  <2>5. /\ disk' \in {disk, r} /\ mem' \in {mem, r}
        /\ phase' = "idle" /\ goal' = "none" /\ reply' \in {"started", "error"}
    BY <2>1 DEF Start, Answer
  <2>6. UNCHANGED <<staged, decision, bucket, made, expired, target, store, work, piece, final,
                    acked, fate, cancelled, doubt, crashes>>
    BY <2>1 DEF Start, world, gcsHistory
  <2> HIDE DEF r
  <2> QED
    BY <2>2, <2>3, <2>4, <2>5, <2>6 DEF GcsTypeOK
<1>3. CASE Decided
  BY <1>3 DEF GcsTypeOK, Decided, Remove, gcsFiles, request, world, gcsHistory
<1>4. CASE Missing
  BY <1>4 DEF GcsTypeOK, Missing, Answer, gcsFiles, request, world, gcsHistory
<1>5. CASE Overdue
  BY <1>5 DEF GcsTypeOK, Overdue, Remove, gcsFiles, request, world, gcsHistory
<1>6. CASE StatusQuery
  <2>1. Received(LoadedSession) \in Nat
    BY ReceivedNat DEF LoadedSession, GcsTypeOK
  <2>2. /\ phase' = "idle" /\ goal' = "none" /\ reply' = "incomplete"
        /\ acked' \in Nat /\ fate' = "live" /\ final' \in BOOLEAN
    BY <1>6, <2>1 DEF StatusQuery, Answer
  <2>3. UNCHANGED <<disk, staged, decision, mem, bucket, made, expired, target, store, work, piece,
                    sess, cancelled, doubt, errors, crashes>>
    BY <1>6 DEF StatusQuery, gcsFiles, world
  <2> QED
    BY <2>2, <2>3 DEF GcsTypeOK
<1>7. CASE \E start, end \in Positions, tells \in BOOLEAN : DataRequest(start, end, tells)
  <2>1. PICK start, end \in Positions, tells \in BOOLEAN : DataRequest(start, end, tells)
    BY <1>7
  <2>2. LoadedSession \in Record /\ Len(LoadedSession.cuts) <= MaxChunks /\ Received(LoadedSession) \in Nat
    BY ReceivedNat DEF LoadedSession, GcsTypeOK
  <2>3. start \in Nat /\ end \in Nat /\ end + 1 \in Nat /\ start <= Received(LoadedSession)
    BY <2>1, PositionsNat DEF DataRequest, Sendable
  <2>4. Piece(LoadedSession, start, end) \in Chunk
    BY <2>2, <2>3 DEF Piece, Chunk
  <2>5. /\ [LoadedSession EXCEPT !.cuts = Append(@, end + 1), !.told = @ \/ tells] \in Record
        /\ Len(Append(LoadedSession.cuts, end + 1)) = Len(LoadedSession.cuts) + 1
        /\ [LoadedSession EXCEPT !.told = @ \/ tells] \in Record
    <3>1. LoadedSession \in [cuts : Seq(Nat), told : BOOLEAN, live : BOOLEAN]
      BY <2>2 DEF Record
    <3>2. /\ Append(LoadedSession.cuts, end + 1) \in Seq(Nat)
          /\ Len(Append(LoadedSession.cuts, end + 1)) = Len(LoadedSession.cuts) + 1
      BY <2>3, <3>1
    <3>3. (LoadedSession.told \/ tells) \in BOOLEAN
      OBVIOUS
    <3> QED
      BY <3>1, <3>2, <3>3 DEF Record
  <2>6. /\ work' \in Record /\ piece' \in Chunk /\ phase' \in {"stage", "save"}
        /\ Len(work'.cuts) <= MaxChunks
    <3>1. CASE end > Committed(LoadedSession)
      <4>1. /\ work' = [LoadedSession EXCEPT !.cuts = Append(@, end + 1), !.told = @ \/ tells]
            /\ piece' = Piece(LoadedSession, start, end) /\ phase' = "stage"
            /\ Len(LoadedSession.cuts) < MaxChunks
        BY <2>1, <3>1 DEF DataRequest
      <4>2. work'.cuts = Append(LoadedSession.cuts, end + 1)
        BY <2>2, <4>1 DEF Record
      <4> QED
        BY <2>2, <2>4, <2>5, <4>1, <4>2 DEF Record
    <3>2. CASE ~(end > Committed(LoadedSession))
      BY <2>1, <2>2, <2>5, <3>2 DEF DataRequest, Record, GcsTypeOK
    <3> QED
      BY <3>1, <3>2
  <2>7. final' \in BOOLEAN /\ goal' = "none" /\ fate' = "live"
    BY <2>1 DEF DataRequest
  <2>8. UNCHANGED <<disk, staged, decision, mem, bucket, made, expired, target, store, sess, reply,
                    acked, cancelled, doubt, errors, crashes>>
    BY <2>1 DEF DataRequest, gcsFiles, world
  <2> QED
    BY <2>6, <2>7, <2>8 DEF GcsTypeOK
<1>8. CASE \E out \in Results : StageChunk(out)
  <2>1. PICK out \in Results : StageChunk(out)
    BY <1>8
  <2>2. errors' \in 0..MaxErrors
    BY <2>1 DEF StageChunk, Outcome, GcsTypeOK
  <2>3. staged' \in [1..MaxChunks -> Chunk] /\ piece' \in Chunk
    BY <2>1 DEF StageChunk, GcsTypeOK, NoChunk, Chunk
  <2>4. /\ phase' \in {"save", "idle"} /\ goal' = "none"
        /\ reply' \in {reply, "error"}
    BY <2>1 DEF StageChunk, Answer, GcsTypeOK
  <2>5. UNCHANGED <<disk, mem, decision, bucket, made, expired, target, store, work, final, sess,
                    acked, fate, cancelled, doubt, crashes>>
    BY <2>1 DEF StageChunk, world, gcsHistory
  <2> QED
    BY <2>2, <2>3, <2>4, <2>5 DEF GcsTypeOK
<1>9. CASE \E out \in Results : SaveSession(out)
  <2>1. PICK out \in Results : SaveSession(out)
    BY <1>9
  <2>2. errors' \in 0..MaxErrors
    BY <2>1 DEF SaveSession, Outcome, GcsTypeOK
  <2>3. acked' \in Nat
    BY <2>1, ReceivedNat DEF SaveSession, GcsTypeOK
  <2>4. /\ disk' \in {disk, work} /\ mem' \in {mem, work} /\ doubt' \in BOOLEAN
        /\ phase' \in {"finish", "idle"} /\ goal' = "none" /\ reply' \in {reply, "incomplete", "error"}
    BY <2>1 DEF SaveSession, Answer, GcsTypeOK
  <2>5. UNCHANGED <<staged, decision, bucket, made, expired, target, store, work, piece, final,
                    sess, fate, cancelled, crashes>>
    BY <2>1 DEF SaveSession, world
  <2> QED
    BY <2>2, <2>3, <2>4, <2>5 DEF GcsTypeOK
<1>10. CASE RefuseFinal
  BY <1>10 DEF GcsTypeOK, RefuseFinal, Answer, gcsFiles, request, world, gcsHistory
<1>11. CASE \E out \in Results : Publish(out)
  <2>1. PICK out \in Results : Publish(out)
    BY <1>11
  <2>2. errors' \in 0..MaxErrors
    BY <2>1 DEF Publish, Outcome, GcsTypeOK
  <2>3. [i \in Items(work) |-> staged[i]] \in Seq(Chunk)
    BY DEF GcsTypeOK, Items, Record
  <2>4. target' \in [by : {"nobody", "other", "session"}, bytes : Seq(Chunk)]
    BY <2>1, <2>3 DEF Publish, GcsTypeOK
  <2>5. /\ \/ phase' = "forget" /\ goal' = "completed" /\ reply' = reply
           \/ phase' = "idle" /\ goal' = "none" /\ reply' = "error"
        /\ fate' \in {fate, "ending"}
    BY <2>1 DEF Publish, Answer, Remove
  <2>6. UNCHANGED <<disk, staged, decision, mem, bucket, made, expired, store, work, piece, final,
                    sess, acked, cancelled, doubt, crashes>>
    BY <2>1 DEF Publish, gcsFiles, world
  <2> QED
    BY <2>2, <2>4, <2>5, <2>6 DEF GcsTypeOK
<1>12. CASE Impossible
  BY <1>12 DEF GcsTypeOK, Impossible, Answer, Found, gcsFiles, request, world, gcsHistory
<1>13. CASE \E out \in Results : CancelXml(out)
  BY <1>13 DEF GcsTypeOK, CancelXml, Outcome, Answer, Remove, Found, Results, gcsFiles, request, world, gcsHistory
<1>14. CASE CancelOther
  BY <1>14 DEF GcsTypeOK, CancelOther, Remove, Found, gcsFiles, request, world, gcsHistory
<1>15. CASE \E out \in Results : Forget(out)
  <2>1. PICK out \in Results : Forget(out)
    BY <1>15
  <2>2. errors' \in 0..MaxErrors
    BY <2>1 DEF Forget, Outcome, GcsTypeOK
  <2>3. NoSession \in Record /\ Len(NoSession.cuts) = 0
    BY DEF NoSession, Record
  <2>4. /\ disk' \in {disk, NoSession} /\ mem' = NoSession
        /\ \/ phase' = "unstage" /\ goal' = goal /\ reply' = reply
           \/ phase' = "idle" /\ goal' = "none" /\ reply' = "error"
    BY <2>1 DEF Forget, Answer
  <2>5. goal # "none"
    BY <2>1 DEF Forget, GcsTypeOK
  <2>6. UNCHANGED <<staged, decision, bucket, made, expired, target, store, work, piece, final,
                    sess, acked, fate, cancelled, doubt, crashes>>
    BY <2>1 DEF Forget, world, gcsHistory
  <2> QED
    BY <2>2, <2>3, <2>4, <2>5, <2>6 DEF GcsTypeOK
<1>16. CASE \E i \in 1..MaxChunks, out \in Results : Unstage(i, out)
  <2>1. PICK i \in 1..MaxChunks, out \in Results : Unstage(i, out)
    BY <1>16
  <2>2. errors' \in 0..MaxErrors
    BY <2>1 DEF Unstage, Outcome, GcsTypeOK
  <2>3. NoChunk \in Chunk
    BY DEF NoChunk, Chunk
  <2>4. staged' \in [1..MaxChunks -> Chunk]
    BY <2>1, <2>3 DEF Unstage, GcsTypeOK
  <2>5. \/ UNCHANGED <<phase, goal, reply>>
        \/ phase' = "idle" /\ goal' = "none" /\ reply' = "error"
    BY <2>1 DEF Unstage, Answer
  <2>6. UNCHANGED <<disk, mem, decision, bucket, made, expired, target, store, work, piece, final,
                    sess, acked, fate, cancelled, doubt, crashes>>
    BY <2>1 DEF Unstage, world, gcsHistory
  <2> QED
    BY <2>2, <2>4, <2>5, <2>6 DEF GcsTypeOK
<1>17. CASE RemovedSession
  BY <1>17 DEF GcsTypeOK, RemovedSession, Answer, Binding, gcsFiles, request, world, gcsHistory
<1>18. CASE \E out \in Results : DropDecision(out)
  BY <1>18 DEF GcsTypeOK, DropDecision, Outcome, Answer, Results, gcsFiles, request, world, gcsHistory
<1>19. CASE Crash
  BY <1>19 DEF GcsTypeOK, Crash, gcsFiles, request, world, gcsHistory, NoSession, Record
<1>20. CASE GcsRestart
  BY <1>20 DEF GcsTypeOK, GcsRestart, gcsFiles, request, world, gcsHistory
<1>21. CASE Expire
  BY <1>21 DEF Expire, GcsTypeOK, gcsFiles, request, gcsHistory
<1>22. CASE \E o \in {"put", "delete"} : OtherWrite(o)
  BY <1>22 DEF GcsTypeOK, OtherWrite, Nothing, gcsFiles, request, world, gcsHistory
<1>23. CASE DeleteBucket
  BY <1>23 DEF GcsTypeOK, DeleteBucket, gcsFiles, request, world, gcsHistory
<1>24. CASE CreateBucket
  BY <1>24 DEF GcsTypeOK, CreateBucket, gcsFiles, request, world, gcsHistory
<1> QED
  BY <1>1, <1>2, <1>3, <1>4, <1>5, <1>6, <1>7, <1>8, <1>9, <1>10, <1>11, <1>12, <1>13, <1>14, <1>15, <1>16,
     <1>17, <1>18, <1>19, <1>20, <1>21, <1>22, <1>23, <1>24 DEF GcsNext, Request, Effect, Around

\* Every step keeps the invariant.
LEMMA NextInv == IInv /\ [GcsNext]_gcsVars => IInv'
<1> SUFFICES ASSUME IInv, [GcsNext]_gcsVars PROVE IInv'
  OBVIOUS
<1>t. GcsTypeOK /\ GcsTypeOK'
  BY NextType DEF IInv
<1> USE GcsAssumption
<1>1. CASE UNCHANGED gcsVars
  BY <1>1, <1>t DEF IInv, gcsVars, gcsFiles, request, world, gcsHistory, RemovalOK, Dead, Upload, Removal, DecisionOK,
     CancelRemembered, AckedOK, Kept, ExactOK, Matches
<1>2. CASE \E told \in BOOLEAN, out \in Results : Start(told, out)
  <2>1. RemovalOK'
    BY <1>2, <1>t DEF IInv, GcsTypeOK, RemovalOK, Dead, Upload, Removal, Start, Outcome, Answer, Results, gcsFiles,
       request, world, gcsHistory
  <2>2. DecisionOK'
    BY <1>2, <1>t DEF IInv, GcsTypeOK, DecisionOK, CancelRemembered, Dead, Upload, Removal, Start, Outcome,
       Answer, Results, gcsFiles, request, world, gcsHistory
  <2>3. AckedOK'
    <3>1. PICK told \in BOOLEAN, out \in Results : Start(told, out)
      BY <1>2
    <3> DEFINE r == [cuts |-> << >>, told |-> told, live |-> TRUE]
    <3>2. r.live /\ Received(r) = 0 /\ Items(r) = {}
      BY DEF Received, Begins, Items
    <3>3. /\ phase = "start" /\ phase' = "idle" /\ sess'.size = sess.size
          /\ disk' \in {disk, r} /\ (mem' = mem \/ (mem' = r /\ disk' = r))
          /\ sess'.known => disk' = r
          /\ UNCHANGED <<staged, acked, fate, target, doubt>>
      BY <3>1, <1>t DEF Start, Answer, GcsTypeOK, gcsHistory
    <3>4. ~disk.live /\ ~mem.live /\ acked = 0
      BY <3>3 DEF IInv, RemovalOK, Dead
    <3> HIDE DEF r
    <3> QED
      BY <3>2, <3>3, <3>4 DEF AckedOK, Kept
  <2>4. ExactOK'
    <3>1. PICK told \in BOOLEAN, out \in Results : Start(told, out)
      BY <1>2
    <3> DEFINE r == [cuts |-> << >>, told |-> told, live |-> TRUE]
    <3>2. r.live /\ Received(r) = 0 /\ Items(r) = {}
      BY DEF Received, Begins, Items
    <3>3. /\ phase = "start" /\ phase' = "idle" /\ sess'.size = sess.size
          /\ disk' \in {disk, r} /\ (mem' = mem \/ (mem' = r /\ disk' = r))
          /\ sess'.known => disk' = r
          /\ UNCHANGED <<staged, acked, fate, target, doubt>>
      BY <3>1, <1>t DEF Start, Answer, GcsTypeOK, gcsHistory
    <3>4. ~disk.live /\ ~mem.live /\ acked = 0
      BY <3>3 DEF IInv, RemovalOK, Dead
    <3> HIDE DEF r
    <3> QED
      BY <3>2, <3>3, <3>4 DEF IInv, ExactOK, Matches
  <2> QED
    BY <1>t, <2>1, <2>2, <2>3, <2>4 DEF IInv
<1>3. CASE Decided
  <2>1. RemovalOK'
    BY <1>3, <1>t DEF IInv, GcsTypeOK, RemovalOK, Dead, Upload, Removal, DecisionOK, CancelRemembered, NoSession,
       NoChunk, Empty, Decided, Remove, Idle, gcsFiles, request, world, gcsHistory
  <2>2. DecisionOK'
    BY <1>3, <1>t DEF IInv, GcsTypeOK, DecisionOK, CancelRemembered, Dead, Upload, Removal, Decided, Remove, Idle,
       gcsFiles, request, world, gcsHistory
  <2>3. AckedOK'
    BY <1>3, <1>t DEF IInv, GcsTypeOK, AckedOK, Kept, Decided, Remove, Idle, gcsFiles, request, world, gcsHistory
  <2>4. ExactOK'
    BY <1>3, <1>t DEF IInv, GcsTypeOK, ExactOK, Matches, Decided, Remove, Idle, gcsFiles, request, world, gcsHistory
  <2> QED
    BY <1>t, <2>1, <2>2, <2>3, <2>4 DEF IInv
<1>4. CASE Missing
  <2>1. RemovalOK'
    BY <1>4, <1>t DEF IInv, GcsTypeOK, RemovalOK, Dead, Upload, Removal, Missing, Answer, Undecided, Idle, LoadedSession,
       gcsFiles, request, world, gcsHistory
  <2>2. DecisionOK'
    BY <1>4, <1>t DEF IInv, GcsTypeOK, DecisionOK, CancelRemembered, Dead, Upload, Removal, Missing, Answer,
       Undecided, Idle, LoadedSession, gcsFiles, request, world, gcsHistory
  <2>3. AckedOK'
    BY <1>4, <1>t DEF IInv, GcsTypeOK, AckedOK, Kept, Missing, Answer, Undecided, Idle, LoadedSession, gcsFiles, request,
       world, gcsHistory
  <2>4. ExactOK'
    BY <1>4, <1>t DEF IInv, GcsTypeOK, ExactOK, Matches, Missing, Answer, Undecided, Idle, LoadedSession, gcsFiles, request,
       world, gcsHistory
  <2> QED
    BY <1>t, <2>1, <2>2, <2>3, <2>4 DEF IInv
<1>5. CASE Overdue
  <2>1. RemovalOK'
    BY <1>5, <1>t DEF IInv, GcsTypeOK, RemovalOK, Dead, Upload, Removal, Overdue, Remove, Undecided, Idle, LoadedSession,
       gcsFiles, request, world, gcsHistory
  <2>2. DecisionOK'
    BY <1>5, <1>t DEF IInv, GcsTypeOK, DecisionOK, CancelRemembered, Dead, Upload, Removal, Overdue, Remove,
       Undecided, Idle, LoadedSession, gcsFiles, request, world, gcsHistory
  <2>3. AckedOK'
    BY <1>5, <1>t DEF IInv, GcsTypeOK, AckedOK, Kept, Overdue, Remove, Undecided, Idle, LoadedSession, gcsFiles, request,
       world, gcsHistory
  <2>4. ExactOK'
    BY <1>5, <1>t DEF IInv, GcsTypeOK, ExactOK, Matches, Overdue, Remove, Undecided, Idle, LoadedSession, gcsFiles, request,
       world, gcsHistory
  <2> QED
    BY <1>t, <2>1, <2>2, <2>3, <2>4 DEF IInv
<1>6. CASE StatusQuery
  <2>1. RemovalOK'
    BY <1>6, <1>t DEF IInv, GcsTypeOK, RemovalOK, Dead, Upload, Removal, StatusQuery, Found, Answer, Undecided,
       Idle, LoadedSession, gcsFiles, request, world, gcsHistory
  <2>2. DecisionOK'
    BY <1>6, <1>t DEF IInv, GcsTypeOK, DecisionOK, CancelRemembered, Dead, Upload, Removal, StatusQuery, Found,
       Answer, Undecided, Idle, LoadedSession, gcsFiles, request, world, gcsHistory
  <2>3. AckedOK'
    BY <1>6, <1>t DEF IInv, GcsTypeOK, AckedOK, Kept, StatusQuery, Found, Answer, Undecided, Idle, LoadedSession, gcsFiles,
       request, world, gcsHistory
  <2>4. ExactOK'
    BY <1>6, <1>t DEF IInv, GcsTypeOK, ExactOK, Matches, StatusQuery, Found, Answer, Undecided, Idle, LoadedSession,
       gcsFiles, request, world, gcsHistory
  <2> QED
    BY <1>t, <2>1, <2>2, <2>3, <2>4 DEF IInv
<1>7. CASE \E start, end \in Positions, tells \in BOOLEAN : DataRequest(start, end, tells)
  <2>1. RemovalOK'
    BY <1>7, <1>t, SMTT(40) DEF IInv, GcsTypeOK, RemovalOK, Dead, Upload, Removal, DataRequest, Sendable,
       Found, Undecided, Idle, LoadedSession, Piece, Committed, gcsFiles, request, world, gcsHistory
  <2>2. DecisionOK'
    BY <1>7, <1>t, SMTT(40) DEF IInv, GcsTypeOK, DecisionOK, CancelRemembered, Dead, Upload, Removal, DataRequest, Sendable,
       Found, Undecided, Idle, LoadedSession, Piece, Committed, gcsFiles, request, world, gcsHistory
  <2>3. AckedOK'
    <3>1. PICK start, end \in Positions, tells \in BOOLEAN : DataRequest(start, end, tells)
      BY <1>7
    <3>2. /\ LoadedSession \in Record /\ LoadedSession.live /\ work' \in Record /\ work'.live
          /\ UNCHANGED <<disk, mem, staged, target, sess, acked, doubt>>
      BY <3>1, <1>t, DataFacts
    <3>3. /\ disk.live /\ Received(LoadedSession) >= acked /\ Kept(LoadedSession)
          /\ mem.live => LoadedSession = mem
      BY <3>2 DEF LoadedSession, IInv, AckedOK
    <3>4. acked \in Nat /\ Received(LoadedSession) \in Nat
      BY <3>2, <1>t, ReceivedNat DEF GcsTypeOK
    <3>5. CASE /\ phase' = "stage" /\ work'.cuts = Append(LoadedSession.cuts, piece'.to)
               /\ piece'.to > Received(LoadedSession)
      <4>1. piece'.to \in Nat
        BY <1>t DEF GcsTypeOK, Chunk
      <4>2. Received(work') = piece'.to /\ Len(work'.cuts) = Len(LoadedSession.cuts) + 1
        BY <3>2, <3>5, <4>1, Extended
      <4>3. Len(LoadedSession.cuts) \in Nat /\ Items(LoadedSession) = 1..(Len(work'.cuts) - 1)
        BY <3>2, <4>2 DEF Record, Items
      <4>4. /\ Len(work'.cuts) > 0 /\ piece'.to > 0
            /\ \A i \in 1..(Len(work'.cuts) - 1) : staged'[i] # NoChunk
            /\ Received(work') >= acked /\ Received(work') >= Received(LoadedSession)
        BY <3>2, <3>3, <3>4, <3>5, <4>1, <4>2, <4>3 DEF Kept
      <4> QED
        BY <3>2, <3>3, <3>5, <4>4 DEF IInv, AckedOK, Kept
    <3>6. CASE phase' = "save" /\ work'.cuts = LoadedSession.cuts
      <4>1. Received(work') = Received(LoadedSession) /\ Items(work') = Items(LoadedSession)
        BY <3>2, <3>6, SameCuts
      <4>2. Kept(work)' /\ Received(work') >= acked /\ Received(work') >= Received(LoadedSession)
        BY <3>2, <3>3, <3>4, <4>1 DEF Kept
      <4> QED
        BY <3>2, <3>3, <3>6, <4>2 DEF IInv, AckedOK, Kept
    <3> QED
      BY <3>1, <3>5, <3>6, <1>t, DataFacts
  <2>4. ExactOK'
    <3> SUFFICES ASSUME ~doubt'
                 PROVE  ExactOK'
      BY DEF ExactOK
    <3>1. PICK start, end \in Positions, tells \in BOOLEAN : DataRequest(start, end, tells)
      BY <1>7
    <3>2. /\ LoadedSession \in Record /\ LoadedSession.live /\ work' \in Record
          /\ UNCHANGED <<disk, mem, staged, target, sess, acked, doubt>>
      BY <3>1, <1>t, DataFacts
    <3>3. ~doubt /\ LoadedSession = disk /\ disk.live /\ Matches(disk)
      BY <3>2 DEF LoadedSession, IInv, ExactOK
    <3>4. CASE /\ phase' = "stage" /\ work'.cuts = Append(LoadedSession.cuts, piece'.to)
               /\ piece'.from = Received(LoadedSession)
      BY <3>2, <3>3, <3>4 DEF IInv, ExactOK, Matches
    <3>5. CASE phase' = "save" /\ work'.cuts = LoadedSession.cuts
      <4>1. Items(work') = Items(disk) /\ \A i \in Items(disk) : Begins(work', i) = Begins(disk, i)
        BY <3>2, <3>3, <3>5, SameCuts
      <4>2. Matches(work)'
        BY <3>2, <3>3, <3>5, <4>1 DEF Matches
      <4> QED
        BY <3>2, <3>3, <3>5, <4>2 DEF IInv, ExactOK, Matches
    <3> QED
      BY <3>1, <3>4, <3>5, <1>t, DataFacts
  <2> QED
    BY <1>t, <2>1, <2>2, <2>3, <2>4 DEF IInv
<1>8. CASE \E out \in Results : StageChunk(out)
  <2>1. RemovalOK'
    BY <1>8, <1>t DEF IInv, GcsTypeOK, RemovalOK, Dead, Upload, Removal, StageChunk, Outcome, Answer, Results,
       gcsFiles, request, world, gcsHistory
  <2>2. DecisionOK'
    BY <1>8, <1>t DEF IInv, GcsTypeOK, DecisionOK, CancelRemembered, Dead, Upload, Removal, StageChunk, Outcome,
       Answer, Results, gcsFiles, request, world, gcsHistory
  <2>3. AckedOK'
    <3>1. PICK out \in Results : StageChunk(out)
      BY <1>8
    <3>2. /\ phase = "stage" /\ UNCHANGED <<disk, mem, work, sess, acked, fate>>
          /\ staged' \in {staged, [staged EXCEPT ![Len(work.cuts)] = piece]}
          /\ \/ phase' = "idle"
             \/ phase' = "save" /\ staged' = [staged EXCEPT ![Len(work.cuts)] = piece]
      BY <3>1 DEF StageChunk, Answer, gcsHistory
    <3>3. /\ Len(work.cuts) \in 1..MaxChunks /\ piece # NoChunk
          /\ \A i \in 1..(Len(work.cuts) - 1) : staged[i] # NoChunk
      BY <3>2, <1>t, SMTT(40) DEF IInv, AckedOK, GcsTypeOK, Record, NoChunk
    <3>4. \A i \in 1..MaxChunks : staged[i] # NoChunk => staged'[i] # NoChunk
      BY <3>2, <3>3, <1>t DEF GcsTypeOK
    <3>5. /\ Items(disk) \subseteq 1..MaxChunks /\ Items(mem) \subseteq 1..MaxChunks
      BY <1>t, ItemsBound DEF GcsTypeOK
    <3>6. phase' = "save" => Kept(work)'
      <4>1. Items(work) = 1..Len(work.cuts) /\ Len(work.cuts) \in Nat
        BY <1>t, ItemsBound DEF GcsTypeOK
      <4>2. \A i \in Items(work) : i = Len(work.cuts) \/ i \in 1..(Len(work.cuts) - 1)
        BY <4>1
      <4>3. phase' = "save" => staged'[Len(work.cuts)] = piece
        BY <3>2, <3>3, <1>t DEF GcsTypeOK
      <4> QED
        BY <3>2, <3>3, <3>4, <4>1, <4>2, <4>3 DEF Kept
    <3> QED
      BY <3>2, <3>4, <3>5, <3>6 DEF IInv, AckedOK, Kept
  <2>4. ExactOK'
    <3> SUFFICES ASSUME ~doubt'
                 PROVE  ExactOK'
      BY DEF ExactOK
    <3>1. PICK out \in Results : StageChunk(out)
      BY <1>8
    <3>2. /\ phase = "stage" /\ UNCHANGED <<disk, mem, work, sess, target, doubt>>
          /\ staged' \in {staged, [staged EXCEPT ![Len(work.cuts)] = piece]}
          /\ \/ phase' = "idle"
             \/ phase' = "save" /\ staged' = [staged EXCEPT ![Len(work.cuts)] = piece]
      BY <3>1 DEF StageChunk, Answer, gcsHistory
    <3>3. /\ disk.live /\ Matches(disk) /\ work.cuts = Append(disk.cuts, piece.to)
          /\ piece.from = Received(disk) /\ disk \in Record /\ work \in Record
          /\ piece.to \in Nat /\ piece = [from |-> piece.from, to |-> piece.to]
      BY <3>2, <1>t DEF IInv, ExactOK, GcsTypeOK, Chunk
    <3>4. /\ Len(work.cuts) = Len(disk.cuts) + 1
          /\ \A i \in Items(disk) : work.cuts[i] = disk.cuts[i] /\ Begins(work, i) = Begins(disk, i)
          /\ work.cuts[Len(work.cuts)] = piece.to /\ Begins(work, Len(work.cuts)) = Received(disk)
      BY <3>3, Extended
    <3>5. /\ Len(disk.cuts) \in Nat /\ Items(disk) = 1..Len(disk.cuts)
          /\ Len(work.cuts) \in 1..MaxChunks /\ Items(work) = 1..Len(work.cuts)
      <4>1. Len(disk.cuts) <= MaxChunks /\ Len(work.cuts) <= MaxChunks
        BY <1>t DEF GcsTypeOK
      <4> QED
        BY <3>3, <3>4, <4>1, ItemsBound
    <3>6. \A i \in Items(disk) : staged'[i] = staged[i]
      <4>1. staged \in [1..MaxChunks -> Chunk]
        BY <1>t DEF GcsTypeOK
      <4>2. \A i \in Items(disk) : i \in 1..MaxChunks /\ i # Len(work.cuts)
        BY <3>4, <3>5
      <4> QED
        BY <3>2, <4>1, <4>2
    <3>7. Matches(disk)'
      BY <3>2, <3>3, <3>6 DEF Matches
    <3>8. ASSUME phase' = "save" PROVE Matches(work)'
      <4>1. staged'[Len(work.cuts)] = piece
        BY <3>2, <3>5, <3>8, <1>t DEF GcsTypeOK
      <4>2. \A i \in Items(work) : i \in Items(disk) \/ i = Len(work.cuts)
        BY <3>4, <3>5
      <4>3. ASSUME NEW i \in Items(work)
            PROVE  staged'[i] = [from |-> Begins(work, i), to |-> work.cuts[i]]
        <5>1. CASE i \in Items(disk)
          BY <5>1, <3>3, <3>4, <3>6 DEF Matches
        <5>2. CASE i = Len(work.cuts)
          BY <5>2, <3>3, <3>4, <4>1
        <5> QED
          BY <4>2, <5>1, <5>2
      <4> QED
        BY <3>2, <4>3 DEF Matches
    <3> QED
      BY <3>2, <3>7, <3>8 DEF IInv, ExactOK
  <2> QED
    BY <1>t, <2>1, <2>2, <2>3, <2>4 DEF IInv
<1>9. CASE \E out \in Results : SaveSession(out)
  <2>1. RemovalOK'
    BY <1>9, <1>t DEF IInv, GcsTypeOK, RemovalOK, Dead, Upload, Removal, SaveSession, Outcome, Answer, Results,
       gcsFiles, request, world, gcsHistory
  <2>2. DecisionOK'
    BY <1>9, <1>t DEF IInv, GcsTypeOK, DecisionOK, CancelRemembered, Dead, Upload, Removal, SaveSession, Outcome,
       Answer, Results, gcsFiles, request, world, gcsHistory
  <2>3. AckedOK'
    <3>1. PICK out \in Results : SaveSession(out)
      BY <1>9
    <3>2. /\ phase = "save" /\ phase' \in {"idle", "finish"} /\ UNCHANGED <<staged, work, sess, fate>>
          /\ \/ UNCHANGED <<disk, mem, acked>>
             \/ disk' = work /\ mem' = mem /\ acked' = acked
             \/ disk' = work /\ mem' = work /\ acked' \in {acked, Received(work)}
      BY <3>1 DEF SaveSession, Answer, Results
    <3>3. Kept(work) /\ work.live /\ Received(work) >= acked /\ Received(work) \in Nat
      BY <3>2, <1>t, ReceivedNat DEF IInv, AckedOK, GcsTypeOK
    <3> QED
      BY <3>2, <3>3 DEF IInv, AckedOK, Kept
  <2>4. ExactOK'
    <3> SUFFICES ASSUME ~doubt'
                 PROVE  ExactOK'
      BY DEF ExactOK
    <3>1. PICK out \in Results : SaveSession(out)
      BY <1>9
    <3>2. ~doubt /\ out # "late" /\ phase = "save"
      BY <3>1 DEF SaveSession
    <3>3. /\ UNCHANGED <<staged, work, sess, target>> /\ phase' \in {"idle", "finish"}
          /\ phase' = "finish" => Received(work) = sess.size
          /\ \/ UNCHANGED <<disk, mem>> /\ phase' = "idle"
             \/ disk' = work /\ mem' = work
      BY <3>1, <3>2 DEF SaveSession, Answer, Results
    <3>4. Matches(work)
      BY <3>2 DEF IInv, ExactOK
    <3> QED
      BY <3>2, <3>3, <3>4 DEF IInv, ExactOK, Matches
  <2> QED
    BY <1>t, <2>1, <2>2, <2>3, <2>4 DEF IInv
<1>10. CASE RefuseFinal
  <2>1. RemovalOK'
    BY <1>10, <1>t DEF IInv, GcsTypeOK, RemovalOK, Dead, Upload, Removal, RefuseFinal, Answer, gcsFiles, request,
       world, gcsHistory
  <2>2. DecisionOK'
    BY <1>10, <1>t DEF IInv, GcsTypeOK, DecisionOK, CancelRemembered, Dead, Upload, Removal, RefuseFinal, Answer,
       gcsFiles, request, world, gcsHistory
  <2>3. AckedOK'
    BY <1>10, <1>t DEF IInv, GcsTypeOK, AckedOK, Kept, RefuseFinal, Answer, gcsFiles, request, world, gcsHistory
  <2>4. ExactOK'
    BY <1>10, <1>t DEF IInv, GcsTypeOK, ExactOK, Matches, RefuseFinal, Answer, gcsFiles, request, world, gcsHistory
  <2> QED
    BY <1>t, <2>1, <2>2, <2>3, <2>4 DEF IInv
<1>11. CASE \E out \in Results : Publish(out)
  <2>1. RemovalOK'
    BY <1>11, <1>t DEF IInv, GcsTypeOK, RemovalOK, Dead, Upload, Removal, Publish, Outcome, Answer, Remove,
       Composable, Results, gcsFiles, request, world, gcsHistory
  <2>2. DecisionOK'
    BY <1>11, <1>t DEF IInv, GcsTypeOK, DecisionOK, CancelRemembered, Dead, Upload, Removal, Publish, Outcome,
       Answer, Remove, Composable, Results, gcsFiles, request, world, gcsHistory
  <2>3. AckedOK'
    BY <1>11, <1>t DEF IInv, GcsTypeOK, AckedOK, Kept, Publish, Outcome, Answer, Remove, Composable, Results,
       gcsFiles, request, world, gcsHistory
  <2>4. ExactOK'
    <3> SUFFICES ASSUME ~doubt'
                 PROVE  ExactOK'
      BY DEF ExactOK
    <3>1. PICK out \in Results : Publish(out)
      BY <1>11
    <3>2. /\ phase = "finish" /\ phase' \in {"idle", "forget"}
          /\ UNCHANGED <<disk, mem, staged, work, sess, doubt>>
          /\ \/ target' = target
             \/ target' = [by |-> "session", bytes |-> [i \in Items(work) |-> staged[i]]]
      BY <3>1 DEF Publish, Answer, Remove, gcsFiles
    <3>3. Matches(work) /\ Received(work) = sess.size
      BY <3>2 DEF IInv, ExactOK
    <3>4. Whole([i \in Items(work) |-> staged[i]], sess.size)
      BY <3>3, <1>t, WholeMatches
    <3> QED
      BY <3>2, <3>4 DEF IInv, ExactOK, Matches
  <2> QED
    BY <1>t, <2>1, <2>2, <2>3, <2>4 DEF IInv
<1>12. CASE Impossible
  <2>1. RemovalOK'
    BY <1>12, <1>t DEF IInv, GcsTypeOK, RemovalOK, Dead, Upload, Removal, Impossible, Answer, Found, Undecided,
       Idle, LoadedSession, gcsFiles, request, world, gcsHistory
  <2>2. DecisionOK'
    BY <1>12, <1>t DEF IInv, GcsTypeOK, DecisionOK, CancelRemembered, Dead, Upload, Removal, Impossible, Answer,
       Found, Undecided, Idle, LoadedSession, gcsFiles, request, world, gcsHistory
  <2>3. AckedOK'
    BY <1>12, <1>t DEF IInv, GcsTypeOK, AckedOK, Kept, Impossible, Answer, Found, Undecided, Idle, LoadedSession, gcsFiles,
       request, world, gcsHistory
  <2>4. ExactOK'
    BY <1>12, <1>t DEF IInv, GcsTypeOK, ExactOK, Matches, Impossible, Answer, Found, Undecided, Idle, LoadedSession,
       gcsFiles, request, world, gcsHistory
  <2> QED
    BY <1>t, <2>1, <2>2, <2>3, <2>4 DEF IInv
<1>13. CASE \E out \in Results : CancelXml(out)
  <2>1. RemovalOK'
    BY <1>13, <1>t DEF IInv, GcsTypeOK, RemovalOK, Dead, Upload, Removal, CancelXml, Outcome, Answer, Remove,
       Found, Undecided, Idle, LoadedSession, Results, gcsFiles, request, world, gcsHistory
  <2>2. DecisionOK'
    BY <1>13, <1>t DEF IInv, GcsTypeOK, DecisionOK, CancelRemembered, Dead, Upload, Removal, CancelXml, Outcome,
       Answer, Remove, Found, Undecided, Idle, LoadedSession, Results, gcsFiles, request, world, gcsHistory
  <2>3. AckedOK'
    BY <1>13, <1>t DEF IInv, GcsTypeOK, AckedOK, Kept, CancelXml, Outcome, Answer, Remove, Found, Undecided, Idle,
       LoadedSession, Results, gcsFiles, request, world, gcsHistory
  <2>4. ExactOK'
    BY <1>13, <1>t DEF IInv, GcsTypeOK, ExactOK, Matches, CancelXml, Outcome, Answer, Remove, Found, Undecided,
       Idle, LoadedSession, Results, gcsFiles, request, world, gcsHistory
  <2> QED
    BY <1>t, <2>1, <2>2, <2>3, <2>4 DEF IInv
<1>14. CASE CancelOther
  <2>1. RemovalOK'
    BY <1>14, <1>t DEF IInv, GcsTypeOK, RemovalOK, Dead, Upload, Removal, CancelOther, Remove, Found, Undecided,
       Idle, LoadedSession, gcsFiles, request, world, gcsHistory
  <2>2. DecisionOK'
    BY <1>14, <1>t DEF IInv, GcsTypeOK, DecisionOK, CancelRemembered, Dead, Upload, Removal, CancelOther, Remove,
       Found, Undecided, Idle, LoadedSession, gcsFiles, request, world, gcsHistory
  <2>3. AckedOK'
    BY <1>14, <1>t DEF IInv, GcsTypeOK, AckedOK, Kept, CancelOther, Remove, Found, Undecided, Idle, LoadedSession, gcsFiles,
       request, world, gcsHistory
  <2>4. ExactOK'
    BY <1>14, <1>t DEF IInv, GcsTypeOK, ExactOK, Matches, CancelOther, Remove, Found, Undecided, Idle, LoadedSession,
       gcsFiles, request, world, gcsHistory
  <2> QED
    BY <1>t, <2>1, <2>2, <2>3, <2>4 DEF IInv
<1>15. CASE \E out \in Results : Forget(out)
  <2>1. RemovalOK'
    BY <1>15, <1>t DEF IInv, GcsTypeOK, RemovalOK, Dead, Upload, Removal, NoSession, Forget, Outcome, Answer,
       Results, gcsFiles, request, world, gcsHistory
  <2>2. DecisionOK'
    BY <1>15, <1>t DEF IInv, GcsTypeOK, DecisionOK, CancelRemembered, Dead, Upload, Removal, RemovalOK, NoSession,
       Forget, Outcome, Answer, Results, gcsFiles, request, world, gcsHistory
  <2>3. AckedOK'
    BY <1>15, <1>t DEF IInv, GcsTypeOK, AckedOK, Kept, RemovalOK, NoSession, Dead, Upload, Removal, Forget,
       Outcome, Answer, Results, gcsFiles, request, world, gcsHistory
  <2>4. ExactOK'
    BY <1>15, <1>t DEF IInv, GcsTypeOK, ExactOK, Matches, RemovalOK, NoSession, Dead, Upload, Removal, Forget,
       Outcome, Answer, Results, gcsFiles, request, world, gcsHistory
  <2> QED
    BY <1>t, <2>1, <2>2, <2>3, <2>4 DEF IInv
<1>16. CASE \E i \in 1..MaxChunks, out \in Results : Unstage(i, out)
  <2>1. RemovalOK'
    BY <1>16, <1>t DEF IInv, GcsTypeOK, RemovalOK, Dead, Upload, Removal, DecisionOK, CancelRemembered, NoSession,
       NoChunk, Empty, Unstage, Outcome, Answer, Results, gcsFiles, request, world, gcsHistory
  <2>2. DecisionOK'
    BY <1>16, <1>t DEF IInv, GcsTypeOK, DecisionOK, CancelRemembered, Dead, Upload, Removal, Unstage, Outcome,
       Answer, Results, gcsFiles, request, world, gcsHistory
  <2>3. AckedOK'
    BY <1>16, <1>t DEF IInv, GcsTypeOK, AckedOK, Kept, RemovalOK, NoSession, Dead, Upload, Removal, Unstage,
       Outcome, Answer, Results, gcsFiles, request, world, gcsHistory
  <2>4. ExactOK'
    BY <1>16, <1>t DEF IInv, GcsTypeOK, ExactOK, Matches, RemovalOK, NoSession, Dead, Upload, Removal, Unstage,
       Outcome, Answer, Results, gcsFiles, request, world, gcsHistory
  <2> QED
    BY <1>t, <2>1, <2>2, <2>3, <2>4 DEF IInv
<1>17. CASE RemovedSession
  <2>1. RemovalOK'
    BY <1>17, <1>t DEF IInv, GcsTypeOK, RemovalOK, Dead, Upload, Removal, RemovedSession, Answer, Binding, gcsFiles,
       request, world, gcsHistory
  <2>2. DecisionOK'
    BY <1>17, <1>t DEF IInv, GcsTypeOK, DecisionOK, CancelRemembered, Dead, Upload, Removal, RemovalOK, NoSession,
       RemovedSession, Answer, Binding, gcsFiles, request, world, gcsHistory
  <2>3. AckedOK'
    BY <1>17, <1>t DEF IInv, GcsTypeOK, AckedOK, Kept, RemovedSession, Answer, Binding, gcsFiles, request, world, gcsHistory
  <2>4. ExactOK'
    BY <1>17, <1>t DEF IInv, GcsTypeOK, ExactOK, Matches, RemovedSession, Answer, Binding, gcsFiles, request, world, gcsHistory
  <2> QED
    BY <1>t, <2>1, <2>2, <2>3, <2>4 DEF IInv
<1>18. CASE \E out \in Results : DropDecision(out)
  <2>1. RemovalOK'
    BY <1>18, <1>t DEF IInv, GcsTypeOK, RemovalOK, Dead, Upload, Removal, DropDecision, Outcome, Answer, Results,
       gcsFiles, request, world, gcsHistory
  <2>2. DecisionOK'
    BY <1>18, <1>t DEF IInv, GcsTypeOK, DecisionOK, CancelRemembered, Dead, Upload, Removal, RemovalOK, NoSession,
       DropDecision, Outcome, Answer, Results, gcsFiles, request, world, gcsHistory
  <2>3. AckedOK'
    BY <1>18, <1>t DEF IInv, GcsTypeOK, AckedOK, Kept, DropDecision, Outcome, Answer, Results, gcsFiles, request,
       world, gcsHistory
  <2>4. ExactOK'
    BY <1>18, <1>t DEF IInv, GcsTypeOK, ExactOK, Matches, DropDecision, Outcome, Answer, Results, gcsFiles, request,
       world, gcsHistory
  <2> QED
    BY <1>t, <2>1, <2>2, <2>3, <2>4 DEF IInv
<1>19. CASE Crash
  <2>1. RemovalOK'
    BY <1>19, <1>t DEF IInv, GcsTypeOK, RemovalOK, Dead, Upload, Removal, NoSession, Crash, gcsFiles, request, world,
       gcsHistory
  <2>2. DecisionOK'
    BY <1>19, <1>t DEF IInv, GcsTypeOK, DecisionOK, CancelRemembered, Dead, Upload, Removal, RemovalOK, NoSession,
       Crash, gcsFiles, request, world, gcsHistory
  <2>3. AckedOK'
    BY <1>19, <1>t DEF IInv, GcsTypeOK, AckedOK, Kept, RemovalOK, NoSession, Dead, Upload, Removal, Crash, gcsFiles,
       request, world, gcsHistory
  <2>4. ExactOK'
    BY <1>19, <1>t DEF IInv, GcsTypeOK, ExactOK, Matches, RemovalOK, NoSession, Dead, Upload, Removal, Crash,
       gcsFiles, request, world, gcsHistory
  <2> QED
    BY <1>t, <2>1, <2>2, <2>3, <2>4 DEF IInv
<1>20. CASE GcsRestart
  <2>1. RemovalOK'
    BY <1>20, <1>t DEF IInv, GcsTypeOK, RemovalOK, Dead, Upload, Removal, DecisionOK, CancelRemembered, NoSession,
       NoChunk, Empty, GcsRestart, gcsFiles, request, world, gcsHistory
  <2>2. DecisionOK'
    BY <1>20, <1>t DEF IInv, GcsTypeOK, DecisionOK, CancelRemembered, Dead, Upload, Removal, GcsRestart, gcsFiles,
       request, world, gcsHistory
  <2>3. AckedOK'
    BY <1>20, <1>t DEF IInv, GcsTypeOK, AckedOK, Kept, GcsRestart, gcsFiles, request, world, gcsHistory
  <2>4. ExactOK'
    BY <1>20, <1>t DEF IInv, GcsTypeOK, ExactOK, Matches, GcsRestart, gcsFiles, request, world, gcsHistory
  <2> QED
    BY <1>t, <2>1, <2>2, <2>3, <2>4 DEF IInv
<1>21. CASE Expire
  <2>1. RemovalOK'
    BY <1>21, <1>t DEF IInv, GcsTypeOK, RemovalOK, Dead, Upload, Removal, Expire, gcsFiles, request, world, gcsHistory
  <2>2. DecisionOK'
    BY <1>21, <1>t DEF IInv, GcsTypeOK, DecisionOK, CancelRemembered, Dead, Upload, Removal, Expire, gcsFiles,
       request, world, gcsHistory
  <2>3. AckedOK'
    BY <1>21, <1>t DEF IInv, GcsTypeOK, AckedOK, Kept, Expire, gcsFiles, request, world, gcsHistory
  <2>4. ExactOK'
    BY <1>21, <1>t DEF IInv, GcsTypeOK, ExactOK, Matches, Expire, gcsFiles, request, world, gcsHistory
  <2> QED
    BY <1>t, <2>1, <2>2, <2>3, <2>4 DEF IInv
<1>22. CASE \E o \in {"put", "delete"} : OtherWrite(o)
  <2>1. RemovalOK'
    BY <1>22, <1>t DEF IInv, GcsTypeOK, RemovalOK, Dead, Upload, Removal, OtherWrite, Idle, Nothing, gcsFiles,
       request, world, gcsHistory
  <2>2. DecisionOK'
    BY <1>22, <1>t DEF IInv, GcsTypeOK, DecisionOK, CancelRemembered, Dead, Upload, Removal, OtherWrite, Idle,
       Nothing, gcsFiles, request, world, gcsHistory
  <2>3. AckedOK'
    BY <1>22, <1>t DEF IInv, GcsTypeOK, AckedOK, Kept, OtherWrite, Idle, Nothing, gcsFiles, request, world, gcsHistory
  <2>4. ExactOK'
    BY <1>22, <1>t DEF IInv, GcsTypeOK, ExactOK, Matches, OtherWrite, Idle, Nothing, gcsFiles, request, world, gcsHistory
  <2> QED
    BY <1>t, <2>1, <2>2, <2>3, <2>4 DEF IInv
<1>23. CASE DeleteBucket
  <2>1. RemovalOK'
    BY <1>23, <1>t DEF IInv, GcsTypeOK, RemovalOK, Dead, Upload, Removal, DeleteBucket, Idle, gcsFiles, request,
       world, gcsHistory
  <2>2. DecisionOK'
    BY <1>23, <1>t DEF IInv, GcsTypeOK, DecisionOK, CancelRemembered, Dead, Upload, Removal, DeleteBucket, Idle,
       gcsFiles, request, world, gcsHistory
  <2>3. AckedOK'
    BY <1>23, <1>t DEF IInv, GcsTypeOK, AckedOK, Kept, DeleteBucket, Idle, gcsFiles, request, world, gcsHistory
  <2>4. ExactOK'
    BY <1>23, <1>t DEF IInv, GcsTypeOK, ExactOK, Matches, DeleteBucket, Idle, gcsFiles, request, world, gcsHistory
  <2> QED
    BY <1>t, <2>1, <2>2, <2>3, <2>4 DEF IInv
<1>24. CASE CreateBucket
  <2>1. RemovalOK'
    BY <1>24, <1>t DEF IInv, GcsTypeOK, RemovalOK, Dead, Upload, Removal, CreateBucket, Idle, gcsFiles, request,
       world, gcsHistory
  <2>2. DecisionOK'
    BY <1>24, <1>t DEF IInv, GcsTypeOK, DecisionOK, CancelRemembered, Dead, Upload, Removal, CreateBucket, Idle,
       gcsFiles, request, world, gcsHistory
  <2>3. AckedOK'
    BY <1>24, <1>t DEF IInv, GcsTypeOK, AckedOK, Kept, CreateBucket, Idle, gcsFiles, request, world, gcsHistory
  <2>4. ExactOK'
    BY <1>24, <1>t DEF IInv, GcsTypeOK, ExactOK, Matches, CreateBucket, Idle, gcsFiles, request, world, gcsHistory
  <2> QED
    BY <1>t, <2>1, <2>2, <2>3, <2>4 DEF IInv
<1> QED
  BY <1>1, <1>2, <1>3, <1>4, <1>5, <1>6, <1>7, <1>8, <1>9, <1>10, <1>11, <1>12, <1>13, <1>14, <1>15, <1>16,
     <1>17, <1>18, <1>19, <1>20, <1>21, <1>22, <1>23, <1>24 DEF GcsNext, Request, Effect, Around

-----------------------------------------------------------------------------
\* The invariant holds before the initiation, and of a session of an older build.
LEMMA InitInv == GcsInit => IInv
<1> SUFFICES ASSUME GcsInit PROVE IInv
  OBVIOUS
<1> USE GcsAssumption
<1>1. PICK k \in Kind, n \in Lengths, c \in {"none", "missing"} :
        /\ sess = [kind |-> k, size |-> n, cond |-> c, known |-> k = "legacy"]
        /\ disk = [NoSession EXCEPT !.live = (k = "legacy")]
        /\ phase = IF k = "legacy" THEN "idle" ELSE "start"
  BY DEF GcsInit
<1>2. /\ disk \in Record /\ disk.cuts = << >> /\ (disk.live <=> k = "legacy")
      /\ NoSession \in Record /\ NoSession.cuts = << >> /\ ~NoSession.live
  <2>1. NoSession \in Record /\ NoSession.cuts = << >> /\ ~NoSession.live
    BY DEF NoSession, Record
  <2>2. CASE k = "legacy"
    <3>1. disk = [NoSession EXCEPT !.live = TRUE]
      BY <1>1, <2>2
    <3> QED
      BY <2>1, <2>2, <3>1 DEF Record
  <2>3. CASE k # "legacy"
    <3>1. disk = [NoSession EXCEPT !.live = FALSE]
      BY <1>1, <2>3
    <3> QED
      BY <2>1, <2>3, <3>1 DEF Record
  <2> QED
    BY <2>1, <2>2, <2>3
<1>3. Received(disk) = 0 /\ Items(disk) = {}
  BY <1>2 DEF Received, Begins, Items
<1>4. Empty \in [1..MaxChunks -> Chunk] /\ NoChunk \in Chunk
  BY DEF Empty, NoChunk, Chunk
<1>5. target \in [by : {"nobody", "other", "session"}, bytes : Seq(Chunk)] /\ target.by = "nobody"
  BY DEF GcsInit, Nothing
<1>6. sess \in [kind : Kind, size : Lengths, cond : {"none", "missing"}, known : BOOLEAN]
  BY <1>1
<1>7. GcsTypeOK
  <2>1. /\ mem \in Record /\ work \in Record /\ Len(disk.cuts) = 0
        /\ Len(mem.cuts) = 0 /\ Len(work.cuts) = 0
    BY <1>2 DEF GcsInit
  <2>2. phase \in {"start", "idle"} /\ goal = "none"
    BY <1>1 DEF GcsInit
  <2>3. /\ staged = Empty /\ piece = NoChunk /\ decision = 0 /\ bucket = 1 /\ made = 1
        /\ expired \in BOOLEAN /\ final \in BOOLEAN /\ doubt \in BOOLEAN /\ store = "up"
        /\ reply = "none" /\ acked = 0 /\ fate = "live" /\ cancelled = 0
        /\ errors = 0 /\ crashes = 0
    BY DEF GcsInit
  <2> QED
    BY <1>2, <1>4, <1>5, <1>6, <2>1, <2>2, <2>3 DEF GcsTypeOK
<1>8. RemovalOK /\ DecisionOK
  BY <1>1, <1>2 DEF GcsInit, RemovalOK, DecisionOK, CancelRemembered, Dead, Upload, Removal
<1>9. AckedOK /\ ExactOK
  BY <1>1, <1>2, <1>3, <1>5 DEF GcsInit, AckedOK, ExactOK, Kept, Matches
<1> QED
  BY <1>7, <1>8, <1>9 DEF IInv

\* The invariant holds in every reachable state.
THEOREM Invariance == GcsSpec => []IInv
<1>1. GcsInit => IInv
  BY InitInv
<1>2. IInv /\ [GcsNext]_gcsVars => IInv'
  BY NextInv
<1> QED
  BY <1>1, <1>2, PTL DEF GcsSpec

\* A published upload is the client's content, every position once and in order.
THEOREM ContentExact == GcsSpec => []Exact
<1>1. IInv => Exact
  BY DEF IInv, ExactOK, Exact
<1> QED
  BY <1>1, Invariance, PTL

\* What a 308 answer says is stored stays stored until the session ends.
THEOREM AcknowledgedBytesKept == GcsSpec => []AckedKept
<1>1. IInv => AckedKept
  BY DEF IInv, AckedOK, AckedKept, Kept
<1> QED
  BY <1>1, Invariance, PTL

\* An acknowledged completion or cancellation leaves neither record nor chunks.
THEOREM NothingLeft == GcsSpec => []Reclaimed
<1>1. IInv => Reclaimed
  BY DEF IInv, RemovalOK, Dead, Reclaimed
<1> QED
  BY <1>1, Invariance, PTL

\* A cancelled XML session is remembered until its deadline or its bucket's deletion.
THEOREM CancellationRemembered == GcsSpec => []CancelRemembered
<1>1. IInv => CancelRemembered
  BY DEF IInv, DecisionOK
<1> QED
  BY <1>1, Invariance, PTL

\* Once a cancellation is decided the session never publishes.
THEOREM CancellationFinal == GcsSpec => CancelFinal
<1>1. ASSUME IInv, IInv', [GcsNext]_gcsVars
      PROVE  [cancelled # 0 /\ target' # target => target'.by # "session"]_gcsVars
  <2> SUFFICES ASSUME GcsNext, cancelled # 0, target' # target
               PROVE  target'.by # "session"
    BY <1>1
  <2>1. ~(\E out \in Results : Publish(out))
    BY <1>1 DEF IInv, DecisionOK, Upload, Publish
  <2>2. \E o \in {"put", "delete"} : OtherWrite(o)
    BY <2>1 DEF GcsNext, Request, Effect, Around, Start, Decided, Missing, Overdue, StatusQuery,
       DataRequest, StageChunk, SaveSession, RefuseFinal, Impossible, CancelXml, CancelOther, Forget,
       Unstage, RemovedSession, DropDecision, Crash, GcsRestart, Expire, DeleteBucket, CreateBucket
  <2> QED
    BY <2>2 DEF OtherWrite, Nothing
<1> QED
  BY <1>1, Invariance, PTL DEF GcsSpec, CancelFinal

\* Every reachable state is well typed.
THEOREM TypeCorrect == GcsSpec => []GcsTypeOK
<1>1. IInv => GcsTypeOK
  BY DEF IInv
<1> QED
  BY <1>1, Invariance, PTL
=============================================================================
