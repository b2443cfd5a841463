---------------------------- MODULE CaptureProofs ----------------------------
(***************************************************************************)
(* The capture journal is atomic for any number of transactions,           *)
(* destinations, errors and crashes: recovery never removes a captured     *)
(* file, leaves nothing undecided behind, and listings see whole batches.  *)
(* An SMTP connection files what its client meant, for any commands,       *)
(* bodies, limits and store errors, over the fan-out that the journal      *)
(* makes atomic, and the mail and text adapters answer what became of the  *)
(* request.                                                                *)
(***************************************************************************)
EXTENDS Capture, MCIngress, FiniteSetTheorems, SequenceTheorems, WellFoundedInduction, TLAPS

Untouched(t) ==
    /\ t \notin dirs /\ t \notin committed /\ intent[t] = {}
    /\ \A p \in Path : file[p] # t /\ t \notin pend[p]

\* An identity is new until its directory is made, and a decided one keeps it.
FreshOK ==
    /\ \A t \in unused : Untouched(t)
    /\ committed \subseteq dirs

\* An undecided transaction shares its destinations with no other.
OwnOK == \A v \in Incomplete : \A p \in intent[v] : file[p] \in {NoTxn, v}

\* A capture that waits for recovery, or has passed it, but wrote nothing yet.
WaitOK ==
    /\ pc = "recover" => after # "fail"
    /\ pc \in {"check", "mkdir"} \/ (pc \in {"recover", "undo"} /\ after = "capture") =>
      /\ tx \in Txn \ unused /\ Untouched(tx)
      /\ left = batch
      /\ pc = "mkdir" => \A p \in batch : file[p] = NoTxn

\* The capture in flight is the only undecided transaction.
CaptureOK ==
    pc \in {"stage", "intend", "write", "rename", "mark"} =>
      /\ tx \in Txn \ unused
      /\ Incomplete = {tx}
      /\ intent[tx] = IF pc \in {"stage", "intend"} THEN {} ELSE batch
      /\ left \subseteq batch
      /\ pc = "mark" => left = {}
      /\ \A p \in left : file[p] = NoTxn
      /\ \A p \in batch \ left : file[p] = tx
      /\ \A p \in Path \ batch : file[p] # tx
      /\ \A p \in Path : tx \in pend[p] => pc = "rename" /\ p \in left
      /\ \A p, q \in Path : tx \in pend[p] /\ tx \in pend[q] => p = q

\* Recovery and rollback cover everything the undone transaction left.
UndoOK ==
    pc = "undo" =>
      /\ undoing \in Incomplete
      /\ intent[undoing] \subseteq scope
      /\ \A p \in scope : file[p] \in {NoTxn, undoing}
      /\ \A p \in Path \ scope : file[p] # undoing /\ undoing \notin pend[p]

\* Every file of a decided batch is in place unless it was deleted.
KeptOK ==
    \A t \in committed : \A p \in intent[t] : file[p] = t \/ <<p, t>> \in deleted

\* What the listing in progress has established.
ReaderOK ==
    /\ known \subseteq committed
    /\ got \subseteq Path \X known
    /\ rpc = "snapshot" => unseen = Members(listed)
    /\ rpc # "idle" =>
         \A t \in known : \A p \in (intent[t] \cap Members(listed)) \ unseen : <<p, t>> \in got \cup deleted

IInv ==
    /\ TypeOK /\ FreshOK /\ Recoverable /\ RecoveredClean
    /\ OwnOK /\ WaitOK /\ CaptureOK /\ UndoOK /\ KeptOK /\ ReaderOK

-----------------------------------------------------------------------------
\* The invariant holds in every initial state.
LEMMA InitInv == Init => IInv
<1> SUFFICES ASSUME Init PROVE IInv
  OBVIOUS
<1> USE CaptureAssumption DEF Init
<1>1. TypeOK
  BY DEF TypeOK, PCs
<1>2. FreshOK /\ Recoverable /\ RecoveredClean /\ OwnOK /\ WaitOK
  BY DEF FreshOK, Untouched, Recoverable, RecoveredClean, OwnOK, Incomplete, WaitOK
<1>3. CaptureOK /\ UndoOK /\ KeptOK /\ ReaderOK
  BY DEF CaptureOK, UndoOK, KeptOK, ReaderOK
<1> QED
  BY <1>1, <1>2, <1>3 DEF IInv

\* Every step keeps the types.
LEMMA NextType == IInv /\ [Next]_vars => TypeOK'
<1> SUFFICES ASSUME IInv, [Next]_vars PROVE TypeOK'
  OBVIOUS
<1>t. TypeOK
  BY DEF IInv
<1>w. pc \in {"mkdir", "stage", "intend", "write", "rename", "mark"} => tx \in Txn
  BY DEF IInv, WaitOK, CaptureOK
<1> USE CaptureAssumption DEF TypeOK, files, reader
<1>1. CASE UNCHANGED vars
  BY <1>t, <1>w, <1>1 DEF vars, writer
<1>2. CASE Requests
  BY <1>t, <1>w, <1>2 DEF Requests, Capture, BeginDelete, PCs
<1>3. CASE Reads
  BY <1>t, <1>w, <1>3 DEF Reads, ListBegin, SnapshotLate, SnapshotDone, ListEntry, ListDone, Members, writer
<1>4. CASE (\E v \in Txn : RecoverNext(v)) \/ RecoverDone \/ CheckDestinations \/ StageIntent \/ CommitDone
  BY <1>t, <1>w, <1>4 DEF RecoverNext, RecoverDone, CheckDestinations, StageIntent, CommitDone, PCs
<1>5. CASE (\E p \in Path : UndoFile(p)) \/ UndoIntent \/ UndoDirectory
  BY <1>t, <1>w, <1>5 DEF UndoFile, UndoIntent, UndoDirectory, writer, PCs
<1>6. CASE MakeDirectory \/ PublishIntent \/ MarkCommitted
  BY <1>t, <1>w, <1>6 DEF MakeDirectory, PublishIntent, MarkCommitted, PCs
<1>7. CASE \E p \in Path : WritePending(p) \/ PublishFile(p)
  <2>1. PICK p \in Path : WritePending(p) \/ PublishFile(p)
    BY <1>7
  <2> QED
    BY <1>t, <1>w, <2>1 DEF WritePending, PublishFile, PCs
<1>8. CASE (\E p \in Path : DeleteFile(p)) \/ DeleteDone
  <2>1. CASE DeleteDone
    BY <1>t, <2>1 DEF DeleteDone, PCs
  <2>2. ASSUME NEW p \in Path, DeleteFile(p) PROVE TypeOK'
    <3>1. file[p] # NoTxn => <<p, file[p]>> \in Path \X Txn
      BY <1>t
    <3> QED
      BY <1>t, <2>2, <3>1 DEF DeleteFile
  <2> QED
    BY <1>8, <2>1, <2>2
<1>9. CASE Fault \/ Crash \/ Open
  BY <1>t, <1>w, <1>9 DEF Fault, Crash, Open, PCs
<1> QED
  BY <1>1, <1>2, <1>3, <1>4, <1>5, <1>6, <1>7, <1>8, <1>9 DEF Next, Writes

\* Every step keeps the invariant: one case per action, one step per part it can disturb.
LEMMA NextInv == IInv /\ [Next]_vars => IInv'
<1> SUFFICES ASSUME IInv, [Next]_vars PROVE IInv'
  OBVIOUS
<1>t. TypeOK /\ TypeOK'
  BY NextType DEF IInv
<1> USE CaptureAssumption
<1>1. CASE UNCHANGED vars
  BY <1>1, <1>t DEF IInv, vars, files, writer, reader, Undone, Members, FreshOK, Untouched, Recoverable,
     Incomplete, RecoveredClean, OwnOK, WaitOK, CaptureOK, UndoOK, KeptOK, ReaderOK
<1>2. CASE \E v \in Txn : RecoverNext(v)
  <2>1. FreshOK'
    BY <1>2, <1>t DEF IInv, TypeOK, FreshOK, Untouched, RecoverNext, files, reader
  <2>2. Recoverable'
    BY <1>2, <1>t DEF IInv, TypeOK, Recoverable, Incomplete, RecoverNext, files, reader
  <2>3. RecoveredClean'
    BY <1>2, <1>t DEF IInv, TypeOK, RecoveredClean, Incomplete, RecoverNext, files, reader
  <2>4. OwnOK'
    BY <1>2, <1>t DEF IInv, TypeOK, OwnOK, Incomplete, RecoverNext, files, reader
  <2>5. WaitOK'
    BY <1>2, <1>t DEF IInv, TypeOK, WaitOK, Untouched, RecoverNext, files, reader
  <2>6. CaptureOK'
    BY <1>2, <1>t DEF IInv, TypeOK, CaptureOK, Incomplete, RecoverNext, files, reader
  <2>7. UndoOK'
    BY <1>2, <1>t DEF IInv, TypeOK, UndoOK, Incomplete, FreshOK, Untouched, CaptureOK, Recoverable, OwnOK,
       WaitOK, RecoverNext, files, reader
  <2>8. KeptOK'
    BY <1>2, <1>t DEF IInv, TypeOK, KeptOK, RecoverNext, files, reader
  <2>9. ReaderOK'
    BY <1>2, <1>t DEF IInv, TypeOK, ReaderOK, Members, RecoverNext, files, reader
  <2> QED
    BY <1>t, <2>1, <2>2, <2>3, <2>4, <2>5, <2>6, <2>7, <2>8, <2>9 DEF IInv
<1>3. CASE RecoverDone
  <2>1. FreshOK'
    BY <1>3, <1>t DEF IInv, TypeOK, FreshOK, Untouched, RecoverDone, files, reader
  <2>2. Recoverable'
    BY <1>3, <1>t DEF IInv, TypeOK, Recoverable, Incomplete, RecoverDone, files, reader
  <2>3. RecoveredClean'
    BY <1>3, <1>t DEF IInv, TypeOK, RecoveredClean, Incomplete, FreshOK, Untouched, CaptureOK, UndoOK,
       Recoverable, OwnOK, WaitOK, RecoverDone, files, reader
  <2>4. OwnOK'
    BY <1>3, <1>t DEF IInv, TypeOK, OwnOK, Incomplete, RecoverDone, files, reader
  <2>5. WaitOK'
    BY <1>3, <1>t DEF IInv, TypeOK, WaitOK, Untouched, FreshOK, Recoverable, RecoveredClean, Incomplete, OwnOK,
       CaptureOK, UndoOK, KeptOK, ReaderOK, RecoverDone, files, reader
  <2>6. CaptureOK'
    BY <1>3, <1>t DEF IInv, TypeOK, CaptureOK, Incomplete, RecoverDone, files, reader
  <2>7. UndoOK'
    BY <1>3, <1>t DEF IInv, TypeOK, UndoOK, Incomplete, RecoverDone, files, reader
  <2>8. KeptOK'
    BY <1>3, <1>t DEF IInv, TypeOK, KeptOK, RecoverDone, files, reader
  <2>9. ReaderOK'
    BY <1>3, <1>t DEF IInv, TypeOK, ReaderOK, Members, RecoverDone, files, reader
  <2> QED
    BY <1>t, <2>1, <2>2, <2>3, <2>4, <2>5, <2>6, <2>7, <2>8, <2>9 DEF IInv
<1>4. CASE \E p \in Path : UndoFile(p)
  <2>1. FreshOK'
    BY <1>4, <1>t DEF IInv, TypeOK, FreshOK, Untouched, UndoFile, writer, files, reader
  <2>2. Recoverable'
    BY <1>4, <1>t DEF IInv, TypeOK, Recoverable, Incomplete, UndoFile, writer, files, reader
  <2>3. RecoveredClean'
    BY <1>4, <1>t DEF IInv, TypeOK, RecoveredClean, Incomplete, UndoFile, writer, files, reader
  <2>4. OwnOK'
    BY <1>4, <1>t DEF IInv, TypeOK, OwnOK, Incomplete, UndoFile, writer, files, reader
  <2>5. WaitOK'
    BY <1>4, <1>t DEF IInv, TypeOK, WaitOK, Untouched, UndoFile, writer, files, reader
  <2>6. CaptureOK'
    BY <1>4, <1>t DEF IInv, TypeOK, CaptureOK, Incomplete, UndoFile, writer, files, reader
  <2>7. UndoOK'
    BY <1>4, <1>t DEF IInv, TypeOK, UndoOK, Incomplete, UndoFile, writer, files, reader
  <2>8. KeptOK'
    <3>1. PICK p \in Path : UndoFile(p)
      BY <1>4
    <3>2. p \in scope /\ pc = "undo" /\ intent' = intent /\ committed' = committed /\ deleted' = deleted
      BY <3>1 DEF UndoFile
    <3>3. \A q \in Path : file'[q] = file[q] \/ (q = p /\ file[p] # NoTxn)
      BY <3>1, <1>t DEF UndoFile, TypeOK
    <3>4. file[p] \in {NoTxn, undoing} /\ undoing \notin committed
      BY <3>2 DEF IInv, UndoOK, Incomplete
    <3>5. ASSUME NEW t \in committed, NEW q \in intent[t] PROVE file'[q] = t \/ <<q, t>> \in deleted
      <4>1. q \in Path /\ t \in Txn
        BY <1>t DEF TypeOK
      <4>2. file[q] = t \/ <<q, t>> \in deleted
        BY DEF IInv, KeptOK
      <4> QED
        BY <3>3, <3>4, <4>1, <4>2
    <3> QED
      BY <3>2, <3>5 DEF KeptOK
  <2>9. ReaderOK'
    BY <1>4, <1>t DEF IInv, TypeOK, ReaderOK, Members, UndoFile, writer, files, reader
  <2> QED
    BY <1>t, <2>1, <2>2, <2>3, <2>4, <2>5, <2>6, <2>7, <2>8, <2>9 DEF IInv
<1>5. CASE UndoIntent
  <2>1. FreshOK'
    BY <1>5, <1>t DEF IInv, TypeOK, FreshOK, Untouched, UndoIntent, Undone, writer, files, reader
  <2>2. Recoverable'
    BY <1>5, <1>t DEF IInv, TypeOK, Recoverable, Incomplete, FreshOK, Untouched, CaptureOK, UndoOK, UndoIntent,
       Undone, writer, files, reader
  <2>3. RecoveredClean'
    BY <1>5, <1>t DEF IInv, TypeOK, RecoveredClean, Incomplete, UndoIntent, Undone, writer, files, reader
  <2>4. OwnOK'
    BY <1>5, <1>t DEF IInv, TypeOK, OwnOK, Incomplete, UndoIntent, Undone, writer, files, reader
  <2>5. WaitOK'
    BY <1>5, <1>t DEF IInv, TypeOK, WaitOK, Untouched, UndoIntent, Undone, writer, files, reader
  <2>6. CaptureOK'
    BY <1>5, <1>t DEF IInv, TypeOK, CaptureOK, Incomplete, UndoIntent, Undone, writer, files, reader
  <2>7. UndoOK'
    BY <1>5, <1>t DEF IInv, TypeOK, UndoOK, Incomplete, UndoIntent, Undone, writer, files, reader
  <2>8. KeptOK'
    BY <1>5, <1>t DEF IInv, TypeOK, KeptOK, UndoIntent, Undone, writer, files, reader
  <2>9. ReaderOK'
    BY <1>5, <1>t DEF IInv, TypeOK, ReaderOK, Members, UndoIntent, Undone, writer, files, reader
  <2> QED
    BY <1>t, <2>1, <2>2, <2>3, <2>4, <2>5, <2>6, <2>7, <2>8, <2>9 DEF IInv
<1>6. CASE UndoDirectory
  <2>1. FreshOK'
    BY <1>6, <1>t DEF IInv, TypeOK, FreshOK, Untouched, CaptureOK, UndoOK, Incomplete, UndoDirectory, Undone,
       files, reader
  <2>2. Recoverable'
    BY <1>6, <1>t DEF IInv, TypeOK, Recoverable, Incomplete, UndoDirectory, Undone, files, reader
  <2>3. RecoveredClean'
    BY <1>6, <1>t DEF IInv, TypeOK, RecoveredClean, Incomplete, UndoDirectory, Undone, files, reader
  <2>4. OwnOK'
    BY <1>6, <1>t DEF IInv, TypeOK, OwnOK, Incomplete, UndoDirectory, Undone, files, reader
  <2>5. WaitOK'
    BY <1>6, <1>t DEF IInv, TypeOK, WaitOK, Untouched, UndoDirectory, Undone, files, reader
  <2>6. CaptureOK'
    BY <1>6, <1>t DEF IInv, TypeOK, CaptureOK, Incomplete, UndoDirectory, Undone, files, reader
  <2>7. UndoOK'
    BY <1>6, <1>t DEF IInv, TypeOK, UndoOK, Incomplete, UndoDirectory, Undone, files, reader
  <2>8. KeptOK'
    BY <1>6, <1>t DEF IInv, TypeOK, KeptOK, UndoDirectory, Undone, files, reader
  <2>9. ReaderOK'
    BY <1>6, <1>t DEF IInv, TypeOK, ReaderOK, Members, UndoDirectory, Undone, files, reader
  <2> QED
    BY <1>t, <2>1, <2>2, <2>3, <2>4, <2>5, <2>6, <2>7, <2>8, <2>9 DEF IInv
<1>7. CASE \E t \in Txn, b \in SUBSET Path : Capture(t, b)
  <2>1. FreshOK'
    BY <1>7, <1>t DEF IInv, TypeOK, FreshOK, Untouched, Capture, files, reader
  <2>2. Recoverable'
    BY <1>7, <1>t DEF IInv, TypeOK, Recoverable, Incomplete, Capture, files, reader
  <2>3. RecoveredClean'
    BY <1>7, <1>t DEF IInv, TypeOK, RecoveredClean, Incomplete, Capture, files, reader
  <2>4. OwnOK'
    BY <1>7, <1>t DEF IInv, TypeOK, OwnOK, Incomplete, Capture, files, reader
  <2>5. WaitOK'
    BY <1>7, <1>t DEF IInv, TypeOK, WaitOK, Untouched, FreshOK, CaptureOK, UndoOK, Incomplete, Capture, files,
       reader
  <2>6. CaptureOK'
    BY <1>7, <1>t DEF IInv, TypeOK, CaptureOK, Incomplete, Capture, files, reader
  <2>7. UndoOK'
    BY <1>7, <1>t DEF IInv, TypeOK, UndoOK, Incomplete, Capture, files, reader
  <2>8. KeptOK'
    BY <1>7, <1>t DEF IInv, TypeOK, KeptOK, Capture, files, reader
  <2>9. ReaderOK'
    BY <1>7, <1>t DEF IInv, TypeOK, ReaderOK, Members, Capture, files, reader
  <2> QED
    BY <1>t, <2>1, <2>2, <2>3, <2>4, <2>5, <2>6, <2>7, <2>8, <2>9 DEF IInv
<1>8. CASE CheckDestinations
  <2>1. FreshOK'
    BY <1>8, <1>t DEF IInv, TypeOK, FreshOK, Untouched, CheckDestinations, files, reader
  <2>2. Recoverable'
    BY <1>8, <1>t DEF IInv, TypeOK, Recoverable, Incomplete, CheckDestinations, files, reader
  <2>3. RecoveredClean'
    BY <1>8, <1>t DEF IInv, TypeOK, RecoveredClean, Incomplete, CheckDestinations, files, reader
  <2>4. OwnOK'
    BY <1>8, <1>t DEF IInv, TypeOK, OwnOK, Incomplete, CheckDestinations, files, reader
  <2>5. WaitOK'
    BY <1>8, <1>t DEF IInv, TypeOK, WaitOK, Untouched, CheckDestinations, files, reader
  <2>6. CaptureOK'
    BY <1>8, <1>t DEF IInv, TypeOK, CaptureOK, Incomplete, CheckDestinations, files, reader
  <2>7. UndoOK'
    BY <1>8, <1>t DEF IInv, TypeOK, UndoOK, Incomplete, CheckDestinations, files, reader
  <2>8. KeptOK'
    BY <1>8, <1>t DEF IInv, TypeOK, KeptOK, CheckDestinations, files, reader
  <2>9. ReaderOK'
    BY <1>8, <1>t DEF IInv, TypeOK, ReaderOK, Members, CheckDestinations, files, reader
  <2> QED
    BY <1>t, <2>1, <2>2, <2>3, <2>4, <2>5, <2>6, <2>7, <2>8, <2>9 DEF IInv
<1>9. CASE MakeDirectory
  <2>1. FreshOK'
    BY <1>9, <1>t DEF IInv, TypeOK, FreshOK, Untouched, CaptureOK, UndoOK, Incomplete, Recoverable, OwnOK,
       WaitOK, MakeDirectory, files, reader
  <2>2. Recoverable'
    BY <1>9, <1>t DEF IInv, TypeOK, Recoverable, Incomplete, MakeDirectory, files, reader
  <2>3. RecoveredClean'
    BY <1>9, <1>t DEF IInv, TypeOK, RecoveredClean, Incomplete, MakeDirectory, files, reader
  <2>4. OwnOK'
    BY <1>9, <1>t DEF IInv, TypeOK, OwnOK, Incomplete, FreshOK, Untouched, CaptureOK, UndoOK, Recoverable,
       WaitOK, MakeDirectory, files, reader
  <2>5. WaitOK'
    BY <1>9, <1>t DEF IInv, TypeOK, WaitOK, Untouched, MakeDirectory, files, reader
  <2>6. CaptureOK'
    BY <1>9, <1>t DEF IInv, TypeOK, CaptureOK, Incomplete, FreshOK, Untouched, Recoverable, RecoveredClean,
       OwnOK, WaitOK, UndoOK, KeptOK, ReaderOK, MakeDirectory, files, reader
  <2>7. UndoOK'
    BY <1>9, <1>t DEF IInv, TypeOK, UndoOK, Incomplete, MakeDirectory, files, reader
  <2>8. KeptOK'
    BY <1>9, <1>t DEF IInv, TypeOK, KeptOK, MakeDirectory, files, reader
  <2>9. ReaderOK'
    BY <1>9, <1>t DEF IInv, TypeOK, ReaderOK, Members, MakeDirectory, files, reader
  <2> QED
    BY <1>t, <2>1, <2>2, <2>3, <2>4, <2>5, <2>6, <2>7, <2>8, <2>9 DEF IInv
<1>10. CASE StageIntent
  <2>1. FreshOK'
    BY <1>10, <1>t DEF IInv, TypeOK, FreshOK, Untouched, StageIntent, files, reader
  <2>2. Recoverable'
    BY <1>10, <1>t DEF IInv, TypeOK, Recoverable, Incomplete, StageIntent, files, reader
  <2>3. RecoveredClean'
    BY <1>10, <1>t DEF IInv, TypeOK, RecoveredClean, Incomplete, StageIntent, files, reader
  <2>4. OwnOK'
    BY <1>10, <1>t DEF IInv, TypeOK, OwnOK, Incomplete, StageIntent, files, reader
  <2>5. WaitOK'
    BY <1>10, <1>t DEF IInv, TypeOK, WaitOK, Untouched, StageIntent, files, reader
  <2>6. CaptureOK'
    BY <1>10, <1>t DEF IInv, TypeOK, CaptureOK, Incomplete, StageIntent, files, reader
  <2>7. UndoOK'
    BY <1>10, <1>t DEF IInv, TypeOK, UndoOK, Incomplete, StageIntent, files, reader
  <2>8. KeptOK'
    BY <1>10, <1>t DEF IInv, TypeOK, KeptOK, StageIntent, files, reader
  <2>9. ReaderOK'
    BY <1>10, <1>t DEF IInv, TypeOK, ReaderOK, Members, StageIntent, files, reader
  <2> QED
    BY <1>t, <2>1, <2>2, <2>3, <2>4, <2>5, <2>6, <2>7, <2>8, <2>9 DEF IInv
<1>11. CASE PublishIntent
  <2>1. FreshOK'
    BY <1>11, <1>t DEF IInv, TypeOK, FreshOK, Untouched, CaptureOK, UndoOK, Incomplete, PublishIntent, files,
       reader
  <2>2. Recoverable'
    BY <1>11, <1>t DEF IInv, TypeOK, Recoverable, Incomplete, FreshOK, Untouched, CaptureOK, UndoOK,
       PublishIntent, files, reader
  <2>3. RecoveredClean'
    BY <1>11, <1>t DEF IInv, TypeOK, RecoveredClean, Incomplete, PublishIntent, files, reader
  <2>4. OwnOK'
    BY <1>11, <1>t DEF IInv, TypeOK, OwnOK, Incomplete, FreshOK, Untouched, CaptureOK, UndoOK, PublishIntent,
       files, reader
  <2>5. WaitOK'
    BY <1>11, <1>t DEF IInv, TypeOK, WaitOK, Untouched, PublishIntent, files, reader
  <2>6. CaptureOK'
    BY <1>11, <1>t DEF IInv, TypeOK, CaptureOK, Incomplete, PublishIntent, files, reader
  <2>7. UndoOK'
    BY <1>11, <1>t DEF IInv, TypeOK, UndoOK, Incomplete, PublishIntent, files, reader
  <2>8. KeptOK'
    <3>1. tx \notin committed
      BY <1>11 DEF PublishIntent, IInv, CaptureOK, Incomplete
    <3>2. file' = file /\ committed' = committed /\ deleted' = deleted
      BY <1>11 DEF PublishIntent
    <3>3. \A t \in committed : intent'[t] = intent[t]
      BY <1>11, <1>t, <3>1 DEF PublishIntent, TypeOK
    <3> QED
      BY <3>2, <3>3 DEF IInv, KeptOK
  <2>9. ReaderOK'
    BY <1>11, <1>t DEF IInv, TypeOK, ReaderOK, Members, FreshOK, Untouched, CaptureOK, UndoOK, Incomplete,
       PublishIntent, files, reader
  <2> QED
    BY <1>t, <2>1, <2>2, <2>3, <2>4, <2>5, <2>6, <2>7, <2>8, <2>9 DEF IInv
<1>12. CASE \E p \in Path : WritePending(p)
  <2>1. FreshOK'
    BY <1>12, <1>t DEF IInv, TypeOK, FreshOK, Untouched, CaptureOK, UndoOK, Incomplete, WritePending, files,
       reader
  <2>2. Recoverable'
    BY <1>12, <1>t DEF IInv, TypeOK, Recoverable, Incomplete, FreshOK, Untouched, CaptureOK, UndoOK,
       WritePending, files, reader
  <2>3. RecoveredClean'
    BY <1>12, <1>t DEF IInv, TypeOK, RecoveredClean, Incomplete, WritePending, files, reader
  <2>4. OwnOK'
    BY <1>12, <1>t DEF IInv, TypeOK, OwnOK, Incomplete, WritePending, files, reader
  <2>5. WaitOK'
    BY <1>12, <1>t DEF IInv, TypeOK, WaitOK, Untouched, WritePending, files, reader
  <2>6. CaptureOK'
    BY <1>12, <1>t DEF IInv, TypeOK, CaptureOK, Incomplete, WritePending, files, reader
  <2>7. UndoOK'
    BY <1>12, <1>t DEF IInv, TypeOK, UndoOK, Incomplete, WritePending, files, reader
  <2>8. KeptOK'
    BY <1>12, <1>t DEF IInv, TypeOK, KeptOK, WritePending, files, reader
  <2>9. ReaderOK'
    BY <1>12, <1>t DEF IInv, TypeOK, ReaderOK, Members, WritePending, files, reader
  <2> QED
    BY <1>t, <2>1, <2>2, <2>3, <2>4, <2>5, <2>6, <2>7, <2>8, <2>9 DEF IInv
<1>13. CASE \E p \in Path : PublishFile(p)
  <2>1. FreshOK'
    BY <1>13, <1>t DEF IInv, TypeOK, FreshOK, Untouched, PublishFile, files, reader
  <2>2. Recoverable'
    BY <1>13, <1>t DEF IInv, TypeOK, Recoverable, Incomplete, PublishFile, files, reader
  <2>3. RecoveredClean'
    BY <1>13, <1>t DEF IInv, TypeOK, RecoveredClean, Incomplete, PublishFile, files, reader
  <2>4. OwnOK'
    BY <1>13, <1>t DEF IInv, TypeOK, OwnOK, Incomplete, FreshOK, Untouched, CaptureOK, UndoOK, PublishFile,
       files, reader
  <2>5. WaitOK'
    BY <1>13, <1>t DEF IInv, TypeOK, WaitOK, Untouched, PublishFile, files, reader
  <2>6. CaptureOK'
    BY <1>13, <1>t DEF IInv, TypeOK, CaptureOK, Incomplete, PublishFile, files, reader
  <2>7. UndoOK'
    BY <1>13, <1>t DEF IInv, TypeOK, UndoOK, Incomplete, PublishFile, files, reader
  <2>8. KeptOK'
    <3>1. PICK p \in Path : PublishFile(p)
      BY <1>13
    <3>2. tx \in pend[p] /\ pc = "rename" /\ intent' = intent /\ committed' = committed /\ deleted' = deleted
      BY <3>1 DEF PublishFile
    <3>3. \A q \in Path : file'[q] = file[q] \/ q = p
      BY <3>1, <1>t DEF PublishFile, TypeOK
    <3>4. file[p] = NoTxn
      BY <3>2 DEF IInv, CaptureOK
    <3>5. ASSUME NEW t \in committed, NEW q \in intent[t] PROVE file'[q] = t \/ <<q, t>> \in deleted
      <4>1. q \in Path /\ t \in Txn
        BY <1>t DEF TypeOK
      <4>2. file[q] = t \/ <<q, t>> \in deleted
        BY DEF IInv, KeptOK
      <4> QED
        BY <3>3, <3>4, <4>1, <4>2
    <3> QED
      BY <3>2, <3>5 DEF KeptOK
  <2>9. ReaderOK'
    BY <1>13, <1>t DEF IInv, TypeOK, ReaderOK, Members, PublishFile, files, reader
  <2> QED
    BY <1>t, <2>1, <2>2, <2>3, <2>4, <2>5, <2>6, <2>7, <2>8, <2>9 DEF IInv
<1>14. CASE MarkCommitted
  <2>1. FreshOK'
    BY <1>14, <1>t DEF IInv, TypeOK, FreshOK, Untouched, CaptureOK, UndoOK, Incomplete, MarkCommitted, files,
       reader
  <2>2. Recoverable'
    BY <1>14, <1>t DEF IInv, TypeOK, Recoverable, Incomplete, FreshOK, Untouched, CaptureOK, UndoOK,
       MarkCommitted, files, reader
  <2>3. RecoveredClean'
    BY <1>14, <1>t DEF IInv, TypeOK, RecoveredClean, Incomplete, MarkCommitted, files, reader
  <2>4. OwnOK'
    BY <1>14, <1>t DEF IInv, TypeOK, OwnOK, Incomplete, MarkCommitted, files, reader
  <2>5. WaitOK'
    BY <1>14, <1>t DEF IInv, TypeOK, WaitOK, Untouched, MarkCommitted, files, reader
  <2>6. CaptureOK'
    BY <1>14, <1>t DEF IInv, TypeOK, CaptureOK, Incomplete, MarkCommitted, files, reader
  <2>7. UndoOK'
    BY <1>14, <1>t DEF IInv, TypeOK, UndoOK, Incomplete, MarkCommitted, files, reader
  <2>8. KeptOK'
    BY <1>14, <1>t DEF IInv, TypeOK, KeptOK, FreshOK, Untouched, CaptureOK, UndoOK, Incomplete, MarkCommitted,
       files, reader
  <2>9. ReaderOK'
    BY <1>14, <1>t DEF IInv, TypeOK, ReaderOK, Members, MarkCommitted, files, reader
  <2> QED
    BY <1>t, <2>1, <2>2, <2>3, <2>4, <2>5, <2>6, <2>7, <2>8, <2>9 DEF IInv
<1>15. CASE CommitDone
  <2>1. FreshOK'
    BY <1>15, <1>t DEF IInv, TypeOK, FreshOK, Untouched, CommitDone, files, reader
  <2>2. Recoverable'
    BY <1>15, <1>t DEF IInv, TypeOK, Recoverable, Incomplete, CommitDone, files, reader
  <2>3. RecoveredClean'
    BY <1>15, <1>t DEF IInv, TypeOK, RecoveredClean, Incomplete, CommitDone, files, reader
  <2>4. OwnOK'
    BY <1>15, <1>t DEF IInv, TypeOK, OwnOK, Incomplete, CommitDone, files, reader
  <2>5. WaitOK'
    BY <1>15, <1>t DEF IInv, TypeOK, WaitOK, Untouched, CommitDone, files, reader
  <2>6. CaptureOK'
    BY <1>15, <1>t DEF IInv, TypeOK, CaptureOK, Incomplete, CommitDone, files, reader
  <2>7. UndoOK'
    BY <1>15, <1>t DEF IInv, TypeOK, UndoOK, Incomplete, CommitDone, files, reader
  <2>8. KeptOK'
    BY <1>15, <1>t DEF IInv, TypeOK, KeptOK, CommitDone, files, reader
  <2>9. ReaderOK'
    BY <1>15, <1>t DEF IInv, TypeOK, ReaderOK, Members, CommitDone, files, reader
  <2> QED
    BY <1>t, <2>1, <2>2, <2>3, <2>4, <2>5, <2>6, <2>7, <2>8, <2>9 DEF IInv
<1>16. CASE \E s \in SUBSET (Path \ Records) : BeginDelete(s)
  <2>1. FreshOK'
    BY <1>16, <1>t DEF IInv, TypeOK, FreshOK, Untouched, BeginDelete, files, reader
  <2>2. Recoverable'
    BY <1>16, <1>t DEF IInv, TypeOK, Recoverable, Incomplete, BeginDelete, files, reader
  <2>3. RecoveredClean'
    BY <1>16, <1>t DEF IInv, TypeOK, RecoveredClean, Incomplete, BeginDelete, files, reader
  <2>4. OwnOK'
    BY <1>16, <1>t DEF IInv, TypeOK, OwnOK, Incomplete, BeginDelete, files, reader
  <2>5. WaitOK'
    BY <1>16, <1>t DEF IInv, TypeOK, WaitOK, Untouched, BeginDelete, files, reader
  <2>6. CaptureOK'
    BY <1>16, <1>t DEF IInv, TypeOK, CaptureOK, Incomplete, BeginDelete, files, reader
  <2>7. UndoOK'
    BY <1>16, <1>t DEF IInv, TypeOK, UndoOK, Incomplete, BeginDelete, files, reader
  <2>8. KeptOK'
    BY <1>16, <1>t DEF IInv, TypeOK, KeptOK, BeginDelete, files, reader
  <2>9. ReaderOK'
    BY <1>16, <1>t DEF IInv, TypeOK, ReaderOK, Members, BeginDelete, files, reader
  <2> QED
    BY <1>t, <2>1, <2>2, <2>3, <2>4, <2>5, <2>6, <2>7, <2>8, <2>9 DEF IInv
<1>17. CASE \E p \in Path : DeleteFile(p)
  <2>1. FreshOK'
    BY <1>17, <1>t DEF IInv, TypeOK, FreshOK, Untouched, DeleteFile, files, reader
  <2>2. Recoverable'
    BY <1>17, <1>t DEF IInv, TypeOK, Recoverable, Incomplete, DeleteFile, files, reader
  <2>3. RecoveredClean'
    BY <1>17, <1>t DEF IInv, TypeOK, RecoveredClean, Incomplete, DeleteFile, files, reader
  <2>4. OwnOK'
    BY <1>17, <1>t DEF IInv, TypeOK, OwnOK, Incomplete, DeleteFile, files, reader
  <2>5. WaitOK'
    BY <1>17, <1>t DEF IInv, TypeOK, WaitOK, Untouched, DeleteFile, files, reader
  <2>6. CaptureOK'
    BY <1>17, <1>t DEF IInv, TypeOK, CaptureOK, Incomplete, DeleteFile, files, reader
  <2>7. UndoOK'
    BY <1>17, <1>t DEF IInv, TypeOK, UndoOK, Incomplete, DeleteFile, files, reader
  <2>8. KeptOK'
    BY <1>17, <1>t DEF IInv, TypeOK, KeptOK, DeleteFile, files, reader
  <2>9. ReaderOK'
    BY <1>17, <1>t DEF IInv, TypeOK, ReaderOK, Members, DeleteFile, files, reader
  <2> QED
    BY <1>t, <2>1, <2>2, <2>3, <2>4, <2>5, <2>6, <2>7, <2>8, <2>9 DEF IInv
<1>18. CASE DeleteDone
  <2>1. FreshOK'
    BY <1>18, <1>t DEF IInv, TypeOK, FreshOK, Untouched, DeleteDone, files, reader
  <2>2. Recoverable'
    BY <1>18, <1>t DEF IInv, TypeOK, Recoverable, Incomplete, DeleteDone, files, reader
  <2>3. RecoveredClean'
    BY <1>18, <1>t DEF IInv, TypeOK, RecoveredClean, Incomplete, DeleteDone, files, reader
  <2>4. OwnOK'
    BY <1>18, <1>t DEF IInv, TypeOK, OwnOK, Incomplete, DeleteDone, files, reader
  <2>5. WaitOK'
    BY <1>18, <1>t DEF IInv, TypeOK, WaitOK, Untouched, DeleteDone, files, reader
  <2>6. CaptureOK'
    BY <1>18, <1>t DEF IInv, TypeOK, CaptureOK, Incomplete, DeleteDone, files, reader
  <2>7. UndoOK'
    BY <1>18, <1>t DEF IInv, TypeOK, UndoOK, Incomplete, DeleteDone, files, reader
  <2>8. KeptOK'
    BY <1>18, <1>t DEF IInv, TypeOK, KeptOK, DeleteDone, files, reader
  <2>9. ReaderOK'
    BY <1>18, <1>t DEF IInv, TypeOK, ReaderOK, Members, DeleteDone, files, reader
  <2> QED
    BY <1>t, <2>1, <2>2, <2>3, <2>4, <2>5, <2>6, <2>7, <2>8, <2>9 DEF IInv
<1>19. CASE \E d \in Dir : ListBegin(d)
  <2>1. FreshOK'
    BY <1>19, <1>t DEF IInv, TypeOK, FreshOK, Untouched, ListBegin, Members, writer, files, reader
  <2>2. Recoverable'
    BY <1>19, <1>t DEF IInv, TypeOK, Recoverable, Incomplete, ListBegin, Members, writer, files, reader
  <2>3. RecoveredClean'
    BY <1>19, <1>t DEF IInv, TypeOK, RecoveredClean, Incomplete, ListBegin, Members, writer, files, reader
  <2>4. OwnOK'
    BY <1>19, <1>t DEF IInv, TypeOK, OwnOK, Incomplete, ListBegin, Members, writer, files, reader
  <2>5. WaitOK'
    BY <1>19, <1>t DEF IInv, TypeOK, WaitOK, Untouched, ListBegin, Members, writer, files, reader
  <2>6. CaptureOK'
    BY <1>19, <1>t DEF IInv, TypeOK, CaptureOK, Incomplete, ListBegin, Members, writer, files, reader
  <2>7. UndoOK'
    BY <1>19, <1>t DEF IInv, TypeOK, UndoOK, Incomplete, ListBegin, Members, writer, files, reader
  <2>8. KeptOK'
    BY <1>19, <1>t DEF IInv, TypeOK, KeptOK, ListBegin, Members, writer, files, reader
  <2>9. ReaderOK'
    BY <1>19, <1>t DEF IInv, TypeOK, ReaderOK, Members, ListBegin, writer, files, reader
  <2> QED
    BY <1>t, <2>1, <2>2, <2>3, <2>4, <2>5, <2>6, <2>7, <2>8, <2>9 DEF IInv
<1>20. CASE \E t \in Txn : SnapshotLate(t)
  <2>1. FreshOK'
    BY <1>20, <1>t DEF IInv, TypeOK, FreshOK, Untouched, SnapshotLate, writer, files, reader
  <2>2. Recoverable'
    BY <1>20, <1>t DEF IInv, TypeOK, Recoverable, Incomplete, SnapshotLate, writer, files, reader
  <2>3. RecoveredClean'
    BY <1>20, <1>t DEF IInv, TypeOK, RecoveredClean, Incomplete, SnapshotLate, writer, files, reader
  <2>4. OwnOK'
    BY <1>20, <1>t DEF IInv, TypeOK, OwnOK, Incomplete, SnapshotLate, writer, files, reader
  <2>5. WaitOK'
    BY <1>20, <1>t DEF IInv, TypeOK, WaitOK, Untouched, SnapshotLate, writer, files, reader
  <2>6. CaptureOK'
    BY <1>20, <1>t DEF IInv, TypeOK, CaptureOK, Incomplete, SnapshotLate, writer, files, reader
  <2>7. UndoOK'
    BY <1>20, <1>t DEF IInv, TypeOK, UndoOK, Incomplete, SnapshotLate, writer, files, reader
  <2>8. KeptOK'
    BY <1>20, <1>t DEF IInv, TypeOK, KeptOK, SnapshotLate, writer, files, reader
  <2>9. ReaderOK'
    BY <1>20, <1>t DEF IInv, TypeOK, ReaderOK, Members, FreshOK, Untouched, Recoverable, RecoveredClean,
       Incomplete, OwnOK, WaitOK, CaptureOK, UndoOK, KeptOK, SnapshotLate, writer, files, reader
  <2> QED
    BY <1>t, <2>1, <2>2, <2>3, <2>4, <2>5, <2>6, <2>7, <2>8, <2>9 DEF IInv
<1>21. CASE SnapshotDone
  <2>1. FreshOK'
    BY <1>21, <1>t DEF IInv, TypeOK, FreshOK, Untouched, SnapshotDone, writer, files, reader
  <2>2. Recoverable'
    BY <1>21, <1>t DEF IInv, TypeOK, Recoverable, Incomplete, SnapshotDone, writer, files, reader
  <2>3. RecoveredClean'
    BY <1>21, <1>t DEF IInv, TypeOK, RecoveredClean, Incomplete, SnapshotDone, writer, files, reader
  <2>4. OwnOK'
    BY <1>21, <1>t DEF IInv, TypeOK, OwnOK, Incomplete, SnapshotDone, writer, files, reader
  <2>5. WaitOK'
    BY <1>21, <1>t DEF IInv, TypeOK, WaitOK, Untouched, SnapshotDone, writer, files, reader
  <2>6. CaptureOK'
    BY <1>21, <1>t DEF IInv, TypeOK, CaptureOK, Incomplete, SnapshotDone, writer, files, reader
  <2>7. UndoOK'
    BY <1>21, <1>t DEF IInv, TypeOK, UndoOK, Incomplete, SnapshotDone, writer, files, reader
  <2>8. KeptOK'
    BY <1>21, <1>t DEF IInv, TypeOK, KeptOK, SnapshotDone, writer, files, reader
  <2>9. ReaderOK'
    BY <1>21, <1>t DEF IInv, TypeOK, ReaderOK, Members, SnapshotDone, writer, files, reader
  <2> QED
    BY <1>t, <2>1, <2>2, <2>3, <2>4, <2>5, <2>6, <2>7, <2>8, <2>9 DEF IInv
<1>22. CASE \E p \in Path : ListEntry(p)
  <2>1. FreshOK'
    BY <1>22, <1>t DEF IInv, TypeOK, FreshOK, Untouched, ListEntry, writer, files, reader
  <2>2. Recoverable'
    BY <1>22, <1>t DEF IInv, TypeOK, Recoverable, Incomplete, ListEntry, writer, files, reader
  <2>3. RecoveredClean'
    BY <1>22, <1>t DEF IInv, TypeOK, RecoveredClean, Incomplete, ListEntry, writer, files, reader
  <2>4. OwnOK'
    BY <1>22, <1>t DEF IInv, TypeOK, OwnOK, Incomplete, ListEntry, writer, files, reader
  <2>5. WaitOK'
    BY <1>22, <1>t DEF IInv, TypeOK, WaitOK, Untouched, ListEntry, writer, files, reader
  <2>6. CaptureOK'
    BY <1>22, <1>t DEF IInv, TypeOK, CaptureOK, Incomplete, ListEntry, writer, files, reader
  <2>7. UndoOK'
    BY <1>22, <1>t DEF IInv, TypeOK, UndoOK, Incomplete, ListEntry, writer, files, reader
  <2>8. KeptOK'
    BY <1>22, <1>t DEF IInv, TypeOK, KeptOK, ListEntry, writer, files, reader
  <2>9. ReaderOK'
    BY <1>22, <1>t DEF IInv, TypeOK, ReaderOK, Members, FreshOK, Untouched, Recoverable, RecoveredClean,
       Incomplete, OwnOK, WaitOK, CaptureOK, UndoOK, KeptOK, ListEntry, writer, files, reader
  <2> QED
    BY <1>t, <2>1, <2>2, <2>3, <2>4, <2>5, <2>6, <2>7, <2>8, <2>9 DEF IInv
<1>23. CASE ListDone
  <2>1. FreshOK'
    BY <1>23, <1>t DEF IInv, TypeOK, FreshOK, Untouched, ListDone, writer, files, reader
  <2>2. Recoverable'
    BY <1>23, <1>t DEF IInv, TypeOK, Recoverable, Incomplete, ListDone, writer, files, reader
  <2>3. RecoveredClean'
    BY <1>23, <1>t DEF IInv, TypeOK, RecoveredClean, Incomplete, ListDone, writer, files, reader
  <2>4. OwnOK'
    BY <1>23, <1>t DEF IInv, TypeOK, OwnOK, Incomplete, ListDone, writer, files, reader
  <2>5. WaitOK'
    BY <1>23, <1>t DEF IInv, TypeOK, WaitOK, Untouched, ListDone, writer, files, reader
  <2>6. CaptureOK'
    BY <1>23, <1>t DEF IInv, TypeOK, CaptureOK, Incomplete, ListDone, writer, files, reader
  <2>7. UndoOK'
    BY <1>23, <1>t DEF IInv, TypeOK, UndoOK, Incomplete, ListDone, writer, files, reader
  <2>8. KeptOK'
    BY <1>23, <1>t DEF IInv, TypeOK, KeptOK, ListDone, writer, files, reader
  <2>9. ReaderOK'
    BY <1>23, <1>t DEF IInv, TypeOK, ReaderOK, Members, ListDone, writer, files, reader
  <2> QED
    BY <1>t, <2>1, <2>2, <2>3, <2>4, <2>5, <2>6, <2>7, <2>8, <2>9 DEF IInv
<1>24. CASE Fault
  <2>1. FreshOK'
    BY <1>24, <1>t DEF IInv, TypeOK, FreshOK, Untouched, Fault, files, reader
  <2>2. Recoverable'
    BY <1>24, <1>t DEF IInv, TypeOK, Recoverable, Incomplete, Fault, files, reader
  <2>3. RecoveredClean'
    BY <1>24, <1>t DEF IInv, TypeOK, RecoveredClean, Incomplete, Fault, files, reader
  <2>4. OwnOK'
    BY <1>24, <1>t DEF IInv, TypeOK, OwnOK, Incomplete, Fault, files, reader
  <2>5. WaitOK'
    BY <1>24, <1>t DEF IInv, TypeOK, WaitOK, Untouched, Fault, files, reader
  <2>6. CaptureOK'
    BY <1>24, <1>t DEF IInv, TypeOK, CaptureOK, Incomplete, Fault, files, reader
  <2>7. UndoOK'
    BY <1>24, <1>t DEF IInv, TypeOK, UndoOK, Incomplete, FreshOK, Untouched, CaptureOK, Fault, files, reader
  <2>8. KeptOK'
    BY <1>24, <1>t DEF IInv, TypeOK, KeptOK, Fault, files, reader
  <2>9. ReaderOK'
    BY <1>24, <1>t DEF IInv, TypeOK, ReaderOK, Members, Fault, files, reader
  <2> QED
    BY <1>t, <2>1, <2>2, <2>3, <2>4, <2>5, <2>6, <2>7, <2>8, <2>9 DEF IInv
<1>25. CASE Crash
  <2>1. FreshOK'
    BY <1>25, <1>t DEF IInv, TypeOK, FreshOK, Untouched, Crash, files, reader
  <2>2. Recoverable'
    BY <1>25, <1>t DEF IInv, TypeOK, Recoverable, Incomplete, Crash, files, reader
  <2>3. RecoveredClean'
    BY <1>25, <1>t DEF IInv, TypeOK, RecoveredClean, Incomplete, Crash, files, reader
  <2>4. OwnOK'
    BY <1>25, <1>t DEF IInv, TypeOK, OwnOK, Incomplete, Crash, files, reader
  <2>5. WaitOK'
    BY <1>25, <1>t DEF IInv, TypeOK, WaitOK, Untouched, Crash, files, reader
  <2>6. CaptureOK'
    BY <1>25, <1>t DEF IInv, TypeOK, CaptureOK, Incomplete, Crash, files, reader
  <2>7. UndoOK'
    BY <1>25, <1>t DEF IInv, TypeOK, UndoOK, Incomplete, Crash, files, reader
  <2>8. KeptOK'
    BY <1>25, <1>t DEF IInv, TypeOK, KeptOK, Crash, files, reader
  <2>9. ReaderOK'
    BY <1>25, <1>t DEF IInv, TypeOK, ReaderOK, Members, Crash, files, reader
  <2> QED
    BY <1>t, <2>1, <2>2, <2>3, <2>4, <2>5, <2>6, <2>7, <2>8, <2>9 DEF IInv
<1>26. CASE Open
  <2>1. FreshOK'
    BY <1>26, <1>t DEF IInv, TypeOK, FreshOK, Untouched, Open, files, reader
  <2>2. Recoverable'
    BY <1>26, <1>t DEF IInv, TypeOK, Recoverable, Incomplete, Open, files, reader
  <2>3. RecoveredClean'
    BY <1>26, <1>t DEF IInv, TypeOK, RecoveredClean, Incomplete, Open, files, reader
  <2>4. OwnOK'
    BY <1>26, <1>t DEF IInv, TypeOK, OwnOK, Incomplete, Open, files, reader
  <2>5. WaitOK'
    BY <1>26, <1>t DEF IInv, TypeOK, WaitOK, Untouched, Open, files, reader
  <2>6. CaptureOK'
    BY <1>26, <1>t DEF IInv, TypeOK, CaptureOK, Incomplete, Open, files, reader
  <2>7. UndoOK'
    BY <1>26, <1>t DEF IInv, TypeOK, UndoOK, Incomplete, Open, files, reader
  <2>8. KeptOK'
    BY <1>26, <1>t DEF IInv, TypeOK, KeptOK, Open, files, reader
  <2>9. ReaderOK'
    BY <1>26, <1>t DEF IInv, TypeOK, ReaderOK, Members, Open, files, reader
  <2> QED
    BY <1>t, <2>1, <2>2, <2>3, <2>4, <2>5, <2>6, <2>7, <2>8, <2>9 DEF IInv
<1> QED
  BY <1>1, <1>2, <1>3, <1>4, <1>5, <1>6, <1>7, <1>8, <1>9, <1>10, <1>11, <1>12, <1>13, <1>14, <1>15, <1>16,
     <1>17, <1>18, <1>19, <1>20, <1>21, <1>22, <1>23, <1>24, <1>25, <1>26 DEF Next, Requests, Writes, Reads

-----------------------------------------------------------------------------
\* Rollback, recovery and a rename change only files no reader may use.
LEMMA HiddenFile ==
    ASSUME IInv,
           NEW p \in Path, UndoFile(p) \/ PublishFile(p)
    PROVE  UNCHANGED <<Visible, committed>>
<1>t. TypeOK
  BY DEF IInv
<1>1. CASE UndoFile(p)
  <2>1. file[p] \notin committed /\ committed' = committed
    BY <1>1, CaptureAssumption, <1>t DEF UndoFile, IInv, UndoOK, Incomplete, TypeOK
  <2>2. \A q \in Path : file'[q] = file[q] \/ (q = p /\ file'[q] = NoTxn)
    BY <1>1, <1>t DEF UndoFile, TypeOK
  <2>3. NoTxn \notin committed
    BY CaptureAssumption, <1>t DEF TypeOK
  <2>4. \A q \in Path : (IF file'[q] \in committed THEN file'[q] ELSE NoTxn)
                          = (IF file[q] \in committed THEN file[q] ELSE NoTxn)
    BY <2>1, <2>2, <2>3
  <2> QED
    BY <2>1, <2>4 DEF Visible
<1>2. CASE PublishFile(p)
  <2>1. file[p] \notin committed /\ tx \notin committed /\ committed' = committed
    BY <1>2, CaptureAssumption, <1>t DEF PublishFile, IInv, CaptureOK, Incomplete, TypeOK
  <2>2. \A q \in Path : file'[q] = file[q] \/ (q = p /\ file'[q] = tx)
    BY <1>2, <1>t DEF PublishFile, TypeOK
  <2>3. \A q \in Path : (IF file'[q] \in committed THEN file'[q] ELSE NoTxn)
                          = (IF file[q] \in committed THEN file[q] ELSE NoTxn)
    BY <2>1, <2>2
  <2> QED
    BY <2>1, <2>3 DEF Visible
<1> QED
  BY <1>1, <1>2

\* The commit marker is the abstract Publish of the whole batch.
LEMMA MarkPublishes ==
    ASSUME IInv, MarkCommitted
    PROVE  tx \in Txn /\ Log!Publish(tx, batch)
<1>t. TypeOK
  BY DEF IInv
<1>1. /\ tx \in Txn /\ tx \in Incomplete
      /\ \A p \in batch : file[p] = tx
      /\ \A p \in Path \ batch : file[p] # tx
  BY DEF MarkCommitted, IInv, CaptureOK
<1>2. file' = file /\ committed' = committed \cup {tx} /\ tx \notin committed
  BY <1>1 DEF MarkCommitted, Incomplete
<1>3. \A p \in batch : Visible[p] = NoTxn
  BY <1>1, <1>2, <1>t DEF Visible, TypeOK
<1>4. Visible' = [p \in Path |-> IF p \in batch THEN tx ELSE Visible[p]]
  <2>1. \A p \in Path : (IF file[p] \in committed \cup {tx} THEN file[p] ELSE NoTxn)
                          = (IF p \in batch THEN tx ELSE Visible[p])
    BY <1>1, <1>2, <1>t DEF Visible, TypeOK
  <2>2. Visible' = [p \in Path |-> IF file[p] \in committed \cup {tx} THEN file[p] ELSE NoTxn]
    BY <1>2 DEF Visible
  <2> QED
    BY <2>1, <2>2
<1> QED
  BY <1>1, <1>2, <1>3, <1>4 DEF Log!Publish

\* Removing a message file is the abstract Delete of its destination.
LEMMA DeleteHides ==
    ASSUME IInv, NEW p \in Path, DeleteFile(p)
    PROVE  Log!Delete(p)
<1>t. TypeOK
  BY DEF IInv
<1>1. committed' = committed /\ file' = [file EXCEPT ![p] = NoTxn] /\ NoTxn \notin committed
  BY CaptureAssumption, <1>t DEF DeleteFile, TypeOK
<1>2. Visible' = [Visible EXCEPT ![p] = NoTxn]
  BY <1>1, <1>t DEF Visible, TypeOK
<1> QED
  BY <1>1, <1>2 DEF Log!Delete

\* Every step publishes one batch, deletes one file, or changes nothing a
\* reader may see.
LEMMA VisibleStep ==
    ASSUME IInv, [Next]_vars
    PROVE  \/ UNCHANGED <<Visible, committed>>
           \/ MarkCommitted /\ tx \in Txn /\ Log!Publish(tx, batch)
           \/ pc = "delete" /\ \E p \in Path : Log!Delete(p)
<1>t. TypeOK
  BY DEF IInv
<1>1. CASE UNCHANGED vars
  BY <1>1 DEF vars, files, Visible
<1>2. CASE Requests
  BY <1>2 DEF Requests, Capture, BeginDelete, files, Visible
<1>3. CASE Reads
  BY <1>3 DEF Reads, ListBegin, SnapshotLate, SnapshotDone, ListEntry, ListDone, files, Visible
<1>4. CASE (\E v \in Txn : RecoverNext(v)) \/ RecoverDone \/ UndoIntent \/ UndoDirectory
  BY <1>4 DEF RecoverNext, RecoverDone, UndoIntent, UndoDirectory, files, Visible
<1>5. CASE CheckDestinations \/ MakeDirectory \/ StageIntent \/ PublishIntent \/ CommitDone \/ DeleteDone
  BY <1>5 DEF CheckDestinations, MakeDirectory, StageIntent, PublishIntent, CommitDone, DeleteDone, files,
     Visible
<1>6. CASE \E p \in Path : WritePending(p)
  BY <1>6 DEF WritePending, Visible
<1>7. CASE \E p \in Path : UndoFile(p) \/ PublishFile(p)
  BY <1>7, HiddenFile
<1>8. CASE MarkCommitted
  BY <1>8, MarkPublishes
<1>9. CASE \E p \in Path : DeleteFile(p)
  BY <1>9, DeleteHides DEF DeleteFile
<1>10. CASE Fault \/ Crash \/ Open
  BY <1>10 DEF Fault, Crash, Open, files, Visible
<1> QED
  BY <1>1, <1>2, <1>3, <1>4, <1>5, <1>6, <1>7, <1>8, <1>9, <1>10 DEF Next, Writes

-----------------------------------------------------------------------------
\* The inductive invariant holds in every reachable state.
THEOREM Invariance == Spec => []IInv
<1>1. Init => IInv
  BY InitInv
<1>2. IInv /\ [Next]_vars => IInv'
  BY NextInv
<1> QED
  BY <1>1, <1>2, PTL DEF Spec

\* Every file an undecided capture left is named by a durable intent, so
\* recover finds it when the store is next opened (capture.rs).
THEOREM LeftoversNamed == Spec => []Recoverable
<1>1. IInv => Recoverable
  BY DEF IInv
<1> QED
  BY <1>1, Invariance, PTL

\* When recovery has run, nothing of an undecided capture is left.
THEOREM RecoveryCleans == Spec => []RecoveredClean
<1>1. IInv => RecoveredClean
  BY DEF IInv
<1> QED
  BY <1>1, Invariance, PTL

\* A finished listing reports whole batches, whatever ran beside it
\* (list_messages_snapshot over committed_snapshot).
THEOREM WholeListings == Spec => []ListsWhole
<1>1. IInv => ListsWhole
  <2> SUFFICES ASSUME IInv, rpc = "listing", unseen = {},
                      NEW e \in got, NEW p \in intent[e[2]] \cap Members(listed)
               PROVE  <<p, e[2]>> \in got \cup deleted
    BY DEF ListsWhole
  <2>1. e[2] \in known
    BY DEF IInv, ReaderOK
  <2> QED
    BY <2>1 DEF IInv, ReaderOK
<1> QED
  BY <1>1, Invariance, PTL

\* No recovery and no rollback removes a captured file: only a deletion does.
THEOREM NothingCapturedIsLost == Spec => CapturesKept
<1>1. IInv /\ [Next]_vars =>
        [\A p \in Path : Visible[p] # NoTxn /\ Visible'[p] # Visible[p] => pc = "delete"]_vars
  <2> SUFFICES ASSUME IInv, [Next]_vars, NEW p \in Path,
                      Visible[p] # NoTxn, Visible'[p] # Visible[p]
               PROVE  pc = "delete"
    OBVIOUS
  <2>1. CASE UNCHANGED <<Visible, committed>>
    BY <2>1
  <2>2. CASE Log!Publish(tx, batch)
    BY <2>2 DEF Log!Publish
  <2> QED
    BY <2>1, <2>2, VisibleStep
<1> QED
  BY <1>1, Invariance, PTL DEF Spec, CapturesKept

\* The journal implements the store its readers rely on: a batch appears whole
\* at one instant on free destinations and goes only by deletion.
THEOREM Refinement == Spec => Implements
<1>1. Init => Log!Init
  BY CaptureAssumption DEF Init, Log!Init, Visible
<1>2. IInv /\ [Next]_vars => [Log!Next]_(Log!vars)
  <2> SUFFICES ASSUME IInv, [Next]_vars PROVE [Log!Next]_(Log!vars)
    OBVIOUS
  <2>1. batch \in SUBSET Path
    BY DEF IInv, TypeOK
  <2> QED
    BY <2>1, VisibleStep DEF Log!Next, Log!vars
<1> QED
  BY <1>1, <1>2, Invariance, PTL DEF Spec, Implements, Log!Spec

-----------------------------------------------------------------------------
(* An SMTP connection over the fan-out *)

\* The words of a line with its ending.
Letters == STRING \cup {"CR", "LF"}

\* The limit of a message is a number.
LEMMA Limits == InputLimit \in Nat /\ \A tooLarge \in BOOLEAN : LineLimit(tooLarge) \in Nat /\ LineLimit(tooLarge) >= 3
<1>1. MaxCaptureBytes \in Nat /\ MaxMessageBytes \in Nat
  BY SmtpAssumption
<1>2. RawCaptureLimit \in Nat
  BY <1>1 DEF RawCaptureLimit
<1>3. InputLimit \in Nat
  BY <1>1, <1>2 DEF InputLimit
<1> QED BY <1>3 DEF LineLimit

\* What a client sends of a line is longer than a dot, starts with two dots when the line starts with one, and becomes
\* the line again when its first dot is taken off.
LEMMA StuffedText ==
    ASSUME NEW text \in Seq(STRING \ {"CR", "LF"})
    PROVE  LET s == Stuffed(text)
           IN  /\ s \in Seq(STRING \ {"CR", "LF"})
               /\ s # <<>> /\ s[1] = "." => Len(s) >= 2 /\ s[2] = "."
               /\ StripDot(s) = text
<1>1. CASE text # <<>> /\ text[1] = "."
  <2> DEFINE s == <<".">> \o text
  <2>1. Stuffed(text) = s BY <1>1 DEF Stuffed
  <2>2. s \in Seq(STRING \ {"CR", "LF"}) /\ s # <<>> /\ s[1] = "." /\ Len(s) >= 2 /\ s[2] = "." /\ Tail(s) = text
    BY <1>1
  <2> QED BY <2>1, <2>2 DEF StripDot
<1>2. CASE ~(text # <<>> /\ text[1] = ".")
  BY <1>2 DEF Stuffed, StripDot
<1> QED BY <1>1, <1>2

\* The endings of a line.
LEMMA Pair == <<"CR", "LF">> \in Seq(Letters) /\ Len(<<"CR", "LF">>) = 2 /\ <<"CR", "LF">>[1] = "CR" /\ <<"CR", "LF">>[2] = "LF"
BY DEF Letters

\* The same of a bare line feed.
LEMMA LineFeed == <<"LF">> \in Seq(Letters) /\ Len(<<"LF">>) = 1 /\ <<"LF">>[1] = "LF"
BY DEF Letters

\* What is left of a line that was cut to its limit is not the end of a message, and neither is the whole line.
LEMMA NotTheEnd ==
    ASSUME NEW text \in Seq(STRING \ {"CR", "LF"}), NEW ending \in {<<"CR", "LF">>, <<"LF">>}, NEW limit \in Nat, limit >= 3
    PROVE  LET line == Stuffed(text) \o ending
               kept == IF Len(line) > limit THEN SubSeq(line, 1, limit) ELSE line
           IN  /\ line \in Seq(Letters) /\ kept \in Seq(Letters) /\ Len(kept) >= 1
               /\ ~(Len(kept) = 3 /\ kept[1] = "." /\ kept[2] = "CR")
<1> DEFINE s == Stuffed(text)
           line == s \o ending
           kept == IF Len(line) > limit THEN SubSeq(line, 1, limit) ELSE line
<1>1. s \in Seq(STRING \ {"CR", "LF"}) /\ (s # <<>> /\ s[1] = "." => Len(s) >= 2 /\ s[2] = ".")
  BY StuffedText
<1> HIDE DEF s
<1>2. ending \in Seq(Letters) /\ Len(ending) \in {1, 2} /\ ending[1] \in {"CR", "LF"}
  <2>1. CASE ending = <<"CR", "LF">> BY <2>1, Pair
  <2>2. CASE ending = <<"LF">> BY <2>2, LineFeed
  <2> QED BY <2>1, <2>2
<1>3. /\ line \in Seq(Letters) /\ Len(line) = Len(s) + Len(ending) /\ Len(line) >= 1
      /\ \A i \in 1 .. Len(s) : line[i] = s[i]
      /\ s = <<>> => line[1] = ending[1]
  <2>1. s \in Seq(Letters) BY <1>1 DEF Letters
  <2> QED BY <2>1, <1>2
<1>4. /\ kept \in Seq(Letters) /\ Len(kept) >= 1 /\ kept[1] = line[1]
      /\ Len(kept) >= 2 => kept[2] = line[2]
  <2> HIDE DEF line
  <2>1. CASE Len(line) > limit BY <2>1, <1>3
  <2>2. CASE ~(Len(line) > limit) BY <2>2, <1>3
  <2> QED BY <2>1, <2>2
<1>5. ~(Len(kept) = 3 /\ kept[1] = "." /\ kept[2] = "CR")
  <2> SUFFICES ASSUME Len(kept) = 3, kept[1] = ".", kept[2] = "CR" PROVE FALSE
    OBVIOUS
  <2> HIDE DEF kept, line
  <2>1. line[1] = "." /\ line[2] = "CR" BY <1>4
  <2>2. s # <<>> BY <1>2, <1>3, <2>1
  <2>3. Len(s) \in Nat /\ Len(s) >= 1 BY <1>1, <2>2
  <2>4. s[1] = "." BY <1>3, <2>1, <2>3
  <2>5. Len(s) >= 2 /\ s[2] = "." BY <1>1, <2>2, <2>4
  <2> QED BY <1>3, <2>1, <2>3, <2>5
<1> QED BY <1>3, <1>4, <1>5 DEF s

\* A sequence that ends with CR LF and is a dot before that.
LEMMA DotAlone ==
    ASSUME NEW kept \in Seq(Letters), EndsWithCrlf(kept), SubSeq(kept, 1, Len(kept) - 2) = <<".">>
    PROVE  Len(kept) = 3 /\ kept[1] = "." /\ kept[2] = "CR"
<1>1. Len(kept) \in Nat /\ Len(kept) >= 2 /\ SubSeq(kept, Len(kept) - 1, Len(kept)) = <<"CR", "LF">>
  BY DEF EndsWithCrlf
<1> DEFINE n == Len(kept) - 2  t == SubSeq(kept, 1, n)
<1>2. n \in Nat BY <1>1
<1>3. Len(t) = n BY <1>1, <1>2
<1>4. n = 1 BY <1>3
<1>5. Len(kept) = 3 BY <1>1, <1>4
<1>6. kept[1] = "."
  <2>1. SubSeq(kept, 1, 1) = <<".">> BY <1>4
  <2>2. SubSeq(kept, 1, 1)[1] = kept[1] BY <1>5
  <2>3. <<".">>[1] = "." OBVIOUS
  <2> QED BY <2>1, <2>2, <2>3, Zenon
<1>7. kept[2] = "CR"
  <2>1. SubSeq(kept, 2, 3) = <<"CR", "LF">> BY <1>1, <1>5
  <2>2. SubSeq(kept, 2, 3)[1] = kept[2] BY <1>5
  <2>3. <<"CR", "LF">>[1] = "CR" OBVIOUS
  <2> QED BY <2>1, <2>2, <2>3, Zenon
<1> QED BY <1>5, <1>6, <1>7

\* A whole line ends with CR LF exactly when the client ended it so, and what stands before the ending is what was sent.
LEMMA WholeLine ==
    ASSUME NEW s \in Seq(STRING \ {"CR", "LF"}), NEW ending \in {<<"CR", "LF">>, <<"LF">>}
    PROVE  LET line == s \o ending
           IN  SubSeq(line, 1, Len(line) - IF EndsWithCrlf(line) THEN 2 ELSE 1) = s
<1>1. CASE ending = <<"CR", "LF">>
  <2> DEFINE line == s \o <<"CR", "LF">>
  <2>1. line \in Seq(Letters) /\ Len(line) = Len(s) + 2 /\ Len(s) \in Nat
        /\ line[Len(s) + 1] = "CR" /\ line[Len(s) + 2] = "LF" /\ \A i \in 1 .. Len(s) : line[i] = s[i]
    <3>1. s \in Seq(Letters) BY DEF Letters
    <3> QED BY <3>1, Pair
  <2> HIDE DEF line
  <2>2. SubSeq(line, Len(line) - 1, Len(line)) = <<"CR", "LF">>
    <3> DEFINE n == Len(line)  x == SubSeq(line, n - 1, n)
    <3>1. n \in Nat /\ n >= 2 /\ line[n - 1] = "CR" /\ line[n] = "LF" BY <2>1
    <3>2. x \in Seq(Letters) /\ Len(x) = 2 /\ x[1] = line[n - 1] /\ x[2] = line[n] BY <2>1, <3>1
    <3> HIDE DEF x, n
    <3>3. x = <<"CR", "LF">> BY <3>1, <3>2
    <3> QED BY <3>3 DEF x, n
  <2>3. EndsWithCrlf(line) BY <2>1, <2>2 DEF EndsWithCrlf
  <2>4. SubSeq(line, 1, Len(line) - 2) = s
    BY <2>1
  <2> QED BY <1>1, <2>3, <2>4 DEF line
<1>2. CASE ending = <<"LF">>
  <2> DEFINE line == s \o <<"LF">>
  <2>1. line \in Seq(Letters) /\ Len(line) = Len(s) + 1 /\ Len(s) \in Nat
        /\ line[Len(s) + 1] = "LF" /\ \A i \in 1 .. Len(s) : line[i] = s[i]
    <3>1. s \in Seq(Letters) BY DEF Letters
    <3> QED BY <3>1, LineFeed
  <2> HIDE DEF line
  <2>2. ~EndsWithCrlf(line)
    <3> SUFFICES ASSUME EndsWithCrlf(line) PROVE FALSE OBVIOUS
    <3>1. Len(line) >= 2 /\ SubSeq(line, Len(line) - 1, Len(line)) = <<"CR", "LF">> BY DEF EndsWithCrlf
    <3>2. SubSeq(line, Len(line) - 1, Len(line))[1] = line[Len(line) - 1] BY <2>1, <3>1
    <3>6. <<"CR", "LF">>[1] = "CR" OBVIOUS
    <3>7. line[Len(line) - 1] = "CR" BY <3>1, <3>2, <3>6, Zenon
    <3>3. line[Len(s)] = "CR" BY <2>1, <3>7
    <3>4. Len(s) \in 1 .. Len(s) BY <2>1, <3>1
    <3>5. s[Len(s)] # "CR" BY <3>4
    <3> QED BY <2>1, <3>3, <3>4, <3>5
  <2>4. SubSeq(line, 1, Len(line) - 1) = s
    BY <2>1
  <2> QED BY <1>2, <2>2, <2>4 DEF line
<1> QED BY <1>1, <1>2

\* The server reads a line of a body as the client means it, or gives the message up; it never takes it for the end.
LEMMA LineRead ==
    ASSUME NEW text \in BodyLines, NEW ending \in {<<"CR", "LF">>, <<"LF">>}, NEW raw \in Seq(Letters),
           NEW tooLarge \in BOOLEAN
    PROVE  LET r == ReadLine(Stuffed(text) \o ending, raw, tooLarge)
           IN  /\ ~r.ended /\ r.tooLarge \in BOOLEAN /\ r.raw \in Seq(Letters)
               /\ ~r.tooLarge => ~tooLarge /\ r.raw = raw \o Append(text, "LF")
<1> DEFINE line == Stuffed(text) \o ending
           limit == LineLimit(tooLarge)
           cut == Len(line) > limit
           kept == IF cut THEN SubSeq(line, 1, limit) ELSE line
           crlf == EndsWithCrlf(kept)
           words == SubSeq(kept, 1, Len(kept) - IF crlf THEN 2 ELSE 1)
           added == Append(StripDot(words), "LF")
           over == tooLarge \/ cut \/ Len(raw) + Len(added) > InputLimit
           kept2 == IF over THEN <<>> ELSE raw \o added
           r == ReadLine(line, raw, tooLarge)
<1>0. text \in Seq(STRING \ {"CR", "LF"})
  BY SmtpAssumption
<1>1. limit \in Nat /\ limit >= 3
  BY Limits
<1>2. /\ line \in Seq(Letters) /\ kept \in Seq(Letters) /\ Len(kept) >= 1
      /\ ~(Len(kept) = 3 /\ kept[1] = "." /\ kept[2] = "CR")
  <2> HIDE DEF limit
  <2> QED BY <1>0, <1>1, NotTheEnd
<1>3. ~(crlf /\ words = <<".">>)
  <2> SUFFICES ASSUME crlf, words = <<".">> PROVE FALSE OBVIOUS
  <2>1. SubSeq(kept, 1, Len(kept) - 2) = <<".">> OBVIOUS
  <2> HIDE DEF kept
  <2>2. Len(kept) = 3 /\ kept[1] = "." /\ kept[2] = "CR" BY <1>2, <2>1, DotAlone
  <2> QED BY <1>2, <2>2
<1>4. r = [ended |-> FALSE, raw |-> kept2, tooLarge |-> over]
  <2>1. r = IF crlf /\ words = <<".">> THEN [ended |-> TRUE, raw |-> raw, tooLarge |-> tooLarge]
            ELSE [ended |-> FALSE, raw |-> kept2, tooLarge |-> over]
    BY DEF ReadLine
  <2> HIDE DEF r, crlf, words, kept2, over
  <2> QED BY <1>3, <2>1
<1>5. ~over => ~tooLarge /\ ~cut
  OBVIOUS
<1>6. words \in Seq(Letters)
  <2>1. Len(kept) \in Nat /\ Len(kept) >= 1 BY <1>2
  <2> HIDE DEF kept
  <2>2. CASE crlf
    <3>1. Len(kept) >= 2 BY <2>2 DEF EndsWithCrlf
    <3>2. words = SubSeq(kept, 1, Len(kept) - 2) BY <2>2
    <3> QED BY <1>2, <2>1, <3>1, <3>2
  <2>3. CASE ~crlf
    <3>2. words = SubSeq(kept, 1, Len(kept) - 1) BY <2>3
    <3> QED BY <1>2, <2>1, <3>2
  <2> QED BY <2>2, <2>3
<1>7. added \in Seq(Letters)
  <2> HIDE DEF words
  <2>1. StripDot(words) \in Seq(Letters) BY <1>6 DEF StripDot
  <2> QED BY <2>1 DEF Letters
<1>8. ~cut => words = Stuffed(text)
  <2> DEFINE s == Stuffed(text)
  <2>1. s \in Seq(STRING \ {"CR", "LF"}) BY <1>0, StuffedText
  <2> HIDE DEF s
  <2>2. SubSeq(s \o ending, 1, Len(s \o ending) - IF EndsWithCrlf(s \o ending) THEN 2 ELSE 1) = s
    BY <2>1, WholeLine
  <2> QED BY <2>2 DEF s
<1>9. ~cut => added = Append(text, "LF")
  <2>1. StripDot(Stuffed(text)) = text BY <1>0, StuffedText
  <2> HIDE DEF words, cut
  <2> QED BY <1>8, <2>1
<1> HIDE DEF r, over, cut, added, words
<1>10. kept2 \in Seq(Letters)
  BY <1>7
<1>11. ~over => kept2 = raw \o Append(text, "LF")
  BY <1>5, <1>9
<1>12. over \in BOOLEAN BY DEF over
<1> HIDE DEF kept2
<1>13. ~r.ended /\ r.raw = kept2 /\ r.tooLarge = over
  BY <1>4
<1> QED BY <1>5, <1>10, <1>11, <1>12, <1>13 DEF r, line

\* The client's terminator is always read as the end of the message.
LEMMA EndRead ==
    ASSUME NEW raw, NEW tooLarge \in BOOLEAN
    PROVE  ReadLine(Terminator, raw, tooLarge) = [ended |-> TRUE, raw |-> raw, tooLarge |-> tooLarge]
<1> DEFINE line == <<".", "CR", "LF">>
           limit == LineLimit(tooLarge)
<1>1. Len(line) = 3 /\ SubSeq(line, 2, 3) = <<"CR", "LF">> /\ SubSeq(line, 1, 1) = <<".">>
  <2> DEFINE S == {".", "CR", "LF"}
  <2>1. line \in Seq(S) /\ Len(line) = 3 /\ line[1] = "." /\ line[2] = "CR" /\ line[3] = "LF" OBVIOUS
  <2> HIDE DEF line, S
  <2> DEFINE x == SubSeq(line, 2, 3)  y == SubSeq(line, 1, 1)
  <2>6. x \in Seq(S) /\ Len(x) = 2 BY <2>1
  <2>7. x[1] = line[2] /\ x[2] = line[3] BY <2>1
  <2>2. x \in Seq(S) /\ Len(x) = 2 /\ x[1] = "CR" /\ x[2] = "LF" BY <2>1, <2>6, <2>7, Zenon
  <2>3. y \in Seq(S) /\ Len(y) = 1 /\ y[1] = "." BY <2>1
  <2> HIDE DEF x, y
  <2>4. x = <<"CR", "LF">> BY <2>2
  <2>5. y = <<".">> BY <2>3
  <2> QED BY <2>1, <2>4, <2>5 DEF x, y
<1>2. limit \in Nat /\ limit >= 3 BY Limits
<1> HIDE DEF line, limit
<1>3. ~(Len(line) > limit) BY <1>1, <1>2
<1>4. EndsWithCrlf(line) BY <1>1 DEF EndsWithCrlf
<1>5. SubSeq(line, 1, Len(line) - IF EndsWithCrlf(line) THEN 2 ELSE 1) = <<".">>
  BY <1>1, <1>4
<1>6. ReadLine(line, raw, tooLarge) = [ended |-> TRUE, raw |-> raw, tooLarge |-> tooLarge]
  BY <1>3, <1>4, <1>5 DEF ReadLine, limit
<1> QED BY <1>6 DEF Terminator, line

-----------------------------------------------------------------------------
\* The addresses an envelope may have, the ones a header may add, and the mailboxes of all of them.
Addresses == {Address(words) : words \in {w \in Commands : Len(w) = 2}}
Known == Addresses \cup {[box |-> "b", form |-> "plain"]}
Boxes == {MailboxKey(a) : a \in Known} \cup {AllMailbox}

\* A transaction has a sender, a sequence of at most one, and recipients, none before the sender.
Transaction(t) ==
    /\ t = [from |-> t.from, recipients |-> t.recipients]
    /\ t.from \in {<<>>} \cup {<<a>> : a \in Addresses}
    /\ t.recipients \in Seq(Addresses)
    /\ t.from = <<>> => t.recipients = <<>>

\* The two sides of the connection.
SessionOK ==
    /\ DOMAIN smtp = {"mode", "greeted", "transaction", "raw", "tooLarge"}
    /\ DOMAIN client = {"transaction", "meant", "toSend", "ended"}
    /\ smtp.mode \in {"command", "data", "ended", "filing", "closed"}
    /\ smtp.raw \in Seq(Letters) /\ smtp.tooLarge \in BOOLEAN
    /\ client.meant \in Seq(Letters) /\ client.toSend \in Seq(BodyLines) /\ client.ended \in BOOLEAN
    /\ Transaction(smtp.transaction)

\* They agree on the transaction and on where they are in it.
AgreeOK ==
    /\ client.transaction = smtp.transaction
    /\ client.ended <=> smtp.mode \in {"ended", "filing"}
    /\ smtp.mode # "data" => client.toSend = <<>>
    /\ smtp.mode \in {"command", "closed"} => client.meant = <<>>
    /\ smtp.mode \in {"data", "ended"} => smtp.transaction.from # <<>>
    /\ smtp.mode \in {"data", "ended"} /\ ~smtp.tooLarge => smtp.raw = client.meant

\* A copy of the batch's message is in a mailbox.
Stored(box) == \E c \in copies : c.box = box /\ c.message.body = job.msgs[1].body

\* The message being filed is the one taken last.
BatchOK ==
    /\ DOMAIN job = {"pc", "msgs", "at", "left", "written", "stuck", "result"}
    /\ job.msgs = <<job.msgs[1]>> /\ taken = <<taken[1]>>
    /\ taken[1].meant.to = job.msgs[1].to /\ taken[1].meant.body = job.msgs[1].body
    /\ {job.msgs[1].to, job.msgs[1].cc, job.msgs[1].bcc} \subseteq Seq(Known)

\* Every mailbox either has its copy or is still to be written, and all of them have theirs at the end.
CopiesOK ==
    /\ job.at = 1 /\ job.pc \in {"check", "store", "undo", "done"}
    /\ job.pc \in {"check", "store"} => job.result = "none"
    /\ job.pc = "undo" => job.result = "err"
    /\ job.pc = "store" =>
          /\ job.left # <<>> /\ job.left \in Seq(Boxes)
          /\ \A box \in ToSet(Targets(job.msgs[1])) : box \in ToSet(job.left) \/ Stored(box)
    /\ job.pc = "done" /\ job.result = "ok" => \A box \in ToSet(Targets(job.msgs[1])) : Stored(box)

\* Nothing is being filed outside "filing", what was taken is what was meant, and an acceptance is the answer to it.
TakenOK ==
    /\ smtp.mode = "filing" \/ smtpReply = "250" => BatchOK /\ CopiesOK
    /\ smtp.mode # "filing" => job.pc \in {"idle", "done"}
    /\ \A t \in ToSet(taken) : t.got = t.meant
    /\ smtpReply = "250" => smtp.mode = "command" /\ job.pc = "done" /\ job.result = "ok"

SmtpInv == SessionOK /\ AgreeOK /\ TakenOK

\* A sequence behind one element.
LEMMA Behind ==
    ASSUME NEW T, NEW a \in Seq(T), Len(a) = 1, NEW q \in Seq(T)
    PROVE  /\ a \o q \in Seq(T) /\ Len(a \o q) = Len(q) + 1 /\ Len(q) \in Nat
           /\ \A i \in 1 .. Len(q) : (a \o q)[i + 1] = q[i]
<1>1. Len(a) \in Nat /\ Len(q) \in Nat
  BY LenProperties
<1>2. /\ a \o q \in Seq(T) /\ Len(a \o q) = Len(a) + Len(q)
      /\ \A i \in 1 .. Len(a) + Len(q) : (a \o q)[i] = IF i <= Len(a) THEN a[i] ELSE q[i - Len(a)]
  BY ConcatProperties
<1> QED BY <1>1, <1>2

\* A finite set made into a sequence keeps all its elements.
LEMMA SetAsSequence ==
    ASSUME NEW S, IsFiniteSet(S)
    PROVE  SetToSeq(S) \in Seq(S) /\ \A x \in S : \E i \in 1 .. Len(SetToSeq(S)) : SetToSeq(S)[i] = x
<1> DEFINE n == Cardinality(S)
           f == SetToSeq(S)
<1>1. n \in Nat /\ ExistsBijection(1 .. n, S)
  BY FS_CardinalityType
<1>2. \E g \in [1 .. n -> S] : IsInjective(g)
  BY <1>1 DEF ExistsBijection, Bijection, Injection
<1>3. f \in [1 .. n -> S] /\ IsInjective(f)
  BY <1>2 DEF SetToSeq
<1>4. f \in Injection(1 .. n, S)
  BY <1>3 DEF Injection
<1>5. Cardinality(1 .. n) = n
  <2>1. Cardinality(1 .. n) = IF 1 > n THEN 0 ELSE n - 1 + 1 BY <1>1, FS_Interval
  <2> QED BY <1>1, <2>1
<1> HIDE DEF f, n
<1>6. f \in Surjection(1 .. n, S)
  <2>1. Cardinality(1 .. n) = Cardinality(S) BY <1>5 DEF n
  <2> QED BY <1>4, <2>1, FS_Injection
<1>7. f \in Seq(S) /\ Len(f) = n
  BY <1>1, <1>3
<1> QED BY <1>6, <1>7 DEF Surjection, f

\* The mailbox of every recipient of the envelope is among the targets.
LEMMA TargetsHold ==
    ASSUME NEW m, {m.to, m.cc, m.bcc} \subseteq Seq(Known)
    PROVE  /\ Targets(m) \in Seq(Boxes) /\ Targets(m) # <<>>
           /\ \A a \in ToSet(m.to) : MailboxKey(a) \in ToSet(Targets(m))
<1> DEFINE S == Known
           r == Recipients(m)
           box == Mailboxes(m)
           key == [i \in 1 .. Len(r) |-> MailboxKey(r[i])]
           q == SetToSeq(box)
           T == Boxes
           all == <<AllMailbox>>
<1> HIDE DEF S
<1>0. m.to \in Seq(S) /\ m.cc \in Seq(S) /\ m.bcc \in Seq(S)
  BY DEF S
<1>1. r \in Seq(S) /\ Len(r) >= Len(m.to) /\ \A i \in 1 .. Len(m.to) : r[i] = m.to[i]
  <2> DEFINE to == m.to  cc == m.cc  bcc == m.bcc  x == to \o cc
  <2>1. r = x \o bcc BY DEF Recipients
  <2>2. to \in Seq(S) /\ cc \in Seq(S) /\ bcc \in Seq(S) BY <1>0
  <2> HIDE DEF to, cc, bcc
  <2>3. x \in Seq(S) /\ Len(x) = Len(to) + Len(cc) /\ Len(to) \in Nat /\ Len(cc) \in Nat /\ \A i \in 1 .. Len(to) : x[i] = to[i]
    BY <2>2
  <2> HIDE DEF x, r
  <2>4. r \in Seq(S) /\ Len(r) = Len(x) + Len(bcc) /\ Len(bcc) \in Nat BY <2>1, <2>2, <2>3
  <2>5. \A i \in 1 .. Len(x) : r[i] = x[i] BY <2>1, <2>2, <2>3
  <2> QED BY <2>3, <2>4, <2>5 DEF to
<1>2. box = {MailboxKey(r[i]) : i \in 1 .. Len(r)}
  BY <1>1 DEF Mailboxes, ToSet
<1>3. IsFiniteSet(box)
  <2> HIDE DEF r, box
  <2>1. key \in Surjection(1 .. Len(r), box)
    BY <1>2 DEF Surjection
  <2> HIDE DEF key
  <2>2. IsFiniteSet(1 .. Len(r)) BY <1>1, FS_Interval
  <2> QED BY <2>1, <2>2, FS_Surjection
<1>4. q \in Seq(box) /\ \A x \in box : \E i \in 1 .. Len(q) : q[i] = x
  <2> HIDE DEF box
  <2> QED BY <1>3, SetAsSequence
<1>5. Targets(m) = all \o q
  BY DEF Targets
<1> HIDE DEF r, box, q
<1>6. q \in Seq(T) /\ all \in Seq(T) /\ Len(all) = 1
  <2>1. AllMailbox \in T BY DEF Boxes
  <2>2. box \subseteq T
    <3>1. \A i \in 1 .. Len(r) : r[i] \in S BY <1>1
    <3> QED BY <1>2, <3>1 DEF Boxes, S
  <2> HIDE DEF T
  <2> QED BY <1>4, <2>1, <2>2
<1> HIDE DEF T, all
<1>7. Targets(m) \in Seq(T) /\ Len(Targets(m)) = Len(q) + 1 /\ Len(q) \in Nat /\ \A i \in 1 .. Len(q) : Targets(m)[i + 1] = q[i]
  <2> DEFINE t == all \o q
  <2>1. t \in Seq(T) /\ Len(t) = Len(q) + 1 /\ Len(q) \in Nat /\ \A i \in 1 .. Len(q) : t[i + 1] = q[i]
    BY <1>6, Behind
  <2> HIDE DEF t
  <2>3. Targets(m) = t BY <1>5 DEF t
  <2> QED BY <2>1, <2>3
<1>8. \A a \in ToSet(m.to) : MailboxKey(a) \in ToSet(Targets(m))
  <2> SUFFICES ASSUME NEW i \in 1 .. Len(m.to) PROVE MailboxKey(m.to[i]) \in ToSet(Targets(m))
    BY <1>0 DEF ToSet
  <2>1. i \in 1 .. Len(r) /\ r[i] = m.to[i] BY <1>0, <1>1
  <2>2. MailboxKey(m.to[i]) \in box BY <1>2, <2>1
  <2>3. PICK k \in 1 .. Len(q) : q[k] = MailboxKey(m.to[i]) BY <1>4, <2>2
  <2>4. k + 1 \in DOMAIN Targets(m) /\ Targets(m)[k + 1] = MailboxKey(m.to[i]) BY <1>7, <2>3
  <2> QED BY <2>4 DEF ToSet
<1> QED BY <1>7, <1>8 DEF T

-----------------------------------------------------------------------------
\* The branches of a command: it changes nothing, or it is one of the commands that do and its conditions hold.
LEMMA Branches ==
    ASSUME NEW words
    PROVE  LET h == Handle(words)
               t == smtp.transaction
               is(verbs) == words # <<>> /\ words[1] \in verbs
           IN  \/ \E code \in {"500", "501", "502", "503", "555"} : h = [code |-> code, smtp |-> smtp]
               \/ is({"NOOP"}) /\ h = [code |-> "250", smtp |-> smtp]
               \/ /\ is({"EHLO", "HELO"})
                  /\ h = [code |-> "250", smtp |-> [smtp EXCEPT !.greeted = TRUE, !.transaction = NoTransaction]]
               \/ is({"RSET"}) /\ h = [code |-> "250", smtp |-> [smtp EXCEPT !.transaction = NoTransaction]]
               \/ /\ is({"MAIL"}) /\ t.from = <<>> /\ ParseAddress(words, TRUE) \in {"address", "null"}
                  /\ h = [code |-> "250", smtp |-> [smtp EXCEPT !.transaction.from = <<Address(words)>>]]
               \/ /\ is({"RCPT"}) /\ t.from # <<>> /\ ParseAddress(words, FALSE) = "address"
                  /\ h = [code |-> "250", smtp |-> [smtp EXCEPT !.transaction.recipients = Append(@, Address(words))]]
               \/ /\ is({"DATA"}) /\ t.from # <<>>
                  /\ h = [code |-> "354", smtp |-> [smtp EXCEPT !.mode = "data", !.raw = <<>>, !.tooLarge = FALSE]]
               \/ is({"QUIT"}) /\ h = [code |-> "221", smtp |-> [smtp EXCEPT !.mode = "closed"]]
<1>1. ParseAddress(words, TRUE) \in {"address", "null", "501", "555"}
  BY DEF ParseAddress
<1>2. ParseAddress(words, FALSE) \in {"address", "501", "555"}
  BY DEF ParseAddress
<1> DEFINE v == words[1]
           p == ParseAddress(words, TRUE)
           q == ParseAddress(words, FALSE)
           from == [smtp EXCEPT !.transaction.from = <<Address(words)>>]
           rcpt == [smtp EXCEPT !.transaction.recipients = Append(@, Address(words))]
           hello == [smtp EXCEPT !.greeted = TRUE, !.transaction = NoTransaction]
           reset == [smtp EXCEPT !.transaction = NoTransaction]
           data == [smtp EXCEPT !.mode = "data", !.raw = <<>>, !.tooLarge = FALSE]
           closed == [smtp EXCEPT !.mode = "closed"]
           h == Handle(words)
<1>3. h = IF words = <<>> THEN [code |-> "500", smtp |-> smtp]
          ELSE IF ArgumentError(words) THEN [code |-> "501", smtp |-> smtp]
          ELSE CASE v \in {"EHLO", "HELO"} -> [code |-> "250", smtp |-> hello]
                 [] v = "MAIL" ->
                      IF ~smtp.greeted \/ smtp.transaction.from # <<>> THEN [code |-> "503", smtp |-> smtp]
                      ELSE IF p \in {"address", "null"} THEN [code |-> "250", smtp |-> from]
                      ELSE [code |-> p, smtp |-> smtp]
                 [] v = "RCPT" ->
                      IF smtp.transaction.from = <<>> THEN [code |-> "503", smtp |-> smtp]
                      ELSE IF q = "address" THEN [code |-> "250", smtp |-> rcpt]
                      ELSE [code |-> q, smtp |-> smtp]
                 [] v = "DATA" ->
                      IF smtp.transaction.from = <<>> \/ smtp.transaction.recipients = <<>> THEN [code |-> "503", smtp |-> smtp]
                      ELSE [code |-> "354", smtp |-> data]
                 [] v = "RSET" -> [code |-> "250", smtp |-> reset]
                 [] v = "NOOP" -> [code |-> "250", smtp |-> smtp]
                 [] v = "QUIT" -> [code |-> "221", smtp |-> closed]
                 [] OTHER -> [code |-> "502", smtp |-> smtp]
  BY DEF Handle
<1> DEFINE same == \E code \in {"500", "501", "502", "503", "555"} : h = [code |-> code, smtp |-> smtp]
           empty == words = <<>>
           none == smtp.transaction.from = <<>>
<1> HIDE DEF v, p, q, from, rcpt, hello, reset, data, closed, h, empty, none
<1>4. empty => same
  BY <1>3 DEF empty
<1>5. ArgumentError(words) => same
  BY <1>3 DEF empty
<1> DEFINE plain == ~empty /\ ~ArgumentError(words)
<1>6. plain /\ v \in {"EHLO", "HELO"} => h = [code |-> "250", smtp |-> hello]
  BY <1>3 DEF empty
<1>7. plain /\ v = "MAIL" => same \/ (none /\ p \in {"address", "null"} /\ h = [code |-> "250", smtp |-> from])
  <2> SUFFICES ASSUME plain, v = "MAIL" PROVE same \/ (none /\ p \in {"address", "null"} /\ h = [code |-> "250", smtp |-> from])
    OBVIOUS
  <2>1. h = IF ~smtp.greeted \/ ~none THEN [code |-> "503", smtp |-> smtp]
            ELSE IF p \in {"address", "null"} THEN [code |-> "250", smtp |-> from] ELSE [code |-> p, smtp |-> smtp]
    BY <1>3 DEF empty, none
  <2>2. p \in {"address", "null", "501", "555"} BY <1>1 DEF p
  <2>3. CASE ~smtp.greeted \/ ~none BY <2>1, <2>3
  <2>4. CASE smtp.greeted /\ none /\ p \in {"address", "null"} BY <2>1, <2>4
  <2>5. CASE smtp.greeted /\ none /\ p \notin {"address", "null"}
    <3>1. h = [code |-> p, smtp |-> smtp] BY <2>1, <2>5
    <3> QED BY <2>2, <2>5, <3>1
  <2> QED BY <2>3, <2>4, <2>5
<1>8. plain /\ v = "RCPT" => same \/ (~none /\ q = "address" /\ h = [code |-> "250", smtp |-> rcpt])
  <2> SUFFICES ASSUME plain, v = "RCPT" PROVE same \/ (~none /\ q = "address" /\ h = [code |-> "250", smtp |-> rcpt])
    OBVIOUS
  <2>1. h = IF none THEN [code |-> "503", smtp |-> smtp]
            ELSE IF q = "address" THEN [code |-> "250", smtp |-> rcpt] ELSE [code |-> q, smtp |-> smtp]
    BY <1>3 DEF empty, none
  <2>2. q \in {"address", "501", "555"} BY <1>2 DEF q
  <2>3. CASE none BY <2>1, <2>3
  <2>4. CASE ~none /\ q = "address" BY <2>1, <2>4
  <2>5. CASE ~none /\ q # "address"
    <3>1. h = [code |-> q, smtp |-> smtp] BY <2>1, <2>5
    <3> QED BY <2>2, <2>5, <3>1
  <2> QED BY <2>3, <2>4, <2>5
<1>9. plain /\ v = "DATA" => same \/ (~none /\ h = [code |-> "354", smtp |-> data])
  <2> SUFFICES ASSUME plain, v = "DATA" PROVE same \/ (~none /\ h = [code |-> "354", smtp |-> data])
    OBVIOUS
  <2>1. h = IF none \/ smtp.transaction.recipients = <<>> THEN [code |-> "503", smtp |-> smtp] ELSE [code |-> "354", smtp |-> data]
    BY <1>3 DEF empty, none
  <2> QED BY <2>1
<1>10. plain /\ v = "RSET" => h = [code |-> "250", smtp |-> reset]
  BY <1>3 DEF empty
<1>11. plain /\ v = "NOOP" => h = [code |-> "250", smtp |-> smtp]
  BY <1>3 DEF empty
<1>12. plain /\ v = "QUIT" => h = [code |-> "221", smtp |-> closed]
  BY <1>3 DEF empty
<1>13. plain /\ v \notin {"EHLO", "HELO", "MAIL", "RCPT", "DATA", "RSET", "NOOP", "QUIT"} => h = [code |-> "502", smtp |-> smtp]
  BY <1>3 DEF empty
<1> QED
  <2>1. CASE v \in {"EHLO", "HELO"} /\ plain BY <2>1, <1>6 DEF h, hello, v, empty
  <2>2. CASE v = "MAIL" /\ plain BY <2>2, <1>7 DEF h, from, v, p, none, empty
  <2>3. CASE v = "RCPT" /\ plain BY <2>3, <1>8 DEF h, rcpt, v, q, none, empty
  <2>4. CASE v = "DATA" /\ plain BY <2>4, <1>9 DEF h, data, v, none, empty
  <2>5. CASE v = "RSET" /\ plain BY <2>5, <1>10 DEF h, reset, v, empty
  <2>6. CASE v = "NOOP" /\ plain BY <2>6, <1>11 DEF h, v, empty
  <2>7. CASE v = "QUIT" /\ plain BY <2>7, <1>12 DEF h, closed, v, empty
  <2>8. CASE v \notin {"EHLO", "HELO", "MAIL", "RCPT", "DATA", "RSET", "NOOP", "QUIT"} /\ plain
    <3>1. same BY <2>8, <1>13
    <3> QED BY <3>1 DEF h
  <2>9. CASE same BY <2>9 DEF h
  <2> QED BY <1>4, <1>5, <2>9, <2>1, <2>2, <2>3, <2>4, <2>5, <2>6, <2>7, <2>8

\* A command leaves the session well formed, and what its reply tells the client of the transaction is what the
\* server has made of it.
LEMMA CommandRead ==
    ASSUME SessionOK, AgreeOK, smtp.mode = "command", NEW words \in Commands
    PROVE  LET h == Handle(words)
           IN  /\ DOMAIN h.smtp = {"mode", "greeted", "transaction", "raw", "tooLarge"}
               /\ h.smtp.raw \in Seq(Letters) /\ h.smtp.tooLarge \in BOOLEAN /\ Transaction(h.smtp.transaction)
               /\ h.code # "354" =>
                    /\ h.smtp.mode \in {"command", "closed"}
                    /\ h.smtp.transaction = IF words = <<>> THEN client.transaction ELSE Told(words, h.code)
               /\ h.code = "354" =>
                    /\ h.smtp.mode = "data" /\ h.smtp.raw = <<>> /\ h.smtp.transaction = smtp.transaction
                    /\ smtp.transaction.from # <<>>
<1> DEFINE h == Handle(words)
           t == smtp.transaction
           address == Address(words)
           Good(n) == /\ DOMAIN n = {"mode", "greeted", "transaction", "raw", "tooLarge"}
                      /\ n.raw \in Seq(Letters) /\ n.tooLarge \in BOOLEAN /\ Transaction(n.transaction)
<1>1. Good(smtp) /\ client.transaction = t
  BY DEF SessionOK, AgreeOK
<1>2. /\ t = [from |-> t.from, recipients |-> t.recipients] /\ t.from \in {<<>>} \cup {<<a>> : a \in Addresses}
      /\ t.recipients \in Seq(Addresses) /\ (t.from = <<>> => t.recipients = <<>>)
  BY <1>1 DEF Transaction
<1>3. Transaction(NoTransaction)
  BY DEF Transaction, NoTransaction
<1>4. CASE \E code \in {"500", "501", "502", "503", "555"} : h = [code |-> code, smtp |-> smtp]
  <2>1. PICK code \in {"500", "501", "502", "503", "555"} : h = [code |-> code, smtp |-> smtp] BY <1>4
  <2>2. h.code = code /\ h.smtp = smtp BY <2>1
  <2>3. Told(words, h.code) = client.transaction BY <2>2 DEF Told
  <2> QED BY <1>1, <2>2, <2>3
<1>5. CASE words # <<>> /\ words[1] = "NOOP" /\ h = [code |-> "250", smtp |-> smtp]
  <2>2. h.code = "250" /\ h.smtp = smtp BY <1>5
  <2>3. Told(words, h.code) = client.transaction BY <1>5, <2>2 DEF Told
  <2> QED BY <1>1, <2>2, <2>3
<1>6. CASE /\ words # <<>> /\ words[1] \in {"EHLO", "HELO"}
           /\ h = [code |-> "250", smtp |-> [smtp EXCEPT !.greeted = TRUE, !.transaction = NoTransaction]]
  <2> DEFINE n == [smtp EXCEPT !.greeted = TRUE, !.transaction = NoTransaction]
  <2>1. n.transaction = NoTransaction /\ n.mode = "command" /\ n.raw = smtp.raw /\ n.tooLarge = smtp.tooLarge /\ DOMAIN n = DOMAIN smtp
    BY <1>1
  <2> HIDE DEF n
  <2>2. h.code = "250" /\ h.smtp = n BY <1>6 DEF n
  <2>3. Told(words, h.code) = NoTransaction BY <1>6, <2>2 DEF Told
  <2>4. Good(n) BY <1>1, <1>3, <2>1
  <2> QED BY <1>6, <2>1, <2>2, <2>3, <2>4
<1>7. CASE words # <<>> /\ words[1] = "RSET" /\ h = [code |-> "250", smtp |-> [smtp EXCEPT !.transaction = NoTransaction]]
  <2> DEFINE n == [smtp EXCEPT !.transaction = NoTransaction]
  <2>1. n.transaction = NoTransaction /\ n.mode = "command" /\ n.raw = smtp.raw /\ n.tooLarge = smtp.tooLarge /\ DOMAIN n = DOMAIN smtp
    BY <1>1
  <2> HIDE DEF n
  <2>2. h.code = "250" /\ h.smtp = n BY <1>7 DEF n
  <2>3. Told(words, h.code) = NoTransaction BY <1>7, <2>2 DEF Told
  <2>4. Good(n) BY <1>1, <1>3, <2>1
  <2> QED BY <1>7, <2>1, <2>2, <2>3, <2>4
<1>8. CASE /\ words # <<>> /\ words[1] = "MAIL" /\ t.from = <<>> /\ ParseAddress(words, TRUE) \in {"address", "null"}
           /\ h = [code |-> "250", smtp |-> [smtp EXCEPT !.transaction.from = <<address>>]]
  <2> DEFINE n == [smtp EXCEPT !.transaction.from = <<address>>]
             one == [from |-> <<address>>, recipients |-> <<>>]
  <2>1. address \in Addresses
    <3>1. Len(words) = 2 BY <1>8 DEF ParseAddress
    <3> QED BY <3>1 DEF Addresses
  <2>2. Transaction(one) BY <2>1 DEF Transaction
  <2>3. n.mode = "command" /\ n.raw = smtp.raw /\ n.tooLarge = smtp.tooLarge /\ DOMAIN n = DOMAIN smtp
        /\ n.transaction = [t EXCEPT !.from = <<address>>]
    BY <1>1
  <2>4. [t EXCEPT !.from = <<address>>] = one BY <1>2, <1>8
  <2> HIDE DEF n, one
  <2>5. h.code = "250" /\ h.smtp = n BY <1>8 DEF n
  <2>6. Told(words, h.code) = one BY <1>8, <2>5 DEF Told, one
  <2>7. Good(n) BY <1>1, <2>2, <2>3, <2>4
  <2> QED BY <1>8, <2>3, <2>4, <2>5, <2>6, <2>7
<1>9. CASE /\ words # <<>> /\ words[1] = "RCPT" /\ t.from # <<>> /\ ParseAddress(words, FALSE) = "address"
           /\ h = [code |-> "250", smtp |-> [smtp EXCEPT !.transaction.recipients = Append(@, address)]]
  <2> DEFINE n == [smtp EXCEPT !.transaction.recipients = Append(@, address)]
             more == [t EXCEPT !.recipients = Append(@, address)]
  <2>1. address \in Addresses
    <3>1. Len(words) = 2 BY <1>9 DEF ParseAddress
    <3> QED BY <3>1 DEF Addresses
  <2>2. more = [from |-> t.from, recipients |-> Append(t.recipients, address)]
    <3> DEFINE f == t.from  r == t.recipients  a == Append(r, address)
    <3>1. t = [from |-> f, recipients |-> r] BY <1>2
    <3>2. more = [t EXCEPT !.recipients = a] OBVIOUS
    <3> HIDE DEF t, f, r, a, more
    <3>3. [t EXCEPT !.recipients = a] = [from |-> f, recipients |-> a] BY <3>1
    <3> QED BY <3>2, <3>3 DEF f, a, r
  <2>3. Append(t.recipients, address) \in Seq(Addresses) BY <1>2, <2>1
  <2>4. Transaction(more)
    <3>1. more.from = t.from /\ more.recipients = Append(t.recipients, address) BY <2>2
    <3> HIDE DEF more
    <3> QED BY <1>2, <1>9, <2>2, <2>3, <3>1 DEF Transaction
  <2>5. n.mode = "command" /\ n.raw = smtp.raw /\ n.tooLarge = smtp.tooLarge /\ DOMAIN n = DOMAIN smtp /\ n.transaction = more
    BY <1>1
  <2> HIDE DEF n
  <2>6. h.code = "250" /\ h.smtp = n BY <1>9 DEF n
  <2>7. Told(words, h.code) = [client.transaction EXCEPT !.recipients = Append(@, address)] BY <1>9, <2>6 DEF Told
  <2>8. Told(words, h.code) = more BY <1>1, <2>7
  <2> HIDE DEF more
  <2>9. Good(n) BY <1>1, <2>4, <2>5
  <2> QED BY <1>9, <2>5, <2>6, <2>8, <2>9
<1>10. CASE /\ words # <<>> /\ words[1] = "DATA" /\ t.from # <<>>
            /\ h = [code |-> "354", smtp |-> [smtp EXCEPT !.mode = "data", !.raw = <<>>, !.tooLarge = FALSE]]
  <2> DEFINE n == [smtp EXCEPT !.mode = "data", !.raw = <<>>, !.tooLarge = FALSE]
  <2>1. n.mode = "data" /\ n.raw = <<>> /\ n.tooLarge = FALSE /\ DOMAIN n = DOMAIN smtp /\ n.transaction = t
    BY <1>1
  <2> HIDE DEF n
  <2>2. h.code = "354" /\ h.smtp = n BY <1>10 DEF n
  <2>4. n.raw \in Seq(Letters) BY <2>1
  <2>5. n.tooLarge \in BOOLEAN BY <2>1, Zenon
  <2>3. Good(n) BY <1>1, <2>1, <2>4, <2>5, Zenon
  <2> QED BY <1>10, <2>1, <2>2, <2>3
<1>11. CASE words # <<>> /\ words[1] = "QUIT" /\ h = [code |-> "221", smtp |-> [smtp EXCEPT !.mode = "closed"]]
  <2> DEFINE n == [smtp EXCEPT !.mode = "closed"]
  <2>1. n.mode = "closed" /\ n.raw = smtp.raw /\ n.tooLarge = smtp.tooLarge /\ DOMAIN n = DOMAIN smtp /\ n.transaction = t
    BY <1>1
  <2> HIDE DEF n
  <2>2. h.code = "221" /\ h.smtp = n BY <1>11 DEF n
  <2>3. Told(words, h.code) = client.transaction BY <2>2 DEF Told
  <2>4. Good(n) BY <1>1, <2>1
  <2> QED BY <1>1, <1>11, <2>1, <2>2, <2>3, <2>4
<1> QED
  BY <1>4, <1>5, <1>6, <1>7, <1>8, <1>9, <1>10, <1>11, Branches

-----------------------------------------------------------------------------
\* Once the outcome has been told nothing is in filing.
LEMMA Forgotten ==
    ASSUME Settle, taken' = <<>>, smtpReply' = "none", smtp'.mode # "filing"
    PROVE  TakenOK'
<1>1. job'.pc = "idle" BY DEF Settle, NoJob
<1>2. ToSet(taken') = {} BY DEF ToSet
<1> QED BY <1>1, <1>2 DEF TakenOK

\* A command keeps the two sides in agreement.
LEMMA CommandStep == SmtpInv /\ SendCommand => SmtpInv'
<1> SUFFICES ASSUME SmtpInv, SendCommand PROVE SmtpInv'
  OBVIOUS
<1>0. /\ smtp.mode = "command" /\ SessionOK /\ AgreeOK
      /\ client.meant = <<>> /\ client.toSend = <<>> /\ ~client.ended
  BY DEF SmtpInv, SendCommand, AgreeOK
<1>1. PICK words \in Commands, ending \in {<<"CR", "LF">>, <<"LF">>} :
         IF NextLine(words \o ending) # "valid"
         THEN UNCHANGED <<smtp, client>>
         ELSE LET h == Handle(words)
              IN  /\ smtp' = h.smtp
                  /\ IF h.code # "354"
                     THEN client' = [client EXCEPT !.transaction = IF words = <<>> THEN @ ELSE Told(words, h.code)]
                     ELSE \E n \in 0 .. MaxBodyLines : \E body \in [1 .. n -> BodyLines] :
                             client' = [client EXCEPT !.toSend = body]
  BY DEF SendCommand
<1>2. smtpReply' = "none" /\ taken' = <<>> /\ Settle
  BY DEF SendCommand
<1>3. SessionOK' /\ AgreeOK' /\ smtp'.mode # "filing"
  <2>1. CASE UNCHANGED <<smtp, client>>
    BY <1>0, <2>1 DEF SessionOK, AgreeOK
  <2>2. CASE ~UNCHANGED <<smtp, client>>
    <3> DEFINE h == Handle(words)
               n == h.smtp
               code == h.code
               learnt == IF words = <<>> THEN client.transaction ELSE Told(words, h.code)
    <3>1. /\ DOMAIN n = {"mode", "greeted", "transaction", "raw", "tooLarge"}
          /\ n.raw \in Seq(Letters) /\ n.tooLarge \in BOOLEAN /\ Transaction(n.transaction)
          /\ code # "354" => n.mode \in {"command", "closed"} /\ n.transaction = learnt
          /\ code = "354" => n.mode = "data" /\ n.raw = <<>> /\ n.transaction = smtp.transaction /\ smtp.transaction.from # <<>>
      BY <1>0, CommandRead
    <3>2. smtp' = n /\ IF code # "354"
                       THEN client' = [client EXCEPT !.transaction = learnt]
                       ELSE \E k \in 0 .. MaxBodyLines : \E body \in [1 .. k -> BodyLines] :
                               client' = [client EXCEPT !.toSend = body]
      BY <1>1, <2>2
    <3>3. DOMAIN client = {"transaction", "meant", "toSend", "ended"}
      BY <1>0 DEF SessionOK
    <3> HIDE DEF h, n, code, learnt
    <3>4. CASE code # "354"
      <4>1. client' = [client EXCEPT !.transaction = learnt] BY <3>2, <3>4
      <4>2. /\ client'.transaction = learnt /\ client'.meant = client.meant /\ client'.toSend = client.toSend
            /\ client'.ended = client.ended /\ DOMAIN client' = DOMAIN client
        BY <3>3, <4>1
      <4>3. smtp' = n /\ n.mode \in {"command", "closed"} /\ n.transaction = learnt BY <3>1, <3>2, <3>4
      <4>4. SessionOK' BY <1>0, <3>1, <3>3, <4>2, <4>3 DEF SessionOK
      <4>5. AgreeOK' BY <1>0, <4>2, <4>3 DEF AgreeOK
      <4> QED BY <4>3, <4>4, <4>5
    <3>5. CASE code = "354"
      <4>1. PICK k \in 0 .. MaxBodyLines : \E body \in [1 .. k -> BodyLines] : client' = [client EXCEPT !.toSend = body]
        BY <3>2, <3>5
      <4>2. PICK body \in [1 .. k -> BodyLines] : client' = [client EXCEPT !.toSend = body] BY <4>1
      <4>3. body \in Seq(BodyLines)
        <5>1. k \in Nat BY SmtpAssumption
        <5> QED BY <5>1
      <4>4. /\ client'.transaction = client.transaction /\ client'.meant = client.meant /\ client'.toSend = body
            /\ client'.ended = client.ended /\ DOMAIN client' = DOMAIN client
        BY <3>3, <4>2
      <4>5. smtp' = n /\ n.mode = "data" /\ n.raw = <<>> /\ n.transaction = smtp.transaction /\ smtp.transaction.from # <<>>
        BY <3>1, <3>2, <3>5
      <4>6. SessionOK' BY <1>0, <3>1, <3>3, <4>3, <4>4, <4>5 DEF SessionOK
      <4>7. AgreeOK' BY <1>0, <4>4, <4>5 DEF AgreeOK
      <4> QED BY <4>5, <4>6, <4>7
    <3> QED BY <3>4, <3>5
  <2> QED BY <2>1, <2>2
<1> QED BY <1>2, <1>3, Forgotten DEF SmtpInv

\* A line of the body is read as the client means it, and never for the end of the message.
LEMMA LineStep == SmtpInv /\ SendLine => SmtpInv'
<1> SUFFICES ASSUME SmtpInv, SendLine PROVE SmtpInv'
  OBVIOUS
<1> DEFINE text == Head(client.toSend)
<1>0. SessionOK /\ AgreeOK /\ TakenOK /\ smtp.mode = "data" /\ client.toSend # <<>>
  BY DEF SmtpInv, SendLine
<1>1. text \in BodyLines /\ Tail(client.toSend) \in Seq(BodyLines)
  BY <1>0 DEF SessionOK
<1>2. PICK ending \in {<<"CR", "LF">>, <<"LF">>} :
         LET r == ReadLine(Stuffed(text) \o ending, smtp.raw, smtp.tooLarge)
         IN  IF r.ended THEN smtp' = [smtp EXCEPT !.mode = "ended", !.tooLarge = r.tooLarge]
             ELSE smtp' = [smtp EXCEPT !.raw = r.raw, !.tooLarge = r.tooLarge]
  BY DEF SendLine
<1> DEFINE r == ReadLine(Stuffed(text) \o ending, smtp.raw, smtp.tooLarge)
           line == Append(text, "LF")
<1>3. /\ ~r.ended /\ r.tooLarge \in BOOLEAN /\ r.raw \in Seq(Letters)
      /\ ~r.tooLarge => ~smtp.tooLarge /\ r.raw = smtp.raw \o line
  <2> DEFINE raw == smtp.raw  large == smtp.tooLarge
  <2>1. raw \in Seq(Letters) /\ large \in BOOLEAN BY <1>0 DEF SessionOK
  <2> HIDE DEF text, raw, large
  <2>2. LET q == ReadLine(Stuffed(text) \o ending, raw, large)
        IN  /\ ~q.ended /\ q.tooLarge \in BOOLEAN /\ q.raw \in Seq(Letters)
            /\ ~q.tooLarge => ~large /\ q.raw = raw \o Append(text, "LF")
    BY <1>1, <2>1, LineRead, Zenon
  <2> QED BY <2>2 DEF raw, large
<1>4. smtp' = [smtp EXCEPT !.raw = r.raw, !.tooLarge = r.tooLarge]
  BY <1>2, <1>3
<1>5. client' = [client EXCEPT !.meant = client.meant \o line, !.toSend = Tail(client.toSend)]
  BY DEF SendLine
<1>6. line \in Seq(Letters)
  <2>1. text \in Seq(STRING \ {"CR", "LF"}) BY <1>1, SmtpAssumption
  <2> HIDE DEF text
  <2> QED BY <2>1 DEF Letters
<1> HIDE DEF r, text, line
<1>7. /\ smtp'.raw = r.raw /\ smtp'.tooLarge = r.tooLarge /\ smtp'.mode = smtp.mode /\ smtp'.transaction = smtp.transaction
      /\ DOMAIN smtp' = DOMAIN smtp
  BY <1>0, <1>4 DEF SessionOK
<1>8. /\ client'.meant = client.meant \o line /\ client'.toSend = Tail(client.toSend) /\ client'.ended = client.ended
      /\ client'.transaction = client.transaction /\ DOMAIN client' = DOMAIN client
  BY <1>0, <1>5 DEF SessionOK
<1>9. client.meant \o line \in Seq(Letters)
  BY <1>0, <1>6 DEF SessionOK
<1>10. SessionOK'
  BY <1>0, <1>1, <1>3, <1>7, <1>8, <1>9 DEF SessionOK
<1>11. AgreeOK'
  BY <1>0, <1>3, <1>7, <1>8 DEF AgreeOK
<1>12. TakenOK'
  <2>1. UNCHANGED <<smtpReply, taken, fanoutVars>> /\ smtp'.mode = "data" /\ smtpReply # "250"
    BY <1>0, <1>7 DEF SendLine, TakenOK
  <2> QED BY <1>0, <2>1 DEF TakenOK, fanoutVars
<1> QED BY <1>10, <1>11, <1>12 DEF SmtpInv

\* The terminator ends the message, whether or not it was kept.
LEMMA TerminatorStep == SmtpInv /\ SendTerminator => SmtpInv'
<1> SUFFICES ASSUME SmtpInv, SendTerminator PROVE SmtpInv'
  OBVIOUS
<1>0. SessionOK /\ AgreeOK /\ TakenOK /\ smtp.mode = "data" /\ client.toSend = <<>>
  BY DEF SmtpInv, SendTerminator
<1> DEFINE r == ReadLine(Terminator, smtp.raw, smtp.tooLarge)
<1>1. r = [ended |-> TRUE, raw |-> smtp.raw, tooLarge |-> smtp.tooLarge]
  BY <1>0, EndRead DEF SessionOK
<1>2. smtp' = [smtp EXCEPT !.mode = IF r.ended THEN "ended" ELSE "data", !.raw = r.raw, !.tooLarge = r.tooLarge]
  BY DEF SendTerminator
<1>3. client' = [client EXCEPT !.ended = TRUE]
  BY DEF SendTerminator
<1> HIDE DEF r
<1>4. r.ended /\ r.raw = smtp.raw /\ r.tooLarge = smtp.tooLarge
  BY <1>1
<1>5. /\ smtp'.raw = smtp.raw /\ smtp'.tooLarge = smtp.tooLarge /\ smtp'.mode = "ended" /\ smtp'.transaction = smtp.transaction
      /\ DOMAIN smtp' = DOMAIN smtp
  BY <1>0, <1>2, <1>4 DEF SessionOK
<1>6. /\ client'.meant = client.meant /\ client'.toSend = client.toSend /\ client'.ended
      /\ client'.transaction = client.transaction /\ DOMAIN client' = DOMAIN client /\ client'.ended \in BOOLEAN
  BY <1>0, <1>3 DEF SessionOK
<1>7. SessionOK'
  BY <1>0, <1>5, <1>6 DEF SessionOK
<1>8. AgreeOK'
  BY <1>0, <1>5, <1>6 DEF AgreeOK
<1>9. TakenOK'
  <2>1. UNCHANGED <<smtpReply, taken, fanoutVars>> /\ smtp'.mode = "ended" /\ smtpReply # "250"
    BY <1>0, <1>5 DEF SendTerminator, TakenOK
  <2> QED BY <1>0, <2>1 DEF TakenOK, fanoutVars
<1> QED BY <1>7, <1>8, <1>9 DEF SmtpInv

\* What AfterData leaves, whatever the outcome: a session and a client without a transaction.
LEMMA Over ==
    ASSUME SessionOK, smtp' = AfterData(smtp), client' = NewClient
    PROVE  SessionOK' /\ AgreeOK' /\ smtp'.mode = "command"
<1>1. DOMAIN smtp = {"mode", "greeted", "transaction", "raw", "tooLarge"} /\ smtp.tooLarge \in BOOLEAN
  BY DEF SessionOK
<1>2. /\ smtp'.mode = "command" /\ smtp'.transaction = NoTransaction /\ smtp'.raw = <<>> /\ smtp'.tooLarge = smtp.tooLarge
      /\ DOMAIN smtp' = DOMAIN smtp
  BY <1>1 DEF AfterData
<1>3. /\ client'.transaction = NoTransaction /\ client'.meant = <<>> /\ client'.toSend = <<>> /\ ~client'.ended
      /\ client'.ended \in BOOLEAN /\ DOMAIN client' = {"transaction", "meant", "toSend", "ended"}
  BY DEF NewClient
<1>4. Transaction(NoTransaction)
  BY DEF Transaction, NoTransaction
<1>5. SessionOK' BY <1>1, <1>2, <1>3, <1>4 DEF SessionOK
<1>6. AgreeOK' BY <1>2, <1>3 DEF AgreeOK
<1> QED BY <1>2, <1>5, <1>6

\* A message that was too large is refused without being filed.
LEMMA RefuseStep == SmtpInv /\ RefuseLarge => SmtpInv'
<1> SUFFICES ASSUME SmtpInv, RefuseLarge PROVE SmtpInv'
  OBVIOUS
<1>1. SessionOK /\ TakenOK /\ smtp.mode = "ended" /\ smtpReply' = "552" /\ UNCHANGED <<taken, fanoutVars>>
  BY DEF SmtpInv, RefuseLarge
<1>2. SessionOK' /\ AgreeOK' /\ smtp'.mode = "command"
  BY <1>1, Over DEF RefuseLarge
<1>3. TakenOK'
  BY <1>1, <1>2 DEF TakenOK, fanoutVars
<1> QED BY <1>2, <1>3 DEF SmtpInv

\* The answer to a message tells what has become of it.
LEMMA AnswerStep == SmtpInv /\ AnswerMail => SmtpInv'
<1> SUFFICES ASSUME SmtpInv, AnswerMail PROVE SmtpInv'
  OBVIOUS
<1>1. /\ SessionOK /\ TakenOK /\ smtp.mode = "filing" /\ job.pc = "done" /\ UNCHANGED <<taken, fanoutVars>>
      /\ smtpReply' = CASE job.result = "ok" -> "250" [] job.result = "large" -> "552" [] OTHER -> "451"
  BY DEF SmtpInv, AnswerMail
<1>2. SessionOK' /\ AgreeOK' /\ smtp'.mode = "command"
  BY <1>1, Over DEF AnswerMail
<1>3. BatchOK' /\ CopiesOK'
  <2>1. BatchOK /\ CopiesOK BY <1>1 DEF TakenOK
  <2>2. job' = job /\ taken' = taken /\ copies' = copies BY <1>1 DEF fanoutVars
  <2> QED BY <2>1, <2>2 DEF BatchOK, CopiesOK, Stored
<1>4. smtpReply' = "250" => job.result = "ok"
  BY <1>1
<1>5. TakenOK'
  BY <1>1, <1>2, <1>3, <1>4 DEF TakenOK, fanoutVars
<1> QED BY <1>2, <1>5 DEF SmtpInv

\* A new connection.
LEMMA DisconnectStep == SmtpInv /\ Disconnect => SmtpInv'
<1> SUFFICES ASSUME SmtpInv, Disconnect PROVE SmtpInv'
  OBVIOUS
<1>1. smtp' = NewSession /\ client' = NewClient /\ smtpReply' = "none" /\ taken' = <<>> /\ Settle
  BY DEF Disconnect
<1>2. Transaction(NoTransaction)
  BY DEF Transaction, NoTransaction
<1>3. SessionOK' /\ AgreeOK' /\ smtp'.mode # "filing"
  BY <1>1, <1>2 DEF NewSession, NewClient, SessionOK, AgreeOK
<1> QED BY <1>1, <1>3, Forgotten DEF SmtpInv

-----------------------------------------------------------------------------
\* An element of a sequence is its head or in its tail.
LEMMA HeadOrTail ==
    ASSUME NEW S, NEW s \in Seq(S), s # <<>>
    PROVE  /\ Tail(s) \in Seq(S)
           /\ \A x \in ToSet(s) : x = Head(s) \/ x \in ToSet(Tail(s))
           /\ Len(s) > 1 => Tail(s) # <<>>
           /\ ~(Len(s) > 1) => ToSet(s) = {Head(s)}
<1>1. Len(s) \in Nat /\ Len(s) >= 1 /\ DOMAIN s = 1 .. Len(s) /\ Head(s) = s[1]
  OBVIOUS
<1>2. /\ Tail(s) \in Seq(S) /\ Len(Tail(s)) = Len(s) - 1
      /\ \A i \in 1 .. Len(Tail(s)) : Tail(s)[i] = s[i + 1]
  BY HeadTailProperties
<1>3. ASSUME NEW x \in ToSet(s) PROVE x = Head(s) \/ x \in ToSet(Tail(s))
  <2>1. PICK i \in 1 .. Len(s) : x = s[i] BY <1>1 DEF ToSet
  <2>2. CASE i = 1 BY <1>1, <2>1, <2>2
  <2>3. CASE i # 1
    <3> DEFINE k == i - 1
    <3>1. k \in 1 .. Len(Tail(s)) /\ k + 1 = i BY <1>1, <1>2, <2>3
    <3>2. Tail(s)[k] = x BY <1>2, <2>1, <3>1
    <3>3. k \in DOMAIN Tail(s) BY <1>2, <3>1
    <3> QED BY <3>2, <3>3 DEF ToSet
  <2> QED BY <2>2, <2>3
<1>4. Len(s) > 1 => Tail(s) # <<>>
  <2> DEFINE q == Tail(s)
  <2>1. Len(q) = Len(s) - 1 BY <1>2
  <2> HIDE DEF q
  <2>2. q = <<>> => Len(q) = 0 OBVIOUS
  <2>3. Len(s) > 1 => q # <<>> BY <1>1, <2>1, <2>2
  <2> QED BY <2>3 DEF q
<1>5. ~(Len(s) > 1) => ToSet(s) = {Head(s)}
  BY <1>1 DEF ToSet
<1> QED BY <1>2, <1>3, <1>4, <1>5

\* What the message in filing is, which no step of the fan-out changes.
LEMMA BatchKept ==
    ASSUME BatchOK, taken' = taken, job'.msgs = job.msgs, DOMAIN job' = DOMAIN job
    PROVE  BatchOK'
BY DEF BatchOK

\* The fan-out writes a copy for every mailbox, or reports an error.
LEMMA FilingStep == SmtpInv /\ Filing /\ UNCHANGED smtpVars => SmtpInv'
<1> SUFFICES ASSUME SmtpInv, Filing, UNCHANGED smtpVars PROVE SmtpInv'
  OBVIOUS
<1>0. smtp' = smtp /\ smtpReply' = smtpReply /\ client' = client /\ taken' = taken
  BY DEF smtpVars
<1>1. SessionOK' /\ AgreeOK'
  BY <1>0 DEF SmtpInv, SessionOK, AgreeOK
<1>2. job.pc \in {"check", "store", "undo"}
  BY DEF Filing, CheckTarget, StoreCopy, Undo, UndoDone
<1>3. smtp.mode = "filing" /\ smtpReply # "250" /\ BatchOK /\ CopiesOK
  BY <1>2 DEF SmtpInv, TakenOK
<1>4. DOMAIN job = {"pc", "msgs", "at", "left", "written", "stuck", "result"}
  BY <1>3 DEF BatchOK
<1> DEFINE m == job.msgs[1]
<1>5. Targets(m) \in Seq(Boxes) /\ Targets(m) # <<>>
  <2>1. {m.to, m.cc, m.bcc} \subseteq Seq(Known) BY <1>3 DEF BatchOK
  <2> HIDE DEF m
  <2> QED BY <2>1, TargetsHold
<1>6. Len(job.msgs) = 1 /\ job.at = 1
  <2>1. job.msgs = <<m>> BY <1>3 DEF BatchOK
  <2>2. Len(<<m>>) = 1 OBVIOUS
  <2> HIDE DEF m
  <2> QED BY <1>3, <2>1, <2>2 DEF CopiesOK
<1> SUFFICES BatchOK' /\ CopiesOK'
  <2>1. taken' = taken /\ \A t \in ToSet(taken) : t.got = t.meant BY <1>0 DEF SmtpInv, TakenOK
  <2> QED BY <1>0, <1>1, <1>3, <2>1 DEF SmtpInv, TakenOK
<1>7. CASE CheckTarget
  <2>1. copies' = copies /\ job.pc = "check" /\ job.result = "none"
    BY <1>3, <1>7 DEF CheckTarget, CopiesOK
  <2>2. CASE job' = [job EXCEPT !.left = Tail(@)]
    <3>1. job'.msgs = job.msgs /\ DOMAIN job' = DOMAIN job /\ job'.at = 1 /\ job'.pc = "check" /\ job'.result = "none"
      BY <1>4, <1>6, <2>1, <2>2
    <3>2. BatchOK' BY <1>0, <1>3, <3>1, BatchKept
    <3> QED BY <3>1, <3>2 DEF CopiesOK
  <2>3. CASE job' = [job EXCEPT !.pc = "store", !.left = Targets(job.msgs[job.at])]
    <3>1. job'.msgs = job.msgs /\ DOMAIN job' = DOMAIN job /\ job'.at = 1 /\ job'.pc = "store" /\ job'.result = "none"
          /\ job'.left = Targets(m)
      BY <1>4, <1>6, <2>1, <2>3
    <3>2. BatchOK' BY <1>0, <1>3, <3>1, BatchKept
    <3> QED BY <1>5, <3>1, <3>2 DEF CopiesOK
  <2>4. CASE job' = [job EXCEPT !.pc = "undo", !.left = Earlier, !.result = "err"]
    <3>1. job'.msgs = job.msgs /\ DOMAIN job' = DOMAIN job /\ job'.at = 1 /\ job'.pc = "undo" /\ job'.result = "err"
      BY <1>4, <1>6, <2>4
    <3>2. BatchOK' BY <1>0, <1>3, <3>1, BatchKept
    <3> QED BY <3>1, <3>2 DEF CopiesOK
  <2> QED BY <1>7, <2>2, <2>3, <2>4 DEF CheckTarget
<1>8. CASE StoreCopy
  <2> DEFINE box == Head(job.left)
             added == copies \cup {[box |-> box, id |-> job.at, message |-> job.msgs[job.at]]}
  <2>1. /\ job.pc = "store" /\ job.result = "none" /\ job.left # <<>> /\ job.left \in Seq(Boxes)
        /\ \A b \in ToSet(Targets(m)) : b \in ToSet(job.left) \/ Stored(b)
    BY <1>3, <1>8 DEF StoreCopy, CopiesOK
  <2>2. CASE /\ copies' = added
             /\ job' = IF Len(job.left) > 1 THEN [job EXCEPT !.left = Tail(@), !.written = Append(@, box)] ELSE Finished("ok")
    <3>1. job'.msgs = job.msgs /\ DOMAIN job' = DOMAIN job /\ job'.at = 1
      BY <1>4, <1>6, <2>2 DEF Finished
    <3>2. BatchOK' BY <1>0, <1>3, <3>1, BatchKept
    <3>3. /\ Tail(job.left) \in Seq(Boxes)
          /\ \A b \in ToSet(job.left) : b = box \/ b \in ToSet(Tail(job.left))
          /\ Len(job.left) > 1 => Tail(job.left) # <<>>
          /\ ~(Len(job.left) > 1) => ToSet(job.left) = {box}
      BY <2>1, HeadOrTail
    <3> DEFINE Held(b) == \E c \in copies' : c.box = b /\ c.message.body = job'.msgs[1].body
    <3>4. \A b : Stored(b) => Held(b)
      BY <2>2, <3>1 DEF Stored
    <3>5. Held(box)
      <4> DEFINE c == [box |-> box, id |-> job.at, message |-> job.msgs[job.at]]
      <4>1. c.box = box /\ c.message = m BY <1>6
      <4>2. c \in copies' BY <2>2
      <4> HIDE DEF c
      <4> QED BY <3>1, <4>1, <4>2
    <3> HIDE DEF Held, box
    <3>6. CASE Len(job.left) > 1
      <4>1. job'.pc = "store" /\ job'.result = "none" /\ job'.left = Tail(job.left)
        BY <1>4, <2>1, <2>2, <3>6
      <4>2. \A b \in ToSet(Targets(m)) : b \in ToSet(Tail(job.left)) \/ Held(b)
        BY <2>1, <3>3, <3>4, <3>5
      <4> QED BY <3>1, <3>2, <3>3, <3>6, <4>1, <4>2 DEF CopiesOK, Stored, Held
    <3>7. CASE ~(Len(job.left) > 1)
      <4>1. job'.pc = "done" /\ job'.result = "ok"
        BY <1>4, <2>2, <3>7 DEF Finished
      <4>2. \A b \in ToSet(Targets(m)) : Held(b)
        BY <2>1, <3>3, <3>4, <3>5, <3>7
      <4> QED BY <3>1, <3>2, <4>1, <4>2 DEF CopiesOK, Stored, Held
    <3> QED BY <3>6, <3>7
  <2>3. CASE job'.pc = "undo" /\ job'.result = "err" /\ job'.msgs = job.msgs /\ DOMAIN job' = DOMAIN job /\ job'.at = job.at
    <3>2. BatchOK' BY <1>0, <1>3, <2>3, BatchKept
    <3> QED BY <1>6, <2>3, <3>2 DEF CopiesOK
  <2> QED
    <3>1. CASE /\ copies' = added
               /\ job' = IF Len(job.left) > 1 THEN [job EXCEPT !.left = Tail(@), !.written = Append(@, box)]
                         ELSE IF job.at = Len(job.msgs) THEN Finished("ok")
                         ELSE [job EXCEPT !.at = @ + 1, !.pc = "check", !.written = <<>>,
                                          !.left = Targets(job.msgs[job.at + 1])]
      BY <1>6, <2>2, <3>1
    <3>2. CASE \E w : job' = [job EXCEPT !.pc = "undo", !.result = "err", !.left = w]
      BY <1>4, <2>3, <3>2
    <3> QED BY <1>8, <3>1, <3>2 DEF StoreCopy
<1>9. CASE Undo \/ UndoDone
  <2>1. job.pc = "undo" /\ job.result = "err"
    BY <1>3, <1>9 DEF Undo, UndoDone, CopiesOK
  <2>2. /\ job'.msgs = job.msgs /\ DOMAIN job' = DOMAIN job /\ job'.at = 1 /\ job'.result = "err"
        /\ job'.pc \in {"undo", "done"}
    BY <1>4, <1>6, <1>9, <2>1 DEF Undo, UndoDone, Finished
  <2>3. BatchOK' BY <1>0, <1>3, <2>2, BatchKept
  <2> QED BY <2>2, <2>3 DEF CopiesOK
<1> QED BY <1>7, <1>8, <1>9 DEF Filing

\* What is handed to the fan-out is what the client meant, and the fan-out starts with all its mailboxes to be written.
LEMMA FileStep == SmtpInv /\ FileMail => SmtpInv'
<1> SUFFICES ASSUME SmtpInv, FileMail PROVE SmtpInv'
  OBVIOUS
<1> DEFINE t == smtp.transaction
           m == BuildMessage(t, smtp.raw)
           k == [got |-> [from |-> <<m.from>>, to |-> m.to, body |-> m.body],
                 meant |-> [from |-> client.transaction.from, to |-> client.transaction.recipients, body |-> client.meant]]
<1>0. SessionOK /\ AgreeOK /\ TakenOK /\ smtp.mode = "ended" /\ ~smtp.tooLarge
  BY DEF SmtpInv, FileMail
<1>1. FanOutBatch(<<m>>) /\ taken' = <<k>> /\ smtp' = [smtp EXCEPT !.mode = "filing"] /\ smtpReply' = smtpReply /\ client' = client
  BY DEF FileMail
<1>2. /\ smtp'.mode = "filing" /\ smtp'.raw = smtp.raw /\ smtp'.tooLarge = smtp.tooLarge /\ smtp'.transaction = smtp.transaction
      /\ DOMAIN smtp' = DOMAIN smtp
  BY <1>0, <1>1 DEF SessionOK
<1>3. SessionOK'
  BY <1>0, <1>1, <1>2 DEF SessionOK
<1>4. AgreeOK'
  BY <1>0, <1>1, <1>2 DEF AgreeOK
<1>5. PICK a \in Addresses : t.from = <<a>>
  BY <1>0 DEF SessionOK, AgreeOK, Transaction
<1>6. m.from = a /\ m.to = t.recipients /\ m.body = smtp.raw
  BY <1>5 DEF BuildMessage
<1>7. {m.to, m.cc, m.bcc} \subseteq Seq(Known)
  <2>1. m.to \in Seq(Known)
    <3>1. t.recipients \in Seq(Addresses) BY <1>0 DEF SessionOK, Transaction
    <3>2. Addresses \subseteq Known BY DEF Known
    <3> HIDE DEF t, m
    <3> QED BY <1>6, <3>1, <3>2
  <2>2. m.cc \in Seq(Known)
    <3> DEFINE b == [box |-> "b", form |-> "plain"]
    <3>1. b \in Known BY DEF Known
    <3>2. m.cc \in {<<b>>, <<>>} BY DEF BuildMessage
    <3> HIDE DEF b, m
    <3>3. <<b>> \in Seq(Known) /\ <<>> \in Seq(Known) BY <3>1
    <3> QED BY <3>2, <3>3, Zenon
  <2>3. m.bcc \in Seq(Known) BY DEF BuildMessage
  <2> HIDE DEF m
  <2> QED BY <2>1, <2>2, <2>3
<1>8. k.got = k.meant /\ k.meant.to = m.to /\ k.meant.body = m.body
  <2>1. /\ client.transaction = t /\ client.meant = smtp.raw
    BY <1>0 DEF AgreeOK
  <2>2. <<m.from>> = client.transaction.from /\ m.to = client.transaction.recipients /\ m.body = client.meant
    BY <1>5, <1>6, <2>1
  <2> HIDE DEF m
  <2> QED BY <2>2
<1> HIDE DEF m, k, t
<1>9. Targets(m) \in Seq(Boxes) /\ Targets(m) # <<>>
  BY <1>7, TargetsHold
<1>10. <<m>>[1] = m /\ Len(<<m>>) = 1 /\ <<k>>[1] = k /\ ToSet(<<k>>) = {k}
  BY DEF ToSet
<1> DEFINE ms == <<m>>
           base == [NoJob EXCEPT !.msgs = ms]
<1>11. /\ DOMAIN base = {"pc", "msgs", "at", "left", "written", "stuck", "result"}
       /\ base.msgs = ms /\ base.at = 1 /\ base.result = "none"
  BY DEF NoJob
<1>12. ms[1] = m /\ ms = <<ms[1]>> /\ taken'[1] = k /\ taken' = <<taken'[1]>>
  <2>1. ms = <<m>> OBVIOUS
  <2> HIDE DEF ms
  <2> QED BY <1>1, <1>10, <2>1, Zenon
<1> HIDE DEF ms
<1>13. FanOutBatch(ms)
  BY <1>1 DEF ms
<1>14. \/ job' = [base EXCEPT !.pc = "done", !.result = "large"]
       \/ job' = [base EXCEPT !.pc = "check", !.left = Targets(ms[1])]
       \/ job' = [base EXCEPT !.pc = "done", !.result = "ok"] /\ copies' = Filed(ms)
       \/ job' = [base EXCEPT !.pc = "done", !.result = "err"]
  BY <1>13 DEF FanOutBatch
<1> HIDE DEF base
<1>15. DOMAIN job' = {"pc", "msgs", "at", "left", "written", "stuck", "result"} /\ job'.msgs = ms /\ job'.at = 1
  BY <1>11, <1>14
<1>16. BatchOK'
  BY <1>7, <1>8, <1>12, <1>15 DEF BatchOK
<1>17. CopiesOK'
  <2>1. CASE job'.pc = "done" /\ job'.result \in {"large", "err"}
    BY <1>15, <2>1 DEF CopiesOK
  <2>2. CASE job'.pc = "check" /\ job'.result = "none"
    BY <1>15, <2>2 DEF CopiesOK
  <2>3. CASE job'.pc = "done" /\ job'.result = "ok" /\ copies' = Filed(ms)
    <3> SUFFICES ASSUME NEW box \in ToSet(Targets(ms[1]))
                 PROVE  \E c \in copies' : c.box = box /\ c.message.body = ms[1].body
      BY <1>15, <2>3 DEF CopiesOK, Stored
    <3> DEFINE c == [box |-> box, id |-> 1, message |-> ms[1]]
    <3>1. 1 \in 1 .. Len(ms) BY <1>10 DEF ms
    <3>2. c \in Filed(ms) BY <3>1 DEF Filed
    <3>3. c.box = box /\ c.message = ms[1] OBVIOUS
    <3> HIDE DEF c
    <3> QED BY <2>3, <3>2, <3>3
  <2> QED BY <1>11, <1>14, <2>1, <2>2, <2>3
<1>18. TakenOK'
  <2>1. smtpReply' # "250" BY <1>0, <1>1 DEF TakenOK
  <2>2. \A x \in ToSet(taken') : x.got = x.meant
    <3>1. ToSet(taken') = {k} BY <1>1, <1>10
    <3> QED BY <1>8, <3>1
  <2> QED BY <1>2, <1>16, <1>17, <2>1, <2>2 DEF TakenOK
<1> QED BY <1>3, <1>4, <1>18 DEF SmtpInv

-----------------------------------------------------------------------------
\* SmtpInv holds in every state of a connection over the fan-out (mail/smtp.rs, mail/mod.rs).
THEOREM SmtpInvariance == SmtpSpec => []SmtpInv
<1> DEFINE vs == <<smtpVars, fanoutVars>>
<1>1. FanoutInit /\ SmtpInit => SmtpInv
  <2> SUFFICES ASSUME FanoutInit, SmtpInit PROVE SmtpInv
    OBVIOUS
  <2>1. Transaction(NoTransaction) BY DEF Transaction, NoTransaction
  <2>2. SessionOK /\ AgreeOK BY <2>1 DEF SmtpInit, NewSession, NewClient, SessionOK, AgreeOK
  <2>3. job.pc = "idle" /\ smtp.mode = "command" /\ smtpReply = "none" /\ taken = <<>>
    BY DEF FanoutInit, NoJob, SmtpInit, NewSession
  <2>4. ToSet(taken) = {} BY <2>3 DEF ToSet
  <2>5. TakenOK BY <2>3, <2>4 DEF TakenOK
  <2> QED BY <2>2, <2>5 DEF SmtpInv
<1>2. SmtpInv /\ [SmtpNext \/ (Filing /\ UNCHANGED smtpVars)]_vs => SmtpInv'
  <2> SUFFICES ASSUME SmtpInv, [SmtpNext \/ (Filing /\ UNCHANGED smtpVars)]_vs PROVE SmtpInv'
    OBVIOUS
  <2>1. CASE UNCHANGED vs
    <3>1. smtp' = smtp /\ smtpReply' = smtpReply /\ client' = client /\ taken' = taken /\ job' = job /\ copies' = copies
      BY <2>1 DEF smtpVars, fanoutVars
    <3> QED BY <3>1 DEF SmtpInv, SessionOK, AgreeOK, TakenOK, BatchOK, CopiesOK, Stored
  <2> QED BY <2>1, CommandStep, LineStep, TerminatorStep, RefuseStep, FileStep, AnswerStep, DisconnectStep, FilingStep DEF SmtpNext
<1> QED BY <1>1, <1>2, PTL DEF SmtpSpec

\* For any commands, bodies, limits and number of store errors: an SMTP connection stops reading a message exactly at
\* the client's terminator, files the sender, recipients and body the client meant, and has filed a message it
\* answers with 250 in the mailbox of every confirmed recipient.
THEOREM MailIsTransacted == SmtpSpec => []Transacted
<1>1. SmtpInv => Transacted
  <2> SUFFICES ASSUME SmtpInv PROVE Transacted
    OBVIOUS
  <2>1. client.ended <=> smtp.mode \in {"ended", "filing"} BY DEF SmtpInv, AgreeOK
  <2>2. \A t \in ToSet(taken) : t.got = t.meant BY DEF SmtpInv, TakenOK
  <2>3. ASSUME smtpReply = "250", NEW a \in ToSet(taken[1].meant.to)
        PROVE  \E c \in copies : c.box = MailboxKey(a) /\ c.message.body = taken[1].meant.body
    <3>1. BatchOK /\ CopiesOK /\ job.pc = "done" /\ job.result = "ok" BY <2>3 DEF SmtpInv, TakenOK
    <3>2. \A box \in ToSet(Targets(job.msgs[1])) : Stored(box) BY <3>1 DEF CopiesOK
    <3>3. taken[1].meant.to = job.msgs[1].to /\ taken[1].meant.body = job.msgs[1].body BY <3>1 DEF BatchOK
    <3> DEFINE m == job.msgs[1]
    <3>4. {m.to, m.cc, m.bcc} \subseteq Seq(Known) BY <3>1 DEF BatchOK
    <3>5. \A b \in ToSet(m.to) : MailboxKey(b) \in ToSet(Targets(m))
      <4> HIDE DEF m
      <4> QED BY <3>4, TargetsHold
    <3>6. Stored(MailboxKey(a)) BY <2>3, <3>2, <3>3, <3>5
    <3> QED BY <3>3, <3>6 DEF Stored
  <2> QED BY <2>1, <2>2, <2>3 DEF Transacted
<1> QED BY <1>1, SmtpInvariance, PTL

-----------------------------------------------------------------------------
(* The mail and text adapters: an answer tells what became of its request *)

\* A set of numbers that is not empty has a least one.
LEMMA LeastNumber ==
    ASSUME NEW T, T \subseteq Nat, T # {}
    PROVE  \E x \in T : \A y \in T : x <= y
<1>1. PICK x \in T : \A y \in T : ~(<<y, x>> \in OpToRel(<, Nat))
  BY NatLessThanWellFounded, WFMin
<1>2. \A y \in T : ~(y < x)
  BY <1>1 DEF OpToRel
<1> QED BY <1>2

\* A sequence without repetition has each value at one place.
LEMMA DistinctPlaces ==
    ASSUME NEW S, NEW s \in Seq(S), Distinct(s)
    PROVE  \A i, j \in 1 .. Len(s) : s[i] = s[j] => i = j
<1> DEFINE n == Len(s)
<1>1. n \in Nat /\ DOMAIN s = 1 .. n /\ s \in [1 .. n -> ToSet(s)]
  BY DEF ToSet
<1>2. s \in Surjection(1 .. n, ToSet(s))
  BY <1>1 DEF Surjection, ToSet
<1>3. IsFiniteSet(1 .. n) /\ Cardinality(1 .. n) = n
  <2> HIDE DEF n
  <2>1. IsFiniteSet(1 .. n) /\ Cardinality(1 .. n) = IF 1 > n THEN 0 ELSE n - 1 + 1 BY <1>1, FS_Interval
  <2> QED BY <1>1, <2>1
<1>4. Cardinality(ToSet(s)) = n
  BY DEF Distinct
<1>5. s \in Injection(1 .. n, ToSet(s))
  <2> HIDE DEF n
  <2> QED BY <1>2, <1>3, <1>4, FS_Surjection
<1> QED BY <1>5 DEF Injection, IsInjective

\* What flattening computes: the sequences stand one behind another, from the offset of each.
LEMMA Flattened ==
    ASSUME NEW S, NEW ss \in Seq(Seq(S))
    PROVE  /\ FlattenSeq(ss) \in Seq(S)
           /\ \E off \in [1 .. Len(ss) -> Nat] :
                 /\ \A i \in 1 .. Len(ss) : \A k \in 1 .. Len(ss[i]) :
                       off[i] + k \in 1 .. Len(FlattenSeq(ss)) /\ FlattenSeq(ss)[off[i] + k] = ss[i][k]
                 /\ \A i, j \in 1 .. Len(ss) : i < j => off[i] + Len(ss[i]) <= off[j]
                 /\ \A m \in 1 .. Len(FlattenSeq(ss)) : \E i \in 1 .. Len(ss) : \E k \in 1 .. Len(ss[i]) : m = off[i] + k
<1> DEFINE n == Len(ss)
           Step(f, i) == IF i = 1 THEN ss[i] ELSE f[i - 1] \o ss[i]
           Sums(f, k) == f \in [1 .. k -> Seq(S)] /\ \A i \in 1 .. k : f[i] = Step(f, i)
<1>1. n \in Nat /\ \A i \in 1 .. n : ss[i] \in Seq(S)
  OBVIOUS
<1>2. CASE n = 0
  <2>1. FlattenSeq(ss) = ss /\ ss = <<>> BY <1>2 DEF FlattenSeq
  <2>2. <<>> \in [1 .. Len(ss) -> Nat] /\ <<>> \in Seq(S) /\ Len(<<>>) = 0 BY <1>2
  <2>3. FlattenSeq(ss) \in Seq(S) /\ 1 .. Len(ss) = {} /\ 1 .. Len(FlattenSeq(ss)) = {} BY <1>2, <2>1, <2>2
  <2> QED BY <2>2, <2>3
<1>3. CASE n # 0
  <2>1. \A k \in 1 .. n : \E f : Sums(f, k)
    <3> DEFINE Bad == {k \in 1 .. n : ~\E f : Sums(f, k)}
    <3> SUFFICES ASSUME Bad # {} PROVE FALSE OBVIOUS
    <3>0. Bad \subseteq Nat BY <1>1
    <3>1. PICK k \in Bad : \A y \in Bad : k <= y
      <4> HIDE DEF Bad
      <4> QED BY <3>0, LeastNumber
    <3>2. k \in 1 .. n /\ ~\E f : Sums(f, k) BY <3>1
    <3>3. CASE k = 1
      <4> DEFINE f == [i \in 1 .. 1 |-> ss[1]]
      <4>1. Sums(f, k) BY <1>1, <3>2, <3>3
      <4> QED BY <3>2, <4>1
    <3>4. CASE k # 1
      <4>1. k - 1 \in 1 .. n /\ k - 1 \notin Bad
        <5> HIDE DEF Bad
        <5> QED BY <1>1, <3>1, <3>2, <3>4
      <4>2. PICK g : Sums(g, k - 1) BY <4>1
      <4> DEFINE f == [i \in 1 .. k |-> IF i = k THEN g[k - 1] \o ss[k] ELSE g[i]]
      <4>3. g[k - 1] \in Seq(S) /\ ss[k] \in Seq(S) /\ g[k - 1] \o ss[k] \in Seq(S)
        BY <1>1, <3>2, <4>1, <4>2
      <4>4. f \in [1 .. k -> Seq(S)] BY <1>1, <3>2, <3>4, <4>2, <4>3
      <4>5. \A i \in 1 .. k : f[i] = Step(f, i)
        <5> SUFFICES ASSUME NEW i \in 1 .. k PROVE f[i] = Step(f, i) OBVIOUS
        <5>1. CASE i = k
          <6>1. f[i] = g[k - 1] \o ss[k] /\ i # 1 BY <3>2, <3>4, <5>1
          <6>2. i - 1 \in 1 .. k /\ i - 1 # k BY <1>1, <3>2, <3>4, <5>1
          <6>3. f[i - 1] = g[i - 1] BY <6>2
          <6> QED BY <5>1, <6>1, <6>3
        <5>2. CASE i # k
          <6>1. i \in 1 .. (k - 1) /\ f[i] = g[i] /\ i # 1 => i - 1 \in 1 .. (k - 1) /\ i - 1 # k BY <1>1, <3>2, <5>2
          <6>2. g[i] = Step(g, i)
            <7>1. i \in 1 .. (k - 1) BY <1>1, <3>2, <5>2
            <7> QED BY <4>2, <7>1
          <6> QED BY <1>1, <3>2, <5>2, <6>1, <6>2
        <5> QED BY <5>1, <5>2
      <4> QED BY <3>2, <4>4, <4>5
    <3> QED BY <3>3, <3>4
  <2>2. PICK g : Sums(g, n)
    <3>1. n \in 1 .. n BY <1>1, <1>3
    <3> HIDE DEF Sums
    <3> QED BY <2>1, <3>1
  <2> DEFINE F == CHOOSE f : f = [i \in 1 .. Len(ss) |-> IF i = 1 THEN ss[i] ELSE f[i - 1] \o ss[i]]
  <2>3. g = [i \in 1 .. Len(ss) |-> IF i = 1 THEN ss[i] ELSE g[i - 1] \o ss[i]]
    BY <2>2
  <2>4. F = [i \in 1 .. Len(ss) |-> IF i = 1 THEN ss[i] ELSE F[i - 1] \o ss[i]]
    BY <2>3
  <2>5. FlattenSeq(ss) = F[n]
    BY <1>3 DEF FlattenSeq
  <2> HIDE DEF F
  <2>6. \A i \in 1 .. n : F[i] = IF i = 1 THEN ss[i] ELSE F[i - 1] \o ss[i]
    BY <2>4
  <2>7. \A i \in 1 .. n : F[i] \in Seq(S)
    <3> DEFINE Bad == {k \in 1 .. n : F[k] \notin Seq(S)}
    <3> SUFFICES ASSUME Bad # {} PROVE FALSE OBVIOUS
    <3>0. Bad \subseteq Nat BY <1>1
    <3>1. PICK k \in Bad : \A y \in Bad : k <= y
      <4> HIDE DEF Bad
      <4> QED BY <3>0, LeastNumber
    <3>2. k \in 1 .. n /\ F[k] \notin Seq(S) BY <3>1
    <3>3. CASE k = 1 BY <1>1, <2>6, <3>2, <3>3
    <3>4. CASE k # 1
      <4>1. k - 1 \in 1 .. n /\ k - 1 \notin Bad
        <5> HIDE DEF Bad
        <5> QED BY <1>1, <3>1, <3>2, <3>4
      <4>2. F[k - 1] \in Seq(S) /\ ss[k] \in Seq(S) BY <1>1, <3>2, <4>1
      <4>3. F[k - 1] \o ss[k] \in Seq(S) BY <4>2
      <4> QED BY <2>6, <3>2, <3>4, <4>3
    <3> QED BY <3>3, <3>4
  <2> DEFINE off == [i \in 1 .. n |-> IF i = 1 THEN 0 ELSE Len(F[i - 1])]
  <2>8. \A i \in 1 .. n : /\ Len(F[i]) \in Nat /\ Len(ss[i]) \in Nat /\ off[i] \in Nat
                          /\ Len(F[i]) = off[i] + Len(ss[i])
                          /\ \A k \in 1 .. Len(ss[i]) : off[i] + k \in 1 .. Len(F[i]) /\ F[i][off[i] + k] = ss[i][k]
                          /\ \A m \in 1 .. off[i] : F[i][m] = F[i - 1][m]
    <3> SUFFICES ASSUME NEW i \in 1 .. n
                 PROVE  /\ Len(F[i]) \in Nat /\ Len(ss[i]) \in Nat /\ off[i] \in Nat
                        /\ Len(F[i]) = off[i] + Len(ss[i])
                        /\ \A k \in 1 .. Len(ss[i]) : off[i] + k \in 1 .. Len(F[i]) /\ F[i][off[i] + k] = ss[i][k]
                        /\ \A m \in 1 .. off[i] : F[i][m] = F[i - 1][m]
      OBVIOUS
    <3>1. CASE i = 1
      <4>1. F[i] = ss[i] /\ off[i] = 0 /\ ss[i] \in Seq(S) BY <1>1, <2>6, <3>1
      <4>2. Len(ss[i]) \in Nat /\ \A k \in 1 .. Len(ss[i]) : 0 + k = k BY <4>1
      <4> HIDE DEF off
      <4> QED BY <4>1, <4>2
    <3>2. CASE i # 1
      <4> DEFINE a == F[i - 1]
                 b == ss[i]
      <4>1. i - 1 \in 1 .. n BY <1>1, <3>2
      <4>2. a \in Seq(S) /\ b \in Seq(S) BY <1>1, <2>7, <4>1
      <4>3. F[i] = a \o b /\ off[i] = Len(a) BY <2>6, <3>2
      <4> HIDE DEF a, b, off
      <4>4. /\ Len(a) \in Nat /\ Len(b) \in Nat /\ Len(a \o b) = Len(a) + Len(b)
            /\ \A m \in 1 .. (Len(a) + Len(b)) : (a \o b)[m] = IF m <= Len(a) THEN a[m] ELSE b[m - Len(a)]
        BY <4>2, ConcatProperties, LenProperties
      <4>5. \A k \in 1 .. Len(b) : Len(a) + k \in 1 .. (Len(a) + Len(b)) /\ (a \o b)[Len(a) + k] = b[k]
        <5> SUFFICES ASSUME NEW k \in 1 .. Len(b) PROVE Len(a) + k \in 1 .. (Len(a) + Len(b)) /\ (a \o b)[Len(a) + k] = b[k]
          OBVIOUS
        <5>1. Len(a) + k \in 1 .. (Len(a) + Len(b)) /\ ~(Len(a) + k <= Len(a)) /\ (Len(a) + k) - Len(a) = k BY <4>4
        <5> QED BY <4>4, <5>1
      <4>6. \A m \in 1 .. Len(a) : (a \o b)[m] = a[m]
        <5> SUFFICES ASSUME NEW m \in 1 .. Len(a) PROVE (a \o b)[m] = a[m] OBVIOUS
        <5>1. m \in 1 .. (Len(a) + Len(b)) /\ m <= Len(a) BY <4>4
        <5> QED BY <4>4, <5>1
      <4>7. /\ Len(F[i]) \in Nat /\ Len(b) \in Nat /\ off[i] \in Nat
            /\ Len(F[i]) = off[i] + Len(b)
            /\ \A k \in 1 .. Len(b) : off[i] + k \in 1 .. Len(F[i]) /\ F[i][off[i] + k] = b[k]
            /\ \A m \in 1 .. off[i] : F[i][m] = a[m]
        BY <4>3, <4>4, <4>5, <4>6
      <4> QED BY <4>7 DEF b, a
    <3> QED BY <3>1, <3>2
  <2>9. off \in [1 .. n -> Nat] BY <2>8
  <2>10. \A i \in 2 .. n : off[i] = Len(F[i - 1]) /\ i - 1 \in 1 .. n BY <1>1
  <2> HIDE DEF off, n
  <2>11. \A j \in 1 .. n : \A i \in 1 .. j : /\ Len(F[i]) <= Len(F[j])
                                             /\ i < j => Len(F[i]) <= off[j]
                                             /\ \A m \in 1 .. Len(F[i]) : F[j][m] = F[i][m]
    <3> DEFINE Ok(j) == \A i \in 1 .. j : /\ Len(F[i]) <= Len(F[j])
                                          /\ i < j => Len(F[i]) <= off[j]
                                          /\ \A m \in 1 .. Len(F[i]) : F[j][m] = F[i][m]
               Bad == {j \in 1 .. n : ~Ok(j)}
    <3> SUFFICES ASSUME Bad # {} PROVE FALSE OBVIOUS
    <3>0. Bad \subseteq Nat BY <1>1
    <3>1. PICK j \in Bad : \A y \in Bad : j <= y
      <4> HIDE DEF Bad
      <4> QED BY <3>0, LeastNumber
    <3>2. j \in 1 .. n /\ ~Ok(j) BY <3>1
    <3> HIDE DEF Bad
    <3>3. CASE j = 1
      <4>1. Ok(1) BY <1>1, <2>8, <3>2, <3>3
      <4> QED BY <3>2, <3>3, <4>1
    <3>4. CASE j # 1
      <4>1. j - 1 \in 1 .. n /\ j - 1 \notin Bad /\ j \in 2 .. n BY <1>1, <3>1, <3>2, <3>4
      <4>2. Ok(j - 1) BY <4>1 DEF Bad
      <4>3. off[j] = Len(F[j - 1]) /\ Len(F[j - 1]) \in Nat /\ Len(F[j]) \in Nat /\ off[j] <= Len(F[j])
        <5>1. off[j] = Len(F[j - 1]) BY <2>10, <4>1
        <5>2. Len(F[j - 1]) \in Nat BY <2>8, <4>1
        <5>3. Len(F[j]) \in Nat /\ Len(ss[j]) \in Nat /\ off[j] \in Nat /\ Len(F[j]) = off[j] + Len(ss[j]) BY <2>8, <3>2
        <5>4. off[j] <= Len(F[j])
          <6> DEFINE x == off[j]  y == Len(ss[j])  z == Len(F[j])
          <6>1. x \in Nat /\ y \in Nat /\ z = x + y BY <5>3
          <6> HIDE DEF x, y, z
          <6>2. x <= z BY <6>1
          <6> QED BY <6>2 DEF x, z
        <5> QED BY <5>1, <5>2, <5>3, <5>4
      <4>4. \A m \in 1 .. Len(F[j - 1]) : F[j][m] = F[j - 1][m] BY <2>8, <3>2, <4>3
      <4>5. Ok(j)
        <5> SUFFICES ASSUME NEW i \in 1 .. j
                     PROVE  /\ Len(F[i]) <= Len(F[j])
                            /\ i < j => Len(F[i]) <= off[j]
                            /\ \A m \in 1 .. Len(F[i]) : F[j][m] = F[i][m]
          OBVIOUS
        <5>1. CASE i = j BY <4>3, <5>1
        <5>2. CASE i # j
          <6>1. i \in 1 .. (j - 1) /\ i \in 1 .. n BY <1>1, <3>2, <5>2
          <6>2. Len(F[i]) <= Len(F[j - 1]) /\ \A m \in 1 .. Len(F[i]) : F[j - 1][m] = F[i][m] BY <4>2, <6>1
          <6>3. Len(F[i]) \in Nat BY <2>8, <6>1
          <6> QED BY <4>3, <4>4, <6>2, <6>3
        <5> QED BY <5>1, <5>2
      <4> QED BY <3>2, <4>5
    <3> QED BY <3>3, <3>4
  <2>12. n \in 1 .. n BY <1>1, <1>3
  <2>13. ASSUME NEW i \in 1 .. n, NEW k \in 1 .. Len(ss[i])
         PROVE  off[i] + k \in 1 .. Len(F[n]) /\ F[n][off[i] + k] = ss[i][k]
    <3>1. off[i] + k \in 1 .. Len(F[i]) /\ F[i][off[i] + k] = ss[i][k] BY <2>8
    <3>2. Len(F[i]) <= Len(F[n]) /\ \A m \in 1 .. Len(F[i]) : F[n][m] = F[i][m] BY <1>1, <2>11, <2>12
    <3>3. Len(F[n]) \in Nat /\ Len(F[i]) \in Nat /\ off[i] \in Nat /\ Len(ss[i]) \in Nat BY <2>8, <2>12
    <3> DEFINE m == off[i] + k
    <3>4. m \in 1 .. Len(F[i]) /\ F[i][m] = ss[i][k] BY <3>1
    <3> HIDE DEF m
    <3>5. m \in 1 .. Len(F[n]) /\ F[n][m] = ss[i][k] BY <3>2, <3>3, <3>4
    <3> QED BY <3>5 DEF m
  <2>14. ASSUME NEW i \in 1 .. n, NEW j \in 1 .. n, i < j PROVE off[i] + Len(ss[i]) <= off[j]
    BY <1>1, <2>8, <2>11, <2>14
  <2>15. ASSUME NEW m \in 1 .. Len(F[n]) PROVE \E i \in 1 .. n : \E k \in 1 .. Len(ss[i]) : m = off[i] + k
    <3> DEFINE Ends == {i \in 1 .. n : m <= Len(F[i])}
    <3>0. Len(F[n]) \in Nat /\ m \in Nat /\ m <= Len(F[n]) BY <2>8, <2>12
    <3>1. Ends \subseteq Nat /\ Ends # {}
      <4>1. n \in Ends BY <2>12, <3>0
      <4>2. Ends \subseteq 1 .. n /\ 1 .. n \subseteq Nat OBVIOUS
      <4> QED BY <4>1, <4>2
    <3>2. PICK i \in Ends : \A y \in Ends : i <= y BY <3>1, LeastNumber
    <3>3. i \in 1 .. n /\ m <= Len(F[i]) /\ m \in Nat BY <2>8, <2>12, <3>2
    <3>4. off[i] < m
      <4>1. CASE i = 1 BY <2>8, <2>12, <3>3, <4>1 DEF off
      <4>2. CASE i # 1
        <5>1. i - 1 \in 1 .. n /\ i \in 2 .. n BY <1>1, <3>3, <4>2
        <5>2. i - 1 \notin Ends
          <6> HIDE DEF Ends
          <6> QED BY <1>1, <3>2, <3>3, <5>1
        <5>3. Len(F[i - 1]) \in Nat /\ off[i] = Len(F[i - 1]) BY <2>8, <2>10, <5>1
        <5> QED BY <3>3, <5>1, <5>2, <5>3
      <4> QED BY <4>1, <4>2
    <3> DEFINE k == m - off[i]
    <3>5. k \in 1 .. Len(ss[i]) /\ m = off[i] + k BY <2>8, <3>3, <3>4
    <3> QED BY <3>3, <3>5
  <2>16. FlattenSeq(ss) \in Seq(S) BY <2>5, <2>7, <2>12
  <2> HIDE DEF Sums, Step
  <2> DEFINE flat == FlattenSeq(ss)
  <2> HIDE DEF flat
  <2>17. flat = F[n] BY <2>5 DEF flat
  <2>18. /\ \A i \in 1 .. n : \A k \in 1 .. Len(ss[i]) : off[i] + k \in 1 .. Len(flat) /\ flat[off[i] + k] = ss[i][k]
         /\ \A i, j \in 1 .. n : i < j => off[i] + Len(ss[i]) <= off[j]
         /\ \A m \in 1 .. Len(flat) : \E i \in 1 .. n : \E k \in 1 .. Len(ss[i]) : m = off[i] + k
    BY <2>13, <2>14, <2>15, <2>17
  <2> QED BY <2>9, <2>16, <2>18 DEF n, flat
<1> QED BY <1>2, <1>3

\* The recipients of a message whose three lists are lists.
Addressed(m) == IsList(m.to) /\ IsList(m.cc) /\ IsList(m.bcc)

\* The elements of two sequences, one behind the other.
LEMMA JoinedElements ==
    ASSUME NEW S, NEW s \in Seq(S), NEW t \in Seq(S)
    PROVE  s \o t \in Seq(S) /\ ToSet(s \o t) = ToSet(s) \cup ToSet(t)
<1> DEFINE r == s \o t
<1>1. /\ Len(s) \in Nat /\ Len(t) \in Nat /\ r \in Seq(S) /\ Len(r) = Len(s) + Len(t)
      /\ \A i \in 1 .. (Len(s) + Len(t)) : r[i] = IF i <= Len(s) THEN s[i] ELSE t[i - Len(s)]
  BY ConcatProperties, LenProperties
<1>2. DOMAIN r = 1 .. (Len(s) + Len(t)) /\ DOMAIN s = 1 .. Len(s) /\ DOMAIN t = 1 .. Len(t)
  BY <1>1
<1> HIDE DEF r
<1>3. ToSet(s) \subseteq ToSet(r)
  <2> SUFFICES ASSUME NEW i \in 1 .. Len(s) PROVE s[i] \in ToSet(r) BY <1>2 DEF ToSet
  <2>1. i \in 1 .. (Len(s) + Len(t)) /\ i <= Len(s) BY <1>1
  <2>2. r[i] = s[i] /\ i \in DOMAIN r BY <1>1, <1>2, <2>1
  <2> QED BY <2>2 DEF ToSet
<1>4. ToSet(t) \subseteq ToSet(r)
  <2> SUFFICES ASSUME NEW i \in 1 .. Len(t) PROVE t[i] \in ToSet(r) BY <1>2 DEF ToSet
  <2> DEFINE k == Len(s) + i
  <2>1. k \in 1 .. (Len(s) + Len(t)) /\ ~(k <= Len(s)) /\ k - Len(s) = i BY <1>1
  <2> HIDE DEF k
  <2>2. r[k] = t[i] /\ k \in DOMAIN r BY <1>1, <1>2, <2>1
  <2> QED BY <2>2 DEF ToSet
<1>5. ToSet(r) \subseteq ToSet(s) \cup ToSet(t)
  <2> SUFFICES ASSUME NEW i \in 1 .. (Len(s) + Len(t)) PROVE r[i] \in ToSet(s) \cup ToSet(t) BY <1>2 DEF ToSet
  <2>1. CASE i <= Len(s)
    <3>1. i \in DOMAIN s /\ r[i] = s[i] BY <1>1, <1>2, <2>1
    <3> QED BY <3>1 DEF ToSet
  <2>2. CASE ~(i <= Len(s))
    <3>1. i - Len(s) \in DOMAIN t /\ r[i] = t[i - Len(s)] BY <1>1, <1>2, <2>2
    <3> QED BY <3>1 DEF ToSet
  <2> QED BY <2>1, <2>2
<1> QED BY <1>1, <1>3, <1>4, <1>5 DEF r

\* The same of three lists.
LEMMA ThreeLists ==
    ASSUME NEW a, NEW b, NEW c, IsList(a), IsList(b), IsList(c)
    PROVE  IsList(a \o b \o c) /\ ToSet(a \o b \o c) = ToSet(a) \cup ToSet(b) \cup ToSet(c)
<1> DEFINE S == ToSet(a) \cup ToSet(b) \cup ToSet(c)
<1>1. a \in Seq(S) /\ b \in Seq(S) /\ c \in Seq(S)
  <2>1. a \in Seq(ToSet(a)) /\ b \in Seq(ToSet(b)) /\ c \in Seq(ToSet(c)) BY DEF IsList
  <2>2. ToSet(a) \subseteq S /\ ToSet(b) \subseteq S /\ ToSet(c) \subseteq S OBVIOUS
  <2> HIDE DEF S
  <2> QED BY <2>1, <2>2
<1> HIDE DEF S
<1>2. a \o b \in Seq(S) /\ ToSet(a \o b) = ToSet(a) \cup ToSet(b)
  BY <1>1, JoinedElements
<1>3. (a \o b) \o c \in Seq(S) /\ ToSet((a \o b) \o c) = ToSet(a \o b) \cup ToSet(c)
  <2> DEFINE x == a \o b
  <2>1. x \in Seq(S) BY <1>2
  <2> HIDE DEF x
  <2>2. x \o c \in Seq(S) /\ ToSet(x \o c) = ToSet(x) \cup ToSet(c) BY <1>1, <2>1, JoinedElements
  <2> QED BY <2>2 DEF x
<1>4. (a \o b) \o c \in Seq(ToSet((a \o b) \o c))
  BY <1>2, <1>3 DEF S
<1> QED BY <1>2, <1>3, <1>4 DEF IsList

\* A message is filed in the account-wide mailbox and in those of its recipients.
LEMMA TargetsAre ==
    ASSUME NEW m, Addressed(m)
    PROVE  /\ IsList(Targets(m)) /\ Targets(m) # <<>>
           /\ ToSet(Targets(m)) = {AllMailbox} \cup Mailboxes(m)
           /\ Mailboxes(m) = {MailboxKey(a) : a \in ToSet(m.to) \cup ToSet(m.cc) \cup ToSet(m.bcc)}
<1> DEFINE r == Recipients(m)
           box == Mailboxes(m)
           key == [i \in 1 .. Len(r) |-> MailboxKey(r[i])]
           q == SetToSeq(box)
           all == <<AllMailbox>>
           T == {AllMailbox} \cup box
<1>1. IsList(r) /\ ToSet(r) = ToSet(m.to) \cup ToSet(m.cc) \cup ToSet(m.bcc)
  BY ThreeLists DEF Addressed, Recipients
<1>2. r \in Seq(ToSet(r)) /\ Len(r) \in Nat /\ DOMAIN r = 1 .. Len(r)
  <2> HIDE DEF r
  <2>1. r \in Seq(ToSet(r)) BY <1>1 DEF IsList
  <2> QED BY <2>1
<1>3. box = {MailboxKey(r[i]) : i \in 1 .. Len(r)}
  BY <1>2 DEF Mailboxes, ToSet
<1>4. IsFiniteSet(box)
  <2> HIDE DEF r, box
  <2>1. key \in Surjection(1 .. Len(r), box)
    BY <1>3 DEF Surjection
  <2> HIDE DEF key
  <2>2. IsFiniteSet(1 .. Len(r)) BY <1>2, FS_Interval
  <2> QED BY <2>1, <2>2, FS_Surjection
<1>5. q \in Seq(box) /\ \A x \in box : \E i \in 1 .. Len(q) : q[i] = x
  <2> HIDE DEF box
  <2> QED BY <1>4, SetAsSequence
<1>6. Targets(m) = all \o q
  BY DEF Targets
<1>7. box = {MailboxKey(a) : a \in ToSet(m.to) \cup ToSet(m.cc) \cup ToSet(m.bcc)}
  BY <1>1 DEF Mailboxes
<1> HIDE DEF r, box, q
<1>8. ToSet(q) = box
  BY <1>5 DEF ToSet
<1>9. q \in Seq(T) /\ all \in Seq(T) /\ ToSet(all) = {AllMailbox} /\ Len(all) = 1
  <2>1. box \subseteq T OBVIOUS
  <2>2. all \in Seq(T) /\ Len(all) = 1 /\ ToSet(all) = {AllMailbox} BY DEF ToSet
  <2> HIDE DEF T
  <2> QED BY <1>5, <2>1, <2>2
<1> HIDE DEF all, T
<1>10. all \o q \in Seq(T) /\ ToSet(all \o q) = T
  <2>1. all \o q \in Seq(T) /\ ToSet(all \o q) = ToSet(all) \cup ToSet(q) BY <1>9, JoinedElements
  <2> QED BY <1>8, <1>9, <2>1 DEF T
<1>11. all \o q # <<>>
  <2>1. Len(all \o q) = Len(q) + 1 /\ Len(q) \in Nat BY <1>9, Behind
  <2>2. Len(<<>>) = 0 OBVIOUS
  <2> QED BY <2>1, <2>2
<1> QED BY <1>6, <1>7, <1>10, <1>11 DEF IsList, T, box

-----------------------------------------------------------------------------
\* The copies of one message of a batch.
CopiesOf(ms, i) == {[box |-> box, id |-> i, message |-> ms[i]] : box \in ToSet(Targets(ms[i]))}

\* The copies of the messages before a place of the batch.
FiledBefore(ms, n) == UNION {CopiesOf(ms, i) : i \in 1 .. (n - 1)}

JobFields == {"pc", "msgs", "at", "left", "written", "stuck", "result"}

\* How far the fan-out has come with its batch.
FiledOK ==
    /\ DOMAIN job = JobFields
    /\ job.msgs # <<>> /\ IsList(job.msgs) /\ \A i \in 1 .. Len(job.msgs) : Addressed(job.msgs[i])
    /\ job.pc \in {"check", "store", "undo", "done"} /\ IsList(job.left) /\ IsList(job.written)
    /\ job.pc = "check" =>
          /\ job.at \in 1 .. Len(job.msgs) /\ job.left # <<>> /\ job.written = <<>>
          /\ copies = FiledBefore(job.msgs, job.at)
    /\ job.pc = "store" =>
          /\ job.at \in 1 .. Len(job.msgs) /\ job.left # <<>>
          /\ ToSet(job.written) \cup ToSet(job.left) = ToSet(Targets(job.msgs[job.at]))
          /\ copies = FiledBefore(job.msgs, job.at)
                        \cup {[box |-> box, id |-> job.at, message |-> job.msgs[job.at]] : box \in ToSet(job.written)}
    /\ job.pc = "undo" =>
          /\ job.result = "err"
          /\ job.stuck \/ \A c \in copies : <<c.box, c.id>> \in ToSet(job.left)
    /\ job.pc = "done" =>
          \/ job.result = "ok" /\ copies = Filed(job.msgs)
          \/ job.result = "large" /\ copies = {}
          \/ job.result = "err" /\ (job.stuck \/ copies = {} \/ (store = "journal" /\ copies = Filed(job.msgs)))

\* The answers before anything is filed.
Refusals == {"400", "401", "403", "405", "413", "415"}

\* The request being served, its answer and its batch belong together.
MailOK ==
    IF request = <<>> THEN answer = "none" /\ job = NoJob /\ copies = {}
    ELSE \E q \in MailRequests :
            /\ request = <<q>>
            /\ \/ answer \in Refusals /\ job = NoJob /\ copies = {}
               \/ /\ FiledOK /\ job.msgs = ParseMessages(q)
                  /\ answer = "none" \/ (job.pc = "done" /\ answer = FanOutStatus(job.result))

\* A sequence is a list of its own elements.
LEMMA ListOf ==
    ASSUME NEW S, NEW s \in Seq(S)
    PROVE  IsList(s) /\ ToSet(s) \subseteq S /\ Len(s) \in Nat /\ DOMAIN s = 1 .. Len(s)
<1>1. Len(s) \in Nat /\ DOMAIN s = 1 .. Len(s) /\ \A i \in 1 .. Len(s) : s[i] \in S
  OBVIOUS
<1>2. s \in [1 .. Len(s) -> ToSet(s)]
  BY <1>1 DEF ToSet
<1> DEFINE n == Len(s)
           T == ToSet(s)
<1> HIDE DEF n, T
<1>3. s \in [1 .. n -> T] /\ n \in Nat
  BY <1>1, <1>2 DEF n, T
<1>4. s \in Seq(T)
  BY <1>3
<1> QED BY <1>1, <1>4 DEF IsList, T, ToSet

\* A list that is not empty is its head and its tail.
LEMMA ListSplit ==
    ASSUME NEW s, IsList(s), s # <<>>
    PROVE  /\ IsList(Tail(s)) /\ ToSet(s) = {Head(s)} \cup ToSet(Tail(s))
           /\ Len(s) > 1 => Tail(s) # <<>>
           /\ ~(Len(s) > 1) => ToSet(s) = {Head(s)}
<1> DEFINE S == ToSet(s)
           t == Tail(s)
<1>1. s \in Seq(S) BY DEF IsList
<1>2. /\ t \in Seq(S) /\ \A x \in ToSet(s) : x = Head(s) \/ x \in ToSet(t)
      /\ Len(s) > 1 => t # <<>>
      /\ ~(Len(s) > 1) => ToSet(s) = {Head(s)}
  <2> HIDE DEF S
  <2> QED BY <1>1, HeadOrTail
<1>3. Len(s) \in Nat /\ Len(s) >= 1 /\ DOMAIN s = 1 .. Len(s) /\ Head(s) = s[1]
  BY <1>1
<1>4. Head(s) \in ToSet(s)
  BY <1>3 DEF ToSet
<1>5. ToSet(t) \subseteq S
  BY <1>2 DEF ToSet
<1>6. IsList(t)
  <2> HIDE DEF t, S
  <2> QED BY <1>2, ListOf
<1> QED BY <1>2, <1>4, <1>5, <1>6

\* A list with one more element.
LEMMA ListGrows ==
    ASSUME NEW s, IsList(s), NEW x
    PROVE  IsList(Append(s, x)) /\ ToSet(Append(s, x)) = ToSet(s) \cup {x}
<1> DEFINE S == ToSet(s) \cup {x}
           t == Append(s, x)
<1>1. s \in Seq(S)
  <2>1. s \in Seq(ToSet(s)) BY DEF IsList
  <2>2. ToSet(s) \subseteq S OBVIOUS
  <2> HIDE DEF S
  <2> QED BY <2>1, <2>2
<1>2. x \in S OBVIOUS
<1> HIDE DEF S
<1>3. t \in Seq(S) /\ Len(t) = Len(s) + 1 /\ \A i \in 1 .. Len(s) : t[i] = s[i] /\ t[Len(s) + 1] = x
  BY <1>1, <1>2, AppendProperties
<1>4. Len(s) \in Nat /\ DOMAIN s = 1 .. Len(s) /\ DOMAIN t = 1 .. (Len(s) + 1) /\ t[Len(s) + 1] = x
  BY <1>1, <1>2, <1>3, AppendProperties
<1> HIDE DEF t
<1>5. ToSet(t) = ToSet(s) \cup {x}
  <2>1. \A i \in 1 .. Len(s) : i \in DOMAIN t /\ t[i] = s[i] BY <1>3, <1>4
  <2>2. Len(s) + 1 \in DOMAIN t BY <1>4
  <2>3. \A i \in DOMAIN t : i \in 1 .. Len(s) \/ i = Len(s) + 1 BY <1>4
  <2> QED BY <1>4, <2>1, <2>2, <2>3 DEF ToSet
<1> QED BY <1>3, <1>5 DEF IsList, t, S

\* The copies before a place grow by those of the message there, and at the end all are filed.
LEMMA FiledGrows ==
    ASSUME NEW ms, IsList(ms), NEW n \in 1 .. Len(ms)
    PROVE  /\ FiledBefore(ms, n + 1) = FiledBefore(ms, n) \cup CopiesOf(ms, n)
           /\ FiledBefore(ms, 1) = {}
           /\ n = Len(ms) => FiledBefore(ms, n + 1) = Filed(ms)
<1>1. Len(ms) \in Nat
  BY DEF IsList
<1>2. n \in Nat /\ 1 .. ((n + 1) - 1) = 1 .. (n - 1) \cup {n} /\ 1 .. (1 - 1) = {}
  BY <1>1
<1>3. n = Len(ms) => 1 .. ((n + 1) - 1) = 1 .. Len(ms)
  BY <1>1
<1>4. Filed(ms) = UNION {CopiesOf(ms, i) : i \in 1 .. Len(ms)}
  BY DEF Filed, CopiesOf
<1>5. FiledBefore(ms, n + 1) = FiledBefore(ms, n) \cup CopiesOf(ms, n)
  BY <1>2 DEF FiledBefore
<1>6. FiledBefore(ms, 1) = {}
  BY <1>2 DEF FiledBefore
<1>7. n = Len(ms) => FiledBefore(ms, n + 1) = Filed(ms)
  BY <1>3, <1>4 DEF FiledBefore
<1> QED BY <1>5, <1>6, <1>7

\* The rollback of a batch has a deletion for every copy of the messages before the one that failed.
LEMMA EarlierHolds ==
    ASSUME IsList(job.msgs), \A i \in 1 .. Len(job.msgs) : Addressed(job.msgs[i]), job.at \in 1 .. Len(job.msgs)
    PROVE  IsList(Earlier) /\ \A c \in FiledBefore(job.msgs, job.at) : <<c.box, c.id>> \in ToSet(Earlier)
<1> DEFINE ms == job.msgs
           n == job.at - 1
           tg(i) == Targets(ms[i])
           P == {<<x, i>> : x \in UNION {ToSet(tg(k)) : k \in 1 .. n}, i \in 1 .. n}
           row(i) == [j \in 1 .. Len(tg(i)) |-> <<tg(i)[j], i>>]
           ss == [i \in 1 .. n |-> row(i)]
<1>1. Len(ms) \in Nat
  BY DEF IsList
<1>2. n \in Nat /\ 1 .. n \subseteq 1 .. Len(ms)
  BY <1>1
<1>3. \A i \in 1 .. n : IsList(tg(i)) /\ ToSet(tg(i)) \subseteq UNION {ToSet(tg(k)) : k \in 1 .. n}
  <2>1. \A i \in 1 .. n : Addressed(ms[i]) BY <1>2
  <2> QED BY <2>1, TargetsAre
<1>4. \A i \in 1 .. n : Len(tg(i)) \in Nat /\ DOMAIN tg(i) = 1 .. Len(tg(i)) /\ tg(i) \in Seq(ToSet(tg(i)))
  <2> SUFFICES ASSUME NEW i \in 1 .. n PROVE Len(tg(i)) \in Nat /\ DOMAIN tg(i) = 1 .. Len(tg(i)) /\ tg(i) \in Seq(ToSet(tg(i)))
    OBVIOUS
  <2> DEFINE t == tg(i)
  <2>1. t \in Seq(ToSet(t)) BY <1>3 DEF IsList
  <2> HIDE DEF t
  <2>2. Len(t) \in Nat /\ DOMAIN t = 1 .. Len(t) /\ t \in Seq(ToSet(t)) BY <2>1
  <2> QED BY <2>2 DEF t
<1>5. Earlier = FlattenSeq(ss)
  BY DEF Earlier
<1>6. \A i \in 1 .. n : row(i) \in Seq(P) /\ Len(row(i)) = Len(tg(i))
  <2> SUFFICES ASSUME NEW i \in 1 .. n PROVE row(i) \in Seq(P) /\ Len(row(i)) = Len(tg(i)) OBVIOUS
  <2>1. \A j \in 1 .. Len(tg(i)) : <<tg(i)[j], i>> \in P
    <3>1. \A j \in 1 .. Len(tg(i)) : tg(i)[j] \in ToSet(tg(i)) BY <1>4 DEF ToSet
    <3> DEFINE U == UNION {ToSet(tg(k)) : k \in 1 .. n}
    <3>2. \A j \in 1 .. Len(tg(i)) : tg(i)[j] \in U BY <1>3, <3>1
    <3> HIDE DEF U, tg, n
    <3>3. P = {<<x, k>> : x \in U, k \in 1 .. n} BY DEF U
    <3> HIDE DEF P
    <3> QED BY <3>2, <3>3
  <2>2. Len(tg(i)) \in Nat BY <1>4
  <2> HIDE DEF P, tg, n
  <2>3. row(i) \in [1 .. Len(tg(i)) -> P] BY <2>1
  <2> QED BY <2>2, <2>3
<1> HIDE DEF P, tg, n
<1>7. ss \in Seq(Seq(P)) /\ Len(ss) = n /\ \A i \in 1 .. n : ss[i] = row(i)
  <2>1. \A i \in 1 .. n : row(i) \in Seq(P) BY <1>6
  <2> HIDE DEF row
  <2>2. \A i \in 1 .. n : ss[i] = row(i) OBVIOUS
  <2>3. ss \in [1 .. n -> Seq(P)] BY <2>1
  <2> HIDE DEF ss
  <2>4. n \in Nat BY <1>2
  <2>5. ss \in Seq(Seq(P)) /\ Len(ss) = n BY <2>3, <2>4
  <2> QED BY <2>2, <2>5
<1> DEFINE flat == FlattenSeq(ss)
<1> HIDE DEF ss, row
<1>8. flat \in Seq(P)
  BY <1>7, Flattened
<1>9. PICK off \in [1 .. Len(ss) -> Nat] : \A i \in 1 .. Len(ss) : \A k \in 1 .. Len(ss[i]) :
                       off[i] + k \in 1 .. Len(flat) /\ flat[off[i] + k] = ss[i][k]
  BY <1>7, Flattened
<1> HIDE DEF flat
<1>10. DOMAIN flat = 1 .. Len(flat) /\ flat \in Seq(ToSet(flat))
  BY <1>8 DEF ToSet
<1>11. ASSUME NEW c \in FiledBefore(ms, job.at) PROVE <<c.box, c.id>> \in ToSet(flat)
  <2>1. PICK i \in 1 .. n : c \in CopiesOf(ms, i) BY DEF FiledBefore, n
  <2>2. c.id = i /\ c.box \in ToSet(tg(i)) BY <2>1 DEF CopiesOf, tg
  <2>3. PICK k \in 1 .. Len(tg(i)) : tg(i)[k] = c.box BY <1>4, <2>2 DEF ToSet
  <2>4. ss[i] = row(i) /\ Len(ss[i]) = Len(tg(i)) /\ i \in 1 .. Len(ss) BY <1>6, <1>7
  <2>5. ss[i][k] = <<c.box, i>> BY <2>3, <2>4 DEF row
  <2>6. off[i] + k \in 1 .. Len(flat) /\ flat[off[i] + k] = <<c.box, c.id>> BY <1>9, <2>2, <2>4, <2>5
  <2> QED BY <1>10, <2>6 DEF ToSet
<1> QED BY <1>5, <1>10, <1>11 DEF IsList, flat

\* Every mailbox of a message that is found free is still free: nothing is visible before the first copy.
LEMMA CheckStep == FiledOK /\ CheckTarget => FiledOK' /\ job'.msgs = job.msgs
<1> SUFFICES ASSUME FiledOK, CheckTarget PROVE FiledOK' /\ job'.msgs = job.msgs
  OBVIOUS
<1>1. /\ DOMAIN job = JobFields /\ job.msgs # <<>> /\ IsList(job.msgs)
      /\ \A i \in 1 .. Len(job.msgs) : Addressed(job.msgs[i])
      /\ IsList(job.left) /\ IsList(job.written)
  BY DEF FiledOK, JobFields
<1>2. /\ job.pc = "check" /\ job.at \in 1 .. Len(job.msgs) /\ job.left # <<>> /\ job.written = <<>>
      /\ copies = FiledBefore(job.msgs, job.at) /\ copies' = copies /\ store' = store
  BY DEF CheckTarget, FiledOK
<1>3. CASE job' = [job EXCEPT !.left = Tail(@)] /\ Len(job.left) > 1
  <2>1. /\ DOMAIN job' = JobFields /\ job'.msgs = job.msgs /\ job'.at = job.at /\ job'.pc = "check"
        /\ job'.left = Tail(job.left) /\ job'.written = <<>>
    BY <1>1, <1>2, <1>3 DEF JobFields
  <2>2. IsList(Tail(job.left)) /\ Tail(job.left) # <<>> BY <1>1, <1>2, <1>3, ListSplit
  <2> QED BY <1>1, <1>2, <2>1, <2>2 DEF FiledOK, JobFields
<1>4. CASE job' = [job EXCEPT !.pc = "store", !.left = Targets(job.msgs[job.at])]
  <2> DEFINE t == Targets(job.msgs[job.at])
  <2>1. /\ DOMAIN job' = JobFields /\ job'.msgs = job.msgs /\ job'.at = job.at /\ job'.pc = "store"
        /\ job'.left = t /\ job'.written = <<>>
    BY <1>1, <1>2, <1>4 DEF JobFields
  <2>2. IsList(t) /\ t # <<>> BY <1>1, <1>2, TargetsAre
  <2>3. ToSet(<<>>) = {} BY DEF ToSet
  <2> HIDE DEF t
  <2>4. ToSet(job'.written) \cup ToSet(job'.left) = ToSet(t)
    BY <2>1, <2>3
  <2>5. {[box |-> box, id |-> job'.at, message |-> job'.msgs[job'.at]] : box \in ToSet(job'.written)} = {}
    BY <2>1, <2>3
  <2>6. IsList(job'.written) BY <1>1, <1>2, <2>1
  <2> QED BY <1>1, <1>2, <2>1, <2>2, <2>4, <2>5, <2>6 DEF FiledOK, JobFields, t
<1>5. CASE job' = [job EXCEPT !.pc = "undo", !.left = Earlier, !.result = "err"]
  <2>1. /\ DOMAIN job' = JobFields /\ job'.msgs = job.msgs /\ job'.pc = "undo"
        /\ job'.left = Earlier /\ job'.written = job.written /\ job'.result = "err"
    BY <1>1, <1>5 DEF JobFields
  <2>2. IsList(Earlier) /\ \A c \in copies' : <<c.box, c.id>> \in ToSet(Earlier)
    BY <1>1, <1>2, EarlierHolds
  <2> QED BY <1>1, <1>2, <2>1, <2>2 DEF FiledOK, JobFields
<1>6. \/ job' = [job EXCEPT !.left = Tail(@)] /\ Len(job.left) > 1
      \/ job' = [job EXCEPT !.pc = "store", !.left = Targets(job.msgs[job.at])]
      \/ job' = [job EXCEPT !.pc = "undo", !.left = Earlier, !.result = "err"]
  BY DEF CheckTarget
<1>7. FiledOK'
  BY <1>3, <1>4, <1>5, <1>6
<1>8. job'.msgs = job.msgs
  BY <1>1, <1>6 DEF JobFields
<1> QED BY <1>7, <1>8

\* A copy is added, with its mailbox, or the rollback has a deletion for everything that may be there.
LEMMA StoreStep == FiledOK /\ StoreCopy => FiledOK' /\ job'.msgs = job.msgs
<1> SUFFICES ASSUME FiledOK, StoreCopy PROVE FiledOK' /\ job'.msgs = job.msgs
  OBVIOUS
<1> DEFINE box == Head(job.left)
           at == job.at
           ms == job.msgs
           Of(w) == {[box |-> b, id |-> at, message |-> ms[at]] : b \in w}
           added == copies \cup {[box |-> box, id |-> job.at, message |-> job.msgs[job.at]]}
           before == FiledBefore(ms, at)
           T == ToSet(Targets(ms[at]))
<1>1. /\ DOMAIN job = JobFields /\ ms # <<>> /\ IsList(ms)
      /\ \A i \in 1 .. Len(ms) : Addressed(ms[i])
      /\ IsList(job.left) /\ IsList(job.written)
  BY DEF FiledOK, JobFields
<1>2. /\ job.pc = "store" /\ at \in 1 .. Len(ms) /\ job.left # <<>> /\ store' = store
      /\ ToSet(job.written) \cup ToSet(job.left) = T
      /\ copies = before \cup Of(ToSet(job.written))
  BY DEF StoreCopy, FiledOK
<1>3. /\ IsList(Tail(job.left)) /\ ToSet(job.left) = {box} \cup ToSet(Tail(job.left))
      /\ Len(job.left) > 1 => Tail(job.left) # <<>>
      /\ ~(Len(job.left) > 1) => ToSet(job.left) = {box}
  BY <1>1, <1>2, ListSplit
<1>4. IsList(Append(job.written, box)) /\ ToSet(Append(job.written, box)) = ToSet(job.written) \cup {box}
  <2> HIDE DEF box
  <2> QED BY <1>1, ListGrows
<1>5. added = before \cup Of(ToSet(job.written) \cup {box})
  <2> HIDE DEF box, before, at, ms
  <2>1. \A w, x : Of(w \cup {x}) = Of(w) \cup {[box |-> x, id |-> at, message |-> ms[at]]} OBVIOUS
  <2>2. added = copies \cup {[box |-> box, id |-> at, message |-> ms[at]]} BY DEF at, ms
  <2> QED BY <1>2, <2>1, <2>2
<1>6. CASE copies' = added /\ Len(job.left) > 1 /\ job' = [job EXCEPT !.left = Tail(@), !.written = Append(@, box)]
  <2>1. /\ DOMAIN job' = JobFields /\ job'.msgs = ms /\ job'.at = at /\ job'.pc = "store"
        /\ job'.left = Tail(job.left) /\ job'.written = Append(job.written, box)
    BY <1>1, <1>2, <1>6 DEF JobFields
  <2>2. IsList(job'.left) /\ job'.left # <<>> /\ IsList(job'.written) BY <1>3, <1>4, <1>6, <2>1
  <2>3. ToSet(job'.written) \cup ToSet(job'.left) = T BY <1>2, <1>3, <1>4, <2>1
  <2>4. copies' = before \cup Of(ToSet(job'.written)) BY <1>4, <1>5, <1>6, <2>1
  <2> QED BY <1>1, <1>2, <2>1, <2>2, <2>3, <2>4 DEF FiledOK, JobFields
<1>7. ~(Len(job.left) > 1) => added = FiledBefore(ms, at + 1)
  <2> SUFFICES ASSUME ~(Len(job.left) > 1) PROVE added = FiledBefore(ms, at + 1) OBVIOUS
  <2>1. T = ToSet(job.written) \cup {box} BY <1>2, <1>3
  <2>2. Of(T) = CopiesOf(ms, at) BY DEF CopiesOf
  <2>3. FiledBefore(ms, at + 1) = before \cup CopiesOf(ms, at) BY <1>1, <1>2, FiledGrows
  <2> HIDE DEF T, Of, before, added
  <2> QED BY <1>5, <2>1, <2>2, <2>3
<1>8. CASE copies' = added /\ ~(Len(job.left) > 1) /\ at = Len(ms) /\ job' = Finished("ok")
  <2>1. /\ DOMAIN job' = JobFields /\ job'.msgs = ms /\ job'.pc = "done" /\ job'.result = "ok"
        /\ job'.left = job.left /\ job'.written = job.written
    BY <1>1, <1>8 DEF JobFields, Finished
  <2>2. copies' = Filed(ms) BY <1>1, <1>2, <1>7, <1>8, FiledGrows
  <2> QED BY <1>1, <2>1, <2>2 DEF FiledOK, JobFields
<1>9. CASE /\ copies' = added /\ ~(Len(job.left) > 1) /\ at # Len(ms)
           /\ job' = [job EXCEPT !.at = @ + 1, !.pc = "check", !.written = <<>>, !.left = Targets(job.msgs[job.at + 1])]
  <2> DEFINE t == Targets(ms[at + 1])
  <2>1. /\ DOMAIN job' = JobFields /\ job'.msgs = ms /\ job'.at = at + 1 /\ job'.pc = "check"
        /\ job'.left = t /\ job'.written = <<>>
    BY <1>1, <1>9 DEF JobFields
  <2>2. at + 1 \in 1 .. Len(ms)
    <3>1. Len(ms) \in Nat BY <1>1 DEF IsList
    <3> QED BY <1>2, <1>9, <3>1
  <2>3. IsList(t) /\ t # <<>> BY <1>1, <2>2, TargetsAre
  <2>4. IsList(<<>>) BY DEF IsList, ToSet
  <2>5. copies' = FiledBefore(ms, at + 1) BY <1>7, <1>9
  <2> HIDE DEF t
  <2> QED BY <1>1, <2>1, <2>2, <2>3, <2>4, <2>5 DEF FiledOK, JobFields
<1>10. ASSUME NEW own, own = RollbackTargets(job.written, box), copies' \in {copies, added},
              job' = [job EXCEPT !.pc = "undo", !.result = "err",
                                 !.left = [k \in 1 .. Len(own) |-> <<own[k], job.at>>] \o Earlier]
       PROVE  FiledOK'
  <2> DEFINE r == [k \in 1 .. Len(own) |-> <<own[k], job.at>>]
             O == ToSet(own)
             P == {<<b, at>> : b \in O}
             Q == P \cup ToSet(Earlier)
  <2>1. IsList(own) /\ O = ToSet(job.written) \cup {box} BY <1>4, <1>10 DEF RollbackTargets
  <2>2. Len(own) \in Nat /\ DOMAIN own = 1 .. Len(own) BY <2>1 DEF IsList
  <2>3. r \in Seq(P) /\ ToSet(r) = P
    <3>1. \A k \in 1 .. Len(own) : own[k] \in O BY <2>2 DEF ToSet
    <3> HIDE DEF O, at
    <3>2. r \in [1 .. Len(own) -> P] BY <3>1 DEF at
    <3>3. r \in Seq(P) /\ DOMAIN r = 1 .. Len(own)
      <4> HIDE DEF P
      <4> QED BY <2>2, <3>2
    <3>4. P = {<<own[k], job.at>> : k \in 1 .. Len(own)} BY <2>2 DEF O, ToSet, at
    <3>5. ToSet(r) = {r[k] : k \in 1 .. Len(own)} BY <3>3 DEF ToSet
    <3>6. \A k \in 1 .. Len(own) : r[k] = <<own[k], job.at>> OBVIOUS
    <3> HIDE DEF r, P
    <3> QED BY <3>3, <3>4, <3>5, <3>6
  <2>4. IsList(Earlier) /\ \A c \in before : <<c.box, c.id>> \in ToSet(Earlier)
    BY <1>1, <1>2, EarlierHolds
  <2>5. r \in Seq(Q) /\ Earlier \in Seq(Q)
    <3>1. P \subseteq Q /\ ToSet(Earlier) \subseteq Q OBVIOUS
    <3>2. Earlier \in Seq(ToSet(Earlier)) BY <2>4 DEF IsList
    <3> HIDE DEF P, Q, r
    <3> QED BY <2>3, <3>1, <3>2
  <2> DEFINE l == r \o Earlier
  <2>6. IsList(l) /\ ToSet(l) = Q
    <3> HIDE DEF P, r, Q
    <3>1. l \in Seq(Q) /\ ToSet(l) = ToSet(r) \cup ToSet(Earlier) BY <2>5, JoinedElements
    <3>2. IsList(l)
      <4> HIDE DEF l
      <4> QED BY <3>1, ListOf
    <3> QED BY <2>3, <3>1, <3>2 DEF Q
  <2>7. \A c \in added : <<c.box, c.id>> \in Q
    <3> SUFFICES ASSUME NEW c \in added PROVE <<c.box, c.id>> \in Q OBVIOUS
    <3>1. c \in before \/ c \in Of(O)
      <4> HIDE DEF before, Of, added, O
      <4> QED BY <1>5, <2>1
    <3>2. CASE c \in before BY <2>4, <3>2
    <3>3. CASE c \in Of(O)
      <4>1. PICK b \in O : c = [box |-> b, id |-> at, message |-> ms[at]] BY <3>3
      <4>2. c.box = b /\ c.id = at BY <4>1
      <4> HIDE DEF O, at
      <4> QED BY <4>1, <4>2
    <3> QED BY <3>1, <3>2, <3>3
  <2>8. \A c \in copies' : <<c.box, c.id>> \in Q
    <3>1. copies' \subseteq added BY <1>10
    <3> HIDE DEF Q, added
    <3> QED BY <2>7, <3>1
  <2>9. /\ DOMAIN job' = JobFields /\ job'.msgs = ms /\ job'.pc = "undo" /\ job'.result = "err"
        /\ job'.left = l /\ job'.written = job.written
    <3> HIDE DEF r
    <3>1. job' = [job EXCEPT !.pc = "undo", !.result = "err", !.left = l] BY <1>10 DEF r
    <3> HIDE DEF l
    <3> QED BY <1>1, <3>1 DEF JobFields
  <2> HIDE DEF l, Q
  <2> QED BY <1>1, <2>6, <2>8, <2>9 DEF FiledOK, JobFields
<1>11. \/ copies' = added /\ Len(job.left) > 1 /\ job' = [job EXCEPT !.left = Tail(@), !.written = Append(@, box)]
       \/ copies' = added /\ ~(Len(job.left) > 1) /\ at = Len(ms) /\ job' = Finished("ok")
       \/ /\ copies' = added /\ ~(Len(job.left) > 1) /\ at # Len(ms)
          /\ job' = [job EXCEPT !.at = @ + 1, !.pc = "check", !.written = <<>>, !.left = Targets(job.msgs[job.at + 1])]
       \/ \E own : /\ own = RollbackTargets(job.written, box) /\ copies' \in {copies, added}
                   /\ job' = [job EXCEPT !.pc = "undo", !.result = "err",
                                         !.left = [k \in 1 .. Len(own) |-> <<own[k], job.at>>] \o Earlier]
  BY DEF StoreCopy
<1>12. FiledOK'
  BY <1>6, <1>8, <1>9, <1>10, <1>11
<1>13. job'.msgs = job.msgs
  BY <1>1, <1>11 DEF JobFields, Finished
<1> QED BY <1>12, <1>13

\* A deletion takes its copy away, or its failure is remembered.
LEMMA UndoStep == FiledOK /\ (Undo \/ UndoDone) => FiledOK' /\ job'.msgs = job.msgs
<1> SUFFICES ASSUME FiledOK, Undo \/ UndoDone PROVE FiledOK' /\ job'.msgs = job.msgs
  OBVIOUS
<1>1. /\ DOMAIN job = JobFields /\ job.msgs # <<>> /\ IsList(job.msgs)
      /\ \A i \in 1 .. Len(job.msgs) : Addressed(job.msgs[i])
      /\ IsList(job.left) /\ IsList(job.written)
  BY DEF FiledOK, JobFields
<1>2. /\ job.pc = "undo" /\ job.result = "err" /\ store' = store
      /\ job.stuck \/ \A c \in copies : <<c.box, c.id>> \in ToSet(job.left)
  BY DEF FiledOK, Undo, UndoDone
<1>3. CASE Undo
  <2>1. IsList(Tail(job.left)) /\ ToSet(job.left) = {Head(job.left)} \cup ToSet(Tail(job.left))
    BY <1>1, <1>3, ListSplit DEF Undo
  <2>2. CASE copies' = {c \in copies : <<c.box, c.id>> # Head(job.left)} /\ job' = [job EXCEPT !.left = Tail(@)]
    <3>1. /\ DOMAIN job' = JobFields /\ job'.msgs = job.msgs /\ job'.pc = "undo" /\ job'.result = "err"
          /\ job'.left = Tail(job.left) /\ job'.written = job.written /\ job'.stuck = job.stuck
      BY <1>1, <1>2, <2>2 DEF JobFields
    <3>2. job'.stuck \/ \A c \in copies' : <<c.box, c.id>> \in ToSet(job'.left)
      BY <1>2, <2>1, <2>2, <3>1
    <3> QED BY <1>1, <2>1, <3>1, <3>2 DEF FiledOK, JobFields
  <2>3. CASE job' = [job EXCEPT !.left = Tail(@), !.stuck = TRUE]
    <3>1. /\ DOMAIN job' = JobFields /\ job'.msgs = job.msgs /\ job'.pc = "undo" /\ job'.result = "err"
          /\ job'.left = Tail(job.left) /\ job'.written = job.written /\ job'.stuck
      BY <1>1, <1>2, <2>3 DEF JobFields
    <3> QED BY <1>1, <2>1, <3>1 DEF FiledOK, JobFields
  <2> QED BY <1>3, <2>2, <2>3 DEF Undo
<1>4. CASE UndoDone
  <2>1. /\ DOMAIN job' = JobFields /\ job'.msgs = job.msgs /\ job'.pc = "done" /\ job'.result = "err"
        /\ job'.left = job.left /\ job'.written = job.written /\ job'.stuck = job.stuck
    BY <1>1, <1>2, <1>4 DEF JobFields, UndoDone, Finished
  <2>2. job.left = <<>> /\ copies' = copies BY <1>4 DEF UndoDone
  <2>3. ToSet(job.left) = {} BY <2>2 DEF ToSet
  <2>4. job'.stuck \/ copies' = {} BY <1>2, <2>1, <2>2, <2>3
  <2> QED BY <1>1, <2>1, <2>4 DEF FiledOK, JobFields
<1>5. job'.msgs = job.msgs
  BY <1>1 DEF JobFields, Undo, UndoDone, Finished
<1> QED BY <1>3, <1>4, <1>5

\* A batch of messages with recipients is filed from its first message on.
LEMMA BatchStart ==
    ASSUME NEW ms, IsList(ms), ms # <<>>, \A i \in 1 .. Len(ms) : Addressed(ms[i]), FanOutBatch(ms)
    PROVE  FiledOK' /\ job'.msgs = ms
<1> DEFINE new == [NoJob EXCEPT !.msgs = ms]
<1>1. /\ DOMAIN new = JobFields /\ new.msgs = ms /\ new.at = 1 /\ new.written = <<>> /\ new.left = <<>>
  BY DEF NoJob, JobFields
<1>2. IsList(<<>>)
  BY DEF IsList, ToSet
<1>3. 1 \in 1 .. Len(ms)
  BY DEF IsList
<1>4. FiledBefore(ms, 1) = {}
  BY <1>3, FiledGrows
<1>5. IsList(Targets(ms[1])) /\ Targets(ms[1]) # <<>>
  BY <1>3, TargetsAre
<1> HIDE DEF new
<1>6. CASE \E result : /\ job' = [new EXCEPT !.pc = "done", !.result = result]
                       /\ \/ result = "large" /\ copies' = {}
                          \/ result = "ok" /\ copies' = Filed(ms)
                          \/ result = "err" /\ copies' \in {{}, Filed(ms)} /\ store' = "journal"
  <2>1. PICK result : /\ job' = [new EXCEPT !.pc = "done", !.result = result]
                      /\ \/ result = "large" /\ copies' = {}
                         \/ result = "ok" /\ copies' = Filed(ms)
                         \/ result = "err" /\ copies' \in {{}, Filed(ms)} /\ store' = "journal"
    BY <1>6
  <2>2. /\ DOMAIN job' = JobFields /\ job'.msgs = ms /\ job'.pc = "done" /\ job'.result = result
        /\ job'.left = <<>> /\ job'.written = <<>>
    BY <1>1, <2>1 DEF JobFields
  <2> QED BY <1>2, <2>1, <2>2 DEF FiledOK, JobFields
<1>7. CASE job' = [new EXCEPT !.pc = "check", !.left = Targets(ms[1])] /\ copies' = {}
  <2> DEFINE t == Targets(ms[1])
  <2>1. /\ DOMAIN job' = JobFields /\ job'.msgs = ms /\ job'.pc = "check" /\ job'.at = 1
        /\ job'.left = t /\ job'.written = <<>>
    BY <1>1, <1>7 DEF JobFields
  <2>2. IsList(t) /\ t # <<>> BY <1>5
  <2> HIDE DEF t
  <2> QED BY <1>2, <1>3, <1>4, <1>7, <2>1, <2>2 DEF FiledOK, JobFields
<1> QED BY <1>6, <1>7 DEF FanOutBatch, new

\* The list of an optional part is a list, also where the part is left out.
LEMMA GivenList ==
    ASSUME NEW s, IsOptionalList(s)
    PROVE  IsList(Given(s, <<>>))
<1>1. IsList(<<>>)
  BY DEF IsList, ToSet
<1>2. CASE s = <<>>
  BY <1>1, <1>2 DEF Given
<1>3. CASE s # <<>>
  <2>1. s \in Seq(ToSet(s)) BY DEF IsOptionalList, IsList
  <2>2. s[1] \in ToSet(s)
    <3> DEFINE S == ToSet(s)
    <3> HIDE DEF S
    <3>1. s \in Seq(S) BY <2>1 DEF S
    <3>2. s[1] \in S BY <1>3, <3>1
    <3> QED BY <3>2 DEF S
  <2> QED BY <1>3, <2>2 DEF Given, IsOptionalList
<1> QED BY <1>2, <1>3

\* The message for a person goes to that person's recipients.
LEMMA MessageFor ==
    ASSUME NEW d, NEW p, NEW headers, IsOptionalList(p.to), IsOptionalList(p.cc), IsOptionalList(p.bcc)
    PROVE  /\ Addressed(Message(d, p, headers)) /\ IsList(People(p))
           /\ Mailboxes(Message(d, p, headers)) = {MailboxKey(a) : a \in ToSet(People(p))}
           /\ Message(d, p, headers).headers = headers
<1> DEFINE m == Message(d, p, headers)
           t == Given(p.to, <<>>)
           c == Given(p.cc, <<>>)
           b == Given(p.bcc, <<>>)
<1>1. m.to = t /\ m.cc = c /\ m.bcc = b /\ m.headers = headers
  BY DEF Message
<1>2. IsList(t) /\ IsList(c) /\ IsList(b)
  BY GivenList
<1>3. People(p) = t \o c \o b
  BY DEF People
<1> HIDE DEF m, t, c, b
<1>4. IsList(t \o c \o b)
  BY <1>2, ThreeLists
<1>5. Recipients(m) = People(p)
  BY <1>1, <1>3 DEF Recipients
<1>6. Addressed(m) /\ IsList(People(p)) /\ m.headers = headers
  BY <1>1, <1>2, <1>3, <1>4 DEF Addressed
<1>7. Mailboxes(m) = {MailboxKey(a) : a \in ToSet(People(p))}
  BY <1>5 DEF Mailboxes
<1> QED BY <1>6, <1>7 DEF m

\* Checked headers have a name each.
LEMMA OneOfAName ==
    ASSUME NEW hs, IsList(hs), Distinct(HeaderNames(hs))
    PROVE  \A g, h \in ToSet(hs) : g.name = h.name => g = h
<1> DEFINE n == Len(hs)
           s == HeaderNames(hs)
<1>1. n \in Nat /\ DOMAIN hs = 1 .. n
  BY DEF IsList
<1>2. s = [i \in 1 .. n |-> hs[i].name]
  BY DEF HeaderNames
<1> HIDE DEF n
<1>3. s \in Seq({hs[i].name : i \in 1 .. n}) /\ Len(s) = n /\ \A i \in 1 .. n : s[i] = hs[i].name
  <2> DEFINE N == {hs[i].name : i \in 1 .. n}
  <2>1. \A i \in 1 .. n : hs[i].name \in N OBVIOUS
  <2> HIDE DEF N
  <2>2. s \in [1 .. n -> N] BY <1>2, <2>1
  <2>3. s \in Seq(N) /\ Len(s) = n
    <3> HIDE DEF s
    <3> QED BY <1>1, <2>2
  <2> QED BY <1>2, <2>3 DEF N
<1> HIDE DEF s
<1>4. \A i, j \in 1 .. n : s[i] = s[j] => i = j
  BY <1>3, DistinctPlaces DEF s
<1> SUFFICES ASSUME NEW g \in ToSet(hs), NEW h \in ToSet(hs), g.name = h.name PROVE g = h
  OBVIOUS
<1>5. PICK i \in 1 .. n, j \in 1 .. n : g = hs[i] /\ h = hs[j]
  BY <1>1 DEF ToSet
<1>6. s[i] = s[j]
  BY <1>3, <1>5
<1> QED BY <1>4, <1>5, <1>6

\* Merging keeps one header of a name: the person's own replaces the request's.
LEMMA MergedOnce ==
    ASSUME NEW base, NEW own, IsList(base), IsList(own),
           Distinct(HeaderNames(base)), Distinct(HeaderNames(own))
    PROVE  \A g, h \in MergeHeaders(base, own) : g.name = h.name => g = h
<1>1. /\ \A g, h \in ToSet(base) : g.name = h.name => g = h
      /\ \A g, h \in ToSet(own) : g.name = h.name => g = h
  BY OneOfAName
<1>2. \A h \in ToSet(own) : h.name \in ToSet(HeaderNames(own))
  <2> SUFFICES ASSUME NEW h \in ToSet(own) PROVE h.name \in ToSet(HeaderNames(own)) OBVIOUS
  <2>1. Len(own) \in Nat /\ DOMAIN own = 1 .. Len(own) BY DEF IsList
  <2>2. PICK i \in 1 .. Len(own) : h = own[i] BY <2>1 DEF ToSet
  <2>3. DOMAIN HeaderNames(own) = 1 .. Len(own) /\ HeaderNames(own)[i] = h.name BY <2>2 DEF HeaderNames
  <2> QED BY <2>3 DEF ToSet
<1> SUFFICES ASSUME NEW g \in MergeHeaders(base, own), NEW h \in MergeHeaders(base, own), g.name = h.name
             PROVE  g = h
  OBVIOUS
<1>3. /\ g \in ToSet(own) \/ (g \in ToSet(base) /\ g.name \notin ToSet(HeaderNames(own)))
      /\ h \in ToSet(own) \/ (h \in ToSet(base) /\ h.name \notin ToSet(HeaderNames(own)))
  BY DEF MergeHeaders
<1> QED BY <1>1, <1>2, <1>3

\* Where recipients are unique over a request, no mailbox belongs to two people of it.
LEMMA OnePersonsBox ==
    ASSUME NEW ps, IsList(ps), \A k \in 1 .. Len(ps) : IsList(People(ps[k])), UniqueRecipients(ps),
           NEW i \in 1 .. Len(ps), NEW j \in 1 .. Len(ps),
           NEW a \in ToSet(People(ps[i])), NEW b \in ToSet(People(ps[j])), MailboxKey(a) = MailboxKey(b)
    PROVE  i = j
<1> DEFINE n == Len(ps)
           pp(k) == People(ps[k])
           S == UNION {ToSet(pp(k)) : k \in 1 .. n}
           ss == [k \in 1 .. n |-> pp(k)]
           flat == FlattenSeq(ss)
<1>1. n \in Nat
  BY DEF IsList
<1>2. \A k \in 1 .. n : IsList(pp(k)) /\ ToSet(pp(k)) \subseteq S
  OBVIOUS
<1> HIDE DEF n, S, pp
<1>3. \A k \in 1 .. n : pp(k) \in Seq(S) /\ Len(pp(k)) \in Nat /\ DOMAIN pp(k) = 1 .. Len(pp(k))
  <2> SUFFICES ASSUME NEW k \in 1 .. n PROVE pp(k) \in Seq(S) /\ Len(pp(k)) \in Nat /\ DOMAIN pp(k) = 1 .. Len(pp(k)) OBVIOUS
  <2> DEFINE t == pp(k)
  <2>1. t \in Seq(ToSet(t)) /\ ToSet(t) \subseteq S BY <1>2 DEF IsList
  <2> HIDE DEF t
  <2>2. t \in Seq(S) /\ Len(t) \in Nat /\ DOMAIN t = 1 .. Len(t) BY <2>1
  <2> QED BY <2>2 DEF t
<1>4. ss \in Seq(Seq(S)) /\ Len(ss) = n /\ \A k \in 1 .. n : ss[k] = pp(k)
  BY <1>1, <1>3
<1>5. Everyone(ps) = flat
  BY DEF Everyone, pp, n
<1> HIDE DEF ss
<1>6. flat \in Seq(S)
  BY <1>4, Flattened
<1>7. PICK off \in [1 .. Len(ss) -> Nat] :
         /\ \A x \in 1 .. Len(ss) : \A k \in 1 .. Len(ss[x]) :
                       off[x] + k \in 1 .. Len(flat) /\ flat[off[x] + k] = ss[x][k]
         /\ \A x, y \in 1 .. Len(ss) : x < y => off[x] + Len(ss[x]) <= off[y]
  BY <1>4, Flattened
<1> HIDE DEF flat
<1> DEFINE keys == MailboxKeys(flat)
           K == {MailboxKey(flat[x]) : x \in 1 .. Len(flat)}
<1>8. Len(flat) \in Nat /\ keys = [x \in 1 .. Len(flat) |-> MailboxKey(flat[x])]
  BY <1>6 DEF MailboxKeys
<1>9. keys \in Seq(K) /\ Len(keys) = Len(flat) /\ \A x \in 1 .. Len(flat) : keys[x] = MailboxKey(flat[x])
  <2>1. \A x \in 1 .. Len(flat) : MailboxKey(flat[x]) \in K OBVIOUS
  <2> HIDE DEF K
  <2>2. keys \in [1 .. Len(flat) -> K] BY <1>8, <2>1
  <2>3. keys \in Seq(K) /\ Len(keys) = Len(flat)
    <3> HIDE DEF keys
    <3> QED BY <1>8, <2>2
  <2> QED BY <1>8, <2>3
<1>10. Distinct(keys)
  BY <1>5 DEF UniqueRecipients
<1> HIDE DEF keys, K
<1>11. \A x, y \in 1 .. Len(flat) : keys[x] = keys[y] => x = y
  BY <1>9, <1>10, DistinctPlaces
<1>12. i \in 1 .. n /\ j \in 1 .. n /\ a \in ToSet(pp(i)) /\ b \in ToSet(pp(j))
  BY DEF n, pp
<1>13. PICK k \in 1 .. Len(pp(i)) : pp(i)[k] = a
  BY <1>3, <1>12 DEF ToSet
<1>14. PICK l \in 1 .. Len(pp(j)) : pp(j)[l] = b
  BY <1>3, <1>12 DEF ToSet
<1>15. off[i] + k \in 1 .. Len(flat) /\ flat[off[i] + k] = a
  BY <1>4, <1>7, <1>12, <1>13
<1>16. off[j] + l \in 1 .. Len(flat) /\ flat[off[j] + l] = b
  BY <1>4, <1>7, <1>12, <1>14
<1>17. off[i] + k = off[j] + l
  <2> DEFINE x == off[i] + k
             y == off[j] + l
  <2>1. x \in 1 .. Len(flat) /\ y \in 1 .. Len(flat) /\ flat[x] = a /\ flat[y] = b BY <1>15, <1>16
  <2> HIDE DEF x, y
  <2>2. keys[x] = keys[y] BY <1>9, <2>1
  <2>3. x = y BY <1>11, <2>1, <2>2
  <2> QED BY <2>3 DEF x, y
<1>18. off[i] \in Nat /\ off[j] \in Nat /\ Len(pp(i)) \in Nat /\ Len(pp(j)) \in Nat /\ i \in Nat /\ j \in Nat
  <2>1. i \in 1 .. Len(ss) /\ j \in 1 .. Len(ss) BY <1>4, <1>12
  <2>2. off[i] \in Nat /\ off[j] \in Nat BY <1>7, <2>1
  <2>3. Len(pp(i)) \in Nat /\ Len(pp(j)) \in Nat BY <1>3, <1>12
  <2> QED BY <1>12, <2>2, <2>3
<1>19. i < j => off[i] + Len(pp(i)) <= off[j]
  BY <1>4, <1>7, <1>12
<1>20. j < i => off[j] + Len(pp(j)) <= off[i]
  BY <1>4, <1>7, <1>12
<1> QED BY <1>13, <1>14, <1>17, <1>18, <1>19, <1>20

\* One message per person, each for that person's mailboxes and with its headers once.
MessagesFor(ms, q) ==
    LET ps == q.doc.people
    IN  /\ IsList(ms) /\ Len(ms) = Len(ps) /\ Len(ps) \in Nat
        /\ \A i \in 1 .. Len(ps) : /\ Addressed(ms[i])
                                   /\ Mailboxes(ms[i]) = {MailboxKey(a) : a \in ToSet(People(ps[i]))}
        /\ q.door # "acs" => \A i \in 1 .. Len(ps) : \A g, h \in ms[i].headers : g.name = h.name => g = h
        /\ q.door = "sendgrid" => \A i, j \in 1 .. Len(ps) : \A box \in Mailboxes(ms[i]) \cap Mailboxes(ms[j]) : i = j

\* A list of one message.
LEMMA OneMessage ==
    ASSUME NEW m
    PROVE  IsList(<<m>>) /\ Len(<<m>>) = 1 /\ <<m>>[1] = m
<1>1. <<m>> \in Seq({m}) /\ Len(<<m>>) = 1 /\ <<m>>[1] = m
  OBVIOUS
<1> QED BY <1>1, ListOf

\* What a door's parser makes of a request it accepts.
LEMMA ParsedMessages ==
    ASSUME NEW q \in MailRequests, ParseMessages(q) # <<>>
    PROVE  MessagesFor(ParseMessages(q), q)
<1> DEFINE d == q.doc
           ps == d.people
           n == Len(ps)
<1>1. /\ q.door \in {"sendgrid", "ses", "acs"} /\ IsList(ps) /\ IsList(d.headers)
      /\ q.door # "sendgrid" => n = 1
      /\ \A p \in ToSet(ps) : /\ IsOptionalList(p.to) /\ IsOptionalList(p.cc) /\ IsOptionalList(p.bcc)
                              /\ IsList(p.headers)
  BY MailAssumption
<1>2. n \in Nat /\ DOMAIN ps = 1 .. n
  BY <1>1 DEF IsList
<1>3. \A i \in 1 .. n : /\ IsOptionalList(ps[i].to) /\ IsOptionalList(ps[i].cc) /\ IsOptionalList(ps[i].bcc)
                        /\ IsList(ps[i].headers)
  <2>1. \A i \in 1 .. n : ps[i] \in ToSet(ps) BY <1>2 DEF ToSet
  <2> QED BY <1>1, <2>1
<1>4. ASSUME q.door = "sendgrid" PROVE MessagesFor(ParseMessages(q), q)
  <2> DEFINE merged(j) == MergeHeaders(d.headers, ps[j].headers)
             ms == [j \in 1 .. Len(ps) |-> Message(d, ps[j], MergeHeaders(d.headers, ps[j].headers))]
  <2>1. ParseMessages(q) = ParseSendGrid(d) BY <1>4 DEF ParseMessages
  <2>2. /\ ParseMessages(q) = ms /\ ParseHeaders(d.headers) /\ UniqueRecipients(ps)
        /\ \A j \in 1 .. n : ParsePersonalization(d, ps[j])
    BY <2>1 DEF ParseSendGrid
  <2>3. \A j \in 1 .. n : /\ Addressed(Message(d, ps[j], merged(j))) /\ IsList(People(ps[j]))
                          /\ Mailboxes(Message(d, ps[j], merged(j))) = {MailboxKey(a) : a \in ToSet(People(ps[j]))}
                          /\ Message(d, ps[j], merged(j)).headers = merged(j)
    BY <1>3, MessageFor
  <2>4. \A j \in 1 .. n : \A g, h \in merged(j) : g.name = h.name => g = h
    BY <1>1, <1>3, <2>2, MergedOnce DEF ParsePersonalization, ParseHeaders
  <2>5. IsList(ms) /\ Len(ms) = n /\ \A j \in 1 .. n : ms[j] = Message(d, ps[j], merged(j))
    <3> DEFINE M == {Message(d, ps[j], merged(j)) : j \in 1 .. n}
    <3>1. \A j \in 1 .. n : Message(d, ps[j], merged(j)) \in M OBVIOUS
    <3> HIDE DEF M
    <3>2. ms \in [1 .. n -> M] BY <3>1
    <3>3. \A j \in 1 .. n : ms[j] = Message(d, ps[j], merged(j)) OBVIOUS
    <3> HIDE DEF ms, n
    <3>4. ms \in Seq(M) /\ Len(ms) = n BY <1>2, <3>2
    <3> QED BY <3>3, <3>4, ListOf
  <2> HIDE DEF merged, ms
  <2>6. ASSUME NEW i \in 1 .. n, NEW j \in 1 .. n, NEW box \in Mailboxes(ms[i]) \cap Mailboxes(ms[j]) PROVE i = j
    <3>1. PICK a \in ToSet(People(ps[i])) : MailboxKey(a) = box BY <2>3, <2>5
    <3>2. PICK b \in ToSet(People(ps[j])) : MailboxKey(b) = box BY <2>3, <2>5
    <3> QED BY <1>1, <2>2, <2>3, <3>1, <3>2, OnePersonsBox
  <2>7. \A i \in 1 .. n : /\ Addressed(ms[i]) /\ Mailboxes(ms[i]) = {MailboxKey(a) : a \in ToSet(People(ps[i]))}
                          /\ \A g, h \in ms[i].headers : g.name = h.name => g = h
    BY <2>3, <2>4, <2>5
  <2>8. MessagesFor(ms, q) BY <1>2, <2>5, <2>6, <2>7 DEF MessagesFor
  <2> QED BY <2>2, <2>8
<1>5. ASSUME q.door # "sendgrid" PROVE MessagesFor(ParseMessages(q), q)
  <2> DEFINE m == Message(d, ps[1], ToSet(d.headers))
  <2>1. /\ ParseMessages(q) = <<m>>
        /\ q.door # "acs" => Distinct(HeaderNames(d.headers))
    <3>1. CASE q.door = "ses"
      <4>1. ParseMessages(q) = ParseSes(d) BY <3>1 DEF ParseMessages
      <4> QED BY <4>1 DEF ParseSes, SesHeaders, ParseHeaders
    <3>2. CASE q.door = "acs"
      <4>1. ParseMessages(q) = ParseAcs(d) BY <3>2 DEF ParseMessages
      <4> QED BY <3>2, <4>1 DEF ParseAcs
    <3> QED BY <1>1, <1>5, <3>1, <3>2
  <2>2. n = 1 /\ 1 \in 1 .. n
    <3>1. n = 1 BY <1>1, <1>5
    <3>2. 1 \in 1 .. 1 OBVIOUS
    <3> HIDE DEF n
    <3> QED BY <3>1, <3>2
  <2>3. /\ Addressed(m) /\ Mailboxes(m) = {MailboxKey(a) : a \in ToSet(People(ps[1]))}
        /\ m.headers = ToSet(d.headers)
    BY <1>3, <2>2, MessageFor
  <2>4. q.door # "acs" => \A g, h \in m.headers : g.name = h.name => g = h
    BY <1>1, <2>1, <2>3, OneOfAName
  <2>5. IsList(<<m>>) /\ Len(<<m>>) = 1 /\ <<m>>[1] = m BY OneMessage
  <2> HIDE DEF m
  <2>6. \A i \in 1 .. n : i = 1 BY <2>2
  <2>7. MessagesFor(<<m>>, q) BY <1>5, <2>2, <2>3, <2>4, <2>5, <2>6 DEF MessagesFor
  <2> QED BY <2>1, <2>7
<1> QED BY <1>4, <1>5

\* What the answer to a served request promises of the copies.
Whole(cs, q) ==
    /\ {c.box : c \in cs} = AskedBoxes(q)
    /\ Cardinality({c \in cs : c.box = AllMailbox}) = Len(q.doc.people)
    /\ q.door = "sendgrid" =>
           \A box \in AskedBoxes(q) \ {AllMailbox} : Cardinality({c \in cs : c.box = box}) = 1
    /\ q.door # "acs" => \A c \in cs : \A g, h \in c.message.headers : g.name = h.name => g = h

\* Filing every message keeps that promise.
LEMMA WholeFiled ==
    ASSUME NEW q \in MailRequests, ParseMessages(q) # <<>>
    PROVE  Whole(Filed(ParseMessages(q)), q)
<1> DEFINE ms == ParseMessages(q)
           ps == q.doc.people
           n == Len(ps)
           cs == Filed(ms)
           copy(box, i) == [box |-> box, id |-> i, message |-> ms[i]]
<1>1. /\ IsList(ms) /\ Len(ms) = n /\ n \in Nat
      /\ \A i \in 1 .. n : Addressed(ms[i]) /\ Mailboxes(ms[i]) = {MailboxKey(a) : a \in ToSet(People(ps[i]))}
      /\ q.door # "acs" => \A i \in 1 .. n : \A g, h \in ms[i].headers : g.name = h.name => g = h
      /\ q.door = "sendgrid" => \A i, j \in 1 .. n : \A box \in Mailboxes(ms[i]) \cap Mailboxes(ms[j]) : i = j
  BY ParsedMessages DEF MessagesFor
<1>2. ms # <<>> /\ n >= 1
  <2>1. ms # <<>> OBVIOUS
  <2> HIDE DEF ms, n
  <2> QED BY <1>1, <2>1 DEF IsList
<1>3. DOMAIN ps = 1 .. n
  <2>1. IsList(ps) BY MailAssumption
  <2> QED BY <2>1 DEF IsList
<1> HIDE DEF ms, n
<1>4. \A i \in 1 .. n : ToSet(Targets(ms[i])) = {AllMailbox} \cup Mailboxes(ms[i])
  BY <1>1, TargetsAre
<1>5. \A c : c \in cs <=> \E i \in 1 .. n : \E box \in {AllMailbox} \cup Mailboxes(ms[i]) : c = copy(box, i)
  BY <1>1, <1>4 DEF Filed
<1>6. AskedBoxes(q) = {AllMailbox} \cup UNION {Mailboxes(ms[i]) : i \in 1 .. n}
  <2>1. AskedBoxes(q) = {AllMailbox} \cup UNION {{MailboxKey(a) : a \in ToSet(People(p))} : p \in ToSet(ps)}
    BY DEF AskedBoxes
  <2>2. ToSet(ps) = {ps[i] : i \in 1 .. n} BY <1>3 DEF ToSet
  <2> DEFINE boxes(p) == {MailboxKey(a) : a \in ToSet(People(p))}
  <2>3. \A i \in 1 .. n : Mailboxes(ms[i]) = boxes(ps[i]) BY <1>1
  <2>4. AskedBoxes(q) = {AllMailbox} \cup UNION {boxes(p) : p \in ToSet(ps)} BY <2>1
  <2> HIDE DEF boxes
  <2> QED BY <2>2, <2>3, <2>4
<1> HIDE DEF cs
<1>7. {c.box : c \in cs} = AskedBoxes(q)
  <2>1. ASSUME NEW c \in cs PROVE c.box \in AskedBoxes(q)
    <3>1. PICK i, box : i \in 1 .. n /\ box \in {AllMailbox} \cup Mailboxes(ms[i]) /\ c = copy(box, i) BY <1>5
    <3>2. c.box = box BY <3>1
    <3> QED BY <1>6, <3>1, <3>2
  <2>2. ASSUME NEW box \in AskedBoxes(q) PROVE \E c \in cs : c.box = box
    <3>1. PICK i \in 1 .. n : box \in {AllMailbox} \cup Mailboxes(ms[i]) BY <1>1, <1>2, <1>6
    <3>2. copy(box, i) \in cs BY <1>5, <3>1
    <3>3. copy(box, i).box = box OBVIOUS
    <3> QED BY <3>2, <3>3
  <2> QED BY <2>1, <2>2
<1>8. Cardinality({c \in cs : c.box = AllMailbox}) = n
  <2> DEFINE C == {c \in cs : c.box = AllMailbox}
             f == [i \in 1 .. n |-> copy(AllMailbox, i)]
  <2>1. \A i \in 1 .. n : copy(AllMailbox, i) \in C
    <3> SUFFICES ASSUME NEW i \in 1 .. n PROVE copy(AllMailbox, i) \in C OBVIOUS
    <3>1. copy(AllMailbox, i) \in cs BY <1>5
    <3>2. copy(AllMailbox, i).box = AllMailbox OBVIOUS
    <3> QED BY <3>1, <3>2
  <2>2. \A c \in C : \E i \in 1 .. n : c = copy(AllMailbox, i)
    <3> SUFFICES ASSUME NEW c \in C PROVE \E i \in 1 .. n : c = copy(AllMailbox, i) OBVIOUS
    <3>1. PICK i, box : i \in 1 .. n /\ box \in {AllMailbox} \cup Mailboxes(ms[i]) /\ c = copy(box, i) BY <1>5
    <3>2. c.box = box /\ c.box = AllMailbox BY <3>1
    <3> QED BY <3>1, <3>2
  <2>3. \A i, j \in 1 .. n : copy(AllMailbox, i) = copy(AllMailbox, j) => i = j
    <3> SUFFICES ASSUME NEW i \in 1 .. n, NEW j \in 1 .. n, copy(AllMailbox, i) = copy(AllMailbox, j) PROVE i = j OBVIOUS
    <3>1. copy(AllMailbox, i).id = i /\ copy(AllMailbox, j).id = j OBVIOUS
    <3> QED BY <3>1
  <2> HIDE DEF C, copy
  <2>4. f \in Bijection(1 .. n, C)
    <3>1. f \in [1 .. n -> C] /\ \A i \in 1 .. n : f[i] = copy(AllMailbox, i) BY <2>1
    <3> HIDE DEF f
    <3>2. f \in Injection(1 .. n, C) BY <2>3, <3>1 DEF Injection, IsInjective
    <3>3. f \in Surjection(1 .. n, C) BY <2>2, <3>1 DEF Surjection
    <3> QED BY <3>2, <3>3 DEF Bijection
  <2>5. IsFiniteSet(1 .. n) /\ Cardinality(1 .. n) = n
    <3>1. IsFiniteSet(1 .. n) /\ Cardinality(1 .. n) = IF 1 > n THEN 0 ELSE n - 1 + 1 BY <1>1, FS_Interval
    <3> QED BY <1>1, <3>1
  <2> HIDE DEF f
  <2>6. ExistsBijection(1 .. n, C) BY <2>4 DEF ExistsBijection
  <2>7. Cardinality(C) = n BY <2>5, <2>6, FS_Bijection
  <2> QED BY <2>7 DEF C
<1>9. ASSUME q.door = "sendgrid", NEW box \in AskedBoxes(q) \ {AllMailbox}
      PROVE  Cardinality({c \in cs : c.box = box}) = 1
  <2>1. PICK i \in 1 .. n : box \in Mailboxes(ms[i]) BY <1>6
  <2>2. copy(box, i) \in cs /\ copy(box, i).box = box BY <1>5, <2>1
  <2>3. ASSUME NEW c \in cs, c.box = box PROVE c = copy(box, i)
    <3>1. PICK j, x : j \in 1 .. n /\ x \in {AllMailbox} \cup Mailboxes(ms[j]) /\ c = copy(x, j) BY <1>5
    <3>2. x = box BY <2>3, <3>1
    <3>3. box \in Mailboxes(ms[i]) \cap Mailboxes(ms[j]) BY <2>1, <3>1, <3>2
    <3>4. i = j BY <1>1, <1>9, <3>1, <3>3
    <3> QED BY <3>1, <3>2, <3>4
  <2> HIDE DEF copy
  <2>4. {c \in cs : c.box = box} = {copy(box, i)} BY <2>2, <2>3
  <2> QED BY <2>4, FS_Singleton
<1>10. ASSUME q.door # "acs", NEW c \in cs, NEW g \in c.message.headers, NEW h \in c.message.headers, g.name = h.name
       PROVE  g = h
  <2>1. PICK i \in 1 .. n : c.message = ms[i] BY <1>5
  <2> QED BY <1>1, <1>10, <2>1
<1> QED BY <1>7, <1>8, <1>9, <1>10 DEF Whole, cs, ms, n

\* A request without a job is refused from its head or its document.
LEMMA ReceiveStep == MailOK /\ ReceiveMail => MailOK'
<1> SUFFICES ASSUME MailOK, ReceiveMail PROVE MailOK'
  OBVIOUS
<1>1. request = <<>> /\ job = NoJob /\ copies = {}
  BY DEF MailOK, ReceiveMail
<1>2. PICK q \in MailRequests :
        /\ request' = <<q>>
        /\ LET head == IF q.method = "POST" THEN HeadAnswer(q) ELSE "none"
               early == IF head # "none" THEN head ELSE Admits(q)
               ms == ParseMessages(q)
           IN  IF early # "none" THEN answer' = early /\ UNCHANGED fanoutVars
               ELSE IF PlanTooLarge(q) THEN answer' = "413" /\ UNCHANGED fanoutVars
               ELSE IF ms = <<>> THEN answer' = "400" /\ UNCHANGED fanoutVars
               ELSE answer' = "none" /\ FanOutBatch(ms)
  BY DEF ReceiveMail
<1> DEFINE ms == ParseMessages(q)
<1>3. HeadAnswer(q) \in Refusals \cup {"none"}
  BY DEF HeadAnswer, Refusals
<1>4. Admits(q) \in Refusals \cup {"none"}
  BY DEF Admits, Refusals
<1>5. \/ answer' \in Refusals /\ UNCHANGED fanoutVars
      \/ ms # <<>> /\ answer' = "none" /\ FanOutBatch(ms)
  <2>1. \/ answer' \in Refusals \cup {"none"} /\ answer' # "none" /\ UNCHANGED fanoutVars
        \/ answer' \in {"413", "400"} /\ UNCHANGED fanoutVars
        \/ ms # <<>> /\ answer' = "none" /\ FanOutBatch(ms)
    <3> HIDE DEF Refusals, ms
    <3> QED BY <1>2, <1>3, <1>4 DEF ms
  <2> QED BY <2>1 DEF Refusals
<1>6. request' # <<>>
  BY <1>2
<1>7. CASE answer' \in Refusals /\ UNCHANGED fanoutVars
  BY <1>1, <1>2, <1>6, <1>7 DEF MailOK, Refusals, fanoutVars, NoJob
<1>8. CASE ms # <<>> /\ answer' = "none" /\ FanOutBatch(ms)
  <2>1. MessagesFor(ms, q) BY <1>8, ParsedMessages
  <2>2. IsList(ms) /\ \A i \in 1 .. Len(ms) : Addressed(ms[i]) BY <2>1 DEF MessagesFor
  <2> HIDE DEF ms
  <2>3. FiledOK' /\ job'.msgs = ms BY <1>8, <2>2, BatchStart
  <2>4. \E p \in MailRequests : request' = <<p>> /\ FiledOK' /\ job'.msgs = ParseMessages(p) /\ answer' = "none"
    BY <1>2, <1>8, <2>3 DEF ms
  <2> QED BY <1>6, <2>4 DEF MailOK
<1> QED BY <1>5, <1>7, <1>8

\* Filing goes on for the request, whose answer waits for it.
LEMMA MailFilingStep == MailOK /\ Filing /\ request' = request /\ answer' = answer => MailOK'
<1> SUFFICES ASSUME MailOK, Filing, request' = request, answer' = answer PROVE MailOK'
  OBVIOUS
<1>1. job.pc \in {"check", "store", "undo"}
  BY DEF Filing, CheckTarget, StoreCopy, Undo, UndoDone
<1>2. job # NoJob
  BY <1>1 DEF NoJob
<1>3. request # <<>>
  BY <1>2 DEF MailOK
<1>4. PICK q \in MailRequests : /\ request = <<q>> /\ FiledOK /\ job.msgs = ParseMessages(q)
                                /\ answer = "none" \/ (job.pc = "done" /\ answer = FanOutStatus(job.result))
  BY <1>2, <1>3 DEF MailOK
<1>5. answer = "none"
  BY <1>1, <1>4
<1>6. FiledOK' /\ job'.msgs = job.msgs
  BY <1>4, CheckStep, StoreStep, UndoStep DEF Filing
<1>7. request' = <<q>> /\ request' # <<>> /\ answer' = "none" /\ FiledOK' /\ job'.msgs = ParseMessages(q)
  BY <1>3, <1>4, <1>5, <1>6
<1>8. \E p \in MailRequests : request' = <<p>> /\ FiledOK' /\ job'.msgs = ParseMessages(p) /\ answer' = "none"
  BY <1>7
<1> QED BY <1>7, <1>8 DEF MailOK

\* The answer is that of the job, and the next request finds nothing of it.
LEMMA MailStep == MailOK /\ (MailNext \/ (Filing /\ UNCHANGED mailVars)) => MailOK'
<1> SUFFICES ASSUME MailOK, MailNext \/ (Filing /\ UNCHANGED mailVars) PROVE MailOK'
  OBVIOUS
<1>1. CASE ReceiveMail BY <1>1, ReceiveStep
<1>2. CASE AnswerRequest
  <2>1. /\ request # <<>> /\ answer = "none" /\ job.pc = "done" /\ answer' = FanOutStatus(job.result)
        /\ request' = request /\ job' = job /\ copies' = copies /\ store' = store
    BY <1>2 DEF AnswerRequest, fanoutVars
  <2>2. job # NoJob BY <2>1 DEF NoJob
  <2>3. PICK q \in MailRequests : request = <<q>> /\ FiledOK /\ job.msgs = ParseMessages(q)
    BY <2>1, <2>2 DEF MailOK
  <2>4. FiledOK' BY <2>1, <2>3 DEF FiledOK
  <2>5. /\ request' = <<q>> /\ FiledOK' /\ job'.msgs = ParseMessages(q) /\ job'.pc = "done"
        /\ answer' = FanOutStatus(job'.result) /\ request' # <<>>
    BY <2>1, <2>3, <2>4
  <2> QED BY <2>5 DEF MailOK
<1>3. CASE NextRequest BY <1>3 DEF NextRequest, Settle, MailOK
<1>4. CASE Filing /\ UNCHANGED mailVars
  BY <1>4, MailFilingStep DEF mailVars
<1> QED BY <1>1, <1>2, <1>3, <1>4 DEF MailNext

\* So an answer says what is filed.
LEMMA MailAnswers == MailOK => AnswersTrue
<1> SUFFICES ASSUME MailOK, request # <<>>, answer # "none"
             PROVE  CASE answer = "2xx" -> Whole(copies, request[1])
                      [] answer = "500" -> job.stuck \/ copies = {} \/ (store = "journal" /\ Whole(copies, request[1]))
                      [] OTHER          -> copies = {}
  BY DEF AnswersTrue, Whole
<1>1. PICK q \in MailRequests :
            /\ request = <<q>>
            /\ \/ answer \in Refusals /\ job = NoJob /\ copies = {}
               \/ /\ FiledOK /\ job.msgs = ParseMessages(q)
                  /\ job.pc = "done" /\ answer = FanOutStatus(job.result)
  BY DEF MailOK, Refusals
<1>2. request[1] = q
  BY <1>1
<1>3. CASE answer \in Refusals /\ copies = {}
  BY <1>3 DEF Refusals
<1>4. CASE FiledOK /\ job.msgs = ParseMessages(q) /\ job.pc = "done" /\ answer = FanOutStatus(job.result)
  <2>1. Whole(Filed(job.msgs), q)
    <3>1. job.msgs # <<>> BY <1>4 DEF FiledOK
    <3> QED BY <1>4, <3>1, WholeFiled
  <2>2. \/ job.result = "ok" /\ copies = Filed(job.msgs)
        \/ job.result = "large" /\ copies = {}
        \/ job.result = "err" /\ (job.stuck \/ copies = {} \/ (store = "journal" /\ copies = Filed(job.msgs)))
    BY <1>4 DEF FiledOK
  <2>3. CASE job.result = "ok" /\ copies = Filed(job.msgs)
    <3>1. answer = "2xx" BY <1>4, <2>3 DEF FanOutStatus
    <3> QED BY <1>2, <2>1, <2>3, <3>1
  <2>4. CASE job.result = "large" /\ copies = {}
    <3>1. answer = "413" BY <1>4, <2>4 DEF FanOutStatus
    <3> QED BY <2>4, <3>1
  <2>5. CASE job.result = "err" /\ (job.stuck \/ copies = {} \/ (store = "journal" /\ copies = Filed(job.msgs)))
    <3>1. answer = "500" BY <1>4, <2>5 DEF FanOutStatus
    <3> QED BY <1>2, <2>1, <2>5, <3>1
  <2> QED BY <2>2, <2>3, <2>4, <2>5
<1> QED BY <1>1, <1>3, <1>4

\* A form is a sequence of fields with values.
IsForm(form) == form \in Seq(ToSet(form)) /\ \A i \in 1 .. Len(form) : form[i].value # "absent"

\* A name that no field has: no value, and an empty list of values.
LEMMA NameAbsent ==
    ASSUME NEW form, NEW name, name \notin Names(form)
    PROVE  FormValue(form, name) = "absent" /\ Values(form, name) = <<>>
<1>1. Places(form, name) = {}
  BY DEF Places, Names
<1>2. Cardinality({}) = 0
  BY FS_EmptySet
<1>3. FormValue(form, name) = "absent"
  BY <1>1 DEF FormValue
<1>4. DOMAIN Values(form, name) = 1 .. 0
  BY <1>1, <1>2 DEF Values
<1>5. Values(form, name) = <<>>
  <2> DEFINE v == Values(form, name)
  <2>1. v = [k \in 1 .. Cardinality(Places(form, name)) |->
               form[CHOOSE i \in Places(form, name) : Cardinality({j \in Places(form, name) : j <= i}) = k].value]
    BY DEF Values
  <2>2. DOMAIN v = {} BY <1>4
  <2>3. v = [k \in {} |-> 0] BY <2>1, <2>2
  <2>4. <<>> = [k \in {} |-> 0] OBVIOUS
  <2> QED BY <2>3, <2>4
<1> QED BY <1>3, <1>5

\* The values of a name are a sequence.
LEMMA ValuesAreListed ==
    ASSUME NEW form, IsForm(form), NEW name
    PROVE  \E V : Values(form, name) \in Seq(V)
<1> DEFINE v == Values(form, name)
           c == Cardinality(Places(form, name))
           w(k) == form[CHOOSE i \in Places(form, name) : Cardinality({j \in Places(form, name) : j <= i}) = k].value
           V == {w(k) : k \in 1 .. c}
<1>1. Len(form) \in Nat
  BY DEF IsForm
<1>2. IsFiniteSet(1 .. Len(form)) /\ Places(form, name) \subseteq 1 .. Len(form)
  BY <1>1, FS_Interval DEF Places
<1>3. IsFiniteSet(Places(form, name))
  BY <1>2, FS_Subset
<1>4. c \in Nat
  BY <1>3, FS_CardinalityType
<1>5. v = [k \in 1 .. c |-> w(k)]
  BY DEF Values
<1>6. \A k \in 1 .. c : w(k) \in V
  OBVIOUS
<1> HIDE DEF w, V, c, v
<1>7. v \in [1 .. c -> V]
  BY <1>5, <1>6
<1>8. v \in Seq(V)
  BY <1>4, <1>7
<1> QED BY <1>8 DEF v

\* Every field of a name that does not repeat has the value read for that name.
LEMMA OneValue ==
    ASSUME NEW form, IsForm(form), NEW name, ~Repeated(form, name)
    PROVE  /\ \A i \in 1 .. Len(form) : form[i].name = name => form[i].value = FormValue(form, name)
           /\ name \in Names(form) => FormValue(form, name) # "absent"
<1> DEFINE at == Places(form, name)
<1>1. Len(form) \in Nat
  BY DEF IsForm
<1>2. IsFiniteSet(1 .. Len(form)) /\ at \subseteq 1 .. Len(form)
  BY <1>1, FS_Interval DEF Places
<1>3. IsFiniteSet(at)
  BY <1>2, FS_Subset
<1>4. Cardinality(at) \in Nat /\ Cardinality(at) <= 1
  BY <1>3, FS_CardinalityType DEF Repeated
<1>5. ASSUME NEW i \in at PROVE FormValue(form, name) = form[i].value
  <2>1. at = {i}
    <3>1. {i} \subseteq at OBVIOUS
    <3>2. IsFiniteSet({i}) /\ Cardinality({i}) = 1 BY FS_Singleton
    <3> HIDE DEF at
    <3>3. Cardinality({i}) <= Cardinality(at) BY <1>3, <3>1, FS_Subset
    <3>4. Cardinality(at) = Cardinality({i}) BY <1>4, <3>2, <3>3
    <3> QED BY <1>3, <3>1, <3>4, FS_Subset
  <2>2. Min(at) = i
    <3>1. Min(at) = CHOOSE x \in at : \A y \in at : x <= y BY DEF Min
    <3>2. i \in Nat BY <1>2
    <3> HIDE DEF at
    <3> QED BY <2>1, <3>1, <3>2
  <2> HIDE DEF at
  <2>3. at # {} BY <2>1
  <2>4. FormValue(form, name) = form[Min(at)].value BY <2>3 DEF FormValue, at
  <2> QED BY <2>2, <2>4
<1>6. \A i \in 1 .. Len(form) : form[i].name = name => i \in at
  BY DEF Places
<1>7. \A i \in 1 .. Len(form) : form[i].name = name => form[i].value = FormValue(form, name)
  BY <1>5, <1>6
<1>8. name \in Names(form) => FormValue(form, name) # "absent"
  BY <1>7 DEF Names, IsForm
<1> QED BY <1>7, <1>8

\* What a text request asks for and what a captured message says of it.
Says(q, m) ==
    /\ Agrees(q.form, {"PhoneNumber", "DestinationPhoneNumber", "To"}, m.to)
    /\ "MessageStructure" \notin Names(q.form) => Agrees(q.form, {"Message", "MessageBody", "Body"}, m.body)
    /\ Values(q.form, "MediaUrl") \o Values(q.form, "MediaUrls") = m.media

\* What the property calls a request for a dry run.
DryAsked(q) == Agrees(q.form, {"DryRun"}, "true") /\ "DryRun" \in Names(q.form)

\* SNS: the checked fields stand once and none of another door is there.
LEMMA SnsSays ==
    ASSUME NEW q, IsForm(q.form), Publish(q) # <<>>
    PROVE  \E m : Publish(q) = <<m>> /\ Says(q, m) /\ ~DryAsked(q)
<1> DEFINE form == q.form
           m == [to |-> FormValue(form, "PhoneNumber"), from |-> "SNS", body |-> SnsBody(form), media |-> <<>>]
<1>1. /\ Publish(q) = <<m>> /\ ValidateSnsFields(form) /\ SnsBody(form) # "refused"
  BY DEF Publish
<1>2. /\ \A n \in Names(form) : n \in SnsSingular \cup {"Attribute"}
      /\ \A n \in SnsSingular : ~Repeated(form, n)
  BY <1>1 DEF ValidateSnsFields
<1>3. /\ {"DestinationPhoneNumber", "To", "MessageBody", "Body", "DryRun", "MediaUrl", "MediaUrls"} \cap Names(form) = {}
  BY <1>2 DEF SnsSingular
<1>4. ~Repeated(form, "PhoneNumber") /\ ~Repeated(form, "Message")
  BY <1>2 DEF SnsSingular
<1>5. \A i \in 1 .. Len(form) : form[i].name \in Names(form)
  BY DEF Names
<1>6. Agrees(form, {"PhoneNumber", "DestinationPhoneNumber", "To"}, m.to)
  <2>1. \A i \in 1 .. Len(form) : form[i].name = "PhoneNumber" => form[i].value = FormValue(form, "PhoneNumber")
    BY <1>4, OneValue
  <2> QED BY <1>3, <1>5, <2>1 DEF Agrees
<1>7. ASSUME "MessageStructure" \notin Names(form) PROVE Agrees(form, {"Message", "MessageBody", "Body"}, m.body)
  <2>1. FormValue(form, "MessageStructure") = "absent" BY <1>7, NameAbsent
  <2>2. SnsBody(form) = FormValue(form, "Message") BY <1>1, <2>1 DEF SnsBody
  <2>3. \A i \in 1 .. Len(form) : form[i].name = "Message" => form[i].value = FormValue(form, "Message")
    BY <1>4, OneValue
  <2> QED BY <1>3, <1>5, <2>2, <2>3 DEF Agrees
<1>8. Values(form, "MediaUrl") \o Values(form, "MediaUrls") = m.media
  <2>1. Values(form, "MediaUrl") = <<>> /\ Values(form, "MediaUrls") = <<>> BY <1>3, NameAbsent
  <2>2. <<>> \o <<>> = <<>> OBVIOUS
  <2> QED BY <2>1, <2>2
<1>9. ~DryAsked(q)
  BY <1>3 DEF DryAsked
<1> HIDE DEF m
<1>10. Says(q, m)
  BY <1>6, <1>7, <1>8 DEF Says
<1> QED BY <1>1, <1>9, <1>10

\* Voice: a JSON document names a field once; a body that is left out is no field.
LEMMA VoiceSays ==
    ASSUME NEW q, IsForm(q.form), VoiceSend(q) # <<>>, \A n \in Names(q.form) \ {"MediaUrls"} : ~Repeated(q.form, n)
    PROVE  /\ \E m : VoiceSend(q) = <<m>> /\ Says(q, m)
           /\ DryRun(q) <=> DryAsked(q)
<1> DEFINE form == q.form
           body == FormValue(form, "MessageBody")
           m == [to |-> FormValue(form, "DestinationPhoneNumber"),
                 from |-> IF FormValue(form, "OriginationIdentity") = "absent" THEN "AWS"
                          ELSE FormValue(form, "OriginationIdentity"),
                 body |-> IF FormValue(form, "MessageBody") = "absent" THEN "" ELSE FormValue(form, "MessageBody"),
                 media |-> Values(form, "MediaUrls")]
<1>1. VoiceSend(q) = <<m>> /\ ValidateAwsSmsFields(q)
  BY DEF VoiceSend
<1>2. {"PhoneNumber", "To", "Message", "Body", "MediaUrl"} \cap Names(form) = {}
  BY <1>1 DEF ValidateAwsSmsFields, CommonFields, TextOnlyFields
<1>3. \A i \in 1 .. Len(form) : form[i].name \in Names(form)
  BY DEF Names
<1>4. ASSUME NEW name, name \in Names(form), name # "MediaUrls"
      PROVE  /\ FormValue(form, name) # "absent"
             /\ \A i \in 1 .. Len(form) : form[i].name = name => form[i].value = FormValue(form, name)
  BY <1>4, OneValue
<1>5. Agrees(form, {"PhoneNumber", "DestinationPhoneNumber", "To"}, m.to)
  BY <1>2, <1>3, <1>4 DEF Agrees
<1>6. Agrees(form, {"Message", "MessageBody", "Body"}, m.body)
  BY <1>2, <1>3, <1>4 DEF Agrees
<1>7. Values(form, "MediaUrl") \o Values(form, "MediaUrls") = m.media
  <2>1. Values(form, "MediaUrl") = <<>> BY <1>2, NameAbsent
  <2>2. PICK V : Values(form, "MediaUrls") \in Seq(V) BY ValuesAreListed
  <2> DEFINE v == Values(form, "MediaUrls")
  <2>3. m.media = v OBVIOUS
  <2> HIDE DEF v, m
  <2>4. v \in Seq(V) BY <2>2 DEF v
  <2>5. <<>> \o v = v BY <2>4
  <2> QED BY <2>1, <2>3, <2>5 DEF v
<1>8. DryRun(q) <=> DryAsked(q)
  <2>1. CASE "DryRun" \in Names(form)
    <3>1. \A i \in 1 .. Len(form) : form[i].name = "DryRun" => form[i].value = FormValue(form, "DryRun") BY <1>4, <2>1
    <3>2. \E i \in 1 .. Len(form) : form[i].name = "DryRun" BY <2>1 DEF Names
    <3> QED BY <2>1, <3>1, <3>2 DEF DryRun, DryAsked, Agrees
  <2>2. CASE "DryRun" \notin Names(form)
    <3>1. FormValue(form, "DryRun") = "absent" BY <2>2, NameAbsent
    <3> QED BY <2>2, <3>1 DEF DryRun, DryAsked
  <2> QED BY <2>1, <2>2
<1> HIDE DEF m
<1>9. Says(q, m)
  BY <1>5, <1>6, <1>7 DEF Says
<1> QED BY <1>1, <1>8, <1>9

\* Twilio: the same, with media fields in their order.
LEMMA TwilioSays ==
    ASSUME NEW q, IsForm(q.form), TwilioSend(q) # <<>>
    PROVE  \E m : TwilioSend(q) = <<m>> /\ Says(q, m) /\ ~DryAsked(q)
<1> DEFINE form == q.form
           body == FormValue(form, "Body")
           from == FormValue(form, "From")
           service == FormValue(form, "MessagingServiceSid")
           m == [to |-> FormValue(form, "To"), from |-> IF from # "absent" THEN from ELSE service,
                 body |-> IF body = "absent" THEN "" ELSE body, media |-> Values(form, "MediaUrl")]
<1>1. TwilioSend(q) = <<m>> /\ ValidateSendFields(form)
  BY DEF TwilioSend
<1>2. Names(form) \subseteq TwilioFields /\ \A n \in TwilioFields \ {"MediaUrl"} : ~Repeated(form, n)
  BY <1>1 DEF ValidateSendFields
<1>3. {"PhoneNumber", "DestinationPhoneNumber", "Message", "MessageBody", "DryRun", "MediaUrls"} \cap Names(form) = {}
  BY <1>2 DEF TwilioFields
<1>4. \A i \in 1 .. Len(form) : form[i].name \in Names(form)
  BY DEF Names
<1>5. ~Repeated(form, "To") /\ ~Repeated(form, "Body")
  BY <1>2 DEF TwilioFields
<1>6. Agrees(form, {"PhoneNumber", "DestinationPhoneNumber", "To"}, m.to)
  <2>1. \A i \in 1 .. Len(form) : form[i].name = "To" => form[i].value = FormValue(form, "To") BY <1>5, OneValue
  <2> QED BY <1>3, <1>4, <2>1 DEF Agrees
<1>7. Agrees(form, {"Message", "MessageBody", "Body"}, m.body)
  <2>1. /\ \A i \in 1 .. Len(form) : form[i].name = "Body" => form[i].value = body
        /\ "Body" \in Names(form) => body # "absent"
    BY <1>5, OneValue
  <2> QED BY <1>3, <1>4, <2>1 DEF Agrees
<1>8. Values(form, "MediaUrl") \o Values(form, "MediaUrls") = m.media
  <2>1. Values(form, "MediaUrls") = <<>> BY <1>3, NameAbsent
  <2>2. PICK V : Values(form, "MediaUrl") \in Seq(V) BY ValuesAreListed
  <2> DEFINE v == Values(form, "MediaUrl")
  <2>3. m.media = v OBVIOUS
  <2> HIDE DEF v, m
  <2>4. v \in Seq(V) BY <2>2 DEF v
  <2>5. v \o <<>> = v BY <2>4
  <2> QED BY <2>1, <2>3, <2>5 DEF v
<1>9. ~DryAsked(q)
  BY <1>3 DEF DryAsked
<1> HIDE DEF m
<1>10. Says(q, m)
  BY <1>6, <1>7, <1>8 DEF Says
<1> QED BY <1>1, <1>9, <1>10

\* The text adapters between two requests have nothing captured for the next one.
TextInv == TextAnswersTrue /\ (texting = <<>> => stored = <<>>)

\* The answer of the text adapters, with the captured message named.
TextAnswer(q, status, s) ==
    CASE status = "2xx" -> IF DryAsked(q) THEN s = <<>> ELSE Len(s) = 1 /\ Says(q, s[1])
      [] status = "500" -> Len(s) <= 1
      [] OTHER -> s = <<>>

\* A text door captures the one message its request describes.
LEMMA DoorSays ==
    ASSUME NEW q \in TextRequests, Door(q) # "none", Messages(q) # <<>>
    PROVE  /\ \E m : Messages(q) = <<m>> /\ Says(q, m)
           /\ (Door(q) = "voice" /\ DryRun(q)) <=> DryAsked(q)
<1>1. IsForm(q.form)
  BY TextAssumption DEF IsForm
<1>2. Door(q) \in {"twilio", "sns", "voice"}
  BY DEF Door
<1>3. CASE Door(q) = "sns"
  <2>1. Messages(q) = Publish(q) BY <1>3 DEF Messages
  <2> QED BY <1>1, <1>3, <2>1, SnsSays
<1>4. CASE Door(q) = "voice"
  <2>1. Messages(q) = VoiceSend(q) BY <1>4 DEF Messages
  <2>2. \A n \in Names(q.form) \ {"MediaUrls"} : ~Repeated(q.form, n) BY <1>4, TextAssumption
  <2> QED BY <1>1, <1>4, <2>1, <2>2, VoiceSays
<1>5. CASE Door(q) = "twilio"
  <2>1. Messages(q) = TwilioSend(q) BY <1>5 DEF Messages
  <2> QED BY <1>1, <1>5, <2>1, TwilioSays
<1> QED BY <1>2, <1>3, <1>4, <1>5

\* A request is answered with what it captured.
LEMMA TextStep == TextInv /\ TextNext => TextInv'
<1> SUFFICES ASSUME TextInv, TextNext PROVE TextInv'
  OBVIOUS
<1>1. CASE TextAnswered
  <2>1. texting' = <<>> /\ stored' = <<>> BY <1>1 DEF TextAnswered
  <2> QED BY <2>1 DEF TextInv, TextAnswersTrue
<1>2. CASE ReceiveText
  <2>1. stored = <<>> BY <1>2 DEF TextInv, ReceiveText
  <2>2. PICK q \in TextRequests :
          /\ texting' = <<q>>
          /\ IF q.body # "whole" /\ HeadDoor(q) # "none"
               THEN Replies(IF q.body = "large" THEN "413" ELSE "400", "none") /\ UNCHANGED stored
             ELSE IF q.body # "whole" \/ Door(q) = "none"
               THEN Replies("other", "none") /\ UNCHANGED stored
             ELSE IF Refusal(q) = "media"
               THEN Replies("404", "none") /\ UNCHANGED stored
             ELSE IF Refusal(q) # "none"
               THEN Replies(Refusal(q), "none") /\ UNCHANGED stored
             ELSE IF Messages(q) = <<>>
               THEN Replies("400", "none") /\ UNCHANGED stored
             ELSE IF Door(q) = "voice" /\ DryRun(q)
               THEN Replies("2xx", "unused") /\ UNCHANGED stored
             ELSE \/ stored' = Messages(q) /\ Replies("2xx", "stored")
                  \/ UNCHANGED stored /\ Replies("413", "none")
                  \/ stored' \in {<<>>, Messages(q)} /\ Replies("500", "none")
    BY <1>2 DEF ReceiveText
  <2>3. texting' # <<>> /\ texting'[1] = q BY <2>2
  <2> DEFINE status == texted'.status
  <2>4. Refusal(q) \in {"400", "401", "403", "405", "415", "media", "none"}
    BY DEF Refusal, SnsHandle, VoiceHandle, TwilioHandle
  <2>5. \A s, id : Replies(s, id) => status = s BY DEF Replies
  <2>6. \/ status \in {"413", "400", "other", "404", "401", "403", "405", "415"} /\ stored' = <<>>
        \/ Door(q) # "none" /\ Messages(q) # <<>> /\ Door(q) = "voice" /\ DryRun(q) /\ status = "2xx" /\ stored' = <<>>
        \/ /\ Door(q) # "none" /\ Messages(q) # <<>> /\ ~(Door(q) = "voice" /\ DryRun(q))
           /\ status = "2xx" /\ stored' = Messages(q)
        \/ Door(q) # "none" /\ Messages(q) # <<>> /\ status = "500" /\ stored' \in {<<>>, Messages(q)}
    <3> HIDE DEF status
    <3> QED BY <2>1, <2>2, <2>4, <2>5
  <2>7. TextAnswer(q, status, stored')
    <3> HIDE DEF status
    <3>1. CASE status \in {"413", "400", "other", "404", "401", "403", "405", "415"} /\ stored' = <<>>
      BY <3>1 DEF TextAnswer
    <3>2. CASE /\ Door(q) # "none" /\ Messages(q) # <<>> /\ Door(q) = "voice" /\ DryRun(q)
               /\ status = "2xx" /\ stored' = <<>>
      BY <3>2, DoorSays DEF TextAnswer
    <3>3. CASE /\ Door(q) # "none" /\ Messages(q) # <<>> /\ ~(Door(q) = "voice" /\ DryRun(q))
               /\ status = "2xx" /\ stored' = Messages(q)
      <4>1. PICK m : Messages(q) = <<m>> /\ Says(q, m) BY <3>3, DoorSays
      <4>2. ~DryAsked(q) BY <3>3, DoorSays
      <4>3. Len(stored') = 1 /\ stored'[1] = m BY <3>3, <4>1
      <4> QED BY <3>3, <4>1, <4>2, <4>3 DEF TextAnswer
    <3>4. CASE Door(q) # "none" /\ Messages(q) # <<>> /\ status = "500" /\ stored' \in {<<>>, Messages(q)}
      <4>1. PICK m : Messages(q) = <<m>> BY <3>4, DoorSays
      <4>2. Len(<<m>>) = 1 /\ Len(<<>>) = 0 OBVIOUS
      <4>3. Len(stored') \in {0, 1} BY <3>4, <4>1, <4>2
      <4>4. Len(stored') <= 1
        <5> DEFINE l == Len(stored')
        <5> HIDE DEF l
        <5>1. l \in {0, 1} BY <4>3 DEF l
        <5>2. l <= 1 BY <5>1
        <5> QED BY <5>2 DEF l
      <4> QED BY <3>4, <4>4 DEF TextAnswer
    <3> QED BY <2>6, <3>1, <3>2, <3>3, <3>4
  <2>8. TextAnswersTrue'
    BY <2>3, <2>7 DEF TextAnswersTrue, TextAnswer, Says, DryAsked
  <2> QED BY <2>3, <2>8 DEF TextInv
<1> QED BY <1>1, <1>2 DEF TextNext

\* Only the mail scene has a mail request; what the text adapters keep is theirs.
IngressInv ==
    /\ scene = "mail" => MailOK
    /\ scene # "mail" => request = <<>>
    /\ TextInv

\* The answers of the mail and text adapters are true whatever arrives, fails or
\* is rolled back: AnsweredAsFiled.
THEOREM AnswersAreTrue == IngressSpec => []AnsweredAsFiled
<1>1. IngressInit => IngressInv
  <2> SUFFICES ASSUME IngressInit PROVE IngressInv OBVIOUS
  <2>1. request = <<>> /\ answer = "none" /\ job = NoJob /\ copies = {} /\ texting = <<>> /\ stored = <<>>
    BY DEF IngressInit, FanoutInit, MailInit, TextInit
  <2> QED BY <2>1 DEF IngressInv, MailOK, TextInv, TextAnswersTrue
<1>2. IngressInv /\ [IngressNext]_ingressVars => IngressInv'
  <2> SUFFICES ASSUME IngressInv, [IngressNext]_ingressVars PROVE IngressInv' OBVIOUS
  <2>1. UNCHANGED textVars => TextInv' BY DEF IngressInv, TextInv, TextAnswersTrue, textVars
  <2>2. ASSUME UNCHANGED <<scene, mailVars, fanoutVars>> PROVE (scene = "mail" => MailOK)' /\ (scene # "mail" => request = <<>>)'
    <3>1. UNCHANGED <<scene, request, answer, store, copies, job>> BY <2>2 DEF mailVars, fanoutVars
    <3>2. MailOK => MailOK' BY <3>1 DEF MailOK, FiledOK
    <3> QED BY <3>1, <3>2 DEF IngressInv
  <2>3. CASE SmtpScene
    BY <2>1, <2>3 DEF SmtpScene, IngressInv, mailVars
  <2>4. CASE MailScene
    BY <2>1, <2>4, MailStep DEF MailScene, IngressInv
  <2>5. CASE TextScene
    BY <2>2, <2>5, TextStep DEF TextScene, IngressInv
  <2>6. CASE AcsScene \/ EmailScene \/ FaultScene \/ ChecksumScene
    BY <2>1, <2>2, <2>6 DEF AcsScene, EmailScene, FaultScene, ChecksumScene, IngressInv
  <2>7. CASE UNCHANGED ingressVars
    BY <2>1, <2>2, <2>7 DEF ingressVars, IngressInv
  <2> QED BY <2>3, <2>4, <2>5, <2>6, <2>7 DEF IngressNext
<1>3. IngressInv => AnsweredAsFiled
  <2> SUFFICES ASSUME IngressInv PROVE AnsweredAsFiled OBVIOUS
  <2>1. AnswersTrue
    <3>1. CASE scene = "mail" BY <3>1, MailAnswers DEF IngressInv
    <3>2. CASE scene # "mail" BY <3>2 DEF IngressInv, AnswersTrue
    <3> QED BY <3>1, <3>2
  <2> QED BY <2>1 DEF IngressInv, TextInv, AnsweredAsFiled
<1> QED BY <1>1, <1>2, <1>3, PTL DEF IngressSpec

-----------------------------------------------------------------------------
(* The safety half of Settles: the writer of the journal comes to an end *)

\* How far the writer has come with a capture, its rollback or a deletion.
Stage ==
    CASE pc \in {"recover", "delete"} -> 0
      [] pc = "undo" -> IF after = "fail" THEN 7 ELSE 0
      [] pc = "check" -> 1
      [] pc = "mkdir" -> 2
      [] pc = "stage" -> 3
      [] pc = "intend" -> 4
      [] pc \in {"write", "rename"} -> 5
      [] pc = "mark" -> 6
      [] pc = "sync" -> 7
      [] OTHER -> 8

\* What recovery and rollback have still to remove.
Leftover ==
    [find |-> Incomplete \ {undoing}, directory |-> Incomplete,
     intent |-> {v \in Incomplete : intent[v] # {}},
     file |-> {p \in Path : file[p] \notin committed \cup {NoTxn}},
     pending |-> {e \in Path \X Txn : e[2] \in pend[e[1]]}]

LeftoverFields == {"find", "directory", "intent", "file", "pending"}

\* What is still to be done in this stage.
Todo ==
    CASE pc \in {"write", "rename"} -> [write |-> {p \in left : tx \notin pend[p]}, publish |-> left]
      [] pc = "delete" -> [delete |-> left]
      [] OTHER -> Leftover

\* Something is done and nothing new to do.
Fewer(new, prior) ==
    DOMAIN new = DOMAIN prior /\ new # prior /\ \A f \in DOMAIN prior : new[f] \subseteq prior[f]

\* A writer that has begun finds its next step.
NeverWaits ==
    /\ pc \in {"check", "mkdir", "stage", "intend", "write", "rename"}
         \/ (pc \in {"recover", "undo"} /\ after = "capture") => left # {}
    /\ pc = "rename" => \E p \in Path : tx \in pend[p]

\* Only recovery and rollback name a transaction to remove.
SettleInv == NeverWaits /\ (pc # "undo" => undoing = NoTxn)

\* Every step of the writer comes closer to the end of its request; readers do not set it back.
Advance ==
    /\ Writes => Stage' > Stage \/ (Stage' = Stage /\ Fewer(Todo', Todo))
    /\ Reads => Stage' = Stage /\ Todo' = Todo

\* A step that removes something and adds nothing leaves less.
LEMMA LessLeft ==
    ASSUME Incomplete' \ {undoing'} \subseteq Incomplete \ {undoing}, Incomplete' \subseteq Incomplete,
           Leftover'.intent \subseteq Leftover.intent, Leftover'.file \subseteq Leftover.file,
           Leftover'.pending \subseteq Leftover.pending,
           \E f \in LeftoverFields : Leftover'[f] # Leftover[f]
    PROVE  Fewer(Leftover', Leftover)
<1>1. DOMAIN Leftover' = LeftoverFields /\ DOMAIN Leftover = LeftoverFields
  BY DEF Leftover, LeftoverFields
<1>2. /\ Leftover.find = Incomplete \ {undoing} /\ Leftover'.find = Incomplete' \ {undoing'}
      /\ Leftover.directory = Incomplete /\ Leftover'.directory = Incomplete'
  BY DEF Leftover
<1>3. \A f \in LeftoverFields : Leftover'[f] \subseteq Leftover[f]
  BY <1>2 DEF LeftoverFields
<1>4. Leftover' # Leftover
  OBVIOUS
<1> QED BY <1>1, <1>3, <1>4 DEF Fewer

\* Recovery and rollback.
LEMMA UndoAdvances ==
    IInv /\ SettleInv /\ ((\E v \in Txn : RecoverNext(v)) \/ (\E p \in Path : UndoFile(p)) \/ UndoIntent \/ UndoDirectory)
      => Stage' > Stage \/ (Stage' = Stage /\ Fewer(Todo', Todo))
<1> SUFFICES ASSUME IInv, SettleInv,
                    (\E v \in Txn : RecoverNext(v)) \/ (\E p \in Path : UndoFile(p)) \/ UndoIntent \/ UndoDirectory
             PROVE  Stage' > Stage \/ (Stage' = Stage /\ Fewer(Todo', Todo))
  OBVIOUS
<1>t. TypeOK
  BY DEF IInv
<1>f. /\ Leftover.find = Incomplete \ {undoing} /\ Leftover.directory = Incomplete
      /\ Leftover.intent = {v \in Incomplete : intent[v] # {}}
      /\ Leftover.file = {p \in Path : file[p] \notin committed \cup {NoTxn}}
      /\ Leftover.pending = {e \in Path \X Txn : e[2] \in pend[e[1]]}
  BY DEF Leftover
<1>g. /\ Leftover'.find = Incomplete' \ {undoing'} /\ Leftover'.directory = Incomplete'
      /\ Leftover'.intent = {v \in Incomplete' : intent'[v] # {}}
      /\ Leftover'.file = {p \in Path : file'[p] \notin committed' \cup {NoTxn}}
      /\ Leftover'.pending = {e \in Path \X Txn : e[2] \in pend'[e[1]]}
  BY DEF Leftover
<1>h. {"find", "directory", "intent", "file", "pending"} = LeftoverFields
  BY DEF LeftoverFields
<1>1. ASSUME NEW v \in Txn, RecoverNext(v) PROVE Stage' = Stage /\ Fewer(Todo', Todo)
  <2>1. pc = "recover" /\ pc' = "undo" /\ after' = after /\ v \in Incomplete /\ undoing' = v /\ UNCHANGED files
    BY <1>1 DEF RecoverNext
  <2>2. after # "fail" BY <2>1 DEF IInv, WaitOK
  <2>3. undoing \notin Incomplete BY <1>t, <2>1, CaptureAssumption DEF SettleInv, Incomplete, TypeOK
  <2>4. Fewer(Leftover', Leftover)
    <3>1. Incomplete' = Incomplete BY <2>1 DEF files, Incomplete
    <3>2. Leftover'.intent = Leftover.intent /\ Leftover'.file = Leftover.file /\ Leftover'.pending = Leftover.pending
      BY <1>f, <1>g, <2>1, <3>1 DEF files
    <3>3. v \in Leftover.find /\ v \notin Leftover'.find BY <1>f, <1>g, <2>1, <2>3
    <3> QED BY <1>h, <2>1, <2>3, <3>1, <3>2, <3>3, LessLeft
  <2> QED BY <2>1, <2>2, <2>4 DEF Stage, Todo
<1>2. ASSUME NEW p \in Path, UndoFile(p) PROVE Stage' = Stage /\ Fewer(Todo', Todo)
  <2>1. /\ pc = "undo" /\ pc' = "undo" /\ after' = after /\ p \in scope /\ undoing' = undoing
        /\ dirs' = dirs /\ committed' = committed /\ intent' = intent
    BY <1>2 DEF UndoFile, writer
  <2>2. undoing \in Txn /\ undoing \in Incomplete /\ file[p] \in {NoTxn, undoing} BY <1>t, <2>1 DEF IInv, UndoOK, TypeOK, Incomplete
  <2>3. Incomplete' = Incomplete BY <2>1 DEF Incomplete
  <2>4. Leftover'.intent = Leftover.intent BY <1>f, <1>g, <2>1, <2>3
  <2>5. CASE file[p] # NoTxn /\ file' = [file EXCEPT ![p] = NoTxn] /\ UNCHANGED pend
    <3>1. p \in Leftover.file BY <1>f, <2>2, <2>5 DEF Incomplete
    <3>2. Leftover'.file \subseteq Leftover.file /\ p \notin Leftover'.file BY <1>t, <1>f, <1>g, <2>1, <2>5 DEF TypeOK
    <3>3. Leftover'.pending = Leftover.pending BY <1>f, <1>g, <2>5
    <3>4. Fewer(Leftover', Leftover) BY <1>h, <2>1, <2>3, <2>4, <3>1, <3>2, <3>3, LessLeft
    <3> QED BY <2>1, <3>4 DEF Stage, Todo
  <2>6. CASE undoing \in pend[p] /\ pend' = [pend EXCEPT ![p] = @ \ {undoing}] /\ UNCHANGED file
    <3> DEFINE e == <<p, undoing>>
    <3>1. e \in Leftover.pending BY <1>f, <2>2, <2>6
    <3>2. e \notin Leftover'.pending BY <1>t, <1>g, <2>6 DEF TypeOK
    <3>3. Leftover'.pending \subseteq Leftover.pending BY <1>t, <1>f, <1>g, <2>6 DEF TypeOK
    <3>4. Leftover'.file = Leftover.file BY <1>f, <1>g, <2>1, <2>6
    <3>5. Fewer(Leftover', Leftover) BY <1>h, <2>1, <2>3, <2>4, <3>1, <3>2, <3>3, <3>4, LessLeft
    <3> QED BY <2>1, <3>5 DEF Stage, Todo
  <2> QED BY <1>2, <2>5, <2>6 DEF UndoFile
<1>3. ASSUME UndoIntent PROVE Stage' = Stage /\ Fewer(Todo', Todo)
  <2>1. /\ pc = "undo" /\ pc' = "undo" /\ after' = after /\ undoing' = undoing /\ intent[undoing] # {}
        /\ dirs' = dirs /\ committed' = committed /\ file' = file /\ pend' = pend
        /\ intent' = [intent EXCEPT ![undoing] = {}]
    BY <1>3 DEF UndoIntent, writer
  <2>2. undoing \in Incomplete /\ undoing \in Txn BY <1>t, <2>1 DEF IInv, UndoOK, TypeOK, Incomplete
  <2>3. Incomplete' = Incomplete BY <2>1 DEF Incomplete
  <2>4. Leftover'.file = Leftover.file /\ Leftover'.pending = Leftover.pending BY <1>f, <1>g, <2>1
  <2>5. undoing \in Leftover.intent /\ undoing \notin Leftover'.intent BY <1>t, <1>f, <1>g, <2>1, <2>2 DEF TypeOK
  <2>6. Leftover'.intent \subseteq Leftover.intent BY <1>t, <1>f, <1>g, <2>1, <2>3 DEF TypeOK, Incomplete
  <2>7. Fewer(Leftover', Leftover) BY <1>h, <2>1, <2>3, <2>4, <2>5, <2>6, LessLeft
  <2> QED BY <2>1, <2>7 DEF Stage, Todo
<1>4. ASSUME UndoDirectory PROVE Stage' > Stage \/ (Stage' = Stage /\ Fewer(Todo', Todo))
  <2>1. /\ pc = "undo" /\ after' = after /\ undoing' = NoTxn
        /\ dirs' = dirs \ {undoing} /\ committed' = committed /\ file' = file /\ pend' = pend /\ intent' = intent
        /\ pc' = IF after = "fail" THEN "idle" ELSE "recover"
    BY <1>4 DEF UndoDirectory
  <2>2. CASE after = "fail"
    <3>1. Stage = 7 /\ Stage' = 8 BY <2>1, <2>2 DEF Stage
    <3> QED BY <3>1
  <2>3. CASE after # "fail"
    <3>1. undoing \in Incomplete /\ Incomplete' = Incomplete \ {undoing} BY <2>1 DEF IInv, UndoOK, Incomplete
    <3>2. Incomplete' \ {undoing'} \subseteq Incomplete \ {undoing} BY <3>1
    <3>3. Leftover'.intent \subseteq Leftover.intent BY <1>f, <1>g, <2>1, <3>1
    <3>4. Leftover'.file = Leftover.file /\ Leftover'.pending = Leftover.pending BY <1>f, <1>g, <2>1
    <3>5. undoing \in Leftover.directory /\ undoing \notin Leftover'.directory BY <1>f, <1>g, <3>1
    <3>6. Fewer(Leftover', Leftover) BY <1>h, <3>1, <3>2, <3>3, <3>4, <3>5, LessLeft
    <3> QED BY <2>1, <2>3, <3>6 DEF Stage, Todo
  <2> QED BY <2>2, <2>3
<1> QED BY <1>1, <1>2, <1>3, <1>4

\* Every step of the writer.
LEMMA WriteAdvances ==
    IInv /\ SettleInv /\ Writes => Stage' > Stage \/ (Stage' = Stage /\ Fewer(Todo', Todo))
<1> SUFFICES ASSUME IInv, SettleInv, Writes
             PROVE  Stage' > Stage \/ (Stage' = Stage /\ Fewer(Todo', Todo))
  OBVIOUS
<1>t. TypeOK
  BY DEF IInv
<1>1. CASE (\E v \in Txn : RecoverNext(v)) \/ (\E p \in Path : UndoFile(p)) \/ UndoIntent \/ UndoDirectory
  BY <1>1, UndoAdvances
<1>2. CASE RecoverDone
  <2>1. pc = "recover" /\ pc' \in {"idle", "check"} BY <1>2 DEF RecoverDone
  <2>2. Stage = 0 /\ Stage' \in {1, 8} BY <2>1 DEF Stage
  <2> QED BY <2>2
<1>3. CASE CheckDestinations
  <2>1. pc = "check" /\ pc' \in {"idle", "mkdir"} BY <1>3 DEF CheckDestinations
  <2>2. Stage = 1 /\ Stage' \in {2, 8} BY <2>1 DEF Stage
  <2> QED BY <2>2
<1>4. CASE MakeDirectory \/ StageIntent \/ PublishIntent
  <2>1. \/ pc = "mkdir" /\ pc' = "stage"
        \/ pc = "stage" /\ pc' = "intend"
        \/ pc = "intend" /\ pc' = "write"
    BY <1>4 DEF MakeDirectory, StageIntent, PublishIntent
  <2>2. <<Stage, Stage'>> \in {<<2, 3>>, <<3, 4>>, <<4, 5>>} BY <2>1 DEF Stage
  <2> QED BY <2>2
<1>5. CASE MarkCommitted \/ CommitDone \/ DeleteDone
  <2>1. \/ pc = "mark" /\ pc' = "sync"
        \/ pc \in {"sync", "delete"} /\ pc' = "idle"
    BY <1>5 DEF MarkCommitted, CommitDone, DeleteDone
  <2>2. <<Stage, Stage'>> \in {<<6, 7>>, <<7, 8>>, <<0, 8>>} BY <2>1 DEF Stage
  <2> QED BY <2>2
<1>6. ASSUME NEW p \in Path, WritePending(p) PROVE Stage' = Stage /\ Fewer(Todo', Todo)
  <2> DEFINE prior == [write |-> {q \in left : tx \notin pend[q]}, publish |-> left]
             new == [write |-> {q \in left' : tx' \notin pend'[q]}, publish |-> left']
  <2>1. /\ pc = "write" /\ pc' = "rename" /\ p \in left /\ left' = left /\ tx' = tx
        /\ pend' = [pend EXCEPT ![p] = @ \cup {tx}]
    BY <1>6 DEF WritePending
  <2>2. tx \notin pend[p] BY <2>1 DEF IInv, CaptureOK
  <2>3. p \in prior.write /\ p \notin new.write /\ new.write \subseteq prior.write /\ new.publish = prior.publish
    BY <1>t, <2>1, <2>2 DEF TypeOK
  <2>4. DOMAIN prior = {"write", "publish"} /\ DOMAIN new = {"write", "publish"} OBVIOUS
  <2>5. Todo = prior /\ Todo' = new BY <2>1 DEF Todo
  <2> HIDE DEF prior, new
  <2>6. Fewer(new, prior) BY <2>3, <2>4 DEF Fewer
  <2> QED BY <2>1, <2>5, <2>6 DEF Stage
<1>7. ASSUME NEW p \in Path, PublishFile(p) PROVE Stage' > Stage \/ (Stage' = Stage /\ Fewer(Todo', Todo))
  <2> DEFINE prior == [write |-> {q \in left : tx \notin pend[q]}, publish |-> left]
             new == [write |-> {q \in left' : tx' \notin pend'[q]}, publish |-> left']
  <2>1. /\ pc = "rename" /\ pc' \in {"mark", "write"} /\ left' = left \ {p} /\ tx' = tx /\ tx \in pend[p]
        /\ pend' = [pend EXCEPT ![p] = @ \ {tx}]
    BY <1>7 DEF PublishFile
  <2>2. CASE pc' = "mark"
    <3>1. Stage = 5 /\ Stage' = 6 BY <2>1, <2>2 DEF Stage
    <3> QED BY <3>1
  <2>3. CASE pc' = "write"
    <3>1. p \in left BY <2>1 DEF IInv, CaptureOK
    <3>2. p \in prior.publish /\ p \notin new.publish /\ new.write \subseteq prior.write /\ new.publish \subseteq prior.publish
      BY <1>t, <2>1, <3>1 DEF TypeOK
    <3>3. DOMAIN prior = {"write", "publish"} /\ DOMAIN new = {"write", "publish"} OBVIOUS
    <3>4. Todo = prior /\ Todo' = new BY <2>1, <2>3 DEF Todo
    <3> HIDE DEF prior, new
    <3>5. Fewer(new, prior) BY <3>2, <3>3 DEF Fewer
    <3> QED BY <2>1, <2>3, <3>4, <3>5 DEF Stage
  <2> QED BY <2>1, <2>2, <2>3
<1>8. ASSUME NEW p \in Path, DeleteFile(p) PROVE Stage' = Stage /\ Fewer(Todo', Todo)
  <2>1. pc = "delete" /\ pc' = "delete" /\ p \in left /\ left' = left \ {p} BY <1>8 DEF DeleteFile
  <2>2. Todo = [delete |-> left] /\ Todo' = [delete |-> left'] BY <2>1 DEF Todo
  <2>3. /\ DOMAIN Todo = {"delete"} /\ DOMAIN Todo' = {"delete"}
        /\ Todo.delete = left /\ Todo'.delete = left'
    BY <2>2
  <2>4. Fewer(Todo', Todo) BY <2>1, <2>3 DEF Fewer
  <2> QED BY <2>1, <2>4 DEF Stage
<1> QED BY <1>1, <1>2, <1>3, <1>4, <1>5, <1>6, <1>7, <1>8 DEF Writes

\* A reader changes nothing of the writer's.
LEMMA ReadAside == Reads => Stage' = Stage /\ Todo' = Todo
<1> SUFFICES ASSUME Reads PROVE Stage' = Stage /\ Todo' = Todo
  OBVIOUS
<1>1. UNCHANGED <<file, pend, dirs, intent, committed, pc, tx, left, undoing, after>>
  BY DEF Reads, ListBegin, SnapshotLate, SnapshotDone, ListEntry, ListDone, writer, files
<1> QED BY <1>1 DEF Stage, Todo, Leftover, Incomplete

\* The writer's own bookkeeping, beside the invariant.
LEMMA SettleStep == IInv /\ SettleInv /\ [Next]_vars => SettleInv'
<1> SUFFICES ASSUME IInv, SettleInv, [Next]_vars PROVE SettleInv'
  OBVIOUS
<1>t. TypeOK
  BY DEF IInv
<1>s. /\ pc \in {"check", "mkdir", "stage", "intend", "write", "rename"}
           \/ (pc \in {"recover", "undo"} /\ after = "capture") => left # {}
      /\ pc = "rename" => \E p \in Path : tx \in pend[p]
      /\ pc # "undo" => undoing = NoTxn
  BY DEF SettleInv, NeverWaits
<1> USE DEF SettleInv, NeverWaits
<1>1. CASE UNCHANGED vars
  BY <1>s, <1>1 DEF vars, writer, files
<1>2. CASE Requests
  BY <1>s, <1>2 DEF Requests, Capture, BeginDelete
<1>3. CASE Reads
  BY <1>s, <1>3 DEF Reads, ListBegin, SnapshotLate, SnapshotDone, ListEntry, ListDone, writer, files
<1>4. CASE (\E v \in Txn : RecoverNext(v)) \/ RecoverDone \/ CheckDestinations \/ StageIntent \/ CommitDone
  <2>1. pc = "recover" => after \in {"boot", "capture"} BY <1>t DEF TypeOK, IInv, WaitOK
  <2>2. CASE RecoverDone BY <1>s, <2>1, <2>2 DEF RecoverDone
  <2>3. CASE CheckDestinations \/ StageIntent \/ CommitDone
    BY <1>s, <2>3 DEF CheckDestinations, StageIntent, CommitDone
  <2>4. ASSUME NEW v \in Txn, RecoverNext(v) PROVE SettleInv' BY <1>s, <2>1, <2>4 DEF RecoverNext
  <2> QED BY <1>4, <2>2, <2>3, <2>4
<1>5. CASE (\E p \in Path : UndoFile(p)) \/ UndoIntent \/ UndoDirectory
  BY <1>s, <1>5 DEF UndoFile, UndoIntent, UndoDirectory, writer
<1>6. CASE MakeDirectory \/ PublishIntent \/ MarkCommitted
  BY <1>s, <1>6 DEF MakeDirectory, PublishIntent, MarkCommitted
<1>7. ASSUME NEW p \in Path, WritePending(p) PROVE SettleInv'
  <2>1. /\ pc = "write" /\ pc' = "rename" /\ left' = left /\ tx' = tx /\ undoing' = undoing
        /\ pend' = [pend EXCEPT ![p] = @ \cup {tx}]
    BY <1>7 DEF WritePending
  <2>2. tx' \in pend'[p] BY <1>t, <2>1 DEF TypeOK
  <2> QED BY <1>s, <2>1, <2>2
<1>8. ASSUME NEW p \in Path, PublishFile(p) PROVE SettleInv'
  <2>1. /\ pc = "rename" /\ left' = left \ {p} /\ pc' = (IF left = {p} THEN "mark" ELSE "write") /\ undoing' = undoing
    BY <1>8 DEF PublishFile
  <2>2. left # {} BY <1>s, <2>1
  <2>3. left # {p} => left' # {} BY <2>1, <2>2
  <2> QED BY <1>s, <2>1, <2>3
<1>9. CASE (\E p \in Path : DeleteFile(p)) \/ DeleteDone
  BY <1>s, <1>9 DEF DeleteFile, DeleteDone
<1>10. CASE Fault \/ Crash \/ Open
  BY <1>s, <1>10 DEF Fault, Crash, Open
<1> QED
  BY <1>1, <1>2, <1>3, <1>4, <1>5, <1>6, <1>7, <1>8, <1>9, <1>10 DEF Next, Writes

\* What Settles needs beside the fairness of the writer, for any destinations and
\* transactions: a writer that has begun has a next step, and each step of it
\* reaches a later stage or leaves less to do in its stage, which no reader undoes.
THEOREM WriterAdvances == Spec => []NeverWaits /\ [][Advance]_vars
<1>1. Init => IInv /\ SettleInv
  <2>1. Init => SettleInv BY DEF Init, SettleInv, NeverWaits
  <2> QED BY <2>1, InitInv
<1>2. IInv /\ SettleInv /\ [Next]_vars => IInv' /\ SettleInv'
  BY NextInv, SettleStep
<1>3. IInv /\ SettleInv => Advance
  BY WriteAdvances, ReadAside DEF Advance
<1>4. SettleInv => NeverWaits
  BY DEF SettleInv
<1> QED BY <1>1, <1>2, <1>3, <1>4, PTL DEF Spec
=============================================================================
