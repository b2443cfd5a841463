------------------------------ MODULE Capture ------------------------------
(***************************************************************************)
(* The capture journal of capture.rs as the mail and SMS stores use it:    *)
(* one writer at a time (the stores' mutex), readers that take no lock,    *)
(* and one action per filesystem effect so that errors and process death   *)
(* fall between any two of them.                                           *)
(*                                                                         *)
(* A transaction has a directory holding its intent (the destinations it   *)
(* will write) and, once decided, an empty file "committed".  A file's     *)
(* content is abstracted to the transaction that wrote it, which is what   *)
(* the stored message and the replay record carry.                         *)
(***************************************************************************)
EXTENDS Naturals

CONSTANTS
    Txn,            \* transaction identities (new_transaction_id)
    NoTxn,
    Path,           \* destinations below the store's root
    Records,        \* the destinations of replay records, which nothing deletes
    Dir,            \* mailbox or peer directories that readers list
    DirOf,          \* message destination -> Dir
    MaxFailures     \* bound: filesystem errors and process deaths together

ASSUME CaptureAssumption ==
    /\ NoTxn \notin Txn
    /\ Records \subseteq Path
    /\ DirOf \in [Path \ Records -> Dir]
    /\ MaxFailures \in Nat

VARIABLES
    file,       \* Path -> the transaction that wrote the file (NoTxn: no file)
    pend,       \* Path -> transactions with a .pending-<id> file beside it
    dirs,       \* transaction directories
    intent,     \* Txn -> destinations of its intent.json ({}: none published)
    committed   \* transactions with a commit marker

VARIABLES
    pc,         \* control point of the writer
    tx,         \* the transaction being captured
    batch,      \* its destinations
    left,       \* destinations still to be staged, or still to be deleted
    undoing,    \* the transaction whose files are being removed
    scope,      \* the destinations that removal covers
    after,      \* where recovery or rollback returns to
    reply       \* outcome of the last request

VARIABLES
    rpc, known, listed, unseen, got,    \* the reader: a listing in progress
    unused, failures, deleted           \* fresh identities, bound, history of deletions

files == <<file, pend, dirs, intent, committed>>
writer == <<pc, tx, batch, left, undoing, scope, after, reply>>
reader == <<rpc, known, listed, unseen, got>>
vars == <<files, writer, reader, unused, failures, deleted>>

PCs == {"down", "idle", "recover", "undo", "check", "mkdir", "stage", "intend",
        "write", "rename", "mark", "sync", "delete"}

TypeOK ==
    /\ file \in [Path -> Txn \cup {NoTxn}]
    /\ pend \in [Path -> SUBSET Txn]
    /\ dirs \in SUBSET Txn /\ committed \in SUBSET Txn
    /\ intent \in [Txn -> SUBSET Path]
    /\ pc \in PCs
    /\ tx \in Txn \cup {NoTxn} /\ undoing \in Txn \cup {NoTxn}
    /\ batch \in SUBSET Path /\ left \in SUBSET Path /\ scope \in SUBSET Path
    /\ after \in {"boot", "capture", "fail"}
    /\ reply \in {"none", "ok", "err"}
    /\ rpc \in {"idle", "snapshot", "listing"}
    /\ known \in SUBSET Txn /\ listed \in Dir
    /\ unseen \in SUBSET Path /\ got \in SUBSET (Path \X Txn)
    /\ unused \in SUBSET Txn /\ failures \in Nat
    /\ deleted \in SUBSET (Path \X Txn)

Init ==
    /\ file = [p \in Path |-> NoTxn]
    /\ pend = [p \in Path |-> {}]
    /\ dirs = {} /\ committed = {}
    /\ intent = [t \in Txn |-> {}]
    /\ pc = "idle" /\ tx = NoTxn /\ batch = {} /\ left = {}
    /\ undoing = NoTxn /\ scope = {} /\ after = "capture" /\ reply = "none"
    /\ rpc = "idle" /\ known = {} /\ unseen = {} /\ got = {}
    /\ listed \in Dir
    /\ unused = Txn /\ failures = 0 /\ deleted = {}

-----------------------------------------------------------------------------
(* recover: undo every transaction directory that has no commit marker *)

Incomplete == dirs \ committed

RecoverNext(v) ==
    /\ pc = "recover"
    /\ v \in Incomplete
    /\ undoing' = v /\ scope' = intent[v]
    /\ pc' = "undo"
    /\ UNCHANGED <<files, tx, batch, left, after, reply, reader, unused, failures, deleted>>

RecoverDone ==
    /\ pc = "recover"
    /\ Incomplete = {}
    /\ pc' = IF after = "boot" THEN "idle" ELSE "check"
    /\ UNCHANGED <<files, tx, batch, left, undoing, scope, after, reply, reader, unused, failures, deleted>>

\* Recovery and rollback remove each named destination and its pending file,
\* and the transaction directory only when all of them are gone.
UndoFile(p) ==
    /\ pc = "undo"
    /\ p \in scope
    /\ \/ file[p] # NoTxn /\ file' = [file EXCEPT ![p] = NoTxn] /\ UNCHANGED pend
       \/ undoing \in pend[p] /\ pend' = [pend EXCEPT ![p] = @ \ {undoing}] /\ UNCHANGED file
    /\ UNCHANGED <<dirs, intent, committed, writer, reader, unused, failures, deleted>>

Undone == \A p \in scope : file[p] = NoTxn /\ undoing \notin pend[p]

\* remove_dir_all of the transaction directory: the intent, then the directory.
UndoIntent ==
    /\ pc = "undo" /\ Undone
    /\ intent[undoing] # {}
    /\ intent' = [intent EXCEPT ![undoing] = {}]
    /\ UNCHANGED <<file, pend, dirs, committed, writer, reader, unused, failures, deleted>>

\* Not the code: rollback leaves the directories it made.
UndoKept ==
    /\ pc = "undo" /\ Undone
    /\ intent[undoing] = {}
    /\ undoing' = NoTxn /\ scope' = {}
    /\ IF after = "fail" THEN pc' = "idle" /\ reply' = "err" ELSE pc' = "recover" /\ UNCHANGED reply
    /\ UNCHANGED <<files, tx, batch, left, after, reader, unused, failures, deleted>>
UndoDirectory ==
    /\ pc = "undo" /\ Undone
    /\ intent[undoing] = {}
    /\ dirs' = dirs \ {undoing}
    /\ undoing' = NoTxn /\ scope' = {}
    /\ IF after = "fail" THEN pc' = "idle" /\ reply' = "err" ELSE pc' = "recover" /\ UNCHANGED reply
    /\ UNCHANGED <<file, pend, intent, committed, tx, batch, left, after, reader, unused, failures, deleted>>

-----------------------------------------------------------------------------
(* commit_with_hook *)

\* capture_batch and store_message, once they hold the store's mutex.
Capture(t, b) ==
    /\ pc = "idle"
    /\ t \in unused
    /\ unused' = unused \ {t}
    /\ tx' = t /\ batch' = b /\ left' = b
    /\ pc' = "recover" /\ after' = "capture" /\ reply' = "none"
    /\ UNCHANGED <<files, undoing, scope, reader, failures, deleted>>

\* A destination that exists is refused before anything is written.
CheckDestinations ==
    /\ pc = "check"
    /\ IF \E p \in batch : file[p] # NoTxn
         THEN pc' = "idle" /\ reply' = "err"
         ELSE pc' = "mkdir" /\ UNCHANGED reply
    /\ UNCHANGED <<files, tx, batch, left, undoing, scope, after, reader, unused, failures, deleted>>

MakeDirectory ==
    /\ pc = "mkdir"
    /\ dirs' = dirs \cup {tx}
    /\ pc' = "stage"
    /\ UNCHANGED <<file, pend, intent, committed, tx, batch, left, undoing, scope, after, reply,
                   reader, unused, failures, deleted>>

\* intent.pending, written and synced; recovery never parses it.
StageIntent ==
    /\ pc = "stage"
    /\ pc' = "intend"
    /\ UNCHANGED <<files, tx, batch, left, undoing, scope, after, reply, reader, unused, failures, deleted>>

\* Not the code: no intent is published before the files are.
PublishNoIntent ==
    /\ pc = "intend"
    /\ pc' = "write"
    /\ UNCHANGED <<files, tx, batch, left, undoing, scope, after, reply, reader, unused, failures, deleted>>
\* Not the code: the intent already counts as the commit.
CommitWithIntent ==
    /\ pc = "intend"
    /\ intent' = [intent EXCEPT ![tx] = batch]
    /\ committed' = committed \cup {tx}
    /\ pc' = "write"
    /\ UNCHANGED <<file, pend, dirs, tx, batch, left, undoing, scope, after, reply,
                   reader, unused, failures, deleted>>
PublishIntent ==
    /\ pc = "intend"
    /\ intent' = [intent EXCEPT ![tx] = batch]
    /\ pc' = "write"
    /\ UNCHANGED <<file, pend, dirs, committed, tx, batch, left, undoing, scope, after, reply,
                   reader, unused, failures, deleted>>

\* The order of the batch is an input: any destination may be the next one.
WritePending(p) ==
    /\ pc = "write"
    /\ p \in left
    /\ pend' = [pend EXCEPT ![p] = @ \cup {tx}]
    /\ pc' = "rename"
    /\ UNCHANGED <<file, dirs, intent, committed, tx, batch, left, undoing, scope, after, reply,
                   reader, unused, failures, deleted>>

PublishFile(p) ==
    /\ pc = "rename"
    /\ tx \in pend[p]
    /\ file' = [file EXCEPT ![p] = tx]
    /\ pend' = [pend EXCEPT ![p] = @ \ {tx}]
    /\ left' = left \ {p}
    /\ pc' = IF left = {p} THEN "mark" ELSE "write"
    /\ UNCHANGED <<dirs, intent, committed, tx, batch, undoing, scope, after, reply,
                   reader, unused, failures, deleted>>

\* The marker publishes the whole batch; what may still fail is its sync.
MarkCommitted ==
    /\ pc = "mark"
    /\ committed' = committed \cup {tx}
    /\ pc' = "sync"
    /\ UNCHANGED <<file, pend, dirs, intent, tx, batch, left, undoing, scope, after, reply,
                   reader, unused, failures, deleted>>

CommitDone ==
    /\ pc = "sync"
    /\ pc' = "idle" /\ reply' = "ok"
    /\ UNCHANGED <<files, tx, batch, left, undoing, scope, after, reader, unused, failures, deleted>>

-----------------------------------------------------------------------------
(* delete_message, delete_mailbox, delete_conversation *)

BeginDelete(s) ==
    /\ pc = "idle"
    /\ left' = s /\ pc' = "delete" /\ reply' = "none"
    /\ UNCHANGED <<files, tx, batch, undoing, scope, after, reader, unused, failures, deleted>>

DeleteFile(p) ==
    /\ pc = "delete"
    /\ p \in left
    /\ file' = [file EXCEPT ![p] = NoTxn]
    /\ deleted' = IF file[p] = NoTxn THEN deleted ELSE deleted \cup {<<p, file[p]>>}
    /\ left' = left \ {p}
    /\ UNCHANGED <<pend, dirs, intent, committed, pc, tx, batch, undoing, scope, after, reply,
                   reader, unused, failures>>

DeleteDone ==
    /\ pc = "delete"
    /\ left = {}
    /\ pc' = "idle" /\ reply' = "ok"
    /\ UNCHANGED <<files, tx, batch, left, undoing, scope, after, reader, unused, failures, deleted>>

-----------------------------------------------------------------------------
(* list_messages, list_mailboxes, list_conversations: no lock *)

Members(d) == {p \in Path \ Records : DirOf[p] = d}

\* committed_snapshot is taken before the directory is read.  It scans the
\* transaction directories one by one, so it knows every transaction decided
\* before it began and any that is decided while it runs.
ListBegin(d) ==
    /\ rpc = "idle" /\ pc # "down"
    /\ rpc' = "snapshot"
    /\ known' = committed /\ listed' = d
    /\ unseen' = Members(d) /\ got' = {}
    /\ UNCHANGED <<files, writer, unused, failures, deleted>>

SnapshotLate(t) ==
    /\ rpc = "snapshot"
    /\ t \in committed \ known
    /\ known' = known \cup {t}
    /\ UNCHANGED <<files, writer, rpc, listed, unseen, got, unused, failures, deleted>>

SnapshotDone ==
    /\ rpc = "snapshot"
    /\ rpc' = "listing"
    /\ UNCHANGED <<files, writer, known, listed, unseen, got, unused, failures, deleted>>

\* Not the code: each entry is tested against the transactions committed when it is opened.
ListEntryLive(p) ==
    /\ rpc = "listing"
    /\ p \in unseen
    /\ unseen' = unseen \ {p}
    /\ got' = IF file[p] \in committed THEN got \cup {<<p, file[p]>>} ELSE got
    /\ UNCHANGED <<files, writer, rpc, known, listed, unused, failures, deleted>>
\* A file is reported when the snapshot knows its transaction.  Each entry is
\* opened at its own moment; one that is gone by then is skipped.
ListEntry(p) ==
    /\ rpc = "listing"
    /\ p \in unseen
    /\ unseen' = unseen \ {p}
    /\ got' = IF file[p] \in known THEN got \cup {<<p, file[p]>>} ELSE got
    /\ UNCHANGED <<files, writer, rpc, known, listed, unused, failures, deleted>>

ListDone ==
    /\ rpc = "listing" /\ unseen = {}
    /\ rpc' = "idle" /\ known' = {} /\ got' = {}
    /\ UNCHANGED <<files, writer, listed, unseen, unused, failures, deleted>>

-----------------------------------------------------------------------------
(* Failures *)

\* A step of the writer fails.  A capture that has not been decided rolls
\* back; one that has reports the error and stays.
Fault ==
    /\ failures < MaxFailures
    /\ failures' = failures + 1
    /\ pc \notin {"down", "idle", "check"}
    /\ IF pc \in {"stage", "intend", "write", "rename", "mark"}
         THEN /\ pc' = "undo" /\ undoing' = tx /\ scope' = batch /\ after' = "fail"
              /\ UNCHANGED reply
         ELSE /\ pc' = IF pc \in {"recover", "undo"} /\ after = "boot" THEN "down" ELSE "idle"
              /\ reply' = "err" /\ undoing' = NoTxn /\ scope' = {}
              /\ UNCHANGED after
    /\ UNCHANGED <<files, tx, batch, left, reader, unused, deleted>>

Crash ==
    /\ failures < MaxFailures
    /\ failures' = failures + 1
    /\ pc # "down"
    /\ pc' = "down" /\ reply' = "none"
    /\ tx' = NoTxn /\ batch' = {} /\ left' = {} /\ undoing' = NoTxn /\ scope' = {}
    /\ rpc' = "idle" /\ known' = {} /\ unseen' = {} /\ got' = {}
    /\ UNCHANGED <<files, after, listed, unused, deleted>>

\* Opening the store recovers it.
Open ==
    /\ pc = "down"
    /\ pc' = "recover" /\ after' = "boot"
    /\ UNCHANGED <<files, tx, batch, left, undoing, scope, reply, reader, unused, failures, deleted>>

-----------------------------------------------------------------------------
Writes ==
    \/ \E v \in Txn : RecoverNext(v)
    \/ RecoverDone
    \/ \E p \in Path : UndoFile(p)
    \/ UndoIntent \/ UndoDirectory
    \/ CheckDestinations \/ MakeDirectory \/ StageIntent \/ PublishIntent
    \/ \E p \in Path : WritePending(p) \/ PublishFile(p)
    \/ MarkCommitted \/ CommitDone
    \/ \E p \in Path : DeleteFile(p)
    \/ DeleteDone

Requests ==
    \/ \E t \in Txn, b \in SUBSET Path : b # {} /\ Capture(t, b)
    \/ \E s \in SUBSET (Path \ Records) : s # {} /\ BeginDelete(s)

Reads ==
    \/ \E d \in Dir : ListBegin(d)
    \/ \E t \in Txn : SnapshotLate(t)
    \/ SnapshotDone
    \/ \E p \in Path : ListEntry(p)
    \/ ListDone

Next == Requests \/ Writes \/ Reads \/ Fault \/ Crash \/ Open

Spec == Init /\ [][Next]_vars
\* The holder of the store's mutex keeps running.
FairSpec == Spec /\ WF_vars(Writes)

-----------------------------------------------------------------------------
(* Properties *)

\* What a reader may use: a file whose transaction is committed.
Visible == [p \in Path |-> IF file[p] \in committed THEN file[p] ELSE NoTxn]

\* Every leftover of an undecided transaction is named by a durable intent, so
\* reopening the store finds and removes it (recover in capture.rs).
Recoverable ==
    \A p \in Path :
      /\ file[p] \in committed \cup {NoTxn} \/ (file[p] \in dirs /\ p \in intent[file[p]])
      /\ \A t \in pend[p] : t \in Incomplete /\ p \in intent[t]

\* Once recovery has run, nothing of an undecided transaction is left.
RecoveredClean ==
    pc \in {"check", "mkdir"} =>
      /\ Incomplete = {}
      /\ \A p \in Path : file[p] \in committed \cup {NoTxn} /\ pend[p] = {}

\* No recovery and no rollback ever removes a captured file: only a deletion
\* takes away what readers can see.
CapturesKept ==
    [][\A p \in Path : Visible[p] # NoTxn /\ Visible'[p] # Visible[p] => pc = "delete"]_vars

\* A listing reports all of a batch's files in that directory or none of them,
\* however the capture and its rollback interleave with the directory scan.
ListsWhole ==
    rpc = "listing" /\ unseen = {} =>
      \A e \in got : \A p \in intent[e[2]] \cap Members(listed) : <<p, e[2]>> \in got \cup deleted

\* The journal implements batches that become visible at one instant.
Log == INSTANCE CaptureLog WITH visible <- Visible, published <- committed
Implements == Log!Spec

\* Recovery, rollback, capture and deletion all end.
Settles == pc \notin {"idle", "down"} ~> pc \in {"idle", "down"}
=============================================================================
