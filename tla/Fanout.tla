------------------------------- MODULE Fanout -------------------------------
(***************************************************************************)
(* How captured mail is filed: fan_out, fan_out_batch and fan_out_with_id. *)
(* A message becomes one copy per mailbox of its recipients and one in the *)
(* account-wide mailbox.  A store either publishes the whole batch with    *)
(* its journal (module Capture gives the steps of that; here it is one) or *)
(* is written copy by copy and cleaned up after an error.                  *)
(***************************************************************************)
EXTENDS Naturals, Sequences, SequencesExt

CONSTANTS Stores,           \* which kinds of store: subset of {"journal", "plain"}
          MaxCaptureBytes, EnvelopeBytes,
          MaxStoreErrors    \* bound on failing store calls per batch

VARIABLES store,
          copies,           \* the copies of the job's batch: [box, id, message], where id
                            \* is a fresh one and stands for the message's place in the batch
          job,              \* the batch being filed, or the last one
          storeErrors

fanoutVars == <<store, copies, job, storeErrors>>

AllMailbox == "_all"

\* An address is a mailbox and one of the ways to spell it.
MailboxKey(a) == a.box

Recipients(m) == m.to \o m.cc \o m.bcc

Mailboxes(m) == {MailboxKey(a) : a \in ToSet(Recipients(m))}

Targets(m) == <<AllMailbox>> \o SetToSeq(Mailboxes(m))

\* Three copies of the message in memory, then per target the stored copy, its
\* envelope and raw sidecar, and the copy that is returned to the caller.
AddMessage(total, m) ==
    FoldLeft(LAMBDA sum, box : sum + m.size + EnvelopeBytes + m.raw
                                   + IF box = AllMailbox THEN 0 ELSE m.size,
             total + 3 * m.size, Targets(m))

CheckMessages(ms) == FoldLeft(AddMessage, 0, ms) <= MaxCaptureBytes

Filed(ms) ==
    UNION {{[box |-> box, id |-> i, message |-> ms[i]] : box \in ToSet(Targets(ms[i]))} :
               i \in 1..Len(ms)}

NoJob == [pc |-> "idle", msgs |-> <<>>, at |-> 1, left |-> <<>>, written |-> <<>>,
          stuck |-> FALSE, result |-> "none"]

FanoutInit ==
    /\ store \in Stores /\ copies = {} /\ job = NoJob /\ storeErrors = 0

Idle == job.pc \in {"idle", "done"}

\* The outcome has been told; later batches neither read nor change these copies.
Settle == job' = NoJob /\ copies' = {} /\ storeErrors' = 0 /\ UNCHANGED store

Fails == storeErrors < MaxStoreErrors /\ storeErrors' = storeErrors + 1

-----------------------------------------------------------------------------
Finished(result) == [job EXCEPT !.pc = "done", !.result = result]

\* Every door has refused a message without recipients before, so that refusal is not here.
FanOutBatch(ms) ==
    LET new == [NoJob EXCEPT !.msgs = ms]
        done(result) == [new EXCEPT !.pc = "done", !.result = result]
    IN  /\ job = NoJob
        /\ \/ /\ ~CheckMessages(ms)
              /\ job' = done("large") /\ copies' = {} /\ UNCHANGED storeErrors
           \/ /\ CheckMessages(ms) /\ store = "plain"
              /\ job' = [new EXCEPT !.pc = "check", !.left = Targets(ms[1])]
              /\ copies' = {} /\ UNCHANGED storeErrors
           \/ /\ CheckMessages(ms) /\ store = "journal"
              /\ \/ /\ job' = done("ok") /\ UNCHANGED storeErrors
                    /\ copies' = Filed(ms)
                 \* an error before the commit marker, or while it is synced
                 \/ /\ Fails /\ job' = done("err")
                    /\ copies' \in {{}, Filed(ms)}
        /\ UNCHANGED store

\* The copies of the messages before this one, for the rollback of the batch.
Earlier == FlattenSeq([i \in 1..(job.at - 1) |->
                [j \in 1..Len(Targets(job.msgs[i])) |-> <<Targets(job.msgs[i])[j], i>>]])

\* Every mailbox is made and found free before the first copy is visible.
CheckTarget ==
    /\ job.pc = "check"
    /\ \/ /\ job.left # <<>>
          /\ [box |-> Head(job.left), id |-> job.at] \notin {[box |-> c.box, id |-> c.id] : c \in copies}
          /\ job' = IF Len(job.left) > 1 THEN [job EXCEPT !.left = Tail(@)]
                    ELSE [job EXCEPT !.pc = "store", !.left = Targets(job.msgs[job.at])]
          /\ UNCHANGED storeErrors
       \/ /\ Fails
          /\ job' = [job EXCEPT !.pc = "undo", !.left = Earlier, !.result = "err"]
    /\ UNCHANGED <<store, copies>>

\* A faulty form of RollbackTargets.
RollbackWrittenOnly(written, box) == written

\* What is deleted when the copy for a target fails: the target's own copy may be there.
RollbackTargets(written, box) == Append(written, box)

StoreCopy ==
    LET box == Head(job.left)
        added == copies \cup {[box |-> box, id |-> job.at, message |-> job.msgs[job.at]]}
        next == [job EXCEPT !.at = @ + 1, !.pc = "check", !.written = <<>>,
                            !.left = Targets(job.msgs[job.at + 1])]
    IN  /\ job.pc = "store"
        /\ \/ /\ copies' = added /\ UNCHANGED storeErrors
              /\ job' = IF Len(job.left) > 1 THEN [job EXCEPT !.left = Tail(@), !.written = Append(@, box)]
                        ELSE IF job.at = Len(job.msgs) THEN Finished("ok") ELSE next
           \/ /\ Fails /\ copies' \in {copies, added}
              /\ LET own == RollbackTargets(job.written, box)
                 IN  job' = [job EXCEPT !.pc = "undo", !.result = "err",
                                        !.left = [k \in 1..Len(own) |-> <<own[k], job.at>>] \o Earlier]
        /\ UNCHANGED store

\* delete_message of what was written; a copy that cannot be deleted is reported and skipped.
Undo ==
    /\ job.pc = "undo" /\ job.left # <<>>
    /\ \/ /\ copies' = {c \in copies : <<c.box, c.id>> # Head(job.left)}
          /\ job' = [job EXCEPT !.left = Tail(@)] /\ UNCHANGED storeErrors
       \/ /\ Fails /\ job' = [job EXCEPT !.left = Tail(@), !.stuck = TRUE] /\ UNCHANGED copies
    /\ UNCHANGED store

UndoDone ==
    /\ job.pc = "undo" /\ job.left = <<>>
    /\ job' = Finished(job.result)
    /\ UNCHANGED <<store, copies, storeErrors>>

Filing == CheckTarget \/ StoreCopy \/ Undo \/ UndoDone
=============================================================================
