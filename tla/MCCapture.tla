----------------------------- MODULE MCCapture -----------------------------
(* Small instances of Capture: a mailbox with two destinations and one       *)
(* replay record.                                                            *)
EXTENDS Capture, TLC

CONSTANTS t1, t2, p1, p2, record, mailbox

MCDirOf == (p1 :> mailbox) @@ (p2 :> mailbox)
=============================================================================
