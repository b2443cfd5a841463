----------------------------- MODULE CaptureLog -----------------------------
(***************************************************************************)
(* What a capture store promises its readers: a batch of messages and      *)
(* replay records becomes visible at one instant, onto destinations that   *)
(* were free, and what is visible goes away only by being deleted.         *)
(***************************************************************************)
CONSTANTS
    Txn,        \* transaction identities
    Path,       \* destinations: message copies, sidecars, replay records
    NoTxn       \* a destination that holds nothing visible

VARIABLES
    visible,    \* Path -> the transaction whose file a reader may use
    published   \* transactions ever published

vars == <<visible, published>>

Init ==
    /\ visible = [p \in Path |-> NoTxn]
    /\ published = {}

Publish(t, batch) ==
    /\ t \notin published
    /\ \A p \in batch : visible[p] = NoTxn
    /\ visible' = [p \in Path |-> IF p \in batch THEN t ELSE visible[p]]
    /\ published' = published \cup {t}

Delete(p) ==
    /\ visible' = [visible EXCEPT ![p] = NoTxn]
    /\ UNCHANGED published

Next ==
    \/ \E t \in Txn, batch \in SUBSET Path : Publish(t, batch)
    \/ \E p \in Path : Delete(p)

Spec == Init /\ [][Next]_vars
=============================================================================
