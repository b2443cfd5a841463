----------------------------- MODULE MCBuckets -----------------------------
(* One bucket with one key, under the operation gate and, as the locks alone  *)
(* allow, without it.                                                         *)
EXTENDS Buckets
CONSTANTS k1, m0, m1,
          LooseCrashes    \* a smaller bound without the gate
VARIABLE gate
Keys == {k1}
Metas == {m0, m1}

Loose == INSTANCE Buckets WITH Gated <- FALSE

MCInit == gate \in BOOLEAN /\ Init

MCNext ==
  /\ \/ gate /\ Next
     \/ ~gate /\ Loose!Next /\ crashes' <= LooseCrashes
  /\ UNCHANGED gate

MCSpec == MCInit /\ [][MCNext]_<<vars, gate>>

(* Under the operation gate startup refuses the data root only if a bucket's  *)
(* removal was cut short or its name could not be written (create_bucket,     *)
(* delete_bucket, recovery of nameless directories).                          *)
RefusalExplainedGated == gate => RefusesOnlyDamaged
=============================================================================
