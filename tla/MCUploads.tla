----------------------------- MODULE MCUploads ------------------------------
(***************************************************************************)
(* Uploads in pieces, one scene each: S3 multipart uploads and a GCS       *)
(* resumable session.  They share no state.                                *)
(***************************************************************************)
EXTENDS Multipart, GcsResumable, TLC

CONSTANT Longer     \* the content of another length than the other two

VARIABLE scene

uploadVars == <<scene, vars, gcsVars>>

\* What the scene does not use is in one of its initial states.
UploadsInit ==
    /\ scene \in {"multipart", "resumable"}
    /\ Init /\ (scene # "multipart" => legacy = [u \in Upload |-> NoRecord])
    /\ GcsInit /\ (scene # "resumable" => sess.kind = "legacy" /\ sess.cond = "none")

MultipartScene == scene = "multipart" /\ Next /\ UNCHANGED <<scene, gcsVars>>

ResumableScene == scene = "resumable" /\ GcsNext /\ UNCHANGED <<scene, vars>>

UploadsNext == MultipartScene \/ ResumableScene

UploadsSpec == UploadsInit /\ [][UploadsNext]_uploadVars

-----------------------------------------------------------------------------
MCSize(d) == IF d = Longer THEN 2 ELSE 1

\* The contents of one length are interchangeable.
MCSymmetry == Permutations(Data \ {Longer})
=============================================================================
