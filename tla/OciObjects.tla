----------------------------- MODULE OciObjects -----------------------------
(***************************************************************************)
(* The OCI front door on the shared namespace: buckets, objects, multipart *)
(* uploads, and pre-authenticated requests (PARs).  A PAR is a token that  *)
(* lets its holder read or write one object, or any, until it expires; its *)
(* record and the bucket's index of PARs are saved separately.             *)
(***************************************************************************)
EXTENDS Namespace

CONSTANT Tokens         \* identities of pre-authenticated requests

\* A token is told apart from a signature.
ASSUME OciAssumption == "signed" \notin Tokens

VARIABLES pars,         \* the saved PAR of every token
          parIndex      \* the tokens the bucket's index lists

ocivars == <<pars, parIndex>>

Signed == "signed"      \* a request signed by its caller
AnyObject == "any"
NoPar == [live |-> FALSE, write |-> FALSE, scope |-> AnyObject, expires |-> 0]

\* foreign_protection_active does not look at the versioning marker itself.
OciConflict(b) == AzureActive(b) \/ S3HistoryMode(b) \/ GcsHistoryMode(b) \/ AzureHistoryMode(b)

OciRequest ==
    /\ Asked("oci")
    /\ UNCHANGED <<deletion, now, scene>>

\* Not the code: the scope of the PAR is forgotten
MayWriteAny(cred, k) ==
    \/ cred = Signed
    \/ cred \in Tokens /\ pars[cred].live /\ pars[cred].write /\ now < pars[cred].expires

\* Who may write k: a signed request, or the holder of a live PAR for k.
MayWrite(cred, k) ==
    \/ cred = Signed
    \/ /\ cred \in Tokens
       /\ pars[cred].live /\ pars[cred].write /\ now < pars[cred].expires
       /\ pars[cred].scope \in {AnyObject, k}

Credentials == {Signed} \cup Tokens

(***************************************************************************)
(* Buckets.                                                                *)
(***************************************************************************)
OciCreateBucket ==
    /\ OciRequest
    /\ ~bucket.exists
    /\ Serve("oci", Signed, <<EmptyBucket>>)
    /\ UNCHANGED <<writes, ocivars>>

\* The PARs of the bucket are not removed with it.
OciDeleteBucket ==
    /\ OciRequest
    /\ ~OciConflict(bucket) /\ Deletable(bucket)
    /\ Serve("oci", Signed, <<NoBucket>>)
    /\ UNCHANGED <<writes, ocivars>>

(***************************************************************************)
(* Objects and multipart uploads.                                          *)
(***************************************************************************)
OciPut ==
    /\ OciRequest
    /\ \E k \in Names, cred \in Credentials, cond \in Conditions :
         /\ MayWrite(cred, k)
         /\ bucket.exists /\ ~OciConflict(bucket) /\ Holds(cond, Has(bucket, k))
         /\ Serve("oci", cred, <<Put(bucket, k, Fresh(writes + 1))>>)
    /\ Uses(1) /\ UNCHANGED ocivars

OciDelete ==
    /\ OciRequest
    /\ \E k \in Names, cond \in Conditions :
         /\ ~OciConflict(bucket) /\ Has(bucket, k) /\ Holds(cond, TRUE)
         /\ Serve("oci", Signed, <<Delete(bucket, k, writes + 1)>>)
    /\ Uses(1) /\ UNCHANGED ocivars

\* Starting and aborting an upload asks nobody; only the commit does.
OciInitiateUpload ==
    /\ OciRequest /\ Asked("upload")
    /\ \E k \in Names, cred \in Credentials :
         /\ MayWrite(cred, k) /\ bucket.exists
         /\ Serve("oci", cred, <<[bucket EXCEPT !.uploads = @ \cup {k}]>>)
    /\ UNCHANGED <<writes, ocivars>>

\* The scope of a PAR is compared with the key of the upload it names.
OciCommitUpload ==
    /\ OciRequest /\ Asked("upload")
    /\ \E k \in bucket.uploads, cred \in Credentials :
         LET published == Put(bucket, k, Fresh(writes + 1))
         IN /\ MayWrite(cred, k) /\ ~OciConflict(bucket)
            /\ Serve("oci", cred, <<published, [published EXCEPT !.uploads = @ \ {k}]>>)
    /\ Uses(1) /\ UNCHANGED ocivars

OciAbortUpload ==
    /\ OciRequest /\ Asked("upload")
    /\ \E k \in bucket.uploads, cred \in Credentials :
         /\ MayWrite(cred, k)
         /\ Serve("oci", cred, <<[bucket EXCEPT !.uploads = @ \ {k}]>>)
    /\ UNCHANGED <<writes, ocivars>>

(***************************************************************************)
(* Pre-authenticated requests.                                             *)
(***************************************************************************)
\* The record is saved, then the index; a crash in between leaves a PAR that
\* works and is not listed.
CreatePar ==
    /\ Asked("par") /\ bucket.exists
    /\ \E t \in Tokens, write \in BOOLEAN, scope \in {AnyObject} \cup Names,
          expires \in now + 1 .. MaxTime :
         /\ pars[t] = NoPar
         /\ pars' = [pars EXCEPT ![t] = [live |-> TRUE, write |-> write, scope |-> scope,
                                         expires |-> expires]]
         /\ parIndex' \in {parIndex, parIndex \cup {t}}
    /\ By("oci", Signed)
    /\ UNCHANGED nsPlaces

\* The record goes first, its entry in the index second.
DeletePar ==
    /\ Asked("par") /\ bucket.exists
    /\ \E t \in Tokens :
         /\ pars[t].live
         /\ pars' = [pars EXCEPT ![t].live = FALSE]
         /\ parIndex' \in {parIndex, parIndex \ {t}}
    /\ By("oci", Signed)
    /\ UNCHANGED nsPlaces

OciInit == pars = [t \in Tokens |-> NoPar] /\ parIndex = {}

OciNext ==
    \/ OciCreateBucket \/ OciDeleteBucket \/ OciPut \/ OciDelete
    \/ OciInitiateUpload \/ OciCommitUpload \/ OciAbortUpload
    \/ CreatePar \/ DeletePar
=============================================================================
