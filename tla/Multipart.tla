------------------------------ MODULE Multipart ------------------------------
(***************************************************************************)
(* Multipart uploads of one bucket (storage/filesystem.rs, MultipartStore, *)
(* and the records in storage/filesystem/io.rs).  An upload is a directory *)
(* with a record and part files; the uploads cache stands before the       *)
(* records.  Requests are serialised by the operation gate, so what        *)
(* interleaves is each request's writes with I/O errors and process death. *)
(*                                                                         *)
(* A part's data stands for its ETag and its CRC32C; publishing the object *)
(* is one step (module Publication).  Checks that only refuse a request    *)
(* (bucket, part number, maximum sizes, the order of a manifest) are left  *)
(* to the caller's choice of parameters.                                   *)
(***************************************************************************)
EXTENDS Naturals

CONSTANTS
    Upload,         \* upload ids
    Part,           \* part numbers
    Data, NoData,   \* part contents
    Size(_),        \* the length of a content
    MinSize,        \* MULTIPART_MIN_NON_FINAL_PART_SIZE
    Open            \* history: a part whose last request is not acknowledged

ASSUME MultipartAssumption ==
    /\ Part \subseteq Nat /\ MinSize \in Nat
    /\ NoData \notin Data /\ Open \notin Data \cup {NoData}
    /\ \A d \in Data : Size(d) \in Nat

Contents == [Part -> Data \cup {NoData}]
Records == [chk : BOOLEAN, parts : Contents]
NoRecord == [chk |-> FALSE]
\* Of a completed object: were its parts checksummed, were they all
\* acknowledged, and are its bytes the ones its manifest names.
Published == [chk : BOOLEAN, settled : BOOLEAN, intact : BOOLEAN]
NoObject == [chk |-> FALSE]

VARIABLES
    dir,        \* Upload -> "none", "live" or "retired"
    rec, part,  \* Upload -> its upload.json; its part files
    legacy,     \* uploads.json of older builds
    loaded, cache,      \* uploads_cache of the bucket
    pc, op,     \* control point and arguments of the request in progress
    object,     \* history: Upload -> the object it published last
    used, settled,      \* history: ids taken; part contents acknowledged last
    closing, ended,     \* history: completion or abort begun, acknowledged
    faulted     \* history: uploads with a request that failed or was cut off

files == <<dir, rec, part, legacy>>
memory == <<loaded, cache>>
control == <<pc, op>>
history == <<object, used, settled, closing, ended, faulted>>
vars == <<files, memory, control, history>>

NoParts == [n \in Part |-> NoData]
NoOp == [u |-> "none"]

\* The arguments of the request in progress, by its control point.
ArgsOK ==
    /\ pc \in {"idle", "create", "write", "record", "assemble", "put", "retire", "purge"}
    /\ pc = "idle" => op = NoOp
    /\ pc = "create" => op \in [u : Upload, chk : BOOLEAN]
    /\ pc \in {"write", "record"} => op \in [u : Upload, n : Part, d : Data]
    /\ pc = "assemble" => op \in [u : Upload, m : Contents]
    /\ pc = "put" => op \in [u : Upload, m : Contents, bytes : Contents]
    /\ pc \in {"retire", "purge"} => op \in [u : Upload]

TypeOK ==
    /\ dir \in [Upload -> {"none", "live", "retired"}]
    /\ rec \in [Upload -> Records \cup {NoRecord}]
    /\ part \in [Upload -> Contents]
    /\ legacy \in [Upload -> Records \cup {NoRecord}]
    /\ loaded \in BOOLEAN /\ cache \in [Upload -> Records \cup {NoRecord}]
    /\ ArgsOK
    /\ object \in [Upload -> Published \cup {NoObject}]
    /\ settled \in [Upload -> [Part -> Data \cup {NoData, Open}]]
    /\ used \in SUBSET Upload /\ closing \in SUBSET Upload /\ ended \in SUBSET Upload /\ faulted \in SUBSET Upload

\* An older build may have left its index and the part files it names.
Init ==
    /\ legacy \in {[u \in Upload |-> NoRecord]} \cup
                  {[u \in Upload |-> IF u = v THEN [chk |-> FALSE, parts |-> c] ELSE NoRecord] :
                     v \in Upload, c \in Contents}
    /\ used = {u \in Upload : legacy[u] # NoRecord}
    /\ dir = [u \in Upload |-> IF u \in used THEN "live" ELSE "none"]
    /\ part = [u \in Upload |-> IF u \in used THEN legacy[u].parts ELSE NoParts]
    /\ rec = [u \in Upload |-> NoRecord]
    /\ loaded = FALSE /\ cache = [u \in Upload |-> NoRecord]
    /\ pc = "idle" /\ op = NoOp
    /\ object = [u \in Upload |-> NoObject]
    /\ settled = part
    /\ closing = {} /\ ended = {} /\ faulted = {}

-----------------------------------------------------------------------------
\* load_uploads_from_disk: the records, or the old index when there is none.
OnDisk(u) == IF dir[u] = "live" THEN rec[u] ELSE NoRecord
Loaded == IF \E u \in Upload : OnDisk(u) # NoRecord THEN [u \in Upload |-> OnDisk(u)] ELSE legacy
\* ensure_uploads_cache_loaded, with which every request begins.
Cached == IF loaded THEN cache ELSE Loaded
Load == loaded' = TRUE /\ cache' = Cached

\* A durable write takes effect and is reported, takes effect and is reported
\* as an error, or fails.
Outcomes == {"ok", "hidden", "failed"}
Continue(next, o) == pc' = next /\ op' = o
Return == pc' = "idle" /\ op' = NoOp
Failed == Return /\ faulted' = faulted \cup {op.u}

ListUploads ==
    /\ pc = "idle" /\ ~loaded
    /\ Load
    /\ UNCHANGED <<files, control, history>>

Create(u, chk) ==
    /\ pc = "idle" /\ u \notin used
    /\ used' = used \cup {u}
    /\ dir' = [dir EXCEPT ![u] = "live"]
    /\ Load
    /\ Continue("create", [u |-> u, chk |-> chk])
    /\ UNCHANGED <<rec, part, legacy, object, settled, closing, ended, faulted>>

CreateRecord(out) ==
    /\ pc = "create"
    /\ LET r == [chk |-> op.chk, parts |-> NoParts] IN
         /\ rec' = IF out = "failed" THEN rec ELSE [rec EXCEPT ![op.u] = r]
         /\ cache' = IF out = "ok" THEN [cache EXCEPT ![op.u] = r] ELSE cache
    /\ IF out = "ok" THEN Return /\ UNCHANGED faulted ELSE Failed
    /\ UNCHANGED <<dir, part, legacy, loaded, object, used, settled, closing, ended>>

UploadPart(u, n, d) ==
    /\ pc = "idle" /\ Cached[u] # NoRecord
    /\ Load
    /\ settled' = [settled EXCEPT ![u][n] = Open]
    /\ Continue("write", [u |-> u, n |-> n, d |-> d])
    /\ UNCHANGED <<files, object, used, closing, ended, faulted>>

\* atomic_write or atomic_move of the part's bytes, into a directory that is
\* made again if it is gone.
WritePart(out) ==
    /\ pc = "write"
    /\ IF out = "failed" THEN UNCHANGED <<dir, part>>
       ELSE dir' = [dir EXCEPT ![op.u] = "live"] /\ part' = [part EXCEPT ![op.u][op.n] = op.d]
    /\ IF out = "ok" THEN Continue("record", op) /\ UNCHANGED faulted ELSE Failed
    /\ UNCHANGED <<rec, legacy, memory, object, used, settled, closing, ended>>

\* Not the code: the record is changed in the cache only.
RecordInMemory(out) ==
    /\ pc = "record"
    /\ cache' = IF out = "unread" THEN cache ELSE [cache EXCEPT ![op.u].parts[op.n] = op.d]
    /\ settled' = IF out = "ok" THEN [settled EXCEPT ![op.u][op.n] = op.d] ELSE settled
    /\ IF out = "ok" THEN Return /\ UNCHANGED faulted ELSE Failed
    /\ UNCHANGED <<files, loaded, object, used, closing, ended>>
\* record_uploaded_part changes the cache and then writes the record.  The
\* part of a checksummed upload is read again before either.
RecordPart(out) ==
    /\ pc = "record"
    /\ out = "unread" => cache[op.u].chk
    /\ cache' = IF out = "unread" THEN cache ELSE [cache EXCEPT ![op.u].parts[op.n] = op.d]
    /\ rec' = IF out \in {"failed", "unread"} THEN rec ELSE [rec EXCEPT ![op.u] = cache'[op.u]]
    /\ settled' = IF out = "ok" THEN [settled EXCEPT ![op.u][op.n] = op.d] ELSE settled
    /\ IF out = "ok" THEN Return /\ UNCHANGED faulted ELSE Failed
    /\ UNCHANGED <<dir, part, legacy, loaded, object, used, closing, ended>>

\* The manifest names recorded parts, all but the last of at least MinSize.
Accepts(r, m) ==
    LET named == {n \in Part : m[n] # NoData} IN
      /\ named # {}
      /\ \A n \in named : /\ r.parts[n] = m[n]
                          /\ Size(m[n]) >= MinSize \/ \A k \in named : k <= n
Complete(u, m) ==
    /\ pc = "idle" /\ Cached[u] # NoRecord /\ Accepts(Cached[u], m)
    /\ Load
    /\ closing' = closing \cup {u}
    /\ Continue("assemble", [u |-> u, m |-> m])
    /\ UNCHANGED <<files, object, used, settled, ended, faulted>>

\* Not the code: parts are compared by size alone.
AssembleSized ==
    /\ pc = "assemble"
    /\ LET u == op.u
           copy == [n \in Part |-> IF op.m[n] = NoData THEN NoData ELSE part[u][n]]
           good == \A n \in Part : op.m[n] # NoData => copy[n] # NoData /\ Size(copy[n]) = Size(op.m[n])
       IN  IF good THEN Continue("put", [u |-> u, m |-> op.m, bytes |-> copy]) /\ UNCHANGED faulted ELSE Failed
    /\ UNCHANGED <<files, memory, object, used, settled, closing, ended>>
\* The parts are copied to a spool file; each must have the size, and for a
\* checksummed upload the CRC32C, of its record.
Assemble ==
    /\ pc = "assemble"
    /\ LET u == op.u
           copy == [n \in Part |-> IF op.m[n] = NoData THEN NoData ELSE part[u][n]]
           good == \A n \in Part : op.m[n] # NoData =>
                     /\ copy[n] # NoData /\ Size(copy[n]) = Size(op.m[n])
                     /\ cache[u].chk => copy[n] = op.m[n]
       IN  IF good THEN Continue("put", [u |-> u, m |-> op.m, bytes |-> copy]) /\ UNCHANGED faulted ELSE Failed
    /\ UNCHANGED <<files, memory, object, used, settled, closing, ended>>

\* The object is published unless its condition fails; the upload leaves the
\* cache only after that.
Put(out) ==
    /\ pc = "put"
    /\ object' = IF out = "failed" THEN object
                 ELSE [object EXCEPT ![op.u] =
                         [chk |-> cache[op.u].chk, intact |-> op.bytes = op.m,
                          settled |-> \A n \in Part : op.m[n] # NoData => settled[op.u][n] = op.m[n]]]
    /\ IF out = "ok"
         THEN /\ cache' = [cache EXCEPT ![op.u] = NoRecord]
              /\ Continue("retire", [u |-> op.u]) /\ UNCHANGED faulted
         ELSE Failed /\ UNCHANGED cache
    /\ UNCHANGED <<files, loaded, used, settled, closing, ended>>

Abort(u) ==
    /\ pc = "idle" /\ Cached[u] # NoRecord
    /\ loaded' = TRUE /\ cache' = [Cached EXCEPT ![u] = NoRecord]
    /\ closing' = closing \cup {u}
    /\ Continue("retire", [u |-> u])
    /\ UNCHANGED <<files, object, used, settled, ended, faulted>>

\* remove_upload_record: the directory is renamed away, then removed.
Done == Return /\ ended' = ended \cup {op.u} /\ UNCHANGED faulted
Retire(out) ==
    /\ pc = "retire"
    /\ IF dir[op.u] # "live"
         THEN Done /\ UNCHANGED dir
         ELSE /\ dir' = IF out = "failed" THEN dir ELSE [dir EXCEPT ![op.u] = "retired"]
              /\ UNCHANGED ended
              /\ IF out = "ok" THEN Continue("purge", op) /\ UNCHANGED faulted ELSE Failed
    /\ UNCHANGED <<rec, part, legacy, memory, object, used, settled, closing>>

Removed(us) ==
    /\ dir' = [u \in Upload |-> IF u \in us THEN "none" ELSE dir[u]]
    /\ rec' = [u \in Upload |-> IF u \in us THEN NoRecord ELSE rec[u]]
    /\ part' = [u \in Upload |-> IF u \in us THEN NoParts ELSE part[u]]
    /\ UNCHANGED legacy
Purge(out) ==
    /\ pc = "purge"
    /\ IF out = "failed" THEN UNCHANGED files ELSE Removed({op.u})
    /\ IF out = "ok" THEN Done ELSE Failed /\ UNCHANGED ended
    /\ UNCHANGED <<memory, object, used, settled, closing>>

\* Process death and reopening: clean_retired_uploads, and an empty cache.
Restart ==
    /\ loaded
    /\ Removed({u \in Upload : dir[u] = "retired"})
    /\ loaded' = FALSE /\ cache' = [u \in Upload |-> NoRecord]
    /\ faulted' = IF pc = "idle" THEN faulted ELSE faulted \cup {op.u}
    /\ Return
    /\ UNCHANGED <<object, used, settled, closing, ended>>

Requests ==
    \/ ListUploads
    \/ \E u \in Upload :
         \/ \E chk \in BOOLEAN : Create(u, chk)
         \/ \E n \in Part, d \in Data : UploadPart(u, n, d)
         \/ \E m \in Contents : Complete(u, m)
         \/ Abort(u)
Steps ==
    \/ \E out \in Outcomes : CreateRecord(out) \/ WritePart(out) \/ Put(out) \/ Retire(out) \/ Purge(out)
    \/ \E out \in Outcomes \cup {"unread"} : RecordPart(out)
    \/ Assemble
Next == Requests \/ Steps \/ Restart
Spec == Init /\ [][Next]_vars

-----------------------------------------------------------------------------
(* Properties *)

\* The bytes of a completed object are the ones its manifest names, if the
\* upload is checksummed or no replacement of its parts was left unfinished.
Integrity ==
    \A u \in Upload : object[u] # NoObject /\ (object[u].chk \/ object[u].settled) => object[u].intact

\* An acknowledged part of an open upload is on disk, in the record and in the
\* part file, whatever fails or dies later: it stays completable.
PartsKept ==
    \A u \in Upload, n \in Part :
      settled[u][n] \in Data /\ u \notin closing /\ legacy[u] = NoRecord =>
        /\ dir[u] = "live" /\ rec[u] # NoRecord
        /\ rec[u].parts[n] = settled[u][n] /\ part[u][n] = settled[u][n]

\* An upload whose completion or abort was acknowledged never comes back.
EndedGone ==
    \A u \in ended : legacy[u] = NoRecord => Cached[u] = NoRecord /\ OnDisk(u) = NoRecord

\* Between requests, what the cache answers is what a reopened store would
\* answer, for every upload no request of which has failed.
CacheMatches ==
    loaded /\ pc = "idle" =>
      \A u \in Upload \ faulted : legacy[u] = NoRecord => cache[u] = OnDisk(u)
=============================================================================
