--------------------------- MODULE MultipartProofs ---------------------------
(***************************************************************************)
(* What an acknowledged part, completion or abort is worth, for any number *)
(* of uploads, parts and contents, whatever fails and whenever the process *)
(* dies; and what the digests of parts and objects are worth, for any      *)
(* bodies, requests and order of requests.                                 *)
(***************************************************************************)
EXTENDS Multipart, Checksums, WellFoundedInduction, TLAPS

\* An upload made by this build, not by one that kept uploads.json.
New(u) == legacy[u] = NoRecord

\* An unused id has left no trace.
FreshOK ==
    \A u \in Upload : u \notin used =>
      /\ dir[u] = "none" /\ rec[u] = NoRecord /\ cache[u] = NoRecord /\ New(u)
      /\ u \notin closing \cup ended
      /\ \A n \in Part : settled[u][n] = NoData

\* A cached upload has its record.
LiveOK ==
    /\ ~loaded => pc = "idle" /\ \A u \in Upload : cache[u] = NoRecord /\ dir[u] # "retired"
    /\ \A u \in Upload : New(u) /\ cache[u] # NoRecord => dir[u] = "live" /\ rec[u] # NoRecord
    /\ \A u \in Upload : rec[u] # NoRecord => dir[u] # "none"

\* An acknowledged part is in the record, and in the cache that rewrites it.
SettledOK ==
    /\ PartsKept
    /\ \A u \in Upload, n \in Part :
         settled[u][n] \in Data /\ u \notin closing /\ New(u) /\ loaded =>
           cache[u] # NoRecord /\ cache[u].parts[n] = settled[u][n]

\* A part file with acknowledged contents has not been overwritten.
BytesOK ==
    \A u \in Upload, n \in Part :
      settled[u][n] \in Data /\ part[u][n] # NoData => part[u][n] = settled[u][n]

\* What each request knows of its upload.
RequestOK ==
    /\ pc # "idle" => op.u \in used
    /\ pc = "create" => /\ rec[op.u] = NoRecord /\ cache[op.u] = NoRecord /\ dir[op.u] = "live"
                        /\ New(op.u) /\ op.u \notin closing \cup ended
                        /\ \A n \in Part : settled[op.u][n] = NoData
    /\ pc \in {"write", "record"} => /\ cache[op.u] # NoRecord /\ settled[op.u][op.n] = Open
    /\ pc = "record" => part[op.u][op.n] = op.d /\ dir[op.u] = "live"
    /\ pc \in {"assemble", "put"} => cache[op.u] # NoRecord /\ op.u \in closing
    /\ pc \in {"retire", "purge"} => cache[op.u] = NoRecord /\ op.u \in closing
    /\ pc = "retire" /\ New(op.u) => dir[op.u] = "live"
    /\ pc = "purge" => dir[op.u] = "retired"

\* The cache agrees with the disk, but for what the current request changes.
MatchOK ==
    loaded => \A u \in Upload \ faulted : New(u) /\ ~(pc \in {"retire", "purge"} /\ op.u = u) =>
                cache[u] = OnDisk(u)

\* An acknowledged end has removed the directory.
EndOK == \A u \in ended : u \in closing /\ (New(u) => dir[u] = "none" /\ cache[u] = NoRecord)

\* What is about to be published is what the manifest names.
ObjectOK ==
    /\ Integrity
    /\ pc = "put" =>
         \A n \in Part : /\ op.m[n] = NoData => op.bytes[n] = NoData
                         /\ op.m[n] # NoData => op.bytes[n] = part[op.u][n] /\ op.bytes[n] # NoData
                         /\ op.m[n] # NoData /\ cache[op.u].chk => op.bytes[n] = op.m[n]

IInv == TypeOK /\ FreshOK /\ LiveOK /\ SettledOK /\ BytesOK /\ RequestOK /\ MatchOK /\ EndOK /\ ObjectOK

\* Contents that agree on every part are the same.
LEMMA SameContents ==
  ASSUME NEW f \in Contents, NEW g \in Contents, \A n \in Part : f[n] = g[n]
  PROVE  f = g
  BY DEF Contents

-----------------------------------------------------------------------------
\* The invariant holds in every initial state.
LEMMA InitInv == Init => IInv
<1> SUFFICES ASSUME Init PROVE IInv
  OBVIOUS
<1> USE MultipartAssumption
<1>0. NoParts \in Contents
  BY DEF NoParts, Contents
<1>1. legacy \in [Upload -> Records \cup {NoRecord}]
  <2>1. CASE legacy = [u \in Upload |-> NoRecord]
    BY <2>1
  <2>2. CASE legacy # [u \in Upload |-> NoRecord]
    <3>1. PICK v \in Upload, c \in Contents :
              legacy = [u \in Upload |-> IF u = v THEN [chk |-> FALSE, parts |-> c] ELSE NoRecord]
      BY <2>2 DEF Init
    <3>2. [chk |-> FALSE, parts |-> c] \in Records
      BY DEF Records
    <3> QED
      BY <3>1, <3>2
  <2> QED
    BY <2>1, <2>2
<1>2. \A u \in Upload : legacy[u] # NoRecord => legacy[u] \in Records /\ legacy[u].parts \in Contents
  BY <1>1 DEF Records
<1>3. part \in [Upload -> Contents]
  BY <1>0, <1>2 DEF Init
<1>4. TypeOK
  BY <1>1, <1>3, ZenonT(40) DEF Init, TypeOK, ArgsOK, Contents
<1>5. FreshOK
  BY DEF Init, FreshOK, New, NoParts
<1>6. LiveOK /\ RequestOK /\ MatchOK /\ EndOK
  BY DEF Init, LiveOK, RequestOK, MatchOK, EndOK
<1>7. BytesOK /\ SettledOK
  BY <1>3 DEF Init, BytesOK, SettledOK, PartsKept, NoParts, New
<1>8. ObjectOK
  BY DEF Init, ObjectOK, Integrity
<1> QED
  BY <1>4, <1>5, <1>6, <1>7, <1>8 DEF IInv

\* A record is not the placeholder for one.
LEMMA Placeholder == NoRecord \notin Records
<1> SUFFICES ASSUME NoRecord \in Records PROVE FALSE
  OBVIOUS
<1> QED
  BY DEF NoRecord, Records

\* Every step keeps the types.
LEMMA NextType == IInv /\ [Next]_vars => TypeOK'
<1> SUFFICES ASSUME IInv, [Next]_vars PROVE TypeOK'
  OBVIOUS
<1> USE MultipartAssumption
<1>1. CASE UNCHANGED vars
  BY <1>1 DEF IInv, TypeOK, ArgsOK, vars, files, memory, control, history
<1>2. CASE ListUploads
  BY <1>2 DEF IInv, TypeOK, ArgsOK, RequestOK, Records, Contents, NoParts, Published, ListUploads, Load,
     Cached, Loaded, OnDisk, files, memory, control, history
<1>3. CASE \E u \in Upload, chk \in BOOLEAN : Create(u, chk)
  BY <1>3 DEF IInv, TypeOK, ArgsOK, RequestOK, Records, Contents, NoParts, Published, Create, Load, Cached,
     Loaded, OnDisk, Continue, files, memory, control, history
<1>4. CASE \E u \in Upload, n \in Part, d \in Data : UploadPart(u, n, d)
  BY <1>4 DEF IInv, TypeOK, ArgsOK, RequestOK, Records, Contents, NoParts, Published, UploadPart, Load, Cached,
     Loaded, OnDisk, Continue, files, memory, control, history
<1>5. CASE \E u \in Upload, m \in Contents : Complete(u, m)
  BY <1>5 DEF IInv, TypeOK, ArgsOK, RequestOK, Records, Contents, NoParts, Published, Complete, Load, Cached,
     Loaded, OnDisk, Continue, files, memory, control, history
<1>6. CASE \E u \in Upload : Abort(u)
  BY <1>6 DEF IInv, TypeOK, ArgsOK, RequestOK, Records, Contents, NoParts, Published, Abort, Cached, Loaded,
     OnDisk, Continue, files, memory, control, history
<1>7. CASE \E out \in Outcomes : CreateRecord(out)
  BY <1>7 DEF IInv, TypeOK, ArgsOK, RequestOK, Records, Contents, NoParts, Published, CreateRecord, Return,
     Failed, Outcomes, files, memory, control, history
<1>8. CASE \E out \in Outcomes : WritePart(out)
  <2>1. PICK out \in Outcomes : WritePart(out)
    BY <1>8
  <2>2. pc = "write" /\ op.u \in Upload /\ op.n \in Part /\ op.d \in Data /\ op \in [u : Upload, n : Part, d : Data]
    BY <2>1 DEF WritePart, IInv, TypeOK, ArgsOK
  <2>3. part' \in [Upload -> Contents]
    <3>1. part \in [Upload -> Contents]
      BY DEF IInv, TypeOK
    <3>2. [part[op.u] EXCEPT ![op.n] = op.d] \in Contents
      BY <2>2, <3>1 DEF Contents
    <3>3. part' = part \/ part' = [part EXCEPT ![op.u] = [part[op.u] EXCEPT ![op.n] = op.d]]
      BY <2>1 DEF WritePart
    <3> QED
      BY <2>2, <3>1, <3>2, <3>3
  <2>4. dir' \in [Upload -> {"none", "live", "retired"}]
    BY <2>1, <2>2 DEF WritePart, IInv, TypeOK
  <2>5. ArgsOK'
    BY <2>1, <2>2 DEF WritePart, Continue, Failed, Return, ArgsOK
  <2> QED
    BY <2>1, <2>2, <2>3, <2>4, <2>5 DEF WritePart, Failed, Return, IInv, TypeOK, memory
<1>9. CASE \E out \in Outcomes : Put(out)
  <2>1. PICK out \in Outcomes : Put(out)
    BY <1>9
  <2>2. pc = "put" /\ op.u \in Upload
    BY <2>1 DEF Put, IInv, TypeOK, ArgsOK
  <2>3. cache[op.u].chk \in BOOLEAN
    BY <2>2 DEF IInv, TypeOK, RequestOK, Records
  <2>4. object' \in [Upload -> Published \cup {NoObject}]
    <3> DEFINE whole == op.bytes = op.m
                sure == \A n \in Part : op.m[n] # NoData => settled[op.u][n] = op.m[n]
                new == [chk |-> cache[op.u].chk, intact |-> whole, settled |-> sure]
    <3>1. whole \in BOOLEAN /\ sure \in BOOLEAN
      OBVIOUS
    <3> HIDE DEF whole, sure
    <3>2. new \in Published
      BY <2>3, <3>1 DEF Published
    <3>3. object' = object \/ object' = [object EXCEPT ![op.u] = new]
      BY <2>1 DEF Put, whole, sure
    <3> HIDE DEF new
    <3> QED
      BY <2>2, <3>2, <3>3 DEF IInv, TypeOK
  <2>5. ArgsOK'
    BY <2>1, <2>2 DEF Put, Continue, Failed, Return, ArgsOK
  <2>6. cache' \in [Upload -> Records \cup {NoRecord}]
    BY <2>1, <2>2 DEF Put, IInv, TypeOK
  <2> QED
    BY <2>1, <2>2, <2>4, <2>5, <2>6 DEF Put, Failed, Return, IInv, TypeOK, files
<1>10. CASE \E out \in Outcomes : Retire(out)
  BY <1>10 DEF IInv, TypeOK, ArgsOK, RequestOK, Records, Contents, NoParts, Published, Retire, Return, Failed,
     Done, Continue, Outcomes, files, memory, control, history
<1>11. CASE \E out \in Outcomes : Purge(out)
  BY <1>11 DEF IInv, TypeOK, ArgsOK, RequestOK, Records, Contents, NoParts, Published, Purge, Removed, Return,
     Failed, Done, Outcomes, files, memory, control, history
<1>12. CASE \E out \in Outcomes \cup {"unread"} : RecordPart(out)
  <2>1. PICK out \in Outcomes \cup {"unread"} : RecordPart(out)
    BY <1>12
  <2>2. pc = "record" /\ op.u \in Upload /\ op.n \in Part /\ op.d \in Data
    BY <2>1 DEF RecordPart, IInv, TypeOK, ArgsOK
  <2>3. cache[op.u] \in Records
    BY <2>2 DEF IInv, TypeOK, RequestOK
  <2>4. [cache[op.u] EXCEPT !.parts[op.n] = op.d] \in Records
    BY <2>2, <2>3 DEF Records, Contents
  <2>5. cache' \in [Upload -> Records \cup {NoRecord}]
    BY <2>1, <2>2, <2>4 DEF RecordPart, IInv, TypeOK
  <2>6. rec' \in [Upload -> Records \cup {NoRecord}]
    BY <2>1, <2>2, <2>5 DEF RecordPart, IInv, TypeOK
  <2>7. ArgsOK'
    BY <2>1, <2>2 DEF RecordPart, Failed, Return, ArgsOK
  <2>8. settled' \in [Upload -> [Part -> Data \cup {NoData, Open}]]
    BY <2>1, <2>2 DEF RecordPart, IInv, TypeOK
  <2> QED
    BY <2>1, <2>2, <2>5, <2>6, <2>7, <2>8 DEF RecordPart, Failed, Return, IInv, TypeOK
<1>13. CASE Assemble
  BY <1>13 DEF IInv, TypeOK, ArgsOK, RequestOK, Records, Contents, NoParts, Published, Assemble, Return,
     Failed, Continue, files, memory, control, history
<1>14. CASE Restart
  BY <1>14 DEF IInv, TypeOK, ArgsOK, RequestOK, Records, Contents, NoParts, Published, Restart, Removed,
     Return, files, memory, control, history
<1> QED
  BY <1>1, <1>2, <1>3, <1>4, <1>5, <1>6, <1>7, <1>8, <1>9, <1>10, <1>11, <1>12, <1>13, <1>14 DEF Next,
     Requests, Steps

\* A nested update changes one part of one upload.
LEMMA Nested ==
    ASSUME NEW S, NEW f \in [Upload -> [Part -> S]], NEW g, NEW u \in Upload, NEW n \in Part, NEW d,
           g = [f EXCEPT ![u][n] = d]
    PROVE  \A v \in Upload, k \in Part : g[v][k] = IF v = u /\ k = n THEN d ELSE f[v][k]
<1>1. g = [f EXCEPT ![u] = [f[u] EXCEPT ![n] = d]]
  OBVIOUS
<1> SUFFICES ASSUME NEW v \in Upload, NEW k \in Part
             PROVE  g[v][k] = IF v = u /\ k = n THEN d ELSE f[v][k]
  OBVIOUS
<1>2. CASE v = u
  <2>1. g[v] = [f[u] EXCEPT ![n] = d]
    BY <1>1, <1>2
  <2>2. f[u] \in [Part -> S]
    OBVIOUS
  <2> QED
    BY <1>2, <2>1, <2>2
<1>3. CASE v # u
  BY <1>1, <1>3
<1> QED
  BY <1>2, <1>3

\* Every step keeps the invariant: one case per action, one step per part it can disturb.
LEMMA NextInv == IInv /\ [Next]_vars => IInv'
<1> SUFFICES ASSUME IInv, [Next]_vars PROVE IInv'
  OBVIOUS
<1>t. TypeOK /\ TypeOK'
  BY NextType DEF IInv
<1> USE MultipartAssumption
<1>1. CASE UNCHANGED vars
  BY <1>1, <1>t DEF IInv, vars, files, memory, control, history, FreshOK, New, LiveOK, SettledOK, PartsKept,
     BytesOK, RequestOK, MatchOK, OnDisk, EndOK, ObjectOK, Integrity
<1>2. CASE ListUploads
  <2>1. FreshOK'
    BY <1>2, <1>t, Placeholder DEF IInv, TypeOK, ArgsOK, FreshOK, New, ListUploads, Load, Cached, Loaded,
       OnDisk, files, memory, control, history
  <2>2. LiveOK'
    BY <1>2, <1>t, Placeholder DEF IInv, TypeOK, ArgsOK, LiveOK, New, ListUploads, Load, Cached, Loaded,
       OnDisk, files, memory, control, history
  <2>3. SettledOK'
    BY <1>2, <1>t, Placeholder DEF IInv, TypeOK, ArgsOK, SettledOK, PartsKept, New, ListUploads, Load, Cached,
       Loaded, OnDisk, files, memory, control, history
  <2>4. BytesOK'
    BY <1>2, <1>t, Placeholder DEF IInv, TypeOK, ArgsOK, BytesOK, ListUploads, Load, Cached, Loaded, OnDisk,
       files, memory, control, history
  <2>5. RequestOK'
    BY <1>2, <1>t, Placeholder DEF IInv, TypeOK, ArgsOK, RequestOK, New, ListUploads, Load, Cached, Loaded,
       OnDisk, files, memory, control, history
  <2>6. MatchOK'
    BY <1>2, <1>t, Placeholder DEF IInv, TypeOK, ArgsOK, MatchOK, New, OnDisk, ListUploads, Load, Cached,
       Loaded, files, memory, control, history
  <2>7. EndOK'
    BY <1>2, <1>t, Placeholder DEF IInv, TypeOK, ArgsOK, EndOK, New, ListUploads, Load, Cached, Loaded, OnDisk,
       files, memory, control, history
  <2>8. ObjectOK'
    BY <1>2, <1>t, Placeholder DEF IInv, TypeOK, ArgsOK, ObjectOK, Integrity, ListUploads, Load, Cached,
       Loaded, OnDisk, files, memory, control, history
  <2> QED
    BY <1>t, <2>1, <2>2, <2>3, <2>4, <2>5, <2>6, <2>7, <2>8 DEF IInv
<1>3. CASE \E u \in Upload, chk \in BOOLEAN : Create(u, chk)
  <2>1. FreshOK'
    BY <1>3, <1>t, Placeholder DEF IInv, TypeOK, ArgsOK, FreshOK, New, RequestOK, Create, Load, Cached, Loaded,
       OnDisk, Continue, files, memory, control, history
  <2>2. LiveOK'
    BY <1>3, <1>t, Placeholder DEF IInv, TypeOK, ArgsOK, LiveOK, New, Create, Load, Cached, Loaded, OnDisk,
       Continue, files, memory, control, history
  <2>3. SettledOK'
    BY <1>3, <1>t, Placeholder DEF IInv, TypeOK, ArgsOK, SettledOK, PartsKept, New, Create, Load, Cached,
       Loaded, OnDisk, Continue, files, memory, control, history
  <2>4. BytesOK'
    BY <1>3, <1>t, Placeholder DEF IInv, TypeOK, ArgsOK, BytesOK, RequestOK, New, Create, Load, Cached, Loaded,
       OnDisk, Continue, files, memory, control, history
  <2>5. RequestOK'
    BY <1>3, <1>t, Placeholder DEF IInv, TypeOK, ArgsOK, RequestOK, New, LiveOK, FreshOK, Create, Load, Cached,
       Loaded, OnDisk, Continue, files, memory, control, history
  <2>6. MatchOK'
    BY <1>3, <1>t, Placeholder DEF IInv, TypeOK, ArgsOK, MatchOK, New, OnDisk, RequestOK, LiveOK, FreshOK,
       Create, Load, Cached, Loaded, Continue, files, memory, control, history
  <2>7. EndOK'
    BY <1>3, <1>t, Placeholder DEF IInv, TypeOK, ArgsOK, EndOK, New, RequestOK, LiveOK, FreshOK, Create, Load,
       Cached, Loaded, OnDisk, Continue, files, memory, control, history
  <2>8. ObjectOK'
    BY <1>3, <1>t, Placeholder DEF IInv, TypeOK, ArgsOK, ObjectOK, Integrity, Create, Load, Cached, Loaded,
       OnDisk, Continue, files, memory, control, history
  <2> QED
    BY <1>t, <2>1, <2>2, <2>3, <2>4, <2>5, <2>6, <2>7, <2>8 DEF IInv
<1>4. CASE \E u \in Upload, n \in Part, d \in Data : UploadPart(u, n, d)
  <2>1. FreshOK'
    BY <1>4, <1>t, Placeholder DEF IInv, TypeOK, ArgsOK, FreshOK, New, UploadPart, Load, Cached, Loaded,
       OnDisk, Continue, files, memory, control, history
  <2>2. LiveOK'
    BY <1>4, <1>t, Placeholder DEF IInv, TypeOK, ArgsOK, LiveOK, New, UploadPart, Load, Cached, Loaded, OnDisk,
       Continue, files, memory, control, history
  <2>3. SettledOK'
    BY <1>4, <1>t, Placeholder DEF IInv, TypeOK, ArgsOK, SettledOK, PartsKept, New, UploadPart, Load, Cached,
       Loaded, OnDisk, Continue, files, memory, control, history
  <2>4. BytesOK'
    <3>1. PICK u \in Upload, n \in Part, d \in Data : UploadPart(u, n, d)
      BY <1>4
    <3>2. settled \in [Upload -> [Part -> Data \cup {NoData, Open}]] /\ part' = part
      BY <3>1, <1>t DEF UploadPart, TypeOK, files
    <3>3. \A v \in Upload, k \in Part : settled'[v][k] = IF v = u /\ k = n THEN Open ELSE settled[v][k]
      BY <3>1, <3>2, Nested DEF UploadPart
    <3> QED
      BY <3>2, <3>3, ZenonT(40) DEF IInv, BytesOK
  <2>5. RequestOK'
    BY <1>4, <1>t, Placeholder DEF IInv, TypeOK, ArgsOK, RequestOK, New, LiveOK, FreshOK, UploadPart, Load,
       Cached, Loaded, OnDisk, Continue, files, memory, control, history
  <2>6. MatchOK'
    BY <1>4, <1>t, Placeholder DEF IInv, TypeOK, ArgsOK, MatchOK, New, OnDisk, UploadPart, Load, Cached,
       Loaded, Continue, files, memory, control, history
  <2>7. EndOK'
    BY <1>4, <1>t, Placeholder DEF IInv, TypeOK, ArgsOK, EndOK, New, UploadPart, Load, Cached, Loaded, OnDisk,
       Continue, files, memory, control, history
  <2>8. ObjectOK'
    BY <1>4, <1>t, Placeholder DEF IInv, TypeOK, ArgsOK, ObjectOK, Integrity, UploadPart, Load, Cached, Loaded,
       OnDisk, Continue, files, memory, control, history
  <2> QED
    BY <1>t, <2>1, <2>2, <2>3, <2>4, <2>5, <2>6, <2>7, <2>8 DEF IInv
<1>5. CASE \E u \in Upload, m \in Contents : Complete(u, m)
  <2>1. FreshOK'
    BY <1>5, <1>t, Placeholder DEF IInv, TypeOK, ArgsOK, FreshOK, New, Complete, Load, Cached, Loaded, OnDisk,
       Continue, files, memory, control, history
  <2>2. LiveOK'
    BY <1>5, <1>t, Placeholder DEF IInv, TypeOK, ArgsOK, LiveOK, New, Complete, Load, Cached, Loaded, OnDisk,
       Continue, files, memory, control, history
  <2>3. SettledOK'
    BY <1>5, <1>t, Placeholder DEF IInv, TypeOK, ArgsOK, SettledOK, PartsKept, New, Complete, Load, Cached,
       Loaded, OnDisk, Continue, files, memory, control, history
  <2>4. BytesOK'
    BY <1>5, <1>t, Placeholder, ZenonT(40) DEF IInv, TypeOK, ArgsOK, BytesOK, Complete, Load, Cached,
       Loaded, OnDisk, Continue, files, memory, control, history
  <2>5. RequestOK'
    BY <1>5, <1>t, Placeholder DEF IInv, TypeOK, ArgsOK, RequestOK, New, LiveOK, FreshOK, Complete, Load,
       Cached, Loaded, OnDisk, Continue, files, memory, control, history
  <2>6. MatchOK'
    BY <1>5, <1>t, Placeholder DEF IInv, TypeOK, ArgsOK, MatchOK, New, OnDisk, Complete, Load, Cached, Loaded,
       Continue, files, memory, control, history
  <2>7. EndOK'
    BY <1>5, <1>t, Placeholder DEF IInv, TypeOK, ArgsOK, EndOK, New, Complete, Load, Cached, Loaded, OnDisk,
       Continue, files, memory, control, history
  <2>8. ObjectOK'
    BY <1>5, <1>t, Placeholder DEF IInv, TypeOK, ArgsOK, ObjectOK, Integrity, Complete, Load, Cached, Loaded,
       OnDisk, Continue, files, memory, control, history
  <2> QED
    BY <1>t, <2>1, <2>2, <2>3, <2>4, <2>5, <2>6, <2>7, <2>8 DEF IInv
<1>6. CASE \E u \in Upload : Abort(u)
  <2>1. FreshOK'
    BY <1>6, <1>t, Placeholder DEF IInv, TypeOK, ArgsOK, FreshOK, New, Abort, Cached, Loaded, OnDisk, Continue,
       files, memory, control, history
  <2>2. LiveOK'
    BY <1>6, <1>t, Placeholder DEF IInv, TypeOK, ArgsOK, LiveOK, New, Abort, Cached, Loaded, OnDisk, Continue,
       files, memory, control, history
  <2>3. SettledOK'
    BY <1>6, <1>t, Placeholder DEF IInv, TypeOK, ArgsOK, SettledOK, PartsKept, New, Abort, Cached, Loaded,
       OnDisk, Continue, files, memory, control, history
  <2>4. BytesOK'
    BY <1>6, <1>t, Placeholder DEF IInv, TypeOK, ArgsOK, BytesOK, RequestOK, New, Abort, Cached, Loaded,
       OnDisk, Continue, files, memory, control, history
  <2>5. RequestOK'
    BY <1>6, <1>t, Placeholder DEF IInv, TypeOK, ArgsOK, RequestOK, New, LiveOK, FreshOK, Abort, Cached,
       Loaded, OnDisk, Continue, files, memory, control, history
  <2>6. MatchOK'
    BY <1>6, <1>t, Placeholder DEF IInv, TypeOK, ArgsOK, MatchOK, New, OnDisk, Abort, Cached, Loaded, Continue,
       files, memory, control, history
  <2>7. EndOK'
    BY <1>6, <1>t, Placeholder DEF IInv, TypeOK, ArgsOK, EndOK, New, Abort, Cached, Loaded, OnDisk, Continue,
       files, memory, control, history
  <2>8. ObjectOK'
    BY <1>6, <1>t, Placeholder DEF IInv, TypeOK, ArgsOK, ObjectOK, Integrity, Abort, Cached, Loaded, OnDisk,
       Continue, files, memory, control, history
  <2> QED
    BY <1>t, <2>1, <2>2, <2>3, <2>4, <2>5, <2>6, <2>7, <2>8 DEF IInv
<1>7. CASE \E out \in Outcomes : CreateRecord(out)
  <2>1. FreshOK'
    BY <1>7, <1>t, Placeholder DEF IInv, TypeOK, ArgsOK, FreshOK, New, RequestOK, CreateRecord, NoParts,
       Return, Failed, Outcomes, files, memory, control, history
  <2>2. LiveOK'
    BY <1>7, <1>t, Placeholder DEF IInv, TypeOK, ArgsOK, LiveOK, New, RequestOK, CreateRecord, NoParts, Return,
       Failed, Outcomes, files, memory, control, history
  <2>3. SettledOK'
    BY <1>7, <1>t, Placeholder DEF IInv, TypeOK, ArgsOK, SettledOK, PartsKept, New, RequestOK, CreateRecord,
       NoParts, Return, Failed, Outcomes, files, memory, control, history
  <2>4. BytesOK'
    BY <1>7, <1>t, Placeholder DEF IInv, TypeOK, ArgsOK, BytesOK, CreateRecord, NoParts, Return, Failed,
       Outcomes, files, memory, control, history
  <2>5. RequestOK'
    BY <1>7, <1>t, Placeholder DEF IInv, TypeOK, ArgsOK, RequestOK, New, CreateRecord, NoParts, Return, Failed,
       Outcomes, files, memory, control, history
  <2>6. MatchOK'
    BY <1>7, <1>t, Placeholder DEF IInv, TypeOK, ArgsOK, MatchOK, New, OnDisk, RequestOK, CreateRecord,
       NoParts, Return, Failed, Outcomes, files, memory, control, history
  <2>7. EndOK'
    BY <1>7, <1>t, Placeholder DEF IInv, TypeOK, ArgsOK, EndOK, New, RequestOK, CreateRecord, NoParts, Return,
       Failed, Outcomes, files, memory, control, history
  <2>8. ObjectOK'
    BY <1>7, <1>t, Placeholder DEF IInv, TypeOK, ArgsOK, ObjectOK, Integrity, CreateRecord, NoParts, Return,
       Failed, Outcomes, files, memory, control, history
  <2> QED
    BY <1>t, <2>1, <2>2, <2>3, <2>4, <2>5, <2>6, <2>7, <2>8 DEF IInv
<1>8. CASE \E out \in Outcomes : WritePart(out)
  <2>1. FreshOK'
    BY <1>8, <1>t, Placeholder DEF IInv, TypeOK, ArgsOK, FreshOK, New, RequestOK, WritePart, Continue, Return,
       Failed, Outcomes, files, memory, control, history
  <2>2. LiveOK'
    BY <1>8, <1>t, Placeholder DEF IInv, TypeOK, ArgsOK, LiveOK, New, WritePart, Continue, Return, Failed,
       Outcomes, files, memory, control, history
  <2>3. SettledOK'
    <3>1. PICK out \in Outcomes : WritePart(out)
      BY <1>8
    <3>2. /\ pc = "write" /\ op.u \in Upload /\ op.n \in Part /\ settled[op.u][op.n] = Open
          /\ part \in [Upload -> [Part -> Data \cup {NoData}]]
      BY <3>1, <1>t DEF WritePart, IInv, RequestOK, TypeOK, ArgsOK, Contents
    <3>3. \A v \in Upload, k \in Part : settled[v][k] \in Data => part'[v][k] = part[v][k]
      <4>1. part' = part \/ part' = [part EXCEPT ![op.u][op.n] = op.d]
        BY <3>1 DEF WritePart
      <4> QED
        BY <3>2, <4>1, Nested
    <3>4. \A v \in Upload : dir'[v] = dir[v] \/ dir'[v] = "live"
      BY <3>1, <1>t DEF WritePart, TypeOK
    <3>5. rec' = rec /\ legacy' = legacy /\ loaded' = loaded /\ cache' = cache /\ settled' = settled /\ closing' = closing
      BY <3>1 DEF WritePart, memory
    <3>6. PartsKept'
      <4> SUFFICES ASSUME NEW v \in Upload, NEW k \in Part,
                          settled[v][k] \in Data, v \notin closing, legacy[v] = NoRecord
                   PROVE  /\ dir'[v] = "live" /\ rec[v] # NoRecord
                          /\ rec[v].parts[k] = settled[v][k] /\ part'[v][k] = settled[v][k]
        BY <3>5, Zenon DEF PartsKept
      <4>1. /\ dir[v] = "live" /\ rec[v] # NoRecord
            /\ rec[v].parts[k] = settled[v][k] /\ part[v][k] = settled[v][k]
        BY DEF IInv, SettledOK, PartsKept
      <4> QED
        BY <4>1, <3>3, <3>4, Zenon
    <3> QED
      BY <3>5, <3>6 DEF IInv, SettledOK, New
  <2>4. BytesOK'
    <3>1. PICK out \in Outcomes : WritePart(out)
      BY <1>8
    <3>2. /\ pc = "write" /\ op.u \in Upload /\ op.n \in Part /\ settled[op.u][op.n] = Open
          /\ part \in [Upload -> [Part -> Data \cup {NoData}]]
      BY <3>1, <1>t DEF WritePart, IInv, RequestOK, TypeOK, ArgsOK, Contents
    <3>3. part' = part \/ part' = [part EXCEPT ![op.u][op.n] = op.d]
      BY <3>1 DEF WritePart
    <3>4. \A v \in Upload, k \in Part : settled[v][k] \in Data => part'[v][k] = part[v][k]
      BY <3>2, <3>3, Nested
    <3>5. settled' = settled
      BY <3>1 DEF WritePart
    <3> QED
      BY <3>4, <3>5 DEF IInv, BytesOK
  <2>5. RequestOK'
    <3>1. PICK out \in Outcomes : WritePart(out)
      BY <1>8
    <3>2. /\ pc = "write" /\ op.u \in Upload /\ op.n \in Part
          /\ part \in [Upload -> [Part -> Data \cup {NoData}]]
      BY <3>1, <1>t DEF WritePart, TypeOK, ArgsOK, Contents
    <3>3. CASE out = "ok"
      <4>1. part'[op.u][op.n] = op.d
        <5>1. part' = [part EXCEPT ![op.u][op.n] = op.d]
          BY <3>1, <3>3 DEF WritePart
        <5> QED
          BY <3>2, <5>1, Nested
      <4>2. dir'[op.u] = "live" /\ pc' = "record" /\ op' = op
        BY <3>1, <3>2, <3>3, <1>t DEF WritePart, Continue, TypeOK
      <4> QED
        BY <3>1, <3>2, <4>1, <4>2 DEF WritePart, IInv, RequestOK, memory
    <3>4. CASE out # "ok"
      BY <3>1, <3>4 DEF WritePart, Failed, Return, RequestOK
    <3> QED
      BY <3>3, <3>4
  <2>6. MatchOK'
    BY <1>8, <1>t, Placeholder DEF IInv, TypeOK, ArgsOK, MatchOK, New, OnDisk, RequestOK, WritePart, Continue,
       Return, Failed, Outcomes, files, memory, control, history
  <2>7. EndOK'
    BY <1>8, <1>t, Placeholder DEF IInv, TypeOK, ArgsOK, EndOK, New, RequestOK, WritePart, Continue, Return,
       Failed, Outcomes, files, memory, control, history
  <2>8. ObjectOK'
    BY <1>8, <1>t, Placeholder DEF IInv, TypeOK, ArgsOK, ObjectOK, Integrity, WritePart, Continue, Return,
       Failed, Outcomes, files, memory, control, history
  <2> QED
    BY <1>t, <2>1, <2>2, <2>3, <2>4, <2>5, <2>6, <2>7, <2>8 DEF IInv
<1>9. CASE \E out \in Outcomes : Put(out)
  <2>1. FreshOK'
    BY <1>9, <1>t, Placeholder DEF IInv, TypeOK, ArgsOK, FreshOK, New, Put, Continue, Return, Failed, Outcomes,
       files, memory, control, history
  <2>2. LiveOK'
    BY <1>9, <1>t, Placeholder DEF IInv, TypeOK, ArgsOK, LiveOK, New, Put, Continue, Return, Failed, Outcomes,
       files, memory, control, history
  <2>3. SettledOK'
    <3>1. PICK out \in Outcomes : Put(out)
      BY <1>9
    <3>2. pc = "put" /\ op.u \in Upload /\ op.u \in closing
      BY <3>1, <1>t DEF Put, IInv, RequestOK, TypeOK, ArgsOK
    <3>3. UNCHANGED <<dir, rec, part, legacy, loaded, settled, closing>>
      BY <3>1 DEF Put, files
    <3>4. \A v \in Upload : v # op.u => cache'[v] = cache[v]
      BY <3>1, <1>t DEF Put, TypeOK
    <3> QED
      BY <3>2, <3>3, <3>4 DEF IInv, SettledOK, PartsKept, New
  <2>4. BytesOK'
    BY <1>9, <1>t, Placeholder DEF IInv, TypeOK, ArgsOK, BytesOK, Put, Continue, Return, Failed, Outcomes,
       files, memory, control, history
  <2>5. RequestOK'
    BY <1>9, <1>t, Placeholder DEF IInv, TypeOK, ArgsOK, RequestOK, New, LiveOK, FreshOK, Put, Continue,
       Return, Failed, Outcomes, files, memory, control, history
  <2>6. MatchOK'
    BY <1>9, <1>t, Placeholder DEF IInv, TypeOK, ArgsOK, MatchOK, New, OnDisk, Put, Continue, Return, Failed,
       Outcomes, files, memory, control, history
  <2>7. EndOK'
    BY <1>9, <1>t, Placeholder DEF IInv, TypeOK, ArgsOK, EndOK, New, Put, Continue, Return, Failed, Outcomes,
       files, memory, control, history
  <2>8. ObjectOK'
    <3>1. PICK out \in Outcomes : Put(out)
      BY <1>9
    <3>2. pc = "put" /\ op \in [u : Upload, m : Contents, bytes : Contents]
      BY <3>1, <1>t DEF Put, TypeOK, ArgsOK
    <3>3. op.u \in Upload /\ op.m \in Contents /\ op.bytes \in Contents
      BY <3>2
    <3> DEFINE whole == op.bytes = op.m
               sure == \A n \in Part : op.m[n] # NoData => settled[op.u][n] = op.m[n]
               new == [chk |-> cache[op.u].chk, intact |-> whole, settled |-> sure]
    <3>4. cache[op.u].chk \/ sure => whole
      <4>a. (\A n \in Part : op.bytes[n] = op.m[n]) => whole
        BY <3>3, SameContents
      <4> SUFFICES ASSUME cache[op.u].chk \/ sure, NEW n \in Part PROVE op.bytes[n] = op.m[n]
        BY <4>a, Zenon
      <4>1. CASE op.m[n] = NoData
        BY <4>1, <3>2 DEF IInv, ObjectOK
      <4>2. CASE op.m[n] # NoData /\ cache[op.u].chk
        BY <4>2, <3>2 DEF IInv, ObjectOK
      <4>3. CASE op.m[n] # NoData /\ sure
        <5>1. op.bytes[n] = part[op.u][n] /\ op.bytes[n] # NoData /\ settled[op.u][n] = op.m[n] /\ op.m[n] \in Data
          BY <4>3, <3>2, <3>3 DEF IInv, ObjectOK, Contents
        <5> QED
          BY <5>1, <3>3 DEF IInv, BytesOK
      <4> QED
        BY <4>1, <4>2, <4>3
    <3>5. object' = object \/ object' = [object EXCEPT ![op.u] = new]
      BY <3>1 DEF Put
    <3>6. pc' # "put"
      BY <3>1 DEF Put, Continue, Failed, Return
    <3>7. new.chk = cache[op.u].chk /\ new.settled = sure /\ new.intact = whole
      OBVIOUS
    <3> HIDE DEF whole, sure, new
    <3>8. ASSUME NEW v \in Upload, object'[v] # NoObject, object'[v].chk \/ object'[v].settled
          PROVE  object'[v].intact
      <4>1. object'[v] = object[v] \/ object'[v] = new
        BY <3>5, <3>3, <1>t DEF TypeOK
      <4>2. CASE object'[v] = object[v]
        BY <4>2, <3>8 DEF IInv, ObjectOK, Integrity
      <4>3. CASE object'[v] = new
        BY <4>3, <3>4, <3>7, <3>8
      <4> QED
        BY <4>1, <4>2, <4>3
    <3> QED
      BY <3>6, <3>8 DEF ObjectOK, Integrity
  <2> QED
    BY <1>t, <2>1, <2>2, <2>3, <2>4, <2>5, <2>6, <2>7, <2>8 DEF IInv
<1>10. CASE \E out \in Outcomes : Retire(out)
  <2>1. FreshOK'
    BY <1>10, <1>t, Placeholder DEF IInv, TypeOK, ArgsOK, FreshOK, New, RequestOK, Retire, Done, Continue,
       Return, Failed, Outcomes, files, memory, control, history
  <2>2. LiveOK'
    BY <1>10, <1>t, Placeholder DEF IInv, TypeOK, ArgsOK, LiveOK, New, RequestOK, Retire, Done, Continue,
       Return, Failed, Outcomes, files, memory, control, history
  <2>3. SettledOK'
    BY <1>10, <1>t, Placeholder DEF IInv, TypeOK, ArgsOK, SettledOK, PartsKept, New, RequestOK, Retire, Done,
       Continue, Return, Failed, Outcomes, files, memory, control, history
  <2>4. BytesOK'
    BY <1>10, <1>t, Placeholder DEF IInv, TypeOK, ArgsOK, BytesOK, Retire, Done, Continue, Return, Failed,
       Outcomes, files, memory, control, history
  <2>5. RequestOK'
    BY <1>10, <1>t, Placeholder DEF IInv, TypeOK, ArgsOK, RequestOK, New, Retire, Done, Continue, Return,
       Failed, Outcomes, files, memory, control, history
  <2>6. MatchOK'
    BY <1>10, <1>t, Placeholder DEF IInv, TypeOK, ArgsOK, MatchOK, New, OnDisk, RequestOK, Retire, Done,
       Continue, Return, Failed, Outcomes, files, memory, control, history
  <2>7. EndOK'
    BY <1>10, <1>t, Placeholder DEF IInv, TypeOK, ArgsOK, EndOK, New, RequestOK, Retire, Done, Continue,
       Return, Failed, Outcomes, files, memory, control, history
  <2>8. ObjectOK'
    BY <1>10, <1>t, Placeholder DEF IInv, TypeOK, ArgsOK, ObjectOK, Integrity, Retire, Done, Continue, Return,
       Failed, Outcomes, files, memory, control, history
  <2> QED
    BY <1>t, <2>1, <2>2, <2>3, <2>4, <2>5, <2>6, <2>7, <2>8 DEF IInv
<1>11. CASE \E out \in Outcomes : Purge(out)
  <2>1. FreshOK'
    BY <1>11, <1>t, Placeholder DEF IInv, TypeOK, ArgsOK, FreshOK, New, RequestOK, Purge, Removed, Done,
       NoParts, Return, Failed, Outcomes, files, memory, control, history
  <2>2. LiveOK'
    BY <1>11, <1>t, Placeholder DEF IInv, TypeOK, ArgsOK, LiveOK, New, RequestOK, Purge, Removed, Done,
       NoParts, Return, Failed, Outcomes, files, memory, control, history
  <2>3. SettledOK'
    BY <1>11, <1>t, Placeholder DEF IInv, TypeOK, ArgsOK, SettledOK, PartsKept, New, RequestOK, Purge, Removed,
       Done, NoParts, Return, Failed, Outcomes, files, memory, control, history
  <2>4. BytesOK'
    BY <1>11, <1>t, Placeholder DEF IInv, TypeOK, ArgsOK, BytesOK, Purge, Removed, Done, NoParts, Return,
       Failed, Outcomes, files, memory, control, history
  <2>5. RequestOK'
    BY <1>11, <1>t, Placeholder DEF IInv, TypeOK, ArgsOK, RequestOK, New, Purge, Removed, Done, NoParts,
       Return, Failed, Outcomes, files, memory, control, history
  <2>6. MatchOK'
    BY <1>11, <1>t, Placeholder DEF IInv, TypeOK, ArgsOK, MatchOK, New, OnDisk, RequestOK, Purge, Removed,
       Done, NoParts, Return, Failed, Outcomes, files, memory, control, history
  <2>7. EndOK'
    BY <1>11, <1>t, Placeholder DEF IInv, TypeOK, ArgsOK, EndOK, New, RequestOK, Purge, Removed, Done, NoParts,
       Return, Failed, Outcomes, files, memory, control, history
  <2>8. ObjectOK'
    BY <1>11, <1>t, Placeholder DEF IInv, TypeOK, ArgsOK, ObjectOK, Integrity, Purge, Removed, Done, NoParts,
       Return, Failed, Outcomes, files, memory, control, history
  <2> QED
    BY <1>t, <2>1, <2>2, <2>3, <2>4, <2>5, <2>6, <2>7, <2>8 DEF IInv
<1>12. CASE \E out \in Outcomes \cup {"unread"} : RecordPart(out)
  <2>1. FreshOK'
    BY <1>12, <1>t, Placeholder DEF IInv, TypeOK, ArgsOK, FreshOK, New, RequestOK, RecordPart, Return, Failed,
       Outcomes, files, memory, control, history
  <2>2. LiveOK'
    BY <1>12, <1>t, Placeholder DEF IInv, TypeOK, ArgsOK, LiveOK, New, RequestOK, RecordPart, Return, Failed,
       Outcomes, files, memory, control, history
  <2>3. SettledOK'
    <3>1. PICK out \in Outcomes \cup {"unread"} : RecordPart(out)
      BY <1>12
    <3>2. /\ pc = "record" /\ op.u \in Upload /\ op.n \in Part /\ op.d \in Data /\ loaded
          /\ settled \in [Upload -> [Part -> Data \cup {NoData, Open}]]
      BY <3>1, <1>t DEF RecordPart, IInv, LiveOK, TypeOK, ArgsOK
    <3>3. cache[op.u] # NoRecord /\ cache[op.u] \in Records /\ part[op.u][op.n] = op.d /\ dir[op.u] = "live"
          /\ settled[op.u][op.n] = Open
      BY <3>2, <1>t DEF IInv, RequestOK, TypeOK
    <3> DEFINE new == [cache[op.u] EXCEPT !.parts[op.n] = op.d]
    <3>4. /\ new \in Records /\ new.parts[op.n] = op.d
          /\ \A k \in Part : k # op.n => new.parts[k] = cache[op.u].parts[k]
      BY <3>2, <3>3 DEF Records, Contents
    <3>5. new # NoRecord
      BY <3>4, Placeholder
    <3>6. cache' = cache \/ cache' = [cache EXCEPT ![op.u] = new]
      BY <3>1 DEF RecordPart
    <3> HIDE DEF new
    <3>7. /\ \A v \in Upload : v # op.u => cache'[v] = cache[v] /\ rec'[v] = rec[v]
          /\ cache'[op.u] \in {cache[op.u], new} /\ rec'[op.u] \in {rec[op.u], new}
      <4>1. /\ \A v \in Upload : v # op.u => cache'[v] = cache[v]
            /\ cache'[op.u] \in {cache[op.u], new}
        BY <3>2, <3>6, <1>t DEF TypeOK
      <4>2. out \in {"failed", "unread"} \/ cache' = [cache EXCEPT ![op.u] = new]
        BY <3>1 DEF RecordPart, new
      <4>3. rec' = rec \/ (rec' = [rec EXCEPT ![op.u] = cache'[op.u]] /\ cache' = [cache EXCEPT ![op.u] = new])
        BY <3>1, <4>2 DEF RecordPart
      <4>4. cache' = [cache EXCEPT ![op.u] = new] => cache'[op.u] = new
        BY <3>2, <1>t DEF TypeOK
      <4> QED
        BY <4>1, <4>3, <4>4, <3>2, <1>t DEF TypeOK
    <3>8. \/ settled' = settled
          \/ /\ cache'[op.u] = new /\ rec'[op.u] = new
             /\ settled' = [settled EXCEPT ![op.u][op.n] = op.d]
      <4>1. CASE out = "ok"
        <5>1. cache' = [cache EXCEPT ![op.u] = new] /\ rec' = [rec EXCEPT ![op.u] = cache'[op.u]]
          BY <3>1, <4>1 DEF RecordPart, new
        <5>2. cache'[op.u] = new /\ rec'[op.u] = new
          BY <5>1, <3>2, <1>t DEF TypeOK
        <5> QED
          BY <3>1, <4>1, <5>2 DEF RecordPart
      <4>2. CASE out # "ok"
        BY <3>1, <4>2 DEF RecordPart
      <4> QED
        BY <4>1, <4>2
    <3>9. \A v \in Upload, k \in Part :
            settled'[v][k] = settled[v][k] \/ (v = op.u /\ k = op.n /\ settled'[v][k] = op.d /\ cache'[v] = new /\ rec'[v] = new)
      BY <3>2, <3>8, Nested
    <3>10. UNCHANGED <<dir, part, legacy, loaded, closing>>
      BY <3>1 DEF RecordPart
    <3>11. ASSUME NEW v \in Upload, NEW k \in Part, settled'[v][k] \in Data, v \notin closing, New(v)
           PROVE  /\ dir[v] = "live" /\ rec'[v] # NoRecord /\ rec'[v].parts[k] = settled'[v][k]
                  /\ part[v][k] = settled'[v][k]
                  /\ cache'[v] # NoRecord /\ cache'[v].parts[k] = settled'[v][k]
      <4>1. CASE settled'[v][k] = settled[v][k]
        <5>1. /\ dir[v] = "live" /\ rec[v] # NoRecord /\ rec[v].parts[k] = settled[v][k] /\ part[v][k] = settled[v][k]
              /\ cache[v] # NoRecord /\ cache[v].parts[k] = settled[v][k]
          BY <3>2, <3>11, <4>1 DEF IInv, SettledOK, PartsKept, New
        <5>2. CASE v # op.u
          BY <3>7, <4>1, <5>1, <5>2
        <5>3. CASE v = op.u
          <6>1. k # op.n
            BY <3>3, <3>11, <4>1, <5>3
          <6>2. new.parts[k] = settled[v][k]
            BY <3>4, <5>1, <5>3, <6>1
          <6> QED
            BY <3>5, <3>7, <4>1, <5>1, <5>3, <6>2
        <5> QED
          BY <5>2, <5>3
      <4>2. CASE settled'[v][k] # settled[v][k]
        BY <3>3, <3>4, <3>5, <3>9, <4>2
      <4> QED
        BY <4>1, <4>2
    <3> QED
      BY <3>10, <3>11 DEF SettledOK, PartsKept, New
  <2>4. BytesOK'
    BY <1>12, <1>t, Placeholder DEF IInv, TypeOK, ArgsOK, BytesOK, RequestOK, New, RecordPart, Return, Failed,
       Outcomes, files, memory, control, history
  <2>5. RequestOK'
    BY <1>12, <1>t, Placeholder DEF IInv, TypeOK, ArgsOK, RequestOK, New, RecordPart, Return, Failed, Outcomes,
       files, memory, control, history
  <2>6. MatchOK'
    BY <1>12, <1>t, Placeholder DEF IInv, TypeOK, ArgsOK, MatchOK, New, OnDisk, RequestOK, RecordPart, Return,
       Failed, Outcomes, files, memory, control, history
  <2>7. EndOK'
    BY <1>12, <1>t, Placeholder DEF IInv, TypeOK, ArgsOK, EndOK, New, RequestOK, RecordPart, Return, Failed,
       Outcomes, files, memory, control, history
  <2>8. ObjectOK'
    BY <1>12, <1>t, Placeholder DEF IInv, TypeOK, ArgsOK, ObjectOK, Integrity, RecordPart, Return, Failed,
       Outcomes, files, memory, control, history
  <2> QED
    BY <1>t, <2>1, <2>2, <2>3, <2>4, <2>5, <2>6, <2>7, <2>8 DEF IInv
<1>13. CASE Assemble
  <2>1. FreshOK'
    BY <1>13, <1>t, Placeholder DEF IInv, TypeOK, ArgsOK, FreshOK, New, Assemble, Continue, Return, Failed,
       files, memory, control, history
  <2>2. LiveOK'
    BY <1>13, <1>t, Placeholder DEF IInv, TypeOK, ArgsOK, LiveOK, New, Assemble, Continue, Return, Failed,
       files, memory, control, history
  <2>3. SettledOK'
    BY <1>13, <1>t, Placeholder DEF IInv, TypeOK, ArgsOK, SettledOK, PartsKept, New, Assemble, Continue,
       Return, Failed, files, memory, control, history
  <2>4. BytesOK'
    BY <1>13, <1>t, Placeholder DEF IInv, TypeOK, ArgsOK, BytesOK, Assemble, Continue, Return, Failed, files,
       memory, control, history
  <2>5. RequestOK'
    BY <1>13, <1>t, Placeholder DEF IInv, TypeOK, ArgsOK, RequestOK, New, Assemble, Continue, Return, Failed,
       files, memory, control, history
  <2>6. MatchOK'
    BY <1>13, <1>t, Placeholder DEF IInv, TypeOK, ArgsOK, MatchOK, New, OnDisk, Assemble, Continue, Return,
       Failed, files, memory, control, history
  <2>7. EndOK'
    BY <1>13, <1>t, Placeholder DEF IInv, TypeOK, ArgsOK, EndOK, New, Assemble, Continue, Return, Failed,
       files, memory, control, history
  <2>8. ObjectOK'
    BY <1>13, <1>t, Placeholder DEF IInv, TypeOK, ArgsOK, ObjectOK, Integrity, Assemble, Continue, Return,
       Failed, files, memory, control, history
  <2> QED
    BY <1>t, <2>1, <2>2, <2>3, <2>4, <2>5, <2>6, <2>7, <2>8 DEF IInv
<1>14. CASE Restart
  <2>1. FreshOK'
    BY <1>14, <1>t, Placeholder DEF IInv, TypeOK, ArgsOK, FreshOK, New, Restart, Removed, Return, NoParts,
       files, memory, control, history
  <2>2. LiveOK'
    BY <1>14, <1>t, Placeholder DEF IInv, TypeOK, ArgsOK, LiveOK, New, Restart, Removed, Return, NoParts,
       files, memory, control, history
  <2>3. SettledOK'
    BY <1>14, <1>t, Placeholder DEF IInv, TypeOK, ArgsOK, SettledOK, PartsKept, New, Restart, Removed, Return,
       NoParts, files, memory, control, history
  <2>4. BytesOK'
    BY <1>14, <1>t, Placeholder DEF IInv, TypeOK, ArgsOK, BytesOK, Restart, Removed, Return, NoParts, files,
       memory, control, history
  <2>5. RequestOK'
    BY <1>14, <1>t, Placeholder DEF IInv, TypeOK, ArgsOK, RequestOK, New, Restart, Removed, Return, NoParts,
       files, memory, control, history
  <2>6. MatchOK'
    BY <1>14, <1>t, Placeholder DEF IInv, TypeOK, ArgsOK, MatchOK, New, OnDisk, Restart, Removed, Return,
       NoParts, files, memory, control, history
  <2>7. EndOK'
    BY <1>14, <1>t, Placeholder DEF IInv, TypeOK, ArgsOK, EndOK, New, Restart, Removed, Return, NoParts, files,
       memory, control, history
  <2>8. ObjectOK'
    BY <1>14, <1>t, Placeholder DEF IInv, TypeOK, ArgsOK, ObjectOK, Integrity, Restart, Removed, Return,
       NoParts, files, memory, control, history
  <2> QED
    BY <1>t, <2>1, <2>2, <2>3, <2>4, <2>5, <2>6, <2>7, <2>8 DEF IInv
<1> QED
  BY <1>1, <1>2, <1>3, <1>4, <1>5, <1>6, <1>7, <1>8, <1>9, <1>10, <1>11, <1>12, <1>13, <1>14 DEF Next,
     Requests, Steps

-----------------------------------------------------------------------------
\* The invariant holds in every reachable state.
THEOREM Invariance == Spec => []IInv
<1>1. Init => IInv
  BY InitInv
<1>2. IInv /\ [Next]_vars => IInv'
  BY NextInv
<1> QED
  BY <1>1, <1>2, PTL DEF Spec

\* A completed object has the bytes its manifest names, if its upload is
\* checksummed or its parts' last requests were acknowledged.
THEOREM ObjectsIntact == Spec => []Integrity
<1>1. IInv => Integrity
  BY DEF IInv, ObjectOK
<1> QED
  BY <1>1, Invariance, PTL

\* An acknowledged part survives every later error and process death.
THEOREM AcknowledgedPartsKept == Spec => []PartsKept
<1>1. IInv => PartsKept
  BY DEF IInv, SettledOK
<1> QED
  BY <1>1, Invariance, PTL

\* An upload whose end was acknowledged is in no cache and under no record.
THEOREM EndedStaysGone == Spec => []EndedGone
<1>1. IInv => EndedGone
  <2> SUFFICES ASSUME IInv, NEW u \in ended, legacy[u] = NoRecord
               PROVE  Cached[u] = NoRecord /\ OnDisk(u) = NoRecord
    BY DEF EndedGone
  <2>1. u \in Upload /\ dir[u] = "none" /\ cache[u] = NoRecord
    BY DEF IInv, TypeOK, EndOK, New
  <2>2. OnDisk(u) = NoRecord
    BY <2>1 DEF OnDisk
  <2>3. Loaded[u] = NoRecord
    BY <2>1, <2>2 DEF Loaded
  <2> QED
    BY <2>1, <2>2, <2>3 DEF Cached
<1> QED
  BY <1>1, Invariance, PTL

\* The uploads cache answers what the disk would.
THEOREM CacheIsDisk == Spec => []CacheMatches
<1>1. IInv => CacheMatches
  BY DEF IInv, MatchOK, CacheMatches, New
<1> QED
  BY <1>1, Invariance, PTL

-----------------------------------------------------------------------------
(* Checksums: the digests that requests declare, verify and are given, at   *)
(* every door that writes the object or the parts of the upload.            *)

\* The numbers are well founded, as a set of pairs.
LEMMA LessThan == \E R : IsWellFoundedOn(R, Nat) /\ \A x, y \in Nat : y < x => <<y, x>> \in R
<1> WITNESS OpToRel(<, Nat)
<1>1. IsWellFoundedOn(OpToRel(<, Nat), Nat)
  BY NatLessThanWellFounded
<1>2. \A x, y \in Nat : y < x => <<y, x>> \in OpToRel(<, Nat)
  BY Zenon DEF OpToRel
<1> QED BY <1>1, <1>2

\* A nonempty set of numbers has a least member.
LEMMA SmallestIn == ASSUME NEW T, T \subseteq Nat, T # {} PROVE Min(T) \in T
<1>1. PICK R : IsWellFoundedOn(R, Nat) /\ \A x, y \in Nat : y < x => <<y, x>> \in R
  BY LessThan
<1>3. PICK x \in T : \A y \in T : ~(<<y, x>> \in R)
  BY <1>1, WFMin
<1>4. ASSUME NEW y \in T PROVE x <= y
  <2>1. y < x => <<y, x>> \in R
    BY <1>1
  <2>2. <<y, x>> \notin R
    BY <1>3
  <2> QED BY <2>1, <2>2
<1> QED
  BY <1>4 DEF Min

\* Checks made one after the other refuse nothing only when each of them passes.
LEMMA AllPassed ==
    ASSUME NEW codes, DOMAIN codes \subseteq Nat, FirstOf(codes) = "ok"
    PROVE  \A j \in DOMAIN codes : codes[j] = "ok"
<1> DEFINE bad == {i \in DOMAIN codes : codes[i] # "ok"}
<1>1. bad # {} => Min(bad) \in bad
  <2> bad \subseteq Nat OBVIOUS
  <2> HIDE DEF bad
  <2> QED BY SmallestIn
<1>2. bad # {} => codes[Min(bad)] = "ok"
  BY DEF FirstOf
<1>3. bad = {}
  BY <1>1, <1>2
<1> QED BY <1>3

\* Two checks that refuse nothing pass both.
LEMMA AllPassed2 ==
    ASSUME NEW c1, NEW c2, FirstOf(<<c1, c2>>) = "ok"
    PROVE  c1 = "ok" /\ c2 = "ok"
<1> DEFINE codes == <<c1, c2>>
<1>1. DOMAIN codes = 1 .. 2 /\ codes[1] = c1 /\ codes[2] = c2
  OBVIOUS
<1>2. FirstOf(codes) = "ok"
  OBVIOUS
<1> HIDE DEF codes
<1>3. \A j \in 1 .. 2 : codes[j] = "ok"
  BY <1>1, <1>2, AllPassed
<1> QED BY <1>1, <1>3

\* The same of three checks.
LEMMA AllPassed3 ==
    ASSUME NEW c1, NEW c2, NEW c3, FirstOf(<<c1, c2, c3>>) = "ok"
    PROVE  c1 = "ok" /\ c2 = "ok" /\ c3 = "ok"
<1> DEFINE codes == <<c1, c2, c3>>
<1>1. DOMAIN codes = 1 .. 3 /\ codes[1] = c1 /\ codes[2] = c2 /\ codes[3] = c3
  OBVIOUS
<1>2. FirstOf(codes) = "ok"
  OBVIOUS
<1> HIDE DEF codes
<1>3. \A j \in 1 .. 3 : codes[j] = "ok"
  BY <1>1, <1>2, AllPassed
<1> QED BY <1>1, <1>3

\* The same of four checks.
LEMMA AllPassed4 ==
    ASSUME NEW c1, NEW c2, NEW c3, NEW c4, FirstOf(<<c1, c2, c3, c4>>) = "ok"
    PROVE  c1 = "ok" /\ c2 = "ok" /\ c3 = "ok" /\ c4 = "ok"
<1> DEFINE codes == <<c1, c2, c3, c4>>
<1>1. DOMAIN codes = 1 .. 4 /\ codes[1] = c1 /\ codes[2] = c2 /\ codes[3] = c3 /\ codes[4] = c4
  OBVIOUS
<1>2. FirstOf(codes) = "ok"
  OBVIOUS
<1> HIDE DEF codes
<1>3. \A j \in 1 .. 4 : codes[j] = "ok"
  BY <1>1, <1>2, AllPassed
<1> QED BY <1>1, <1>3

\* The same of five checks.
LEMMA AllPassed5 ==
    ASSUME NEW c1, NEW c2, NEW c3, NEW c4, NEW c5, FirstOf(<<c1, c2, c3, c4, c5>>) = "ok"
    PROVE  c1 = "ok" /\ c2 = "ok" /\ c3 = "ok" /\ c4 = "ok" /\ c5 = "ok"
<1> DEFINE codes == <<c1, c2, c3, c4, c5>>
<1>1. DOMAIN codes = 1 .. 5 /\ codes[1] = c1 /\ codes[2] = c2 /\ codes[3] = c3 /\ codes[4] = c4 /\ codes[5] = c5
  OBVIOUS
<1>2. FirstOf(codes) = "ok"
  OBVIOUS
<1> HIDE DEF codes
<1>3. \A j \in 1 .. 5 : codes[j] = "ok"
  BY <1>1, <1>2, AllPassed
<1> QED BY <1>1, <1>3

\* The same of seven checks.
LEMMA AllPassed7 ==
    ASSUME NEW c1, NEW c2, NEW c3, NEW c4, NEW c5, NEW c6, NEW c7, FirstOf(<<c1, c2, c3, c4, c5, c6, c7>>) = "ok"
    PROVE  c1 = "ok" /\ c2 = "ok" /\ c3 = "ok" /\ c4 = "ok" /\ c5 = "ok" /\ c6 = "ok" /\ c7 = "ok"
<1> DEFINE codes == <<c1, c2, c3, c4, c5, c6, c7>>
<1>1. DOMAIN codes = 1 .. 7 /\ codes[1] = c1 /\ codes[2] = c2 /\ codes[3] = c3 /\ codes[4] = c4 /\ codes[5] = c5 /\ codes[6] = c6 /\ codes[7] = c7
  OBVIOUS
<1>2. FirstOf(codes) = "ok"
  OBVIOUS
<1> HIDE DEF codes
<1>3. \A j \in 1 .. 7 : codes[j] = "ok"
  BY <1>1, <1>2, AllPassed
<1> QED BY <1>1, <1>3

\* The digests that the door that wrote an object gives out for it.
ReceiptsOf(b) == CASE b.by = "s3" -> b.s3 [] b.by = "gcs" -> b.gcs [] b.by = "oci" -> b.oci [] OTHER -> {}

\* An object and an upload whose stored digests are true.
Truthful(b, u) ==
    /\ DOMAIN b = {"bytes", "kind", "s3", "gcs", "oci", "by"} /\ DOMAIN u = {"open", "enabled", "parts"}
    /\ \A d \in ReceiptsOf(b) : d = Digest(d.algorithm, b.bytes)
    /\ u.enabled => \A n \in DOMAIN u.parts : u.parts[n].crc = {Digest("CRC32C", u.parts[n].bytes)}

SumInv == Truthful(blob, upload) /\ unmet = {}

\* A check that did not refuse.
LEMMA NotRefused == ASSUME NEW code, NEW refused, code # "ok", Unless(code, refused) = "ok" PROVE ~refused
BY DEF Unless

\* A digest is that of no other body.
LEMMA DigestOf == ASSUME NEW a, NEW b PROVE Digest(a, b) = [algorithm |-> a, of |-> b]
BY DEF Digest

\* A header whose value was compared holds nothing else than the digest of the bytes.
LEMMA ComparedTrue ==
    ASSUME NEW values \in Header, Len(values) <= 1, NEW a, NEW body, Compared(values, a, body) = "ok"
    PROVE  \A d \in ToSet(values) : d = Digest(a, body) /\ d = Digest(d.algorithm, body)
<1>1. values # <<>> => values[1] = Digest(a, body)
  BY DEF Compared
<1>2. ToSet(values) \subseteq {values[1]} /\ (values = <<>> => ToSet(values) = {})
  BY DEF ToSet, Header
<1>3. Digest(a, body).algorithm = a
  BY DEF Digest
<1> QED BY <1>1, <1>2, <1>3

\* What is known of a request: its fields.
LEMMA Fields ==
    ASSUME NEW q \in SumRequests
    PROVE  /\ Sensible(q) /\ q.body \in Seq(Nat) /\ q.md5 \in Header /\ q.hash \in Header /\ q.size \in Seq(Nat)
           /\ q.sums \in [Algorithms -> Header] /\ q.selector \in Seq(STRING)
           /\ q.manifest \in Seq([part : Nat, etag : Seq(Nat), sum : Header])
           /\ DOMAIN q = {"door", "op", "body", "sums", "selector", "md5", "extra", "hash", "part", "manifest",
                          "size", "condition"}
BY ChecksumAssumption DEF Uploads

\* A part that is stored has the digest of its bytes when the upload has checksums.
LEMMA PartKept ==
    ASSUME Truthful(blob, upload), NEW n, NEW body
    PROVE  Truthful(blob, WithPart(n, body)) /\ WithPart(n, body).parts[n].bytes = body
<1> DEFINE crc == IF upload.enabled THEN {Digest("CRC32C", body)} ELSE {}
           entry == [bytes |-> body, crc |-> crc]
           parts == [i \in DOMAIN upload.parts \cup {n} |-> IF i = n THEN entry ELSE upload.parts[i]]
           u == [upload EXCEPT !.parts = parts]
<1>1. WithPart(n, body) = u
  BY DEF WithPart
<1>2. entry.bytes = body /\ entry.crc = crc
  OBVIOUS
<1>3. DOMAIN parts = DOMAIN upload.parts \cup {n} /\ parts[n] = entry
      /\ \A i \in DOMAIN upload.parts : i # n => parts[i] = upload.parts[i]
  <2> HIDE DEF entry
  <2> QED OBVIOUS
<1>4. DOMAIN u = DOMAIN upload /\ u.parts = parts /\ u.enabled = upload.enabled
  <2> HIDE DEF parts
  <2> QED BY DEF Truthful
<1>5. u.enabled => crc = {Digest("CRC32C", body)}
  BY <1>4
<1> HIDE DEF crc, entry, parts, u
<1>6. ASSUME u.enabled, NEW i \in DOMAIN parts PROVE parts[i].crc = {Digest("CRC32C", parts[i].bytes)}
  <2>1. CASE i = n BY <2>1, <1>2, <1>3, <1>5, <1>6
  <2>2. CASE i # n
    <3>1. i \in DOMAIN upload.parts /\ parts[i] = upload.parts[i] BY <2>2, <1>3
    <3> QED BY <3>1, <1>4, <1>6 DEF Truthful
  <2> QED BY <2>1, <2>2
<1> QED BY <1>1, <1>2, <1>3, <1>4, <1>6 DEF Truthful

\* A new object whose digests are set by the door that wrote it.
LEMMA BlobKept ==
    ASSUME Truthful(blob, upload), NEW b, NEW sums, DOMAIN b = DOMAIN NoBlob, ReceiptsOf(b) \subseteq sums,
           \A d \in sums : \E a : d = Digest(a, b.bytes)
    PROVE  Truthful(b, upload)
<1>1. DOMAIN b = {"bytes", "kind", "s3", "gcs", "oci", "by"}
  BY DEF NoBlob
<1>2. \A d \in ReceiptsOf(b) : d = Digest(d.algorithm, b.bytes)
  <2> TAKE d \in ReceiptsOf(b)
  <2>1. PICK a : d = Digest(a, b.bytes) OBVIOUS
  <2> QED BY <2>1 DEF Digest
<1> QED BY <1>1, <1>2 DEF Truthful

\* A served request keeps the digests true and meets every claim.
Kept(q, s) == Truthful(s.blob, s.upload) /\ Unmet(q, s) = {}

\* The claims of an upload of a body are met when its digests are those of the body.
LEMMA ClaimsMet ==
    ASSUME NEW q \in SumRequests, NEW s, q.op \notin {"complete", "initiate", "copy", "append"}, q.size = <<>>,
           (IF q.op \in {"part", "ociPart"} THEN s.upload.parts[q.part].bytes ELSE s.blob.bytes) = q.body,
           \A d \in Declared(q) : d = Digest(d.algorithm, q.body)
    PROVE  Unmet(q, s) = {}
<1>1. ToSet(q.size) = {}
  BY DEF ToSet
<1> QED BY <1>1 DEF Unmet

\* The MD5 header of S3: one value at most, the digest of the body.
LEMMA Md5True ==
    ASSUME NEW q \in SumRequests, ContentMd5(q) = "ok"
    PROVE  \A d \in ToSet(q.md5) : d = Digest(d.algorithm, q.body)
<1>1. q.md5 \in Header BY Fields
<1>2. Len(q.md5) \in Nat BY <1>1 DEF Header
<1>3. Len(q.md5) <= 1 /\ Compared(q.md5, "MD5", q.body) = "ok"
  BY <1>2 DEF ContentMd5
<1> QED BY <1>1, <1>3, ComparedTrue

\* What an S3 upload declares is its MD5 and its checksum headers.
LEMMA DeclaredS3 ==
    ASSUME NEW q \in SumRequests, q.door = "s3", q.hash = <<>>
    PROVE  Declared(q) = ToSet(q.md5) \cup UNION {ToSet(q.sums[a]) : a \in Algorithms}
<1>1. ToSet(q.hash) = {} BY DEF ToSet
<1> QED BY <1>1 DEF Declared

\* S3 PUT.
LEMMA PutKept ==
    ASSUME SumInv, NEW q \in SumRequests, q.op = "put", PutObjectBody(q).code = "ok"
    PROVE  Kept(q, PutObjectBody(q))
<1> DEFINE s == PutObjectBody(q)
           b == [blob EXCEPT !.bytes = q.body, !.by = "s3", !.kind = IF @ = "none" THEN "block" ELSE @]
<1>0. q.door = "s3" /\ q.hash = <<>> /\ q.size = <<>>
  BY Fields DEF Sensible
<1>1. ValidatePut(q) = "ok" /\ ContentMd5(q) = "ok"
  <2>1. FirstOf(<<ValidatePut(q), ContentMd5(q)>>) = "ok" BY DEF PutObjectBody
  <2> QED BY <2>1, AllPassed2
<1>2. /\ ~(Len(q.selector) > 1 \/ \E a \in Algorithms : Len(q.sums[a]) > 1)
      /\ ~(\E a \in Supplied(q) : q.sums[a][1] # Digest(a, q.body))
  <2>1. /\ Unless("InvalidRequest", Len(q.selector) > 1 \/ \E a \in Algorithms : Len(q.sums[a]) > 1) = "ok"
        /\ Unless("BadDigest", \E a \in Supplied(q) : q.sums[a][1] # Digest(a, q.body)) = "ok"
    <3> DEFINE c1 == Unless("NotImplemented", q.extra # {})
               c2 == Unless("InvalidRequest", Len(q.selector) > 1 \/ \E a \in Algorithms : Len(q.sums[a]) > 1)
               c3 == Unless("NotImplemented", ToSet(q.selector) \cap Algorithms # ToSet(q.selector))
               c4 == Unless("InvalidRequest", Cardinality(Supplied(q)) > 1 \/ (q.selector # <<>> /\ Supplied(q) = {}))
               c5 == Unless("BadDigest", q.selector # <<>> /\ q.selector[1] \notin Supplied(q))
               c6 == Unless("InvalidDigest", \E a \in Supplied(q) : ~Decodes(q.sums[a][1], a))
               c7 == Unless("BadDigest", \E a \in Supplied(q) : q.sums[a][1] # Digest(a, q.body))
    <3>1. FirstOf(<<c1, c2, c3, c4, c5, c6, c7>>) = "ok"
      BY <1>1 DEF ValidatePut
    <3> HIDE DEF c1, c2, c3, c4, c5, c6, c7
    <3>2. c2 = "ok" /\ c7 = "ok"
      BY <3>1, AllPassed7
    <3> QED BY <3>2 DEF c2, c7
  <2> QED BY <2>1 DEF Unless
<1>3. ASSUME NEW a \in Algorithms, NEW d \in ToSet(q.sums[a]) PROVE d = Digest(d.algorithm, q.body)
  <2>1. q.sums[a] \in Header BY Fields
  <2> DEFINE v == q.sums[a]
  <2>2. v \in Header /\ ~(Len(v) > 1) /\ d \in ToSet(v)
    BY <1>2, <2>1
  <2>3. Len(v) = 1 /\ d = v[1]
    <3> HIDE DEF v
    <3>1. Len(v) \in Nat /\ DOMAIN v = 1 .. Len(v)
      BY <2>2 DEF Header
    <3>2. PICK i \in DOMAIN v : d = v[i]
      BY <2>2 DEF ToSet
    <3> QED BY <2>2, <3>1, <3>2
  <2>4. a \in Supplied(q) BY <2>3 DEF Supplied
  <2> QED BY <1>2, <2>3, <2>4 DEF Digest
<1>4. \A d \in Declared(q) : d = Digest(d.algorithm, q.body)
  BY <1>0, <1>1, <1>3, Md5True, DeclaredS3
<1>5. s.upload = upload /\ s.blob = ReplaceIdentity(b, q)
  BY DEF PutObjectBody
<1>6. DOMAIN b = DOMAIN NoBlob /\ b.bytes = q.body /\ b.by = "s3"
  BY DEF SumInv, Truthful, NoBlob
<1> HIDE DEF b, s
<1> DEFINE sums == {Digest(a, q.body) : a \in Supplied(q)}
<1>7. DOMAIN s.blob = DOMAIN NoBlob /\ s.blob.bytes = q.body /\ s.blob.by = "s3" /\ s.blob.s3 = sums
  <2> HIDE DEF sums
  <2>1. s.blob = [b EXCEPT !.s3 = sums] BY <1>5 DEF ReplaceIdentity, sums
  <2> QED BY <2>1, <1>6 DEF NoBlob
<1>8. ReceiptsOf(s.blob) \subseteq sums BY <1>7 DEF ReceiptsOf
<1>9. \A d \in sums : \E a : d = Digest(a, s.blob.bytes) BY <1>7
<1> HIDE DEF sums
<1>10. Truthful(s.blob, s.upload)
  BY <1>5, <1>7, <1>8, <1>9, BlobKept DEF SumInv
<1>11. Unmet(q, s) = {}
  BY <1>0, <1>4, <1>7, ClaimsMet
<1> QED BY <1>10, <1>11 DEF Kept, s

\* CreateMultipartUpload.
LEMMA InitiateKept ==
    ASSUME SumInv, NEW q \in SumRequests, q.op = "initiate"
    PROVE  Kept(q, Initiate(q))
<1> DEFINE s == Initiate(q)  e == Requested(q)
<1>1. s.blob = blob /\ s.upload = [open |-> TRUE, enabled |-> e, parts |-> <<>>]
  BY DEF Initiate
<1> HIDE DEF s, e
<1>2. DOMAIN s.upload = {"open", "enabled", "parts"} /\ DOMAIN s.upload.parts = {}
  BY <1>1
<1>3. Truthful(s.blob, s.upload)
  BY <1>1, <1>2 DEF SumInv, Truthful
<1>4. Unmet(q, s) = {}
  BY DEF Unmet
<1> QED BY <1>3, <1>4 DEF Kept, s

\* UploadPart.
LEMMA UploadPartKept ==
    ASSUME SumInv, NEW q \in SumRequests, q.op = "part", UploadMultipartPart(q).code = "ok"
    PROVE  Kept(q, UploadMultipartPart(q))
<1> DEFINE s == UploadMultipartPart(q)
<1>0. q.door = "s3" /\ q.hash = <<>> /\ q.size = <<>>
  BY Fields DEF Sensible
<1>1. ValidatePart(q) = "ok" /\ ContentMd5(q) = "ok"
  <2>1. FirstOf(<<Unless("NoSuchUpload", ~upload.open), ValidatePart(q), ContentMd5(q)>>) = "ok"
    BY DEF UploadMultipartPart
  <2> QED BY <2>1, AllPassed3
<1>2. /\ ValidateHeaders(q) = "ok"
      /\ IF ~upload.enabled THEN Unless("NotImplemented", Requested(q)) = "ok"
         ELSE /\ Unless("NotImplemented", ~Allowed(q, {"CRC32C"}, TRUE, {})) = "ok"
              /\ Compared(q.sums["CRC32C"], "CRC32C", q.body) = "ok"
  <2> DEFINE h == ValidateHeaders(q)
             c1 == Unless("NotImplemented", ~Allowed(q, {"CRC32C"}, TRUE, {}))
             c2 == Unless("InvalidRequest", q.selector # <<>> /\ q.sums["CRC32C"] = <<>>)
             c3 == Compared(q.sums["CRC32C"], "CRC32C", q.body)
             c4 == Unless("NotImplemented", Requested(q))
             c5 == IF ~upload.enabled THEN c4 ELSE FirstOf(<<c1, c2, c3>>)
  <2>1. FirstOf(<<h, c5>>) = "ok"
    BY <1>1 DEF ValidatePart
  <2> HIDE DEF h, c1, c2, c3, c4
  <2>2. h = "ok" /\ c5 = "ok"
    BY <2>1, AllPassed2
  <2>3. upload.enabled => FirstOf(<<c1, c2, c3>>) = "ok"
    BY <2>2
  <2>4. upload.enabled => c1 = "ok" /\ c3 = "ok"
    BY <2>3, AllPassed3
  <2>5. ~upload.enabled => c4 = "ok"
    BY <2>2
  <2> QED BY <2>2, <2>4, <2>5 DEF h, c1, c3, c4
<1>3. \A a \in Algorithms : ~(Len(q.sums[a]) > 1)
  <2>1. Unless("InvalidDigest", \E a \in Algorithms : Len(q.sums[a]) > 1) = "ok"
    BY <1>2, AllPassed2 DEF ValidateHeaders
  <2> QED BY <2>1 DEF Unless
<1>4. ASSUME NEW a \in Algorithms, NEW d \in ToSet(q.sums[a]) PROVE d = Digest(d.algorithm, q.body)
  <2>1. q.sums[a] \in Header BY Fields
  <2>2. q.sums[a] # <<>> BY DEF ToSet
  <2>3. a \in Supplied(q) BY <2>2 DEF Supplied
  <2>4. upload.enabled BY <1>2, <2>3 DEF Unless, Requested
  <2>5. a = "CRC32C" /\ Compared(q.sums["CRC32C"], "CRC32C", q.body) = "ok"
    BY <1>2, <2>3, <2>4 DEF Unless, Allowed
  <2>6. Len(q.sums[a]) <= 1 BY <1>3, <2>1 DEF Header
  <2> QED BY <2>1, <2>5, <2>6, ComparedTrue
<1>5. \A d \in Declared(q) : d = Digest(d.algorithm, q.body)
  BY <1>0, <1>1, <1>4, Md5True, DeclaredS3
<1>6. s.blob = blob /\ s.upload = WithPart(q.part, q.body)
  BY DEF UploadMultipartPart
<1> HIDE DEF s
<1>7. Truthful(s.blob, s.upload) /\ s.upload.parts[q.part].bytes = q.body
  BY <1>6, PartKept DEF SumInv
<1>8. Unmet(q, s) = {}
  BY <1>0, <1>5, <1>7, ClaimsMet
<1> QED BY <1>7, <1>8 DEF Kept, s

\* UploadPartCopy.
LEMMA CopyKept ==
    ASSUME SumInv, NEW q \in SumRequests, q.op = "copy"
    PROVE  Kept(q, UploadPartCopy(q))
<1> DEFINE s == UploadPartCopy(q)
<1>1. s.blob = blob /\ s.upload = WithPart(q.part, blob.bytes)
  BY DEF UploadPartCopy
<1> HIDE DEF s
<1>2. Truthful(s.blob, s.upload)
  BY <1>1, PartKept DEF SumInv
<1>3. Unmet(q, s) = {}
  BY DEF Unmet
<1> QED BY <1>2, <1>3 DEF Kept, s

\* What CompleteMultipartUpload has checked when it publishes.
LEMMA CompletionPasses ==
    ASSUME NEW q \in SumRequests, q.op = "complete", CompleteMultipartUpload(q).code = "ok"
    PROVE  /\ ValidateOrder(q) = "ok" /\ Completion(q) = "ok" /\ CompleteChecked(q) = "ok"
           /\ CompleteMultipartUpload(q).blob =
                 [NewBlob(Assembled(q), "s3") EXCEPT
                    !.s3 = IF upload.enabled THEN {Digest("CRC32C", Assembled(q))} ELSE {}]
           /\ CompleteMultipartUpload(q).upload = NoUpload
<1> DEFINE c0 == Unless("NoSuchUpload", ~upload.open)
           code == FirstOf(<<c0, ValidateOrder(q)>>)
           later == FirstOf(<<Completion(q), CompleteChecked(q)>>)
           checked == IF code # "ok" THEN code ELSE later
           published == [NewBlob(Assembled(q), "s3") EXCEPT
                           !.s3 = IF upload.enabled THEN {Digest("CRC32C", Assembled(q))} ELSE {}]
<1>1. CompleteMultipartUpload(q) = IF checked # "ok" THEN [code |-> checked, blob |-> blob, upload |-> upload]
                                   ELSE [code |-> "ok", blob |-> published, upload |-> NoUpload]
  BY DEF CompleteMultipartUpload
<1> HIDE DEF published, checked
<1>2. checked = "ok"
  BY <1>1
<1>3. CompleteMultipartUpload(q).blob = published /\ CompleteMultipartUpload(q).upload = NoUpload
  BY <1>1, <1>2
<1> HIDE DEF code, later
<1>4. code = "ok" /\ later = "ok"
  BY <1>2 DEF checked
<1> HIDE DEF c0
<1>5. ValidateOrder(q) = "ok"
  BY <1>4, AllPassed2 DEF code
<1>6. Completion(q) = "ok" /\ CompleteChecked(q) = "ok"
  BY <1>4, AllPassed2 DEF later
<1> QED BY <1>3, <1>5, <1>6 DEF published

\* The checks of Completion and of CompleteChecked that the claims of a completion depend on.
LEMMA CompletionAsks ==
    ASSUME NEW q \in SumRequests, q.op = "complete",
           ValidateOrder(q) = "ok", Completion(q) = "ok", CompleteChecked(q) = "ok"
    PROVE  /\ \A e \in ToSet(q.manifest) : e.part \in DOMAIN upload.parts /\ upload.parts[e.part].bytes = e.etag
           /\ Supplied(q) \subseteq {"CRC32C"}
           /\ upload.enabled \/ \A e \in ToSet(q.manifest) : e.sum = <<>>
           /\ upload.enabled => ValidateManifest(q) = "ok"
           /\ q.size # <<>> => q.size[1] = Len(Assembled(q))
           /\ Compared(q.sums["CRC32C"], "CRC32C", Assembled(q)) = "ok"
           /\ \A a \in Algorithms : ~(Len(q.sums[a]) > 1)
<1>1. \A e \in ToSet(q.manifest) : e.part \in DOMAIN upload.parts /\ upload.parts[e.part].bytes = e.etag
  <2> DEFINE c1 == Unless("InvalidPartOrder", \E i \in 2 .. Len(q.manifest) : q.manifest[i].part <= q.manifest[i - 1].part)
             c2 == Unless("InvalidPart", \E e \in ToSet(q.manifest) :
                        e.part \notin DOMAIN upload.parts \/ upload.parts[e.part].bytes # e.etag)
  <2>1. FirstOf(<<c1, c2>>) = "ok" BY DEF ValidateOrder
  <2> HIDE DEF c1, c2
  <2>2. c2 = "ok" BY <2>1, AllPassed2
  <2> QED BY <2>2 DEF c2, Unless
<1> DEFINE h == ValidateHeaders(q)
           refused == \/ ~Allowed(q, {"CRC32C"}, FALSE, {"type"})
                      \/ ~upload.enabled /\ (Requested(q) \/ \E e \in ToSet(q.manifest) : e.sum # <<>>)
           c2 == Unless("NotImplemented", refused)
           c3 == Unless("InvalidDigest", q.sums["CRC32C"] # <<>> /\ ~Decodes(q.sums["CRC32C"][1], "CRC32C"))
           c4 == Unless("InvalidPartOrder", upload.enabled /\ ~Consecutive(q))
           c5 == IF upload.enabled THEN ValidateManifest(q) ELSE "ok"
<1>2. FirstOf(<<h, c2, c3, c4, c5>>) = "ok"
  BY DEF Completion
<1>3. h = "ok" /\ c2 = "ok" /\ c5 = "ok"
  <2> HIDE DEF h, c2, c3, c4, c5
  <2> QED BY <1>2, AllPassed5
<1>4. ~refused
  <2> HIDE DEF refused
  <2> QED BY <1>3 DEF Unless
<1>5. Supplied(q) \subseteq {"CRC32C"}
  BY <1>4 DEF Allowed
<1>6. upload.enabled \/ \A e \in ToSet(q.manifest) : e.sum = <<>>
  BY <1>4
<1>7. upload.enabled => ValidateManifest(q) = "ok"
  BY <1>3
<1>8. \A a \in Algorithms : ~(Len(q.sums[a]) > 1)
  <2>1. Unless("InvalidDigest", \E a \in Algorithms : Len(q.sums[a]) > 1) = "ok"
    BY <1>3, AllPassed2 DEF ValidateHeaders
  <2> QED BY <2>1 DEF Unless
<1>9. /\ q.size # <<>> => q.size[1] = Len(Assembled(q))
      /\ Compared(q.sums["CRC32C"], "CRC32C", Assembled(q)) = "ok"
  <2> DEFINE d1 == Unless("InvalidPartOrder", q.manifest = <<>>)
             d2 == Unless("InvalidRequest", q.size # <<>> /\ q.size[1] # Len(Assembled(q)))
             d3 == Compared(q.sums["CRC32C"], "CRC32C", Assembled(q))
             d4 == Unless("NoSuchKey", q.condition = "existing" /\ blob = NoBlob)
             d5 == Unless("PreconditionFailed", q.condition = "missing" /\ blob # NoBlob)
  <2>1. FirstOf(<<d1, d2, d3, d4, d5>>) = "ok" BY DEF CompleteChecked
  <2>2. d2 = "ok" /\ d3 = "ok"
    <3> HIDE DEF d1, d2, d3, d4, d5
    <3> QED BY <2>1, AllPassed5
  <2> QED BY <2>2 DEF Unless
<1> QED BY <1>1, <1>5, <1>6, <1>7, <1>8, <1>9

\* The bytes that a manifest names, by ETag or by digest, part by part, are the bytes that are assembled.
LEMMA NamedAssembled ==
    ASSUME SumInv, NEW q \in SumRequests, q.op = "complete",
           \A e \in ToSet(q.manifest) : e.part \in DOMAIN upload.parts /\ upload.parts[e.part].bytes = e.etag,
           upload.enabled \/ \A e \in ToSet(q.manifest) : e.sum = <<>>,
           upload.enabled => ValidateManifest(q) = "ok"
    PROVE  NamedBytes(q) = Assembled(q)
<1> DEFINE named(i) == IF q.manifest[i].sum = <<>> THEN q.manifest[i].etag ELSE q.manifest[i].sum[1].of
           bytes(i) == upload.parts[q.manifest[i].part].bytes
<1>1. ASSUME NEW i \in DOMAIN q.manifest PROVE named(i) = bytes(i)
  <2> DEFINE e == q.manifest[i]
  <2>0. e \in ToSet(q.manifest) BY DEF ToSet
  <2> HIDE DEF e
  <2>1. e.part \in DOMAIN upload.parts /\ upload.parts[e.part].bytes = e.etag BY <2>0
  <2>2. CASE e.sum = <<>> BY <2>1, <2>2 DEF e
  <2>3. CASE e.sum # <<>>
    <3>1. upload.enabled BY <2>0, <2>3
    <3>2. ValidateManifestPart(e) = "ok"
      <4> DEFINE codes == [j \in DOMAIN q.manifest |-> ValidateManifestPart(q.manifest[j])]
      <4>1. FirstOf(codes) = "ok" BY <3>1 DEF ValidateManifest
      <4>2. DOMAIN codes \subseteq Nat BY Fields
      <4>3. codes[i] = ValidateManifestPart(e) BY DEF e
      <4>4. i \in DOMAIN codes OBVIOUS
      <4> HIDE DEF codes
      <4> QED BY <4>1, <4>2, <4>3, <4>4, AllPassed
    <3>3. e.sum[1] \in upload.parts[e.part].crc
      BY <3>2, <2>3 DEF ValidateManifestPart, Unless
    <3>4. e.sum[1] = Digest("CRC32C", upload.parts[e.part].bytes)
      BY <3>1, <3>3, <2>1 DEF SumInv, Truthful
    <3> QED BY <3>4, <2>3 DEF Digest, e
  <2> QED BY <2>2, <2>3
<1>2. [i \in DOMAIN q.manifest |-> named(i)] = [i \in DOMAIN q.manifest |-> bytes(i)]
  <2> HIDE DEF named, bytes
  <2> QED BY <1>1
<1> QED BY <1>2 DEF NamedBytes, Assembled

\* CompleteMultipartUpload.
LEMMA CompleteKept ==
    ASSUME SumInv, NEW q \in SumRequests, q.op = "complete", CompleteMultipartUpload(q).code = "ok"
    PROVE  Kept(q, CompleteMultipartUpload(q))
<1> DEFINE s == CompleteMultipartUpload(q)
           body == Assembled(q)
           sums == IF upload.enabled THEN {Digest("CRC32C", body)} ELSE {}
<1>0. q.door = "s3" /\ q.hash = <<>> /\ q.md5 = <<>> /\ Len(q.size) <= 1
  BY Fields DEF Sensible
<1>1. /\ ValidateOrder(q) = "ok" /\ Completion(q) = "ok" /\ CompleteChecked(q) = "ok"
      /\ s.blob = [NewBlob(body, "s3") EXCEPT !.s3 = sums] /\ s.upload = NoUpload
  BY CompletionPasses
<1>2. sums \subseteq {Digest("CRC32C", body)}
  OBVIOUS
<1> HIDE DEF s, body, sums
<1>3. /\ \A e \in ToSet(q.manifest) : e.part \in DOMAIN upload.parts /\ upload.parts[e.part].bytes = e.etag
      /\ Supplied(q) \subseteq {"CRC32C"}
      /\ upload.enabled \/ \A e \in ToSet(q.manifest) : e.sum = <<>>
      /\ upload.enabled => ValidateManifest(q) = "ok"
      /\ q.size # <<>> => q.size[1] = Len(body)
      /\ Compared(q.sums["CRC32C"], "CRC32C", body) = "ok"
      /\ \A a \in Algorithms : ~(Len(q.sums[a]) > 1)
  BY <1>1, CompletionAsks DEF body
<1>4. /\ DOMAIN s.blob = DOMAIN NoBlob /\ s.blob.bytes = body /\ s.blob.by = "s3" /\ s.blob.s3 = sums
  BY <1>1 DEF NewBlob, NoBlob
<1>5. Truthful(s.blob, upload)
  <2>1. ReceiptsOf(s.blob) \subseteq sums BY <1>4 DEF ReceiptsOf
  <2>2. \A d \in sums : \E a : d = Digest(a, s.blob.bytes) BY <1>2, <1>4
  <2> QED BY <1>4, <2>1, <2>2, BlobKept DEF SumInv
<1>6. DOMAIN s.upload = {"open", "enabled", "parts"} /\ ~s.upload.enabled
  BY <1>1 DEF NoUpload
<1>7. Truthful(s.blob, s.upload)
  BY <1>5, <1>6 DEF Truthful
<1>8. \A d \in Declared(q) : d = Digest(d.algorithm, body)
  <2>1. ToSet(q.md5) = {} BY <1>0 DEF ToSet
  <2>2. ASSUME NEW a \in Algorithms, NEW d \in ToSet(q.sums[a]) PROVE d = Digest(d.algorithm, body)
    <3>1. q.sums[a] \in Header BY Fields
    <3>2. q.sums[a] # <<>> BY DEF ToSet
    <3>3. a = "CRC32C" BY <1>3, <3>2 DEF Supplied
    <3>4. Len(q.sums[a]) <= 1 BY <1>3, <3>1 DEF Header
    <3> QED BY <1>3, <3>1, <3>3, <3>4, ComparedTrue
  <2> QED BY <1>0, <2>1, <2>2, DeclaredS3
<1>9. ToSet(q.size) \subseteq {Len(body)}
  <2>1. q.size \in Seq(Nat) BY Fields
  <2>2. CASE q.size = <<>> BY <2>2 DEF ToSet
  <2>3. CASE q.size # <<>>
    <3>1. DOMAIN q.size = {1} BY <2>1, <2>3, <1>0
    <3> QED BY <3>1, <2>3, <1>3 DEF ToSet
  <2> QED BY <2>2, <2>3
<1>10. NamedBytes(q) = body
  BY <1>3, NamedAssembled DEF body
<1>11. Unmet(q, s) = {}
  BY <1>4, <1>8, <1>9, <1>10 DEF Unmet
<1> QED BY <1>7, <1>11 DEF Kept, s

\* The tokens of X-Goog-Hash are digests of the body.
LEMMA GoogHashTrue ==
    ASSUME NEW q, NEW algorithms, GoogHash(q, algorithms) = "ok"
    PROVE  \A t \in ToSet(q.hash) : t = Digest(t.algorithm, q.body)
<1> DEFINE c1 == Unless("InvalidHash", \E t \in ToSet(q.hash) : t.algorithm \notin algorithms)
           c2 == Unless("InvalidHash", \E t, u \in ToSet(q.hash) : t # u /\ t.algorithm = u.algorithm)
           c3 == Unless("BadDigest", \E t \in ToSet(q.hash) : t # Digest(t.algorithm, q.body))
<1>1. FirstOf(<<c1, c2, c3>>) = "ok"
  BY DEF GoogHash
<1>2. c3 = "ok"
  <2> HIDE DEF c1, c2, c3
  <2> QED BY <1>1, AllPassed3
<1> QED BY <1>2 DEF Unless

\* An object that GCS has written has the CRC32C of its bytes.
LEMMA GcsBlobKept ==
    ASSUME SumInv, NEW q \in SumRequests
    PROVE  Truthful(GcsBlob(q), upload) /\ GcsBlob(q).bytes = q.body
<1> DEFINE b == GcsBlob(q)  sums == {Digest("CRC32C", q.body)}
<1>1. DOMAIN b = DOMAIN NoBlob /\ b.bytes = q.body /\ b.by = "gcs" /\ b.gcs = sums
  BY DEF GcsBlob, NewBlob, NoBlob
<1>2. ReceiptsOf(b) \subseteq sums BY <1>1 DEF ReceiptsOf
<1>3. \A d \in sums : \E a : d = Digest(a, b.bytes) BY <1>1
<1> HIDE DEF b, sums
<1>4. Truthful(b, upload) BY <1>1, <1>2, <1>3, BlobKept DEF SumInv
<1> QED BY <1>1, <1>4 DEF b

\* No checksum header of S3 is declared by a request that has none.
LEMMA NoSumsDeclared ==
    ASSUME NEW q \in SumRequests, \A a \in Algorithms : q.sums[a] = <<>>, q.door # "oci"
    PROVE  Declared(q) = ToSet(q.md5) \cup ToSet(q.hash)
<1>1. \A a \in Algorithms : ToSet(q.sums[a]) = {} BY DEF ToSet
<1> QED BY <1>1 DEF Declared

\* GCS XML uploads.
LEMMA XmlKept ==
    ASSUME SumInv, NEW q \in SumRequests, q.op = "xml", GcsXmlUpload(q).code = "ok"
    PROVE  Kept(q, GcsXmlUpload(q))
<1> DEFINE s == GcsXmlUpload(q)
           p == [q EXCEPT !.hash = @ \o q.md5]
<1>0. q.door = "gcs" /\ q.size = <<>> /\ \A a \in Algorithms : q.sums[a] = <<>>
  BY Fields DEF Sensible
<1>1. GoogHash(p, {"MD5", "CRC32C"}) = "ok"
  <2> DEFINE c1 == Unless("InvalidDigest", \E v, w \in ToSet(q.md5) : ~Decodes(v, "MD5") \/ v # w)
             c2 == GoogHash(p, {"MD5", "CRC32C"})
  <2>1. FirstOf(<<c1, c2>>) = "ok" BY DEF GcsXmlUpload
  <2> HIDE DEF c1, c2
  <2>2. c2 = "ok" BY <2>1, AllPassed2
  <2> QED BY <2>2 DEF c2
<1>2. p.body = q.body /\ p.hash = q.hash \o q.md5
  BY Fields
<1> HIDE DEF p
<1>3. ToSet(q.hash \o q.md5) = ToSet(q.hash) \cup ToSet(q.md5)
  <2> DEFINE a == q.hash  b == q.md5
  <2>1. a \in Header /\ b \in Header BY Fields
  <2> HIDE DEF a, b
  <2>2. /\ \A i \in DOMAIN a : i \in DOMAIN (a \o b) /\ (a \o b)[i] = a[i]
        /\ \A i \in DOMAIN b : Len(a) + i \in DOMAIN (a \o b) /\ (a \o b)[Len(a) + i] = b[i]
    BY <2>1 DEF Header
  <2>3. ASSUME NEW i \in DOMAIN (a \o b) PROVE (a \o b)[i] \in ToSet(a) \cup ToSet(b)
    <3>1. CASE i <= Len(a)
      <4>1. i \in DOMAIN a /\ (a \o b)[i] = a[i] BY <2>1, <3>1 DEF Header
      <4> QED BY <4>1 DEF ToSet
    <3>2. CASE ~(i <= Len(a))
      <4>1. i - Len(a) \in DOMAIN b /\ (a \o b)[i] = b[i - Len(a)] BY <2>1, <3>2 DEF Header
      <4> QED BY <4>1 DEF ToSet
    <3> QED BY <3>1, <3>2
  <2>4. ToSet(a \o b) \subseteq ToSet(a) \cup ToSet(b) BY <2>3 DEF ToSet
  <2>5. ToSet(a) \subseteq ToSet(a \o b) /\ ToSet(b) \subseteq ToSet(a \o b)
    BY <2>2 DEF ToSet
  <2> QED BY <2>4, <2>5 DEF a, b
<1>4. \A d \in Declared(q) : d = Digest(d.algorithm, q.body)
  BY <1>0, <1>1, <1>2, <1>3, GoogHashTrue, NoSumsDeclared
<1>5. s.blob = GcsBlob(q) /\ s.upload = upload
  BY DEF GcsXmlUpload
<1> HIDE DEF s
<1>6. Truthful(s.blob, s.upload) /\ s.blob.bytes = q.body
  BY <1>5, GcsBlobKept
<1>7. Unmet(q, s) = {}
  BY <1>0, <1>4, <1>6, ClaimsMet
<1> QED BY <1>6, <1>7 DEF Kept, s

\* GCS JSON uploads.
LEMMA JsonKept ==
    ASSUME SumInv, NEW q \in SumRequests, q.op = "json", GcsJsonUpload(q).code = "ok"
    PROVE  Kept(q, GcsJsonUpload(q))
<1> DEFINE s == GcsJsonUpload(q)
<1>0. q.door = "gcs" /\ q.size = <<>> /\ q.md5 = <<>> /\ \A a \in Algorithms : q.sums[a] = <<>>
  BY Fields DEF Sensible
<1>1. s.blob = GcsBlob(q) /\ s.upload = upload /\ GoogHash(q, {"CRC32C"}) = "ok"
  BY DEF GcsJsonUpload, JsonHash
<1> HIDE DEF s
<1>2. ToSet(q.md5) = {} BY <1>0 DEF ToSet
<1>3. \A d \in Declared(q) : d = Digest(d.algorithm, q.body)
  BY <1>0, <1>1, <1>2, GoogHashTrue, NoSumsDeclared
<1>4. Truthful(s.blob, s.upload) /\ s.blob.bytes = q.body
  BY <1>1, GcsBlobKept
<1>5. Unmet(q, s) = {}
  BY <1>0, <1>3, <1>4, ClaimsMet
<1> QED BY <1>4, <1>5 DEF Kept, s

\* A header of one value at most, that is the digest of the body when it is there.
LEMMA OneTrue ==
    ASSUME NEW values \in Header, Len(values) <= 1, NEW a, NEW body, values # <<>> => values[1] = Digest(a, body)
    PROVE  \A d \in ToSet(values) : d = Digest(d.algorithm, body)
<1>1. ToSet(values) \subseteq {values[1]} /\ (values = <<>> => ToSet(values) = {})
  BY DEF ToSet, Header
<1>2. Digest(a, body).algorithm = a
  BY DEF Digest
<1> QED BY <1>1, <1>2

\* Two checks before a list of checks.
LEMMA TwoBefore ==
    ASSUME NEW c1, NEW c2, NEW S, NEW t \in Seq(S)
    PROVE  /\ DOMAIN (<<c1, c2>> \o t) = 1 .. Len(t) + 2
           /\ (<<c1, c2>> \o t)[1] = c1 /\ (<<c1, c2>> \o t)[2] = c2
           /\ \A i \in 1 .. Len(t) : (<<c1, c2>> \o t)[i + 2] = t[i]
<1>1. /\ DOMAIN (<<c1, c2>> \o t) = 1 .. Len(t) + 2
      /\ (<<c1, c2>> \o t)[1] = c1 /\ (<<c1, c2>> \o t)[2] = c2
  OBVIOUS
<1>2. ASSUME NEW i \in 1 .. Len(t) PROVE (<<c1, c2>> \o t)[i + 2] = t[i]
  OBVIOUS
<1> QED BY <1>1, <1>2

\* OCI: the MD5 and the digest of the named algorithm are those of the body.
LEMMA OciTrue ==
    ASSUME NEW q \in SumRequests, q.op \in {"ociPut", "ociPart"}, OciVerdict(q) = "ok"
    PROVE  q.size = <<>> /\ \A d \in Declared(q) : d = Digest(d.algorithm, q.body)
<1>0. /\ q.door = "oci" /\ q.hash = <<>> /\ q.size = <<>> /\ Len(q.md5) <= 1 /\ Len(q.selector) <= 1
      /\ \A a \in Algorithms : Len(q.sums[a]) <= 1
  BY Fields DEF Sensible
<1> DEFINE v == q.selector
           d1 == Unless("UnmatchedContentMD5", q.md5 # <<>> /\ q.md5[1] # Digest("MD5", q.body))
           d2 == Unless("InvalidParameter", v # <<>> /\ v[1] \notin {"CRC32C", "SHA256"})
           named(i) == Unless("UnmatchedContent", q.sums[v[i]] # <<>> /\ q.sums[v[i]][1] # Digest(v[i], q.body))
           tail == [i \in DOMAIN v |-> named(i)]
           codes == <<d1, d2>> \o tail
<1>1. FirstOf(codes) = "ok"
  BY DEF OciVerdict
<1>2. v \in Seq(STRING) /\ Len(v) \in Nat /\ DOMAIN v = 1 .. Len(v)
  BY Fields
<1> HIDE DEF v, named, d1, d2
<1>3. tail \in Seq({named(i) : i \in DOMAIN v}) /\ Len(tail) = Len(v) /\ \A i \in DOMAIN v : tail[i] = named(i)
  BY <1>2
<1> HIDE DEF tail
<1>4. /\ DOMAIN codes = 1 .. Len(v) + 2 /\ codes[1] = d1 /\ codes[2] = d2
      /\ \A i \in DOMAIN v : codes[i + 2] = named(i)
  <2>1. /\ DOMAIN codes = 1 .. Len(tail) + 2 /\ codes[1] = d1 /\ codes[2] = d2
        /\ \A i \in 1 .. Len(tail) : codes[i + 2] = tail[i]
    BY <1>3, TwoBefore
  <2> QED BY <1>2, <1>3, <2>1
<1> HIDE DEF codes
<1>5. \A j \in DOMAIN codes : codes[j] = "ok"
  <2>1. DOMAIN codes \subseteq Nat BY <1>2, <1>4
  <2> QED BY <1>1, <2>1, AllPassed
<1>6. d1 = "ok" /\ d2 = "ok" /\ \A i \in DOMAIN v : named(i) = "ok"
  <2>1. 1 \in DOMAIN codes /\ 2 \in DOMAIN codes /\ \A i \in DOMAIN v : i + 2 \in DOMAIN codes
    BY <1>2, <1>4
  <2> QED BY <1>4, <1>5, <2>1
<1>7. \A d \in ToSet(q.md5) : d = Digest(d.algorithm, q.body)
  <2>1. q.md5 # <<>> => q.md5[1] = Digest("MD5", q.body) BY <1>6 DEF d1, Unless
  <2>2. q.md5 \in Header BY Fields
  <2> QED BY <1>0, <2>1, <2>2, OneTrue
<1>8. ASSUME NEW a \in ToSet(v), NEW d \in ToSet(q.sums[a]) PROVE d = Digest(d.algorithm, q.body)
  <2>1. DOMAIN v = {1} /\ a = v[1]
    <3>1. Len(v) <= 1 BY <1>0 DEF v
    <3>2. PICK i \in DOMAIN v : a = v[i] BY DEF ToSet
    <3> QED BY <1>2, <3>1, <3>2
  <2>2. a \in {"CRC32C", "SHA256"}
    <3>0. v = <<>> => DOMAIN v = {} OBVIOUS
    <3>1. v # <<>> BY <2>1, <3>0
    <3> QED BY <3>1, <2>1, <1>6 DEF d2, Unless
  <2>3. a \in Algorithms BY <2>2, ChecksumAssumption
  <2>4. q.sums[a] # <<>> => q.sums[a][1] = Digest(a, q.body)
    BY <1>6, <2>1 DEF named, Unless
  <2>5. q.sums[a] \in Header BY <2>3, Fields
  <2> QED BY <1>0, <2>3, <2>4, <2>5, OneTrue
<1>9. ToSet(q.hash) = {} BY <1>0 DEF ToSet
<1> QED BY <1>0, <1>7, <1>8, <1>9 DEF Declared, v

\* OCI PutObject.
LEMMA OciPutKept ==
    ASSUME SumInv, NEW q \in SumRequests, q.op = "ociPut", OciPut(q).code = "ok"
    PROVE  Kept(q, OciPut(q))
<1> DEFINE s == OciPut(q)
           sums == {Digest(a, q.body) : a \in {"MD5"} \cup ToSet(q.selector)}
<1>1. OciVerdict(q) = "ok" /\ s.upload = upload /\ s.blob = [NewBlob(q.body, "oci") EXCEPT !.oci = sums]
  BY DEF OciPut
<1>2. \A d \in sums : \E a : d = Digest(a, q.body)
  OBVIOUS
<1> HIDE DEF s, sums
<1>3. DOMAIN s.blob = DOMAIN NoBlob /\ s.blob.bytes = q.body /\ s.blob.by = "oci" /\ s.blob.oci = sums
  BY <1>1 DEF NewBlob, NoBlob
<1>4. ReceiptsOf(s.blob) \subseteq sums BY <1>3 DEF ReceiptsOf
<1>5. Truthful(s.blob, s.upload)
  <2>1. \A d \in sums : \E a : d = Digest(a, s.blob.bytes) BY <1>2, <1>3
  <2>2. Truthful(s.blob, upload) BY <1>3, <1>4, <2>1, BlobKept DEF SumInv
  <2> QED BY <1>1, <2>2
<1>6. Unmet(q, s) = {}
  BY <1>1, <1>3, OciTrue, ClaimsMet
<1> QED BY <1>5, <1>6 DEF Kept, s

\* OCI UploadPart.
LEMMA OciPartKept ==
    ASSUME SumInv, NEW q \in SumRequests, q.op = "ociPart", OciUploadPart(q).code = "ok"
    PROVE  Kept(q, OciUploadPart(q))
<1> DEFINE s == OciUploadPart(q)
<1>1. OciVerdict(q) = "ok"
  <2>1. FirstOf(<<OciVerdict(q), Unless("NoSuchUpload", ~upload.open)>>) = "ok" BY DEF OciUploadPart
  <2> QED BY <2>1, AllPassed2
<1>2. s.blob = blob /\ s.upload = WithPart(q.part, q.body)
  BY DEF OciUploadPart
<1> HIDE DEF s
<1>3. Truthful(s.blob, s.upload) /\ s.upload.parts[q.part].bytes = q.body
  BY <1>2, PartKept DEF SumInv
<1>4. Unmet(q, s) = {}
  BY <1>1, <1>3, OciTrue, ClaimsMet
<1> QED BY <1>3, <1>4 DEF Kept, s

\* Azure Put Blob.
LEMMA AzurePutKept ==
    ASSUME SumInv, NEW q \in SumRequests, q.op = "azurePut", AzurePut(q).code = "ok"
    PROVE  Kept(q, AzurePut(q))
<1> DEFINE s == AzurePut(q)
           kind == IF q.body = <<>> THEN "append" ELSE "block"
<1>0. /\ q.door = "azure" /\ q.hash = <<>> /\ q.size = <<>> /\ Len(q.md5) <= 1
      /\ \A a \in Algorithms : q.sums[a] = <<>>
  BY Fields DEF Sensible
<1>1. Transactional(q) = "ok" /\ s.upload = upload /\ s.blob = [NewBlob(q.body, "azure") EXCEPT !.kind = kind]
  BY DEF AzurePut
<1> HIDE DEF s, kind
<1>2. DOMAIN s.blob = DOMAIN NoBlob /\ s.blob.bytes = q.body /\ s.blob.by = "azure"
  BY <1>1 DEF NewBlob, NoBlob
<1>3. ReceiptsOf(s.blob) \subseteq {} BY <1>2 DEF ReceiptsOf
<1>4. Truthful(s.blob, s.upload)
  BY <1>1, <1>2, <1>3, BlobKept DEF SumInv
<1>5. \A d \in ToSet(q.md5) : d = Digest(d.algorithm, q.body)
  <2>1. q.md5 # <<>> => q.md5[1] = Digest("MD5", q.body) BY <1>1 DEF Transactional, Unless
  <2>2. q.md5 \in Header BY Fields
  <2> QED BY <1>0, <2>1, <2>2, OneTrue
<1>6. ToSet(q.hash) = {} BY <1>0 DEF ToSet
<1>7. \A d \in Declared(q) : d = Digest(d.algorithm, q.body)
  BY <1>0, <1>5, <1>6, NoSumsDeclared
<1>8. Unmet(q, s) = {}
  BY <1>0, <1>2, <1>7, ClaimsMet
<1> QED BY <1>4, <1>8 DEF Kept, s

\* Azure Append Block.
LEMMA AppendKept ==
    ASSUME SumInv, NEW q \in SumRequests, q.op = "append"
    PROVE  Kept(q, AzureAppend(q))
<1> DEFINE s == AzureAppend(q)
           bytes == blob.bytes \o q.body
<1>1. s.upload = upload /\ s.blob = [blob EXCEPT !.bytes = bytes, !.by = "azure"]
  BY DEF AzureAppend
<1> HIDE DEF s, bytes
<1>2. DOMAIN s.blob = DOMAIN NoBlob /\ s.blob.by = "azure"
  BY <1>1 DEF SumInv, Truthful, NoBlob
<1>3. ReceiptsOf(s.blob) \subseteq {} BY <1>2 DEF ReceiptsOf
<1>4. Truthful(s.blob, s.upload)
  BY <1>1, <1>2, <1>3, BlobKept DEF SumInv
<1>5. Unmet(q, s) = {}
  BY DEF Unmet
<1> QED BY <1>4, <1>5 DEF Kept, s

\* Every served request keeps the digests true and meets its claims.
LEMMA ServedKept ==
    ASSUME SumInv, NEW q \in SumRequests, Served(q).code = "ok"
    PROVE  Kept(q, Served(q))
<1>0. q.op \in {"put", "part", "initiate", "copy", "append", "complete", "xml", "json", "ociPut", "ociPart", "azurePut"}
  BY Fields DEF Sensible
<1>1. CASE q.op = "put" BY <1>1, PutKept DEF Served
<1>2. CASE q.op = "part" BY <1>2, UploadPartKept DEF Served
<1>3. CASE q.op = "initiate" BY <1>3, InitiateKept DEF Served
<1>4. CASE q.op = "copy" BY <1>4, CopyKept DEF Served
<1>5. CASE q.op = "append" BY <1>5, AppendKept DEF Served
<1>6. CASE q.op = "complete" BY <1>6, CompleteKept DEF Served
<1>7. CASE q.op = "xml" BY <1>7, XmlKept DEF Served
<1>8. CASE q.op = "json" BY <1>8, JsonKept DEF Served
<1>9. CASE q.op = "ociPut" BY <1>9, OciPutKept DEF Served
<1>10. CASE q.op = "ociPart" BY <1>10, OciPartKept DEF Served
<1>11. CASE q.op = "azurePut" BY <1>11, AzurePutKept DEF Served
<1> QED BY <1>0, <1>1, <1>2, <1>3, <1>4, <1>5, <1>6, <1>7, <1>8, <1>9, <1>10, <1>11

\* Every request, served or refused, keeps the invariant.
LEMMA SumsNext == SumInv /\ [ChecksumNext]_sumVars => SumInv'
<1> SUFFICES ASSUME SumInv, [ChecksumNext]_sumVars PROVE SumInv'
  OBVIOUS
<1>1. CASE UNCHANGED sumVars
  BY <1>1 DEF sumVars, SumInv, Truthful, ReceiptsOf
<1>2. ASSUME NEW q \in SumRequests, UploadRequest(q) PROVE SumInv'
  <2>1. CASE Served(q).code = "ok"
    <3>1. blob' = Served(q).blob /\ upload' = Served(q).upload /\ unmet' = Unmet(q, Served(q))
      BY <1>2, <2>1 DEF UploadRequest
    <3>2. Kept(q, Served(q)) BY <2>1, ServedKept
    <3> QED BY <3>1, <3>2 DEF Kept, SumInv, Truthful, ReceiptsOf
  <2>2. CASE Served(q).code # "ok"
    <3>1. blob' = blob /\ upload' = upload /\ unmet' = {}
      BY <1>2, <2>2 DEF UploadRequest
    <3> QED BY <3>1 DEF SumInv, Truthful, ReceiptsOf
  <2> QED BY <2>1, <2>2
<1> QED BY <1>1, <1>2 DEF ChecksumNext

\* Whatever uploads, parts, copies and completions arrive through whatever doors, an upload that is accepted has
\* stored bytes with every digest and the size that it declared, a door gives out only true digests for what it wrote,
\* and every part of an upload with checksums has the digest of its bytes.
THEOREM ChecksumsAreHonoured == ChecksumInit /\ [][ChecksumNext]_sumVars => []ChecksumsHonoured
<1>1. ChecksumInit => SumInv
  <2> SUFFICES ASSUME ChecksumInit PROVE SumInv
    OBVIOUS
  <2>1. DOMAIN blob = {"bytes", "kind", "s3", "gcs", "oci", "by"} /\ ReceiptsOf(blob) = {}
    BY DEF ChecksumInit, NoBlob, ReceiptsOf
  <2>2. DOMAIN upload = {"open", "enabled", "parts"} /\ ~upload.enabled
    BY DEF ChecksumInit, NoUpload
  <2> QED BY <2>1, <2>2 DEF ChecksumInit, SumInv, Truthful
<1>2. SumInv => ChecksumsHonoured
  BY DEF SumInv, Truthful, ReceiptsOf, Receipts, ChecksumsHonoured
<1> QED BY <1>1, <1>2, SumsNext, PTL
=============================================================================
