---------------------------- MODULE BucketsProofs ----------------------------
(* The protection proof, the identity of a bucket and what startup refuses,   *)
(* for any keys, metadata values and numbers of errors and crashes.           *)
EXTENDS MCBuckets, TLAPS

\* A process that is not serving remembers nothing and runs nothing.
DownOK == store # "up" =>
  pc = "idle" /\ cfg = "idle" /\ proof = "unknown" /\ \A k \in Key : op[k] = Idle

\* Nothing is stored without the directory.
DirOK == "dir" \notin files => files = {} /\ \A k \in Key : ~Stored(k)

\* Until protection is admitted no object has it, and no mutation brings it.
ProofOK == store = "up" /\ proof # "possible" =>
  \A k \in Key : cur[k] # "held" /\ (op[k] # Idle => op[k].v # "held")

\* How far a creation is, and that a bucket is known to clients only once named
\* and identified.
NameOK ==
  /\ acked => {"dir", "name", "identity"} \subseteq files
  /\ seen # NotSeen => {"dir", "identity"} \subseteq files /\ ident.created = seen.created
  /\ pc = "name" => "dir" \in files /\ "identity" \notin files
  /\ pc = "identity" => {"dir", "name"} \subseteq files
  /\ pc = "finish" => {"dir", "name", "identity"} \subseteq files
  /\ pc = "derive" => {"dir", "name"} \subseteq files /\ "identity" \notin files
  /\ pc \in {"metadata", "restamp"} => {"dir", "identity"} \subseteq files
  /\ pc \in {"name", "identity", "remove"} => ~acked /\ seen = NotSeen

\* Under the gate one operation runs at a time, on a directory that exists.
GateOK == Gated =>
  /\ pc # "idle" => cfg = "idle" /\ \A k \in Key : op[k] = Idle
  /\ cfg # "idle" => "dir" \in files /\ \A k \in Key : op[k] = Idle
  /\ \A k \in Key : op[k] # Idle => "dir" \in files
  /\ pc \in {"name", "identity", "finish", "remove"} => \A k \in Key : ~Stored(k)

\* A directory without a name is being made or removed, or was damaged.
DamageOK == Gated =>
  /\ Nameless /\ pc \notin {"name", "remove"} => damage # {} \/ (store # "up" /\ Uncommitted)
  /\ pc = "name" => Uncommitted
  /\ pc \in {"metadata", "restamp"} => ~Nameless \/ damage # {}
  /\ store = "refused" => Nameless /\ ~Uncommitted

IInv == TypeOK /\ DownOK /\ DirOK /\ ProofOK /\ NameOK /\ GateOK /\ DamageOK

\* The invariant holds of an empty root and of a bucket of an older build.
LEMMA InitInv == Init => IInv
<1> SUFFICES ASSUME Init PROVE IInv
  OBVIOUS
<1> USE BucketsAssumption
<1>1. TypeOK
  <2>1. files \subseteq File
    BY DEF Init, File, Control
  <2>2. op \in [Key -> [kind : {"idle", "put", "replace", "promote"}, v : Value]]
    BY DEF Init, Idle, Value
  <2>3. errors \in 0..MaxErrors /\ crashes \in 0..MaxCrashes
    BY DEF Init
  <2> QED
    BY <2>1, <2>2, <2>3 DEF Init, TypeOK, NotSeen, NoIdentity
<1>2. DownOK /\ DirOK /\ ProofOK /\ NameOK
  BY DEF Init, DownOK, DirOK, ProofOK, NameOK, Stored, Idle, NotSeen
<1>3. GateOK /\ DamageOK
  BY DEF Init, GateOK, DamageOK, Nameless, Uncommitted, Stored, Idle
<1> QED
  BY <1>1, <1>2, <1>3 DEF IInv

\* Every step keeps the types.
LEMMA NextType == TypeOK /\ [Next]_vars => TypeOK'
<1> SUFFICES ASSUME TypeOK, [Next]_vars PROVE TypeOK'
  OBVIOUS
<1> USE BucketsAssumption
<1>1. CASE UNCHANGED vars
  BY <1>1 DEF vars, TypeOK
<1>2. CASE \E out \in Outcomes : CreateBucket(out)
  <2>1. PICK out \in Outcomes : CreateBucket(out)
    BY <1>2
  <2>2. errors' \in 0..MaxErrors
    BY <2>1 DEF CreateBucket, Outcome, TypeOK
  <2>3. files' \subseteq File
    BY <2>1 DEF CreateBucket, TypeOK, File, Control, Sidecar, history, bounds, control
  <2> QED
    BY <2>1, <2>2, <2>3 DEF TypeOK, NoIdentity, CreateBucket, Written, durable, control, bounds, history
<1>3. CASE \E out \in Outcomes : WriteName(out)
  <2>1. PICK out \in Outcomes : WriteName(out)
    BY <1>3
  <2>2. errors' \in 0..MaxErrors
    BY <2>1 DEF WriteName, Outcome, TypeOK
  <2>3. files' \subseteq File
    BY <2>1 DEF WriteName, TypeOK, File, Control, Sidecar, history, bounds, control
  <2> QED
    BY <2>1, <2>2, <2>3 DEF TypeOK, NoIdentity, WriteName, Written, durable, control, bounds, history
<1>4. CASE \E out \in Outcomes : WriteIdentity(out)
  <2>1. PICK out \in Outcomes : WriteIdentity(out)
    BY <1>4
  <2>2. errors' \in 0..MaxErrors
    BY <2>1 DEF WriteIdentity, Outcome, TypeOK
  <2>3. files' \subseteq File
    BY <2>1 DEF WriteIdentity, TypeOK, File, Control, Sidecar, history, bounds, control
  <2> QED
    BY <2>1, <2>2, <2>3 DEF TypeOK, NoIdentity, WriteIdentity, Written, durable, control, bounds, history
<1>5. CASE FinishCreate
  BY <1>5 DEF TypeOK, File, Control, Temporary, Sidecar, Value, Idle, NotSeen, NoIdentity, FinishCreate,
     durable, control, bounds, history
<1>6. CASE DeleteBucket
  BY <1>6 DEF TypeOK, File, Control, Temporary, Sidecar, Value, Idle, NotSeen, NoIdentity, DeleteBucket,
     OnlyControl, durable, control, bounds, history
<1>7. CASE \E f \in File : RemoveFile(f)
  BY <1>7 DEF TypeOK, File, Control, Temporary, Sidecar, Value, Idle, NotSeen, NoIdentity, RemoveFile, durable,
     control, bounds, history
<1>8. CASE \E k \in Key : RemoveObject(k)
  BY <1>8 DEF TypeOK, File, Control, Temporary, Sidecar, Value, Idle, NotSeen, NoIdentity, RemoveObject,
     durable, control, bounds, history
<1>9. CASE RemoveDirectory
  BY <1>9 DEF TypeOK, File, Control, Temporary, Sidecar, Value, Idle, NotSeen, NoIdentity, RemoveDirectory,
     durable, control, bounds, history
<1>10. CASE RemoveFails
  BY <1>10 DEF TypeOK, File, Control, Temporary, Sidecar, Value, Idle, NotSeen, NoIdentity, RemoveFails,
     durable, control, bounds, history
<1>11. CASE \E x \in Metadata \cup {"read", "touch"} : ReadIdentity(x)
  BY <1>11 DEF TypeOK, File, Control, Temporary, Sidecar, Value, Idle, NotSeen, NoIdentity, ReadIdentity,
     Proceed, durable, control, bounds, history
<1>12. CASE \E out \in Outcomes : DeriveIdentity(out)
  BY <1>12 DEF TypeOK, File, Control, Temporary, Sidecar, Value, Idle, NotSeen, NoIdentity, DeriveIdentity,
     Proceed, Outcome, Written, Outcomes, durable, control, bounds, history
<1>13. CASE \E out \in Outcomes : WriteMetadata(out)
  <2>1. PICK out \in Outcomes : WriteMetadata(out)
    BY <1>13
  <2>2. errors' \in 0..MaxErrors
    BY <2>1 DEF WriteMetadata, Outcome, TypeOK
  <2>3. files' \subseteq File
    BY <2>1 DEF WriteMetadata, TypeOK, File, Control, Sidecar, history, bounds, control
  <2> QED
    BY <2>1, <2>2, <2>3 DEF TypeOK, NoIdentity, WriteMetadata, Written, durable, control, bounds, history
<1>14. CASE \E out \in Outcomes : Restamp(out)
  BY <1>14 DEF TypeOK, File, Control, Temporary, Sidecar, Value, Idle, NotSeen, NoIdentity, Restamp, Outcome,
     Written, Outcomes, durable, control, bounds, history
<1>15. CASE \E f \in Sidecar : PutConfig(f)
  BY <1>15 DEF TypeOK, File, Control, Temporary, Sidecar, Value, Idle, NotSeen, NoIdentity, PutConfig, durable,
     control, bounds, history
<1>16. CASE \E out \in Outcomes : WriteConfig(out)
  <2>1. PICK out \in Outcomes : WriteConfig(out)
    BY <1>16
  <2>2. errors' \in 0..MaxErrors
    BY <2>1 DEF WriteConfig, Outcome, TypeOK
  <2>3. files' \subseteq File
    BY <2>1 DEF WriteConfig, TypeOK, File, Control, Sidecar, history, bounds, control
  <2> QED
    BY <2>1, <2>2, <2>3 DEF TypeOK, NoIdentity, WriteConfig, Written, durable, control, bounds, history
<1>17. CASE DropConfig
  BY <1>17 DEF TypeOK, File, Control, Temporary, Sidecar, Value, Idle, NotSeen, NoIdentity, DropConfig,
     durable, control, bounds, history
<1>18. CASE \E k \in Key, v \in Value : PutObject(k, v)
  BY <1>18 DEF TypeOK, File, Control, Temporary, Sidecar, Value, Idle, NotSeen, NoIdentity, PutObject,
     StartObject, Admit, durable, control, bounds, history
<1>19. CASE \E k \in Key, v \in Value : ReplaceMetadata(k, v)
  BY <1>19 DEF TypeOK, File, Control, Temporary, Sidecar, Value, Idle, NotSeen, NoIdentity, ReplaceMetadata,
     StartObject, Admit, durable, control, bounds, history
<1>20. CASE \E k \in Key, v \in Value : DeleteVersion(k, v)
  BY <1>20 DEF TypeOK, File, Control, Temporary, Sidecar, Value, Idle, NotSeen, NoIdentity, DeleteVersion,
     StartObject, Admit, durable, control, bounds, history
<1>21. CASE \E k \in Key, out \in Outcomes : PublishObject(k, out)
  <2>1. PICK k \in Key, out \in Outcomes : PublishObject(k, out)
    BY <1>21
  <2>2. errors' \in 0..MaxErrors
    BY <2>1 DEF PublishObject, Outcome, TypeOK
  <2>3. files' \subseteq File
    BY <2>1 DEF PublishObject, TypeOK, File
  <2>4. op' \in [Key -> [kind : {"idle", "put", "replace", "promote"}, v : Value]]
    BY <2>1 DEF PublishObject, TypeOK, Idle, Value
  <2>5. Kept(k) \subseteq Value
    BY <2>1 DEF Kept, TypeOK, Value
  <2>6. cur' \in [Key -> Value \cup {"none"}] /\ hist' \in [Key -> SUBSET Value]
    BY <2>1, <2>5 DEF PublishObject, TypeOK
  <2> QED
    BY <2>1, <2>2, <2>3, <2>4, <2>6 DEF PublishObject, TypeOK, history
<1>22. CASE \E k \in Key, out \in Outcomes : DeleteObject(k, out)
  BY <1>22 DEF TypeOK, File, Control, Temporary, Sidecar, Value, Idle, NotSeen, NoIdentity, DeleteObject, Kept,
     Outcome, Written, Outcomes, durable, control, bounds, history
<1>23. CASE \E k \in Key, out \in Outcomes : DeleteHistory(k, out)
  BY <1>23 DEF TypeOK, File, Control, Temporary, Sidecar, Value, Idle, NotSeen, NoIdentity, DeleteHistory,
     Outcome, Written, Outcomes, durable, control, bounds, history
<1>24. CASE Crash
  <2>1. files' \subseteq File
    BY <1>24 DEF Crash, TypeOK, File, Temporary
  <2>2. op' \in [Key -> [kind : {"idle", "put", "replace", "promote"}, v : Value]]
    BY <1>24 DEF Crash, Idle, Value
  <2>3. crashes' \in 0..MaxCrashes /\ damage' \subseteq {"nameless", "removal"}
    BY <1>24 DEF Crash, TypeOK
  <2> QED
    BY <1>24, <2>1, <2>2, <2>3 DEF Crash, TypeOK
<1>25. CASE RecoverNameless
  <2>1. \/ files' = {} /\ damage' = {} /\ store' = store
        \/ files' = files /\ damage' = damage /\ store' = "refused"
    BY <1>25, Zenon DEF RecoverNameless
  <2>2. UNCHANGED <<born, ident, meta, cur, hist, proof, control, bounds, acked, seen>>
    BY <1>25, Zenon DEF RecoverNameless
  <2>3. files' \subseteq File /\ damage' \subseteq {"nameless", "removal"}
    BY <2>1 DEF TypeOK
  <2>4. store' \in {"up", "down", "refused"}
    BY <2>1 DEF TypeOK
  <2> QED
    BY <2>2, <2>3, <2>4 DEF TypeOK, control, bounds
<1>26. CASE Open
  BY <1>26 DEF TypeOK, File, Control, Temporary, Sidecar, Value, Idle, NotSeen, NoIdentity, Open, Nameless,
     durable, control, bounds, history
<1> QED
  BY <1>1, <1>2, <1>3, <1>4, <1>5, <1>6, <1>7, <1>8, <1>9, <1>10, <1>11, <1>12, <1>13, <1>14, <1>15, <1>16,
     <1>17, <1>18, <1>19, <1>20, <1>21, <1>22, <1>23, <1>24, <1>25, <1>26 DEF Next, BucketStep, ConfigStep,
     ObjectStep

\* Every step keeps the invariant, one case per action and part.
LEMMA NextInv == IInv /\ [Next]_vars => IInv'
<1> SUFFICES ASSUME IInv, [Next]_vars PROVE IInv'
  OBVIOUS
<1>t. TypeOK /\ TypeOK'
  BY NextType DEF IInv
<1> USE BucketsAssumption
<1>1. CASE UNCHANGED vars
  BY <1>1, <1>t DEF IInv, vars, durable, control, bounds, history, Stored, Nameless, Uncommitted, DownOK,
     DirOK, ProofOK, NameOK, NotSeen, GateOK, Free, DamageOK
<1>2. CASE \E out \in Outcomes : CreateBucket(out)
  <2>1. DownOK'
    BY <1>2, <1>t DEF IInv, TypeOK, DownOK, CreateBucket, Outcome, Written, Outcomes, durable, control, bounds,
       history
  <2>2. DirOK'
    BY <1>2, <1>t DEF IInv, TypeOK, DirOK, Stored, CreateBucket, Outcome, Written, Outcomes, durable, control,
       bounds, history
  <2>3. ProofOK'
    BY <1>2, <1>t DEF IInv, TypeOK, ProofOK, CreateBucket, Outcome, Written, Outcomes, durable, control,
       bounds, history
  <2>4. NameOK'
    BY <1>2, <1>t DEF IInv, TypeOK, NameOK, NotSeen, CreateBucket, Outcome, Written, Outcomes, durable,
       control, bounds, history
  <2>5. GateOK'
    BY <1>2, <1>t DEF IInv, TypeOK, GateOK, Stored, Free, DownOK, DirOK, Idle, CreateBucket, Outcome, Written,
       Outcomes, durable, control, bounds, history
  <2>6. DamageOK'
    BY <1>2, <1>t DEF IInv, TypeOK, DamageOK, Nameless, Uncommitted, Stored, Free, DownOK, DirOK, Idle,
       CreateBucket, Outcome, Written, Outcomes, durable, control, bounds, history
  <2> QED
    BY <1>t, <2>1, <2>2, <2>3, <2>4, <2>5, <2>6 DEF IInv
<1>3. CASE \E out \in Outcomes : WriteName(out)
  <2>1. DownOK'
    BY <1>3, <1>t DEF IInv, TypeOK, DownOK, WriteName, Outcome, Written, Outcomes, durable, control, bounds,
       history
  <2>2. DirOK'
    BY <1>3, <1>t DEF IInv, TypeOK, DirOK, Stored, DownOK, NameOK, GateOK, Free, Idle, WriteName, Outcome,
       Written, Outcomes, durable, control, bounds, history
  <2>3. ProofOK'
    BY <1>3, <1>t DEF IInv, TypeOK, ProofOK, WriteName, Outcome, Written, Outcomes, durable, control, bounds,
       history
  <2>4. NameOK'
    BY <1>3, <1>t DEF IInv, TypeOK, NameOK, NotSeen, WriteName, Outcome, Written, Outcomes, durable, control,
       bounds, history
  <2>5. GateOK'
    BY <1>3, <1>t DEF IInv, TypeOK, GateOK, Stored, Free, WriteName, Outcome, Written, Outcomes, durable,
       control, bounds, history
  <2>6. DamageOK'
    BY <1>3, <1>t DEF IInv, TypeOK, DamageOK, Nameless, Uncommitted, Stored, Free, WriteName, Outcome, Written,
       Outcomes, durable, control, bounds, history
  <2> QED
    BY <1>t, <2>1, <2>2, <2>3, <2>4, <2>5, <2>6 DEF IInv
<1>4. CASE \E out \in Outcomes : WriteIdentity(out)
  <2>1. DownOK'
    BY <1>4, <1>t DEF IInv, TypeOK, DownOK, WriteIdentity, Outcome, Written, Outcomes, durable, control,
       bounds, history
  <2>2. DirOK'
    BY <1>4, <1>t DEF IInv, TypeOK, DirOK, Stored, DownOK, NameOK, GateOK, Free, Idle, WriteIdentity, Outcome,
       Written, Outcomes, durable, control, bounds, history
  <2>3. ProofOK'
    BY <1>4, <1>t DEF IInv, TypeOK, ProofOK, WriteIdentity, Outcome, Written, Outcomes, durable, control,
       bounds, history
  <2>4. NameOK'
    BY <1>4, <1>t DEF IInv, TypeOK, NameOK, NotSeen, WriteIdentity, Outcome, Written, Outcomes, durable,
       control, bounds, history
  <2>5. GateOK'
    BY <1>4, <1>t DEF IInv, TypeOK, GateOK, Stored, Free, WriteIdentity, Outcome, Written, Outcomes, durable,
       control, bounds, history
  <2>6. DamageOK'
    BY <1>4, <1>t DEF IInv, TypeOK, DamageOK, Nameless, Uncommitted, Stored, Free, DownOK, DirOK, Idle,
       WriteIdentity, Outcome, Written, Outcomes, durable, control, bounds, history
  <2> QED
    BY <1>t, <2>1, <2>2, <2>3, <2>4, <2>5, <2>6 DEF IInv
<1>5. CASE FinishCreate
  <2>1. DownOK'
    BY <1>5, <1>t DEF IInv, TypeOK, DownOK, FinishCreate, durable, control, bounds, history
  <2>2. DirOK'
    BY <1>5, <1>t DEF IInv, TypeOK, DirOK, Stored, FinishCreate, durable, control, bounds, history
  <2>3. ProofOK'
    BY <1>5, <1>t DEF IInv, TypeOK, ProofOK, FinishCreate, durable, control, bounds, history
  <2>4. NameOK'
    BY <1>5, <1>t DEF IInv, TypeOK, NameOK, NotSeen, FinishCreate, durable, control, bounds, history
  <2>5. GateOK'
    BY <1>5, <1>t DEF IInv, TypeOK, GateOK, Stored, Free, FinishCreate, durable, control, bounds, history
  <2>6. DamageOK'
    BY <1>5, <1>t DEF IInv, TypeOK, DamageOK, Nameless, Uncommitted, Stored, Free, FinishCreate, durable,
       control, bounds, history
  <2> QED
    BY <1>t, <2>1, <2>2, <2>3, <2>4, <2>5, <2>6 DEF IInv
<1>6. CASE DeleteBucket
  <2>1. DownOK'
    BY <1>6, <1>t DEF IInv, TypeOK, DownOK, DeleteBucket, OnlyControl, durable, control, bounds, history
  <2>2. DirOK'
    BY <1>6, <1>t DEF IInv, TypeOK, DirOK, Stored, DeleteBucket, OnlyControl, durable, control, bounds, history
  <2>3. ProofOK'
    BY <1>6, <1>t DEF IInv, TypeOK, ProofOK, DeleteBucket, OnlyControl, durable, control, bounds, history
  <2>4. NameOK'
    BY <1>6, <1>t DEF IInv, TypeOK, NameOK, NotSeen, DeleteBucket, OnlyControl, durable, control, bounds,
       history
  <2>5. GateOK'
    BY <1>6, <1>t DEF IInv, TypeOK, GateOK, Stored, Free, DeleteBucket, OnlyControl, durable, control, bounds,
       history
  <2>6. DamageOK'
    BY <1>6, <1>t DEF IInv, TypeOK, DamageOK, Nameless, Uncommitted, Stored, Free, DeleteBucket, OnlyControl,
       durable, control, bounds, history
  <2> QED
    BY <1>t, <2>1, <2>2, <2>3, <2>4, <2>5, <2>6 DEF IInv
<1>7. CASE \E f \in File : RemoveFile(f)
  <2>1. DownOK'
    BY <1>7, <1>t DEF IInv, TypeOK, DownOK, RemoveFile, durable, control, bounds, history
  <2>2. DirOK'
    BY <1>7, <1>t DEF IInv, TypeOK, DirOK, Stored, RemoveFile, durable, control, bounds, history
  <2>3. ProofOK'
    BY <1>7, <1>t DEF IInv, TypeOK, ProofOK, RemoveFile, durable, control, bounds, history
  <2>4. NameOK'
    BY <1>7, <1>t DEF IInv, TypeOK, NameOK, NotSeen, RemoveFile, durable, control, bounds, history
  <2>5. GateOK'
    BY <1>7, <1>t DEF IInv, TypeOK, GateOK, Stored, Free, RemoveFile, durable, control, bounds, history
  <2>6. DamageOK'
    BY <1>7, <1>t DEF IInv, TypeOK, DamageOK, Nameless, Uncommitted, Stored, Free, DownOK, DirOK, Idle,
       RemoveFile, durable, control, bounds, history
  <2> QED
    BY <1>t, <2>1, <2>2, <2>3, <2>4, <2>5, <2>6 DEF IInv
<1>8. CASE \E k \in Key : RemoveObject(k)
  <2>1. DownOK'
    BY <1>8, <1>t DEF IInv, TypeOK, DownOK, RemoveObject, durable, control, bounds, history
  <2>2. DirOK'
    BY <1>8, <1>t DEF IInv, TypeOK, DirOK, Stored, RemoveObject, durable, control, bounds, history
  <2>3. ProofOK'
    BY <1>8, <1>t DEF IInv, TypeOK, ProofOK, RemoveObject, durable, control, bounds, history
  <2>4. NameOK'
    BY <1>8, <1>t DEF IInv, TypeOK, NameOK, NotSeen, RemoveObject, durable, control, bounds, history
  <2>5. GateOK'
    BY <1>8, <1>t DEF IInv, TypeOK, GateOK, Stored, Free, RemoveObject, durable, control, bounds, history
  <2>6. DamageOK'
    BY <1>8, <1>t DEF IInv, TypeOK, DamageOK, Nameless, Uncommitted, Stored, Free, DownOK, DirOK, Idle,
       RemoveObject, durable, control, bounds, history
  <2> QED
    BY <1>t, <2>1, <2>2, <2>3, <2>4, <2>5, <2>6 DEF IInv
<1>9. CASE RemoveDirectory
  <2>1. DownOK'
    BY <1>9, <1>t DEF IInv, TypeOK, DownOK, RemoveDirectory, durable, control, bounds, history
  <2>2. DirOK'
    BY <1>9, <1>t DEF IInv, TypeOK, DirOK, Stored, RemoveDirectory, durable, control, bounds, history
  <2>3. ProofOK'
    BY <1>9, <1>t DEF IInv, TypeOK, ProofOK, RemoveDirectory, durable, control, bounds, history
  <2>4. NameOK'
    BY <1>9, <1>t DEF IInv, TypeOK, NameOK, NotSeen, RemoveDirectory, durable, control, bounds, history
  <2>5. GateOK'
    BY <1>9, <1>t DEF IInv, TypeOK, GateOK, Stored, Free, RemoveDirectory, durable, control, bounds, history
  <2>6. DamageOK'
    BY <1>9, <1>t DEF IInv, TypeOK, DamageOK, Nameless, Uncommitted, Stored, Free, RemoveDirectory, durable,
       control, bounds, history
  <2> QED
    BY <1>t, <2>1, <2>2, <2>3, <2>4, <2>5, <2>6 DEF IInv
<1>10. CASE RemoveFails
  <2>1. DownOK'
    BY <1>10, <1>t DEF IInv, TypeOK, DownOK, RemoveFails, durable, control, bounds, history
  <2>2. DirOK'
    BY <1>10, <1>t DEF IInv, TypeOK, DirOK, Stored, RemoveFails, durable, control, bounds, history
  <2>3. ProofOK'
    BY <1>10, <1>t DEF IInv, TypeOK, ProofOK, RemoveFails, durable, control, bounds, history
  <2>4. NameOK'
    BY <1>10, <1>t DEF IInv, TypeOK, NameOK, NotSeen, RemoveFails, durable, control, bounds, history
  <2>5. GateOK'
    BY <1>10, <1>t DEF IInv, TypeOK, GateOK, Stored, Free, RemoveFails, durable, control, bounds, history
  <2>6. DamageOK'
    BY <1>10, <1>t DEF IInv, TypeOK, DamageOK, Nameless, Uncommitted, Stored, Free, RemoveFails, durable,
       control, bounds, history
  <2> QED
    BY <1>t, <2>1, <2>2, <2>3, <2>4, <2>5, <2>6 DEF IInv
<1>11. CASE \E x \in Metadata \cup {"read", "touch"} : ReadIdentity(x)
  <2>1. DownOK'
    BY <1>11, <1>t DEF IInv, TypeOK, DownOK, ReadIdentity, Proceed, durable, control, bounds, history
  <2>2. DirOK'
    BY <1>11, <1>t DEF IInv, TypeOK, DirOK, Stored, ReadIdentity, Proceed, durable, control, bounds, history
  <2>3. ProofOK'
    BY <1>11, <1>t DEF IInv, TypeOK, ProofOK, ReadIdentity, Proceed, durable, control, bounds, history
  <2>4. NameOK'
    BY <1>11, <1>t DEF IInv, TypeOK, NameOK, NotSeen, DownOK, DirOK, Stored, Idle, ReadIdentity, Proceed,
       durable, control, bounds, history
  <2>5. GateOK'
    BY <1>11, <1>t DEF IInv, TypeOK, GateOK, Stored, Free, ReadIdentity, Proceed, durable, control, bounds,
       history
  <2>6. DamageOK'
    BY <1>11, <1>t DEF IInv, TypeOK, DamageOK, Nameless, Uncommitted, Stored, Free, ReadIdentity, Proceed,
       durable, control, bounds, history
  <2> QED
    BY <1>t, <2>1, <2>2, <2>3, <2>4, <2>5, <2>6 DEF IInv
<1>12. CASE \E out \in Outcomes : DeriveIdentity(out)
  <2>1. DownOK'
    BY <1>12, <1>t DEF IInv, TypeOK, DownOK, DeriveIdentity, Proceed, Outcome, Written, Outcomes, durable,
       control, bounds, history
  <2>2. DirOK'
    BY <1>12, <1>t DEF IInv, TypeOK, DirOK, Stored, DownOK, NameOK, GateOK, Free, Idle, DeriveIdentity,
       Proceed, Outcome, Written, Outcomes, durable, control, bounds, history
  <2>3. ProofOK'
    BY <1>12, <1>t DEF IInv, TypeOK, ProofOK, DeriveIdentity, Proceed, Outcome, Written, Outcomes, durable,
       control, bounds, history
  <2>4. NameOK'
    BY <1>12, <1>t DEF IInv, TypeOK, NameOK, NotSeen, DeriveIdentity, Proceed, Outcome, Written, Outcomes,
       durable, control, bounds, history
  <2>5. GateOK'
    BY <1>12, <1>t DEF IInv, TypeOK, GateOK, Stored, Free, DeriveIdentity, Proceed, Outcome, Written, Outcomes,
       durable, control, bounds, history
  <2>6. DamageOK'
    BY <1>12, <1>t DEF IInv, TypeOK, DamageOK, Nameless, Uncommitted, Stored, Free, DownOK, DirOK, Idle,
       DeriveIdentity, Proceed, Outcome, Written, Outcomes, durable, control, bounds, history
  <2> QED
    BY <1>t, <2>1, <2>2, <2>3, <2>4, <2>5, <2>6 DEF IInv
<1>13. CASE \E out \in Outcomes : WriteMetadata(out)
  <2>1. DownOK'
    BY <1>13, <1>t DEF IInv, TypeOK, DownOK, WriteMetadata, Outcome, Written, Outcomes, durable, control,
       bounds, history
  <2>2. DirOK'
    BY <1>13, <1>t DEF IInv, TypeOK, DirOK, Stored, DownOK, NameOK, GateOK, Free, Idle, WriteMetadata, Outcome,
       Written, Outcomes, durable, control, bounds, history
  <2>3. ProofOK'
    BY <1>13, <1>t DEF IInv, TypeOK, ProofOK, WriteMetadata, Outcome, Written, Outcomes, durable, control,
       bounds, history
  <2>4. NameOK'
    BY <1>13, <1>t DEF IInv, TypeOK, NameOK, NotSeen, WriteMetadata, Outcome, Written, Outcomes, durable,
       control, bounds, history
  <2>5. GateOK'
    BY <1>13, <1>t DEF IInv, TypeOK, GateOK, Stored, Free, WriteMetadata, Outcome, Written, Outcomes, durable,
       control, bounds, history
  <2>6. DamageOK'
    BY <1>13, <1>t DEF IInv, TypeOK, DamageOK, Nameless, Uncommitted, Stored, Free, WriteMetadata, Outcome,
       Written, Outcomes, durable, control, bounds, history
  <2> QED
    BY <1>t, <2>1, <2>2, <2>3, <2>4, <2>5, <2>6 DEF IInv
<1>14. CASE \E out \in Outcomes : Restamp(out)
  <2>1. DownOK'
    BY <1>14, <1>t DEF IInv, TypeOK, DownOK, Restamp, Outcome, Written, Outcomes, durable, control, bounds,
       history
  <2>2. DirOK'
    BY <1>14, <1>t DEF IInv, TypeOK, DirOK, Stored, Restamp, Outcome, Written, Outcomes, durable, control,
       bounds, history
  <2>3. ProofOK'
    BY <1>14, <1>t DEF IInv, TypeOK, ProofOK, Restamp, Outcome, Written, Outcomes, durable, control, bounds,
       history
  <2>4. NameOK'
    BY <1>14, <1>t DEF IInv, TypeOK, NameOK, NotSeen, Restamp, Outcome, Written, Outcomes, durable, control,
       bounds, history
  <2>5. GateOK'
    BY <1>14, <1>t DEF IInv, TypeOK, GateOK, Stored, Free, Restamp, Outcome, Written, Outcomes, durable,
       control, bounds, history
  <2>6. DamageOK'
    BY <1>14, <1>t DEF IInv, TypeOK, DamageOK, Nameless, Uncommitted, Stored, Free, Restamp, Outcome, Written,
       Outcomes, durable, control, bounds, history
  <2> QED
    BY <1>t, <2>1, <2>2, <2>3, <2>4, <2>5, <2>6 DEF IInv
<1>15. CASE \E f \in Sidecar : PutConfig(f)
  <2>1. DownOK'
    BY <1>15, <1>t DEF IInv, TypeOK, DownOK, PutConfig, durable, control, bounds, history
  <2>2. DirOK'
    BY <1>15, <1>t DEF IInv, TypeOK, DirOK, Stored, PutConfig, durable, control, bounds, history
  <2>3. ProofOK'
    BY <1>15, <1>t DEF IInv, TypeOK, ProofOK, PutConfig, durable, control, bounds, history
  <2>4. NameOK'
    BY <1>15, <1>t DEF IInv, TypeOK, NameOK, NotSeen, PutConfig, durable, control, bounds, history
  <2>5. GateOK'
    BY <1>15, <1>t DEF IInv, TypeOK, GateOK, Stored, Free, PutConfig, durable, control, bounds, history
  <2>6. DamageOK'
    BY <1>15, <1>t DEF IInv, TypeOK, DamageOK, Nameless, Uncommitted, Stored, Free, PutConfig, durable,
       control, bounds, history
  <2> QED
    BY <1>t, <2>1, <2>2, <2>3, <2>4, <2>5, <2>6 DEF IInv
<1>16. CASE \E out \in Outcomes : WriteConfig(out)
  <2>1. DownOK'
    BY <1>16, <1>t DEF IInv, TypeOK, DownOK, DirOK, ProofOK, NameOK, GateOK, DamageOK, Stored, Free, Nameless,
       Uncommitted, Idle, NotSeen, Sidecar, Control, Temporary, WriteConfig, Outcome, Written, Outcomes,
       durable, control, bounds, history
  <2>2. DirOK'
    BY <1>16, <1>t DEF IInv, TypeOK, DirOK, Stored, WriteConfig, Outcome, Written, Outcomes, durable, control,
       bounds, history
  <2>3. ProofOK'
    BY <1>16, <1>t DEF IInv, TypeOK, ProofOK, WriteConfig, Outcome, Written, Outcomes, durable, control,
       bounds, history
  <2>4. NameOK'
    BY <1>16, <1>t DEF IInv, TypeOK, NameOK, NotSeen, DownOK, DirOK, ProofOK, GateOK, DamageOK, Stored, Free,
       Nameless, Uncommitted, Idle, Sidecar, Control, Temporary, WriteConfig, Outcome, Written, Outcomes,
       durable, control, bounds, history
  <2>5. GateOK'
    BY <1>16, <1>t DEF IInv, TypeOK, GateOK, Stored, Free, DownOK, DirOK, ProofOK, NameOK, DamageOK, Nameless,
       Uncommitted, Idle, NotSeen, Sidecar, Control, Temporary, WriteConfig, Outcome, Written, Outcomes,
       durable, control, bounds, history
  <2>6. DamageOK'
    BY <1>16, <1>t DEF IInv, TypeOK, DamageOK, Nameless, Uncommitted, Stored, Free, DownOK, DirOK, ProofOK,
       NameOK, GateOK, Idle, NotSeen, Sidecar, Control, Temporary, WriteConfig, Outcome, Written, Outcomes,
       durable, control, bounds, history
  <2> QED
    BY <1>t, <2>1, <2>2, <2>3, <2>4, <2>5, <2>6 DEF IInv
<1>17. CASE DropConfig
  <2>1. DownOK'
    BY <1>17, <1>t DEF IInv, TypeOK, DownOK, DropConfig, durable, control, bounds, history
  <2>2. DirOK'
    BY <1>17, <1>t DEF IInv, TypeOK, DirOK, Stored, DropConfig, durable, control, bounds, history
  <2>3. ProofOK'
    BY <1>17, <1>t DEF IInv, TypeOK, ProofOK, DropConfig, durable, control, bounds, history
  <2>4. NameOK'
    BY <1>17, <1>t DEF IInv, TypeOK, NameOK, NotSeen, DropConfig, durable, control, bounds, history
  <2>5. GateOK'
    BY <1>17, <1>t DEF IInv, TypeOK, GateOK, Stored, Free, DownOK, DirOK, Idle, DropConfig, durable, control,
       bounds, history
  <2>6. DamageOK'
    BY <1>17, <1>t DEF IInv, TypeOK, DamageOK, Nameless, Uncommitted, Stored, Free, DropConfig, durable,
       control, bounds, history
  <2> QED
    BY <1>t, <2>1, <2>2, <2>3, <2>4, <2>5, <2>6 DEF IInv
<1>18. CASE \E k \in Key, v \in Value : PutObject(k, v)
  <2>1. DownOK'
    BY <1>18, <1>t DEF IInv, TypeOK, DownOK, PutObject, StartObject, Admit, durable, control, bounds, history
  <2>2. DirOK'
    BY <1>18, <1>t DEF IInv, TypeOK, DirOK, Stored, PutObject, StartObject, Admit, durable, control, bounds,
       history
  <2>3. ProofOK'
    BY <1>18, <1>t DEF IInv, TypeOK, ProofOK, PutObject, StartObject, Admit, durable, control, bounds, history
  <2>4. NameOK'
    BY <1>18, <1>t DEF IInv, TypeOK, NameOK, NotSeen, PutObject, StartObject, Admit, durable, control, bounds,
       history
  <2>5. GateOK'
    BY <1>18, <1>t DEF IInv, TypeOK, GateOK, Stored, Free, PutObject, StartObject, Admit, durable, control,
       bounds, history
  <2>6. DamageOK'
    BY <1>18, <1>t DEF IInv, TypeOK, DamageOK, Nameless, Uncommitted, Stored, Free, PutObject, StartObject,
       Admit, durable, control, bounds, history
  <2> QED
    BY <1>t, <2>1, <2>2, <2>3, <2>4, <2>5, <2>6 DEF IInv
<1>19. CASE \E k \in Key, v \in Value : ReplaceMetadata(k, v)
  <2>1. DownOK'
    BY <1>19, <1>t DEF IInv, TypeOK, DownOK, ReplaceMetadata, StartObject, Admit, durable, control, bounds,
       history
  <2>2. DirOK'
    BY <1>19, <1>t DEF IInv, TypeOK, DirOK, Stored, ReplaceMetadata, StartObject, Admit, durable, control,
       bounds, history
  <2>3. ProofOK'
    BY <1>19, <1>t DEF IInv, TypeOK, ProofOK, ReplaceMetadata, StartObject, Admit, durable, control, bounds,
       history
  <2>4. NameOK'
    BY <1>19, <1>t DEF IInv, TypeOK, NameOK, NotSeen, ReplaceMetadata, StartObject, Admit, durable, control,
       bounds, history
  <2>5. GateOK'
    BY <1>19, <1>t DEF IInv, TypeOK, GateOK, Stored, Free, DownOK, DirOK, Idle, ReplaceMetadata, StartObject,
       Admit, durable, control, bounds, history
  <2>6. DamageOK'
    BY <1>19, <1>t DEF IInv, TypeOK, DamageOK, Nameless, Uncommitted, Stored, Free, ReplaceMetadata,
       StartObject, Admit, durable, control, bounds, history
  <2> QED
    BY <1>t, <2>1, <2>2, <2>3, <2>4, <2>5, <2>6 DEF IInv
<1>20. CASE \E k \in Key, v \in Value : DeleteVersion(k, v)
  <2>1. DownOK'
    BY <1>20, <1>t DEF IInv, TypeOK, DownOK, DeleteVersion, StartObject, Admit, durable, control, bounds,
       history
  <2>2. DirOK'
    BY <1>20, <1>t DEF IInv, TypeOK, DirOK, Stored, DeleteVersion, StartObject, Admit, durable, control,
       bounds, history
  <2>3. ProofOK'
    BY <1>20, <1>t DEF IInv, TypeOK, ProofOK, DeleteVersion, StartObject, Admit, durable, control, bounds,
       history
  <2>4. NameOK'
    BY <1>20, <1>t DEF IInv, TypeOK, NameOK, NotSeen, DeleteVersion, StartObject, Admit, durable, control,
       bounds, history
  <2>5. GateOK'
    BY <1>20, <1>t DEF IInv, TypeOK, GateOK, Stored, Free, DownOK, DirOK, Idle, DeleteVersion, StartObject,
       Admit, durable, control, bounds, history
  <2>6. DamageOK'
    BY <1>20, <1>t DEF IInv, TypeOK, DamageOK, Nameless, Uncommitted, Stored, Free, DeleteVersion, StartObject,
       Admit, durable, control, bounds, history
  <2> QED
    BY <1>t, <2>1, <2>2, <2>3, <2>4, <2>5, <2>6 DEF IInv
<1>21. CASE \E k \in Key, out \in Outcomes : PublishObject(k, out)
  <2>1. DownOK'
    BY <1>21, <1>t DEF IInv, TypeOK, DownOK, PublishObject, Kept, Outcome, Written, Outcomes, durable, control,
       bounds, history
  <2>2. DirOK'
    BY <1>21, <1>t DEF IInv, TypeOK, DirOK, Stored, PublishObject, Kept, Outcome, Written, Outcomes, durable,
       control, bounds, history
  <2>3. ProofOK'
    BY <1>21, <1>t DEF IInv, TypeOK, ProofOK, PublishObject, Kept, Outcome, Written, Outcomes, durable,
       control, bounds, history
  <2>4. NameOK'
    BY <1>21, <1>t DEF IInv, TypeOK, NameOK, NotSeen, PublishObject, Kept, Outcome, Written, Outcomes, durable,
       control, bounds, history
  <2>5. GateOK'
    BY <1>21, <1>t DEF IInv, TypeOK, GateOK, Stored, Free, PublishObject, Kept, Outcome, Written, Outcomes,
       durable, control, bounds, history
  <2>6. DamageOK'
    BY <1>21, <1>t DEF IInv, TypeOK, DamageOK, Nameless, Uncommitted, Stored, Free, DownOK, DirOK, NameOK,
       GateOK, Idle, PublishObject, Kept, Outcome, Written, Outcomes, durable, control, bounds, history
  <2> QED
    BY <1>t, <2>1, <2>2, <2>3, <2>4, <2>5, <2>6 DEF IInv
<1>22. CASE \E k \in Key, out \in Outcomes : DeleteObject(k, out)
  <2>1. DownOK'
    BY <1>22, <1>t DEF IInv, TypeOK, DownOK, DeleteObject, Kept, Outcome, Written, Outcomes, durable, control,
       bounds, history
  <2>2. DirOK'
    BY <1>22, <1>t DEF IInv, TypeOK, DirOK, Stored, DeleteObject, Kept, Outcome, Written, Outcomes, durable,
       control, bounds, history
  <2>3. ProofOK'
    BY <1>22, <1>t DEF IInv, TypeOK, ProofOK, DeleteObject, Kept, Outcome, Written, Outcomes, durable, control,
       bounds, history
  <2>4. NameOK'
    BY <1>22, <1>t DEF IInv, TypeOK, NameOK, NotSeen, DeleteObject, Kept, Outcome, Written, Outcomes, durable,
       control, bounds, history
  <2>5. GateOK'
    BY <1>22, <1>t DEF IInv, TypeOK, GateOK, Stored, Free, DeleteObject, Kept, Outcome, Written, Outcomes,
       durable, control, bounds, history
  <2>6. DamageOK'
    BY <1>22, <1>t DEF IInv, TypeOK, DamageOK, Nameless, Uncommitted, Stored, Free, DeleteObject, Kept,
       Outcome, Written, Outcomes, durable, control, bounds, history
  <2> QED
    BY <1>t, <2>1, <2>2, <2>3, <2>4, <2>5, <2>6 DEF IInv
<1>23. CASE \E k \in Key, out \in Outcomes : DeleteHistory(k, out)
  <2>1. DownOK'
    BY <1>23, <1>t DEF IInv, TypeOK, DownOK, DeleteHistory, Outcome, Written, Outcomes, durable, control,
       bounds, history
  <2>2. DirOK'
    BY <1>23, <1>t DEF IInv, TypeOK, DirOK, Stored, DeleteHistory, Outcome, Written, Outcomes, durable,
       control, bounds, history
  <2>3. ProofOK'
    BY <1>23, <1>t DEF IInv, TypeOK, ProofOK, DeleteHistory, Outcome, Written, Outcomes, durable, control,
       bounds, history
  <2>4. NameOK'
    BY <1>23, <1>t DEF IInv, TypeOK, NameOK, NotSeen, DeleteHistory, Outcome, Written, Outcomes, durable,
       control, bounds, history
  <2>5. GateOK'
    BY <1>23, <1>t DEF IInv, TypeOK, GateOK, Stored, Free, DeleteHistory, Outcome, Written, Outcomes, durable,
       control, bounds, history
  <2>6. DamageOK'
    BY <1>23, <1>t DEF IInv, TypeOK, DamageOK, Nameless, Uncommitted, Stored, Free, DeleteHistory, Outcome,
       Written, Outcomes, durable, control, bounds, history
  <2> QED
    BY <1>t, <2>1, <2>2, <2>3, <2>4, <2>5, <2>6 DEF IInv
<1>24. CASE Crash
  <2>1. DownOK'
    BY <1>24, <1>t DEF IInv, TypeOK, DownOK, Crash, Writing, durable, control, bounds, history
  <2>2. DirOK'
    BY <1>24, <1>t DEF IInv, TypeOK, DirOK, Stored, Crash, Writing, durable, control, bounds, history
  <2>3. ProofOK'
    BY <1>24, <1>t DEF IInv, TypeOK, ProofOK, Crash, Writing, durable, control, bounds, history
  <2>4. NameOK'
    BY <1>24, <1>t DEF IInv, TypeOK, NameOK, NotSeen, Crash, Writing, durable, control, bounds, history
  <2>5. GateOK'
    BY <1>24, <1>t DEF IInv, TypeOK, GateOK, Stored, Free, Crash, Writing, durable, control, bounds, history
  <2>6. DamageOK'
    <3> SUFFICES ASSUME Gated
                 PROVE  DamageOK'
      BY BucketsAssumption DEF DamageOK
    <3>1. /\ pc' = "idle" /\ store = "up" /\ store' = "down" /\ cur' = cur /\ hist' = hist
          /\ damage' = IF pc = "remove" THEN damage \cup {"removal"} ELSE damage
      BY <1>24 DEF Crash
    <3>2. PICK left \in SUBSET Temporary :
             /\ "nameTmp" \in left => pc = "name"
             /\ "otherTmp" \in left => Writing
             /\ files' = IF left = {} THEN files ELSE files \cup {"dir"} \cup left
      BY <1>24 DEF Crash
    <3>3. left # {} => "dir" \in files
      BY <3>2 DEF IInv, NameOK, GateOK, Writing, Temporary, Sidecar
    <3>4. CASE pc = "remove"
      BY <3>1, <3>4 DEF DamageOK
    <3>5. CASE pc = "name"
      <4>1. ~Writing /\ Uncommitted
        BY <3>5 DEF IInv, GateOK, DamageOK, Writing, Sidecar
      <4>2. files' \subseteq {"dir", "nameTmp"}
        BY <3>2, <4>1 DEF Uncommitted, Temporary
      <4> QED
        BY <3>1, <4>1, <4>2 DEF DamageOK, Uncommitted, Stored
    <3>6. CASE pc \notin {"remove", "name"}
      <4>1. Nameless' => Nameless
        BY <3>2, <3>3 DEF Nameless
      <4> QED
        BY <3>1, <3>6, <4>1 DEF IInv, DamageOK
    <3> QED
      BY <3>4, <3>5, <3>6
  <2> QED
    BY <1>t, <2>1, <2>2, <2>3, <2>4, <2>5, <2>6 DEF IInv
<1>25. CASE RecoverNameless
  <2>1. DownOK'
    BY <1>25, <1>t DEF IInv, TypeOK, DownOK, RecoverNameless, Nameless, Uncommitted, durable, control, bounds,
       history
  <2>2. DirOK'
    BY <1>25, <1>t DEF IInv, TypeOK, DirOK, Stored, RecoverNameless, Nameless, Uncommitted, durable, control,
       bounds, history
  <2>3. ProofOK'
    BY <1>25, <1>t DEF IInv, TypeOK, ProofOK, RecoverNameless, Nameless, Uncommitted, durable, control, bounds,
       history
  <2>4. NameOK'
    BY <1>25, <1>t DEF IInv, TypeOK, NameOK, NotSeen, DownOK, DirOK, Stored, Idle, RecoverNameless, Nameless,
       Uncommitted, durable, control, bounds, history
  <2>5. GateOK'
    BY <1>25, <1>t DEF IInv, TypeOK, GateOK, Stored, Free, DownOK, DirOK, Idle, RecoverNameless, Nameless,
       Uncommitted, durable, control, bounds, history
  <2>6. DamageOK'
    BY <1>25, <1>t DEF IInv, TypeOK, DamageOK, Nameless, Uncommitted, Stored, Free, RecoverNameless, durable,
       control, bounds, history
  <2> QED
    BY <1>t, <2>1, <2>2, <2>3, <2>4, <2>5, <2>6 DEF IInv
<1>26. CASE Open
  <2>1. DownOK'
    BY <1>26, <1>t DEF IInv, TypeOK, DownOK, Open, Nameless, durable, control, bounds, history
  <2>2. DirOK'
    BY <1>26, <1>t DEF IInv, TypeOK, DirOK, Stored, Open, Nameless, durable, control, bounds, history
  <2>3. ProofOK'
    BY <1>26, <1>t DEF IInv, TypeOK, ProofOK, DownOK, DirOK, Stored, Idle, Open, Nameless, durable, control,
       bounds, history
  <2>4. NameOK'
    BY <1>26, <1>t DEF IInv, TypeOK, NameOK, NotSeen, Open, Nameless, durable, control, bounds, history
  <2>5. GateOK'
    BY <1>26, <1>t DEF IInv, TypeOK, GateOK, Stored, Free, Open, Nameless, durable, control, bounds, history
  <2>6. DamageOK'
    BY <1>26, <1>t DEF IInv, TypeOK, DamageOK, Nameless, Uncommitted, Stored, Free, Open, durable, control,
       bounds, history
  <2> QED
    BY <1>t, <2>1, <2>2, <2>3, <2>4, <2>5, <2>6 DEF IInv
<1> QED
  BY <1>1, <1>2, <1>3, <1>4, <1>5, <1>6, <1>7, <1>8, <1>9, <1>10, <1>11, <1>12, <1>13, <1>14, <1>15, <1>16,
     <1>17, <1>18, <1>19, <1>20, <1>21, <1>22, <1>23, <1>24, <1>25, <1>26 DEF Next, BucketStep, ConfigStep,
     ObjectStep

-----------------------------------------------------------------------------
\* The invariant holds in every reachable state.
THEOREM Invariance == Spec => []IInv
<1>1. Init => IInv
  BY InitInv
<1>2. IInv /\ [Next]_vars => IInv'
  BY NextInv
<1> QED
  BY <1>1, <1>2, PTL DEF Spec

\* The absence proof of azure_protection_possible is never wrong, with or
\* without the operation gate.
THEOREM ProofIsSound == Spec => []AbsenceSound
<1>1. IInv => AbsenceSound
  BY DEF IInv, ProofOK, DownOK, AbsenceSound
<1> QED
  BY <1>1, Invariance, PTL

\* An acknowledged bucket keeps its name and identity until it is deleted.
THEOREM BucketsKept == Spec => []CommittedStays
<1>1. IInv => CommittedStays
  BY DEF IInv, NameOK, CommittedStays
<1> QED
  BY <1>1, Invariance, PTL

\* A creation time that was reported does not change while the bucket lives.
THEOREM CreationTimeStable == Spec => []IdentityStable
<1>1. IInv => IdentityStable
  BY DEF IInv, NameOK, IdentityStable
<1> QED
  BY <1>1, Invariance, PTL

\* Under the operation gate startup refuses a data root only for a bucket whose
\* removal was cut short or whose name could not be written.
THEOREM RefusalExplained == Spec => [](Gated => RefusesOnlyDamaged)
<1>1. IInv => (Gated => RefusesOnlyDamaged)
  BY DEF IInv, DamageOK, DownOK, RefusesOnlyDamaged
<1> QED
  BY <1>1, Invariance, PTL

\* The same where the gate may be on or off: a behaviour that has it refuses a data root for no other reason
\* (the specification MCSpec checks, whose other half does without the gate).
THEOREM RefusalExplainedWithGate == MCSpec => [](Gated => RefusalExplainedGated)
<1>1. MCInit => (gate => IInv)
  BY InitInv DEF MCInit
<1>2. (gate => IInv) /\ [MCNext]_<<vars, gate>> => (gate => IInv)'
  <2> SUFFICES ASSUME gate => IInv, [MCNext]_<<vars, gate>>, gate' PROVE IInv'
    OBVIOUS
  <2>1. gate /\ [Next]_vars
    BY DEF MCNext
  <2> QED
    BY <2>1, NextInv
<1>3. (gate => IInv) => (Gated => RefusalExplainedGated)
  BY DEF IInv, DamageOK, DownOK, RefusesOnlyDamaged, RefusalExplainedGated
<1> QED
  BY <1>1, <1>2, <1>3, PTL DEF MCSpec

=============================================================================
