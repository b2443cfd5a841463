---------------------------- MODULE ObjectProofs ----------------------------
(***************************************************************************)
(* Objects, written and read.                                              *)
(*                                                                         *)
(* The publication protocol, for any number of version identities,         *)
(* generations, errors and crashes.  First crash atomicity: body and       *)
(* metadata never disagree without a journal that explains it, and startup *)
(* never refuses.  Then the refinement: the protocol implements            *)
(* ObjectHistory, serves what the files hold and loses no generation.      *)
(*                                                                         *)
(* Then reads: for any keys, folders, contents, page sizes and number of   *)
(* writes beside the client, the index agrees with the store, a listing is *)
(* complete and returns nothing twice (ListingsTrue), a pinned download is *)
(* of one generation (DownloadWhole), and "not modified" is only said of   *)
(* what is current (CacheCurrent).                                         *)
(***************************************************************************)
EXTENDS Publication, Downloads, TLAPS, FiniteSetTheorems, SequenceTheorems, WellFoundedInduction

\* The body and metadata staged at p belong together.
Whole(p) == stage[p].body = stage[p].meta.gen

\* validate_publication, and the shapes that publish_pair gives version dirs.
JournalOK ==
    \A p \in Place : journal[p].live =>
      /\ journal[p].publish => /\ ~journal[p].clear_current
                               /\ journal[p].marker.gen = 0
                               /\ Whole(p)
      /\ journal[p].marker.gen # 0 => journal[p].clear_current /\ journal[p].marker.vid \in Vid
      /\ p \in Vid => journal[p].publish /\ journal[p].remove_versions = {}

\* Recovery takes the object directory first and leaves no live journal behind.
RecoverOK ==
    /\ pc = "mode" => todo = {Cur} /\ round = "open"
    /\ pc \in {"down", "mode", "recover", "plan"} => attempt = "recover"
    /\ pc = "recover" \/ (pc = "apply" /\ attempt = "recover") =>
         /\ Cur \notin todo => ~journal[Cur].live
         /\ round = "open" => todo \subseteq {Cur}
         /\ round = "sweep" => /\ todo \subseteq Vid
                               /\ task.kind = "deleteVersion" =>
                                    \A v \in Vid \ todo : ~journal[v].live
         /\ round = "snap" => /\ todo \subseteq {IdOf(meta[Cur])}
                              /\ IdOf(meta[Cur]) \notin todo => ~journal[IdOf(meta[Cur])].live
         /\ round = "main" => todo \subseteq {Cur} /\ ~journal[Cur].live
    /\ pc = "apply" /\ attempt = "recover" => at \in todo /\ round # "main"
    /\ pc = "apply" /\ attempt = "recover" /\ Cur \in todo => at = Cur
    /\ pc = "plan" => /\ ~journal[Cur].live
                      /\ round = "sweep" /\ task.kind = "deleteVersion" =>
                           \A v \in Vid : ~journal[v].live

\* The main publication, once planned, is well formed and its source intact.
PlanOK ==
    /\ round \in {"snap", "main"} /\ pc \in {"recover", "stageBody", "stageMeta", "commit", "apply"} =>
         /\ want.record.live
         /\ want.record.publish => ~want.record.clear_current /\ want.record.marker.gen = 0
         /\ want.record.marker.gen # 0 => /\ want.record.clear_current
                                          /\ want.record.marker.vid \in Vid
         /\ round = "snap" => task.kind = "put" \/ ~want.record.publish
    /\ round = "main" /\ pc \in {"recover", "stageBody"} /\ want.record.publish /\ task.kind # "put" =>
         body[want.source] = want.object.gen

\* Staging happens beside a retired journal and keeps body and metadata together.
StagingOK ==
    /\ pc \in {"stageBody", "stageMeta", "commit"} =>
         /\ round \in {"snap", "main"}
         /\ ~journal[Cur].live /\ ~journal[at].live
         /\ round = "snap" => at \in Vid
         /\ round = "main" => at = Cur
    /\ pc \in {"stageBody", "stageMeta"} => Planned.record.publish
    /\ pc = "stageMeta" => stage[at].body = Planned.object.gen
    /\ pc = "commit" /\ Planned.record.publish => Whole(at)

\* The effects of apply_publication that are already in place.
ApplyOK ==
    pc = "apply" =>
      /\ step # "clean" => journal[at].live
      /\ step = "clean" => ~journal[at].live
      /\ attempt \in {"commit", "retry"} => round \in {"snap", "main"}
      /\ round = "snap" => at \in Vid /\ ~journal[Cur].live
      /\ step \in {"body", "meta"} => journal[at].publish
      /\ step = "meta" => body[at] = stage[at].body
      /\ step \notin {"body", "meta", "clean"} /\ journal[at].publish =>
           body[at] = stage[at].body /\ meta[at] = stage[at].meta
      /\ step \in {"markerBody", "markerMeta", "clearBody", "clearMeta", "retire"} =>
           \A v \in journal[at].remove_versions :
             \/ journal[at].marker.gen # 0 /\ v = journal[at].marker.vid
             \/ body[v] = 0 /\ meta[v] = NoObject
      /\ step \in {"markerBody", "markerMeta"} => journal[at].marker.gen # 0
      /\ step = "markerMeta" => body[journal[at].marker.vid] = journal[at].marker.gen
      /\ step \in {"clearBody", "clearMeta", "retire"} /\ journal[at].marker.gen # 0 =>
           /\ body[journal[at].marker.vid] = journal[at].marker.gen
           /\ meta[journal[at].marker.vid] = journal[at].marker
      /\ step \in {"clearBody", "clearMeta"} => journal[at].clear_current
      /\ step = "clearMeta" => body[at] = 0
      /\ step = "retire" /\ journal[at].clear_current => body[at] = 0 /\ meta[at] = NoObject

IInv ==
    /\ TypeOK /\ Coherent /\ NeverRefused
    /\ JournalOK /\ RecoverOK /\ PlanOK /\ StagingOK /\ ApplyOK

-----------------------------------------------------------------------------
\* Membership facts about the constant records, so that later steps need not
\* unfold the record sets.
LEMMA Blanks ==
    /\ NoObject \in Object /\ NoObject.gen = 0
    /\ NoRecord \in Record /\ ~NoRecord.live
    /\ NoStage \in Stage /\ NoStage.body = 0 /\ NoStage.meta = NoObject
<1>1. NoObject \in Object /\ NoObject.gen = 0
  BY DEF NoObject, Object, Attrs
<1>2. NoRecord \in Record /\ ~NoRecord.live
  BY <1>1 DEF NoRecord, Record
<1>3. NoStage \in Stage /\ NoStage.body = 0 /\ NoStage.meta = NoObject
  BY <1>1 DEF NoStage, Stage
<1> QED
  BY <1>1, <1>2, <1>3

\* No task is a task.
LEMMA BlankTask == NoTask \in Task /\ NoTask.kind = "none"
BY DEF NoTask, Task, Kinds, Vid, Attrs, Modes

\* No plan is a plan.
LEMMA BlankPlan == NoPlan \in Plan /\ NoPlan.record = NoRecord
BY Blanks DEF NoPlan, Plan, Place

\* The types of the fields of objects, records, plans and tasks.
LEMMA Fields ==
    /\ \A o \in Object : /\ o.gen \in Nat /\ o.vid \in Vid \cup {NoVid}
                         /\ o.marker \in BOOLEAN /\ o.attr \in Attrs
    /\ \A r \in Record : /\ r.live \in BOOLEAN /\ r.publish \in BOOLEAN /\ r.clear_current \in BOOLEAN
                         /\ r.remove_versions \in SUBSET Vid /\ r.marker \in Object
    /\ \A x \in Stage : x.body \in Nat /\ x.meta \in Object
    /\ \A w \in Plan : w.record \in Record /\ w.object \in Object /\ w.source \in Place
    /\ \A t \in Task : /\ t.kind \in Kinds \cup {"none"} /\ t.vid \in Vid
                       /\ t.attr \in Attrs /\ t.mode \in Modes
BY DEF Object, Record, Stage, Plan, Task

\* Every request is a task.
LEMMA RequestsType == \A t \in Requests : t \in Task /\ t.kind \in Kinds
BY Fields DEF Requests

\* A snapshot is an object of the same generation.
LEMMA VersionedType ==
    \A o \in Object : IdOf(o) \in Vid /\ Versioned(o) \in Object /\ Versioned(o).gen = o.gen
BY DEF Object, IdOf, Versioned, Vid

\* The types hold initially.
LEMMA InitType == Init => TypeOK
<1> SUFFICES ASSUME Init PROVE TypeOK
  OBVIOUS
<1> USE DEF Init
<1>1. /\ body \in [Place -> Nat] /\ meta \in [Place -> Object]
      /\ journal \in [Place -> Record] /\ stage \in [Place -> Stage]
  BY Blanks
<1>2. /\ mode \in Modes /\ pc \in PCs /\ round \in Rounds /\ step \in Steps /\ at \in Place
  BY DEF Modes, PCs, Rounds, Steps, Place
<1>3. task \in Task /\ want \in Plan /\ seen \in Stage
  BY Blanks, BlankTask, BlankPlan
<1> QED
  BY <1>1, <1>2, <1>3 DEF TypeOK

\* The steps of a record are steps.
LEMMA StepTypes == \A r \in Record : FirstStep(r) \in Steps /\ AfterRemove(r) \in Steps
BY DEF FirstStep, AfterRemove, Steps

\* Entering publication keeps the types.
LEMMA PublishType ==
    ASSUME TypeOK, NEW w \in Plan, Publish(w)
    PROVE  want' \in Plan /\ pc' \in PCs /\ round' \in Rounds /\ todo' \in SUBSET Place
BY VersionedType DEF TypeOK, Publish, PCs, Rounds, Place

\* Ending a request keeps the types.
LEMMA EndType ==
    ASSUME TypeOK, NEW outcome \in {"ok", "err"}, End(outcome)
    PROVE  /\ pc' \in PCs /\ reply' \in {"none", "ok", "err"} /\ task' \in Task /\ want' \in Plan
           /\ todo' \in SUBSET Place /\ landed' \in BOOLEAN /\ round' \in Rounds /\ at' \in Place
           /\ attempt' \in {"recover", "commit", "retry"} /\ step' \in Steps /\ index' \in BOOLEAN
<1>1. index' \in BOOLEAN
  BY DEF End, TypeOK
<1> QED
  BY <1>1, BlankTask, BlankPlan DEF End, PCs, Rounds, Steps, Place

\* What publish_pair and change_history plan is a plan.
LEMMA PlanTypes ==
    ASSUME NEW retired \in SUBSET Vid, NEW o \in Object, NEW p \in Place, NEW c \in BOOLEAN
    PROVE  /\ PublishPlan(retired, o, p) \in Plan
           /\ HistoryPlan(retired, o, c) \in Plan
BY Blanks DEF PublishPlan, HistoryPlan, Plan, Record, Place

\* A new object is an object.
LEMMA NewObjectType ==
    ASSUME NEW g \in Nat, NEW m \in Modes, NEW id \in NewVids(m), NEW mk \in BOOLEAN, NEW a \in Attrs
    PROVE  /\ [gen |-> g, vid |-> id, marker |-> mk, attr |-> a] \in Object
           /\ m # "disabled" => id \in Vid
           /\ NullOnly(id) \in SUBSET Vid
BY DEF Object, NewVids, Modes, Vid, NullOnly

\* The plan of a request is a plan.
LEMMA PlannedType == TypeOK => Planned \in Plan
BY PlanTypes, VersionedType DEF TypeOK, Planned, Place

\* Every step keeps the types.
LEMMA NextType == TypeOK /\ [Next]_vars => TypeOK'
<1> SUFFICES ASSUME TypeOK, [Next]_vars PROVE TypeOK'
  OBVIOUS
<1> USE Fields DEF TypeOK
<1>1. CASE UNCHANGED vars
  BY <1>1 DEF vars, files, memory, aux
<1>2. CASE Serve
  <2>1. PICK t \in Requests : Begin(t)
    BY <1>2 DEF Serve
  <2>2. t \in Task
    BY <2>1, RequestsType
  <2> QED
    BY <2>1, <2>2, Blanks DEF Begin, Admitted, files, PCs, Rounds, Place
<1>3. ASSUME NEW p \in Place, RecoverPlace(p) PROVE TypeOK'
  BY <1>3, StepTypes, Blanks DEF RecoverPlace, aux, PCs
<1>4. CASE RecoverDone
  BY <1>4, VersionedType DEF RecoverDone, files, aux, PCs, Place
<1>5. CASE PlanPut
  <2> DEFINE New(id) == [gen |-> gens + 1, vid |-> id, marker |-> FALSE, attr |-> task.attr]
  <2>1. PICK id \in NewVids(mode) : Publish(PublishPlan(NullOnly(id), New(id), Cur)) /\ unused' = unused \ {id}
    BY <1>5 DEF PlanPut
  <2>a. gens + 1 \in Nat /\ task.attr \in Attrs /\ mode \in Modes
    OBVIOUS
  <2>2. New(id) \in Object /\ NullOnly(id) \in SUBSET Vid /\ gens + 1 \in Nat
    <3> HIDE DEF TypeOK
    <3> QED
      BY <2>a, NewObjectType
  <2>3. PublishPlan(NullOnly(id), New(id), Cur) \in Plan
    BY <2>2, PlanTypes DEF Place
  <2>4. want' \in Plan /\ pc' \in PCs /\ round' \in Rounds /\ todo' \in SUBSET Place
    BY <2>1, <2>3, PublishType
  <2> QED
    BY <1>5, <2>1, <2>2, <2>4 DEF PlanPut, files
<1>6. CASE PlanDelete
  <2>1. CASE mode = "disabled" /\ Present
    <3>1. HistoryPlan({}, NoObject, TRUE) \in Plan
      BY Blanks, PlanTypes DEF Place
    <3>2. Publish(HistoryPlan({}, NoObject, TRUE))
      BY <1>6, <2>1 DEF PlanDelete
    <3>3. want' \in Plan /\ pc' \in PCs /\ round' \in Rounds /\ todo' \in SUBSET Place
      BY <3>1, <3>2, PublishType
    <3> QED
      BY <1>6, <2>1, <3>3 DEF PlanDelete, files
  <2>2. CASE mode = "disabled" /\ ~Present
    BY <1>6, <2>2, EndType DEF PlanDelete, files
  <2>3. CASE mode # "disabled"
    <3> DEFINE New(id) == [gen |-> gens + 1, vid |-> id, marker |-> TRUE, attr |-> "plain"]
    <3>1. PICK id \in NewVids(mode) :
            unused' = unused \ {id} /\ Publish(HistoryPlan(NullOnly(id), New(id), TRUE))
      BY <1>6, <2>3 DEF PlanDelete
    <3>a. gens + 1 \in Nat /\ "plain" \in Attrs /\ mode \in Modes
      BY DEF Attrs
    <3>2. New(id) \in Object /\ NullOnly(id) \in SUBSET Vid /\ gens + 1 \in Nat
      <4> HIDE DEF TypeOK
      <4> QED
        BY <3>a, NewObjectType
    <3>3. HistoryPlan(NullOnly(id), New(id), TRUE) \in Plan
      BY <3>2, PlanTypes DEF Place
    <3>4. want' \in Plan /\ pc' \in PCs /\ round' \in Rounds /\ todo' \in SUBSET Place
      BY <3>1, <3>3, PublishType
    <3> QED
      BY <1>6, <2>3, <3>1, <3>2, <3>4 DEF PlanDelete, files
  <2> QED
    BY <2>1, <2>2, <2>3
<1>7. CASE SweepVersions
  BY <1>7 DEF SweepVersions, files, aux, PCs, Rounds, Place
<1>8. CASE PlanDeleteVersion
  <2> DEFINE v == task.vid
             restores == (Present /\ meta[Cur].vid = v) \/ ~Present
  <2>1. CASE End("err") /\ UNCHANGED possible
    BY <1>8, <2>1, EndType DEF PlanDeleteVersion, files
  <2>2. ASSUME NEW w \in Vid, Publish(PublishPlan({v, w}, meta[w], w)), possible' = Admitted(meta[w]),
               UNCHANGED <<index, at, attempt, step, landed, reply, task>>
        PROVE  TypeOK'
    <3>1. PublishPlan({v, w}, meta[w], w) \in Plan
      BY PlanTypes DEF Place
    <3>2. want' \in Plan /\ pc' \in PCs /\ round' \in Rounds /\ todo' \in SUBSET Place
      BY <2>2, <3>1, PublishType
    <3> QED
      BY <1>8, <2>2, <3>2 DEF PlanDeleteVersion, Admitted, files
  <2>3. ASSUME Publish(HistoryPlan({v}, NoObject, restores)), UNCHANGED possible,
               UNCHANGED <<index, at, attempt, step, landed, reply, task>>
        PROVE  TypeOK'
    <3>1. HistoryPlan({v}, NoObject, restores) \in Plan
      BY Blanks, PlanTypes DEF Place
    <3>2. want' \in Plan /\ pc' \in PCs /\ round' \in Rounds /\ todo' \in SUBSET Place
      BY <2>3, <3>1, PublishType
    <3> QED
      BY <1>8, <2>3, <3>2 DEF PlanDeleteVersion, files
  <2> QED
    BY <1>8, <2>1, <2>2, <2>3 DEF PlanDeleteVersion
<1>9. CASE Touch
  <2>1. CASE meta[Cur].gen = 0
    BY <1>9, <2>1, EndType DEF Touch
  <2>2. CASE meta[Cur].gen # 0
    <3>1. Cur \in Place
      BY DEF Place
    <3>2. [meta[Cur] EXCEPT !.attr = task.attr] \in Object
      BY <3>1 DEF Object
    <3>3. meta' = [meta EXCEPT ![Cur] = [meta[Cur] EXCEPT !.attr = task.attr]]
      BY <1>9, <2>2, <3>1 DEF Touch
    <3>4. meta' \in [Place -> Object]
      BY <3>2, <3>3
    <3> QED
      BY <1>9, <2>2, <3>4 DEF Touch, Admitted, PCs
  <2> QED
    BY <2>1, <2>2
<1>10. CASE SetMode
  BY <1>10 DEF SetMode, PCs
<1>11. CASE AssignNull
  BY <1>11, VersionedType DEF AssignNull, aux, PCs, Place
<1>12. CASE OpenVersion
  BY <1>12 DEF OpenVersion, files, aux, PCs, Rounds, Place
<1>13. CASE Read
  BY <1>13, EndType DEF Read, files, Stage, Place
<1>14. CASE StageBody
  BY <1>14, PlannedType, Blanks DEF StageBody, StagedBody, aux, PCs, Stage
<1>15. CASE StageMeta
  BY <1>15, PlannedType DEF StageMeta, aux, PCs, Stage
<1>16. CASE Commit
  BY <1>16, PlannedType, StepTypes DEF Commit, PCs
<1>17. CASE Apply
  <2> USE DEF AtStep, Effect, aux, Steps
  <2>1. CASE PublishBody
    BY <2>1 DEF PublishBody
  <2>2. CASE PublishMeta
    BY <2>2 DEF PublishMeta
  <2>3. ASSUME NEW v \in Vid, RemoveVersion(v) PROVE TypeOK'
    BY <2>3, Blanks DEF RemoveVersion
  <2>4. CASE RemovedVersions
    BY <2>4, StepTypes DEF RemovedVersions
  <2>5. CASE MarkerBody
    BY <2>5 DEF MarkerBody
  <2>6. CASE MarkerMeta
    BY <2>6 DEF MarkerMeta
  <2>7. CASE ClearBody
    BY <2>7 DEF ClearBody
  <2>8. CASE ClearMeta
    BY <2>8, Blanks DEF ClearMeta
  <2>9. CASE RetireJournal
    BY <2>9, Blanks DEF RetireJournal
  <2>10. CASE CleanStage
    BY <2>10, Blanks DEF CleanStage, PCs, Rounds, Place
  <2> QED
    BY <1>17, <2>1, <2>2, <2>3, <2>4, <2>5, <2>6, <2>7, <2>8, <2>9, <2>10 DEF Apply
<1>18. CASE Finish
  BY <1>18, EndType, Blanks DEF Finish
<1>19. CASE Fault
  BY <1>19, EndType, StepTypes, Blanks DEF Fault
<1>20. CASE Crash
  <2>1. pc' \in PCs /\ round' \in Rounds /\ step' \in Steps /\ at' \in Place
    BY <1>20 DEF Crash, PCs, Rounds, Steps, Place
  <2>2. task' \in Task /\ want' \in Plan /\ seen' \in Stage
    BY <1>20, Blanks, BlankTask, BlankPlan DEF Crash
  <2>3. failures' \in Nat /\ reply' \in {"none", "ok", "err"} /\ UNCHANGED files
    BY <1>20 DEF Crash
  <2> QED
    BY <1>20, <2>1, <2>2, <2>3 DEF Crash, files
<1>21. CASE Restart
  BY <1>21 DEF Restart, files, aux, PCs, Rounds
<1>22. CASE Open
  BY <1>22 DEF Open, files, aux, PCs, Rounds, Place
<1> QED
  BY <1>1, <1>2, <1>3, <1>4, <1>5, <1>6, <1>7, <1>8, <1>9, <1>10, <1>11, <1>12, <1>13, <1>14, <1>15, <1>16,
     <1>17, <1>18, <1>19, <1>20, <1>21, <1>22 DEF Next, Proceed

-----------------------------------------------------------------------------
\* Between requests, and while no publication is in flight, nothing is owed.
LEMMA Quiet ==
    ASSUME pc' \in {"idle", "finish"}
    PROVE  NeverRefused' /\ RecoverOK' /\ PlanOK' /\ StagingOK' /\ ApplyOK'
BY DEF NeverRefused, RecoverOK, PlanOK, StagingOK, ApplyOK

\* What speaks of the files alone holds while they do not change.
LEMMA SameFiles ==
    ASSUME UNCHANGED <<body, meta, journal, stage>>
    PROVE  (Coherent => Coherent') /\ (JournalOK => JournalOK')
BY DEF Coherent, Excused, Decided, JournalOK, Whole

\* The invariant holds in every initial state.
LEMMA InitInv == Init => IInv
<1> SUFFICES ASSUME Init PROVE IInv
  OBVIOUS
<1>1. TypeOK
  BY InitType
<1>2. Coherent /\ JournalOK
  BY Blanks DEF Init, Coherent, JournalOK
<1>3. NeverRefused /\ RecoverOK /\ PlanOK /\ StagingOK /\ ApplyOK
  BY DEF Init, NeverRefused, RecoverOK, PlanOK, StagingOK, ApplyOK
<1> QED
  BY <1>1, <1>2, <1>3 DEF IInv

\* Every step keeps the invariant: one case per action, one step per part it can disturb.
LEMMA NextInv == IInv /\ [Next]_vars => IInv'
<1> SUFFICES ASSUME IInv, [Next]_vars PROVE IInv'
  OBVIOUS
<1>t. TypeOK /\ TypeOK'
  BY NextType DEF IInv
<1> USE Fields, PublicationAssumption
<1>1. CASE UNCHANGED vars
  BY <1>1, <1>t DEF IInv, vars, files, memory, aux, Coherent, Excused, Decided, JournalOK, Whole, NeverRefused,
     RecoverOK, PlanOK, Planned, StagingOK, ApplyOK
<1>2. CASE Serve
  <2>1. Coherent' /\ JournalOK'
    BY <1>2, SameFiles DEF IInv, Serve, Begin, files, aux
  <2>2. NeverRefused'
    BY <1>2, <1>t DEF IInv, TypeOK, NeverRefused, Serve, Begin, files, aux
  <2>3. RecoverOK'
    BY <1>2, <1>t DEF IInv, TypeOK, RecoverOK, Serve, Begin, files, aux
  <2>4. PlanOK'
    BY <1>2, <1>t DEF IInv, TypeOK, PlanOK, Serve, Begin, files, aux
  <2>5. StagingOK'
    BY <1>2, <1>t DEF IInv, TypeOK, StagingOK, Whole, Serve, Begin, files, aux, Planned, PublishPlan
  <2>6. ApplyOK'
    BY <1>2, <1>t DEF IInv, TypeOK, ApplyOK, Serve, Begin, files, aux
  <2> QED
    BY <1>t, <2>1, <2>2, <2>3, <2>4, <2>5, <2>6 DEF IInv
<1>3. CASE \E p \in Place : RecoverPlace(p)
  <2>1. NeverRefused'
    BY <1>3, <1>t DEF IInv, TypeOK, NeverRefused, RecoverPlace, FirstStep, aux
  <2>2. Coherent'
    BY <1>3, <1>t DEF IInv, TypeOK, Coherent, Excused, Decided, RecoverPlace, FirstStep, aux
  <2>3. JournalOK'
    BY <1>3, <1>t DEF IInv, TypeOK, JournalOK, Whole, RecoverPlace, FirstStep, aux
  <2>4. RecoverOK'
    BY <1>3, <1>t DEF IInv, TypeOK, RecoverOK, RecoverPlace, FirstStep, aux
  <2>5. PlanOK'
    BY <1>3, <1>t DEF IInv, TypeOK, PlanOK, RecoverPlace, FirstStep, aux
  <2>6. StagingOK'
    BY <1>3, <1>t DEF IInv, TypeOK, StagingOK, Whole, RecoverPlace, FirstStep, aux, Planned, PublishPlan
  <2>7. ApplyOK'
    BY <1>3, <1>t, Blanks, VersionedType DEF IInv, TypeOK, Coherent, Excused, Decided, JournalOK, Whole,
       RecoverOK, PlanOK, StagingOK, ApplyOK, RecoverPlace, FirstStep, aux, Place
  <2> QED
    BY <1>t, <2>1, <2>2, <2>3, <2>4, <2>5, <2>6, <2>7 DEF IInv
<1>4. CASE RecoverDone
  <2>1. Coherent' /\ JournalOK'
    BY <1>4, SameFiles DEF IInv, RecoverDone, Planned, PublishPlan, files, aux
  <2>2. NeverRefused'
    BY <1>4, <1>t DEF IInv, TypeOK, NeverRefused, RecoverDone, Planned, PublishPlan, files, aux
  <2>3. RecoverOK'
    BY <1>4, <1>t DEF IInv, TypeOK, RecoverOK, RecoverDone, Planned, PublishPlan, files, aux
  <2>4. PlanOK'
    BY <1>4, <1>t DEF IInv, TypeOK, PlanOK, RecoverDone, Planned, PublishPlan, files, aux
  <2>5. StagingOK'
    <3> USE DEF IInv, TypeOK, RecoverDone, RecoverOK, StagingOK, Planned, PublishPlan, files, aux
    <3>1. CASE round \in {"open", "sweep"}
      BY <1>4, <1>t, <3>1
    <3>2. CASE round = "snap"
      BY <1>4, <1>t, <3>2, VersionedType DEF Place
    <3>3. CASE round = "main"
      BY <1>4, <1>t, <3>3
    <3> QED
      BY <1>4, <1>t, <3>1, <3>2, <3>3 DEF Rounds
  <2>6. ApplyOK'
    BY <1>4, <1>t DEF IInv, TypeOK, ApplyOK, RecoverDone, Planned, PublishPlan, files, aux
  <2> QED
    BY <1>t, <2>1, <2>2, <2>3, <2>4, <2>5, <2>6 DEF IInv
<1>5. CASE PlanPut
  <2>1. Coherent' /\ JournalOK'
    BY <1>5, SameFiles DEF IInv, PlanPut, Publish, PublishPlan, Present, files
  <2>2. NeverRefused'
    BY <1>5, <1>t DEF IInv, TypeOK, NeverRefused, PlanPut, Publish, PublishPlan, Present, files
  <2>3. RecoverOK'
    BY <1>5, <1>t DEF IInv, TypeOK, RecoverOK, PlanPut, Publish, PublishPlan, Present, files
  <2>4. PlanOK'
    BY <1>5, <1>t, Blanks, VersionedType DEF IInv, TypeOK, PlanOK, PlanPut, Publish, PublishPlan, Present,
       files, Place
  <2>5. StagingOK'
    BY <1>5, <1>t DEF IInv, TypeOK, StagingOK, Whole, PlanPut, Publish, PublishPlan, Present, files, Planned
  <2>6. ApplyOK'
    BY <1>5, <1>t DEF IInv, TypeOK, ApplyOK, PlanPut, Publish, PublishPlan, Present, files
  <2> QED
    BY <1>t, <2>1, <2>2, <2>3, <2>4, <2>5, <2>6 DEF IInv
<1>6. CASE PlanDelete
  <2>1. Coherent' /\ JournalOK'
    BY <1>6, SameFiles DEF IInv, PlanDelete, Publish, HistoryPlan, Present, End, NewVids, files
  <2>2. NeverRefused'
    BY <1>6, <1>t DEF IInv, TypeOK, NeverRefused, PlanDelete, Publish, HistoryPlan, Present, End, NewVids, files
  <2>3. RecoverOK'
    BY <1>6, <1>t DEF IInv, TypeOK, RecoverOK, PlanDelete, Publish, HistoryPlan, Present, End, NewVids, files
  <2>4. PlanOK'
    <3>1. CASE mode = "disabled" /\ ~Present
      BY <1>6, <3>1, Quiet DEF PlanDelete, End
    <3>2. CASE mode = "disabled" /\ Present
      BY <1>6, <1>t, <3>2, Blanks DEF PlanDelete, Publish, HistoryPlan, PlanOK
    <3>3. CASE mode # "disabled"
      <4>1. PICK id \in NewVids(mode) :
              Publish(HistoryPlan(NullOnly(id),
                [gen |-> gens + 1, vid |-> id, marker |-> TRUE, attr |-> "plain"], TRUE))
        BY <1>6, <3>3 DEF PlanDelete
      <4>2. id \in Vid
        BY <1>t, <3>3 DEF NewVids, TypeOK, Modes, Vid
      <4> QED
        BY <1>6, <1>t, <3>3, <4>1, <4>2 DEF PlanDelete, Publish, HistoryPlan, PlanOK
    <3> QED
      BY <3>1, <3>2, <3>3
  <2>5. StagingOK'
    BY <1>6, <1>t DEF IInv, TypeOK, StagingOK, Whole, PlanDelete, Publish, HistoryPlan, Present, End, NewVids,
       files, Planned, PublishPlan
  <2>6. ApplyOK'
    BY <1>6, <1>t DEF IInv, TypeOK, ApplyOK, PlanDelete, Publish, HistoryPlan, Present, End, NewVids, files
  <2> QED
    BY <1>t, <2>1, <2>2, <2>3, <2>4, <2>5, <2>6 DEF IInv
<1>7. CASE SweepVersions
  <2>1. Coherent' /\ JournalOK'
    BY <1>7, SameFiles DEF IInv, SweepVersions, files, aux
  <2>2. NeverRefused'
    BY <1>7, <1>t DEF IInv, TypeOK, NeverRefused, SweepVersions, files, aux
  <2>3. RecoverOK'
    BY <1>7, <1>t DEF IInv, TypeOK, RecoverOK, SweepVersions, files, aux
  <2>4. PlanOK'
    BY <1>7, <1>t DEF IInv, TypeOK, PlanOK, SweepVersions, files, aux
  <2>5. StagingOK'
    BY <1>7, <1>t DEF IInv, TypeOK, StagingOK, Whole, SweepVersions, files, aux, Planned, PublishPlan
  <2>6. ApplyOK'
    BY <1>7, <1>t DEF IInv, TypeOK, ApplyOK, SweepVersions, files, aux
  <2> QED
    BY <1>t, <2>1, <2>2, <2>3, <2>4, <2>5, <2>6 DEF IInv
<1>8. CASE PlanDeleteVersion
  <2>1. Coherent' /\ JournalOK'
    BY <1>8, SameFiles DEF IInv, PlanDeleteVersion, Publish, HistoryPlan, PublishPlan, Present, End, IsLatest,
       files
  <2>2. NeverRefused'
    BY <1>8, <1>t DEF IInv, TypeOK, NeverRefused, PlanDeleteVersion, Publish, HistoryPlan, PublishPlan,
       Present, End, IsLatest, files
  <2>3. RecoverOK'
    BY <1>8, <1>t DEF IInv, TypeOK, RecoverOK, PlanDeleteVersion, Publish, HistoryPlan, PublishPlan, Present,
       End, IsLatest, files
  <2>4. PlanOK'
    BY <1>8, <1>t, Blanks, VersionedType DEF IInv, TypeOK, Coherent, Excused, Decided, JournalOK, Whole,
       RecoverOK, PlanOK, StagingOK, ApplyOK, PlanDeleteVersion, Publish, HistoryPlan, PublishPlan, Present,
       End, IsLatest, files, Place
  <2>5. StagingOK'
    BY <1>8, <1>t DEF IInv, TypeOK, StagingOK, Whole, PlanDeleteVersion, Publish, HistoryPlan, PublishPlan,
       Present, End, IsLatest, files, Planned
  <2>6. ApplyOK'
    BY <1>8, <1>t DEF IInv, TypeOK, ApplyOK, PlanDeleteVersion, Publish, HistoryPlan, PublishPlan, Present,
       End, IsLatest, files
  <2> QED
    BY <1>t, <2>1, <2>2, <2>3, <2>4, <2>5, <2>6 DEF IInv
<1>9. CASE Touch
  <2>1. NeverRefused'
    BY <1>9, <1>t DEF IInv, TypeOK, NeverRefused, Touch, End
  <2>2. Coherent'
    <3>1. Cur \in Place
      BY DEF Place
    <3>2. body' = body /\ journal' = journal /\ \A p \in Place : meta'[p].gen = meta[p].gen
      BY <1>9, <1>t, <3>1 DEF Touch, TypeOK, Object
    <3> QED
      BY <3>2, <1>t DEF IInv, Coherent, Excused, Decided, TypeOK
  <2>3. JournalOK'
    BY <1>9, <1>t DEF IInv, TypeOK, JournalOK, Whole, Touch, End
  <2>4. RecoverOK'
    BY <1>9, <1>t DEF IInv, TypeOK, RecoverOK, Touch, End
  <2>5. PlanOK'
    BY <1>9, <1>t DEF IInv, TypeOK, PlanOK, Touch, End
  <2>6. StagingOK'
    BY <1>9, <1>t DEF IInv, TypeOK, StagingOK, Whole, Touch, End, Planned, PublishPlan
  <2>7. ApplyOK'
    BY <1>9, <1>t DEF IInv, TypeOK, ApplyOK, Touch, End
  <2> QED
    BY <1>t, <2>1, <2>2, <2>3, <2>4, <2>5, <2>6, <2>7 DEF IInv
<1>10. CASE SetMode
  <2>1. Coherent' /\ JournalOK'
    BY <1>10, SameFiles DEF IInv, SetMode, files, aux
  <2>2. NeverRefused'
    BY <1>10, <1>t DEF IInv, TypeOK, NeverRefused, SetMode, files, aux
  <2>3. RecoverOK'
    BY <1>10, <1>t DEF IInv, TypeOK, RecoverOK, SetMode, files, aux
  <2>4. PlanOK'
    BY <1>10, <1>t, Blanks DEF IInv, TypeOK, PlanOK, JournalOK, Whole, ApplyOK, RecoverOK, SetMode, files, aux,
       Place
  <2>5. StagingOK'
    BY <1>10, <1>t DEF IInv, TypeOK, StagingOK, Whole, SetMode, files, aux, Planned, PublishPlan
  <2>6. ApplyOK'
    BY <1>10, <1>t DEF IInv, TypeOK, ApplyOK, SetMode, files, aux
  <2> QED
    BY <1>t, <2>1, <2>2, <2>3, <2>4, <2>5, <2>6 DEF IInv
<1>11. CASE AssignNull
  <2>1. NeverRefused'
    BY <1>11, <1>t DEF IInv, TypeOK, NeverRefused, AssignNull, Versioned, aux
  <2>2. Coherent'
    BY <1>11, <1>t DEF IInv, TypeOK, Coherent, Excused, Decided, AssignNull, Versioned, aux
  <2>3. JournalOK'
    BY <1>11, <1>t DEF IInv, TypeOK, JournalOK, Whole, AssignNull, Versioned, aux
  <2>4. RecoverOK'
    BY <1>11, <1>t DEF IInv, TypeOK, RecoverOK, AssignNull, Versioned, aux
  <2>5. PlanOK'
    BY <1>11, <1>t DEF IInv, TypeOK, PlanOK, AssignNull, Versioned, aux
  <2>6. StagingOK'
    BY <1>11, <1>t DEF IInv, TypeOK, StagingOK, Whole, AssignNull, Versioned, aux, Planned, PublishPlan
  <2>7. ApplyOK'
    BY <1>11, <1>t DEF IInv, TypeOK, ApplyOK, AssignNull, Versioned, aux
  <2> QED
    BY <1>t, <2>1, <2>2, <2>3, <2>4, <2>5, <2>6, <2>7 DEF IInv
<1>12. CASE OpenVersion
  <2>1. Coherent' /\ JournalOK'
    BY <1>12, SameFiles DEF IInv, OpenVersion, files, aux
  <2>2. NeverRefused'
    BY <1>12, <1>t DEF IInv, TypeOK, NeverRefused, OpenVersion, files, aux
  <2>3. RecoverOK'
    BY <1>12, <1>t DEF IInv, TypeOK, RecoverOK, OpenVersion, files, aux
  <2>4. PlanOK'
    BY <1>12, <1>t DEF IInv, TypeOK, PlanOK, OpenVersion, files, aux
  <2>5. StagingOK'
    BY <1>12, <1>t DEF IInv, TypeOK, StagingOK, Whole, OpenVersion, files, aux, Planned, PublishPlan
  <2>6. ApplyOK'
    BY <1>12, <1>t DEF IInv, TypeOK, ApplyOK, OpenVersion, files, aux
  <2> QED
    BY <1>t, <2>1, <2>2, <2>3, <2>4, <2>5, <2>6 DEF IInv
<1>13. CASE Read
  <2>1. Coherent' /\ JournalOK'
    BY <1>13, SameFiles DEF IInv, Read, End, files
  <2>2. NeverRefused'
    BY <1>13, <1>t DEF IInv, TypeOK, NeverRefused, Read, End, files
  <2>3. RecoverOK'
    BY <1>13, <1>t DEF IInv, TypeOK, RecoverOK, Read, End, files
  <2>4. PlanOK'
    BY <1>13, <1>t DEF IInv, TypeOK, PlanOK, Read, End, files
  <2>5. StagingOK'
    BY <1>13, <1>t DEF IInv, TypeOK, StagingOK, Whole, Read, End, files, Planned, PublishPlan
  <2>6. ApplyOK'
    BY <1>13, <1>t DEF IInv, TypeOK, ApplyOK, Read, End, files
  <2> QED
    BY <1>t, <2>1, <2>2, <2>3, <2>4, <2>5, <2>6 DEF IInv
<1>14. CASE StageBody
  <2>1. NeverRefused'
    BY <1>14, <1>t DEF IInv, TypeOK, NeverRefused, StageBody, StagedBody, Planned, PublishPlan, aux
  <2>2. Coherent'
    BY <1>14, <1>t DEF IInv, TypeOK, Coherent, Excused, Decided, StageBody, StagedBody, Planned, PublishPlan,
       aux
  <2>3. JournalOK'
    BY <1>14, <1>t, Blanks, VersionedType DEF IInv, TypeOK, Coherent, Excused, Decided, JournalOK, Whole,
       RecoverOK, PlanOK, StagingOK, ApplyOK, StageBody, StagedBody, Planned, PublishPlan, aux, Place
  <2>4. RecoverOK'
    BY <1>14, <1>t DEF IInv, TypeOK, RecoverOK, StageBody, StagedBody, Planned, PublishPlan, aux
  <2>5. PlanOK'
    BY <1>14, <1>t DEF IInv, TypeOK, PlanOK, StageBody, StagedBody, Planned, PublishPlan, aux
  <2>6. StagingOK'
    BY <1>14, <1>t, Blanks, VersionedType DEF IInv, TypeOK, Coherent, Excused, Decided, JournalOK, Whole,
       RecoverOK, PlanOK, StagingOK, ApplyOK, StageBody, StagedBody, Planned, PublishPlan, aux, Place
  <2>7. ApplyOK'
    BY <1>14, <1>t DEF IInv, TypeOK, ApplyOK, StageBody, StagedBody, Planned, PublishPlan, aux
  <2> QED
    BY <1>t, <2>1, <2>2, <2>3, <2>4, <2>5, <2>6, <2>7 DEF IInv
<1>15. CASE StageMeta
  <2>1. NeverRefused'
    BY <1>15, <1>t DEF IInv, TypeOK, NeverRefused, StageMeta, Planned, PublishPlan, aux
  <2>2. Coherent'
    BY <1>15, <1>t DEF IInv, TypeOK, Coherent, Excused, Decided, StageMeta, Planned, PublishPlan, aux
  <2>3. JournalOK'
    BY <1>15, <1>t, Blanks, VersionedType DEF IInv, TypeOK, Coherent, Excused, Decided, JournalOK, Whole,
       RecoverOK, PlanOK, StagingOK, ApplyOK, StageMeta, Planned, PublishPlan, aux, Place
  <2>4. RecoverOK'
    BY <1>15, <1>t DEF IInv, TypeOK, RecoverOK, StageMeta, Planned, PublishPlan, aux
  <2>5. PlanOK'
    BY <1>15, <1>t DEF IInv, TypeOK, PlanOK, StageMeta, Planned, PublishPlan, aux
  <2>6. StagingOK'
    BY <1>15, <1>t DEF IInv, TypeOK, StagingOK, Whole, StageMeta, Planned, PublishPlan, aux
  <2>7. ApplyOK'
    BY <1>15, <1>t DEF IInv, TypeOK, ApplyOK, StageMeta, Planned, PublishPlan, aux
  <2> QED
    BY <1>t, <2>1, <2>2, <2>3, <2>4, <2>5, <2>6, <2>7 DEF IInv
<1>16. CASE Commit
  <2>1. NeverRefused'
    BY <1>16, <1>t DEF IInv, TypeOK, NeverRefused, Commit, Planned, PublishPlan, FirstStep
  <2>2. Coherent'
    BY <1>16, <1>t, Blanks, VersionedType DEF IInv, TypeOK, Coherent, Excused, Decided, JournalOK, Whole,
       RecoverOK, PlanOK, StagingOK, ApplyOK, Commit, Planned, PublishPlan, FirstStep, Place
  <2>3. JournalOK'
    BY <1>16, <1>t, Blanks, VersionedType DEF IInv, TypeOK, Coherent, Excused, Decided, JournalOK, Whole,
       RecoverOK, PlanOK, StagingOK, ApplyOK, Commit, Planned, PublishPlan, FirstStep, Place
  <2>4. RecoverOK'
    BY <1>16, <1>t DEF IInv, TypeOK, RecoverOK, Commit, Planned, PublishPlan, FirstStep
  <2>5. PlanOK'
    BY <1>16, <1>t DEF IInv, TypeOK, PlanOK, Commit, Planned, PublishPlan, FirstStep
  <2>6. StagingOK'
    BY <1>16, <1>t DEF IInv, TypeOK, StagingOK, Whole, Commit, Planned, PublishPlan, FirstStep
  <2>7. ApplyOK'
    BY <1>16, <1>t, Blanks, VersionedType DEF IInv, TypeOK, Coherent, Excused, Decided, JournalOK, Whole,
       RecoverOK, PlanOK, StagingOK, ApplyOK, Commit, Planned, PublishPlan, FirstStep, Place
  <2> QED
    BY <1>t, <2>1, <2>2, <2>3, <2>4, <2>5, <2>6, <2>7 DEF IInv
<1>17. CASE PublishBody
  <2>1. NeverRefused'
    BY <1>17, <1>t DEF IInv, TypeOK, NeverRefused, PublishBody, AtStep, Effect, aux
  <2>2. Coherent'
    BY <1>17, <1>t, Blanks DEF IInv, TypeOK, Coherent, Excused, Decided, JournalOK, Whole, ApplyOK, RecoverOK,
       PublishBody, AtStep, Effect, aux, Place
  <2>3. JournalOK'
    BY <1>17, <1>t DEF IInv, TypeOK, JournalOK, Whole, PublishBody, AtStep, Effect, aux
  <2>4. RecoverOK'
    BY <1>17, <1>t DEF IInv, TypeOK, RecoverOK, PublishBody, AtStep, Effect, aux
  <2>5. PlanOK'
    BY <1>17, <1>t DEF IInv, TypeOK, PlanOK, PublishBody, AtStep, Effect, aux
  <2>6. StagingOK'
    BY <1>17, <1>t DEF IInv, TypeOK, StagingOK, Whole, PublishBody, AtStep, Effect, aux, Planned, PublishPlan
  <2>7. ApplyOK'
    BY <1>17, <1>t DEF IInv, TypeOK, ApplyOK, PublishBody, AtStep, Effect, aux
  <2> QED
    BY <1>t, <2>1, <2>2, <2>3, <2>4, <2>5, <2>6, <2>7 DEF IInv
<1>18. CASE PublishMeta
  <2>1. NeverRefused'
    BY <1>18, <1>t DEF IInv, TypeOK, NeverRefused, PublishMeta, AtStep, Effect, aux
  <2>2. Coherent'
    BY <1>18, <1>t, Blanks DEF IInv, TypeOK, Coherent, Excused, Decided, JournalOK, Whole, ApplyOK, RecoverOK,
       PublishMeta, AtStep, Effect, aux, Place
  <2>3. JournalOK'
    BY <1>18, <1>t DEF IInv, TypeOK, JournalOK, Whole, PublishMeta, AtStep, Effect, aux
  <2>4. RecoverOK'
    BY <1>18, <1>t, Blanks, VersionedType DEF IInv, TypeOK, RecoverOK, PublishMeta, AtStep, Effect, aux, Place
  <2>5. PlanOK'
    BY <1>18, <1>t DEF IInv, TypeOK, PlanOK, PublishMeta, AtStep, Effect, aux
  <2>6. StagingOK'
    BY <1>18, <1>t DEF IInv, TypeOK, StagingOK, Whole, PublishMeta, AtStep, Effect, aux, Planned, PublishPlan
  <2>7. ApplyOK'
    BY <1>18, <1>t DEF IInv, TypeOK, ApplyOK, PublishMeta, AtStep, Effect, aux
  <2> QED
    BY <1>t, <2>1, <2>2, <2>3, <2>4, <2>5, <2>6, <2>7 DEF IInv
<1>19. CASE \E v \in Vid : RemoveVersion(v)
  <2>1. NeverRefused'
    BY <1>19, <1>t DEF IInv, TypeOK, NeverRefused, RemoveVersion, AtStep, Effect, aux
  <2>2. Coherent'
    <3>1. PICK v \in Vid : RemoveVersion(v)
      BY <1>19
    <3>2. at = Cur /\ journal[Cur].live /\ v \in journal[Cur].remove_versions /\ v # Cur
      BY <3>1, <1>t DEF IInv, TypeOK, JournalOK, ApplyOK, RemoveVersion, AtStep, Place
    <3>3. /\ journal'[Cur] = journal[Cur]
          /\ \A p \in Place \ {v} : body'[p] = body[p] /\ meta'[p] = meta[p] /\ journal'[p] = journal[p]
      BY <3>1, <3>2, <1>t DEF TypeOK, RemoveVersion, Place
    <3> QED
      BY <3>2, <3>3 DEF IInv, Coherent, Excused, Decided
  <2>3. JournalOK'
    <3>1. \A p \in Place : Whole(p) => Whole(p)'
      BY <1>19, <1>t, Blanks DEF RemoveVersion, Whole, TypeOK
    <3>2. \A p \in Place : journal'[p].live => journal'[p] = journal[p]
      BY <1>19, <1>t, Blanks DEF RemoveVersion, TypeOK
    <3> QED
      BY <3>1, <3>2 DEF IInv, JournalOK
  <2>4. RecoverOK'
    BY <1>19, <1>t, Blanks, VersionedType DEF IInv, TypeOK, RecoverOK, RemoveVersion, AtStep, Effect, aux, Place
  <2>5. PlanOK'
    BY <1>19, <1>t DEF IInv, TypeOK, PlanOK, RemoveVersion, AtStep, Effect, aux
  <2>6. StagingOK'
    BY <1>19, <1>t DEF IInv, TypeOK, StagingOK, Whole, RemoveVersion, AtStep, Effect, aux, Planned, PublishPlan
  <2>7. ApplyOK'
    BY <1>19, <1>t, Blanks DEF IInv, TypeOK, ApplyOK, JournalOK, Whole, RecoverOK, RemoveVersion, AtStep,
       Effect, aux, Place
  <2> QED
    BY <1>t, <2>1, <2>2, <2>3, <2>4, <2>5, <2>6, <2>7 DEF IInv
<1>20. CASE RemovedVersions
  <2>1. Coherent' /\ JournalOK'
    BY <1>20, SameFiles DEF IInv, RemovedVersions, Occupied, AfterRemove, AtStep, Effect, aux
  <2>2. NeverRefused'
    BY <1>20, <1>t DEF IInv, TypeOK, NeverRefused, RemovedVersions, Occupied, AfterRemove, AtStep, Effect, aux
  <2>3. RecoverOK'
    BY <1>20, <1>t DEF IInv, TypeOK, RecoverOK, RemovedVersions, Occupied, AfterRemove, AtStep, Effect, aux
  <2>4. PlanOK'
    BY <1>20, <1>t DEF IInv, TypeOK, PlanOK, RemovedVersions, Occupied, AfterRemove, AtStep, Effect, aux
  <2>5. StagingOK'
    BY <1>20, <1>t DEF IInv, TypeOK, StagingOK, Whole, RemovedVersions, Occupied, AfterRemove, AtStep, Effect,
       aux, Planned, PublishPlan
  <2>6. ApplyOK'
    BY <1>20, <1>t DEF IInv, TypeOK, ApplyOK, RemovedVersions, Occupied, AfterRemove, AtStep, Effect, aux
  <2> QED
    BY <1>t, <2>1, <2>2, <2>3, <2>4, <2>5, <2>6 DEF IInv
<1>21. CASE MarkerBody
  <2>1. NeverRefused'
    BY <1>21, <1>t DEF IInv, TypeOK, NeverRefused, MarkerBody, AtStep, Effect, aux
  <2>2. Coherent'
    BY <1>21, <1>t, Blanks DEF IInv, TypeOK, Coherent, Excused, Decided, JournalOK, Whole, ApplyOK, RecoverOK,
       MarkerBody, AtStep, Effect, aux, Place
  <2>3. JournalOK'
    BY <1>21, <1>t DEF IInv, TypeOK, JournalOK, Whole, MarkerBody, AtStep, Effect, aux
  <2>4. RecoverOK'
    BY <1>21, <1>t DEF IInv, TypeOK, RecoverOK, MarkerBody, AtStep, Effect, aux
  <2>5. PlanOK'
    BY <1>21, <1>t DEF IInv, TypeOK, PlanOK, MarkerBody, AtStep, Effect, aux
  <2>6. StagingOK'
    BY <1>21, <1>t DEF IInv, TypeOK, StagingOK, Whole, MarkerBody, AtStep, Effect, aux, Planned, PublishPlan
  <2>7. ApplyOK'
    BY <1>21, <1>t, Blanks DEF IInv, TypeOK, ApplyOK, JournalOK, Whole, RecoverOK, MarkerBody, AtStep, Effect,
       aux, Place
  <2> QED
    BY <1>t, <2>1, <2>2, <2>3, <2>4, <2>5, <2>6, <2>7 DEF IInv
<1>22. CASE MarkerMeta
  <2>1. NeverRefused'
    BY <1>22, <1>t DEF IInv, TypeOK, NeverRefused, MarkerMeta, AtStep, Effect, aux
  <2>2. Coherent'
    BY <1>22, <1>t, Blanks DEF IInv, TypeOK, Coherent, Excused, Decided, JournalOK, Whole, ApplyOK, RecoverOK,
       MarkerMeta, AtStep, Effect, aux, Place
  <2>3. JournalOK'
    BY <1>22, <1>t DEF IInv, TypeOK, JournalOK, Whole, MarkerMeta, AtStep, Effect, aux
  <2>4. RecoverOK'
    BY <1>22, <1>t, Blanks DEF IInv, TypeOK, RecoverOK, JournalOK, Whole, ApplyOK, MarkerMeta, AtStep, Effect,
       aux, Place
  <2>5. PlanOK'
    BY <1>22, <1>t DEF IInv, TypeOK, PlanOK, MarkerMeta, AtStep, Effect, aux
  <2>6. StagingOK'
    BY <1>22, <1>t DEF IInv, TypeOK, StagingOK, Whole, MarkerMeta, AtStep, Effect, aux, Planned, PublishPlan
  <2>7. ApplyOK'
    BY <1>22, <1>t, Blanks DEF IInv, TypeOK, ApplyOK, JournalOK, Whole, RecoverOK, MarkerMeta, AtStep, Effect,
       aux, Place
  <2> QED
    BY <1>t, <2>1, <2>2, <2>3, <2>4, <2>5, <2>6, <2>7 DEF IInv
<1>23. CASE ClearBody
  <2>1. NeverRefused'
    BY <1>23, <1>t DEF IInv, TypeOK, NeverRefused, ClearBody, AtStep, Effect, aux
  <2>2. Coherent'
    BY <1>23, <1>t, Blanks DEF IInv, TypeOK, Coherent, Excused, Decided, JournalOK, Whole, ApplyOK, RecoverOK,
       ClearBody, AtStep, Effect, aux, Place
  <2>3. JournalOK'
    BY <1>23, <1>t DEF IInv, TypeOK, JournalOK, Whole, ClearBody, AtStep, Effect, aux
  <2>4. RecoverOK'
    BY <1>23, <1>t DEF IInv, TypeOK, RecoverOK, ClearBody, AtStep, Effect, aux
  <2>5. PlanOK'
    BY <1>23, <1>t DEF IInv, TypeOK, PlanOK, ClearBody, AtStep, Effect, aux
  <2>6. StagingOK'
    BY <1>23, <1>t DEF IInv, TypeOK, StagingOK, Whole, ClearBody, AtStep, Effect, aux, Planned, PublishPlan
  <2>7. ApplyOK'
    BY <1>23, <1>t, Blanks DEF IInv, TypeOK, ApplyOK, JournalOK, Whole, RecoverOK, ClearBody, AtStep, Effect,
       aux, Place
  <2> QED
    BY <1>t, <2>1, <2>2, <2>3, <2>4, <2>5, <2>6, <2>7 DEF IInv
<1>24. CASE ClearMeta
  <2>1. NeverRefused'
    BY <1>24, <1>t DEF IInv, TypeOK, NeverRefused, ClearMeta, AtStep, Effect, aux
  <2>2. Coherent'
    BY <1>24, <1>t, Blanks DEF IInv, TypeOK, Coherent, Excused, Decided, JournalOK, Whole, ApplyOK, RecoverOK,
       ClearMeta, AtStep, Effect, aux, Place
  <2>3. JournalOK'
    BY <1>24, <1>t DEF IInv, TypeOK, JournalOK, Whole, ClearMeta, AtStep, Effect, aux
  <2>4. RecoverOK'
    BY <1>24, <1>t, Blanks, VersionedType DEF IInv, TypeOK, RecoverOK, ClearMeta, AtStep, Effect, aux, Place
  <2>5. PlanOK'
    BY <1>24, <1>t DEF IInv, TypeOK, PlanOK, ClearMeta, AtStep, Effect, aux
  <2>6. StagingOK'
    BY <1>24, <1>t DEF IInv, TypeOK, StagingOK, Whole, ClearMeta, AtStep, Effect, aux, Planned, PublishPlan
  <2>7. ApplyOK'
    BY <1>24, <1>t, Blanks DEF IInv, TypeOK, ApplyOK, JournalOK, Whole, RecoverOK, ClearMeta, AtStep, Effect,
       aux, Place
  <2> QED
    BY <1>t, <2>1, <2>2, <2>3, <2>4, <2>5, <2>6, <2>7 DEF IInv
<1>25. CASE RetireJournal
  <2>1. NeverRefused'
    BY <1>25, <1>t DEF IInv, TypeOK, NeverRefused, RetireJournal, AtStep, Effect, aux
  <2>2. Coherent'
    <3> USE DEF RetireJournal, AtStep, Effect
    <3>1. ASSUME NEW p \in Place, ~Excused(p)' PROVE body[p] = meta[p].gen
      <4>1. CASE ~Excused(p)
        BY <3>1, <4>1 DEF IInv, Coherent
      <4>2. CASE p = at /\ Excused(p)
        BY <1>25, <1>t, <4>2, Blanks DEF IInv, TypeOK, ApplyOK, JournalOK, Whole, Excused, Decided
      <4>3. CASE p # at /\ Excused(p)
        BY <1>25, <1>t, <3>1, <4>3, Blanks DEF IInv, TypeOK, ApplyOK, Excused, Decided, Place
      <4> QED
        BY <4>1, <4>2, <4>3
    <3> QED
      BY <1>25, <3>1 DEF Coherent
  <2>3. JournalOK'
    BY <1>25, <1>t, Blanks, VersionedType DEF IInv, TypeOK, JournalOK, Whole, RetireJournal, AtStep, Effect,
       aux, Place
  <2>4. RecoverOK'
    BY <1>25, <1>t DEF IInv, TypeOK, RecoverOK, RetireJournal, AtStep, Effect, aux
  <2>5. PlanOK'
    BY <1>25, <1>t DEF IInv, TypeOK, PlanOK, RetireJournal, AtStep, Effect, aux
  <2>6. StagingOK'
    BY <1>25, <1>t DEF IInv, TypeOK, StagingOK, Whole, RetireJournal, AtStep, Effect, aux, Planned, PublishPlan
  <2>7. ApplyOK'
    BY <1>25, <1>t, Blanks, VersionedType DEF IInv, TypeOK, ApplyOK, RetireJournal, AtStep, Effect, aux, Place
  <2> QED
    BY <1>t, <2>1, <2>2, <2>3, <2>4, <2>5, <2>6, <2>7 DEF IInv
<1>26. CASE CleanStage
  <2>1. NeverRefused'
    BY <1>26, <1>t DEF IInv, TypeOK, NeverRefused, CleanStage, AtStep, Effect, aux
  <2>2. Coherent'
    BY <1>26, <1>t DEF IInv, TypeOK, Coherent, Excused, Decided, CleanStage, AtStep, Effect, aux
  <2>3. JournalOK'
    BY <1>26, <1>t, Blanks, VersionedType DEF IInv, TypeOK, JournalOK, Whole, CleanStage, AtStep, Effect, aux,
       Place
  <2>4. RecoverOK'
    BY <1>26, <1>t, Blanks DEF IInv, TypeOK, RecoverOK, JournalOK, Whole, ApplyOK, CleanStage, AtStep, Effect,
       aux, Place
  <2>5. PlanOK'
    BY <1>26, <1>t, Blanks DEF IInv, TypeOK, PlanOK, JournalOK, Whole, ApplyOK, RecoverOK, CleanStage, AtStep,
       Effect, aux, Place
  <2>6. StagingOK'
    BY <1>26, <1>t DEF IInv, TypeOK, StagingOK, Whole, CleanStage, AtStep, Effect, aux, Planned, PublishPlan
  <2>7. ApplyOK'
    BY <1>26, <1>t DEF IInv, TypeOK, ApplyOK, CleanStage, AtStep, Effect, aux
  <2> QED
    BY <1>t, <2>1, <2>2, <2>3, <2>4, <2>5, <2>6, <2>7 DEF IInv
<1>27. CASE Finish
  <2>1. NeverRefused' /\ RecoverOK' /\ PlanOK' /\ StagingOK' /\ ApplyOK'
    BY <1>27, Quiet DEF Finish, End
  <2>2. Coherent'
    BY <1>27, <1>t, Blanks, VersionedType DEF IInv, TypeOK, Coherent, Excused, Decided, Finish, End, Place
  <2>3. JournalOK'
    BY <1>27, <1>t, Blanks, VersionedType DEF IInv, TypeOK, JournalOK, Whole, Finish, End, Place
  <2> QED
    BY <1>t, <2>1, <2>2, <2>3 DEF IInv
<1>28. CASE Fault
  <2>1. NeverRefused'
    BY <1>28, <1>t DEF IInv, TypeOK, NeverRefused, Fault, FirstStep, End
  <2>2. Coherent'
    BY <1>28, <1>t DEF IInv, TypeOK, Coherent, Excused, Decided, Fault, FirstStep, End
  <2>3. JournalOK'
    <3>1. \A p \in Place : Whole(p) => Whole(p)'
      BY <1>28, <1>t, Blanks DEF Fault, Whole, TypeOK
    <3>2. journal' = journal
      BY <1>28 DEF Fault
    <3> QED
      BY <3>1, <3>2 DEF IInv, JournalOK
  <2>4. RecoverOK'
    BY <1>28, <1>t DEF IInv, TypeOK, RecoverOK, Fault, FirstStep, End
  <2>5. PlanOK'
    BY <1>28, <1>t DEF IInv, TypeOK, PlanOK, Fault, FirstStep, End
  <2>6. StagingOK'
    BY <1>28, <1>t DEF IInv, TypeOK, StagingOK, Whole, Fault, FirstStep, End, Planned, PublishPlan
  <2>7. ApplyOK'
    BY <1>28, <1>t DEF IInv, TypeOK, ApplyOK, Fault, FirstStep, End
  <2> QED
    BY <1>t, <2>1, <2>2, <2>3, <2>4, <2>5, <2>6, <2>7 DEF IInv
<1>29. CASE Crash
  <2>1. Coherent' /\ JournalOK'
    BY <1>29, SameFiles DEF IInv, Crash, files
  <2>2. NeverRefused'
    BY <1>29, <1>t DEF IInv, TypeOK, NeverRefused, Crash, files
  <2>3. RecoverOK'
    BY <1>29, <1>t DEF IInv, TypeOK, RecoverOK, Crash, files
  <2>4. PlanOK'
    BY <1>29, <1>t DEF IInv, TypeOK, PlanOK, Crash, files
  <2>5. StagingOK'
    BY <1>29, <1>t DEF IInv, TypeOK, StagingOK, Whole, Crash, files, Planned, PublishPlan
  <2>6. ApplyOK'
    BY <1>29, <1>t DEF IInv, TypeOK, ApplyOK, Crash, files
  <2> QED
    BY <1>t, <2>1, <2>2, <2>3, <2>4, <2>5, <2>6 DEF IInv
<1>30. CASE Restart
  <2>1. Coherent' /\ JournalOK'
    BY <1>30, SameFiles DEF IInv, Restart, files, aux
  <2>2. NeverRefused'
    BY <1>30, <1>t DEF IInv, TypeOK, NeverRefused, Restart, files, aux
  <2>3. RecoverOK'
    BY <1>30, <1>t, Blanks, VersionedType DEF IInv, TypeOK, RecoverOK, Restart, files, aux, Place
  <2>4. PlanOK'
    BY <1>30, <1>t DEF IInv, TypeOK, PlanOK, Restart, files, aux
  <2>5. StagingOK'
    BY <1>30, <1>t DEF IInv, TypeOK, StagingOK, Whole, Restart, files, aux, Planned, PublishPlan
  <2>6. ApplyOK'
    BY <1>30, <1>t DEF IInv, TypeOK, ApplyOK, Restart, files, aux
  <2> QED
    BY <1>t, <2>1, <2>2, <2>3, <2>4, <2>5, <2>6 DEF IInv
<1>31. CASE Open
  <2>1. Coherent' /\ JournalOK'
    BY <1>31, SameFiles DEF IInv, Open, files, aux
  <2>2. NeverRefused'
    BY <1>31, <1>t DEF IInv, TypeOK, Coherent, Excused, RecoverOK, NeverRefused, Place, Open, files, aux
  <2>3. RecoverOK'
    BY <1>31, <1>t DEF IInv, TypeOK, RecoverOK, Open, files, aux
  <2>4. PlanOK'
    BY <1>31, <1>t DEF IInv, TypeOK, PlanOK, Open, files, aux
  <2>5. StagingOK'
    BY <1>31, <1>t DEF IInv, TypeOK, StagingOK, Whole, Open, files, aux, Planned, PublishPlan
  <2>6. ApplyOK'
    BY <1>31, <1>t DEF IInv, TypeOK, ApplyOK, Open, files, aux
  <2> QED
    BY <1>t, <2>1, <2>2, <2>3, <2>4, <2>5, <2>6 DEF IInv
<1> QED
  BY <1>1, <1>2, <1>3, <1>4, <1>5, <1>6, <1>7, <1>8, <1>9, <1>10, <1>11, <1>12, <1>13, <1>14, <1>15, <1>16,
     <1>17, <1>18, <1>19, <1>20, <1>21, <1>22, <1>23, <1>24, <1>25, <1>26, <1>27, <1>28, <1>29, <1>30,
     <1>31 DEF Next, Proceed, Apply

\* Every reachable state is well typed.
THEOREM TypeCorrect == Spec => []TypeOK
<1>1. Init => TypeOK
  BY InitType
<1>2. TypeOK /\ [Next]_vars => TypeOK'
  BY NextType
<1> QED
  BY <1>1, <1>2, PTL DEF Spec

\* The inductive invariant holds in every reachable state.
THEOREM Invariance == Spec => []IInv
<1>1. Init => IInv
  BY InitInv
<1>2. IInv /\ [Next]_vars => IInv'
  BY NextInv
<1> QED
  BY <1>1, <1>2, PTL DEF Spec

\* publication.rs: whatever fails and whenever the process dies, body and
\* metadata of a place disagree only under a journal that recovery completes.
THEOREM CrashAtomic == Spec => []Coherent
<1>1. IInv => Coherent
  BY DEF IInv
<1> QED
  BY <1>1, Invariance, PTL

\* io.rs rebuild_bucket_index: no sequence of operations, errors and crashes
\* makes the store refuse to open at the next start.
THEOREM AlwaysOpens == Spec => []NeverRefused
<1>1. IInv => NeverRefused
  BY DEF IInv
<1> QED
  BY <1>1, Invariance, PTL

-----------------------------------------------------------------------------
(***************************************************************************)
(* Refinement.  A step of the protocol changes the current object and the  *)
(* history a reader finds (the view) only where it decides: at a commit,   *)
(* or at a rename over object.meta.json.  The second inductive invariant   *)
(* ties the plan in flight to the view, so that each decision is one step  *)
(* of ObjectHistory.                                                       *)
(***************************************************************************)
View == <<LogicalCurrent, LogicalHistory>>

\* A publication is planned and its main record is not yet decided.
Planning ==
    \/ round = "snap" /\ pc \in {"recover", "stageBody", "stageMeta", "commit", "apply"}
    \/ round = "main" /\ pc \in {"recover", "stageBody", "stageMeta", "commit"}

\* What the process is doing fits the request it serves.
TaskOK ==
    /\ pc \in {"idle", "down"} \/ round = "boot" => task.kind = "none"
    /\ pc \notin {"idle", "down"} /\ round # "boot" => task.kind # "none"
    /\ pc = "down" => round = "boot"
    /\ round = "boot" => pc \in {"down", "recover", "apply"} /\ attempt = "recover"
    /\ pc = "mode" => task.kind = "setMode"
    /\ task.kind = "setMode" => task.mode \in {"enabled", "suspended"}
    /\ round = "sweep" => task.kind \in {"deleteVersion", "getVersion"}
    /\ round = "snap" => task.kind \in {"put", "delete"}
    /\ round = "main" => task.kind \in {"put", "delete", "deleteVersion"}
    /\ pc = "apply" /\ round = "main" => at = Cur
    /\ pc # "idle" => seen = NoStage

\* The effect of a request lands once: with its main record, the touch or the mode.
LandedOK ==
    /\ task.kind = "none" => ~landed
    /\ task.kind = "setMode" => (landed <=> pc # "mode")
    /\ pc \in {"recover", "plan", "stageBody", "stageMeta", "commit"} /\ task.kind # "setMode" => ~landed
    /\ pc = "apply" /\ (attempt = "recover" \/ round = "snap") /\ task.kind # "setMode" => ~landed
    /\ pc = "apply" /\ attempt # "recover" => (landed <=> round = "main")
    /\ pc = "finish" => landed

\* Snapshots lie under their own identity, an object and its snapshot are one
\* generation, and nothing carries an identity that was never drawn.
IdentityOK ==
    /\ \A v \in Vid : LogicalHistory[v].gen # 0 => LogicalHistory[v].vid = v
    /\ LogicalCurrent.gen # 0 => LogicalHistory[IdOf(LogicalCurrent)].gen \in {0, LogicalCurrent.gen}
    /\ mode = "disabled" => \A v \in Vid : LogicalHistory[v] = NoObject
    /\ unused \subseteq Uuid
    /\ \A u \in unused : ~journal[u].live /\ LogicalHistory[u].gen = 0 /\ LogicalCurrent.vid # u

\* A decided record leaves nothing behind that would resurface without it.
DecisionOK ==
    /\ \A p \in Place : journal[p].live /\ journal[p].publish =>
         stage[p].meta.gen # 0 \/ (journal[Cur].live /\ p \in journal[Cur].remove_versions)
    /\ journal[Cur].live /\ journal[Cur].marker.gen # 0 =>
         \/ journal[Cur].marker.vid \in journal[Cur].remove_versions
         \/ ~journal[journal[Cur].marker.vid].live
    /\ pc = "apply" /\ step \in {"markerBody", "markerMeta", "clearBody", "clearMeta", "retire"} =>
         \A v \in journal[at].remove_versions : ~journal[v].live
    /\ pc = "commit" /\ Planned.record.publish => stage[at].meta = Planned.object

\* An identity drawn for the publication in flight: nothing carries it yet.
Reserved(id) ==
    id \in Uuid => /\ id \notin unused /\ ~journal[id].live
                   /\ LogicalHistory[id].gen = 0 /\ LogicalCurrent.vid # id

\* The plans of put, delete and deleteVersion, in terms of the view.
PutPlanned ==
    LET o == want.object IN
    /\ o.gen # 0 /\ ~o.marker /\ o.attr = task.attr
    /\ o.vid \in NewVids(mode) /\ Reserved(o.vid)
    /\ want.record = PublishPlan(NullOnly(o.vid), o, Cur).record

DeletePlanned ==
    LET k == want.record.marker IN
    /\ mode = "disabled" => /\ LogicalCurrent.gen # 0
                            /\ want.record = HistoryPlan({}, NoObject, TRUE).record
    /\ mode # "disabled" => /\ k.gen # 0 /\ k.marker /\ k.vid \in NewVids(mode) /\ Reserved(k.vid)
                            /\ want.record = HistoryPlan(NullOnly(k.vid), k, TRUE).record

PurgesCurrent == LogicalCurrent.gen # 0 /\ LogicalCurrent.vid = task.vid
Promotable(w) ==
    /\ PurgesCurrent \/ LogicalCurrent.gen = 0
    /\ History!IsLatest(w, task.vid) /\ ~LogicalHistory[w].marker

PurgePlanned ==
    /\ PurgesCurrent \/ LogicalHistory[task.vid].gen # 0
    /\ \/ \E w \in Vid : /\ Promotable(w)
                         /\ want = PublishPlan({task.vid, w}, LogicalHistory[w], w)
       \/ /\ \A w \in Vid : ~Promotable(w)
          /\ want = HistoryPlan({task.vid}, NoObject, PurgesCurrent \/ LogicalCurrent.gen = 0)

\* The plan in flight is the one the view calls for, and the snapshot that it
\* owes is taken first.
IntentOK ==
    /\ Planning /\ task.kind = "put" => PutPlanned
    /\ Planning /\ task.kind = "delete" => DeletePlanned
    /\ Planning /\ task.kind = "deleteVersion" => PurgePlanned
    /\ Planning /\ round = "snap" => body[Cur] # 0 /\ NeedsSnapshot(mode, meta[Cur]) /\ ~journal[Cur].live
    /\ pc \in {"stageBody", "stageMeta", "commit"} /\ round = "snap" => at = IdOf(meta[Cur])
    /\ pc = "apply" /\ round = "snap" /\ attempt # "recover" =>
         LogicalHistory[IdOf(LogicalCurrent)] = Versioned(LogicalCurrent)
    /\ Planning /\ round = "main" /\ task.kind \in {"put", "delete"} /\ NeedsSnapshot(mode, LogicalCurrent) =>
         LogicalHistory[IdOf(LogicalCurrent)] = Versioned(LogicalCurrent)

\* A delete leaves no current body behind.
DeletedOK ==
    /\ pc = "apply" /\ round = "main" /\ task.kind = "delete" =>
         /\ step # "clean" => journal[Cur].clear_current
         /\ step = "clean" => body[Cur] = 0
    /\ pc = "finish" /\ task.kind = "delete" => ~journal[Cur].live /\ body[Cur] = 0

\* A version read has recovered its directory, and protection is admitted
\* before it can be decided.
ServeOK ==
    /\ task.kind = "getVersion" /\ round = "sweep" =>
         /\ pc = "recover" \/ (pc = "apply" /\ attempt = "recover") =>
               todo \subseteq {task.vid} /\ (task.vid \notin todo => ~journal[task.vid].live)
         /\ pc = "plan" => ~journal[task.vid].live
    /\ task.kind = "put" /\ task.attr = "protected" => possible
    /\ Planning /\ want.record.publish /\ want.object.attr = "protected" => possible

LInv == TaskOK /\ LandedOK /\ IdentityOK /\ DecisionOK /\ IntentOK /\ DeletedOK /\ ServeOK /\ ServesTrue

-----------------------------------------------------------------------------
\* What a reader finds is an object, and a history of objects.
LEMMA ViewType ==
    ASSUME TypeOK
    PROVE  /\ LogicalCurrent \in Object
           /\ LogicalHistory \in [Vid -> Object]
           /\ \A v \in Vid : LogicalHistory[v] = LogicalVersion(v)
<1>1. LogicalCurrent \in Object
  BY Blanks, Fields DEF LogicalCurrent, TypeOK, Place
<1>2. \A v \in Vid : LogicalVersion(v) \in Object
  BY Blanks, Fields DEF LogicalVersion, TypeOK, Place
<1> QED
  BY <1>1, <1>2 DEF LogicalHistory

\* The view is a matter of the files.
LEMMA FilesView ==
    ASSUME UNCHANGED <<body, meta, journal, stage>>
    PROVE  UNCHANGED View
BY DEF View, LogicalCurrent, LogicalHistory, LogicalVersion, Decided

\* A stage that no record has decided on is not part of the view.
LEMMA StageView ==
    ASSUME TypeOK, UNCHANGED <<body, meta, journal>>, NEW p \in Place, ~journal[p].live,
           \A q \in Place \ {p} : stage'[q] = stage[q]
    PROVE  UNCHANGED View
<1>1. LogicalCurrent' = LogicalCurrent
  BY DEF LogicalCurrent, Decided, Place
<1>2. \A v \in Vid : LogicalVersion(v)' = LogicalVersion(v)
  BY DEF LogicalVersion, Decided, Place
<1> QED
  BY <1>1, <1>2 DEF View, LogicalHistory

\* A file of a place whose decision is pending is not part of the view.
LEMMA ExcusedView ==
    ASSUME TypeOK, NEW p \in Place, journal[p].live, UNCHANGED <<journal, stage>>,
           \A q \in Place \ {p} : body'[q] = body[q] /\ meta'[q] = meta[q],
           journal[p].publish \/ (p = Cur /\ journal[p].clear_current)
    PROVE  UNCHANGED View
<1>1. LogicalCurrent' = LogicalCurrent
  BY DEF LogicalCurrent, Decided, Place
<1>2. \A v \in Vid : LogicalVersion(v)' = LogicalVersion(v)
  BY PublicationAssumption DEF LogicalVersion, Decided, Place
<1> QED
  BY <1>1, <1>2 DEF View, LogicalHistory

\* Nothing of a version that a pending decision rewrites is part of the view.
LEMMA RetiredView ==
    ASSUME TypeOK, JournalOK, journal[Cur].live, UNCHANGED journal[Cur], UNCHANGED stage[Cur],
           UNCHANGED body[Cur], UNCHANGED meta[Cur],
           NEW w \in Vid,
           w \in journal[Cur].remove_versions \/ (journal[Cur].marker.gen # 0 /\ w = journal[Cur].marker.vid),
           \A q \in Vid \ {w} : /\ body'[q] = body[q] /\ meta'[q] = meta[q]
                                /\ journal'[q] = journal[q] /\ stage'[q] = stage[q]
    PROVE  UNCHANGED View
<1>1. LogicalCurrent' = LogicalCurrent
  BY DEF LogicalCurrent, Decided
<1>2. \A v \in Vid : LogicalVersion(v)' = LogicalVersion(v)
  BY DEF LogicalVersion, Decided
<1> QED
  BY <1>1, <1>2 DEF View, LogicalHistory

\* A step that decides nothing leaves the view alone: recovery, staging, every
\* effect of apply_publication, errors and crashes.
LEMMA KeepsView ==
    ASSUME IInv, LInv, [Next]_vars
    PROVE  UNCHANGED View \/ Commit \/ Touch \/ AssignNull
<1> USE Fields, PublicationAssumption
<1>t. TypeOK /\ JournalOK /\ RecoverOK /\ StagingOK /\ ApplyOK /\ DecisionOK /\ Cur \in Place
  BY DEF IInv, LInv, Place
<1>f. ASSUME UNCHANGED <<body, meta, journal, stage>> PROVE UNCHANGED View
  BY <1>f, FilesView
<1>1. CASE UNCHANGED vars
  BY <1>1, <1>f DEF vars, files
<1>2. CASE Serve
  BY <1>2, <1>f DEF Serve, Begin, files
<1>3. ASSUME NEW p \in Place, RecoverPlace(p) PROVE UNCHANGED View
  <2>1. CASE journal[p].live
    BY <1>3, <1>f, <2>1 DEF RecoverPlace
  <2>2. CASE ~journal[p].live
    BY <1>t, <1>3, <2>2, StageView DEF RecoverPlace, TypeOK
  <2> QED
    BY <2>1, <2>2
<1>4. CASE RecoverDone
  BY <1>4, <1>f DEF RecoverDone, files
<1>5. CASE PlanPut \/ PlanDelete \/ PlanDeleteVersion \/ SweepVersions \/ OpenVersion \/ Read
  BY <1>5, <1>f DEF PlanPut, PlanDelete, PlanDeleteVersion, SweepVersions, OpenVersion, Read, files
<1>6. CASE SetMode \/ Crash \/ Restart \/ Open
  BY <1>6, <1>f DEF SetMode, Crash, Restart, Open, files
<1>7. CASE StageBody
  BY <1>t, <1>7, StageView DEF StageBody, TypeOK, StagingOK
<1>8. CASE StageMeta
  BY <1>t, <1>8, StageView DEF StageMeta, TypeOK, StagingOK
<1>9. CASE Apply
  <2> USE DEF AtStep
  <2>a. at \in Place
    BY <1>t DEF TypeOK
  <2>1. CASE PublishBody \/ PublishMeta
    BY <1>t, <2>a, <2>1, ExcusedView DEF PublishBody, PublishMeta, TypeOK, ApplyOK
  <2>2. ASSUME NEW v \in Vid, RemoveVersion(v) PROVE UNCHANGED View
    <3>1. at = Cur /\ journal[Cur].live /\ v # Cur
      BY <1>t, <2>2 DEF RemoveVersion, TypeOK, JournalOK, ApplyOK, Place
    <3>2. /\ UNCHANGED journal[Cur] /\ UNCHANGED stage[Cur] /\ UNCHANGED body[Cur] /\ UNCHANGED meta[Cur]
          /\ \A q \in Vid \ {v} : /\ body'[q] = body[q] /\ meta'[q] = meta[q]
                                  /\ journal'[q] = journal[q] /\ stage'[q] = stage[q]
      BY <1>t, <2>2, <3>1 DEF RemoveVersion, TypeOK, Place
    <3> QED
      BY <1>t, <2>2, <3>1, <3>2, RetiredView DEF RemoveVersion
  <2>3. CASE RemovedVersions
    BY <2>3, <1>f DEF RemovedVersions
  <2>4. CASE MarkerBody \/ MarkerMeta
    <3> DEFINE w == journal[Cur].marker.vid
    <3>1. at = Cur /\ journal[Cur].live /\ journal[Cur].marker.gen # 0 /\ w \in Vid
      BY <1>t, <2>4, <2>a DEF MarkerBody, MarkerMeta, TypeOK, JournalOK, ApplyOK, Place
    <3>2. /\ UNCHANGED journal[Cur] /\ UNCHANGED stage[Cur] /\ UNCHANGED body[Cur] /\ UNCHANGED meta[Cur]
          /\ \A q \in Vid \ {w} : /\ body'[q] = body[q] /\ meta'[q] = meta[q]
                                  /\ journal'[q] = journal[q] /\ stage'[q] = stage[q]
      BY <1>t, <2>4, <3>1 DEF MarkerBody, MarkerMeta, TypeOK, Place
    <3> QED
      BY <1>t, <3>1, <3>2, RetiredView
  <2>5. CASE ClearBody \/ ClearMeta
    BY <1>t, <2>a, <2>5, ExcusedView DEF ClearBody, ClearMeta, TypeOK, ApplyOK, JournalOK, Place
  <2>6. CASE RetireJournal
    <3>r. journal' = [journal EXCEPT ![at] = NoRecord] /\ UNCHANGED <<body, meta, stage>>
      BY <2>6 DEF RetireJournal
    <3>1. CASE at = Cur
      <4>1. LogicalCurrent' = LogicalCurrent
        BY <1>t, <2>6, <3>1, <3>r, Blanks DEF LogicalCurrent, Decided, RetireJournal, ApplyOK, JournalOK, DecisionOK,
           TypeOK, Whole
      <4>2. ASSUME NEW v \in Vid PROVE LogicalVersion(v)' = LogicalVersion(v)
        <5>1. CASE journal[Cur].marker.gen # 0 /\ v = journal[Cur].marker.vid
          BY <1>t, <2>6, <3>1, <3>r, <5>1, Blanks DEF LogicalVersion, Decided, RetireJournal, ApplyOK, JournalOK,
             DecisionOK, TypeOK, Place
        <5>2. CASE ~(journal[Cur].marker.gen # 0 /\ v = journal[Cur].marker.vid)
          BY <1>t, <2>6, <3>1, <3>r, <5>2, Blanks DEF LogicalVersion, Decided, RetireJournal, ApplyOK, JournalOK,
             DecisionOK, TypeOK, Place
        <5> QED
          BY <5>1, <5>2
      <4> QED
        BY <4>1, <4>2 DEF View, LogicalHistory
    <3>2. CASE at # Cur
      <4>0. at \in Vid /\ ~journal[Cur].live /\ journal[at].live /\ journal[at].publish
        BY <1>t, <2>6, <3>2, <2>a DEF RetireJournal, RecoverOK, ApplyOK, JournalOK, TypeOK, TaskOK, LInv, Place
      <4>1. LogicalCurrent' = LogicalCurrent
        BY <1>t, <2>6, <3>2, <3>r, <4>0 DEF LogicalCurrent, Decided, TypeOK
      <4>2. ASSUME NEW v \in Vid PROVE LogicalVersion(v)' = LogicalVersion(v)
        BY <1>t, <2>6, <3>2, <3>r, <4>0, Blanks DEF LogicalVersion, Decided, RetireJournal, ApplyOK, JournalOK,
           DecisionOK, TypeOK, Whole, Place
      <4> QED
        BY <4>1, <4>2 DEF View, LogicalHistory
    <3> QED
      BY <3>1, <3>2
  <2>7. CASE CleanStage
    BY <1>t, <2>a, <2>7, StageView DEF CleanStage, TypeOK, ApplyOK
  <2> QED
    BY <1>9, <2>1, <2>2, <2>3, <2>4, <2>5, <2>6, <2>7 DEF Apply
<1>10. CASE Finish
  <2>1. CASE task.kind = "delete" /\ mode = "disabled"
    <3>1. LogicalCurrent = NoObject /\ LogicalCurrent' = NoObject
      BY <1>t, <1>10, <2>1, Blanks DEF Finish, LogicalCurrent, Decided, LInv, DeletedOK
    <3>2. LogicalHistory = [v \in Vid |-> NoObject]
      BY <1>t, <2>1, ViewType DEF LInv, IdentityOK
    <3>3. \A v \in Vid : LogicalVersion(v)' = NoObject
      BY <1>10, <2>1, <1>t, Blanks DEF Finish, LogicalVersion, Decided, Place
    <3> QED
      BY <3>1, <3>2, <3>3 DEF View, LogicalHistory
  <2>2. CASE ~(task.kind = "delete" /\ mode = "disabled")
    BY <1>10, <1>f, <2>2 DEF Finish
  <2> QED
    BY <2>1, <2>2
<1>11. CASE Fault
  <2>a. at \in Place /\ UNCHANGED <<body, meta, journal>>
    BY <1>t, <1>11 DEF Fault, TypeOK
  <2>1. CASE stage' = stage
    BY <2>1, <2>a, <1>f
  <2>2. CASE stage' # stage
    <3>1. ~journal[at].live /\ stage' = [stage EXCEPT ![at] = NoStage]
      BY <1>t, <1>11, <2>2 DEF Fault, StagingOK
    <3> QED
      BY <1>t, <2>a, <3>1, StageView DEF TypeOK
  <2> QED
    BY <2>1, <2>2
<1> QED
  BY <1>1, <1>2, <1>3, <1>4, <1>5, <1>6, <1>7, <1>8, <1>9, <1>10, <1>11 DEF Next, Proceed

\* Every step keeps the request and what the process does together.
LEMMA NextTask == IInv /\ LInv /\ [Next]_vars => (TaskOK /\ LandedOK)'
<1> SUFFICES ASSUME IInv, LInv, [Next]_vars PROVE (TaskOK /\ LandedOK)'
  OBVIOUS
<1>t. TypeOK /\ TaskOK /\ LandedOK /\ RecoverOK /\ StagingOK /\ ApplyOK /\ NeverRefused'
  BY NextInv DEF IInv, LInv
<1> USE Fields, Blanks, BlankTask, PublicationAssumption
<1>1. CASE UNCHANGED vars
  BY <1>1, <1>t DEF TaskOK, LandedOK, RecoverOK, StagingOK, ApplyOK, NeverRefused, TypeOK, vars, files, memory,
     aux
<1>2. CASE Serve
  <2>1. PICK t \in Requests : Begin(t)
    BY <1>2 DEF Serve
  <2>2. t.kind \in Kinds /\ t.kind # "none" /\ (t.kind = "setMode" => t.mode \in {"enabled", "suspended"})
    BY RequestsType DEF Requests, Kinds, Modes
  <2> QED
    BY <2>1, <2>2 DEF Begin, TaskOK, LandedOK
<1>3. CASE \E p \in Place : RecoverPlace(p)
  BY <1>3, <1>t DEF TaskOK, LandedOK, RecoverOK, StagingOK, ApplyOK, NeverRefused, TypeOK, RecoverPlace,
     FirstStep, aux
<1>4. CASE RecoverDone
  BY <1>4, <1>t DEF TaskOK, LandedOK, RecoverOK, StagingOK, ApplyOK, NeverRefused, TypeOK, RecoverDone, files,
     aux
<1>5. CASE PlanPut
  BY <1>5, <1>t DEF TaskOK, LandedOK, RecoverOK, StagingOK, ApplyOK, NeverRefused, TypeOK, PlanPut, Publish,
     files
<1>6. CASE PlanDelete
  BY <1>6, <1>t DEF TaskOK, LandedOK, RecoverOK, StagingOK, ApplyOK, NeverRefused, TypeOK, PlanDelete, Publish,
     End, files
<1>7. CASE SweepVersions
  BY <1>7, <1>t DEF TaskOK, LandedOK, RecoverOK, StagingOK, ApplyOK, NeverRefused, TypeOK, SweepVersions, files,
     aux
<1>8. CASE PlanDeleteVersion
  <2>1. CASE End("err")
    BY <1>8, <2>1 DEF PlanDeleteVersion, TaskOK, LandedOK, End, files
  <2>2. CASE /\ \E w : Publish(w)
             /\ UNCHANGED <<index, at, attempt, step, landed, reply, task>>
    BY <1>8, <1>t, <2>2 DEF PlanDeleteVersion, Publish, TaskOK, LandedOK, files
  <2> QED
    BY <1>8, <2>1, <2>2 DEF PlanDeleteVersion
<1>9. CASE Touch
  BY <1>9, <1>t DEF TaskOK, LandedOK, RecoverOK, StagingOK, ApplyOK, NeverRefused, TypeOK, Touch, End
<1>10. CASE SetMode
  BY <1>10, <1>t DEF TaskOK, LandedOK, RecoverOK, StagingOK, ApplyOK, NeverRefused, TypeOK, SetMode
<1>11. CASE AssignNull
  BY <1>11, <1>t DEF TaskOK, LandedOK, RecoverOK, StagingOK, ApplyOK, NeverRefused, TypeOK, AssignNull, aux
<1>12. CASE OpenVersion
  BY <1>12, <1>t DEF TaskOK, LandedOK, RecoverOK, StagingOK, ApplyOK, NeverRefused, TypeOK, OpenVersion, files,
     aux
<1>13. CASE Read
  BY <1>13, <1>t DEF TaskOK, LandedOK, RecoverOK, StagingOK, ApplyOK, NeverRefused, TypeOK, Read, End, files
<1>14. CASE StageBody
  BY <1>14, <1>t DEF TaskOK, LandedOK, RecoverOK, StagingOK, ApplyOK, NeverRefused, TypeOK, StageBody, aux
<1>15. CASE StageMeta
  BY <1>15, <1>t DEF TaskOK, LandedOK, RecoverOK, StagingOK, ApplyOK, NeverRefused, TypeOK, StageMeta, aux
<1>16. CASE Commit
  BY <1>16, <1>t DEF TaskOK, LandedOK, RecoverOK, StagingOK, ApplyOK, NeverRefused, TypeOK, Commit, FirstStep
<1>17. CASE PublishBody
  BY <1>17, <1>t DEF TaskOK, LandedOK, RecoverOK, StagingOK, ApplyOK, NeverRefused, TypeOK, PublishBody, AtStep,
     Effect, aux
<1>18. CASE PublishMeta
  BY <1>18, <1>t DEF TaskOK, LandedOK, RecoverOK, StagingOK, ApplyOK, NeverRefused, TypeOK, PublishMeta, AtStep,
     Effect, aux
<1>19. CASE \E v \in Vid : RemoveVersion(v)
  BY <1>19, <1>t DEF TaskOK, LandedOK, RecoverOK, StagingOK, ApplyOK, NeverRefused, TypeOK, RemoveVersion,
     AtStep, Effect, aux
<1>20. CASE RemovedVersions
  BY <1>20, <1>t DEF TaskOK, LandedOK, RecoverOK, StagingOK, ApplyOK, NeverRefused, TypeOK, RemovedVersions,
     AfterRemove, AtStep, Effect, aux
<1>21. CASE MarkerBody
  BY <1>21, <1>t DEF TaskOK, LandedOK, RecoverOK, StagingOK, ApplyOK, NeverRefused, TypeOK, MarkerBody, AtStep,
     Effect, aux
<1>22. CASE MarkerMeta
  BY <1>22, <1>t DEF TaskOK, LandedOK, RecoverOK, StagingOK, ApplyOK, NeverRefused, TypeOK, MarkerMeta, AtStep,
     Effect, aux
<1>23. CASE ClearBody
  BY <1>23, <1>t DEF TaskOK, LandedOK, RecoverOK, StagingOK, ApplyOK, NeverRefused, TypeOK, ClearBody, AtStep,
     Effect, aux
<1>24. CASE ClearMeta
  BY <1>24, <1>t DEF TaskOK, LandedOK, RecoverOK, StagingOK, ApplyOK, NeverRefused, TypeOK, ClearMeta, AtStep,
     Effect, aux
<1>25. CASE RetireJournal
  BY <1>25, <1>t DEF TaskOK, LandedOK, RecoverOK, StagingOK, ApplyOK, NeverRefused, TypeOK, RetireJournal,
     AtStep, Effect, aux
<1>26. CASE CleanStage
  BY <1>26, <1>t DEF TaskOK, LandedOK, RecoverOK, StagingOK, ApplyOK, NeverRefused, TypeOK, CleanStage, AtStep,
     Effect, aux
<1>27. CASE Finish
  BY <1>27, <1>t DEF TaskOK, LandedOK, RecoverOK, StagingOK, ApplyOK, NeverRefused, TypeOK, Finish, End
<1>28. CASE Fault
  BY <1>28, <1>t DEF TaskOK, LandedOK, RecoverOK, StagingOK, ApplyOK, NeverRefused, TypeOK, Fault, FirstStep,
     End
<1>29. CASE Crash
  BY <1>29, <1>t DEF TaskOK, LandedOK, RecoverOK, StagingOK, ApplyOK, NeverRefused, TypeOK, Crash, files
<1>30. CASE Restart
  BY <1>30, <1>t DEF TaskOK, LandedOK, RecoverOK, StagingOK, ApplyOK, NeverRefused, TypeOK, Restart, files, aux
<1>31. CASE Open
  BY <1>31, <1>t DEF TaskOK, LandedOK, RecoverOK, StagingOK, ApplyOK, NeverRefused, TypeOK, Open, files, aux
<1> QED
  BY <1>1, <1>2, <1>3, <1>4, <1>5, <1>6, <1>7, <1>8, <1>9, <1>10, <1>11, <1>12, <1>13, <1>14, <1>15, <1>16,
     <1>17, <1>18, <1>19, <1>20, <1>21, <1>22, <1>23, <1>24, <1>25, <1>26, <1>27, <1>28, <1>29, <1>30, <1>31 DEF
     Next, Proceed, Apply

\* What the main record of a request looks like when it is decided.
LEMMA MainRecord ==
    ASSUME IInv, LInv, Planning
    PROVE  /\ want.record.publish => want.object.gen # 0
           /\ want.record.marker.gen # 0 =>
                /\ want.record.marker.vid \in Vid
                /\ \/ want.record.marker.vid \in want.record.remove_versions
                   \/ ~journal[want.record.marker.vid].live
           /\ task.kind = "delete" => want.record.clear_current
<1> USE Fields, Blanks, PublicationAssumption, IdentityAssumption
<1>t. TypeOK /\ IntentOK /\ task.kind \in {"put", "delete", "deleteVersion"}
  BY DEF IInv, LInv, TaskOK, Planning
<1>v. LogicalCurrent \in Object /\ LogicalHistory \in [Vid -> Object]
  BY <1>t, ViewType
<1>1. CASE task.kind = "put"
  <2>1. PutPlanned
    BY <1>1, <1>t DEF IntentOK
  <2> QED
    BY <1>1, <2>1 DEF PutPlanned, PublishPlan
<1>2. CASE task.kind = "delete"
  <2>1. DeletePlanned
    BY <1>2, <1>t DEF IntentOK
  <2>2. CASE mode = "disabled"
    BY <1>2, <2>1, <2>2 DEF DeletePlanned, HistoryPlan
  <2>3. CASE mode # "disabled"
    <3> DEFINE k == want.record.marker
    <3>1. want.record = HistoryPlan(NullOnly(k.vid), k, TRUE).record /\ k.vid \in NewVids(mode) /\ Reserved(k.vid)
      BY <2>1, <2>3 DEF DeletePlanned
    <3>2. /\ ~want.record.publish /\ want.record.clear_current
          /\ want.record.remove_versions = NullOnly(k.vid)
      BY <3>1 DEF HistoryPlan
    <3>3. k.vid \in Uuid \/ k.vid = NullId
      BY <3>1, <2>3, <1>t DEF NewVids, TypeOK, Modes
    <3> QED
      BY <1>2, <3>1, <3>2, <3>3 DEF Reserved, NullOnly, Vid
  <2> QED
    BY <2>2, <2>3
<1>3. CASE task.kind = "deleteVersion"
  <2>1. PurgePlanned
    BY <1>3, <1>t DEF IntentOK
  <2>2. ASSUME NEW w \in Vid, Promotable(w), want = PublishPlan({task.vid, w}, LogicalHistory[w], w)
        PROVE  want.object.gen # 0 /\ want.record.marker.gen = 0
    BY <2>2, <1>v DEF Promotable, History!IsLatest, PublishPlan
  <2>3. ASSUME NEW c, want = HistoryPlan({task.vid}, NoObject, c)
        PROVE  ~want.record.publish /\ want.record.marker.gen = 0
    BY <2>3 DEF HistoryPlan
  <2> QED
    BY <1>3, <2>1, <2>2, <2>3 DEF PurgePlanned
<1> QED
  BY <1>t, <1>1, <1>2, <1>3

\* Every step keeps decided records free of leftovers.
LEMMA NextDecision == IInv /\ LInv /\ [Next]_vars => (DecisionOK /\ DeletedOK)'
<1> SUFFICES ASSUME IInv, LInv, [Next]_vars PROVE (DecisionOK /\ DeletedOK)'
  OBVIOUS
<1>t. TypeOK /\ DecisionOK /\ DeletedOK /\ TaskOK /\ JournalOK /\ RecoverOK /\ StagingOK /\ ApplyOK
  BY DEF IInv, LInv
<1> USE Fields, Blanks, PublicationAssumption
<1>1. CASE UNCHANGED vars
  BY <1>1, <1>t DEF DecisionOK, DeletedOK, TaskOK, JournalOK, RecoverOK, StagingOK, ApplyOK, TypeOK, Planned,
     Place, vars, files, memory, aux
<1>2. CASE Serve
  BY <1>2, <1>t DEF DecisionOK, DeletedOK, TaskOK, JournalOK, RecoverOK, StagingOK, ApplyOK, TypeOK, Planned,
     Place, Serve, Begin, Requests, files
<1>3. CASE \E p \in Place : RecoverPlace(p)
  BY <1>3, <1>t DEF DecisionOK, DeletedOK, TaskOK, JournalOK, RecoverOK, StagingOK, ApplyOK, TypeOK, Planned,
     Place, RecoverPlace, FirstStep, aux
<1>4. CASE RecoverDone
  BY <1>4, <1>t DEF DecisionOK, DeletedOK, TaskOK, JournalOK, RecoverOK, StagingOK, ApplyOK, TypeOK, Planned,
     Place, RecoverDone, files, aux
<1>5. CASE PlanPut
  BY <1>5, <1>t DEF DecisionOK, DeletedOK, TaskOK, JournalOK, RecoverOK, StagingOK, ApplyOK, TypeOK, Planned,
     Place, PlanPut, Publish, files
<1>6. CASE PlanDelete
  BY <1>6, <1>t DEF DecisionOK, DeletedOK, TaskOK, JournalOK, RecoverOK, StagingOK, ApplyOK, TypeOK, Planned,
     Place, PlanDelete, Publish, End, files
<1>7. CASE SweepVersions
  BY <1>7, <1>t DEF DecisionOK, DeletedOK, TaskOK, JournalOK, RecoverOK, StagingOK, ApplyOK, TypeOK, Planned,
     Place, SweepVersions, files, aux
<1>8. CASE PlanDeleteVersion
  BY <1>8, <1>t DEF DecisionOK, DeletedOK, TaskOK, JournalOK, RecoverOK, StagingOK, ApplyOK, TypeOK, Planned,
     Place, PlanDeleteVersion, Publish, End, files
<1>9. CASE Touch
  BY <1>9, <1>t DEF DecisionOK, DeletedOK, TaskOK, JournalOK, RecoverOK, StagingOK, ApplyOK, TypeOK, Planned,
     Place, Touch, End
<1>10. CASE SetMode
  BY <1>10, <1>t DEF DecisionOK, DeletedOK, TaskOK, JournalOK, RecoverOK, StagingOK, ApplyOK, TypeOK, Planned,
     Place, SetMode
<1>11. CASE AssignNull
  BY <1>11, <1>t DEF DecisionOK, DeletedOK, TaskOK, JournalOK, RecoverOK, StagingOK, ApplyOK, TypeOK, Planned,
     Place, AssignNull, aux
<1>12. CASE OpenVersion
  BY <1>12, <1>t DEF DecisionOK, DeletedOK, TaskOK, JournalOK, RecoverOK, StagingOK, ApplyOK, TypeOK, Planned,
     Place, OpenVersion, files, aux
<1>13. CASE Read
  BY <1>13, <1>t DEF DecisionOK, DeletedOK, TaskOK, JournalOK, RecoverOK, StagingOK, ApplyOK, TypeOK, Planned,
     Place, Read, End, files
<1>14. CASE StageBody
  BY <1>14, <1>t DEF DecisionOK, DeletedOK, TaskOK, JournalOK, RecoverOK, StagingOK, ApplyOK, TypeOK, Planned,
     Place, StageBody, aux
<1>15. CASE StageMeta
  BY <1>15, <1>t DEF DecisionOK, DeletedOK, TaskOK, JournalOK, RecoverOK, StagingOK, ApplyOK, TypeOK, Planned,
     Place, StageMeta, aux
<1>16. CASE Commit
  <2>1. /\ journal' = [journal EXCEPT ![at] = Planned.record] /\ UNCHANGED <<stage, body, round, at, task>>
        /\ pc = "commit" /\ pc' = "apply" /\ step' \in {"body", "remove"} /\ at \in Place
    BY <1>16, <1>t DEF Commit, FirstStep, TypeOK
  <2>2. CASE round = "snap"
    <3>1. at \in Vid /\ ~journal[Cur].live /\ Planned.record.publish /\ Planned.object.gen # 0
      BY <2>1, <2>2, <1>t, VersionedType DEF StagingOK, LInv, IntentOK, Planning, NeedsSnapshot, Planned, PublishPlan,
         TypeOK, Place
    <3> QED
      BY <2>1, <2>2, <3>1, <1>t DEF DecisionOK, DeletedOK, TypeOK, Place
  <2>3. CASE round = "main"
    <3>1. at = Cur /\ Planning /\ Planned = want
      BY <2>1, <2>3, <1>t DEF StagingOK, Planning, Planned
    <3>2. journal'[Cur] = want.record /\ \A p \in Vid : journal'[p] = journal[p]
      BY <2>1, <3>1, <1>t DEF TypeOK, Place
    <3>3. \A p \in Place : journal'[p].live /\ journal'[p].publish => stage[p].meta.gen # 0
      BY <2>1, <3>1, <3>2, <1>t, MainRecord DEF DecisionOK, StagingOK, Place
    <3> QED
      BY <2>1, <2>3, <3>1, <3>2, <3>3, MainRecord DEF DecisionOK, DeletedOK
  <2> QED
    BY <2>1, <2>2, <2>3, <1>t DEF StagingOK
<1>17. CASE PublishBody
  BY <1>17, <1>t DEF DecisionOK, DeletedOK, TaskOK, JournalOK, RecoverOK, StagingOK, ApplyOK, TypeOK, Planned,
     Place, PublishBody, AtStep, Effect, aux
<1>18. CASE PublishMeta
  BY <1>18, <1>t DEF DecisionOK, DeletedOK, TaskOK, JournalOK, RecoverOK, StagingOK, ApplyOK, TypeOK, Planned,
     Place, PublishMeta, AtStep, Effect, aux
<1>19. CASE \E v \in Vid : RemoveVersion(v)
  <2>1. PICK v \in Vid : RemoveVersion(v)
    BY <1>19
  <2>2. /\ at = Cur /\ pc = "apply" /\ step = "remove" /\ journal[Cur].live /\ v # Cur
        /\ v \in journal[Cur].remove_versions
    BY <1>t, <2>1 DEF RemoveVersion, AtStep, TypeOK, JournalOK, ApplyOK, Place
  <2>3. /\ \A p \in Place : journal'[p] \in {journal[p], NoRecord} /\ (p # v => stage'[p] = stage[p])
        /\ journal'[Cur] = journal[Cur] /\ body'[Cur] = body[Cur]
        /\ stage' = stage \/ (stage'[v] = NoStage /\ UNCHANGED journal)
        /\ UNCHANGED <<pc, step, at, round, task>>
    BY <1>t, <2>1, <2>2 DEF RemoveVersion, Effect, TypeOK, Place
  <2> QED
    BY <1>t, <2>1, <2>2, <2>3 DEF DecisionOK, DeletedOK, JournalOK, Place
<1>20. CASE RemovedVersions
  BY <1>20, <1>t DEF DecisionOK, DeletedOK, TaskOK, JournalOK, RecoverOK, StagingOK, ApplyOK, TypeOK, Planned,
     Place, RemovedVersions, AfterRemove, AtStep, Effect, aux, Occupied
<1>21. CASE MarkerBody
  BY <1>21, <1>t DEF DecisionOK, DeletedOK, TaskOK, JournalOK, RecoverOK, StagingOK, ApplyOK, TypeOK, Planned,
     Place, MarkerBody, AtStep, Effect, aux
<1>22. CASE MarkerMeta
  BY <1>22, <1>t DEF DecisionOK, DeletedOK, TaskOK, JournalOK, RecoverOK, StagingOK, ApplyOK, TypeOK, Planned,
     Place, MarkerMeta, AtStep, Effect, aux
<1>23. CASE ClearBody
  BY <1>23, <1>t DEF DecisionOK, DeletedOK, TaskOK, JournalOK, RecoverOK, StagingOK, ApplyOK, TypeOK, Planned,
     Place, ClearBody, AtStep, Effect, aux
<1>24. CASE ClearMeta
  BY <1>24, <1>t DEF DecisionOK, DeletedOK, TaskOK, JournalOK, RecoverOK, StagingOK, ApplyOK, TypeOK, Planned,
     Place, ClearMeta, AtStep, Effect, aux
<1>25. CASE RetireJournal
  BY <1>25, <1>t DEF DecisionOK, DeletedOK, TaskOK, JournalOK, RecoverOK, StagingOK, ApplyOK, TypeOK, Planned,
     Place, RetireJournal, AtStep, Effect, aux
<1>26. CASE CleanStage
  BY <1>26, <1>t DEF DecisionOK, DeletedOK, TaskOK, JournalOK, RecoverOK, StagingOK, ApplyOK, TypeOK, Planned,
     Place, CleanStage, AtStep, Effect, aux
<1>27. CASE Finish
  BY <1>27, <1>t DEF DecisionOK, DeletedOK, TaskOK, JournalOK, RecoverOK, StagingOK, ApplyOK, TypeOK, Planned,
     Place, Finish, End
<1>28. CASE Fault
  BY <1>28, <1>t DEF DecisionOK, DeletedOK, TaskOK, JournalOK, RecoverOK, StagingOK, ApplyOK, TypeOK, Planned,
     Place, Fault, FirstStep, End
<1>29. CASE Crash
  BY <1>29, <1>t DEF DecisionOK, DeletedOK, TaskOK, JournalOK, RecoverOK, StagingOK, ApplyOK, TypeOK, Planned,
     Place, Crash, files
<1>30. CASE Restart
  BY <1>30, <1>t DEF DecisionOK, DeletedOK, TaskOK, JournalOK, RecoverOK, StagingOK, ApplyOK, TypeOK, Planned,
     Place, Restart, files, aux
<1>31. CASE Open
  BY <1>31, <1>t DEF DecisionOK, DeletedOK, TaskOK, JournalOK, RecoverOK, StagingOK, ApplyOK, TypeOK, Planned,
     Place, Open, files, aux
<1> QED
  BY <1>1, <1>2, <1>3, <1>4, <1>5, <1>6, <1>7, <1>8, <1>9, <1>10, <1>11, <1>12, <1>13, <1>14, <1>15, <1>16,
     <1>17, <1>18, <1>19, <1>20, <1>21, <1>22, <1>23, <1>24, <1>25, <1>26, <1>27, <1>28, <1>29, <1>30, <1>31 DEF
     Next, Proceed, Apply

-----------------------------------------------------------------------------
\* Without a pending decision the view of the key is its files.
LEMMA SettledView ==
    ASSUME TypeOK, ~journal[Cur].live
    PROVE  /\ LogicalCurrent = IF body[Cur] = 0 THEN NoObject ELSE meta[Cur]
           /\ \A v \in Vid : LogicalHistory[v] = IF journal[v].live THEN stage[v].meta
                                                 ELSE IF body[v] = 0 THEN NoObject ELSE meta[v]
BY ViewType DEF LogicalCurrent, LogicalVersion, Decided

\* Deciding a snapshot copies the current object into history.
LEMMA SnapView ==
    ASSUME IInv, LInv, Commit, round = "snap"
    PROVE  /\ NeedsSnapshot(mode, LogicalCurrent)
           /\ LogicalCurrent' = LogicalCurrent
           /\ LogicalHistory' = [LogicalHistory EXCEPT ![IdOf(LogicalCurrent)] = Versioned(LogicalCurrent)]
<1> USE Fields, PublicationAssumption
<1>t. TypeOK /\ TypeOK' /\ StagingOK /\ DecisionOK /\ IntentOK /\ pc = "commit" /\ Planning
  BY NextType DEF IInv, LInv, Commit, Planning, Next, Proceed
<1>1. /\ body[Cur] # 0 /\ NeedsSnapshot(mode, meta[Cur]) /\ ~journal[Cur].live /\ at = IdOf(meta[Cur]) /\ at \in Vid
      /\ Cur \in Place
  BY <1>t DEF IntentOK, StagingOK, Place
<1>2. Planned = PublishPlan({}, Versioned(meta[Cur]), Cur) /\ stage[at].meta = Versioned(meta[Cur])
  BY <1>t DEF Planned, PublishPlan, DecisionOK
<1>3. journal' = [journal EXCEPT ![at] = Planned.record] /\ UNCHANGED <<body, meta, stage>>
  BY DEF Commit
<1>4. /\ journal'[Cur] = journal[Cur] /\ journal'[at].live
      /\ \A v \in Vid \ {at} : journal'[v] = journal[v]
  BY <1>t, <1>1, <1>2, <1>3 DEF TypeOK, PublishPlan, Place
<1>5. LogicalCurrent = meta[Cur] /\ LogicalCurrent' = LogicalCurrent
  BY <1>1, <1>3, <1>4 DEF LogicalCurrent, Decided
<1>6. ASSUME NEW v \in Vid
      PROVE  LogicalVersion(v)' = IF v = at THEN Versioned(meta[Cur]) ELSE LogicalVersion(v)
  BY <1>1, <1>2, <1>3, <1>4 DEF LogicalVersion, Decided
<1>7. LogicalHistory' = [v \in Vid |-> IF v = at THEN Versioned(meta[Cur]) ELSE LogicalHistory[v]]
  BY <1>6 DEF LogicalHistory
<1> QED
  BY <1>t, <1>1, <1>5, <1>7, ViewType

\* Deciding the main record changes the view as the record says.
LEMMA MainView ==
    ASSUME IInv, LInv, Commit, round = "main"
    PROVE  /\ LogicalCurrent' = IF want.record.publish THEN want.object
                                ELSE IF want.record.clear_current THEN NoObject ELSE LogicalCurrent
           /\ LogicalHistory' = [v \in Vid |->
                IF want.record.marker.gen # 0 /\ want.record.marker.vid = v THEN want.record.marker
                ELSE IF v \in want.record.remove_versions THEN NoObject ELSE LogicalHistory[v]]
<1> USE Fields, PublicationAssumption
<1>t. TypeOK /\ StagingOK /\ DecisionOK /\ PlanOK /\ pc = "commit"
  BY DEF IInv, LInv, Commit
<1>1. at = Cur /\ Planned = want /\ Cur \in Place /\ ~journal[Cur].live /\ want.record.live
  BY <1>t DEF StagingOK, Planned, PlanOK, Place
<1>2. journal' = [journal EXCEPT ![Cur] = want.record] /\ UNCHANGED <<body, meta, stage>>
  BY <1>1 DEF Commit
<1>3. journal'[Cur] = want.record /\ \A v \in Vid : journal'[v] = journal[v]
  BY <1>t, <1>1, <1>2 DEF TypeOK, Place
<1>4. want.record.publish => stage[Cur].meta = want.object
  BY <1>t, <1>1 DEF DecisionOK
<1>5. LogicalCurrent' = IF want.record.publish THEN want.object
                        ELSE IF want.record.clear_current THEN NoObject ELSE LogicalCurrent
  BY <1>1, <1>2, <1>3, <1>4 DEF LogicalCurrent, Decided
<1>6. ASSUME NEW v \in Vid
      PROVE  LogicalVersion(v)' = IF want.record.marker.gen # 0 /\ want.record.marker.vid = v THEN want.record.marker
                                  ELSE IF v \in want.record.remove_versions THEN NoObject ELSE LogicalVersion(v)
  BY <1>1, <1>2, <1>3 DEF LogicalVersion, Decided
<1> QED
  BY <1>5, <1>6 DEF LogicalHistory

\* Deciding a put replaces the current object by a new generation.
LEMMA PutView ==
    ASSUME IInv, LInv, Commit, round = "main", task.kind = "put"
    PROVE  /\ PutPlanned
           /\ LogicalCurrent' = want.object
           /\ LogicalHistory' = IF mode = "suspended" THEN [LogicalHistory EXCEPT ![NullId] = NoObject]
                                ELSE LogicalHistory
<1> USE Fields, Blanks, IdentityAssumption
<1>t. TypeOK /\ PutPlanned /\ LogicalHistory \in [Vid -> Object]
  BY ViewType DEF IInv, LInv, IntentOK, Planning, Commit
<1>1. /\ want.record.publish /\ want.record.marker = NoObject
      /\ want.record.remove_versions = NullOnly(want.object.vid)
  BY <1>t DEF PutPlanned, PublishPlan
<1>2. NullOnly(want.object.vid) = IF mode = "suspended" THEN {NullId} ELSE {}
  BY <1>t DEF PutPlanned, NewVids, NullOnly, TypeOK, Modes
<1>3. LogicalCurrent' = want.object
  BY <1>1, MainView
<1>4. LogicalHistory' = [v \in Vid |-> IF v \in NullOnly(want.object.vid) THEN NoObject ELSE LogicalHistory[v]]
  BY <1>1, MainView
<1> QED
  BY <1>t, <1>2, <1>3, <1>4 DEF Vid

\* Deciding a delete removes the current object and leaves a marker if versions are kept.
LEMMA DeleteView ==
    ASSUME IInv, LInv, Commit, round = "main", task.kind = "delete"
    PROVE  /\ DeletePlanned
           /\ LogicalCurrent' = NoObject
           /\ mode = "disabled" => LogicalHistory' = LogicalHistory
           /\ mode # "disabled" =>
                LogicalHistory' = [LogicalHistory EXCEPT ![want.record.marker.vid] = want.record.marker]
<1> USE Fields, Blanks, IdentityAssumption
<1>t. TypeOK /\ DeletePlanned /\ LogicalHistory \in [Vid -> Object]
  BY ViewType DEF IInv, LInv, IntentOK, Planning, Commit
<1>1. CASE mode = "disabled"
  <2>1. ~want.record.publish /\ want.record.clear_current /\ want.record.marker = NoObject
        /\ want.record.remove_versions = {}
    BY <1>t, <1>1 DEF DeletePlanned, HistoryPlan
  <2> QED
    BY <1>t, <1>1, <2>1, MainView
<1>2. CASE mode # "disabled"
  <2> DEFINE k == want.record.marker
  <2>1. /\ ~want.record.publish /\ want.record.clear_current /\ k.gen # 0 /\ k.vid \in NewVids(mode)
        /\ want.record.remove_versions = NullOnly(k.vid)
    BY <1>t, <1>2 DEF DeletePlanned, HistoryPlan
  <2>2. k.vid \in Vid /\ NullOnly(k.vid) \subseteq {k.vid}
    BY <2>1, <1>2, <1>t DEF NewVids, NullOnly, TypeOK, Modes, Vid
  <2>3. LogicalHistory' = [v \in Vid |-> IF v = k.vid THEN k ELSE LogicalHistory[v]]
    BY <2>1, <2>2, MainView
  <2> QED
    BY <1>t, <1>2, <2>1, <2>2, <2>3, MainView
<1> QED
  BY <1>1, <1>2

\* Deciding a purge removes the version and, where one is due, promotes another.
LEMMA PurgeView ==
    ASSUME IInv, LInv, Commit, round = "main", task.kind = "deleteVersion"
    PROVE  /\ PurgesCurrent \/ LogicalHistory[task.vid].gen # 0
           /\ \/ \E w \in Vid :
                   /\ Promotable(w)
                   /\ LogicalCurrent' = LogicalHistory[w]
                   /\ LogicalHistory' = [LogicalHistory EXCEPT ![task.vid] = NoObject, ![w] = NoObject]
              \/ /\ \A w \in Vid : ~Promotable(w)
                 /\ LogicalCurrent' = IF PurgesCurrent \/ LogicalCurrent.gen = 0 THEN NoObject ELSE LogicalCurrent
                 /\ LogicalHistory' = [LogicalHistory EXCEPT ![task.vid] = NoObject]
<1> USE Fields, Blanks
<1>t. TypeOK /\ PurgePlanned /\ LogicalHistory \in [Vid -> Object] /\ task.vid \in Vid
  BY ViewType DEF IInv, LInv, IntentOK, Planning, Commit, TypeOK
<1>1. ASSUME NEW w \in Vid, Promotable(w), want = PublishPlan({task.vid, w}, LogicalHistory[w], w)
      PROVE  /\ LogicalCurrent' = LogicalHistory[w]
             /\ LogicalHistory' = [LogicalHistory EXCEPT ![task.vid] = NoObject, ![w] = NoObject]
  <2>1. /\ want.record.publish /\ want.record.marker = NoObject /\ want.object = LogicalHistory[w]
        /\ want.record.remove_versions = {task.vid, w}
    BY <1>1 DEF PublishPlan
  <2>2. LogicalHistory' = [v \in Vid |-> IF v \in {task.vid, w} THEN NoObject ELSE LogicalHistory[v]]
    BY <2>1, MainView
  <2>3. [LogicalHistory EXCEPT ![task.vid] = NoObject, ![w] = NoObject]
          = [v \in Vid |-> IF v \in {task.vid, w} THEN NoObject ELSE LogicalHistory[v]]
    BY <1>t, <1>1
  <2> QED
    BY <2>1, <2>2, <2>3, MainView
<1>2. ASSUME want = HistoryPlan({task.vid}, NoObject, PurgesCurrent \/ LogicalCurrent.gen = 0)
      PROVE  /\ LogicalCurrent' = IF PurgesCurrent \/ LogicalCurrent.gen = 0 THEN NoObject ELSE LogicalCurrent
             /\ LogicalHistory' = [LogicalHistory EXCEPT ![task.vid] = NoObject]
  <2>1. /\ ~want.record.publish /\ want.record.clear_current = (PurgesCurrent \/ LogicalCurrent.gen = 0)
        /\ want.record.marker = NoObject /\ want.record.remove_versions = {task.vid}
    BY <1>2 DEF HistoryPlan
  <2>2. LogicalHistory' = [v \in Vid |-> IF v \in {task.vid} THEN NoObject ELSE LogicalHistory[v]]
    BY <2>1, MainView
  <2> QED
    BY <1>t, <2>1, <2>2, MainView
<1> QED
  BY <1>t, <1>1, <1>2 DEF PurgePlanned

\* A touch changes an attribute of the current object, or fails.
LEMMA TouchView ==
    ASSUME IInv, LInv, Touch
    PROVE  \/ UNCHANGED View /\ End("err") /\ UNCHANGED <<possible, mode>>
           \/ /\ LogicalCurrent.gen # 0 /\ LogicalCurrent' = [LogicalCurrent EXCEPT !.attr = task.attr]
              /\ LogicalHistory' = LogicalHistory
              /\ landed' /\ pc' = "finish" /\ UNCHANGED <<task, reply, mode>> /\ possible' = Admitted(task)
<1> USE Fields, Blanks, PublicationAssumption
<1>t. TypeOK /\ ~journal[Cur].live /\ Coherent /\ Cur \in Place
  BY DEF IInv, RecoverOK, Touch, Place
<1>1. CASE meta[Cur].gen = 0
  BY <1>1, FilesView DEF Touch
<1>2. CASE meta[Cur].gen # 0
  <2>1. meta' = [meta EXCEPT ![Cur] = [meta[Cur] EXCEPT !.attr = task.attr]] /\ UNCHANGED <<body, journal, stage>>
    BY <1>2, <1>t DEF Touch
  <2>2. body[Cur] = meta[Cur].gen
    BY <1>t DEF Coherent, Excused, Place
  <2>3. LogicalCurrent = meta[Cur] /\ LogicalCurrent' = [meta[Cur] EXCEPT !.attr = task.attr]
    BY <1>t, <1>2, <2>1, <2>2 DEF LogicalCurrent, Decided, TypeOK
  <2>4. \A v \in Vid : LogicalVersion(v)' = LogicalVersion(v)
    BY <1>t, <2>1 DEF LogicalVersion, Decided, TypeOK, Place
  <2> QED
    BY <1>2, <2>3, <2>4 DEF LogicalHistory, Touch
<1> QED
  BY <1>1, <1>2

\* Assigning "null" gives an unversioned current object its identity.
LEMMA AssignView ==
    ASSUME IInv, LInv, AssignNull
    PROVE  \/ UNCHANGED View
           \/ /\ LogicalCurrent.gen # 0 /\ LogicalCurrent.vid = NoVid
              /\ LogicalCurrent' = Versioned(LogicalCurrent)
              /\ LogicalHistory' = LogicalHistory
<1> USE Fields, Blanks, PublicationAssumption
<1>t. TypeOK /\ ~journal[Cur].live /\ Coherent /\ Cur \in Place
  BY DEF IInv, RecoverOK, AssignNull, Place
<1>1. CASE ~(meta[Cur].gen # 0 /\ meta[Cur].vid = NoVid)
  BY <1>1, FilesView DEF AssignNull
<1>2. CASE meta[Cur].gen # 0 /\ meta[Cur].vid = NoVid
  <2>1. meta' = [meta EXCEPT ![Cur] = Versioned(meta[Cur])] /\ UNCHANGED <<body, journal, stage>>
    BY <1>2, <1>t DEF AssignNull
  <2>2. body[Cur] = meta[Cur].gen
    BY <1>t DEF Coherent, Excused, Place
  <2>3. LogicalCurrent = meta[Cur] /\ LogicalCurrent' = Versioned(meta[Cur])
    BY <1>t, <1>2, <2>1, <2>2 DEF LogicalCurrent, Decided, TypeOK
  <2>4. \A v \in Vid : LogicalVersion(v)' = LogicalVersion(v)
    BY <1>t, <2>1 DEF LogicalVersion, Decided, TypeOK, Place
  <2> QED
    BY <1>2, <2>3, <2>4 DEF LogicalHistory
<1> QED
  BY <1>1, <1>2

\* Only a commit brings a record to life, identities are drawn once, and
\* versioning is never disabled again.
LEMMA Monotone ==
    ASSUME IInv, LInv, [Next]_vars
    PROVE  /\ unused' \subseteq unused
           /\ mode' = "disabled" => mode = "disabled"
           /\ Commit \/ \A p \in Place : journal'[p].live => journal[p].live
<1> USE Fields, Blanks, PublicationAssumption
<1>t. TypeOK /\ TaskOK
  BY DEF IInv, LInv
<1>1. CASE UNCHANGED vars \/ Serve \/ (\E p \in Place : RecoverPlace(p)) \/ RecoverDone
  BY <1>1, <1>t DEF TypeOK, TaskOK, vars, files, memory, aux, Serve, Begin, RecoverPlace, RecoverDone
<1>2. CASE PlanPut
  BY <1>2, <1>t DEF TypeOK, TaskOK, PlanPut, files
<1>3. CASE PlanDelete
  BY <1>3, <1>t DEF TypeOK, TaskOK, PlanDelete, files
<1>4. CASE SweepVersions \/ OpenVersion \/ PlanDeleteVersion \/ Read
  BY <1>4, <1>t DEF TypeOK, TaskOK, SweepVersions, files, aux, OpenVersion, PlanDeleteVersion, Read
<1>5. CASE Touch
  BY <1>5, <1>t DEF TypeOK, TaskOK, Touch
<1>6. CASE SetMode
  BY <1>6, <1>t DEF TypeOK, TaskOK, SetMode
<1>7. CASE AssignNull
  BY <1>7, <1>t DEF TypeOK, TaskOK, AssignNull, aux
<1>8. CASE StageBody \/ StageMeta \/ Commit
  BY <1>8, <1>t DEF TypeOK, TaskOK, StageBody, aux, StageMeta, Commit
<1>9. CASE PublishBody \/ PublishMeta \/ RemovedVersions \/ CleanStage
  BY <1>9, <1>t DEF TypeOK, TaskOK, PublishBody, Effect, aux, PublishMeta, RemovedVersions, CleanStage
<1>10. CASE (\E v \in Vid : RemoveVersion(v))
  BY <1>10, <1>t DEF TypeOK, TaskOK, RemoveVersion, Effect, aux
<1>11. CASE MarkerBody \/ MarkerMeta \/ ClearBody \/ ClearMeta
  BY <1>11, <1>t DEF TypeOK, TaskOK, MarkerBody, Effect, aux, MarkerMeta, ClearBody, ClearMeta
<1>12. CASE RetireJournal
  BY <1>12, <1>t DEF TypeOK, TaskOK, RetireJournal, Effect, aux
<1>13. CASE Finish
  BY <1>13, <1>t DEF TypeOK, TaskOK, Finish
<1>14. CASE Fault
  BY <1>14, <1>t DEF TypeOK, TaskOK, Fault
<1>15. CASE Crash \/ Restart \/ Open
  BY <1>15, <1>t DEF TypeOK, TaskOK, Crash, files, Restart, aux, Open
<1> QED
  BY <1>1, <1>2, <1>3, <1>4, <1>5, <1>6, <1>7, <1>8, <1>9, <1>10, <1>11, <1>12, <1>13, <1>14, <1>15 DEF Next,
     Proceed, Apply

\* Every step keeps the identities of the view apart.
LEMMA NextIdentity == IInv /\ LInv /\ [Next]_vars => IdentityOK'
<1> SUFFICES ASSUME IInv, LInv, [Next]_vars PROVE IdentityOK'
  OBVIOUS
<1> USE Fields, Blanks, PublicationAssumption, IdentityAssumption
<1>t. TypeOK /\ TypeOK' /\ IdentityOK /\ unused \subseteq Place
  BY NextType DEF IInv, LInv, IdentityOK, Place, Vid
<1>v. LogicalCurrent \in Object /\ LogicalHistory \in [Vid -> Object]
  BY <1>t, ViewType
<1>u. unused' \subseteq unused /\ unused \subseteq Vid /\ (mode' = "disabled" => mode = "disabled")
  BY <1>t, Monotone DEF IdentityOK, Vid
<1>j. ~Commit => \A u \in unused' : ~journal'[u].live
  BY <1>t, <1>u, Monotone DEF IdentityOK
<1>1. CASE UNCHANGED View /\ ~Commit
  BY <1>1, <1>t, <1>u, <1>j DEF IdentityOK, View
<1>2. CASE Touch
  <2>1. CASE UNCHANGED View
    BY <1>1, <1>2, <2>1 DEF Touch, Commit
  <2>2. CASE /\ LogicalCurrent' = [LogicalCurrent EXCEPT !.attr = task.attr] /\ LogicalHistory' = LogicalHistory
    <3>1. LogicalCurrent'.gen = LogicalCurrent.gen /\ LogicalCurrent'.vid = LogicalCurrent.vid
      BY <2>2, <1>v DEF Object
    <3> QED
      BY <1>2, <2>2, <3>1, <1>t, <1>u, <1>j DEF IdentityOK, IdOf, Touch, Commit
  <2> QED
    BY <1>2, <2>1, <2>2, TouchView
<1>3. CASE AssignNull
  <2>1. CASE UNCHANGED View
    BY <1>1, <1>3, <2>1 DEF AssignNull, Commit
  <2>2. CASE /\ LogicalCurrent' = Versioned(LogicalCurrent) /\ LogicalHistory' = LogicalHistory
    <3>1. /\ LogicalCurrent'.gen = LogicalCurrent.gen /\ IdOf(LogicalCurrent') = IdOf(LogicalCurrent)
          /\ LogicalCurrent'.vid \in {LogicalCurrent.vid, NullId}
      BY <2>2, <1>v DEF Object, Versioned, IdOf, Vid
    <3> QED
      BY <1>3, <2>2, <3>1, <1>t, <1>u, <1>j DEF IdentityOK, AssignNull, Commit
  <2> QED
    BY <1>3, <2>1, <2>2, AssignView
<1>4. CASE Commit /\ round = "snap"
  <2> DEFINE i == IdOf(LogicalCurrent)
  <2>1. /\ LogicalCurrent' = LogicalCurrent /\ LogicalHistory' = [LogicalHistory EXCEPT ![i] = Versioned(LogicalCurrent)]
        /\ LogicalCurrent.gen # 0 /\ mode # "disabled"
    BY <1>4, SnapView DEF NeedsSnapshot
  <2>2. i \in Vid /\ Versioned(LogicalCurrent).gen = LogicalCurrent.gen /\ Versioned(LogicalCurrent).vid = i
    BY <1>v DEF Object, Versioned, IdOf, Vid
  <2>3. i \notin unused /\ at = i
    <3>1. i \notin unused
      BY <1>t DEF IdentityOK, IdOf
    <3>2. LogicalCurrent = meta[Cur] /\ at = IdOf(meta[Cur])
      BY <1>4, SettledView DEF IInv, LInv, IntentOK, Planning, Commit
    <3> QED
      BY <3>1, <3>2
  <2>4. \A u \in unused' : ~journal'[u].live
    BY <1>4, <2>3, <1>t, <1>u DEF Commit, IdentityOK, TypeOK
  <2>5. mode' = mode
    BY <1>4 DEF Commit
  <2> QED
    BY <2>1, <2>2, <2>3, <2>4, <2>5, <1>t, <1>v, <1>u DEF IdentityOK
<1>5. CASE Commit /\ round = "main"
  <2>1. mode' = mode /\ (\A u \in unused' : ~journal'[u].live)
    BY <1>5, <1>t, <1>u DEF Commit, IdentityOK, TypeOK, IInv, StagingOK, Vid
  <2>2. CASE task.kind = "put"
    <3> DEFINE o == want.object
    <3>1. /\ LogicalCurrent' = o /\ o.vid \in NewVids(mode) /\ Reserved(o.vid)
          /\ LogicalHistory' = IF mode = "suspended" THEN [LogicalHistory EXCEPT ![NullId] = NoObject] ELSE LogicalHistory
      BY <1>5, <2>2, PutView DEF PutPlanned
    <3>2. o.vid \notin unused
      BY <3>1, <1>t DEF Reserved, IdentityOK
    <3>3. CASE mode = "enabled"
      <4>1. o.vid \in Uuid /\ IdOf(o) = o.vid
        BY <3>1, <3>3 DEF NewVids, IdOf
      <4> QED
        BY <2>1, <3>1, <3>2, <3>3, <4>1, <1>t, <1>u DEF IdentityOK, Reserved
    <3>4. CASE mode = "disabled"
      <4>1. IdOf(o) = NullId
        BY <3>1, <3>4 DEF NewVids, IdOf
      <4> QED
        BY <2>1, <3>1, <3>2, <3>4, <4>1, <1>t, <1>u DEF IdentityOK, Vid
    <3>5. CASE mode = "suspended"
      <4>1. IdOf(o) = NullId
        BY <3>1, <3>5 DEF NewVids, IdOf
      <4> QED
        BY <2>1, <3>1, <3>2, <3>5, <4>1, <1>t, <1>u, <1>v DEF IdentityOK, Vid
    <3> QED
      BY <3>3, <3>4, <3>5, <1>t DEF TypeOK, Modes
  <2>3. CASE task.kind = "delete"
    <3>1. CASE mode = "disabled"
      <4>1. LogicalCurrent' = NoObject /\ LogicalHistory' = LogicalHistory
        BY <1>5, <2>3, <3>1, DeleteView
      <4>2. NoObject.vid = NoVid
        BY DEF NoObject
      <4> QED
        BY <2>1, <4>1, <4>2, <1>t, <1>u DEF IdentityOK, Vid
    <3>2. CASE mode # "disabled"
      <4> DEFINE k == want.record.marker
      <4>1. /\ LogicalCurrent' = NoObject /\ k.gen # 0 /\ k.vid \in NewVids(mode) /\ Reserved(k.vid)
            /\ LogicalHistory' = [LogicalHistory EXCEPT ![k.vid] = k]
        BY <1>5, <2>3, <3>2, DeleteView DEF DeletePlanned
      <4>2. k.vid \in Vid /\ k.vid \notin unused
        BY <4>1, <3>2, <1>t DEF NewVids, TypeOK, Modes, Vid, Reserved, IdentityOK
      <4>3. NoObject.vid = NoVid
        BY DEF NoObject
      <4> QED
        BY <2>1, <3>2, <4>1, <4>2, <4>3, <1>t, <1>u, <1>v DEF IdentityOK, Vid
    <3> QED
      BY <3>1, <3>2
  <2>4. CASE task.kind = "deleteVersion"
    <3>n. NoObject.vid = NoVid /\ task.vid \in Vid
      BY <1>t DEF NoObject, TypeOK
    <3>1. ASSUME NEW w \in Vid, Promotable(w), LogicalCurrent' = LogicalHistory[w],
                 LogicalHistory' = [LogicalHistory EXCEPT ![task.vid] = NoObject, ![w] = NoObject]
          PROVE  IdentityOK'
      <4>1. LogicalHistory[w].gen # 0 /\ LogicalHistory[w].vid = w /\ w \notin unused
        BY <3>1, <1>t DEF Promotable, History!IsLatest, IdentityOK
      <4>2. IdOf(LogicalHistory[w]) = w /\ LogicalHistory'[w] = NoObject
        BY <3>1, <3>n, <4>1, <1>v DEF IdOf, Vid
      <4>3. \A v \in Vid : LogicalHistory'[v] \in {LogicalHistory[v], NoObject}
        BY <3>1, <3>n, <1>v
      <4> QED
        BY <2>1, <3>1, <4>1, <4>2, <4>3, <1>t, <1>u DEF IdentityOK
    <3>2. ASSUME LogicalCurrent' \in {NoObject, LogicalCurrent},
                 LogicalHistory' = [LogicalHistory EXCEPT ![task.vid] = NoObject]
          PROVE  IdentityOK'
      <4>1. \A v \in Vid : LogicalHistory'[v] \in {LogicalHistory[v], NoObject}
        BY <3>2, <3>n, <1>v
      <4>2. IdOf(LogicalCurrent) \in Vid
        BY <1>v, VersionedType
      <4> QED
        BY <2>1, <3>2, <3>n, <4>1, <4>2, <1>t, <1>u, <1>v DEF IdentityOK
    <3> QED
      BY <1>5, <2>4, <3>1, <3>2, PurgeView
  <2> QED
    BY <1>5, <2>2, <2>3, <2>4 DEF LInv, TaskOK
<1> QED
  BY <1>1, <1>2, <1>3, <1>4, <1>5, KeepsView DEF IInv, StagingOK, Commit

\* A plan stays the one the view calls for while neither changes.
LEMMA PlanKept ==
    ASSUME UNCHANGED View, UNCHANGED <<want, task, mode, unused>>,
           \A id \in Uuid : journal'[id].live => journal[id].live
    PROVE  /\ PutPlanned => PutPlanned'
           /\ DeletePlanned => DeletePlanned'
           /\ PurgePlanned => PurgePlanned'
<1> USE DEF View
<1>1. \A id : Reserved(id) => Reserved(id)'
  BY DEF Reserved
<1>2. PutPlanned => PutPlanned'
  BY <1>1 DEF PutPlanned
<1>3. DeletePlanned => DeletePlanned'
  BY <1>1 DEF DeletePlanned
<1>4. PurgesCurrent' = PurgesCurrent /\ \A w \in Vid : Promotable(w)' = Promotable(w)
  BY DEF PurgesCurrent, Promotable, History!IsLatest
<1>5. PurgePlanned => PurgePlanned'
  BY <1>4 DEF PurgePlanned
<1> QED
  BY <1>2, <1>3, <1>5

\* Where a plan in flight comes from, and what its steps leave alone.
LEMMA StaysPlanned ==
    ASSUME IInv, LInv, [Next]_vars, Planning'
    PROVE  \/ PlanPut \/ PlanDelete \/ PlanDeleteVersion
           \/ /\ Planning /\ UNCHANGED <<want, task, mode, unused>>
              /\ round' = "snap" => /\ round = "snap" /\ body'[Cur] = body[Cur] /\ meta'[Cur] = meta[Cur]
                                    /\ journal'[Cur] = journal[Cur]
              /\ pc' = "apply" => pc = "recover" \/ Commit \/ (pc = "apply" /\ UNCHANGED round)
              /\ pc' = "apply" /\ attempt' # "recover" /\ ~Commit => pc = "apply" /\ attempt # "recover"
              /\ pc' \in {"stageBody", "stageMeta", "commit"} =>
                   (RecoverDone /\ round = round') \/ (pc \in {"stageBody", "stageMeta", "commit"} /\ UNCHANGED <<at, round>>)
              /\ round = "snap" /\ round' = "main" => pc = "apply" /\ attempt # "recover"
<1>t. TypeOK /\ TaskOK /\ StagingOK /\ ApplyOK /\ JournalOK /\ RecoverOK /\ Cur \in Place
  BY DEF IInv, LInv, Place
<1> USE Fields, Blanks, PublicationAssumption
<1>1. CASE UNCHANGED vars
  BY <1>1, <1>t DEF Planning, TypeOK, TaskOK, StagingOK, ApplyOK, JournalOK, RecoverOK, Place, vars, files,
     memory, aux
<1>2. CASE Serve
  BY <1>2, <1>t DEF Planning, TypeOK, TaskOK, StagingOK, ApplyOK, JournalOK, RecoverOK, Place, Serve, Begin,
     Requests, files
<1>3. CASE \E p \in Place : RecoverPlace(p)
  BY <1>3, <1>t DEF Planning, TypeOK, TaskOK, StagingOK, ApplyOK, JournalOK, RecoverOK, Place, RecoverPlace,
     FirstStep, aux
<1>4. CASE RecoverDone
  BY <1>4, <1>t DEF Planning, TypeOK, TaskOK, StagingOK, ApplyOK, JournalOK, RecoverOK, Place, RecoverDone,
     files, aux
<1>5. CASE PlanPut
  BY <1>5
<1>6. CASE PlanDelete
  BY <1>6
<1>7. CASE SweepVersions
  BY <1>7, <1>t DEF Planning, TypeOK, TaskOK, StagingOK, ApplyOK, JournalOK, RecoverOK, Place, SweepVersions,
     files, aux
<1>8. CASE PlanDeleteVersion
  BY <1>8
<1>9. CASE Touch
  BY <1>9, <1>t DEF Planning, TypeOK, TaskOK, StagingOK, ApplyOK, JournalOK, RecoverOK, Place, Touch, End
<1>10. CASE SetMode
  BY <1>10, <1>t DEF Planning, TypeOK, TaskOK, StagingOK, ApplyOK, JournalOK, RecoverOK, Place, SetMode
<1>11. CASE AssignNull
  BY <1>11, <1>t DEF Planning, TypeOK, TaskOK, StagingOK, ApplyOK, JournalOK, RecoverOK, Place, AssignNull, aux
<1>12. CASE OpenVersion
  BY <1>12, <1>t DEF Planning, TypeOK, TaskOK, StagingOK, ApplyOK, JournalOK, RecoverOK, Place, OpenVersion,
     files, aux
<1>13. CASE Read
  BY <1>13, <1>t DEF Planning, TypeOK, TaskOK, StagingOK, ApplyOK, JournalOK, RecoverOK, Place, Read, End, files
<1>14. CASE StageBody
  BY <1>14, <1>t DEF Planning, TypeOK, TaskOK, StagingOK, ApplyOK, JournalOK, RecoverOK, Place, StageBody, aux
<1>15. CASE StageMeta
  BY <1>15, <1>t DEF Planning, TypeOK, TaskOK, StagingOK, ApplyOK, JournalOK, RecoverOK, Place, StageMeta, aux
<1>16. CASE Commit
  BY <1>16, <1>t DEF Planning, TypeOK, TaskOK, StagingOK, ApplyOK, JournalOK, RecoverOK, Place, Commit,
     FirstStep
<1>17. CASE PublishBody
  BY <1>17, <1>t DEF Planning, TypeOK, TaskOK, StagingOK, ApplyOK, JournalOK, RecoverOK, Place, PublishBody,
     AtStep, Effect, aux
<1>18. CASE PublishMeta
  BY <1>18, <1>t DEF Planning, TypeOK, TaskOK, StagingOK, ApplyOK, JournalOK, RecoverOK, Place, PublishMeta,
     AtStep, Effect, aux
<1>19. CASE \E v \in Vid : RemoveVersion(v)
  BY <1>19, <1>t DEF Planning, TypeOK, TaskOK, StagingOK, ApplyOK, JournalOK, RecoverOK, Place, RemoveVersion,
     AtStep, Effect, aux
<1>20. CASE RemovedVersions
  BY <1>20, <1>t DEF Planning, TypeOK, TaskOK, StagingOK, ApplyOK, JournalOK, RecoverOK, Place, RemovedVersions,
     AfterRemove, AtStep, Effect, aux
<1>21. CASE MarkerBody
  BY <1>21, <1>t DEF Planning, TypeOK, TaskOK, StagingOK, ApplyOK, JournalOK, RecoverOK, Place, MarkerBody,
     AtStep, Effect, aux
<1>22. CASE MarkerMeta
  BY <1>22, <1>t DEF Planning, TypeOK, TaskOK, StagingOK, ApplyOK, JournalOK, RecoverOK, Place, MarkerMeta,
     AtStep, Effect, aux
<1>23. CASE ClearBody
  BY <1>23, <1>t DEF Planning, TypeOK, TaskOK, StagingOK, ApplyOK, JournalOK, RecoverOK, Place, ClearBody,
     AtStep, Effect, aux
<1>24. CASE ClearMeta
  BY <1>24, <1>t DEF Planning, TypeOK, TaskOK, StagingOK, ApplyOK, JournalOK, RecoverOK, Place, ClearMeta,
     AtStep, Effect, aux
<1>25. CASE RetireJournal
  BY <1>25, <1>t DEF Planning, TypeOK, TaskOK, StagingOK, ApplyOK, JournalOK, RecoverOK, Place, RetireJournal,
     AtStep, Effect, aux
<1>26. CASE CleanStage
  BY <1>26, <1>t DEF Planning, TypeOK, TaskOK, StagingOK, ApplyOK, JournalOK, RecoverOK, Place, CleanStage,
     AtStep, Effect, aux
<1>27. CASE Finish
  BY <1>27, <1>t DEF Planning, TypeOK, TaskOK, StagingOK, ApplyOK, JournalOK, RecoverOK, Place, Finish, End
<1>28. CASE Fault
  BY <1>28, <1>t DEF Planning, TypeOK, TaskOK, StagingOK, ApplyOK, JournalOK, RecoverOK, Place, Fault,
     FirstStep, End
<1>29. CASE Crash
  BY <1>29, <1>t DEF Planning, TypeOK, TaskOK, StagingOK, ApplyOK, JournalOK, RecoverOK, Place, Crash, files
<1>30. CASE Restart
  BY <1>30, <1>t DEF Planning, TypeOK, TaskOK, StagingOK, ApplyOK, JournalOK, RecoverOK, Place, Restart, files,
     aux
<1>31. CASE Open
  BY <1>31, <1>t DEF Planning, TypeOK, TaskOK, StagingOK, ApplyOK, JournalOK, RecoverOK, Place, Open, files, aux
<1> QED
  BY <1>1, <1>2, <1>3, <1>4, <1>5, <1>6, <1>7, <1>8, <1>9, <1>10, <1>11, <1>12, <1>13, <1>14, <1>15, <1>16,
     <1>17, <1>18, <1>19, <1>20, <1>21, <1>22, <1>23, <1>24, <1>25, <1>26, <1>27, <1>28, <1>29, <1>30, <1>31 DEF
     Next, Proceed, Apply

\* With nothing decided, a body is there exactly if the view has an object.
LEMMA PresentView ==
    ASSUME IInv, DecisionOK, ~journal[Cur].live
    PROVE  /\ Present <=> LogicalCurrent.gen # 0
           /\ Present => LogicalCurrent = meta[Cur]
           /\ ~Present => LogicalCurrent = NoObject
           /\ \A v \in Vid : body[v] # 0 => LogicalHistory[v].gen # 0
           /\ \A v \in Vid : ~journal[v].live => /\ LogicalHistory[v].gen = meta[v].gen
                                                 /\ meta[v].gen # 0 => LogicalHistory[v] = meta[v]
                                                 /\ body[v] = meta[v].gen
<1> USE Fields, Blanks, PublicationAssumption
<1>t. TypeOK /\ Coherent /\ JournalOK /\ Cur \in Place /\ Vid \subseteq Place
  BY DEF IInv, Place
<1>1. body[Cur] = meta[Cur].gen /\ \A v \in Vid : ~journal[v].live => body[v] = meta[v].gen
  BY <1>t DEF Coherent, Excused, Decided, Place
<1>2. \A v \in Vid : journal[v].live => stage[v].meta.gen # 0
  BY <1>t DEF DecisionOK, JournalOK
<1>3. \A v \in Vid : body[v] \in Nat /\ meta[v].gen \in Nat
  BY <1>t DEF TypeOK
<1> QED
  BY <1>t, <1>1, <1>2, <1>3, SettledView DEF Present

\* A put plans a new generation under an identity of its own.
LEMMA PlanPutIntent == ASSUME IInv, LInv, PlanPut PROVE PutPlanned'
<1> USE Fields, Blanks, PublicationAssumption, IdentityAssumption
<1>t. TypeOK /\ IdentityOK /\ gens + 1 # 0 /\ UNCHANGED <<mode, task, journal>>
  BY DEF IInv, LInv, TypeOK, PlanPut, files
<1>v. UNCHANGED View
  BY FilesView DEF PlanPut, files
<1> DEFINE New(id) == [gen |-> gens + 1, vid |-> id, marker |-> FALSE, attr |-> task.attr]
<1>1. PICK id \in NewVids(mode) : /\ mode = "enabled" => id \in unused
                                  /\ unused' = unused \ {id}
                                  /\ want' = PublishPlan(NullOnly(id), New(id), Cur)
  BY DEF PlanPut, Publish
<1>2. want'.object = New(id) /\ want'.record = PublishPlan(NullOnly(id), New(id), Cur).record
  BY <1>1 DEF PublishPlan
<1>3. id \in Uuid => mode = "enabled"
  BY <1>1, <1>t DEF NewVids, TypeOK, Modes
<1>4. Reserved(id)'
  BY <1>1, <1>3, <1>t, <1>v DEF Reserved, IdentityOK, View
<1> QED
  BY <1>1, <1>2, <1>4, <1>t DEF PutPlanned

\* A delete plans a marker under an identity of its own, or just the end of the object.
LEMMA PlanDeleteIntent == ASSUME IInv, LInv, PlanDelete, pc' = "recover" PROVE DeletePlanned'
<1> USE Fields, Blanks, PublicationAssumption, IdentityAssumption
<1>t. TypeOK /\ IdentityOK /\ DecisionOK /\ ~journal[Cur].live /\ gens + 1 # 0 /\ UNCHANGED <<mode, journal>>
  BY DEF IInv, LInv, TypeOK, RecoverOK, PlanDelete, files
<1>v. UNCHANGED View
  BY FilesView DEF PlanDelete, files
<1>1. CASE mode = "disabled"
  <2>1. Present /\ want' = HistoryPlan({}, NoObject, TRUE)
    BY <1>1 DEF PlanDelete, Publish, End
  <2>2. LogicalCurrent.gen # 0
    BY <2>1, <1>t, PresentView
  <2> QED
    BY <1>1, <1>t, <1>v, <2>1, <2>2 DEF DeletePlanned, View
<1>2. CASE mode # "disabled"
  <2> DEFINE New(id) == [gen |-> gens + 1, vid |-> id, marker |-> TRUE, attr |-> "plain"]
  <2>1. PICK id \in NewVids(mode) : /\ mode = "enabled" => id \in unused
                                    /\ unused' = unused \ {id}
                                    /\ want' = HistoryPlan(NullOnly(id), New(id), TRUE)
    BY <1>2 DEF PlanDelete, Publish
  <2>2. want'.record = HistoryPlan(NullOnly(id), New(id), TRUE).record /\ want'.record.marker = New(id)
    BY <2>1 DEF HistoryPlan
  <2>3. id \in Uuid => mode = "enabled"
    BY <2>1, <1>t DEF NewVids, TypeOK, Modes
  <2>4. Reserved(id)'
    BY <2>1, <2>3, <1>t, <1>v DEF Reserved, IdentityOK, View
  <2>5. /\ want'.record.marker.gen # 0 /\ want'.record.marker.marker /\ want'.record.marker.vid = id
        /\ want'.record = HistoryPlan(NullOnly(id), want'.record.marker, TRUE).record
    <3>1. New(id).gen # 0 /\ New(id).marker /\ New(id).vid = id
      BY <1>t
    <3> HIDE DEF New
    <3> QED
      BY <2>2, <3>1
  <2>6. mode' = mode /\ id \in NewVids(mode)
    BY <1>t, <2>1
  <2> HIDE DEF New
  <2> QED
    BY <1>2, <2>4, <2>5, <2>6 DEF DeletePlanned
<1> QED
  BY <1>1, <1>2

\* A purge chooses among the snapshots that the view has.
LEMMA PlanPurgeIntent == ASSUME IInv, LInv, PlanDeleteVersion, pc' = "recover" PROVE PurgePlanned'
<1> USE Fields, Blanks, PublicationAssumption, IdentityAssumption
<1> DEFINE v == task.vid
           deletingCurrent == Present /\ meta[Cur].vid = v
           restores == deletingCurrent \/ ~Present
           Promotes(w) == restores /\ IsLatest(w, v) /\ ~meta[w].marker
<1>t. TypeOK /\ DecisionOK /\ RecoverOK /\ ~journal[Cur].live /\ v \in Vid /\ pc = "plan"
  BY DEF IInv, LInv, TypeOK, RecoverOK, PlanDeleteVersion
<1>v. UNCHANGED View /\ task.kind = "deleteVersion"
  BY FilesView DEF PlanDeleteVersion, files
<1>1. /\ task' = task
      /\ deletingCurrent \/ body[v] # 0
      /\ restores => round = "sweep"
      /\ \/ \E w \in Vid : Promotes(w) /\ want' = PublishPlan({v, w}, meta[w], w)
         \/ (\A w \in Vid : ~Promotes(w)) /\ want' = HistoryPlan({v}, NoObject, restores)
  BY DEF PlanDeleteVersion, Publish, End
<1>2. /\ deletingCurrent <=> PurgesCurrent
      /\ restores <=> (PurgesCurrent \/ LogicalCurrent.gen = 0)
      /\ body[v] # 0 => LogicalHistory[v].gen # 0
  BY <1>t, PresentView DEF PurgesCurrent
<1>3. ASSUME restores
      PROVE  \A w \in Vid : /\ LogicalHistory[w].gen = meta[w].gen
                            /\ meta[w].gen # 0 => LogicalHistory[w] = meta[w]
  <2>1. \A w \in Vid : ~journal[w].live
    BY <1>3, <1>1, <1>t, <1>v DEF RecoverOK
  <2> QED
    BY <2>1, <1>t, PresentView
<1>4. ASSUME NEW w \in Vid PROVE Promotes(w) <=> Promotable(w)
  <2>1. CASE restores
    <3>0. \A x \in Vid : LogicalHistory[x].gen = meta[x].gen
      BY <1>3, <2>1
    <3>1. IsLatest(w, v) <=> History!IsLatest(w, v)
      <4>1. w \in Vid /\ \A x \in Vid : LogicalHistory[x].gen = meta[x].gen
        BY <3>0
      <4> HIDE DEF v
      <4> QED
        BY ONLY <4>1 DEF IsLatest, History!IsLatest, Vid, History!Vid
    <3>2. IsLatest(w, v) => LogicalHistory[w] = meta[w]
      BY <1>3, <2>1 DEF IsLatest
    <3> QED
      BY <1>2, <2>1, <3>1, <3>2 DEF Promotable
  <2>2. CASE ~restores
    BY <1>2, <2>2 DEF Promotable
  <2> QED
    BY <2>1, <2>2
<1>5. \A w \in Vid : Promotes(w) => LogicalHistory[w] = meta[w]
  BY <1>3 DEF IsLatest
<1>w. task' = task /\ LogicalCurrent' = LogicalCurrent /\ LogicalHistory' = LogicalHistory
  <2>1. task' = task
    BY <1>1
  <2>2. LogicalCurrent' = LogicalCurrent /\ LogicalHistory' = LogicalHistory
    BY ONLY <1>v DEF View
  <2> QED
    BY <2>1, <2>2
<1>6. PurgesCurrent' = PurgesCurrent /\ \A w \in Vid : Promotable(w)' = Promotable(w)
  BY ONLY <1>w DEF PurgesCurrent, Promotable, History!IsLatest
<1>7. CASE \E w \in Vid : Promotes(w) /\ want' = PublishPlan({v, w}, meta[w], w)
  <2>1. PICK w \in Vid : Promotes(w) /\ want' = PublishPlan({v, w}, meta[w], w)
    BY <1>7
  <2>2. Promotable(w)' /\ want' = PublishPlan({v, w}, LogicalHistory[w], w)
    BY <2>1, <1>4, <1>5, <1>6
  <2> QED
    BY <1>1, <1>2, <1>6, <1>w, <2>2 DEF PurgePlanned
<1>8. CASE (\A w \in Vid : ~Promotes(w)) /\ want' = HistoryPlan({v}, NoObject, restores)
  <2>1. restores = (PurgesCurrent \/ LogicalCurrent.gen = 0)
    BY <1>2
  <2>2. \A w \in Vid : ~Promotable(w)'
    BY <1>4, <1>6, <1>8
  <2> QED
    BY <1>1, <1>2, <1>6, <1>8, <1>w, <2>1, <2>2 DEF PurgePlanned
<1> QED
  BY <1>1, <1>7, <1>8

\* A plan that is owed a snapshot takes it first; any other goes straight on.
LEMMA PublishRound ==
    ASSUME IInv, LInv, pc = "plan", UNCHANGED files, UNCHANGED task, NEW w, Publish(w)
    PROVE  /\ pc' = "recover"
           /\ round' = "snap" => body'[Cur] # 0 /\ NeedsSnapshot(mode', meta'[Cur]) /\ ~journal'[Cur].live
           /\ round' = "main" /\ task'.kind \in {"put", "delete"} => ~NeedsSnapshot(mode', LogicalCurrent')
<1>1. ~journal[Cur].live /\ DecisionOK /\ LogicalCurrent' = LogicalCurrent
  BY FilesView DEF IInv, RecoverOK, LInv, files, View
<1>2. NeedsSnapshot(mode, LogicalCurrent) => Present /\ NeedsSnapshot(mode, meta[Cur])
  <2>1. NeedsSnapshot(mode, LogicalCurrent) => LogicalCurrent.gen # 0
    BY DEF NeedsSnapshot
  <2> QED
    BY <1>1, <2>1, PresentView
<1>3. round' = "snap" => body'[Cur] # 0 /\ NeedsSnapshot(mode', meta'[Cur]) /\ ~journal'[Cur].live
  BY <1>1 DEF Publish, files, Present
<1>4. ASSUME round' = "main", task'.kind \in {"put", "delete"} PROVE ~NeedsSnapshot(mode', LogicalCurrent')
  <2>1. ~(Present /\ NeedsSnapshot(mode, meta[Cur]))
    BY <1>4 DEF Publish
  <2> QED
    BY <1>1, <1>2, <2>1 DEF files
<1> QED
  BY <1>3, <1>4 DEF Publish

\* Every step keeps the plan in flight the one that the view calls for.
LEMMA NextIntent == IInv /\ LInv /\ [Next]_vars => IntentOK'
<1> SUFFICES ASSUME IInv, LInv, [Next]_vars PROVE IntentOK'
  OBVIOUS
<1> USE Fields, Blanks, PublicationAssumption, IdentityAssumption
<1>t. TypeOK /\ TaskOK /\ IntentOK /\ StagingOK /\ IdentityOK /\ TaskOK'
  BY NextTask DEF IInv, LInv
<1>1. CASE ~Planning'
  BY <1>1 DEF IntentOK, Planning
<1>2. ASSUME Planning', PlanPut \/ PlanDelete \/ PlanDeleteVersion PROVE IntentOK'
  <2>1. pc = "plan" /\ UNCHANGED files
    BY <1>2 DEF PlanPut, PlanDelete, PlanDeleteVersion
  <2>2. pc' # "idle" /\ task' = task /\ \E w : Publish(w)
    BY <1>2 DEF Planning, PlanPut, PlanDelete, PlanDeleteVersion, End
  <2>3. PICK w : Publish(w)
    BY <2>2
  <2>4. /\ pc' = "recover"
        /\ round' = "snap" => body'[Cur] # 0 /\ NeedsSnapshot(mode', meta'[Cur]) /\ ~journal'[Cur].live
        /\ round' = "main" /\ task'.kind \in {"put", "delete"} => ~NeedsSnapshot(mode', LogicalCurrent')
    BY <2>1, <2>2, <2>3, PublishRound
  <2>5. /\ task'.kind = "put" => PutPlanned'
        /\ task'.kind = "delete" => DeletePlanned'
        /\ task'.kind = "deleteVersion" => PurgePlanned'
    <3>1. CASE PlanPut
      BY <3>1, <2>2, PlanPutIntent DEF PlanPut
    <3>2. CASE PlanDelete
      BY <3>2, <2>2, <2>4, PlanDeleteIntent DEF PlanDelete
    <3>3. CASE PlanDeleteVersion
      BY <3>3, <2>2, <2>4, PlanPurgeIntent DEF PlanDeleteVersion
    <3> QED
      BY <1>2, <3>1, <3>2, <3>3
  <2> QED
    BY <2>4, <2>5 DEF IntentOK
<1>3. ASSUME Planning', Planning, UNCHANGED <<want, task, mode, unused>>,
             round' = "snap" => /\ round = "snap" /\ body'[Cur] = body[Cur] /\ meta'[Cur] = meta[Cur]
                                /\ journal'[Cur] = journal[Cur],
             pc' = "apply" /\ attempt' # "recover" /\ ~Commit => pc = "apply" /\ attempt # "recover",
             pc' \in {"stageBody", "stageMeta", "commit"} =>
               (RecoverDone /\ round = round') \/ (pc \in {"stageBody", "stageMeta", "commit"} /\ UNCHANGED <<at, round>>),
             round = "snap" /\ round' = "main" => pc = "apply" /\ attempt # "recover"
      PROVE  IntentOK'
  <2>r. round \in {"snap", "main"}
    BY <1>3 DEF Planning
  <2>4. round' = "snap" => body'[Cur] # 0 /\ NeedsSnapshot(mode', meta'[Cur]) /\ ~journal'[Cur].live
    BY <1>t, <1>3 DEF IntentOK
  <2>5. pc' \in {"stageBody", "stageMeta", "commit"} /\ round' = "snap" => at' = IdOf(meta'[Cur])
    BY <1>t, <1>3 DEF IntentOK, RecoverDone, files
  <2>1. CASE Commit
    <3> DEFINE i == IdOf(LogicalCurrent)
    <3>1. round = "snap" /\ pc' = "apply" /\ UNCHANGED <<round, body, meta, task>>
      BY <1>3, <2>1, <2>r DEF Commit, Planning
    <3>2. /\ LogicalCurrent' = LogicalCurrent /\ LogicalHistory' = [LogicalHistory EXCEPT ![i] = Versioned(LogicalCurrent)]
          /\ NeedsSnapshot(mode, LogicalCurrent)
      BY <2>1, <3>1, SnapView
    <3>3. LogicalHistory \in [Vid -> Object] /\ LogicalCurrent \in Object /\ i \in Vid
      BY <1>t, ViewType, VersionedType
    <3>4. at = i
      BY <1>t, <2>1, <3>1, SettledView DEF IntentOK, Commit, StagingOK, Planning
    <3>5. ASSUME NEW id, Reserved(id) PROVE Reserved(id)'
      <4>1. id \in Uuid => id # i
        BY <3>5 DEF Reserved, IdOf
      <4>2. id \in Uuid => journal'[id].live = journal[id].live
        BY <2>1, <3>4, <4>1, <1>t DEF Commit, TypeOK, Place, Vid
      <4>3. id \in Uuid => LogicalHistory'[id] = LogicalHistory[id]
        BY <3>2, <3>3, <4>1 DEF Vid
      <4> QED
        BY <3>5, <4>2, <4>3, <3>2, <1>3 DEF Reserved
    <3>6. task.kind = "put" => PutPlanned'
      BY <1>t, <1>3, <3>5 DEF IntentOK, PutPlanned
    <3>7. task.kind = "delete" => DeletePlanned'
      BY <1>t, <1>3, <3>5, <3>2 DEF IntentOK, DeletePlanned
    <3>8. task.kind \in {"put", "delete"}
      BY <1>t, <3>1 DEF TaskOK
    <3>9. LogicalHistory'[IdOf(LogicalCurrent')] = Versioned(LogicalCurrent')
      BY <3>2, <3>3
    <3> QED
      BY <2>4, <3>1, <3>6, <3>7, <3>8, <3>9 DEF IntentOK
  <2>2. CASE ~Commit
    <3>1. UNCHANGED View
      BY <1>3, <2>2, KeepsView DEF Planning, Touch, AssignNull
    <3>2. /\ PutPlanned => PutPlanned'
          /\ DeletePlanned => DeletePlanned'
          /\ PurgePlanned => PurgePlanned'
      <4>1. \A id \in Uuid : journal'[id].live => journal[id].live
        BY <2>2, Monotone DEF Place, Vid
      <4> QED
        BY <1>3, <3>1, <4>1, PlanKept
    <3>3. LogicalCurrent' = LogicalCurrent /\ LogicalHistory' = LogicalHistory
      BY ONLY <3>1 DEF View
    <3>6. pc' = "apply" /\ round' = "snap" /\ attempt' # "recover" =>
            LogicalHistory'[IdOf(LogicalCurrent')] = Versioned(LogicalCurrent')
      BY <1>t, <1>3, <2>2, <3>3 DEF IntentOK
    <3>7. ASSUME round' = "main", task'.kind \in {"put", "delete"}, NeedsSnapshot(mode', LogicalCurrent')
          PROVE  LogicalHistory'[IdOf(LogicalCurrent')] = Versioned(LogicalCurrent')
      <4>1. CASE round = "main"
        BY <1>t, <1>3, <3>3, <3>7, <4>1 DEF IntentOK
      <4>2. CASE round = "snap"
        BY <1>t, <1>3, <3>3, <3>7, <4>2 DEF IntentOK
      <4> QED
        BY <2>r, <4>1, <4>2
    <3> QED
      BY <1>t, <1>3, <2>4, <2>5, <3>2, <3>6, <3>7 DEF IntentOK
  <2> QED
    BY <2>1, <2>2
<1> QED
  BY <1>1, <1>2, <1>3, StaysPlanned

\* The protection proof is only withdrawn while the process serves, only
\* Open ends a startup, and only a read leaves something seen.
LEMMA ServeSteps ==
    ASSUME IInv, LInv, [Next]_vars
    PROVE  /\ possible => possible' \/ pc' = "down" \/ Open
           /\ round = "boot" /\ round' # "boot" => Open
           /\ pc' = "idle" => seen' = NoStage \/ Read \/ (pc = "idle" /\ UNCHANGED vars)
           /\ task'.kind = "put" /\ task'.attr = "protected" => possible'
           /\ task'.kind = "getVersion" /\ round' = "sweep" =>
                /\ pc' = "recover" \/ (pc' = "apply" /\ attempt' = "recover") =>
                     todo' \subseteq {task'.vid} /\ (task'.vid \notin todo' => ~journal'[task'.vid].live)
                /\ pc' = "plan" => ~journal'[task'.vid].live
<1>t. TypeOK /\ TaskOK /\ ServeOK /\ RecoverOK /\ ApplyOK /\ Cur \notin Vid
  BY PublicationAssumption DEF IInv, LInv
<1> USE Fields, Blanks, BlankTask
<1>1. CASE UNCHANGED vars
  BY <1>1, <1>t DEF TypeOK, TaskOK, ServeOK, RecoverOK, ApplyOK, Place, vars, files, memory, aux
<1>2. CASE Serve
  BY <1>2, <1>t DEF TypeOK, TaskOK, ServeOK, RecoverOK, ApplyOK, Place, Serve, Begin, Requests, files, Admitted
<1>3. CASE \E p \in Place : RecoverPlace(p)
  BY <1>3, <1>t DEF TypeOK, TaskOK, ServeOK, RecoverOK, ApplyOK, Place, RecoverPlace, FirstStep, aux
<1>4. CASE RecoverDone
  BY <1>4, <1>t DEF TypeOK, TaskOK, ServeOK, RecoverOK, ApplyOK, Place, RecoverDone, files, aux
<1>5. CASE PlanPut
  BY <1>5, <1>t DEF TypeOK, TaskOK, ServeOK, RecoverOK, ApplyOK, Place, PlanPut, Publish, files
<1>6. CASE PlanDelete
  BY <1>6, <1>t DEF TypeOK, TaskOK, ServeOK, RecoverOK, ApplyOK, Place, PlanDelete, Publish, End, files
<1>7. CASE SweepVersions
  BY <1>7, <1>t DEF TypeOK, TaskOK, ServeOK, RecoverOK, ApplyOK, Place, SweepVersions, files, aux
<1>8. CASE PlanDeleteVersion
  BY <1>8, <1>t DEF TypeOK, TaskOK, ServeOK, RecoverOK, ApplyOK, Place, PlanDeleteVersion, Publish, End, files,
     Admitted
<1>9. CASE Touch
  BY <1>9, <1>t DEF TypeOK, TaskOK, ServeOK, RecoverOK, ApplyOK, Place, Touch, End, Admitted
<1>10. CASE SetMode
  BY <1>10, <1>t DEF TypeOK, TaskOK, ServeOK, RecoverOK, ApplyOK, Place, SetMode
<1>11. CASE AssignNull
  BY <1>11, <1>t DEF TypeOK, TaskOK, ServeOK, RecoverOK, ApplyOK, Place, AssignNull, aux
<1>12. CASE OpenVersion
  BY <1>12, <1>t DEF TypeOK, TaskOK, ServeOK, RecoverOK, ApplyOK, Place, OpenVersion, files, aux
<1>13. CASE Read
  BY <1>13, <1>t DEF TypeOK, TaskOK, ServeOK, RecoverOK, ApplyOK, Place, Read, End, files
<1>14. CASE StageBody
  BY <1>14, <1>t DEF TypeOK, TaskOK, ServeOK, RecoverOK, ApplyOK, Place, StageBody, aux
<1>15. CASE StageMeta
  BY <1>15, <1>t DEF TypeOK, TaskOK, ServeOK, RecoverOK, ApplyOK, Place, StageMeta, aux
<1>16. CASE Commit
  BY <1>16, <1>t DEF TypeOK, TaskOK, ServeOK, RecoverOK, ApplyOK, Place, Commit, FirstStep
<1>17. CASE PublishBody
  BY <1>17, <1>t DEF TypeOK, TaskOK, ServeOK, RecoverOK, ApplyOK, Place, PublishBody, AtStep, Effect, aux
<1>18. CASE PublishMeta
  BY <1>18, <1>t DEF TypeOK, TaskOK, ServeOK, RecoverOK, ApplyOK, Place, PublishMeta, AtStep, Effect, aux
<1>19. CASE \E v \in Vid : RemoveVersion(v)
  BY <1>19, <1>t DEF TypeOK, TaskOK, ServeOK, RecoverOK, ApplyOK, Place, RemoveVersion, AtStep, Effect, aux
<1>20. CASE RemovedVersions
  BY <1>20, <1>t DEF TypeOK, TaskOK, ServeOK, RecoverOK, ApplyOK, Place, RemovedVersions, AfterRemove, AtStep,
     Effect, aux
<1>21. CASE MarkerBody
  BY <1>21, <1>t DEF TypeOK, TaskOK, ServeOK, RecoverOK, ApplyOK, Place, MarkerBody, AtStep, Effect, aux
<1>22. CASE MarkerMeta
  BY <1>22, <1>t DEF TypeOK, TaskOK, ServeOK, RecoverOK, ApplyOK, Place, MarkerMeta, AtStep, Effect, aux
<1>23. CASE ClearBody
  BY <1>23, <1>t DEF TypeOK, TaskOK, ServeOK, RecoverOK, ApplyOK, Place, ClearBody, AtStep, Effect, aux
<1>24. CASE ClearMeta
  BY <1>24, <1>t DEF TypeOK, TaskOK, ServeOK, RecoverOK, ApplyOK, Place, ClearMeta, AtStep, Effect, aux
<1>25. CASE RetireJournal
  BY <1>25, <1>t DEF TypeOK, TaskOK, ServeOK, RecoverOK, ApplyOK, Place, RetireJournal, AtStep, Effect, aux
<1>26. CASE CleanStage
  BY <1>26, <1>t DEF TypeOK, TaskOK, ServeOK, RecoverOK, ApplyOK, Place, CleanStage, AtStep, Effect, aux
<1>27. CASE Finish
  BY <1>27, <1>t DEF TypeOK, TaskOK, ServeOK, RecoverOK, ApplyOK, Place, Finish, End
<1>28. CASE Fault
  BY <1>28, <1>t DEF TypeOK, TaskOK, ServeOK, RecoverOK, ApplyOK, Place, Fault, FirstStep, End
<1>29. CASE Crash
  BY <1>29, <1>t DEF TypeOK, TaskOK, ServeOK, RecoverOK, ApplyOK, Place, Crash, files
<1>30. CASE Restart
  BY <1>30, <1>t DEF TypeOK, TaskOK, ServeOK, RecoverOK, ApplyOK, Place, Restart, files, aux
<1>31. CASE Open
  BY <1>31, <1>t DEF TypeOK, TaskOK, ServeOK, RecoverOK, ApplyOK, Place, Open, files, aux
<1> QED
  BY <1>1, <1>2, <1>3, <1>4, <1>5, <1>6, <1>7, <1>8, <1>9, <1>10, <1>11, <1>12, <1>13, <1>14, <1>15, <1>16,
     <1>17, <1>18, <1>19, <1>20, <1>21, <1>22, <1>23, <1>24, <1>25, <1>26, <1>27, <1>28, <1>29, <1>30, <1>31 DEF
     Next, Proceed, Apply

\* Every step keeps what the process serves true of the files.
LEMMA NextServe == IInv /\ LInv /\ [Next]_vars => (ServeOK /\ ServesTrue)'
<1> SUFFICES ASSUME IInv, LInv, [Next]_vars PROVE (ServeOK /\ ServesTrue)'
  OBVIOUS
<1> USE Fields, Blanks, PublicationAssumption
<1>t. TypeOK /\ TaskOK /\ ServeOK /\ ServesTrue /\ DecisionOK /\ RecoverOK /\ TypeOK' /\ TaskOK' /\ NeverRefused'
  BY NextTask, NextInv DEF IInv, LInv
<1>v. LogicalCurrent \in Object /\ LogicalHistory \in [Vid -> Object] /\ \A v \in Vid : LogicalHistory[v] = LogicalVersion(v)
  BY <1>t, ViewType
<1>1. Planning' /\ want'.record.publish /\ want'.object.attr = "protected" => possible'
  <2> SUFFICES ASSUME Planning', want'.record.publish, want'.object.attr = "protected" PROVE possible'
    OBVIOUS
  <2>1. CASE PlanPut
    BY <2>1, <1>t DEF PlanPut, Publish, PublishPlan, ServeOK
  <2>2. CASE PlanDelete
    BY <2>2 DEF PlanDelete, Publish, HistoryPlan, End, Planning
  <2>3. CASE PlanDeleteVersion
    <3>1. \/ \E w \in Vid : want' = PublishPlan({task.vid, w}, meta[w], w) /\ possible' = Admitted(meta[w])
          \/ \E c : want' = HistoryPlan({task.vid}, NoObject, c)
      BY <2>3 DEF PlanDeleteVersion, Publish, End, Planning
    <3>2. \A c : ~HistoryPlan({task.vid}, NoObject, c).record.publish
      BY DEF HistoryPlan
    <3>3. PICK w \in Vid : want' = PublishPlan({task.vid, w}, meta[w], w) /\ possible' = Admitted(meta[w])
      BY <3>1, <3>2
    <3>4. meta[w].attr = "protected"
      BY <3>3 DEF PublishPlan
    <3> QED
      BY <3>3, <3>4 DEF Admitted
  <2>4. CASE Planning /\ UNCHANGED want
    <3>1. possible
      BY <1>t, <2>4 DEF ServeOK
    <3> QED
      BY <3>1, <2>4, ServeSteps DEF Planning, Open
  <2> QED
    BY <2>1, <2>2, <2>3, <2>4, StaysPlanned
<1>2. ServeOK'
  BY <1>1, ServeSteps DEF ServeOK
<1>3. ReadsWhole'
  <2>1. CASE seen' = NoStage
    BY <2>1 DEF ReadsWhole
  <2>2. CASE UNCHANGED vars
    <3>1. UNCHANGED View /\ UNCHANGED <<seen, task, reply, pc>>
      BY <2>2, FilesView DEF vars, files, memory, aux
    <3>2. TypeOK' /\ LogicalCurrent' = LogicalCurrent /\ LogicalHistory' = LogicalHistory
      BY <3>1, <1>t DEF View
    <3>3. \A v \in Vid : LogicalVersion(v)' = LogicalVersion(v)
      BY <2>2 DEF vars, files, LogicalVersion, Decided
    <3> QED
      BY <1>t, <3>1, <3>2, <3>3 DEF ReadsWhole, ServesTrue
  <2>3. CASE Read /\ seen' # NoStage
    <3> DEFINE v == task.vid
               p == IF task.kind = "getVersion" /\ body[v] # 0 THEN v ELSE Cur
    <3>0. pc = "plan" /\ seen = NoStage /\ v \in Vid /\ ~journal[Cur].live
      BY <2>3, <1>t DEF Read, TaskOK, TypeOK, RecoverOK
    <3>1. body[p] # 0 /\ seen' = [body |-> body[p], meta |-> meta[p]] /\ UNCHANGED files
      BY <2>3, <3>0 DEF Read
    <3>2. LogicalCurrent' = LogicalCurrent /\ \A u \in Vid : LogicalVersion(u)' = LogicalVersion(u)
      BY <3>1 DEF files, LogicalCurrent, LogicalVersion, Decided
    <3>3. body[p] = meta[p].gen /\ meta[p] \in {LogicalCurrent} \cup {LogicalVersion(u) : u \in Vid}
      <4>1. CASE p = Cur
        <5>1. body[Cur] # 0 /\ LogicalCurrent = meta[Cur]
          BY <3>0, <3>1, <4>1, <1>t, PresentView DEF Present
        <5>2. body[Cur] = meta[Cur].gen
          BY <3>0 DEF IInv, Coherent, Excused, Place
        <5> QED
          BY <4>1, <5>1, <5>2
      <4>2. CASE p = v /\ task.kind = "getVersion"
        <5>1. ~journal[v].live
          BY <2>3, <1>t, <3>0, <4>2 DEF Read, ServeOK
        <5>2. body[v] = meta[v].gen /\ LogicalHistory[v] = meta[v]
          BY <3>0, <3>1, <4>2, <5>1, <1>t, PresentView
        <5> QED
          BY <3>0, <4>2, <5>2, <1>v
      <4> QED
        BY <4>1, <4>2
    <3> QED
      BY <3>1, <3>2, <3>3 DEF ReadsWhole
  <2> QED
    BY <2>1, <2>2, <2>3, <1>t, ServeSteps DEF TaskOK
<1>4. ProofSound'
  <2> SUFFICES ASSUME pc' # "down", round' # "boot", ~possible' PROVE LogicalCurrent'.attr # "protected"
    BY DEF ProofSound
  <2>n. NoObject.attr # "protected"
    BY DEF NoObject
  <2>1. CASE Open
    <3>1. ~journal[Cur].live /\ UNCHANGED files /\ pc' # "refused"
      BY <2>1, <1>t DEF Open, RecoverOK, NeverRefused
    <3>2. meta[Cur].attr # "protected"
      BY <2>1, <3>1, <1>t DEF Open, NeverRefused
    <3>3. LogicalCurrent' = LogicalCurrent
      BY <3>1 DEF files, LogicalCurrent, Decided
    <3> QED
      BY <2>n, <3>1, <3>2, <3>3, <1>t, SettledView
  <2>2. CASE ~Open
    <3>1. pc # "down" /\ round # "boot"
      BY <1>t, <2>2, ServeSteps DEF TaskOK
    <3>2. ~possible
      BY <2>2, ServeSteps
    <3>3. LogicalCurrent.attr # "protected"
      BY <1>t, <3>1, <3>2 DEF ServesTrue, ProofSound
    <3>4. CASE UNCHANGED View
      BY <3>3, <3>4 DEF View
    <3>5. CASE Commit /\ round = "snap"
      BY <3>3, <3>5, SnapView
    <3>6. CASE Commit /\ round = "main"
      <4>1. want.record.publish => want.object.attr # "protected"
        BY <3>2, <3>6, <1>t DEF ServeOK, Planning, Commit
      <4> QED
        BY <2>n, <3>3, <3>6, <4>1, MainView
    <3>7. CASE Touch
      <4>1. CASE UNCHANGED View
        BY <3>4, <4>1
      <4>2. CASE LogicalCurrent' = [LogicalCurrent EXCEPT !.attr = task.attr] /\ possible' = Admitted(task)
        <5>1. task.attr # "protected"
          BY <4>2 DEF Admitted
        <5> QED
          BY <4>2, <5>1, <1>v DEF Object
      <4> QED
        BY <3>7, <4>1, <4>2, TouchView
    <3>8. CASE AssignNull
      <4>1. Versioned(LogicalCurrent).attr = LogicalCurrent.attr
        BY <1>v DEF Object, Versioned
      <4> QED
        BY <3>3, <3>4, <3>8, <4>1, AssignView
    <3> QED
      BY <3>4, <3>5, <3>6, <3>7, <3>8, KeepsView DEF Commit, IInv, StagingOK
  <2> QED
    BY <2>1, <2>2
<1> QED
  BY <1>2, <1>3, <1>4 DEF ServesTrue

\* The second invariant holds initially.
LEMMA InitLInv == Init => LInv
<1> SUFFICES ASSUME Init PROVE LInv
  OBVIOUS
<1> USE Blanks, PublicationAssumption DEF Init
<1>1. LogicalCurrent = NoObject
  BY DEF LogicalCurrent, Decided, Place
<1>2. \A v \in Vid : LogicalVersion(v) = NoObject
  BY DEF LogicalVersion, Decided, Place
<1>3. LogicalHistory = [v \in Vid |-> NoObject]
  BY <1>2 DEF LogicalHistory
<1>4. TaskOK /\ LandedOK /\ DeletedOK /\ ServeOK
  BY BlankTask DEF TaskOK, LandedOK, DeletedOK, ServeOK, Planning
<1>5. IdentityOK
  <2>1. NoObject.vid = NoVid /\ NoObject.gen = 0
    BY DEF NoObject
  <2> QED
    BY <1>1, <1>3, <2>1, IdentityAssumption DEF IdentityOK, Vid, Place
<1>6. DecisionOK /\ IntentOK
  BY DEF DecisionOK, IntentOK, Planning, Place
<1>7. ServesTrue
  BY <1>1 DEF ServesTrue, ReadsWhole, ProofSound, NoObject
<1> QED
  BY <1>4, <1>5, <1>6, <1>7 DEF LInv

\* Every step preserves both invariants.
LEMMA NextLInv == IInv /\ LInv /\ [Next]_vars => IInv' /\ LInv'
BY NextInv, NextTask, NextDecision, NextIdentity, NextIntent, NextServe DEF LInv

\* What a step that decides nothing does to a request: nothing, or its end.
LEMMA Abstractly ==
    ASSUME IInv, LInv, [Next]_vars
    PROVE  \/ Serve \/ SetMode \/ Touch \/ AssignNull \/ Commit \/ Crash
           \/ UNCHANGED <<mode, task, landed, reply>>
           \/ /\ UNCHANGED mode /\ task' = NoTask /\ landed' = FALSE /\ task.kind # "none"
              /\ \/ reply' = "err"
                 \/ reply' = "ok" /\ (landed \/ task.kind \in {"get", "getVersion"})
<1>t. TypeOK /\ TaskOK /\ LandedOK
  BY DEF IInv, LInv
<1> USE Fields, BlankTask
<1>1. CASE UNCHANGED vars
  BY <1>1, <1>t DEF TypeOK, TaskOK, LandedOK, vars, files, memory, aux
<1>2. CASE Serve
  BY <1>2
<1>3. CASE \E p \in Place : RecoverPlace(p)
  BY <1>3, <1>t DEF TypeOK, TaskOK, LandedOK, RecoverPlace, FirstStep, aux
<1>4. CASE RecoverDone
  BY <1>4, <1>t DEF TypeOK, TaskOK, LandedOK, RecoverDone, files, aux
<1>5. CASE PlanPut
  BY <1>5, <1>t DEF TypeOK, TaskOK, LandedOK, PlanPut, Publish, files
<1>6. CASE PlanDelete
  BY <1>6, <1>t DEF TypeOK, TaskOK, LandedOK, PlanDelete, Publish, End, files
<1>7. CASE SweepVersions
  BY <1>7, <1>t DEF TypeOK, TaskOK, LandedOK, SweepVersions, files, aux
<1>8. CASE PlanDeleteVersion
  BY <1>8, <1>t DEF TypeOK, TaskOK, LandedOK, PlanDeleteVersion, Publish, End, files
<1>9. CASE Touch
  BY <1>9
<1>10. CASE SetMode
  BY <1>10
<1>11. CASE AssignNull
  BY <1>11
<1>12. CASE OpenVersion
  BY <1>12, <1>t DEF TypeOK, TaskOK, LandedOK, OpenVersion, files, aux
<1>13. CASE Read
  BY <1>13, <1>t DEF TypeOK, TaskOK, LandedOK, Read, End, files
<1>14. CASE StageBody
  BY <1>14, <1>t DEF TypeOK, TaskOK, LandedOK, StageBody, aux
<1>15. CASE StageMeta
  BY <1>15, <1>t DEF TypeOK, TaskOK, LandedOK, StageMeta, aux
<1>16. CASE Commit
  BY <1>16
<1>17. CASE PublishBody
  BY <1>17, <1>t DEF TypeOK, TaskOK, LandedOK, PublishBody, AtStep, Effect, aux
<1>18. CASE PublishMeta
  BY <1>18, <1>t DEF TypeOK, TaskOK, LandedOK, PublishMeta, AtStep, Effect, aux
<1>19. CASE \E v \in Vid : RemoveVersion(v)
  BY <1>19, <1>t DEF TypeOK, TaskOK, LandedOK, RemoveVersion, AtStep, Effect, aux
<1>20. CASE RemovedVersions
  BY <1>20, <1>t DEF TypeOK, TaskOK, LandedOK, RemovedVersions, AfterRemove, AtStep, Effect, aux
<1>21. CASE MarkerBody
  BY <1>21, <1>t DEF TypeOK, TaskOK, LandedOK, MarkerBody, AtStep, Effect, aux
<1>22. CASE MarkerMeta
  BY <1>22, <1>t DEF TypeOK, TaskOK, LandedOK, MarkerMeta, AtStep, Effect, aux
<1>23. CASE ClearBody
  BY <1>23, <1>t DEF TypeOK, TaskOK, LandedOK, ClearBody, AtStep, Effect, aux
<1>24. CASE ClearMeta
  BY <1>24, <1>t DEF TypeOK, TaskOK, LandedOK, ClearMeta, AtStep, Effect, aux
<1>25. CASE RetireJournal
  BY <1>25, <1>t DEF TypeOK, TaskOK, LandedOK, RetireJournal, AtStep, Effect, aux
<1>26. CASE CleanStage
  BY <1>26, <1>t DEF TypeOK, TaskOK, LandedOK, CleanStage, AtStep, Effect, aux
<1>27. CASE Finish
  BY <1>27, <1>t DEF TypeOK, TaskOK, LandedOK, Finish, End
<1>28. CASE Fault
  BY <1>28, <1>t DEF TypeOK, TaskOK, LandedOK, Fault, FirstStep, End
<1>29. CASE Crash
  BY <1>29
<1>30. CASE Restart
  BY <1>30, <1>t DEF TypeOK, TaskOK, LandedOK, Restart, files, aux
<1>31. CASE Open
  BY <1>31, <1>t DEF TypeOK, TaskOK, LandedOK, Open, files, aux
<1> QED
  BY <1>1, <1>2, <1>3, <1>4, <1>5, <1>6, <1>7, <1>8, <1>9, <1>10, <1>11, <1>12, <1>13, <1>14, <1>15, <1>16,
     <1>17, <1>18, <1>19, <1>20, <1>21, <1>22, <1>23, <1>24, <1>25, <1>26, <1>27, <1>28, <1>29, <1>30, <1>31 DEF
     Next, Proceed, Apply

\* The abstract history speaks of the same objects and identities.
LEMMA SameTypes ==
    /\ History!Vid = Vid /\ History!NoObject = NoObject /\ History!Object = Object /\ History!Kinds = Kinds
    /\ \A o : History!IdOf(o) = IdOf(o) /\ History!Versioned(o) = Versioned(o)
    /\ \A m, o : History!NeedsSnapshot(m, o) <=> NeedsSnapshot(m, o)
    /\ \A m : History!NewVids(m) = NewVids(m)
    /\ History!Attrs = Attrs
<1>1. History!Vid = Vid /\ History!Attrs = Attrs /\ History!NoObject = NoObject /\ History!Kinds = Kinds
  BY DEF History!Vid, Vid, History!Attrs, Attrs, History!NoObject, NoObject, History!Kinds, Kinds
<1>2. History!Object = Object
  BY <1>1 DEF History!Object, Object
<1>3. \A o : History!IdOf(o) = IdOf(o) /\ History!Versioned(o) = Versioned(o)
  BY DEF History!IdOf, IdOf, History!Versioned, Versioned
<1>4. \A m, o : History!NeedsSnapshot(m, o) <=> NeedsSnapshot(m, o)
  BY <1>3 DEF History!NeedsSnapshot, NeedsSnapshot
<1>5. \A m : History!NewVids(m) = NewVids(m)
  BY DEF History!NewVids, NewVids
<1> QED
  BY <1>1, <1>2, <1>3, <1>4, <1>5

\* The initial files are the initial history.
LEMMA RefineInit == Init => History!Init
<1> SUFFICES ASSUME Init PROVE History!Init
  OBVIOUS
<1> USE Blanks, SameTypes, PublicationAssumption DEF Init
<1>1. LogicalCurrent = NoObject
  BY DEF LogicalCurrent, Decided, Place
<1>2. \A v \in Vid : LogicalVersion(v) = NoObject
  BY DEF LogicalVersion, Decided, Place
<1>3. LogicalHistory = [v \in Vid |-> NoObject]
  BY <1>2 DEF LogicalHistory
<1> QED
  BY <1>1, <1>3, BlankTask DEF History!Init

\* Every step of the protocol is a step of the history, or changes nothing of it.
LEMMA RefineNext == IInv /\ LInv /\ [Next]_vars => [History!Next]_History!vars
<1> SUFFICES ASSUME IInv, LInv, [Next]_vars PROVE History!Next \/ UNCHANGED History!vars
  OBVIOUS
<1> USE SameTypes
<1>t. TypeOK /\ TaskOK /\ LandedOK /\ IntentOK /\ DecisionOK
  BY DEF IInv, LInv
<1>v. LogicalCurrent \in Object /\ LogicalHistory \in [Vid -> Object]
  BY <1>t, ViewType
<1>1. ASSUME UNCHANGED View PROVE LogicalCurrent' = LogicalCurrent /\ LogicalHistory' = LogicalHistory
  BY <1>1 DEF View
<1>2. CASE Serve
  <2>1. PICK t \in Requests : Begin(t)
    BY <1>2 DEF Serve
  <2>2. UNCHANGED View
    BY <2>1, FilesView DEF Begin, files
  <2>3. History!Begin(t.kind) /\ t.kind \in Kinds
    BY <1>t, <1>1, <2>1, <2>2, RequestsType DEF Begin, files, TaskOK, History!Begin
  <2> QED
    BY <2>3 DEF History!Next
<1>3. CASE SetMode
  <2>1. UNCHANGED View
    BY <1>3, FilesView DEF SetMode
  <2>2. History!LandMode
    BY <1>t, <1>1, <1>3, <2>1 DEF SetMode, TaskOK, LandedOK, History!LandMode
  <2> QED
    BY <2>2 DEF History!Next
<1>4. CASE Touch
  <2>1. CASE UNCHANGED View /\ End("err") /\ UNCHANGED mode
    <3>1. History!Return("err")
      BY <1>t, <1>1, <1>4, <2>1, BlankTask DEF Touch, TaskOK, End, History!Return
    <3> QED
      BY <3>1 DEF History!Next
  <2>2. CASE /\ LogicalCurrent.gen # 0 /\ LogicalCurrent' = [LogicalCurrent EXCEPT !.attr = task.attr]
             /\ LogicalHistory' = LogicalHistory /\ landed' /\ UNCHANGED <<task, reply, mode>>
    <3>1. task.attr \in Attrs /\ task.kind = "touch" /\ ~landed /\ landed' = TRUE
      BY <1>t, <1>4, <2>2, Fields DEF TypeOK, Touch, LandedOK, End
    <3>2. History!LandTouch
      BY <2>2, <3>1 DEF History!LandTouch
    <3> QED
      BY <3>2 DEF History!Next
  <2> QED
    BY <1>4, <2>1, <2>2, TouchView
<1>5. CASE AssignNull
  <2>0. UNCHANGED <<mode, task, landed, reply>> /\ task.kind = "setMode" /\ landed
    BY <1>t, <1>5 DEF AssignNull, aux, LandedOK
  <2>1. CASE UNCHANGED View
    BY <1>1, <2>0, <2>1 DEF History!vars
  <2>2. CASE /\ LogicalCurrent.gen # 0 /\ LogicalCurrent.vid = NoVid
             /\ LogicalCurrent' = Versioned(LogicalCurrent) /\ LogicalHistory' = LogicalHistory
    <3>1. History!AssignNull
      BY <2>0, <2>2 DEF History!AssignNull
    <3> QED
      BY <3>1 DEF History!Next
  <2> QED
    BY <1>5, <2>1, <2>2, AssignView
<1>6. CASE Crash
  <2>1. UNCHANGED View
    BY <1>6, FilesView DEF Crash, files
  <2>2. CASE task.kind = "none"
    BY <1>t, <1>1, <1>6, <2>1, <2>2, BlankTask DEF Crash, files, LandedOK, TypeOK, History!vars
  <2>3. CASE task.kind # "none"
    <3>1. History!Return("none")
      BY <1>1, <1>6, <2>1, <2>3, BlankTask DEF Crash, files, History!Return
    <3> QED
      BY <3>1 DEF History!Next
  <2> QED
    BY <2>2, <2>3
<1>7. CASE Commit /\ round = "snap"
  <2>1. task.kind \in {"put", "delete"} /\ landed = FALSE /\ UNCHANGED <<mode, task, reply>> /\ landed' = FALSE
    BY <1>t, <1>7 DEF Commit, TaskOK, LandedOK, TypeOK
  <2>2. History!Snapshot
    BY <1>7, <2>1, SnapView DEF History!Snapshot
  <2> QED
    BY <2>2 DEF History!Next
<1>8. CASE Commit /\ round = "main"
  <2>1. task.kind \in {"put", "delete", "deleteVersion"} /\ ~landed /\ UNCHANGED <<mode, task, reply>> /\ landed' = TRUE
    BY <1>t, <1>8 DEF Commit, TaskOK, LandedOK, TypeOK
  <2>2. task.kind \in {"put", "delete"} => History!Replaceable
    BY <1>t, <1>8 DEF IntentOK, Planning, Commit, History!Replaceable
  <2>3. CASE task.kind = "put"
    <3>1. /\ LogicalCurrent' \in Object
          /\ LogicalCurrent'.gen # 0 /\ ~LogicalCurrent'.marker /\ LogicalCurrent'.vid \in NewVids(mode)
      BY <1>8, <1>t, <2>3, PutView, Fields DEF PutPlanned, TypeOK
    <3>2. History!LandPut
      BY <1>8, <1>v, <2>1, <2>2, <2>3, <3>1, PutView DEF History!LandPut
    <3> QED
      BY <3>2 DEF History!Next
  <2>4. CASE task.kind = "delete"
    <3> DEFINE k == want.record.marker
    <3>1. CASE mode = "disabled"
      <4>1. History!LandDelete
        BY <1>8, <2>1, <2>2, <2>4, <3>1, DeleteView DEF DeletePlanned, History!LandDelete
      <4> QED
        BY <4>1 DEF History!Next
    <3>2. CASE mode # "disabled"
      <4>1. /\ k.gen # 0 /\ k.marker /\ k.vid \in NewVids(mode) /\ k \in Object
            /\ LogicalHistory' = [LogicalHistory EXCEPT ![k.vid] = k] /\ LogicalCurrent' = NoObject
        BY <1>8, <1>t, <2>4, <3>2, DeleteView, Fields DEF DeletePlanned, TypeOK
      <4>2. k.vid \in Vid
        BY <1>t, <3>2, <4>1 DEF NewVids, TypeOK, Modes, Vid
      <4>3. LogicalHistory'[k.vid] = k
        BY <1>v, <4>1, <4>2
      <4>4. \E v \in NewVids(mode) : /\ LogicalHistory' = [LogicalHistory EXCEPT ![v] = LogicalHistory'[v]]
                                     /\ LogicalHistory'[v] \in Object
                                     /\ LogicalHistory'[v].gen # 0 /\ LogicalHistory'[v].marker
                                     /\ LogicalHistory'[v].vid = v
        BY <4>1, <4>3
      <4>5. History!LandDelete
        BY <2>1, <2>2, <2>4, <3>2, <4>1, <4>4 DEF History!LandDelete
      <4> QED
        BY <4>5 DEF History!Next
    <3> QED
      BY <3>1, <3>2
  <2>5. CASE task.kind = "deleteVersion"
    <3>1. LogicalCurrent.gen = 0 => LogicalCurrent = NoObject
      <4>1. ~journal[Cur].live
        BY <1>8 DEF IInv, StagingOK, Commit
      <4> QED
        BY <1>t, <4>1, PresentView DEF Present
    <3>2. task.vid \in Vid
      BY <1>t, Fields DEF TypeOK
    <3>3. History!LandDeleteVersion
      BY <1>8, <2>1, <2>5, <3>1, <3>2, PurgeView DEF PurgesCurrent, Promotable, History!LandDeleteVersion
    <3> QED
      BY <3>3 DEF History!Next
  <2> QED
    BY <2>1, <2>3, <2>4, <2>5
<1>9. CASE UNCHANGED View /\ UNCHANGED <<mode, task, landed, reply>>
  BY <1>1, <1>9 DEF History!vars
<1>10. CASE /\ UNCHANGED View
            /\ UNCHANGED mode /\ task' = NoTask /\ landed' = FALSE /\ task.kind # "none"
            /\ \/ reply' = "err"
               \/ reply' = "ok" /\ (landed \/ task.kind \in {"get", "getVersion"})
  <2>1. History!Return(reply')
    BY <1>1, <1>10, BlankTask DEF History!Return
  <2>2. reply' \in {"none", "ok", "err"}
    BY <1>10
  <2> QED
    BY <2>1, <2>2 DEF History!Next
<1> QED
  BY <1>2, <1>3, <1>4, <1>5, <1>6, <1>7, <1>8, <1>9, <1>10, KeepsView, Abstractly DEF Commit, IInv, StagingOK

\* A step keeps every generation that current and history hold, save for what
\* a purge, an unversioned bucket or the replacement of "null" gives up.
LEMMA Keeps ==
    ASSUME IInv, LInv, [Next]_vars, NEW g \in Held \ Held'
    PROVE  \/ task.kind = "deleteVersion"
           \/ mode = "disabled"
           \/ mode = "suspended" /\ (\A v \in Uuid : LogicalVersion(v).gen # g)
                                 /\ (LogicalCurrent.gen = g => IdOf(LogicalCurrent) = NullId)
<1> USE IdentityAssumption
<1>t. TypeOK /\ IdentityOK /\ IntentOK
  BY DEF IInv, LInv
<1>v. /\ LogicalCurrent \in Object /\ LogicalHistory \in [Vid -> Object] /\ IdOf(LogicalCurrent) \in Vid
      /\ Versioned(LogicalCurrent).gen = LogicalCurrent.gen
  BY <1>t, ViewType, VersionedType
<1>h. /\ Held = ({LogicalCurrent.gen} \cup {LogicalHistory[v].gen : v \in Vid}) \ {0}
      /\ Held' = ({LogicalCurrent'.gen} \cup {LogicalHistory'[v].gen : v \in Vid}) \ {0}
  BY DEF Held, LogicalHistory
<1>g. /\ g # 0 /\ g # LogicalCurrent'.gen /\ \A v \in Vid : g # LogicalHistory'[v].gen
      /\ g = LogicalCurrent.gen \/ \E v \in Vid : g = LogicalHistory[v].gen
  BY <1>h
<1>1. CASE UNCHANGED View
  BY <1>1, <1>g DEF View
<1>2. CASE Touch
  <2>1. CASE LogicalCurrent' = [LogicalCurrent EXCEPT !.attr = task.attr] /\ LogicalHistory' = LogicalHistory
    <3>1. LogicalCurrent'.gen = LogicalCurrent.gen
      BY <2>1, <1>v DEF Object
    <3> QED
      BY <2>1, <3>1, <1>g
  <2> QED
    BY <1>1, <1>2, <2>1, TouchView
<1>3. CASE AssignNull
  BY <1>1, <1>3, <1>g, <1>v, AssignView
<1>4. CASE Commit /\ round = "snap"
  <2>1. /\ LogicalCurrent' = LogicalCurrent /\ LogicalCurrent.gen # 0
        /\ LogicalHistory' = [LogicalHistory EXCEPT ![IdOf(LogicalCurrent)] = Versioned(LogicalCurrent)]
    BY <1>4, SnapView DEF NeedsSnapshot
  <2>2. LogicalHistory[IdOf(LogicalCurrent)].gen \in {0, LogicalCurrent.gen}
    BY <2>1, <1>t DEF IdentityOK
  <2> QED
    BY <2>1, <2>2, <1>g, <1>v
<1>5. CASE Commit /\ round = "main" /\ task.kind \in {"put", "delete"} /\ mode # "disabled"
  <2>1. NeedsSnapshot(mode, LogicalCurrent) => LogicalHistory[IdOf(LogicalCurrent)].gen = LogicalCurrent.gen
    BY <1>5, <1>t, <1>v DEF IntentOK, Planning, Commit
  <2>2. \E i \in NewVids(mode) : /\ \A v \in Vid \ {i} : LogicalHistory'[v] = LogicalHistory[v]
                                 /\ i \in Uuid => LogicalHistory[i].gen = 0 /\ LogicalCurrent.vid # i
    <3>1. CASE task.kind = "put"
      <4> DEFINE i == want.object.vid
      <4>1. /\ i \in NewVids(mode) /\ Reserved(i)
            /\ LogicalHistory' = IF mode = "suspended" THEN [LogicalHistory EXCEPT ![NullId] = NoObject] ELSE LogicalHistory
        BY <1>5, <3>1, PutView DEF PutPlanned
      <4>2. \A v \in Vid \ {i} : LogicalHistory'[v] = LogicalHistory[v]
        BY <1>v, <4>1 DEF NewVids
      <4> QED
        BY <4>1, <4>2 DEF Reserved
    <3>2. CASE task.kind = "delete"
      <4> DEFINE i == want.record.marker.vid
      <4>1. /\ i \in NewVids(mode) /\ Reserved(i) /\ LogicalHistory' = [LogicalHistory EXCEPT ![i] = want.record.marker]
        BY <1>5, <3>2, DeleteView DEF DeletePlanned
      <4>2. \A v \in Vid \ {i} : LogicalHistory'[v] = LogicalHistory[v]
        BY <1>v, <4>1
      <4> QED
        BY <4>1, <4>2 DEF Reserved
    <3> QED
      BY <1>5, <3>1, <3>2
  <2>3. PICK i \in NewVids(mode) : /\ \A v \in Vid \ {i} : LogicalHistory'[v] = LogicalHistory[v]
                                   /\ i \in Uuid => LogicalHistory[i].gen = 0 /\ LogicalCurrent.vid # i
    BY <2>2
  <2>4. \A v \in Vid \ {i} : LogicalHistory[v].gen # g
    BY <2>3, <1>g
  <2>5. CASE mode = "enabled"
    <3>1. i \in Uuid /\ IdOf(LogicalCurrent) # i
      BY <2>3, <2>5 DEF NewVids, IdOf
    <3>2. g = LogicalCurrent.gen
      BY <1>g, <2>3, <2>4, <3>1
    <3>3. LogicalHistory[IdOf(LogicalCurrent)].gen = g
      BY <2>1, <2>5, <3>2, <1>g DEF NeedsSnapshot
    <3> QED
      BY <1>v, <2>4, <3>1, <3>3
  <2>6. CASE mode = "suspended"
    <3>1. i = NullId
      BY <2>6, <2>3 DEF NewVids
    <3>2. \A v \in Uuid : LogicalVersion(v).gen # g
      BY <2>4, <3>1 DEF LogicalHistory, Vid
    <3>3. LogicalCurrent.gen = g => IdOf(LogicalCurrent) = NullId
      BY <1>g, <1>v, <2>1, <2>4, <2>6, <3>1 DEF NeedsSnapshot
    <3> QED
      BY <2>6, <3>2, <3>3
  <2> QED
    BY <1>5, <1>t, <2>5, <2>6 DEF TypeOK, Modes
<1> QED
  BY <1>1, <1>2, <1>3, <1>4, <1>5, KeepsView DEF Commit, IInv, LInv, StagingOK, TaskOK

-----------------------------------------------------------------------------
\* Both invariants hold throughout.
THEOREM Tied == Spec => [](IInv /\ LInv)
<1>1. Init => IInv /\ LInv
  BY InitInv, InitLInv
<1>2. (IInv /\ LInv) /\ [Next]_vars => (IInv /\ LInv)'
  BY NextLInv
<1> QED
  BY <1>1, <1>2, PTL DEF Spec

\* What a serving process answers from is true of the files: a read returns
\* one whole generation that the view holds, and a false
\* azure_protection_possible means that the current object is unprotected.
THEOREM ServedTrue == Spec => []ServesTrue
<1>1. IInv /\ LInv => ServesTrue
  BY DEF LInv
<1> QED
  BY Tied, <1>1, PTL

\* Once versioning is enabled no step loses a generation, except the purge of
\* a version and the replacement of "null".
THEOREM HistoryKept == Spec => HistoryPreserved
<1>1. IInv /\ LInv /\ [Next]_vars =>
        [\A g \in Held \ Held' :
           \/ task.kind = "deleteVersion"
           \/ mode = "disabled"
           \/ mode = "suspended" /\ (\A v \in Uuid : LogicalVersion(v).gen # g)
                                 /\ (LogicalCurrent.gen = g => IdOf(LogicalCurrent) = NullId)]_vars
  BY Keeps
<1> QED
  BY Tied, <1>1, PTL DEF Spec, HistoryPreserved

\* The journaled protocol implements the atomic object history: through every
\* crash and every error the key changes only by whole generations.
THEOREM Refinement == Spec => Implements
<1>1. Init => History!Init
  BY RefineInit
<1>2. IInv /\ LInv /\ [Next]_vars => [History!Next]_History!vars
  BY RefineNext
<1> QED
  BY Tied, <1>1, <1>2, PTL DEF Spec, Implements, History!Spec

-----------------------------------------------------------------------------
(* The safety half of Settles: a request and a startup come to an end *)

\* The rounds of a request follow one another.
Turn ==
    CASE round = "sweep" -> 1
      [] round = "snap" -> 2
      [] round = "main" -> 3
      [] OTHER -> 0

\* How far the request has come: recovery, plan, stage, decision and application of each round.
Leg ==
    CASE pc = "mode" -> 0
      [] pc = "recover" \/ (pc = "apply" /\ attempt = "recover") -> 8 * Turn + 1
      [] pc \in {"plan", "stageBody"} -> 8 * Turn + 2
      [] pc = "stageMeta" -> 8 * Turn + 3
      [] pc = "commit" -> 8 * Turn + 4
      [] pc = "apply" /\ attempt # "recover" -> 8 * Turn + 5
      [] pc = "finish" -> 32
      [] OTHER -> 33

\* The places still to recover and the decisions still to apply.
Undone == [places |-> todo, decisions |-> {p \in Place : journal[p].live}]

\* How far the decision at hand is applied; once it is retired, only its stage is left.
Applied ==
    CASE pc = "apply" /\ step = "clean" -> 0
      [] pc = "apply" /\ step = "body" -> 2
      [] pc = "apply" /\ step = "meta" -> 3
      [] pc = "apply" /\ step = "remove" -> 4
      [] pc = "apply" /\ step = "markerBody" -> 5
      [] pc = "apply" /\ step = "markerMeta" -> 6
      [] pc = "apply" /\ step = "clearBody" -> 7
      [] pc = "apply" /\ step = "clearMeta" -> 8
      [] pc = "apply" /\ step = "retire" -> 9
      [] OTHER -> 1

\* What the version directories hold.
Snapshots ==
    [body |-> {v \in Vid : body[v] # 0}, meta |-> {v \in Vid : meta[v] # NoObject},
     stage |-> {v \in Vid : stage[v] # NoStage}]

\* Something is gone and nothing has come.
Fewer(new, old) ==
    DOMAIN new = DOMAIN old /\ new # old /\ \A f \in DOMAIN old : new[f] \subseteq old[f]

\* Every step that the process takes by itself brings the request or the startup
\* closer to its end: it reaches a later leg, leaves fewer places and decisions,
\* goes on applying the decision at hand, or empties a retired version directory.
RequestAdvances ==
    Proceed =>
        \/ Leg' > Leg
        \/ Leg' = Leg /\ Fewer(Undone', Undone)
        \/ Leg' = Leg /\ Undone' = Undone /\ Applied' > Applied
        \/ Leg' = Leg /\ Undone' = Undone /\ Applied' = Applied /\ Fewer(Snapshots', Snapshots)

\* A request that has begun finds its next step: a plan knows its request, is made
\* before any publication, and finds an identity for a new generation.
NeverStuck ==
    /\ pc # "refused"
    /\ pc = "plan" =>
          /\ task.kind # "none" /\ round \in {"open", "sweep"}
          /\ task.kind \in {"put", "delete"} /\ mode = "enabled" => unused # {}
    /\ pc = "apply" => step = "clean" \/ journal[at].live

\* The identity that Begin waited for stays there until the plan draws it.
RequestInv ==
    /\ pc = "plan" => round \in {"open", "sweep"}
    /\ task.kind \in {"put", "delete"} /\ mode = "enabled" /\ round = "open"
          /\ pc \in {"recover", "apply", "plan"} => unused # {}

\* The legs of a round come before those of the next.
LEMMA LegType == Turn \in 0 .. 3 /\ Leg \in 0 .. 33 /\ Applied \in 0 .. 9
<1>1. Turn \in 0 .. 3
  BY DEF Turn
<1>2. Leg \in 0 .. 33
  BY <1>1 DEF Leg
<1> QED
  BY <1>1, <1>2 DEF Applied

\* Recovery, planning and staging.
LEMMA PlanAdvances ==
    ASSUME IInv, RequestInv,
           \/ \E p \in Place : RecoverPlace(p)
           \/ RecoverDone
           \/ PlanPut \/ PlanDelete \/ SweepVersions \/ PlanDeleteVersion
           \/ Touch \/ SetMode \/ AssignNull \/ OpenVersion \/ Read
           \/ StageBody \/ StageMeta \/ Commit \/ Finish \/ Open
    PROVE  RequestAdvances
<1>t. TypeOK
  BY DEF IInv
<1>r. Turn \in 0 .. 3
  BY LegType
<1>s. Turn' \in 0 .. 3
  BY DEF Turn
<1> SUFFICES \/ Leg' > Leg
             \/ Leg' = Leg /\ Fewer(Undone', Undone)
             \/ Leg' = Leg /\ Undone' = Undone /\ Applied' > Applied
  BY DEF RequestAdvances
<1>1. ASSUME NEW p \in Place, RecoverPlace(p)
      PROVE  \/ Leg' = Leg /\ Fewer(Undone', Undone)
             \/ Leg' = Leg /\ Undone' = Undone /\ Applied' > Applied
  <2>1. pc = "recover" /\ p \in todo /\ round' = round /\ attempt' = attempt /\ journal' = journal
    BY <1>1 DEF RecoverPlace
  <2>2. attempt = "recover"
    BY <2>1 DEF IInv, RecoverOK
  <2>3. Turn' = Turn
    BY <2>1 DEF Turn
  <2>4. CASE journal[p].live
    <3>1. pc' = "apply" /\ step' = FirstStep(journal[p]) /\ todo' = todo
      BY <1>1, <2>4 DEF RecoverPlace
    <3>2. Leg' = Leg
      BY <2>1, <2>2, <2>3, <3>1 DEF Leg
    <3>3. Applied = 1 /\ Applied' \in {2, 4}
      BY <2>1, <3>1 DEF Applied, FirstStep
    <3>4. Undone' = Undone
      BY <2>1, <3>1 DEF Undone
    <3> QED
      BY <3>2, <3>3, <3>4
  <2>5. CASE ~journal[p].live
    <3>1. pc' = pc /\ todo' = todo \ {p}
      BY <1>1, <2>5 DEF RecoverPlace
    <3>2. Leg' = Leg
      BY <2>1, <2>2, <2>3, <3>1 DEF Leg
    <3>3. Fewer(Undone', Undone)
      BY <2>1, <3>1 DEF Fewer, Undone
    <3> QED
      BY <3>2, <3>3
  <2> QED
    BY <2>4, <2>5
<1>2. ASSUME RecoverDone PROVE Leg' > Leg
  <2>1. pc = "recover" /\ pc' \in {"plan", "stageBody", "commit"} /\ round' = round
    BY <1>2 DEF RecoverDone
  <2>2. Turn' = Turn
    BY <2>1 DEF Turn
  <2>3. Leg = 8 * Turn + 1 /\ Leg' \in {8 * Turn + 2, 8 * Turn + 4}
    BY <2>1, <2>2 DEF Leg
  <2> QED
    BY <1>r, <2>3
<1>3. ASSUME pc' \in {"idle", "refused"}, pc \notin {"idle", "down", "refused"} PROVE Leg' > Leg
  <2>1. Leg' = 33
    BY <1>3 DEF Leg
  <2>2. Leg \in 0 .. 32
    BY <1>3, <1>t, <1>r DEF Leg, TypeOK, PCs
  <2> QED
    BY <2>1, <2>2
<1>4. ASSUME pc' = "finish", pc \in {"mode", "plan"} PROVE Leg' > Leg
  <2>1. Leg' = 32
    BY <1>4 DEF Leg
  <2>2. Leg \in 0 .. 26
    BY <1>4, <1>r DEF Leg
  <2> QED
    BY <2>1, <2>2
<1>5. ASSUME pc = "plan", pc' = "recover", Turn' > Turn PROVE Leg' > Leg
  <2>1. Leg = 8 * Turn + 2 /\ Leg' = 8 * Turn' + 1
    BY <1>5 DEF Leg
  <2>2. \A a, b \in 0 .. 3 : b > a => 8 * b + 1 > 8 * a + 2
    OBVIOUS
  <2> QED
    BY <1>5, <1>r, <1>s, <2>1, <2>2
<1>6. ASSUME NEW w, pc = "plan", Publish(w) PROVE Leg' > Leg
  <2>1. pc' = "recover" /\ round' \in {"snap", "main"} /\ round \in {"open", "sweep"}
    BY <1>6 DEF Publish, RequestInv
  <2>2. Turn' > Turn
    BY <2>1 DEF Turn
  <2> QED
    BY <1>5, <1>6, <2>1, <2>2
<1>7. CASE PlanPut
  BY <1>6, <1>7 DEF PlanPut
<1>8. CASE PlanDelete
  <2>1. pc = "plan" /\ (pc' = "idle" \/ \E w : Publish(w))
    BY <1>8 DEF PlanDelete, End
  <2> QED
    BY <1>3, <1>6, <2>1
<1>9. CASE PlanDeleteVersion
  <2>1. pc = "plan" /\ (pc' = "idle" \/ \E w : Publish(w))
    BY <1>9 DEF PlanDeleteVersion, End
  <2> QED
    BY <1>3, <1>6, <2>1
<1>10. CASE SweepVersions \/ OpenVersion
  <2>1. pc = "plan" /\ pc' = "recover" /\ round = "open" /\ round' = "sweep"
    BY <1>10 DEF SweepVersions, OpenVersion
  <2>2. Turn' > Turn
    BY <2>1 DEF Turn
  <2> QED
    BY <1>5, <2>1, <2>2
<1>11. CASE Touch \/ AssignNull \/ Read
  <2>1. pc = "plan" /\ pc' \in {"idle", "finish"}
    BY <1>11 DEF Touch, AssignNull, Read, End
  <2> QED
    BY <1>3, <1>4, <2>1
<1>12. CASE SetMode
  <2>1. pc = "mode" /\ pc' \in {"finish", "recover"}
    BY <1>12 DEF SetMode
  <2>2. pc' = "recover" => Leg = 0 /\ Leg' = 8 * Turn' + 1
    BY <2>1 DEF Leg
  <2> QED
    BY <1>4, <1>s, <2>1, <2>2
<1>13. CASE StageBody \/ StageMeta \/ Commit
  <2>1. /\ \/ pc = "stageBody" /\ pc' = "stageMeta"
           \/ pc = "stageMeta" /\ pc' = "commit"
           \/ pc = "commit" /\ pc' = "apply" /\ attempt' = "commit"
        /\ round' = round
    BY <1>13 DEF StageBody, StageMeta, Commit
  <2>2. Turn' = Turn
    BY <2>1 DEF Turn
  <2>3. <<Leg, Leg'>> \in {<<8 * Turn + 2, 8 * Turn + 3>>, <<8 * Turn + 3, 8 * Turn + 4>>,
                           <<8 * Turn + 4, 8 * Turn + 5>>}
    BY <2>1, <2>2 DEF Leg
  <2> QED
    BY <1>r, <2>3
<1>14. CASE Finish \/ Open
  <2>1. pc \in {"finish", "recover"} /\ pc' \in {"idle", "refused"}
    BY <1>14 DEF Finish, Open, End
  <2> QED
    BY <1>3, <2>1
<1> QED
  BY <1>1, <1>2, <1>7, <1>8, <1>9, <1>10, <1>11, <1>12, <1>13, <1>14

\* The application of a decision.
LEMMA ApplyAdvances == ASSUME IInv, Apply PROVE RequestAdvances
<1>t. TypeOK
  BY DEF IInv
<1>r. Turn \in 0 .. 3
  BY LegType
<1>0. /\ Undone.places = todo /\ Undone.decisions = {p \in Place : journal[p].live}
      /\ Undone'.places = todo' /\ Undone'.decisions = {p \in Place : journal'[p].live}
      /\ DOMAIN Undone = {"places", "decisions"} /\ DOMAIN Undone' = {"places", "decisions"}
  BY DEF Undone
<1> SUFFICES \/ Leg' > Leg
             \/ Leg' = Leg /\ Fewer(Undone', Undone)
             \/ Leg' = Leg /\ Undone' = Undone /\ Applied' > Applied
             \/ Leg' = Leg /\ Undone' = Undone /\ Applied' = Applied /\ Fewer(Snapshots', Snapshots)
  BY DEF RequestAdvances
<1>1. ASSUME pc = "apply", Effect PROVE Leg' = Leg /\ pc' = "apply" /\ todo' = todo
  BY <1>1 DEF Effect, Leg, Turn
<1>2. CASE PublishBody \/ PublishMeta \/ RemovedVersions \/ MarkerBody \/ MarkerMeta \/ ClearBody \/ ClearMeta
  <2>1. /\ pc = "apply" /\ journal' = journal /\ Effect
        /\ \/ step = "body" /\ step' = "meta"
           \/ step = "meta" /\ step' = "remove"
           \/ step = "remove" /\ step' \in {"markerBody", "clearBody", "retire"}
           \/ step = "markerBody" /\ step' = "markerMeta"
           \/ step = "markerMeta" /\ step' = "clearBody"
           \/ step = "clearBody" /\ step' = "clearMeta"
           \/ step = "clearMeta" /\ step' = "retire"
    BY <1>2 DEF PublishBody, PublishMeta, RemovedVersions, MarkerBody, MarkerMeta, ClearBody, ClearMeta,
                AtStep, AfterRemove
  <2>2. pc' = "apply" /\ Leg' = Leg /\ todo' = todo
    BY <1>1, <2>1
  <2>3. Applied' > Applied
    BY <2>1, <2>2 DEF Applied
  <2>4. Undone' = Undone
    BY <2>1, <2>2 DEF Undone
  <2> QED
    BY <2>2, <2>3, <2>4
<1>3. CASE RetireJournal
  <2>1. pc = "apply" /\ step = "retire" /\ journal' = [journal EXCEPT ![at] = NoRecord] /\ Effect
    BY <1>3 DEF RetireJournal, AtStep
  <2>2. Leg' = Leg /\ todo' = todo
    BY <1>1, <2>1
  <2>3. at \in Place /\ journal[at].live
    BY <1>t, <2>1 DEF IInv, ApplyOK, TypeOK
  <2>4. journal \in [Place -> Record] /\ ~NoRecord.live
    BY <1>t, Blanks DEF TypeOK
  <2>5. Undone'.decisions \subseteq Undone.decisions /\ at \in Undone.decisions /\ at \notin Undone'.decisions
    BY <1>0, <2>1, <2>3, <2>4
  <2>6. Fewer(Undone', Undone)
    BY <1>0, <2>2, <2>5 DEF Fewer
  <2> QED
    BY <2>2, <2>6
<1>4. CASE CleanStage
  <2>1. pc = "apply" /\ step = "clean" /\ journal' = journal
    BY <1>4 DEF CleanStage, AtStep
  <2>2. CASE attempt = "recover"
    <3>1. pc' = "recover" /\ round' = round /\ todo' = todo
      BY <1>4, <2>2 DEF CleanStage
    <3>2. Leg' = Leg
      BY <2>1, <2>2, <3>1 DEF Leg, Turn
    <3>3. Undone' = Undone
      BY <2>1, <3>1 DEF Undone
    <3>4. Applied = 0 /\ Applied' = 1
      BY <2>1, <3>1 DEF Applied
    <3> QED
      BY <3>2, <3>3, <3>4
  <2>3. CASE attempt # "recover" /\ round = "snap"
    <3>1. pc' = "recover" /\ round' = "main"
      BY <1>4, <2>3 DEF CleanStage
    <3>2. Turn = 2 /\ Turn' = 3
      BY <2>3, <3>1 DEF Turn
    <3>3. Leg = 21 /\ Leg' = 25
      BY <2>1, <2>3, <3>1, <3>2 DEF Leg
    <3> QED
      BY <3>3
  <2>4. CASE attempt # "recover" /\ round # "snap"
    <3>1. pc' = "finish"
      BY <1>4, <2>4 DEF CleanStage
    <3>2. Leg = 8 * Turn + 5 /\ Leg' = 32
      BY <2>1, <2>4, <3>1 DEF Leg
    <3> QED
      BY <1>r, <3>2
  <2> QED
    BY <2>2, <2>3, <2>4
<1>5. ASSUME NEW v \in Vid, RemoveVersion(v)
      PROVE  \/ Leg' = Leg /\ Fewer(Undone', Undone)
             \/ Leg' = Leg /\ Undone' = Undone /\ Applied' = Applied /\ Fewer(Snapshots', Snapshots)
  <2>1. pc = "apply" /\ step = "remove" /\ step' = step /\ Effect
    BY <1>5 DEF RemoveVersion, AtStep
  <2>2. Leg' = Leg /\ pc' = "apply" /\ todo' = todo
    BY <1>1, <2>1
  <2>3. Applied' = Applied
    BY <2>1, <2>2 DEF Applied
  <2>4. /\ Snapshots.body = {x \in Vid : body[x] # 0} /\ Snapshots'.body = {x \in Vid : body'[x] # 0}
        /\ Snapshots.meta = {x \in Vid : meta[x] # NoObject} /\ Snapshots'.meta = {x \in Vid : meta'[x] # NoObject}
        /\ Snapshots.stage = {x \in Vid : stage[x] # NoStage} /\ Snapshots'.stage = {x \in Vid : stage'[x] # NoStage}
        /\ DOMAIN Snapshots = {"body", "meta", "stage"} /\ DOMAIN Snapshots' = {"body", "meta", "stage"}
    BY DEF Snapshots
  <2>5. /\ body \in [Place -> Nat] /\ meta \in [Place -> Object] /\ journal \in [Place -> Record]
        /\ stage \in [Place -> Stage] /\ v \in Place
    BY <1>t DEF TypeOK, Place
  <2>6. CASE body[v] # 0 /\ body' = [body EXCEPT ![v] = 0] /\ UNCHANGED <<meta, journal, stage>>
    <3>1. /\ Snapshots'.body \subseteq Snapshots.body /\ v \in Snapshots.body /\ v \notin Snapshots'.body
          /\ Snapshots'.meta = Snapshots.meta /\ Snapshots'.stage = Snapshots.stage
      BY <2>4, <2>5, <2>6
    <3>2. Fewer(Snapshots', Snapshots)
      BY <2>4, <3>1 DEF Fewer
    <3>3. Undone' = Undone
      BY <2>2, <2>6 DEF Undone
    <3> QED
      BY <2>2, <2>3, <3>2, <3>3
  <2>7. CASE meta[v] # NoObject /\ meta' = [meta EXCEPT ![v] = NoObject] /\ UNCHANGED <<body, journal, stage>>
    <3>1. /\ Snapshots'.meta \subseteq Snapshots.meta /\ v \in Snapshots.meta /\ v \notin Snapshots'.meta
          /\ Snapshots'.body = Snapshots.body /\ Snapshots'.stage = Snapshots.stage
      BY <2>4, <2>5, <2>7
    <3>2. Fewer(Snapshots', Snapshots)
      BY <2>4, <3>1 DEF Fewer
    <3>3. Undone' = Undone
      BY <2>2, <2>7 DEF Undone
    <3> QED
      BY <2>2, <2>3, <3>2, <3>3
  <2>8. CASE stage[v] # NoStage /\ stage' = [stage EXCEPT ![v] = NoStage] /\ UNCHANGED <<body, meta, journal>>
    <3>1. /\ Snapshots'.stage \subseteq Snapshots.stage /\ v \in Snapshots.stage /\ v \notin Snapshots'.stage
          /\ Snapshots'.body = Snapshots.body /\ Snapshots'.meta = Snapshots.meta
      BY <2>4, <2>5, <2>8
    <3>2. Fewer(Snapshots', Snapshots)
      BY <2>4, <3>1 DEF Fewer
    <3>3. Undone' = Undone
      BY <2>2, <2>8 DEF Undone
    <3> QED
      BY <2>2, <2>3, <3>2, <3>3
  <2>9. CASE journal[v].live /\ journal' = [journal EXCEPT ![v] = NoRecord]
    <3>1. ~NoRecord.live
      BY Blanks
    <3>2. Undone'.decisions \subseteq Undone.decisions /\ v \in Undone.decisions /\ v \notin Undone'.decisions
      BY <1>0, <2>5, <2>9, <3>1
    <3>3. Fewer(Undone', Undone)
      BY <1>0, <2>2, <3>2 DEF Fewer
    <3> QED
      BY <2>2, <3>3
  <2> QED
    BY <1>5, <2>6, <2>7, <2>8, <2>9 DEF RemoveVersion
<1> QED
  BY <1>2, <1>3, <1>4, <1>5 DEF Apply

\* The identity is not drawn before the plan.
LEMMA RequestStep == IInv /\ LInv /\ RequestInv /\ [Next]_vars => RequestInv'
<1> SUFFICES ASSUME IInv, LInv, RequestInv, [Next]_vars PROVE RequestInv'
  OBVIOUS
<1>s. /\ pc = "plan" => round \in {"open", "sweep"}
      /\ task.kind \in {"put", "delete"} /\ mode = "enabled" /\ round = "open"
           /\ pc \in {"recover", "apply", "plan"} => unused # {}
  BY DEF RequestInv
<1> USE DEF RequestInv
<1>1. CASE UNCHANGED vars
  BY <1>s, <1>1 DEF vars, files, memory, aux
<1>2. CASE Serve
  BY <1>s, <1>2 DEF Serve, Begin, files
<1>3. CASE \E p \in Place : RecoverPlace(p)
  BY <1>s, <1>3 DEF RecoverPlace, aux
<1>4. CASE RecoverDone
  BY <1>s, <1>4 DEF RecoverDone, aux, files
<1>5. ASSUME NEW w, Publish(w) PROVE RequestInv'
  BY <1>5 DEF Publish
<1>6. ASSUME pc' \notin {"recover", "apply", "plan"} PROVE RequestInv'
  BY <1>6
<1>7. CASE PlanPut \/ PlanDelete \/ PlanDeleteVersion
  BY <1>5, <1>6, <1>7 DEF PlanPut, PlanDelete, PlanDeleteVersion, End
<1>8. CASE SweepVersions \/ OpenVersion
  BY <1>8 DEF SweepVersions, OpenVersion
<1>9. CASE Touch \/ AssignNull \/ Read \/ Finish \/ StageBody \/ StageMeta \/ Crash
  BY <1>6, <1>9 DEF Touch, AssignNull, Read, Finish, StageBody, StageMeta, Crash, End
<1>10. CASE SetMode
  <2>1. task.kind = "setMode" /\ task' = task /\ pc' # "plan"
    BY <1>10 DEF SetMode, LInv, TaskOK
  <2> QED
    BY <2>1
<1>11. CASE Commit
  <2>1. round' = round /\ round \in {"snap", "main"} /\ pc' = "apply"
    BY <1>11 DEF Commit, IInv, StagingOK
  <2> QED
    BY <2>1
<1>12. CASE Apply
  <2>1. pc = "apply" /\ task' = task /\ mode' = mode /\ unused' = unused /\ pc' # "plan"
        /\ (round' = round \/ round' = "main")
    BY <1>12 DEF Apply, PublishBody, PublishMeta, RemoveVersion, RemovedVersions, MarkerBody, MarkerMeta,
                 ClearBody, ClearMeta, RetireJournal, CleanStage, AtStep, Effect, aux
  <2> QED
    BY <1>s, <2>1
<1>13. CASE Open
  BY <1>6, <1>13 DEF Open
<1>14. CASE Fault
  <2>1. pc' = "idle" \/ (pc = "apply" /\ UNCHANGED <<pc, round, task, mode, unused>>)
    BY <1>14 DEF Fault, End
  <2> QED
    BY <1>s, <1>6, <2>1
<1>15. CASE Restart
  BY <1>15 DEF Restart
<1> QED
  BY <1>1, <1>2, <1>3, <1>4, <1>7, <1>8, <1>9, <1>10, <1>11, <1>12, <1>13, <1>14, <1>15 DEF Next, Proceed

\* What Settles needs beside the fairness of the process, for any identities and
\* any number of generations and failures: a request or a startup that has begun
\* finds its next step, and each step of it comes closer to the end.
THEOREM RequestsAdvance == Spec => []NeverStuck /\ [][RequestAdvances]_vars
<1>1. Init => IInv /\ LInv /\ RequestInv
  <2>1. Init => RequestInv
    BY DEF Init, RequestInv
  <2> QED
    BY <2>1, InitInv, InitLInv
<1>2. IInv /\ LInv /\ RequestInv /\ [Next]_vars => IInv' /\ LInv' /\ RequestInv'
  BY NextLInv, RequestStep
<1>3. IInv /\ RequestInv => RequestAdvances
  BY PlanAdvances, ApplyAdvances DEF RequestAdvances, Proceed
<1>4. IInv /\ LInv /\ RequestInv => NeverStuck
  <2> SUFFICES ASSUME IInv, LInv, RequestInv PROVE NeverStuck
    OBVIOUS
  <2>1. pc # "refused" /\ (pc = "apply" => step = "clean" \/ journal[at].live)
    BY DEF IInv, NeverRefused, ApplyOK
  <2>2. pc = "plan" => round \in {"open", "sweep"} /\ task.kind # "none"
    BY DEF RequestInv, LInv, TaskOK
  <2>3. pc = "plan" /\ task.kind \in {"put", "delete"} /\ mode = "enabled" => unused # {}
    BY <2>2 DEF RequestInv, LInv, TaskOK
  <2> QED
    BY <2>1, <2>2, <2>3 DEF NeverStuck
<1> QED
  BY <1>1, <1>2, <1>3, <1>4, PTL DEF Spec

-----------------------------------------------------------------------------
(* Listings and downloads *)

Pairs == Int \X Int

\* The number of entries before this one.
Rank(S, e) == Cardinality({f \in S : Before(f, e)})

\* A set of numbers has a least one.
LEMMA LeastOf ==
    ASSUME NEW S \in SUBSET Nat, S # {}
    PROVE  \E i \in S : \A j \in S : i <= j
<1>1. PICK i \in S : \A j \in S : ~(<<j, i>> \in OpToRel(<, Nat))
  BY NatLessThanWellFounded, WFMin
<1>2. \A j \in S : ~(j < i)
  BY <1>1 DEF OpToRel
<1> QED
  BY <1>2

\* Entries are ordered by their first and then by their second number.
LEMMA BeforeIsOrder ==
    /\ \A x \in Pairs : ~Before(x, x)
    /\ \A x, y, z \in Pairs : Before(x, y) /\ Before(y, z) => Before(x, z)
    /\ \A x, y \in Pairs : x = y \/ Before(x, y) \/ Before(y, x)
<1>1. \A x, y \in Pairs : x[1] = y[1] /\ x[2] = y[2] => x = y
  BY DEF Pairs
<1> QED
  BY <1>1 DEF Before, Pairs

\* An entry has a finite number of entries before it, more in a larger set.
LEMMA RankGrows ==
    ASSUME NEW S, NEW T, IsFiniteSet(T), S \subseteq T, NEW e
    PROVE  Rank(S, e) \in Nat /\ Rank(T, e) \in Nat /\ Rank(S, e) <= Rank(T, e)
<1> DEFINE A == {f \in S : Before(f, e)}
           B == {f \in T : Before(f, e)}
<1>1. IsFiniteSet(B) /\ A \in SUBSET B
  BY FS_Subset
<1>2. IsFiniteSet(A) /\ Cardinality(A) <= Cardinality(B)
  BY <1>1, FS_Subset
<1> QED
  BY <1>1, <1>2, FS_CardinalityType DEF Rank

\* An entry that is before another has fewer entries before it.
LEMMA RankOrders ==
    ASSUME NEW S \in SUBSET Pairs, IsFiniteSet(S), NEW e \in S, NEW f \in S, Before(f, e)
    PROVE  Rank(S, f) < Rank(S, e)
<1> DEFINE A == {g \in S : Before(g, f)}
           B == {g \in S : Before(g, e)}
<1>1. A \subseteq B /\ f \in B /\ f \notin A
  BY BeforeIsOrder
<1>2. IsFiniteSet(A) /\ IsFiniteSet(B)
  BY FS_Subset
<1>3. Cardinality(A) <= Cardinality(B) /\ Cardinality(A) # Cardinality(B)
  BY <1>1, <1>2, FS_Subset
<1> QED
  BY <1>2, <1>3, FS_CardinalityType DEF Rank

\* A finite set of entries has a first and a last one.
LEMMA FirstAndLast ==
    ASSUME NEW S \in SUBSET Pairs, IsFiniteSet(S), S # {}
    PROVE  /\ Next1(S) \in S /\ \A f \in S : f = Next1(S) \/ Before(Next1(S), f)
           /\ Last(S) \in S /\ \A f \in S : f = Last(S) \/ Before(f, Last(S))
<1> DEFINE R == {Rank(S, e) : e \in S}
<1>1. R \subseteq Nat /\ R # {}
  BY RankGrows
<1>2. PICK e \in S : \A f \in S : Rank(S, e) <= Rank(S, f)
  <2>1. \E i \in R : \A j \in R : i <= j
    <3> HIDE DEF R
    <3> QED  BY <1>1, LeastOf
  <2> QED
    BY <2>1
<1>3. \A f \in S : ~Before(f, e)
  BY <1>1, <1>2, RankOrders
<1>4. \A f \in S : f = e \/ Before(e, f)
  BY <1>3, BeforeIsOrder
<1> DEFINE n == Cardinality(S)
           Q == {n - Rank(S, g) : g \in S}
<1>5. n \in Nat /\ \A g \in S : Rank(S, g) \in Nat /\ Rank(S, g) <= n
  <2> SUFFICES ASSUME NEW g \in S PROVE Rank(S, g) \in Nat /\ Rank(S, g) <= n /\ n \in Nat
    BY FS_CardinalityType
  <2>1. {f \in S : Before(f, g)} \in SUBSET S
    OBVIOUS
  <2> QED
    BY <2>1, FS_Subset, FS_CardinalityType DEF Rank
<1>6. Q \subseteq Nat /\ Q # {}
  BY <1>5
<1>7. PICK g \in S : \A f \in S : n - Rank(S, g) <= n - Rank(S, f)
  <2>1. \E i \in Q : \A j \in Q : i <= j
    <3> HIDE DEF Q
    <3> QED  BY <1>6, LeastOf
  <2> QED
    BY <2>1
<1>8. \A f \in S : ~Before(g, f)
  BY <1>5, <1>7, RankOrders
<1>9. \A f \in S : f = g \/ Before(f, g)
  BY <1>8, BeforeIsOrder
<1> QED
  BY <1>4, <1>9 DEF Next1, Last

\* The first entries of a set: a part of it, with every entry before one of them.
LEMMA FirstIsPrefix ==
    ASSUME NEW S \in SUBSET Pairs, IsFiniteSet(S), NEW n \in Nat
    PROVE  /\ First(n, S) \subseteq S /\ IsFiniteSet(First(n, S))
           /\ First(0, S) = {}
           /\ n # 0 /\ S # {} => First(n, S) # {}
           /\ \A e \in First(n, S), f \in S : Before(f, e) => f \in First(n, S)
           /\ \A m \in Nat : m <= n => First(m, S) \subseteq First(n, S)
           /\ Cardinality(S) <= n => First(n, S) = S
<1>1. \A e \in S : Rank(S, e) \in Nat
  BY RankGrows
<1>2. \A m : First(m, S) = {e \in S : Rank(S, e) < m}
  BY DEF First, Rank
<1>3. First(n, S) \subseteq S /\ IsFiniteSet(First(n, S))
  BY <1>2, FS_Subset
<1>4. First(0, S) = {}
  BY <1>1, <1>2
<1>5. ASSUME n # 0, S # {} PROVE First(n, S) # {}
  <2>1. {f \in S : Before(f, Next1(S))} = {} /\ Next1(S) \in S
    BY <1>5, FirstAndLast, BeforeIsOrder
  <2>2. Rank(S, Next1(S)) = 0
    BY <2>1, FS_EmptySet DEF Rank
  <2> QED
    BY <1>2, <1>5, <2>1, <2>2
<1>6. \A e \in First(n, S), f \in S : Before(f, e) => f \in First(n, S)
  BY <1>1, <1>2, RankOrders
<1>7. \A m \in Nat : m <= n => First(m, S) \subseteq First(n, S)
  BY <1>1, <1>2
<1>8. ASSUME Cardinality(S) <= n PROVE First(n, S) = S
  <2> SUFFICES ASSUME NEW e \in S PROVE Rank(S, e) < n
    BY <1>2
  <2> DEFINE A == {f \in S : Before(f, e)}
  <2>1. A \in SUBSET S /\ A # S
    BY BeforeIsOrder
  <2>2. Cardinality(A) <= Cardinality(S) /\ Cardinality(A) # Cardinality(S)
    BY <2>1, FS_Subset
  <2> QED
    BY <1>8, <2>1, <2>2, FS_Subset, FS_CardinalityType DEF Rank
<1> QED
  BY <1>3, <1>4, <1>5, <1>6, <1>7, <1>8

\* One entry more than the page is read (GCS XML): if all that is read fits the
\* page, nothing is left.
LEMMA ReadAhead ==
    ASSUME NEW S \in SUBSET Pairs, IsFiniteSet(S), NEW n \in Nat \ {0},
           First(n, First(n + 1, S)) = First(n + 1, S)
    PROVE  First(n + 1, S) = S
<1> DEFINE R == First(n + 1, S)
           left == S \ R
<1>1. R \subseteq S /\ IsFiniteSet(R) /\ IsFiniteSet(left) /\ left \in SUBSET Pairs /\ R \in SUBSET Pairs
  BY FirstIsPrefix, FS_Subset
<1> SUFFICES ASSUME left # {} PROVE FALSE
  BY <1>1
<1> DEFINE e == Next1(left)
           r == Last(R)
<1>2. e \in left /\ \A f \in left : f = e \/ Before(e, f)
  BY <1>1, FirstAndLast
<1>3. R # {}
  BY FirstIsPrefix
<1>4. r \in R /\ \A f \in R : f = r \/ Before(f, r)
  BY <1>1, <1>3, FirstAndLast
<1>5. Rank(R, r) < n /\ Rank(R, r) \in Nat
  <2>1. r \in First(n, R)
    BY <1>4
  <2> QED
    BY <1>1, <2>1, RankGrows DEF First, Rank
<1>6. ~(Rank(S, e) < n + 1) /\ Rank(S, e) \in Nat
  BY <1>2, RankGrows DEF First, Rank
<1> DEFINE A == {f \in S : Before(f, e)}
           B == {f \in R : Before(f, r)}
<1>7. A \subseteq B \cup {r}
  <2> SUFFICES ASSUME NEW f \in A PROVE f \in B \cup {r}
    OBVIOUS
  <2>1. f \in R
    BY <1>1, <1>2, BeforeIsOrder
  <2> QED
    BY <1>4, <2>1
<1>8. IsFiniteSet(B) /\ r \notin B
  BY <1>1, <1>4, FS_Subset, BeforeIsOrder
<1>9. IsFiniteSet(B \cup {r}) /\ Cardinality(B \cup {r}) = Cardinality(B) + 1
  BY <1>8, FS_AddElement
<1>10. Cardinality(A) <= Cardinality(B) + 1
  <2> HIDE DEF A, B
  <2>1. Cardinality(A) <= Cardinality(B \cup {r})
    BY <1>7, <1>9, FS_Subset
  <2> QED
    BY <1>9, <2>1
<1> QED
  BY <1>5, <1>6, <1>10 DEF Rank

-----------------------------------------------------------------------------
(* Pages *)

AfterDoors == {"s3", "gcs", "gcsXml", "admin", "search", "uploads", "versions"}
FromDoors == {"azure", "oci"}

Listings ==
    [door : AfterDoors \cup FromDoors \cup {"offset"},
     by : {"key", "folder", "group", "search", "version", "upload", "ofKey", "recent"},
     parent : {Root} \cup Folders \cup Keys, marker : {NoMarker} \cup Pairs, over : BOOLEAN,
     got : SUBSET Pairs, again : SUBSET Pairs, owed : SUBSET Pairs, grown : BOOLEAN, shrunk : BOOLEAN]

\* The entries an offset page begins behind.
Start(l) == IF l.marker = NoMarker THEN 0 ELSE l.marker[1]

\* Where a listing stands that goes on: what it has returned is before the
\* marker, and what is owed and not returned is behind it.
Position(l, S) ==
    /\ l.door \in AfterDoors =>
          IF l.marker = NoMarker THEN l.got = {}
          ELSE /\ \A e \in l.got : ~Before(l.marker, e)
               /\ \A e \in l.owed \ l.got : Before(l.marker, e)
    /\ l.door \in FromDoors =>
          IF l.marker = NoMarker THEN l.got = {}
          ELSE /\ \A e \in l.got : Before(e, l.marker)
               /\ \A e \in l.owed \ l.got : ~Before(e, l.marker)
    /\ l.door = "offset" =>
          /\ Start(l) \in Nat
          /\ l.grown \/ l.got \cap S \subseteq First(Start(l), S)
          /\ l.shrunk \/ l.owed \cap First(Start(l), S) \subseteq l.got

\* A listing of the entries S, as the properties want it and as far as it is.
Progress(l, S) ==
    /\ l.over => l.owed \subseteq l.got \/ (l.door = "offset" /\ l.shrunk)
    /\ l.again = {} \/ (l.door = "offset" /\ l.grown)
    /\ ~l.over => l.owed \subseteq S /\ Position(l, S)

\* What a page takes of the rest when its marker is the last entry returned.
TakesAfter(page, rest) ==
    /\ page.entries \subseteq rest /\ page.more \in BOOLEAN /\ page.next \in {NoMarker} \cup Pairs
    /\ ~page.more => page.entries = rest
    /\ page.more => /\ page.next \in page.entries
                    /\ \A e \in page.entries : ~Before(page.next, e)
                    /\ \A e \in rest \ page.entries : Before(page.next, e)

\* The same when its marker is the first entry left out.
TakesUpTo(page, rest) ==
    /\ page.entries \subseteq rest /\ page.more \in BOOLEAN /\ page.next \in {NoMarker} \cup Pairs
    /\ ~page.more => page.entries = rest
    /\ page.more => /\ page.next \in rest
                    /\ \A e \in page.entries : Before(e, page.next)
                    /\ \A e \in rest \ page.entries : ~Before(e, page.next)

\* No entry is the empty marker.
LEMMA EntryIsNoMarker == NoMarker \notin Pairs
<1> SUFFICES ASSUME NoMarker \in Pairs PROVE FALSE
  OBVIOUS
<1>1. PICK a \in Int, b \in Int : <<>> = <<a, b>>
  BY DEF NoMarker, Pairs
<1>2. Len(<<>>) = 0 /\ Len(<<a, b>>) = 2
  OBVIOUS
<1> QED
  BY <1>1, <1>2

\* A page behind a marker takes the first entries of what is left.
LEMMA AfterMarkerTakes ==
    ASSUME NEW rest \in SUBSET Pairs, IsFiniteSet(rest), NEW n \in Nat \ {0}
    PROVE  TakesAfter(AfterMarker(rest, n), rest)
<1> DEFINE page == First(n, rest)
<1>1. /\ page \subseteq rest /\ page \in SUBSET Pairs /\ IsFiniteSet(page)
      /\ \A e \in page, f \in rest : Before(f, e) => f \in page
      /\ page # rest => page # {}
  BY FirstIsPrefix
<1>2. page # {} => Last(page) \in page /\ \A f \in page : f = Last(page) \/ Before(f, Last(page))
  <2> HIDE DEF page
  <2> QED  BY <1>1, FirstAndLast
<1>3. page # {} => \A e \in page : ~Before(Last(page), e)
  BY <1>1, <1>2, BeforeIsOrder
<1>4. page # {} => \A e \in rest \ page : Before(Last(page), e)
  BY <1>1, <1>2, BeforeIsOrder
<1>5. /\ AfterMarker(rest, n).entries = page
      /\ AfterMarker(rest, n).next = (IF page = {} THEN NoMarker ELSE Last(page))
      /\ AfterMarker(rest, n).more = (page # rest)
  BY DEF AfterMarker, Page
<1> HIDE DEF page
<1> QED
  BY <1>1, <1>2, <1>3, <1>4, <1>5, EntryIsNoMarker DEF TakesAfter

\* So does a page from a marker on.
LEMMA FromMarkerTakes ==
    ASSUME NEW rest \in SUBSET Pairs, IsFiniteSet(rest), NEW n \in Nat \ {0}
    PROVE  TakesUpTo(FromMarker(rest, n), rest)
<1> DEFINE page == First(n, rest)
           left == rest \ page
<1>1. /\ page \subseteq rest /\ left \in SUBSET Pairs /\ IsFiniteSet(left)
      /\ \A e \in page, f \in rest : Before(f, e) => f \in page
  BY FirstIsPrefix, FS_Subset
<1>2. left # {} => Next1(left) \in left /\ \A f \in left : f = Next1(left) \/ Before(Next1(left), f)
  <2> HIDE DEF left
  <2> QED  BY <1>1, FirstAndLast
<1>3. left # {} => \A e \in page : Before(e, Next1(left))
  BY <1>1, <1>2, BeforeIsOrder
<1>4. left # {} => \A e \in left : ~Before(e, Next1(left))
  BY <1>1, <1>2, BeforeIsOrder
<1>5. /\ FromMarker(rest, n).entries = page
      /\ FromMarker(rest, n).next = (IF left = {} THEN NoMarker ELSE Next1(left))
      /\ FromMarker(rest, n).more = (left # {})
  BY DEF FromMarker, Page
<1> HIDE DEF page, left
<1>6. CASE left = {}
  <2>1. page = rest
    BY <1>1, <1>6 DEF left
  <2> QED
    BY <1>5, <1>6, <2>1 DEF TakesUpTo
<1>7. CASE left # {}
  <2>1. Next1(left) \in rest /\ rest \ page = left
    BY <1>2, <1>7 DEF left
  <2> QED
    BY <1>1, <1>3, <1>4, <1>5, <1>7, <2>1 DEF TakesUpTo
<1> QED
  BY <1>6, <1>7

\* GCS XML reads one entry more than it returns.
LEMMA ReadAheadTakes ==
    ASSUME NEW rest \in SUBSET Pairs, IsFiniteSet(rest), NEW n \in Nat \ {0}
    PROVE  TakesAfter(AfterMarker(First(n + 1, rest), n), rest)
<1> DEFINE R == First(n + 1, rest)
           page == AfterMarker(R, n)
<1>1. /\ R \subseteq rest /\ R \in SUBSET Pairs /\ IsFiniteSet(R)
      /\ \A e \in R, f \in rest : Before(f, e) => f \in R
  BY FirstIsPrefix
<1>2. TakesAfter(page, R)
  <2> HIDE DEF R
  <2> QED  BY <1>1, AfterMarkerTakes
<1>3. page.entries = First(n, R)
  BY DEF AfterMarker, Page
<1>4. ~page.more => R = rest
  BY <1>2, <1>3, ReadAhead DEF TakesAfter
<1>5. page.more => page.next \in R
  BY <1>2 DEF TakesAfter
<1>6. page.more => \A e \in rest \ page.entries : Before(page.next, e)
  <2> SUFFICES ASSUME page.more, NEW e \in rest \ page.entries PROVE Before(page.next, e)
    OBVIOUS
  <2>1. CASE e \in R
    BY <1>2, <2>1 DEF TakesAfter
  <2>2. CASE e \notin R
    BY <1>1, <1>5, <2>2, BeforeIsOrder
  <2> QED
    BY <2>1, <2>2
<1>7. page.entries \subseteq rest /\ (~page.more => page.entries = rest)
  BY <1>1, <1>2, <1>4 DEF TakesAfter
<1> SUFFICES TakesAfter(page, rest)
  OBVIOUS
<1> HIDE DEF R, page
<1> QED
  BY <1>2, <1>6, <1>7 DEF TakesAfter

-----------------------------------------------------------------------------
(* One page of a listing *)

\* The listing after a page.
Turned(l, S, page) ==
    [l EXCEPT !.marker = page.next, !.over = ~page.more, !.got = l.got \cup page.entries,
              !.again = l.again \cup (l.got \cap page.entries), !.owed = l.owed \ PassedOver(S, l)]

\* What the doors with the last entry as marker draw a page from.
RestAfter(S, l) == IF l.door = "versions" THEN VersionsLeft(S, l.marker) ELSE Beyond(S, l.marker)

\* The doors whose marker is the last entry returned take such pages of what lies behind it.
LEMMA PagesAfter ==
    ASSUME NEW S \in SUBSET Pairs, IsFiniteSet(S), NEW l \in Listings, l.door \in AfterDoors,
           NEW n \in Nat \ {0}
    PROVE  /\ TakesAfter(PageOf(l.door, S, l.marker, n), RestAfter(S, l))
           /\ RestAfter(S, l) \subseteq Beyond(S, l.marker)
           /\ PassedOver(S, l) = Beyond(S, l.marker) \ RestAfter(S, l)
<1> DEFINE rest == RestAfter(S, l)
<1>1. Beyond(S, l.marker) \subseteq S
  BY DEF Beyond
<1>2. rest \subseteq Beyond(S, l.marker)
  <2>1. l.marker # NoMarker => \A e \in S : e[1] > l.marker[1] => Before(l.marker, e)
    BY DEF Before, Pairs, Listings
  <2> QED
    BY <2>1 DEF RestAfter, VersionsLeft, Beyond
<1>3. rest \in SUBSET Pairs /\ IsFiniteSet(rest)
  BY <1>1, <1>2, FS_Subset
<1>4. TakesAfter(AfterMarker(rest, n), rest)
  <2> HIDE DEF rest
  <2> QED  BY <1>3, AfterMarkerTakes
<1>5. TakesAfter(AfterMarker(First(n + 1, rest), n), rest)
  <2> HIDE DEF rest
  <2> QED  BY <1>3, ReadAheadTakes
<1>6. l.door # "gcsXml" => PageOf(l.door, S, l.marker, n) = AfterMarker(rest, n)
  BY DEF AfterDoors, PageOf, RestAfter, S3Page, GcsPage, AdminPage, AdminSearchPage, S3UploadsPage,
         StoragePage, S3VersionsPage
<1>7. l.door = "gcsXml" => PageOf(l.door, S, l.marker, n) = AfterMarker(First(n + 1, rest), n)
  BY DEF PageOf, RestAfter, GcsXmlPage, StoragePage, AfterMarker, Page
<1>8. PassedOver(S, l) = Beyond(S, l.marker) \ rest
  BY DEF PassedOver, RestAfter
<1> QED
  BY <1>2, <1>4, <1>5, <1>6, <1>7, <1>8

\* A page keeps a listing on its way, at the doors whose marker is the last entry returned,
LEMMA TurnAfter ==
    ASSUME NEW S \in SUBSET Pairs, IsFiniteSet(S), NEW l \in Listings, l.door \in AfterDoors,
           NEW n \in Nat \ {0}, ~l.over, Progress(l, S)
    PROVE  LET t == Turned(l, S, PageOf(l.door, S, l.marker, n)) IN t \in Listings /\ Progress(t, S)
<1> DEFINE page == PageOf(l.door, S, l.marker, n)
           rest == RestAfter(S, l)
           t == Turned(l, S, page)
<1>1. TakesAfter(page, rest) /\ rest \subseteq Beyond(S, l.marker) /\ PassedOver(S, l) = Beyond(S, l.marker) \ rest
  BY PagesAfter
<1>2. /\ l.again = {} /\ l.owed \subseteq S
      /\ IF l.marker = NoMarker THEN l.got = {}
         ELSE /\ \A e \in l.got : ~Before(l.marker, e)
              /\ \A e \in l.owed \ l.got : Before(l.marker, e)
  BY DEF Progress, Position, AfterDoors
<1> SUFFICES t \in Listings /\ Progress(t, S)
  OBVIOUS
<1> HIDE DEF page, rest
<1>3. /\ t \in Listings
      /\ t.door = l.door /\ t.by = l.by /\ t.parent = l.parent /\ t.grown = l.grown /\ t.shrunk = l.shrunk
      /\ t.marker = page.next /\ (t.over <=> ~page.more) /\ t.got = l.got \cup page.entries
      /\ t.again = l.again \cup (l.got \cap page.entries) /\ t.owed = l.owed \ PassedOver(S, l)
  <2>1. /\ page.next \in {NoMarker} \cup Pairs /\ (~page.more) \in BOOLEAN
        /\ l.got \cup page.entries \in SUBSET Pairs /\ l.again \cup (l.got \cap page.entries) \in SUBSET Pairs
        /\ l.owed \ PassedOver(S, l) \in SUBSET Pairs
    BY <1>1 DEF TakesAfter, Listings, Beyond
  <2> DEFINE o == ~page.more
             g == l.got \cup page.entries
             a == l.again \cup (l.got \cap page.entries)
             w == l.owed \ PassedOver(S, l)
  <2>2. t = [l EXCEPT !.marker = page.next, !.over = o, !.got = g, !.again = a, !.owed = w]
    BY DEF Turned
  <2>3. o \in BOOLEAN /\ g \in SUBSET Pairs /\ a \in SUBSET Pairs /\ w \in SUBSET Pairs
    BY <2>1
  <2> HIDE DEF o, g, a, w, t
  <2>4. /\ t \in Listings /\ t.door = l.door /\ t.by = l.by /\ t.parent = l.parent /\ t.grown = l.grown
        /\ t.shrunk = l.shrunk
        /\ t.marker = page.next /\ t.over = o /\ t.got = g /\ t.again = a /\ t.owed = w
    BY <2>1, <2>2, <2>3 DEF Listings
  <2> QED
    BY <2>4 DEF o, g, a, w
<1>4. page.entries \subseteq Beyond(S, l.marker) /\ Beyond(S, l.marker) \subseteq S
  BY <1>1 DEF TakesAfter, Beyond
<1>5. l.got \cap page.entries = {}
  BY <1>2, <1>4 DEF Beyond
<1>6. t.owed \ l.got \subseteq rest
  BY <1>1, <1>2, <1>3 DEF Beyond
<1>7. page.entries \subseteq Pairs
  BY <1>4
<1>8. ASSUME page.more PROVE \A e \in t.got : ~Before(t.marker, e)
  <2> SUFFICES ASSUME NEW e \in t.got PROVE ~Before(page.next, e)
    BY <1>3
  <2>1. CASE e \in page.entries
    BY <1>1, <1>8, <2>1 DEF TakesAfter
  <2>2. CASE e \in l.got
    <3>1. l.marker # NoMarker /\ ~Before(l.marker, e) /\ e \in Pairs /\ l.marker \in Pairs
      BY <1>2, <2>2 DEF Listings
    <3>2. page.next \in Pairs /\ Before(l.marker, page.next)
      BY <1>1, <1>4, <1>8, <3>1 DEF TakesAfter, Beyond
    <3> QED
      BY <3>1, <3>2, BeforeIsOrder
  <2> QED
    BY <1>3, <2>1, <2>2
<1>9. ASSUME page.more PROVE \A e \in t.owed \ t.got : Before(t.marker, e)
  BY <1>1, <1>3, <1>6, <1>9 DEF TakesAfter
<1>10. page.more => Position(t, S)
  <2>1. page.more => t.marker # NoMarker
    BY <1>1, <1>3, <1>7, EntryIsNoMarker DEF TakesAfter
  <2> QED
    BY <1>3, <1>8, <1>9, <2>1 DEF Position, AfterDoors, FromDoors
<1>11. ~page.more => t.owed \subseteq t.got
  BY <1>1, <1>3, <1>6 DEF TakesAfter
<1>12. t.again = {}
  BY <1>2, <1>3, <1>5
<1>13. t.owed \subseteq S
  BY <1>2, <1>3
<1> QED
  BY <1>3, <1>10, <1>11, <1>12, <1>13 DEF Progress

\* at the doors whose marker is the first entry left out,
LEMMA TurnFrom ==
    ASSUME NEW S \in SUBSET Pairs, IsFiniteSet(S), NEW l \in Listings, l.door \in FromDoors,
           NEW n \in Nat \ {0}, ~l.over, Progress(l, S)
    PROVE  LET t == Turned(l, S, PageOf(l.door, S, l.marker, n)) IN t \in Listings /\ Progress(t, S)
<1> DEFINE page == PageOf(l.door, S, l.marker, n)
           rest == Starting(S, l.marker)
           t == Turned(l, S, page)
<1>1. TakesUpTo(page, rest) /\ PassedOver(S, l) = {} /\ rest \subseteq S
  <2>1. rest \subseteq S
    BY DEF Starting
  <2>2. rest \in SUBSET Pairs /\ IsFiniteSet(rest)
    BY <2>1, FS_Subset
  <2>3. page = FromMarker(rest, n)
    BY DEF FromDoors, PageOf, AzurePage, OciPage
  <2>4. TakesUpTo(FromMarker(rest, n), rest)
    <3> HIDE DEF rest
    <3> QED  BY <2>2, FromMarkerTakes
  <2> QED
    BY <2>1, <2>3, <2>4 DEF PassedOver, FromDoors
<1>2. /\ l.again = {} /\ l.owed \subseteq S
      /\ IF l.marker = NoMarker THEN l.got = {}
         ELSE /\ \A e \in l.got : Before(e, l.marker)
              /\ \A e \in l.owed \ l.got : ~Before(e, l.marker)
  BY DEF Progress, Position, FromDoors
<1> SUFFICES t \in Listings /\ Progress(t, S)
  OBVIOUS
<1> HIDE DEF page, rest
<1>3. /\ t \in Listings
      /\ t.door = l.door /\ t.by = l.by /\ t.parent = l.parent /\ t.grown = l.grown /\ t.shrunk = l.shrunk
      /\ t.marker = page.next /\ (t.over <=> ~page.more) /\ t.got = l.got \cup page.entries
      /\ t.again = l.again \cup (l.got \cap page.entries) /\ t.owed = l.owed \ PassedOver(S, l)
  <2>1. /\ page.next \in {NoMarker} \cup Pairs /\ (~page.more) \in BOOLEAN
        /\ l.got \cup page.entries \in SUBSET Pairs /\ l.again \cup (l.got \cap page.entries) \in SUBSET Pairs
        /\ l.owed \ PassedOver(S, l) \in SUBSET Pairs
    BY <1>1 DEF TakesUpTo, Listings
  <2> DEFINE o == ~page.more
             g == l.got \cup page.entries
             a == l.again \cup (l.got \cap page.entries)
             w == l.owed \ PassedOver(S, l)
  <2>2. t = [l EXCEPT !.marker = page.next, !.over = o, !.got = g, !.again = a, !.owed = w]
    BY DEF Turned
  <2>3. o \in BOOLEAN /\ g \in SUBSET Pairs /\ a \in SUBSET Pairs /\ w \in SUBSET Pairs
    BY <2>1
  <2> HIDE DEF o, g, a, w, t
  <2>4. /\ t \in Listings /\ t.door = l.door /\ t.by = l.by /\ t.parent = l.parent /\ t.grown = l.grown
        /\ t.shrunk = l.shrunk
        /\ t.marker = page.next /\ t.over = o /\ t.got = g /\ t.again = a /\ t.owed = w
    BY <2>1, <2>2, <2>3 DEF Listings
  <2> QED
    BY <2>4 DEF o, g, a, w
<1>4. l.marker = NoMarker \/ (l.marker \in Pairs /\ \A e \in rest : ~Before(e, l.marker))
  BY DEF Listings, rest, Starting
<1>5. l.got \cap page.entries = {}
  BY <1>1, <1>2, <1>4 DEF TakesUpTo
<1>6. l.owed \ l.got \subseteq rest
  BY <1>2 DEF rest, Starting
<1>7. t.owed = l.owed
  BY <1>1, <1>3
<1>8. ASSUME page.more PROVE \A e \in t.got : Before(e, t.marker)
  <2> SUFFICES ASSUME NEW e \in t.got PROVE Before(e, page.next)
    BY <1>3
  <2>1. CASE e \in page.entries
    BY <1>1, <1>8, <2>1 DEF TakesUpTo
  <2>2. CASE e \in l.got
    <3>1. e \in Pairs /\ l.marker \in Pairs /\ Before(e, l.marker)
      BY <1>2, <1>4, <2>2 DEF Listings
    <3>2. page.next \in Pairs /\ ~Before(page.next, l.marker)
      BY <1>1, <1>2, <1>4, <1>8, <2>2 DEF TakesUpTo
    <3> QED
      BY <3>1, <3>2, BeforeIsOrder
  <2> QED
    BY <1>3, <2>1, <2>2
<1>9. ASSUME page.more PROVE \A e \in t.owed \ t.got : ~Before(e, t.marker)
  BY <1>1, <1>3, <1>6, <1>7, <1>9 DEF TakesUpTo
<1>10. page.more => Position(t, S)
  <2>1. page.more => t.marker # NoMarker
    BY <1>1, <1>3, EntryIsNoMarker DEF TakesUpTo
  <2> QED
    BY <1>3, <1>8, <1>9, <2>1 DEF Position, AfterDoors, FromDoors
<1>11. ~page.more => t.owed \subseteq t.got
  BY <1>1, <1>3, <1>6, <1>7 DEF TakesUpTo
<1>12. t.again = {} /\ t.owed \subseteq S
  BY <1>2, <1>3, <1>5, <1>7
<1> QED
  BY <1>3, <1>10, <1>11, <1>12 DEF Progress

\* and at the doors whose marker is a number of entries.
LEMMA TurnOffset ==
    ASSUME NEW S \in SUBSET Pairs, IsFiniteSet(S), NEW l \in Listings, l.door = "offset",
           NEW n \in Nat \ {0}, ~l.over, Progress(l, S)
    PROVE  LET t == Turned(l, S, PageOf(l.door, S, l.marker, n)) IN t \in Listings /\ Progress(t, S)
<1> DEFINE page == PageOf(l.door, S, l.marker, n)
           start == Start(l)
           end == start + n
           t == Turned(l, S, page)
<1>1. /\ l.again = {} \/ l.grown
      /\ l.owed \subseteq S /\ start \in Nat
      /\ l.grown \/ l.got \cap S \subseteq First(start, S)
      /\ l.shrunk \/ l.owed \cap First(start, S) \subseteq l.got
  BY DEF Progress, Position
<1>2. /\ page.entries = First(end, S) \ First(start, S) /\ page.next = <<end, 0>>
      /\ page.more = (end < Cardinality(S)) /\ PassedOver(S, l) = {}
  BY DEF PageOf, OffsetPage, Page, Start, PassedOver
<1>3. /\ First(start, S) \subseteq First(end, S) /\ First(end, S) \subseteq S
      /\ Cardinality(S) <= end => First(end, S) = S
  BY <1>1, FirstIsPrefix
<1>4. Cardinality(S) \in Nat /\ end \in Nat
  BY <1>1, FS_CardinalityType
<1> SUFFICES t \in Listings /\ Progress(t, S)
  OBVIOUS
<1> HIDE DEF page
<1>5. <<end, 0>> \in Pairs
  BY <1>4 DEF Pairs
<1>6. /\ t \in Listings
      /\ t.door = l.door /\ t.by = l.by /\ t.parent = l.parent /\ t.grown = l.grown /\ t.shrunk = l.shrunk
      /\ t.marker = page.next /\ (t.over <=> ~page.more) /\ t.got = l.got \cup page.entries
      /\ t.again = l.again \cup (l.got \cap page.entries) /\ t.owed = l.owed \ PassedOver(S, l)
  <2>1. /\ page.next \in {NoMarker} \cup Pairs /\ (~page.more) \in BOOLEAN
        /\ l.got \cup page.entries \in SUBSET Pairs /\ l.again \cup (l.got \cap page.entries) \in SUBSET Pairs
        /\ l.owed \ PassedOver(S, l) \in SUBSET Pairs
    BY <1>2, <1>3, <1>5 DEF Listings
  <2> DEFINE o == ~page.more
             g == l.got \cup page.entries
             a == l.again \cup (l.got \cap page.entries)
             w == l.owed \ PassedOver(S, l)
  <2>2. t = [l EXCEPT !.marker = page.next, !.over = o, !.got = g, !.again = a, !.owed = w]
    BY DEF Turned
  <2>3. o \in BOOLEAN /\ g \in SUBSET Pairs /\ a \in SUBSET Pairs /\ w \in SUBSET Pairs
    BY <2>1
  <2> HIDE DEF o, g, a, w, t
  <2>4. /\ t \in Listings /\ t.door = l.door /\ t.by = l.by /\ t.parent = l.parent /\ t.grown = l.grown
        /\ t.shrunk = l.shrunk
        /\ t.marker = page.next /\ t.over = o /\ t.got = g /\ t.again = a /\ t.owed = w
    BY <2>1, <2>2, <2>3 DEF Listings
  <2> QED
    BY <2>4 DEF o, g, a, w
<1>7. t.owed = l.owed /\ t.marker = <<end, 0>>
  BY <1>2, <1>6
<1>8. Start(t) = end
  <2>1. t.marker # NoMarker /\ t.marker[1] = end
    BY <1>5, <1>7, EntryIsNoMarker
  <2> QED
    BY <2>1 DEF Start
<1>9. l.grown \/ t.again = {}
  BY <1>1, <1>2, <1>3, <1>6
<1>10. l.grown \/ t.got \cap S \subseteq First(end, S)
  BY <1>1, <1>2, <1>3, <1>6
<1>11. l.shrunk \/ t.owed \cap First(end, S) \subseteq t.got
  BY <1>1, <1>2, <1>3, <1>6, <1>7
<1>12. Position(t, S)
  BY <1>4, <1>6, <1>8, <1>10, <1>11 DEF Position, AfterDoors, FromDoors
<1>13. ASSUME ~page.more PROVE l.shrunk \/ t.owed \subseteq t.got
  <2>1. ~(end < Cardinality(S))
    BY <1>2, <1>13
  <2>2. First(end, S) = S
    BY <1>3, <1>4, <2>1
  <2> QED
    BY <1>1, <1>7, <1>11, <2>2
<1> QED
  BY <1>1, <1>6, <1>7, <1>9, <1>12, <1>13 DEF Progress

\* A page keeps a listing on its way, at every door.
LEMMA TurnPage ==
    ASSUME NEW S \in SUBSET Pairs, IsFiniteSet(S), NEW l \in Listings,
           NEW n \in Nat \ {0}, ~l.over, Progress(l, S)
    PROVE  LET t == Turned(l, S, PageOf(l.door, S, l.marker, n)) IN t \in Listings /\ Progress(t, S)
<1>1. l.door \in AfterDoors \/ l.door \in FromDoors \/ l.door = "offset"
  BY DEF Listings
<1> QED
  BY <1>1, TurnAfter, TurnFrom, TurnOffset

\* The listing after a write that leaves the entries T.
Rewritten(l, S, T) ==
    IF l.over THEN l
    ELSE [l EXCEPT !.owed = l.owed \cap T, !.grown = l.grown \/ ~(T \subseteq S),
                   !.shrunk = l.shrunk \/ ~(S \subseteq T)]

\* So does a write between the pages.
LEMMA WriteKeeps ==
    ASSUME NEW S \in SUBSET Pairs, IsFiniteSet(S), NEW T \in SUBSET Pairs, IsFiniteSet(T),
           NEW l \in Listings, Progress(l, S)
    PROVE  Rewritten(l, S, T) \in Listings /\ Progress(Rewritten(l, S, T), T)
<1>1. CASE l.over
  BY <1>1 DEF Rewritten, Progress
<1>2. CASE ~l.over
  <2> DEFINE w == Rewritten(l, S, T)
  <2>1. w = [l EXCEPT !.owed = l.owed \cap T, !.grown = l.grown \/ ~(T \subseteq S),
                      !.shrunk = l.shrunk \/ ~(S \subseteq T)]
    BY <1>2 DEF Rewritten
  <2>2. /\ w \in Listings /\ w.door = l.door /\ w.by = l.by /\ w.parent = l.parent
        /\ w.marker = l.marker /\ w.over = l.over /\ w.got = l.got
        /\ w.again = l.again /\ w.owed = l.owed \cap T
        /\ (w.grown <=> l.grown \/ ~(T \subseteq S)) /\ (w.shrunk <=> l.shrunk \/ ~(S \subseteq T))
    <3>1. /\ l.owed \cap T \in SUBSET Pairs /\ (l.grown \/ ~(T \subseteq S)) \in BOOLEAN
          /\ (l.shrunk \/ ~(S \subseteq T)) \in BOOLEAN
      BY DEF Listings
    <3> DEFINE o == l.owed \cap T
               g == l.grown \/ ~(T \subseteq S)
               s == l.shrunk \/ ~(S \subseteq T)
    <3>2. w = [l EXCEPT !.owed = o, !.grown = g, !.shrunk = s]
      BY <2>1
    <3>3. o \in SUBSET Pairs /\ g \in BOOLEAN /\ s \in BOOLEAN
      BY <3>1
    <3> HIDE DEF o, g, s, w
    <3>4. /\ w \in Listings /\ w.door = l.door /\ w.by = l.by /\ w.parent = l.parent
          /\ w.marker = l.marker /\ w.over = l.over /\ w.got = l.got /\ w.again = l.again
          /\ w.owed = o /\ w.grown = g /\ w.shrunk = s
      BY <3>2, <3>3 DEF Listings
    <3> QED
      BY <3>4 DEF o, g, s
  <2> HIDE DEF w
  <2>3. l.owed \subseteq S /\ Position(l, S)
    BY <1>2 DEF Progress
  <2>4. ASSUME l.door = "offset"
        PROVE  /\ Start(w) \in Nat
               /\ w.grown \/ w.got \cap T \subseteq First(Start(w), T)
               /\ w.shrunk \/ w.owed \cap First(Start(w), T) \subseteq w.got
    <3>1. Start(w) = Start(l) /\ Start(l) \in Nat
      BY <2>2, <2>3, <2>4 DEF Start, Position
    <3>2. ASSUME ~w.grown, NEW e \in w.got \cap T PROVE e \in First(Start(w), T)
      <4>1. T \subseteq S /\ e \in First(Start(l), S)
        BY <2>2, <2>3, <2>4, <3>2 DEF Position
      <4>2. Rank(T, e) \in Nat /\ Rank(S, e) \in Nat /\ Rank(T, e) <= Rank(S, e)
        BY <4>1, RankGrows
      <4> QED
        BY <3>1, <3>2, <4>1, <4>2 DEF First, Rank
    <3>3. ASSUME ~w.shrunk, NEW e \in w.owed \cap First(Start(w), T) PROVE e \in w.got
      <4>1. S \subseteq T /\ e \in l.owed /\ e \in S
        BY <2>2, <2>3, <3>3
      <4>2. Rank(T, e) \in Nat /\ Rank(S, e) \in Nat /\ Rank(S, e) <= Rank(T, e)
        BY <4>1, RankGrows
      <4>3. e \in First(Start(l), S)
        BY <3>1, <3>3, <4>1, <4>2 DEF First, Rank
      <4> QED
        BY <2>2, <2>3, <2>4, <3>3, <4>1, <4>3 DEF Position
    <3> QED
      BY <3>1, <3>2, <3>3
  <2>5. w.owed \subseteq l.owed /\ w.owed \subseteq T
    BY <2>2
  <2>6. Position(w, T)
    BY <2>2, <2>3, <2>4, <2>5 DEF Position
  <2>7. w.again = {} \/ (w.door = "offset" /\ w.grown)
    BY <2>2 DEF Progress
  <2>8. ~w.over
    BY <1>2, <2>2
  <2>9. Progress(w, T)
    BY <2>5, <2>6, <2>7, <2>8 DEF Progress
  <2> QED
    BY <2>2, <2>9 DEF w
<1> QED
  BY <1>1, <1>2

-----------------------------------------------------------------------------
(* The bucket and its index *)

VersionSet == [key : Keys, stamp : Nat, live : BOOLEAN, body : Bodies \cup {<<>>}]

\* A bucket whose versions and uploads are older than t, one version for a stamp of a key.
BucketOK(b, t) ==
    /\ b = [versions |-> b.versions, uploads |-> b.uploads, objects |-> b.objects, children |-> b.children]
    /\ b.versions \subseteq VersionSet /\ IsFiniteSet(b.versions)
    /\ \A v \in b.versions : v.stamp < t
    /\ \A v, w \in b.versions : v.key = w.key /\ v.stamp = w.stamp => v = w
    /\ b.uploads \subseteq Pairs /\ IsFiniteSet(b.uploads)
    /\ b.objects \subseteq Keys
    /\ DOMAIN b.children = {Root} \cup Folders

\* The keys and the children that the versions of a bucket call for.
LiveKeys(b) == {k \in Keys : CurrentOf(b, k) # {}}
ChildrenOf(K, p) == {Child(p, k) : k \in {x \in K : p \in Chain(x)}}

IndexOK(b) ==
    /\ b.objects = LiveKeys(b)
    /\ \A p \in {Root} \cup Folders : b.children[p] = ChildrenOf(b.objects, p)

\* The newest version of a key is one of its versions.
LEMMA NewestIsThere ==
    ASSUME NEW V \in SUBSET VersionSet, NEW t \in Nat, \A v \in V : v.stamp < t, V # {}
    PROVE  Newest(V) \in V /\ \A w \in V : w.stamp <= Newest(V).stamp
<1> DEFINE Q == {t - v.stamp : v \in V}
<1>1. Q \subseteq Nat /\ Q # {}
  BY DEF VersionSet
<1>2. \E i \in Q : \A j \in Q : i <= j
  <2> HIDE DEF Q
  <2> QED  BY <1>1, LeastOf
<1>3. PICK v \in V : \A w \in V : t - v.stamp <= t - w.stamp
  BY <1>2
<1>4. \A w \in V : w.stamp <= v.stamp
  BY <1>3 DEF VersionSet
<1> QED
  BY <1>4 DEF Newest

\* The current object of a key is its newest version, unless that is a marker.
LEMMA CurrentIsNewest ==
    ASSUME NEW b, NEW t \in Nat, b.versions \subseteq VersionSet, \A v \in b.versions : v.stamp < t,
           NEW k, NEW v \in CurrentOf(b, k)
    PROVE  /\ v \in b.versions /\ v.key = k /\ CurrentOf(b, k) = {v}
           /\ \A w \in b.versions : w.key = k => w.stamp <= v.stamp
<1> DEFINE V == VersionsOf(b, k)
<1>1. V # {} /\ v = Newest(V) /\ V \subseteq VersionSet /\ \A w \in V : w.stamp < t
  BY DEF CurrentOf, VersionsOf
<1>2. Newest(V) \in V /\ \A w \in V : w.stamp <= Newest(V).stamp
  <2> HIDE DEF V
  <2> QED  BY <1>1, NewestIsThere
<1>3. CurrentOf(b, k) = {v}
  BY <1>1 DEF CurrentOf
<1> QED
  BY <1>1, <1>2, <1>3 DEF VersionsOf

\* Other keys have the current object they had.
LEMMA CurrentElsewhere ==
    ASSUME NEW b, NEW c, NEW k, VersionsOf(b, k) = VersionsOf(c, k)
    PROVE  CurrentOf(b, k) = CurrentOf(c, k)
  BY DEF CurrentOf

-----------------------------------------------------------------------------
(* Chains of folders *)

\* The folders above a key are before it, and the innermost is the last of them.
LEMMA ChainFacts ==
    ASSUME NEW k \in Keys
    PROVE  /\ Chain(k) \subseteq Nat /\ Root \in Chain(k)
           /\ Home(k) \in Chain(k) /\ \A q \in Chain(k) : q <= Home(k) /\ q <= k
<1>1. /\ Chain(k) \subseteq Nat /\ Root \in Chain(k) /\ k \in Nat
      /\ \A q \in Chain(k) : q <= k
  <2>1. k \in Nat /\ Root \in Nat /\ Root <= k /\ \A f \in Folders : f \in Nat /\ (k \in Under[f] => f <= k)
    BY PathAssumption DEF Root
  <2> QED
    BY <2>1 DEF Chain
<1> DEFINE Q == {k - q : q \in Chain(k)}
<1>2. Q \subseteq Nat /\ Q # {}
  BY <1>1
<1>3. \E i \in Q : \A j \in Q : i <= j
  <2> HIDE DEF Q
  <2> QED  BY <1>2, LeastOf
<1>4. PICK p \in Chain(k) : \A q \in Chain(k) : k - p <= k - q
  BY <1>3
<1>5. \A q \in Chain(k) : q <= p
  BY <1>1, <1>4
<1> QED
  BY <1>1, <1>5 DEF Home

\* The folders between a folder and a key.
Between(p, k) == {f \in Folders \ {p} : k \in Under[f] /\ (p = Root \/ f \in Under[p])}

\* The child of a folder on the way to a key is the outermost folder between them, or the key.
LEMMA ChildFacts ==
    ASSUME NEW p \in {Root} \cup Folders, NEW k \in Nat
    PROVE  /\ Between(p, k) = {} => Child(p, k) = k
           /\ Between(p, k) # {} => /\ Child(p, k) \in Between(p, k)
                                    /\ \A f \in Between(p, k) : Child(p, k) <= f
<1>1. Between(p, k) \subseteq Nat
  BY PathAssumption DEF Between
<1>2. Child(p, k) = IF Between(p, k) = {} THEN k ELSE Least(Between(p, k))
  BY DEF Child, Between
<1>3. ASSUME Between(p, k) # {}
      PROVE  Least(Between(p, k)) \in Between(p, k) /\ \A f \in Between(p, k) : Least(Between(p, k)) <= f
  <2>1. \E i \in Between(p, k) : \A j \in Between(p, k) : i <= j
    BY <1>1, <1>3, LeastOf
  <2> QED
    BY <2>1 DEF Least
<1> QED
  BY <1>2, <1>3

\* The innermost folder of a key has the key itself as child, and nothing else
\* below it has that name.
LEMMA HomeHasKey ==
    ASSUME NEW k \in Keys
    PROVE  /\ Child(Home(k), k) = k
           /\ \A x \in Keys : Home(k) \in Chain(x) /\ Child(Home(k), x) = k => x = k
<1> DEFINE p == Home(k)
<1>1. p \in Chain(k) /\ p \in {Root} \cup Folders /\ \A q \in Chain(k) : q <= p
  BY ChainFacts DEF Chain
<1>2. /\ Keys \subseteq Nat /\ Folders \subseteq Nat /\ k # Root /\ Root = 0 /\ p \in Nat
      /\ \A f \in Folders : \A q \in Under[f] : f <= q
  BY <1>1, PathAssumption, ChainFacts DEF Root
<1> SUFFICES Child(p, k) = k /\ \A x \in Keys : p \in Chain(x) /\ Child(p, x) = k => x = k
  OBVIOUS
<1> HIDE DEF p
<1>3. Between(p, k) = {}
  <2> SUFFICES ASSUME NEW f \in Between(p, k) PROVE FALSE
    OBVIOUS
  <2>1. f \in Folders /\ f # p /\ k \in Under[f] /\ (p = Root \/ f \in Under[p])
    BY DEF Between
  <2>2. f \in Chain(k) /\ f <= p
    BY <1>1, <2>1 DEF Chain
  <2>3. p <= f
    BY <1>1, <1>2, <2>1
  <2> QED
    BY <1>1, <1>2, <2>1, <2>2, <2>3
<1>4. Child(p, k) = k
  BY <1>1, <1>2, <1>3, ChildFacts
<1>5. ASSUME NEW x \in Keys, p \in Chain(x), Child(p, x) = k, x # k PROVE FALSE
  <2>1. Between(p, x) # {} /\ k \in Between(p, x)
    BY <1>1, <1>2, <1>5, ChildFacts
  <2>2. k \in Folders /\ k # p /\ (p = Root \/ k \in Under[p]) /\ k \in Under[k]
    BY <2>1, PathAssumption DEF Between
  <2>3. k \in Chain(k) /\ k <= p
    BY <1>1, <2>2 DEF Chain
  <2>4. p <= k
    BY <1>1, <1>2, <2>2
  <2> QED
    BY <1>1, <1>2, <2>2, <2>3, <2>4
<1> QED
  BY <1>4, <1>5

\* Above the innermost folder the child is a folder of the chain; a key below
\* has that child exactly when it is below that folder.
LEMMA OuterHasFolder ==
    ASSUME NEW k \in Keys, NEW p \in Chain(k), p # Home(k)
    PROVE  /\ Child(p, k) \in Chain(k) \ {Root} /\ Child(p, k) \in Folders
           /\ p = Root \/ Child(p, k) \in Under[p]
           /\ \A x \in Keys : p \in Chain(x) => (Child(p, x) = Child(p, k) <=> x \in Under[Child(p, k)])
<1> DEFINE c == Child(p, k)
           h == Home(k)
<1>1. h \in Chain(k) /\ h # p /\ p <= h /\ p \in {Root} \cup Folders
  BY ChainFacts DEF Chain
<1>2. Keys \subseteq Nat /\ Folders \subseteq Nat \ {0} /\ Root = 0 /\ p \in Nat /\ h \in Nat
  BY <1>1, PathAssumption, ChainFacts DEF Root
<1>3. h \in Folders /\ k \in Under[h]
  BY <1>1, <1>2 DEF Chain
<1>4. p = Root \/ h \in Under[p]
  <2> SUFFICES ASSUME p # Root PROVE h \in Under[p]
    OBVIOUS
  <2>1. p \in Folders /\ k \in Under[p] /\ h <= k
    BY <1>3, PathAssumption DEF Chain
  <2>2. h \in p .. k /\ p .. k \subseteq Under[p]
    BY <1>1, <1>2, <2>1, PathAssumption
  <2> QED
    BY <2>2
<1>5. h \in Between(p, k)
  BY <1>1, <1>3, <1>4 DEF Between
<1>6. c \in Between(p, k) /\ \A f \in Between(p, k) : c <= f
  BY <1>1, <1>2, <1>5, ChildFacts
<1>7. c \in Folders /\ c # p /\ k \in Under[c] /\ (p = Root \/ c \in Under[p]) /\ c \in Nat /\ c # Root
  BY <1>2, <1>6 DEF Between
<1>8. c \in Chain(k) \ {Root}
  BY <1>7 DEF Chain
<1> HIDE DEF c, h
<1>9. ASSUME NEW x \in Keys, p \in Chain(x), Child(p, x) = c PROVE x \in Under[c]
  <2>1. CASE Between(p, x) = {}
    <3>1. x = c
      BY <1>1, <1>2, <1>9, <2>1, ChildFacts
    <3> QED
      BY <1>7, <3>1, PathAssumption
  <2>2. CASE Between(p, x) # {}
    <3>1. c \in Between(p, x)
      BY <1>1, <1>2, <1>9, <2>2, ChildFacts
    <3> QED
      BY <3>1 DEF Between
  <2> QED
    BY <2>1, <2>2
<1>10. ASSUME NEW x \in Keys, p \in Chain(x), x \in Under[c] PROVE Child(p, x) = c
  <2> DEFINE d == Child(p, x)
  <2>1. c \in Between(p, x)
    BY <1>7, <1>10 DEF Between
  <2>2. d \in Between(p, x) /\ d <= c
    BY <1>1, <1>2, <2>1, ChildFacts
  <2>3. d \in Folders /\ d # p /\ x \in Under[d] /\ (p = Root \/ d \in Under[p]) /\ d \in Nat
    BY <1>2, <2>2 DEF Between
  <2> HIDE DEF d
  <2>4. c <= x /\ x \in Nat
    BY <1>7, <1>10, PathAssumption
  <2>5. c \in d .. x /\ d .. x \subseteq Under[d]
    BY <1>7, <2>2, <2>3, <2>4, PathAssumption
  <2>6. k \in Under[d]
    BY <1>7, <2>3, <2>5, PathAssumption
  <2>7. d \in Between(p, k)
    BY <2>3, <2>6 DEF Between
  <2>8. c <= d
    BY <1>6, <2>7
  <2> QED
    BY <1>7, <2>2, <2>3, <2>8 DEF d
<1> QED
  BY <1>7, <1>8, <1>9, <1>10 DEF c

-----------------------------------------------------------------------------
(* Insertion and removal of a key *)

Shape(b) ==
    /\ b = [versions |-> b.versions, uploads |-> b.uploads, objects |-> b.objects, children |-> b.children]
    /\ DOMAIN b.children = {Root} \cup Folders

\* Insertion adds the key to the children of every folder above it.
LEMMA IndexedIsExact ==
    ASSUME NEW b, Shape(b), NEW k \in Keys,
           \A p \in {Root} \cup Folders : b.children[p] = ChildrenOf(b.objects, p)
    PROVE  /\ Shape(Indexed(b, k)) /\ Indexed(b, k).versions = b.versions
           /\ Indexed(b, k).uploads = b.uploads /\ Indexed(b, k).objects = b.objects \cup {k}
           /\ \A p \in {Root} \cup Folders :
                 Indexed(b, k).children[p] = ChildrenOf(b.objects \cup {k}, p)
<1> DEFINE c == Indexed(b, k)
           K == b.objects \cup {k}
           after == [p \in DOMAIN b.children |-> IF p \in Chain(k) THEN b.children[p] \cup {Child(p, k)} ELSE b.children[p]]
<1>1. c = [b EXCEPT !.objects = K, !.children = after]
  BY DEF Indexed
<1> HIDE DEF after, K
<1>2. c = [versions |-> b.versions, uploads |-> b.uploads, objects |-> K, children |-> after]
  BY <1>1 DEF Shape
<1>3. DOMAIN after = {Root} \cup Folders
  BY DEF after, Shape
<1>4. ASSUME NEW p \in {Root} \cup Folders PROVE after[p] = ChildrenOf(K, p)
  <2>1. b.children[p] = ChildrenOf(b.objects, p) /\ p \in DOMAIN b.children
    BY DEF Shape
  <2>2. after[p] = IF p \in Chain(k) THEN b.children[p] \cup {Child(p, k)} ELSE b.children[p]
    BY <2>1 DEF after
  <2> QED
    BY <2>1, <2>2 DEF ChildrenOf, K
<1> HIDE DEF c
<1>5. /\ Shape(c) /\ c.versions = b.versions /\ c.uploads = b.uploads /\ c.objects = K
      /\ c.children = after
  BY <1>2, <1>3 DEF Shape
<1> QED
  BY <1>4, <1>5 DEF c, K

\* Removal takes away exactly the children that no other key calls for.
LEMMA UnindexedIsExact ==
    ASSUME NEW b, Shape(b), NEW k \in Keys, b.objects \in SUBSET Keys, NEW K, K = b.objects \ {k},
           \A p \in {Root} \cup Folders : b.children[p] = ChildrenOf(b.objects, p)
    PROVE  /\ Shape(Unindexed(b, k)) /\ Unindexed(b, k).versions = b.versions
           /\ Unindexed(b, k).uploads = b.uploads /\ Unindexed(b, k).objects = K
           /\ \A p \in {Root} \cup Folders :
                 Unindexed(b, k).children[p] = ChildrenOf(K, p)
<1>1. CASE k \notin b.objects
  <2>1. Unindexed(b, k) = b /\ K = b.objects
    BY <1>1 DEF Unindexed
  <2> QED
    BY <2>1
<1>2. CASE k \in b.objects
  <2> DEFINE c == Unindexed(b, k)
             gone == Vacant(K, k)
             after == [p \in DOMAIN b.children |->
                          IF p \in gone THEN {}
                          ELSE IF p = Home(k) THEN b.children[p] \ {k}
                          ELSE IF p \in Chain(k) THEN b.children[p] \ ({Child(p, k)} \cap gone)
                          ELSE b.children[p]]
  <2>1. c = [b EXCEPT !.objects = K, !.children = after]
    BY <1>2 DEF Unindexed
  <2> HIDE DEF after, gone
  <2>2. c = [versions |-> b.versions, uploads |-> b.uploads, objects |-> K, children |-> after]
    BY <2>1 DEF Shape
  <2>3. DOMAIN after = {Root} \cup Folders
    BY DEF after, Shape
  <2>4. K \subseteq Keys /\ b.objects = K \cup {k} /\ k \notin K
    BY <1>2
  <2>5. ASSUME NEW p \in {Root} \cup Folders PROVE after[p] = ChildrenOf(K, p)
    <3>1. b.children[p] = ChildrenOf(b.objects, p) /\ p \in DOMAIN b.children
      BY DEF Shape
    <3>2. after[p] = IF p \in gone THEN {}
                     ELSE IF p = Home(k) THEN b.children[p] \ {k}
                     ELSE IF p \in Chain(k) THEN b.children[p] \ ({Child(p, k)} \cap gone)
                     ELSE b.children[p]
      BY <3>1 DEF after
    <3>3. \A x \in Keys : p \in Chain(x) <=> p = Root \/ x \in Under[p]
      BY DEF Chain
    <3>4. gone = {f \in Chain(k) \ {Root} : K \cap Under[f] = {}}
      BY DEF gone, Vacant
    <3>5. CASE p \in gone
      <4>1. \A x \in K : p \notin Chain(x)
        BY <2>4, <3>3, <3>4, <3>5
      <4> QED
        BY <3>2, <3>5, <4>1 DEF ChildrenOf
    <3>6. CASE p \notin gone /\ p = Home(k)
      <4>1. p \in Chain(k) /\ Child(p, k) = k /\ \A x \in Keys : p \in Chain(x) /\ Child(p, x) = k => x = k
        BY <3>6, HomeHasKey, ChainFacts
      <4>2. b.children[p] = ChildrenOf(K, p) \cup {k}
        BY <2>4, <3>1, <4>1 DEF ChildrenOf
      <4>3. k \notin ChildrenOf(K, p)
        BY <2>4, <4>1 DEF ChildrenOf
      <4> QED
        BY <3>2, <3>6, <4>2, <4>3
    <3>7. CASE p \notin gone /\ p # Home(k) /\ p \in Chain(k)
      <4> DEFINE d == Child(p, k)
      <4>1. /\ d \in Chain(k) \ {Root} /\ d \in Folders /\ (p = Root \/ d \in Under[p])
            /\ \A x \in Keys : p \in Chain(x) => (Child(p, x) = d <=> x \in Under[d])
        BY <3>7, OuterHasFolder
      <4>2. b.children[p] = ChildrenOf(K, p) \cup {d}
        BY <2>4, <3>1, <3>7 DEF ChildrenOf
      <4>3. after[p] = b.children[p] \ ({d} \cap gone)
        BY <3>2, <3>7
      <4> HIDE DEF d
      <4>4. CASE d \in gone
        <5>1. K \cap Under[d] = {}
          BY <3>4, <4>4
        <5>2. d \notin ChildrenOf(K, p)
          BY <2>4, <4>1, <5>1 DEF ChildrenOf
        <5> QED
          BY <4>2, <4>3, <4>4, <5>2
      <4>5. CASE d \notin gone
        <5>1. PICK x \in K : x \in Under[d]
          BY <3>4, <4>1, <4>5
        <5>2. p \in Chain(x)
          <6>1. CASE p = Root
            BY <2>4, <3>3, <6>1
          <6>2. CASE p # Root
            <7>1. p \in Folders /\ k \in Under[p] /\ k \in Under[d]
              BY <3>3, <3>7, <4>1, <6>2 DEF Chain
            <7>2. d \in Under[p]
              BY <4>1, <6>2
            <7>3. Under[d] \subseteq Under[p]
              BY <4>1, <7>1, <7>2, PathAssumption
            <7> QED
              BY <2>4, <3>3, <5>1, <7>3
          <6> QED
            BY <6>1, <6>2
        <5>3. d \in ChildrenOf(K, p)
          BY <2>4, <4>1, <5>1, <5>2 DEF ChildrenOf
        <5> QED
          BY <4>2, <4>3, <4>5, <5>3
      <4> QED
        BY <4>4, <4>5
    <3>8. CASE p \notin gone /\ p # Home(k) /\ p \notin Chain(k)
      <4>1. b.children[p] = ChildrenOf(K, p)
        BY <2>4, <3>1, <3>8 DEF ChildrenOf
      <4> QED
        BY <3>2, <3>8, <4>1
    <3> QED
      BY <3>5, <3>6, <3>7, <3>8
  <2> HIDE DEF c
  <2>6. /\ Shape(c) /\ c.versions = b.versions /\ c.uploads = b.uploads /\ c.objects = K
        /\ c.children = after
    BY <2>2, <2>3 DEF Shape
  <2> QED
    BY <2>5, <2>6 DEF c
<1> QED
  BY <1>1, <1>2

-----------------------------------------------------------------------------
(* Writes *)

\* The bucket with other versions.
Reversioned(b, V) == [b EXCEPT !.versions = V]

\* Once the versions of one key have changed, inserting or removing that key,
\* as it has a current object or not, brings the index up to date.
LEMMA IndexFollows ==
    ASSUME NEW b, NEW t \in Nat, BucketOK(b, t), IndexOK(b), NEW k \in Keys,
           NEW V \in SUBSET VersionSet, IsFiniteSet(V), \A v \in V : v.stamp < t + 1,
           \A v, w \in V : v.key = w.key /\ v.stamp = w.stamp => v = w,
           \A v \in V \cup b.versions : v.key # k => (v \in V <=> v \in b.versions),
           NEW c, c = IF CurrentOf(Reversioned(b, V), k) = {} THEN Unindexed(Reversioned(b, V), k)
                                                             ELSE Indexed(Reversioned(b, V), k)
    PROVE  BucketOK(c, t + 1) /\ IndexOK(c) /\ c.versions = V /\ c.uploads = b.uploads
<1> DEFINE left == Reversioned(b, V)
<1>1. /\ Shape(left) /\ left.versions = V /\ left.uploads = b.uploads
      /\ left.objects = b.objects /\ left.children = b.children
  BY DEF BucketOK, Shape, Reversioned
<1>2. /\ b.objects \subseteq Keys /\ b.uploads \subseteq Pairs /\ IsFiniteSet(b.uploads)
      /\ b.objects = LiveKeys(b)
      /\ \A p \in {Root} \cup Folders : b.children[p] = ChildrenOf(b.objects, p)
  BY DEF BucketOK, IndexOK
<1>2a. /\ left.objects \in SUBSET Keys
       /\ \A p \in {Root} \cup Folders : left.children[p] = ChildrenOf(left.objects, p)
  BY <1>1, <1>2
<1> HIDE DEF left
<1>3. CASE CurrentOf(left, k) # {}
  <2>0. c = Indexed(left, k)
    BY <1>3 DEF left
  <2>a. /\ Shape(Indexed(left, k)) /\ Indexed(left, k).versions = left.versions
        /\ Indexed(left, k).uploads = left.uploads /\ Indexed(left, k).objects = left.objects \cup {k}
        /\ \A p \in {Root} \cup Folders : Indexed(left, k).children[p] = ChildrenOf(left.objects \cup {k}, p)
    BY <1>1, <1>2a, IndexedIsExact
  <2>1. /\ Shape(c) /\ c.versions = V /\ c.uploads = b.uploads /\ c.objects = b.objects \cup {k}
        /\ \A p \in {Root} \cup Folders : c.children[p] = ChildrenOf(b.objects \cup {k}, p)
    BY <1>1, <2>0, <2>a
  <2>2. \A x \in Keys : CurrentOf(c, x) = CurrentOf(left, x)
    BY <1>1, <2>1, CurrentElsewhere DEF VersionsOf
  <2>3. \A x \in Keys \ {k} : CurrentOf(c, x) = CurrentOf(b, x)
    BY <2>1, CurrentElsewhere DEF VersionsOf
  <2>4. c.objects = LiveKeys(c)
    BY <1>2, <1>3, <2>1, <2>2, <2>3 DEF LiveKeys
  <2> QED
    BY <1>2, <2>1, <2>4 DEF BucketOK, IndexOK, Shape
<1>4. CASE CurrentOf(left, k) = {}
  <2>0. c = Unindexed(left, k)
    BY <1>4 DEF left
  <2> DEFINE K == left.objects \ {k}
  <2>a. K = left.objects \ {k} /\ K = b.objects \ {k}
    BY <1>1
  <2> HIDE DEF K
  <2>b. /\ Shape(Unindexed(left, k)) /\ Unindexed(left, k).versions = left.versions
        /\ Unindexed(left, k).uploads = left.uploads /\ Unindexed(left, k).objects = K
        /\ \A p \in {Root} \cup Folders : Unindexed(left, k).children[p] = ChildrenOf(K, p)
    BY <1>1, <1>2a, <2>a, UnindexedIsExact
  <2>1. /\ Shape(c) /\ c.versions = V /\ c.uploads = b.uploads /\ c.objects = K
        /\ \A p \in {Root} \cup Folders : c.children[p] = ChildrenOf(K, p)
    BY <1>1, <2>0, <2>b
  <2>2. \A x \in Keys : CurrentOf(c, x) = CurrentOf(left, x)
    BY <1>1, <2>1, CurrentElsewhere DEF VersionsOf
  <2>3. \A x \in Keys \ {k} : CurrentOf(c, x) = CurrentOf(b, x)
    BY <2>1, CurrentElsewhere DEF VersionsOf
  <2>4. c.objects = LiveKeys(c)
    BY <1>2, <1>4, <2>a, <2>1, <2>2, <2>3 DEF LiveKeys
  <2> QED
    BY <1>2, <2>a, <2>1, <2>4 DEF BucketOK, IndexOK, Shape
<1> QED
  BY <1>3, <1>4

\* A version that is added with the present stamp is the newest of its key.
LEMMA AddedIsCurrent ==
    ASSUME NEW b, NEW t \in Nat, BucketOK(b, t), NEW k \in Keys, NEW n \in VersionSet,
           n.key = k, n.stamp = t, NEW V, V = b.versions \cup {n}
    PROVE      /\ V \in SUBSET VersionSet /\ IsFiniteSet(V) /\ \A v \in V : v.stamp < t + 1
               /\ \A v, w \in V : v.key = w.key /\ v.stamp = w.stamp => v = w
               /\ \A v \in V \cup b.versions : v.key # k => (v \in V <=> v \in b.versions)
               /\ CurrentOf(Reversioned(b, V), k) = IF n.live THEN {n} ELSE {}
<1> DEFINE left == Reversioned(b, V)
           W == VersionsOf(left, k)
<1>1. /\ b.versions \subseteq VersionSet /\ IsFiniteSet(b.versions) /\ \A v \in b.versions : v.stamp < t
      /\ \A v, w \in b.versions : v.key = w.key /\ v.stamp = w.stamp => v = w
  BY DEF BucketOK
<1>2. V \in SUBSET VersionSet /\ IsFiniteSet(V)
  BY <1>1, FS_AddElement
<1>3. \A v \in V : v.stamp \in Nat /\ v.stamp < t + 1 /\ (v.stamp = t => v = n)
  BY <1>1 DEF VersionSet
<1>4. \A v, w \in V : v.key = w.key /\ v.stamp = w.stamp => v = w
  BY <1>1, <1>3
<1>5. left.versions = V
  BY DEF BucketOK, Reversioned
<1>6. W \in SUBSET VersionSet /\ W \subseteq V /\ n \in W
  BY <1>2, <1>5 DEF VersionsOf
<1>7. Newest(W) \in W /\ \A w \in W : w.stamp <= Newest(W).stamp
  <2>1. \A w \in W : w.stamp < t + 1
    <3> HIDE DEF W, left
    <3> QED  BY <1>3, <1>6
  <2> HIDE DEF W, left
  <2> QED  BY <1>6, <2>1, NewestIsThere
<1>8. Newest(W) = n
  <2>1. Newest(W) \in V /\ n.stamp <= Newest(W).stamp
    BY <1>6, <1>7
  <2> QED
    BY <1>3, <2>1
<1>9. CurrentOf(left, k) = IF n.live THEN {n} ELSE {}
  <2>1. CurrentOf(left, k) = {v \in {n} : v.live}
    BY <1>6, <1>8 DEF CurrentOf
  <2> QED
    BY <2>1
<1>10. \A v \in V \cup b.versions : v.key # k => (v \in V <=> v \in b.versions)
  OBVIOUS
<1> QED
  BY <1>2, <1>3, <1>4, <1>9, <1>10

\* What every write keeps: the bucket and its index, and a version that is
\* there afterwards was there or has the present stamp.
Kept(b, c, t) ==
    /\ BucketOK(c, t + 1) /\ IndexOK(c)
    /\ \A v \in c.versions : v \in b.versions \/ v.stamp = t

\* A put inserts the key.
LEMMA PutKeeps ==
    ASSUME NEW b, NEW t \in Nat, BucketOK(b, t), IndexOK(b), NEW k \in Keys, NEW bytes \in Bodies
    PROVE  Kept(b, WithPut(b, k, t, bytes), t) /\ b.versions \subseteq WithPut(b, k, t, bytes).versions
<1> DEFINE n == Version(k, t, TRUE, bytes)
           V == b.versions \cup {n}
           c == WithPut(b, k, t, bytes)
<1>1. n \in VersionSet /\ n.key = k /\ n.stamp = t /\ n.live
  BY DEF Version, VersionSet
<1>2. c = Indexed(Reversioned(b, V), k)
  BY DEF WithPut, Reversioned
<1> HIDE DEF n, c
<1>3. /\ V \in SUBSET VersionSet /\ IsFiniteSet(V) /\ \A v \in V : v.stamp < t + 1
      /\ \A v, w \in V : v.key = w.key /\ v.stamp = w.stamp => v = w
      /\ \A v \in V \cup b.versions : v.key # k => (v \in V <=> v \in b.versions)
      /\ CurrentOf(Reversioned(b, V), k) = {n}
  <2>1. V = b.versions \cup {n}
    OBVIOUS
  <2> HIDE DEF V
  <2> QED  BY <1>1, <2>1, AddedIsCurrent
<1>4. \A v \in V : v \in b.versions \/ v.stamp = t
  BY <1>1
<1>5. b.versions \subseteq V
  OBVIOUS
<1> HIDE DEF V
<1>6. c = IF CurrentOf(Reversioned(b, V), k) = {} THEN Unindexed(Reversioned(b, V), k) ELSE Indexed(Reversioned(b, V), k)
  BY <1>2, <1>3
<1>7. BucketOK(c, t + 1) /\ IndexOK(c) /\ c.versions = V
  BY <1>3, <1>6, IndexFollows
<1> QED
  BY <1>4, <1>5, <1>7 DEF Kept, c

\* A delete marker takes it out.
LEMMA MarkerKeeps ==
    ASSUME NEW b, NEW t \in Nat, BucketOK(b, t), IndexOK(b), NEW k \in Keys
    PROVE  Kept(b, WithMarker(b, k, t), t) /\ b.versions \subseteq WithMarker(b, k, t).versions
<1> DEFINE n == Version(k, t, FALSE, <<>>)
           V == b.versions \cup {n}
           c == WithMarker(b, k, t)
<1>1. n \in VersionSet /\ n.key = k /\ n.stamp = t /\ ~n.live
  BY DEF Version, VersionSet
<1>2. c = Unindexed(Reversioned(b, V), k)
  BY DEF WithMarker, Reversioned
<1> HIDE DEF n, c
<1>3. /\ V \in SUBSET VersionSet /\ IsFiniteSet(V) /\ \A v \in V : v.stamp < t + 1
      /\ \A v, w \in V : v.key = w.key /\ v.stamp = w.stamp => v = w
      /\ \A v \in V \cup b.versions : v.key # k => (v \in V <=> v \in b.versions)
      /\ CurrentOf(Reversioned(b, V), k) = {}
  <2>1. V = b.versions \cup {n}
    OBVIOUS
  <2> HIDE DEF V
  <2> QED  BY <1>1, <2>1, AddedIsCurrent
<1>4. \A v \in V : v \in b.versions \/ v.stamp = t
  BY <1>1
<1>5. b.versions \subseteq V
  OBVIOUS
<1> HIDE DEF V
<1>6. c = IF CurrentOf(Reversioned(b, V), k) = {} THEN Unindexed(Reversioned(b, V), k) ELSE Indexed(Reversioned(b, V), k)
  BY <1>2, <1>3
<1>7. BucketOK(c, t + 1) /\ IndexOK(c) /\ c.versions = V
  BY <1>3, <1>6, IndexFollows
<1> QED
  BY <1>4, <1>5, <1>7 DEF Kept, c

\* The removal of a version does one or the other.
LEMMA RemovalKeeps ==
    ASSUME NEW b, NEW t \in Nat, BucketOK(b, t), IndexOK(b), NEW n \in b.versions
    PROVE  Kept(b, WithoutVersion(b, n), t)
<1> DEFINE V == b.versions \ {n}
           k == n.key
           c == WithoutVersion(b, n)
<1>1. c = IF CurrentOf(Reversioned(b, V), k) = {} THEN Unindexed(Reversioned(b, V), k) ELSE Indexed(Reversioned(b, V), k)
  BY DEF WithoutVersion, Reversioned
<1>2. /\ b.versions \subseteq VersionSet /\ IsFiniteSet(b.versions) /\ \A v \in b.versions : v.stamp < t
      /\ \A v, w \in b.versions : v.key = w.key /\ v.stamp = w.stamp => v = w
  BY DEF BucketOK
<1>3. k \in Keys
  BY <1>2 DEF VersionSet
<1>4. V \in SUBSET VersionSet /\ IsFiniteSet(V) /\ V \subseteq b.versions
  BY <1>2, FS_Subset
<1>5. \A v \in V : v.stamp < t + 1
  BY <1>2, <1>4 DEF VersionSet
<1>6. \A v \in V \cup b.versions : v.key # k => (v \in V <=> v \in b.versions)
  OBVIOUS
<1> HIDE DEF V, k, c
<1>7. BucketOK(c, t + 1) /\ IndexOK(c) /\ c.versions = V
  BY <1>1, <1>2, <1>3, <1>4, <1>5, <1>6, IndexFollows
<1> QED
  BY <1>4, <1>7 DEF Kept, c

\* Uploads leave versions and index alone.
LEMMA UploadsKeep ==
    ASSUME NEW b, NEW t \in Nat, BucketOK(b, t), IndexOK(b), NEW U \in SUBSET Pairs, IsFiniteSet(U)
    PROVE  Kept(b, [b EXCEPT !.uploads = U], t) /\ b.versions \subseteq [b EXCEPT !.uploads = U].versions
<1> DEFINE c == [b EXCEPT !.uploads = U]
<1>1. /\ c.versions = b.versions /\ c.uploads = U /\ c.objects = b.objects /\ c.children = b.children
      /\ c = [versions |-> c.versions, uploads |-> c.uploads, objects |-> c.objects, children |-> c.children]
  BY DEF BucketOK
<1>2. \A v \in b.versions : v.stamp < t + 1
  BY DEF BucketOK, VersionSet
<1> HIDE DEF c
<1>3. \A x : CurrentOf(c, x) = CurrentOf(b, x)
  BY <1>1, CurrentElsewhere DEF VersionsOf
<1>4. BucketOK(c, t + 1)
  BY <1>1, <1>2 DEF BucketOK
<1>5. IndexOK(c)
  BY <1>1, <1>3 DEF IndexOK, LiveKeys
<1> QED
  BY <1>1, <1>4, <1>5 DEF Kept, c

-----------------------------------------------------------------------------
(* Entries *)

\* The values of a function on a finite set.
LEMMA FiniteValues ==
    ASSUME NEW D, IsFiniteSet(D), NEW f, f = [x \in D |-> f[x]]
    PROVE  IsFiniteSet({f[x] : x \in D})
<1> DEFINE T == {f[x] : x \in D}
<1>1. f \in Surjection(D, T)
  BY DEF Surjection
<1> HIDE DEF T
<1>2. IsFiniteSet(T)
  BY <1>1, FS_Surjection
<1> QED
  BY <1>2 DEF T

\* Names are numbers.
LEMMA NamesAreNumbers ==
    ASSUME NEW p \in {Root} \cup Folders, NEW k \in Keys
    PROVE  Child(p, k) \in Nat
<1>1. k \in Nat /\ Between(p, k) \subseteq Nat
  BY PathAssumption DEF Between
<1> QED
  BY <1>1, ChildFacts

\* A listing by something other than one key's versions is below a folder.
Placed(l) == l.by # "ofKey" => l.parent \in {Root} \cup Folders

\* What a listing draws from is a finite set of pairs.
LEMMA EntriesAreFinite ==
    ASSUME NEW b, NEW t \in Nat, BucketOK(b, t), IndexOK(b), NEW l,
           l.by \in {"key", "folder", "group", "search", "version", "upload", "ofKey", "recent"}, Placed(l)
    PROVE  Entries(b, l) \in SUBSET Pairs /\ IsFiniteSet(Entries(b, l))
<1>1. /\ b.versions \subseteq VersionSet /\ IsFiniteSet(b.versions) /\ b.uploads \subseteq Pairs
      /\ IsFiniteSet(b.uploads) /\ b.objects \subseteq Keys /\ IsFiniteSet(b.objects)
      /\ \A p \in {Root} \cup Folders : b.children[p] = ChildrenOf(b.objects, p)
  BY PathAssumption, FS_Subset DEF BucketOK, IndexOK
<1>2. Keys \subseteq Nat
  BY PathAssumption
<1>3. CASE l.by = "version"
  <2> DEFINE f == [v \in b.versions |-> <<v.key, -v.stamp>>]
             T == {<<v.key, -v.stamp>> : v \in b.versions}
  <2>1. T = {f[v] : v \in b.versions} /\ f = [x \in b.versions |-> f[x]]
    OBVIOUS
  <2>2. T \subseteq Pairs
    <3>1. \A v \in b.versions : v.key \in Int /\ -v.stamp \in Int
      <4> SUFFICES ASSUME NEW v \in b.versions PROVE v.key \in Int /\ -v.stamp \in Int
        OBVIOUS
      <4>1. v \in VersionSet
        BY <1>1
      <4>2. v.key \in Nat /\ v.stamp \in Nat
        BY <1>2, <4>1 DEF VersionSet
      <4> QED
        BY <4>2
    <3> QED
      BY <3>1 DEF Pairs
  <2>3. Entries(b, l) = T
    BY <1>3 DEF Entries
  <2> HIDE DEF f, T
  <2> QED
    BY <1>1, <2>1, <2>2, <2>3, FiniteValues
<1>4. CASE l.by = "upload"
  BY <1>1, <1>4 DEF Entries
<1>5. CASE l.by = "ofKey"
  <2> DEFINE V == VersionsOf(b, l.parent)
             f == [v \in V |-> <<0, -v.stamp>>]
             T == {<<0, -v.stamp>> : v \in V}
  <2>1. T = {f[v] : v \in V} /\ f = [x \in V |-> f[x]]
    OBVIOUS
  <2>2. V \subseteq b.versions /\ IsFiniteSet(V)
    BY <1>1, FS_Subset DEF VersionsOf
  <2>3. T \subseteq Pairs
    BY <1>1, <2>2 DEF Pairs, VersionSet
  <2>4. Entries(b, l) = T
    BY <1>5 DEF Entries
  <2> HIDE DEF f, T, V
  <2> QED
    BY <2>1, <2>2, <2>3, <2>4, FiniteValues
<1>6. CASE l.by = "recent"
  <2> DEFINE f == [u \in b.uploads |-> <<-u[2], u[1]>>]
             T == {<<-u[2], u[1]>> : u \in b.uploads}
  <2>1. T = {f[v] : v \in b.uploads} /\ f = [x \in b.uploads |-> f[x]]
    OBVIOUS
  <2>2. T \subseteq Pairs
    BY <1>1 DEF Pairs
  <2>3. Entries(b, l) = T
    BY <1>6 DEF Entries
  <2> HIDE DEF f, T
  <2> QED
    BY <1>1, <2>1, <2>2, <2>3, FiniteValues
<1>7. CASE l.by \in {"key", "folder", "group", "search"}
  <2> DEFINE N == ListedNames(b, l)
             f == [p \in N |-> <<p, 0>>]
             T == {<<p, 0>> : p \in N}
  <2>1. l.parent \in {Root} \cup Folders
    BY <1>7 DEF Placed
  <2>2. N \subseteq Nat /\ IsFiniteSet(N)
    <3>1. KeysBelow(b, l.parent) \subseteq b.objects /\ IsFiniteSet(KeysBelow(b, l.parent))
      BY <1>1, FS_Subset DEF KeysBelow
    <3>2. ASSUME NEW K \in SUBSET b.objects
          PROVE  {Child(l.parent, k) : k \in K} \subseteq Nat /\ IsFiniteSet({Child(l.parent, k) : k \in K})
      <4> DEFINE g == [k \in K |-> Child(l.parent, k)]
                 C == {Child(l.parent, k) : k \in K}
      <4>1. C = {g[k] : k \in K} /\ g = [k \in K |-> g[k]]
        OBVIOUS
      <4>2. C \subseteq Nat
        BY <1>1, <2>1, <3>2, NamesAreNumbers
      <4>3. IsFiniteSet(K)
        BY <1>1, <3>2, FS_Subset
      <4> HIDE DEF g, C
      <4>4. IsFiniteSet(C)
        BY <4>1, <4>3, FiniteValues
      <4> QED
        BY <4>2, <4>4 DEF C
    <3>3. CASE l.by = "key"
      BY <1>1, <1>2, <3>1, <3>3 DEF ListedNames
    <3>4. CASE l.by = "folder"
      <4> DEFINE K == {x \in b.objects : l.parent \in Chain(x)}
      <4>1. N = {Child(l.parent, k) : k \in K}
        BY <1>1, <2>1, <3>4 DEF ListedNames, ChildrenOf
      <4>2. K \in SUBSET b.objects
        OBVIOUS
      <4> HIDE DEF K, N
      <4> QED
        BY <3>2, <4>1, <4>2
    <3>5. CASE l.by = "group"
      <4> DEFINE K == KeysBelow(b, l.parent)
      <4>1. N = {Child(l.parent, k) : k \in K}
        BY <3>5 DEF ListedNames
      <4> HIDE DEF N
      <4> QED
        BY <3>1, <3>2, <4>1
    <3>6. CASE l.by = "search"
      <4>1. N \subseteq KeysBelow(b, l.parent)
        BY <3>6 DEF ListedNames
      <4> HIDE DEF N
      <4> QED
        BY <1>1, <1>2, <3>1, <4>1, FS_Subset
    <3> QED
      BY <1>7, <3>3, <3>4, <3>5, <3>6
  <2>3. T = {f[v] : v \in N} /\ f = [x \in N |-> f[x]]
    OBVIOUS
  <2>4. T \subseteq Pairs
    BY <2>2 DEF Pairs
  <2>5. Entries(b, l) = T
    BY <1>7 DEF Entries
  <2> HIDE DEF f, T, N
  <2> QED
    BY <2>2, <2>3, <2>4, <2>5, FiniteValues
<1> QED
  BY <1>3, <1>4, <1>5, <1>6, <1>7

-----------------------------------------------------------------------------
(* The listing of the client *)

\* The listing is under way as it should be, of the entries the bucket has.
ListOK(l, b) ==
    l # NoListing => l \in Listings /\ Placed(l) /\ Progress(l, Entries(b, l))

\* A listing that begins owes every entry and has returned none.
LEMMA BegunIsOK ==
    ASSUME NEW b, NEW t \in Nat, BucketOK(b, t), IndexOK(b), NEW c \in Clients, c.kind = "list", Placed(c)
    PROVE  ListOK(Begun(c, b), b)
<1> DEFINE l == Begun(c, b)
           S == Entries(b, c)
<1>1. /\ c.door \in AfterDoors \cup FromDoors \cup {"offset"}
      /\ c.by \in {"key", "folder", "group", "search", "version", "upload", "ofKey", "recent"}
      /\ c.parent \in {Root} \cup Folders \cup Keys
  BY DEF Clients, AfterDoors, FromDoors
<1>2. S \in SUBSET Pairs /\ IsFiniteSet(S)
  BY <1>1, EntriesAreFinite
<1> HIDE DEF S
<1>3. l = [door |-> c.door, by |-> c.by, parent |-> c.parent, marker |-> NoMarker, over |-> FALSE,
           got |-> {}, again |-> {}, owed |-> S, grown |-> FALSE, shrunk |-> FALSE]
  BY DEF Begun, S
<1> HIDE DEF l
<1>4. /\ l \in Listings /\ l.door = c.door /\ l.by = c.by /\ l.parent = c.parent /\ l.marker = NoMarker
      /\ ~l.over /\ l.got = {} /\ l.again = {} /\ l.owed = S
  BY <1>1, <1>2, <1>3 DEF Listings
<1>5. Entries(b, l) = S
  BY <1>4 DEF Entries, ListedNames, S
<1>6. Start(l) = 0 /\ First(0, S) = {}
  BY <1>2, <1>4, FirstIsPrefix DEF Start
<1>7. Position(l, S)
  BY <1>4, <1>6 DEF Position
<1>8. Progress(l, S)
  BY <1>4, <1>7 DEF Progress
<1>9. Placed(l)
  BY <1>4 DEF Placed
<1> QED
  BY <1>4, <1>5, <1>8, <1>9 DEF ListOK, l

\* The next page.
LEMMA ListPageKeeps ==
    ASSUME clock \in Nat, BucketOK(bucket, clock), IndexOK(bucket), ListOK(list, bucket), ListPage
    PROVE  ListOK(list', bucket)
<1> DEFINE S == Entries(bucket, list)
<1>1. list # NoListing /\ list \in Listings /\ Placed(list) /\ Progress(list, S) /\ ~list.over
  BY DEF ListPage, ListOK
<1>2. PICK n \in PageSizes : list' = Turned(list, S, PageOf(list.door, S, list.marker, n))
  BY DEF ListPage, Turned
<1>3. n \in Nat \ {0}
  BY <1>2, PathAssumption
<1>4. S \in SUBSET Pairs /\ IsFiniteSet(S)
  BY <1>1, EntriesAreFinite DEF Listings
<1>5. list'.by = list.by /\ list'.parent = list.parent
  BY <1>1, <1>2 DEF Turned, Listings
<1>6. Entries(bucket, list') = S
  BY <1>5 DEF Entries, ListedNames
<1> HIDE DEF S
<1>7. list' \in Listings /\ Progress(list', S)
  BY <1>1, <1>2, <1>3, <1>4, TurnPage
<1>8. Placed(list')
  BY <1>1, <1>5 DEF Placed
<1> QED
  BY <1>6, <1>7, <1>8 DEF ListOK

\* A write beside it.
LEMMA WriteKeepsListing ==
    ASSUME clock \in Nat, BucketOK(bucket, clock), IndexOK(bucket), ListOK(list, bucket),
           NEW b, Kept(bucket, b, clock), Write(b)
    PROVE  /\ clock' = clock + 1 /\ clock' \in Nat /\ bucket' = b
           /\ BucketOK(bucket', clock') /\ IndexOK(bucket') /\ ListOK(list', bucket')
<1>1. clock' = clock + 1 /\ clock' \in Nat /\ bucket' = b
  BY DEF Write
<1>2. BucketOK(bucket', clock') /\ IndexOK(bucket')
  BY <1>1 DEF Kept
<1>3. ListOK(list', bucket')
  <2>1. CASE list = NoListing
    BY <2>1 DEF Write, ListOK
  <2>2. CASE list # NoListing
    <3> DEFINE S == Entries(bucket, list)
               T == Entries(b, list)
    <3>1. list \in Listings /\ Placed(list) /\ Progress(list, S)
      BY <2>2 DEF ListOK
    <3>2. list' = Rewritten(list, S, T)
      BY <2>2 DEF Write, Rewritten
    <3>3. S \in SUBSET Pairs /\ IsFiniteSet(S) /\ T \in SUBSET Pairs /\ IsFiniteSet(T)
      BY <1>1, <1>2, <3>1, EntriesAreFinite DEF Listings
    <3>4. list'.by = list.by /\ list'.parent = list.parent
      BY <3>1, <3>2 DEF Rewritten, Listings
    <3>5. Entries(bucket', list') = T
      BY <1>1, <3>4 DEF Entries, ListedNames
    <3> HIDE DEF S, T
    <3>6. list' \in Listings /\ Progress(list', T)
      BY <3>1, <3>2, <3>3, WriteKeeps
    <3>7. Placed(list')
      BY <3>1, <3>4 DEF Placed
    <3> QED
      BY <3>5, <3>6, <3>7 DEF ListOK
  <2> QED
    BY <2>1, <2>2
<1> QED
  BY <1>1, <1>2, <1>3

\* The index that startup rebuilds agrees with the versions.
LEMMA RebuiltIsOK ==
    ASSUME NEW s \in Scenes
    PROVE  /\ BucketOK(Rebuilt(s.versions, s.uploads), FirstStamp)
           /\ IndexOK(Rebuilt(s.versions, s.uploads))
<1> DEFINE b0 == [versions |-> s.versions, uploads |-> s.uploads]
           keys == {k \in Keys : CurrentOf(b0, k) # {}}
           kids == [p \in {Root} \cup Folders |-> {Child(p, k) : k \in {x \in keys : p \in Chain(x)}}]
           b == Rebuilt(s.versions, s.uploads)
<1>1. b = [versions |-> s.versions, uploads |-> s.uploads, objects |-> keys, children |-> kids]
  BY DEF Rebuilt
<1>2. /\ s.versions \subseteq VersionSet /\ IsFiniteSet(s.versions) /\ IsFiniteSet(s.uploads)
      /\ \A v \in s.versions : v.stamp < FirstStamp
      /\ \A v, w \in s.versions : v.key = w.key /\ v.stamp = w.stamp => v = w
  <2> DEFINE Early == [key : Keys, stamp : 0 .. FirstStamp - 1, live : BOOLEAN, body : Bodies \cup {<<>>}]
  <2>1. /\ s.versions \subseteq Early /\ IsFiniteSet(s.versions) /\ IsFiniteSet(s.uploads)
        /\ \A v, w \in s.versions : v.key = w.key /\ v.stamp = w.stamp => v = w
    BY SceneAssumption, Zenon
  <2>2. \A v \in Early : v \in VersionSet /\ v.stamp < FirstStamp
    BY DEF VersionSet, FirstStamp
  <2> HIDE DEF Early
  <2> QED
    BY <2>1, <2>2
<1>3. s.uploads \subseteq Pairs
  <2>1. s.uploads \subseteq Keys \X (0 .. FirstStamp - 1) /\ Keys \subseteq Nat
    BY SceneAssumption, PathAssumption
  <2> QED
    BY <2>1 DEF Pairs, FirstStamp
<1>4. keys \subseteq Keys /\ DOMAIN kids = {Root} \cup Folders
  OBVIOUS
<1>5. \A p \in {Root} \cup Folders : kids[p] = ChildrenOf(keys, p)
  BY DEF ChildrenOf
<1>6. b0.versions = s.versions
  OBVIOUS
<1>7. keys = {k \in Keys : CurrentOf(b0, k) # {}}
  OBVIOUS
<1> HIDE DEF b, keys, kids, b0
<1>8. /\ b.versions = s.versions /\ b.uploads = s.uploads /\ b.objects = keys /\ b.children = kids
      /\ b = [versions |-> b.versions, uploads |-> b.uploads, objects |-> b.objects, children |-> b.children]
  BY <1>1
<1>9. \A k : CurrentOf(b, k) = CurrentOf(b0, k)
  BY <1>6, <1>8, CurrentElsewhere DEF VersionsOf
<1>10. BucketOK(b, FirstStamp)
  BY <1>2, <1>3, <1>4, <1>8 DEF BucketOK
<1>11. IndexOK(b)
  BY <1>5, <1>7, <1>8, <1>9 DEF IndexOK, LiveKeys
<1> QED
  BY <1>10, <1>11 DEF b

-----------------------------------------------------------------------------
(* The download or the revalidation of the client *)

\* What contents are made of.
Bytes == UNION {{bytes[i] : i \in DOMAIN bytes} : bytes \in Bodies}

DoorNames == {"s3", "azure", "gcs", "oci"}
DownloadDoors == DoorNames \cup {"gcsXml"}

DownloadSet ==
    [phase : {"ready", "admitted", "done", "failed"}, door : DownloadDoors, pinning : BOOLEAN,
     pin : {Unpinned} \cup [pinned : {TRUE}, version : VersionSet], have : Seq(Bytes), asked : Nat]

RevalidationSet ==
    [phase : {"cached", "unchanged", "replaced", "failed"}, door : DoorNames,
     headers : {"etag", "date", "both"}, copy : VersionSet, answer : VersionSet, rewound : BOOLEAN]

\* A version that was current: no other version of the target has or gets its stamp.
Known(v, b, t) ==
    /\ v \in VersionSet /\ v.key = Target /\ v.stamp < t
    /\ \A w \in b.versions : w.key = Target /\ w.stamp = v.stamp => w = v

\* What is downloaded under a pin is the beginning of what the pin names.
DownloadOK(g, b, t) ==
    /\ g.pin.pinned =>
          /\ Len(g.have) <= Len(Content(g.pin.version))
          /\ g.have = SubSeq(Content(g.pin.version), 1, Len(g.have))
          /\ g.phase = "done" => g.have = Content(g.pin.version)
          /\ Known(g.pin.version, b, t)
    /\ g.pinning /\ ~g.pin.pinned => g.have = <<>>

\* A copy is of a version that is still there unless a version was removed.
RevalidationOK(g, b, t) ==
    /\ Known(g.copy, b, t)
    /\ g.phase = "cached" /\ ~g.rewound => g.copy \in b.versions
    /\ g.phase = "unchanged" =>
          \/ Content(g.copy) = Content(g.answer)
          \/ g.headers # "etag" /\ g.rewound
          \/ g.headers = "date" /\ g.door = "azure"

GetOK(g, b, t) ==
    \/ g = NoGet
    \/ g \in DownloadSet /\ DownloadOK(g, b, t)
    \/ g \in RevalidationSet /\ RevalidationOK(g, b, t)

\* Contents are sequences.
LEMMA ContentsAreSequences ==
    ASSUME NEW v \in VersionSet
    PROVE  Content(v) \in Seq(Bytes) /\ Len(Content(v)) \in Nat
<1>1. \A bytes \in Bodies : bytes \in Seq(Bytes)
  <2> SUFFICES ASSUME NEW bytes \in Bodies PROVE bytes \in Seq(Bytes)
    OBVIOUS
  <2>1. bytes \in Seq({bytes[i] : i \in DOMAIN bytes}) /\ {bytes[i] : i \in DOMAIN bytes} \subseteq Bytes
    BY PathAssumption DEF Bytes
  <2>2. DOMAIN bytes = 1 .. Len(bytes) /\ Len(bytes) \in Nat /\ \A i \in 1 .. Len(bytes) : bytes[i] \in Bytes
    BY <2>1
  <2>3. bytes = [i \in 1 .. Len(bytes) |-> bytes[i]]
    BY <2>1
  <2> QED
    BY <2>2, <2>3
<1>2. v.body \in Bodies \cup {<<>>}
  BY DEF VersionSet
<1>3. <<>> \in Seq(Bytes)
  OBVIOUS
<1>4. v.body \in Seq(Bytes)
  BY <1>1, <1>2, <1>3
<1> QED
  BY <1>4 DEF Content

\* A range takes the bytes from where the download stands.
LEMMA TakenExtends ==
    ASSUME NEW v \in VersionSet, NEW start \in Nat, NEW n \in Nat, Satisfiable(v, start)
    PROVE  /\ Taken(v, start, n) \in Seq(Bytes)
           /\ \E m \in start .. Len(Content(v)) :
                 Taken(v, start, n) = SubSeq(Content(v), start + 1, m)
<1> DEFINE C == Content(v)
           size == Len(C)
           m == IF start + n <= size THEN start + n ELSE size
<1>1. C \in Seq(Bytes) /\ size \in Nat /\ start < size
  BY ContentsAreSequences DEF Satisfiable
<1> HIDE DEF C
<1>2. m \in start .. size /\ m \in Int
  BY <1>1
<1>3. Taken(v, start, n) = SubSeq(C, start + 1, start + Cardinality(start + 1 .. m))
  BY DEF Taken, Selected, C
<1> HIDE DEF m, size
<1>4. Cardinality(start + 1 .. m) = m - start
  <2>1. start + 1 \in Int
    OBVIOUS
  <2>2. Cardinality(start + 1 .. m) = IF start + 1 > m THEN 0 ELSE m - (start + 1) + 1
    BY <1>2, <2>1, FS_Interval
  <2> QED
    BY <1>1, <1>2, <2>2
<1>5. Taken(v, start, n) = SubSeq(C, start + 1, m)
  BY <1>2, <1>3, <1>4
<1>6. SubSeq(C, start + 1, m) \in Seq(Bytes)
  <2>1. \A i \in start + 1 .. m : C[i] \in Bytes
    BY <1>1, <1>2 DEF size
  <2> QED
    BY <1>2, <2>1, SubSeqProperties
<1> QED
  BY <1>2, <1>5, <1>6 DEF C, size

\* A download that begins with a content goes on with it.
LEMMA PrefixGrows ==
    ASSUME NEW C \in Seq(Bytes), NEW have \in Seq(Bytes), Len(have) <= Len(C),
           have = SubSeq(C, 1, Len(have)), NEW m \in Len(have) .. Len(C),
           NEW more, more = have \o SubSeq(C, Len(have) + 1, m)
    PROVE  /\ more = SubSeq(C, 1, m) /\ Len(more) = m
           /\ Len(more) <= Len(C) /\ more = SubSeq(C, 1, Len(more))
           /\ Len(more) = Len(C) => more = C
<1>1. Len(C) \in Nat /\ Len(have) \in Nat /\ m \in Nat
  OBVIOUS
<1>2. SubSeq(C, 1, Len(have)) \o SubSeq(C, Len(have) + 1, m) = SubSeq(C, 1, m)
  <2>1. 1 \in 1 .. Len(C) + 1 /\ Len(have) \in 1 - 1 .. Len(C) /\ m \in Len(have) .. Len(C)
    BY <1>1
  <2> QED
    BY <2>1, ConcatAdjacentSubSeq
<1>3. more = SubSeq(C, 1, m)
  BY <1>2
<1>4. Len(SubSeq(C, 1, m)) = m
  <2>1. \A i \in 1 .. m : C[i] \in Bytes
    BY <1>1
  <2> QED
    BY <1>1, <2>1, SubSeqProperties
<1>5. SubSeq(C, 1, Len(C)) = C
  BY SubSeqFull
<1>6. more = SubSeq(C, 1, m) /\ Len(more) = m
  BY <1>3, <1>4
<1>7. m = Len(C) => more = C
  BY <1>5, <1>6
<1>8. Len(more) <= Len(C)
  <2>1. m <= Len(C)
    BY <1>1
  <2>2. Len(more) = m
    BY <1>6
  <2> QED
    BY ONLY <2>1, <2>2
<1>9. more = SubSeq(C, 1, Len(more))
  BY <1>6
<1>10. Len(more) = Len(C) => more = C
  BY <1>6, <1>7
<1> QED
  BY <1>6, <1>8, <1>9, <1>10

\* The current object of the target is known.
LEMMA CurrentIsKnown ==
    ASSUME NEW b, NEW t \in Nat, BucketOK(b, t), NEW v \in CurrentOf(b, Target)
    PROVE  /\ Known(v, b, t) /\ CurrentOf(b, Target) = {v} /\ v \in b.versions
           /\ \A w \in b.versions : w.key = Target => w.stamp <= v.stamp
<1>1. /\ b.versions \subseteq VersionSet /\ \A w \in b.versions : w.stamp < t
      /\ \A u, w \in b.versions : u.key = w.key /\ u.stamp = w.stamp => u = w
  BY DEF BucketOK
<1>2. /\ v \in b.versions /\ v.key = Target /\ CurrentOf(b, Target) = {v}
      /\ \A w \in b.versions : w.key = Target => w.stamp <= v.stamp
  BY <1>1, CurrentIsNewest
<1> QED
  BY <1>1, <1>2 DEF Known

\* Writes leave what is known known.
LEMMA KnownStays ==
    ASSUME NEW b, NEW c, NEW t \in Nat, Kept(b, c, t), NEW v, Known(v, b, t)
    PROVE  Known(v, c, t + 1)
<1>1. v.stamp \in Nat /\ v.stamp < t
  BY DEF Known, VersionSet
<1> QED
  BY <1>1 DEF Known, Kept

\* So the client's progress stays as it is, unless its copy may be gone.
LEMMA GetStays ==
    ASSUME NEW b, NEW c, NEW t \in Nat, Kept(b, c, t), NEW g, GetOK(g, b, t),
           b.versions \subseteq c.versions \/ g.phase # "cached"
    PROVE  GetOK(g, c, t + 1)
<1>1. \A v : Known(v, b, t) => Known(v, c, t + 1)
  BY KnownStays
<1>2. ASSUME g \in DownloadSet, DownloadOK(g, b, t) PROVE DownloadOK(g, c, t + 1)
  BY <1>1, <1>2 DEF DownloadOK
<1>3. ASSUME g \in RevalidationSet, RevalidationOK(g, b, t) PROVE RevalidationOK(g, c, t + 1)
  BY <1>1, <1>3 DEF RevalidationOK
<1> QED
  BY <1>2, <1>3 DEF GetOK

\* The first read of a request: the client goes on, or it is told of an empty object.
LEMMA AdmitKeeps ==
    ASSUME clock \in Nat, BucketOK(bucket, clock), GetOK(get, bucket, clock), Admit
    PROVE  GetOK(get', bucket, clock)
<1>1. get \in DownloadSet /\ DownloadOK(get, bucket, clock) /\ get.phase = "ready"
  <2>1. get.phase = "ready"
    BY DEF Admit
  <2>2. get # NoGet /\ get \notin RevalidationSet
    BY <2>1 DEF NoGet, RevalidationSet
  <2> QED
    BY <2>1, <2>2 DEF GetOK
<1>2. PICK n \in PageSizes :
          LET start == Len(get.have)
              current == CurrentOf(bucket, Target)
          IN IF \E v \in current : Holds(get, v) /\ Satisfiable(v, start)
             THEN get' = [get EXCEPT !.phase = "admitted", !.asked = n]
             ELSE IF \E v \in current : Holds(get, v) /\ start = 0
             THEN \E v \in current : get' = [get EXCEPT !.phase = "done", !.pin = PinnedTo(v)]
             ELSE Ended("failed")
  BY DEF Admit
<1>3. n \in Nat
  BY PathAssumption
<1>4. CASE get' = [get EXCEPT !.phase = "admitted", !.asked = n]
  BY <1>1, <1>3, <1>4 DEF GetOK, DownloadSet, DownloadOK
<1>5. CASE Ended("failed")
  BY <1>1, <1>5 DEF Ended, GetOK, DownloadSet, DownloadOK
<1>6. ASSUME NEW v \in CurrentOf(bucket, Target), ~Satisfiable(v, Len(get.have)), Len(get.have) = 0,
             get' = [get EXCEPT !.phase = "done", !.pin = PinnedTo(v)]
      PROVE  GetOK(get', bucket, clock)
  <2>1. Known(v, bucket, clock) /\ v \in VersionSet
    BY CurrentIsKnown DEF Known
  <2>2. Content(v) \in Seq(Bytes) /\ Len(Content(v)) \in Nat
    BY <2>1, ContentsAreSequences
  <2>3. Len(Content(v)) = 0 /\ get.have \in Seq(Bytes)
    BY <1>1, <1>6, <2>2 DEF Satisfiable, DownloadSet
  <2>4. get.have = <<>> /\ Content(v) = <<>> /\ SubSeq(<<>>, 1, 0) = <<>>
    BY <1>6, <2>2, <2>3, EmptySeq, SubSeqEmpty
  <2>5. PinnedTo(v) \in [pinned : {TRUE}, version : VersionSet] /\ PinnedTo(v).version = v /\ PinnedTo(v).pinned
    BY <2>1 DEF PinnedTo
  <2>6. get' \in DownloadSet /\ get'.pin = PinnedTo(v) /\ get'.have = get.have /\ get'.phase = "done"
    BY <1>1, <1>6, <2>5 DEF DownloadSet
  <2>7. DownloadOK(get', bucket, clock)
    <3>1. get'.pin.pinned /\ get'.pin.version = v
      BY <2>5, <2>6
    <3>2. Len(get'.have) <= Len(Content(v)) /\ get'.have = SubSeq(Content(v), 1, Len(get'.have)) /\ get'.have = Content(v)
      <4>1. get'.have = <<>> /\ Content(v) = <<>> /\ Len(<<>>) = 0 /\ SubSeq(<<>>, 1, 0) = <<>>
        BY <2>4, <2>6
      <4> QED
        BY <4>1
    <3> QED
      BY <2>1, <3>1, <3>2 DEF DownloadOK
  <2> QED
    BY <2>6, <2>7 DEF GetOK
<1> QED
  <2>1. CASE \E v \in CurrentOf(bucket, Target) : Holds(get, v) /\ Satisfiable(v, Len(get.have))
    BY <1>2, <1>4, <2>1
  <2>2. CASE /\ ~\E v \in CurrentOf(bucket, Target) : Holds(get, v) /\ Satisfiable(v, Len(get.have))
             /\ \E v \in CurrentOf(bucket, Target) : Holds(get, v) /\ Len(get.have) = 0
    <3>1. PICK w \in CurrentOf(bucket, Target) : Holds(get, w) /\ Len(get.have) = 0
      BY <2>2
    <3>2. CurrentOf(bucket, Target) = {w}
      BY CurrentIsKnown
    <3>3. get' = [get EXCEPT !.phase = "done", !.pin = PinnedTo(w)]
      BY <1>2, <2>2, <3>2
    <3>4. ~Satisfiable(w, Len(get.have))
      BY <2>2, <3>1
    <3> QED
      BY <1>6, <3>1, <3>3, <3>4
  <2>3. CASE /\ ~\E v \in CurrentOf(bucket, Target) : Holds(get, v) /\ Satisfiable(v, Len(get.have))
             /\ ~\E v \in CurrentOf(bucket, Target) : Holds(get, v) /\ Len(get.have) = 0
    BY <1>2, <1>5, <2>3
  <2> QED
    BY <2>1, <2>2, <2>3

\* What a pin admits has the content that the pin names.
LEMMA PinNamesContent ==
    ASSUME NEW b, NEW t \in Nat, BucketOK(b, t), NEW g \in DownloadSet, DownloadOK(g, b, t),
           NEW v \in CurrentOf(b, Target), g.pin.pinned, Holds(g, v), Accepted(g, v)
    PROVE  Content(v) = Content(g.pin.version)
<1>1. v \in b.versions /\ v.key = Target
  BY CurrentIsKnown DEF Known
<1>2. Known(g.pin.version, b, t)
  BY DEF DownloadOK
<1>3. g.door \in DownloadDoors
  BY DEF DownloadSet
<1>4. CASE g.door \in {"gcs", "gcsXml"}
  BY <1>1, <1>2, <1>4 DEF Holds, Accepted, GcsHolds, Generation, Known
<1>5. CASE g.door \notin {"gcs", "gcsXml"}
  BY <1>3, <1>5 DEF DownloadDoors, DoorNames, Holds, S3Holds, AzureHolds, OciHolds, ETag, Content
<1> QED
  BY <1>4, <1>5

\* The second read: the bytes are of the object that the conditions are checked on.
LEMMA FetchKeeps ==
    ASSUME clock \in Nat, BucketOK(bucket, clock), GetOK(get, bucket, clock), Fetch
    PROVE  GetOK(get', bucket, clock)
<1>1. get \in DownloadSet /\ DownloadOK(get, bucket, clock) /\ get.phase = "admitted"
  <2>1. get.phase = "admitted"
    BY DEF Fetch
  <2>2. get # NoGet /\ get \notin RevalidationSet
    BY <2>1 DEF NoGet, RevalidationSet
  <2> QED
    BY <2>1, <2>2 DEF GetOK
<1>2. CASE Ended("failed")
  BY <1>1, <1>2 DEF Ended, GetOK, DownloadSet, DownloadOK
<1>3. ASSUME NEW v \in CurrentOf(bucket, Target), Readable(v), Fetched(v), Accepted(get, v)
      PROVE  GetOK(get', bucket, clock)
  <2> DEFINE have == get.have \o Taken(v, Len(get.have), get.asked)
             pin == IF get.pinning /\ ~get.pin.pinned THEN PinnedTo(v) ELSE get.pin
             phase == IF Len(have) = Len(Content(v)) THEN "done" ELSE "ready"
             C == Content(v)
  <2>1. Known(v, bucket, clock) /\ v \in VersionSet /\ Satisfiable(v, Len(get.have)) /\ Holds(get, v)
    BY <1>3, CurrentIsKnown DEF Known, Readable
  <2>2. get.have \in Seq(Bytes) /\ Len(get.have) \in Nat /\ get.asked \in Nat /\ get.pinning \in BOOLEAN
    BY <1>1 DEF DownloadSet
  <2>3. C \in Seq(Bytes) /\ Len(C) \in Nat /\ Len(get.have) < Len(C)
    BY <2>1, ContentsAreSequences DEF Satisfiable
  <2>4. PICK m \in Len(get.have) .. Len(C) : Taken(v, Len(get.have), get.asked) = SubSeq(C, Len(get.have) + 1, m)
    BY <2>1, <2>2, TakenExtends
  <2>5. have \in Seq(Bytes)
    BY <2>1, <2>2, TakenExtends, ConcatProperties
  <2>6. PinnedTo(v) \in [pinned : {TRUE}, version : VersionSet] /\ PinnedTo(v).version = v /\ PinnedTo(v).pinned
    BY <2>1 DEF PinnedTo
  <2>7. pin \in {Unpinned} \cup [pinned : {TRUE}, version : VersionSet] /\ phase \in {"ready", "done"}
    BY <1>1, <2>6 DEF DownloadSet
  <2>8. get' = [get EXCEPT !.have = have, !.pin = pin, !.phase = phase]
    BY <1>3 DEF Fetched
  <2>9. phase = "done" => Len(have) = Len(C)
    OBVIOUS
  <2>10. have = get.have \o SubSeq(C, Len(get.have) + 1, m)
    BY <2>4
  <2>11. \/ get.pinning /\ ~get.pin.pinned /\ pin = PinnedTo(v)
         \/ ~(get.pinning /\ ~get.pin.pinned) /\ pin = get.pin
    OBVIOUS
  <2> HIDE DEF have, pin, phase, C
  <2>12. /\ get' \in DownloadSet /\ get'.have = have /\ get'.pin = pin /\ get'.phase = phase
         /\ get'.pinning = get.pinning
    BY <1>1, <2>5, <2>7, <2>8 DEF DownloadSet
  <2>13. ASSUME Len(get.have) <= Len(C), get.have = SubSeq(C, 1, Len(get.have))
         PROVE  Len(have) <= Len(C) /\ have = SubSeq(C, 1, Len(have)) /\ (phase = "done" => have = C)
    <3>1. Len(have) <= Len(C) /\ have = SubSeq(C, 1, Len(have)) /\ (Len(have) = Len(C) => have = C)
      <4> DEFINE h == get.have
      <4>1. /\ h \in Seq(Bytes) /\ Len(h) <= Len(C) /\ h = SubSeq(C, 1, Len(h)) /\ m \in Len(h) .. Len(C)
            /\ have = h \o SubSeq(C, Len(h) + 1, m)
        BY <2>2, <2>4, <2>10, <2>13
      <4> HIDE DEF h
      <4> QED
        BY <2>3, <4>1, PrefixGrows
    <3> QED
      BY <2>9, <3>1
  <2>14. CASE get.pinning /\ ~get.pin.pinned /\ pin = PinnedTo(v)
    <3>1. get.have = <<>>
      BY <1>1, <2>14 DEF DownloadOK
    <3>2. Len(get.have) <= Len(C) /\ get.have = SubSeq(C, 1, Len(get.have))
      BY <2>3, <3>1, SubSeqEmpty
    <3> QED
      BY <2>1, <2>6, <2>12, <2>13, <2>14, <3>2 DEF GetOK, DownloadOK, C
  <2>15. CASE ~(get.pinning /\ ~get.pin.pinned) /\ pin = get.pin /\ get.pin.pinned
    <3>1. C = Content(get.pin.version)
      BY <1>1, <1>3, <2>1, <2>15, PinNamesContent DEF C
    <3>2. Len(get.have) <= Len(C) /\ get.have = SubSeq(C, 1, Len(get.have)) /\ Known(get.pin.version, bucket, clock)
      BY <1>1, <2>15, <3>1 DEF DownloadOK
    <3> QED
      BY <2>12, <2>13, <2>15, <3>1, <3>2 DEF GetOK, DownloadOK
  <2>16. CASE ~(get.pinning /\ ~get.pin.pinned) /\ pin = get.pin /\ ~get.pin.pinned
    BY <2>12, <2>16 DEF GetOK, DownloadOK
  <2> QED
    BY <2>11, <2>14, <2>15, <2>16
<1> QED
  <2>1. CASE \E v \in CurrentOf(bucket, Target) : Readable(v)
    <3>1. PICK w \in CurrentOf(bucket, Target) : Readable(w)
      BY <2>1
    <3>2. CurrentOf(bucket, Target) = {w}
      BY CurrentIsKnown
    <3>3. Fetched(w)
      BY <2>1, <3>2 DEF Fetch
    <3>4. ~Accepted(get, w) => Ended("failed")
      BY <3>3 DEF Fetched
    <3> QED
      BY <1>2, <1>3, <3>1, <3>3, <3>4
  <2>2. CASE ~\E v \in CurrentOf(bucket, Target) : Readable(v)
    BY <1>2, <2>2 DEF Fetch
  <2> QED
    BY <2>1, <2>2

\* A copy that is called current is, by the headers of each door.
LEMMA RevalidateKeeps ==
    ASSUME clock \in Nat, BucketOK(bucket, clock), GetOK(get, bucket, clock), Revalidate
    PROVE  GetOK(get', bucket, clock)
<1>1. get \in RevalidationSet /\ RevalidationOK(get, bucket, clock) /\ get.phase = "cached"
  <2>1. get.phase = "cached"
    BY DEF Revalidate
  <2>2. get # NoGet /\ get \notin DownloadSet
    <3>1. get \in DownloadSet => get.phase \in {"ready", "admitted", "done", "failed"}
      BY DEF DownloadSet
    <3>2. get.phase \notin {"ready", "admitted", "done", "failed"}
      BY <2>1
    <3> QED
      BY <2>1, <3>1, <3>2 DEF NoGet
  <2> QED
    BY <2>1, <2>2 DEF GetOK
<1>2. CASE Ended("failed")
  BY <1>1, <1>2 DEF Ended, GetOK, RevalidationSet, RevalidationOK
<1>3. ASSUME NEW v \in CurrentOf(bucket, Target), NEW phase \in {"unchanged", "replaced"},
             phase = "unchanged" => NotModified(get, v),
             get' = [get EXCEPT !.phase = phase, !.answer = v]
      PROVE  GetOK(get', bucket, clock)
  <2>1. /\ Known(v, bucket, clock) /\ v \in VersionSet /\ v \in bucket.versions /\ v.key = Target
        /\ \A w \in bucket.versions : w.key = Target => w.stamp <= v.stamp
    BY CurrentIsKnown DEF Known
  <2>2. /\ Known(get.copy, bucket, clock) /\ (~get.rewound => get.copy \in bucket.versions)
        /\ get.copy \in VersionSet /\ get.copy.key = Target
        /\ get.copy.stamp \in Nat /\ v.stamp \in Nat
        /\ v.stamp = get.copy.stamp => v = get.copy
    BY <1>1, <2>1 DEF RevalidationOK, Known, VersionSet
  <2>3. /\ get' \in RevalidationSet /\ get'.copy = get.copy /\ get'.phase = phase /\ get'.answer = v
        /\ get'.door = get.door /\ get'.headers = get.headers /\ get'.rewound = get.rewound
    BY <1>1, <1>3, <2>1 DEF RevalidationSet
  <2>4. ASSUME NotModified(get, v)
        PROVE  \/ Content(get.copy) = Content(v)
               \/ get.headers # "etag" /\ get.rewound
               \/ get.headers = "date" /\ get.door = "azure"
    <3>1. get.headers \in {"etag", "date", "both"} /\ get.door \in DoorNames
      BY <1>1 DEF RevalidationSet
    <3>2. CASE get.door = "s3"
      <4>1. \/ ETag(v) = ETag(get.copy)
            \/ get.headers # "etag" /\ v.stamp <= 2 * Second(get.copy.stamp)
        BY <2>4, <3>2 DEF NotModified, S3NotModified
      <4>2. 2 * Second(get.copy.stamp) <= get.copy.stamp /\ Second(get.copy.stamp) \in Nat
        BY <2>2 DEF Second
      <4>3. CASE ETag(v) = ETag(get.copy)
        BY <4>3 DEF ETag, Content
      <4>4. CASE v.stamp <= 2 * Second(get.copy.stamp) /\ ~get.rewound
        <5>1. get.copy.stamp <= v.stamp
          BY <2>1, <2>2, <4>4
        <5> QED
          BY <2>2, <4>2, <4>4, <5>1
      <4> QED
        BY <1>1, <4>1, <4>3, <4>4 DEF RevalidationSet
    <3>3. CASE get.door = "azure"
      BY <2>4, <3>1, <3>3 DEF NotModified, AzureNotModified, ETag, Content
    <3>4. CASE get.door = "oci"
      BY <2>4, <3>4 DEF NotModified, OciNotModified, ETag, Content
    <3>5. CASE get.door = "gcs"
      BY <2>2, <2>4, <3>5 DEF NotModified, GcsNotModified, Generation
    <3> QED
      BY <3>1, <3>2, <3>3, <3>4, <3>5 DEF DoorNames
  <2>5. RevalidationOK(get', bucket, clock)
    BY <1>3, <2>2, <2>3, <2>4 DEF RevalidationOK
  <2> QED
    BY <2>3, <2>5 DEF GetOK
<1> QED
  <2>1. CASE CurrentOf(bucket, Target) = {}
    BY <1>2, <2>1 DEF Revalidate
  <2>2. CASE CurrentOf(bucket, Target) # {}
    <3> DEFINE phase(v) == IF NotModified(get, v) THEN "unchanged" ELSE "replaced"
    <3>1. PICK v \in CurrentOf(bucket, Target) : get' = [get EXCEPT !.phase = phase(v), !.answer = v]
      BY <2>2 DEF Revalidate
    <3>2. phase(v) \in {"unchanged", "replaced"} /\ (phase(v) = "unchanged" => NotModified(get, v))
      OBVIOUS
    <3> HIDE DEF phase
    <3> QED
      BY <1>3, <3>1, <3>2
  <2> QED
    BY <2>1, <2>2

-----------------------------------------------------------------------------
(* The inductive invariant *)

\* The bucket's index is exact, the listing has returned what lies before its
\* marker, and the client's download or copy is of versions whose stamps are theirs alone.
ReadsInv ==
    /\ clock \in Nat /\ BucketOK(bucket, clock) /\ IndexOK(bucket)
    /\ ListOK(list, bucket)
    /\ GetOK(get, bucket, clock)

\* Every scene begins with it.
LEMMA ReadsStart == ReadsInit => ReadsInv
<1> SUFFICES ASSUME ReadsInit PROVE ReadsInv
  OBVIOUS
<1>1. clock = FirstStamp /\ clock \in Nat
  BY DEF ReadsInit, FirstStamp
<1>2. PICK s \in Scenes :
          /\ bucket = Rebuilt(s.versions, s.uploads)
          /\ Listed(s.client, bucket) \/ Downloading(s.client) \/ Cached(s.client, bucket)
  BY DEF ReadsInit
<1>3. BucketOK(bucket, clock) /\ IndexOK(bucket)
  BY <1>1, <1>2, RebuiltIsOK
<1>4. s.client \in Clients /\ (s.client.kind = "list" /\ s.client.by # "ofKey" => s.client.parent \in {Root} \cup Folders)
  BY SceneAssumption
<1> DEFINE c == s.client
<1> HIDE DEF c
<1>5. CASE Listed(s.client, bucket)
  <2>1. c \in Clients /\ c.kind = "list" /\ list = Begun(c, bucket) /\ get = NoGet /\ Placed(c)
    BY <1>4, <1>5 DEF Listed, Placed, c
  <2>2. ListOK(list, bucket)
    BY <1>1, <1>3, <2>1, BegunIsOK
  <2> QED
    BY <1>1, <1>3, <2>1, <2>2 DEF ReadsInv, GetOK
<1>6. CASE Downloading(s.client)
  <2>1. /\ c.door \in DownloadDoors /\ c.pinning \in BOOLEAN /\ list = NoListing
        /\ get = [phase |-> "ready", door |-> c.door, pinning |-> c.pinning, pin |-> Unpinned,
                  have |-> <<>>, asked |-> 0]
    BY <1>4, <1>6 DEF Downloading, Clients, DownloadDoors, DoorNames, c
  <2>2. get \in DownloadSet /\ get.pin = Unpinned /\ get.have = <<>>
    BY <2>1 DEF DownloadSet
  <2>3. ~Unpinned.pinned
    BY DEF Unpinned
  <2>4. DownloadOK(get, bucket, clock)
    BY <2>2, <2>3 DEF DownloadOK
  <2> QED
    BY <1>1, <1>3, <2>1, <2>2, <2>4 DEF ReadsInv, GetOK, ListOK
<1>7. CASE Cached(s.client, bucket)
  <2>1. c.door \in DoorNames /\ c.headers \in {"etag", "date", "both"} /\ list = NoListing
    BY <1>4, <1>7 DEF Cached, Clients, DoorNames, c
  <2>2. PICK v \in CurrentOf(bucket, Target) :
            get = [phase |-> "cached", door |-> c.door, headers |-> c.headers, copy |-> v,
                   answer |-> v, rewound |-> FALSE]
    BY <1>7 DEF Cached, c
  <2>3. Known(v, bucket, clock) /\ v \in VersionSet /\ v \in bucket.versions
    BY <1>1, <1>3, CurrentIsKnown DEF Known
  <2>4. get \in RevalidationSet /\ get.copy = v /\ get.phase = "cached"
    BY <2>1, <2>2, <2>3 DEF RevalidationSet
  <2>5. RevalidationOK(get, bucket, clock)
    BY <2>3, <2>4 DEF RevalidationOK
  <2> QED
    BY <1>1, <1>3, <2>1, <2>4, <2>5 DEF ReadsInv, GetOK, ListOK
<1> QED
  BY <1>2, <1>5, <1>6, <1>7

\* A write of any kind keeps it.
LEMMA WriteStep ==
    ASSUME ReadsInv, NEW b, Kept(bucket, b, clock), Write(b),
           \/ UNCHANGED get /\ bucket.versions \subseteq b.versions
           \/ Rewound
    PROVE  ReadsInv'
<1>1. /\ clock' = clock + 1 /\ clock' \in Nat /\ bucket' = b
      /\ BucketOK(bucket', clock') /\ IndexOK(bucket') /\ ListOK(list', bucket')
  BY WriteKeepsListing DEF ReadsInv
<1>2. CASE UNCHANGED get /\ bucket.versions \subseteq b.versions
  <2>1. GetOK(get, b, clock + 1)
    BY <1>2, GetStays DEF ReadsInv
  <2> QED
    BY <1>1, <1>2, <2>1 DEF ReadsInv
<1>3. CASE Rewound /\ get.phase # "cached"
  <2>1. GetOK(get, b, clock + 1) /\ get' = get
    BY <1>3, GetStays DEF ReadsInv, Rewound
  <2> QED
    BY <1>1, <2>1 DEF ReadsInv
<1>4. CASE Rewound /\ get.phase = "cached"
  <2>1. get # NoGet /\ get \notin DownloadSet
    <3>1. get \in DownloadSet => get.phase \in {"ready", "admitted", "done", "failed"}
      BY DEF DownloadSet
    <3>2. get.phase \notin {"ready", "admitted", "done", "failed"}
      BY <1>4
    <3> QED
      BY <1>4, <3>1, <3>2 DEF NoGet
  <2>2. get \in RevalidationSet /\ RevalidationOK(get, bucket, clock)
    BY <2>1 DEF ReadsInv, GetOK
  <2>3. get' = [get EXCEPT !.rewound = TRUE]
    BY <1>4 DEF Rewound
  <2>4. get' \in RevalidationSet /\ get'.copy = get.copy /\ get'.phase = "cached" /\ get'.rewound
    BY <1>4, <2>2, <2>3 DEF RevalidationSet
  <2>5. Known(get.copy, b, clock + 1)
    BY <2>2, KnownStays DEF RevalidationOK, ReadsInv
  <2>6. RevalidationOK(get', bucket', clock')
    BY <1>1, <2>4, <2>5 DEF RevalidationOK
  <2> QED
    BY <1>1, <2>4, <2>6 DEF ReadsInv, GetOK
<1> QED
  BY <1>2, <1>3, <1>4

\* Every step keeps it.
LEMMA ReadsStep == ReadsInv /\ [ReadsNext]_getVars => ReadsInv'
<1> SUFFICES ASSUME ReadsInv, [ReadsNext]_getVars PROVE ReadsInv'
  OBVIOUS
<1>1. clock \in Nat /\ BucketOK(bucket, clock) /\ IndexOK(bucket) /\ ListOK(list, bucket) /\ GetOK(get, bucket, clock)
  BY DEF ReadsInv
<1>2. Noticed \subseteq Keys /\ NoticedBodies \subseteq Bodies
  BY SceneAssumption, PathAssumption DEF Noticed, NoticedBodies
<1>3. CASE UNCHANGED getVars
  BY <1>1, <1>3 DEF ReadsInv, getVars, listVars
<1>4. CASE ListPage /\ UNCHANGED get
  <2>1. ListOK(list', bucket)
    BY <1>1, <1>4, ListPageKeeps
  <2> QED
    BY <1>1, <1>4, <2>1 DEF ReadsInv, ListPage
<1>5. CASE Admit \/ Fetch \/ Revalidate
  <2>1. GetOK(get', bucket, clock)
    BY <1>1, <1>5, AdmitKeeps, FetchKeeps, RevalidateKeeps
  <2>2. UNCHANGED <<bucket, clock, list>>
    BY <1>5 DEF Admit, Fetch, Revalidate, listVars
  <2> QED
    BY <1>1, <2>1, <2>2 DEF ReadsInv
<1>6. CASE UNCHANGED get /\ \E k \in Noticed, bytes \in NoticedBodies : PutObject(k, bytes)
  <2>1. PICK k \in Keys, bytes \in Bodies : Write(WithPut(bucket, k, clock, bytes))
    BY <1>2, <1>6 DEF PutObject
  <2>2. /\ Kept(bucket, WithPut(bucket, k, clock, bytes), clock)
        /\ bucket.versions \subseteq WithPut(bucket, k, clock, bytes).versions
    BY <1>1, PutKeeps
  <2> QED
    BY <1>6, <2>1, <2>2, WriteStep
<1>7. CASE UNCHANGED get /\ \E k \in Noticed : DeleteObject(k)
  <2>1. PICK k \in Keys : Write(WithMarker(bucket, k, clock))
    BY <1>2, <1>7 DEF DeleteObject
  <2>2. Kept(bucket, WithMarker(bucket, k, clock), clock) /\ bucket.versions \subseteq WithMarker(bucket, k, clock).versions
    BY <1>1, MarkerKeeps
  <2> QED
    BY <1>7, <2>1, <2>2, WriteStep
<1>8. CASE Rewound /\ \E k \in Noticed : \E v \in VersionsOf(bucket, k) : DeleteVersion(v)
  <2>1. PICK v \in bucket.versions : Write(WithoutVersion(bucket, v))
    BY <1>8 DEF DeleteVersion, VersionsOf
  <2>2. Kept(bucket, WithoutVersion(bucket, v), clock)
    BY <1>1, RemovalKeeps
  <2> QED
    BY <1>8, <2>1, <2>2, WriteStep
<1>9. CASE UNCHANGED get /\ ((\E k \in Keys : CreateUpload(k)) \/ (\E u \in bucket.uploads : EndUpload(u)))
  <2>1. bucket.uploads \subseteq Pairs /\ IsFiniteSet(bucket.uploads) /\ Keys \subseteq Nat
    BY <1>1, PathAssumption DEF BucketOK
  <2>2. PICK U \in SUBSET Pairs : IsFiniteSet(U) /\ Write([bucket EXCEPT !.uploads = U])
    <3>1. CASE \E k \in Keys : CreateUpload(k)
      <4>1. PICK k \in Keys : CreateUpload(k)
        BY <3>1
      <4> DEFINE U == bucket.uploads \cup {<<k, clock>>}
      <4>2. <<k, clock>> \in Pairs
        BY <1>1, <2>1 DEF Pairs
      <4>3. U \in SUBSET Pairs /\ IsFiniteSet(U)
        BY <2>1, <4>2, FS_AddElement
      <4>4. Write([bucket EXCEPT !.uploads = U])
        BY <4>1 DEF CreateUpload
      <4> QED
        BY <4>3, <4>4
    <3>2. CASE \E u \in bucket.uploads : EndUpload(u)
      <4>1. PICK u \in bucket.uploads : EndUpload(u)
        BY <3>2
      <4> DEFINE U == bucket.uploads \ {u}
      <4>2. U \in SUBSET Pairs /\ IsFiniteSet(U)
        BY <2>1, FS_Subset
      <4>3. Write([bucket EXCEPT !.uploads = U])
        BY <4>1 DEF EndUpload
      <4> QED
        BY <4>2, <4>3
    <3> QED
      BY <1>9, <3>1, <3>2
  <2>3. Kept(bucket, [bucket EXCEPT !.uploads = U], clock) /\ bucket.versions \subseteq [bucket EXCEPT !.uploads = U].versions
    BY <1>1, <2>2, UploadsKeep
  <2> QED
    BY <1>9, <2>2, <2>3, WriteStep
<1> QED
  BY <1>3, <1>4, <1>5, <1>6, <1>7, <1>8, <1>9
     DEF ReadsNext, S3Get, AzureGet, GcsGet, GcsXmlGet, OciGet, S3Head, AzureHead, GcsHead, OciHead

\* The invariant holds throughout.
THEOREM ReadsInvariance == ReadsSpec => []ReadsInv
  BY ReadsStart, ReadsStep, PTL DEF ReadsSpec

\* The index names what the store holds (LockFreeIndex insert and remove), and a
\* client that follows the pages of any door is told of everything that stays,
\* each once, whatever is written between the pages, for any keys, folders and
\* page sizes.
THEOREM ListingsAreTrue == ReadsSpec => []ListingsTrue
<1>1. ReadsInv => ListingsTrue
  <2> SUFFICES ASSUME ReadsInv PROVE ListingsTrue
    OBVIOUS
  <2>1. IndexAgrees
    BY DEF ReadsInv, IndexOK, LiveKeys, ChildrenOf, IndexAgrees
  <2>2. Complete /\ OnceEach
    BY DEF ReadsInv, ListOK, Progress, Complete, OnceEach
  <2> QED
    BY <2>1, <2>2 DEF ListingsTrue
<1> QED
  BY <1>1, ReadsInvariance, PTL

\* A download that pins its later requests to the first answer ends with exactly
\* the content that was named, at every door (conditions and range are checked
\* again on what is read).
THEOREM DownloadsAreWhole == ReadsSpec => []DownloadWhole
<1>1. ReadsInv => DownloadWhole
  <2> SUFFICES ASSUME ReadsInv, get.phase = "done", get.pin.pinned PROVE get.have = Content(get.pin.version)
    BY DEF DownloadWhole
  <2>1. get # NoGet /\ get \notin RevalidationSet
    BY DEF NoGet, RevalidationSet
  <2>2. DownloadOK(get, bucket, clock)
    BY <2>1 DEF ReadsInv, GetOK
  <2> QED
    BY <2>2 DEF DownloadOK
<1> QED
  BY <1>1, ReadsInvariance, PTL

\* "Not modified" is only said of the current content, at every door and for
\* every choice of headers, but for the two cases the statement names.
THEOREM CachesAreCurrent == ReadsSpec => []CacheCurrent
<1>1. ReadsInv => CacheCurrent
  <2> SUFFICES ASSUME ReadsInv, get.phase = "unchanged"
               PROVE  \/ Content(get.copy) = Content(get.answer)
                      \/ get.headers # "etag" /\ get.rewound
                      \/ get.headers = "date" /\ get.door = "azure"
    BY DEF CacheCurrent
  <2>1. get # NoGet /\ get \notin DownloadSet
    <3>1. get \in DownloadSet => get.phase \in {"ready", "admitted", "done", "failed"}
      BY DEF DownloadSet
    <3>2. get.phase \notin {"ready", "admitted", "done", "failed"}
      OBVIOUS
    <3> QED
      BY <3>1, <3>2 DEF NoGet
  <2>2. RevalidationOK(get, bucket, clock)
    BY <2>1 DEF ReadsInv, GetOK
  <2> QED
    BY <2>2 DEF RevalidationOK
<1> QED
  BY <1>1, ReadsInvariance, PTL

-----------------------------------------------------------------------------
(* The safety half of Ends: every page that is not the last moves the marker *)
(* on in the order of the entries, and a write between pages leaves it.      *)

\* A listing under way ends, or its marker goes forward, or a write beside it
\* leaves the marker where it is; none of them goes back.
PageAdvances ==
    list # NoListing /\ ~list.over =>
        \/ list'.over
        \/ /\ ListPage /\ list'.marker # NoMarker
           /\ list.marker = NoMarker \/ Before(list.marker, list'.marker)
        \/ clock' = clock + 1 /\ list'.marker = list.marker
        \/ list' = list

\* A page that is not the last has a marker, and it lies behind the one before.
LEMMA PageGoesOn ==
    ASSUME NEW S \in SUBSET Pairs, IsFiniteSet(S), NEW l \in Listings, NEW n \in Nat \ {0},
           ~l.over, Progress(l, S), PageOf(l.door, S, l.marker, n).more
    PROVE  LET next == PageOf(l.door, S, l.marker, n).next
           IN next # NoMarker /\ (l.marker = NoMarker \/ Before(l.marker, next))
<1> DEFINE page == PageOf(l.door, S, l.marker, n)
<1>1. /\ l.marker \in {NoMarker} \cup Pairs
      /\ l.door \in AfterDoors \cup FromDoors \cup {"offset"}
  BY DEF Listings
<1> SUFFICES page.next # NoMarker /\ (l.marker = NoMarker \/ Before(l.marker, page.next))
  OBVIOUS
<1>2. CASE l.door \in AfterDoors
  <2>1. TakesAfter(page, RestAfter(S, l)) /\ RestAfter(S, l) \subseteq Beyond(S, l.marker)
    BY <1>2, PagesAfter
  <2>2. page.next \in Beyond(S, l.marker)
    <3> HIDE DEF page
    <3> QED  BY <2>1 DEF TakesAfter, page
  <2> QED
    BY <2>2, EntryIsNoMarker DEF Beyond
<1>3. CASE l.door \in FromDoors
  <2> DEFINE rest == Starting(S, l.marker)
  <2>1. page = FromMarker(rest, n)
    BY <1>3 DEF FromDoors, PageOf, AzurePage, OciPage
  <2>2. rest \in SUBSET Pairs /\ IsFiniteSet(rest) /\ rest \subseteq S
    BY FS_Subset DEF Starting
  <2>3. l.marker # NoMarker => \A e \in rest : ~Before(e, l.marker)
    BY DEF Starting
  <2> HIDE DEF rest
  <2>4. TakesUpTo(page, rest) /\ page.entries = First(n, rest)
    <3>1. FromMarker(rest, n).entries = First(n, rest)
      BY DEF FromMarker, Page
    <3> QED
      BY <2>1, <2>2, <3>1, FromMarkerTakes
  <2> HIDE DEF page
  <2>5. page.next \in rest
    BY <2>4 DEF TakesUpTo, page
  <2>6. PICK e \in page.entries : TRUE
    BY <2>2, <2>4, <2>5, FirstIsPrefix
  <2>7. e \in rest /\ Before(e, page.next)
    BY <2>4, <2>6 DEF TakesUpTo, page
  <2>8. l.marker # NoMarker => Before(l.marker, page.next)
    BY <1>1, <2>2, <2>3, <2>5, <2>7, BeforeIsOrder
  <2> QED
    BY <2>2, <2>5, <2>8, EntryIsNoMarker
<1>4. CASE l.door = "offset"
  <2>1. Start(l) \in Nat
    BY <1>4 DEF Progress, Position
  <2>2. page.next = <<Start(l) + n, 0>>
    BY <1>4 DEF PageOf, OffsetPage, Page, Start
  <2>3. <<Start(l) + n, 0>> \in Pairs
    BY <2>1 DEF Pairs
  <2>4. l.marker # NoMarker => Start(l) = l.marker[1]
    BY DEF Start
  <2>5. l.marker # NoMarker => Before(l.marker, <<Start(l) + n, 0>>)
    BY <2>1, <2>4 DEF Before
  <2> QED
    BY <2>2, <2>3, <2>5, EntryIsNoMarker
<1> QED
  BY <1>1, <1>2, <1>3, <1>4

\* So every listing moves on page by page, whatever is written in between.
THEOREM PagesAdvance == ReadsSpec => [][PageAdvances]_getVars
<1>1. ReadsInv /\ [ReadsNext]_getVars => [PageAdvances]_getVars
  <2> SUFFICES ASSUME ReadsInv, ReadsNext, list # NoListing, ~list.over, list' # list PROVE PageAdvances
    BY DEF PageAdvances, getVars
  <2>1. clock \in Nat /\ BucketOK(bucket, clock) /\ IndexOK(bucket) /\ ListOK(list, bucket)
    BY DEF ReadsInv
  <2>2. CASE ListPage
    <3> DEFINE S == Entries(bucket, list)
    <3>1. list \in Listings /\ Placed(list) /\ Progress(list, S)
      BY <2>1 DEF ListOK
    <3>2. PICK n \in PageSizes : list' = Turned(list, S, PageOf(list.door, S, list.marker, n))
      BY <2>2 DEF ListPage, Turned
    <3>3. n \in Nat \ {0}
      BY <3>2, PathAssumption
    <3>4. S \in SUBSET Pairs /\ IsFiniteSet(S)
      BY <2>1, <3>1, EntriesAreFinite DEF Listings
    <3> HIDE DEF S
    <3> DEFINE page == PageOf(list.door, S, list.marker, n)
    <3>5. list'.marker = page.next /\ list'.over = ~page.more
      <4> HIDE DEF page
      <4>1. list' = Turned(list, S, page)
        BY <3>2 DEF page
      <4> QED
        BY <3>1, <4>1 DEF Turned, Listings
    <3>6. page.more => page.next # NoMarker /\ (list.marker = NoMarker \/ Before(list.marker, page.next))
      BY <3>1, <3>3, <3>4, PageGoesOn
    <3> HIDE DEF page
    <3> QED
      BY <2>2, <3>5, <3>6 DEF PageAdvances
  <2>3. CASE \E b : Write(b)
    <3>1. PICK b : Write(b)
      BY <2>3
    <3>2. list \in Listings
      BY <2>1 DEF ListOK
    <3>3. clock' = clock + 1 /\ list'.marker = list.marker
      BY <3>1, <3>2 DEF Write, Listings
    <3> QED
      BY <3>3 DEF PageAdvances
  <2>4. ListPage \/ \E b : Write(b)
    <3>1. (\E k, x : PutObject(k, x)) \/ (\E k : DeleteObject(k)) \/ (\E v : DeleteVersion(v))
          \/ (\E k : CreateUpload(k)) \/ (\E u : EndUpload(u)) => \E b : Write(b)
      BY DEF PutObject, DeleteObject, DeleteVersion, CreateUpload, EndUpload
    <3>2. S3Get \/ AzureGet \/ GcsGet \/ GcsXmlGet \/ OciGet \/ S3Head \/ AzureHead \/ GcsHead \/ OciHead => list' = list
      BY DEF S3Get, AzureGet, GcsGet, GcsXmlGet, OciGet, S3Head, AzureHead, GcsHead, OciHead, Admit, Fetch, Revalidate, listVars
    <3> QED
      BY <3>1, <3>2 DEF ReadsNext
  <2> QED
    BY <2>2, <2>3, <2>4
<1> QED
  BY <1>1, ReadsInvariance, PTL DEF ReadsSpec
=============================================================================
