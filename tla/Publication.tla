----------------------------- MODULE Publication -----------------------------
(***************************************************************************)
(* The journaled publication protocol of storage/filesystem/publication.rs *)
(* for one key of one bucket, with the operations of storage/filesystem.rs *)
(* that drive it, one action per durable filesystem effect.                *)
(*                                                                         *)
(* A directory that holds a generation (the object directory, and one      *)
(* versions/<id> directory per snapshot) is a place.  At each place live a *)
(* body (object.blob), metadata (object.meta.json), a journal              *)
(* (.publication.json) and a private stage directory.  Every operation of  *)
(* the key runs under the key's mutex, so at most one is in flight; what   *)
(* interleaves with it is process death and filesystem errors.             *)
(*                                                                         *)
(* An error is always taken BEFORE the effect of the step that fails: a    *)
(* step whose effect happened but whose directory sync failed behaves as   *)
(* the failure of the step after it.                                       *)
(***************************************************************************)
EXTENDS ObjectTypes, FiniteSets

CONSTANTS
    Cur,            \* the object directory itself, as a place
    MaxGen,         \* bound: generations ever made
    MaxFailures     \* bound: filesystem errors and process deaths together

ASSUME PublicationAssumption ==
    /\ Cur \notin Vid
    /\ MaxGen \in Nat /\ MaxFailures \in Nat

VARIABLES
    body,       \* place -> generation of object.blob (0: no file)
    meta,       \* place -> object.meta.json (gen = 0: no file)
    journal,    \* place -> .publication.json (live = FALSE: no file)
    stage,      \* place -> the private stage directory
    mode        \* the bucket's versioning marker

VARIABLES
    index,      \* the key is in the in-memory listing index
    possible,   \* azure_protection_possible of the bucket
    pc,         \* control point of the process
    round,      \* what the publication in flight is for
    at,         \* place being recovered or published
    todo,       \* places still to be recovered before the round goes on
    attempt,    \* who runs apply_publication: recover, commit or retry
    step,       \* next effect of apply_publication
    task,       \* the request being served
    want,       \* its main publication, once planned
    seen        \* what the last read returned

VARIABLES
    gens, unused, failures,  \* fresh generations and UUIDs, bounds
    landed, reply                   \* history: the request's effect is decided; its outcome

files == <<body, meta, journal, stage, mode>>
memory == <<index, possible, pc, round, at, todo, attempt, step, task, want, seen>>
aux == <<gens, unused, failures, landed, reply>>
vars == <<files, memory, aux>>

-----------------------------------------------------------------------------
(* Types *)

Place == Vid \cup {Cur}

\* The journal record.  marker.gen = 0 when there is no delete marker.
Record == [live: BOOLEAN, publish: BOOLEAN, clear_current: BOOLEAN,
           remove_versions: SUBSET Vid, marker: Object]
NoRecord == [live |-> FALSE, publish |-> FALSE, clear_current |-> FALSE,
             remove_versions |-> {}, marker |-> NoObject]

Stage == [body: Nat, meta: Object]
NoStage == [body |-> 0, meta |-> NoObject]

Task == [kind: Kinds \cup {"none"}, vid: Vid, attr: Attrs, mode: Modes]
NoTask == [kind |-> "none", vid |-> NullId, attr |-> "plain", mode |-> "disabled"]

\* A planned publication: the record, the metadata to stage, and the place
\* whose stored body is linked into the stage (Cur and 0 are a new body).
Plan == [record: Record, object: Object, source: Place]
NoPlan == [record |-> NoRecord, object |-> NoObject, source |-> Cur]

PCs == {"down", "idle", "recover", "plan", "mode", "stageBody", "stageMeta",
        "commit", "apply", "finish", "refused"}
Steps == {"body", "meta", "remove", "markerBody", "markerMeta",
          "clearBody", "clearMeta", "retire", "clean"}
Rounds == {"boot", "open", "sweep", "snap", "main"}

TypeOK ==
    /\ body \in [Place -> Nat]
    /\ meta \in [Place -> Object]
    /\ journal \in [Place -> Record]
    /\ stage \in [Place -> Stage]
    /\ mode \in Modes
    /\ index \in BOOLEAN /\ possible \in BOOLEAN
    /\ pc \in PCs /\ round \in Rounds
    /\ at \in Place /\ todo \in SUBSET Place
    /\ attempt \in {"recover", "commit", "retry"}
    /\ step \in Steps
    /\ task \in Task /\ want \in Plan /\ seen \in Stage
    /\ gens \in Nat /\ unused \in SUBSET Uuid
    /\ failures \in Nat
    /\ landed \in BOOLEAN /\ reply \in {"none", "ok", "err"}

-----------------------------------------------------------------------------
(* What the files mean once pending decisions are rolled forward *)

Decided == journal[Cur].live

\* The current object as any reader will find it.
LogicalCurrent ==
    IF Decided /\ journal[Cur].publish THEN stage[Cur].meta
    ELSE IF (Decided /\ journal[Cur].clear_current) \/ body[Cur] = 0 THEN NoObject
    ELSE meta[Cur]

\* A snapshot as any reader will find it.
LogicalVersion(v) ==
    IF Decided /\ journal[Cur].marker.gen # 0 /\ journal[Cur].marker.vid = v
      THEN journal[Cur].marker
    ELSE IF Decided /\ v \in journal[Cur].remove_versions THEN NoObject
    ELSE IF journal[v].live THEN stage[v].meta
    ELSE IF body[v] = 0 THEN NoObject
    ELSE meta[v]

LogicalHistory == [v \in Vid |-> LogicalVersion(v)]

-----------------------------------------------------------------------------
Init ==
    /\ body = [p \in Place |-> 0]
    /\ meta = [p \in Place |-> NoObject]
    /\ journal = [p \in Place |-> NoRecord]
    /\ stage = [p \in Place |-> NoStage]
    /\ mode = "disabled"
    /\ index = FALSE /\ possible = FALSE
    /\ pc = "idle" /\ round = "open" /\ at = Cur /\ todo = {}
    /\ attempt = "recover" /\ step = "body"
    /\ task = NoTask /\ want = NoPlan /\ seen = NoStage
    /\ gens = 0 /\ unused = Uuid /\ failures = 0
    /\ landed = FALSE /\ reply = "none"

\* admit_azure_protection: a protected object withdraws the absence proof.
Admitted(o) == possible \/ o.attr = "protected"

\* Not the code: a request starts without recovering its key.
BeginUnrecovered(t) ==
    /\ pc = "idle"
    /\ t.kind \in {"put", "delete"} => gens < MaxGen /\ (mode = "enabled" => unused # {})
    /\ task' = t
    /\ pc' = IF t.kind = "setMode" THEN "mode" ELSE "recover"
    /\ round' = "open" /\ todo' = {} /\ attempt' = "recover"
    /\ possible' = IF t.kind = "put" THEN Admitted(t) ELSE possible
    /\ seen' = NoStage /\ landed' = FALSE /\ reply' = "none"
    /\ UNCHANGED <<files, index, at, step, want, gens, unused, failures>>
Begin(t) ==
    /\ pc = "idle"
    /\ t.kind \in {"put", "delete"} => gens < MaxGen /\ (mode = "enabled" => unused # {})
    /\ task' = t
    /\ pc' = IF t.kind = "setMode" THEN "mode" ELSE "recover"
    /\ round' = "open" /\ todo' = {Cur} /\ attempt' = "recover"
    \* admit_azure_protection precedes every write of a put
    /\ possible' = IF t.kind = "put" THEN Admitted(t) ELSE possible
    /\ seen' = NoStage /\ landed' = FALSE /\ reply' = "none"
    /\ UNCHANGED <<files, index, at, step, want, gens, unused, failures>>

Requests ==
    {t \in Task :
       /\ t.kind # "none"
       /\ t.kind \notin {"deleteVersion", "getVersion"} => t.vid = NullId
       /\ t.kind \notin {"put", "touch"} => t.attr = "plain"
       /\ (t.kind = "setMode") = (t.mode # "disabled")}

\* The request ends.  A put repairs the listing index whatever its outcome;
\* the other requests touch it only on success.
End(outcome) ==
    /\ pc' = "idle"
    /\ reply' = outcome
    /\ task' = NoTask /\ want' = NoPlan /\ todo' = {} /\ landed' = FALSE
    /\ round' = "open" /\ at' = Cur /\ attempt' = "recover" /\ step' = "body"
    /\ index' =
         CASE task.kind = "put" /\ (round = "main" \/ mode = "disabled") ->
                index \/ outcome = "ok" \/ journal'[Cur].live \/ body'[Cur] # 0
           [] task.kind = "delete" /\ outcome = "ok" -> FALSE
           [] task.kind = "deleteVersion" /\ outcome = "ok" -> body'[Cur] # 0
           [] OTHER -> index

-----------------------------------------------------------------------------
(* recover_publication, for each place of todo, the object directory first *)

\* Where apply_publication starts, and where it goes once versions are retired.
FirstStep(r) == IF r.publish THEN "body" ELSE "remove"
AfterRemove(r) ==
    IF r.marker.gen # 0 THEN "markerBody" ELSE IF r.clear_current THEN "clearBody" ELSE "retire"

RecoverPlace(p) ==
    /\ pc = "recover"
    /\ p \in todo
    /\ Cur \in todo => p = Cur
    /\ at' = p
    /\ IF journal[p].live
         THEN /\ pc' = "apply" /\ step' = FirstStep(journal[p])
              /\ UNCHANGED <<stage, todo>>
         ELSE /\ stage' = [stage EXCEPT ![p] = NoStage]   \* clean_uncommitted_stages
              /\ todo' = todo \ {p}
              /\ UNCHANGED <<pc, step>>
    /\ UNCHANGED <<body, meta, journal, mode, index, possible, round, attempt, task, want, seen, aux>>

\* Not the code: the record forgets the snapshots that the generation retires.
PublishKeeping(retired, o, from) ==
    [record |-> [live |-> TRUE, publish |-> TRUE, clear_current |-> FALSE,
                 remove_versions |-> {}, marker |-> NoObject],
     object |-> o, source |-> from]
\* A new or promoted generation, together with the snapshots it retires.
PublishPlan(retired, o, from) ==
    [record |-> [live |-> TRUE, publish |-> TRUE, clear_current |-> FALSE,
                 remove_versions |-> retired, marker |-> NoObject],
     object |-> o, source |-> from]
\* A change of history that publishes nothing: retired snapshots, possibly a
\* delete marker, possibly no current object any more.
HistoryPlan(retired, marker, clear) ==
    [record |-> [live |-> TRUE, publish |-> FALSE, clear_current |-> clear,
                 remove_versions |-> retired, marker |-> marker],
     object |-> NoObject, source |-> Cur]
NullOnly(id) == IF id = NullId THEN {NullId} ELSE {}

\* The record and metadata of the publication in flight.
Planned ==
    IF round = "snap"
      THEN PublishPlan({}, Versioned(meta[Cur]), Cur)
      ELSE want
\* A put of new bytes stages the bytes it was sent; snapshot and promotion
\* link the stored body of their source.
StagedBody ==
    IF round = "main" /\ task.kind = "put" THEN want.object.gen ELSE body[Planned.source]

RecoverDone ==
    /\ pc = "recover"
    /\ todo = {}
    /\ round # "boot"
    /\ IF round \in {"open", "sweep"}
         THEN pc' = "plan" /\ UNCHANGED at
         ELSE /\ pc' = IF Planned.record.publish THEN "stageBody" ELSE "commit"
              /\ at' = IF round = "snap" THEN IdOf(meta[Cur]) ELSE Cur
    /\ UNCHANGED <<files, index, possible, round, todo, attempt, step, task, want, seen, aux>>

-----------------------------------------------------------------------------
(* Planning: what each request decides to publish *)

Present == body[Cur] # 0

\* Go on to publish plan w, first keeping the current generation if owed.
Publish(w) ==
    /\ want' = w
    /\ pc' = "recover"
    /\ IF task.kind \in {"put", "delete"} /\ Present /\ NeedsSnapshot(mode, meta[Cur])
         THEN round' = "snap" /\ todo' = {IdOf(meta[Cur])}
         ELSE round' = "main" /\ todo' = {Cur}

PlanPut ==
    /\ pc = "plan" /\ task.kind = "put"
    /\ \E id \in NewVids(mode) :
         /\ mode = "enabled" => id \in unused
         /\ unused' = unused \ {id}
         /\ Publish(PublishPlan(NullOnly(id),
                      [gen |-> gens + 1, vid |-> id, marker |-> FALSE, attr |-> task.attr], Cur))
    /\ gens' = gens + 1
    /\ UNCHANGED <<files, index, possible, at, attempt, step, task, seen, failures, landed, reply>>

\* Deleting leaves a marker in a versioned bucket and needs an object otherwise.
PlanDelete ==
    /\ pc = "plan" /\ task.kind = "delete"
    /\ IF mode = "disabled"
         THEN IF Present
                THEN /\ Publish(HistoryPlan({}, NoObject, TRUE))
                     /\ UNCHANGED <<index, at, attempt, step, gens, unused, landed, reply, task>>
                ELSE End("err") /\ UNCHANGED <<gens, unused>>   \* KeyNotFound
         ELSE /\ \E id \in NewVids(mode) :
                   /\ mode = "enabled" => id \in unused
                   /\ unused' = unused \ {id}
                   /\ Publish(HistoryPlan(NullOnly(id),
                        [gen |-> gens + 1, vid |-> id, marker |-> TRUE, attr |-> "plain"], TRUE))
              /\ gens' = gens + 1
              /\ UNCHANGED <<index, at, attempt, step, landed, reply, task>>
    /\ UNCHANGED <<files, possible, seen, failures>>

\* delete_object_version lists (and so recovers) every snapshot before it
\* chooses the one to promote.
SweepVersions ==
    /\ pc = "plan" /\ task.kind = "deleteVersion" /\ round = "open"
    /\ ~Present \/ meta[Cur].vid = task.vid
    /\ Present \/ body[task.vid] # 0
    /\ round' = "sweep" /\ pc' = "recover" /\ todo' = Vid
    /\ UNCHANGED <<files, index, possible, at, attempt, step, task, want, seen, aux>>

\* w is the most recently modified snapshot other than v.
IsLatest(w, v) ==
    /\ w # v /\ meta[w].gen # 0
    /\ \A x \in Vid \ {v} : meta[x].gen <= meta[w].gen

\* Purging the current version, or any version while nothing is current,
\* restores the latest other snapshot unless that is a delete marker.
PlanDeleteVersion ==
    /\ pc = "plan" /\ task.kind = "deleteVersion"
    /\ LET v == task.vid
           deletingCurrent == Present /\ meta[Cur].vid = v
           known == deletingCurrent \/ body[v] # 0
           restores == deletingCurrent \/ ~Present
           Promotes(w) == restores /\ IsLatest(w, v) /\ ~meta[w].marker
       IN \/ ~known /\ End("err") /\ UNCHANGED possible   \* NoSuchVersion
          \/ /\ known
             /\ restores => round = "sweep"
             /\ \/ \E w \in Vid :
                     /\ Promotes(w)
                     /\ Publish(PublishPlan({v, w}, meta[w], w))
                     /\ possible' = Admitted(meta[w])
                \/ /\ \A w \in Vid : ~Promotes(w)
                   /\ Publish(HistoryPlan({v}, NoObject, restores))
                   /\ UNCHANGED possible
             /\ UNCHANGED <<index, at, attempt, step, landed, reply, task>>
    /\ UNCHANGED <<files, seen, gens, unused, failures>>

\* Tags, ACL, storage class and provider metadata: one atomic rename over
\* object.meta.json.  The proof is invalidated before the rename.
Touch ==
    /\ pc = "plan" /\ task.kind = "touch"
    /\ IF meta[Cur].gen = 0
         THEN End("err") /\ UNCHANGED <<meta, possible>>
         ELSE /\ possible' = Admitted(task)
              /\ meta' = [meta EXCEPT ![Cur].attr = task.attr]
              /\ landed' = TRUE
              /\ pc' = "finish"
              /\ UNCHANGED <<index, round, at, todo, attempt, step, task, want, reply>>
    /\ UNCHANGED <<body, journal, stage, mode, seen, gens, unused, failures>>

\* enable_versioning and suspend_versioning: the marker, then a null identity
\* for a current object that has none.  An object without readable metadata is
\* skipped before its publication is recovered.
SetMode ==
    /\ pc = "mode"
    /\ mode' = task.mode
    /\ landed' = TRUE
    /\ pc' = IF meta[Cur].gen = 0 THEN "finish" ELSE "recover"
    /\ UNCHANGED <<body, meta, journal, stage, index, possible, round, at, todo, attempt, step, task, want, seen,
                   gens, unused, failures, reply>>

AssignNull ==
    /\ pc = "plan" /\ task.kind = "setMode"
    /\ meta' = IF meta[Cur].gen # 0 /\ meta[Cur].vid = NoVid
                 THEN [meta EXCEPT ![Cur] = Versioned(@)] ELSE meta
    /\ pc' = "finish"
    /\ UNCHANGED <<body, journal, stage, mode, index, possible, round, at, todo, attempt, step, task, want, seen, aux>>

\* get_object and the version readers: a snapshot hides the current object.
Read ==
    /\ pc = "plan" /\ task.kind \in {"get", "getVersion"}
    /\ LET v == task.vid
           p == IF task.kind = "getVersion" /\ body[v] # 0 THEN v ELSE Cur
           found == /\ body[p] # 0
                    /\ task.kind = "getVersion" => meta[p].vid = v
       IN /\ task.kind = "getVersion" => round = "sweep"
          /\ IF found THEN End("ok") /\ seen' = [body |-> body[p], meta |-> meta[p]]
                      ELSE End("err") /\ UNCHANGED seen
    /\ UNCHANGED <<files, possible, gens, unused, failures>>

\* A version read also recovers that version's directory.
OpenVersion ==
    /\ pc = "plan" /\ task.kind = "getVersion" /\ round = "open"
    /\ round' = "sweep" /\ pc' = "recover" /\ todo' = {task.vid}
    /\ UNCHANGED <<files, index, possible, at, attempt, step, task, want, seen, aux>>

-----------------------------------------------------------------------------
(* publish_pair and change_history: stage, decide, apply *)

StageBody ==
    /\ pc = "stageBody"
    /\ stage' = [stage EXCEPT ![at] = [body |-> StagedBody, meta |-> NoObject]]
    /\ pc' = "stageMeta"
    /\ UNCHANGED <<body, meta, journal, mode, index, possible, round, at, todo, attempt, step, task, want, seen, aux>>

StageMeta ==
    /\ pc = "stageMeta"
    /\ stage' = [stage EXCEPT ![at].meta = Planned.object]
    /\ pc' = "commit"
    /\ UNCHANGED <<body, meta, journal, mode, index, possible, round, at, todo, attempt, step, task, want, seen, aux>>

\* The synced journal is the commit decision.
Commit ==
    /\ pc = "commit"
    /\ journal' = [journal EXCEPT ![at] = Planned.record]
    /\ landed' = (round = "main")
    /\ pc' = "apply" /\ step' = FirstStep(Planned.record) /\ attempt' = "commit"
    /\ UNCHANGED <<body, meta, stage, mode, index, possible, round, at, todo, task, want, seen,
                   gens, unused, failures, reply>>

-----------------------------------------------------------------------------
(* apply_publication, one effect at a time; every effect is idempotent *)

AtStep(s) == pc = "apply" /\ step = s
Effect == UNCHANGED <<mode, index, possible, pc, round, at, todo, attempt, task, want, seen, aux>>

PublishBody ==
    /\ AtStep("body")
    /\ body' = [body EXCEPT ![at] = stage[at].body]
    /\ step' = "meta"
    /\ UNCHANGED <<meta, journal, stage>> /\ Effect

PublishMeta ==
    /\ AtStep("meta")
    /\ meta' = [meta EXCEPT ![at] = stage[at].meta]
    /\ step' = "remove"
    /\ UNCHANGED <<body, journal, stage>> /\ Effect

\* A version directory still has something in it.
Occupied(v) == body[v] # 0 \/ meta[v] # NoObject \/ journal[v].live \/ stage[v] # NoStage

\* Retiring a version removes its body first, then remove_dir_all takes the
\* other entries one by one in directory order.
RemoveVersion(v) ==
    /\ AtStep("remove")
    /\ v \in journal[at].remove_versions
    /\ Occupied(v)
    /\ IF body[v] # 0
         THEN body' = [body EXCEPT ![v] = 0] /\ UNCHANGED <<meta, journal, stage>>
         ELSE /\ \/ meta[v] # NoObject /\ meta' = [meta EXCEPT ![v] = NoObject] /\ UNCHANGED <<journal, stage>>
                 \/ journal[v].live /\ journal' = [journal EXCEPT ![v] = NoRecord] /\ UNCHANGED <<meta, stage>>
                 \/ stage[v] # NoStage /\ stage' = [stage EXCEPT ![v] = NoStage] /\ UNCHANGED <<meta, journal>>
              /\ UNCHANGED body
    /\ UNCHANGED step /\ Effect

RemovedVersions ==
    /\ AtStep("remove")
    /\ \A v \in journal[at].remove_versions : ~Occupied(v)
    /\ step' = AfterRemove(journal[at])
    /\ UNCHANGED <<body, meta, journal, stage>> /\ Effect

MarkerBody ==
    /\ AtStep("markerBody")
    /\ body' = [body EXCEPT ![journal[at].marker.vid] = journal[at].marker.gen]
    /\ step' = "markerMeta"
    /\ UNCHANGED <<meta, journal, stage>> /\ Effect

MarkerMeta ==
    /\ AtStep("markerMeta")
    /\ meta' = [meta EXCEPT ![journal[at].marker.vid] = journal[at].marker]
    /\ step' = "clearBody"
    /\ UNCHANGED <<body, journal, stage>> /\ Effect

\* Not the code: the metadata of a cleared object stays.
ClearBodyOnly ==
    /\ AtStep("clearBody")
    /\ body' = [body EXCEPT ![at] = 0]
    /\ step' = "retire"
    /\ UNCHANGED <<meta, journal, stage>> /\ Effect
ClearBody ==
    /\ AtStep("clearBody")
    /\ body' = [body EXCEPT ![at] = 0]
    /\ step' = "clearMeta"
    /\ UNCHANGED <<meta, journal, stage>> /\ Effect

ClearMeta ==
    /\ AtStep("clearMeta")
    /\ meta' = [meta EXCEPT ![at] = NoObject]
    /\ step' = "retire"
    /\ UNCHANGED <<body, journal, stage>> /\ Effect

\* Not the code: the journal is not retired.
KeepJournal ==
    /\ AtStep("retire")
    /\ step' = "clean"
    /\ UNCHANGED <<body, meta, journal, stage>> /\ Effect
RetireJournal ==
    /\ AtStep("retire")
    /\ journal' = [journal EXCEPT ![at] = NoRecord]
    /\ step' = "clean"
    /\ UNCHANGED <<body, meta, stage>> /\ Effect

\* The stage goes last; control returns to the caller of apply_publication.
CleanStage ==
    /\ AtStep("clean")
    /\ stage' = [stage EXCEPT ![at] = NoStage]
    /\ step' = "body"
    /\ IF attempt = "recover"
         THEN pc' = "recover" /\ UNCHANGED <<round, todo, attempt>>
         ELSE IF round = "snap"
                THEN pc' = "recover" /\ round' = "main" /\ todo' = {Cur} /\ attempt' = "recover"
                ELSE pc' = "finish" /\ UNCHANGED <<round, todo, attempt>>
    /\ UNCHANGED <<body, meta, journal, mode, index, possible, at, task, want, seen, aux>>

Apply ==
    \/ PublishBody \/ PublishMeta
    \/ \E v \in Vid : RemoveVersion(v)
    \/ RemovedVersions
    \/ MarkerBody \/ MarkerMeta \/ ClearBody \/ ClearMeta
    \/ RetireJournal \/ CleanStage

\* The request succeeds.  An unversioned delete also removes the directory.
Finish ==
    /\ pc = "finish"
    /\ IF task.kind = "delete" /\ mode = "disabled"
         THEN /\ body' = [p \in Place |-> 0]
              /\ meta' = [p \in Place |-> NoObject]
              /\ journal' = [p \in Place |-> NoRecord]
              /\ stage' = [p \in Place |-> NoStage]
         ELSE UNCHANGED <<body, meta, journal, stage>>
    /\ End("ok")
    /\ UNCHANGED <<mode, possible, seen, gens, unused, failures>>

-----------------------------------------------------------------------------
(* Failures *)

\* The step at pc fails.  commit_publication answers a failure of its own
\* first application by recovering, as long as the journal is there; otherwise
\* it tries to clean the stage, and the request fails.
Fault ==
    /\ failures < MaxFailures
    /\ failures' = failures + 1
    /\ round # "boot"
    /\ pc \in {"recover", "plan", "mode", "stageBody", "stageMeta", "commit", "apply", "finish"}
    /\ IF pc = "apply" /\ attempt = "commit" /\ journal[at].live
         THEN /\ attempt' = "retry" /\ step' = FirstStep(journal[at])
              /\ UNCHANGED <<stage, journal, body, index, pc, round, at, todo, task, want, landed, reply>>
         ELSE /\ UNCHANGED <<journal, body>>
              /\ IF pc = "commit" \/ (pc = "apply" /\ attempt = "commit")
                   THEN stage' \in {stage, [stage EXCEPT ![at] = NoStage]}
                   ELSE UNCHANGED stage
              /\ End("err")
    /\ UNCHANGED <<meta, mode, possible, seen, gens, unused>>

\* Process death: files survive, memory does not.
Crash ==
    /\ failures < MaxFailures
    /\ failures' = failures + 1
    /\ pc \notin {"down", "refused"}
    /\ pc' = "down"
    /\ index' = FALSE /\ possible' = FALSE
    /\ round' = "boot" /\ at' = Cur /\ todo' = {} /\ attempt' = "recover" /\ step' = "body"
    /\ task' = NoTask /\ want' = NoPlan /\ seen' = NoStage /\ landed' = FALSE
    /\ reply' = IF task.kind = "none" THEN reply ELSE "none"
    /\ UNCHANGED <<files, gens, unused>>

\* Not the code: startup skips recovery.
RestartUnrecovered ==
    /\ pc = "down"
    /\ pc' = "recover"
    /\ round' = "boot" /\ todo' = {}
    /\ UNCHANGED <<files, index, possible, at, attempt, step, task, want, seen, aux>>
\* FilesystemStorage::try_new: recover every publication ...
Restart ==
    /\ pc = "down"
    /\ pc' = "recover"
    /\ round' = "boot" /\ todo' = Place
    /\ UNCHANGED <<files, index, possible, at, attempt, step, task, want, seen, aux>>

\* ... then rebuild the index and the protection proof from current metadata,
\* refusing to open when body and metadata are not both there.
Open ==
    /\ pc = "recover" /\ round = "boot" /\ todo = {}
    /\ IF (body[Cur] = 0) # (meta[Cur].gen = 0)
         THEN pc' = "refused" /\ UNCHANGED <<index, possible>>
         ELSE /\ pc' = "idle"
              /\ index' = (body[Cur] # 0)
              /\ possible' = (meta[Cur].attr = "protected")
    /\ round' = "open" /\ at' = Cur
    /\ UNCHANGED <<files, todo, attempt, step, task, want, seen, aux>>

Serve == \E t \in Requests : Begin(t)

\* Steps the process takes by itself once a request or a startup has begun.
Proceed ==
    \/ \E p \in Place : RecoverPlace(p)
    \/ RecoverDone
    \/ PlanPut \/ PlanDelete \/ SweepVersions \/ PlanDeleteVersion
    \/ Touch \/ SetMode \/ AssignNull \/ OpenVersion \/ Read
    \/ StageBody \/ StageMeta \/ Commit \/ Apply \/ Finish
    \/ Open

Next == Serve \/ Proceed \/ Fault \/ Crash \/ Restart

Spec == Init /\ [][Next]_vars
\* A running process keeps running: nothing blocks a request once it holds the
\* key's mutex.  Whether a dead process is started again is not assumed.
FairSpec == Spec /\ WF_vars(Proceed)

-----------------------------------------------------------------------------
(* Properties *)

\* A pending decision that explains why the pair at p may be half changed.
Excused(p) ==
    \/ journal[p].live /\ (journal[p].publish \/ journal[p].clear_current)
    \/ /\ p \in Vid /\ Decided
       /\ \/ p \in journal[Cur].remove_versions
          \/ journal[Cur].marker.gen # 0 /\ journal[Cur].marker.vid = p

\* Body and metadata of a place always belong to the same generation, unless
\* a journal that recovery will complete says otherwise (publication.rs).
Coherent == \A p \in Place : ~Excused(p) => body[p] = meta[p].gen

\* Startup never finds a payload without metadata or metadata without a
\* payload, so rebuild_bucket_index never refuses to open the store.
NeverRefused == pc # "refused"

\* A read that succeeds returns one whole generation, and what it returned is the
\* current object or a version of the key as long as no other request has begun.
ReadsWhole ==
    /\ seen.body = seen.meta.gen
    /\ task.kind = "none" /\ reply = "ok" /\ seen.body # 0 /\ pc = "idle"
         => seen.meta \in {LogicalCurrent} \cup {LogicalVersion(v) : v \in Vid}

\* A false azure_protection_possible is a proof: as long as the process is
\* serving, no current object carries (or is about to recover) protection.
ProofSound ==
    pc # "down" /\ round # "boot" /\ ~possible => LogicalCurrent.attr # "protected"

\* What a serving process answers from is true of the files: the generation that
\* a read returns and the absence that the proof stands for.
ServesTrue == ReadsWhole /\ ProofSound

\* The generations that current and history hold between them (0 is none).
Held == ({LogicalCurrent.gen} \cup {LogicalVersion(v).gen : v \in Vid}) \ {0}

\* Once versioning is enabled nothing but the purge of a version, or the
\* promotion and null-replacement it allows, makes a generation disappear.
HistoryPreserved ==
    [][\A g \in Held \ Held' :
         \/ task.kind = "deleteVersion"
         \/ mode = "disabled"
         \/ mode = "suspended" /\ (\A v \in Uuid : LogicalVersion(v).gen # g)
                               /\ (LogicalCurrent.gen = g => IdOf(LogicalCurrent) = NullId)]_vars

\* The journaled protocol implements the atomic object history.
History == INSTANCE ObjectHistory WITH
    cur <- LogicalCurrent, hist <- LogicalHistory, pending <- task.kind
Implements == History!Spec

\* Every request, and every startup recovery, comes to an end: replaying a
\* journal always retires it, so recovery never loops.
Settles == pc \notin {"idle", "down"} ~> pc \in {"idle", "down"}
=============================================================================
