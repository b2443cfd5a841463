---------------------------- MODULE ObjectHistory ----------------------------
(***************************************************************************)
(* What FilesystemStorage promises about ONE key of one bucket: a current  *)
(* object and a history of version snapshots that change only by whole     *)
(* generations.  Nothing here knows about files, journals or recovery;     *)
(* Publication.tla shows that the journaled file protocol implements this  *)
(* specification across crashes and I/O errors.                            *)
(***************************************************************************)
EXTENDS ObjectTypes

VARIABLES
    mode,       \* versioning marker of the bucket
    cur,        \* the current object (gen = 0: the key has none)
    hist,       \* version identity -> snapshot (gen = 0: none)
    pending,    \* the kind of request being served ("none" when idle)
    landed,     \* the request's own effect has been decided
    reply       \* outcome of the last request ("none": none yet, or lost)

vars == <<mode, cur, hist, pending, landed, reply>>

Replaceable == NeedsSnapshot(mode, cur) => hist[IdOf(cur)] = Versioned(cur)

TypeOK ==
    /\ mode \in Modes
    /\ cur \in Object
    /\ hist \in [Vid -> Object]
    /\ pending \in Kinds \cup {"none"}
    /\ landed \in BOOLEAN
    /\ reply \in {"none", "ok", "err"}

Init ==
    /\ mode = "disabled"
    /\ cur = NoObject
    /\ hist = [v \in Vid |-> NoObject]
    /\ pending = "none"
    /\ landed = FALSE
    /\ reply = "none"

Begin(kind) ==
    /\ pending = "none"
    /\ pending' = kind
    /\ landed' = FALSE
    /\ reply' = "none"
    /\ UNCHANGED <<mode, cur, hist>>

\* The current generation is copied into history under its own identity.
Snapshot ==
    /\ pending \in {"put", "delete"}
    /\ ~landed
    /\ NeedsSnapshot(mode, cur)
    /\ hist' = [hist EXCEPT ![IdOf(cur)] = Versioned(cur)]
    /\ UNCHANGED <<mode, cur, pending, landed, reply>>

\* A put replaces the whole current generation; the null version is replaced
\* rather than kept.
LandPut ==
    /\ pending = "put"
    /\ ~landed
    /\ Replaceable
    /\ cur' \in Object
    /\ cur'.gen # 0 /\ ~cur'.marker
    /\ cur'.vid \in NewVids(mode)
    /\ hist' = IF mode = "suspended" THEN [hist EXCEPT ![NullId] = NoObject] ELSE hist
    /\ landed' = TRUE
    /\ UNCHANGED <<mode, pending, reply>>

\* A delete removes the current object; in a versioned bucket a marker is kept.
LandDelete ==
    /\ pending = "delete"
    /\ ~landed
    /\ Replaceable
    /\ cur' = NoObject
    /\ IF mode = "disabled"
         THEN cur.gen # 0 /\ UNCHANGED hist
         ELSE \E v \in NewVids(mode) :
                /\ hist' = [hist EXCEPT ![v] = hist'[v]]
                /\ hist'[v] \in Object
                /\ hist'[v].gen # 0 /\ hist'[v].marker /\ hist'[v].vid = v
    /\ landed' = TRUE
    /\ UNCHANGED <<mode, pending, reply>>

\* w is the most recent snapshot other than v.
IsLatest(w, v) ==
    /\ w # v /\ hist[w].gen # 0
    /\ \A x \in Vid \ {v} : hist[x].gen <= hist[w].gen

\* One version is purged.  If it was current, or nothing is current, the most
\* recent remaining snapshot is moved to current unless it is a delete marker.
LandDeleteVersion ==
    /\ pending = "deleteVersion"
    /\ ~landed
    /\ \E v \in Vid :
         LET purgesCurrent == cur.gen # 0 /\ cur.vid = v
             Promotes(w) == /\ purgesCurrent \/ cur.gen = 0
                            /\ IsLatest(w, v) /\ ~hist[w].marker
         IN /\ purgesCurrent \/ hist[v].gen # 0
            /\ \/ \E w \in Vid :
                    /\ Promotes(w)
                    /\ cur' = hist[w]
                    /\ hist' = [hist EXCEPT ![v] = NoObject, ![w] = NoObject]
               \/ /\ \A w \in Vid : ~Promotes(w)
                  /\ cur' = IF purgesCurrent THEN NoObject ELSE cur
                  /\ hist' = [hist EXCEPT ![v] = NoObject]
    /\ landed' = TRUE
    /\ UNCHANGED <<mode, pending, reply>>

\* Tags, ACL, storage class and provider metadata change in place.
LandTouch ==
    /\ pending = "touch"
    /\ ~landed
    /\ cur.gen # 0
    /\ \E a \in Attrs : cur' = [cur EXCEPT !.attr = a]
    /\ landed' = TRUE
    /\ UNCHANGED <<mode, hist, pending, reply>>

LandMode ==
    /\ pending = "setMode"
    /\ ~landed
    /\ mode' \in {"enabled", "suspended"}
    /\ landed' = TRUE
    /\ UNCHANGED <<cur, hist, pending, reply>>

\* After the mode is recorded an unversioned current object becomes "null".
AssignNull ==
    /\ pending = "setMode"
    /\ landed
    /\ cur.gen # 0 /\ cur.vid = NoVid
    /\ cur' = Versioned(cur)
    /\ UNCHANGED <<mode, hist, pending, landed, reply>>

\* The request ends.  Success is reported only for an effect that landed;
\* a failure or a crash may hide one that did.
Return(outcome) ==
    /\ pending # "none"
    /\ outcome = "ok" => landed \/ pending \in {"get", "getVersion"}
    /\ pending' = "none"
    /\ landed' = FALSE
    /\ reply' = outcome
    /\ UNCHANGED <<mode, cur, hist>>

Next ==
    \/ \E kind \in Kinds : Begin(kind)
    \/ Snapshot
    \/ LandPut \/ LandDelete \/ LandDeleteVersion \/ LandTouch \/ LandMode \/ AssignNull
    \/ \E outcome \in {"none", "ok", "err"} : Return(outcome)

Spec == Init /\ [][Next]_vars
=============================================================================
