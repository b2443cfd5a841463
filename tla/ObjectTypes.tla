----------------------------- MODULE ObjectTypes -----------------------------
(***************************************************************************)
(* Objects, version identities and versioning modes of the object store,   *)
(* shared by the abstract history and the journaled protocol.              *)
(***************************************************************************)
EXTENDS Naturals

CONSTANTS
    Uuid,       \* version identities handed out by Uuid::new_v4
    NullId,     \* the version identity "null"
    NoVid       \* Object.version_id = None

ASSUME IdentityAssumption ==
    /\ NullId \notin Uuid
    /\ NoVid \notin Uuid \cup {NullId}

Vid == Uuid \cup {NullId}
Modes == {"disabled", "enabled", "suspended"}
Attrs == {"plain", "protected"}
Kinds == {"put", "delete", "deleteVersion", "touch", "setMode", "get", "getVersion"}

(***************************************************************************)
(* An object.  gen stands for the body it carries and, because every       *)
(* generation is stamped when it is made, for last_modified; attr is       *)
(* "protected" when the metadata holds Azure protection state.             *)
(***************************************************************************)
Object == [gen: Nat, vid: Vid \cup {NoVid}, marker: BOOLEAN, attr: Attrs]
NoObject == [gen |-> 0, vid |-> NoVid, marker |-> FALSE, attr |-> "plain"]

\* current_object.version_id.unwrap_or("null")
IdOf(o) == IF o.vid = NoVid THEN NullId ELSE o.vid
Versioned(o) == [o EXCEPT !.vid = IdOf(o)]

\* Not the code: a suspended bucket keeps no snapshot.
NeedsSnapshotEnabled(m, o) == o.gen # 0 /\ m = "enabled"
\* The current object may be replaced: its snapshot, where one is owed, is kept.
NeedsSnapshot(m, o) ==
    /\ o.gen # 0
    /\ \/ m = "enabled"
       \/ m = "suspended" /\ IdOf(o) # NullId

\* The identities a new generation may get: None, "null" or a fresh UUID.
NewVids(m) ==
    CASE m = "disabled" -> {NoVid}
      [] m = "suspended" -> {NullId}
      [] OTHER -> Uuid
=============================================================================
