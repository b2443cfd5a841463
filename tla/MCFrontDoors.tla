---------------------------- MODULE MCFrontDoors ----------------------------
(* One bucket name, and the scenes that make each pair of doors meet.       *)
EXTENDS FrontDoors

CONSTANTS b1, b2

MCRetentions == {2}

Scene(asks, names, generations) == [asks |-> asks, names |-> names, writes |-> generations]

MCScenes == {
    \* Azure alone
    Scene({"container", "lease", "worm", "delete", "snapshot"}, {b1}, 3),
    Scene({"container", "azHistory", "worm", "delete"}, {b1}, 2),
    Scene({"container", "azHistory", "delete"}, {b1}, 3),
    Scene({"azHistory", "worm", "delete"}, {b1}, 3),
    Scene({"azHistory", "lease", "delete"}, {b1}, 4),
    Scene({"modify", "lease", "delete", "lifecycle"}, {b1}, 4),
    Scene({"block", "delete"}, {b1}, 4),
    \* S3 with Object Lock, lifecycle rules, admin requests and uploads
    Scene({"s3Bucket", "s3Lock", "s3Object", "s3Delete", "lifecycle"}, {b1}, 4),
    Scene({"s3Bucket", "s3Versioning", "s3Object", "s3Copy", "s3MultiDelete", "conditions"}, {b1, b2}, 3),
    Scene({"s3Bucket", "s3Lock", "s3Object", "upload", "admin"}, {b1}, 3),
    Scene({"s3Bucket", "s3Object", "upload", "mcp", "admin"}, {b1}, 3),
    \* GCS retention and soft delete, then S3 and the admin API beside it
    Scene({"gcsBucket", "gcsProtect", "gcsObject", "gcsUpload", "conditions", "lifecycle"}, {b1}, 4),
    Scene({"gcsBucket", "gcsProtect", "gcsObject", "s3Versioning", "s3Object"}, {b1}, 3),
    Scene({"gcsProtect", "gcsObject", "s3Versioning", "admin", "adminVersioning"}, {b1}, 2),
    \* OCI and its pre-authenticated requests
    Scene({"oci", "par", "upload"}, {b1, b2}, 2),
    \* the other doors around an Azure lease, hold or policy
    Scene({"oci", "lease"}, {b1, b2}, 2),
    Scene({"worm", "gcsObject"}, {b1, b2}, 2),
    Scene({"lease", "worm", "s3Object", "s3Delete", "admin", "lifecycle"}, {b1, b2}, 2),
    Scene({"lease", "worm", "s3Versioning", "s3Object", "s3Delete"}, {b1}, 3),
    \* a deleted container that another door keeps using, also under Object Lock
    Scene({"container", "s3Bucket", "s3Object", "gcsProtect"}, {b1}, 3),
    Scene({"container", "s3Bucket", "s3Lock", "s3Object"}, {b1}, 3),
    \* Object Lock and an admin who suspends versioning
    Scene({"s3Bucket", "s3Lock", "s3Object", "s3Delete", "admin", "adminVersioning"}, {b1}, 2),
    \* protection that is set between the check and the act of an MCP tool
    Scene({"lease", "worm", "mcp", "upload", "admin"}, {b1}, 3),
    Scene({"s3Bucket", "s3Lock", "s3Object", "upload", "mcp"}, {b1}, 3),
    Scene({"gcsProtect", "gcsObject", "mcp"}, {b1}, 3)
}

\* Scenes in which the code leaves what the documentation says.
MCPurgeScenes == {Scene({"container", "s3Bucket", "s3Versioning", "s3Object"}, {b1}, 3)}
MCLockScenes == {Scene({"s3Bucket", "s3Lock", "s3Object", "admin", "adminVersioning"}, {b1}, 3)}
MCToolScenes == {Scene({"worm", "mcp", "admin"}, {b1}, 3)}
=============================================================================
