# TLA+ models of the Sqrzl emulator

The Sqrzl emulator is one process that offers S3, Azure Blob, GCS and OCI object
storage, mail capture (SMTP, SES, SendGrid, ACS Email) and text capture (AWS,
Twilio, ACS SMS) over a single data root. The modules here come in two layers.
The store modules model durable filesystem effects one by one, so that errors and
process death fall between any two of them. The door modules model the request
handlers above the stores: what each front door checks and does to the state all
of them share. TLC checks small instances; TLAPS proves nearly every safety property
the runs check, of both layers, for every value of the constants. Paths below are relative to the
repository; `PROJECT.json` has the definition-by-definition map to source lines.

## 1. The system

### Structure

- **Listeners.** A provider API listener (S3, Azure, GCS, OCI, mail and SMS
  adapters), a UI/admin listener with MCP tools, an SMTP listener, and the
  lifecycle executor's loop.
- **Shared state.** `FilesystemStorage` (objects, buckets, uploads, provider
  state), `FilesystemMailStore` (`_mail`) and `FilesystemSmsStore` (`_sms`), all
  below one data root that `storage/ownership.rs` locks for a single writer.
- **Serialisation.** The operation gate (`storage/coordination.rs`) is one mutex
  per storage. The adapter registry, the admin blob API, the lifecycle run and
  some MCP tools hold it over a whole request; request spooling, two MCP tools,
  the mail and SMS stores, the admin text API and SMTP do not. Inside the storage
  each key has a mutex; the mail and SMS stores have one write mutex each, and
  their reads take no lock.

### Components

| component | state | operations | hard because | what makes it correct | modules |
|---|---|---|---|---|---|
| Object publication and version history | `object.blob`, `object.meta.json`, journal, stages, `versions/`, versioning marker, index entry, absence proof | put, metadata update, delete, delete version, get, versioning, recovery | several files per generation; errors after the decision; process death | body and metadata belong together; nothing decided is lost; startup always opens; atomic history | `Publication`, `ObjectHistory` |
| Multipart uploads | `upload.json`, part files, uploads cache, old `uploads.json` | create, upload part, list, complete, abort | cache, record and part are three writes | acknowledged parts survive; the object has the manifest's bytes; ended uploads stay gone | `Multipart` |
| Bucket store and startup | directory, name, identity, metadata and configuration files, Azure absence proof | create, delete, get, update, configure, admit protection, open | files written one after another; removal not atomic; cached proof | acknowledged buckets stay; startup refuses only real damage; proof never wrong | `Buckets` |
| GCS resumable uploads | session record, its copy in memory, chunks, cancellation decision | initiate, status, data, complete, cancel, expire, recover | retries, overlaps, lost answers; decision and session in separate files | content exact; acknowledged bytes kept; cancellation final | `GcsResumable` |
| Capture journal | transactions, intents, commit markers, pending files, destinations | capture, roll back, recover, delete, list | lock-free readers, failing rollback, hidden commits | batches atomic for readers and crashes | `Capture`, `CaptureLog` |
| Text delivery | messages, delivery state, callback attempts, destinations | inject, transition, callback, retry, delete, look up | state read before the lock; HTTP answer lost; deletion beside callbacks | endpoints are told one story; every callback is inspectable | `TextDelivery` |
| ACS Email and ACS SMS repeatability | replay records, operation records, messages of older builds | send, repeat, poll, delete | concurrent repeats, hidden commits, restarts | at most one capture; one answer | `EmailRepeat`, `AcsSms` |
| Azure adapter | containers and delayed deletion, leases, policies, holds, snapshots, versions, blocks in memory and on disk | every mutating request | other doors use the same bucket; several durable effects per request | protection and leases honoured by all; block lists composable | `Namespace`, `AzureBlob` |
| S3, GCS, OCI adapters | Object Lock, versioning, retention, soft delete, generations, pre-authenticated requests | every mutating request | as above | one owner of the history; conditions hold at the write; a token stays in its scope | `S3Objects`, `GcsObjects`, `OciObjects` |
| Lifecycle, admin blob API, MCP tools | a tool's check that is not yet acted on | expire, transition, admin requests, ungated tools | checks that are stale when used | never removes what is protected | `Housekeeping`, `FrontDoors` |
| Listings and listing index | key index with directory children, page tokens | insert, remove, rebuild, page | the bucket changes between pages | what stays is listed once; a listing ends | `Listing` |
| Downloads and revalidation | pins and validators of a client | ranged reads, conditional reads | metadata and bytes read separately | a pinned download is of one generation; 304 only when unchanged | `Downloads` |
| Authentication | signatures, links, tokens, clocks, admin cookies | verify, login, logout, restart | a dozen schemes with their own windows | only what the holder signed, in its time and scope | `Signatures`, `Access` |
| Policies and ACLs | statements, grants | evaluate | order, defaults, condition operators | a denial wins; order does not matter | `BucketPolicy` |
| MCP keys | cached key set, refresh cool-down | authenticate, refresh | rotation and outage beside concurrent calls | no key past its life; new keys are learned | `McpAuth` |
| SMTP, mail adapters, fan-out | session, transaction, mailboxes | commands, DATA, parse, file, roll back | limits inside lines; failures in a fan-out | filed is what was sent; the answer is true | `Smtp`, `MailAdapters`, `Fanout` |
| AWS and Twilio adapters | none | parse, capture | repeated and conflicting fields | captured is what every field says | `TextAdapters` |
| Fault injection | failpoint of a request | act before or after the handler | an answer that hides a commit | a client can recover by retrying | `Faults` |
| Checksums | digests stored with objects and parts | declare, verify, store, give out | digests outlive bytes | an accepted digest is that of the bytes | `Checksums` |
| Writer ownership, wrappers, metrics, HTTP and XML plumbing, console | none of interest | | | | not modelled (section 7) |

The hazards of this code, each at its line with the properties that watch it, are
in `PROJECT.json`.

## 2. Modules and their correspondence to the code

### Stores

**`ObjectTypes`, `ObjectHistory`, `Publication`** (`storage/filesystem/publication.rs`,
`storage/filesystem.rs`, `storage/filesystem/io.rs`). One key. `ObjectHistory` is
the promise: a current object and a version history that change atomically.
`Publication` has one action per rename, removal and write: staging, the journal,
`apply_publication`, its retry in place, retirement, the recovery that precedes
every operation, and `try_new`. An error is taken before the effect of the step
that fails; a step whose sync failed is the failure of the next one.

**`Multipart`** (`MultipartStore`, upload records). A part's content stands for
its ETag and CRC32C. The publication at completion is one step, which
`Publication` justifies.

**`Buckets`** (bucket operations, `try_new`, `recover_uncommitted_bucket`,
`admit_azure_protection`). `Gated` says whether callers hold the operation gate;
`MCBuckets` lets each behaviour choose. Object writes appear as the admission of
protection metadata and their publication, because that is what the absence proof
is about.

**`GcsResumable`** (`complete_resumable_upload`, `load_`/`remove_resumable_session`,
`finish_cancelled_xml_upload`, `recover_gcs_cancellations`, provider state and
upload payload stores). A chunk is the range of positions it covers, a record is
the list of positions where its chunks end. Checksums, retention and generation
conditions are one nondeterministic refusal of the final request. The client is
honest about content and length, and repeats and overlaps ranges freely.

**`CaptureLog`, `Capture`** (`capture.rs`, `mail/filesystem.rs`,
`sms/filesystem.rs`). `CaptureLog` is the promise: a batch becomes visible at one
instant. `Capture` has intent, pending files, renames, commit marker, rollback,
recovery, deletion, and a listing that runs between any two of them.

**`TextDelivery`** (`sms/simulator.rs`, `sms/filesystem.rs`, `api/admin_text.rs`,
`sms/providers/twilio.rs`). Admin requests as concurrent clients; each reads
without the lock and writes under it; a callback is sent between.

**`EmailRepeat`** (`mail/providers/acs.rs`), **`AcsSms`** (`sms/providers/acs.rs`).
The send handlers from headers to answer. A capture is one step that may commit
and still report an error, which is what `Capture` allows.

### The shared namespace

**`Namespace`** is one bucket as all doors see it: its objects with their
provider metadata, versions, mode flags of each provider, and the clock. A request
that holds the gate is one step from its first read to its last write; `Serve`
applies its list of durable effects, or any prefix of it when an I/O error or a
crash cuts it short. Each effect is the atomic step that `ObjectHistory` promises.

**`AzureBlob`** (`providers/azure.rs`), **`S3Objects`** (`server/handlers/object.rs`,
`bucket.rs`), **`GcsObjects`** (`providers/gcs.rs`), **`OciObjects`**
(`providers/oci.rs`) and **`Housekeeping`** (`lifecycle.rs`, `api/admin.rs`,
`api/mcp.rs`) are that state's operations, with the refusals in the order of the
code. **`FrontDoors`** composes them and states the properties. A *scene* is the
set of request kinds a behaviour draws from; it keeps an instance small without
changing any operation.

**`Listing`** (`storage/lockfree_index.rs`, the listing handlers of each door) and
**`Downloads`** (`object/bounded.rs`, the GET handlers and conditional headers).
Paths are numbers in the byte order of the names. A page is one step; a read is two
(metadata, then metadata and bytes), and writers that do not take the gate come in
between.

### Access

**`Signatures`**: a keyed digest is the pair of its secret and the text it is made
of, so two canonical strings are equal exactly when their fields are. **`McpAuth`**:
times are ages that stop at the bound the code compares them with, so that time may
go on for ever. **`BucketPolicy`**: names are sequences of words, so that wildcards
mean something. **`Access`** composes the three: the holder signs one request, and
requests arrive that carry its signature with up to two fields overwritten, at any
later time.

### Ingress

**`Smtp`** reads lines of tokens under the limits of `read_data`. **`MailAdapters`**
and **`TextAdapters`** take documents and forms with fields missing, repeated or
spoiled. **`Fanout`** files a batch copy by copy with failures and rollback.
**`Faults`** wraps a handler in failpoints beside retrying clients. **`Checksums`**
has one key and one multipart upload, written through every door; a digest is the
pair of its algorithm and its bytes.

### Composition

Within a layer modules are composed by `EXTENDS` (`FrontDoors`, `Access`,
`MCIngress`). Between layers the composition is by contract: `Multipart`,
`GcsResumable`, `Buckets` and `Namespace` use the atomic object write that
`Publication` implements; `EmailRepeat`, `AcsSms`, `TextDelivery` and `Fanout` use
the atomic capture that `Capture` implements.

## 3. Runs

| run | instance | holds |
|---|---|---|
| `publication` | 2 UUIDs, 2 generations, 2 failures (errors or crashes), fair | `Coherent`, `NeverRefused`, `ServesTrue` (reads are whole, and the absence proof is sound), `HistoryPreserved`, refinement of `ObjectHistory`, `Settles` |
| `uploads` | one protocol per behaviour. Multipart: 1 upload, possibly from an old index, 2 parts, contents of equal and different length. Resumable: content of 5 positions, quantum 2, 3 chunks, 2 creations of the bucket, 1 error, 1 crash | `Integrity`, `PartsKept`; `Exact`, `AckedKept`, `CancelFinal` |
| `buckets` | 1 key, plain and protected metadata, 1 error; 2 crashes with the gate, 1 without | `CommittedStays`, `AbsenceSound`, `RefusalExplainedGated` |
| `capture` | 2 transactions, 2 message files in one directory, 1 replay record, 2 failures, 1 listing, fair | `Recoverable`, `ListsWhole`, refinement of `CaptureLog`, `Settles` |
| `text_delivery` | 1 outbound, 1 inbound message, 2 clients, 2 attempts, 1 failure | `OneStory`, `Accounted` (recorded callbacks are inspectable, deletions purge them) |
| `front_doors` | 25 scenes over 1 bucket and up to 2 keys, 2 to 4 generations, 3 units of time, 1 lease id, 1 token, any prefix of a request's effects | `WormKept`, `LeaseHonoured`, `OneOwner`, `PendingUnprotected`, `BlocksStored`, `ParScoped` |
| `front_doors_purge` | one scene: containers, S3 buckets, versioning and objects | violates `ForeignKept` (section 6) |
| `front_doors_lock` | one scene: an Object Lock bucket and admin requests | violates `LockVersioned` (section 6) |
| `front_doors_tools` | one scene: Azure holds and policies, admin requests and the ungated MCP tools | violates `ToolsKeepWorm` (section 6) |
| `reads` | keys `a`, `b/`, `b/c`, `b/d/e`, `z`, pages of 1 and 2, 2 writes beside the client, ten kinds of listing, downloads and revalidations at 4 doors, GCS downloads by JSON and by XML | `ListingsTrue`, `DownloadWhole`, `CacheCurrent`, `Ends` |
| `access` | 9 doors, clocks ahead by 0 or 2, time up to 6 with days of 4, 2 processes, policies of 2 statements, 2 MCP clients, 2 keys, key life 2, cool-down 1 | `CredentialsHonoured`, `StatementsCompose`, `KeysFollowed` |
| `ingress` | scenes SMTP, mail, text, ACS texts, ACS mail (1 request id, 2 operation ids, good, refused and oversized bodies, 2 clients, any number of sends), faults (2 clients with up to 2 attempts, of which one carries failpoints), checksums | `Transacted`, `AnsweredAsFiled`, `SentOnce`, `AtMostOnce`, `AcceptedKept`, `FaultsHonest`, `ChecksumsHonoured` |

Each property of a run that holds has a mutant of a mapped definition, a plausible
bug at that place of the code, that breaks it. The scenes of `front_doors` let every
pair of doors meet, the combinations of section 6 included: Object Lock beside an admin
who suspends versioning and beside the purge of a container, and the MCP tools beside
leases, holds, policies, locks and retention.

**Bounds.** Two failures are the least that reach "the recovery of a failure
fails"; in `publication` and `capture` they are shared by errors and crashes. Two
generations reach replacement, snapshot, promotion and purge; the Azure and
lifecycle scenes of `front_doors` have three or four, for a locked version below a
delete marker. Three chunks with a quantum of two over five positions reach a
repeated chunk of another length, an overlap and a short final chunk. In `reads`
two writes are the least that remove and add an entry on both sides of a page
token, and the keys have a folder that is also a key. In `access` a time limit of
six units (half an hour) exceeds every window of the schemes by one, and crosses a
day. `ingress` has limits of a few tokens so that each is met from both sides.
`Multipart`, `EmailRepeat`, `McpAuth` and `Checksums` need no bound on failures,
requests or time: their state is finite. `text_delivery` uses the symmetry of clients
and of attempts, `uploads` that of the contents of one length, `ingress` that of the
mail clients and operation ids; none of them checks a liveness property. Deadlock is ignored where the bounds on
generations, transactions, failures or time end the behaviours.

**Fairness.** `Settles` assumes weak fairness of the steps of the process that
holds the key's mutex (`Publication`) or the store's mutex (`Capture`): straight
code without waits. Restart after a death is not assumed, nor that errors stop,
only that they are finitely many by the bound. `Ends` assumes that the client keeps
asking for its next page, since the property is about a client that does.
`KeysFollowed` assumes that time passes and that a call's own steps are taken
(weakly fair, for they run on the async runtime), and that the issuer's answers get
through again and again while it is in reach (strongly fair: outages may recur and
each cuts an answer off, as the fetch's timeout does).

## 4. Proofs

All theorems are for arbitrary constants under the named assumptions of the
modules (distinct placeholders, sets of naturals, non-negative bounds; further
ones are below). A proof module covers the components that its theorems' modules
have in common.

| module | theorems | inductive invariant |
|---|---|---|
| `ObjectProofs`, publication | `CrashAtomic`, `AlwaysOpens`, `TypeCorrect` | `IInv`: `Coherent` and `NeverRefused` with what a journal may hold (`JournalOK`), what is left to recover (`RecoverOK`), what was planned and staged (`PlanOK`, `StagingOK`) and how far an application is (`ApplyOK`): only together do they say that an incoherent pair is always about to be completed |
| | `ServedTrue`, `HistoryKept`, `Refinement` (of `ObjectHistory`) | `LInv`, beside `IInv`: what the request in flight has drawn and decided (`TaskOK`, `IdentityOK`, `IntentOK`), which journals can be live together (`DecisionOK`), what has landed and what was deleted (`LandedOK`, `DeletedOK`), what the process remembers (`ServeOK`) |
| | `RequestsAdvance` | `RequestInv`: a plan is made before any publication, and the identity that a request waited for is there until its plan draws it. The measure falls lexicographically: the leg of the request (`Leg`), the places and decisions left (`Undone`), the effects of the decision at hand (`Applied`), what the version directories hold (`Snapshots`). Only a retired decision lets the effects start again |
| `ObjectProofs`, reads | `ListingsAreTrue`, `DownloadsAreWhole`, `CachesAreCurrent`, `PagesAdvance` | `ReadsInv`: no two versions share what a client can pin (`BucketOK`), the index agrees with the store key by key and folder by folder (`IndexOK`), a listing has returned all that lies before its marker and stays (`ListOK`), a download or a cached copy is of one version (`GetOK`). `PagesAdvance` follows from it door by door (`PageGoesOn`) |
| `CaptureProofs`, journal | `LeftoversNamed`, `RecoveryCleans`, `WholeListings`, `NothingCapturedIsLost`, `Refinement` (of `CaptureLog`), `WriterAdvances` | `IInv`: an undecided transaction owns the destinations its intent names (`OwnOK`), where a capture or rollback stands (`CaptureOK`, `UndoOK`), and what a reader's snapshot still has to see (`ReaderOK`). `SettleInv` adds that there is something left where the writer goes on; its measure is the stage of the request (`Stage`) and the sets of what is left to do in it (`Todo`) |
| `CaptureProofs`, SMTP | `MailIsTransacted` | `SmtpInv`: the two sides agree on the transaction and on where they are in it (`AgreeOK`), the batch in filing is the message taken last (`BatchOK`), and each of its mailboxes has its copy or is still to be written (`CopiesOK`). Below it are lemmas on single lines: a line of a body, its dot doubled and cut anywhere by a limit, is never read as the end (`LineRead`), and the terminator always is, also when nothing is kept any more (`EndRead`) |
| `CaptureProofs`, mail and text adapters | `AnswersAreTrue` | `IngressInv`: what the fan-out has filed, what it has still to file and what its rollback still covers are together one batch, mailbox by mailbox and message by message (`FiledOK`); request, batch and answer belong together (`MailOK`); a text that was captured is the one its request makes (`TextInv`). Below it, the recipients of a flattened list are those of its parts (`Flattened`, by descent to the shortest counterexample), a person named once has one copy (`DistinctPlaces`, `OnePersonsBox`), a batch that is filed is all that was asked for (`WholeFiled`), and what each text door says of a form whose fields are not repeated (`SnsSays`, `VoiceSays`, `TwilioSays`) |
| `MultipartProofs`, uploads | `ObjectsIntact`, `AcknowledgedPartsKept`, `EndedStaysGone`, `CacheIsDisk` | acknowledged parts against record and file (`SettledOK`, `BytesOK`), the request in flight (`RequestOK`, `MatchOK`), ended uploads (`EndOK`) |
| `MultipartProofs`, digests | `ChecksumsAreHonoured` | `SumInv`: every digest stored with the object and the parts is that of the bytes beside it, for the door that wrote them (`Truthful`) |
| `BucketsProofs` | `ProofIsSound` (with or without the gate), `BucketsKept`, `CreationTimeStable`, `RefusalExplained` and `RefusalExplainedWithGate` (under the gate) | how far a creation is (`NameOK`), one operation at a time under the gate (`GateOK`), what a nameless directory means (`DamageOK`) |
| `GcsResumableProofs` | `ContentExact`, `AcknowledgedBytesKept`, `NothingLeft`, `CancellationRemembered`, `CancellationFinal` | what is gone at each stage of a removal (`RemovalOK`), that a decision exists as long as anything of the session does (`DecisionOK`), that disk, memory and the record about to be saved never fall behind the acknowledgement (`AckedOK`), that every counted chunk is the one it was saved for (`ExactOK`) |
| `FrontDoorsProofs`, doors | `DoorsInvariance`, `PurgesUnprotected`, `HistoryHasOneOwner`, `LeasesAreHonoured`, `WormsAreKept`, `ParsStayInScope`, `BlocksAreStored` | `DoorsInv`: the namespace is typed, its generations are numbered, mode flags and metadata occur only in the combinations the doors can bring about, a recorded deletion finds nothing protected (`Good`), and an MCP tool waits only where the scene has it (`PendingOK`). Each storage effect preserves it, so every prefix of a request's effects does; the action properties then follow request by request. `BlocksInv` is about blocks in memory, on disk and in committed lists |
| `FrontDoorsProofs`, faults | `HonestFaults` | `FaultInv`: what each attempt has done to the object against what the handler and the hooks have answered (`AttemptOK`), and which attempt can have written what is done once (`WrittenOK`) |
| `FrontDoorsProofs`, ACS Email | `CapturedOnce`, `RepeatsAgree`, `OperationsUnique`, `AcceptedStays` | `EmailInv`: one holder of the claim (`ClaimOK`), what it knows (`HolderOK`), records stand for captures (`RecordOK`) and answers for records (`AnswerOK`) |
| `TextProofs` | `ToldOnce`, `CallbacksAccounted`, `TextsSentOnce` | `TInv`: what each client has read against the message it read it from, and each attempt against the callbacks sent; `AcsInv`: the claim, the records and the texts of older builds |
| `AccessProofs` | `CredentialsAreHonoured`, `StatementsAlwaysCompose`, `KeysAreFresh`, `CallersTakeTurns` | `AccessInv`: what has been issued is one signed request or one session (`IssuedOK`), and an upload that Azure has let past its existence check may overwrite only with the permission to (`PutOK`); `KeysOK`: a withdrawn key that is cached or on its way is no older than the set that holds it; `QueueOK`: the calls that wait or fetch stand in the queue of the refresh lock, each once, and the one that fetches stands first |

Each invariant was checked by TLC first. The type invariants, `EndedGone`,
`CacheMatches`, `RecoveredClean`, `CapturesKept`, `IdentityStable`,
`RefusesOnlyDamaged`, `SameAnswer`, `OperationUnique`, `Reclaimed` and
`CancelRemembered` are proved and no run repeats them.

**Assumptions with content.**
- `SmtpAssumption`: a command and a line of a body are words, and the words of a body
  contain no line ending; the limits are numbers.
- `ChecksumAssumption`: the requests are well formed, and carry only headers their
  operation reads (`Sensible`); no body is longer than the largest object. That two
  bodies have different digests is how a digest is modelled.
- `MailAssumption`, `TextAssumption`: a request is a document of lists and a form of
  fields; a JSON document names a field once, apart from the list of media.
- `SignerAssumption`: what the holder signs has a true payload hash, and its
  provider headers are among the signed ones, as the providers' SDKs have it.
- `PathAssumption`, `SceneAssumption` (`Listing`, `Downloads`): folders precede what
  is in them in the order of names and are nested; page sizes are positive; the
  versions a scene begins with are older than the first write.
- `HistoryHasOneOwner` is for scenes in which the two ungated MCP tools do not meet
  protected data (`Apart`): a completion that such a tool has checked before a hold was
  placed can push the held blob into a history Azure does not own. `LeasesAreHonoured`,
  `WormsAreKept` and the other theorems about the doors are for all scenes.

**What the proofs changed.** `Publication`'s `Held` once counted the empty place as a
generation, which made `HistoryPreserved` excuse more than it should. The refinement
needed the fact that the journal of a version may outlive its stage only while the
journal of the current object is about to remove that version (`DecisionOK`).
`Smtp` collects what the client means line by line, in place of flattening the whole
body, and `Checksums` chooses the first of a list by its smallest index: both were
recursive definitions. `TextAdapters` reads a form by the places of a name in it, in
place of selecting from a sequence, which the provers cannot open.

**Only model-checked.** Liveness under fairness (`Settles` of the two journals, `Ends`,
and the half of `KeysFollowed` that a new key is learned; its other half is
`KeysAreFresh`): fairness and `ENABLED` are outside the prover's reach. What these
properties need beside fairness is proved. `RequestsAdvance` and `WriterAdvances` say
that a request that has begun finds its next step and that every step brings it closer to
its end, in a measure of numbers below a fixed bound and sets that only lose members.
With finitely many versions, destinations and transactions no request can go on for
ever; errors can set it back, at most `MaxFailures` times. `PagesAdvance` says the same of
a listing whose entries do not grow for ever, and `CallersTakeTurns` that the refresh
lock is passed on in order. TLC checked the four on the instances of the runs, with
`ENABLED` of the process's steps for the publication journal. `ForeignKept`, `LockVersioned` and
`ToolsKeepWorm` are the findings of section 6.

## 5. What the front-door properties rest on

`WormKept` and `LeaseHonoured` hold because each door refuses a bucket whose
history another provider owns, and asks the current objects for Azure protection.
That is enough only while no protected generation sits in a history Azure does not
own: `OneOwner` states this, `HistoryHasOneOwner` proves it, and its mutant (an overwrite that ignores who owns the
history) breaks it. The purge of a deleted container relies in the same way on
`PendingUnprotected`. `HistoryOwned` does not count leases: a bucket whose
versioning marker and mode flag were torn apart by a crash can hold a leased
generation in a history nobody owns.

## 6. Findings and observations

**Findings.** Three runs show the code leaving what the repository's documents say.

- `front_doors_purge`: `finish_expired_container_deletion` empties a container whose
  deletion was recorded, when its delay has ended and Azure is next asked about it. If
  S3 has taken the bucket over meanwhile and enabled versioning, the purge removes S3's
  current objects and versions, although the README says that a provider refuses
  mutations of a history another provider owns.
- `front_doors_lock`: an admin request suspends the versioning of an S3 Object Lock
  bucket, which the README says is enabled permanently and which the S3 door refuses.
  Afterwards the `null` version of a key can be replaced although it is locked;
  `purge_container` suspends versioning too.
- `front_doors_tools`: MCP `object_delete_many` and `multipart_upload_complete` check
  the protection of an object and act on it later without the operation gate. A hold,
  policy or lock placed in between does not stop them, although
  `docs/storage-writer-ownership.md` says that the gate covers deletes, multipart
  completion and admin mutations.

`WormKept` and `LeaseHonoured` are checked and proved in the same scenes. They name in
their formulas the steps that are excused (`SnapshotDelete`, `ContainerPurge`,
`Ungated`, and an S3 lock only where versioning keeps the generation), so everything
else that happens around these steps is still promised.

Observations, for which the sources make no contrary statement:

*Storage.*
- `delete_object_version` returns on an ambiguous error before the index update:
  the promoted object is readable but unlisted until the next write or restart.
- Replacing a part renames its bytes before the record is written; a plain upload
  can then complete with the old ETag over new bytes.
- Uploads named only in an old `uploads.json` can reappear or disappear after a
  restart; a temporary file of an interrupted `atomic_write` keeps an empty bucket
  undeletable.
- A `GcsResumable` record that was replaced although its save reported an error,
  followed by a retry with another length and a restart, counts a chunk that is not
  the one it was saved for (`Exact` excludes this by `doubt`). A resumable upload of
  one byte is answered 308 for ever: "nothing received" and "the first byte
  received" have the same `committed_end`. Process death between publication and the
  removal of the session lets the final request publish again over a later write.
- The index's removal of a prefix tests for other keys and then drops it; only the
  operation gate keeps an insertion out, and two MCP tools do not take it. `Listing`
  is under the gate.
- A removal of a bucket that is cut short after its name is gone makes every later
  startup refuse the root; `RefusalExplainedGated` excuses it.
- `enable_versioning` and `suspend_versioning` replace the marker before they take a
  key's mutex; `Publication` has the whole request under it.

*Front doors.*
- S3 browser uploads and multipart completion have no lock check; versioning keeps
  what they replace.
- Expiry of a noncurrent delete marker can promote a locked older version; a
  promoted Azure version brings its old lease with it; fixed-duration leases do not
  expire; a snapshot removed with its base is not asked for its own protection.
- `purge_container` leaves block sessions, and a foreign overwrite leaves a
  committed block list of bytes that are gone. A pending upload makes the purge fail
  at `delete_namespace`.
- Deleting and writing an object again can give it a generation it has had before;
  GCS JSON DELETE of an object GCS did not write is always 412.
- A pre-authenticated request is bound to the bucket's name and outlives the bucket;
  it is found by id without its bucket. A crash between its record and the index
  leaves it usable and unlisted.
- An S3 PUT keeps the provider metadata of the object it replaces, so the GCS and
  OCI doors give out digests of the old bytes; Azure's append and page writes keep
  S3's (`ChecksumsHonoured` is therefore about the door that wrote last).

*Reads.*
- GCS XML delimited listings lose prefixes on later pages; S3 `max-keys=0` and GCS
  `maxResults=0` return markers that skip or restart; an S3 version listing skips the
  rest of a key whose marker version was deleted; offset pages of the admin API skip
  or repeat entries beside writes.
- A GCS XML download ignores preconditions; a client can only compare the generation
  of the answer, as the one of `Downloads` does.
- S3 answers 304 to a request with both validators after a newer version is removed;
  Azure's date is exact to the second only.

*Access.*
- Bucket ACLs are not consulted for object requests; a WRITE grant covers
  PutObjectAcl; a Deny statement with an unknown condition operator does not apply; a
  policy can deny its own removal. An admin logout revokes nothing. A GOOG1 header has
  no freshness. With a cool-down as long as the key life a new key may not be learned.

*Ingress.*
- Header Cc and Bcc of an SMTP message get copies without RCPT; a recipient named
  `_all` shares the account-wide mailbox. A retry answered from an ACS text of an older
  build reserves no record. A truncated answer of an empty body is whole, and
  refusals are truncated too, so a cut answer does not tell whether the write was done.
  The checksum failpoint turns a committed write with a binary answer into an unmarked
  500 (`FaultsHonest` names it as the only error that hides a write).
- ACS SMS falls back to `store_message` for a store without capture; the only store
  has it, so that `AcsSms` leaves the fallback out.
- Two requests for the same terminal state of a text both send its callback; a
  lookup by provider id fails when another message is deleted beside it.

## 7. Not modelled

- `storage/ownership.rs`: an advisory lock of the operating system, taken before any
  store opens. Every module takes the single writer it guarantees as given.
- Storage traits, the indexed wrapper and the blob backend: delegation.
- Metrics, health, configuration, HTTP transport, XML and JSON rendering, CORS, tags,
  website, logging and notification documents: stored and returned, or rendered,
  without effect on the modelled state. Digest arithmetic.
- Read errors: a failing read refuses the request and changes nothing.
- Several buckets at once, which share only names; the web console.
- Partly modelled: lifecycle transitions (they rewrite only the storage class), the
  SMS capture budget (a nondeterministic refusal), MCP tools that call the admin API.

## 8. Plan

1. An abstract specification of protection that the four doors implement, in place of
   the action property `WormKept`.
2. Two buckets, for copies and pre-authenticated requests across them.
