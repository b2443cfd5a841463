------------------------------ MODULE Listing ------------------------------
(***************************************************************************)
(* Listings that take several requests, over a bucket that changes between *)
(* the pages: the key index with its directory children                    *)
(* (storage/lockfree_index.rs), the storage page (list_objects), and the   *)
(* page rule of each front door.                                           *)
(*                                                                         *)
(* Paths, the names of keys and of folders, are numbered in the byte order *)
(* of the names; Root is the empty prefix.  Under[f] holds the paths that  *)
(* start with the folder f, an interval that begins at f.                  *)
(*                                                                         *)
(* A listing request and a write are each atomic: the registry and the     *)
(* admin handler hold the operation gate over the whole handler.           *)
(***************************************************************************)
EXTENDS Integers, FiniteSets, Sequences

CONSTANTS Keys,      \* paths that objects may have
          Under,     \* folder |-> the paths that start with it
          Searched,  \* keys that a search term of the admin API matches
          Bodies,    \* contents of objects
          PageSizes, \* page sizes a client asks for
          MaxWrites  \* bound: writes beside one client

VARIABLES bucket,  \* the objects of one bucket, its index and its open uploads
          clock,   \* the stamp of the next version or upload
          list     \* the listing of one client

listVars == <<bucket, clock, list>>

Root == 0
FirstStamp == 3
Folders == DOMAIN Under
Least(S) == CHOOSE x \in S : \A y \in S : x <= y

\* The paths that start with a folder lie together behind it in the order of the
\* names, and what starts with a folder below it starts with it too.
ASSUME PathAssumption ==
    /\ Keys \subseteq Nat \ {Root} /\ IsFiniteSet(Keys)
    /\ Folders \subseteq Nat \ {Root}
    /\ \A f \in Folders : f \in Under[f] /\ \A p \in Under[f] : p \in Nat /\ f .. p \subseteq Under[f] /\ f <= p
    /\ \A f, g \in Folders : g \in Under[f] => Under[g] \subseteq Under[f]
    /\ Bodies # {} /\ \A body \in Bodies : body \in Seq({body[i] : i \in DOMAIN body})
    /\ PageSizes \subseteq Nat \ {0} /\ MaxWrites \in Nat

-----------------------------------------------------------------------------
(* Index *)

Chain(k) == {Root} \cup {f \in Folders : k \in Under[f]}

\* The child of folder p on the way to key k: a folder, or the key.
Child(p, k) ==
    LET between == {f \in Folders \ {p} : k \in Under[f] /\ (p = Root \/ f \in Under[p])}
    IN IF between = {} THEN k ELSE Least(between)

\* Insertion of a key: into the keys, and into the children of every parent.
Indexed(b, k) ==
    [b EXCEPT !.objects = @ \cup {k},
              !.children = [p \in DOMAIN @ |-> IF p \in Chain(k) THEN @[p] \cup {Child(p, k)} ELSE @[p]]]

\* The innermost folder of a key: the longest prefix comes last.
Home(k) == CHOOSE p \in Chain(k) : \A q \in Chain(k) : q <= p

\* The folders that hold no key once these objects are all there is.
Vacant(objects, k) == {f \in Chain(k) \ {Root} : objects \cap Under[f] = {}}

\* Removal of a key, and of the folders that it leaves without any key.
Unindexed(b, k) ==
    LET gone == Vacant(b.objects \ {k}, k)
    IN IF k \notin b.objects THEN b
       ELSE [b EXCEPT !.objects = @ \ {k},
                      !.children = [p \in DOMAIN @ |->
                          IF p \in gone THEN {}
                          ELSE IF p = Home(k) THEN @[p] \ {k}
                          ELSE IF p \in Chain(k) THEN @[p] \ ({Child(p, k)} \cap gone)
                          ELSE @[p]]]

-----------------------------------------------------------------------------
(* Versions of the bucket, as the history of a versioned bucket keeps them. *)

VersionsOf(b, k) == {v \in b.versions : v.key = k}
Newest(vs) == CHOOSE v \in vs : \A w \in vs : w.stamp <= v.stamp

\* The current object of a key, as a set of at most one version.
CurrentOf(b, k) ==
    IF VersionsOf(b, k) = {} THEN {} ELSE {v \in {Newest(VersionsOf(b, k))} : v.live}

Version(k, stamp, live, body) == [key |-> k, stamp |-> stamp, live |-> live, body |-> body]

WithPut(b, k, stamp, body) ==
    Indexed([b EXCEPT !.versions = @ \cup {Version(k, stamp, TRUE, body)}], k)

WithMarker(b, k, stamp) ==
    Unindexed([b EXCEPT !.versions = @ \cup {Version(k, stamp, FALSE, <<>>)}], k)

\* A version is removed; the newest one that is left becomes current unless it is a marker.
WithoutVersion(b, v) ==
    LET left == [b EXCEPT !.versions = @ \ {v}]
    IN IF CurrentOf(left, v.key) = {} THEN Unindexed(left, v.key) ELSE Indexed(left, v.key)

-----------------------------------------------------------------------------
(* What a listing draws from.  An entry is a pair ordered by its first and  *)
(* then by its second number.                                               *)

Before(x, y) == x[1] < y[1] \/ (x[1] = y[1] /\ x[2] < y[2])
First(n, S) == {e \in S : Cardinality({f \in S : Before(f, e)}) < n}
Last(S) == CHOOSE e \in S : \A f \in S : f = e \/ Before(f, e)
Next1(S) == CHOOSE e \in S : \A f \in S : f = e \/ Before(e, f)

KeysBelow(b, p) == IF p = Root THEN b.objects ELSE b.objects \cap Under[p]

\* Names listed without a delimiter, by the index of children, or by grouping a scan of keys.
ListedNames(b, l) ==
    CASE l.by = "key"    -> KeysBelow(b, l.parent)
      [] l.by = "folder" -> b.children[l.parent]
      [] l.by = "group"  -> {Child(l.parent, k) : k \in KeysBelow(b, l.parent)}
      [] l.by = "search" -> KeysBelow(b, l.parent) \cap Searched

Entries(b, l) ==
    CASE l.by = "version" -> {<<v.key, -v.stamp>> : v \in b.versions}
      [] l.by = "upload"  -> b.uploads
      [] l.by = "ofKey"   -> {<<0, -v.stamp>> : v \in VersionsOf(b, l.parent)}
      [] l.by = "recent"  -> {<<-u[2], u[1]>> : u \in b.uploads}
      [] OTHER            -> {<<p, 0>> : p \in ListedNames(b, l)}

NoMarker == <<>>
Page(entries, next, more) == [entries |-> entries, next |-> next, more |-> more]

\* The entries after the marker; the last one of a page is the next marker.
AfterMarker(rest, n) ==
    LET page == First(n, rest)
    IN Page(page, IF page = {} THEN NoMarker ELSE Last(page), page # rest)

\* The entries from the marker on; the first one left out is the next marker.
FromMarker(rest, n) ==
    LET left == rest \ First(n, rest)
    IN Page(First(n, rest), IF left = {} THEN NoMarker ELSE Next1(left), left # {})

Beyond(S, m) == IF m = NoMarker THEN S ELSE {e \in S : Before(m, e)}
Starting(S, m) == IF m = NoMarker THEN S ELSE {e \in S : ~Before(e, m)}

-----------------------------------------------------------------------------
(* Pages, one operator for each door. *)

StoragePage(S, m, n) == AfterMarker(Beyond(S, m), n)
S3Page(S, m, n) == StoragePage(S, m, n)
GcsPage(S, m, n) == StoragePage(S, m, n)
AdminPage(S, m, n) == StoragePage(S, m, n)

\* One blob more than the page is read; the next marker is the last blob returned.
GcsXmlPage(S, m, n) ==
    LET read == StoragePage(S, m, n + 1)
    IN AfterMarker(read.entries, n)

AdminSearchPage(S, m, n) == AfterMarker(Beyond(S, m), n)

\* Not the code: truncation is decided on the whole list instead of what is left of it.
S3UploadsPageWhole(S, m, n) ==
    LET page == AfterMarker(Beyond(S, m), n)
    IN Page(page.entries, IF page.entries = {} THEN m ELSE page.next, Cardinality(S) > n)

S3UploadsPage(S, m, n) == AfterMarker(Beyond(S, m), n)

\* Not the code: the next marker is taken for the last name returned.
AzurePageAfter(S, m, n) == FromMarker(Beyond(S, m), n)

\* Keys are collected and grouped first, and the names before the marker dropped afterwards.
AzurePage(S, m, n) == FromMarker(Starting(S, m), n)
OciPage(S, m, n) == FromMarker(Starting(S, m), n)

\* The version named by the marker is looked up; without it the listing goes on after its key.
VersionsLeft(S, m) ==
    IF m = NoMarker \/ m \in S THEN Beyond(S, m) ELSE {e \in S : e[1] > m[1]}

S3VersionsPage(S, m, n) == AfterMarker(VersionsLeft(S, m), n)

\* The marker is the number of entries already returned.
OffsetPage(S, m, n) ==
    LET start == IF m = NoMarker THEN 0 ELSE m[1]
        end == start + n
    IN Page(First(end, S) \ First(start, S), <<end, 0>>, end < Cardinality(S))

PageOf(door, S, m, n) ==
    CASE door = "s3"       -> S3Page(S, m, n)
      [] door = "gcs"      -> GcsPage(S, m, n)
      [] door = "gcsXml"   -> GcsXmlPage(S, m, n)
      [] door = "admin"    -> AdminPage(S, m, n)
      [] door = "search"   -> AdminSearchPage(S, m, n)
      [] door = "uploads"  -> S3UploadsPage(S, m, n)
      [] door = "azure"    -> AzurePage(S, m, n)
      [] door = "oci"      -> OciPage(S, m, n)
      [] door = "versions" -> S3VersionsPage(S, m, n)
      [] door = "offset"   -> OffsetPage(S, m, n)

-----------------------------------------------------------------------------
NoListing == [door |-> "none"]

\* A listing that begins: nothing returned, and every present entry owed.
Begun(l, b) ==
    [door |-> l.door, by |-> l.by, parent |-> l.parent, marker |-> NoMarker, over |-> FALSE,
     got |-> {}, again |-> {}, owed |-> Entries(b, l), grown |-> FALSE, shrunk |-> FALSE]

\* Entries that a marker whose version is gone makes the listing pass over.
PassedOver(S, l) ==
    IF l.door = "versions" THEN Beyond(S, l.marker) \ VersionsLeft(S, l.marker) ELSE {}

ListPage ==
    /\ list # NoListing
    /\ ~list.over
    /\ \E n \in PageSizes :
          LET S == Entries(bucket, list)
              page == PageOf(list.door, S, list.marker, n)
          IN list' = [list EXCEPT !.marker = page.next,
                                  !.over = ~page.more,
                                  !.got = @ \cup page.entries,
                                  !.again = @ \cup (list.got \cap page.entries),
                                  !.owed = @ \ PassedOver(S, list)]
    /\ UNCHANGED <<bucket, clock>>

-----------------------------------------------------------------------------
(* Writes between the pages *)

\* The bucket becomes b; a listing that is under way is owed what stays.
Write(b) ==
    /\ clock < FirstStamp + MaxWrites
    /\ clock' = clock + 1
    /\ bucket' = b
    /\ list' = IF list = NoListing \/ list.over THEN list
               ELSE [list EXCEPT !.owed = @ \cap Entries(b, list),
                                 !.grown = @ \/ ~(Entries(b, list) \subseteq Entries(bucket, list)),
                                 !.shrunk = @ \/ ~(Entries(bucket, list) \subseteq Entries(b, list))]

PutObject(k, body) == Write(WithPut(bucket, k, clock, body))
DeleteObject(k) == k \in bucket.objects /\ Write(WithMarker(bucket, k, clock))
DeleteVersion(v) == Write(WithoutVersion(bucket, v))
CreateUpload(k) == Write([bucket EXCEPT !.uploads = @ \cup {<<k, clock>>}])
EndUpload(u) == Write([bucket EXCEPT !.uploads = @ \ {u}])

-----------------------------------------------------------------------------
\* A bucket with these versions, and the index that startup rebuilds from its current objects.
Rebuilt(versions, uploads) ==
    LET b == [versions |-> versions, uploads |-> uploads]
        keys == {k \in Keys : CurrentOf(b, k) # {}}
    IN [versions |-> versions,
        uploads  |-> uploads,
        objects  |-> keys,
        children |-> [p \in {Root} \cup Folders |-> {Child(p, k) : k \in {x \in keys : p \in Chain(x)}}]]

-----------------------------------------------------------------------------
(* Properties *)

\* Every entry that is there from the first page of a listing to its last is
\* on one of the pages, whatever is written between the pages.  (S3's version
\* listing passes over the older versions of a key when the version named by
\* the marker is removed; the admin API's offset pages are exact only while
\* nothing is removed.)
Complete ==
    list # NoListing /\ list.over =>
        list.owed \subseteq list.got \/ (list.door = "offset" /\ list.shrunk)

\* No entry is returned twice by one listing (offset pages: unless something
\* was added between the pages).
OnceEach ==
    list # NoListing => list.again = {} \/ (list.door = "offset" /\ list.grown)

\* The index agrees with the store: the keys are those with a current object,
\* and the children of a folder are exactly the keys and folders one level
\* below it that hold such a key, so a delimited listing and a scan agree.
IndexAgrees ==
    /\ bucket.objects = {k \in Keys : CurrentOf(bucket, k) # {}}
    /\ \A p \in {Root} \cup Folders :
          bucket.children[p] = {Child(p, k) : k \in {x \in bucket.objects : p \in Chain(x)}}

\* Listings are true: the index names what the store holds, and a client that
\* follows the pages is told of everything that stays there, each once.
ListingsTrue == IndexAgrees /\ Complete /\ OnceEach

\* A client that keeps asking for the next page reaches the last one.
Ends == (list # NoListing) ~> (list # NoListing /\ list.over)
=============================================================================
