---------------------------- MODULE MCDownloads ----------------------------
(* Keys a, b/c, b/d/e and z, and b/ both as a folder and as a key.          *)
EXTENDS Downloads, TLC

MCKeys == {1, 2, 3, 5, 6}
MCUnder == 2 :> {2, 3, 4, 5} @@ 4 :> {4, 5}
MCSearched == {3, 6}
MCBodies == {<<1, 2>>, <<1, 3, 4>>}

Once(keys) == {Version(k, 2, TRUE, <<1, 2>>) : k \in keys}
Older(keys) == {Version(k, 1, TRUE, <<1, 3, 4>>) : k \in keys}

Begins(versions, uploads, clients) == [versions : versions, uploads : uploads, client : clients]
Lists(doors, bys, parents) == [kind : {"list"}, door : doors, by : bys, parent : parents]

MCScenes ==
    Begins({Once(keys) : keys \in {MCKeys, {1, 3, 5, 6}, {1, 3, 6}, {2, 5}}}, {{}},
           Lists({"s3", "gcs"}, {"key", "folder", "group"}, {Root, 2})
           \cup Lists({"gcsXml"}, {"key"}, {Root})
           \cup Lists({"admin"}, {"folder"}, {Root, 2, 4})
           \cup Lists({"search"}, {"search"}, {Root})
           \cup Lists({"azure", "oci"}, {"key", "group"}, {Root, 2}))
    \cup Begins({Once({1, 3}) \cup Older({1, 6}), Once({1, 3, 6}) \cup Older({1, 3})}, {{}},
                Lists({"versions"}, {"version"}, {Root}) \cup Lists({"offset"}, {"ofKey"}, {1}))
    \cup Begins({{}}, {{<<1, 0>>, <<1, 1>>, <<3, 0>>}},
                Lists({"uploads"}, {"upload"}, {Root}) \cup Lists({"offset"}, {"recent"}, {Root}))
    \cup Begins({Once({1}), Older({1}), Once({1}) \cup Older({1}), {Version(1, 2, TRUE, <<>>)}}, {{}},
                [kind : {"download"}, door : {"s3", "azure", "gcs", "gcsXml", "oci"}, pinning : BOOLEAN]
                \cup [kind : {"revalidate"}, door : {"s3", "azure", "gcs", "oci"},
                      headers : {"etag", "date", "both"}])
=============================================================================
