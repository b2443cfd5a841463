------------------------------ MODULE MCAccess ------------------------------
(***************************************************************************)
(* The doors that authenticate, one scene per door.                        *)
(***************************************************************************)
EXTENDS Access

MCDoors == {"s3", "azure", "gcs", "oci", "aws", "acs", "admin", "policy", "mcp"}

Plain == [scheme |-> "v4", method |-> "GET", key |-> "k", query |-> Absent, ext |-> Absent,
          sha |-> NoSha, body |-> "b1", id |-> HolderId, date |-> 0, scope |-> <<0, "s3">>, expires |-> 0,
          signed |-> {"host", "date"}, sas |-> NoSas, sig |-> NoSig]

Sas(type, perms, method, key) ==
    [Plain EXCEPT !.scheme = "sas", !.expires = 2, !.method = method, !.key = key,
                  !.sas = [NoSas EXCEPT !.type = type, !.perms = perms]]

MCSignable ==
    [s3 |-> {Plain, [Plain EXCEPT !.method = "PUT", !.sha = Digest("b1"), !.signed = {"host", "date", "sha"}],
             [Plain EXCEPT !.method = "PUT", !.sha = <<"unsigned">>, !.ext = "e1", !.signed = {"host", "date", "sha", "ext"}],
             [Plain EXCEPT !.scheme = "link", !.expires = 2, !.signed = {"host"}],
             [Plain EXCEPT !.scheme = "link", !.expires = 5, !.method = "PUT", !.signed = {"host"}]},
     azure |-> {Sas("b", {"c"}, "PUT", "k"), Sas("b", {"w"}, "PUT", "k"), Sas("c", {"r", "l"}, "GET", "k"),
                Sas("b", {"a", "d"}, "DELETE", "k"), Sas("b", {"x", "i"}, "DELETE", "k"),
                [Sas("c", {"r"}, "GET", "k") EXCEPT !.sas.start = 1], [Plain EXCEPT !.scheme = "sharedKey", !.method = "PUT", !.ext = "e1"]},
     gcs |-> {[Plain EXCEPT !.scheme = "goog4", !.expires = 2, !.scope = <<0, "storage">>, !.signed = {"host"}],
              [Plain EXCEPT !.scheme = "goog2", !.expires = 2, !.signed = {}],
              [Plain EXCEPT !.scheme = "goog1", !.method = "PUT", !.ext = "e1", !.signed = {}],
              [Plain EXCEPT !.scheme = "bearer", !.signed = {}]},
     oci |-> {[Plain EXCEPT !.scheme = "oci", !.signed = {"host", "date", "target"}],
              [Plain EXCEPT !.scheme = "oci", !.method = "PUT", !.sha = Digest("b1"),
                            !.signed = {"host", "date", "target", "sha"}]},
     aws |-> {[Plain EXCEPT !.scheme = "sns", !.method = "PUT", !.scope = <<0, "sns">>],
              [Plain EXCEPT !.scheme = "ses", !.method = "PUT", !.scope = <<0, "ses">>, !.sha = Digest("b1"),
                            !.signed = {"host", "date", "sha"}]},
     acs |-> {[Plain EXCEPT !.scheme = scheme, !.method = "PUT", !.sha = Digest("b1"), !.signed = {"host", "date", "sha"}] :
                 scheme \in {"acsSms", "acsMail"}}]

MCValues ==
    [scheme |-> {"none", "partial", "v2", "v4", "link", "sns", "ses", "goog4", "goog2", "goog1", "bearer",
                "acsSms", "acsMail"},
     method |-> {"GET", "PUT", "DELETE"}, key |-> {"k2", Absent}, query |-> {Absent, "list", "append", "versionid", "immutability"},
     ext |-> {Absent, "e2"}, sha |-> {NoSha, <<"unsigned">>, <<"malformed">>, Digest("b2")},
     body |-> {"b2"}, id |-> {"other"}, date |-> {NoDate, 0, 4},
     scope |-> {<<0, "s3">>, <<1, "s3">>, <<0, "ses">>, <<0, "sns">>}, expires |-> {0, 5, 20},
     signed |-> {{}, {"host"}, {"host", "date", "ext"}},
     sas |-> {[NoSas EXCEPT !.type = "c", !.perms = {"w"}], [NoSas EXCEPT !.type = "b", !.perms = {"c", "w"}],
              [NoSas EXCEPT !.type = "b", !.perms = {"c"}, !.https = TRUE],
              [NoSas EXCEPT !.type = "b", !.perms = {"c"}, !.start = 1],
              [NoSas EXCEPT !.type = "b", !.perms = {"c"}, !.extra = TRUE]}]

MCAcls == {[canned |-> "public-read", grants |-> {}], [canned |-> "private", grants |-> {}],
           [canned |-> "authenticated-read", grants |-> {}],
           [canned |-> "private", grants |-> {Grant("AllUsers", "WRITE")}]}

Statement(effect, principal, action, resource, conditions) ==
    [effect |-> effect, principals |-> {principal}, actions |-> {action}, resources |-> {resource},
     conditions |-> conditions]
Condition(op, of, name, expected) == [op |-> op, key |-> [of |-> of, name |-> name], expected |-> expected]

MCStatements ==
    {Statement("Allow", Nobody, <<"Get", "*", "*">>, <<"bucket", "/", "*">>, {}),
     Statement("Deny", OwnerArn, <<"Put", "Object">>, Star,
               {Condition("StringNotLike", "other", "agent", {<<"a", "*", "b">>})}),
     Statement("Deny", Nobody, <<"*">>, Star,
               {Condition("Bool", "secureTransport", "", {<<"false">>}), Condition("Null", "sourceIp", "", {<<"true">>})}),
     Statement("Allow", Nobody, <<"Put", "*">>, <<"bucket", "/", "*">>,
               {Condition("NumericLessThan", "s3", "max-keys", {<<"10">>}), Condition("StringEquals", "existingTag", "t", {<<"x">>})})}

Ctx(principal, action, resource, headers, query, tags) ==
    [principal |-> principal, authenticated |-> principal # Nobody, action |-> action, resource |-> resource,
     headers |-> headers, query |-> query, tags |-> tags, requestTags |-> <<>>]

MCContexts ==
    {Ctx(p, a, <<"bucket", "/", "k">>, h, q, t) :
        p \in {OwnerArn, Nobody}, a \in {<<"Get", "Object">>, <<"Put", "Object">>},
        h \in {<<>>, [agent |-> <<"a", "x", "b">>], ("x-forwarded-proto" :> <<"https">>)},
        q \in {<<>>, ("max-keys" :> <<"1">>)}, t \in {<<>>, [t |-> <<"x">>]}}

Token(kid) == [kid |-> kid, alg |-> "asymmetric", claims |-> TRUE, scopes |-> {"read"}, needs |-> {"read"}]
MCTokenOf == [c1 |-> Token("k1"), c2 |-> Token("k2")]

-----------------------------------------------------------------------------
(* The scan for wildcards finds a match exactly when some way to fill the stars gives the value. *)
Glob(pattern, value) ==
    LET M[p \in 1 .. Len(pattern) + 1, v \in 1 .. Len(value) + 1] ==
            IF p > Len(pattern) THEN v > Len(value)
            ELSE IF pattern[p] = "*" THEN \E w \in v .. Len(value) + 1 : M[p + 1, w]
            ELSE v <= Len(value) /\ (pattern[p] \in {"?", value[v]}) /\ M[p + 1, v + 1]
    IN M[1, 1]

ASSUME WildcardsMatch ==
    \A pattern \in BoundedSeq({"a", "b", "*", "?"}, 4), value \in BoundedSeq({"a", "b"}, 4) :
        WildcardMatch(pattern, value) <=> Glob(pattern, value)
=============================================================================
