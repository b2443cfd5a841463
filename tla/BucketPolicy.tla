---------------------------- MODULE BucketPolicy ----------------------------
(***************************************************************************)
(* Who may do what in an S3 bucket: ACLs and bucket policies, evaluated    *)
(* against what one request says of itself, its context ctx.               *)
(*                                                                         *)
(* Names, patterns and values are sequences of tokens: s3:GetObject is     *)
(* <<"Get", "Object">>, a resource is <<bucket>> or <<bucket, "/", key>>,  *)
(* a condition value is <<"true">> or <<"a", "b">>; the code's prefix and  *)
(* substring tests are the same tests on these sequences.  A request has   *)
(* at most one value under a condition key: a set of at most one.          *)
(***************************************************************************)
EXTENDS Integers, Sequences, FiniteSets, SequencesExt

OwnerArn == "arn:user/owner"
OwnerId == "owner"
Nobody == "*"
Star == <<"*">>

Says(words, name) == \E i \in 1 .. Len(words) - Len(name) + 1 : SubSeq(words, i, i + Len(name) - 1) = name

-----------------------------------------------------------------------------
(* Access control lists *)

Grant(grantee, permission) == [grantee |-> grantee, permission |-> permission]

\* Explicit grants replace what the canned name stands for.
ToGrants(acl) ==
    IF acl.grants # {} THEN acl.grants
    ELSE {Grant(OwnerId, "FULL_CONTROL")}
         \cup (IF acl.canned \in {"public-read", "public-read-write"} THEN {Grant("AllUsers", "READ")} ELSE {})
         \cup (IF acl.canned = "public-read-write" THEN {Grant("AllUsers", "WRITE")} ELSE {})
         \cup (IF acl.canned = "authenticated-read" THEN {Grant("AuthenticatedUsers", "READ")} ELSE {})

\* The owner is added to every list of grants that is put.
NormalizeAcl(acl) ==
    IF acl.grants = {} THEN acl ELSE [acl EXCEPT !.grants = @ \cup {Grant(OwnerId, "FULL_CONTROL")}]

PermissionCovers(permission, action) ==
    CASE permission = "FULL_CONTROL" -> TRUE
      [] permission = "READ"      -> Says(action, <<"Get", "Object">>) \/ Says(action, <<"List", "Bucket">>)
      [] permission = "WRITE"     -> Says(action, <<"Put", "Object">>) \/ Says(action, <<"Delete", "Object">>)
      [] permission = "READ_ACP"  -> Says(action, <<"Get", "Object", "Acl">>) \/ Says(action, <<"Get", "Bucket", "Acl">>)
      [] permission = "WRITE_ACP" -> Says(action, <<"Put", "Object", "Acl">>) \/ Says(action, <<"Put", "Bucket", "Acl">>)

GrantMatches(grant, ctx) ==
    /\ CASE grant.grantee = "AllUsers"           -> TRUE
         [] grant.grantee = "AuthenticatedUsers" -> ctx.authenticated
         [] OTHER                                -> ctx.principal = grant.grantee
    /\ PermissionCovers(grant.permission, ctx.action)

CheckAclPermission(acl, ctx) == \E grant \in ToGrants(acl) : GrantMatches(grant, ctx)

-----------------------------------------------------------------------------
(* Conditions: [op, key, expected], expected a set of values *)

\* The code's scan: ? takes any token, * is retried one token further at each mismatch.
WildcardMatch(pattern, value) ==
    LET Scan[p \in 1 .. Len(pattern) + 1, v \in 1 .. Len(value) + 1,
             star \in 0 .. Len(pattern), back \in 1 .. Len(value) + 1] ==
            IF v > Len(value) THEN \A i \in p .. Len(pattern) : pattern[i] = "*"
            ELSE IF p <= Len(pattern) /\ (pattern[p] = "?" \/ pattern[p] = value[v])
                 THEN Scan[p + 1, v + 1, star, back]
            ELSE IF p <= Len(pattern) /\ pattern[p] = "*" THEN Scan[p + 1, v, p, v]
            ELSE star # 0 /\ Scan[star + 1, back + 1, star, back + 1]
    IN Scan[1, 1, 0, 1]

ParseBool(v) == IF v \in {<<"true">>, <<"1">>, <<"on">>} THEN {TRUE}
                ELSE IF v \in {<<"false">>, <<"0">>, <<"off">>} THEN {FALSE} ELSE {}
ParseNumber(v) == CASE v = <<"0">> -> {0} [] v = <<"1">> -> {1} [] v = <<"10">> -> {10} [] OTHER -> {}

\* The value in the first of these <<name, fields>> that has one.
FirstValue(places) ==
    LET found == {i \in DOMAIN places : places[i][1] \in DOMAIN places[i][2]}
    IN {places[i][2][places[i][1]] : i \in {j \in found : \A k \in found : j <= k}}

SecureTransport(headers) ==
    IF "x-forwarded-proto" \in DOMAIN headers THEN headers["x-forwarded-proto"] = <<"https">>
    ELSE IF "x-forwarded-ssl" \in DOMAIN headers
         THEN headers["x-forwarded-ssl"] \in {<<"on">>, <<"true">>, <<"1">>}
    ELSE "x-forwarded-scheme" \in DOMAIN headers /\ headers["x-forwarded-scheme"] = <<"https">>

\* A key is [of, name]: the family that its prefix names, and the rest.
ConditionValues(key, ctx) ==
    CASE key.of = "principal"       -> {<<ctx.principal>>}
      [] key.of = "principalType"   -> {IF ctx.authenticated THEN <<"Authenticated">> ELSE <<"Anonymous">>}
      [] key.of = "secureTransport" -> {IF SecureTransport(ctx.headers) THEN <<"true">> ELSE <<"false">>}
      [] key.of = "sourceIp"        -> FirstValue(<<<<"x-forwarded-for", ctx.headers>>, <<"x-real-ip", ctx.headers>>>>)
      [] key.of = "existingTag"     -> FirstValue(<<<<key.name, ctx.tags>>>>)
      [] key.of = "requestTag"      -> FirstValue(<<<<key.name, ctx.requestTags>>>>)
      [] key.of = "s3"              -> FirstValue(<<<<key.name, ctx.query>>, <<key.name, ctx.headers>>>>)
      [] key.of = "other"           -> FirstValue(<<<<key.name, ctx.headers>>, <<key.name, ctx.query>>>>)

\* A negated comparison of a missing value holds.
Compares(values, expected, negated, like) ==
    LET Same(e, v) == IF like THEN WildcardMatch(e, v) ELSE e = v
    IN IF negated THEN \A v \in values : \A e \in expected : ~Same(e, v)
       ELSE \E v \in values : \E e \in expected : Same(e, v)

\* The comparison that an operator's name names.
NumericHolds(op, n, e) ==
    CASE op \in {"NumericEquals", "NumericNotEquals"} -> n = e
      [] op = "NumericLessThan" -> n < e
      [] op = "NumericLessThanEquals" -> n <= e
      [] op = "NumericGreaterThan" -> n > e
      [] op = "NumericGreaterThanEquals" -> n >= e

NumericOps == {"NumericEquals", "NumericNotEquals", "NumericLessThan", "NumericLessThanEquals",
               "NumericGreaterThan", "NumericGreaterThanEquals"}

NumericMatches(values, expected, op) ==
    LET numbers == UNION {ParseNumber(e) : e \in expected}
        negated == op = "NumericNotEquals"
    IN IF values = {} THEN negated
       ELSE /\ numbers # {}
            /\ IF negated
               THEN \A v \in values : ParseNumber(v) # {} /\ \A n \in ParseNumber(v), e \in numbers : ~NumericHolds(op, n, e)
               ELSE \E v \in values : \E n \in ParseNumber(v), e \in numbers : NumericHolds(op, n, e)

ConditionMatches(c, ctx) ==
    LET values == ConditionValues(c.key, ctx) IN
    /\ c.expected # {}
    /\ CASE c.op = "Null"            -> \E e \in c.expected : ParseBool(e) = {values = {}}
         [] c.op = "Bool"            -> \E v \in values : ParseBool(v) \cap UNION {ParseBool(e) : e \in c.expected} # {}
         [] c.op \in {"StringEquals", "StringNotEquals"} ->
              Compares(values, c.expected, c.op = "StringNotEquals", FALSE)
         [] c.op \in {"StringLike", "StringNotLike"} ->
              Compares(values, c.expected, c.op = "StringNotLike", TRUE)
         [] c.op \in NumericOps      -> NumericMatches(values, c.expected, c.op)
         [] OTHER                    -> FALSE

-----------------------------------------------------------------------------
(* Policies: sequences of [effect, principals, actions, resources, conditions] *)

\* A pattern that ends in a star stands for every name that begins like it.
PatternMatches(pattern, name) ==
    LET letters == {i \in DOMAIN pattern : pattern[i] # "*"}
    IN IF pattern # <<>> /\ Last(pattern) = "*"
       THEN IsPrefix(SubSeq(pattern, 1, Max({0} \cup letters)), name)
       ELSE pattern = name

PrincipalMatches(principals, ctx) == Nobody \in principals \/ ctx.principal \in principals
ActionMatches(actions, action) == \E a \in actions : PatternMatches(a, action)
ResourceMatches(resources, resource) == \E r \in resources : PatternMatches(r, resource)
ConditionsMatch(conditions, ctx) == \A c \in conditions : ConditionMatches(c, ctx)

StatementApplies(s, ctx) ==
    /\ PrincipalMatches(s.principals, ctx)
    /\ ActionMatches(s.actions, ctx.action)
    /\ ResourceMatches(s.resources, ctx.resource)
    /\ ConditionsMatch(s.conditions, ctx)

\* Not the code: the last statement that applies decides.
LastStatementDecides(policy, ctx) ==
    LET applying == {i \in DOMAIN policy : StatementApplies(policy[i], ctx)}
    IN IF applying = {} THEN "Neutral" ELSE policy[Max(applying)].effect

\* An explicit deny wins over every allow.
EvaluatePolicy(policy, ctx) ==
    LET effects == {policy[i].effect : i \in {j \in DOMAIN policy : StatementApplies(policy[j], ctx)}}
    IN IF "Deny" \in effects THEN "Deny" ELSE IF "Allow" \in effects THEN "Allow" ELSE "Neutral"

\* acl is the set of the one ACL that could be read, of the object or of the bucket.
Decision(policy, acl, ctx) ==
    LET effect == EvaluatePolicy(policy, ctx)
    IN IF effect # "Neutral" THEN effect
       ELSE IF \/ \E a \in acl : CheckAclPermission(a, ctx)
               \/ ctx.authenticated /\ ctx.principal = OwnerArn
            THEN "Allow" ELSE "Deny"
=============================================================================
