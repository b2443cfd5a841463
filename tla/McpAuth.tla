------------------------------ MODULE McpAuth ------------------------------
(***************************************************************************)
(* Bearer tokens of the MCP endpoint and the cache of the issuer's keys    *)
(* (auth/mcp.rs): calls that find their key in a fresh cache are checked   *)
(* at once; the others queue for one refresh, which a cool-down spaces.    *)
(*                                                                         *)
(* Times are kept as ages that stop at the bound that the code compares    *)
(* them with, so that time may go on for ever.  The issuer is external: it *)
(* publishes and withdraws keys and may be out of reach.                   *)
(***************************************************************************)
EXTENDS Integers, Sequences, FiniteSets

CONSTANTS Clients,        \* each calls with one token, again and again
          TokenOf,        \* [Clients -> [kid, alg, claims, scopes, needs]]
          Kids,           \* key names
          JwksTtl, JwksRefreshCooldown, FetchTimeout

ASSUME JwksAssumption == {JwksTtl, JwksRefreshCooldown, FetchTimeout} \subseteq Nat \ {0}

VARIABLES jwks,           \* the cache: [keys, age], or none
          attempt,        \* age of the last attempt to refresh
          queue,          \* calls at the refresh lock: the first one holds it
          fetch,          \* the request under way: [age, keys that were answered]
          calls,          \* [Clients -> phase]
          published,      \* keys that the issuer publishes
          gone,           \* age of each key's last withdrawal
          reachable       \* whether the issuer answers

mcpVars == <<jwks, attempt, queue, fetch, calls, published, gone, reachable>>

NoFetch == [age |-> 0, keys |-> {}]
NoJwks == [keys |-> {}, age |-> JwksTtl]
Resting(c) == calls[c] \in {"idle", "200", "401", "403", "503"}
Fetching == \E c \in Clients : calls[c] \in {"fetching", "answered"}
Stale == JwksTtl + FetchTimeout
Grown(age, bound) == IF age < bound THEN age + 1 ELSE age

McpInit ==
    /\ jwks = NoJwks /\ attempt = JwksRefreshCooldown
    /\ queue = <<>> /\ fetch = NoFetch
    /\ calls = [c \in Clients |-> "idle"]
    /\ published \in SUBSET Kids /\ gone = [k \in Kids |-> Stale]
    /\ reachable = TRUE

\* The token against a key set: signature and claims, then the scope that the call needs.
Verdict(token, keys) ==
    IF token.kid \notin keys \/ ~token.claims THEN "401"
    ELSE IF token.needs \subseteq token.scopes THEN "200" ELSE "403"

Unexpired == jwks.age < JwksTtl

FreshCachedSetFor(kid) == Unexpired /\ kid \in jwks.keys

Ends(c, phase) == calls' = [calls EXCEPT ![c] = phase]

\* The token is parsed; a key in the fresh cache answers at once.
Authenticate(c) ==
    /\ Resting(c)
    /\ LET token == TokenOf[c] IN
       \/ /\ token.alg # "asymmetric"
          /\ Ends(c, "401") /\ UNCHANGED queue
       \/ /\ token.alg = "asymmetric" /\ FreshCachedSetFor(token.kid)
          /\ Ends(c, Verdict(token, jwks.keys)) /\ UNCHANGED queue
       \/ /\ token.alg = "asymmetric" /\ ~FreshCachedSetFor(token.kid)
          /\ Ends(c, "waiting") /\ queue' = Append(queue, c)
    /\ UNCHANGED <<jwks, attempt, fetch, published, gone, reachable>>

MayRefresh == attempt >= JwksRefreshCooldown

\* The cache is looked at again under the refresh lock; a refresh that was just tried is not repeated.
AcquireRefresh(c) ==
    /\ calls[c] = "waiting" /\ Head(queue) = c
    /\ LET token == TokenOf[c] IN
       IF FreshCachedSetFor(token.kid) \/ ~MayRefresh
       THEN /\ Ends(c, IF Unexpired THEN Verdict(token, jwks.keys) ELSE "503")
            /\ queue' = Tail(queue) /\ UNCHANGED <<attempt, fetch>>
       ELSE /\ Ends(c, "fetching")
            /\ attempt' = 0 /\ fetch' = NoFetch /\ UNCHANGED queue
    /\ UNCHANGED <<jwks, published, gone, reachable>>

\* What the issuer publishes now is on its way.
Answered(c) ==
    /\ calls[c] = "fetching" /\ reachable
    /\ Ends(c, "answered")
    /\ fetch' = [fetch EXCEPT !.keys = published]
    /\ UNCHANGED <<jwks, attempt, queue, published, gone, reachable>>

\* Not the code: only the key that the call asked for is kept.
StoreJwksOneKey(c) ==
    /\ calls[c] = "answered"
    /\ jwks' = [keys |-> fetch.keys \cap {TokenOf[c].kid}, age |-> 0]
    /\ Ends(c, Verdict(TokenOf[c], fetch.keys))
    /\ queue' = Tail(queue) /\ fetch' = NoFetch
    /\ UNCHANGED <<attempt, published, gone, reachable>>

\* The whole set has arrived: it replaces the cache, and the call is checked against it.
StoreJwks(c) ==
    /\ calls[c] = "answered"
    /\ jwks' = [keys |-> fetch.keys, age |-> 0]
    /\ Ends(c, Verdict(TokenOf[c], fetch.keys))
    /\ queue' = Tail(queue) /\ fetch' = NoFetch
    /\ UNCHANGED <<attempt, published, gone, reachable>>

\* No answer, a bad one, or none in time: the cache stays as it is.
FetchFails(c) ==
    /\ calls[c] \in {"fetching", "answered"}
    /\ ~reachable \/ fetch.age = FetchTimeout
    /\ Ends(c, "503")
    /\ queue' = Tail(queue) /\ fetch' = NoFetch
    /\ UNCHANGED <<jwks, attempt, published, gone, reachable>>

\* A request that runs into its timeout ends before time goes on.
TimePasses ==
    /\ Fetching => fetch.age < FetchTimeout
    /\ jwks' = [jwks EXCEPT !.age = Grown(@, JwksTtl)]
    /\ attempt' = Grown(attempt, JwksRefreshCooldown)
    /\ fetch' = IF Fetching THEN [fetch EXCEPT !.age = @ + 1] ELSE fetch
    /\ gone' = [k \in Kids |-> Grown(gone[k], Stale)]
    /\ UNCHANGED <<queue, calls, published, reachable>>

Publish(k) ==
    /\ k \notin published
    /\ published' = published \cup {k}
    /\ UNCHANGED <<jwks, attempt, queue, fetch, calls, gone, reachable>>

Withdraw(k) ==
    /\ k \in published
    /\ published' = published \ {k} /\ gone' = [gone EXCEPT ![k] = 0]
    /\ UNCHANGED <<jwks, attempt, queue, fetch, calls, reachable>>

Outage ==
    /\ reachable' = ~reachable
    /\ UNCHANGED <<jwks, attempt, queue, fetch, calls, published, gone>>

McpCall(c) == Authenticate(c) \/ AcquireRefresh(c) \/ Answered(c) \/ StoreJwks(c) \/ FetchFails(c)

McpNext == (\E c \in Clients : McpCall(c)) \/ TimePasses \/ (\E k \in Kids : Publish(k) \/ Withdraw(k)) \/ Outage

-----------------------------------------------------------------------------
(* A token whose key the issuer has withdrawn is refused once the cache's life and one request's timeout
   have passed since: however calls, refreshes and the rotation of keys interleave (get_jwks). *)
KeyFresh == [][\A c \in Clients : (calls[c] # "200" /\ calls'[c] = "200") =>
                   TokenOf[c].kid \in published \/ gone[TokenOf[c].kid] < Stale]_mcpVars

(* A key that the issuer publishes from some time on is learned: a client that keeps calling with a token
   of that key is let in again and again (get_jwks, the miss of a cached set included). *)
KeyLearned ==
    \A c \in Clients : TokenOf[c].claims /\ TokenOf[c].needs \subseteq TokenOf[c].scopes
        => (<>[](TokenOf[c].kid \in published /\ reachable) => []<>(calls[c] = "200"))

(* The tools' doorkeeper follows the issuer's keys, both ways. *)
KeysFollowed == KeyFresh /\ KeyLearned
=============================================================================
