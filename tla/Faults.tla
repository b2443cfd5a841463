------------------------------- MODULE Faults -------------------------------
(***************************************************************************)
(* Injected failures (providers/faults.rs) around a storage request: an    *)
(* answer before the handler runs, a delay before or after it, an answer   *)
(* lost or changed after it has committed.  Clients put, complete uploads  *)
(* of, delete and read one object, or send what does not touch it, give up *)
(* waiting at any time and retry what was not answered or may be retried.  *)
(***************************************************************************)
EXTENDS Naturals, FiniteSets

CONSTANTS Clients,
          Attempts,     \* numbers of attempts, 1..n
          Tries,        \* how many of them each client has
          Hooked,       \* the clients whose requests carry failpoints
          Operations,   \* what a client may want: [method, target, conditional, answer]
          Doors         \* provider names

ASSUME FaultAssumption == "none" \notin Clients

VARIABLES provider,
          object,       \* who wrote the object: a client, or "none"
          goal,         \* per client, its operation
          attempt       \* client -> attempt -> its record

faultVars == <<provider, object, goal, attempt>>

Failpoints == {"none", "timeout-before-commit", "redirect", "conditional-request-conflict", "throttle",
               "transient", "timeout-after-commit", "response-loss-after-commit", "truncate-response",
               "checksum-receipt", "pagination-token"}

\* result is the handler's answer, status what has reached the client of it.
Unsent == [pc |-> "unsent", failpoint |-> "none", result |-> "none", status |-> "none", applied |-> FALSE, wrote |-> FALSE]

FaultInit ==
    /\ provider \in Doors /\ object = "none"
    /\ goal \in [Clients -> Operations]
    /\ attempt = [c \in Clients |-> [n \in Attempts |-> Unsent]]

IsMutation(g) == g.method \in {"PUT", "POST", "PATCH", "DELETE"}

\* An S3 write that depends on what is there: no ACL, tagging, part or copy.
IsS3ConditionalWrite(g) ==
    g.conditional /\ <<g.method, g.target>> \in {<<"PUT", "object">>, <<"POST", "upload">>}

\* A completion finds its upload until it has been carried out.
Completes(g) == g.method = "POST" /\ g.target = "upload"
Completed(c) == Completes(goal[c]) /\ \E n \in Attempts : attempt[c][n].wrote

Creates(g) == Completes(g) \/ (g.method = "PUT" /\ g.target = "object")
Deletes(g) == g.method = "DELETE" /\ g.target = "object"

-----------------------------------------------------------------------------
\* The provider's own way to say that it is busy.
ProviderError(failpoint) ==
    CASE failpoint = "throttle" -> IF provider \in {"s3", "azure-blob"} THEN "503" ELSE "429"
      [] failpoint = "transient" -> "5xx"
      [] OTHER -> "409"

\* What before() answers instead of the handler; "none" runs it.
Before(g, failpoint) ==
    CASE failpoint = "redirect" -> "3xx"
      [] failpoint = "conditional-request-conflict" /\ provider = "s3" /\ IsS3ConditionalWrite(g) -> ProviderError(failpoint)
      [] failpoint \in {"throttle", "transient"} -> ProviderError(failpoint)
      [] OTHER -> "none"

\* The same, without looking whether the handler has refused.
AfterAnyStatus(g, failpoint, status) ==
    IF failpoint = "response-loss-after-commit" /\ IsMutation(g) THEN [status |-> "lost", applied |-> TRUE]
    ELSE [status |-> status, applied |-> FALSE]

\* Half of the body, of which an empty one has none to lose; a refusal has one.
Truncate(g, status) ==
    [status |-> IF status = "2xx" /\ g.answer = "empty" THEN status ELSE "cut", applied |-> TRUE]

RewritePagination(status) == [status |-> status, applied |-> TRUE]

\* The write's own checksum in the answer is falsified.  A body that is no text
\* makes it an error of the whole request, which carries no mark of the hook.
RewriteChecksum(g, status) ==
    IF g.answer = "binary" THEN [status |-> "5xx", applied |-> FALSE] ELSE [status |-> status, applied |-> TRUE]

\* What the client sees of the handler's answer.
After(g, failpoint, status) ==
    LET committed == IsMutation(g) /\ status = "2xx"
        plain == [status |-> status, applied |-> FALSE]
    IN  CASE failpoint = "checksum-receipt" /\ committed -> RewriteChecksum(g, status)
          [] failpoint = "timeout-after-commit" /\ committed -> plain
          [] failpoint = "response-loss-after-commit" /\ committed -> [status |-> "lost", applied |-> TRUE]
          [] failpoint = "truncate-response" -> Truncate(g, status)
          [] failpoint = "pagination-token" -> RewritePagination(status)
          [] OTHER -> plain

Retryable == {"429", "503", "5xx", "409", "lost", "cut"}

Set(c, n, r) == attempt' = [attempt EXCEPT ![c][n] = r]

\* The next attempt follows one that may be retried or has not been answered,
\* wherever it is: still waiting, at the gate or committed.
SendAttempt(c, n) ==
    /\ attempt[c][n].pc = "unsent" /\ n <= Tries[c]
    /\ n > 1 => attempt[c][n - 1].pc # "unsent" /\ attempt[c][n - 1].status \in Retryable \cup {"none"}
    /\ \E f \in IF c \in Hooked THEN Failpoints ELSE {"none"} : Set(c, n, [Unsent EXCEPT !.pc = "arrived", !.failpoint = f])
    /\ UNCHANGED <<provider, object, goal>>

\* Before the operation gate: an injected answer, or on, sooner or later.
PassBefore(c, n) ==
    LET a == attempt[c][n]
        injected == Before(goal[c], a.failpoint)
    IN  /\ a.pc = "arrived"
        /\ Set(c, n, IF injected # "none"
                       THEN [a EXCEPT !.pc = "answered", !.status = injected, !.applied = TRUE]
                       ELSE [a EXCEPT !.pc = "gate"])
        /\ UNCHANGED <<provider, object, goal>>

\* What the handler has against the request.
Verdict(c) ==
    IF Completed(c) THEN "404"
    ELSE IF goal[c].conditional /\ object # "none" THEN "412"
    ELSE "2xx"

\* The handler, under the operation gate; its answer is still to pass the hooks.
Run(c, n) ==
    LET a == attempt[c][n]
        g == goal[c]
        done == Verdict(c) = "2xx" /\ IsMutation(g)
    IN  /\ a.pc = "gate"
        /\ object' = IF done /\ Creates(g) THEN c ELSE IF done /\ Deletes(g) THEN "none" ELSE object
        /\ Set(c, n, [a EXCEPT !.pc = "ran", !.result = Verdict(c), !.wrote = done])
        /\ UNCHANGED <<provider, goal>>

PassAfter(c, n) ==
    LET a == attempt[c][n]
        seen == After(goal[c], a.failpoint, a.result)
    IN  /\ a.pc = "ran"
        /\ Set(c, n, [a EXCEPT !.pc = "answered", !.status = seen.status, !.applied = seen.applied])
        /\ UNCHANGED <<provider, object, goal>>

FaultStep(c, n) == PassBefore(c, n) \/ Run(c, n) \/ PassAfter(c, n)

FaultNext == \E c \in Clients, n \in Attempts : SendAttempt(c, n) \/ FaultStep(c, n)

FaultSpec == FaultInit /\ [][FaultNext]_faultVars

-----------------------------------------------------------------------------
Concluded(c, n) == attempt[c][n].pc = "answered"

WritesOf(c) == {n \in Attempts : attempt[c][n].wrote}

\* What an answer tells of the request that it answers: an injected refusal, or the
\* handler's own, means that nothing was done, then or later; an unmarked 5xx over
\* a write that was done comes only from the checksum hook, of an answer that is
\* no text; a lost answer and a success mean that the write was done.  A cut answer
\* leaves it open, because refusals are cut as well.
TellsTruth(c, n) ==
    LET a == attempt[c][n]
    IN  /\ a.status \in {"3xx", "409", "429", "503", "412", "404"} => ~a.wrote
        /\ a.status = "5xx" /\ a.wrote => ~a.applied /\ a.failpoint = "checksum-receipt" /\ goal[c].answer = "binary"
        /\ a.status = "lost" => a.wrote
        /\ a.status = "2xx" /\ IsMutation(goal[c]) => a.wrote

\* Clients can recover from injected failures by retrying all that is not
\* concluded, at once or after an answer: every answer tells the truth; an upload
\* is completed at most once, and so is the creation of an object that nobody
\* deletes where there is none; a client that is told that its upload is gone, or
\* that there is an object that nobody else creates, has written it itself.
FaultsHonest ==
    \A c \in Clients :
        LET once == Completes(goal[c]) \/ (Creates(goal[c]) /\ goal[c].conditional /\ \A d \in Clients : ~Deletes(goal[d]))
            alone == \A d \in Clients \ {c} : ~Creates(goal[d])
        IN  /\ \A n \in Attempts : Concluded(c, n) => TellsTruth(c, n)
            /\ once => Cardinality(WritesOf(c)) <= 1
            /\ \A n \in Attempts : \/ attempt[c][n].status = "404"
                                   \/ (attempt[c][n].status = "412" /\ Creates(goal[c]) /\ alone)
                                  => WritesOf(c) # {}
=============================================================================
