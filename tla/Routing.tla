------------------------------ MODULE Routing ------------------------------
(***************************************************************************)
(* The router and the circuit breakers of its providers: how concurrent    *)
(* requests pick their targets, fall back from one to the next, stream,    *)
(* and change the breakers they share (src/src/routing.rs, and from        *)
(* src/src/provider.rs the circuit and the classification of failures).    *)
(*                                                                         *)
(* Time is relative: openFor is what is left of the cooldown, so the clock *)
(* needs no bound.  Locks are held within one call of available(),         *)
(* record_success() or record_failure(), so each such call is one step;    *)
(* candidates() locks one provider after the other and takes one step per  *)
(* target.  What a request asks for is abstracted to the set of providers  *)
(* whose adapt_request accepts it.                                         *)
(***************************************************************************)
EXTENDS Integers, Sequences, FiniteSets, Functions

CONSTANTS
    Requests,          \* slots for concurrent requests, reused when settled
    Providers,         \* the configured providers
    Targets,           \* the targets of the route, in the configured order
    MaxAttempts,       \* limits.max_attempts
    FailureThreshold,  \* limits.circuit_failure_threshold
    Cooldown,          \* limits.circuit_cooldown_seconds, in ticks
    Untokenizable,     \* providers whose tokenizer profile does not load
    Statuses,          \* the HTTP statuses the providers may refuse with
    MaxFailures        \* bound: nobody arrives once a provider has so many

\* config.rs:290 and 345: a validated configuration has at least one
\* attempt, and its targets name configured providers.
ASSUME ConfigAssumption ==
    /\ Targets \in Seq([provider : Providers, priority : Nat])
    /\ MaxAttempts \in Nat \ {0}
    /\ FailureThreshold \in Nat
    /\ Cooldown \in Nat
    /\ MaxFailures \in Nat
    /\ Statuses \subseteq Nat

VARIABLES
    circuit,  \* each provider's CircuitState
    job       \* what each request is doing

vars == <<circuit, job>>
-----------------------------------------------------------------------------
(* Failures: a ProxyError is kept as its cause; its kind and its retryable *)
(* flag follow from it.  status is 0 unless the provider sent one.         *)

Modes == {"execute", "stream", "count"}

\* "broken" is a connection lost or an answer that makes no sense, at any
\* point after the request was sent; "unsendable" a request that cannot be
\* put in the provider's terms; "secret" a credential that does not resolve.
Causes == {"status", "connect", "timeout", "broken", "unsendable", "secret",
           "elapsed", "idle", "capability", "circuits", "tokenizer"}

Error(cause) == [cause |-> cause, status |-> 0]

ClassifyStatus(s) == [cause |-> "status", status |-> s]

Errors == [cause : Causes, status : Statuses \union {0}]

StatusKind(s) ==
    CASE s \in {400, 404, 409, 422}           -> "invalid_request"
      [] s = 408                              -> "timeout"
      [] s = 429                              -> "rate_limit"
      [] s \in {500, 502, 503, 504, 529}      -> "overloaded"
      [] OTHER                                -> "upstream"

Kind(e) ==
    CASE e.cause = "status"                               -> StatusKind(e.status)
      [] e.cause \in {"connect", "broken"}                -> "upstream"
      [] e.cause \in {"timeout", "elapsed", "idle"}       -> "timeout"
      [] e.cause \in {"unsendable", "capability", "tokenizer"} -> "invalid_request"
      [] e.cause = "circuits"                             -> "overloaded"
      [] e.cause = "secret"                               -> "internal"

\* Mutant: a lost connection is retried like a refused one.
RetryableWhenLost(e) ==
    \/ e.cause \in {"connect", "broken"}
    \/ e.cause = "status" /\ e.status \in {408, 429, 500, 502, 503, 504, 529}

Retryable(e) ==
    \/ e.cause = "connect"
    \/ e.cause = "status" /\ e.status \in {408, 429, 500, 502, 503, 504, 529}

\* What one call of Provider::execute or Provider::stream may fail with.
AttemptErrors ==
    {ClassifyStatus(s) : s \in Statuses}
        \union {Error(c) : c \in {"connect", "timeout", "broken", "unsendable", "secret"}}

\* What an established stream may fail with.
StreamErrors == {Error("timeout"), Error("broken")}
-----------------------------------------------------------------------------
(* The circuit of a provider.                                              *)

None == -1  \* open_until is None; 0 is an instant that has passed

Circuits == [failures : Nat, openFor : Nat \union {None}]

\* Mutant: the comparison with open_until is the wrong way round.
AvailableInverted(c) == c.openFor # 0

Available(c) == c.openFor <= 0

\* Mutant: a success resets the count and leaves the deadline set.
RecordSuccessStillOpen(c) == [failures |-> 0, openFor |-> c.openFor]

RecordSuccess(c) == [failures |-> 0, openFor |-> None]

\* Mutant: the threshold is passed, not reached.
RecordFailureLate(c, e) ==
    IF Kind(e) \notin {"upstream", "timeout", "overloaded"} THEN c
    ELSE [failures |-> c.failures + 1,
          openFor  |-> IF c.failures + 1 > FailureThreshold THEN Cooldown
                       ELSE c.openFor]

\* Only the provider's own faults count: not a refused request, a rate
\* limit, or a secret missing on this side.
RecordFailure(c, e) ==
    IF Kind(e) \notin {"upstream", "timeout", "overloaded"} THEN c
    ELSE [failures |-> c.failures + 1,
          openFor  |-> IF c.failures + 1 >= FailureThreshold THEN Cooldown
                       ELSE c.openFor]
-----------------------------------------------------------------------------
(* The order in which a request tries its candidates: tier by tier, and    *)
(* within a tier any order, since every weight is positive (config.rs:345).*)

\* Mutant: the candidates are not sorted by priority first.
PriorityOrdersUnsorted(S) == Injection(1..Cardinality(S), S)

PriorityOrders(S) ==
    {order \in Injection(1..Cardinality(S), S) :
        \A i, j \in 1..Cardinality(S) :
            i < j => Targets[order[i]].priority <= Targets[order[j]].priority}

-----------------------------------------------------------------------------
Success == Error("none")
Gone    == Error("gone")

Job == [pc         : {"settled", "checking", "attempting", "streaming", "finished"},
        mode       : Modes,
        capable    : SUBSET Providers,         \* adapt_request accepts it
        checked    : 0..Len(Targets),          \* targets candidates() has seen
        compatible : SUBSET (1..Len(Targets)), \* those it has kept
        order      : Seq(1..Len(Targets)),     \* the candidates, in order
        errors     : Seq(Errors),              \* failures it fell back from
        answer     : Errors \union {Success, Gone}]

\* The router has sent the request to a candidate.
Active == {"attempting", "streaming", "finished"}

Settled(answer) ==
    [pc |-> "settled", mode |-> "execute", capable |-> {}, checked |-> 0,
     compatible |-> {}, order |-> <<>>, errors |-> <<>>, answer |-> answer]

\* The attempt under way is the one after the failures so far.
Current(j) == Targets[j.order[Len(j.errors) + 1]].provider

\* Mutants: one attempt too many, and one too few.
LastAttemptLate(j) == Len(j.errors) \in {MaxAttempts, Len(j.order)}
LastAttemptEarly(j) == Len(j.errors) + 2 \in {MaxAttempts, Len(j.order)}

LastAttempt(j) == Len(j.errors) + 1 \in {MaxAttempts, Len(j.order)}

Init ==
    /\ circuit = [p \in Providers |-> [failures |-> 0, openFor |-> None]]
    /\ job = [r \in Requests |-> Settled(Success)]

\* A request that has passed admission reaches the router.
Arrive(r, mode, capable) ==
    /\ job[r].pc = "settled"
    /\ \A p \in Providers : circuit[p].failures < MaxFailures
    /\ job' = [job EXCEPT ![r] = [Settled(Success) EXCEPT !.pc = "checking",
                                                          !.mode = mode,
                                                          !.capable = capable]]
    /\ UNCHANGED circuit

\* candidates() looks at one more target; available() forgets a deadline
\* that has passed, and leaves the count of failures alone.
CheckTarget(r) ==
    LET t == job[r].checked + 1
        p == Targets[t].provider
    IN  /\ job[r].pc = "checking"
        /\ job[r].checked < Len(Targets)
        /\ \/ /\ p \in job[r].capable
              /\ Available(circuit[p])
              /\ job' = [job EXCEPT ![r].checked = t, ![r].compatible = @ \union {t}]
              /\ circuit' = [circuit EXCEPT ![p].openFor = None]
           \/ /\ p \in job[r].capable => ~Available(circuit[p])
              /\ job' = [job EXCEPT ![r].checked = t]
              /\ UNCHANGED circuit

\* No candidate is left.  An incapable target outweighs an open circuit.
RejectAll(r) ==
    /\ job[r].pc = "checking"
    /\ job[r].checked = Len(Targets)
    /\ job[r].compatible = {}
    /\ job' = [job EXCEPT ![r] =
                 Settled(Error(IF \E t \in 1..Len(Targets) :
                                     Targets[t].provider \notin job[r].capable
                               THEN "capability" ELSE "circuits"))]
    /\ UNCHANGED circuit

\* The candidates are ordered.  A stream and a token count need the
\* tokenizer of the first one; a token count needs nothing else.
Choose(r) ==
    /\ job[r].pc = "checking"
    /\ job[r].checked = Len(Targets)
    /\ job[r].compatible # {}
    /\ \E order \in PriorityOrders(job[r].compatible) :
         LET countable == Targets[order[1]].provider \notin Untokenizable
         IN  \/ /\ job[r].mode # "execute" /\ ~countable
                /\ job' = [job EXCEPT ![r] = Settled(Error("tokenizer"))]
             \/ /\ job[r].mode = "count" /\ countable
                /\ job' = [job EXCEPT ![r] = Settled(Success)]
             \/ /\ job[r].mode = "execute" \/ (job[r].mode = "stream" /\ countable)
                /\ job' = [job EXCEPT ![r].pc = "attempting", ![r].order = order]
    /\ UNCHANGED circuit

ExecuteSucceeds(r) ==
    /\ job[r].pc = "attempting"
    /\ job[r].mode = "execute"
    /\ job' = [job EXCEPT ![r] = Settled(Success)]
    /\ circuit' = [circuit EXCEPT ![Current(job[r])] = RecordSuccess(@)]

\* The provider answers 200: the stream is handed to the client, and
\* nothing is recorded until it ends.
StreamEstablished(r) ==
    /\ job[r].pc = "attempting"
    /\ job[r].mode = "stream"
    /\ job' = [job EXCEPT ![r].pc = "streaming"]
    /\ UNCHANGED circuit

\* A retryable failure moves on to the next candidate, if one is left.
FallBack(r, e) ==
    /\ job[r].pc = "attempting"
    /\ Retryable(e) /\ ~LastAttempt(job[r])
    /\ job' = [job EXCEPT ![r].errors = Append(@, e)]
    /\ circuit' = [circuit EXCEPT ![Current(job[r])] = RecordFailure(@, e)]

\* Any other failure, and the last one, is the answer.
GiveUp(r, e) ==
    /\ job[r].pc = "attempting"
    /\ Retryable(e) => LastAttempt(job[r])
    /\ job' = [job EXCEPT ![r] = Settled(e)]
    /\ circuit' = [circuit EXCEPT ![Current(job[r])] = RecordFailure(@, e)]

\* Mutant: the establishment of a stream is not timed.
AttemptTimesOutUnlessStream(r) ==
    /\ job[r].pc = "attempting"
    /\ job[r].mode = "execute"
    /\ job' = [job EXCEPT ![r] = Settled(Error("elapsed"))]
    /\ circuit' = [circuit EXCEPT ![Current(job[r])] = RecordFailure(@, Error("elapsed"))]

\* request_timeout: the provider may have done the work, so no fallback.
AttemptTimesOut(r) ==
    /\ job[r].pc = "attempting"
    /\ job' = [job EXCEPT ![r] = Settled(Error("elapsed"))]
    /\ circuit' = [circuit EXCEPT ![Current(job[r])] = RecordFailure(@, Error("elapsed"))]

\* The provider's last event reaches the client ...
StreamFinishes(r) ==
    /\ job[r].pc = "streaming"
    /\ job' = [job EXCEPT ![r].pc = "finished"]
    /\ UNCHANGED circuit

\* ... and only the next poll of the stream records the success.
StreamEnds(r) ==
    /\ job[r].pc = "finished"
    /\ job' = [job EXCEPT ![r] = Settled(Success)]
    /\ circuit' = [circuit EXCEPT ![Current(job[r])] = RecordSuccess(@)]

StreamFails(r, e) ==
    /\ job[r].pc = "streaming"
    /\ job' = [job EXCEPT ![r] = Settled(e)]
    /\ circuit' = [circuit EXCEPT ![Current(job[r])] = RecordFailure(@, e)]

\* The server's idle timeout abandons the stream; the circuit is not told.
StreamIdles(r) ==
    /\ job[r].pc = "streaming"
    /\ job' = [job EXCEPT ![r] = Settled(Error("idle"))]
    /\ UNCHANGED circuit

\* The client goes away, and the future that serves it is dropped at the
\* await it is suspended in: nothing is recorded.
Drop(r) ==
    /\ job[r].pc \in Active
    /\ job' = [job EXCEPT ![r] = Settled(Gone)]
    /\ UNCHANGED circuit

\* One unit of time passes for every open circuit.
Tick ==
    /\ \E p \in Providers : circuit[p].openFor > 0
    /\ circuit' = [p \in Providers |->
                     IF circuit[p].openFor > 0
                     THEN [circuit[p] EXCEPT !.openFor = @ - 1] ELSE circuit[p]]
    /\ UNCHANGED job

\* What resolves an attempt under way.
Attempt(r) ==
    \/ ExecuteSucceeds(r)
    \/ StreamEstablished(r)
    \/ \E e \in AttemptErrors : FallBack(r, e) \/ GiveUp(r, e)
    \/ AttemptTimesOut(r)

RequestStep(r) ==
    \/ \E mode \in Modes, capable \in SUBSET Providers : Arrive(r, mode, capable)
    \/ CheckTarget(r)
    \/ RejectAll(r)
    \/ Choose(r)
    \/ Attempt(r)
    \/ StreamFinishes(r)
    \/ StreamEnds(r)
    \/ \E e \in StreamErrors : StreamFails(r, e)
    \/ StreamIdles(r)
    \/ Drop(r)

Next == Tick \/ \E r \in Requests : RequestStep(r)

Spec == Init /\ [][Next]_vars

\* candidates() runs without an await, and the timer of request_timeout
\* fires.  Nothing obliges a provider to answer an attempt or to end a
\* stream, or a client to read one.
Fairness ==
    \A r \in Requests :
        /\ WF_vars(CheckTarget(r))
        /\ WF_vars(RejectAll(r))
        /\ WF_vars(Choose(r))
        /\ WF_vars(AttemptTimesOut(r))

FairSpec == Spec /\ Fairness
-----------------------------------------------------------------------------
(* Properties                                                              *)

\* The state has the shape the code gives it, and an attempt under way has
\* a candidate to be sent to (Current indexes the order of Router::execute).
TypeOK ==
    /\ circuit \in [Providers -> Circuits]
    /\ job \in [Requests -> Job]
    /\ \A r \in Requests :
         IF job[r].pc \in Active
         THEN /\ Len(job[r].errors) < Len(job[r].order)
              /\ Len(job[r].errors) < MaxAttempts
         ELSE job[r].order = <<>> /\ job[r].errors = <<>>

\* A circuit has a deadline only while it holds enough failures for one: no
\* interleaving of late answers, timeouts and lazily cleared deadlines
\* leaves a provider shut out that has not failed often enough in a row.
OpenOnlyIfTripped ==
    \A p \in Providers :
        circuit[p].openFor # None => /\ circuit[p].failures > 0
                                     /\ circuit[p].failures >= FailureThreshold

Tried(j) == {j.order[i] : i \in 1..(Len(j.errors) + 1)}

Exhausted(j) == Len(j.errors) + 1 = MaxAttempts \/ Tried(j) = j.compatible

\* README.md:13 "Connect failures, 408, 429, 5xx, and 529 may move to the
\* next configured target": the provider has said it did not do the work.
MayMoveOn(e) ==
    \/ e.cause = "connect"
    \/ e.cause = "status" /\ (e.status \in {408, 429} \/ e.status >= 500)

\* A request is never sent to a second target after an outcome that leaves
\* open whether the first one did the work, and never twice to the same
\* target (README.md:16: work and cost are not duplicated).
NoDuplicatedWork ==
    \A r \in Requests :
        /\ \A i \in 1..Len(job[r].errors) : MayMoveOn(job[r].errors[i])
        /\ IsInjective(job[r].order)

\* A target is tried only when every candidate of a better priority has been
\* tried before it by the same request, and only if it was a candidate.
BetterPriorityFirst ==
    \A r \in Requests :
        job[r].pc \in Active =>
            /\ Tried(job[r]) \subseteq job[r].compatible
            /\ \A t \in job[r].compatible \ Tried(job[r]), u \in Tried(job[r]) :
                 Targets[u].priority <= Targets[t].priority

\* A failure another target might have made good reaches the client only
\* when the attempts are used up or every candidate has been tried.
GivesUpOnlyWhenExhausted ==
    [][\A r \in Requests :
         /\ job[r].pc = "attempting"
         /\ job'[r].pc = "settled"
         /\ Retryable(job'[r].answer)
         => Exhausted(job[r])]_vars

\* The targets a request may still be sent to, the one under way included.
Prospects(j) ==
    CASE j.pc = "checking"   -> j.compatible
      [] j.pc = "attempting" -> {j.order[i] : i \in (Len(j.errors) + 1)..Len(j.order)}
      [] OTHER               -> {}

\* The requests that may still send something to p.
Pending(p) == {r \in Requests : \E t \in Prospects(job[r]) : Targets[t].provider = p}

\* While a circuit is open no request joins those that may still use the
\* provider.  Requests that passed available() before it opened still go
\* through (the check is not repeated before the attempt), and no others.
OpenCircuitAdmitsNoOne ==
    [][\A p \in Providers :
         circuit[p].openFor > 0 => Pending(p)' \subseteq Pending(p)]_vars

\* The circuit of p as its callers are promised it.
Phase(c) ==
    IF c.openFor > 0 THEN "open"
    ELSE IF c.failures > 0 /\ c.failures >= FailureThreshold THEN "probation"
    ELSE "closed"

Promise(p) == INSTANCE Breaker
    WITH Threshold <- FailureThreshold,
         phase <- Phase(circuit[p]), count <- circuit[p].failures

\* Every provider's circuit is a Breaker, whatever the requests that share it
\* do and in whatever order their checks, answers and departures happen.
\* (\A p \in Providers : Promise(p)!BreakerSpec, as TLC can check it.)
CircuitsKeepPromise ==
    /\ \A p \in Providers : Promise(p)!BreakerInit
    /\ [][\A p \in Providers : [Promise(p)!BreakerNext]_(Promise(p)!bvars)]_vars

\* Every request the router accepts is answered or handed its stream within
\* its attempts' timeouts: it never waits for a circuit or another request.
EveryRequestResolves ==
    \A r \in Requests :
        job[r].pc \in {"checking", "attempting"} ~> job[r].pc \in {"streaming", "settled"}
=============================================================================
