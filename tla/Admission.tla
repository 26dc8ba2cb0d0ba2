----------------------------- MODULE Admission -----------------------------
(***************************************************************************)
(* Admission: what a request must obtain before the router sees it, and    *)
(* how it gives it back (src/src/auth.rs, src/src/server.rs, and the       *)
(* reload of src/src/main.rs).  A request takes a slot of its client's     *)
(* rate limit, a permit of its client and a permit of the whole proxy, and *)
(* holds the permits until its handler returns, its stream ends, or the    *)
(* future that serves it is dropped.  Every reload starts a generation     *)
(* with limits of its own, while requests under way keep the old one.      *)
(*                                                                         *)
(* Time is relative: a timestamp is kept as its age.  Ages stop growing at *)
(* Horizon, beyond which nobody can tell two of them apart.                *)
(***************************************************************************)
EXTENDS Integers, Sequences, FiniteSets, FiniteSetsExt

CONSTANTS
    Requests,            \* slots for concurrent requests, reused
    Clients,             \* the configured clients
    Kinds,               \* the kinds of request that arrive
    RequestsPerMinute,   \* per client
    ConcurrentRequests,  \* per client
    GlobalConcurrency,   \* limits.global_concurrency
    Window,              \* the 60 seconds of the rate limiter, in ticks
    MaxStall,            \* bound: ticks between reading the clock and the lock
    MaxReloads           \* bound: how often the configuration is reloaded

\* AppConfig::validate refuses limits of zero; the window is a minute.
ASSUME LimitsAssumption ==
    /\ IsFiniteSet(Requests)
    /\ Kinds \subseteq {"execute", "stream", "count"}
    /\ RequestsPerMinute \in [Clients -> Nat \ {0}]
    /\ ConcurrentRequests \in [Clients -> Nat \ {0}]
    /\ GlobalConcurrency \in Nat \ {0}
    /\ Window \in Nat \ {0} /\ MaxStall \in Nat /\ MaxReloads \in Nat

VARIABLES
    current,     \* the generation that new requests load
    limiter,     \* per generation and client: the deque of timestamps
    clientFree,  \* per generation and client: free permits
    globalFree,  \* per generation: free permits
    req,         \* what each request is doing
    grants       \* history: the instants at which rate slots were granted

vars == <<current, limiter, clientFree, globalFree, req, grants>>

Generations == 0..MaxReloads

Horizon == Window + MaxStall

Idle == [pc |-> "idle"]

\* stall is the time since acquire() read the clock.
Busy == [pc : {"clocked", "slotted", "screened", "admitted", "calling", "streaming", "leaving"},
         kind : Kinds, client : Clients, gen : Generations, stall : 0..MaxStall,
         holds : SUBSET {"client", "global"}]

Req == {Idle} \union Busy

Init ==
    /\ current = 0
    /\ limiter = [g \in Generations |-> [c \in Clients |-> <<>>]]
    /\ clientFree = [g \in Generations |-> ConcurrentRequests]
    /\ globalFree = [g \in Generations |-> GlobalConcurrency]
    /\ req = [r \in Requests |-> Idle]
    /\ grants = [g \in Generations |-> [c \in Clients |-> <<>>]]
-----------------------------------------------------------------------------
(* The rate limiter.                                                       *)

\* Mutants: the comparison with the cutoff is off by one, either way.
StaleEarly(age, stall) == age - stall >= Window - 1
StaleLate(age, stall) == age - stall > Window

\* A reader that read the clock stall ticks ago finds the timestamp outside
\* the window that ended then.
Stale(age, stall) == age - stall >= Window

\* What is left of a queue whose front is popped up to the first of positions.
From(q, positions) == IF positions = {} THEN <<>> ELSE SubSeq(q, Min(positions), Len(q))

\* The front is popped while it is stale.  The deque is in the order of the
\* lock, not of the clock: a fresh timestamp keeps a stale one behind it.
Prune(q, stall) == From(q, {i \in 1..Len(q) : ~Stale(q[i], stall)})

\* One step of the clock for a queue of timestamps.
Aged(q) == [i \in 1..Len(q) |-> IF q[i] < Horizon THEN q[i] + 1 ELSE q[i]]

\* History keeps the grants whose age can still be told.
Recent(q) == From(q, {i \in 1..Len(q) : q[i] < Horizon})
-----------------------------------------------------------------------------
\* The handler loads the runtime, authenticates the client, and acquire()
\* reads the clock.
Arrive(r, kind, c) ==
    /\ req[r].pc = "idle"
    /\ req' = [req EXCEPT ![r] = [pc |-> "clocked", kind |-> kind, client |-> c,
                                  gen |-> current, stall |-> 0, holds |-> {}]]
    /\ UNCHANGED <<current, limiter, clientFree, globalFree, grants>>

\* acquire() holds the limiter's lock.  A slot once taken is not returned.
TakeSlot(r) ==
    LET g == req[r].gen
        c == req[r].client
        kept == Prune(limiter[g][c], req[r].stall)
    IN  /\ req[r].pc = "clocked"
        /\ \/ /\ Len(kept) >= RequestsPerMinute[c]
              /\ limiter' = [limiter EXCEPT ![g][c] = kept]
              /\ req' = [req EXCEPT ![r] = Idle]
              /\ UNCHANGED grants
           \/ /\ Len(kept) < RequestsPerMinute[c]
              /\ limiter' = [limiter EXCEPT ![g][c] = Append(kept, req[r].stall)]
              /\ req' = [req EXCEPT ![r].pc = "slotted", ![r].stall = 0]
              /\ grants' = [grants EXCEPT ![g][c] = Append(@, 0)]
        /\ UNCHANGED <<current, clientFree, globalFree>>

\* A token count needs no permit of the proxy.
TakeClientPermit(r) ==
    LET g == req[r].gen
        c == req[r].client
    IN  /\ req[r].pc = "slotted"
        /\ \/ /\ clientFree[g][c] = 0
              /\ req' = [req EXCEPT ![r] = Idle]
              /\ UNCHANGED clientFree
           \/ /\ clientFree[g][c] > 0
              /\ clientFree' = [clientFree EXCEPT ![g][c] = @ - 1]
              /\ req' = [req EXCEPT ![r].holds = {"client"},
                           ![r].pc = IF req[r].kind = "count" THEN "admitted" ELSE "screened"]
        /\ UNCHANGED <<current, limiter, globalFree, grants>>

\* Mutant: the permit is taken from the generation now current.
TakeGlobalPermitOfCurrent(r) ==
    /\ req[r].pc = "screened"
    /\ \/ /\ globalFree[current] = 0
          /\ req' = [req EXCEPT ![r].pc = "leaving"]
          /\ UNCHANGED globalFree
       \/ /\ globalFree[current] > 0
          /\ globalFree' = [globalFree EXCEPT ![current] = @ - 1]
          /\ req' = [req EXCEPT ![r].holds = @ \union {"global"}, ![r].pc = "admitted"]
    /\ UNCHANGED <<current, limiter, clientFree, grants>>

TakeGlobalPermit(r) ==
    LET g == req[r].gen
    IN  /\ req[r].pc = "screened"
        /\ \/ /\ globalFree[g] = 0
              /\ req' = [req EXCEPT ![r].pc = "leaving"]
              /\ UNCHANGED globalFree
           \/ /\ globalFree[g] > 0
              /\ globalFree' = [globalFree EXCEPT ![g] = @ - 1]
              /\ req' = [req EXCEPT ![r].holds = @ \union {"global"}, ![r].pc = "admitted"]
        /\ UNCHANGED <<current, limiter, clientFree, grants>>

\* The payload is checked only now.  A token count is answered at once, and
\* any request may be refused; the others wait for the router.
Handle(r) ==
    /\ req[r].pc = "admitted"
    /\ \E pc \in {"leaving"} \union (IF req[r].kind = "count" THEN {} ELSE {"calling"}) :
         req' = [req EXCEPT ![r].pc = pc]
    /\ UNCHANGED <<current, limiter, clientFree, globalFree, grants>>

\* Mutant: only the establishment of a stream is timed.
CallEndsIfStream(r) ==
    /\ req[r].pc = "calling"
    /\ req[r].kind = "stream"
    /\ req' = [req EXCEPT ![r].pc = "leaving"]
    /\ UNCHANGED <<current, limiter, clientFree, globalFree, grants>>

\* The router answers, or fails, or the client goes away meanwhile.
CallEnds(r) ==
    /\ req[r].pc = "calling"
    /\ req' = [req EXCEPT ![r].pc = "leaving"]
    /\ UNCHANGED <<current, limiter, clientFree, globalFree, grants>>

\* The permits move into the body of the response.
StreamStarts(r) ==
    /\ req[r].pc = "calling"
    /\ req[r].kind = "stream"
    /\ req' = [req EXCEPT ![r].pc = "streaming"]
    /\ UNCHANGED <<current, limiter, clientFree, globalFree, grants>>

\* The body ends, with or without an error, or its client goes away.
StreamEnds(r) ==
    /\ req[r].pc = "streaming"
    /\ req' = [req EXCEPT ![r].pc = "leaving"]
    /\ UNCHANGED <<current, limiter, clientFree, globalFree, grants>>

\* Mutant: the permits go back to the runtime now current.
ReleaseToCurrent(r, permit) ==
    LET left == req[r].holds \ {permit}
    IN  /\ req[r].pc = "leaving"
        /\ permit \in req[r].holds
        /\ req' = [req EXCEPT ![r] = IF left = {} THEN Idle ELSE [req[r] EXCEPT !.holds = left]]
        /\ IF permit = "client"
           THEN /\ clientFree' = [clientFree EXCEPT ![current][req[r].client] = @ + 1]
                /\ UNCHANGED globalFree
           ELSE /\ globalFree' = [globalFree EXCEPT ![current] = @ + 1]
                /\ UNCHANGED clientFree
        /\ UNCHANGED <<current, limiter, grants>>

\* The permits are dropped one after the other; which comes first depends
\* on whether the handler returns or a future is dropped.
Release(r, permit) ==
    LET left == req[r].holds \ {permit}
    IN  /\ req[r].pc = "leaving"
        /\ permit \in req[r].holds
        /\ req' = [req EXCEPT ![r] = IF left = {} THEN Idle ELSE [req[r] EXCEPT !.holds = left]]
        /\ IF permit = "client"
           THEN /\ clientFree' = [clientFree EXCEPT ![req[r].gen][req[r].client] = @ + 1]
                /\ UNCHANGED globalFree
           ELSE /\ globalFree' = [globalFree EXCEPT ![req[r].gen] = @ + 1]
                /\ UNCHANGED clientFree
        /\ UNCHANGED <<current, limiter, grants>>

\* SIGHUP with a valid configuration: a new registry, new semaphores.  A
\* rejected one changes nothing.
Reload ==
    /\ current < MaxReloads
    /\ current' = current + 1
    /\ UNCHANGED <<limiter, clientFree, globalFree, req, grants>>

\* A unit of time passes, unless a thread would be held up for too long
\* between the clock and the lock.
Tick ==
    /\ \A r \in Requests : req[r].pc = "clocked" => req[r].stall < MaxStall
    /\ req' = [r \in Requests |-> IF req[r].pc = "clocked"
                                  THEN [req[r] EXCEPT !.stall = @ + 1] ELSE req[r]]
    /\ limiter' = [g \in Generations |-> [c \in Clients |-> Aged(limiter[g][c])]]
    /\ grants' = [g \in Generations |-> [c \in Clients |-> Recent(Aged(grants[g][c]))]]
    /\ UNCHANGED <<current, clientFree, globalFree>>

Leave(r) == \E permit \in {"client", "global"} : Release(r, permit)

RequestStep(r) ==
    \/ \E kind \in Kinds, c \in Clients : Arrive(r, kind, c)
    \/ TakeSlot(r)
    \/ TakeClientPermit(r)
    \/ TakeGlobalPermit(r)
    \/ Handle(r)
    \/ CallEnds(r)
    \/ StreamStarts(r)
    \/ StreamEnds(r)
    \/ Leave(r)

Next == Tick \/ Reload \/ \E r \in Requests : RequestStep(r)

Spec == Init /\ [][Next]_vars

\* Between its awaits a handler runs on, and the router returns within the
\* timeouts of its attempts.  A stream need not end, and nobody need arrive.
Fairness ==
    \A r \in Requests :
        /\ WF_vars(TakeSlot(r))
        /\ WF_vars(TakeClientPermit(r))
        /\ WF_vars(TakeGlobalPermit(r))
        /\ WF_vars(Handle(r))
        /\ WF_vars(CallEnds(r) \/ StreamStarts(r))
        /\ WF_vars(Leave(r))

FairSpec == Spec /\ Fairness
-----------------------------------------------------------------------------
(* Properties                                                              *)

\* The state has the shape the code gives it.
TypeOK ==
    /\ current \in Generations
    /\ limiter \in [Generations -> [Clients -> Seq(0..Horizon)]]
    /\ clientFree \in [Generations -> [Clients -> Nat]]
    /\ \A g \in Generations, c \in Clients : clientFree[g][c] <= ConcurrentRequests[c]
    /\ globalFree \in [Generations -> 0..GlobalConcurrency]
    /\ req \in [Requests -> Req]
    /\ grants \in [Generations -> [Clients -> Seq(0..Horizon)]]

Holders(g, permit) ==
    {r \in Requests : req[r].pc # "idle" /\ req[r].gen = g /\ permit \in req[r].holds}

ClientHolders(g, c) == {r \in Holders(g, "client") : req[r].client = c}

\* No permit is lost or made up, on any way out of a request and across any
\* reload: what a generation has lent is what its requests hold
\* (README.md:33 "releases concurrency permits").
PermitsConserved ==
    \A g \in Generations :
        /\ globalFree[g] + Cardinality(Holders(g, "global")) = GlobalConcurrency
        /\ \A c \in Clients :
             clientFree[g][c] + Cardinality(ClientHolders(g, c)) = ConcurrentRequests[c]

\* A request is turned away for concurrency only while others hold all the
\* permits there are in its own generation, however many reloads there were.
TurnedAwayOnlyWhenFull ==
    [][\A r \in Requests :
         LET g == req[r].gen
             c == req[r].client
         IN  /\ req[r].pc = "slotted" /\ req'[r].pc = "idle"
                  => Cardinality(ClientHolders(g, c)) = ConcurrentRequests[c]
             /\ req[r].pc = "screened" /\ req'[r].pc = "leaving"
                  => Cardinality(Holders(g, "global")) = GlobalConcurrency]_vars

GrantsWithin(g, c, span) == Cardinality({i \in 1..Len(grants[g][c]) : grants[g][c][i] < span})

\* The limit on the rate holds in real time, up to the time a thread may be
\* held up between reading the clock (auth.rs:76) and the lock (auth.rs:79).
RateHonoured ==
    \A g \in Generations, c \in Clients :
        GrantsWithin(g, c, Window - MaxStall) <= RequestsPerMinute[c]

\* A client is turned away for its rate only when it has used up its slots
\* within the window, stretched by such a delay: a stale timestamp that hides
\* behind a fresh one does not shut it out for longer.
RateRefusalJustified ==
    [][\A r \in Requests :
         req[r].pc = "clocked" /\ req'[r].pc = "idle" =>
            GrantsWithin(req[r].gen, req[r].client, Window + MaxStall)
                >= RequestsPerMinute[req[r].client]]_vars

\* A request that is not a stream gives back whatever it holds.
CallsReturnPermits ==
    \A r \in Requests :
        req[r].pc \notin {"idle", "streaming"} ~> req[r].pc \in {"idle", "streaming"}
=============================================================================
