-------------------------- MODULE AdmissionProofs --------------------------
(***************************************************************************)
(* No permit is lost or made up, for any number of clients, requests and   *)
(* reloads: an inductive invariant of Admission, and what follows from it. *)
(*                                                                         *)
(* The rate limiter keeps its promise in real time: an inductive invariant *)
(* that ties the deque, which is in the order of the lock and holds        *)
(* readings of the clock, to the instants at which slots were really       *)
(* granted, and what follows from it in both directions.                   *)
(***************************************************************************)
EXTENDS Admission, SequenceLemmas

\* The part of the state that the permits are about.
PermitTypes ==
    /\ current \in Generations
    /\ clientFree \in [Generations -> [Clients -> Nat]]
    /\ globalFree \in [Generations -> Nat]
    /\ req \in [Requests -> Req]

\* What a request holds while it asks for permits.
HeldByPhase ==
    \A r \in Requests :
        /\ req[r].pc \in {"clocked", "slotted"} => req[r].holds = {}
        /\ req[r].pc = "screened" => req[r].holds = {"client"}

PermitInv == PermitTypes /\ HeldByPhase /\ PermitsConserved
-----------------------------------------------------------------------------
(* Counting.                                                               *)

\* What one request in state q counts for among the holders.
GlobalClaim(q, g) ==
    IF q.pc # "idle" /\ q.gen = g /\ "global" \in q.holds THEN 1 ELSE 0

ClientClaim(q, g, c) ==
    IF q.pc # "idle" /\ q.gen = g /\ "client" \in q.holds /\ q.client = c THEN 1 ELSE 0

\* Two sets of requests that differ at most in r differ by r in their size.
LEMMA SizeLemma ==
    ASSUME NEW S \in SUBSET Requests, NEW T \in SUBSET Requests, NEW r \in Requests,
           S \ {r} = T \ {r}
    PROVE  /\ Cardinality(S) \in Nat /\ Cardinality(T) \in Nat
           /\ Cardinality(T) - (IF r \in T THEN 1 ELSE 0)
                = Cardinality(S) - (IF r \in S THEN 1 ELSE 0)
<1>1. IsFiniteSet(S) /\ IsFiniteSet(T)
  BY FS_Subset, LimitsAssumption
<1>2. Cardinality(S) \in Nat /\ Cardinality(T) \in Nat
  BY <1>1, FS_CardinalityType
<1>3. Cardinality(S \ {r}) = IF r \in S THEN Cardinality(S) - 1 ELSE Cardinality(S)
  BY <1>1, FS_RemoveElement
<1>4. Cardinality(T \ {r}) = IF r \in T THEN Cardinality(T) - 1 ELSE Cardinality(T)
  BY <1>1, FS_RemoveElement
<1> QED
  BY <1>2, <1>3, <1>4

\* The books balance after a step of one request if the free permits have
\* changed by what that request has taken or given back, of every kind, in
\* every generation.
LEMMA Bookkeeping ==
    ASSUME PermitTypes, PermitTypes', PermitsConserved, NEW r \in Requests,
           \A q \in Requests \ {r} : req'[q] = req[q],
           \A g \in Generations :
              /\ globalFree'[g] + GlobalClaim(req'[r], g)
                   = globalFree[g] + GlobalClaim(req[r], g)
              /\ \A c \in Clients :
                   clientFree'[g][c] + ClientClaim(req'[r], g, c)
                     = clientFree[g][c] + ClientClaim(req[r], g, c)
    PROVE  PermitsConserved'
<1> SUFFICES ASSUME NEW g \in Generations
             PROVE  /\ globalFree'[g] + Cardinality(Holders(g, "global")') = GlobalConcurrency
                    /\ \A c \in Clients :
                         clientFree'[g][c] + Cardinality(ClientHolders(g, c)')
                           = ConcurrentRequests[c]
  BY DEF PermitsConserved
<1>1. globalFree'[g] + Cardinality(Holders(g, "global")') = GlobalConcurrency
  <2> DEFINE S == Holders(g, "global")
             T == Holders(g, "global")'
  <2>1. S \in SUBSET Requests /\ T \in SUBSET Requests /\ S \ {r} = T \ {r}
    BY DEF Holders
  <2>2. /\ GlobalClaim(req[r], g) = (IF r \in S THEN 1 ELSE 0)
        /\ GlobalClaim(req'[r], g) = (IF r \in T THEN 1 ELSE 0)
    BY DEF Holders, GlobalClaim
  <2>3. globalFree[g] + Cardinality(S) = GlobalConcurrency
    BY DEF PermitsConserved
  <2>4. globalFree[g] \in Nat /\ globalFree'[g] \in Nat /\ GlobalConcurrency \in Nat
    BY LimitsAssumption DEF PermitTypes
  <2>5. globalFree'[g] + GlobalClaim(req'[r], g) = globalFree[g] + GlobalClaim(req[r], g)
    OBVIOUS
  <2> HIDE DEF S, T
  <2>6. /\ Cardinality(S) \in Nat /\ Cardinality(T) \in Nat
        /\ Cardinality(T) - (IF r \in T THEN 1 ELSE 0)
             = Cardinality(S) - (IF r \in S THEN 1 ELSE 0)
    BY <2>1, SizeLemma
  <2>7. globalFree'[g] + Cardinality(T) = GlobalConcurrency
    BY <2>2, <2>3, <2>4, <2>5, <2>6
  <2> QED
    BY <2>7 DEF T
<1>2. ASSUME NEW c \in Clients
      PROVE  clientFree'[g][c] + Cardinality(ClientHolders(g, c)') = ConcurrentRequests[c]
  <2> DEFINE S == ClientHolders(g, c)
             T == ClientHolders(g, c)'
  <2>1. S \in SUBSET Requests /\ T \in SUBSET Requests /\ S \ {r} = T \ {r}
    BY DEF Holders, ClientHolders
  <2>2. /\ ClientClaim(req[r], g, c) = (IF r \in S THEN 1 ELSE 0)
        /\ ClientClaim(req'[r], g, c) = (IF r \in T THEN 1 ELSE 0)
    BY DEF Holders, ClientHolders, ClientClaim
  <2>3. clientFree[g][c] + Cardinality(S) = ConcurrentRequests[c]
    BY DEF PermitsConserved
  <2>4. clientFree[g][c] \in Nat /\ clientFree'[g][c] \in Nat /\ ConcurrentRequests[c] \in Nat
    BY LimitsAssumption DEF PermitTypes
  <2>5. clientFree'[g][c] + ClientClaim(req'[r], g, c)
          = clientFree[g][c] + ClientClaim(req[r], g, c)
    OBVIOUS
  <2> HIDE DEF S, T
  <2>6. /\ Cardinality(S) \in Nat /\ Cardinality(T) \in Nat
        /\ Cardinality(T) - (IF r \in T THEN 1 ELSE 0)
             = Cardinality(S) - (IF r \in S THEN 1 ELSE 0)
    BY <2>1, SizeLemma
  <2>7. clientFree'[g][c] + Cardinality(T) = ConcurrentRequests[c]
    BY <2>2, <2>3, <2>4, <2>5, <2>6
  <2> QED
    BY <2>7 DEF T
<1> QED
  BY <1>1, <1>2

\* A step of one request that leaves its claims as they are.
LEMMA SameClaims ==
    ASSUME PermitInv, PermitTypes', NEW r \in Requests,
           \A q \in Requests \ {r} : req'[q] = req[q],
           \A g \in Generations : GlobalClaim(req'[r], g) = GlobalClaim(req[r], g),
           \A g \in Generations, c \in Clients :
              ClientClaim(req'[r], g, c) = ClientClaim(req[r], g, c),
           UNCHANGED <<clientFree, globalFree>>
    PROVE  PermitsConserved'
BY Bookkeeping DEF PermitInv
-----------------------------------------------------------------------------
(* Every step keeps the invariant.                                         *)

\* Changing one free count keeps the counts of a generation natural.
LEMMA CountUpdate ==
    ASSUME NEW f \in [Clients -> Nat], NEW c \in Clients, NEW n \in Nat
    PROVE  [f EXCEPT ![c] = n] \in [Clients -> Nat]
OBVIOUS

\* A request that is not idle is of the shape Busy.
LEMMA BusyLemma ==
    ASSUME NEW q \in Req, q.pc # "idle"
    PROVE  q \in Busy
BY DEF Req, Idle

\* A step that replaces the state of one request by x, with the generation
\* and the free permits as they were.
LEMMA Replace ==
    ASSUME PermitInv, NEW r \in Requests, NEW x \in Req,
           req' = [req EXCEPT ![r] = x],
           x.pc \in {"clocked", "slotted"} => x.holds = {},
           x.pc = "screened" => x.holds = {"client"},
           \A g \in Generations : GlobalClaim(x, g) = GlobalClaim(req[r], g),
           \A g \in Generations, c \in Clients :
              ClientClaim(x, g, c) = ClientClaim(req[r], g, c),
           UNCHANGED <<current, clientFree, globalFree>>
    PROVE  PermitInv'
<1>1. PermitTypes'
  BY DEF PermitInv, PermitTypes
<1>2. req'[r] = x /\ \A q \in Requests \ {r} : req'[q] = req[q]
  BY DEF PermitInv, PermitTypes
<1>3. HeldByPhase'
  BY <1>2 DEF PermitInv, HeldByPhase
<1>4. PermitsConserved'
  BY <1>1, <1>2, SameClaims
<1> QED
  BY <1>1, <1>3, <1>4 DEF PermitInv

\* What a request does before it asks for permits, or once it has them.
LEMMA QuietStep ==
    ASSUME PermitInv, NEW r \in Requests,
           \/ \E kind \in Kinds, c \in Clients : Arrive(r, kind, c)
           \/ TakeSlot(r) \/ Handle(r) \/ CallEnds(r) \/ StreamStarts(r) \/ StreamEnds(r)
    PROVE  PermitInv'
<1>0. req \in [Requests -> Req] /\ req[r] \in Req /\ HeldByPhase /\ current \in Generations
  BY DEF PermitInv, PermitTypes
<1>1. ASSUME NEW kind \in Kinds, NEW c \in Clients, Arrive(r, kind, c)
      PROVE  PermitInv'
  <2> DEFINE x == [pc |-> "clocked", kind |-> kind, client |-> c,
                   gen |-> current, stall |-> 0, holds |-> {}]
  <2>1. x \in Req
    BY <1>0, LimitsAssumption DEF Req, Busy
  <2>2. /\ \A g \in Generations : GlobalClaim(x, g) = GlobalClaim(req[r], g)
        /\ \A g \in Generations, d \in Clients : ClientClaim(x, g, d) = ClientClaim(req[r], g, d)
    BY <1>1 DEF GlobalClaim, ClientClaim, Arrive
  <2>3. req' = [req EXCEPT ![r] = x] /\ UNCHANGED <<current, clientFree, globalFree>>
    BY <1>1 DEF Arrive
  <2>4. x.pc = "clocked" /\ x.holds = {}
    OBVIOUS
  <2> HIDE DEF x
  <2> QED
    BY <2>1, <2>2, <2>3, <2>4, Replace
<1>2. CASE TakeSlot(r)
  <2>0. req[r].pc = "clocked" /\ req[r] \in Busy /\ req[r].holds = {}
    BY <1>0, <1>2, BusyLemma DEF TakeSlot, HeldByPhase
  <2>1. CASE req' = [req EXCEPT ![r] = Idle]
    <3>1. Idle \in Req /\ Idle.pc = "idle"
      BY DEF Req, Idle
    <3>2. /\ \A g \in Generations : GlobalClaim(Idle, g) = GlobalClaim(req[r], g)
          /\ \A g \in Generations, d \in Clients :
               ClientClaim(Idle, g, d) = ClientClaim(req[r], g, d)
      BY <2>0, <3>1 DEF GlobalClaim, ClientClaim
    <3> QED
      BY <1>2, <2>1, <3>1, <3>2, Replace DEF TakeSlot
  <2>2. CASE req' = [req EXCEPT ![r].pc = "slotted", ![r].stall = 0]
    <3> DEFINE x == [req[r] EXCEPT !.pc = "slotted", !.stall = 0]
    <3>0. 0 \in 0..MaxStall
      BY LimitsAssumption
    <3>1. x \in Req /\ x.pc = "slotted" /\ x.holds = {}
      BY <2>0, <3>0 DEF Req, Busy
    <3>2. req' = [req EXCEPT ![r] = x]
      BY <2>2
    <3> HIDE DEF x
    <3>3. /\ \A g \in Generations : GlobalClaim(x, g) = GlobalClaim(req[r], g)
          /\ \A g \in Generations, d \in Clients : ClientClaim(x, g, d) = ClientClaim(req[r], g, d)
      BY <2>0, <3>1 DEF GlobalClaim, ClientClaim
    <3> QED
      BY <1>2, <3>1, <3>2, <3>3, Replace DEF TakeSlot
  <2> QED
    BY <1>2, <2>1, <2>2 DEF TakeSlot
<1>3. CASE Handle(r) \/ CallEnds(r) \/ StreamStarts(r) \/ StreamEnds(r)
  <2>1. PICK pc \in {"calling", "streaming", "leaving"} :
           /\ req[r].pc # "idle"
           /\ req' = [req EXCEPT ![r].pc = pc]
           /\ UNCHANGED <<current, clientFree, globalFree>>
    BY <1>3 DEF Handle, CallEnds, StreamStarts, StreamEnds
  <2> DEFINE x == [req[r] EXCEPT !.pc = pc]
  <2>2. req[r] \in Busy
    BY <1>0, <2>1, BusyLemma
  <2>3. /\ x \in Req /\ x.pc = pc
        /\ x.gen = req[r].gen /\ x.client = req[r].client /\ x.holds = req[r].holds
    BY <2>2 DEF Req, Busy
  <2>4. req' = [req EXCEPT ![r] = x]
    BY <2>1
  <2> HIDE DEF x
  <2>5. /\ \A g \in Generations : GlobalClaim(x, g) = GlobalClaim(req[r], g)
        /\ \A g \in Generations, d \in Clients : ClientClaim(x, g, d) = ClientClaim(req[r], g, d)
    BY <2>1, <2>3 DEF GlobalClaim, ClientClaim
  <2> QED
    BY <2>1, <2>3, <2>4, <2>5, Replace
<1> QED
  BY <1>1, <1>2, <1>3

\* The permits a request takes ...
LEMMA TakeStep ==
    ASSUME PermitInv, NEW r \in Requests, TakeClientPermit(r) \/ TakeGlobalPermit(r)
    PROVE  PermitInv'
<1> DEFINE q == req[r]
           g0 == q.gen
           c0 == q.client
<1>0. /\ PermitTypes /\ PermitsConserved /\ q \in Busy
      /\ HeldByPhase /\ q.holds = IF q.pc = "slotted" THEN {} ELSE {"client"}
  BY BusyLemma DEF PermitInv, PermitTypes, HeldByPhase, TakeClientPermit, TakeGlobalPermit
<1>1. ASSUME NEW x \in Req, req' = [req EXCEPT ![r] = x],
             UNCHANGED <<current, clientFree, globalFree>>,
             \/ x.pc = "idle" /\ q.holds = {}
             \/ x.pc = "leaving" /\ x.gen = q.gen /\ x.client = q.client /\ x.holds = q.holds
      PROVE  PermitInv'
  <2>1. /\ \A g \in Generations : GlobalClaim(x, g) = GlobalClaim(q, g)
        /\ \A g \in Generations, c \in Clients : ClientClaim(x, g, c) = ClientClaim(q, g, c)
    BY <1>0, <1>1 DEF GlobalClaim, ClientClaim, Busy
  <2> QED
    BY <1>1, <2>1, Replace
<1>2. ASSUME NEW x \in Busy, req' = [req EXCEPT ![r] = x],
             x.gen = g0, x.client = c0, UNCHANGED current,
             \/ /\ x.pc \in {"screened", "admitted"} /\ q.holds = {} /\ x.holds = {"client"}
                /\ clientFree[g0][c0] > 0
                /\ clientFree' = [clientFree EXCEPT ![g0][c0] = @ - 1]
                /\ UNCHANGED globalFree
             \/ /\ x.pc = "admitted" /\ q.holds = {"client"} /\ x.holds = {"client", "global"}
                /\ globalFree[g0] > 0
                /\ globalFree' = [globalFree EXCEPT ![g0] = @ - 1]
                /\ UNCHANGED clientFree
      PROVE  PermitInv'
  <2>1. g0 \in Generations /\ c0 \in Clients /\ x.pc # "idle" /\ q.pc # "idle"
    BY <1>0, <1>2 DEF Busy
  <2>2. PermitTypes'
    <3>1. req' \in [Requests -> Req] /\ current' \in Generations
      BY <1>0, <1>2 DEF PermitTypes, Req
    <3>2. globalFree' \in [Generations -> Nat]
      BY <1>0, <1>2, <2>1 DEF PermitTypes
    <3>3. clientFree' \in [Generations -> [Clients -> Nat]]
      <4>1. clientFree[g0] \in [Clients -> Nat] /\ clientFree[g0][c0] \in Nat
        BY <1>0, <2>1 DEF PermitTypes
      <4>2. clientFree[g0][c0] > 0 =>
              [clientFree[g0] EXCEPT ![c0] = @ - 1] \in [Clients -> Nat]
        BY <2>1, <4>1, CountUpdate
      <4> QED
        BY <1>0, <1>2, <4>2 DEF PermitTypes
    <3> QED
      BY <3>1, <3>2, <3>3 DEF PermitTypes
  <2>3. req'[r] = x /\ \A p \in Requests \ {r} : req'[p] = req[p]
    BY <1>0, <1>2 DEF PermitTypes
  <2>4. HeldByPhase'
    BY <1>0, <1>2, <2>3 DEF HeldByPhase
  <2>5. ASSUME NEW g \in Generations
        PROVE  globalFree'[g] + GlobalClaim(x, g) = globalFree[g] + GlobalClaim(q, g)
    BY <1>0, <1>2, <2>1 DEF PermitTypes, GlobalClaim
  <2>6. ASSUME NEW g \in Generations, NEW c \in Clients
        PROVE  clientFree'[g][c] + ClientClaim(x, g, c) = clientFree[g][c] + ClientClaim(q, g, c)
    BY <1>0, <1>2, <2>1 DEF PermitTypes, ClientClaim
  <2>7. PermitsConserved'
    BY <1>0, <2>2, <2>3, <2>5, <2>6, Bookkeeping
  <2> QED
    BY <2>2, <2>4, <2>7 DEF PermitInv
<1>3. CASE TakeClientPermit(r)
  <2>1. CASE clientFree[g0][c0] = 0 /\ req' = [req EXCEPT ![r] = Idle] /\ UNCHANGED clientFree
    <3>1. Idle \in Req /\ Idle.pc = "idle"
      BY DEF Idle, Req
    <3>2. q.holds = {} /\ UNCHANGED <<current, globalFree>>
      BY <1>0, <1>3 DEF TakeClientPermit
    <3>3. req' = [req EXCEPT ![r] = Idle] /\ UNCHANGED clientFree
      BY <2>1
    <3> HIDE DEF q
    <3> QED
      BY <1>1, <3>1, <3>2, <3>3
  <2>2. CASE /\ clientFree[g0][c0] > 0
             /\ clientFree' = [clientFree EXCEPT ![g0][c0] = @ - 1]
             /\ req' = [req EXCEPT ![r].holds = {"client"},
                          ![r].pc = IF req[r].kind = "count" THEN "admitted" ELSE "screened"]
    <3> DEFINE x == [q EXCEPT !.holds = {"client"},
                              !.pc = IF q.kind = "count" THEN "admitted" ELSE "screened"]
    <3>1. /\ x \in Busy /\ x.gen = g0 /\ x.client = c0
          /\ x.holds = {"client"} /\ x.pc \in {"screened", "admitted"}
      BY <1>0 DEF Busy
    <3>2. req' = [req EXCEPT ![r] = x]
      BY <2>2
    <3>3. q.holds = {} /\ UNCHANGED <<current, globalFree>>
      BY <1>0, <1>3 DEF TakeClientPermit
    <3> HIDE DEF x
    <3> QED
      BY <1>2, <2>2, <3>1, <3>2, <3>3
  <2> QED
    BY <1>3, <2>1, <2>2 DEF TakeClientPermit
<1>4. CASE TakeGlobalPermit(r)
  <2>0. q.pc = "screened" /\ q.holds = {"client"} /\ UNCHANGED <<current, clientFree>>
    BY <1>0, <1>4 DEF TakeGlobalPermit
  <2>1. CASE globalFree[g0] = 0 /\ req' = [req EXCEPT ![r].pc = "leaving"] /\ UNCHANGED globalFree
    <3> DEFINE x == [q EXCEPT !.pc = "leaving"]
    <3>1. /\ x \in Req /\ x.pc = "leaving" /\ x.gen = q.gen
          /\ x.client = q.client /\ x.holds = q.holds
      BY <1>0 DEF Busy, Req
    <3> HIDE DEF x
    <3>2. req' = [req EXCEPT ![r] = x]
      BY <2>1 DEF x
    <3> QED
      BY <1>1, <2>0, <2>1, <3>1, <3>2
  <2>2. CASE /\ globalFree[g0] > 0
             /\ globalFree' = [globalFree EXCEPT ![g0] = @ - 1]
             /\ req' = [req EXCEPT ![r].holds = @ \union {"global"}, ![r].pc = "admitted"]
    <3> DEFINE x == [q EXCEPT !.holds = @ \union {"global"}, !.pc = "admitted"]
    <3>1. /\ x \in Busy /\ x.gen = g0 /\ x.client = c0
          /\ x.holds = {"client", "global"} /\ x.pc = "admitted"
      BY <1>0, <2>0 DEF Busy
    <3>2. req' = [req EXCEPT ![r] = x]
      BY <2>2
    <3> HIDE DEF x
    <3> QED
      BY <1>2, <2>0, <2>2, <3>1, <3>2
  <2> QED
    BY <1>4, <2>1, <2>2 DEF TakeGlobalPermit
<1> QED
  BY <1>3, <1>4

\* ... and those it gives back.
LEMMA ReleaseStep ==
    ASSUME PermitInv, NEW r \in Requests, NEW permit \in {"client", "global"},
           Release(r, permit)
    PROVE  PermitInv'
<1> DEFINE q == req[r]
           g0 == q.gen
           c0 == q.client
           left == q.holds \ {permit}
           x == IF left = {} THEN Idle ELSE [q EXCEPT !.holds = left]
<1>0. /\ PermitTypes /\ PermitsConserved /\ HeldByPhase /\ q \in Busy
      /\ q.pc = "leaving" /\ permit \in q.holds /\ UNCHANGED current
  BY BusyLemma DEF PermitInv, PermitTypes, Release
<1>1. g0 \in Generations /\ c0 \in Clients
  BY <1>0 DEF Busy
<1>2. req' = [req EXCEPT ![r] = x]
  BY DEF Release
<1>3. /\ x \in Req
      /\ \/ x.pc = "idle" /\ q.holds = {permit}
         \/ /\ x.pc = "leaving" /\ x.gen = g0 /\ x.client = c0
            /\ x.holds = q.holds \ {permit}
  <2>1. CASE left = {}
    BY <1>0, <2>1 DEF Req, Idle
  <2>2. CASE left # {}
    BY <1>0, <2>2 DEF Req, Busy
  <2> QED
    BY <2>1, <2>2
<1> HIDE DEF x
<1>4. req'[r] = x /\ \A p \in Requests \ {r} : req'[p] = req[p]
  BY <1>0, <1>2 DEF PermitTypes
<1>5. HeldByPhase'
  BY <1>0, <1>3, <1>4 DEF HeldByPhase
<1>6. CASE permit = "client"
  <2>1. /\ clientFree' = [clientFree EXCEPT ![g0][c0] = @ + 1]
        /\ UNCHANGED globalFree
    BY <1>6 DEF Release
  <2>2. PermitTypes'
    <3>1. clientFree[g0] \in [Clients -> Nat] /\ clientFree[g0][c0] \in Nat
      BY <1>0, <1>1 DEF PermitTypes
    <3>2. [clientFree[g0] EXCEPT ![c0] = @ + 1] \in [Clients -> Nat]
      BY <1>1, <3>1, CountUpdate
    <3> QED
      BY <1>0, <1>2, <1>3, <2>1, <3>2 DEF PermitTypes
  <2>3. ASSUME NEW g \in Generations
        PROVE  globalFree'[g] + GlobalClaim(x, g) = globalFree[g] + GlobalClaim(q, g)
    BY <1>0, <1>3, <1>6, <2>1 DEF GlobalClaim
  <2>4. ASSUME NEW g \in Generations, NEW c \in Clients
        PROVE  clientFree'[g][c] + ClientClaim(x, g, c) = clientFree[g][c] + ClientClaim(q, g, c)
    BY <1>0, <1>1, <1>3, <1>6, <2>1 DEF PermitTypes, ClientClaim
  <2>5. PermitsConserved'
    BY <1>0, <1>4, <2>2, <2>3, <2>4, Bookkeeping
  <2> QED
    BY <1>5, <2>2, <2>5 DEF PermitInv
<1>7. CASE permit = "global"
  <2>1. /\ globalFree' = [globalFree EXCEPT ![g0] = @ + 1]
        /\ UNCHANGED clientFree
    BY <1>7 DEF Release
  <2>2. PermitTypes'
    BY <1>0, <1>1, <1>2, <1>3, <2>1 DEF PermitTypes
  <2>3. ASSUME NEW g \in Generations
        PROVE  globalFree'[g] + GlobalClaim(x, g) = globalFree[g] + GlobalClaim(q, g)
    BY <1>0, <1>1, <1>3, <1>7, <2>1 DEF PermitTypes, GlobalClaim
  <2>4. ASSUME NEW g \in Generations, NEW c \in Clients
        PROVE  clientFree'[g][c] + ClientClaim(x, g, c) = clientFree[g][c] + ClientClaim(q, g, c)
    BY <1>0, <1>3, <1>7, <2>1 DEF ClientClaim
  <2>5. PermitsConserved'
    BY <1>0, <1>4, <2>2, <2>3, <2>4, Bookkeeping
  <2> QED
    BY <1>5, <2>2, <2>5 DEF PermitInv
<1> QED
  BY <1>6, <1>7

\* The clock moves every stall and no claim.
LEMMA TickStep == PermitInv /\ Tick => PermitInv'
<1> SUFFICES ASSUME PermitInv, Tick
             PROVE  PermitInv'
  OBVIOUS
<1>0. req \in [Requests -> Req] /\ HeldByPhase /\ PermitsConserved
  BY DEF PermitInv, PermitTypes
<1>1. UNCHANGED <<current, clientFree, globalFree>>
  BY DEF Tick
<1>2. ASSUME NEW r \in Requests
      PROVE  /\ req'[r] \in Req /\ req'[r].pc = req[r].pc
             /\ req[r].pc # "idle" => /\ req'[r].gen = req[r].gen
                                      /\ req'[r].client = req[r].client
                                      /\ req'[r].holds = req[r].holds
  <2>1. CASE req[r].pc # "clocked"
    BY <1>0, <2>1 DEF Tick
  <2>2. CASE req[r].pc = "clocked"
    <3>1. req[r] \in Busy /\ req[r].stall < MaxStall
      BY <1>0, <2>2, BusyLemma DEF Tick
    <3>2. req[r].stall + 1 \in 0..MaxStall
      BY <3>1, LimitsAssumption DEF Busy
    <3>3. req'[r] = [req[r] EXCEPT !.stall = @ + 1]
      BY <2>2 DEF Tick
    <3> QED
      BY <2>2, <3>1, <3>2, <3>3 DEF Busy, Req
  <2> QED
    BY <2>1, <2>2
<1>3. PermitTypes'
  <2>1. req' \in [Requests -> Req]
    BY <1>2 DEF Tick
  <2> QED
    BY <1>1, <2>1 DEF PermitInv, PermitTypes
<1>4. HeldByPhase'
  BY <1>0, <1>2 DEF HeldByPhase
<1>5. ASSUME NEW g \in Generations, NEW permit
      PROVE  Holders(g, permit)' = Holders(g, permit)
  BY <1>2 DEF Holders
<1>6. ASSUME NEW g \in Generations, NEW c \in Clients
      PROVE  ClientHolders(g, c)' = ClientHolders(g, c)
  BY <1>2 DEF ClientHolders, Holders
<1>7. PermitsConserved'
  BY <1>0, <1>1, <1>5, <1>6 DEF PermitsConserved
<1> QED
  BY <1>3, <1>4, <1>7 DEF PermitInv

\* A reload hands out a generation whose permits nobody holds yet.
LEMMA PermitStep == PermitInv /\ [Next]_vars => PermitInv'
<1> SUFFICES ASSUME PermitInv, [Next]_vars
             PROVE  PermitInv'
  OBVIOUS
<1>0. ASSUME UNCHANGED <<clientFree, globalFree, req>>, current' \in Generations
      PROVE  PermitInv'
  <2>1. PermitTypes' /\ HeldByPhase'
    BY <1>0 DEF PermitInv, PermitTypes, HeldByPhase
  <2>2. ASSUME NEW g \in Generations, NEW permit
        PROVE  Holders(g, permit)' = Holders(g, permit)
    BY <1>0 DEF Holders
  <2>3. ASSUME NEW g \in Generations, NEW c \in Clients
        PROVE  ClientHolders(g, c)' = ClientHolders(g, c)
    BY <1>0, <2>2 DEF ClientHolders
  <2>4. PermitsConserved'
    BY <1>0, <2>2, <2>3 DEF PermitInv, PermitsConserved
  <2> QED
    BY <2>1, <2>4 DEF PermitInv
<1>1. CASE UNCHANGED vars
  BY <1>0, <1>1 DEF vars, PermitInv, PermitTypes
<1>2. CASE Reload
  <2>1. current' \in Generations
    BY <1>2, LimitsAssumption DEF Reload, Generations, PermitInv, PermitTypes
  <2> QED
    BY <1>0, <1>2, <2>1 DEF Reload
<1>3. CASE Tick
  BY <1>3, TickStep
<1>4. ASSUME NEW r \in Requests, RequestStep(r)
      PROVE  PermitInv'
  BY <1>4, QuietStep, TakeStep, ReleaseStep DEF RequestStep, Leave
<1> QED
  BY <1>1, <1>2, <1>3, <1>4 DEF Next

\* Nobody holds anything in the beginning.
LEMMA PermitStart == Init => PermitInv
<1> SUFFICES ASSUME Init
             PROVE  PermitInv
  OBVIOUS
<1>1. PermitTypes /\ HeldByPhase
  BY LimitsAssumption DEF Init, PermitTypes, HeldByPhase, Generations, Req, Idle
<1>2. ASSUME NEW g \in Generations, NEW permit
      PROVE  Holders(g, permit) = {}
  BY DEF Holders, Init, Idle
<1>3. ASSUME NEW g \in Generations, NEW c \in Clients
      PROVE  ClientHolders(g, c) = {}
  BY <1>2 DEF ClientHolders
<1>4. PermitsConserved
  <2> SUFFICES ASSUME NEW g \in Generations
               PROVE  /\ globalFree[g] + Cardinality(Holders(g, "global")) = GlobalConcurrency
                      /\ \A c \in Clients :
                           clientFree[g][c] + Cardinality(ClientHolders(g, c))
                             = ConcurrentRequests[c]
    BY DEF PermitsConserved
  <2>1. Cardinality(Holders(g, "global")) = 0
    BY <1>2, FS_EmptySet
  <2>2. \A c \in Clients : Cardinality(ClientHolders(g, c)) = 0
    BY <1>3, FS_EmptySet
  <2> QED
    BY <2>1, <2>2, LimitsAssumption DEF Init
<1> QED
  BY <1>1, <1>4 DEF PermitInv

\* The inductive invariant always holds.
LEMMA PermitInvariant == Spec => []PermitInv
BY PermitStart, PermitStep, PTL DEF Spec

\* No permit is ever lost or made up, on any way out of a request and across
\* any number of reloads.
THEOREM PermitsConservedInvariant == Spec => []PermitsConserved
<1>1. PermitInv => PermitsConserved
  BY DEF PermitInv
<1> QED
  BY <1>1, PermitInvariant, PTL

\* A request is turned away for concurrency only while requests of its own
\* generation hold every permit there is.
THEOREM TurnedAwayOnlyWhenFullAlways == Spec => TurnedAwayOnlyWhenFull
<1> DEFINE Justified(r) ==
      LET g == req[r].gen
          c == req[r].client
      IN  /\ req[r].pc = "slotted" /\ req'[r].pc = "idle"
               => Cardinality(ClientHolders(g, c)) = ConcurrentRequests[c]
          /\ req[r].pc = "screened" /\ req'[r].pc = "leaving"
               => Cardinality(Holders(g, "global")) = GlobalConcurrency
<1>1. PermitInv /\ [Next]_vars => \A r \in Requests : Justified(r)
  <2> SUFFICES ASSUME PermitInv, [Next]_vars, NEW r \in Requests,
                      req'[r].pc # req[r].pc, req[r].pc \in {"slotted", "screened"}
               PROVE  Justified(r)
    OBVIOUS
  <2> DEFINE g == req[r].gen
             c == req[r].client
  <2>0. req \in [Requests -> Req] /\ req[r] \in Busy /\ g \in Generations /\ c \in Clients
    <3>1. req \in [Requests -> Req] /\ req[r] \in Busy
      BY BusyLemma DEF PermitInv, PermitTypes
    <3> QED
      BY <3>1 DEF Busy
  <2>1. PICK s \in Requests : RequestStep(s)
    BY DEF Next, Tick, Reload, vars, PermitInv, PermitTypes
  <2>2. req'[r] # req[r] => s = r
    BY <2>1 DEF RequestStep, Leave, Arrive, TakeSlot, TakeClientPermit, TakeGlobalPermit,
                Handle, CallEnds, StreamStarts, StreamEnds, Release, PermitInv, PermitTypes
  <2>3. CASE req[r].pc = "slotted"
    <3>1. TakeClientPermit(r)
      BY <2>1, <2>2, <2>3 DEF RequestStep, Leave, Arrive, TakeSlot, TakeGlobalPermit,
                              Handle, CallEnds, StreamStarts, StreamEnds, Release
    <3>2. CASE req'[r].pc = "idle"
      <4>1. clientFree[g][c] = 0
        BY <2>0, <3>1, <3>2 DEF TakeClientPermit, Busy
      <4>2. Cardinality(ClientHolders(g, c)) \in Nat
        BY <2>0, SizeLemma DEF ClientHolders, Holders
      <4>3. clientFree[g][c] + Cardinality(ClientHolders(g, c)) = ConcurrentRequests[c]
        BY <2>0 DEF PermitInv, PermitsConserved
      <4> QED
        BY <2>3, <4>1, <4>2, <4>3
    <3> QED
      BY <2>3, <3>2
  <2>4. CASE req[r].pc = "screened"
    <3>1. TakeGlobalPermit(r)
      BY <2>1, <2>2, <2>4 DEF RequestStep, Leave, Arrive, TakeSlot, TakeClientPermit,
                              Handle, CallEnds, StreamStarts, StreamEnds, Release
    <3>2. CASE req'[r].pc = "leaving"
      <4>1. globalFree[g] = 0
        BY <2>0, <3>1, <3>2 DEF TakeGlobalPermit, Busy
      <4>2. Cardinality(Holders(g, "global")) \in Nat
        BY <2>0, SizeLemma DEF Holders
      <4>3. globalFree[g] + Cardinality(Holders(g, "global")) = GlobalConcurrency
        BY <2>0 DEF PermitInv, PermitsConserved
      <4> QED
        BY <2>4, <4>1, <4>2, <4>3
    <3> QED
      BY <2>4, <3>2
  <2> QED
    BY <2>3, <2>4
<1> QED
  BY <1>1, PermitInvariant, PTL DEF Spec, TurnedAwayOnlyWhenFull
-----------------------------------------------------------------------------
(* The rate limiter.                                                       *)


\* The element of q that has j others behind it.
Back(q, j) == q[Len(q) - j]

\* The deque q and the grants G of one client, both oldest first, seen from
\* their newest ends.  The grants are in the order of time.  What the deque
\* still holds is the reading that came before the grant by at most a stall;
\* what it has popped was granted long ago; what it holds of grants that
\* history has dropped is as old as can be.
Linked(q, G, limit) ==
    /\ Len(q) <= limit
    /\ \A j \in 0..Len(G) - 1 : Back(G, j) < Horizon /\ \A k \in 0..j : Back(G, k) <= Back(G, j)
    /\ \A j \in 0..Len(G) - 1 :
         \/ j < Len(q) /\ Back(G, j) <= Back(q, j) /\ Back(q, j) <= Back(G, j) + MaxStall
         \/ j >= Len(q) /\ Back(G, j) >= Window - MaxStall
    /\ \A j \in Len(G)..Len(q) - 1 : Back(q, j) = Horizon

QueueTypes ==
    /\ limiter \in [Generations -> [Clients -> Seq(0..Horizon)]]
    /\ grants \in [Generations -> [Clients -> Seq(0..Horizon)]]

RateInv ==
    /\ QueueTypes
    /\ \A g \in Generations, c \in Clients :
         Linked(limiter[g][c], grants[g][c], RequestsPerMinute[c])
-----------------------------------------------------------------------------
(* Queues.                                                                 *)

\* From pops some of the front, up to the first of the positions.
LEMMA FromShape ==
    ASSUME NEW T, NEW q \in Seq(T), NEW P \in SUBSET (1..Len(q))
    PROVE  /\ From(q, P) \in Seq(T)
           /\ \E d \in 0..Len(q) :
                /\ Len(From(q, P)) = Len(q) - d
                /\ \A i \in 1..Len(q) - d : From(q, P)[i] = q[i + d]
                /\ \A i \in 1..d : i \notin P
                /\ d < Len(q) => d + 1 \in P
<1>1. CASE P = {}
  BY <1>1 DEF From
<1>2. CASE P # {}
  <2>1. Min(P) \in P /\ \A x \in P : Min(P) <= x
    BY <1>2, LeastElement
  <2> DEFINE m == Min(P)
  <2>2. From(q, P) = SubSeq(q, m, Len(q)) /\ m \in 1..Len(q) /\ m \in P
    BY <1>2, <2>1 DEF From
  <2>3. ASSUME NEW i \in 1..m - 1
        PROVE  i \notin P
    <3>1. i < m
      BY <2>2
    <3> QED
      BY <2>1, <2>2, <3>1
  <2> HIDE DEF m
  <2>4. /\ From(q, P) \in Seq(T)
        /\ Len(From(q, P)) = Len(q) - (m - 1)
        /\ \A i \in 1..Len(q) - (m - 1) : From(q, P)[i] = q[i + (m - 1)]
    BY <2>2
  <2>5. m - 1 \in 0..Len(q) /\ (m - 1) + 1 = m
    BY <2>2
  <2> QED
    BY <2>2, <2>3, <2>4, <2>5
<1> QED
  BY <1>1, <1>2

\* The element that has j others behind it is one of q.
LEMMA BackType ==
    ASSUME NEW T, NEW q \in Seq(T), NEW j \in 0..Len(q) - 1
    PROVE  Len(q) - j \in 1..Len(q) /\ Back(q, j) \in T
<1>1. Len(q) - j \in 1..Len(q)
  OBVIOUS
<1> QED
  BY <1>1 DEF Back

\* Seen from the back, popping changes nothing but the length.
LEMMA FromBack ==
    ASSUME NEW T, NEW q \in Seq(T), NEW P \in SUBSET (1..Len(q))
    PROVE  /\ From(q, P) \in Seq(T)
           /\ Len(From(q, P)) \in 0..Len(q)
           /\ \A j \in 0..Len(From(q, P)) - 1 : Back(From(q, P), j) = Back(q, j)
           /\ \A j \in Len(From(q, P))..Len(q) - 1 : Len(q) - j \notin P
           /\ Len(From(q, P)) > 0 => Len(q) - (Len(From(q, P)) - 1) \in P
<1> DEFINE f == From(q, P)
<1>1. f \in Seq(T)
  BY FromShape
<1>2. PICK d \in 0..Len(q) :
         /\ Len(f) = Len(q) - d
         /\ \A i \in 1..Len(q) - d : f[i] = q[i + d]
         /\ \A i \in 1..d : i \notin P
         /\ d < Len(q) => d + 1 \in P
  BY FromShape
<1> HIDE DEF f
<1>3. Len(f) \in 0..Len(q)
  BY <1>2
<1>4. ASSUME NEW j \in 0..Len(f) - 1
      PROVE  Back(f, j) = Back(q, j)
  <2>1. Len(f) - j \in 1..Len(q) - d /\ (Len(f) - j) + d = Len(q) - j
    BY <1>2
  <2> QED
    BY <1>2, <2>1 DEF Back
<1>5. ASSUME NEW j \in Len(f)..Len(q) - 1
      PROVE  Len(q) - j \notin P
  <2>1. Len(q) - j \in 1..d
    BY <1>2
  <2> QED
    BY <1>2, <2>1
<1>6. ASSUME Len(f) > 0
      PROVE  Len(q) - (Len(f) - 1) \in P
  <2>1. Len(q) - (Len(f) - 1) = d + 1 /\ d < Len(q)
    BY <1>2, <1>6
  <2> QED
    BY <1>2, <2>1
<1> QED
  BY <1>1, <1>3, <1>4, <1>5, <1>6 DEF f
-----------------------------------------------------------------------------
(* What the operations on the queues keep.                                 *)

\* The numbers the limiter counts in.
LEMMA HorizonIs == Horizon \in Nat /\ Horizon = Window + MaxStall /\ Horizon >= 1
                   /\ Window \in Nat /\ MaxStall \in Nat
BY LimitsAssumption DEF Horizon

\* Popping the stale ones keeps the link, and leaves a fresh one in front.
LEMMA PruneLinked ==
    ASSUME NEW q \in Seq(0..Horizon), NEW G \in Seq(0..Horizon), NEW limit \in Nat,
           NEW stall \in 0..MaxStall, Linked(q, G, limit)
    PROVE  /\ Prune(q, stall) \in Seq(0..Horizon)
           /\ Linked(Prune(q, stall), G, limit)
           /\ Len(Prune(q, stall)) > 0
                => Back(Prune(q, stall), Len(Prune(q, stall)) - 1) < Window + stall
<1> DEFINE P == {i \in 1..Len(q) : ~Stale(q[i], stall)}
           f == Prune(q, stall)
<1>1. P \in SUBSET (1..Len(q)) /\ f = From(q, P)
  BY DEF Prune
<1>2. /\ f \in Seq(0..Horizon)
      /\ Len(f) \in 0..Len(q)
      /\ \A j \in 0..Len(f) - 1 : Back(f, j) = Back(q, j)
      /\ \A j \in Len(f)..Len(q) - 1 : Len(q) - j \notin P
      /\ Len(f) > 0 => Len(q) - (Len(f) - 1) \in P
  <2> HIDE DEF P, f
  <2> QED
    BY <1>1, FromBack
<1>3. ASSUME NEW j \in Len(f)..Len(q) - 1
      PROVE  Back(q, j) >= Window + stall
  <2>1. j \in 0..Len(q) - 1 /\ Len(q) - j \notin P
    BY <1>2
  <2>2. Len(q) - j \in 1..Len(q) /\ Back(q, j) \in 0..Horizon
    BY <2>1, BackType
  <2>3. Stale(Back(q, j), stall)
    BY <2>1, <2>2 DEF Back
  <2> QED
    BY <2>2, <2>3, HorizonIs DEF Stale
<1>4. ASSUME Len(f) > 0
      PROVE  Back(f, Len(f) - 1) < Window + stall
  <2>1. Len(q) - (Len(f) - 1) \in P /\ Len(f) - 1 \in 0..Len(f) - 1
    BY <1>2, <1>4
  <2>2. Len(f) - 1 \in 0..Len(q) - 1
    BY <1>2, <2>1
  <2>3. Back(q, Len(f) - 1) \in 0..Horizon
    BY <2>2, BackType
  <2>4. Back(f, Len(f) - 1) = Back(q, Len(f) - 1)
    BY <1>2, <2>1
  <2>5. ~Stale(Back(q, Len(f) - 1), stall)
    BY <2>1 DEF Back
  <2> QED
    BY <2>3, <2>4, <2>5, HorizonIs DEF Stale
<1> HIDE DEF P, f
<1>5. ASSUME NEW j \in 0..Len(G) - 1
      PROVE  \/ j < Len(f) /\ Back(G, j) <= Back(f, j) /\ Back(f, j) <= Back(G, j) + MaxStall
             \/ j >= Len(f) /\ Back(G, j) >= Window - MaxStall
  <2>0. Back(G, j) \in 0..Horizon
    BY BackType
  <2>1. CASE j < Len(f)
    BY <1>2, <2>1 DEF Linked
  <2>2. CASE j >= Len(f) /\ j < Len(q)
    <3>1. Back(q, j) >= Window + stall
      BY <1>2, <1>3, <2>2
    <3>2. Back(q, j) <= Back(G, j) + MaxStall
      BY <2>2 DEF Linked
    <3>3. Back(q, j) \in 0..Horizon
      <4>1. j \in 0..Len(q) - 1
        BY <2>2
      <4> QED
        BY <4>1, BackType
    <3> QED
      BY <2>0, <2>2, <3>1, <3>2, <3>3, HorizonIs
  <2>3. CASE j >= Len(q)
    BY <1>2, <2>3 DEF Linked
  <2> QED
    BY <1>2, <2>1, <2>2, <2>3
<1>6. \A j \in Len(G)..Len(f) - 1 : Back(f, j) = Horizon
  <2> TAKE j \in Len(G)..Len(f) - 1
  <2>1. j \in Len(G)..Len(q) - 1 /\ j \in 0..Len(f) - 1
    BY <1>2
  <2> QED
    BY <1>2, <2>1 DEF Linked
<1>7. Len(f) <= limit
  BY <1>2 DEF Linked
<1>8. Linked(f, G, limit)
  BY <1>5, <1>6, <1>7 DEF Linked
<1> QED
  BY <1>2, <1>4, <1>8 DEF f

\* A grant adds a reading to the deque and an instant to the history.
LEMMA GrantLinked ==
    ASSUME NEW q \in Seq(0..Horizon), NEW G \in Seq(0..Horizon), NEW limit \in Nat,
           NEW stall \in 0..MaxStall, Linked(q, G, limit), Len(q) < limit
    PROVE  /\ Append(q, stall) \in Seq(0..Horizon)
           /\ Append(G, 0) \in Seq(0..Horizon)
           /\ Linked(Append(q, stall), Append(G, 0), limit)
<1> DEFINE p == Append(q, stall)
           H == Append(G, 0)
<1>1. stall \in 0..Horizon /\ 0 \in 0..Horizon /\ 0 < Horizon
  BY HorizonIs
<1>2. /\ p \in Seq(0..Horizon) /\ Len(p) = Len(q) + 1
      /\ H \in Seq(0..Horizon) /\ Len(H) = Len(G) + 1
      /\ p[Len(q) + 1] = stall /\ H[Len(G) + 1] = 0
      /\ \A i \in 1..Len(q) : p[i] = q[i]
      /\ \A i \in 1..Len(G) : H[i] = G[i]
  BY <1>1
<1> HIDE DEF p, H
<1>3. Back(p, 0) = stall /\ Back(H, 0) = 0
  BY <1>2 DEF Back
<1>4. ASSUME NEW j \in 1..Len(q)
      PROVE  Back(p, j) = Back(q, j - 1)
  <2>1. Len(p) - j \in 1..Len(q) /\ Len(p) - j = Len(q) - (j - 1)
    BY <1>2
  <2> QED
    BY <1>2, <2>1 DEF Back
<1>5. ASSUME NEW j \in 1..Len(G)
      PROVE  Back(H, j) = Back(G, j - 1)
  <2>1. Len(H) - j \in 1..Len(G) /\ Len(H) - j = Len(G) - (j - 1)
    BY <1>2
  <2> QED
    BY <1>2, <2>1 DEF Back
<1>6. ASSUME NEW j \in 0..Len(H) - 1
      PROVE  Back(H, j) < Horizon /\ \A k \in 0..j : Back(H, k) <= Back(H, j)
  <2>1. CASE j = 0
    BY <1>1, <1>3, <2>1
  <2>2. CASE j # 0
    <3>1. j - 1 \in 0..Len(G) - 1 /\ j \in 1..Len(G)
      BY <1>2, <2>2
    <3>2. Back(G, j - 1) \in 0..Horizon /\ Back(G, j - 1) < Horizon
          /\ \A k \in 0..j - 1 : Back(G, k) <= Back(G, j - 1)
      <4>1. Back(G, j - 1) \in 0..Horizon
        BY <3>1, BackType
      <4> QED
        BY <3>1, <4>1 DEF Linked
    <3>3. Back(H, j) = Back(G, j - 1)
      BY <1>5, <3>1
    <3>4. ASSUME NEW k \in 0..j
          PROVE  Back(H, k) <= Back(H, j)
      <4>1. CASE k = 0
        BY <1>3, <3>2, <3>3, <4>1
      <4>2. CASE k # 0
        <5>1. k \in 1..Len(G) /\ k - 1 \in 0..j - 1
          BY <3>1, <4>2
        <5> QED
          BY <1>5, <3>2, <3>3, <5>1
      <4> QED
        BY <4>1, <4>2
    <3> QED
      BY <3>2, <3>3, <3>4
  <2> QED
    BY <2>1, <2>2
<1>7. ASSUME NEW j \in 0..Len(H) - 1
      PROVE  \/ j < Len(p) /\ Back(H, j) <= Back(p, j) /\ Back(p, j) <= Back(H, j) + MaxStall
             \/ j >= Len(p) /\ Back(H, j) >= Window - MaxStall
  <2>1. CASE j = 0
    BY <1>2, <1>3, <2>1, HorizonIs
  <2>2. CASE j # 0
    <3>1. j - 1 \in 0..Len(G) - 1 /\ j \in 1..Len(G)
      BY <1>2, <2>2
    <3>2. Back(H, j) = Back(G, j - 1)
      BY <1>5, <3>1
    <3>3. \/ j - 1 < Len(q) /\ Back(G, j - 1) <= Back(q, j - 1)
                             /\ Back(q, j - 1) <= Back(G, j - 1) + MaxStall
          \/ j - 1 >= Len(q) /\ Back(G, j - 1) >= Window - MaxStall
      BY <3>1 DEF Linked
    <3>4. CASE j - 1 < Len(q)
      <4>1. j \in 1..Len(q) /\ j < Len(p)
        BY <1>2, <3>1, <3>4
      <4> QED
        BY <1>4, <3>2, <3>3, <3>4, <4>1
    <3>5. CASE j - 1 >= Len(q)
      BY <1>2, <3>1, <3>2, <3>3, <3>5
    <3> QED
      BY <3>1, <3>4, <3>5
  <2> QED
    BY <2>1, <2>2
<1>8. ASSUME NEW j \in Len(H)..Len(p) - 1
      PROVE  Back(p, j) = Horizon
  <2>1. j \in 1..Len(q) /\ j - 1 \in Len(G)..Len(q) - 1
    BY <1>2
  <2> QED
    BY <1>4, <2>1 DEF Linked
<1>9. Linked(p, H, limit)
  BY <1>2, <1>6, <1>7, <1>8 DEF Linked
<1> QED
  BY <1>2, <1>9 DEF p, H

\* One step of the clock, seen from the back.
LEMMA AgedBack ==
    ASSUME NEW q \in Seq(0..Horizon)
    PROVE  /\ Aged(q) \in Seq(0..Horizon) /\ Len(Aged(q)) = Len(q)
           /\ \A j \in 0..Len(q) - 1 :
                /\ Back(q, j) \in 0..Horizon
                /\ Back(Aged(q), j) = IF Back(q, j) < Horizon THEN Back(q, j) + 1 ELSE Back(q, j)
<1>1. \A i \in 1..Len(q) : q[i] \in 0..Horizon
                           /\ (IF q[i] < Horizon THEN q[i] + 1 ELSE q[i]) \in 0..Horizon
  BY HorizonIs
<1>2. Aged(q) \in Seq(0..Horizon) /\ Len(Aged(q)) = Len(q)
  BY <1>1 DEF Aged
<1>3. ASSUME NEW j \in 0..Len(q) - 1
      PROVE  /\ Back(q, j) \in 0..Horizon
             /\ Back(Aged(q), j) = IF Back(q, j) < Horizon THEN Back(q, j) + 1 ELSE Back(q, j)
  <2>1. Len(q) - j \in 1..Len(q)
    OBVIOUS
  <2> QED
    BY <1>1, <1>2, <2>1 DEF Back, Aged
<1> QED
  BY <1>2, <1>3

\* History keeps the newest, which are all young enough to tell.
LEMMA RecentShape ==
    ASSUME NEW A \in Seq(0..Horizon)
    PROVE  /\ Recent(A) \in Seq(0..Horizon)
           /\ Len(Recent(A)) \in 0..Len(A)
           /\ \A j \in 0..Len(Recent(A)) - 1 : Back(Recent(A), j) = Back(A, j)
           /\ \A j \in Len(Recent(A))..Len(A) - 1 : Back(A, j) >= Horizon
           /\ Len(Recent(A)) > 0 => Back(A, Len(Recent(A)) - 1) < Horizon
<1> DEFINE P == {i \in 1..Len(A) : A[i] < Horizon}
           H == Recent(A)
<1>1. P \in SUBSET (1..Len(A)) /\ H = From(A, P)
  BY DEF Recent
<1> HIDE DEF H
<1>2. /\ H \in Seq(0..Horizon)
      /\ Len(H) \in 0..Len(A)
      /\ \A j \in 0..Len(H) - 1 : Back(H, j) = Back(A, j)
      /\ \A j \in Len(H)..Len(A) - 1 : Len(A) - j \notin P
      /\ Len(H) > 0 => Len(A) - (Len(H) - 1) \in P
  <2> HIDE DEF P
  <2> QED
    BY <1>1, FromBack
<1>3. ASSUME NEW j \in Len(H)..Len(A) - 1
      PROVE  Back(A, j) >= Horizon
  <2>1. j \in 0..Len(A) - 1 /\ Len(A) - j \notin P
    BY <1>2
  <2>2. Len(A) - j \in 1..Len(A) /\ Back(A, j) \in 0..Horizon
    BY <2>1, BackType
  <2>3. ~(Back(A, j) < Horizon)
    BY <2>1, <2>2 DEF Back
  <2> QED
    BY <2>2, <2>3, HorizonIs
<1>4. Len(H) > 0 => Back(A, Len(H) - 1) < Horizon
  BY <1>2 DEF Back
<1> HIDE DEF P
<1> QED
  BY <1>2, <1>3, <1>4 DEF H

\* Both queues age alike, and history drops what is too old to tell.
LEMMA TickLinked ==
    ASSUME NEW q \in Seq(0..Horizon), NEW G \in Seq(0..Horizon), NEW limit \in Nat,
           Linked(q, G, limit)
    PROVE  /\ Aged(q) \in Seq(0..Horizon) /\ Recent(Aged(G)) \in Seq(0..Horizon)
           /\ Linked(Aged(q), Recent(Aged(G)), limit)
<1> DEFINE p == Aged(q)
           A == Aged(G)
           H == Recent(A)
<1>1. /\ p \in Seq(0..Horizon) /\ Len(p) = Len(q)
      /\ \A j \in 0..Len(q) - 1 :
           /\ Back(q, j) \in 0..Horizon
           /\ Back(p, j) = IF Back(q, j) < Horizon THEN Back(q, j) + 1 ELSE Back(q, j)
  BY AgedBack
<1>2. /\ A \in Seq(0..Horizon) /\ Len(A) = Len(G)
      /\ \A j \in 0..Len(G) - 1 :
           /\ Back(G, j) \in 0..Horizon
           /\ Back(A, j) = IF Back(G, j) < Horizon THEN Back(G, j) + 1 ELSE Back(G, j)
  BY AgedBack
<1>3. A \in Seq(0..Horizon)
  BY <1>2
<1> HIDE DEF A
<1>4. /\ H \in Seq(0..Horizon)
      /\ Len(H) \in 0..Len(A)
      /\ \A j \in 0..Len(H) - 1 : Back(H, j) = Back(A, j)
      /\ \A j \in Len(H)..Len(A) - 1 : Back(A, j) >= Horizon
      /\ Len(H) > 0 => Back(A, Len(H) - 1) < Horizon
  BY <1>3, RecentShape
<1> HIDE DEF p, H
<1>5. ASSUME NEW j \in 0..Len(G) - 1
      PROVE  Back(G, j) < Horizon /\ Back(A, j) = Back(G, j) + 1 /\ Back(G, j) \in 0..Horizon
  <2>1. Len(G) - j \in 1..Len(G)
    OBVIOUS
  <2>2. Back(G, j) < Horizon
    BY <2>1 DEF Linked, Back
  <2> QED
    BY <1>2, <2>2
<1>6. ASSUME NEW j \in 0..Len(G) - 1, NEW k \in 0..j
      PROVE  Back(A, k) <= Back(A, j)
  <2>1. k \in 0..Len(G) - 1 /\ Back(G, k) <= Back(G, j)
    BY DEF Linked
  <2> QED
    BY <1>5, <2>1
<1>8. ASSUME NEW j \in 0..Len(H) - 1
      PROVE  Back(H, j) < Horizon /\ \A k \in 0..j : Back(H, k) <= Back(H, j)
  <2> DEFINE f == Len(H) - 1
  <2>1. j \in 0..f /\ f \in 0..Len(G) - 1
    BY <1>2, <1>4
  <2>2. Back(A, f) < Horizon
    BY <1>4
  <2>3. j \in 0..Len(G) - 1 /\ \A k \in 0..j : Back(H, k) = Back(A, k)
    BY <1>4, <2>1
  <2> HIDE DEF f
  <2>4. Back(A, j) <= Back(A, f) /\ \A k \in 0..j : Back(A, k) <= Back(A, j)
    BY <1>6, <2>1, <2>3
  <2>5. Back(A, j) \in Int /\ Back(A, f) \in Int
    BY <1>5, <2>1, <2>3
  <2>6. Back(A, j) < Horizon
    BY <2>2, <2>4, <2>5, HorizonIs
  <2> QED
    BY <2>1, <2>3, <2>4, <2>6
<1>9. ASSUME NEW j \in 0..Len(H) - 1
      PROVE  \/ j < Len(p) /\ Back(H, j) <= Back(p, j) /\ Back(p, j) <= Back(H, j) + MaxStall
             \/ j >= Len(p) /\ Back(H, j) >= Window - MaxStall
  <2>1. j \in 0..Len(G) - 1 /\ Back(H, j) = Back(G, j) + 1 /\ Back(G, j) < Horizon
        /\ Back(G, j) \in 0..Horizon
    BY <1>2, <1>4, <1>5
  <2>2. CASE j < Len(q)
    <3>1. Back(G, j) <= Back(q, j) /\ Back(q, j) <= Back(G, j) + MaxStall
      BY <2>1, <2>2 DEF Linked
    <3>2. /\ Back(q, j) \in 0..Horizon
          /\ Back(p, j) = IF Back(q, j) < Horizon THEN Back(q, j) + 1 ELSE Back(q, j)
      BY <1>1, <2>1, <2>2
    <3>3. Back(G, j) + 1 <= Back(p, j)
      BY <2>1, <3>1, <3>2, HorizonIs, SMTT(30)
    <3>4. Back(p, j) <= Back(G, j) + 1 + MaxStall
      BY <2>1, <3>1, <3>2, HorizonIs, SMTT(30)
    <3> QED
      BY <1>1, <2>1, <2>2, <3>3, <3>4
  <2>3. CASE j >= Len(q)
    <3>1. Back(G, j) >= Window - MaxStall
      BY <2>1, <2>3 DEF Linked
    <3> QED
      BY <1>1, <2>1, <2>3, <3>1, HorizonIs
  <2> QED
    BY <2>1, <2>2, <2>3
<1>10. ASSUME NEW j \in Len(H)..Len(p) - 1
       PROVE  Back(p, j) = Horizon
  <2>0. j \in 0..Len(q) - 1
    BY <1>1, <1>4
  <2>1. CASE j < Len(G)
    <3>1. Back(A, j) >= Horizon /\ Back(A, j) = Back(G, j) + 1 /\ Back(G, j) \in 0..Horizon
      BY <1>2, <1>4, <1>5, <2>0, <2>1
    <3>2. Back(G, j) <= Back(q, j)
      BY <2>0, <2>1 DEF Linked
    <3>3. /\ Back(q, j) \in 0..Horizon
          /\ Back(p, j) = IF Back(q, j) < Horizon THEN Back(q, j) + 1 ELSE Back(q, j)
      BY <1>1, <2>0
    <3> QED
      BY <3>1, <3>2, <3>3, HorizonIs
  <2>2. CASE j >= Len(G)
    <3>1. Back(q, j) = Horizon
      BY <2>0, <2>2 DEF Linked
    <3> QED
      BY <1>1, <2>0, <3>1, HorizonIs
  <2> QED
    BY <2>0, <2>1, <2>2
<1>11. Len(p) <= limit
  BY <1>1 DEF Linked
<1>12. Linked(p, H, limit)
  BY <1>8, <1>9, <1>10, <1>11 DEF Linked
<1> QED
  BY <1>1, <1>4, <1>12 DEF p, H, A
-----------------------------------------------------------------------------
(* Every step keeps the invariant.                                         *)

\* A request in its turn at the lock.
LEMMA TakeSlotRate ==
    ASSUME PermitInv, RateInv, NEW r \in Requests, TakeSlot(r)
    PROVE  RateInv'
<1> DEFINE g == req[r].gen
           c == req[r].client
           stall == req[r].stall
           q == limiter[g][c]
           G == grants[g][c]
           limit == RequestsPerMinute[c]
           kept == Prune(q, stall)
<1>1. g \in Generations /\ c \in Clients /\ stall \in 0..MaxStall
  <2>1. req[r] \in Busy
    BY BusyLemma DEF PermitInv, PermitTypes, TakeSlot
  <2> QED
    BY <2>1 DEF Busy
<1>2. q \in Seq(0..Horizon) /\ G \in Seq(0..Horizon) /\ Linked(q, G, limit) /\ limit \in Nat
  BY <1>1, LimitsAssumption DEF RateInv, QueueTypes
<1>3. kept \in Seq(0..Horizon) /\ Linked(kept, G, limit)
  <2> HIDE DEF g, c, stall, q, G, limit
  <2> QED
    BY <1>1, <1>2, PruneLinked
<1>4. ASSUME NEW p \in Seq(0..Horizon), NEW H \in Seq(0..Horizon), Linked(p, H, limit),
             limiter' = [limiter EXCEPT ![g][c] = p],
             grants' = [grants EXCEPT ![g][c] = H]
      PROVE  RateInv'
  <2>1. ASSUME NEW f \in [Generations -> [Clients -> Seq(0..Horizon)]],
               NEW s \in Seq(0..Horizon)
        PROVE  /\ [f EXCEPT ![g][c] = s] \in [Generations -> [Clients -> Seq(0..Horizon)]]
               /\ \A h \in Generations, d \in Clients :
                    [f EXCEPT ![g][c] = s][h][d] = IF h = g /\ d = c THEN s ELSE f[h][d]
    <3>1. f[g] \in [Clients -> Seq(0..Horizon)]
      BY <1>1
    <3>2. [f[g] EXCEPT ![c] = s] \in [Clients -> Seq(0..Horizon)]
      BY <1>1, <3>1
    <3> HIDE DEF g, c
    <3> QED
      BY <1>1, <3>1, <3>2
  <2>2. QueueTypes'
    BY <1>4, <2>1 DEF RateInv, QueueTypes
  <2>3. ASSUME NEW h \in Generations, NEW d \in Clients
        PROVE  Linked(limiter'[h][d], grants'[h][d], RequestsPerMinute[d])
    <3>1. limiter'[h][d] = IF h = g /\ d = c THEN p ELSE limiter[h][d]
      BY <1>4, <2>1 DEF RateInv, QueueTypes
    <3>2. grants'[h][d] = IF h = g /\ d = c THEN H ELSE grants[h][d]
      BY <1>4, <2>1 DEF RateInv, QueueTypes
    <3> QED
      BY <1>4, <3>1, <3>2 DEF RateInv
  <2> QED
    BY <2>2, <2>3 DEF RateInv, Linked, Back
<1>7. \/ limiter' = [limiter EXCEPT ![g][c] = kept] /\ grants' = grants
      \/ /\ Len(kept) < limit
         /\ limiter' = [limiter EXCEPT ![g][c] = Append(kept, stall)]
         /\ grants' = [grants EXCEPT ![g][c] = Append(G, 0)]
  BY Zenon DEF TakeSlot
<1>5. CASE limiter' = [limiter EXCEPT ![g][c] = kept] /\ grants' = grants
  <2>1. limiter' = [limiter EXCEPT ![g][c] = kept] /\ grants' = grants
    BY <1>5
  <2>2. grants' = [grants EXCEPT ![g][c] = G]
    BY <1>1, <2>1 DEF RateInv, QueueTypes
  <2> HIDE DEF kept, G, q, limit
  <2> QED
    BY <1>2, <1>3, <1>4, <2>1, <2>2
<1>6. CASE /\ Len(kept) < limit
           /\ limiter' = [limiter EXCEPT ![g][c] = Append(kept, stall)]
           /\ grants' = [grants EXCEPT ![g][c] = Append(G, 0)]
  <2>1. /\ limiter' = [limiter EXCEPT ![g][c] = Append(kept, stall)]
        /\ grants' = [grants EXCEPT ![g][c] = Append(G, 0)]
    BY <1>6
  <2> HIDE DEF kept, G, q, limit, stall, g, c
  <2>2. /\ Append(kept, stall) \in Seq(0..Horizon)
        /\ Append(G, 0) \in Seq(0..Horizon)
        /\ Linked(Append(kept, stall), Append(G, 0), limit)
    BY <1>1, <1>2, <1>3, <1>6, GrantLinked
  <2> QED
    BY <1>4, <2>1, <2>2
<1> QED
  BY <1>5, <1>6, <1>7

\* The clock.
LEMMA TickRate == RateInv /\ Tick => RateInv'
<1> SUFFICES ASSUME RateInv, Tick
             PROVE  RateInv'
  OBVIOUS
<1>1. ASSUME NEW g \in Generations, NEW c \in Clients
      PROVE  /\ Aged(limiter[g][c]) \in Seq(0..Horizon)
             /\ Recent(Aged(grants[g][c])) \in Seq(0..Horizon)
             /\ Linked(Aged(limiter[g][c]), Recent(Aged(grants[g][c])), RequestsPerMinute[c])
  <2>1. /\ limiter[g][c] \in Seq(0..Horizon) /\ grants[g][c] \in Seq(0..Horizon)
        /\ Linked(limiter[g][c], grants[g][c], RequestsPerMinute[c])
        /\ RequestsPerMinute[c] \in Nat
    BY LimitsAssumption DEF RateInv, QueueTypes
  <2> QED
    BY <2>1, TickLinked
<1>2. /\ limiter' = [g \in Generations |-> [c \in Clients |-> Aged(limiter[g][c])]]
      /\ grants' = [g \in Generations |-> [c \in Clients |-> Recent(Aged(grants[g][c]))]]
  BY DEF Tick
<1>3. QueueTypes'
  BY <1>1, <1>2 DEF QueueTypes
<1>4. ASSUME NEW g \in Generations, NEW c \in Clients
      PROVE  Linked(limiter'[g][c], grants'[g][c], RequestsPerMinute[c])
  BY <1>1, <1>2
<1> QED
  BY <1>3, <1>4 DEF RateInv, Linked, Back

\* Every step keeps the link of every deque to the grants of its client.
LEMMA RateStep == PermitInv /\ RateInv /\ [Next]_vars => RateInv'
<1> SUFFICES ASSUME PermitInv, RateInv, [Next]_vars
             PROVE  RateInv'
  OBVIOUS
<1>1. CASE UNCHANGED <<limiter, grants>>
  BY <1>1 DEF RateInv, QueueTypes, Linked, Back
<1>2. CASE Tick
  BY <1>2, TickRate
<1>3. ASSUME NEW r \in Requests, TakeSlot(r)
      PROVE  RateInv'
  BY <1>3, TakeSlotRate
<1>4. \/ UNCHANGED <<limiter, grants>>
      \/ Tick
      \/ \E r \in Requests : TakeSlot(r)
  BY DEF Next, vars, Reload, RequestStep, Leave, Arrive, TakeClientPermit, TakeGlobalPermit,
         Handle, CallEnds, StreamStarts, StreamEnds, Release
<1> QED
  BY <1>1, <1>2, <1>3, <1>4

\* The deques and the grants begin empty.
LEMMA RateStart == Init => RateInv
<1> SUFFICES ASSUME Init
             PROVE  RateInv
  OBVIOUS
<1>1. QueueTypes
  BY DEF Init, QueueTypes
<1>2. ASSUME NEW g \in Generations, NEW c \in Clients
      PROVE  Linked(limiter[g][c], grants[g][c], RequestsPerMinute[c])
  <2>1. limiter[g][c] = <<>> /\ grants[g][c] = <<>> /\ RequestsPerMinute[c] \in Nat
    BY LimitsAssumption DEF Init
  <2>2. Len(limiter[g][c]) = 0 /\ Len(grants[g][c]) = 0
    BY <2>1
  <2> QED
    BY <2>1, <2>2 DEF Linked
<1> QED
  BY <1>1, <1>2 DEF RateInv

\* The link holds in every state.
LEMMA RateInvariant == Spec => [](PermitInv /\ RateInv)
BY PermitStart, PermitStep, RateStart, RateStep, PTL DEF Spec
-----------------------------------------------------------------------------
(* What follows.                                                           *)

\* The state has the shape the code gives it; in particular no client is
\* ever lent more permits back than it has.
THEOREM TypeCorrect == Spec => []TypeOK
<1>1. PermitInv /\ RateInv => TypeOK
  <2> SUFFICES ASSUME PermitInv, RateInv
               PROVE  TypeOK
    OBVIOUS
  <2>1. ASSUME NEW g \in Generations
        PROVE  globalFree[g] \in 0..GlobalConcurrency
    <3>1. Cardinality(Holders(g, "global")) \in Nat
      BY SizeLemma, FS_Subset, FS_CardinalityType, LimitsAssumption DEF Holders
    <3> QED
      BY <3>1, LimitsAssumption DEF PermitInv, PermitTypes, PermitsConserved
  <2>2. ASSUME NEW g \in Generations, NEW c \in Clients
        PROVE  clientFree[g][c] <= ConcurrentRequests[c]
    <3>1. Cardinality(ClientHolders(g, c)) \in Nat
      BY FS_Subset, FS_CardinalityType, LimitsAssumption DEF ClientHolders, Holders
    <3> QED
      BY <3>1, LimitsAssumption DEF PermitInv, PermitTypes, PermitsConserved
  <2> QED
    BY <2>1, <2>2 DEF TypeOK, PermitInv, PermitTypes, RateInv, QueueTypes
<1> QED
  BY <1>1, RateInvariant, PTL

\* The last of the grants, as many as the deque holds, are all that can be
\* younger than the window less a stall.
LEMMA GrantsBound ==
    ASSUME RateInv, NEW g \in Generations, NEW c \in Clients
    PROVE  GrantsWithin(g, c, Window - MaxStall) <= RequestsPerMinute[c]
<1> DEFINE q == limiter[g][c]
           G == grants[g][c]
           S == {i \in 1..Len(G) : G[i] < Window - MaxStall}
<1>1. q \in Seq(0..Horizon) /\ G \in Seq(0..Horizon) /\ Linked(q, G, RequestsPerMinute[c])
  BY DEF RateInv, QueueTypes
<1>2. Len(q) \in Nat /\ Len(G) \in Nat /\ RequestsPerMinute[c] \in Nat
      /\ Len(q) <= RequestsPerMinute[c]
  BY <1>1, LimitsAssumption DEF Linked
<1> HIDE DEF q, G
<1>3. S \subseteq (Len(G) - Len(q) + 1)..Len(G)
  <2> SUFFICES ASSUME NEW i \in S, i <= Len(G) - Len(q)
               PROVE  FALSE
    BY <1>2
  <2>1. Len(G) - i \in 0..Len(G) - 1 /\ Len(G) - i >= Len(q) /\ Len(G) - (Len(G) - i) = i
    BY <1>2
  <2>2. Back(G, Len(G) - i) = G[i]
    BY <2>1 DEF Back
  <2>3. G[i] >= Window - MaxStall
    BY <1>1, <1>2, <2>1, <2>2 DEF Linked
  <2>4. G[i] < Window - MaxStall /\ G[i] \in 0..Horizon
    BY <1>1, <2>1, <2>2, BackType
  <2> QED
    BY <2>3, <2>4, HorizonIs
<1>4. /\ IsFiniteSet((Len(G) - Len(q) + 1)..Len(G))
      /\ Cardinality((Len(G) - Len(q) + 1)..Len(G)) = Len(q)
  <2> DEFINE a == Len(G) - Len(q) + 1
             b == Len(G)
  <2>1. a \in Int /\ b \in Int /\ (IF a > b THEN 0 ELSE b - a + 1) = Len(q)
    BY <1>2
  <2> HIDE DEF a, b
  <2>2. IsFiniteSet(a..b) /\ Cardinality(a..b) = Len(q)
    BY <2>1, FS_Interval
  <2> QED
    BY <2>2 DEF a, b
<1>5. Cardinality(S) <= Len(q) /\ Cardinality(S) \in Nat
  <2> HIDE DEF S
  <2> QED
    BY <1>2, <1>3, <1>4, FS_Subset, FS_CardinalityType
<1>6. GrantsWithin(g, c, Window - MaxStall) = Cardinality(S)
  BY DEF GrantsWithin, G
<1> QED
  BY <1>2, <1>5, <1>6

\* No client is ever granted more slots within a minute than its limit, up to
\* the time a thread may be held up between the clock and the lock.
THEOREM RateHonouredInvariant == Spec => []RateHonoured
<1>1. RateInv => RateHonoured
  BY GrantsBound DEF RateHonoured
<1> QED
  BY <1>1, RateInvariant, PTL

\* A client that is turned away for its rate has used up all of its slots
\* within a minute and a stall: a stale reading that hides behind a fresh one
\* is not held against it for longer.
LEMMA RefusalJustified ==
    ASSUME PermitInv, RateInv, NEW r \in Requests, TakeSlot(r), req'[r].pc = "idle"
    PROVE  GrantsWithin(req[r].gen, req[r].client, Window + MaxStall)
             >= RequestsPerMinute[req[r].client]
<1> DEFINE g == req[r].gen
           c == req[r].client
           stall == req[r].stall
           q == limiter[g][c]
           G == grants[g][c]
           limit == RequestsPerMinute[c]
           kept == Prune(q, stall)
           S == {i \in 1..Len(G) : G[i] < Window + MaxStall}
<1>0. req \in [Requests -> Req] /\ req[r] \in Busy
  BY BusyLemma DEF PermitInv, PermitTypes, TakeSlot
<1>1. g \in Generations /\ c \in Clients /\ stall \in 0..MaxStall
  BY <1>0 DEF Busy
<1>2. /\ q \in Seq(0..Horizon) /\ G \in Seq(0..Horizon) /\ Linked(q, G, limit)
      /\ limit \in Nat \ {0}
  BY <1>1, LimitsAssumption DEF RateInv, QueueTypes
<1>3. Len(kept) >= limit
  <2> SUFFICES ASSUME req' = [req EXCEPT ![r].pc = "slotted", ![r].stall = 0]
               PROVE  FALSE
    BY DEF TakeSlot
  <2>1. req'[r].pc = "slotted"
    BY <1>0 DEF Busy
  <2> QED
    BY <2>1
<1> HIDE DEF g, c, stall, q, G, limit
<1>4. /\ kept \in Seq(0..Horizon) /\ Linked(kept, G, limit)
      /\ Len(kept) > 0 => Back(kept, Len(kept) - 1) < Window + stall
  BY <1>1, <1>2, PruneLinked
<1> HIDE DEF kept
<1>5. Len(kept) \in Nat /\ Len(G) \in Nat
  BY <1>2, <1>4
<1>6. Len(G) >= Len(kept)
  <2> SUFFICES ASSUME Len(G) < Len(kept)
               PROVE  FALSE
    BY <1>5
  <2>1. Len(kept) - 1 \in Len(G)..Len(kept) - 1 /\ Len(kept) > 0
    BY <1>5
  <2>2. Back(kept, Len(kept) - 1) = Horizon
    BY <1>4, <2>1 DEF Linked
  <2> QED
    BY <1>1, <1>4, <2>1, <2>2, HorizonIs
<1>7. S = 1..Len(G)
  <2> SUFFICES ASSUME NEW i \in 1..Len(G)
               PROVE  G[i] < Window + MaxStall
    OBVIOUS
  <2>1. Len(G) - i \in 0..Len(G) - 1 /\ Len(G) - (Len(G) - i) = i
    BY <1>5
  <2>2. Back(G, Len(G) - i) = G[i]
    BY <2>1 DEF Back
  <2>3. Back(G, Len(G) - i) < Horizon
    BY <1>2, <2>1 DEF Linked
  <2> QED
    BY <2>2, <2>3, HorizonIs
<1>8. Cardinality(S) = Len(G)
  <2> DEFINE b == Len(G)
  <2>1. 1 \in Int /\ b \in Int /\ (IF 1 > b THEN 0 ELSE b - 1 + 1) = b
    BY <1>5
  <2> HIDE DEF b
  <2>2. Cardinality(1..b) = b
    BY <2>1, FS_Interval
  <2> QED
    BY <1>7, <2>2 DEF b
<1>9. GrantsWithin(g, c, Window + MaxStall) = Cardinality(S)
  BY DEF GrantsWithin, G
<1> HIDE DEF S
<1>10. GrantsWithin(g, c, Window + MaxStall) >= limit
  BY <1>2, <1>3, <1>5, <1>6, <1>8, <1>9
<1> QED
  BY <1>10 DEF g, c, limit

\* A client is refused for its rate only after as many grants as its limit
\* within one window, and the stall of a task (ClientIdentity::acquire in auth.rs).
THEOREM RateRefusalJustifiedAlways == Spec => RateRefusalJustified
<1> DEFINE Justified(r) ==
      req[r].pc = "clocked" /\ req'[r].pc = "idle" =>
         GrantsWithin(req[r].gen, req[r].client, Window + MaxStall)
             >= RequestsPerMinute[req[r].client]
<1>1. PermitInv /\ RateInv /\ [Next]_vars => \A r \in Requests : Justified(r)
  <2> SUFFICES ASSUME PermitInv, RateInv, [Next]_vars, NEW r \in Requests,
                      req[r].pc = "clocked", req'[r].pc = "idle"
               PROVE  GrantsWithin(req[r].gen, req[r].client, Window + MaxStall)
                        >= RequestsPerMinute[req[r].client]
    OBVIOUS
  <2>0. req \in [Requests -> Req] /\ req[r] \in Busy
    BY BusyLemma DEF PermitInv, PermitTypes
  <2>1. PICK s \in Requests : RequestStep(s)
    <3>1. ~Tick
      BY <2>0 DEF Tick, Busy
    <3> QED
      BY <3>1 DEF Next, Reload, vars
  <2>2. s = r
    BY <2>0, <2>1 DEF RequestStep, Leave, Arrive, TakeSlot, TakeClientPermit, TakeGlobalPermit,
                      Handle, CallEnds, StreamStarts, StreamEnds, Release
  <2>3. TakeSlot(r)
    BY <2>1, <2>2 DEF RequestStep, Leave, Arrive, TakeClientPermit, TakeGlobalPermit,
                      Handle, CallEnds, StreamStarts, StreamEnds, Release
  <2> QED
    BY <2>3, RefusalJustified
<1> QED
  BY <1>1, RateInvariant, PTL DEF Spec, RateRefusalJustified
=============================================================================
