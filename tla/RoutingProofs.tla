--------------------------- MODULE RoutingProofs ---------------------------
(***************************************************************************)
(* Proofs about Routing: for every number of requests, every route, and    *)
(* every threshold and cooldown, and without the bound on failures that a  *)
(* TLC run puts on MaxFailures; and at the end about WeightedDraw, for     *)
(* every route and all weights.                                            *)
(***************************************************************************)
EXTENDS WeightedDraw, SequenceLemmas

USE DEF None
-----------------------------------------------------------------------------
(* Lemmas about the operators the model is built from.                     *)

\* An order of the candidates S names each of them exactly once, in a
\* sequence sorted by priority (weighted_priority_order).
LEMMA OrderLemma ==
    ASSUME NEW S \in SUBSET (1..Len(Targets)), NEW order \in PriorityOrders(S)
    PROVE  /\ order \in Seq(1..Len(Targets))
           /\ Len(order) = Cardinality(S)
           /\ Cardinality(S) \in Nat
           /\ S # {} => Len(order) > 0
           /\ IsInjective(order)
           /\ {order[i] : i \in 1..Len(order)} = S
           /\ \A i, j \in 1..Len(order) :
                i < j => Targets[order[i]].priority <= Targets[order[j]].priority
<1> DEFINE n == Cardinality(S)
<1>1. IsFiniteSet(S) /\ n \in Nat
  <2>1. Len(Targets) \in Nat
    BY ConfigAssumption
  <2>2. IsFiniteSet(1..Len(Targets))
    BY <2>1, FS_Interval
  <2> QED
    BY <2>2, FS_Subset, FS_CardinalityType
<1>2. order \in Injection(1..n, S)
  BY DEF PriorityOrders
<1>3. order \in [1..n -> S] /\ IsInjective(order)
  BY <1>2 DEF Injection
<1>4. order \in Seq(1..Len(Targets)) /\ Len(order) = n
  <2>1. order \in [1..n -> 1..Len(Targets)]
    BY <1>3
  <2>2. order \in Seq(1..Len(Targets))
    BY <1>1, <2>1
  <2> QED
    BY <1>1, <2>1, <2>2
<1>5. S # {} => n > 0
  BY <1>1, FS_EmptySet
<1>6. order \in Surjection(1..n, S)
  <2>1. Cardinality(1..n) = n
    BY <1>1, FS_Interval
  <2> QED
    BY <1>1, <1>2, <2>1, FS_Injection
<1>7. {order[i] : i \in 1..n} = S
  BY <1>3, <1>6 DEF Surjection
<1>8. \A i, j \in 1..n :
        i < j => Targets[order[i]].priority <= Targets[order[j]].priority
  BY DEF PriorityOrders
<1> QED
  BY <1>1, <1>3, <1>4, <1>5, <1>7, <1>8

\* The targets of the route are configured.
LEMMA TargetLemma ==
    ASSUME NEW t \in 1..Len(Targets)
    PROVE  Targets[t].provider \in Providers /\ Targets[t].priority \in Nat
<1> DEFINE T == [provider : Providers, priority : Nat]
<1>1. Targets \in Seq(T)
  BY ConfigAssumption
<1>2. Targets[t] \in T
  <2> HIDE DEF T
  <2> QED
    BY <1>1
<1> QED
  BY <1>2

\* Recording an outcome keeps a circuit a circuit.
LEMMA RecordLemma ==
    ASSUME NEW c \in Circuits, NEW e
    PROVE  RecordSuccess(c) \in Circuits /\ RecordFailure(c, e) \in Circuits
BY ConfigAssumption DEF Circuits, RecordSuccess, RecordFailure

\* A settled request is a well-formed job that waits for nothing.
LEMMA SettledLemma ==
    ASSUME NEW answer \in Errors \union {Success, Gone}
    PROVE  /\ Settled(answer) \in Job
           /\ Settled(answer).pc = "settled"
           /\ Settled(answer).errors = <<>>
           /\ Settled(answer).order = <<>>
           /\ Settled(answer).compatible = {}
<1>1. Len(Targets) \in Nat
  BY ConfigAssumption
<1> QED
  BY <1>1 DEF Settled, Job, Modes

\* What an attempt or a stream fails with is an error.
LEMMA ErrorsLemma ==
    /\ AttemptErrors \subseteq Errors
    /\ StreamErrors \subseteq Errors
    /\ \A c \in Causes : Error(c) \in Errors
BY DEF AttemptErrors, StreamErrors, Errors, Error, Causes, ClassifyStatus
-----------------------------------------------------------------------------
(* Type correctness.                                                       *)

\* The attempt under way is made at a configured provider: Current never
\* indexes past the candidates.
LEMMA CurrentLemma ==
    ASSUME TypeOK, NEW r \in Requests, job[r].pc \in Active
    PROVE  /\ job[r].order[Len(job[r].errors) + 1] \in 1..Len(Targets)
           /\ Current(job[r]) \in Providers
<1>1. /\ job[r] \in Job
      /\ Len(job[r].errors) < Len(job[r].order)
  BY DEF TypeOK, Active
<1>2. /\ job[r].order \in Seq(1..Len(Targets))
      /\ job[r].errors \in Seq(Errors)
  BY <1>1 DEF Job
<1>3. Len(job[r].errors) + 1 \in 1..Len(job[r].order)
  BY <1>1, <1>2
<1>4. job[r].order[Len(job[r].errors) + 1] \in 1..Len(Targets)
  BY <1>2, <1>3, ElementOfSeq
<1> QED
  BY <1>4, TargetLemma DEF Current

\* It is enough to look at the one request that moves and at the circuits.
LEMMA JobUpdate ==
    ASSUME TypeOK, NEW r \in Requests, NEW j \in Job,
           job' = [job EXCEPT ![r] = j],
           IF j.pc \in Active
           THEN Len(j.errors) < Len(j.order) /\ Len(j.errors) < MaxAttempts
           ELSE j.order = <<>> /\ j.errors = <<>>,
           circuit' \in [Providers -> Circuits]
    PROVE  TypeOK'
BY DEF TypeOK, Active

\* A request that settles: whatever it had gathered is forgotten.
LEMMA SettleUpdate ==
    ASSUME TypeOK, NEW r \in Requests, NEW answer \in Errors \union {Success, Gone},
           job' = [job EXCEPT ![r] = Settled(answer)],
           circuit' \in [Providers -> Circuits]
    PROVE  TypeOK'
<1>1. /\ Settled(answer) \in Job
      /\ Settled(answer).pc \notin Active
      /\ Settled(answer).order = <<>>
      /\ Settled(answer).errors = <<>>
  BY SettledLemma DEF Active
<1> QED
  BY <1>1, JobUpdate

\* Every step keeps the types, whichever request it belongs to.
LEMMA TypeStep == TypeOK /\ [Next]_vars => TypeOK'
<1> SUFFICES ASSUME TypeOK, [Next]_vars
             PROVE  TypeOK'
  OBVIOUS
<1>0. /\ circuit \in [Providers -> Circuits]
      /\ job \in [Requests -> Job]
      /\ Len(Targets) \in Nat
      /\ Targets \in Seq([provider : Providers, priority : Nat])
      /\ MaxAttempts \in Nat \ {0}
  BY ConfigAssumption DEF TypeOK
<1>1. CASE UNCHANGED vars
  BY <1>1 DEF TypeOK, vars
<1>2. CASE Tick
  <2>1. circuit' \in [Providers -> Circuits]
    <3>1. ASSUME NEW p \in Providers
          PROVE  (IF circuit[p].openFor > 0
                  THEN [circuit[p] EXCEPT !.openFor = @ - 1] ELSE circuit[p]) \in Circuits
      <4>1. circuit[p] \in Circuits
        BY <1>0
      <4> QED
        BY <4>1 DEF Circuits
    <3> QED
      BY <1>2, <3>1 DEF Tick
  <2> QED
    BY <1>2, <2>1 DEF Tick, TypeOK
<1>3. ASSUME NEW r \in Requests, RequestStep(r)
      PROVE  TypeOK'
  <2>1. ASSUME NEW mode \in Modes, NEW capable \in SUBSET Providers,
               Arrive(r, mode, capable)
        PROVE  TypeOK'
    <3> DEFINE j == [Settled(Success) EXCEPT !.pc = "checking", !.mode = mode,
                                            !.capable = capable]
    <3>1. Settled(Success) \in Job
      BY SettledLemma
    <3>2. /\ j \in Job /\ j.pc = "checking"
          /\ j.order = <<>> /\ j.errors = <<>>
      BY <3>1, SettledLemma DEF Job
    <3>3. job' = [job EXCEPT ![r] = j] /\ circuit' = circuit
      BY <2>1 DEF Arrive
    <3> HIDE DEF j
    <3> QED
      BY <1>0, <3>2, <3>3, JobUpdate DEF Active
  <2>2. ASSUME CheckTarget(r)
        PROVE  TypeOK'
    <3> DEFINE t == job[r].checked + 1
               p == Targets[t].provider
    <3>1. /\ job[r] \in Job
          /\ job[r].pc = "checking"
          /\ t \in 1..Len(Targets)
          /\ job[r].order = <<>> /\ job[r].errors = <<>>
      <4>1. job[r] \in Job /\ job[r].pc = "checking" /\ job[r].checked < Len(Targets)
        BY <1>0, <2>2 DEF CheckTarget
      <4>2. job[r].checked \in 0..Len(Targets)
        BY <4>1 DEF Job
      <4>3. job[r].order = <<>> /\ job[r].errors = <<>>
        BY <4>1 DEF TypeOK, Active
      <4> QED
        BY <1>0, <4>1, <4>2, <4>3
    <3>2. p \in Providers
      BY <3>1, TargetLemma
    <3>3. ASSUME NEW c \in SUBSET (1..Len(Targets)),
                 job' = [job EXCEPT ![r] = [job[r] EXCEPT !.checked = t,
                                                          !.compatible = c]],
                 circuit' \in [Providers -> Circuits]
          PROVE  TypeOK'
      <4> HIDE DEF t
      <4> DEFINE j == [job[r] EXCEPT !.checked = t, !.compatible = c]
      <4>1. t \in 0..Len(Targets)
        BY <1>0, <3>1
      <4>2. /\ j \in Job /\ j.pc = "checking"
            /\ j.order = <<>> /\ j.errors = <<>>
        BY <3>1, <3>3, <4>1 DEF Job
      <4> HIDE DEF j
      <4> QED
        BY <3>3, <4>2, JobUpdate DEF Active, j
    <3>4. job[r].compatible \in SUBSET (1..Len(Targets))
      BY <3>1 DEF Job
    <3>5. CASE /\ job' = [job EXCEPT ![r].checked = t,
                                     ![r].compatible = @ \union {t}]
               /\ circuit' = [circuit EXCEPT ![p].openFor = -1]
      <4> DEFINE c == job[r].compatible \union {t}
      <4>1. c \in SUBSET (1..Len(Targets))
        BY <3>1, <3>4
      <4>2. job' = [job EXCEPT ![r] = [job[r] EXCEPT !.checked = t, !.compatible = c]]
        BY <1>0, <3>5
      <4>3. circuit' \in [Providers -> Circuits]
        BY <1>0, <3>2, <3>5 DEF Circuits
      <4> HIDE DEF c
      <4> QED
        BY <3>3, <4>1, <4>2, <4>3
    <3>6. CASE job' = [job EXCEPT ![r].checked = t] /\ circuit' = circuit
      <4>1. job' = [job EXCEPT ![r] = [job[r] EXCEPT !.checked = t,
                                                     !.compatible = job[r].compatible]]
        BY <1>0, <3>1, <3>6 DEF Job
      <4> QED
        BY <1>0, <3>3, <3>4, <3>6, <4>1
    <3> QED
      BY <2>2, <3>5, <3>6 DEF CheckTarget
  <2>3. ASSUME RejectAll(r)
        PROVE  TypeOK'
    <3>1. PICK c \in {"capability", "circuits"} :
            job' = [job EXCEPT ![r] = Settled(Error(c))] /\ circuit' = circuit
      BY <2>3 DEF RejectAll
    <3>2. Error(c) \in Errors
      BY ErrorsLemma DEF Causes
    <3> QED
      BY <1>0, <3>1, <3>2, SettleUpdate
  <2>4. ASSUME Choose(r)
        PROVE  TypeOK'
    <3>1. PICK order \in PriorityOrders(job[r].compatible) :
            \/ job' = [job EXCEPT ![r] = Settled(Error("tokenizer"))]
            \/ job' = [job EXCEPT ![r] = Settled(Success)]
            \/ job' = [job EXCEPT ![r].pc = "attempting", ![r].order = order]
      BY <2>4 DEF Choose
    <3>2. /\ job[r].compatible # {} /\ circuit' = circuit
          /\ job[r].pc = "checking"
      BY <2>4 DEF Choose
    <3>3. Error("tokenizer") \in Errors
      BY ErrorsLemma DEF Causes
    <3>4. CASE job' = [job EXCEPT ![r].pc = "attempting", ![r].order = order]
      <4> DEFINE j == [job[r] EXCEPT !.pc = "attempting", !.order = order]
      <4>1. job[r] \in Job /\ job[r].compatible \in SUBSET (1..Len(Targets))
        BY <1>0 DEF Job
      <4>2. order \in Seq(1..Len(Targets)) /\ Len(order) > 0
        BY <3>1, <3>2, <4>1, OrderLemma
      <4>3. j \in Job /\ j.order = order /\ j.errors = job[r].errors
        BY <4>1, <4>2 DEF Job
      <4>4. job[r].errors = <<>>
        BY <3>2 DEF TypeOK, Active
      <4>5. /\ Len(j.errors) < Len(j.order) /\ Len(j.errors) < MaxAttempts
            /\ j.pc \in Active
        BY <1>0, <4>1, <4>2, <4>3, <4>4 DEF Job, Active
      <4>6. job' = [job EXCEPT ![r] = j]
        BY <3>4
      <4> HIDE DEF j
      <4> QED
        BY <1>0, <3>2, <4>3, <4>5, <4>6, JobUpdate
    <3> QED
      BY <1>0, <3>1, <3>2, <3>3, <3>4, SettleUpdate
  <2>5. ASSUME job[r].pc \in Active
        PROVE  /\ circuit \in [Providers -> Circuits]
               /\ [circuit EXCEPT ![Current(job[r])] = RecordSuccess(@)]
                    \in [Providers -> Circuits]
               /\ \A e : [circuit EXCEPT ![Current(job[r])] = RecordFailure(@, e)]
                           \in [Providers -> Circuits]
    BY <1>0, <2>5, CurrentLemma, RecordLemma
  <2>6. CASE ExecuteSucceeds(r)
    BY <2>5, <2>6, SettleUpdate DEF ExecuteSucceeds, Active
  <2>7. ASSUME NEW pc \in {"streaming", "finished"}, job[r].pc \in Active,
               job' = [job EXCEPT ![r].pc = pc], circuit' = circuit
        PROVE  TypeOK'
    <3> DEFINE j == [job[r] EXCEPT !.pc = pc]
    <3>1. job[r] \in Job /\ Len(job[r].errors) < Len(job[r].order)
          /\ Len(job[r].errors) < MaxAttempts
      BY <2>7 DEF TypeOK
    <3>2. /\ j \in Job /\ j.pc \in Active
          /\ j.order = job[r].order /\ j.errors = job[r].errors
      BY <2>7, <3>1 DEF Job, Active
    <3>3. job' = [job EXCEPT ![r] = j]
      BY <2>7
    <3> HIDE DEF j
    <3> QED
      BY <1>0, <2>7, <3>1, <3>2, <3>3, JobUpdate
  <2>8. CASE StreamEstablished(r)
    BY <2>7, <2>8 DEF StreamEstablished, Active
  <2>9. ASSUME NEW e \in AttemptErrors, FallBack(r, e)
        PROVE  TypeOK'
    <3> DEFINE j == [job[r] EXCEPT !.errors = Append(@, e)]
    <3>1. /\ job[r] \in Job /\ job[r].pc = "attempting"
          /\ Len(job[r].errors) < Len(job[r].order)
          /\ Len(job[r].errors) < MaxAttempts
          /\ ~LastAttempt(job[r])
      BY <2>9 DEF TypeOK, FallBack, Active
    <3>2. /\ job[r].errors \in Seq(Errors) /\ e \in Errors
          /\ job[r].order \in Seq(1..Len(Targets))
      BY <3>1, ErrorsLemma DEF Job
    <3>3. /\ Append(job[r].errors, e) \in Seq(Errors)
          /\ Len(Append(job[r].errors, e)) = Len(job[r].errors) + 1
      BY <3>2
    <3>4. /\ j \in Job /\ j.pc = "attempting"
          /\ j.order = job[r].order /\ j.errors = Append(job[r].errors, e)
      BY <3>1, <3>3 DEF Job
    <3>5. Len(j.errors) < Len(j.order) /\ Len(j.errors) < MaxAttempts
      <4> HIDE DEF j
      <4>1. Len(job[r].errors) \in Nat /\ Len(job[r].order) \in Nat
        BY <3>2
      <4>2. /\ Len(job[r].errors) + 1 # MaxAttempts
            /\ Len(job[r].errors) + 1 # Len(job[r].order)
        BY <3>1 DEF LastAttempt
      <4> QED
        BY <1>0, <3>1, <3>3, <3>4, <4>1, <4>2
    <3>6. job' = [job EXCEPT ![r] = j]
      BY <2>9 DEF FallBack
    <3>7. circuit' \in [Providers -> Circuits]
      BY <2>5, <2>9 DEF FallBack, Active
    <3> HIDE DEF j
    <3> QED
      BY <3>4, <3>5, <3>6, <3>7, JobUpdate DEF Active
  <2>10. ASSUME NEW e \in AttemptErrors, GiveUp(r, e)
         PROVE  TypeOK'
    BY <2>5, <2>10, SettleUpdate, ErrorsLemma DEF GiveUp, Active
  <2>11. CASE AttemptTimesOut(r)
    BY <2>5, <2>11, SettleUpdate, ErrorsLemma DEF AttemptTimesOut, Active, Causes
  <2>12. CASE StreamFinishes(r)
    BY <2>7, <2>12 DEF StreamFinishes, Active
  <2>13. CASE StreamEnds(r)
    BY <2>5, <2>13, SettleUpdate DEF StreamEnds, Active
  <2>14. ASSUME NEW e \in StreamErrors, StreamFails(r, e)
         PROVE  TypeOK'
    BY <2>5, <2>14, SettleUpdate, ErrorsLemma DEF StreamFails, Active
  <2>15. CASE StreamIdles(r)
    BY <2>5, <2>15, SettleUpdate, ErrorsLemma DEF StreamIdles, Active, Causes
  <2>16. CASE Drop(r)
    BY <2>5, <2>16, SettleUpdate DEF Drop
  <2> QED
    BY <1>3, <2>1, <2>2, <2>3, <2>4, <2>6, <2>8, <2>9, <2>10, <2>11, <2>12, <2>13,
       <2>14, <2>15, <2>16 DEF RequestStep, Attempt
<1> QED
  BY <1>1, <1>2, <1>3 DEF Next

\* The state of the router and its circuits always has the shape the code
\* gives it, and no attempt is ever without a target.
THEOREM TypeInvariant == Spec => []TypeOK
<1>1. Init => TypeOK
  BY SettledLemma DEF Init, TypeOK, Circuits, Active
<1> QED
  BY <1>1, TypeStep, PTL DEF Spec
-----------------------------------------------------------------------------
(* The circuits.                                                           *)

\* All that any step of any request, or of time, does to one circuit.
CircuitMove(c, d) ==
    \/ d = c
    \/ d = RecordSuccess(c)
    \/ \E e \in Errors : d = RecordFailure(c, e)
    \/ c.openFor <= 0 /\ d = [c EXCEPT !.openFor = -1]
    \/ c.openFor > 0 /\ d = [c EXCEPT !.openFor = @ - 1]

\* Circuits change only by available(), record_success(), record_failure()
\* and the passage of time.
LEMMA CircuitStep ==
    ASSUME TypeOK, [Next]_vars, NEW p \in Providers
    PROVE  CircuitMove(circuit[p], circuit'[p])
<1>0. circuit \in [Providers -> Circuits]
  BY DEF TypeOK
<1>1. CASE circuit' = circuit
  BY <1>1 DEF CircuitMove
<1>2. CASE Tick
  BY <1>0, <1>2 DEF Tick, CircuitMove, Circuits
<1>3. ASSUME NEW r \in Requests, job[r].pc \in Active,
             circuit' = [circuit EXCEPT ![Current(job[r])] = RecordSuccess(@)]
      PROVE  CircuitMove(circuit[p], circuit'[p])
  BY <1>0, <1>3 DEF CircuitMove
<1>4. ASSUME NEW r \in Requests, job[r].pc \in Active, NEW e \in Errors,
             circuit' = [circuit EXCEPT ![Current(job[r])] = RecordFailure(@, e)]
      PROVE  CircuitMove(circuit[p], circuit'[p])
  BY <1>0, <1>4 DEF CircuitMove
<1>5. ASSUME NEW r \in Requests, CheckTarget(r)
      PROVE  CircuitMove(circuit[p], circuit'[p])
  <2>1. CASE circuit' = circuit
    BY <2>1 DEF CircuitMove
  <2>2. ASSUME NEW q, Available(circuit[q]),
               circuit' = [circuit EXCEPT ![q].openFor = -1]
        PROVE  CircuitMove(circuit[p], circuit'[p])
    BY <1>0, <2>2 DEF Available, CircuitMove
  <2> QED
    BY <1>5, <2>1, <2>2 DEF CheckTarget
<1>6. ASSUME NEW r \in Requests, RequestStep(r)
      PROVE  CircuitMove(circuit[p], circuit'[p])
  <2>1. CASE ExecuteSucceeds(r) \/ StreamEnds(r)
    BY <1>3, <2>1 DEF ExecuteSucceeds, StreamEnds, Active
  <2>2. CASE \E e \in AttemptErrors : FallBack(r, e) \/ GiveUp(r, e)
    BY <1>4, <2>2, ErrorsLemma DEF FallBack, GiveUp, Active
  <2>3. CASE AttemptTimesOut(r)
    BY <1>4, <2>3, ErrorsLemma DEF AttemptTimesOut, Active, Causes
  <2>4. CASE \E e \in StreamErrors : StreamFails(r, e)
    BY <1>4, <2>4, ErrorsLemma DEF StreamFails, Active
  <2>5. CASE \/ \E mode \in Modes, capable \in SUBSET Providers : Arrive(r, mode, capable)
             \/ RejectAll(r) \/ Choose(r) \/ StreamEstablished(r)
             \/ StreamFinishes(r) \/ StreamIdles(r) \/ Drop(r)
    BY <1>1, <2>5 DEF Arrive, RejectAll, Choose, StreamEstablished, StreamFinishes,
                      StreamIdles, Drop
  <2> QED
    BY <1>5, <1>6, <2>1, <2>2, <2>3, <2>4, <2>5 DEF RequestStep, Attempt
<1> QED
  BY <1>1, <1>2, <1>6 DEF Next, vars

\* What OpenOnlyIfTripped says of one circuit.
Tripped(c) == c.failures > 0 /\ c.failures >= FailureThreshold

\* A circuit with a deadline has been tripped, and no move changes that.
LEMMA TrippedStep ==
    ASSUME NEW c \in Circuits, NEW d, CircuitMove(c, d),
           c.openFor # -1 => Tripped(c)
    PROVE  d.openFor # -1 => Tripped(d)
<1>0. FailureThreshold \in Nat /\ Cooldown \in Nat
  BY ConfigAssumption
<1>1. CASE d = c \/ d = RecordSuccess(c)
  BY <1>1 DEF RecordSuccess
<1>2. ASSUME NEW e \in Errors, d = RecordFailure(c, e)
      PROVE  d.openFor # -1 => Tripped(d)
  BY <1>0, <1>2 DEF RecordFailure, Tripped, Circuits
<1>3. CASE c.openFor <= 0 /\ d = [c EXCEPT !.openFor = -1]
  BY <1>3 DEF Circuits
<1>4. CASE c.openFor > 0 /\ d = [c EXCEPT !.openFor = @ - 1]
  BY <1>4 DEF Tripped, Circuits
<1> QED
  BY <1>1, <1>2, <1>3, <1>4 DEF CircuitMove

\* A provider is shut out only after enough failures since its last success.
THEOREM OpenOnlyIfTrippedInvariant == Spec => []OpenOnlyIfTripped
<1>1. Init => OpenOnlyIfTripped
  BY DEF Init, OpenOnlyIfTripped
<1>2. TypeOK /\ OpenOnlyIfTripped /\ [Next]_vars => OpenOnlyIfTripped'
  <2> SUFFICES ASSUME TypeOK, OpenOnlyIfTripped, [Next]_vars,
                      NEW p \in Providers
               PROVE  circuit'[p].openFor # -1 => Tripped(circuit'[p])
    BY DEF OpenOnlyIfTripped, Tripped
  <2>1. circuit[p] \in Circuits
    BY DEF TypeOK
  <2>2. circuit[p].openFor # -1 => Tripped(circuit[p])
    BY DEF OpenOnlyIfTripped, Tripped
  <2> QED
    BY <2>1, <2>2, CircuitStep, TrippedStep
<1> QED
  BY <1>1, <1>2, TypeInvariant, PTL DEF Spec

\* A move of a tripped-when-open circuit is a step of Breaker or a stutter.
LEMMA PromiseStep ==
    ASSUME TypeOK, OpenOnlyIfTripped, [Next]_vars, NEW p \in Providers
    PROVE  [Promise(p)!BreakerNext]_(Promise(p)!bvars)
<1> DEFINE c == circuit[p]
           d == circuit'[p]
<1>0. FailureThreshold \in Nat /\ Cooldown \in Nat
  BY ConfigAssumption
<1>1. /\ c \in Circuits
      /\ c.openFor # -1 => c.failures > 0 /\ c.failures >= FailureThreshold
  BY DEF TypeOK, OpenOnlyIfTripped
<1>2. CircuitMove(c, d)
  BY CircuitStep
<1> HIDE DEF c, d
<1> SUFFICES \/ /\ d.failures = c.failures + 1
                /\ Phase(d) = IF d.failures < FailureThreshold THEN Phase(c)
                              ELSE IF Cooldown = 0 THEN "probation" ELSE "open"
             \/ Phase(d) = "closed" /\ d.failures = 0
             \/ /\ Phase(c) = "open" /\ Phase(d) = "probation"
                /\ d.failures = c.failures
             \/ Phase(d) = Phase(c) /\ d.failures = c.failures
  BY DEF c, d, Promise!BreakerNext, Promise!Fail, Promise!Succeed, Promise!Elapse,
         Promise!bvars
<1>3. CASE d = c
  BY <1>3
<1>4. CASE d = RecordSuccess(c)
  BY <1>4 DEF RecordSuccess, Phase
<1>5. ASSUME NEW e \in Errors, d = RecordFailure(c, e), d # c
      PROVE  /\ d.failures = c.failures + 1
             /\ Phase(d) = IF d.failures < FailureThreshold THEN Phase(c)
                           ELSE IF Cooldown = 0 THEN "probation" ELSE "open"
  BY <1>0, <1>1, <1>5 DEF RecordFailure, Phase, Circuits
<1>6. CASE c.openFor <= 0 /\ d = [c EXCEPT !.openFor = -1]
  BY <1>1, <1>6 DEF Phase, Circuits
<1>7. CASE c.openFor > 0 /\ d = [c EXCEPT !.openFor = @ - 1]
  BY <1>1, <1>7 DEF Phase, Circuits
<1> QED
  BY <1>2, <1>3, <1>4, <1>5, <1>6, <1>7 DEF CircuitMove

\* The router implements one Breaker per provider, for any number of
\* concurrent requests.
THEOREM CircuitsImplementBreaker == Spec => CircuitsKeepPromise
<1>1. Init => \A p \in Providers : Promise(p)!BreakerInit
  BY DEF Init, Promise!BreakerInit, Phase
<1>2. TypeOK /\ OpenOnlyIfTripped /\ [Next]_vars =>
        [\A p \in Providers : [Promise(p)!BreakerNext]_(Promise(p)!bvars)]_vars
  BY PromiseStep
<1> QED
  BY <1>1, <1>2, TypeInvariant, OpenOnlyIfTrippedInvariant, PTL
     DEF Spec, CircuitsKeepPromise
-----------------------------------------------------------------------------
(* The candidates of a request.                                            *)

\* Once a request has been sent to a candidate its order stays one that
\* weighted_priority_order may produce from its candidates, and everything it
\* fell back from was retryable.
OrderedInv ==
    \A r \in Requests :
        /\ job[r].pc \in Active => job[r].order \in PriorityOrders(job[r].compatible)
        /\ \A i \in 1..Len(job[r].errors) : Retryable(job[r].errors[i])

\* A request that has not fallen back has nothing to answer for.
LEMMA NoErrorsLemma ==
    ASSUME NEW j, j.errors = <<>>
    PROVE  \A i \in 1..Len(j.errors) : Retryable(j.errors[i])
<1>1. Len(j.errors) = 0
  OBVIOUS
<1> QED
  BY <1>1

\* It is enough to look at the one request that moves.
LEMMA OrderedUpdate ==
    ASSUME OrderedInv, NEW r \in Requests, job \in [Requests -> Job], NEW j,
           job' = [job EXCEPT ![r] = j],
           j.pc \in Active => j.order \in PriorityOrders(j.compatible),
           \A i \in 1..Len(j.errors) : Retryable(j.errors[i])
    PROVE  OrderedInv'
BY DEF OrderedInv

\* Every step keeps the candidates in order and apart, and the failures
\* fallen back from retryable.
LEMMA OrderedStep == TypeOK /\ OrderedInv /\ [Next]_vars => OrderedInv'
<1> SUFFICES ASSUME TypeOK, OrderedInv, [Next]_vars
             PROVE  OrderedInv'
  OBVIOUS
<1>0. job \in [Requests -> Job]
  BY DEF TypeOK
<1>1. CASE job' = job
  BY <1>1 DEF OrderedInv
<1>2. ASSUME NEW r \in Requests, NEW answer \in Errors \union {Success, Gone},
             job' = [job EXCEPT ![r] = Settled(answer)]
      PROVE  OrderedInv'
  <2> DEFINE j == Settled(answer)
  <2>1. j.pc \notin Active /\ j.errors = <<>>
    BY SettledLemma DEF Active
  <2> HIDE DEF j
  <2> QED
    BY <1>0, <1>2, <2>1, OrderedUpdate, NoErrorsLemma DEF j
<1>3. ASSUME NEW r \in Requests, RequestStep(r)
      PROVE  OrderedInv'
  <2>0. job[r] \in Job /\ (job[r].pc \notin Active => job[r].errors = <<>>)
    BY <1>0 DEF TypeOK
  <2>1. ASSUME NEW mode \in Modes, NEW capable \in SUBSET Providers,
               Arrive(r, mode, capable)
        PROVE  OrderedInv'
    <3> DEFINE j == [Settled(Success) EXCEPT !.pc = "checking", !.mode = mode,
                                            !.capable = capable]
    <3>1. j.pc \notin Active /\ j.errors = <<>>
      BY SettledLemma DEF Active, Settled
    <3>2. job' = [job EXCEPT ![r] = j]
      BY <2>1 DEF Arrive
    <3> HIDE DEF j
    <3> QED
      BY <1>0, <3>1, <3>2, OrderedUpdate, NoErrorsLemma
  <2>2. CASE CheckTarget(r)
    <3>1. PICK j : /\ job' = [job EXCEPT ![r] = j]
                   /\ j.pc = "checking" /\ j.errors = job[r].errors
      <4> DEFINE t == job[r].checked + 1
      <4>1. job[r].pc = "checking"
        BY <2>2 DEF CheckTarget
      <4>2. CASE job' = [job EXCEPT ![r].checked = t, ![r].compatible = @ \union {t}]
        <5> WITNESS [job[r] EXCEPT !.checked = t, !.compatible = @ \union {t}]
        <5> QED
          BY <1>0, <2>0, <4>1, <4>2 DEF Job
      <4>3. CASE job' = [job EXCEPT ![r].checked = t]
        <5> WITNESS [job[r] EXCEPT !.checked = t]
        <5> QED
          BY <1>0, <2>0, <4>1, <4>3 DEF Job
      <4> QED
        BY <2>2, <4>2, <4>3 DEF CheckTarget
    <3>2. job[r].pc \notin Active
      BY <2>2 DEF CheckTarget, Active
    <3>3. j.pc \notin Active /\ j.errors = <<>>
      BY <2>0, <3>1, <3>2 DEF Active
    <3> QED
      BY <1>0, <3>1, <3>3, OrderedUpdate, NoErrorsLemma
  <2>3. CASE Choose(r)
    <3>1. PICK order \in PriorityOrders(job[r].compatible) :
            \/ job' = [job EXCEPT ![r] = Settled(Error("tokenizer"))]
            \/ job' = [job EXCEPT ![r] = Settled(Success)]
            \/ job' = [job EXCEPT ![r].pc = "attempting", ![r].order = order]
      BY <2>3 DEF Choose
    <3>2. CASE job' = [job EXCEPT ![r].pc = "attempting", ![r].order = order]
      <4> DEFINE j == [job[r] EXCEPT !.pc = "attempting", !.order = order]
      <4>1. job' = [job EXCEPT ![r] = j]
        BY <3>2
      <4>2. job[r].errors = <<>>
        BY <2>0, <2>3 DEF Choose, Active
      <4>3. /\ j.order = order /\ j.compatible = job[r].compatible
            /\ j.errors = <<>>
        BY <2>0, <4>2 DEF Job
      <4> HIDE DEF j
      <4> QED
        BY <1>0, <3>1, <4>1, <4>3, OrderedUpdate, NoErrorsLemma
    <3> QED
      BY <1>2, <3>1, <3>2, ErrorsLemma DEF Causes
  <2>4. CASE StreamEstablished(r) \/ StreamFinishes(r)
    <3>1. PICK pc \in {"streaming", "finished"} : job' = [job EXCEPT ![r].pc = pc]
      BY <2>4 DEF StreamEstablished, StreamFinishes
    <3>2. job[r].pc \in Active
      BY <2>4 DEF StreamEstablished, StreamFinishes, Active
    <3> DEFINE j == [job[r] EXCEPT !.pc = pc]
    <3>3. job' = [job EXCEPT ![r] = j]
      BY <3>1
    <3>4. /\ j.order = job[r].order /\ j.compatible = job[r].compatible
          /\ j.errors = job[r].errors
      BY <2>0 DEF Job
    <3>5. /\ job[r].order \in PriorityOrders(job[r].compatible)
          /\ \A i \in 1..Len(job[r].errors) : Retryable(job[r].errors[i])
      BY <3>2 DEF OrderedInv
    <3> HIDE DEF j
    <3> QED
      BY <1>0, <3>3, <3>4, <3>5, OrderedUpdate
  <2>5. ASSUME NEW e \in AttemptErrors, FallBack(r, e)
        PROVE  OrderedInv'
    <3> DEFINE j == [job[r] EXCEPT !.errors = Append(@, e)]
    <3>1. /\ job[r].errors \in Seq(Errors)
          /\ e \in Errors
          /\ Retryable(e)
          /\ job[r].pc \in Active
      BY <2>0, <2>5, ErrorsLemma DEF Job, FallBack, Active
    <3>2. /\ job[r].order \in PriorityOrders(job[r].compatible)
          /\ \A i \in 1..Len(job[r].errors) : Retryable(job[r].errors[i])
      BY <3>1 DEF OrderedInv
    <3>3. job' = [job EXCEPT ![r] = j]
      BY <2>5 DEF FallBack
    <3>4. /\ j.order = job[r].order /\ j.compatible = job[r].compatible
          /\ j.errors = Append(job[r].errors, e)
      BY <2>0 DEF Job
    <3>5. \A i \in 1..Len(Append(job[r].errors, e)) : Retryable(Append(job[r].errors, e)[i])
      BY <3>1, <3>2
    <3> HIDE DEF j
    <3> QED
      BY <1>0, <3>2, <3>3, <3>4, <3>5, OrderedUpdate
  <2>6. CASE \/ RejectAll(r) \/ ExecuteSucceeds(r) \/ AttemptTimesOut(r)
             \/ StreamEnds(r) \/ StreamIdles(r) \/ Drop(r)
             \/ \E e \in AttemptErrors : GiveUp(r, e)
             \/ \E e \in StreamErrors : StreamFails(r, e)
    BY <1>2, <2>6, ErrorsLemma DEF RejectAll, ExecuteSucceeds, AttemptTimesOut,
       StreamEnds, StreamIdles, Drop, GiveUp, StreamFails, Causes
  <2> QED
    BY <1>3, <2>1, <2>2, <2>3, <2>4, <2>5, <2>6 DEF RequestStep, Attempt
<1> QED
  BY <1>1, <1>3 DEF Next, Tick, vars

\* OrderedInv, the second half of the inductive invariant, always holds.
LEMMA OrderedInvariant == Spec => []OrderedInv
<1>1. Init => OrderedInv
  BY SettledLemma DEF Init, OrderedInv, Active
<1> QED
  BY <1>1, OrderedStep, TypeInvariant, PTL DEF Spec

\* The code's retryable failures are among those README.md lets move on.
LEMMA RetryableLemma ==
    ASSUME NEW e \in Errors, Retryable(e)
    PROVE  MayMoveOn(e)
BY DEF Retryable, MayMoveOn

\* No request is sent on after an outcome that may have been work done, and
\* none is sent to the same target twice.
THEOREM NoDuplicatedWorkInvariant == Spec => []NoDuplicatedWork
<1>1. TypeOK /\ OrderedInv => NoDuplicatedWork
  <2> SUFFICES ASSUME TypeOK, OrderedInv, NEW r \in Requests
               PROVE  /\ \A i \in 1..Len(job[r].errors) : MayMoveOn(job[r].errors[i])
                      /\ IsInjective(job[r].order)
    BY DEF NoDuplicatedWork
  <2>1. /\ job[r].errors \in Seq(Errors)
        /\ job[r].compatible \in SUBSET (1..Len(Targets))
    BY DEF TypeOK, Job
  <2>2. ASSUME NEW i \in 1..Len(job[r].errors)
        PROVE  MayMoveOn(job[r].errors[i])
    <3>1. job[r].errors[i] \in Errors
      BY <2>1
    <3> QED
      BY <3>1, RetryableLemma DEF OrderedInv
  <2>3. CASE job[r].pc \in Active
    BY <2>1, <2>2, <2>3, OrderLemma DEF OrderedInv
  <2>4. CASE job[r].pc \notin Active
    <3>1. job[r].order = <<>>
      BY <2>4 DEF TypeOK
    <3>2. IsInjective(<<>>)
      BY DEF IsInjective
    <3> QED
      BY <2>2, <3>1, <3>2
  <2> QED
    BY <2>3, <2>4
<1> QED
  BY <1>1, TypeInvariant, OrderedInvariant, PTL

\* What has been tried so far is a prefix of the order: candidates only, and
\* none of a worse priority than a candidate not yet tried.
LEMMA TriedLemma ==
    ASSUME TypeOK, OrderedInv, NEW r \in Requests, job[r].pc \in Active
    PROVE  /\ Tried(job[r]) \subseteq job[r].compatible
           /\ \A t \in job[r].compatible \ Tried(job[r]), u \in Tried(job[r]) :
                Targets[u].priority <= Targets[t].priority
           /\ Len(job[r].errors) + 1 = Len(job[r].order)
                => Tried(job[r]) = job[r].compatible
<1> DEFINE order == job[r].order
           k == Len(job[r].errors) + 1
           S == job[r].compatible
<1>1. /\ job[r].errors \in Seq(Errors)
      /\ S \in SUBSET (1..Len(Targets))
      /\ order \in Seq(1..Len(Targets))
  BY DEF TypeOK, Job
<1>2. Len(job[r].errors) < Len(order)
  BY DEF TypeOK
<1>3. order \in PriorityOrders(S)
  BY DEF OrderedInv
<1>4. /\ {order[i] : i \in 1..Len(order)} = S
      /\ \A i, j \in 1..Len(order) :
           i < j => Targets[order[i]].priority <= Targets[order[j]].priority
  BY <1>1, <1>3, OrderLemma
<1>5. k \in 1..Len(order) /\ Len(order) \in Nat
  BY <1>1, <1>2
<1>6. Tried(job[r]) = {order[i] : i \in 1..k}
  BY DEF Tried
<1> HIDE DEF order, k, S
<1>7. {order[i] : i \in 1..k} \subseteq S
  BY <1>4, <1>5
<1>8. ASSUME NEW t \in S \ {order[i] : i \in 1..k}, NEW u \in {order[i] : i \in 1..k}
      PROVE  Targets[u].priority <= Targets[t].priority
  <2>1. PICK i \in 1..k : u = order[i]
    OBVIOUS
  <2>2. PICK j \in 1..Len(order) : t = order[j]
    BY <1>4
  <2>3. j \notin 1..k
    BY <1>8, <2>2
  <2>4. i \in 1..Len(order) /\ i < j
    BY <1>5, <2>1, <2>2, <2>3
  <2> QED
    BY <1>4, <2>1, <2>2, <2>4
<1>9. k = Len(order) => {order[i] : i \in 1..k} = S
  BY <1>4
<1> QED
  BY <1>6, <1>7, <1>8, <1>9 DEF order, k, S

\* Candidates of a better priority always come first.
THEOREM BetterPriorityFirstInvariant == Spec => []BetterPriorityFirst
<1>1. TypeOK /\ OrderedInv => BetterPriorityFirst
  BY TriedLemma DEF BetterPriorityFirst
<1> QED
  BY <1>1, TypeInvariant, OrderedInvariant, PTL

\* Settling with a retryable failure: only GiveUp does it, and only when no
\* attempt or no candidate is left.
LEMMA GivesUpStep ==
    ASSUME TypeOK, OrderedInv, [Next]_vars, NEW r \in Requests,
           job[r].pc = "attempting", job'[r].pc = "settled", Retryable(job'[r].answer)
    PROVE  Exhausted(job[r])
<1>0. job \in [Requests -> Job]
  BY DEF TypeOK
<1>1. job' # job
  OBVIOUS
<1>2. PICK q \in Requests : RequestStep(q)
  BY <1>1 DEF Next, Tick, vars
<1>3. ~Retryable(Success) /\ ~Retryable(Gone) /\ ~Retryable(Error("elapsed"))
  BY DEF Retryable, Success, Gone, Error
<1>4. ASSUME NEW answer, ~Retryable(answer), job' = [job EXCEPT ![q] = Settled(answer)]
      PROVE  FALSE
  <2>1. CASE q = r
    BY <1>0, <1>4, <2>1 DEF Settled
  <2>2. CASE q # r
    BY <1>0, <1>4, <2>2
  <2> QED
    BY <2>1, <2>2
<1>5. q = r
  BY <1>0, <1>2 DEF RequestStep, Attempt, Arrive, CheckTarget, RejectAll, Choose,
     ExecuteSucceeds, StreamEstablished, FallBack, GiveUp, AttemptTimesOut,
     StreamFinishes, StreamEnds, StreamFails, StreamIdles, Drop
<1>6. CASE \/ ExecuteSucceeds(r) \/ AttemptTimesOut(r) \/ Drop(r)
  BY <1>3, <1>4, <1>5, <1>6 DEF ExecuteSucceeds, AttemptTimesOut, Drop
<1>7. CASE StreamEstablished(r)
  BY <1>0, <1>7 DEF StreamEstablished, Job
<1>8. ~\E e \in AttemptErrors : FallBack(r, e)
  BY <1>0 DEF FallBack, Job
<1>9. ASSUME NEW e \in AttemptErrors, GiveUp(r, e)
      PROVE  Exhausted(job[r])
  <2>1. job'[r].answer = e
    BY <1>0, <1>9 DEF GiveUp, Settled
  <2>2. LastAttempt(job[r])
    BY <1>9, <2>1 DEF GiveUp
  <2> QED
    BY <2>2, TriedLemma DEF LastAttempt, Exhausted, Active
<1> QED
  BY <1>2, <1>5, <1>6, <1>7, <1>8, <1>9 DEF RequestStep, Attempt, Arrive, CheckTarget,
     RejectAll, Choose, StreamFinishes, StreamEnds, StreamFails, StreamIdles

\* A failure another target might have made good reaches the client only
\* when the attempts are used up or every candidate has been tried.
THEOREM GivesUpOnlyWhenExhaustedAlways == Spec => GivesUpOnlyWhenExhausted
<1> DEFINE A == \A r \in Requests :
                  /\ job[r].pc = "attempting"
                  /\ job'[r].pc = "settled"
                  /\ Retryable(job'[r].answer)
                  => Exhausted(job[r])
<1>1. TypeOK /\ OrderedInv /\ [Next]_vars => [A]_vars
  BY GivesUpStep
<1> QED
  BY <1>1, TypeInvariant, OrderedInvariant, PTL DEF Spec, GivesUpOnlyWhenExhausted

\* A request gains a target it may be sent to only through available().
LEMMA ProspectsStep ==
    ASSUME TypeOK, [Next]_vars, NEW r \in Requests, NEW t \in Prospects(job'[r])
    PROVE  \/ t \in Prospects(job[r])
           \/ circuit[Targets[t].provider].openFor <= 0
<1>0. job \in [Requests -> Job]
  BY DEF TypeOK
<1>1. CASE job'[r] = job[r]
  BY <1>1
<1>2. CASE job'[r].pc \notin {"checking", "attempting"}
  BY <1>2 DEF Prospects
<1>3. ASSUME job'[r] # job[r], job'[r].pc \in {"checking", "attempting"}
      PROVE  \/ t \in Prospects(job[r])
             \/ circuit[Targets[t].provider].openFor <= 0
  <2>1. PICK q \in Requests : RequestStep(q)
    BY <1>3 DEF Next, Tick, vars
  <2>2. q = r
    BY <1>0, <1>3, <2>1 DEF RequestStep, Attempt, Arrive, CheckTarget, RejectAll, Choose,
       ExecuteSucceeds, StreamEstablished, FallBack, GiveUp, AttemptTimesOut,
       StreamFinishes, StreamEnds, StreamFails, StreamIdles, Drop
  <2>3. ASSUME NEW answer
        PROVE  job' # [job EXCEPT ![r] = Settled(answer)]
    BY <1>0, <1>3 DEF Settled
  <2>4. ASSUME NEW mode, NEW capable, Arrive(r, mode, capable)
        PROVE  t \in Prospects(job[r])
    BY <1>0, <2>4 DEF Arrive, Settled, Prospects
  <2>5. ASSUME CheckTarget(r)
        PROVE  \/ t \in Prospects(job[r])
               \/ circuit[Targets[t].provider].openFor <= 0
    <3> DEFINE u == job[r].checked + 1
    <3>1. job[r].pc = "checking" /\ job[r] \in Job
      BY <1>0, <2>5 DEF CheckTarget
    <3>2. CASE /\ Available(circuit[Targets[u].provider])
               /\ job' = [job EXCEPT ![r].checked = u, ![r].compatible = @ \union {u}]
      <4>1. /\ job'[r].pc = "checking"
            /\ job'[r].compatible = job[r].compatible \union {u}
        BY <1>0, <3>1, <3>2 DEF Job
      <4> QED
        BY <3>1, <3>2, <4>1 DEF Prospects, Available
    <3>3. CASE job' = [job EXCEPT ![r].checked = u]
      <4>1. job'[r].pc = "checking" /\ job'[r].compatible = job[r].compatible
        BY <1>0, <3>1, <3>3 DEF Job
      <4> QED
        BY <3>1, <4>1 DEF Prospects
    <3> QED
      BY <2>5, <3>2, <3>3 DEF CheckTarget
  <2>6. ASSUME Choose(r)
        PROVE  t \in Prospects(job[r])
    <3>1. PICK order \in PriorityOrders(job[r].compatible) :
            job' = [job EXCEPT ![r].pc = "attempting", ![r].order = order]
      BY <2>3, <2>6 DEF Choose
    <3>2. /\ job[r] \in Job /\ job[r].pc = "checking"
          /\ job[r].compatible \in SUBSET (1..Len(Targets))
          /\ job[r].errors \in Seq(Errors)
      BY <1>0, <2>6 DEF Choose, Job
    <3>3. /\ job'[r].pc = "attempting" /\ job'[r].order = order
          /\ job'[r].errors = job[r].errors
      BY <1>0, <3>1, <3>2 DEF Job
    <3>4. PICK i \in (Len(job[r].errors) + 1)..Len(order) : t = order[i]
      BY <3>3 DEF Prospects
    <3>5. i \in 1..Len(order)
      BY <3>2, <3>4
    <3>6. t \in job[r].compatible
      BY <3>1, <3>2, <3>4, <3>5, OrderLemma
    <3> QED
      BY <3>2, <3>6 DEF Prospects
  <2>7. ASSUME NEW e \in AttemptErrors, FallBack(r, e)
        PROVE  t \in Prospects(job[r])
    <3>1. /\ job[r] \in Job /\ job[r].pc = "attempting"
          /\ job[r].errors \in Seq(Errors)
          /\ job[r].order \in Seq(1..Len(Targets))
      BY <1>0, <2>7 DEF FallBack, Job
    <3>2. /\ job'[r].pc = "attempting" /\ job'[r].order = job[r].order
          /\ job'[r].errors = Append(job[r].errors, e)
      BY <1>0, <2>7, <3>1 DEF FallBack, Job
    <3>3. Len(job'[r].errors) = Len(job[r].errors) + 1
      BY <3>1, <3>2
    <3>4. PICK i \in (Len(job[r].errors) + 2)..Len(job[r].order) : t = job[r].order[i]
      BY <3>1, <3>2, <3>3 DEF Prospects
    <3>5. i \in (Len(job[r].errors) + 1)..Len(job[r].order)
      BY <3>1, <3>4
    <3> QED
      BY <3>1, <3>4, <3>5 DEF Prospects
  <2>8. CASE StreamEstablished(r) \/ StreamFinishes(r)
    BY <1>0, <1>3, <2>8 DEF StreamEstablished, StreamFinishes, Job
  <2> QED
    BY <2>1, <2>2, <2>3, <2>4, <2>5, <2>6, <2>7, <2>8 DEF RequestStep, Attempt, RejectAll,
       ExecuteSucceeds, GiveUp, AttemptTimesOut, StreamEnds, StreamFails, StreamIdles, Drop
<1> QED
  BY <1>1, <1>2, <1>3

\* While a provider's circuit is open, no further request joins those that
\* may still be sent to it, however checks and attempts interleave.
THEOREM OpenCircuitAdmitsNoOneAlways == Spec => OpenCircuitAdmitsNoOne
<1> DEFINE A == \A p \in Providers : circuit[p].openFor > 0 => Pending(p)' \subseteq Pending(p)
<1>1. ASSUME TypeOK, [Next]_vars, NEW p \in Providers, circuit[p].openFor > 0
      PROVE  Pending(p)' \subseteq Pending(p)
  <2> SUFFICES ASSUME NEW r \in Requests, NEW t \in Prospects(job'[r]),
                      Targets[t].provider = p
               PROVE  r \in Pending(p)
    BY DEF Pending
  <2>1. circuit[p].openFor \in Int
    BY <1>1 DEF TypeOK, Circuits
  <2>2. t \in Prospects(job[r])
    BY <1>1, <2>1, ProspectsStep
  <2> QED
    BY <2>2 DEF Pending
<1>2. TypeOK /\ [Next]_vars => [A]_vars
  BY <1>1
<1> QED
  BY <1>2, TypeInvariant, PTL DEF Spec, OpenCircuitAdmitsNoOne
-----------------------------------------------------------------------------
(* The weighted draw.                                                      *)

Priority(t) == Targets[t].priority

\* Candidates in tiers.
Tiered == {left \in Seq(1..Len(Targets)) :
             \A i, j \in 1..Len(left) : i < j => Priority(left[i]) <= Priority(left[j])}

\* The tier at the front is all candidates of the first priority.
LEMMA TierLemma ==
    ASSUME NEW left \in Tiered
    PROVE  /\ TierLen(left) \in 0..Len(left)
           /\ \A k \in 1..Len(left) :
                k <= TierLen(left) <=> Priority(left[k]) = Priority(left[1])
<1> DEFINE A == {n \in 1..Len(left) :
                   \A k \in 1..n : Targets[left[k]].priority = Targets[left[1]].priority}
<1>1. Len(left) \in Nat /\ \A k \in 1..Len(left) : Priority(left[k]) \in Nat
  BY TargetLemma DEF Tiered, Priority
<1>2. A \in SUBSET (1..Len(left)) /\ \A n \in A : 1..n \subseteq A
  BY <1>1
<1>3. A = 1..Cardinality(A) /\ Cardinality(A) \in 0..Len(left)
  <2> HIDE DEF A
  <2> QED
    BY <1>1, <1>2, InitialSegment
<1>4. TierLen(left) = Cardinality(A)
  BY DEF TierLen
<1>5. ASSUME NEW k \in 1..Len(left)
      PROVE  k \in A <=> Priority(left[k]) = Priority(left[1])
  <2>1. ASSUME Priority(left[k]) = Priority(left[1]), NEW i \in 1..k
        PROVE  Priority(left[i]) = Priority(left[1])
    <3>1. i \in 1..Len(left) /\ 1 \in 1..Len(left) /\ i <= k
      BY <1>1
    <3>2. Priority(left[1]) <= Priority(left[i]) /\ Priority(left[i]) <= Priority(left[k])
      BY <1>1, <3>1 DEF Tiered
    <3> QED
      BY <1>1, <2>1, <3>1, <3>2
  <2> QED
    BY <1>1, <2>1 DEF Priority
<1> HIDE DEF A
<1>6. \A k \in 1..Len(left) : k \in A <=> k <= Cardinality(A)
  BY <1>1, <1>3
<1> QED
  BY <1>3, <1>4, <1>5, <1>6

\* The equation of the recursive function in WeightOfFirst, on the first n.
Sums(f, left, n) ==
    f = [k \in 0..n |-> IF k = 0 THEN 0 ELSE f[k - 1] + Weights[left[k]]]

\* A function that satisfies it can be continued by one candidate.
LEMMA SumsNext ==
    ASSUME NEW left, NEW n \in Nat, NEW f, Sums(f, left, n)
    PROVE  \E g : Sums(g, left, n + 1)
<1> DEFINE next == f[n] + Weights[left[n + 1]]
           g == [k \in 0..n + 1 |-> IF k = n + 1 THEN next ELSE f[k]]
           h == [k \in 0..n + 1 |-> IF k = 0 THEN 0 ELSE g[k - 1] + Weights[left[k]]]
<1>1. ASSUME NEW k \in 0..n + 1
      PROVE  g[k] = h[k]
  <2>1. CASE k = n + 1
    BY <2>1
  <2>2. CASE k # n + 1
    <3>1. k \in 0..n /\ g[k] = f[k]
      BY <2>2
    <3>2. f[k] = IF k = 0 THEN 0 ELSE f[k - 1] + Weights[left[k]]
      BY <3>1, Zenon DEF Sums
    <3>3. k # 0 => g[k - 1] = f[k - 1]
      BY <3>1
    <3> QED
      BY <3>1, <3>2, <3>3
  <2> QED
    BY <2>1, <2>2
<1>2. g = h
  <2>1. DOMAIN g = 0..n + 1 /\ DOMAIN h = 0..n + 1
    OBVIOUS
  <2> HIDE DEF next
  <2> QED
    BY <1>1
<1>3. Sums(g, left, n + 1)
  <2> HIDE DEF next
  <2> QED
    BY <1>2 DEF Sums
<1> QED
  BY <1>3

\* For every list there is such a function.
LEMMA SumsExist ==
    ASSUME NEW left, NEW N \in Nat
    PROVE  \E f : Sums(f, left, N)
<1> DEFINE P == {n \in 0..N : \E f : Sums(f, left, n)}
<1>1. 0 \in P
  <2>1. Sums([k \in 0..0 |-> 0], left, 0)
    BY DEF Sums
  <2> QED
    BY <2>1
<1>2. \A n \in 0..N - 1 : n \in P => n + 1 \in P
  BY SumsNext
<1>3. \A n \in 0..N : n \in P
  <2> HIDE DEF P
  <2> QED
    BY <1>1, <1>2, InductionUpTo
<1> QED
  BY <1>3

\* What the sums of weights are, and that they grow.
LEMMA WeightLemma ==
    ASSUME NEW left \in Seq(1..Len(Targets))
    PROVE  /\ WeightOfFirst(left)[0] = 0
           /\ \A k \in 1..Len(left) :
                /\ Weights[left[k]] \in Nat \ {0}
                /\ WeightOfFirst(left)[k] = WeightOfFirst(left)[k - 1] + Weights[left[k]]
           /\ \A k \in 0..Len(left) : WeightOfFirst(left)[k] \in Nat
           /\ \A j, k \in 0..Len(left) :
                j <= k => WeightOfFirst(left)[j] <= WeightOfFirst(left)[k]
<1> DEFINE n == Len(left)
           w == WeightOfFirst(left)
<1>1. n \in Nat
  OBVIOUS
<1>2. Sums(w, left, n)
  <2>1. \E f : Sums(f, left, n)
    <3> HIDE DEF n
    <3> QED
      BY <1>1, SumsExist
  <2>2. w = CHOOSE f : f = [k \in 0..n |-> IF k = 0 THEN 0 ELSE f[k - 1] + Weights[left[k]]]
    BY DEF WeightOfFirst
  <2> QED
    BY <2>1, <2>2, Zenon DEF Sums
<1> HIDE DEF w
<1>3. \A k \in 0..n : w[k] = IF k = 0 THEN 0 ELSE w[k - 1] + Weights[left[k]]
  BY <1>2, Zenon DEF Sums
<1>4. \A k \in 1..n : Weights[left[k]] \in Nat \ {0}
  <2>1. DOMAIN Targets = 1..Len(Targets)
    BY ConfigAssumption
  <2>2. \A k \in 1..n : left[k] \in 1..Len(Targets)
    OBVIOUS
  <2> QED
    BY <2>1, <2>2, WeightsAssumption
<1>5. w[0] = 0 /\ \A k \in 1..n : w[k] = w[k - 1] + Weights[left[k]]
  <2>1. 0 \in 0..n /\ \A k \in 1..n : k \in 0..n /\ k # 0
    BY <1>1
  <2> QED
    BY <1>3, <2>1
<1>6. \A k \in 0..n : w[k] \in Nat
  <2> DEFINE P == {k \in 0..n : w[k] \in Nat}
  <2>1. 0 \in P
    BY <1>1, <1>5
  <2>2. \A k \in 0..n - 1 : k \in P => k + 1 \in P
    <3> SUFFICES ASSUME NEW k \in 0..n - 1, k \in P
                 PROVE  k + 1 \in P
      OBVIOUS
    <3>1. k + 1 \in 1..n /\ (k + 1) - 1 = k /\ k + 1 \in 0..n
      BY <1>1
    <3>2. w[k + 1] = w[k] + Weights[left[k + 1]] /\ Weights[left[k + 1]] \in Nat
      BY <1>4, <1>5, <3>1
    <3> QED
      BY <3>1, <3>2
  <2>3. \A k \in 0..n : k \in P
    <3> HIDE DEF P
    <3> QED
      BY <1>1, <2>1, <2>2, InductionUpTo
  <2> QED
    BY <2>3
<1>7. ASSUME NEW j \in 0..n
      PROVE  \A k \in 0..n : j <= k => w[j] <= w[k]
  <2> DEFINE P == {k \in 0..n : j <= k => w[j] <= w[k]}
  <2>1. 0 \in P
    BY <1>1, <1>6
  <2>2. \A k \in 0..n - 1 : k \in P => k + 1 \in P
    <3> SUFFICES ASSUME NEW k \in 0..n - 1, k \in P
                 PROVE  k + 1 \in P
      OBVIOUS
    <3>1. k + 1 \in 1..n /\ (k + 1) - 1 = k /\ k + 1 \in 0..n /\ k \in 0..n
      BY <1>1
    <3>2. w[k + 1] = w[k] + Weights[left[k + 1]] /\ Weights[left[k + 1]] \in Nat
      BY <1>4, <1>5, <3>1
    <3>3. w[k] <= w[k + 1]
      <4>1. w[k] \in Nat
        BY <1>6, <3>1
      <4> QED
        BY <3>2, <4>1
    <3>4. j = k + 1 \/ j <= k \/ j > k + 1
      OBVIOUS
    <3> QED
      BY <1>6, <3>1, <3>3, <3>4
  <2>3. \A k \in 0..n : k \in P
    <3> HIDE DEF P
    <3> QED
      BY <1>1, <2>1, <2>2, InductionUpTo
  <2> QED
    BY <2>3
<1> QED
  BY <1>4, <1>5, <1>6, <1>7 DEF w

\* A candidate of the tier is selected by the numbers from what the weights
\* before it come to up to what they come to with its own.
LEMMA SelectedLemma ==
    ASSUME NEW left \in Tiered, NEW choice \in RandomRange(left)
    PROVE  /\ Selected(left, choice) \in 1..TierLen(left)
           /\ \A k \in 1..TierLen(left) :
                Selected(left, choice) = k <=>
                  /\ WeightOfFirst(left)[k - 1] <= choice
                  /\ choice < WeightOfFirst(left)[k]
<1> DEFINE n == Len(left)
           T == TierLen(left)
           w == WeightOfFirst(left)
           picked == {k \in 1..T : choice - w[k - 1] < Weights[left[k]]}
           m == Min(picked)
<1>1. left \in Seq(1..Len(Targets)) /\ n \in Nat
  BY DEF Tiered
<1>2. T \in 0..n
  BY TierLemma
<1>3. /\ w[0] = 0
      /\ \A k \in 1..n : Weights[left[k]] \in Nat /\ w[k] = w[k - 1] + Weights[left[k]]
      /\ \A k \in 0..n : w[k] \in Nat
      /\ \A j, k \in 0..n : j <= k => w[j] <= w[k]
  BY <1>1, WeightLemma
<1>4. choice \in 0..w[T] - 1
  BY DEF RandomRange, Total
<1>5. Selected(left, choice) = IF picked = {} THEN 1 ELSE m
  BY DEF Selected
<1> HIDE DEF n, T, w
<1>6. choice \in Nat /\ choice < w[T] /\ w[T] \in Nat
  BY <1>1, <1>2, <1>3, <1>4
<1>7. \A k \in 1..T : k \in picked <=> choice < w[k]
  <2> SUFFICES ASSUME NEW k \in 1..T
               PROVE  choice - w[k - 1] < Weights[left[k]] <=> choice < w[k]
    OBVIOUS
  <2>1. k \in 1..n /\ k - 1 \in 0..n
    BY <1>1, <1>2
  <2>2. w[k] = w[k - 1] + Weights[left[k]] /\ w[k - 1] \in Nat /\ Weights[left[k]] \in Nat
    BY <1>3, <2>1
  <2> QED
    BY <1>6, <2>2
<1>8. T \in 1..T
  BY <1>1, <1>2, <1>3, <1>6
<1>9. picked \in SUBSET Nat /\ T \in picked
  BY <1>1, <1>2, <1>6, <1>7, <1>8
<1>10. m \in picked /\ \A k \in picked : m <= k
  <2> HIDE DEF picked
  <2> QED
    BY <1>9, LeastElement
<1>11. Selected(left, choice) = m
  BY <1>5, <1>9
<1>12. m \in 1..T
  BY <1>10
<1>13. choice < w[m]
  BY <1>7, <1>10, <1>12
<1>14. w[m - 1] <= choice
  <2>1. CASE m = 1
    BY <1>3, <1>6, <2>1
  <2>2. CASE m # 1
    <3>1. m - 1 \in 1..T /\ m - 1 \in 0..n /\ m - 1 < m
      BY <1>1, <1>2, <1>12, <2>2
    <3>2. m - 1 \notin picked
      BY <1>10, <1>12, <3>1
    <3>3. ~ (choice < w[m - 1]) /\ w[m - 1] \in Nat
      BY <1>3, <1>7, <3>1, <3>2
    <3> QED
      BY <1>6, <3>3
  <2> QED
    BY <2>1, <2>2
<1>15. ASSUME NEW k \in 1..T, w[k - 1] <= choice, choice < w[k]
       PROVE  m = k
  <2>1. m <= k
    BY <1>7, <1>10, <1>15
  <2>2. ASSUME m < k
        PROVE  FALSE
    <3>1. m \in 0..n /\ k - 1 \in 0..n /\ m <= k - 1
      BY <1>1, <1>2, <1>12, <2>2
    <3>2. w[m] <= w[k - 1] /\ w[m] \in Nat /\ w[k - 1] \in Nat
      BY <1>3, <3>1
    <3> QED
      BY <1>6, <1>13, <1>15, <3>2
  <2> QED
    BY <1>12, <2>1, <2>2
<1> HIDE DEF picked, m
<1>16. \A k \in 1..T : m = k <=> w[k - 1] <= choice /\ choice < w[k]
  BY <1>13, <1>14, <1>15
<1> QED
  BY <1>11, <1>12, <1>16 DEF T, w

\* As many numbers select a candidate as its weight says.
LEMMA ProportionalLemma ==
    ASSUME NEW left \in Tiered
    PROVE  Proportional(left)
<1> DEFINE n == Len(left)
           T == TierLen(left)
           w == WeightOfFirst(left)
<1>1. left \in Seq(1..Len(Targets)) /\ n \in Nat /\ T \in 0..n
  BY TierLemma DEF Tiered
<1>2. /\ w[0] = 0
      /\ \A k \in 1..n : Weights[left[k]] \in Nat \ {0} /\ w[k] = w[k - 1] + Weights[left[k]]
      /\ \A k \in 0..n : w[k] \in Nat
      /\ \A j, k \in 0..n : j <= k => w[j] <= w[k]
  BY <1>1, WeightLemma
<1>3. RandomRange(left) = 0..w[T] - 1
  BY DEF RandomRange, Total
<1>4. \A choice \in RandomRange(left) :
        /\ Selected(left, choice) \in 1..T
        /\ \A k \in 1..T :
             Selected(left, choice) = k <=> w[k - 1] <= choice /\ choice < w[k]
  BY SelectedLemma
<1> SUFFICES ASSUME NEW k \in 1..n
             PROVE  Cardinality({choice \in RandomRange(left) : Selected(left, choice) = k}) =
                      IF k <= T THEN Weights[left[k]] ELSE 0
  BY DEF Proportional
<1> DEFINE chosen == {choice \in RandomRange(left) : Selected(left, choice) = k}
<1> HIDE DEF n, T, w
<1>5. CASE k <= T
  <2>1. k \in 1..T /\ k \in 0..n /\ k - 1 \in 0..n /\ T \in 0..n
    BY <1>1, <1>5
  <2>2. /\ w[k - 1] \in Nat /\ w[k] \in Nat /\ w[T] \in Nat /\ w[k] <= w[T]
        /\ Weights[left[k]] \in Nat \ {0}
        /\ w[k] = w[k - 1] + Weights[left[k]]
    BY <1>2, <1>5, <2>1
  <2>3. chosen = w[k - 1]..w[k] - 1
    <3>1. \A choice \in 0..w[T] - 1 :
            Selected(left, choice) = k <=> w[k - 1] <= choice /\ choice < w[k]
      BY <1>3, <1>4, <2>1
    <3>2. ASSUME NEW choice
          PROVE  choice \in chosen <=> choice \in w[k - 1]..w[k] - 1
      <4>1. choice \in chosen =>
              choice \in 0..w[T] - 1 /\ w[k - 1] <= choice /\ choice < w[k]
        BY <1>3, <3>1
      <4>2. choice \in w[k - 1]..w[k] - 1 =>
              choice \in 0..w[T] - 1 /\ w[k - 1] <= choice /\ choice < w[k]
        BY <2>2
      <4>3. choice \in 0..w[T] - 1 /\ w[k - 1] <= choice /\ choice < w[k] =>
              choice \in chosen /\ choice \in w[k - 1]..w[k] - 1
        BY <1>3, <2>2, <3>1
      <4> QED
        BY <4>1, <4>2, <4>3
    <3> QED
      BY <3>2
  <2>4. Cardinality(w[k - 1]..w[k] - 1) = Weights[left[k]]
    <3>1. w[k - 1] \in Int /\ w[k] - 1 \in Int
      BY <2>2
    <3>2. Cardinality(w[k - 1]..w[k] - 1) =
            IF w[k - 1] > w[k] - 1 THEN 0 ELSE (w[k] - 1) - w[k - 1] + 1
      BY <3>1, FS_Interval
    <3> QED
      BY <2>2, <3>2
  <2> QED
    BY <1>5, <2>3, <2>4
<1>6. CASE ~ (k <= T)
  <2>1. chosen = {}
    BY <1>1, <1>4, <1>6
  <2> QED
    BY <1>6, <2>1, FS_EmptySet
<1> QED
  BY <1>5, <1>6

\* Sorted is one of the orders that respect the tiers: each candidate stands
\* at the number of those that come no later.
LEMMA SortedLemma ==
    ASSUME NEW S \in SUBSET (1..Len(Targets))
    PROVE  Sorted(S) \in PriorityOrders(S)
<1> DEFINE N == Cardinality(S)
           Before(i, j) == \/ Targets[i].priority < Targets[j].priority
                           \/ Targets[i].priority = Targets[j].priority /\ i < j
           UpTo(i) == {j \in S : Before(j, i) \/ j = i}
           rank == [i \in S |-> Cardinality(UpTo(i))]
           Ascends(s) == \A a, b \in 1..N : a < b => Before(s[a], s[b])
<1>1. IsFiniteSet(S) /\ N \in Nat /\ S \subseteq Nat
  <2>1. Len(Targets) \in Nat
    BY ConfigAssumption
  <2>2. IsFiniteSet(1..Len(Targets))
    BY <2>1, FS_Interval
  <2>3. IsFiniteSet(S)
    BY <2>2, FS_Subset
  <2> QED
    BY <2>1, <2>3, FS_CardinalityType
<1>2. \A i \in S : Targets[i].priority \in Nat
  BY TargetLemma
<1>3. \A i, j, k \in S : Before(i, j) /\ Before(j, k) => Before(i, k)
  BY <1>1, <1>2
<1>4. \A i, j \in S : ~ (Before(i, j) /\ Before(j, i)) /\ (i # j => Before(i, j) \/ Before(j, i))
  <2> SUFFICES ASSUME NEW i \in S, NEW j \in S
               PROVE  ~ (Before(i, j) /\ Before(j, i)) /\ (i # j => Before(i, j) \/ Before(j, i))
    OBVIOUS
  <2>1. i \in Nat /\ j \in Nat /\ Targets[i].priority \in Nat /\ Targets[j].priority \in Nat
    BY <1>1, <1>2
  <2> QED
    BY <2>1
<1>5. \A i \in S : ~ Before(i, i)
  BY <1>1, <1>2
<1> HIDE DEF Before
<1>6. ASSUME NEW i \in S
      PROVE  rank[i] \in 1..N
  <2>1. UpTo(i) \in SUBSET S /\ UpTo(i) # {}
    OBVIOUS
  <2> HIDE DEF UpTo
  <2>2. IsFiniteSet(UpTo(i)) /\ Cardinality(UpTo(i)) <= N
    BY <1>1, <2>1, FS_Subset
  <2>3. Cardinality(UpTo(i)) \in Nat /\ Cardinality(UpTo(i)) # 0
    BY <2>1, <2>2, FS_CardinalityType, FS_EmptySet
  <2> QED
    BY <1>1, <2>2, <2>3
<1>7. ASSUME NEW i \in S, NEW j \in S, Before(i, j)
      PROVE  rank[i] < rank[j]
  <2>1. UpTo(i) \in SUBSET UpTo(j) /\ j \in UpTo(j) /\ UpTo(j) \in SUBSET S
    BY <1>3, <1>7
  <2>2. j \notin UpTo(i)
    BY <1>4, <1>5, <1>7
  <2> HIDE DEF UpTo
  <2>3. IsFiniteSet(UpTo(j))
    BY <1>1, <2>1, FS_Subset
  <2>4. Cardinality(UpTo(i)) <= Cardinality(UpTo(j)) /\ Cardinality(UpTo(i)) # Cardinality(UpTo(j))
    BY <2>1, <2>2, <2>3, FS_Subset
  <2>5. Cardinality(UpTo(i)) \in Nat /\ Cardinality(UpTo(j)) \in Nat
    BY <2>1, <2>3, FS_Subset, FS_CardinalityType
  <2> QED
    BY <2>4, <2>5
<1> HIDE DEF UpTo, rank
<1>8. rank \in Injection(S, 1..N)
  <2>1. rank \in [S -> 1..N]
    <3>1. DOMAIN rank = S /\ rank = [i \in S |-> rank[i]]
      BY DEF rank
    <3> QED
      BY <1>6, <3>1
  <2>2. \A i, j \in S : rank[i] = rank[j] => i = j
    <3> SUFFICES ASSUME NEW i \in S, NEW j \in S, i # j
                 PROVE  rank[i] # rank[j]
      OBVIOUS
    <3>1. rank[i] < rank[j] \/ rank[j] < rank[i]
      BY <1>4, <1>7
    <3> QED
      BY <1>6, <3>1
  <2> QED
    BY <2>1, <2>2 DEF Injection, IsInjective
<1>9. \A n \in 1..N : \E i \in S : rank[i] = n
  <2>1. IsFiniteSet(1..N) /\ Cardinality(1..N) = N
    BY <1>1, FS_Interval
  <2>2. rank \in Surjection(S, 1..N)
    BY <1>8, <2>1, FS_Injection
  <2> QED
    BY <2>2 DEF Surjection
<1> DEFINE t == [n \in 1..N |-> CHOOSE i \in S : rank[i] = n]
<1>10. \A n \in 1..N : t[n] \in S /\ rank[t[n]] = n
  BY <1>9
<1>11. t \in [1..N -> S]
  BY <1>10
<1> HIDE DEF t
<1>12. t \in Injection(1..N, S)
  BY <1>10, <1>11 DEF Injection, IsInjective
<1>13. Ascends(t)
  <2> SUFFICES ASSUME NEW a \in 1..N, NEW b \in 1..N, a < b
               PROVE  Before(t[a], t[b])
    OBVIOUS
  <2>1. t[a] \in S /\ t[b] \in S /\ rank[t[a]] = a /\ rank[t[b]] = b
    BY <1>10
  <2>2. t[a] # t[b] /\ ~ (rank[t[b]] < rank[t[a]])
    <3>1. a \in Int /\ b \in Int /\ a # b /\ ~ (b < a)
      OBVIOUS
    <3> QED
      BY <2>1, <3>1
  <2> QED
    BY <1>4, <1>7, <2>1, <2>2
<1>14. Sorted(S) = CHOOSE s \in Injection(1..N, S) : Ascends(s)
  BY DEF Sorted, Before
<1>15. Sorted(S) \in Injection(1..N, S) /\ Ascends(Sorted(S))
  <2> HIDE DEF Ascends
  <2> QED
    BY <1>12, <1>13, <1>14
<1>16. \A a, b \in 1..N :
         a < b => Targets[Sorted(S)[a]].priority <= Targets[Sorted(S)[b]].priority
  <2> SUFFICES ASSUME NEW a \in 1..N, NEW b \in 1..N, a < b
               PROVE  Targets[Sorted(S)[a]].priority <= Targets[Sorted(S)[b]].priority
    OBVIOUS
  <2>1. Sorted(S)[a] \in S /\ Sorted(S)[b] \in S
    BY <1>15 DEF Injection
  <2>2. Before(Sorted(S)[a], Sorted(S)[b])
    BY <1>15
  <2>3. Targets[Sorted(S)[a]].priority \in Nat /\ Targets[Sorted(S)[b]].priority \in Nat
    BY <1>2, <2>1
  <2> QED
    BY <2>2, <2>3 DEF Before
<1> QED
  BY <1>15, <1>16 DEF PriorityOrders
-----------------------------------------------------------------------------
\* What is put out, and what is left behind it.
Whole(state) == state.output \o state.left

\* The loop has put out n candidates of S.
Standing(S, n, state) ==
    /\ state.left \in Seq(S)
    /\ state.output \in Seq(S)
    /\ Len(state.output) = n
    /\ Whole(state) \in PriorityOrders(S)

\* From behind the n-th on, whole is left.
Continues(whole, n, left) == \A i \in 1..Len(left) : whole[n + i] = left[i]

\* What stands where when it has, without \o.
LEMMA StandingLemma ==
    ASSUME NEW S \in SUBSET (1..Len(Targets)), NEW n \in Nat, NEW state, Standing(S, n, state)
    PROVE  /\ n + Len(state.left) = Cardinality(S)
           /\ Len(state.left) \in Nat
           /\ state.left \in Tiered
           /\ \A i \in 1..n : Whole(state)[i] = state.output[i]
           /\ Continues(Whole(state), n, state.left)
<1> DEFINE all == Whole(state)
           N == Cardinality(S)
<1>1. state.left \in Seq(S) /\ state.output \in Seq(S) /\ Len(state.output) = n
  BY DEF Standing
<1>2. all \in Seq(S) /\ Len(all) = n + Len(state.left) /\ Len(state.left) \in Nat
  BY <1>1, ConcatProperties, LenProperties DEF Whole
<1>3. Len(all) = N
  BY <1>2, OrderLemma DEF Standing
<1>4. /\ \A i \in 1..n : all[i] = state.output[i]
      /\ \A i \in 1..Len(state.left) : all[n + i] = state.left[i]
  <2>1. \A i \in 1..n + Len(state.left) :
          all[i] = IF i <= n THEN state.output[i] ELSE state.left[i - n]
    BY <1>1, ConcatProperties DEF Whole
  <2> HIDE DEF all
  <2>2. ASSUME NEW i \in 1..n
        PROVE  all[i] = state.output[i]
    <3>1. i \in 1..n + Len(state.left) /\ i <= n
      BY <1>2
    <3> QED
      BY <2>1, <3>1
  <2>3. ASSUME NEW i \in 1..Len(state.left)
        PROVE  all[n + i] = state.left[i]
    <3>1. n + i \in 1..n + Len(state.left) /\ ~ (n + i <= n) /\ (n + i) - n = i
      BY <1>2
    <3> QED
      BY <2>1, <3>1
  <2> QED
    BY <2>2, <2>3
<1>5. state.left \in Seq(1..Len(Targets))
  BY <1>1, SeqMonotonic
<1> HIDE DEF all
<1>6. ASSUME NEW i \in 1..Len(state.left), NEW j \in 1..Len(state.left), i < j
      PROVE  Priority(state.left[i]) <= Priority(state.left[j])
  <2>1. n + i \in 1..N /\ n + j \in 1..N /\ n + i < n + j
    BY <1>2, <1>3, <1>6
  <2>2. Targets[all[n + i]].priority <= Targets[all[n + j]].priority
    <3>1. all \in PriorityOrders(S)
      BY DEF Standing, all
    <3> QED
      BY <2>1, <3>1 DEF PriorityOrders
  <2> QED
    BY <1>4, <2>2 DEF Priority
<1> QED
  BY <1>2, <1>3, <1>4, <1>5, <1>6 DEF Tiered, Continues, all

\* A removal moves what is behind it one place to the front.
LEMMA RemoveAtLemma ==
    ASSUME NEW T, NEW s \in Seq(T), NEW k \in 1..Len(s)
    PROVE  /\ RemoveAt(s, k) \in Seq(T)
           /\ Len(RemoveAt(s, k)) = Len(s) - 1
           /\ \A i \in 1..Len(s) - 1 : RemoveAt(s, k)[i] = IF i < k THEN s[i] ELSE s[i + 1]
<1>1. /\ SubSeq(s, 1, k - 1) \in Seq(T) /\ Len(SubSeq(s, 1, k - 1)) = k - 1
      /\ \A i \in 1..k - 1 : SubSeq(s, 1, k - 1)[i] = s[i]
  OBVIOUS
<1>2. /\ SubSeq(s, k + 1, Len(s)) \in Seq(T) /\ Len(SubSeq(s, k + 1, Len(s))) = Len(s) - k
      /\ \A i \in 1..Len(s) - k : SubSeq(s, k + 1, Len(s))[i] = s[k + i]
  OBVIOUS
<1>3. /\ RemoveAt(s, k) \in Seq(T)
      /\ Len(RemoveAt(s, k)) = k - 1 + (Len(s) - k)
      /\ \A i \in 1..k - 1 + (Len(s) - k) :
           RemoveAt(s, k)[i] = IF i <= k - 1 THEN SubSeq(s, 1, k - 1)[i]
                               ELSE SubSeq(s, k + 1, Len(s))[i - (k - 1)]
  <2> DEFINE front == SubSeq(s, 1, k - 1)
             behind == SubSeq(s, k + 1, Len(s))
  <2>1. RemoveAt(s, k) = front \o behind
    BY DEF RemoveAt
  <2>2. front \in Seq(T) /\ behind \in Seq(T) /\ Len(front) = k - 1 /\ Len(behind) = Len(s) - k
    BY <1>1, <1>2
  <2> HIDE DEF front, behind
  <2>3. /\ front \o behind \in Seq(T)
        /\ Len(front \o behind) = Len(front) + Len(behind)
        /\ \A i \in 1..Len(front) + Len(behind) :
             (front \o behind)[i] = IF i <= Len(front) THEN front[i] ELSE behind[i - Len(front)]
    BY <2>2, ConcatProperties
  <2> QED
    BY <2>1, <2>2, <2>3, Zenon DEF front, behind
<1>4. Len(s) \in Nat /\ k \in Nat
  OBVIOUS
<1>5. ASSUME NEW i \in 1..Len(s) - 1
      PROVE  RemoveAt(s, k)[i] = IF i < k THEN s[i] ELSE s[i + 1]
  <2>1. CASE i < k
    <3>1. i \in 1..k - 1 /\ i \in 1..k - 1 + (Len(s) - k)
      BY <1>4, <2>1
    <3> QED
      BY <1>1, <1>3, <2>1, <3>1
  <2>2. CASE ~ (i < k)
    <3>1. /\ i \in 1..k - 1 + (Len(s) - k) /\ ~ (i <= k - 1)
          /\ i - (k - 1) \in 1..Len(s) - k /\ k + (i - (k - 1)) = i + 1
      BY <1>4, <2>2
    <3> QED
      BY <1>2, <1>3, <2>2, <3>1
  <2> QED
    BY <2>1, <2>2
<1>6. k - 1 + (Len(s) - k) = Len(s) - 1
  BY <1>4
<1> QED
  BY <1>3, <1>5, <1>6

\* A round that draws the k-th candidate of the tier: the orders it leads to
\* are those it came from, with one candidate moved to the front of its tier.
LEMMA MoveLemma ==
    ASSUME NEW S \in SUBSET (1..Len(Targets)), NEW n \in Nat, NEW state, Standing(S, n, state),
           NEW k \in 1..TierLen(state.left), NEW next,
           next.left = RemoveAt(state.left, k),
           next.output = Append(state.output, state.left[k])
    PROVE  Standing(S, n + 1, next)
<1> DEFINE all == Whole(state)
           new == Whole(next)
           N == Cardinality(S)
           L == Len(state.left)
           from == [i \in 1..N |-> IF i <= n THEN i
                                   ELSE IF i = n + 1 THEN n + k
                                   ELSE IF i <= n + k THEN i - 1 ELSE i]
<1>1. /\ n + L = N /\ L \in Nat /\ state.left \in Tiered
      /\ \A i \in 1..n : all[i] = state.output[i]
      /\ \A i \in 1..L : all[n + i] = state.left[i]
  <2>1. /\ n + L = N /\ L \in Nat /\ state.left \in Tiered
        /\ \A i \in 1..n : all[i] = state.output[i]
        /\ Continues(all, n, state.left)
    BY StandingLemma
  <2> HIDE DEF all
  <2> QED
    BY <2>1 DEF Continues
<1>2. k \in 1..L /\ N \in Nat /\ \A i \in 1..k : Priority(state.left[i]) = Priority(state.left[1])
  <2>1. L \in Nat /\ n + L = N /\ state.left \in Tiered
    BY <1>1
  <2>2. TierLen(state.left) \in 0..L
    BY <2>1, TierLemma
  <2>3. k \in 1..L /\ N \in Nat
    BY <2>1, <2>2
  <2>4. ASSUME NEW i \in 1..k
        PROVE  Priority(state.left[i]) = Priority(state.left[1])
    <3>1. i \in 1..L /\ i <= TierLen(state.left)
      BY <2>1, <2>2
    <3> QED
      BY <2>1, <3>1, TierLemma
  <2> QED
    BY <2>3, <2>4
<1>3. /\ state.left \in Seq(S) /\ state.output \in Seq(S) /\ Len(state.output) = n
      /\ all \in PriorityOrders(S)
  BY DEF Standing
<1>4. /\ next.left \in Seq(S) /\ Len(next.left) = L - 1
      /\ \A i \in 1..L - 1 : next.left[i] = IF i < k THEN state.left[i] ELSE state.left[i + 1]
  BY <1>2, <1>3, RemoveAtLemma
<1>5. /\ next.output \in Seq(S) /\ Len(next.output) = n + 1
      /\ \A i \in 1..n : next.output[i] = state.output[i]
      /\ next.output[n + 1] = state.left[k]
  <2>1. state.left[k] \in S
    BY <1>2, <1>3
  <2> QED
    BY <1>3, <2>1, AppendProperties
<1>6. /\ new \in Seq(S) /\ Len(new) = N
      /\ \A i \in 1..N : new[i] = IF i <= n + 1 THEN next.output[i] ELSE next.left[i - (n + 1)]
  <2>1. n + L = N /\ L \in Nat /\ Len(next.left) = L - 1 /\ Len(next.output) = n + 1
    BY <1>1, <1>4, <1>5
  <2> HIDE DEF L
  <2>2. Len(next.output) + Len(next.left) = N
    BY <2>1
  <2>3. /\ new \in Seq(S) /\ Len(new) = Len(next.output) + Len(next.left)
        /\ \A i \in 1..Len(next.output) + Len(next.left) :
             new[i] = IF i <= Len(next.output) THEN next.output[i]
                      ELSE next.left[i - Len(next.output)]
    <3>1. next.output \in Seq(S) /\ next.left \in Seq(S)
      BY <1>4, <1>5
    <3> QED
      BY <3>1, ConcatProperties DEF Whole
  <2> HIDE DEF new
  <2> QED
    BY <2>1, <2>2, <2>3
<1> HIDE DEF all, new, L
<1>7. ASSUME NEW i \in 1..N
      PROVE  from[i] \in 1..N /\ new[i] = all[from[i]]
  <2>1. CASE i <= n
    <3>1. i \in 1..n /\ i <= n + 1
      BY <2>1
    <3>2. from[i] = i
      BY <2>1
    <3> HIDE DEF from
    <3>3. new[i] = next.output[i] /\ next.output[i] = state.output[i]
      BY <1>5, <1>6, <3>1
    <3> QED
      BY <1>1, <3>1, <3>2, <3>3
  <2>2. CASE i = n + 1
    <3>1. from[i] = n + k /\ n + k \in 1..N
      BY <1>1, <1>2, <2>2
    <3> QED
      BY <1>1, <1>2, <1>5, <1>6, <2>2, <3>1
  <2>3. CASE n + 1 < i /\ i <= n + k
    <3> DEFINE j == i - (n + 1)
    <3>1. j \in 1..L - 1 /\ j \in 1..L /\ j < k /\ i - 1 = n + j /\ i - 1 \in 1..N
      BY <1>1, <1>2, <2>3
    <3>2. from[i] = i - 1
      BY <2>3
    <3> HIDE DEF from
    <3>3. new[i] = next.left[j] /\ next.left[j] = state.left[j]
      BY <1>4, <1>6, <2>3, <3>1
    <3>4. all[n + j] = state.left[j]
      BY <1>1, <3>1
    <3> QED
      BY <3>1, <3>2, <3>3, <3>4
  <2>4. CASE n + k < i
    <3> DEFINE j == i - (n + 1)
    <3>1. L \in Nat /\ n + L = N /\ k \in 1..L
      BY <1>1, <1>2
    <3>2. /\ j \in 1..L - 1 /\ j + 1 \in 1..L /\ ~ (j < k) /\ ~ (i <= n + 1)
          /\ i = n + (j + 1)
      BY <2>4, <3>1
    <3>3. from[i] = i
      BY <2>4, <3>1
    <3> HIDE DEF from, j
    <3>4. new[i] = next.left[j] /\ next.left[j] = state.left[j + 1]
      BY <1>4, <1>6, <3>2 DEF j
    <3>5. all[n + (j + 1)] = state.left[j + 1]
      BY <1>1, <3>2
    <3> QED
      BY <3>2, <3>3, <3>4, <3>5
  <2> QED
    BY <1>1, <1>2, <2>1, <2>2, <2>3, <2>4
<1>8. \A i, j \in 1..N : from[i] = from[j] => i = j
  BY <1>1, <1>2
<1>9. ASSUME NEW i \in 1..N, NEW j \in 1..N, i < j
      PROVE  from[i] < from[j] \/ (from[i] \in n + 1..n + k /\ from[j] \in n + 1..n + k)
  BY <1>1, <1>2, <1>9
<1> HIDE DEF from
<1>10. /\ all \in [1..N -> S] /\ IsInjective(all)
       /\ \A i, j \in 1..N : i < j => Targets[all[i]].priority <= Targets[all[j]].priority
  BY <1>3 DEF PriorityOrders, Injection
<1>11. new \in Injection(1..N, S)
  <2>1. new \in [1..N -> S]
    BY <1>6
  <2>2. ASSUME NEW i \in 1..N, NEW j \in 1..N, new[i] = new[j]
        PROVE  i = j
    <3>1. all[from[i]] = all[from[j]] /\ from[i] \in DOMAIN all /\ from[j] \in DOMAIN all
      BY <1>7, <1>10, <2>2
    <3>2. from[i] = from[j]
      BY <1>10, <3>1 DEF IsInjective
    <3> QED
      BY <1>8, <3>2
  <2> QED
    BY <2>1, <2>2 DEF Injection, IsInjective
<1>12. ASSUME NEW i \in 1..N, NEW j \in 1..N, i < j
       PROVE  Targets[new[i]].priority <= Targets[new[j]].priority
  <2>1. new[i] = all[from[i]] /\ new[j] = all[from[j]] /\ from[i] \in 1..N /\ from[j] \in 1..N
    BY <1>7
  <2>2. CASE from[i] < from[j]
    BY <1>10, <2>1, <2>2
  <2>3. CASE from[i] \in n + 1..n + k /\ from[j] \in n + 1..n + k
    <3>1. ASSUME NEW m \in n + 1..n + k
          PROVE  Targets[all[m]].priority = Priority(state.left[1])
      <4>1. m - n \in 1..k /\ m - n \in 1..L /\ m = n + (m - n)
        BY <1>1, <1>2
      <4>2. all[n + (m - n)] = state.left[m - n]
        BY <1>1, <4>1
      <4> QED
        BY <1>2, <4>1, <4>2 DEF Priority
    <3>2. Targets[new[i]].priority = Targets[new[j]].priority
      BY <2>1, <2>3, <3>1
    <3>3. Targets[new[i]].priority \in Nat
      BY <1>10, <2>1, TargetLemma
    <3> QED
      BY <3>2, <3>3
  <2> QED
    BY <1>9, <1>12, <2>2, <2>3
<1>13. new \in PriorityOrders(S)
  BY <1>11, <1>12 DEF PriorityOrders
<1> QED
  BY <1>4, <1>5, <1>13 DEF Standing, new

\* Every round puts out one more candidate.
LEMMA RoundKeeps ==
    ASSUME NEW S \in SUBSET (1..Len(Targets)), NEW n \in Nat, NEW state, Standing(S, n, state),
           NEW next \in Round(state)
    PROVE  Standing(S, n + 1, next)
<1>1. PICK choice \in RandomRange(state.left) :
        next = [left   |-> RemoveAt(state.left, Selected(state.left, choice)),
                output |-> Append(state.output, state.left[Selected(state.left, choice)])]
  BY DEF Round
<1>2. Selected(state.left, choice) \in 1..TierLen(state.left)
  BY StandingLemma, SelectedLemma
<1> QED
  BY <1>1, <1>2, MoveLemma

\* Whichever order respects the tiers, some number draws the next of it.
LEMMA RoundReaches ==
    ASSUME NEW S \in SUBSET (1..Len(Targets)), NEW n \in Nat, n < Cardinality(S),
           NEW state, Standing(S, n, state),
           NEW order \in PriorityOrders(S), \A i \in 1..n : state.output[i] = order[i]
    PROVE  \E next \in Round(state) : \A i \in 1..n + 1 : next.output[i] = order[i]
<1> DEFINE all == Whole(state)
           left == state.left
           N == Cardinality(S)
           x == order[n + 1]
<1>1. /\ n + Len(left) = N /\ Len(left) \in Nat /\ left \in Tiered
      /\ \A i \in 1..n : all[i] = state.output[i]
      /\ \A i \in 1..Len(left) : all[n + i] = left[i]
  <2>1. /\ n + Len(left) = N /\ Len(left) \in Nat /\ left \in Tiered
        /\ \A i \in 1..n : all[i] = state.output[i]
        /\ Continues(all, n, left)
    BY StandingLemma
  <2> HIDE DEF all, left
  <2> QED
    BY <2>1 DEF Continues
<1>2. /\ all \in PriorityOrders(S) /\ left \in Seq(S)
      /\ state.output \in Seq(S) /\ Len(state.output) = n
  BY DEF Standing
<1> HIDE DEF all, left
<1>3. Len(all) = N /\ Len(order) = N /\ N \in Nat /\ IsInjective(all) /\ IsInjective(order)
      /\ {all[i] : i \in 1..N} = S /\ {order[i] : i \in 1..N} = S
      /\ DOMAIN all = 1..N /\ DOMAIN order = 1..N
  <2>1. ASSUME NEW o \in PriorityOrders(S)
        PROVE  /\ Len(o) = N /\ N \in Nat /\ IsInjective(o) /\ DOMAIN o = 1..N
               /\ {o[i] : i \in 1..N} = S
    <3>1. /\ o \in Seq(1..Len(Targets)) /\ Len(o) = N /\ N \in Nat /\ IsInjective(o)
          /\ {o[i] : i \in 1..Len(o)} = S
      BY OrderLemma
    <3>2. DOMAIN o = 1..Len(o)
      BY <3>1
    <3> QED
      BY <3>1, <3>2
  <2> QED
    BY <1>2, <2>1
<1>4. n + 1 \in 1..N /\ 1 \in 1..Len(left) /\ n + 1 \in DOMAIN order
  BY <1>1, <1>3
<1>5. PICK m \in 1..N : all[m] = x
  <2>1. x \in S
    BY <1>3, <1>4
  <2> QED
    BY <1>3, <2>1
<1>6. m > n
  <2>1. ASSUME m \in 1..n
        PROVE  FALSE
    <3>1. order[m] = order[n + 1] /\ m \in DOMAIN order /\ m # n + 1
      BY <1>1, <1>3, <1>5, <2>1
    <3> QED
      BY <1>3, <1>4, <3>1 DEF IsInjective
  <2> QED
    BY <1>5, <2>1
<1> DEFINE k == m - n
<1>7. k \in 1..Len(left) /\ left[k] = x
  <2>1. k \in 1..Len(left) /\ n + k = m
    BY <1>1, <1>3, <1>5, <1>6
  <2> QED
    BY <1>1, <1>5, <2>1
<1>8. Priority(x) <= Priority(left[1])
  <2>1. left[1] \in S /\ left[1] = all[n + 1]
    BY <1>1, <1>2, <1>4
  <2>2. PICK j \in 1..N : order[j] = left[1]
    BY <1>3, <2>1
  <2>3. j > n
    <3>1. ASSUME j \in 1..n
          PROVE  FALSE
      <4>1. all[j] = all[n + 1] /\ j \in DOMAIN all /\ n + 1 \in DOMAIN all /\ j # n + 1
        BY <1>1, <1>3, <1>4, <2>1, <2>2, <3>1
      <4> QED
        BY <1>3, <4>1 DEF IsInjective
    <3> QED
      BY <2>2, <3>1
  <2>4. j = n + 1 \/ n + 1 < j
    BY <2>2, <2>3
  <2>5. n + 1 < j => Priority(order[n + 1]) <= Priority(order[j])
    BY <1>4, <2>2 DEF PriorityOrders, Priority
  <2>6. Priority(left[1]) \in Nat
    BY <2>1, TargetLemma DEF Priority
  <2> QED
    BY <2>2, <2>4, <2>5, <2>6
<1>9. Priority(left[k]) = Priority(left[1])
  <2>1. k = 1 \/ 1 < k
    BY <1>7
  <2>2. 1 < k => Priority(left[1]) <= Priority(left[k])
    BY <1>1, <1>4, <1>7 DEF Tiered
  <2>3. Priority(left[1]) \in Nat /\ Priority(left[k]) \in Nat
    <3>1. left[1] \in S /\ left[k] \in S
      BY <1>2, <1>4, <1>7
    <3> QED
      BY <3>1, TargetLemma DEF Priority
  <2> QED
    BY <1>7, <1>8, <2>1, <2>2, <2>3
<1> HIDE DEF k
<1>10. k \in 1..TierLen(left) /\ TierLen(left) \in 0..Len(left)
  <2>1. TierLen(left) \in 0..Len(left) /\ k <= TierLen(left)
    BY <1>1, <1>7, <1>9, TierLemma
  <2> QED
    BY <1>7, <2>1
<1> DEFINE choice == WeightOfFirst(left)[k - 1]
<1>11. choice \in RandomRange(left) /\ choice < WeightOfFirst(left)[k]
  <2>1. left \in Seq(1..Len(Targets))
    BY <1>1 DEF Tiered
  <2>2. k - 1 \in 0..Len(left) /\ k \in 0..Len(left) /\ TierLen(left) \in 0..Len(left)
        /\ k <= TierLen(left)
    BY <1>7, <1>10
  <2>3. /\ Weights[left[k]] \in Nat \ {0}
        /\ WeightOfFirst(left)[k] = WeightOfFirst(left)[k - 1] + Weights[left[k]]
    BY <1>7, <2>1, WeightLemma
  <2>4. /\ WeightOfFirst(left)[k - 1] \in Nat /\ WeightOfFirst(left)[k] \in Nat
        /\ WeightOfFirst(left)[TierLen(left)] \in Nat
        /\ WeightOfFirst(left)[k] <= WeightOfFirst(left)[TierLen(left)]
    BY <2>1, <2>2, WeightLemma
  <2> QED
    BY <2>3, <2>4 DEF RandomRange, Total
<1>12. Selected(left, choice) = k
  <2>1. choice <= choice
    <3>1. choice \in Int
      BY <1>11 DEF RandomRange
    <3> QED
      BY <3>1
  <2> QED
    BY <1>1, <1>10, <1>11, <2>1, SelectedLemma
<1> HIDE DEF choice
<1> DEFINE next == [left |-> RemoveAt(left, k), output |-> Append(state.output, left[k])]
<1>13. next \in Round(state)
  BY <1>11, <1>12 DEF Round, left
<1>14. ASSUME NEW i \in 1..n + 1
       PROVE  next.output[i] = order[i]
  <2>1. left[k] \in S
    BY <1>2, <1>7
  <2>2. /\ \A j \in 1..n : Append(state.output, left[k])[j] = state.output[j]
        /\ Append(state.output, left[k])[n + 1] = left[k]
    BY <1>2, <2>1, AppendProperties
  <2>3. i \in 1..n \/ i = n + 1
    OBVIOUS
  <2> QED
    BY <1>7, <2>2, <2>3
<1> QED
  BY <1>13, <1>14

\* The equation of the recursive function in Rounds, on the first n rounds.
Loops(f, S, n) ==
    f = [k \in 0..n |-> IF k = 0 THEN {[left |-> Sorted(S), output |-> <<>>]}
                        ELSE UNION {Round(state) : state \in f[k - 1]}]

\* A function that satisfies it can be continued by one round.
LEMMA LoopsNext ==
    ASSUME NEW S, NEW n \in Nat, NEW f, Loops(f, S, n)
    PROVE  \E g : Loops(g, S, n + 1)
<1> DEFINE first == {[left |-> Sorted(S), output |-> <<>>]}
           next == UNION {Round(state) : state \in f[n]}
           g == [k \in 0..n + 1 |-> IF k = n + 1 THEN next ELSE f[k]]
           h == [k \in 0..n + 1 |-> IF k = 0 THEN first
                                    ELSE UNION {Round(state) : state \in g[k - 1]}]
<1>1. ASSUME NEW k \in 0..n + 1
      PROVE  g[k] = h[k]
  <2>1. CASE k = n + 1
    <3>1. k # 0 /\ k - 1 = n /\ g[n] = f[n] /\ g[k] = next
      BY <2>1
    <3>2. h[k] = UNION {Round(state) : state \in g[k - 1]}
      BY <3>1
    <3> QED
      BY <3>1, <3>2
  <2>2. CASE k # n + 1
    <3>1. k \in 0..n /\ g[k] = f[k]
      BY <2>2
    <3>2. f[k] = IF k = 0 THEN first ELSE UNION {Round(state) : state \in f[k - 1]}
      BY <3>1, Zenon DEF Loops
    <3>3. k # 0 => g[k - 1] = f[k - 1]
      BY <3>1
    <3>4. h[k] = IF k = 0 THEN first ELSE UNION {Round(state) : state \in g[k - 1]}
      OBVIOUS
    <3> HIDE DEF first, g, h
    <3> QED
      BY <3>1, <3>2, <3>3, <3>4
  <2> QED
    BY <2>1, <2>2
<1>2. g = h
  <2>1. DOMAIN g = 0..n + 1 /\ DOMAIN h = 0..n + 1
    OBVIOUS
  <2> HIDE DEF next, first
  <2> QED
    BY <1>1
<1>3. Loops(g, S, n + 1)
  <2> HIDE DEF next
  <2> QED
    BY <1>2 DEF Loops
<1> QED
  BY <1>3

\* For every number of rounds there is such a function.
LEMMA LoopsExist ==
    ASSUME NEW S, NEW N \in Nat
    PROVE  \E f : Loops(f, S, N)
<1> DEFINE P == {n \in 0..N : \E f : Loops(f, S, n)}
<1>1. 0 \in P
  <2>1. Loops([k \in 0..0 |-> {[left |-> Sorted(S), output |-> <<>>]}], S, 0)
    BY DEF Loops
  <2> QED
    BY <2>1
<1>2. \A n \in 0..N - 1 : n \in P => n + 1 \in P
  BY LoopsNext
<1>3. \A n \in 0..N : n \in P
  <2> HIDE DEF P
  <2> QED
    BY <1>1, <1>2, InductionUpTo
<1> QED
  BY <1>3

\* Where the loop starts, and where a round takes it.
LEMMA RoundsLemma ==
    ASSUME NEW S, Cardinality(S) \in Nat
    PROVE  /\ Rounds(S)[0] = {[left |-> Sorted(S), output |-> <<>>]}
           /\ \A n \in 0..Cardinality(S) - 1 :
                Rounds(S)[n + 1] = UNION {Round(state) : state \in Rounds(S)[n]}
<1> DEFINE N == Cardinality(S)
           first == {[left |-> Sorted(S), output |-> <<>>]}
           f == Rounds(S)
<1>1. Loops(f, S, N)
  <2>1. \E g : Loops(g, S, N)
    <3> HIDE DEF N
    <3> QED
      BY LoopsExist DEF N
  <2>2. f = CHOOSE g : g = [k \in 0..N |-> IF k = 0 THEN first
                                           ELSE UNION {Round(state) : state \in g[k - 1]}]
    BY DEF Rounds
  <2> QED
    BY <2>1, <2>2, Zenon DEF Loops
<1> HIDE DEF f
<1>2. \A k \in 0..N : f[k] = IF k = 0 THEN first ELSE UNION {Round(state) : state \in f[k - 1]}
  BY <1>1, Zenon DEF Loops
<1>3. f[0] = first
  <2>1. 0 \in 0..N
    OBVIOUS
  <2> QED
    BY <1>2, <2>1
<1>4. ASSUME NEW n \in 0..N - 1
      PROVE  f[n + 1] = UNION {Round(state) : state \in f[n]}
  <2>1. n + 1 \in 0..N /\ n + 1 # 0 /\ (n + 1) - 1 = n
    OBVIOUS
  <2>2. f[n + 1] = UNION {Round(state) : state \in f[(n + 1) - 1]}
    BY <1>2, <2>1
  <2> QED
    BY <2>1, <2>2
<1> QED
  BY <1>3, <1>4 DEF f

\* The loop at any round, and that it may be on its way to any order that
\* respects the tiers.
LEMMA LoopLemma ==
    ASSUME NEW S \in SUBSET (1..Len(Targets))
    PROVE  \A n \in 0..Cardinality(S) :
             /\ \A state \in Rounds(S)[n] : Standing(S, n, state)
             /\ \A order \in PriorityOrders(S) : \E state \in Rounds(S)[n] :
                  \A i \in 1..n : state.output[i] = order[i]
<1> DEFINE N == Cardinality(S)
           P == {n \in 0..N :
                   /\ \A state \in Rounds(S)[n] : Standing(S, n, state)
                   /\ \A order \in PriorityOrders(S) : \E state \in Rounds(S)[n] :
                        \A i \in 1..n : state.output[i] = order[i]}
<1>1. Sorted(S) \in PriorityOrders(S) /\ N \in Nat /\ Sorted(S) \in Seq(S)
  <2>1. Sorted(S) \in PriorityOrders(S)
    BY SortedLemma
  <2>2. N \in Nat /\ Sorted(S) \in [1..N -> S]
    BY <2>1, OrderLemma DEF PriorityOrders, Injection
  <2> QED
    BY <2>1, <2>2
<1>2. 0 \in P
  <2> DEFINE start == [left |-> Sorted(S), output |-> <<>>]
  <2>1. Rounds(S)[0] = {start}
    BY <1>1, RoundsLemma
  <2>2. Whole(start) = Sorted(S)
    BY <1>1, ConcatEmptySeq DEF Whole
  <2>3. <<>> \in Seq(S) /\ Len(<<>>) = 0
    OBVIOUS
  <2>4. Standing(S, 0, start)
    BY <1>1, <2>2, <2>3 DEF Standing
  <2> HIDE DEF start
  <2>5. \A i \in 1..0 : FALSE
    OBVIOUS
  <2> QED
    BY <1>1, <2>1, <2>4, <2>5
<1>3. ASSUME NEW n \in 0..N - 1, n \in P
      PROVE  n + 1 \in P
  <2>1. Rounds(S)[n + 1] = UNION {Round(state) : state \in Rounds(S)[n]}
    BY <1>1, RoundsLemma
  <2>2. n \in Nat /\ n < N /\ n + 1 \in 0..N
    BY <1>1
  <2>3. ASSUME NEW next \in Rounds(S)[n + 1]
        PROVE  Standing(S, n + 1, next)
    <3>1. PICK state \in Rounds(S)[n] : next \in Round(state)
      BY <2>1
    <3>2. Standing(S, n, state)
      BY <1>3
    <3> QED
      BY <2>2, <3>1, <3>2, RoundKeeps
  <2>4. ASSUME NEW order \in PriorityOrders(S)
        PROVE  \E next \in Rounds(S)[n + 1] : \A i \in 1..n + 1 : next.output[i] = order[i]
    <3>1. PICK state \in Rounds(S)[n] : \A i \in 1..n : state.output[i] = order[i]
      BY <1>3
    <3>2. Standing(S, n, state)
      BY <1>3
    <3>3. \E next \in Round(state) : \A i \in 1..n + 1 : next.output[i] = order[i]
      BY <2>2, <3>1, <3>2, RoundReaches
    <3> QED
      BY <2>1, <3>3
  <2> QED
    BY <2>2, <2>3, <2>4
<1>4. \A n \in 0..N : n \in P
  <2> HIDE DEF P, N
  <2> QED
    BY <1>1, <1>2, <1>3, InductionUpTo
<1> QED
  BY <1>4

\* The draw produces every order that respects the tiers, and no other.
LEMMA DrawnLemma ==
    ASSUME NEW S \in SUBSET (1..Len(Targets))
    PROVE  Drawn(S) = PriorityOrders(S)
<1> DEFINE N == Cardinality(S)
<1>1. N \in Nat /\ N \in 0..N
  <2>1. N \in Nat
    BY SortedLemma, OrderLemma
  <2> QED
    BY <2>1
<1>2. ASSUME NEW state \in Rounds(S)[N]
      PROVE  state.left = <<>> /\ state.output \in PriorityOrders(S)
  <2>1. Standing(S, N, state)
    BY <1>1, LoopLemma
  <2>2. N + Len(state.left) = N /\ Len(state.left) \in Nat
    BY <1>1, <2>1, StandingLemma
  <2>3. state.left = <<>>
    <3>1. state.left \in Seq(S) /\ Len(state.left) = 0
      BY <1>1, <2>1, <2>2 DEF Standing
    <3> QED
      BY <3>1, EmptySeq
  <2>4. state.output \o <<>> = state.output
    BY <2>1, ConcatEmptySeq DEF Standing
  <2> QED
    BY <2>1, <2>3, <2>4 DEF Standing, Whole
<1>3. ASSUME NEW order \in PriorityOrders(S)
      PROVE  \E state \in Rounds(S)[N] : state.left = <<>> /\ state.output = order
  <2>1. PICK state \in Rounds(S)[N] : \A i \in 1..N : state.output[i] = order[i]
    BY <1>1, LoopLemma
  <2>2. state.left = <<>> /\ state.output \in PriorityOrders(S)
    BY <1>2
  <2>3. state.output \in [1..N -> S] /\ order \in [1..N -> S]
    BY <2>2 DEF PriorityOrders, Injection
  <2>4. state.output = order
    <3> DEFINE output == state.output
    <3>1. output \in [1..N -> S] /\ \A i \in 1..N : output[i] = order[i]
      BY <2>1, <2>3
    <3> HIDE DEF output, N
    <3>2. output = [i \in 1..N |-> output[i]] /\ order = [i \in 1..N |-> order[i]]
      BY <2>3, <3>1, Zenon
    <3>3. [i \in 1..N |-> output[i]] = [i \in 1..N |-> order[i]]
      BY <3>1, Zenon
    <3> QED
      BY <3>2, <3>3, Zenon DEF output
  <2> QED
    BY <2>2, <2>4
<1> QED
  BY <1>2, <1>3 DEF Drawn

\* DrawsByWeight holds whatever the candidates of a request.
THEOREM DrawsByWeightInvariant == Spec => []DrawsByWeight
<1>1. TypeOK => DrawsByWeight
  <2> SUFFICES ASSUME TypeOK, NEW r \in Requests
               PROVE  LET S == job[r].compatible
                      IN  /\ Drawn(S) = PriorityOrders(S)
                          /\ \A n \in 0..Cardinality(S) : \A state \in Rounds(S)[n] :
                               Proportional(state.left)
    BY DEF DrawsByWeight
  <2> DEFINE S == job[r].compatible
  <2>1. S \in SUBSET (1..Len(Targets))
    BY DEF TypeOK, Job
  <2> HIDE DEF S
  <2>2. ASSUME NEW n \in 0..Cardinality(S), NEW state \in Rounds(S)[n]
        PROVE  Proportional(state.left)
    <3>1. Standing(S, n, state) /\ n \in Nat
      BY <2>1, LoopLemma
    <3> QED
      BY <2>1, <3>1, StandingLemma, ProportionalLemma
  <2>3. Drawn(S) = PriorityOrders(S)
    BY <2>1, DrawnLemma
  <2> QED
    BY <2>2, <2>3 DEF S
<1> QED
  BY <1>1, TypeInvariant, PTL
=============================================================================
