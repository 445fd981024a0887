-------------------------- MODULE OrchestratorProofs --------------------------
(***************************************************************************)
(* Theorems of the orchestrator of ingestion.  Of Runner, one RunAll, for  *)
(* any number of ingestors, any dependencies among them and any cap on     *)
(* those that run; of IngestionRun, the runs of one source, for every set  *)
(* of files, contents and runs, and repositories of any length.            *)
(***************************************************************************)
EXTENDS Runner, IngestionRun, FiniteSetTheorems, WellFoundedInduction, TLAPS

\* The ingestors that have run and have not failed.
Succeeded == {j \in ran \cap DOMAIN done : done[j] # Failed}

\* One upstream of i has run and failed, and its failure is recorded.
Doomed(i) == \E k \in Upstream(i) \cap ran : k \in DOMAIN done /\ done[k] = Failed

\* Nothing happens before there is a plan, or when there is none.
Unplanned ==
    /\ pending = {} /\ ran = {} /\ done = << >>
    /\ \A i \in Ingestors : worker[i] = "none"

\* Each ingestor is still to come, was started, or was skipped.
Waits(i) == i \in pending /\ worker[i] = "none" /\ i \notin DOMAIN done

Started(i) == i \notin pending /\ worker[i] # "none"

WasSkipped(i) ==
    /\ i \notin pending /\ worker[i] = "none"
    /\ i \in DOMAIN done /\ done[i] = Failed /\ Doomed(i)

\* How far the goroutine of i is, in terms of what others see of it.
Progress(i) ==
    /\ i \in ran <=> worker[i] \notin {"none", "started"}
    /\ worker[i] \in {"started", "running"} => i \notin DOMAIN done
    /\ worker[i] \in {"recorded", "broadcast", "exited"} => i \in DOMAIN done
    /\ worker[i] # "none" => deps[i] \subseteq Succeeded

\* What RunAll has waited for when it stops scanning, and when it returns.
Waited ==
    /\ dispatcher \in {"join", "returned"} => pending = {}
    /\ dispatcher = "returned" => \A i \in Ingestors : worker[i] \in {"none", "exited"}

RunnerIInv ==
    /\ RunnerTypeOK
    /\ dispatcher \in {"plan", "refused"} => Unplanned
    /\ dispatcher \notin {"plan", "refused"} =>
          \A i \in Ingestors : Waits(i) \/ Started(i) \/ WasSkipped(i)
    /\ \A i \in Ingestors : Progress(i)
    /\ Waited

-----------------------------------------------------------------------------
(* What is upstream of an ingestor. *)

\* What an ingestor depends on is upstream of it, and nothing is upstream but
\* registered ingestors and the unknown one.
LEMMA UpstreamHasDeps ==
    ASSUME NEW i \in Ingestors,
           deps \in [Ingestors -> SUBSET (Ingestors \cup {Unknown})]
    PROVE  deps[i] \subseteq Upstream(i) /\ Upstream(i) \subseteq Ingestors \cup {Unknown}
BY DEF Upstream

\* A closed set that has what an ingestor depends on has all that is upstream
\* of it.
LEMMA UpstreamIsLeast ==
    ASSUME NEW i \in Ingestors,
           NEW s \in SUBSET (Ingestors \cup {Unknown}),
           deps[i] \subseteq s, Closed(s)
    PROVE  Upstream(i) \subseteq s
BY DEF Upstream

\* Upstream is closed.
LEMMA UpstreamIsClosed ==
    ASSUME NEW i \in Ingestors,
           deps \in [Ingestors -> SUBSET (Ingestors \cup {Unknown})]
    PROVE  Closed(Upstream(i))
<1>1. SUFFICES ASSUME NEW j \in Upstream(i) \cap Ingestors, NEW k \in deps[j]
               PROVE  k \in Upstream(i)
  BY DEF Closed
<1>2. k \in Ingestors \cup {Unknown}
  OBVIOUS
<1>3. ASSUME NEW s \in SUBSET (Ingestors \cup {Unknown}), deps[i] \subseteq s, Closed(s)
      PROVE  k \in s
  <2>1. j \in s
    BY <1>3 DEF Upstream
  <2> QED
    BY <1>3, <2>1 DEF Closed
<1> QED
  BY <1>2, <1>3 DEF Upstream

\* What is upstream of a dependency is upstream of what depends on it.
LEMMA UpstreamOfDependency ==
    ASSUME NEW i \in Ingestors, NEW j \in deps[i] \cap Ingestors,
           deps \in [Ingestors -> SUBSET (Ingestors \cup {Unknown})]
    PROVE  Upstream(j) \subseteq Upstream(i)
<1>1. Closed(Upstream(i)) /\ j \in Upstream(i)
  BY UpstreamIsClosed, UpstreamHasDeps
<1>2. deps[j] \subseteq Upstream(i)
  BY <1>1 DEF Closed
<1>3. Upstream(i) \in SUBSET (Ingestors \cup {Unknown})
  BY UpstreamHasDeps
<1> QED
  BY <1>1, <1>2, <1>3, UpstreamIsLeast

-----------------------------------------------------------------------------
(* One pass of the dispatcher over the plan. *)

\* done after the entry i of the plan, when it is d before it.
Pass1(d, i) ==
    IF i \in pending /\ ~DepsSatisfied(i, d) /\ AnyDepFailed(i, d)
    THEN Put(d, i, Failed) ELSE d

\* f is done after each of the first k entries.
IsPass(f, k) ==
    f = [n \in 0 .. k |-> IF n = 0 THEN done ELSE Pass1(f[n - 1], plan[n])]

\* A property of natural numbers that holds of 0, and of each number that
\* comes after one it holds of, holds of all: where it fails, S, there is a
\* least one.
LEMMA LeastFailure ==
    ASSUME NEW S \in SUBSET Nat, 0 \notin S,
           \A n \in Nat : n \notin S => n + 1 \notin S
    PROVE  S = {}
<1>1. SUFFICES ASSUME S # {} PROVE FALSE
  OBVIOUS
<1>2. PICK n \in S : \A m \in S : <<m, n>> \notin OpToRel(<, Nat)
  BY <1>1, NatLessThanWellFounded, WFMin
<1>3. n \in Nat /\ n # 0 /\ n - 1 \in Nat
  OBVIOUS
<1>4. n - 1 \in S
  BY <1>3
<1>5. <<n - 1, n>> \in OpToRel(<, Nat)
  BY <1>3 DEF OpToRel
<1> QED
  BY <1>2, <1>4, <1>5

\* The pass is defined as far as the plan goes.
LEMMA PassExists ==
    ASSUME NEW k \in Nat
    PROVE  \E f : IsPass(f, k)
<1> DEFINE S == {n \in Nat : ~\E f : IsPass(f, n)}
<1>1. 0 \notin S
  <2>1. IsPass([n \in 0 .. 0 |-> done], 0)
    BY DEF IsPass
  <2> QED
    BY <2>1
<1>2. ASSUME NEW n \in Nat, n \notin S
      PROVE  n + 1 \notin S
  <2>1. PICK f : IsPass(f, n)
    BY <1>2
  <2> DEFINE g == [m \in 0 .. n + 1 |-> IF m = n + 1 THEN Pass1(f[n], plan[n + 1]) ELSE f[m]]
  <2>2. \A m \in 0 .. n : g[m] = f[m]
    OBVIOUS
  <2>3. g[n + 1] = Pass1(g[n], plan[n + 1])
    OBVIOUS
  <2>4. f[0] = done /\ \A m \in 1 .. n : f[m] = Pass1(f[m - 1], plan[m])
    BY <2>1 DEF IsPass
  <2>5. \A m \in 1 .. n : m - 1 \in 0 .. n
    OBVIOUS
  <2>6. ASSUME NEW m \in 0 .. n + 1
        PROVE  g[m] = IF m = 0 THEN done ELSE Pass1(g[m - 1], plan[m])
    <3> HIDE DEF g
    <3>1. CASE m = 0
      BY <3>1, <2>2, <2>4
    <3>2. CASE m = n + 1
      BY <3>2, <2>3
    <3>3. CASE m \in 1 .. n
      BY <3>3, <2>2, <2>4, <2>5
    <3> QED
      BY <3>1, <3>2, <3>3
  <2>7. g = [m \in 0 .. n + 1 |-> g[m]]
    OBVIOUS
  <2>8. IsPass(g, n + 1)
    <3> HIDE DEF g
    <3> QED
      BY <2>6, <2>7 DEF IsPass
  <2> QED
    BY <2>8
<1> HIDE DEF S
<1>3. S = {}
  BY <1>1, <1>2, LeastFailure DEF S
<1> QED
  BY <1>3 DEF S

\* Skipped is where some pass ends.
LEMMA SkippedIsPass ==
    ASSUME Len(plan) \in Nat
    PROVE  \E f : IsPass(f, Len(plan)) /\ Skipped = f[Len(plan)]
<1> DEFINE after == CHOOSE f : IsPass(f, Len(plan))
<1>1. IsPass(after, Len(plan))
  BY PassExists
<1>2. Skipped = after[Len(plan)]
  BY DEF Skipped, IsPass, Pass1
<1> QED
  BY <1>1, <1>2

\* What one entry of the plan, and so any number of them, leaves in the map:
\* what was there, and failures of ingestors that were to come, each with a
\* failure of one that ran upstream of it.
Follows(d) ==
    /\ DOMAIN done \subseteq DOMAIN d
    /\ \A j \in DOMAIN done : d[j] = done[j]
    /\ \A j \in DOMAIN d \ DOMAIN done :
          j \in pending /\ d[j] = Failed /\ Doomed(j)

\* In a state of the dispatcher's, a failed dependency has run, or has a
\* failure upstream of it.
LEMMA FailedDepDooms ==
    ASSUME RunnerIInv, NEW i \in Ingestors, NEW d, Follows(d), AnyDepFailed(i, d)
    PROVE  Doomed(i)
<1>1. PICK j \in deps[i] : j \in DOMAIN d /\ d[j] = Failed
  BY DEF AnyDepFailed
<1>2. deps \in [Ingestors -> SUBSET (Ingestors \cup {Unknown})]
  BY DEF RunnerIInv, RunnerTypeOK
<1>3. j \in Ingestors
  BY <1>1 DEF RunnerIInv, RunnerTypeOK, Follows
<1>4. j \in Upstream(i) /\ Upstream(j) \subseteq Upstream(i)
  BY <1>1, <1>2, <1>3, UpstreamHasDeps, UpstreamOfDependency
<1>5. CASE j \notin DOMAIN done
  BY <1>1, <1>4, <1>5 DEF Follows, Doomed
<1>6. CASE j \in DOMAIN done
  <2>1. done[j] = Failed
    BY <1>1, <1>6 DEF Follows
  <2>2. dispatcher \notin {"plan", "refused"}
    BY <1>6 DEF RunnerIInv, Unplanned
  <2>3. j \in ran \/ Doomed(j)
    BY <1>3, <1>6, <2>2 DEF RunnerIInv, Waits, Started, WasSkipped, Progress, RunnerTypeOK
  <2> QED
    BY <1>4, <1>6, <2>1, <2>3 DEF Doomed
<1> QED
  BY <1>5, <1>6

\* An entry keeps it so.
LEMMA Pass1Follows ==
    ASSUME RunnerIInv, NEW d, Follows(d), NEW i
    PROVE  Follows(Pass1(d, i))
<1>1. CASE ~(i \in pending /\ ~DepsSatisfied(i, d) /\ AnyDepFailed(i, d))
  BY <1>1 DEF Pass1
<1>2. CASE i \in pending /\ AnyDepFailed(i, d) /\ i \in DOMAIN d
  <2>1. DOMAIN Put(d, i, Failed) = DOMAIN d
    BY <1>2 DEF Put
  <2>2. i \in Ingestors /\ i \notin DOMAIN done
    BY <1>2 DEF RunnerIInv, RunnerTypeOK, Unplanned, Waits, Started, WasSkipped
  <2>3. d[i] = Failed
    BY <1>2, <2>2 DEF Follows
  <2>4. \A j \in DOMAIN d : Put(d, i, Failed)[j] = d[j]
    BY <2>3 DEF Put
  <2> QED
    BY <2>1, <2>4 DEF Pass1, Follows
<1>3. CASE i \in pending /\ AnyDepFailed(i, d) /\ i \notin DOMAIN d
  <2>1. DOMAIN Put(d, i, Failed) = DOMAIN d \cup {i}
    BY DEF Put
  <2>2. \A j \in DOMAIN d : Put(d, i, Failed)[j] = d[j]
    BY <1>3 DEF Put
  <2>3. Put(d, i, Failed)[i] = Failed
    BY <1>3 DEF Put
  <2>4. Doomed(i)
    BY <1>3, FailedDepDooms DEF RunnerIInv, RunnerTypeOK
  <2> QED
    BY <1>3, <2>1, <2>2, <2>3, <2>4 DEF Pass1, Follows
<1> QED
  BY <1>1, <1>2, <1>3

\* So does a pass.
LEMMA SkippedFollows ==
    ASSUME RunnerIInv
    PROVE  Follows(Skipped)
<1>1. Len(plan) \in Nat
  <2>1. CASE plan = << >>
    BY <2>1
  <2>2. CASE plan \in SetToSeqs(Ingestors)
    <3>1. Cardinality(Ingestors) \in Nat
      BY RunnerAssumption, FS_CardinalityType
    <3>2. plan \in [1 .. Cardinality(Ingestors) -> Ingestors]
      BY <2>2 DEF SetToSeqs
    <3> QED
      BY <3>1, <3>2
  <2> QED
    BY <2>1, <2>2 DEF RunnerIInv, RunnerTypeOK
<1>2. PICK f : IsPass(f, Len(plan)) /\ Skipped = f[Len(plan)]
  BY <1>1, SkippedIsPass
<1> DEFINE S == {n \in Nat : n <= Len(plan) /\ ~Follows(f[n])}
<1>3. f[0] = done /\ \A n \in 1 .. Len(plan) : f[n] = Pass1(f[n - 1], plan[n])
  BY <1>1, <1>2 DEF IsPass
<1>4. 0 \notin S
  BY <1>3 DEF Follows
<1>5. ASSUME NEW n \in Nat, n \notin S
      PROVE  n + 1 \notin S
  <2>1. SUFFICES ASSUME n + 1 <= Len(plan)
                 PROVE  Follows(f[n + 1])
    OBVIOUS
  <2>2. Follows(f[n])
    BY <1>1, <1>5, <2>1
  <2>3. n + 1 \in 1 .. Len(plan) /\ (n + 1) - 1 = n
    BY <1>1, <2>1
  <2>4. f[n + 1] = Pass1(f[n], plan[n + 1])
    BY <1>3, <2>3
  <2> QED
    BY <2>2, <2>4, Pass1Follows
<1>6. Len(plan) \notin S
  <2> HIDE DEF S
  <2>1. S \subseteq Nat
    BY DEF S
  <2>2. S = {}
    BY <1>4, <1>5, <2>1, LeastFailure
  <2> QED
    BY <2>2
<1> QED
  BY <1>1, <1>2, <1>6

-----------------------------------------------------------------------------
(* The inductive invariant. *)

\* Finite sets of goroutines, and the number of slots.
LEMMA Counts ==
    /\ Slots \in Nat
    /\ \A S \in SUBSET Ingestors : IsFiniteSet(S) /\ Cardinality(S) \in Nat
<1>1. \A S \in SUBSET Ingestors : IsFiniteSet(S)
  BY RunnerAssumption, FS_Subset
<1>2. \A S \in SUBSET Ingestors : Cardinality(S) \in Nat
  BY <1>1, FS_CardinalityType
<1> QED
  BY <1>1, <1>2, RunnerAssumption DEF Slots

\* With fewer holders there is no more of a crowd.
LEMMA FewerHold ==
    ASSUME Cardinality(Holding) <= Slots, Holding' \subseteq Holding
    PROVE  Cardinality(Holding') <= Slots
<1>1. Holding \in SUBSET Ingestors
  BY DEF Holding
<1>2. IsFiniteSet(Holding) /\ Cardinality(Holding) \in Nat /\ Slots \in Nat
  BY <1>1, Counts
<1>3. Cardinality(Holding') <= Cardinality(Holding) /\ Cardinality(Holding') \in Nat
  BY <1>2, FS_Subset, FS_CardinalityType
<1> QED
  BY <1>2, <1>3

LEMMA RunnerInitIInv == RunnerInit => RunnerIInv
<1> SUFFICES ASSUME RunnerInit PROVE RunnerIInv
  OBVIOUS
<1>1. Holding = {}
  BY DEF RunnerInit, Holding
<1>2. Cardinality(Holding) <= Slots
  BY <1>1, FS_EmptySet, Counts
<1> QED
  BY <1>2 DEF RunnerInit, RunnerIInv, RunnerTypeOK, Unplanned, Progress, Waited, Statuses

\* A plan starts with everybody still to come.
LEMMA PlanKeepsIInv == RunnerIInv /\ Plan => RunnerIInv'
<1> SUFFICES ASSUME RunnerIInv, Plan PROVE RunnerIInv'
  OBVIOUS
<1>1. Holding' = Holding
  BY DEF Plan, Holding
<1>2. Unplanned /\ dispatcher' \in {"refused", "scan"}
  BY DEF Plan, RunnerIInv
<1>3. RunnerTypeOK'
  BY <1>1 DEF Plan, RunnerIInv, RunnerTypeOK, Linearizations
<1>4. dispatcher' = "refused" => Unplanned'
  BY <1>2 DEF Plan, Unplanned
<1>5. dispatcher' = "scan" => \A i \in Ingestors : Waits(i)'
  BY <1>2 DEF Plan, Unplanned, Waits
<1>6. \A i \in Ingestors : Progress(i)'
  BY <1>2 DEF Plan, Unplanned, Progress, RunnerIInv
<1> QED
  BY <1>2, <1>3, <1>4, <1>5, <1>6 DEF RunnerIInv, Waited

\* A scan starts those whose dependencies have succeeded, and skips those
\* below a failure.
LEMMA ScanKeepsIInv == RunnerIInv /\ Scan => RunnerIInv'
<1> SUFFICES ASSUME RunnerIInv, Scan PROVE RunnerIInv'
  OBVIOUS
<1> DEFINE skip == DOMAIN Skipped \ DOMAIN done
           start == {i \in pending \ skip : DepsSatisfied(i, Skipped)}
<1>1. Follows(Skipped)
  BY SkippedFollows
<1>2. /\ dispatcher = "scan"
      /\ done' = Skipped
      /\ pending' = pending \ (skip \cup start)
      /\ worker' = [i \in Ingestors |-> IF i \in start THEN "started" ELSE worker[i]]
      /\ dispatcher' \in {"join", "wait", "scan"}
      /\ dispatcher' = "join" => pending' = {}
      /\ UNCHANGED <<deps, hung, plan, ran>>
  BY DEF Scan
<1>3. skip \subseteq pending /\ start \subseteq pending /\ skip \cap start = {}
  BY <1>1 DEF Follows
<1>4. \A i \in start : DepsSatisfied(i, Skipped)
  OBVIOUS
<1>5. \A i \in DOMAIN Skipped : i \in DOMAIN done \/ i \in skip
  OBVIOUS
<1>6. \A i \in skip : i \in DOMAIN Skipped /\ i \notin DOMAIN done
  OBVIOUS
<1> HIDE DEF skip, start
<1>7. \A i \in Ingestors : Waits(i) \/ Started(i) \/ WasSkipped(i)
  BY <1>2 DEF RunnerIInv
<1>8. \A i \in pending : i \in Ingestors /\ Waits(i)
  BY <1>7 DEF RunnerIInv, RunnerTypeOK, Waits, Started, WasSkipped
<1>9. \A i \in Ingestors : /\ i \in start => worker'[i] = "started"
                           /\ i \notin start => worker'[i] = worker[i]
  BY <1>2
<1>10. \A j \in DOMAIN done : j \in DOMAIN done' /\ done'[j] = done[j]
  BY <1>1, <1>2 DEF Follows
<1>11. \A j \in DOMAIN done' : j \notin DOMAIN done =>
          done'[j] = Failed /\ Doomed(j) /\ j \in skip
  BY <1>1, <1>2, <1>5 DEF Follows
<1>12. \A i \in Ingestors : Doomed(i) => Doomed(i)'
  <2>1. \A i \in Ingestors : Upstream(i)' = Upstream(i)
    BY <1>2 DEF Upstream, Closed
  <2> QED
    BY <1>2, <1>10, <2>1 DEF Doomed
<1>13. RunnerTypeOK'
  <2>1. Holding' \subseteq Holding
    BY <1>9 DEF Holding
  <2>2. Cardinality(Holding') <= Slots
    BY <2>1, FewerHold DEF RunnerIInv, RunnerTypeOK
  <2>3. DOMAIN done' \subseteq Ingestors /\ \A i \in DOMAIN done' : done'[i] \in Statuses
    <3>1. DOMAIN done' \subseteq Ingestors
      BY <1>3, <1>8, <1>11 DEF RunnerIInv, RunnerTypeOK
    <3>2. ASSUME NEW i \in DOMAIN done' PROVE done'[i] \in Statuses
      BY <1>10, <1>11 DEF RunnerIInv, RunnerTypeOK, Statuses
    <3> QED
      BY <3>1, <3>2
  <2>4. worker' \in [Ingestors ->
          {"none", "started", "running", "recorded", "broadcast", "exited"}]
    BY <1>2 DEF RunnerIInv, RunnerTypeOK
  <2>5. pending' \subseteq Ingestors
    BY <1>2 DEF RunnerIInv, RunnerTypeOK
  <2> QED
    BY <1>2, <2>2, <2>3, <2>4, <2>5 DEF RunnerIInv, RunnerTypeOK
<1>14. \A i \in Ingestors : (Waits(i) \/ Started(i) \/ WasSkipped(i))'
  <2> SUFFICES ASSUME NEW i \in Ingestors
               PROVE  (Waits(i) \/ Started(i) \/ WasSkipped(i))'
    OBVIOUS
  <2>1. CASE i \in start
    BY <1>2, <1>9, <2>1 DEF Started
  <2>2. CASE i \in skip
    <3>1. Waits(i) /\ i \notin start
      BY <1>3, <1>8, <2>2
    <3>2. i \in DOMAIN done' /\ i \notin DOMAIN done
      BY <1>2, <1>6, <2>2
    <3>3. done'[i] = Failed /\ Doomed(i)'
      BY <1>11, <1>12, <3>2
    <3> QED
      BY <1>2, <1>9, <2>2, <3>1, <3>2, <3>3 DEF WasSkipped, Waits
  <2>3. CASE i \notin start /\ i \notin skip /\ Waits(i)
    BY <1>2, <1>9, <1>11, <2>3 DEF Waits
  <2>4. CASE i \notin start /\ i \notin skip /\ Started(i)
    BY <1>2, <1>9, <2>4 DEF Started
  <2>5. CASE i \notin start /\ i \notin skip /\ WasSkipped(i)
    BY <1>2, <1>9, <1>10, <1>12, <2>5 DEF WasSkipped
  <2> QED
    BY <1>7, <2>1, <2>2, <2>3, <2>4, <2>5
<1>15. \A i \in Ingestors : Progress(i)'
  <2> SUFFICES ASSUME NEW i \in Ingestors PROVE Progress(i)'
    OBVIOUS
  <2>1. Progress(i) /\ ran' = ran /\ deps' = deps
    BY <1>2 DEF RunnerIInv
  <2>2. Succeeded \subseteq Succeeded'
    BY <1>2, <1>10 DEF Succeeded
  <2>3. CASE i \in start
    <3>1. Waits(i) /\ i \notin skip
      BY <1>3, <1>8, <2>3
    <3>2. i \notin ran /\ i \notin DOMAIN done'
      BY <1>11, <2>1, <3>1 DEF Waits, Progress
    <3>3. ASSUME NEW j \in deps[i] PROVE j \in Succeeded'
      <4>1. j \in DOMAIN done' /\ done'[j] # Failed
        BY <1>2, <1>4, <2>3 DEF DepsSatisfied
      <4>2. j \in DOMAIN done /\ done[j] # Failed
        BY <1>10, <1>11, <4>1
      <4>3. j \in Ingestors
        BY <4>2 DEF RunnerIInv, RunnerTypeOK
      <4>4. j \in ran
        <5>1. Started(j)
          BY <1>7, <4>2, <4>3 DEF Waits, WasSkipped
        <5>2. Progress(j)
          BY <4>3 DEF RunnerIInv
        <5> QED
          BY <4>2, <5>1, <5>2 DEF Started, Progress
      <4> QED
        BY <1>2, <4>1, <4>4 DEF Succeeded
    <3> QED
      BY <1>2, <1>9, <2>3, <3>2, <3>3 DEF Progress
  <2>4. CASE i \notin start
    <3>1. worker'[i] = worker[i]
      BY <1>9, <2>4
    <3>2. worker[i] # "none" => i \notin skip
      BY <1>3, <1>8 DEF Waits
    <3> QED
      BY <1>10, <1>11, <2>1, <2>2, <3>1, <3>2 DEF Progress
  <2> QED
    BY <2>3, <2>4
<1> QED
  BY <1>2, <1>13, <1>14, <1>15 DEF RunnerIInv, Waited

\* RunAll returns when every goroutine it started has exited.
LEMMA JoinKeepsIInv == RunnerIInv /\ Join => RunnerIInv'
<1> SUFFICES ASSUME RunnerIInv, Join PROVE RunnerIInv'
  OBVIOUS
<1>1. /\ dispatcher = "join" /\ dispatcher' = "returned"
      /\ \A i \in Ingestors : worker[i] \in {"none", "exited"}
      /\ UNCHANGED <<deps, hung, plan, pending, done, ran, worker>>
  BY DEF Join
<1>2. Holding' = Holding
  BY <1>1 DEF Holding
<1>3. RunnerTypeOK'
  BY <1>1, <1>2 DEF RunnerIInv, RunnerTypeOK
<1>4. \A i \in Ingestors : (Waits(i) \/ Started(i) \/ WasSkipped(i))'
  BY <1>1 DEF RunnerIInv, Waits, Started, WasSkipped, Doomed, Upstream, Closed
<1>5. \A i \in Ingestors : Progress(i)'
  BY <1>1 DEF RunnerIInv, Progress, Succeeded
<1> QED
  BY <1>1, <1>3, <1>4, <1>5 DEF RunnerIInv, Waited

\* What every step of a goroutine does: it moves its own worker on, from where
\* it was, after the plan was made.
LEMMA StepMoves ==
    ASSUME RunnerIInv, NEW i \in Ingestors,
           NEW from, NEW to, Goto(i, from, to), from # "none",
           to \in {"running", "recorded", "broadcast", "exited"}
    PROVE  /\ worker'[i] = to
           /\ \A j \in Ingestors \ {i} : worker'[j] = worker[j]
           /\ dispatcher \notin {"plan", "refused"}
           /\ i \notin pending
           /\ worker' \in [Ingestors ->
                {"none", "started", "running", "recorded", "broadcast", "exited"}]
           /\ \A j \in Ingestors : Upstream(j)' = Upstream(j)
<1>1. worker \in [Ingestors ->
          {"none", "started", "running", "recorded", "broadcast", "exited"}]
  BY DEF RunnerIInv, RunnerTypeOK
<1>2. worker' = [worker EXCEPT ![i] = to] /\ worker[i] = from /\ deps' = deps
  BY DEF Goto
<1>3. dispatcher \notin {"plan", "refused"}
  BY <1>2 DEF RunnerIInv, Unplanned
<1>4. i \notin pending
  BY <1>2, <1>3 DEF RunnerIInv, Waits, Started, WasSkipped
<1>5. \A j \in Ingestors : Upstream(j)' = Upstream(j)
  BY <1>2 DEF Upstream, Closed
<1> QED
  BY <1>1, <1>2, <1>3, <1>4, <1>5

\* A goroutine that got its slot is one more that holds one.
LEMMA AcquireKeepsIInv == \A i \in Ingestors : RunnerIInv /\ Acquire(i) => RunnerIInv'
<1> SUFFICES ASSUME NEW i \in Ingestors, RunnerIInv, Acquire(i) PROVE RunnerIInv'
  OBVIOUS
<1>1. /\ Cardinality(Holding) < Slots
      /\ Goto(i, "started", "running")
      /\ ran' = ran \cup {i}
      /\ UNCHANGED <<deps, hung, plan, pending, dispatcher, done>>
      /\ worker[i] = "started"
  BY DEF Acquire, Goto
<1>2. /\ worker'[i] = "running"
      /\ \A j \in Ingestors \ {i} : worker'[j] = worker[j]
      /\ dispatcher \notin {"plan", "refused"}
      /\ i \notin pending
      /\ worker' \in [Ingestors ->
           {"none", "started", "running", "recorded", "broadcast", "exited"}]
      /\ \A j \in Ingestors : Upstream(j)' = Upstream(j)
  BY <1>1, StepMoves
<1>3. Cardinality(Holding') <= Slots
  <2>1. Holding' = Holding \cup {i} /\ i \notin Holding
    BY <1>1, <1>2 DEF Holding
  <2>2. Holding \in SUBSET Ingestors
    BY DEF Holding
  <2>3. IsFiniteSet(Holding) /\ Cardinality(Holding) \in Nat /\ Slots \in Nat
    BY <2>2, Counts
  <2>4. Cardinality(Holding \cup {i}) = Cardinality(Holding) + 1
    BY <2>1, <2>3, FS_AddElement
  <2> QED
    BY <1>1, <2>1, <2>3, <2>4
<1>4. RunnerTypeOK'
  BY <1>1, <1>2, <1>3 DEF RunnerIInv, RunnerTypeOK
<1>5. i \notin DOMAIN done
  BY <1>1 DEF RunnerIInv, Progress
<1>6. Succeeded' = Succeeded
  BY <1>1, <1>5 DEF Succeeded
<1>7. \A j \in Ingestors : Progress(j)'
  <2> SUFFICES ASSUME NEW j \in Ingestors PROVE Progress(j)'
    OBVIOUS
  <2>1. Progress(j)
    BY DEF RunnerIInv
  <2> QED
    BY <1>1, <1>2, <1>6, <2>1 DEF Progress
<1>8. \A j \in Ingestors : (Waits(j) \/ Started(j) \/ WasSkipped(j))'
  <2> SUFFICES ASSUME NEW j \in Ingestors PROVE (Waits(j) \/ Started(j) \/ WasSkipped(j))'
    OBVIOUS
  <2>1. Doomed(j) => Doomed(j)'
    BY <1>1, <1>2 DEF Doomed
  <2>2. Waits(j) \/ Started(j) \/ WasSkipped(j)
    BY <1>2 DEF RunnerIInv
  <2> QED
    BY <1>1, <1>2, <2>1, <2>2 DEF Waits, Started, WasSkipped
<1>9. Waited'
  BY <1>1, <1>2 DEF RunnerIInv, Waited
<1> QED
  BY <1>1, <1>2, <1>4, <1>7, <1>8, <1>9 DEF RunnerIInv

\* A recorded status is new, so no status of another is touched.
LEMMA RecordKeepsIInv == \A i \in Ingestors : RunnerIInv /\ Record(i) => RunnerIInv'
<1> SUFFICES ASSUME NEW i \in Ingestors, RunnerIInv, Record(i) PROVE RunnerIInv'
  OBVIOUS
<1>1. /\ Goto(i, "running", "recorded")
      /\ UNCHANGED <<deps, hung, plan, pending, dispatcher, ran>>
      /\ worker[i] = "running"
  BY DEF Record, Goto
<1>2. PICK status \in Statuses : done' = Put(done, i, status)
  BY DEF Record
<1>3. /\ worker'[i] = "recorded"
      /\ \A j \in Ingestors \ {i} : worker'[j] = worker[j]
      /\ dispatcher \notin {"plan", "refused"}
      /\ i \notin pending
      /\ worker' \in [Ingestors ->
           {"none", "started", "running", "recorded", "broadcast", "exited"}]
      /\ \A j \in Ingestors : Upstream(j)' = Upstream(j)
  BY <1>1, StepMoves
<1>4. i \notin DOMAIN done
  BY <1>1 DEF RunnerIInv, Progress
<1>5. /\ DOMAIN done' = DOMAIN done \cup {i}
      /\ done'[i] = status
      /\ \A j \in DOMAIN done : done'[j] = done[j]
  BY <1>2, <1>4 DEF Put
<1>6. Cardinality(Holding') <= Slots
  <2>1. Holding' \subseteq Holding
    BY <1>1, <1>3 DEF Holding
  <2> QED
    BY <2>1, FewerHold DEF RunnerIInv, RunnerTypeOK
<1>7. RunnerTypeOK'
  BY <1>1, <1>3, <1>5, <1>6 DEF RunnerIInv, RunnerTypeOK
<1>8. Succeeded \subseteq Succeeded'
  BY <1>1, <1>5 DEF Succeeded
<1>9. \A j \in Ingestors : Progress(j)'
  <2> SUFFICES ASSUME NEW j \in Ingestors PROVE Progress(j)'
    OBVIOUS
  <2>1. Progress(j)
    BY DEF RunnerIInv
  <2> QED
    BY <1>1, <1>3, <1>5, <1>8, <2>1 DEF Progress
<1>10. \A j \in Ingestors : (Waits(j) \/ Started(j) \/ WasSkipped(j))'
  <2> SUFFICES ASSUME NEW j \in Ingestors PROVE (Waits(j) \/ Started(j) \/ WasSkipped(j))'
    OBVIOUS
  <2>1. Doomed(j) => Doomed(j)'
    BY <1>1, <1>3, <1>5 DEF Doomed
  <2>2. Waits(j) \/ Started(j) \/ WasSkipped(j)
    BY <1>3 DEF RunnerIInv
  <2> QED
    BY <1>1, <1>3, <1>5, <2>1, <2>2 DEF Waits, Started, WasSkipped
<1>11. Waited'
  BY <1>1, <1>3 DEF RunnerIInv, Waited
<1> QED
  BY <1>1, <1>3, <1>7, <1>9, <1>10, <1>11 DEF RunnerIInv

\* Neither the broadcast nor the deferred calls touch what others decide by.
LEMMA EndKeepsIInv ==
    \A i \in Ingestors : RunnerIInv /\ (Broadcast(i) \/ Release(i)) => RunnerIInv'
<1> SUFFICES ASSUME NEW i \in Ingestors, RunnerIInv, Broadcast(i) \/ Release(i) PROVE RunnerIInv'
  OBVIOUS
<1>1. PICK from \in {"recorded", "broadcast"}, to \in {"broadcast", "exited"} :
        Goto(i, from, to) /\ (from = "broadcast" => to = "exited")
  BY DEF Broadcast, Release
<1>2. /\ UNCHANGED <<deps, hung, plan, pending, done, ran>>
      /\ worker[i] = from
      /\ dispatcher' = dispatcher \/ (dispatcher = "wait" /\ dispatcher' = "scan")
  BY <1>1 DEF Broadcast, Release, Goto, Wake
<1>3. /\ worker'[i] = to
      /\ \A j \in Ingestors \ {i} : worker'[j] = worker[j]
      /\ dispatcher \notin {"plan", "refused"}
      /\ i \notin pending
      /\ worker' \in [Ingestors ->
           {"none", "started", "running", "recorded", "broadcast", "exited"}]
      /\ \A j \in Ingestors : Upstream(j)' = Upstream(j)
  BY <1>1, StepMoves
<1>4. Cardinality(Holding') <= Slots
  <2>1. Holding' \subseteq Holding
    BY <1>1, <1>2, <1>3 DEF Holding
  <2> QED
    BY <2>1, FewerHold DEF RunnerIInv, RunnerTypeOK
<1>5. RunnerTypeOK'
  BY <1>2, <1>3, <1>4 DEF RunnerIInv, RunnerTypeOK
<1>6. Succeeded' = Succeeded
  BY <1>2 DEF Succeeded
<1>7. \A j \in Ingestors : Progress(j)'
  <2> SUFFICES ASSUME NEW j \in Ingestors PROVE Progress(j)'
    OBVIOUS
  <2>1. Progress(j)
    BY DEF RunnerIInv
  <2> QED
    BY <1>1, <1>2, <1>3, <1>6, <2>1 DEF Progress
<1>8. \A j \in Ingestors : (Waits(j) \/ Started(j) \/ WasSkipped(j))'
  <2> SUFFICES ASSUME NEW j \in Ingestors PROVE (Waits(j) \/ Started(j) \/ WasSkipped(j))'
    OBVIOUS
  <2>1. Doomed(j) => Doomed(j)'
    BY <1>2, <1>3 DEF Doomed
  <2>2. Waits(j) \/ Started(j) \/ WasSkipped(j)
    BY <1>3 DEF RunnerIInv
  <2> QED
    BY <1>1, <1>2, <1>3, <2>1, <2>2 DEF Waits, Started, WasSkipped
<1>9. Waited'
  BY <1>1, <1>2, <1>3 DEF RunnerIInv, Waited
<1> QED
  BY <1>2, <1>3, <1>5, <1>7, <1>8, <1>9 DEF RunnerIInv

LEMMA StutterKeepsIInv == RunnerIInv /\ UNCHANGED runnerVars => RunnerIInv'
<1> SUFFICES ASSUME RunnerIInv, UNCHANGED runnerVars PROVE RunnerIInv'
  OBVIOUS
<1>1. UNCHANGED <<deps, hung, dispatcher, plan, pending, done, ran, worker>>
  BY DEF runnerVars
<1>2. RunnerTypeOK'
  BY <1>1 DEF RunnerIInv, RunnerTypeOK, Holding
<1>3. \A i \in Ingestors : Progress(i)'
  BY <1>1 DEF RunnerIInv, Progress, Succeeded
<1>4. \A i \in Ingestors : Doomed(i)' = Doomed(i)
  BY <1>1 DEF Doomed, Upstream, Closed
<1>5. Unplanned' = Unplanned /\ Waited'
  BY <1>1 DEF Unplanned, Waited, RunnerIInv
<1>6. \A i \in Ingestors : Waits(i) \/ Started(i) \/ WasSkipped(i)
                           => (Waits(i) \/ Started(i) \/ WasSkipped(i))'
  BY <1>1, <1>4 DEF Waits, Started, WasSkipped
<1> QED
  BY <1>1, <1>2, <1>3, <1>5, <1>6 DEF RunnerIInv

\* Every state of a run satisfies the inductive invariant.
THEOREM RunnerInductiveInvariant == RunnerSpec => []RunnerIInv
<1>1. RunnerIInv /\ [RunnerNext]_runnerVars => RunnerIInv'
  BY PlanKeepsIInv, ScanKeepsIInv, JoinKeepsIInv, AcquireKeepsIInv,
     RecordKeepsIInv, EndKeepsIInv, StutterKeepsIInv DEF RunnerNext, Step
<1> QED
  BY RunnerInitIInv, <1>1, PTL DEF RunnerSpec

-----------------------------------------------------------------------------
(* What follows. *)

\* Every variable has its type, and no more goroutines hold a slot of the
\* semaphore than it has.
THEOREM RunnerTypeCorrect == RunnerSpec => []RunnerTypeOK
<1>1. RunnerIInv => RunnerTypeOK
  BY DEF RunnerIInv
<1> QED
  BY <1>1, RunnerInductiveInvariant, PTL

\* RunAll starts an ingestor only after everything upstream of it, however
\* far, has run and has not failed: those that have are a closed set, and it
\* has the dependencies of everyone started.
THEOREM DependenciesFirstHolds == RunnerSpec => []DependenciesFirst
<1>1. RunnerIInv => DependenciesFirst
  <2> SUFFICES ASSUME RunnerIInv, NEW i \in ran
               PROVE  Upstream(i) \subseteq Succeeded
    BY DEF DependenciesFirst, Succeeded
  <2>1. \A j \in ran : deps[j] \subseteq Succeeded
    BY DEF RunnerIInv, RunnerTypeOK, Progress
  <2>2. Closed(Succeeded)
    BY <2>1 DEF Closed, Succeeded
  <2>3. i \in Ingestors /\ Succeeded \in SUBSET (Ingestors \cup {Unknown})
    BY DEF RunnerIInv, RunnerTypeOK, Succeeded
  <2> QED
    BY <2>1, <2>2, <2>3, UpstreamIsLeast
<1> QED
  BY <1>1, RunnerInductiveInvariant, PTL

\* When RunAll returns, each ingestor has a status, and one that did not run
\* has a failure upstream of it.
THEOREM FailureContainedHolds == RunnerSpec => []FailureContained
<1>1. RunnerIInv => FailureContained
  <2> SUFFICES ASSUME RunnerIInv, dispatcher = "returned"
               PROVE  /\ DOMAIN done = Ingestors
                      /\ \A i \in Ingestors \ ran :
                            \E j \in Upstream(i) \cap ran : done[j] = Failed
    BY DEF FailureContained
  <2>1. \A i \in Ingestors : \/ WasSkipped(i)
                             \/ worker[i] = "exited" /\ i \in DOMAIN done /\ i \in ran
    BY DEF RunnerIInv, Waited, Waits, Started, Progress
  <2> QED
    BY <2>1 DEF WasSkipped, Doomed, RunnerIInv, RunnerTypeOK
<1> QED
  BY <1>1, RunnerInductiveInvariant, PTL

-----------------------------------------------------------------------------
(* One source. *)

\* Every file of commit n was accepted by the sink or is known to be hidden.
Covered(n) == \A f \in Present(n) : <<f, Content(n, f)>> \in published \cup hidden

\* The positions that a run may write to the checkpoint or the ledger, or
\* compare with, are covered; a batch holds what its commit has beyond that.
RunCovered(r) ==
    /\ Covered(run[r].base)
    /\ Covered(run[r].after)
    /\ At(r, "save") => Covered(run[r].head)
    /\ At(r, "publish") =>
          \A f \in Present(run[r].head) \ run[r].files :
              <<f, Content(run[r].head, f)>> \in published \cup hidden

\* A run that has overlapped no other is alone, and its batch is not older
\* than the checkpoint.
Alone(r) ==
    r \in InFlight /\ ~run[r].overlapped =>
        /\ InFlight = {r}
        /\ run[r].at \in {"list", "publish", "save"} => run[r].head >= ckpt

\* A run that is to save its position was the last one to publish, or a run
\* beside it has published since.
SavesPublished(r) == At(r, "save") => sink.head = run[r].head \/ sink.overlapped

\* Neither property is inductive: what is passed next is what a run in flight
\* has in hand.
IInv ==
    /\ TypeOK
    /\ NothingSkipped
    /\ \A r \in Runs : RunCovered(r)
    /\ SinkNotBehind
    /\ \A r \in Runs : Alone(r) /\ SavesPublished(r)

-----------------------------------------------------------------------------
\* Nothing is asked of the empty checkpoint.
LEMMA NothingAtZero == Covered(0)
BY DEF Covered, Present, Content

\* More commits, more published and more hidden files leave a commit covered.
LEMMA StaysCovered ==
    ASSUME TypeOK, NEW n \in 0 .. HEAD, Covered(n),
           history' = history \/ (\E t \in Tree : history' = Append(history, t)),
           published \subseteq published', hidden \subseteq hidden'
    PROVE  Covered(n)'
<1>1. n # 0 => n \in DOMAIN history /\ history'[n] = history[n]
  BY DEF TypeOK, HEAD
<1>2. \A f \in Files : Content(n, f)' = Content(n, f)
  BY <1>1 DEF Content
<1>3. Present(n)' = Present(n)
  BY <1>2 DEF Present
<1> QED BY <1>2, <1>3 DEF Covered, Present

-----------------------------------------------------------------------------
(* One step of one run.                                                    *)

\* The run r goes on as s; nobody else does anything.
Goes(r, s) == run' = [run EXCEPT ![r] = s] /\ UNCHANGED history

\* What becomes of a run that appends its ledger entry next.
Finished(r, status, after) ==
    [at |-> "append", base |-> 0, head |-> 0, files |-> {}, after |-> after,
     status |-> status, overlapped |-> run[r].overlapped]

LEMMA FinishGoes ==
    ASSUME TypeOK, NEW r \in Runs, NEW status \in Status, NEW after \in 0 .. HEAD,
           Finish(r, status, after), UNCHANGED history
    PROVE  /\ Finished(r, status, after) \in RunState
           /\ Goes(r, Finished(r, status, after))
<1>1. run[r] \in RunState
  BY DEF TypeOK
<1>2. Finished(r, status, after) \in RunState
  BY <1>1 DEF RunState, Finished, HEAD
<1>3. run' = [run EXCEPT ![r] = Finished(r, status, after)]
  BY DEF Finish, Finished
<1> QED BY <1>2, <1>3 DEF Goes

LEMMA GoesKeepsType ==
    ASSUME TypeOK, NEW r \in Runs, NEW s \in RunState, Goes(r, s),
           s.at \in {"list", "publish", "save"} => s.head > 0,
           ckpt' \in 0 .. HEAD, late' \in 0 .. HEAD,
           sink' \in [head : 0 .. HEAD, overlapped : BOOLEAN],
           ledger' \in [status : Status, after : 0 .. HEAD]
    PROVE  TypeOK'
BY DEF TypeOK, Goes, RunState, HEAD

\* What is covered stays so, and the run that goes on has nothing uncovered.
LEMMA GoesKeepsCover ==
    ASSUME IInv, NEW r \in Runs, NEW s \in RunState, Goes(r, s),
           published \subseteq published', hidden \subseteq hidden',
           Covered(s.base)', Covered(s.after)',
           s.at = "save" => Covered(s.head)',
           s.at = "publish" =>
               \A f \in Present(s.head) \ s.files :
                   <<f, Content(s.head, f)>> \in published' \cup hidden',
           Covered(ckpt)', Covered(ledger.after)'
    PROVE  NothingSkipped' /\ \A x \in Runs : RunCovered(x)'
<1>1. NothingSkipped'
  BY DEF NothingSkipped, Passed, Covered
<1>2. \A n \in 0 .. HEAD : Covered(n) => Covered(n)'
  BY StaysCovered DEF IInv, Goes
<1>3. \A n, f : Content(n, f)' = Content(n, f)
  BY DEF Goes, Content
<1>4. \A n : Present(n)' = Present(n)
  BY <1>3 DEF Present
<1>5. ASSUME NEW x \in Runs, x # r PROVE RunCovered(x)'
  <2>1. run'[x] = run[x] /\ run[x] \in RunState
    BY <1>5 DEF Goes, IInv, TypeOK
  <2>2. run[x].base \in 0 .. HEAD /\ run[x].after \in 0 .. HEAD /\ run[x].head \in 0 .. HEAD
    BY <2>1 DEF RunState
  <2>3. RunCovered(x)
    BY DEF IInv
  <2> QED BY <1>2, <1>3, <1>4, <2>1, <2>2, <2>3 DEF RunCovered, At
<1>6. run'[r] = s
  BY DEF Goes, IInv, TypeOK
<1>7. RunCovered(r)'
  BY <1>3, <1>4, <1>6 DEF RunCovered, At
<1> QED BY <1>1, <1>5, <1>7

\* A run in flight that goes on is as alone as it was.
LEMMA GoesKeepsOrder ==
    ASSUME IInv, NEW r \in InFlight, NEW s \in RunState, Goes(r, s),
           s.overlapped = run[r].overlapped, s.at # "idle",
           s.at \in {"list", "publish", "save"} /\ ~s.overlapped => s.head >= ckpt,
           s.at = "save" => sink'.head = s.head \/ sink'.overlapped,
           sink' = sink \/ sink' = [head |-> run[r].head, overlapped |-> run[r].overlapped],
           UNCHANGED ckpt,
           SinkNotBehind'
    PROVE  \A x \in Runs : (Alone(x) /\ SavesPublished(x))'
<1> USE DEF IInv
<1>1. r \in Runs /\ run'[r] = s /\ \A x \in Runs \ {r} : run'[x] = run[x]
  BY DEF Goes, TypeOK, InFlight
<1>2. InFlight' = InFlight
  BY <1>1 DEF InFlight
<1>3. Alone(r)'
  BY <1>1, <1>2 DEF Alone
<1>4. SavesPublished(r)'
  BY <1>1 DEF SavesPublished, At
<1>5. ASSUME NEW x \in Runs \ {r} PROVE (Alone(x) /\ SavesPublished(x))'
  <2>1. Alone(x)'
    BY <1>1, <1>2, <1>5 DEF Alone
  <2>2. At(x, "save") => x \in InFlight /\ run[r].overlapped
    BY <1>1, <1>5 DEF InFlight, At, Alone, TypeOK, RunState
  <2>3. SavesPublished(x)'
    BY <1>1, <1>5, <2>2 DEF SavesPublished, At
  <2> QED BY <2>1, <2>3
<1> QED BY <1>3, <1>4, <1>5

-----------------------------------------------------------------------------
(* The inductive invariant, action by action. *)

LEMMA InitIInv == Init => IInv
<1> SUFFICES ASSUME Init PROVE IInv
  OBVIOUS
<1>1. PICK t \in Tree : history = <<t>>
  BY DEF Init
<1>2. HEAD = 1
  BY <1>1 DEF HEAD
<1>3. Idle \in RunState
  BY <1>2 DEF Idle, RunState, Status
<1>4. TypeOK
  BY <1>1, <1>2, <1>3 DEF Init, TypeOK, Status, Idle
<1>5. NothingSkipped /\ \A r \in Runs : RunCovered(r)
  BY NothingAtZero DEF Init, NothingSkipped, Passed, RunCovered, Covered, At, Idle
<1>6. SinkNotBehind /\ \A r \in Runs : Alone(r) /\ SavesPublished(r)
  BY DEF Init, SinkNotBehind, Alone, SavesPublished, InFlight, At, Idle
<1> QED BY <1>4, <1>5, <1>6 DEF IInv

\* A push only adds a commit: what is covered stays covered.
LEMMA PushKeepsIInv == ASSUME IInv, Push PROVE IInv'
<1> USE DEF IInv
<1>1. PICK t \in Tree : history' = Append(history, t)
  BY DEF Push
<1>2. HEAD' = HEAD + 1 /\ HEAD \in Nat
  BY <1>1 DEF HEAD, TypeOK
<1>3. \A n \in 0 .. HEAD : n \in 0 .. HEAD'
  BY <1>2
<1>4. RunState \subseteq RunState'
  BY <1>3 DEF RunState
<1>5. TypeOK'
  BY <1>1, <1>3, <1>4 DEF Push, TypeOK
<1>6. \A n \in 0 .. HEAD : Covered(n) => Covered(n)'
  BY <1>1, StaysCovered DEF Push
<1>7. NothingSkipped'
  BY <1>6 DEF Push, NothingSkipped, Passed, TypeOK, Covered
<1>8. ASSUME NEW r \in Runs PROVE RunCovered(r)'
  <2>1. run[r].base \in 0 .. HEAD /\ run[r].after \in 0 .. HEAD /\ run[r].head \in 0 .. HEAD
    BY DEF TypeOK, RunState
  <2>2. run' = run /\ published' = published /\ hidden' = hidden
    BY DEF Push
  <2>3. \A f \in Files : Content(run[r].head, f)' = Content(run[r].head, f)
    BY <1>1, <2>1, <2>2 DEF Content, HEAD, TypeOK
  <2>4. Present(run[r].head)' = Present(run[r].head)
    BY <2>2, <2>3 DEF Present
  <2>5. Covered(run[r].base)' /\ Covered(run[r].after)' /\ (At(r, "save") => Covered(run[r].head)')
    BY <1>6, <2>1, <2>2 DEF RunCovered
  <2> QED BY <2>2, <2>3, <2>4, <2>5 DEF RunCovered, At, Present
<1>9. SinkNotBehind' /\ \A r \in Runs : (Alone(r) /\ SavesPublished(r))'
  BY DEF Push, SinkNotBehind, Alone, SavesPublished, InFlight, At
<1> QED BY <1>5, <1>7, <1>8, <1>9

\* A run begins with empty hands, and every run in flight has an overlap from
\* then on.
LEMMA BeginKeepsIInv == ASSUME IInv, NEW r \in Runs, Begin(r) PROVE IInv'
<1> USE DEF IInv
<1> DEFINE new == [Idle EXCEPT !.at = "load", !.overlapped = InFlight # {}]
<1>1. /\ new \in RunState /\ new.at = "load" /\ new.base = 0 /\ new.after = 0
      /\ new.overlapped = (InFlight # {})
  <2>1. PICK b \in BOOLEAN : b = (InFlight # {})
    OBVIOUS
  <2>2. new = [Idle EXCEPT !.at = "load", !.overlapped = b]
    BY <2>1
  <2>3. 0 \in 0 .. HEAD
    BY DEF HEAD, TypeOK
  <2>4. Idle \in RunState /\ Idle.base = 0 /\ Idle.after = 0
    BY <2>3 DEF Idle, RunState, Status
  <2> HIDE DEF new
  <2>5. /\ new \in RunState /\ new.at = "load" /\ new.base = Idle.base
        /\ new.after = Idle.after /\ new.overlapped = b
    BY <2>1, <2>2, <2>4 DEF RunState
  <2> QED BY <2>1, <2>4, <2>5
<1>2. run'[r] = new
  BY DEF Begin
<1>3. ASSUME NEW x \in Runs \ {r}
      PROVE  /\ run'[x] \in RunState
             /\ run'[x].at = run[x].at /\ run'[x].base = run[x].base
             /\ run'[x].after = run[x].after /\ run'[x].head = run[x].head
             /\ run'[x].files = run[x].files
             /\ x \in InFlight => run'[x].overlapped
  <2>1. run'[x] = IF x \in InFlight THEN [run[x] EXCEPT !.overlapped = TRUE] ELSE run[x]
    BY DEF Begin
  <2>2. run[x] \in RunState
    BY DEF TypeOK
  <2> QED BY <2>1, <2>2 DEF RunState
<1>4. UNCHANGED <<history, ckpt, sink, ledger, published, hidden, late>>
  BY DEF Begin
<1> HIDE DEF new
<1>5. TypeOK'
  <2>1. \A x \in Runs : run'[x] \in RunState
    BY <1>1, <1>2, <1>3
  <2>2. DOMAIN run' = Runs
    BY DEF Begin
  <2>3. run' \in [Runs -> RunState]
    BY <2>1, <2>2 DEF Begin
  <2>4. RunState' = RunState
    BY <1>4 DEF RunState, HEAD
  <2> QED BY <1>1, <1>2, <1>3, <1>4, <2>3, <2>4 DEF TypeOK, HEAD
<1>6. \A n, f : Content(n, f)' = Content(n, f)
  BY <1>4 DEF Content
<1>7. \A n : Present(n)' = Present(n)
  BY <1>6 DEF Present
<1>8. \A n : Covered(n)' = Covered(n)
  BY <1>4, <1>6, <1>7 DEF Covered
<1>9. NothingSkipped'
  BY <1>4, <1>8 DEF NothingSkipped, Passed, Covered
<1>10. RunCovered(r)'
  BY <1>1, <1>2, <1>8, NothingAtZero DEF RunCovered, At
<1>11. \A x \in Runs \ {r} : RunCovered(x)'
  BY <1>3, <1>4, <1>6, <1>7, <1>8 DEF RunCovered, At
<1>12. SinkNotBehind'
  BY <1>4 DEF SinkNotBehind
<1>13. InFlight' = InFlight \cup {r} /\ r \notin InFlight
  <2>1. \A x \in Runs \ {r} : run'[x].at = run[x].at
    BY <1>3
  <2>2. run'[r].at # "idle"
    BY <1>1, <1>2
  <2>3. r \notin InFlight
    BY DEF Begin
  <2> QED BY <2>1, <2>2, <2>3 DEF InFlight
<1>14. \A x \in Runs : SavesPublished(x)'
  BY <1>1, <1>2, <1>3, <1>4 DEF SavesPublished, At
<1>15. ASSUME NEW x \in InFlight', ~run'[x].overlapped PROVE x = r /\ InFlight = {}
  <2>1. x \in InFlight => x = r
    BY <1>3, <1>15 DEF InFlight
  <2>2. x = r
    BY <1>13, <1>15, <2>1
  <2> QED BY <1>1, <1>2, <1>15, <2>2
<1>16. \A x \in Runs : Alone(x)'
  BY <1>1, <1>2, <1>13, <1>15 DEF Alone
<1> QED BY <1>5, <1>9, <1>10, <1>11, <1>12, <1>14, <1>16

\* The base is the checkpoint, which is covered.
LEMMA LoadKeepsIInv == ASSUME IInv, NEW r \in Runs, Load(r) PROVE IInv'
<1> USE DEF IInv
<1>1. PICK s : s = [run[r] EXCEPT !.at = "rev-parse", !.base = ckpt]
  OBVIOUS
<1>2. /\ s \in RunState /\ s.at = "rev-parse" /\ s.base = ckpt /\ s.after = run[r].after
      /\ s.overlapped = run[r].overlapped
  BY <1>1 DEF TypeOK, RunState
<1>3. Goes(r, s) /\ r \in InFlight
  BY <1>1 DEF Load, Goes, At, InFlight
<1>4. TypeOK'
  BY <1>2, <1>3, GoesKeepsType DEF Load, TypeOK
<1>5. \A n : Covered(n)' = Covered(n)
  BY DEF Load, Covered, Present, Content
<1>6. Covered(ckpt) /\ Covered(ledger.after) /\ Covered(run[r].after)
  BY DEF NothingSkipped, Passed, Covered, RunCovered
<1>7. Covered(s.base)' /\ Covered(s.after)' /\ Covered(ckpt)' /\ Covered(ledger.after)'
  BY <1>2, <1>5, <1>6 DEF Load
<1>8. NothingSkipped' /\ \A x \in Runs : RunCovered(x)'
  BY <1>2, <1>3, <1>7, GoesKeepsCover DEF Load
<1>9. SinkNotBehind'
  BY DEF Load, SinkNotBehind
<1>10. \A x \in Runs : (Alone(x) /\ SavesPublished(x))'
  BY <1>2, <1>3, <1>9, GoesKeepsOrder DEF Load
<1> QED BY <1>4, <1>8, <1>9, <1>10

\* The label is HEAD, which no position is beyond.
LEMMA RevParseKeepsIInv == ASSUME IInv, NEW r \in Runs, RevParse(r) PROVE IInv'
<1> USE DEF IInv
<1>1. PICK s : s = [run[r] EXCEPT !.at = "list", !.head = HEAD]
  OBVIOUS
<1>2. HEAD \in Nat \ {0} /\ ckpt \in 0 .. HEAD
  BY DEF TypeOK, HEAD
<1>3. /\ s \in RunState /\ s.at = "list" /\ s.base = run[r].base /\ s.after = run[r].after
      /\ s.head = HEAD /\ s.overlapped = run[r].overlapped
  <2>1. run[r] \in RunState /\ HEAD \in 0 .. HEAD
    BY <1>2 DEF TypeOK
  <2> QED BY <1>1, <2>1 DEF RunState
<1>4. Goes(r, s) /\ r \in InFlight
  BY <1>1 DEF RevParse, Goes, At, InFlight
<1>5. TypeOK'
  BY <1>2, <1>3, <1>4, GoesKeepsType DEF RevParse, TypeOK
<1>6. \A n : Covered(n)' = Covered(n)
  BY DEF RevParse, Covered, Present, Content
<1>7. Covered(ckpt) /\ Covered(ledger.after) /\ Covered(run[r].base) /\ Covered(run[r].after)
  BY DEF NothingSkipped, Passed, Covered, RunCovered
<1>8. Covered(s.base)' /\ Covered(s.after)' /\ Covered(ckpt)' /\ Covered(ledger.after)'
  BY <1>3, <1>6, <1>7 DEF RevParse
<1>9. NothingSkipped' /\ \A x \in Runs : RunCovered(x)'
  BY <1>3, <1>4, <1>8, GoesKeepsCover DEF RevParse
<1>10. SinkNotBehind'
  BY DEF RevParse, SinkNotBehind
<1>11. \A x \in Runs : (Alone(x) /\ SavesPublished(x))'
  BY <1>2, <1>3, <1>4, <1>10, GoesKeepsOrder DEF RevParse
<1> QED BY <1>5, <1>9, <1>10, <1>11

\* A file of the labelled commit is listed, or hidden, or is as it was at the
\* base, which is covered.
LEMMA ListKeepsIInv == ASSUME IInv, NEW r \in Runs, List(r) PROVE IInv'
<1> USE DEF IInv
<1>1. PICK files \in SUBSET Files :
         /\ run' = [run EXCEPT ![r] = [run[r] EXCEPT !.at = "publish", !.files = files]]
         /\ hidden' = hidden \cup {<<f, Content(run[r].head, f)>> :
                                      f \in Changed(run[r].base, run[r].head) \ files}
  BY DEF List, Present, Changed
<1>2. PICK s : s = [run[r] EXCEPT !.at = "publish", !.files = files]
  OBVIOUS
<1>3. /\ s \in RunState /\ s.at = "publish" /\ s.base = run[r].base /\ s.after = run[r].after
      /\ s.head = run[r].head /\ s.files = files /\ s.overlapped = run[r].overlapped
  BY <1>2 DEF TypeOK, RunState
<1>4. UNCHANGED <<history, ckpt, sink, ledger, published, late>> /\ At(r, "list")
  BY DEF List
<1>5. Goes(r, s) /\ r \in InFlight
  BY <1>1, <1>2, <1>4 DEF Goes, At, InFlight
<1>6. TypeOK'
  BY <1>3, <1>4, <1>5, GoesKeepsType DEF TypeOK, At
<1>7. hidden \subseteq hidden'
  BY <1>1
<1>8. \A n \in 0 .. HEAD : Covered(n) => Covered(n)'
  BY <1>4, <1>7, StaysCovered
<1>9. /\ ckpt \in 0 .. HEAD /\ ledger.after \in 0 .. HEAD
      /\ run[r].base \in 0 .. HEAD /\ run[r].after \in 0 .. HEAD
  BY DEF TypeOK, RunState
<1>10. Covered(ckpt) /\ Covered(ledger.after) /\ Covered(run[r].base) /\ Covered(run[r].after)
  BY DEF NothingSkipped, Passed, Covered, RunCovered
<1>11. Covered(s.base)' /\ Covered(s.after)' /\ Covered(ckpt)' /\ Covered(ledger.after)'
  BY <1>3, <1>4, <1>8, <1>9, <1>10
<1>12. ASSUME NEW f \in Present(s.head) \ s.files
       PROVE  <<f, Content(s.head, f)>> \in published' \cup hidden'
  <2>1. CASE Content(s.base, f) = Content(s.head, f)
    BY <1>3, <1>7, <1>10, <1>12, <2>1, <1>4 DEF Covered, Present
  <2>2. CASE Content(s.base, f) # Content(s.head, f)
    BY <1>1, <1>3, <1>12, <2>2 DEF Changed, Present
  <2> QED BY <2>1, <2>2
<1>13. NothingSkipped' /\ \A x \in Runs : RunCovered(x)'
  BY <1>3, <1>4, <1>5, <1>7, <1>11, <1>12, GoesKeepsCover
<1>14. SinkNotBehind'
  BY <1>4 DEF SinkNotBehind
<1>15. s.overlapped \/ s.head >= ckpt
  BY <1>3, <1>4, <1>5 DEF Alone, At
<1>16. \A x \in Runs : (Alone(x) /\ SavesPublished(x))'
  BY <1>3, <1>4, <1>5, <1>14, <1>15, GoesKeepsOrder
<1> QED BY <1>6, <1>13, <1>14, <1>16

\* A run that gives up keeps its base, or nothing, in hand.
LEMMA GivingUpKeepsIInv ==
    ASSUME IInv, NEW r \in Runs, r \in InFlight, NEW status \in Status,
           NEW after \in {0, run[r].base}, Finish(r, status, after),
           late' \in {late, run[r].head},
           UNCHANGED <<history, ckpt, sink, ledger, published, hidden>>
    PROVE  IInv'
<1> USE DEF IInv
<1>1. after \in 0 .. HEAD /\ run[r] \in RunState
  BY DEF TypeOK, RunState, HEAD
<1>2. PICK s : s = Finished(r, status, after)
  OBVIOUS
<1>3. s \in RunState /\ Goes(r, s)
  BY <1>1, <1>2, FinishGoes
<1>4. /\ s.at = "append" /\ s.base = 0 /\ s.after = after
      /\ s.overlapped = run[r].overlapped
  BY <1>2 DEF Finished
<1>5. TypeOK'
  <2>1. run[r].head \in 0 .. HEAD
    BY <1>1 DEF RunState
  <2> QED BY <1>3, <1>4, <2>1, GoesKeepsType DEF TypeOK
<1>6. \A n : Covered(n)' = Covered(n)
  BY DEF Covered, Present, Content
<1>7. Covered(ckpt) /\ Covered(ledger.after) /\ Covered(0) /\ Covered(after)
  BY NothingAtZero DEF NothingSkipped, Passed, Covered, RunCovered
<1>8. Covered(s.base)' /\ Covered(s.after)' /\ Covered(ckpt)' /\ Covered(ledger.after)'
  BY <1>4, <1>6, <1>7
<1>9. NothingSkipped' /\ \A x \in Runs : RunCovered(x)'
  BY <1>3, <1>4, <1>8, GoesKeepsCover
<1>10. SinkNotBehind'
  BY DEF SinkNotBehind
<1>11. \A x \in Runs : (Alone(x) /\ SavesPublished(x))'
  BY <1>3, <1>4, <1>10, GoesKeepsOrder
<1> QED BY <1>5, <1>9, <1>10, <1>11

\* What the sink is told is covered from then on, and it is told of the commit
\* the run is to save.
LEMMA PublishKeepsIInv == ASSUME IInv, NEW r \in Runs, Publish(r) PROVE IInv'
<1> USE DEF IInv
<1>1. PICK s :
         /\ run' = [run EXCEPT ![r] = s]
         /\ \/ s = [run[r] EXCEPT !.at = "save", !.files = {}]
            \/ s = Finished(r, "failed", 0)
  BY DEF Publish, Finish, Finished
<1>2. /\ UNCHANGED <<history, ckpt, ledger, hidden, late>> /\ At(r, "publish")
      /\ sink' = [head |-> run[r].head, overlapped |-> run[r].overlapped]
      /\ published' = published \cup
             {<<f, Content(run[r].head, f)>> : f \in run[r].files}
  BY DEF Publish
<1>3. run[r] \in RunState /\ 0 \in 0 .. HEAD
  BY DEF TypeOK, HEAD
<1>4. /\ s \in RunState /\ s.base \in {run[r].base, 0} /\ s.overlapped = run[r].overlapped
      /\ \/ s.at = "save" /\ s.head = run[r].head /\ s.after = run[r].after
         \/ s.at = "append" /\ s.after = 0
  <2>1. CASE s = [run[r] EXCEPT !.at = "save", !.files = {}]
    BY <1>3, <2>1 DEF RunState
  <2>2. CASE s = Finished(r, "failed", 0)
    BY <1>3, <2>2 DEF RunState, Finished, Status
  <2> QED BY <1>1, <2>1, <2>2
<1>5. Goes(r, s) /\ r \in InFlight
  BY <1>1, <1>2 DEF Goes, At, InFlight
<1>6. sink' \in [head : 0 .. HEAD, overlapped : BOOLEAN]
  <2>1. run[r].head \in 0 .. HEAD /\ run[r].overlapped \in BOOLEAN
    BY <1>3 DEF RunState
  <2>2. PICK h \in 0 .. HEAD, b \in BOOLEAN : h = run[r].head /\ b = run[r].overlapped
    BY <2>1
  <2>3. sink' = [head |-> h, overlapped |-> b]
    BY <1>2, <2>2
  <2> QED BY <2>3
<1>7. TypeOK'
  BY <1>2, <1>4, <1>5, <1>6, GoesKeepsType DEF TypeOK, At
<1>8. published \subseteq published'
  BY <1>2
<1>9. \A n \in 0 .. HEAD : Covered(n) => Covered(n)'
  BY <1>2, <1>8, StaysCovered
<1>10. /\ ckpt \in 0 .. HEAD /\ ledger.after \in 0 .. HEAD
       /\ run[r].base \in 0 .. HEAD /\ run[r].after \in 0 .. HEAD /\ 0 \in 0 .. HEAD
  BY <1>3 DEF TypeOK, RunState
<1>11. Covered(ckpt) /\ Covered(ledger.after) /\ Covered(run[r].base) /\ Covered(run[r].after)
  BY DEF NothingSkipped, Passed, Covered, RunCovered
<1>12. Covered(s.base)' /\ Covered(s.after)' /\ Covered(ckpt)' /\ Covered(ledger.after)'
  BY <1>2, <1>4, <1>9, <1>10, <1>11, NothingAtZero
<1>13. s.at = "save" => Covered(s.head)'
  <2>1. \A f \in Present(run[r].head) :
           <<f, Content(run[r].head, f)>> \in published' \cup hidden'
    BY <1>2 DEF RunCovered
  <2>2. ASSUME s.at = "save" PROVE Covered(s.head)'
    BY <1>2, <1>4, <2>1, <2>2 DEF Covered, Present, Content
  <2> QED BY <2>2
<1>14. NothingSkipped' /\ \A x \in Runs : RunCovered(x)'
  <2>1. s.at # "publish"
    BY <1>4
  <2> QED BY <1>2, <1>4, <1>5, <1>8, <1>12, <1>13, <2>1, GoesKeepsCover
<1>15. s.overlapped \/ run[r].head >= ckpt
  BY <1>2, <1>4, <1>5 DEF Alone, At
<1>16. SinkNotBehind'
  BY <1>2, <1>4, <1>15 DEF SinkNotBehind
<1>17. \A x \in Runs : (Alone(x) /\ SavesPublished(x))'
  BY <1>2, <1>4, <1>5, <1>15, <1>16, GoesKeepsOrder
<1> QED BY <1>7, <1>14, <1>16, <1>17

\* The saved position was published, and so was what the ledger is to say.
LEMMA SaveKeepsIInv == ASSUME IInv, NEW r \in Runs, Save(r) PROVE IInv'
<1> USE DEF IInv
<1>1. /\ UNCHANGED <<history, sink, ledger, published, hidden, late>> /\ At(r, "save")
      /\ Finish(r, "success", run[r].head)
      /\ ckpt' = ckpt \/ ckpt' = run[r].head
  BY DEF Save
<1>2. run[r] \in RunState /\ run[r].head \in 0 .. HEAD /\ ckpt' \in 0 .. HEAD
  BY <1>1 DEF TypeOK, RunState
<1>3. PICK s : s = Finished(r, "success", run[r].head)
  OBVIOUS
<1>4. s \in RunState /\ Goes(r, s)
  BY <1>1, <1>2, <1>3, FinishGoes DEF Status
<1>5. /\ s.at = "append" /\ s.base = 0 /\ s.after = run[r].head
      /\ s.overlapped = run[r].overlapped
  BY <1>3 DEF Finished
<1>6. TypeOK'
  BY <1>1, <1>2, <1>4, <1>5, GoesKeepsType DEF TypeOK
<1>7. \A n : Covered(n)' <=> (\A f \in Present(n) : <<f, Content(n, f)>> \in published \cup hidden)
  BY <1>1 DEF Covered, Present, Content
<1>8. Covered(ckpt) /\ Covered(ledger.after) /\ Covered(0) /\ Covered(run[r].head)
  BY <1>1, NothingAtZero DEF NothingSkipped, Passed, Covered, RunCovered
<1>9. Covered(s.base)' /\ Covered(s.after)' /\ Covered(ckpt)' /\ Covered(ledger.after)'
  BY <1>1, <1>5, <1>7, <1>8 DEF Covered
<1>10. NothingSkipped' /\ \A x \in Runs : RunCovered(x)'
  BY <1>1, <1>4, <1>5, <1>9, GoesKeepsCover
<1>11. run[r].overlapped => sink.overlapped \/ sink.head = run[r].head
  BY <1>1 DEF SavesPublished
<1>12. SinkNotBehind'
  BY <1>1, <1>2, <1>11 DEF SinkNotBehind, SavesPublished, TypeOK
<1>13. run'[r] = s /\ \A x \in Runs \ {r} : run'[x] = run[x]
  BY <1>4 DEF Goes, TypeOK
<1>14. InFlight' = InFlight /\ r \in InFlight
  BY <1>1, <1>5, <1>13 DEF InFlight, At
<1>15. \A x \in Runs : Alone(x)'
  BY <1>5, <1>13, <1>14 DEF Alone
<1>16. \A x \in Runs : SavesPublished(x)'
  BY <1>1, <1>5, <1>13 DEF SavesPublished, At
<1> QED BY <1>6, <1>10, <1>12, <1>15, <1>16

\* The ledger gets a covered position; who is left is as alone as before.
LEMMA AppendEntryKeepsIInv == ASSUME IInv, NEW r \in Runs, AppendEntry(r) PROVE IInv'
<1> USE DEF IInv
<1>1. /\ UNCHANGED <<history, ckpt, sink, published, hidden, late>> /\ At(r, "append")
      /\ run' = [run EXCEPT ![r] = Idle]
      /\ \/ ledger' = [status |-> run[r].status, after |-> run[r].after]
         \/ ledger' = ledger
  BY DEF AppendEntry
<1>2. run[r] \in RunState /\ 0 \in 0 .. HEAD
  BY DEF TypeOK, HEAD
<1>3. PICK s : s = Idle
  OBVIOUS
<1>4. s \in RunState /\ s.at = "idle" /\ s.base = 0 /\ s.after = 0
  BY <1>2, <1>3 DEF Idle, RunState, Status
<1>5. Goes(r, s)
  BY <1>1, <1>3 DEF Goes
<1>6. /\ ledger' \in [status : Status, after : 0 .. HEAD]
      /\ ledger'.after \in {ledger.after, run[r].after}
  <2>1. CASE ledger' = ledger
    BY <2>1 DEF TypeOK
  <2>2. CASE ledger' = [status |-> run[r].status, after |-> run[r].after]
    <3>1. PICK st \in Status, a \in 0 .. HEAD :
             st = run[r].status /\ a = run[r].after
      BY <1>2 DEF RunState
    <3>2. ledger' = [status |-> st, after |-> a]
      BY <2>2, <3>1
    <3>3. ledger' \in [status : Status, after : 0 .. HEAD]
      BY <3>2
    <3>4. ledger'.after = run[r].after
      BY <3>1, <3>2
    <3> QED BY <3>3, <3>4
  <2> QED BY <1>1, <2>1, <2>2
<1>7. TypeOK'
  BY <1>1, <1>4, <1>5, <1>6, GoesKeepsType DEF TypeOK
<1>8. \A n : Covered(n)' <=> (\A f \in Present(n) : <<f, Content(n, f)>> \in published \cup hidden)
  BY <1>1 DEF Covered, Present, Content
<1>9. Covered(ckpt) /\ Covered(ledger.after) /\ Covered(run[r].after) /\ Covered(0)
  BY NothingAtZero DEF NothingSkipped, Passed, Covered, RunCovered
<1>10. Covered(s.base)' /\ Covered(s.after)' /\ Covered(ckpt)' /\ Covered(ledger.after)'
  BY <1>1, <1>4, <1>6, <1>8, <1>9 DEF Covered
<1>11. NothingSkipped' /\ \A x \in Runs : RunCovered(x)'
  BY <1>1, <1>4, <1>5, <1>10, GoesKeepsCover
<1>12. SinkNotBehind'
  BY <1>1 DEF SinkNotBehind
<1>13. run'[r] = s /\ \A x \in Runs \ {r} : run'[x] = run[x]
  BY <1>5 DEF Goes, TypeOK
<1>14. InFlight' = InFlight \ {r} /\ r \in InFlight
  BY <1>1, <1>4, <1>13 DEF InFlight, At
<1>15. \A x \in Runs : (Alone(x) /\ SavesPublished(x))'
  BY <1>1, <1>4, <1>13, <1>14 DEF Alone, SavesPublished, At
<1> QED BY <1>7, <1>11, <1>12, <1>15

\* A crash leaves nobody with anything in hand.
LEMMA CrashKeepsIInv == ASSUME IInv, Crash PROVE IInv'
<1> USE DEF IInv
<1>1. UNCHANGED <<history, ckpt, sink, ledger, published, hidden>>
  BY DEF Crash
<1>2. \A r \in Runs : run'[r] = Idle
  BY DEF Crash
<1>3. Idle \in RunState
  <2>1. 0 \in 0 .. HEAD
    BY DEF TypeOK, HEAD
  <2> QED BY <2>1 DEF Idle, RunState, Status
<1>4. RunState' = RunState
  BY <1>1 DEF RunState, HEAD
<1>5. run' \in [Runs -> RunState']
  BY <1>3, <1>4 DEF Crash
<1>6. TypeOK'
  <2>1. HEAD' = HEAD
    BY <1>1 DEF HEAD
  <2>2. \A r \in Runs : run[r].head \in 0 .. HEAD
    BY DEF TypeOK, RunState
  <2>3. late' \in 0 .. HEAD
    BY <2>2 DEF Crash, TypeOK
  <2> QED BY <1>1, <1>2, <1>5, <2>1, <2>3 DEF TypeOK, Idle
<1>7. \A n : Covered(n)' = Covered(n)
  BY <1>1 DEF Covered, Present, Content
<1>8. NothingSkipped'
  BY <1>1, <1>7 DEF NothingSkipped, Passed, Covered
<1>9. \A r \in Runs : RunCovered(r)'
  BY <1>2, <1>7, NothingAtZero DEF RunCovered, At, Idle
<1>10. SinkNotBehind' /\ \A r \in Runs : (Alone(r) /\ SavesPublished(r))'
  BY <1>1, <1>2 DEF SinkNotBehind, Alone, SavesPublished, InFlight, At, Idle
<1> QED BY <1>6, <1>8, <1>9, <1>10

\* A batch that its run has given up on changes nothing but the graph, which
\* nothing is asked of from then on until the next batch.
LEMMA ArrivesKeepsIInv == ASSUME IInv, Arrives PROVE IInv'
<1> USE DEF IInv
<1>1. /\ UNCHANGED <<history, ckpt, ledger, run, published, hidden>>
      /\ sink' = [head |-> late, overlapped |-> TRUE] /\ late' = 0
  BY DEF Arrives
<1>2. HEAD' = HEAD /\ late \in 0 .. HEAD /\ 0 \in 0 .. HEAD
  BY <1>1 DEF HEAD, TypeOK
<1>3. sink' \in [head : 0 .. HEAD, overlapped : BOOLEAN] /\ sink'.overlapped
  BY <1>1, <1>2
<1>4. RunState' = RunState
  BY <1>2 DEF RunState
<1>5. TypeOK'
  BY <1>1, <1>2, <1>3, <1>4 DEF TypeOK
<1>6. \A n, f : Content(n, f)' = Content(n, f)
  BY <1>1 DEF Content
<1>7. \A n : Present(n)' = Present(n)
  BY <1>6 DEF Present
<1>8. NothingSkipped' /\ \A r \in Runs : RunCovered(r)'
  BY <1>1, <1>6, <1>7 DEF NothingSkipped, Passed, RunCovered, Covered, At
<1>9. SinkNotBehind' /\ \A r \in Runs : (Alone(r) /\ SavesPublished(r))'
  BY <1>1, <1>3 DEF SinkNotBehind, Alone, SavesPublished, InFlight, At
<1> QED BY <1>5, <1>8, <1>9

LEMMA NextKeepsIInv == IInv /\ [Next]_vars => IInv'
<1> SUFFICES ASSUME IInv, [Next]_vars PROVE IInv'
  OBVIOUS
<1>1. CASE Push
  BY <1>1, PushKeepsIInv
<1>2. CASE Crash
  BY <1>2, CrashKeepsIInv
<1>3. CASE Arrives
  BY <1>3, ArrivesKeepsIInv
<1>4. CASE UNCHANGED vars
  BY <1>4 DEF vars, IInv, TypeOK, RunState, HEAD, NothingSkipped, Passed, Present, Content,
     RunCovered, Covered, At, SinkNotBehind, Alone, InFlight, SavesPublished
<1>5. ASSUME NEW r \in Runs,
             \/ Begin(r) \/ Load(r) \/ RevParse(r) \/ List(r) \/ FetchFails(r)
             \/ Publish(r) \/ PublishFails(r) \/ Save(r) \/ SaveFails(r) \/ AppendEntry(r)
      PROVE  IInv'
  <2>1. CASE FetchFails(r)
    BY <2>1, GivingUpKeepsIInv DEF FetchFails, InFlight, Status
  <2>2. CASE PublishFails(r)
    BY <2>2, GivingUpKeepsIInv DEF PublishFails, InFlight, At, Status
  <2>3. CASE SaveFails(r)
    BY <2>3, GivingUpKeepsIInv DEF SaveFails, InFlight, At, Status
  <2> QED BY <1>5, <2>1, <2>2, <2>3, BeginKeepsIInv, LoadKeepsIInv, RevParseKeepsIInv,
             ListKeepsIInv, PublishKeepsIInv, SaveKeepsIInv, AppendEntryKeepsIInv
<1> QED BY <1>1, <1>2, <1>3, <1>4, <1>5 DEF Next

-----------------------------------------------------------------------------
\* The properties, and the positions in hand that they hang on, hold whatever
\* runs overlap, fail or die.
THEOREM InductiveInvariant == Spec => []IInv
BY InitIInv, NextKeepsIInv, PTL DEF Spec

\* The checkpoint, the ledger, the graph's head_sha and what the runs hold are
\* positions of the history.
THEOREM TypeCorrect == Spec => []TypeOK
<1>1. IInv => TypeOK
  BY DEF IInv
<1> QED BY <1>1, InductiveInvariant, PTL

\* Runner.runOne saves a position only after the sink has accepted the batch:
\* no file of a passed commit is missed but by a listing that HEAD overtook.
THEOREM NothingSkippedHolds == Spec => []NothingSkipped
<1>1. IInv => NothingSkipped
  BY DEF IInv
<1> QED BY <1>1, InductiveInvariant, PTL

\* The graph's head_sha is behind the checkpoint only where runs overlapped, or
\* where a batch came after its run had given up on it.
THEOREM SinkNotBehindHolds == Spec => []SinkNotBehind
<1>1. IInv => SinkNotBehind
  BY DEF IInv
<1> QED BY <1>1, InductiveInvariant, PTL

==============================================================================
