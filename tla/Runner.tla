-------------------------------- MODULE Runner --------------------------------
(***************************************************************************)
(* Runner.RunAll: one run of all registered ingestors.  A dispatcher scans *)
(* the plan under a mutex, starts what is ready, skips what is downstream  *)
(* of a failure and waits on a condition variable; a goroutine per started *)
(* ingestor takes a slot of the semaphore, runs runOne (see IngestionRun), *)
(* records its status under the mutex and then broadcasts.                 *)
(***************************************************************************)
EXTENDS Integers, Sequences, FiniteSets, SequencesExt

CONSTANTS
    Ingestors,    \* registered ingestors
    Unknown,      \* a dependency that nobody registered
    Concurrency   \* Runner.Concurrency, 0 for no cap

ASSUME RunnerAssumption ==
    /\ Unknown \notin Ingestors
    /\ IsFiniteSet(Ingestors)
    /\ Concurrency \in Nat

VARIABLES
    deps,         \* each ingestor's Dependencies
    hung,         \* ingestors whose Fetch or Publish never returns in this run
    dispatcher,   \* "plan", "scan", "wait", "join", or how RunAll ended
    plan,         \* the linearization
    pending,      \* not started and not skipped yet
    done,         \* the terminal statuses known under the mutex
    ran,          \* auxiliary: the ingestors whose runOne was called
    worker        \* each ingestor's goroutine

runnerVars == <<deps, hung, dispatcher, plan, pending, done, ran, worker>>

Failed == "failed"
Statuses == {"success", "partial", Failed}

Slots == IF Concurrency = 0 THEN Cardinality(Ingestors) ELSE Concurrency

\* The map d with the status of i in it.
Put(d, i, status) == [j \in DOMAIN d \cup {i} |-> IF j = i THEN status ELSE d[j]]

\* What needs to have run first of an ingestor that depends on those in s.
Closed(s) == \A j \in s \cap Ingestors : deps[j] \subseteq s

\* Everything that topoOrder's visit of i meets: the least such set.
Upstream(i) ==
    {j \in Ingestors \cup {Unknown} :
        \A s \in SUBSET (Ingestors \cup {Unknown}) :
            deps[i] \subseteq s /\ Closed(s) => j \in s}

RunnerInit ==
    /\ deps \in [Ingestors -> SUBSET (Ingestors \cup {Unknown})]
    /\ hung \in SUBSET Ingestors
    /\ dispatcher = "plan"
    /\ plan = << >>
    /\ pending = {}
    /\ done = << >>
    /\ ran = {}
    /\ worker = [i \in Ingestors |-> "none"]

-----------------------------------------------------------------------------
(* The plan. *)

\* What topoOrder refuses: a dependency on itself, however far, or on nobody.
Unplannable == \E i \in Ingestors : i \in Upstream(i) \/ Unknown \in Upstream(i)

\* The order in which topoOrder's visits finish is one of these.
Linearizations ==
    {p \in SetToSeqs(Ingestors) :
        \A m, n \in DOMAIN p : p[m] \in deps[p[n]] => m < n}

\* topoOrder, and the state RunAll sets up.
Plan ==
    /\ dispatcher = "plan"
    /\ \/ /\ Unplannable
          /\ dispatcher' = "refused"
          /\ UNCHANGED <<plan, pending>>
       \/ /\ ~Unplannable
          /\ plan' \in Linearizations
          /\ pending' = Ingestors
          /\ dispatcher' = "scan"
    /\ UNCHANGED <<deps, hung, done, ran, worker>>

-----------------------------------------------------------------------------
(* The dispatcher. *)

\* Broken: a failed dependency is as good as another.
DepsDone(i, d) == deps[i] \subseteq DOMAIN d

DepsSatisfied(i, d) == \A j \in deps[i] : j \in DOMAIN d /\ d[j] # Failed

\* Broken: an ingestor is skipped when another has failed.
AnyFailed(i, d) == \E j \in DOMAIN d : d[j] = Failed

AnyDepFailed(i, d) == \E j \in deps[i] : j \in DOMAIN d /\ d[j] = Failed

\* done after one pass over the plan: what is skipped early in the pass
\* lets it skip what comes later.
Skipped ==
    LET after[n \in 0 .. Len(plan)] ==
            IF n = 0 THEN done
            ELSE LET d == after[n - 1]
                     i == plan[n]
                 IN  IF i \in pending /\ ~DepsSatisfied(i, d) /\ AnyDepFailed(i, d)
                     THEN Put(d, i, Failed) ELSE d
    IN  after[Len(plan)]

\* One pass, the mutex held throughout.
Scan ==
    /\ dispatcher = "scan"
    /\ LET skip == DOMAIN Skipped \ DOMAIN done
           start == {i \in pending \ skip : DepsSatisfied(i, Skipped)}
       IN  /\ done' = Skipped
           /\ pending' = pending \ (skip \cup start)
           /\ worker' = [i \in Ingestors |-> IF i \in start THEN "started" ELSE worker[i]]
           /\ dispatcher' = IF pending' = {} THEN "join"
                            ELSE IF skip \cup start = {} THEN "wait" ELSE "scan"
    /\ UNCHANGED <<deps, hung, plan, ran>>

Wake == IF dispatcher = "wait" THEN "scan" ELSE dispatcher

\* wg.Wait, and the summary: RunAll returns.
Join ==
    /\ dispatcher = "join"
    /\ \A i \in Ingestors : worker[i] \in {"none", "exited"}
    /\ dispatcher' = "returned"
    /\ UNCHANGED <<deps, hung, plan, pending, done, ran, worker>>

-----------------------------------------------------------------------------
(* The goroutine of ingestor i. *)

Goto(i, from, to) ==
    /\ worker[i] = from
    /\ worker' = [worker EXCEPT ![i] = to]
    /\ UNCHANGED <<deps, hung, plan, pending>>

\* Goroutines that hold a slot.
Holding == {i \in Ingestors : worker[i] \in {"running", "recorded", "broadcast"}}

\* Broken: one slot too many.
AcquireOneMore(i) ==
    /\ Cardinality(Holding) <= Slots
    /\ Goto(i, "started", "running")
    /\ ran' = ran \cup {i}
    /\ UNCHANGED <<dispatcher, done>>

Acquire(i) ==
    /\ Cardinality(Holding) < Slots
    /\ Goto(i, "started", "running")
    /\ ran' = ran \cup {i}
    /\ UNCHANGED <<dispatcher, done>>

\* runOne has returned; its status is recorded.
Record(i) ==
    /\ i \notin hung
    /\ Goto(i, "running", "recorded")
    /\ \E status \in Statuses : done' = Put(done, i, status)
    /\ UNCHANGED <<dispatcher, ran>>

\* Broken: nobody is told.
Forget(i) ==
    /\ Goto(i, "recorded", "broadcast")
    /\ UNCHANGED <<dispatcher, done, ran>>

Broadcast(i) ==
    /\ Goto(i, "recorded", "broadcast")
    /\ dispatcher' = Wake
    /\ UNCHANGED <<done, ran>>

\* The deferred calls: the slot is given back, the wait group told.
Release(i) ==
    /\ Goto(i, "broadcast", "exited")
    /\ UNCHANGED <<dispatcher, done, ran>>

-----------------------------------------------------------------------------

Step(i) == Acquire(i) \/ Record(i) \/ Broadcast(i) \/ Release(i)

RunnerNext == Plan \/ Scan \/ Join \/ \E i \in Ingestors : Step(i)

\* Goroutines are scheduled.  A goroutine that waits for a slot needs no
\* more: an ingestor takes a slot once, so slots that are free stay free.
RunnerSpec ==
    /\ RunnerInit /\ [][RunnerNext]_runnerVars
    /\ WF_runnerVars(Plan) /\ WF_runnerVars(Scan) /\ WF_runnerVars(Join)
    /\ \A i \in Ingestors : WF_runnerVars(Step(i))

-----------------------------------------------------------------------------

RunnerTypeOK ==
    /\ deps \in [Ingestors -> SUBSET (Ingestors \cup {Unknown})]
    /\ hung \subseteq Ingestors
    /\ dispatcher \in {"plan", "scan", "wait", "join", "returned", "refused"}
    /\ plan = << >> \/ plan \in SetToSeqs(Ingestors)
    /\ pending \subseteq Ingestors
    /\ DOMAIN done \subseteq Ingestors /\ \A i \in DOMAIN done : done[i] \in Statuses
    /\ ran \subseteq Ingestors
    /\ worker \in [Ingestors ->
          {"none", "started", "running", "recorded", "broadcast", "exited"}]
    /\ Cardinality(Holding) <= Slots

\* An ingestor runs only after everything upstream of it, however far, has
\* run in this run and has not failed.
DependenciesFirst ==
    \A i \in ran : \A j \in Upstream(i) :
        j \in ran /\ j \in DOMAIN done /\ done[j] # Failed

\* When RunAll returns, each ingestor has a status, and one that did not run
\* is downstream of one that did run and failed: a failure takes nothing
\* down but what depends on it.
FailureContained ==
    dispatcher = "returned" =>
        /\ DOMAIN done = Ingestors
        /\ \A i \in Ingestors \ ran : \E j \in Upstream(i) \cap ran : done[j] = Failed

Ended == dispatcher \in {"returned", "refused"}

\* No wakeup of the dispatcher is lost, no dependency is waited for in vain, no
\* slot is kept: RunAll answers when no ingestor hangs, and one that hangs holds
\* its slot and what depends on it, and nothing else.
Termination ==
    /\ hung = {} ~> Ended
    /\ \A i \in Ingestors :
          /\ dispatcher = "scan"
          /\ Cardinality(hung) < Slots
          /\ (Upstream(i) \cup {i}) \cap hung = {}
          ~> i \in DOMAIN done

=============================================================================
