------------------------------ MODULE Supervisor ------------------------------
(***************************************************************************)
(* cmd/archgraph: starts the services one after the other, each when the   *)
(* one before it answers its health check, and ends them together.         *)
(*                                                                         *)
(* A child is a process that the supervisor started.  It is the service    *)
(* itself or, where no binary was built, a `go run` that has the service   *)
(* as a child of its own.  An orphan is a service whose supervisor, or     *)
(* whose `go run`, is gone: it may hold the service's port.                *)
(***************************************************************************)
EXTENDS Naturals, Sequences, SequencesExt

CONSTANTS
    Order,     \* the services in the order in which they are started
    Vital,     \* storage and pipeline: their failure brings all down
    MaxBoots   \* bound on how often the supervisor is started

ASSUME SupervisorAssumption ==
    /\ Order \in Seq(ToSet(Order)) /\ Order # << >> /\ IsInjective(Order)
    /\ Vital \subseteq ToSet(Order) \ {Last(Order)}
    /\ MaxBoots \in Nat \ {0}

VARIABLES
    wrapped,   \* the services that are started through `go run`
    main,      \* where main() is
    at,        \* the service main() starts or waits for, by its place in Order
    ctx,       \* "open", or what ended it
    child,     \* each service's child
    orphan,    \* each service's orphan
    crashed,   \* whether a supervisor has ended without ending its children
    boots      \* how often the supervisor was started

supervisorVars == <<wrapped, main, at, ctx, child, orphan, crashed, boots>>

Services == ToSet(Order)

\* A child: not started, running without or with its port open, exited with
\* status 0, with another status, by a signal, and waited for.
ChildStates == {"none", "starting", "up", "clean", "failed", "killed", "gone"}

Alive(s) == child[s] \in {"starting", "up"}
Exited(s) == child[s] \in {"clean", "failed", "killed"}
AllReaped == \A s \in Services : child[s] \in {"none", "gone"}

\* Somebody answers GET /v1/health on the port of s.
Answers(s) == child[s] = "up" \/ orphan[s] = "up"

Ended == main \in {"exited", "crashed"}

\* stop(): what ended the context first is what is remembered.
Cancel(c) == IF c = "open" THEN "stopped" ELSE c

SupervisorInit ==
    /\ wrapped \in SUBSET Services
    /\ main = "start"
    /\ at = 1
    /\ ctx = "open"
    /\ child = [s \in Services |-> "none"]
    /\ orphan = [s \in Services |-> "none"]
    /\ crashed = FALSE
    /\ boots = 1

-----------------------------------------------------------------------------
(* main *)

\* Broken: the last service is waited for as well, and there is no next one.
AwaitEvery ==
    /\ main = "start" /\ ctx = "open"
    /\ child' = [child EXCEPT ![Order[at]] = "starting"]
    /\ main' = "await"
    /\ UNCHANGED <<wrapped, at, ctx, orphan, crashed, boots>>

\* startZone: a cancelled context starts nothing.  The last service is not
\* waited for.
StartZone ==
    /\ main = "start" /\ ctx = "open"
    /\ child' = [child EXCEPT ![Order[at]] = "starting"]
    /\ main' = IF at = Len(Order) THEN "running" ELSE "await"
    /\ UNCHANGED <<wrapped, at, ctx, orphan, crashed, boots>>

\* With nothing started log.Fatalf ends the supervisor at once.
StartFails ==
    /\ main = "start"
    /\ main' = IF at = 1 THEN "exited" ELSE "abort"
    /\ ctx' = Cancel(ctx)
    /\ UNCHANGED <<wrapped, at, child, orphan, crashed, boots>>

\* waitHealthy has its answer, perhaps to a request it sent just before the
\* context ended.
Healthy ==
    /\ main = "await" /\ Answers(Order[at])
    /\ main' = "start" /\ at' = at + 1
    /\ UNCHANGED <<wrapped, ctx, child, orphan, crashed, boots>>

\* Broken: the wait for health watches its deadline while nobody has ended
\* the context, and the port for ever after.
WaitUnbound ==
    /\ main = "await" /\ ctx = "open"
    /\ main' = "abort" /\ ctx' = "stopped"
    /\ UNCHANGED <<wrapped, at, child, orphan, crashed, boots>>

\* waitHealthy has run out of time, or the context has ended.
NeverHealthy ==
    /\ main = "await"
    /\ \/ /\ Order[at] \in Vital
          /\ main' = "abort" /\ ctx' = Cancel(ctx)
          /\ UNCHANGED at
       \/ /\ Order[at] \notin Vital
          /\ main' = "start" /\ at' = at + 1
          /\ UNCHANGED ctx
    /\ UNCHANGED <<wrapped, child, orphan, crashed, boots>>

\* Broken: main() exits without waiting for the children.
ExitAtOnce ==
    /\ main = "abort"
    /\ main' = "exited"
    /\ UNCHANGED <<wrapped, at, ctx, child, orphan, crashed, boots>>

\* wg.Wait() and os.Exit(1).
Abort ==
    /\ main = "abort" /\ AllReaped
    /\ main' = "exited"
    /\ UNCHANGED <<wrapped, at, ctx, child, orphan, crashed, boots>>

\* <-ctx.Done(), and SIGTERM to every child.
Terminate ==
    /\ main = "running" /\ ctx # "open"
    /\ main' = "draining"
    /\ UNCHANGED <<wrapped, at, ctx, child, orphan, crashed, boots>>

\* The wait group is done before the five seconds are over, or after the
\* children have been killed.
Drained ==
    /\ main \in {"draining", "killing"} /\ AllReaped
    /\ main' = "exited"
    /\ UNCHANGED <<wrapped, at, ctx, child, orphan, crashed, boots>>

\* What remains of a child that nobody waits for any more.  With an older
\* orphan it is counted as one: one of them has the port.
Unattended(s) == IF orphan[s] = "up" THEN "up" ELSE child[s]

\* What a kill leaves: of a `go run`, the service, unless it was still being
\* built.
LeftBy(s) ==
    IF s \notin wrapped THEN {orphan[s]}
    ELSE IF child[s] = "up" THEN {"up"} ELSE {orphan[s], Unattended(s)}

Kill(victims) ==
    /\ child' = [s \in Services |-> IF s \in victims THEN "killed" ELSE child[s]]
    /\ orphan' \in {o \in [Services -> {"none", "starting", "up"}] :
                      \A s \in Services :
                          IF s \in victims THEN o[s] \in LeftBy(s) ELSE o[s] = orphan[s]}

\* time.After(5 * time.Second)
KillRest ==
    /\ main = "draining"
    /\ Kill({s \in Services : Alive(s)})
    /\ main' = "killing"
    /\ UNCHANGED <<wrapped, at, ctx, crashed, boots>>

-----------------------------------------------------------------------------
(* The goroutines beside main. *)

\* exec.CommandContext: when the context ends, the child is killed.
KillByContext(s) ==
    /\ ctx # "open" /\ ~Ended /\ Alive(s)
    /\ Kill({s})
    /\ UNCHANGED <<wrapped, main, at, ctx, crashed, boots>>

\* Broken: the failure of a child is taken for the end of a shutdown.
ReapQuietly(s) ==
    /\ Exited(s) /\ ~Ended
    /\ child' = [child EXCEPT ![s] = "gone"]
    /\ UNCHANGED <<wrapped, main, at, ctx, orphan, crashed, boots>>

\* cmd.Wait() returns.  Only a vital service that has failed, and not by a
\* signal, ends the context.
Reap(s) ==
    /\ Exited(s) /\ ~Ended
    /\ child' = [child EXCEPT ![s] = "gone"]
    /\ ctx' = IF s \in Vital /\ child[s] = "failed" THEN Cancel(ctx) ELSE ctx
    /\ UNCHANGED <<wrapped, main, at, orphan, crashed, boots>>

\* Ctrl+C reaches the children as well, SIGTERM the supervisor only.
Signal ==
    /\ ctx = "open" /\ ~Ended
    /\ ctx' \in {"interrupted", "terminated"}
    /\ UNCHANGED <<wrapped, main, at, child, orphan, crashed, boots>>

\* The supervisor is killed, or a second signal ends it after stop().
Crash ==
    /\ ~Ended
    /\ main' = "crashed" /\ crashed' = TRUE
    /\ child' = [s \in Services |-> "none"]
    /\ orphan' = [s \in Services |->
           IF Alive(s) THEN Unattended(s) ELSE orphan[s]]
    /\ UNCHANGED <<wrapped, at, ctx, boots>>

Restart ==
    /\ Ended /\ boots < MaxBoots
    /\ boots' = boots + 1
    /\ main' = "start" /\ at' = 1 /\ ctx' = "open"
    /\ child' = [s \in Services |-> "none"]
    /\ UNCHANGED <<wrapped, orphan, crashed>>

-----------------------------------------------------------------------------
(* The services. *)

Become(s, state) ==
    /\ child' = [child EXCEPT ![s] = state]
    /\ UNCHANGED <<wrapped, main, at, ctx, orphan, crashed, boots>>

Listen(s) == child[s] = "starting" /\ orphan[s] # "up" /\ Become(s, "up")

\* The port is taken: log.Fatalf.
BindFails(s) == child[s] = "starting" /\ orphan[s] = "up" /\ Become(s, "failed")

\* Any other log.Fatalf or panic, or a kill of the service that its `go run`
\* reports as a failure of its own.
Fails(s) == Alive(s) /\ Become(s, "failed")

\* A signal from outside that the process the supervisor knows does not
\* handle: SIGKILL, or a SIGTERM to a `go run` or before the handler is there.
KilledOutside(s) ==
    /\ ctx = "open" /\ ~Ended /\ Alive(s)
    /\ Kill({s})
    /\ UNCHANGED <<wrapped, main, at, ctx, crashed, boots>>

\* The service has a SIGTERM, of the supervisor's or of anybody's and at any
\* time, or a Ctrl+C: it shuts down its HTTP server and exits with status 0,
\* and so does the `go run` that waits for it.
StopsCleanly(s) == Alive(s) /\ Become(s, "clean")

OrphanListens(s) ==
    /\ orphan[s] = "starting" /\ child[s] # "up"
    /\ orphan' = [orphan EXCEPT ![s] = "up"]
    /\ UNCHANGED <<wrapped, main, at, ctx, child, crashed, boots>>

\* It finds the port taken, or writes to a pipe that nobody reads.
OrphanEnds(s) ==
    /\ orphan[s] # "none"
    /\ orphan' = [orphan EXCEPT ![s] = "none"]
    /\ UNCHANGED <<wrapped, main, at, ctx, child, crashed, boots>>

-----------------------------------------------------------------------------

Main ==
    \/ StartZone \/ StartFails \/ Healthy \/ NeverHealthy
    \/ Abort \/ Terminate \/ Drained \/ KillRest

Boot(s) == Listen(s) \/ BindFails(s)

SupervisorNext ==
    \/ Main \/ Signal \/ Crash \/ Restart
    \/ \E s \in Services :
          \/ KillByContext(s) \/ Reap(s) \/ Boot(s) \/ Fails(s)
          \/ KilledOutside(s) \/ StopsCleanly(s)
          \/ OrphanListens(s) \/ OrphanEnds(s)

\* The goroutines of the supervisor run, and waitHealthy is bounded by its
\* timeout.  A child that is starting opens its port or fails to.
SupervisorSpec ==
    /\ SupervisorInit /\ [][SupervisorNext]_supervisorVars
    /\ WF_supervisorVars(Main)
    /\ \A s \in Services :
          WF_supervisorVars(KillByContext(s)) /\ WF_supervisorVars(Reap(s)) /\ WF_supervisorVars(Boot(s))

-----------------------------------------------------------------------------

SupervisorTypeOK ==
    /\ wrapped \subseteq Services
    /\ main \in {"start", "await", "running", "abort", "draining", "killing",
                 "exited", "crashed"}
    /\ at \in 1 .. Len(Order)
    /\ ctx \in {"open", "interrupted", "terminated", "stopped"}
    /\ child \in [Services -> ChildStates]
    /\ orphan \in [Services -> {"none", "starting", "up"}]
    /\ crashed \in BOOLEAN
    /\ boots \in 1 .. MaxBoots

\* When main() has returned or called os.Exit, on any of its paths, no child
\* is left, and a service can be running only if a `go run` stood between it
\* and the supervisor, or if an earlier supervisor was killed.
NothingLeft ==
    main = "exited" =>
        \A s \in Services :
            /\ child[s] \in {"none", "gone"}
            /\ orphan[s] # "none" => s \in wrapped \/ crashed

\* A signal, or the failure of storage or pipeline at any moment of the boot
\* or later, ends the supervisor: neither a health check nor a wait group
\* holds it up.
StopsAll ==
    (ctx # "open" \/ \E s \in Vital : child[s] = "failed") ~> Ended

\* A health check cannot tell a child from an orphan of an earlier supervisor
\* that still has the port.  The child then cannot open its port, and so the
\* supervisor does not go on with somebody else's service, unless a signal to
\* the child ends it before it finds that out.
NotAdopted ==
    \A s \in Vital :
        main = "running" /\ orphan[s] = "up" /\ child[s] = "starting"
        ~> main # "running" \/ orphan[s] # "up" \/ child[s] \in {"killed", "clean"}

=============================================================================
