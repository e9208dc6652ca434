----------------------------- MODULE Lifecycle -----------------------------
(***************************************************************************)
(* The life of a process: launch and withShutdown (packages/runtime,       *)
(* AppRuntime.ts), the Shutdown coordinator and Readiness, the listener of *)
(* packages/http (serve.ts) and the gRPC server (packages/grpc, server.ts).*)
(*                                                                         *)
(* Fibers: the program, the main fiber that joins it, the fiber that waits *)
(* for the OS signal and the daemon that drains.  A finalizer may complete,*)
(* fail or hang until its budget cuts it.                                  *)
(*                                                                         *)
(* A deployment is such a process beside the runners of Migrations.        *)
(***************************************************************************)
EXTENDS Migrations

CONSTANTS Finalizers,   \* what components register; "grpc" closes the gRPC server
          Calls, Capacity

VARIABLES program,      \* "starting", "serving", "ended", "failed", "interrupted"
          signals,      \* OS signals received: 0 or 1
          interrupted,  \* runMain has interrupted the main fiber
          watcher,      \* the signal fiber: "waiting", "drain", "stop", "done"
          main,         \* the main fiber: "join", "drain", "stop", "teardown", "grace", "closing", "down"
          registered, onTime, started, drain, taken, ran,
          ready, listening,
          grpc,         \* [accepting, close]
          calls,        \* gRPC call -> "none", "active", "over"
          deadline,     \* the grace period of launch is running
          exit          \* "no", "0", "1", "killed"

processVars == <<program, signals, interrupted, watcher, main, registered, onTime, started, drain, taken, ran,
                 ready, listening, grpc, calls, deadline, exit>>

LifecycleInit ==
    /\ program = "starting" /\ signals = 0 /\ interrupted = FALSE /\ watcher = "waiting" /\ main = "join"
    /\ registered = <<>> /\ onTime = 0 /\ started = FALSE /\ drain = "idle" /\ taken = <<>> /\ ran = <<>>
    /\ ready = FALSE /\ listening = TRUE
    /\ grpc = [accepting |-> TRUE, close |-> "open"]
    /\ calls = [c \in Calls |-> "none"]
    /\ deadline = FALSE /\ exit = "no"

Alive == exit = "no"
Active == {c \in Calls : calls[c] = "active"}

\* onShutdown: also while the program starts and while the drain is on
OnShutdown(f) ==
    /\ Alive /\ program \in {"starting", "serving"} /\ f \notin Range(registered)
    /\ registered' = Append(registered, f)
    /\ onTime' = IF started THEN onTime ELSE onTime + 1
    /\ UNCHANGED <<program, signals, interrupted, watcher, main, started, drain, taken, ran, ready, listening, grpc,
                   calls, deadline, exit>>

\* Startup is complete: setReady
SetReady ==
    /\ Alive /\ program = "starting"
    /\ program' = "serving" /\ ready' = TRUE
    /\ UNCHANGED <<signals, interrupted, watcher, main, registered, onTime, started, drain, taken, ran, listening,
                   grpc, calls, deadline, exit>>

\* The program ends by itself: it failed, or it awaited the shutdown
ProgramEnds ==
    /\ Alive /\ program \in {"starting", "serving"}
    /\ program' \in IF drain = "done" THEN {"ended", "failed"} ELSE {"failed"}
    /\ UNCHANGED <<signals, interrupted, watcher, main, registered, onTime, started, drain, taken, ran, ready,
                   listening, grpc, calls, deadline, exit>>

-----------------------------------------------------------------------------
(* Signals and the two fibers that stop the program                        *)

\* The listener arms the deadline and resolves the signal; runMain interrupts the main fiber on its
\* own.  A second signal ends the process
OsSignal ==
    /\ Alive
    /\ IF signals = 0 THEN signals' = 1 /\ deadline' = TRUE /\ UNCHANGED exit
                      ELSE exit' = "killed" /\ UNCHANGED <<signals, deadline>>
    /\ UNCHANGED <<program, interrupted, watcher, main, registered, onTime, started, drain, taken, ran, ready,
                   listening, grpc, calls>>

MainInterrupted ==
    /\ Alive /\ signals > 0 /\ ~interrupted
    /\ interrupted' = TRUE
    /\ UNCHANGED <<program, signals, watcher, main, registered, onTime, started, drain, taken, ran, ready,
                   listening, grpc, calls, deadline, exit>>

\* trigger: the first call forks the drain, every call waits for it
Trigger == started' = TRUE /\ drain' = IF started THEN drain ELSE "unready"

WatcherStops ==
    /\ Alive
    /\ \/ watcher = "waiting" /\ signals > 0 /\ main = "join"
          /\ watcher' = "drain" /\ Trigger /\ UNCHANGED program
       \/ watcher = "drain" /\ drain = "done" /\ main \in {"join", "drain", "stop"}
          /\ watcher' = "done" /\ UNCHANGED <<started, drain>>
          /\ program' = IF program \in {"starting", "serving"} THEN "interrupted" ELSE program
    /\ UNCHANGED <<signals, interrupted, main, registered, onTime, taken, ran, ready, listening, grpc, calls,
                   deadline, exit>>

MainStops ==
    /\ Alive
    /\ \/ main = "join" /\ interrupted /\ program \in {"starting", "serving"}
          /\ main' = "drain" /\ Trigger /\ UNCHANGED <<program, deadline>>
       \/ main = "drain" /\ drain = "done"
          /\ main' = "teardown" /\ deadline' = TRUE /\ UNCHANGED <<started, drain>>
          /\ program' = IF program \in {"starting", "serving"} THEN "interrupted" ELSE program
       \/ main = "join" /\ program \in {"ended", "failed", "interrupted"}
          /\ main' = "teardown" /\ deadline' = TRUE /\ UNCHANGED <<started, drain, program>>
    /\ UNCHANGED <<signals, interrupted, watcher, registered, onTime, taken, ran, ready, listening, grpc, calls, exit>>

-----------------------------------------------------------------------------
(* The drain                                                               *)

\* The finalizers in reverse order of registration
TakeFinalizers(list) == Reverse(list)

DrainBegins ==
    /\ Alive
    /\ \/ drain = "unready" /\ ready' = FALSE /\ drain' = "take" /\ UNCHANGED taken
       \/ drain = "take" /\ taken' = TakeFinalizers(registered) /\ drain' = "next" /\ UNCHANGED ready
    /\ UNCHANGED <<program, signals, interrupted, watcher, main, registered, onTime, started, ran, listening, grpc,
                   calls, deadline, exit>>

\* runFinalizer starts the next one; for the gRPC server that is `close`
RunFinalizer ==
    /\ Alive /\ drain = "next"
    /\ IF Len(ran) = Len(taken) THEN drain' = "done" /\ UNCHANGED <<ran, grpc>>
       ELSE LET f == taken[Len(ran) + 1] IN
            /\ drain' = "running" /\ ran' = Append(ran, f)
            /\ grpc' = IF f = "grpc" /\ grpc.close = "open" THEN [accepting |-> FALSE, close |-> "grace"] ELSE grpc
    /\ UNCHANGED <<program, signals, interrupted, watcher, main, registered, onTime, started, taken, ready, listening,
                   calls, deadline, exit>>

\* It completes or fails, which is logged; `close` completes once the server is closed
FinalizerEnds ==
    /\ Alive /\ drain = "running" /\ (Last(ran) = "grpc" => grpc.close = "closed")
    /\ drain' = "next"
    /\ UNCHANGED <<program, signals, interrupted, watcher, main, registered, onTime, started, taken, ran, ready,
                   listening, grpc, calls, deadline, exit>>

\* The budget cuts it; an interrupted `close` forces the server down and interrupts its calls
FinalizerCut ==
    /\ Alive /\ drain = "running"
    /\ drain' = "next"
    /\ calls' = [c \in Calls |-> IF Last(ran) = "grpc" /\ c \in Active THEN "over" ELSE calls[c]]
    /\ UNCHANGED <<program, signals, interrupted, watcher, main, registered, onTime, started, taken, ran, ready,
                   listening, grpc, deadline, exit>>

-----------------------------------------------------------------------------
(* The gRPC server                                                         *)

\* A call is refused (UNAVAILABLE, RESOURCE_EXHAUSTED) once the server closes or is full
Admits == grpc.accepting /\ Cardinality(Active) < Capacity

GrpcCall(c) ==
    /\ Alive /\ calls[c] = "none" /\ Admits
    /\ calls' = [calls EXCEPT ![c] = "active"]
    /\ UNCHANGED <<program, signals, interrupted, watcher, main, registered, onTime, started, drain, taken, ran,
                   ready, listening, grpc, deadline, exit>>

GrpcReturns(c) ==
    /\ Alive /\ calls[c] = "active"
    /\ calls' = [calls EXCEPT ![c] = "over"]
    /\ UNCHANGED <<program, signals, interrupted, watcher, main, registered, onTime, started, drain, taken, ran,
                   ready, listening, grpc, deadline, exit>>

\* tryShutdown calls back when the calls are over; the grace timer forces, which interrupts the rest
GrpcCloses ==
    /\ Alive /\ grpc.close = "grace"
    /\ grpc' = [grpc EXCEPT !.close = "closed"]
    /\ \/ Active = {} /\ UNCHANGED calls
       \/ calls' = [c \in Calls |-> IF c \in Active THEN "over" ELSE calls[c]]
    /\ UNCHANGED <<program, signals, interrupted, watcher, main, registered, onTime, started, drain, taken, ran,
                   ready, listening, deadline, exit>>

-----------------------------------------------------------------------------
(* Teardown of the layers, in reverse order of construction: the gRPC scope, the flip of readiness  *)
(* and the grace period of serve, then the listener; and the exit                                   *)

Teardown ==
    /\ Alive
    /\ \/ main = "teardown" /\ main' = "grace" /\ ready' = FALSE /\ UNCHANGED listening
          /\ grpc' = IF grpc.close = "open" THEN [accepting |-> FALSE, close |-> "grace"] ELSE grpc
       \/ main = "grace" /\ grpc.close = "closed" /\ main' = "closing" /\ UNCHANGED <<ready, listening, grpc>>
       \/ main = "closing" /\ main' = "down" /\ listening' = FALSE /\ UNCHANGED <<ready, grpc>>
    /\ UNCHANGED <<program, signals, interrupted, watcher, registered, onTime, started, drain, taken, ran, calls,
                   deadline, exit>>

Exit ==
    /\ Alive
    /\ \/ main = "down" /\ exit' = IF program = "failed" THEN "1" ELSE "0"
       \/ deadline /\ exit' = "1"    \* the grace period is over
    /\ UNCHANGED <<program, signals, interrupted, watcher, main, registered, onTime, started, drain, taken, ran,
                   ready, listening, grpc, calls, deadline>>

LifeStep ==
    \/ MainInterrupted \/ WatcherStops \/ MainStops \/ DrainBegins \/ RunFinalizer \/ FinalizerEnds \/ FinalizerCut
    \/ GrpcCloses \/ Teardown \/ Exit

LifecycleNext ==
    \/ LifeStep \/ SetReady \/ ProgramEnds \/ OsSignal
    \/ \E f \in Finalizers : OnShutdown(f)
    \/ \E c \in Calls : GrpcCall(c) \/ GrpcReturns(c)

-----------------------------------------------------------------------------
(* A deployment                                                            *)

DeploymentInit == LifecycleInit /\ \E d \in {"pg", "lite"}, applied \in Histories : MigrationsInit(d, applied)

DeploymentNext == \/ MigrationsNext /\ UNCHANGED processVars
                  \/ LifecycleNext /\ UNCHANGED migrationVars

DeploymentSpec == DeploymentInit /\ [][DeploymentNext]_<<migrationVars, processVars>>

-----------------------------------------------------------------------------
(* Properties                                                              *)

\* A process that was asked to stop and exits 0 has run every finalizer that was registered before
\* the request, each once, in reverse order, whichever of the two fibers triggered the drain.
CleanExitIsDrained ==
    exit = "0" =>
        /\ drain = "done"
        /\ ran = taken
        /\ \A i \in 1..onTime : \E j \in DOMAIN ran : ran[j] = registered[i]
        /\ \A i, j \in DOMAIN ran : ran[i] = ran[j] => i = j

\* Once the listener stops accepting, the process has told its load balancer, and no program is left
\* that could call setReady again; once the gRPC server is closed none of its calls runs.
NothingRunsBehindClosedDoors ==
    /\ ~listening => ~ready /\ program \notin {"starting", "serving"}
    /\ grpc.close = "closed" => Active = {}

\* Deployments are orderly: replicas of several builds run every migration once, in order, and a green
\* runner leaves its build ready (migrations run.ts); a process that exits 0 has drained, and nothing
\* runs or is announced behind its closed listeners (runtime Shutdown.ts, AppRuntime.ts).
DeploymentsAreOrderly ==
    /\ MigratesOnceInOrder /\ GreenMeansReady
    /\ CleanExitIsDrained /\ NothingRunsBehindClosedDoors

\* A signal ends the process: finalizers that hang, calls that do not return and a program that
\* ignores the shutdown are cut by their budgets.
SignalEndsTheProcess == signals > 0 ~> exit /= "no"
=============================================================================
