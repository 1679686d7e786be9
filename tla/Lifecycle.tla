------------------------------ MODULE Lifecycle ------------------------------
(***************************************************************************)
(* The process of shorty-server from the moment its tasks are spawned to   *)
(* its exit: main's select! over the HTTP and the gRPC server, the         *)
(* cancellation token, the tracker that holds the cleaner, and the         *)
(* requests in flight.                                                     *)
(*                                                                         *)
(* The runtime is dropped when run() returns, and with it every task that  *)
(* is still at an .await.  Threads that sleep are waited for: those of     *)
(* spawn_blocking (/slow) and workers in a handler (/slow-blocking).       *)
(*                                                                         *)
(* The runtime has a fixed number of workers, and a worker in a handler    *)
(* that sleeps runs nothing else: while all of them do, no task and no     *)
(* timer makes progress.  main itself runs in block_on, on a thread of its *)
(* own, but a timer that it waits for is fired by a worker.                *)
(***************************************************************************)
EXTENDS Integers, FiniteSets

CONSTANTS
    HttpRequests, GrpcRequests,   \* the requests of a behaviour
    AuthEnabled,                  \* Config::auth is Some: DISABLE_AUTH is not set
    GrpcAddrValid, GrpcPortFree,  \* GRPC_LISTEN_ADDR can be parsed, and bound
    DescriptorFound,              \* proto/shorty.v1.shorty.bin can be read and decoded
    PoolUsed,                     \* AppState::db_pool is Some: Postgres is configured
    RequestTimeout,               \* AppConfig::request_timeout
    ReadyTimeout,                 \* of readyz's SELECT 1
    SlowTime,                     \* how long /slow and /slow-blocking sleep
    ShutdownTimeout,              \* SHUTDOWN_TIMEOUT
    CleanupPeriod,                \* CLEANUP_PERIOD
    WorkerThreads,                \* of the runtime: SHORTY_WORKER_THREADS
    MaxTime                       \* bound: the clock stops here, unless the process is stopping

Requests == HttpRequests \cup GrpcRequests

ASSUME TasksAssumption == /\ HttpRequests \cap GrpcRequests = {}
                          /\ AuthEnabled \in BOOLEAN /\ PoolUsed \in BOOLEAN
                          /\ GrpcAddrValid \in BOOLEAN /\ GrpcPortFree \in BOOLEAN
                          /\ DescriptorFound \in BOOLEAN
ASSUME TimesAssumption ==
    /\ RequestTimeout \in Nat \ {0} /\ ShutdownTimeout \in Nat \ {0}
    /\ ReadyTimeout \in Nat /\ SlowTime \in Nat
    /\ CleanupPeriod \in Nat \ {0} /\ MaxTime \in Nat
    /\ WorkerThreads \in Nat \ {0}

VARIABLES
    now,
    signalled,   \* when SIGTERM or Ctrl+C arrived, or Never
    token,       \* shutdown_token is cancelled
    main,        \* "select", "waiting" for the tracker, "dropping" the runtime, "exited"
    deadline,    \* when main stops waiting
    http,        \* "serving", then "stopping", then "ended"
    grpc,        \* "starting", "serving", "stopping", "ended", or "panicked"
    cleaner,     \* [pc, next]: "waiting", "purging", "ended", or "cut" by the exit
    request,     \* Requests -> [kind, state, opened]
    thread,      \* Requests -> when the thread wakes that sleeps for it, or Never
    stalled      \* history: the time since the signal that passed without a free worker

vars == <<now, signalled, token, main, deadline, http, grpc, cleaner, request, thread, stalled>>

(* "plain" stands for the handlers that do nothing but .await.             *)
HttpKinds == {"plain", "readyz", "slow", "slow_blocking"}
Kind(r) == request[r].kind

Never == -1
Signalled == signalled # Never

(* The runtime has not been dropped.                                       *)
Running == main \in {"select", "waiting"}
Exited == main = "exited"
Open(r) == request[r].state = "open"
InFlight(requests) == {r \in requests : Open(r)}
Asleep(r) == thread[r] # Never

(* The runtime runs tasks and fires timers: a worker is free.              *)
Working == /\ Running
           /\ Cardinality({r \in Requests : Asleep(r) /\ Kind(r) = "slow_blocking"})
                < WorkerThreads

Become(r, state) == request' = [request EXCEPT ![r].state = state]

TypeOK ==
    /\ now \in Nat /\ deadline \in Nat /\ stalled \in Nat
    /\ signalled \in Nat \cup {Never} /\ token \in BOOLEAN
    /\ main \in {"select", "waiting", "dropping", "exited"}
    /\ http \in {"serving", "stopping", "ended"}
    /\ grpc \in {"starting", "serving", "stopping", "ended", "panicked"}
    /\ cleaner \in [pc: {"waiting", "purging", "ended", "cut"}, next: Nat]
    /\ request \in [Requests -> [kind: HttpKinds, opened: Nat,
                                 state: {"new", "open", "answered", "ready", "not_ready", "cut"}]]
    /\ thread \in [Requests -> Nat \cup {Never}]
    /\ \A r \in Requests : Open(r) /\ Kind(r) = "slow_blocking" => Asleep(r)

Init == /\ now = 0 /\ signalled = Never /\ stalled = 0 /\ token = FALSE
        /\ main = "select" /\ deadline = 0
        /\ http = "serving" /\ grpc = "starting"
        /\ cleaner = [pc |-> "waiting", next |-> 0]
        /\ request = [r \in Requests |-> [kind |-> "plain", state |-> "new", opened |-> 0]]
        /\ thread = [r \in Requests |-> Never]

-----------------------------------------------------------------------------
(* The HTTP server.                                                        *)

(* SIGTERM or Ctrl+C, which shutdown_signal() listens for as long as the   *)
(* server serves, whatever main does.                                      *)
Signal == /\ Running /\ http = "serving" /\ ~Signalled
          /\ signalled' = now
          /\ UNCHANGED <<now, token, main, deadline, http, grpc, cleaner, request,
                         thread, stalled>>

(* shutdown_signal() returns in the future given to                        *)
(* with_graceful_shutdown, which cancels the token.                        *)
Cancel == /\ Working /\ http = "serving" /\ Signalled /\ ~token
          /\ token' = TRUE
          /\ UNCHANGED <<now, signalled, main, deadline, http, grpc, cleaner, request,
                         thread, stalled>>

(* That future has ended: the server stops accepting.                      *)
HttpStop == /\ Working /\ http = "serving" /\ token
            /\ http' = "stopping"
            /\ UNCHANGED <<now, signalled, token, main, deadline, grpc, cleaner,
                           request, thread, stalled>>

HttpEnd == /\ Working /\ http = "stopping"
           /\ InFlight(HttpRequests) = {}
           /\ http' = "ended"
           /\ UNCHANGED <<now, signalled, token, main, deadline, grpc, cleaner,
                          request, thread, stalled>>

(* The gRPC server.  Its task parses the address, and serve() reads and    *)
(* registers the file descriptor set, unwraps Config::auth and binds: each *)
(* of them panics when it cannot, which ends the task.                     *)
GrpcComesUp == GrpcAddrValid /\ DescriptorFound /\ AuthEnabled /\ GrpcPortFree

GrpcStart == /\ Working /\ grpc = "starting"
             /\ grpc' = IF GrpcComesUp THEN "serving" ELSE "panicked"
             /\ UNCHANGED <<now, signalled, token, main, deadline, http, cleaner,
                            request, thread, stalled>>

GrpcStop == /\ Working /\ grpc = "serving" /\ token
            /\ grpc' = "stopping"
            /\ UNCHANGED <<now, signalled, token, main, deadline, http, cleaner,
                           request, thread, stalled>>

GrpcEnd == /\ Working /\ grpc = "stopping"
           /\ InFlight(GrpcRequests) = {}
           /\ grpc' = "ended"
           /\ UNCHANGED <<now, signalled, token, main, deadline, http, cleaner,
                          request, thread, stalled>>

-----------------------------------------------------------------------------
(* Requests.                                                               *)

(* readyz reads the token and then waits for Postgres, if it is used.      *)
Dispatched(kind) == IF kind # "readyz" THEN "open"
                    ELSE IF token THEN "not_ready"
                    ELSE IF PoolUsed THEN "open" ELSE "ready"

(* A request is accepted, and its handler runs up to its first .await or   *)
(* to its thread's sleep.                                                  *)
Accept(r, kind) ==
    /\ Working /\ request[r].state = "new"
    /\ \/ r \in HttpRequests /\ http = "serving"
       \/ r \in GrpcRequests /\ grpc = "serving" /\ kind = "plain"
    /\ request' = [request EXCEPT ![r] =
                     [kind |-> kind, state |-> Dispatched(kind), opened |-> now]]
    /\ thread' = IF kind \in {"slow", "slow_blocking"}
                 THEN [thread EXCEPT ![r] = now + SlowTime] ELSE thread
    /\ UNCHANGED <<now, signalled, token, main, deadline, http, grpc, cleaner, stalled>>

(* TimeoutLayer's deadline, which cannot drop a handler that sleeps.       *)
Overdue(r) == now >= request[r].opened + RequestTimeout

(* By its handler, or for HTTP by TimeoutLayer: a thread sleeps on.        *)
Answer(r) == /\ Working /\ Open(r)
             /\ ~Asleep(r) \/ (Kind(r) = "slow" /\ Overdue(r))
             /\ IF Kind(r) = "readyz" THEN Become(r, "ready") \/ Become(r, "not_ready")
                ELSE Become(r, "answered")
             /\ UNCHANGED <<now, signalled, token, main, deadline, http, grpc, cleaner,
                            thread, stalled>>

(* A worker that wakes answers in the same poll, unless the runtime that   *)
(* it belongs to is gone.                                                  *)
Wake(r) == /\ ~Exited /\ Asleep(r) /\ now >= thread[r]
           /\ thread' = [thread EXCEPT ![r] = Never]
           /\ IF Open(r) /\ Kind(r) = "slow_blocking"
              THEN Become(r, "answered") \/ (~Running /\ Become(r, "cut"))
              ELSE UNCHANGED request
           /\ UNCHANGED <<now, signalled, token, main, deadline, http, grpc, cleaner, stalled>>

-----------------------------------------------------------------------------
(* The cleaner.  Its select! takes either branch when both are ready, and  *)
(* does not look at the token during a purge.                              *)
CleanerTick == /\ Working /\ cleaner.pc = "waiting" /\ now >= cleaner.next
               /\ cleaner' = [pc |-> "purging", next |-> now + CleanupPeriod]
               /\ UNCHANGED <<now, signalled, token, main, deadline, http, grpc,
                              request, thread, stalled>>

CleanerPurged == /\ Working /\ cleaner.pc = "purging"
                 /\ cleaner' = [cleaner EXCEPT !.pc = "waiting"]
                 /\ UNCHANGED <<now, signalled, token, main, deadline, http, grpc,
                                request, thread, stalled>>

CleanerEnd == /\ Working /\ cleaner.pc = "waiting" /\ token
              /\ cleaner' = [cleaner EXCEPT !.pc = "ended"]
              /\ UNCHANGED <<now, signalled, token, main, deadline, http, grpc,
                             request, thread, stalled>>

-----------------------------------------------------------------------------
(* main.                                                                   *)

(* Mutant: serve() returns as soon as it is called.                        *)
GrpcDoneEarly == grpc # "serving"

(* select! ends with the first server that does.                           *)
HttpDone == http = "ended"
GrpcDone == grpc \in {"ended", "panicked"}

(* Mutants: join! instead of select!; the token instead of the servers.    *)
BothServersDone == HttpDone /\ GrpcDone
TokenCancelled == token

SomeServerDone == HttpDone \/ GrpcDone

(* Mutant: the wrong sign.                                                 *)
DeadlinePast == now - ShutdownTimeout

Deadline == now + ShutdownTimeout

MainWaits == /\ main = "select" /\ SomeServerDone
             /\ main' = "waiting" /\ deadline' = Deadline
             /\ UNCHANGED <<now, signalled, token, http, grpc, cleaner, request,
                            thread, stalled>>

(* Mutants: the tracker is not waited for; it is, without the timeout.     *)
TrackerIgnored == TRUE
TrackerWaited == cleaner.pc = "ended"

(* tracker.wait() under SHUTDOWN_TIMEOUT: the tracker holds the cleaner,   *)
(* and a worker fires the timer.                                           *)
TrackerDone == cleaner.pc = "ended" \/ (Working /\ now >= deadline)

(* run() returns, and the runtime goes with all that is at an .await.      *)
Drop == /\ main = "waiting" /\ TrackerDone
        /\ main' = "dropping"
        /\ cleaner' = IF cleaner.pc = "purging" THEN [cleaner EXCEPT !.pc = "cut"] ELSE cleaner
        /\ request' = [r \in Requests |->
                         IF Open(r) /\ Kind(r) # "slow_blocking"
                         THEN [request[r] EXCEPT !.state = "cut"] ELSE request[r]]
        /\ UNCHANGED <<now, signalled, token, deadline, http, grpc, thread, stalled>>

(* Its threads have ended, and so does the process.                        *)
Exit == /\ main = "dropping"
        /\ \A r \in Requests : ~Asleep(r)
        /\ main' = "exited"
        /\ UNCHANGED <<now, signalled, token, deadline, http, grpc, cleaner, request,
                       thread, stalled>>

Longest(m, n) == IF m >= n THEN m ELSE n

(* The longest that a stop may take: the requests, then the tracker.       *)
StopTime == Longest(RequestTimeout, SlowTime) + ShutdownTimeout

(* Mutant: SELECT 1 is waited for without a timeout of its own.            *)
DueUnpinged(r) == request[r].opened + RequestTimeout

(* When a timer ends a request.                                            *)
Due(r) == request[r].opened +
            (IF Kind(r) = "readyz" /\ ReadyTimeout < RequestTimeout THEN ReadyTimeout
             ELSE RequestTimeout)

(* There is something that tokio, or a timer, does before a second passes. *)
Ready == \/ main = "select" /\ SomeServerDone
         \/ main = "waiting" /\ TrackerDone
         \/ /\ Working
            /\ \/ http = "serving" /\ Signalled
               \/ http = "stopping" /\ InFlight(HttpRequests) = {}
               \/ \E r \in InFlight(HttpRequests) :
                    /\ Kind(r) # "slow_blocking"
                    /\ now >= Due(r) \/ (Kind(r) = "slow" /\ ~Asleep(r))

Tick == /\ ~Exited
        /\ now < IF Signalled \/ main # "select" THEN MaxTime + StopTime + stalled + 1
                 ELSE MaxTime
        /\ Running => ~Ready
        /\ main = "dropping" => \E r \in Requests : Asleep(r)
        /\ \A r \in Requests : Asleep(r) => now < thread[r]
        /\ now' = now + 1
        /\ stalled' = IF Signalled /\ Running /\ ~Working THEN stalled + 1 ELSE stalled
        /\ UNCHANGED <<signalled, token, main, deadline, http, grpc, cleaner, request, thread>>

-----------------------------------------------------------------------------
Next == \/ Signal \/ Cancel \/ HttpStop \/ HttpEnd \/ GrpcStart \/ GrpcStop \/ GrpcEnd
        \/ \E r \in Requests : \/ \E kind \in HttpKinds : Accept(r, kind)
                              \/ Answer(r) \/ Wake(r)
        \/ CleanerTick \/ CleanerPurged \/ CleanerEnd
        \/ MainWaits \/ Drop \/ Exit
        \/ Tick

Spec == Init /\ [][Next]_vars

(* The runtime runs what is ready, sleeping threads wake, and TimeoutLayer *)
(* answers every HTTP request.  A gRPC handler, or a purge, may never end. *)
Fairness == /\ WF_vars(Tick) /\ WF_vars(MainWaits) /\ WF_vars(Drop) /\ WF_vars(Exit)
            /\ WF_vars(Cancel) /\ WF_vars(HttpStop) /\ WF_vars(HttpEnd)
            /\ WF_vars(GrpcStart) /\ WF_vars(GrpcStop) /\ WF_vars(GrpcEnd)
            /\ WF_vars(CleanerEnd)
            /\ \A r \in HttpRequests : WF_vars(Answer(r)) /\ WF_vars(Wake(r))

FairSpec == Spec /\ Fairness

-----------------------------------------------------------------------------
Cut(r) == request[r].state = "cut"

(* Whichever server ended select!, its requests have all been answered:    *)
(* the exit never drops requests of both protocols.                        *)
OneServerDrains == \A h \in HttpRequests, g \in GrpcRequests : ~(Cut(h) /\ Cut(g))

(* When the gRPC server comes up, a purge that has begun is interrupted by *)
(* the exit only after the whole SHUTDOWN_TIMEOUT since the signal.        *)
PurgeGetsTimeout ==
    GrpcComesUp =>
      (cleaner.pc = "cut" => Signalled /\ now >= signalled + ShutdownTimeout)

(* The process leaves main's select! only because it was told to.          *)
StopsOnlyWhenTold == main # "select" => Signalled

(* README: after a signal, requests in flight are waited for, up to 10     *)
(* seconds.                                                                *)
InFlightRequestsFinish ==
    \A r \in Requests : Cut(r) /\ Signalled => now >= signalled + ShutdownTimeout

(* After a signal the process exits, even when a purge or a gRPC call      *)
(* never ends.                                                             *)
SignalLeadsToExit == Signalled ~> Exited

(* And it does so in time: what drains first is HTTP, at the latest when   *)
(* TimeoutLayer or the sleep of a worker has ended its last request, and   *)
(* the threads that outlive their requests sleep no longer than the        *)
(* tracker is waited for.  Only the time without a free worker is added.   *)
ExitInTime == Signalled /\ ~Exited => now <= signalled + StopTime + stalled

(* README: after a signal readyz answers 503.  One that has read the token *)
(* before may still answer 200, but no later than its SELECT 1 may take,   *)
(* and the time that passes without a free worker.                         *)
ReadyStep ==
    \A r \in HttpRequests :
      /\ request[r].state # "ready" /\ request'[r].state = "ready"
      /\ Signalled
      => now <= signalled + ReadyTimeout + stalled
ReadyIsTimely == [][ReadyStep]_vars
=============================================================================
