--------------------------- MODULE Lifecycle_proofs ---------------------------
(***************************************************************************)
(* Proofs about Lifecycle, for any number of requests and any timeouts.    *)
(***************************************************************************)
EXTENDS Lifecycle, TLAPS

(* The order in which things stop.                                         *)
OrderInv ==
    /\ token => Signalled
    /\ ~Signalled => stalled = 0
    /\ http # "serving" \/ grpc \in {"stopping", "ended"} => Signalled
    /\ Signalled => signalled <= now
    /\ GrpcComesUp => grpc # "panicked"

(* A server that has ended has answered all of its requests, and only the  *)
(* exit cuts anything.                                                     *)
DrainInv ==
    /\ http = "ended" => \A r \in HttpRequests : ~Open(r) /\ ~Cut(r)
    /\ grpc \in {"ended", "panicked"} => \A r \in GrpcRequests : ~Open(r) /\ ~Cut(r)
    /\ grpc = "starting" => \A r \in GrpcRequests : ~Open(r) /\ ~Cut(r)
    /\ Running => cleaner.pc # "cut" /\ \A r \in Requests : ~Cut(r)

(* main leaves its select! once a server is done, and when the gRPC server *)
(* comes up that is after the signal; it waits from then on.               *)
MainInv ==
    /\ main # "select" => SomeServerDone
    /\ GrpcComesUp /\ main # "select" =>
         /\ Signalled /\ deadline >= signalled + ShutdownTimeout
         /\ cleaner.pc = "cut" => now >= deadline

(* When the signal came, moved on by the time without a free worker.       *)
Told == signalled + stalled

(* No thread that sleeps and no HTTP request is older than the signal, and *)
(* the time without a free worker, may let it become.                      *)
RequestTimes ==
    /\ \A r \in Requests : Asleep(r) =>
         /\ now <= thread[r] /\ thread[r] <= now + SlowTime
         /\ Signalled => thread[r] <= Told + SlowTime
    /\ \A r \in HttpRequests : Open(r) =>
         /\ request[r].opened <= now /\ (Signalled => request[r].opened <= Told)
         /\ Signalled /\ Running /\ Kind(r) = "readyz" => now <= Told + ReadyTimeout

(* Where main is bounds how long ago the signal came.                      *)
MainTimes ==
    /\ Running /\ http = "serving" /\ Signalled => now <= Told
    /\ main = "select" /\ Signalled => now <= Told + Longest(RequestTimeout, SlowTime)
    /\ main = "waiting" => /\ deadline <= now + ShutdownTimeout
                           /\ Signalled => deadline <= Told + StopTime
    /\ main \in {"waiting", "dropping"} /\ Signalled => now <= Told + StopTime

LInv == TypeOK /\ OrderInv /\ DrainInv /\ MainInv
TInv == RequestTimes /\ MainTimes

(* The shutdown invariant holds when the tasks are spawned.                *)
LEMMA InitLInv == Init => LInv
<1> SUFFICES ASSUME Init PROVE LInv
  OBVIOUS
<1>1. \A r \in Requests : ~Open(r) /\ ~Cut(r)
  BY DEF Init, Open, Cut
<1>2. TypeOK
  BY <1>1 DEF Init, TypeOK, HttpKinds
<1>3. OrderInv
  BY DEF Init, OrderInv, Signalled, Never
<1>4. DrainInv /\ MainInv
  BY <1>1 DEF Init, DrainInv, MainInv, Requests
<1> QED BY <1>2, <1>3, <1>4 DEF LInv

(* A worker is free only as long as there is a runtime.                    *)
LEMMA WorkersRun == Working => Running
BY DEF Working

(* Every step of the tasks, of main and of the clock keeps it.             *)
LEMMA StepLInv == LInv /\ [Next]_vars => LInv'
<1> SUFFICES ASSUME LInv, [Next]_vars PROVE LInv'
  OBVIOUS
<1> USE TimesAssumption, TasksAssumption DEF LInv, Signalled, Never, Running
<1>1. /\ now \in Nat /\ deadline \in Nat /\ stalled \in Nat /\ signalled \in Nat \cup {Never}
      /\ token \in BOOLEAN
  BY DEF TypeOK
<1>2. CASE Signal \/ Cancel
  <2>1. TypeOK'
    BY <1>1, <1>2 DEF Signal, Cancel, TypeOK, Open, Kind, Asleep
  <2>2. OrderInv' /\ MainInv'
    BY <1>1, <1>2 DEF Signal, Cancel, OrderInv, MainInv, SomeServerDone, HttpDone, GrpcDone
  <2>3. DrainInv'
    BY <1>2 DEF Signal, Cancel, DrainInv, Open, Cut
  <2> QED BY <2>1, <2>2, <2>3
<1>3. CASE HttpStop
  <2>1. TypeOK'
    BY <1>3 DEF HttpStop, TypeOK, Open, Kind, Asleep
  <2>2. OrderInv' /\ MainInv'
    BY <1>1, <1>3 DEF HttpStop, OrderInv, MainInv, SomeServerDone, HttpDone, GrpcDone
  <2>3. DrainInv'
    BY <1>3 DEF HttpStop, DrainInv, Open, Cut
  <2> QED BY <2>1, <2>2, <2>3
<1>4. CASE HttpEnd
  <2>1. TypeOK'
    BY <1>4 DEF HttpEnd, TypeOK, Open, Kind, Asleep
  <2>2. OrderInv' /\ MainInv'
    BY <1>1, <1>4 DEF HttpEnd, OrderInv, MainInv, SomeServerDone, HttpDone, GrpcDone
  <2>3. DrainInv'
    BY <1>4, WorkersRun DEF HttpEnd, DrainInv, Open, Cut, InFlight, Requests
  <2> QED BY <2>1, <2>2, <2>3
<1>5. CASE GrpcStart
  <2>1. TypeOK'
    BY <1>5 DEF GrpcStart, TypeOK, Open, Kind, Asleep
  <2>2. OrderInv' /\ MainInv'
    BY <1>1, <1>5 DEF GrpcStart, OrderInv, MainInv, SomeServerDone, HttpDone, GrpcDone
  <2>3. DrainInv'
    BY <1>5 DEF GrpcStart, DrainInv, Open, Cut
  <2> QED BY <2>1, <2>2, <2>3
<1>6. CASE GrpcStop
  <2>1. TypeOK'
    BY <1>6 DEF GrpcStop, TypeOK, Open, Kind, Asleep
  <2>2. OrderInv' /\ MainInv'
    BY <1>1, <1>6 DEF GrpcStop, OrderInv, MainInv, SomeServerDone, HttpDone, GrpcDone
  <2>3. DrainInv'
    BY <1>6 DEF GrpcStop, DrainInv, Open, Cut
  <2> QED BY <2>1, <2>2, <2>3
<1>7. CASE GrpcEnd
  <2>1. TypeOK'
    BY <1>7 DEF GrpcEnd, TypeOK, Open, Kind, Asleep
  <2>2. OrderInv' /\ MainInv'
    BY <1>1, <1>7 DEF GrpcEnd, OrderInv, MainInv, SomeServerDone, HttpDone, GrpcDone
  <2>3. DrainInv'
    BY <1>7, WorkersRun DEF GrpcEnd, DrainInv, Open, Cut, InFlight, Requests
  <2> QED BY <2>1, <2>2, <2>3
<1>8. ASSUME NEW r \in Requests, NEW kind \in HttpKinds, Accept(r, kind) PROVE LInv'
  <2>1. /\ request' = [request EXCEPT ![r] =
                         [kind |-> kind, state |-> Dispatched(kind), opened |-> now]]
        /\ Dispatched(kind) \in {"open", "ready", "not_ready"}
        /\ thread' = IF kind \in {"slow", "slow_blocking"}
                     THEN [thread EXCEPT ![r] = now + SlowTime] ELSE thread
        /\ UNCHANGED <<now, signalled, token, main, deadline, http, grpc, cleaner, stalled>>
    BY <1>8 DEF Accept, Dispatched
  <2>2. TypeOK'
    <3>1. request' \in [Requests -> [kind: HttpKinds, opened: Nat,
                           state: {"new", "open", "answered", "ready", "not_ready", "cut"}]]
      BY <1>1, <2>1 DEF TypeOK
    <3>2. thread' \in [Requests -> Nat \cup {Never}]
      BY <1>1, <2>1 DEF TypeOK
    <3>3. ASSUME NEW q \in Requests, Open(q)', Kind(q)' = "slow_blocking"
          PROVE  Asleep(q)'
      <4>1. CASE q = r
        BY <1>1, <2>1, <3>3, <4>1 DEF TypeOK, Kind, Asleep
      <4>2. CASE q # r
        BY <2>1, <3>3, <4>2 DEF TypeOK, Kind, Asleep, Open
      <4> QED BY <4>1, <4>2
    <3> QED BY <2>1, <3>1, <3>2, <3>3 DEF TypeOK
  <2>3. OrderInv' /\ MainInv'
    BY <1>1, <2>1 DEF OrderInv, MainInv, SomeServerDone, HttpDone, GrpcDone
  <2>4. DrainInv'
    BY <1>8, <2>1 DEF Accept, DrainInv, Open, Cut, TypeOK, Requests
  <2> QED BY <2>2, <2>3, <2>4
<1>9. ASSUME NEW r \in Requests, Answer(r) PROVE LInv'
  <2>1. PICK state \in {"answered", "ready", "not_ready"} :
          request' = [request EXCEPT ![r].state = state]
    BY <1>9 DEF Answer, Become
  <2>2. TypeOK'
    BY <1>9, <2>1 DEF Answer, TypeOK, Open, Kind, Asleep
  <2>3. OrderInv' /\ MainInv'
    BY <1>1, <1>9 DEF Answer, OrderInv, MainInv, SomeServerDone, HttpDone, GrpcDone
  <2>4. DrainInv'
    BY <1>9, <2>1 DEF Answer, DrainInv, Open, Cut, TypeOK, Requests
  <2> QED BY <2>2, <2>3, <2>4
<1>10. ASSUME NEW r \in Requests, Wake(r) PROVE LInv'
  <2>1. \/ UNCHANGED request /\ ~(Open(r) /\ Kind(r) = "slow_blocking")
        \/ /\ Open(r)
           /\ \E state \in {"answered", "cut"} :
                /\ request' = [request EXCEPT ![r].state = state]
                /\ state = "cut" => ~Running
    BY <1>10 DEF Wake, Become
  <2>2. TypeOK'
    <3>1. request' \in [Requests -> [kind: HttpKinds, opened: Nat,
                           state: {"new", "open", "answered", "ready", "not_ready", "cut"}]]
      BY <2>1 DEF TypeOK
    <3>2. thread' \in [Requests -> Nat \cup {Never}]
      BY <1>10 DEF Wake, TypeOK
    <3>3. ASSUME NEW q \in Requests, Open(q)', Kind(q)' = "slow_blocking"
          PROVE  Asleep(q)'
      <4>1. CASE q = r
        BY <2>1, <3>3, <4>1 DEF TypeOK, Kind, Open
      <4>2. CASE q # r
        BY <1>10, <2>1, <3>3, <4>2 DEF Wake, TypeOK, Kind, Asleep, Open
      <4> QED BY <4>1, <4>2
    <3> QED BY <1>10, <3>1, <3>2, <3>3 DEF Wake, TypeOK
  <2>3. OrderInv' /\ MainInv'
    BY <1>1, <1>10 DEF Wake, OrderInv, MainInv, SomeServerDone, HttpDone, GrpcDone
  <2>4. DrainInv'
    BY <1>10, <2>1 DEF Wake, DrainInv, Open, Cut, TypeOK, Requests
  <2> QED BY <2>2, <2>3, <2>4
<1>11. CASE CleanerTick \/ CleanerPurged \/ CleanerEnd
  <2>1. TypeOK'
    BY <1>1, <1>11 DEF CleanerTick, CleanerPurged, CleanerEnd, TypeOK, Open, Kind, Asleep
  <2>2. OrderInv' /\ MainInv'
    BY <1>1, <1>11 DEF CleanerTick, CleanerPurged, CleanerEnd, OrderInv, DrainInv, MainInv, SomeServerDone, HttpDone, GrpcDone, TypeOK
  <2>3. DrainInv'
    BY <1>11 DEF CleanerTick, CleanerPurged, CleanerEnd, DrainInv, Open, Cut, TypeOK
  <2> QED BY <2>1, <2>2, <2>3
<1>12. CASE MainWaits
  <2>1. TypeOK'
    BY <1>1, <1>12 DEF MainWaits, Deadline, TypeOK, Open, Kind, Asleep
  <2>2. OrderInv'
    BY <1>1, <1>12 DEF MainWaits, OrderInv
  <2>3. MainInv'
    BY <1>1, <1>12 DEF MainWaits, OrderInv, DrainInv, MainInv, SomeServerDone, HttpDone, GrpcDone, Deadline
  <2>4. DrainInv'
    BY <1>12 DEF MainWaits, DrainInv, Open, Cut
  <2> QED BY <2>1, <2>2, <2>3, <2>4
<1>13. CASE Drop
  <2>1. \A r \in Requests : /\ Cut(r)' => Open(r)
                            /\ Open(r)' => Open(r) /\ Kind(r)' = Kind(r)
    <3>1. ASSUME NEW r \in Requests
          PROVE  /\ request'[r].kind = request[r].kind
                 /\ request'[r].state = IF Open(r) /\ Kind(r) # "slow_blocking"
                                        THEN "cut" ELSE request[r].state
      BY <1>13 DEF Drop, TypeOK
    <3> QED BY <1>13, <3>1 DEF Open, Cut, Kind, DrainInv, Drop
  <2>2. TypeOK'
    BY <1>13, <2>1 DEF Drop, TypeOK, Open, Kind, Asleep
  <2>3. OrderInv'
    BY <1>1, <1>13 DEF Drop, OrderInv
  <2>4. MainInv'
    BY <1>1, <1>13 DEF Drop, TrackerDone, MainInv, DrainInv, SomeServerDone, HttpDone, GrpcDone, TypeOK
  <2>5. DrainInv'
    BY <1>13, <2>1 DEF Drop, DrainInv, Requests
  <2> QED BY <2>2, <2>3, <2>4, <2>5
<1>14. CASE Exit
  <2>1. TypeOK'
    BY <1>1, <1>14 DEF Exit, TypeOK, Open, Kind, Asleep
  <2>2. OrderInv' /\ MainInv'
    BY <1>1, <1>14 DEF Exit, OrderInv, MainInv, SomeServerDone, HttpDone, GrpcDone
  <2>3. DrainInv'
    BY <1>14 DEF Exit, DrainInv, Open, Cut
  <2> QED BY <2>1, <2>2, <2>3
<1>15. CASE Tick
  <2>1. TypeOK'
    BY <1>1, <1>15 DEF Tick, TypeOK, Open, Kind, Asleep
  <2>2. OrderInv' /\ MainInv'
    BY <1>1, <1>15 DEF Tick, OrderInv, MainInv, SomeServerDone, HttpDone, GrpcDone
  <2>3. DrainInv'
    BY <1>15 DEF Tick, DrainInv, Open, Cut
  <2> QED BY <2>1, <2>2, <2>3
<1>16. CASE UNCHANGED vars
  BY <1>16 DEF vars, TypeOK, OrderInv, DrainInv, MainInv, SomeServerDone, HttpDone, GrpcDone, Open, Cut, Kind, Asleep
<1> QED BY <1>2, <1>3, <1>4, <1>5, <1>6, <1>7, <1>8, <1>9, <1>10, <1>11, <1>12, <1>13, <1>14, <1>15, <1>16 DEF Next

(* The inductive invariant holds of every behaviour.                       *)
THEOREM LifecycleInductive == Spec => []LInv
<1> QED BY InitLInv, StepLInv, PTL DEF Spec

(* The exit of the process never drops requests of both protocols:         *)
(* whichever server ended main's select! had drained, or never came up.    *)
THEOREM ExitDropsOneProtocol == Spec => []OneServerDrains
<1>1. ASSUME LInv PROVE OneServerDrains
  <2> SUFFICES ASSUME NEW h \in HttpRequests, NEW g \in GrpcRequests, Cut(h), Cut(g)
               PROVE  FALSE
    BY DEF OneServerDrains
  <2>1. main # "select"
    BY <1>1 DEF LInv, DrainInv, Running, Requests
  <2> QED BY <1>1, <2>1 DEF LInv, DrainInv, MainInv, SomeServerDone, HttpDone, GrpcDone
<1> QED BY <1>1, LifecycleInductive, PTL

(* When the gRPC server comes up, the exit interrupts a purge only when    *)
(* the purge has had all of SHUTDOWN_TIMEOUT since the signal.             *)
THEOREM ExitWaitsForPurge == Spec => []PurgeGetsTimeout
<1>1. ASSUME LInv PROVE PurgeGetsTimeout
  <2>1. now \in Nat /\ deadline \in Nat /\ (Signalled => signalled \in Nat)
    BY <1>1 DEF LInv, TypeOK, Signalled
  <2>2. cleaner.pc = "cut" => main # "select"
    BY <1>1 DEF LInv, DrainInv, Running
  <2> QED BY <1>1, <2>1, <2>2, TimesAssumption DEF LInv, MainInv, PurgeGetsTimeout
<1> QED BY <1>1, LifecycleInductive, PTL

(* Every task is in a state that its code has.                             *)
THEOREM LifecycleTypes == Spec => []TypeOK
<1>1. LInv => TypeOK
  BY DEF LInv
<1> QED BY <1>1, LifecycleInductive, PTL

(* When the gRPC server comes up, that is with a valid address, a free     *)
(* port, authentication and the file descriptor set, main leaves its       *)
(* select! only after SIGTERM or Ctrl+C.                                   *)
THEOREM ExitIsTold == Spec => [](GrpcComesUp => StopsOnlyWhenTold)
<1>1. LInv => (GrpcComesUp => StopsOnlyWhenTold)
  BY DEF LInv, MainInv, StopsOnlyWhenTold
<1> QED BY <1>1, LifecycleInductive, PTL

(* The shutdown's times hold when the tasks are spawned.                   *)
LEMMA InitTInv == Init => TInv
BY TimesAssumption DEF Init, TInv, RequestTimes, MainTimes, Asleep, Open, Running, Signalled, Requests

(* The bounds are sums of natural numbers.                                 *)
LEMMA StopTimes ==
    /\ StopTime = Longest(RequestTimeout, SlowTime) + ShutdownTimeout
    /\ Longest(RequestTimeout, SlowTime) \in Nat /\ StopTime \in Nat
    /\ RequestTimeout <= Longest(RequestTimeout, SlowTime)
    /\ SlowTime <= Longest(RequestTimeout, SlowTime)
BY TimesAssumption DEF StopTime, Longest

(* A timer ends a request at its deadline, at the latest.                  *)
LEMMA DueTimes ==
    ASSUME TypeOK, NEW r \in Requests
    PROVE  /\ request[r].opened \in Nat /\ Due(r) \in Nat /\ request[r].opened <= Due(r)
           /\ Due(r) <= request[r].opened + RequestTimeout
           /\ Kind(r) = "readyz" => Due(r) <= request[r].opened + ReadyTimeout
BY TimesAssumption DEF TypeOK, Due, Kind

(* Every step keeps the times: the clock goes on only when no step of the  *)
(* HTTP server or of main is ready.                                        *)
LEMMA StepTInv == LInv /\ TInv /\ [Next]_vars => TInv'
<1> SUFFICES ASSUME LInv, TInv, [Next]_vars PROVE TInv'
  OBVIOUS
<1> USE TimesAssumption, StopTimes DEF TInv
<1>1. /\ now \in Nat /\ deadline \in Nat /\ stalled \in Nat
      /\ signalled \in Nat \cup {Never} /\ (Signalled => signalled \in Nat /\ Told \in Nat)
      /\ \A r \in Requests : thread[r] \in Nat \cup {Never} /\ request[r].opened \in Nat
  BY DEF LInv, TypeOK, Signalled, Told
<1>2. HttpRequests \subseteq Requests
  BY DEF Requests
<1>3. ASSUME UNCHANGED <<now, signalled, stalled, main, deadline, request, thread>>,
             http' = http \/ http' # "serving"
      PROVE  TInv'
  <2>1. RequestTimes'
    BY <1>3 DEF RequestTimes, Asleep, Open, Kind, Running, Signalled, Told
  <2>2. MainTimes'
    BY <1>3 DEF MainTimes, Running, Signalled, Told
  <2> QED BY <2>1, <2>2
<1>4. CASE Signal
  <2>1. /\ signalled' = now /\ stalled = 0 /\ Running
        /\ UNCHANGED <<now, stalled, main, deadline, http, request, thread>>
    BY <1>4 DEF Signal, LInv, OrderInv
  <2>2. Told' = now
    BY <1>1, <2>1 DEF Told
  <2>3. RequestTimes'
    BY <1>1, <1>2, <2>1, <2>2 DEF RequestTimes, Asleep, Open, Kind, Running
  <2>4. MainTimes'
    BY <1>1, <2>1, <2>2 DEF MainTimes, Running
  <2> QED BY <2>3, <2>4
<1>5. ASSUME NEW r \in Requests, NEW kind \in HttpKinds, Accept(r, kind) PROVE TInv'
  <2>1. /\ request' = [request EXCEPT ![r] =
                         [kind |-> kind, state |-> Dispatched(kind), opened |-> now]]
        /\ thread' = IF kind \in {"slow", "slow_blocking"}
                     THEN [thread EXCEPT ![r] = now + SlowTime] ELSE thread
        /\ UNCHANGED <<now, signalled, stalled, main, deadline, http>>
    BY <1>5 DEF Accept
  <2>2. /\ Running
        /\ r \in HttpRequests => http = "serving"
        /\ kind \in {"slow", "slow_blocking"} => http = "serving"
    BY <1>5, TasksAssumption DEF Accept, Working
  <2>3. http = "serving" /\ Signalled => now <= Told
    BY <2>2 DEF MainTimes
  <2>4. Told' = Told /\ (Signalled' <=> Signalled) /\ (Running' <=> Running)
    BY <2>1 DEF Told, Signalled, Running
  <2>5. \A q \in Requests : Asleep(q)' =>
          /\ now' <= thread'[q] /\ thread'[q] <= now' + SlowTime
          /\ Signalled' => thread'[q] <= Told' + SlowTime
    <3> SUFFICES ASSUME NEW q \in Requests, Asleep(q)'
                 PROVE  /\ now <= thread'[q] /\ thread'[q] <= now + SlowTime
                        /\ Signalled => thread'[q] <= Told + SlowTime
      BY <2>1, <2>4
    <3>1. CASE thread'[q] = thread[q]
      BY <3>1 DEF RequestTimes, Asleep
    <3>2. CASE kind \in {"slow", "slow_blocking"} /\ thread'[q] = now + SlowTime
      BY <1>1, <2>2, <2>3, <3>2
    <3> QED BY <2>1, <3>1, <3>2 DEF LInv, TypeOK
  <2>6. \A q \in HttpRequests : Open(q)' =>
          /\ request'[q].opened <= now' /\ (Signalled' => request'[q].opened <= Told')
          /\ Signalled' /\ Running' /\ Kind(q)' = "readyz" => now' <= Told' + ReadyTimeout
    <3> SUFFICES ASSUME NEW q \in HttpRequests, Open(q)'
                 PROVE  /\ request'[q].opened <= now
                        /\ Signalled => request'[q].opened <= Told
                        /\ Signalled /\ Kind(q)' = "readyz" => now <= Told + ReadyTimeout
      BY <2>1, <2>4
    <3>1. CASE q = r
      <4>1. request'[q].opened = now
        BY <1>2, <2>1, <3>1 DEF LInv, TypeOK
      <4> QED BY <1>1, <2>2, <2>3, <3>1, <4>1
    <3>2. CASE q # r
      <4>1. request'[q] = request[q]
        BY <1>2, <2>1, <3>2 DEF LInv, TypeOK
      <4> QED BY <2>2, <4>1 DEF RequestTimes, Open, Kind
    <3> QED BY <3>1, <3>2
  <2>7. MainTimes'
    BY <2>1, <2>4 DEF MainTimes
  <2> QED BY <2>5, <2>6, <2>7 DEF RequestTimes
<1>6. ASSUME UNCHANGED <<now, signalled, stalled>>, Running' => Running,
             \A q \in Requests :
               /\ thread'[q] = thread[q] \/ ~Asleep(q)'
               /\ Open(q)' => request'[q] = request[q]
      PROVE  RequestTimes'
  <2>1. Told' = Told /\ (Signalled' <=> Signalled)
    BY <1>6 DEF Told, Signalled
  <2>2. \A q \in Requests : Asleep(q)' =>
          /\ now' <= thread'[q] /\ thread'[q] <= now' + SlowTime
          /\ Signalled' => thread'[q] <= Told' + SlowTime
    BY <1>6, <2>1 DEF RequestTimes, Asleep
  <2>3. \A q \in HttpRequests : Open(q)' =>
          /\ request'[q].opened <= now' /\ (Signalled' => request'[q].opened <= Told')
          /\ Signalled' /\ Running' /\ Kind(q)' = "readyz" => now' <= Told' + ReadyTimeout
    <3> SUFFICES ASSUME NEW q \in HttpRequests, Open(q)'
                 PROVE  /\ request'[q].opened <= now
                        /\ Signalled => request'[q].opened <= Told
                        /\ Signalled /\ Running' /\ Kind(q)' = "readyz" =>
                             now <= Told + ReadyTimeout
      BY <1>6, <2>1
    <3>1. request'[q] = request[q]
      BY <1>2, <1>6
    <3>2. Open(q) /\ Kind(q)' = Kind(q)
      BY <3>1 DEF Open, Kind
    <3> QED BY <1>6, <3>1, <3>2 DEF RequestTimes
  <2> QED BY <2>2, <2>3 DEF RequestTimes
<1>7. ASSUME NEW r \in Requests, Answer(r) \/ Wake(r) PROVE TInv'
  <2>1. /\ UNCHANGED <<now, signalled, stalled, main, deadline, http>>
        /\ thread' = thread \/ thread' = [thread EXCEPT ![r] = Never]
        /\ \/ UNCHANGED request
           \/ \E state : /\ request' = [request EXCEPT ![r].state = state]
                         /\ state # "open"
    BY <1>7 DEF Answer, Wake, Become
  <2>2. \A q \in Requests : /\ thread'[q] = thread[q] \/ ~Asleep(q)'
                            /\ Open(q)' => request'[q] = request[q]
    BY <2>1 DEF LInv, TypeOK, Asleep, Open
  <2>3. RequestTimes'
    BY <1>6, <2>1, <2>2 DEF Running
  <2>4. MainTimes'
    BY <2>1 DEF MainTimes, Running, Signalled, Told
  <2> QED BY <2>3, <2>4
<1>8. CASE MainWaits
  <2>1. /\ main = "select" /\ main' = "waiting" /\ deadline' = now + ShutdownTimeout
        /\ UNCHANGED <<now, signalled, stalled, http, request, thread>>
    BY <1>8 DEF MainWaits, Deadline
  <2>2. RequestTimes'
    BY <1>6, <2>1 DEF Running
  <2>3. Told' = Told /\ (Signalled' <=> Signalled)
    BY <2>1 DEF Told, Signalled
  <2>4. MainTimes'
    BY <1>1, <2>1, <2>3 DEF MainTimes, Running
  <2> QED BY <2>2, <2>4
<1>9. CASE Drop
  <2>1. /\ main = "waiting" /\ main' = "dropping"
        /\ UNCHANGED <<now, signalled, stalled, deadline, thread>>
        /\ \A q \in Requests : Open(q)' => request'[q] = request[q]
    BY <1>9 DEF Drop, Open
  <2>2. RequestTimes'
    BY <1>6, <2>1 DEF Running
  <2>3. MainTimes'
    BY <1>1, <2>1 DEF MainTimes, Running, Signalled, Told
  <2> QED BY <2>2, <2>3
<1>10. CASE Exit
  <2>1. /\ main' = "exited"
        /\ UNCHANGED <<now, signalled, stalled, request, thread>>
    BY <1>10 DEF Exit
  <2>2. RequestTimes'
    BY <1>6, <2>1 DEF Running
  <2>3. MainTimes'
    BY <2>1 DEF MainTimes, Running
  <2> QED BY <2>2, <2>3
<1>11. CASE Tick
  <2>1. /\ now' = now + 1
        /\ stalled' = IF Signalled /\ Running /\ ~Working THEN stalled + 1 ELSE stalled
        /\ UNCHANGED <<signalled, token, main, deadline, http, grpc, request, thread>>
        /\ \A r \in Requests : Asleep(r) => now < thread[r]
        /\ main = "dropping" => \E r \in Requests : Asleep(r)
    BY <1>11 DEF Tick
  <2>2. \A r \in Requests : Asleep(r) =>
          /\ now + 1 <= thread[r]
          /\ Signalled => now + 1 <= Told + SlowTime
    BY <1>1, <2>1 DEF RequestTimes, Asleep
  <2>3. /\ (Signalled' <=> Signalled) /\ (Running' <=> Running)
        /\ Signalled => Told' \in Nat /\ Told <= Told'
        /\ Signalled /\ Running /\ ~Working => Told' = Told + 1
    BY <1>1, <2>1 DEF Told, Signalled, Running
  <2>4. \A q \in Requests : Asleep(q)' =>
          /\ now' <= thread'[q] /\ thread'[q] <= now' + SlowTime
          /\ Signalled' => thread'[q] <= Told' + SlowTime
    BY <1>1, <2>1, <2>2, <2>3 DEF RequestTimes, Asleep
  <2>5. CASE Signalled /\ Running /\ ~Working
    <3>1. Told' = Told + 1 /\ now' = now + 1
      BY <2>1, <2>3, <2>5
    <3>2. \A q \in HttpRequests : Open(q)' =>
            /\ request'[q].opened <= now' /\ request'[q].opened <= Told'
            /\ Running' /\ Kind(q)' = "readyz" => now' <= Told' + ReadyTimeout
      <4> SUFFICES ASSUME NEW q \in HttpRequests, Open(q)
                   PROVE  /\ request[q].opened <= now + 1 /\ request[q].opened <= Told + 1
                          /\ Kind(q) = "readyz" => now + 1 <= Told + 1 + ReadyTimeout
        BY <2>1, <3>1 DEF Open, Kind
      <4> QED BY <1>1, <1>2, <2>5 DEF RequestTimes
    <3>3. MainTimes'
      BY <1>1, <2>1, <2>3, <2>5, <3>1 DEF MainTimes
    <3> QED BY <2>4, <3>2, <3>3 DEF RequestTimes
  <2>6. CASE ~Signalled
    <3>1. MainTimes'
      BY <1>1, <2>1, <2>3, <2>6 DEF MainTimes
    <3>2. \A q \in HttpRequests : Open(q)' => request'[q].opened <= now'
      BY <1>1, <1>2, <2>1 DEF RequestTimes, Open
    <3> QED BY <2>3, <2>4, <2>6, <3>1, <3>2 DEF RequestTimes
  <2>7. CASE Signalled /\ ~Running
    <3>1. MainTimes'
      <4>1. main = "dropping" => now + 1 <= Told' + StopTime
        BY <1>1, <2>1, <2>2, <2>3, <2>7
      <4> QED BY <2>1, <2>3, <2>7, <4>1 DEF MainTimes, Running
    <3>2. \A q \in HttpRequests : Open(q)' =>
            request'[q].opened <= now' /\ request'[q].opened <= Told'
      BY <1>1, <1>2, <2>1, <2>3, <2>7 DEF RequestTimes, Open
    <3> QED BY <2>3, <2>4, <2>7, <3>1, <3>2 DEF RequestTimes
  <2>8. CASE Signalled /\ Working
    <3>1. Running
      BY <2>8 DEF Working
    <3>2. /\ http # "serving"
          /\ http = "stopping" => InFlight(HttpRequests) # {}
          /\ main = "select" => ~SomeServerDone
          /\ main = "waiting" => ~TrackerDone
          /\ \A r \in InFlight(HttpRequests) : Kind(r) # "slow_blocking" => ~(now >= Due(r))
      BY <1>11, <2>8, <3>1 DEF Tick, Ready
    <3>3. ASSUME NEW q \in HttpRequests, Open(q), Kind(q) # "slow_blocking"
          PROVE  /\ now + 1 <= Told + RequestTimeout
                 /\ Kind(q) = "readyz" => now + 1 <= Told + ReadyTimeout
      <4>1. now + 1 <= Due(q)
        <5>1. Due(q) \in Nat
          BY <1>2, DueTimes DEF LInv
        <5>2. ~(now >= Due(q))
          BY <3>2, <3>3 DEF InFlight
        <5> QED BY <1>1, <5>1, <5>2
      <4>2. /\ Due(q) \in Nat /\ Due(q) <= request[q].opened + RequestTimeout
            /\ Kind(q) = "readyz" => Due(q) <= request[q].opened + ReadyTimeout
        BY <1>2, DueTimes DEF LInv
      <4>3. request[q].opened <= Told
        BY <2>8, <3>3 DEF RequestTimes
      <4> QED BY <1>1, <1>2, <2>8, <4>1, <4>2, <4>3
    <3>4. \A q \in HttpRequests : Open(q)' =>
            /\ request'[q].opened <= now' /\ request'[q].opened <= Told'
            /\ Kind(q)' = "readyz" => now' <= Told' + ReadyTimeout
      <4> SUFFICES ASSUME NEW q \in HttpRequests, Open(q)
                   PROVE  /\ request[q].opened <= now + 1 /\ request[q].opened <= Told'
                          /\ Kind(q) = "readyz" => now + 1 <= Told' + ReadyTimeout
        BY <2>1 DEF Open, Kind
      <4>1. request[q].opened <= now + 1 /\ request[q].opened <= Told'
        BY <1>1, <1>2, <2>3, <2>8 DEF RequestTimes
      <4>2. Kind(q) = "readyz" => now + 1 <= Told' + ReadyTimeout
        BY <1>1, <2>3, <2>8, <3>3
      <4> QED BY <4>1, <4>2
    <3>5. main = "select" => now + 1 <= Told' + Longest(RequestTimeout, SlowTime)
      <4> SUFFICES ASSUME main = "select"
                   PROVE  now + 1 <= Told' + Longest(RequestTimeout, SlowTime)
        OBVIOUS
      <4>1. http = "stopping"
        BY <3>2 DEF LInv, TypeOK, SomeServerDone, HttpDone
      <4>2. PICK q \in HttpRequests : Open(q)
        BY <3>2, <4>1 DEF InFlight
      <4>3. Kind(q) = "slow_blocking" => now + 1 <= Told + SlowTime
        BY <1>2, <2>2, <2>8, <4>2 DEF LInv, TypeOK
      <4>4. Kind(q) # "slow_blocking" => now + 1 <= Told + RequestTimeout
        BY <3>3, <4>2
      <4> QED BY <1>1, <2>3, <2>8, <4>3, <4>4
    <3>6. main = "waiting" => now + 1 <= Told' + StopTime
      <4>1. main = "waiting" => now + 1 <= deadline
        BY <1>1, <2>8, <3>2 DEF TrackerDone
      <4> QED BY <1>1, <2>3, <2>8, <4>1 DEF MainTimes
    <3>7. MainTimes'
      <4>1. main = "waiting" => deadline <= Told' + StopTime
        BY <1>1, <2>3, <2>8 DEF MainTimes
      <4> QED BY <1>1, <2>1, <2>3, <3>1, <3>2, <3>5, <3>6, <4>1 DEF MainTimes, Running
    <3> QED BY <2>4, <3>4, <3>7 DEF RequestTimes
  <2> QED BY <2>5, <2>6, <2>7, <2>8 DEF Working
<1>12. CASE \/ Cancel \/ HttpStop \/ HttpEnd \/ GrpcStart \/ GrpcStop \/ GrpcEnd
            \/ CleanerTick \/ CleanerPurged \/ CleanerEnd \/ UNCHANGED vars
  <2>1. /\ UNCHANGED <<now, signalled, stalled, main, deadline, request, thread>>
        /\ http' = http \/ http' # "serving"
    BY <1>12 DEF Cancel, HttpStop, HttpEnd, GrpcStart, GrpcStop, GrpcEnd, CleanerTick,
        CleanerPurged, CleanerEnd, vars
  <2> QED BY <1>3, <2>1
<1> QED BY <1>4, <1>5, <1>7, <1>8, <1>9, <1>10, <1>11, <1>12 DEF Next

(* The invariants hold together of every behaviour.                        *)
LEMMA TimesInductive == Spec => [](LInv /\ TInv)
<1> QED BY InitLInv, InitTInv, StepLInv, StepTInv, PTL DEF Spec

(* After a signal the process exits within the time of its longest HTTP    *)
(* request and of SHUTDOWN_TIMEOUT, although purges and gRPC calls may     *)
(* never end and sleeping threads outlive their requests.                  *)
THEOREM ExitIsInTime == Spec => []ExitInTime
<1>1. ASSUME LInv, TInv PROVE ExitInTime
  <2>1. now \in Nat /\ stalled \in Nat /\ (Signalled => signalled \in Nat)
    BY <1>1 DEF LInv, TypeOK, Signalled
  <2>2. main \in {"select", "waiting", "dropping", "exited"}
    BY <1>1 DEF LInv, TypeOK
  <2> QED BY <1>1, <2>1, <2>2, StopTimes, TimesAssumption DEF TInv, MainTimes, ExitInTime, Exited,
              Told
<1> QED BY <1>1, TimesInductive, PTL

(* readyz answers 200 after a signal only when it had read the token       *)
(* before, and no later than its SELECT 1 may take.                        *)
THEOREM ReadinessIsTimely == Spec => ReadyIsTimely
<1>1. ASSUME LInv, TInv, [Next]_vars PROVE [ReadyStep]_vars
  <2> SUFFICES ASSUME NEW r \in HttpRequests, request[r].state # "ready",
                      request'[r].state = "ready", Signalled
               PROVE  now <= signalled + ReadyTimeout + stalled
    BY DEF ReadyStep
  <2>1. r \in Requests /\ now \in Nat /\ signalled \in Nat /\ stalled \in Nat
    BY <1>1 DEF LInv, TypeOK, Requests, Signalled
  <2>2. \/ Open(r) /\ Kind(r) = "readyz" /\ Running
        \/ Running /\ http = "serving"
    <3>1. CASE \E q \in Requests, kind \in HttpKinds : Accept(q, kind)
      <4>1. PICK q \in Requests, kind \in HttpKinds : Accept(q, kind)
        BY <3>1
      <4> QED BY <1>1, <2>1, <4>1, TasksAssumption DEF Accept, Working, LInv, TypeOK
    <3>2. CASE \E q \in Requests : Answer(q)
      <4>1. PICK q \in Requests : Answer(q)
        BY <3>2
      <4> QED BY <1>1, <2>1, <4>1 DEF Answer, Working, Become, LInv, TypeOK
    <3>3. CASE \E q \in Requests : Wake(q)
      <4>1. PICK q \in Requests : Wake(q)
        BY <3>3
      <4> QED BY <1>1, <2>1, <4>1 DEF Wake, Become, LInv, TypeOK
    <3>4. CASE Drop
      BY <1>1, <2>1, <3>4 DEF Drop, LInv, TypeOK
    <3>5. CASE UNCHANGED request
      BY <3>5
    <3> QED BY <1>1, <3>1, <3>2, <3>3, <3>4, <3>5
          DEF Next, vars, Signal, Cancel, HttpStop, HttpEnd, GrpcStart, GrpcStop, GrpcEnd,
              CleanerTick, CleanerPurged, CleanerEnd, MainWaits, Exit, Tick
  <2> QED BY <1>1, <2>1, <2>2, TimesAssumption DEF TInv, RequestTimes, MainTimes, Told
<1> QED BY <1>1, TimesInductive, PTL DEF Spec, ReadyIsTimely
=============================================================================
