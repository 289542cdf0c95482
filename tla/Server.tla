------------------------------- MODULE Server ------------------------------
(***************************************************************************)
(* The process (cmd/root.go, internal/deps, infra/lifecycle): the main     *)
(* goroutine that builds and serves gRPC, the goroutines of the REST       *)
(* server and of the gateway, the internal health stubs that tell clients  *)
(* when GripMock is ready, and the shutdown after a signal.                *)
(***************************************************************************)
EXTENDS Sequences, SequencesExt

Servers == {"grpc", "rest", "gateway"}
HealthMethods == {"Check", "Watch"}

VARIABLES
  signalled,   \* the context is cancelled
  main, restPc, gatewayPc,
  loaded,      \* Extender.ch is closed
  health,      \* status of the internal stubs of service "gripmock", or none
  fns,         \* Manager.fns
  registered,  \* history: fns when Do began
  conn,        \* the servers: new, started, open, closing, closed
  busy,        \* whether a request is in flight
  flushed,     \* the tracer is shut down
  exited       \* no, clean or fatal (zerolog's Fatal exits at once)

processVars == <<signalled, main, restPc, gatewayPc, loaded, health, fns, registered,
          conn, busy, flushed, exited>>
pcVars == <<main, restPc, gatewayPc>>
enderVars == <<fns, registered>>
netVars == <<conn, busy>>

\* Telemetry is set up before any goroutine starts; the health stubs are put
\* with the storage.  The functions that stop the tickers of the session
\* collectors are left out: nothing here depends on them.
ProcessInit ==
  /\ signalled = FALSE /\ loaded = FALSE /\ flushed = FALSE /\ exited = "no"
  /\ main = "build" /\ restPc = "load" /\ gatewayPc = "listen"
  /\ health = [m \in HealthMethods |-> "NOT_SERVING"]
  /\ fns = <<"telemetry">> /\ registered = <<>>
  /\ conn = [s \in Servers |-> "new"] /\ busy = [s \in Servers |-> FALSE]

Running == exited = "no"

\* Manager.Add waits for the mutex that Do holds to its end.
AddFn(fn) ==
  /\ main # "stopping"
  /\ fns' = Append(fns, fn)
  /\ UNCHANGED registered

\* Shutdown may come before Serve, which then returns at once.
Started(s) == conn' = [conn EXCEPT ![s] = IF @ = "new" THEN "started" ELSE @]

Signal ==
  /\ Running /\ ~signalled /\ signalled' = TRUE
  /\ UNCHANGED <<pcVars, loaded, health, enderVars, netVars, flushed, exited>>

----------------------------------------------------------------------------
(* The main goroutine: GRPCServe.                                          *)

\* The port, the descriptors, the proxies: any of them may fail.
BuildGRPC ==
  /\ Running /\ main = "build"
  /\ main' \in {"wait", "shutdown"}
  /\ UNCHANGED <<signalled, restPc, gatewayPc, loaded, health, enderVars, netVars,
                 flushed, exited>>

\* Fault: services are registered while the stubs are still loading.
WaitNoStubs ==
  /\ Running /\ main = "wait"
  /\ main' = "Check"
  /\ UNCHANGED <<signalled, restPc, gatewayPc, loaded, health, enderVars, netVars,
                 flushed, exited>>

\* Fault: the wait does not look at the context.
WaitDeaf ==
  /\ Running /\ main = "wait"
  /\ loaded
  /\ main' = "Check"
  /\ UNCHANGED <<signalled, restPc, gatewayPc, loaded, health, enderVars, netVars,
                 flushed, exited>>

\* Extender.Wait, and the registration of the services.
Wait ==
  /\ Running /\ main = "wait"
  /\ loaded \/ signalled
  /\ main' = "Check"
  /\ UNCHANGED <<signalled, restPc, gatewayPc, loaded, health, enderVars, netVars,
                 flushed, exited>>

\* SetAlive: two stubs, put one after the other.
SetAlive ==
  /\ Running /\ main \in HealthMethods
  /\ health' = [health EXCEPT ![main] = "SERVING"]
  /\ main' = IF main = "Check" THEN "Watch" ELSE "add"
  /\ UNCHANGED <<signalled, restPc, gatewayPc, loaded, enderVars, netVars, flushed, exited>>

AddGRPC ==
  /\ Running /\ main = "add"
  /\ AddFn("grpc") /\ main' = "serve" /\ Started("grpc")
  /\ UNCHANGED <<signalled, restPc, gatewayPc, loaded, health, busy, flushed, exited>>

\* The signal, or an error of the listener.
EndServe ==
  /\ Running /\ main = "serve"
  /\ \/ signalled /\ UNCHANGED conn
     \/ conn["grpc"] = "open" /\ conn' = [conn EXCEPT !["grpc"] = "closing"]
  /\ main' = "shutdown"
  /\ UNCHANGED <<signalled, restPc, gatewayPc, loaded, health, enderVars, busy,
                 flushed, exited>>

----------------------------------------------------------------------------
(* The goroutines of the REST server and of the gateway.                   *)

\* ReadFromPathSync, to the close of the channel.
LoadStubs ==
  /\ Running /\ restPc = "load"
  /\ loaded' = TRUE /\ restPc' = "add"
  /\ UNCHANGED <<signalled, main, gatewayPc, health, enderVars, netVars, flushed, exited>>

AddRest ==
  /\ Running /\ restPc = "add"
  /\ AddFn("rest") /\ restPc' = "listen"
  /\ UNCHANGED <<signalled, main, gatewayPc, loaded, health, netVars, flushed, exited>>

ListenRest ==
  /\ Running /\ restPc = "listen"
  /\ \/ Started("rest") /\ restPc' = "serve" /\ UNCHANGED exited
     \/ exited' = "fatal" /\ UNCHANGED <<conn, restPc>>
  /\ UNCHANGED <<signalled, main, gatewayPc, loaded, health, enderVars, busy, flushed>>

\* The gateway may be off.
ListenGateway ==
  /\ Running /\ gatewayPc = "listen"
  /\ \/ gatewayPc' \in {"off", "add"} /\ UNCHANGED exited
     \/ exited' = "fatal" /\ UNCHANGED gatewayPc
  /\ UNCHANGED <<signalled, main, restPc, loaded, health, enderVars, netVars, flushed>>

AddGateway ==
  /\ Running /\ gatewayPc = "add"
  /\ AddFn("gateway") /\ gatewayPc' = "serve" /\ Started("gateway")
  /\ UNCHANGED <<signalled, main, restPc, loaded, health, busy, flushed, exited>>

----------------------------------------------------------------------------
(* Requests.                                                               *)

Serve(s) ==
  /\ Running /\ conn[s] = "started"
  /\ conn' = [conn EXCEPT ![s] = "open"]
  /\ UNCHANGED <<signalled, pcVars, loaded, health, enderVars, busy, flushed, exited>>

\* The REST server and the gateway take the process with them.
ServeFails(s) ==
  /\ Running /\ conn[s] = "open" /\ s # "grpc"
  /\ exited' = "fatal"
  /\ UNCHANGED <<signalled, pcVars, loaded, health, enderVars, netVars, flushed>>

RequestStarts(s) ==
  /\ Running /\ conn[s] = "open" /\ ~busy[s]
  /\ busy' = [busy EXCEPT ![s] = TRUE]
  /\ UNCHANGED <<signalled, pcVars, loaded, health, enderVars, conn, flushed, exited>>

RequestEnds(s) ==
  /\ Running /\ busy[s]
  /\ busy' = [busy EXCEPT ![s] = FALSE]
  /\ UNCHANGED <<signalled, pcVars, loaded, health, enderVars, conn, flushed, exited>>

\* Clear wipes the internal stubs with the others.
PurgeStubs ==
  /\ Running /\ busy["rest"]
  /\ health' = [m \in HealthMethods |-> "none"]
  /\ UNCHANGED <<signalled, pcVars, loaded, enderVars, netVars, flushed, exited>>

----------------------------------------------------------------------------
(* Manager.Do, with a context that is never cancelled.                     *)

BeginDo ==
  /\ Running /\ main = "shutdown"
  /\ main' = "stopping" /\ registered' = fns
  /\ UNCHANGED <<signalled, restPc, gatewayPc, loaded, health, fns, netVars, flushed, exited>>

\* Fault: the functions run in the order of their registration.
StopFirst ==
  /\ Running /\ main = "stopping" /\ fns # <<>>
  /\ IF Head(fns) \in Servers /\ conn[Head(fns)] # "closed"
     THEN /\ conn' = [conn EXCEPT ![Head(fns)] = IF busy[Head(fns)] THEN "closing" ELSE "closed"]
          /\ UNCHANGED <<fns, flushed>>
     ELSE /\ fns' = Tail(fns)
          /\ flushed' = (flushed \/ Head(fns) = "telemetry") /\ UNCHANGED conn
  /\ UNCHANGED <<signalled, pcVars, loaded, health, registered, busy, exited>>

\* The last function that is left: Shutdown and GracefulStop take no new
\* requests, then wait for those in flight.
StopLast ==
  LET fn == Last(fns) IN
  /\ Running /\ main = "stopping" /\ fns # <<>>
  /\ IF fn \in Servers /\ conn[fn] # "closed"
     THEN /\ conn[fn] # "closing" \/ ~busy[fn]
          /\ conn' = [conn EXCEPT ![fn] = IF busy[fn] THEN "closing" ELSE "closed"]
          /\ UNCHANGED <<fns, flushed>>
     ELSE /\ fns' = Front(fns)
          /\ flushed' = (flushed \/ fn = "telemetry") /\ UNCHANGED conn
  /\ UNCHANGED <<signalled, pcVars, loaded, health, registered, busy, exited>>

EndDo ==
  /\ Running /\ main = "stopping" /\ fns = <<>>
  /\ main' = "exit"
  /\ UNCHANGED <<signalled, restPc, gatewayPc, loaded, health, enderVars, netVars, flushed, exited>>

Exit ==
  /\ Running /\ main = "exit"
  /\ exited' = "clean"
  /\ UNCHANGED <<signalled, pcVars, loaded, health, enderVars, netVars, flushed>>

----------------------------------------------------------------------------
Main ==
  BuildGRPC \/ Wait \/ SetAlive \/ AddGRPC \/ EndServe \/ BeginDo \/ StopLast \/ EndDo \/ Exit

ProcessNext ==
  \/ Main \/ Signal
  \/ LoadStubs \/ AddRest \/ ListenRest \/ ListenGateway \/ AddGateway
  \/ \E s \in Servers : Serve(s) \/ ServeFails(s) \/ RequestStarts(s) \/ RequestEnds(s)
  \/ PurgeStubs

\* The main goroutine runs; clients end their requests, which nothing but the
\* clients bounds.  The load of the stubs may hang, and other goroutines stop.
ProcessSpec ==
  /\ ProcessInit /\ [][ProcessNext]_processVars
  /\ WF_processVars(Main)
  /\ \A s \in Servers : WF_processVars(RequestEnds(s))

----------------------------------------------------------------------------
(* Properties.                                                             *)

\* GripMock says that it is ready only when the stubs are loaded: "When server
\* becomes ready, status updates to SERVING" (docs/guide/stubs/health.md:15).
\* After a signal, Wait lets the start-up go on without them.
ReadyAfterLoad ==
  (\E m \in HealthMethods : health[m] = "SERVING") /\ ~signalled => loaded

\* Do stops in reverse order, so that the tracer, registered first, is there
\* for every request of the servers that had registered; and the process does
\* not exit under such a request unless a goroutine calls Fatal.
Drained ==
  flushed \/ main = "exit" =>
    \A s \in Servers : s \in Range(registered) => ~busy[s] /\ conn[s] = "closed"

\* A signal ends the process if clients end their requests, although the
\* stubs may never be loaded and other goroutines may be blocked in Add.
ShutdownCompletes == signalled ~> exited # "no"
=============================================================================
