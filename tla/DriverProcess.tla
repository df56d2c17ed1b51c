---------------------------- MODULE DriverProcess ----------------------------
(***************************************************************************)
(* The life of the driver process (cmd/main.go, pkg/driver/driver.go and   *)
(* metrics_server.go): NewDriver's connection to TrueNAS, Run with its     *)
(* gRPC and metrics servers, and Stop, which a signal makes both main and  *)
(* Run call.  The requests that the server handles meanwhile look up the   *)
(* iSCSI portal or NVMe-oF port that NewDriver could not resolve.          *)
(*                                                                         *)
(* The client is the one of TrueNASClient, here only open or closed; what  *)
(* requests do besides is in the other modules.  A call may fail, or be    *)
(* executed while its caller is told it failed.                            *)
(***************************************************************************)
EXTENDS Integers

CONSTANTS
    Requests,   \* requests that may be handled at the same time
    Protocol,   \* "iscsi" or "nvmeof": which endpoint a request needs
    MaxFaults   \* bound: failed calls and servers

Endpoints == {"iscsi", "nvmeof"}

ASSUME DriverAssumption ==
    /\ Protocol \in [Requests -> Endpoints]
    /\ MaxFaults \in Nat

VARIABLES
    main,      \* where main is
    run,       \* where Run is
    stop,      \* where the calls of Stop by main and by Run are
    exit,      \* how the process ended
    client,    \* the TrueNAS client
    server,    \* d.server
    serve,     \* the goroutine of server.Serve
    metrics,   \* d.metricsServer
    watched,   \* whether Run listens to the errors of metrics
    sigCh, ctxDone,        \* the signal, as main and Run see it
    serverErr, errCh,      \* what Serve sends to Run, and Run to main
    request,   \* where the handler of a request is
    served,    \* the requests that were answered without an error
    portID,    \* the cached ids of endpoints
    port,      \* the endpoints that exist in TrueNAS
    signalled, expired, faults

procVars == <<main, run, stop, exit>>
srvVars  == <<server, serve, metrics, watched, serverErr>>
sigVars  == <<sigCh, ctxDone, errCh, signalled, expired>>
reqVars  == <<request, served, portID, port>>
vars     == <<procVars, client, srvVars, sigVars, reqVars, faults>>

Stoppers == {"main", "run"}

Init ==
    /\ main = "connect" /\ run = "none" /\ exit = "no"
    /\ stop = [x \in Stoppers |-> "no"]
    /\ client = "none"
    /\ server = "nil" /\ serve = "none" /\ metrics = "nil" /\ watched = FALSE
    /\ sigCh = FALSE /\ ctxDone = FALSE /\ serverErr = FALSE /\ errCh = "empty"
    /\ request = [r \in Requests |-> "none"]
    /\ served = {} /\ portID = {} /\ port \in SUBSET Endpoints
    /\ signalled = FALSE /\ expired = FALSE /\ faults = 0

Works == UNCHANGED faults
Fault == faults < MaxFaults /\ faults' = faults + 1

-----------------------------------------------------------------------------
(***************************************************************************)
(* NewDriver                                                               *)
(***************************************************************************)

\* An error ends the process.
Exit(how) == exit' = how /\ main' = "exited" /\ UNCHANGED <<run, stop>>

Proceed(p) == main' = p /\ UNCHANGED <<run, stop, exit>>

\* Connect waits while TrueNAS cannot be reached; it fails where the API
\* version is too old or the key is refused.
Connect ==
    /\ main = "connect"
    /\ \/ Works /\ client' = "open" /\ Proceed("ping")
       \/ Fault /\ Exit("error") /\ UNCHANGED client
    /\ UNCHANGED <<srvVars, sigVars, reqVars>>

Ping ==
    /\ main = "ping"
    /\ \/ Works /\ Proceed("pool") /\ UNCHANGED client
       \/ Fault /\ Exit("error") /\ client' = "closed"
    /\ UNCHANGED <<srvVars, sigVars, reqVars>>

\* The client is not closed when the pool is not there.
GetPool ==
    /\ main = "pool"
    /\ \/ Works /\ Proceed("portal")
       \/ Fault /\ Exit("error")
    /\ UNCHANGED <<client, srvVars, sigVars, reqVars>>

\* Failing to find the portal, or to find or create the port, is put off.
ResolvePortal ==
    /\ main = "portal"
    /\ \/ Works /\ portID' = portID \cup (port \cap {"iscsi"})
       \/ Fault /\ UNCHANGED portID
    /\ Proceed("port")
    /\ UNCHANGED <<client, srvVars, sigVars, request, served, port>>

ResolvePort ==
    /\ main = "port"
    /\ \/ Works /\ port' = port \cup {"nvmeof"} /\ portID' = portID \cup {"nvmeof"}
       \/ Fault /\ port' \in {port, port \cup {"nvmeof"}} /\ UNCHANGED portID
    /\ Proceed("node")
    /\ UNCHANGED <<client, srvVars, sigVars, request, served>>

NewNodeServer ==
    /\ main = "node"
    /\ \/ Works /\ Proceed("notify") /\ UNCHANGED client
       \/ Fault /\ Exit("error") /\ client' = "closed"
    /\ UNCHANGED <<srvVars, sigVars, reqVars>>

-----------------------------------------------------------------------------
(***************************************************************************)
(* main                                                                    *)
(***************************************************************************)

\* main asks for signals, and starts Run.
StartRun ==
    /\ main = "notify"
    /\ main' = "select" /\ run' = "start"
    /\ UNCHANGED <<stop, exit, client, srvVars, sigVars, reqVars, faults>>

\* SIGTERM or SIGINT: it goes to whom asked for it, and kills the process
\* before main has.
Signal ==
    /\ ~signalled /\ signalled' = TRUE
    /\ IF main \in {"select", "stopping"}
       THEN /\ sigCh' = TRUE /\ ctxDone' = (run \notin {"none", "start"})
            /\ UNCHANGED procVars
       ELSE UNCHANGED <<sigCh, ctxDone>> /\ Exit("killed")
    /\ UNCHANGED <<client, srvVars, errCh, expired, reqVars, faults>>

MainReturned ==
    /\ main = "select" /\ errCh # "empty"
    /\ Exit(errCh)
    /\ UNCHANGED <<client, srvVars, sigVars, reqVars, faults>>

MainSignal ==
    /\ main = "select" /\ sigCh
    /\ main' = "stopping" /\ stop' = [stop EXCEPT !["main"] = "metrics"]
    /\ sigCh' = FALSE
    /\ UNCHANGED <<run, exit, client, srvVars, ctxDone, errCh, signalled, expired, reqVars, faults>>

MainStopped ==
    /\ main = "stopping" /\ stop["main"] = "done"
    /\ Exit("ok")
    /\ UNCHANGED <<client, srvVars, sigVars, reqVars, faults>>

-----------------------------------------------------------------------------
(***************************************************************************)
(* Run                                                                     *)
(***************************************************************************)

RunAt(p) == run' = p /\ UNCHANGED <<main, stop, exit>>

\* Run asks for signals of its own.
RunNotify ==
    /\ run = "start" /\ RunAt("listen")
    /\ UNCHANGED <<client, srvVars, sigVars, reqVars, faults>>

RunListen ==
    /\ run = "listen"
    /\ \/ Works /\ RunAt("server") /\ UNCHANGED errCh
       \/ Fault /\ RunAt("returned") /\ errCh' = "error"
    /\ UNCHANGED <<client, srvVars, sigCh, ctxDone, signalled, expired, reqVars>>

RunServer ==
    /\ run = "server" /\ RunAt("metrics")
    /\ server' = "new"
    /\ UNCHANGED <<client, serve, metrics, watched, serverErr, sigVars, reqVars, faults>>

\* NewMetricsServer and its Start; without an address, or where the address
\* cannot be bound, there is none.
RunMetrics ==
    /\ run = "metrics" /\ RunAt("serve")
    /\ metrics' \in {"nil", "serving"}
    /\ UNCHANGED <<client, server, serve, watched, serverErr, sigVars, reqVars, faults>>

RunServe ==
    /\ run = "serve" /\ RunAt("select")
    /\ serve' = "starting" /\ watched' = (metrics # "nil")
    /\ UNCHANGED <<client, server, metrics, serverErr, sigVars, reqVars, faults>>

\* Serve of a server that was stopped before returns an error.
ServeStart ==
    /\ serve = "starting"
    /\ IF server = "new" THEN server' = "serving" /\ serve' = "running" /\ UNCHANGED serverErr
       ELSE serve' = "returned" /\ serverErr' = TRUE /\ UNCHANGED server
    /\ UNCHANGED <<procVars, client, metrics, watched, sigVars, reqVars, faults>>

\* Serve returns, with an error unless the server is being stopped.
ServeReturn ==
    /\ serve = "running"
    /\ \/ server = "serving" /\ Fault /\ serverErr' = TRUE
       \/ server # "serving" /\ Works /\ UNCHANGED serverErr
    /\ serve' = "returned"
    /\ UNCHANGED <<procVars, client, server, metrics, watched, sigVars, reqVars>>

MetricsFail ==
    /\ metrics = "serving" /\ Fault
    /\ metrics' = "failed"
    /\ UNCHANGED <<procVars, client, server, serve, watched, serverErr, sigVars, reqVars>>

RunStop(p) ==
    /\ run' = p /\ stop' = [stop EXCEPT !["run"] = "metrics"]
    /\ UNCHANGED <<main, exit>>

\* MUTANT of RunSelect: a failed metrics endpoint is a failed server.
RunSelectMetrics ==
    /\ run = "select"
    /\ \/ ctxDone /\ RunStop("stopping") /\ UNCHANGED watched
       \/ serverErr /\ RunStop("failing") /\ UNCHANGED watched
       \/ metrics = "failed" /\ watched /\ watched' = FALSE /\ RunStop("failing")
    /\ UNCHANGED <<client, server, serve, metrics, serverErr, sigVars, reqVars, faults>>

\* A signal or a server error stops the driver, a metrics error does not.
RunSelect ==
    /\ run = "select"
    /\ \/ ctxDone /\ RunStop("stopping") /\ UNCHANGED watched
       \/ serverErr /\ RunStop("failing") /\ UNCHANGED watched
       \/ metrics = "failed" /\ watched /\ watched' = FALSE /\ UNCHANGED procVars
    /\ UNCHANGED <<client, server, serve, metrics, serverErr, sigVars, reqVars, faults>>

\* MUTANT of RunReturn: Run calls Stop in a goroutine.
RunReturnEarly ==
    /\ run \in {"stopping", "failing"}
    /\ errCh' = IF run = "failing" THEN "error" ELSE "ok"
    /\ RunAt("returned")
    /\ UNCHANGED <<client, srvVars, sigCh, ctxDone, signalled, expired, reqVars, faults>>

RunReturn ==
    /\ run \in {"stopping", "failing"} /\ stop["run"] = "done"
    /\ errCh' = IF run = "failing" THEN "error" ELSE "ok"
    /\ RunAt("returned")
    /\ UNCHANGED <<client, srvVars, sigCh, ctxDone, signalled, expired, reqVars, faults>>

-----------------------------------------------------------------------------
(***************************************************************************)
(* Stop                                                                    *)
(***************************************************************************)

StopAt(x, p) == stop' = [stop EXCEPT ![x] = p] /\ UNCHANGED <<main, run, exit>>

Handled == \A r \in Requests : request[r] = "none"

\* The metrics server is shut down, if there is one yet.
StopMetrics(x) ==
    /\ stop[x] = "metrics" /\ StopAt(x, "drain")
    /\ metrics' = IF metrics = "nil" THEN "nil" ELSE "down"
    /\ UNCHANGED <<client, server, serve, watched, serverErr, sigVars, reqVars, faults>>

\* GracefulStop in a goroutine: the server takes no more requests.  Where Run
\* has not made the server yet this panics, and nobody recovers.
StopDrain(x) ==
    /\ stop[x] = "drain"
    /\ IF server = "nil" THEN Exit("panic") /\ UNCHANGED server
       ELSE server' = "stopped" /\ StopAt(x, "wait")
    /\ UNCHANGED <<client, serve, metrics, watched, serverErr, sigVars, reqVars, faults>>

\* MUTANT of StopWait: the handlers are not waited for.
StopWaitNot(x) ==
    /\ stop[x] = "wait" /\ StopAt(x, "close")
    /\ UNCHANGED <<client, srvVars, sigVars, reqVars, faults>>

\* It returns when every handler has.
StopWait(x) ==
    /\ stop[x] = "wait" /\ Handled /\ StopAt(x, "close")
    /\ UNCHANGED <<client, srvVars, sigVars, reqVars, faults>>

\* MUTANT of StopForce: a handler that hangs is waited for.
StopForceNever(x) == stop[x] = "wait" /\ FALSE /\ UNCHANGED vars

\* GracefulShutdownTimeout passes: the connections are closed, under the
\* handlers that still run.
StopForce(x) ==
    /\ stop[x] = "wait" /\ ~Handled /\ StopAt(x, "close")
    /\ expired' = TRUE
    /\ UNCHANGED <<client, srvVars, sigCh, ctxDone, errCh, signalled, reqVars, faults>>

\* Close of the client, which may be the second
StopClose(x) ==
    /\ stop[x] = "close" /\ StopAt(x, "done")
    /\ client' = "closed"
    /\ UNCHANGED <<srvVars, sigVars, reqVars, faults>>

-----------------------------------------------------------------------------
(***************************************************************************)
(* Requests                                                                *)
(***************************************************************************)

HandlerAt(r, p) == request' = [request EXCEPT ![r] = p]

CallWorks == client = "open" /\ Works
CallFails == (client = "closed" /\ Works) \/ Fault

Receive(r) ==
    /\ request[r] = "none" /\ r \notin served /\ server = "serving"
    /\ HandlerAt(r, IF Protocol[r] \in portID THEN "work" ELSE "query")
    /\ UNCHANGED <<procVars, client, srvVars, sigVars, served, portID, port, faults>>

\* The id is kept for later requests; nothing is locked.
Resolved(r) == portID' = portID \cup {Protocol[r]} /\ HandlerAt(r, "work")

\* MUTANT of QueryPort: a port that is not there is an error.
QueryPortOnly(r) ==
    /\ request[r] = "query"
    /\ \/ CallWorks /\ Protocol[r] \in port /\ Resolved(r)
       \/ /\ CallFails \/ (CallWorks /\ Protocol[r] \notin port)
          /\ HandlerAt(r, "none") /\ UNCHANGED portID
    /\ UNCHANGED <<procVars, client, srvVars, sigVars, served, port>>

\* A missing NVMe-oF port is created, a missing iSCSI portal an error.  The
\* address of the portal is configured: without it every request for that
\* protocol is refused before any call.
QueryPort(r) ==
    /\ request[r] = "query"
    /\ \/ CallWorks /\ Protocol[r] \in port /\ Resolved(r)
       \/ /\ CallWorks /\ Protocol[r] \notin port /\ UNCHANGED portID
          /\ HandlerAt(r, IF Protocol[r] = "nvmeof" THEN "create" ELSE "none")
       \/ CallFails /\ HandlerAt(r, "none") /\ UNCHANGED portID
    /\ UNCHANGED <<procVars, client, srvVars, sigVars, served, port>>

\* TrueNAS has one port per address: the second of two that create it gets an
\* error, and so does its caller.
CreatePort(r) ==
    /\ request[r] = "create"
    /\ \/ /\ CallWorks /\ "nvmeof" \notin port
          /\ port' = port \cup {"nvmeof"} /\ Resolved(r)
       \/ /\ CallFails \/ (CallWorks /\ "nvmeof" \in port)
          /\ HandlerAt(r, "none") /\ UNCHANGED <<port, portID>>
       \/ /\ client = "open" /\ Fault /\ port' = port \cup {"nvmeof"}
          /\ HandlerAt(r, "none") /\ UNCHANGED portID
    /\ UNCHANGED <<procVars, client, srvVars, sigVars, served>>

\* What the request does then; it may take any time.
Answer(r) ==
    /\ request[r] = "work"
    /\ \/ CallWorks /\ served' = served \cup {r}
       \/ CallFails /\ UNCHANGED served
    /\ HandlerAt(r, "none")
    /\ UNCHANGED <<procVars, client, srvVars, sigVars, portID, port>>

-----------------------------------------------------------------------------
NewDriver == Connect \/ Ping \/ GetPool \/ ResolvePortal \/ ResolvePort \/ NewNodeServer

Main == NewDriver \/ StartRun \/ MainReturned \/ MainSignal \/ MainStopped

Run == RunNotify \/ RunListen \/ RunServer \/ RunMetrics \/ RunServe \/ RunSelect \/ RunReturn

Serve == ServeStart \/ ServeReturn

Stop(x) == StopMetrics(x) \/ StopDrain(x) \/ StopWait(x) \/ StopForce(x) \/ StopClose(x)

Handle(r) == QueryPort(r) \/ CreatePort(r) \/ Answer(r)

\* Nothing happens any more when the process has ended.
Alive == exit = "no"

Next ==
    /\ Alive
    /\ \/ Main \/ Run \/ Serve \/ Signal \/ MetricsFail
       \/ \E x \in Stoppers : Stop(x)
       \/ \E r \in Requests : Receive(r) \/ Handle(r)

Spec == Init /\ [][Next]_vars

\* Goroutines run on and timers fire; a handler may hang in a call that has no
\* deadline.
Fairness ==
    /\ WF_vars(Alive /\ Main) /\ WF_vars(Alive /\ Run) /\ WF_vars(Alive /\ Serve)
    /\ \A x \in Stoppers : WF_vars(Alive /\ Stop(x))

FairSpec == Spec /\ Fairness

\* The CO calls until it has its answer, and no handler hangs.
Handling == \A r \in Requests : WF_vars(Alive /\ Receive(r)) /\ WF_vars(Alive /\ Handle(r))

-----------------------------------------------------------------------------
(***************************************************************************)
(* Properties                                                              *)
(***************************************************************************)

TypeProc ==
    /\ main \in {"connect", "ping", "pool", "portal", "port", "node", "notify", "select",
                 "stopping", "exited"}
    /\ run \in {"none", "start", "listen", "server", "metrics", "serve", "select", "stopping",
                "failing", "returned"}
    /\ stop \in [Stoppers -> {"no", "metrics", "drain", "wait", "close", "done"}]
    /\ exit \in {"no", "ok", "error", "killed", "panic"}
    /\ client \in {"none", "open", "closed"}
TypeServers ==
    /\ server \in {"nil", "new", "serving", "stopped"}
    /\ serve \in {"none", "starting", "running", "returned"}
    /\ metrics \in {"nil", "serving", "failed", "down"}
    /\ watched \in BOOLEAN /\ serverErr \in BOOLEAN
TypeSignals ==
    /\ errCh \in {"empty", "ok", "error"}
    /\ sigCh \in BOOLEAN /\ ctxDone \in BOOLEAN
    /\ signalled \in BOOLEAN /\ expired \in BOOLEAN
TypeRequests ==
    /\ request \in [Requests -> {"none", "query", "create", "work"}]
    /\ served \subseteq Requests /\ portID \subseteq Endpoints /\ port \subseteq Endpoints

\* Every variable has its type.
TypeOK == TypeProc /\ TypeServers /\ TypeSignals /\ TypeRequests /\ faults \in Nat

\* Two calls of Stop at once do not cut a request off: the client is closed,
\* and the process ends by itself, only when every handler has returned or
\* GracefulShutdownTimeout has passed.
Drained ==
    run # "none" /\ (client = "closed" \/ exit = "ok") => Handled \/ expired

\* "Metrics endpoint stopped, continuing to serve volumes": only a signal and
\* an error of the gRPC server stop a driver that has started.
MetricsOptional ==
    server = "stopped" => signalled \/ serverErr

\* A process that is told to stop ends, whatever its handlers do.
SignalEnds == signalled ~> exit # "no"

\* A request for an NVMe-oF volume finds or makes the shared port in the end,
\* although a request that creates it at the same time may make it fail, where
\* its address is configured.
PortsConverge ==
    Handling => \A r \in Requests :
      (Protocol[r] = "nvmeof" /\ server = "serving") ~> (r \in served \/ server # "serving")

(***************************************************************************)
(* The inductive invariant behind the theorems of DriverProofs             *)
(***************************************************************************)

NewPCs == {"connect", "ping", "pool", "portal", "port", "node", "notify"}

\* Run comes after NewDriver, and Stop after that.
Started ==
    /\ main \in NewPCs => run = "none" /\ client # "closed"
    /\ main \in {"select", "stopping"} => run # "none"
    /\ main \in NewPCs \cup {"select"} => stop["main"] = "no"
    /\ run \notin {"stopping", "failing", "returned"} => stop["run"] = "no"
    /\ run \in {"none", "start", "listen", "server"} => server = "nil"
    /\ errCh = "ok" => run = "returned" /\ stop["run"] = "done"
    /\ exit = "ok" => \E x \in Stoppers : stop[x] = "done"

\* Nobody stops the driver for nothing.
Caused ==
    /\ sigCh \/ ctxDone \/ stop["main"] # "no" => signalled
    /\ stop["run"] # "no" => signalled \/ serverErr
    /\ server = "stopped" => \E x \in Stoppers : stop[x] # "no"

\* A server that is stopped takes no request, so that what Stop waited for
\* stays.
Quiet ==
    /\ \A x \in Stoppers : stop[x] \in {"wait", "close", "done"} => server = "stopped"
    /\ \A x \in Stoppers : stop[x] \in {"close", "done"} => Handled \/ expired
    /\ run # "none" /\ client = "closed" => \E x \in Stoppers : stop[x] = "done"

DriverInv == TypeOK /\ Started /\ Caused /\ Quiet

(***************************************************************************)
(* What a comment says of Stop, and an early signal refutes                *)
(***************************************************************************)

\* "Stop gracefully shuts down the CSI driver with a timeout." (driver.go:628)
StopsGracefully == exit # "panic"
=============================================================================
