---------------------------- MODULE TrueNASClient ----------------------------
(***************************************************************************)
(* The TrueNAS WebSocket client (pkg/client/client.go): one connection,    *)
(* its read and ping goroutines, the reconnection goroutine, concurrent    *)
(* callers, and Close.  Every goroutine is a process with its own program  *)
(* counter; a step is the code between two points at which another         *)
(* goroutine can see or change the shared state.                           *)
(***************************************************************************)
EXTENDS Integers, FiniteSets

CONSTANTS
    Callers,              \* goroutines that invoke Call
    Unbounded,            \* those that do so with context.Background()
    Loops,                \* names for reconnectLoop goroutines
    Main,                 \* the goroutine that runs Connect (driver.go:399)
    None,                 \* "no value"
    MaxSockets,           \* bound: connections installed in a behaviour
    MaxCalls,             \* bound: invocations of Call in a behaviour
    Stops,                \* bound: whether the driver may be stopped (Close)
    MaxConcurrentCalls,   \* Config.MaxConcurrentCalls
    MaxReconnectAttempts  \* Config.MaxReconnectAttempts, 0 means unlimited

Nil     == 0              \* the nil *websocket.Conn and the nil channel
Sockets == 1..MaxSockets
Dialers == Loops \cup {Main}

ASSUME ConstantsAssumption ==
    /\ MaxSockets \in Nat /\ MaxCalls \in Nat
    /\ Stops \in BOOLEAN
    /\ MaxConcurrentCalls \in Nat \ {0}
    /\ MaxReconnectAttempts \in Nat
    /\ Main \notin Loops
    /\ None \notin Callers /\ Unbounded \subseteq Callers /\ IsFiniteSet(Callers)

VARIABLES
    \* fields of Client; a done channel has the number of its socket
    conn, connDone, reconnecting, closed, done, permits, nextID, pending,
    doneClosed,  \* done channels that have been closed
    panicked,    \* a closed channel was closed again
    gauge,       \* the truenas_connection_status gauge
    \* connections and the goroutines that belong to one
    installed,   \* how many connections dial has installed
    sock,        \* "unused", "open", "broken" (peer gone), "closed" (by us)
    wire,        \* requests on an open socket that may still be answered
    reader, pinger,
    hd,          \* progress of handleDisconnect on a socket
    hdMark,      \* nextID when its Range over pending began
    \* goroutines that dial, and Close
    dpc, attempt,
    closer, closeConn,
    \* locals of Call
    pc, cconn, cid, err, reauth, ctxDone, resp, calls

clientVars == <<conn, connDone, doneClosed, panicked>>
flagVars   == <<reconnecting, closed, done>>
reqVars    == <<nextID, pending, resp, wire>>
sockVars   == <<installed, sock, reader, pinger>>
hdVars     == <<hd, hdMark>>
dialVars   == <<dpc, attempt>>
closeVars  == <<closer, closeConn>>
callVars   == <<pc, cconn, cid, err, reauth, ctxDone, calls, permits>>

vars == <<clientVars, flagVars, reqVars, sockVars, hdVars, dialVars,
          callVars, closeVars, gauge>>

\* Outcomes of callOn.  "minus1" is an RPC error of TrueNAS that happens to
\* carry code -1; "lost" is the -1 error handleDisconnect makes up.
Replies  == {"ok", "rpcErr", "minus1", "notAuth"}
Errors   == {"rpcErr", "minus1", "notAuth", "lost", "connErr"}
CallPCs  == {"idle", "acquire", "loop", "waitConn", "send", "await", "handle",
             "inHandle", "reauthWait", "retryWait"}
DialPCs  == {"none", "wait", "dial", "auth", "status", "failConn", "failAuth",
             "exit", "startLoop", "waitConn", "returned", "failed"}
WatchPCs == {"off", "run", "hd", "exit"}
HdPCs    == {"none", "close", "range", "restart", "done"}

Connected == conn # Nil
LiveLoops == {l \in Loops : dpc[l] # "none"}

Init ==
    /\ conn = Nil /\ connDone = Nil /\ doneClosed = {} /\ panicked = FALSE
    /\ reconnecting = FALSE /\ closed = FALSE /\ done = FALSE
    /\ permits = MaxConcurrentCalls
    /\ nextID = 0 /\ pending = {} /\ gauge = 0
    /\ installed = 0
    /\ sock = [s \in Sockets |-> "unused"]
    /\ wire = [s \in Sockets |-> {}]
    /\ reader = [s \in Sockets |-> "off"]
    /\ pinger = [s \in Sockets |-> "off"]
    /\ hd = [s \in Sockets |-> "none"]
    /\ hdMark = [s \in Sockets |-> 0]
    /\ dpc = [d \in Dialers |-> IF d = Main THEN "dial" ELSE "none"]
    /\ attempt = [l \in Loops |-> 0]
    /\ closer = "idle" /\ closeConn = Nil
    /\ pc = [c \in Callers |-> "idle"]
    /\ cconn = [c \in Callers |-> Nil]
    /\ cid = [c \in Callers |-> 0]
    /\ err = [c \in Callers |-> "none"]
    /\ reauth = [c \in Callers |-> FALSE]
    /\ ctxDone = [c \in Callers |-> FALSE]
    /\ resp = [c \in Callers |-> None]
    /\ calls = 0

-----------------------------------------------------------------------------
(***************************************************************************)
(* dial, run by Connect and by reconnectLoop.  The id its login request    *)
(* takes from nextID is seen by nobody else and is not counted.            *)
(***************************************************************************)

\* `closed` is read once, before websocket.Dial.
DialStart(d) ==
    /\ dpc[d] = "dial"
    /\ \/ closed /\ dpc' = [dpc EXCEPT ![d] = "failAuth"]
       \/ ~closed /\ \E r \in {"auth", "failConn"} : dpc' = [dpc EXCEPT ![d] = r]
    /\ UNCHANGED <<clientVars, flagVars, reqVars, sockVars, hdVars, attempt,
                   callVars, gauge, closeVars>>

\* The login fails on the wire, or is rejected; the socket is closed again.
DialAuthFail(d) ==
    /\ dpc[d] = "auth"
    /\ \E r \in {"failConn", "failAuth"} : dpc' = [dpc EXCEPT ![d] = r]
    /\ UNCHANGED <<clientVars, flagVars, reqVars, sockVars, hdVars, attempt,
                   callVars, gauge, closeVars>>

\* The login succeeds: the connection is published under connMu and its two
\* goroutines start.
DialInstall(d) ==
    /\ dpc[d] = "auth"
    /\ installed < MaxSockets
    /\ installed' = installed + 1
    /\ conn' = installed + 1
    /\ connDone' = installed + 1
    /\ sock' = [sock EXCEPT ![installed + 1] = "open"]
    /\ reader' = [reader EXCEPT ![installed + 1] = "run"]
    /\ pinger' = [pinger EXCEPT ![installed + 1] = "run"]
    /\ dpc' = [dpc EXCEPT ![d] = "status"]
    /\ UNCHANGED <<doneClosed, panicked, flagVars, reqVars, hdVars, attempt,
                   callVars, gauge, closeVars>>

\* The deferred metrics call of a dial that succeeded, and its return.
DialReturn(d) ==
    /\ dpc[d] = "status"
    /\ gauge' = 1
    /\ dpc' = [dpc EXCEPT ![d] = IF d = Main THEN "returned" ELSE "exit"]
    /\ UNCHANGED <<clientVars, flagVars, reqVars, sockVars, hdVars, attempt,
                   callVars, closeVars>>

\* The deferred metrics call of a dial that failed.  The loop backs off and
\* tries again; Connect gives up unless it was a ConnectionError.
DialFail(d) ==
    /\ dpc[d] \in {"failConn", "failAuth"}
    /\ gauge' = 0
    /\ dpc' = [dpc EXCEPT ![d] =
                 IF d \in Loops THEN "wait"
                 ELSE IF dpc[d] = "failConn" THEN "startLoop" ELSE "failed"]
    /\ UNCHANGED <<clientVars, flagVars, reqVars, sockVars, hdVars, attempt,
                   callVars, closeVars>>

-----------------------------------------------------------------------------
(***************************************************************************)
(* reconnectLoop and Connect                                               *)
(***************************************************************************)

\* MUTANT of StartLoop: the loop is started without the compare-and-swap.
StartLoopUnguarded(base) ==
    /\ reconnecting' = TRUE
    /\ \E l \in Loops :
         /\ dpc[l] = "none"
         /\ dpc' = [base EXCEPT ![l] = "wait"]
         /\ attempt' = [attempt EXCEPT ![l] = 0]

\* reconnecting.CompareAndSwap(false, true), and the goroutine it starts;
\* `base` is dpc with the caller's own move.
StartLoop(base) ==
    \/ /\ reconnecting
       /\ dpc' = base
       /\ UNCHANGED <<reconnecting, attempt>>
    \/ /\ ~reconnecting
       /\ reconnecting' = TRUE
       /\ \E l \in Loops :
            /\ dpc[l] = "none"
            /\ dpc' = [base EXCEPT ![l] = "wait"]
            /\ attempt' = [attempt EXCEPT ![l] = 0]

\* Connect after a ConnectionError.
ConnectStartLoop ==
    /\ dpc[Main] = "startLoop"
    /\ StartLoop([dpc EXCEPT ![Main] = "waitConn"])
    /\ UNCHANGED <<clientVars, closed, done, reqVars, sockVars, hdVars,
                   callVars, gauge, closeVars>>

\* MUTANT of ConnectWait: Connect dials again beside the loop it started.
ConnectRedial ==
    /\ dpc[Main] = "waitConn"
    /\ dpc' = [dpc EXCEPT ![Main] = "dial"]
    /\ UNCHANGED <<attempt, clientVars, flagVars, reqVars, sockVars, hdVars,
                   callVars, gauge, closeVars>>

\* Connect's waitForConnection; its context is context.Background().
ConnectWait ==
    /\ dpc[Main] = "waitConn"
    /\ Connected
    /\ dpc' = [dpc EXCEPT ![Main] = "returned"]
    /\ UNCHANGED <<clientVars, flagVars, reqVars, sockVars, hdVars, attempt,
                   callVars, gauge, closeVars>>

\* MUTANT of LoopWake: neither Close nor a connection ends the loop.
LoopWakeForever(l) ==
    /\ dpc[l] = "wait"
    /\ dpc' = [dpc EXCEPT ![l] = "dial"]
    /\ UNCHANGED <<attempt, clientVars, flagVars, reqVars, sockVars, hdVars, callVars,
                   gauge, closeVars>>

\* One turn of reconnectLoop up to the dial: `done`, or the back-off timer
\* followed by the closed/connected and the attempt checks.
LoopWake(l) ==
    /\ dpc[l] = "wait"
    /\ \/ /\ \/ done \/ closed \/ Connected
             \/ /\ MaxReconnectAttempts > 0
                /\ attempt[l] + 1 > MaxReconnectAttempts
          /\ dpc' = [dpc EXCEPT ![l] = "exit"]
          /\ UNCHANGED attempt
       \/ /\ ~closed /\ ~Connected
          /\ MaxReconnectAttempts = 0 \/ attempt[l] + 1 <= MaxReconnectAttempts
          /\ attempt' = [attempt EXCEPT ![l] =
                           IF MaxReconnectAttempts = 0 THEN 0 ELSE @ + 1]
          /\ dpc' = [dpc EXCEPT ![l] = "dial"]
    /\ UNCHANGED <<clientVars, flagVars, reqVars, sockVars, hdVars, callVars,
                   gauge, closeVars>>

\* The deferred reconnecting.Store(false).
LoopExit(l) ==
    /\ dpc[l] = "exit"
    /\ reconnecting' = FALSE
    /\ dpc' = [dpc EXCEPT ![l] = "none"]
    /\ UNCHANGED <<clientVars, closed, done, reqVars, sockVars, hdVars,
                   attempt, callVars, gauge, closeVars>>

-----------------------------------------------------------------------------
(***************************************************************************)
(* handleDisconnect.  Only one goroutine gets past the check under connMu  *)
(* for a given socket, so its progress is kept per socket.                 *)
(***************************************************************************)

\* MUTANT of CloseConnDone: connDone keeps the channel that was closed.
CloseConnDoneKept ==
    /\ panicked' = (panicked \/ connDone \in doneClosed)
    /\ doneClosed' = doneClosed \cup ({connDone} \ {Nil})
    /\ connDone' = connDone

\* close(c.connDone); c.connDone = nil
CloseConnDone ==
    /\ panicked' = (panicked \/ connDone \in doneClosed)
    /\ doneClosed' = doneClosed \cup ({connDone} \ {Nil})
    /\ connDone' = Nil

\* MUTANT of Disconnect: a stale call closes the current done channel too.
DisconnectStale(s) ==
    /\ CloseConnDone
    /\ conn' = IF conn = s THEN Nil ELSE conn
    /\ hd' = IF conn = s THEN [hd EXCEPT ![s] = "close"] ELSE hd

\* The critical section of handleDisconnect(s).
Disconnect(s) ==
    \/ conn # s /\ UNCHANGED <<clientVars, hd>>
    \/ /\ conn = s
       /\ CloseConnDone
       /\ conn' = Nil
       /\ hd' = [hd EXCEPT ![s] = "close"]

\* MUTANT of HdClose: the gauge is decremented.
HdCloseDec(s) ==
    /\ hd[s] = "close"
    /\ gauge' = gauge - 1
    /\ sock' = [sock EXCEPT ![s] = "closed"]
    /\ wire' = [wire EXCEPT ![s] = {}]
    /\ hd' = [hd EXCEPT ![s] = "range"]
    /\ hdMark' = [hdMark EXCEPT ![s] = nextID]
    /\ UNCHANGED <<clientVars, flagVars, nextID, pending, resp, installed, reader, pinger,
                   dialVars, callVars, closeVars>>

\* MUTANT of HdClose: the socket is not closed.
HdForget(s) ==
    /\ hd[s] = "close"
    /\ gauge' = 0
    /\ hd' = [hd EXCEPT ![s] = "range"]
    /\ hdMark' = [hdMark EXCEPT ![s] = nextID]
    /\ UNCHANGED <<clientVars, flagVars, reqVars, sockVars, dialVars,
                   callVars, closeVars>>

\* SetConnectionStatus(false), conn.Close, and the start of the Range.
HdClose(s) ==
    /\ hd[s] = "close"
    /\ gauge' = 0
    /\ sock' = [sock EXCEPT ![s] = "closed"]
    /\ wire' = [wire EXCEPT ![s] = {}]
    /\ hd' = [hd EXCEPT ![s] = "range"]
    /\ hdMark' = [hdMark EXCEPT ![s] = nextID]
    /\ UNCHANGED <<clientVars, flagVars, nextID, pending, resp, installed, reader, pinger,
                   dialVars, callVars, closeVars>>

\* A send on a channel of capacity one that is dropped when it is full.
Send1(c, r) == resp' = [resp EXCEPT ![c] = IF @ = None THEN r ELSE @]

\* One key of the Range over pending; a request stored meanwhile may or may
\* not be visited.
HdFail(s, p) ==
    /\ hd[s] = "range"
    /\ Send1(p.by, [kind |-> "lost", by |-> p.by])
    /\ pending' = pending \ {p}
    /\ UNCHANGED <<clientVars, flagVars, nextID, wire, sockVars, hdVars,
                   dialVars, callVars, gauge, closeVars>>

\* The Range ends when every key present when it began is gone; then
\* `closed` is read.
HdEnd(s) ==
    /\ hd[s] = "range"
    /\ \A p \in pending : p.id > hdMark[s]
    /\ hd' = [hd EXCEPT ![s] = IF closed THEN "done" ELSE "restart"]
    /\ hdMark' = [hdMark EXCEPT ![s] = 0]
    /\ UNCHANGED <<clientVars, flagVars, reqVars, sockVars, dialVars, callVars,
                   gauge, closeVars>>

HdRestart(s) ==
    /\ hd[s] = "restart"
    /\ hd' = [hd EXCEPT ![s] = "done"]
    /\ StartLoop(dpc)
    /\ UNCHANGED <<clientVars, closed, done, reqVars, sockVars, hdMark, callVars,
                   gauge, closeVars>>

-----------------------------------------------------------------------------
(***************************************************************************)
(* readLoop and pingLoop of a socket, and its peer                         *)
(***************************************************************************)

\* The peer answers a request and readLoop dispatches the answer to whoever
\* is registered under its id.
ReaderDeliver(s, m) ==
    /\ reader[s] = "run"
    /\ sock[s] = "open"
    /\ wire' = [wire EXCEPT ![s] = @ \ {m}]
    /\ \/ /\ \A p \in pending : p.id # m.id
          /\ UNCHANGED <<pending, resp>>
       \/ \E p \in pending, k \in Replies :
            /\ p.id = m.id
            /\ pending' = pending \ {p}
            /\ Send1(p.by, [kind |-> k, by |-> m.by])
    /\ UNCHANGED <<clientVars, flagVars, nextID, sockVars, hdVars, dialVars,
                   callVars, gauge, closeVars>>

\* A read fails, or the loop sees its done channel closed.
ReaderFail(s) ==
    /\ reader[s] = "run"
    /\ sock[s] # "open" \/ s \in doneClosed
    /\ reader' = [reader EXCEPT ![s] = IF s \in doneClosed THEN "exit" ELSE "hd"]
    /\ UNCHANGED <<clientVars, flagVars, reqVars, installed, sock, pinger,
                   hdVars, dialVars, callVars, gauge, closeVars>>

ReaderDisconnect(s) ==
    /\ reader[s] = "hd"
    /\ reader' = [reader EXCEPT ![s] = "exit"]
    /\ Disconnect(s)
    /\ UNCHANGED <<flagVars, reqVars, installed, sock, pinger, hdMark,
                   dialVars, callVars, gauge, closeVars>>

\* A ping fails (also by timing out on a healthy socket), or the loop sees
\* its done channel closed.
PingFail(s) ==
    /\ pinger[s] = "run"
    /\ pinger' = [pinger EXCEPT ![s] = IF s \in doneClosed THEN "exit" ELSE "hd"]
    /\ UNCHANGED <<clientVars, flagVars, reqVars, installed, sock, reader,
                   hdVars, dialVars, callVars, gauge, closeVars>>

\* MUTANT of PingDisconnect: the goroutine just returns.
PingReturn(s) ==
    /\ pinger[s] = "hd"
    /\ pinger' = [pinger EXCEPT ![s] = "exit"]
    /\ UNCHANGED <<clientVars, flagVars, reqVars, installed, sock, reader,
                   hdVars, dialVars, callVars, gauge, closeVars>>

PingDisconnect(s) ==
    /\ pinger[s] = "hd"
    /\ pinger' = [pinger EXCEPT ![s] = "exit"]
    /\ Disconnect(s)
    /\ UNCHANGED <<flagVars, reqVars, installed, sock, reader, hdMark,
                   dialVars, callVars, gauge, closeVars>>

\* The network or TrueNAS drops a connection.
Break(s) ==
    /\ sock[s] = "open"
    /\ sock' = [sock EXCEPT ![s] = "broken"]
    /\ wire' = [wire EXCEPT ![s] = {}]
    /\ UNCHANGED <<clientVars, flagVars, nextID, pending, resp, installed, reader, pinger,
                   hdVars, dialVars, callVars, gauge, closeVars>>

-----------------------------------------------------------------------------
(***************************************************************************)
(* Call and callOn.  A CSI request carries a deadline; the calls of        *)
(* GetVolumeInfo (driver.go:1143) have none but the one callOn gives them. *)
(***************************************************************************)

\* The driver serves requests once Connect has returned.
CallBegin(c) ==
    /\ pc[c] = "idle"
    /\ dpc[Main] = "returned"
    /\ calls < MaxCalls
    /\ calls' = calls + 1
    /\ pc' = [pc EXCEPT ![c] = "acquire"]
    /\ UNCHANGED <<clientVars, flagVars, reqVars, sockVars, hdVars, dialVars,
                   cconn, cid, err, reauth, ctxDone, permits, gauge, closeVars>>

\* The context of the call, or that of callOn, reaches its deadline.
Expire(c) ==
    /\ IF c \in Unbounded THEN pc[c] \in {"send", "await"} ELSE pc[c] # "idle"
    /\ ~ctxDone[c]
    /\ ctxDone' = [ctxDone EXCEPT ![c] = TRUE]
    /\ UNCHANGED <<clientVars, flagVars, reqVars, sockVars, hdVars, dialVars,
                   pc, cconn, cid, err, reauth, calls, permits, gauge, closeVars>>

\* callSem.Acquire
Acquire(c) ==
    /\ pc[c] = "acquire"
    /\ permits > 0
    /\ permits' = permits - 1
    /\ pc' = [pc EXCEPT ![c] = "loop"]
    /\ UNCHANGED <<clientVars, flagVars, reqVars, sockVars, hdVars, dialVars,
                   cconn, cid, err, reauth, ctxDone, calls, gauge, closeVars>>

\* MUTANT of Forget: the deferred pending.Delete is missing.
ForgetNothing(c) == UNCHANGED pending

\* The deferred pending.Delete(id) of callOn.
Forget(c) == pending' = {p \in pending : p.id # cid[c]}

\* Call returns, with the permit if it holds one; its locals are gone.
Return(c, released) ==
    /\ pc' = [pc EXCEPT ![c] = "idle"]
    /\ cconn' = [cconn EXCEPT ![c] = Nil]
    /\ cid' = [cid EXCEPT ![c] = 0]
    /\ err' = [err EXCEPT ![c] = "none"]
    /\ reauth' = [reauth EXCEPT ![c] = FALSE]
    /\ ctxDone' = [ctxDone EXCEPT ![c] = FALSE]
    /\ resp' = [resp EXCEPT ![c] = None]
    /\ permits' = permits + released
    /\ UNCHANGED calls

\* MUTANT of AcquireTimeout: the permit that was never taken is released.
AcquireTimeoutReleases(c) ==
    /\ pc[c] = "acquire"
    /\ ctxDone[c]
    /\ Return(c, 1)
    /\ UNCHANGED <<clientVars, flagVars, nextID, pending, wire, sockVars,
                   hdVars, dialVars, gauge, closeVars>>

\* MUTANT of AcquireTimeout: the semaphore is waited for without the context.
AcquireUninterrupted(c) == FALSE

\* Acquire is given up at the deadline: ErrNotConnected.
AcquireTimeout(c) ==
    /\ pc[c] = "acquire"
    /\ ctxDone[c]
    /\ Return(c, 0)
    /\ UNCHANGED <<clientVars, flagVars, nextID, pending, wire, sockVars,
                   hdVars, dialVars, gauge, closeVars>>

\* The top of the loop in Call: which connection to use.
ReadConn(c) ==
    /\ pc[c] = "loop"
    /\ cconn' = [cconn EXCEPT ![c] = conn]
    /\ pc' = [pc EXCEPT ![c] = IF Connected THEN "send" ELSE "waitConn"]
    /\ UNCHANGED <<clientVars, flagVars, reqVars, sockVars, hdVars, dialVars,
                   cid, err, reauth, ctxDone, calls, permits, gauge, closeVars>>

\* MUTANT of TakeID: the id of the previous request is used again.
TakeIDReused == nextID' = IF nextID = 0 THEN 1 ELSE nextID

\* nextID.Add(1)
TakeID == nextID' = nextID + 1

\* callOn registers the request and writes it.
CallSend(c) ==
    /\ pc[c] = "send"
    /\ sock[cconn[c]] # "closed"
    /\ TakeID
    /\ cid' = [cid EXCEPT ![c] = nextID']
    /\ pending' = {p \in pending : p.id # nextID'}
                    \cup {[id |-> nextID', by |-> c]}
    /\ wire' = [wire EXCEPT ![cconn[c]] = @ \cup
                  {m \in {[id |-> nextID', by |-> c]} : sock[cconn[c]] = "open"}]
    /\ pc' = [pc EXCEPT ![c] = "await"]
    /\ UNCHANGED <<clientVars, flagVars, resp, sockVars, hdVars, dialVars,
                   cconn, err, reauth, ctxDone, calls, permits, gauge, closeVars>>

\* A deadline that callOn set is gone when it returns.
LeaveCallOn(c) ==
    ctxDone' = IF c \in Unbounded THEN [ctxDone EXCEPT ![c] = FALSE] ELSE ctxDone

\* The write fails: the socket is gone, or the deadline has passed.
CallSendFail(c) ==
    /\ pc[c] = "send"
    /\ sock[cconn[c]] # "open" \/ ctxDone[c]
    /\ TakeID
    /\ err' = [err EXCEPT ![c] = "connErr"]
    /\ pc' = [pc EXCEPT ![c] = "handle"]
    /\ LeaveCallOn(c)
    /\ UNCHANGED <<clientVars, flagVars, pending, resp, wire, sockVars, hdVars,
                   dialVars, cconn, cid, reauth, calls, permits, gauge,
                   closeVars>>

\* callOn receives the answer.
CallReceive(c) ==
    /\ pc[c] = "await"
    /\ resp[c] # None
    /\ Forget(c)
    /\ \/ resp[c].kind = "ok" /\ Return(c, 1)
       \/ /\ resp[c].kind # "ok"
          /\ err' = [err EXCEPT ![c] = resp[c].kind]
          /\ resp' = [resp EXCEPT ![c] = None]
          /\ cid' = [cid EXCEPT ![c] = 0]
          /\ pc' = [pc EXCEPT ![c] = "handle"]
          /\ LeaveCallOn(c)
          /\ UNCHANGED <<cconn, reauth, calls, permits>>
    /\ UNCHANGED <<clientVars, flagVars, nextID, wire, sockVars, hdVars,
                   dialVars, gauge, closeVars>>

\* callOn's context is done: ctx.Err() is neither retried nor reauthenticated.
CallTimeout(c) ==
    /\ pc[c] = "await"
    /\ ctxDone[c]
    /\ Forget(c)
    /\ Return(c, 1)
    /\ UNCHANGED <<clientVars, flagVars, nextID, wire, sockVars, hdVars,
                   dialVars, gauge, closeVars>>

\* ENOTAUTHENTICATED, first time in this call: take the connection down.
HandleNotAuth(c) ==
    /\ pc[c] = "handle"
    /\ err[c] = "notAuth"
    /\ ~reauth[c]
    /\ reauth' = [reauth EXCEPT ![c] = TRUE]
    /\ Disconnect(cconn[c])
    /\ pc' = [pc EXCEPT ![c] = IF conn = cconn[c] THEN "inHandle" ELSE "reauthWait"]
    /\ UNCHANGED <<flagVars, reqVars, sockVars, hdMark, dialVars, cconn, cid,
                   err, ctxDone, calls, permits, gauge, closeVars>>

\* handleDisconnect returns to Call.
HandleDisconnected(c) ==
    /\ pc[c] = "inHandle"
    /\ hd[cconn[c]] = "done"
    /\ pc' = [pc EXCEPT ![c] = "reauthWait"]
    /\ UNCHANGED <<clientVars, flagVars, reqVars, sockVars, hdVars, dialVars,
                   cconn, cid, err, reauth, ctxDone, calls, permits, gauge,
                   closeVars>>

\* isRetryableError
Retryable(c) == ~Connected /\ err[c] \in {"connErr", "lost", "minus1"}

HandleRetry(c) ==
    /\ pc[c] = "handle"
    /\ err[c] # "notAuth"
    /\ Retryable(c)
    /\ pc' = [pc EXCEPT ![c] = "retryWait"]
    /\ UNCHANGED <<clientVars, flagVars, reqVars, sockVars, hdVars, dialVars,
                   cconn, cid, err, reauth, ctxDone, calls, permits, gauge,
                   closeVars>>

\* Any other error is returned, and a second ENOTAUTHENTICATED.
HandleReturn(c) ==
    /\ pc[c] = "handle"
    /\ IF err[c] = "notAuth" THEN reauth[c] ELSE ~Retryable(c)
    /\ Return(c, 1)
    /\ UNCHANGED <<clientVars, flagVars, nextID, pending, wire, sockVars,
                   hdVars, dialVars, gauge, closeVars>>

\* waitForConnection succeeds.  After a reauthentication the context and
\* `closed` are looked at once more.
WaitConnected(c) ==
    /\ pc[c] \in {"waitConn", "retryWait", "reauthWait"}
    /\ Connected
    /\ pc[c] = "reauthWait" => ~ctxDone[c] /\ ~closed
    /\ pc' = [pc EXCEPT ![c] = "loop"]
    /\ err' = [err EXCEPT ![c] = "none"]
    /\ cconn' = [cconn EXCEPT ![c] = Nil]
    /\ UNCHANGED <<clientVars, flagVars, reqVars, sockVars, hdVars, dialVars,
                   cid, reauth, ctxDone, calls, permits, gauge, closeVars>>

\* MUTANT of GivesUp: the deadline is not watched.
GivesUpOnClose(c) == done

\* The other cases of waitForConnection's select; a reauthentication is also
\* bounded by CallTimeout, which may pass at any time.
GivesUp(c) == ctxDone[c] \/ done \/ pc[c] = "reauthWait"

WaitGiveUp(c) ==
    /\ pc[c] \in {"waitConn", "retryWait", "reauthWait"}
    /\ GivesUp(c)
    /\ Return(c, 1)
    /\ UNCHANGED <<clientVars, flagVars, nextID, pending, wire, sockVars,
                   hdVars, dialVars, gauge, closeVars>>

-----------------------------------------------------------------------------
(***************************************************************************)
(* Close, called once the driver stops                                     *)
(***************************************************************************)

\* closed.Swap(true)
CloseBegin ==
    /\ Stops
    /\ closer = "idle"
    /\ dpc[Main] = "returned"
    /\ closed' = TRUE
    /\ closer' = "closeDone"
    /\ UNCHANGED <<clientVars, reconnecting, done, reqVars, sockVars, hdVars,
                   dialVars, callVars, gauge, closeConn>>

\* close(c.done)
CloseDone ==
    /\ closer = "closeDone"
    /\ done' = TRUE
    /\ closer' = "clear"
    /\ UNCHANGED <<clientVars, reconnecting, closed, reqVars, sockVars, hdVars,
                   dialVars, callVars, gauge, closeConn>>

\* The critical section of Close; connDone keeps its value.
CloseClear ==
    /\ closer = "clear"
    /\ panicked' = (panicked \/ connDone \in doneClosed)
    /\ doneClosed' = doneClosed \cup ({connDone} \ {Nil})
    /\ conn' = Nil
    /\ closeConn' = conn
    /\ closer' = "status"
    /\ UNCHANGED <<connDone, flagVars, reqVars, sockVars, hdVars, dialVars,
                   callVars, gauge>>

\* SetConnectionStatus(false) and conn.Close.
CloseStatus ==
    /\ closer = "status"
    /\ gauge' = 0
    /\ sock' = [s \in Sockets |-> IF s = closeConn THEN "closed" ELSE sock[s]]
    /\ wire' = [s \in Sockets |-> IF s = closeConn THEN {} ELSE wire[s]]
    /\ closer' = "returned"
    /\ UNCHANGED <<clientVars, flagVars, nextID, pending, resp, installed, reader, pinger,
                   hdVars, dialVars, callVars, closeConn>>

-----------------------------------------------------------------------------
DialStep(d) == DialStart(d) \/ DialAuthFail(d) \/ DialInstall(d)
                 \/ DialReturn(d) \/ DialFail(d)
LoopStep(l) == LoopWake(l) \/ LoopExit(l)
ConnectStep == ConnectStartLoop \/ ConnectWait
HdStep(s)   == HdClose(s) \/ (\E p \in pending : HdFail(s, p)) \/ HdEnd(s)
                 \/ HdRestart(s)
ReadStep(s) == (\E m \in wire[s] : ReaderDeliver(s, m)) \/ ReaderFail(s)
                 \/ ReaderDisconnect(s)
PingStep(s) == PingFail(s) \/ PingDisconnect(s)
CallStep(c) == Acquire(c) \/ AcquireTimeout(c) \/ ReadConn(c) \/ CallSend(c)
                 \/ CallSendFail(c) \/ CallReceive(c) \/ CallTimeout(c)
                 \/ HandleNotAuth(c) \/ HandleDisconnected(c) \/ HandleRetry(c)
                 \/ HandleReturn(c) \/ WaitConnected(c) \/ WaitGiveUp(c)
CloseStep   == CloseBegin \/ CloseDone \/ CloseClear \/ CloseStatus

Next ==
    \/ \E d \in Dialers : DialStep(d)
    \/ \E l \in Loops : LoopStep(l)
    \/ ConnectStep
    \/ \E s \in Sockets : HdStep(s) \/ ReadStep(s) \/ PingStep(s) \/ Break(s)
    \/ \E c \in Callers : CallBegin(c) \/ Expire(c) \/ CallStep(c)
    \/ CloseStep

Spec == Init /\ [][Next]_vars

\* Runnable goroutines run, timers fire, deadlines pass.  Nothing makes the
\* network fail or heal, TrueNAS answer, a read on a silent peer return, or
\* anyone call Close; a ping to a dead peer does fail in the end.
Fairness ==
    /\ \A d \in Dialers : WF_vars(DialStep(d))
    /\ \A l \in Loops : WF_vars(LoopStep(l))
    /\ WF_vars(ConnectStep)
    /\ \A s \in Sockets :
         /\ WF_vars(HdStep(s))
         /\ WF_vars(PingDisconnect(s))
         /\ WF_vars(sock[s] # "open" /\ PingFail(s))
    /\ \A c \in Callers : WF_vars(CallStep(c)) /\ WF_vars(Expire(c))
    /\ WF_vars(CloseDone \/ CloseClear \/ CloseStatus)

FairSpec == Spec /\ Fairness

-----------------------------------------------------------------------------
(***************************************************************************)
(* Properties                                                              *)
(***************************************************************************)

Inside == {c \in Callers : pc[c] \notin {"idle", "acquire"}}

TypeClient ==
    /\ conn \in Sockets \cup {Nil} /\ connDone \in Sockets \cup {Nil}
    /\ doneClosed \in SUBSET Sockets
    /\ panicked \in BOOLEAN
TypeFlags == reconnecting \in BOOLEAN /\ closed \in BOOLEAN /\ done \in BOOLEAN
TypeReq ==
    /\ nextID \in Nat
    /\ pending \in SUBSET [id : Nat, by : Callers]
    /\ wire \in [Sockets -> SUBSET [id : Nat, by : Callers]]
    /\ resp \in [Callers -> {None} \cup
                   [kind : Replies \cup {"lost"}, by : Callers]]
TypeSock ==
    /\ installed \in 0..MaxSockets
    /\ sock \in [Sockets -> {"unused", "open", "broken", "closed"}]
    /\ reader \in [Sockets -> WatchPCs] /\ pinger \in [Sockets -> WatchPCs]
TypeHd    == hd \in [Sockets -> HdPCs] /\ hdMark \in [Sockets -> Nat]
TypeDial  == dpc \in [Dialers -> DialPCs] /\ attempt \in [Loops -> Nat]
TypeClose ==
    /\ closer \in {"idle", "closeDone", "clear", "status", "returned"}
    /\ closeConn \in Sockets \cup {Nil}
TypeCall ==
    /\ pc \in [Callers -> CallPCs]
    /\ cconn \in [Callers -> Sockets \cup {Nil}]
    /\ cid \in [Callers -> Nat]
    /\ err \in [Callers -> Errors \cup {"none"}]
    /\ reauth \in [Callers -> BOOLEAN] /\ ctxDone \in [Callers -> BOOLEAN]
    /\ calls \in Nat /\ permits \in Int

\* Every variable has its type.
TypeOK ==
    /\ TypeClient /\ TypeFlags /\ TypeReq /\ TypeSock /\ TypeHd /\ TypeDial
    /\ TypeClose /\ TypeCall
    /\ gauge \in {0, 1}

\* No channel is closed twice (Go would panic, and with connMu held):
\* handleDisconnect, run by three kinds of goroutine for current and for stale
\* sockets, and Close never close the same connDone.
ConnDoneClosedOnce == ~panicked

\* The reconnecting flag is exactly "a reconnectLoop goroutine exists", and
\* there is never more than one.
OneReconnector ==
    /\ reconnecting <=> LiveLoops # {}
    /\ \A l, m \in LiveLoops : l = m

\* The current connection is watched: its done channel is open and neither
\* its reader nor its pinger has left without taking it down, so that no
\* stale disconnect silences the connection that replaced it.
ConnectionWatched ==
    Connected =>
      /\ connDone = conn
      /\ conn \notin doneClosed
      /\ reader[conn] \in {"run", "hd"}
      /\ pinger[conn] \in {"run", "hd"}

\* Until Close is called, a socket that is not the current one is closed or
\* somebody is about to close it.
NoSocketLeak ==
    ~closed => \A s \in Sockets :
      s # conn /\ sock[s] \in {"open", "broken"} => hd[s] = "close"

\* A dial never publishes its connection over another one.
DialReplacesNothing ==
    [][conn # Nil /\ conn' # conn => conn' = Nil]_vars

\* A request is registered in pending only while its caller waits for it: no
\* timeout, answer, disconnect or retry leaves an entry behind.
PendingOwned ==
    \A p \in pending : pc[p.by] = "await" /\ cid[p.by] = p.id

\* A caller is only ever handed the answer to its own request, whatever is
\* late, retried or cancelled.
OwnAnswer == \A c \in Callers : resp[c] # None => resp[c].by = c

\* The semaphore's permits and the callers inside Call add up: no return path
\* of Call loses or duplicates one.
PermitsConserved == permits + Cardinality(Inside) = MaxConcurrentCalls

Returns(c) == pc[c] # "idle" ~> pc[c] = "idle"

\* Every invocation of Call that has a deadline returns: no wait, for a permit,
\* an answer or a connection to retry on, ignores it, and callers without one
\* cannot keep it waiting.
CallsReturn == \A c \in Callers \ Unbounded : Returns(c)

\* After Close every reconnectLoop goroutine ends, and none is started later.
LoopsStopAfterClose == closed ~> [](LiveLoops = {})

\* A connection whose peer is silently gone is taken down.
DeadPeerNoticed ==
    \A s \in Sockets : (conn = s /\ sock[s] = "broken") ~> conn # s

-----------------------------------------------------------------------------
(***************************************************************************)
(* The inductive invariant behind the theorems of TrueNASClientProofs      *)
(***************************************************************************)

\* Nothing refers to a connection that was not installed.
InstalledOnly ==
    /\ conn <= installed /\ connDone <= installed /\ closeConn <= installed
    /\ \A s \in doneClosed : s <= installed
    /\ \A s \in Sockets : s > installed => hd[s] = "none" /\ sock[s] = "unused"

\* Until Close has run its critical section, connDone is an open channel.
ChannelOpen ==
    (closer \in {"idle", "closeDone", "clear"} /\ connDone # Nil)
      => connDone \notin doneClosed

\* A caller past the top of its loop works on a connection.
CallersHaveConn ==
    \A c \in Callers :
      pc[c] \in {"send", "await", "handle", "inHandle"} => cconn[c] # Nil

\* Whoever dials is alone, and there is no connection.
DialsAlone ==
    /\ dpc[Main] \notin {"none", "wait", "exit"}
    /\ \A l \in Loops : dpc[l] \notin {"startLoop", "waitConn", "returned", "failed"}
    /\ dpc[Main] \in {"dial", "auth", "failConn", "failAuth", "startLoop", "failed"}
         => installed = 0 /\ LiveLoops = {}
    /\ \A l \in Loops :
         dpc[l] \in {"dial", "auth", "failConn", "failAuth"} => conn = Nil

ClosedIsClosing == closed <=> closer # "idle"

ConnInv ==
    /\ TypeOK /\ InstalledOnly /\ ChannelOpen /\ CallersHaveConn
    /\ DialsAlone /\ ClosedIsClosing
    /\ OneReconnector /\ ConnDoneClosedOnce /\ ConnectionWatched /\ NoSocketLeak

\* Ids only go up, and an answer on the wire that has the id of a registered
\* request is the answer to it.
IdsMatch ==
    /\ \A p \in pending : p.id <= nextID
    /\ \A s \in Sockets : \A m \in wire[s] :
         m.id <= nextID /\ \A p \in pending : m.id = p.id => m.by = p.by

CallInv == PendingOwned /\ OwnAnswer /\ IdsMatch

(***************************************************************************)
(* What comments of the code say of it, and races refute                   *)
(***************************************************************************)

\* "Client is a TrueNAS WebSocket API client with automatic reconnection"
\* (client.go:206): a client that lost its connection and is not closed has a
\* goroutine that will bring it back.
AutomaticReconnection ==
    (dpc[Main] = "returned" /\ ~closed /\ ~Connected) =>
      \/ LiveLoops # {}
      \/ \E s \in Sockets : hd[s] \in {"close", "range", "restart"}

\* "Close closes the client permanently" (client.go:756): once Close has
\* returned there is no connection.
ClosedForGood == closer = "returned" => ~Connected

\* "If the connection drops during a call, it waits for reconnection and
\* retries" (client.go:598): Call returns a connection error only after its
\* deadline or after Close.
ConnectionErrorsRetried ==
    [][\A c \in Callers :
         pc[c] # "idle" /\ pc'[c] = "idle" /\ err[c] \in {"connErr", "lost"}
           => ctxDone[c] \/ closed]_vars

\* "defaultOperationTimeout is the default timeout for TrueNAS API operations"
\* (controller.go:20): the calls of a CSI request return, those that
\* GetVolumeInfo makes for it included.
OperationsBounded == \A c \in Callers : Returns(c)

\* The help text of truenas_connection_status, "Whether the driver currently
\* has an authenticated TrueNAS WebSocket connection" (metrics.go:85): when
\* nobody is about to set it, the gauge says whether there is a connection.
GaugeCurrent ==
    \/ \E d \in Dialers : dpc[d] \in {"status", "failConn", "failAuth"}
    \/ \E s \in Sockets : hd[s] = "close"
    \/ closer = "status"
    \/ gauge = IF Connected THEN 1 ELSE 0
=============================================================================
