------------------------- MODULE TrueNASClientProofs -------------------------
(***************************************************************************)
(* Theorems about TrueNASClient, for any number of callers, sockets and    *)
(* calls.                                                                  *)
(***************************************************************************)
EXTENDS TrueNASClient, TLAPS

\* What Next is made of, one disjunct per goroutine step.
LEMMA NextCases ==
    ASSUME Next
    PROVE  \/ \E d \in Dialers : DialStart(d)
           \/ \E d \in Dialers : DialAuthFail(d)
           \/ \E d \in Dialers : DialInstall(d)
           \/ \E d \in Dialers : DialReturn(d)
           \/ \E d \in Dialers : DialFail(d)
           \/ \E l \in Loops : LoopWake(l)
           \/ \E l \in Loops : LoopExit(l)
           \/ ConnectStartLoop
           \/ ConnectWait
           \/ \E s \in Sockets : HdClose(s)
           \/ \E s \in Sockets, p \in pending : HdFail(s, p)
           \/ \E s \in Sockets : HdEnd(s) \/ HdRestart(s)
           \/ \E s \in Sockets : \E m \in wire[s] : ReaderDeliver(s, m)
           \/ \E s \in Sockets : ReaderFail(s)
           \/ \E s \in Sockets : ReaderDisconnect(s)
           \/ \E s \in Sockets : PingFail(s)
           \/ \E s \in Sockets : PingDisconnect(s)
           \/ \E s \in Sockets : Break(s)
           \/ \E c \in Callers : CallBegin(c)
           \/ \E c \in Callers : Expire(c)
           \/ \E c \in Callers : CallStep(c)
           \/ CloseBegin \/ CloseDone \/ CloseClear \/ CloseStatus
  BY DEF Next, DialStep, LoopStep, ConnectStep, HdStep, ReadStep, PingStep,
         CloseStep

-----------------------------------------------------------------------------
(***************************************************************************)
(* Type correctness                                                        *)
(***************************************************************************)

\* A group of variables a step leaves alone keeps its type.
LEMMA Kept ==
    ASSUME TypeOK
    PROVE  /\ UNCHANGED clientVars => TypeClient'
           /\ UNCHANGED flagVars => TypeFlags'
           /\ UNCHANGED reqVars => TypeReq'
           /\ UNCHANGED sockVars => TypeSock'
           /\ UNCHANGED hdVars => TypeHd'
           /\ UNCHANGED dialVars => TypeDial'
           /\ UNCHANGED closeVars => TypeClose'
           /\ UNCHANGED callVars => TypeCall'
  <1> USE DEF TypeOK
  <1>1. UNCHANGED clientVars => TypeClient' BY DEF TypeClient, clientVars
  <1>2. UNCHANGED flagVars => TypeFlags' BY DEF TypeFlags, flagVars
  <1>3. UNCHANGED reqVars => TypeReq' BY DEF TypeReq, reqVars
  <1>4. UNCHANGED sockVars => TypeSock' BY DEF TypeSock, sockVars
  <1>5. UNCHANGED hdVars => TypeHd' BY DEF TypeHd, hdVars
  <1>6. UNCHANGED dialVars => TypeDial' BY DEF TypeDial, dialVars
  <1>7. UNCHANGED closeVars => TypeClose' BY DEF TypeClose, closeVars
  <1>8. UNCHANGED callVars => TypeCall' BY DEF TypeCall, callVars
  <1> QED BY <1>1, <1>2, <1>3, <1>4, <1>5, <1>6, <1>7, <1>8

LEMMA TypeOKDial ==
    ASSUME TypeOK, NEW d \in Dialers,
           DialStart(d) \/ DialAuthFail(d) \/ DialInstall(d) \/ DialReturn(d)
             \/ DialFail(d)
    PROVE  TypeOK'
  <1> USE ConstantsAssumption, Kept DEF TypeOK, TypeDial, DialPCs
  <1>1. CASE DialStart(d)    BY <1>1 DEF DialStart
  <1>2. CASE DialAuthFail(d) BY <1>2 DEF DialAuthFail
  <1>3. CASE DialInstall(d)
    <2>1. installed + 1 \in Sockets
      BY <1>3 DEF DialInstall, TypeSock, Sockets
    <2> QED BY <1>3, <2>1 DEF DialInstall, TypeSock, WatchPCs, TypeClient
  <1>4. CASE DialReturn(d)   BY <1>4 DEF DialReturn
  <1>5. CASE DialFail(d)     BY <1>5 DEF DialFail
  <1> QED BY <1>1, <1>2, <1>3, <1>4, <1>5

LEMMA TypeOKLoop ==
    ASSUME TypeOK, NEW l \in Loops, LoopWake(l) \/ LoopExit(l)
    PROVE  TypeOK'
  <1> USE Kept DEF TypeOK, TypeDial, DialPCs
  <1>1. CASE LoopWake(l)
    BY <1>1, ConstantsAssumption DEF LoopWake, Dialers
  <1>2. CASE LoopExit(l) BY <1>2 DEF LoopExit, TypeFlags
  <1> QED BY <1>1, <1>2

LEMMA TypeStartLoop ==
    ASSUME TypeOK, NEW base \in [Dialers -> DialPCs], StartLoop(base)
    PROVE  reconnecting' \in BOOLEAN /\ TypeDial'
  <1>1. CASE reconnecting
    BY <1>1 DEF TypeOK, TypeDial, TypeFlags, StartLoop
  <1>2. CASE ~reconnecting
    <2>1. PICK l \in Loops : /\ dpc' = [base EXCEPT ![l] = "wait"]
                            /\ attempt' = [attempt EXCEPT ![l] = 0]
      BY <1>2 DEF StartLoop
    <2>2. "wait" \in DialPCs BY DEF DialPCs
    <2> QED BY <1>2, <2>1, <2>2 DEF TypeOK, TypeDial, StartLoop
  <1> QED BY <1>1, <1>2 DEF TypeOK, TypeFlags

LEMMA TypeOKConnect ==
    ASSUME TypeOK, ConnectStartLoop \/ ConnectWait
    PROVE  TypeOK'
  <1> USE Kept DEF TypeOK
  <1>1. CASE ConnectStartLoop
    <2>1. [dpc EXCEPT ![Main] = "waitConn"] \in [Dialers -> DialPCs]
      BY DEF TypeDial, DialPCs
    <2> QED BY <1>1, <2>1, TypeStartLoop DEF ConnectStartLoop, TypeFlags
  <1>2. CASE ConnectWait BY <1>2 DEF ConnectWait, TypeDial, DialPCs
  <1> QED BY <1>1, <1>2

LEMMA TypeDisconnect ==
    ASSUME TypeOK, NEW s, Disconnect(s)
    PROVE  TypeClient' /\ hd' \in [Sockets -> HdPCs]
  BY DEF TypeOK, TypeClient, TypeHd, Disconnect, CloseConnDone, HdPCs,
         clientVars

LEMMA TypeOKHd ==
    ASSUME TypeOK, NEW s \in Sockets,
           HdClose(s) \/ (\E p \in pending : HdFail(s, p)) \/ HdEnd(s) \/ HdRestart(s)
    PROVE  TypeOK'
  <1> USE Kept DEF TypeOK
  <1>1. CASE HdClose(s)
    BY <1>1 DEF HdClose, TypeHd, HdPCs, TypeReq, TypeSock
  <1>2. CASE \E p \in pending : HdFail(s, p)
    BY <1>2 DEF HdFail, Send1, TypeReq
  <1>3. CASE HdRestart(s)
    <2>1. reconnecting' \in BOOLEAN /\ TypeDial'
      BY <1>3, TypeStartLoop DEF HdRestart, TypeDial
    <2> QED BY <1>3, <2>1 DEF HdRestart, TypeHd, HdPCs, TypeFlags
  <1>4. CASE HdEnd(s)
    BY <1>4 DEF HdEnd, TypeHd, HdPCs
  <1> QED BY <1>1, <1>2, <1>3, <1>4

LEMMA TypeOKWatch ==
    ASSUME TypeOK, NEW s \in Sockets,
           \/ \E m \in wire[s] : ReaderDeliver(s, m)
           \/ ReaderFail(s) \/ ReaderDisconnect(s)
           \/ PingFail(s) \/ PingDisconnect(s) \/ Break(s)
    PROVE  TypeOK'
  <1> USE Kept DEF TypeOK
  <1>1. CASE \E m \in wire[s] : ReaderDeliver(s, m)
    <2>1. PICK m \in wire[s] : ReaderDeliver(s, m) BY <1>1
    <2>2. m \in [id : Nat, by : Callers] BY <2>1 DEF TypeReq
    <2>3. resp' \in [Callers -> {None} \cup
                       [kind : Replies \cup {"lost"}, by : Callers]]
      <3>1. CASE UNCHANGED resp BY <3>1 DEF TypeReq
      <3>2. CASE \E p \in pending, k \in Replies :
                   Send1(p.by, [kind |-> k, by |-> m.by])
        <4>1. PICK p \in pending, k \in Replies :
                   Send1(p.by, [kind |-> k, by |-> m.by]) BY <3>2
        <4>2. [kind |-> k, by |-> m.by]
                \in [kind : Replies \cup {"lost"}, by : Callers] BY <2>2
        <4> QED BY <4>1, <4>2 DEF Send1, TypeReq
      <3> QED BY <2>1, <3>1, <3>2 DEF ReaderDeliver
    <2>4. TypeReq' BY <2>1, <2>3 DEF ReaderDeliver, TypeReq
    <2> QED BY <2>1, <2>4 DEF ReaderDeliver
  <1>2. CASE ReaderFail(s) BY <1>2 DEF ReaderFail, TypeSock, WatchPCs
  <1>3. CASE ReaderDisconnect(s)
    BY <1>3, TypeDisconnect DEF ReaderDisconnect, TypeSock, WatchPCs, TypeHd
  <1>4. CASE PingFail(s) BY <1>4 DEF PingFail, TypeSock, WatchPCs
  <1>5. CASE PingDisconnect(s)
    BY <1>5, TypeDisconnect DEF PingDisconnect, TypeSock, WatchPCs, TypeHd
  <1>6. CASE Break(s) BY <1>6 DEF Break, TypeSock, TypeReq
  <1> QED BY <1>1, <1>2, <1>3, <1>4, <1>5, <1>6

\* Call's own steps: its locals, and what is registered for it.
LEMMA TypeReturn ==
    ASSUME TypeOK, NEW c \in Callers, NEW n \in {0, 1}, Return(c, n)
    PROVE  TypeCall' /\ resp' \in [Callers -> {None} \cup
                             [kind : Replies \cup {"lost"}, by : Callers]]
  BY DEF TypeOK, TypeCall, TypeReq, Return, CallPCs, Nil

LEMMA TypeOKCall ==
    ASSUME TypeOK, NEW c \in Callers, CallBegin(c) \/ Expire(c) \/ CallStep(c)
    PROVE  TypeOK'
  <1> USE Kept DEF TypeOK
  <1>1. CASE CallBegin(c) BY <1>1 DEF CallBegin, TypeCall, CallPCs
  <1>2. CASE Expire(c) BY <1>2 DEF Expire, TypeCall
  <1>3. CASE Acquire(c) BY <1>3 DEF Acquire, TypeCall, CallPCs
  <1>4. CASE AcquireTimeout(c)
    BY <1>4, TypeReturn DEF AcquireTimeout, TypeReq
  <1>5. CASE ReadConn(c)
    BY <1>5 DEF ReadConn, TypeCall, TypeClient, CallPCs
  <1>6. CASE CallSend(c)
    <2>1. nextID' \in Nat /\ [id |-> nextID', by |-> c] \in [id : Nat, by : Callers]
      BY <1>6 DEF CallSend, TakeID, TypeReq
    <2>2. TypeReq' BY <1>6, <2>1 DEF CallSend, TypeReq
    <2>3. TypeCall' BY <1>6, <2>1 DEF CallSend, TypeCall, CallPCs
    <2> QED BY <1>6, <2>2, <2>3 DEF CallSend
  <1>7. CASE CallSendFail(c)
    <2>1. TypeReq' BY <1>7 DEF CallSendFail, TakeID, TypeReq
    <2>2. TypeCall' BY <1>7 DEF CallSendFail, LeaveCallOn, TypeCall, CallPCs,
                             Errors
    <2> QED BY <1>7, <2>1, <2>2 DEF CallSendFail
  <1>8. CASE CallReceive(c)
    <2>1. resp[c] \in [kind : Replies \cup {"lost"}, by : Callers]
      BY <1>8 DEF CallReceive, TypeReq
    <2>2. pending' \in SUBSET [id : Nat, by : Callers]
      BY <1>8 DEF CallReceive, Forget, TypeReq
    <2>3. CASE Return(c, 1)
      BY <1>8, <2>2, <2>3, TypeReturn DEF CallReceive, TypeReq
    <2>4. CASE resp[c].kind # "ok" /\ ~Return(c, 1)
      <3>1. resp[c].kind \in Errors
        BY <2>1, <2>4 DEF Replies, Errors
      <3>2. TypeCall'
        <4>1. /\ err' = [err EXCEPT ![c] = resp[c].kind]
              /\ cid' = [cid EXCEPT ![c] = 0]
              /\ pc' = [pc EXCEPT ![c] = "handle"]
              /\ LeaveCallOn(c)
              /\ UNCHANGED <<cconn, reauth, calls, permits>>
          BY <1>8, <2>4 DEF CallReceive
        <4> QED BY <3>1, <4>1 DEF LeaveCallOn, TypeCall, CallPCs
      <3>3. TypeReq' BY <1>8, <2>4, <2>2 DEF CallReceive, TypeReq
      <3> QED BY <1>8, <3>2, <3>3 DEF CallReceive
    <2> QED BY <1>8, <2>3, <2>4 DEF CallReceive
  <1>9. CASE CallTimeout(c)
    BY <1>9, TypeReturn DEF CallTimeout, Forget, TypeReq
  <1>10. CASE HandleNotAuth(c)
    BY <1>10, TypeDisconnect DEF HandleNotAuth, TypeCall, CallPCs, TypeHd
  <1>11. CASE HandleDisconnected(c)
    BY <1>11 DEF HandleDisconnected, TypeCall, CallPCs
  <1>12. CASE HandleRetry(c) BY <1>12 DEF HandleRetry, TypeCall, CallPCs
  <1>13. CASE HandleReturn(c)
    BY <1>13, TypeReturn DEF HandleReturn, TypeReq
  <1>14. CASE WaitConnected(c)
    BY <1>14 DEF WaitConnected, TypeCall, CallPCs, Nil
  <1>15. CASE WaitGiveUp(c) BY <1>15, TypeReturn DEF WaitGiveUp, TypeReq
  <1> QED
    BY <1>1, <1>2, <1>3, <1>4, <1>5, <1>6, <1>7, <1>8, <1>9, <1>10, <1>11,
       <1>12, <1>13, <1>14, <1>15 DEF CallStep

LEMMA TypeOKClose ==
    ASSUME TypeOK, CloseBegin \/ CloseDone \/ CloseClear \/ CloseStatus
    PROVE  TypeOK'
  <1> USE Kept DEF TypeOK, TypeClose
  <1>1. CASE CloseBegin BY <1>1 DEF CloseBegin, TypeFlags
  <1>2. CASE CloseDone BY <1>2 DEF CloseDone, TypeFlags
  <1>3. CASE CloseClear BY <1>3 DEF CloseClear, TypeClient
  <1>4. CASE CloseStatus BY <1>4 DEF CloseStatus, TypeSock, TypeReq
  <1> QED BY <1>1, <1>2, <1>3, <1>4

LEMMA TypeInit == Init => TypeOK
  <1> SUFFICES ASSUME Init PROVE TypeOK OBVIOUS
  <1> USE ConstantsAssumption DEF Init, Nil
  <1>1. TypeClient /\ TypeFlags /\ TypeClose /\ gauge \in {0, 1}
    BY DEF TypeClient, TypeFlags, TypeClose
  <1>2. TypeReq BY DEF TypeReq
  <1>3. TypeSock /\ TypeHd BY DEF TypeSock, TypeHd, WatchPCs, HdPCs
  <1>4. TypeDial BY DEF TypeDial, DialPCs
  <1>5. TypeCall BY DEF TypeCall, CallPCs
  <1> QED BY <1>1, <1>2, <1>3, <1>4, <1>5 DEF TypeOK

LEMMA TypeNext == TypeOK /\ [Next]_vars => TypeOK'
  <1> SUFFICES ASSUME TypeOK, [Next]_vars PROVE TypeOK' OBVIOUS
  <1>1. CASE UNCHANGED vars BY <1>1, Kept DEF TypeOK, vars
  <1>2. CASE Next
    BY <1>2, NextCases, TypeOKDial, TypeOKLoop, TypeOKConnect, TypeOKHd,
       TypeOKWatch, TypeOKCall, TypeOKClose
  <1> QED BY <1>1, <1>2

\* Every variable keeps its type whatever the goroutines do.
THEOREM TypeCorrect == Spec => []TypeOK
  BY TypeInit, TypeNext, PTL DEF Spec

-----------------------------------------------------------------------------
(***************************************************************************)
(* The connection invariant                                                *)
(***************************************************************************)

\* ConnInv without its type and its part about callers.
Core ==
    /\ InstalledOnly /\ ChannelOpen /\ DialsAlone /\ ClosedIsClosing
    /\ OneReconnector /\ ConnDoneClosedOnce /\ ConnectionWatched /\ NoSocketLeak

coreVars == <<clientVars, reconnecting, closed, sockVars, hd, dpc, closeVars>>

LEMMA CoreKept ==
    ASSUME Core, UNCHANGED coreVars
    PROVE  Core'
  <1> USE DEF coreVars, clientVars, sockVars, closeVars
  <1>1. InstalledOnly' BY DEF Core, InstalledOnly
  <1>2. ChannelOpen' BY DEF Core, ChannelOpen
  <1>3. LiveLoops' = LiveLoops BY DEF LiveLoops
  <1>4. DialsAlone' BY <1>3 DEF Core, DialsAlone
  <1>5. OneReconnector' BY <1>3 DEF Core, OneReconnector
  <1>6. ConnectionWatched' BY DEF Core, ConnectionWatched, Connected
  <1>7. NoSocketLeak' BY DEF Core, NoSocketLeak
  <1> QED
    BY <1>1, <1>2, <1>4, <1>5, <1>6, <1>7
    DEF Core, ClosedIsClosing, ConnDoneClosedOnce

\* When only the dialers move, the parts about channels and sockets stay.
LEMMA DialersKept ==
    ASSUME Core, UNCHANGED <<clientVars, closed, sockVars, hd, closeVars>>,
           DialsAlone', OneReconnector'
    PROVE  Core'
  <1> USE DEF clientVars, sockVars, closeVars
  <1>1. InstalledOnly' BY DEF Core, InstalledOnly
  <1>2. ChannelOpen' BY DEF Core, ChannelOpen
  <1>3. ConnectionWatched' BY DEF Core, ConnectionWatched, Connected
  <1>4. NoSocketLeak' BY DEF Core, NoSocketLeak
  <1> QED
    BY <1>1, <1>2, <1>3, <1>4 DEF Core, ClosedIsClosing, ConnDoneClosedOnce

\* A dialer that stays live and does not start dialling disturbs nothing.
LEMMA DialerMoves ==
    ASSUME TypeOK, Core, NEW d \in Dialers, NEW r \in DialPCs,
           dpc' = [dpc EXCEPT ![d] = r],
           UNCHANGED <<clientVars, reconnecting, closed, sockVars, hd, closeVars>>,
           d \in Loops => /\ dpc[d] # "none"
                          /\ r \notin {"none", "startLoop", "waitConn",
                                       "returned", "failed"}
                          /\ r \in {"dial", "auth", "failConn", "failAuth"}
                               => conn = Nil,
           d = Main => /\ r \notin {"none", "wait", "exit"}
                       /\ r \in {"dial", "auth", "failConn", "failAuth",
                                 "startLoop", "failed"}
                            => dpc[Main] \in {"dial", "auth", "failConn",
                                              "failAuth", "startLoop", "failed"}
    PROVE  Core'
  <1>1. dpc \in [Dialers -> DialPCs] BY DEF TypeOK, TypeDial
  <1>2. Loops \subseteq Dialers /\ Main \in Dialers BY DEF Dialers
  <1>3. \A l \in Loops : dpc'[l] # "none" <=> dpc[l] # "none"
    BY <1>1, <1>2, ConstantsAssumption
  <1>4. LiveLoops' = LiveLoops BY <1>3 DEF LiveLoops
  <1>5. DialsAlone'
    BY <1>1, <1>2, <1>4, ConstantsAssumption
    DEF Core, DialsAlone, clientVars, sockVars, Dialers
  <1>6. OneReconnector' BY <1>4 DEF Core, OneReconnector
  <1> QED BY <1>5, <1>6, DialersKept

LEMMA CoreDial ==
    ASSUME TypeOK, Core, NEW d \in Dialers,
           DialStart(d) \/ DialAuthFail(d) \/ DialReturn(d) \/ DialFail(d)
    PROVE  Core'
  <1> USE DEF DialPCs, flagVars, hdVars, closeVars
  <1>0. /\ d = Main \/ d \in Loops
        /\ d = Main => d \notin Loops
        /\ d \in Loops => \A r \in {"dial", "auth", "failConn", "failAuth"} :
                            dpc[d] = r => conn = Nil
    BY ConstantsAssumption DEF Dialers, Core, DialsAlone
  <1>1. CASE DialStart(d) BY <1>0, <1>1, DialerMoves DEF DialStart
  <1>2. CASE DialAuthFail(d) BY <1>0, <1>2, DialerMoves DEF DialAuthFail
  <1>3. CASE DialReturn(d) BY <1>0, <1>3, DialerMoves DEF DialReturn
  <1>4. CASE DialFail(d)
    <2>1. CASE d \in Loops
      <3>1. dpc' = [dpc EXCEPT ![d] = "wait"] BY <1>4, <2>1 DEF DialFail
      <3> QED BY <1>0, <1>4, <2>1, <3>1, DialerMoves DEF DialFail
    <2>2. CASE d \notin Loops
      <3>1. PICK r \in {"startLoop", "failed"} : dpc' = [dpc EXCEPT ![d] = r]
        BY <1>4, <2>2 DEF DialFail
      <3> QED BY <1>0, <1>4, <2>2, <3>1, DialerMoves DEF DialFail
    <2> QED BY <2>1, <2>2
  <1> QED BY <1>1, <1>2, <1>3, <1>4

\* Publishing a connection: there was none, and the new one is fresh.
LEMMA CoreInstall ==
    ASSUME TypeOK, Core, NEW d \in Dialers, DialInstall(d)
    PROVE  Core' /\ conn = Nil
  <1> DEFINE n == installed + 1
  <1>1. /\ n \in Sockets /\ n # Nil /\ installed \in Nat
        /\ conn \in Nat /\ connDone \in Nat
    BY ConstantsAssumption
    DEF DialInstall, TypeOK, TypeSock, TypeClient, Sockets, Nil
  <1>2. dpc \in [Dialers -> DialPCs] /\ Loops \subseteq Dialers /\ Main \in Dialers
    BY DEF TypeOK, TypeDial, Dialers
  <1>3. conn = Nil
    <2>1. CASE d = Main
      BY <1>1, <2>1 DEF DialInstall, Core, DialsAlone, InstalledOnly, Nil
    <2>2. CASE d \in Loops BY <2>2 DEF DialInstall, Core, DialsAlone
    <2> QED BY <2>1, <2>2 DEF Dialers
  <1>4. n \notin doneClosed
    BY <1>1 DEF Core, InstalledOnly, TypeOK, TypeClient, Sockets
  <1>5. InstalledOnly'
    BY <1>1 DEF DialInstall, Core, InstalledOnly, TypeOK, TypeClient, TypeSock,
                TypeClose, hdVars, closeVars, Sockets
  <1>6. ChannelOpen' BY <1>4 DEF DialInstall, ChannelOpen, closeVars
  <1>7. LiveLoops' = LiveLoops
    BY <1>2, ConstantsAssumption DEF DialInstall, LiveLoops
  <1>8. \A l \in Loops : l # d => d \in Loops \/ dpc[l] = "none"
    BY ConstantsAssumption DEF DialInstall, Core, DialsAlone, LiveLoops, Dialers
  <1>9. \A l \in Loops : l # d => dpc[l] = "none"
    BY <1>8 DEF DialInstall, Core, OneReconnector, LiveLoops
  <1>10. DialsAlone'
    <2>1. \A l \in Loops : dpc'[l] \in {"none", "status"}
      BY <1>2, <1>9 DEF DialInstall
    <2>2. dpc'[Main] \notin {"none", "wait", "exit", "dial", "auth", "failConn",
                             "failAuth", "startLoop", "failed"}
      <3>1. CASE d = Main BY <1>2, <3>1 DEF DialInstall
      <3>2. CASE d \in Loops
        <4>1. d \in LiveLoops BY <3>2 DEF DialInstall, LiveLoops
        <4> QED
          BY <1>2, <3>2, <4>1, ConstantsAssumption
          DEF DialInstall, Core, DialsAlone
      <3> QED BY <3>1, <3>2 DEF Dialers
    <2> QED BY <2>1, <2>2 DEF DialsAlone
  <1>11. OneReconnector'
    BY <1>7 DEF DialInstall, Core, OneReconnector, flagVars
  <1>12. ConnectionWatched'
    BY <1>1, <1>4 DEF DialInstall, ConnectionWatched, TypeOK, TypeSock
  <1>13. NoSocketLeak'
    BY <1>1, <1>3
    DEF DialInstall, Core, NoSocketLeak, InstalledOnly, TypeOK, TypeSock,
        flagVars, hdVars, Sockets, Nil
  <1> QED
    BY <1>3, <1>5, <1>6, <1>10, <1>11, <1>12, <1>13
    DEF Core, DialInstall, ClosedIsClosing, ConnDoneClosedOnce, flagVars,
        closeVars

\* The compare-and-swap that starts a loop.
LEMMA CoreStartLoop ==
    ASSUME TypeOK, Core, NEW base \in [Dialers -> DialPCs], StartLoop(base),
           \A l \in Loops : base[l] = dpc[l],
           base[Main] \in {"waitConn", "returned", "status"},
           UNCHANGED conn
    PROVE  OneReconnector' /\ DialsAlone'
  <1>1. dpc \in [Dialers -> DialPCs] /\ Loops \subseteq Dialers /\ Main \in Dialers
    BY DEF TypeOK, TypeDial, Dialers
  <1>2. CASE reconnecting
    <2>1. LiveLoops' = LiveLoops BY <1>2 DEF StartLoop, LiveLoops
    <2> QED BY <1>2, <2>1 DEF StartLoop, Core, OneReconnector, DialsAlone
  <1>3. CASE ~reconnecting
    <2>1. PICK l \in Loops : dpc' = [base EXCEPT ![l] = "wait"]
      BY <1>3 DEF StartLoop
    <2>2. \A m \in Loops : dpc[m] = "none"
      BY <1>3 DEF Core, OneReconnector, LiveLoops
    <2>3. \A m \in Loops : dpc'[m] = IF m = l THEN "wait" ELSE "none"
      BY <1>1, <2>1, <2>2
    <2>4. dpc'[Main] = base[Main] BY <1>1, <2>1, ConstantsAssumption
    <2>5. LiveLoops' = {l} BY <2>3 DEF LiveLoops
    <2>6. OneReconnector' BY <1>3, <2>5 DEF StartLoop, OneReconnector
    <2>7. DialsAlone' BY <2>3, <2>4 DEF DialsAlone
    <2> QED BY <2>6, <2>7
  <1> QED BY <1>2, <1>3 DEF TypeOK, TypeFlags

LEMMA CoreConnect ==
    ASSUME TypeOK, Core, ConnectStartLoop \/ ConnectWait
    PROVE  Core'
  <1>1. CASE ConnectStartLoop
    <2> DEFINE base == [dpc EXCEPT ![Main] = "waitConn"]
    <2>1. dpc \in [Dialers -> DialPCs] /\ Loops \subseteq Dialers /\ Main \in Dialers
      BY DEF TypeOK, TypeDial, Dialers
    <2>2. /\ base \in [Dialers -> DialPCs]
          /\ \A l \in Loops : base[l] = dpc[l]
          /\ base[Main] = "waitConn"
      BY <2>1, ConstantsAssumption DEF DialPCs
    <2>3. OneReconnector' /\ DialsAlone'
      BY <1>1, <2>2, CoreStartLoop DEF ConnectStartLoop, clientVars
    <2> QED
      BY <1>1, <2>3, DialersKept DEF ConnectStartLoop, hdVars, closeVars
  <1>2. CASE ConnectWait
    BY <1>2, DialerMoves, ConstantsAssumption
    DEF ConnectWait, DialPCs, Dialers, flagVars, hdVars, closeVars
  <1> QED BY <1>1, <1>2

LEMMA CoreLoop ==
    ASSUME TypeOK, Core, NEW l \in Loops, LoopWake(l) \/ LoopExit(l)
    PROVE  Core'
  <1>0. dpc \in [Dialers -> DialPCs] /\ Loops \subseteq Dialers
          /\ Main \in Dialers /\ l # Main
    BY ConstantsAssumption DEF TypeOK, TypeDial, Dialers
  <1>1. CASE LoopWake(l)
    <2>1. CASE dpc' = [dpc EXCEPT ![l] = "exit"]
      BY <1>0, <1>1, <2>1, DialerMoves
      DEF LoopWake, DialPCs, flagVars, hdVars, closeVars
    <2>2. CASE dpc' = [dpc EXCEPT ![l] = "dial"] /\ ~Connected
      BY <1>0, <1>1, <2>2, DialerMoves
      DEF LoopWake, DialPCs, flagVars, hdVars, closeVars, Connected
    <2> QED BY <1>1, <2>1, <2>2 DEF LoopWake
  <1>2. CASE LoopExit(l)
    <2>1. LiveLoops = {l} BY <1>2 DEF LoopExit, Core, OneReconnector, LiveLoops
    <2>2. \A m \in Loops : dpc'[m] = "none"
      BY <1>0, <1>2, <2>1 DEF LoopExit, LiveLoops
    <2>3. LiveLoops' = {} BY <2>2 DEF LiveLoops
    <2>4. OneReconnector' BY <1>2, <2>3 DEF LoopExit, OneReconnector
    <2>5. dpc'[Main] = dpc[Main] BY <1>0, <1>2 DEF LoopExit
    <2>6. DialsAlone'
      BY <1>2, <2>2, <2>3, <2>5 DEF LoopExit, Core, DialsAlone, sockVars
    <2> QED
      BY <1>2, <2>4, <2>6, DialersKept DEF LoopExit, hdVars, closeVars
  <1> QED BY <1>1, <1>2

\* The critical section of handleDisconnect, on a real connection.
LEMMA CoreDisconnect ==
    ASSUME TypeOK, Core, NEW s \in Sockets, Disconnect(s),
           UNCHANGED <<reconnecting, closed, installed, sock, dpc, closeVars>>,
           \A t \in Sockets : t # s => /\ reader'[t] = reader[t]
                                       /\ pinger'[t] = pinger[t]
    PROVE  Core'
  <1> USE DEF closeVars
  <1>1. CASE conn # s
    <2>0. UNCHANGED clientVars /\ UNCHANGED hd BY <1>1 DEF Disconnect
    <2> USE DEF clientVars
    <2>1. InstalledOnly' BY <2>0 DEF Core, InstalledOnly
    <2>2. ChannelOpen' BY <2>0 DEF Core, ChannelOpen
    <2>3. LiveLoops' = LiveLoops BY DEF LiveLoops
    <2>4. DialsAlone' BY <2>0, <2>3 DEF Core, DialsAlone
    <2>5. OneReconnector' BY <2>3 DEF Core, OneReconnector
    <2>6. ConnectionWatched'
      BY <1>1, <2>0 DEF Core, ConnectionWatched, Connected, TypeOK, TypeClient
    <2>7. NoSocketLeak' BY <2>0 DEF Core, NoSocketLeak
    <2> QED
      BY <2>0, <2>1, <2>2, <2>4, <2>5, <2>6, <2>7
      DEF Core, ClosedIsClosing, ConnDoneClosedOnce
  <1>2. CASE conn = s
    <2>0. /\ conn # Nil /\ connDone = s /\ s \notin doneClosed
          /\ connDone' = Nil /\ conn' = Nil
          /\ doneClosed' = doneClosed \cup {s}
          /\ panicked' = panicked
          /\ hd' = [hd EXCEPT ![s] = "close"]
          /\ s <= installed
      BY <1>2, ConstantsAssumption
      DEF Disconnect, CloseConnDone, Core, ConnectionWatched, Connected,
          InstalledOnly, Sockets, Nil, TypeOK, TypeClient, ConnDoneClosedOnce
    <2>1. InstalledOnly'
      BY <2>0, ConstantsAssumption
      DEF Core, InstalledOnly, TypeOK, TypeHd, TypeSock, Sockets, Nil
    <2>2. ChannelOpen' BY <2>0 DEF ChannelOpen
    <2>3. LiveLoops' = LiveLoops BY DEF LiveLoops
    <2>4. DialsAlone' BY <2>0, <2>3 DEF Core, DialsAlone
    <2>5. OneReconnector' BY <2>3 DEF Core, OneReconnector
    <2>6. ConnectionWatched' BY <2>0 DEF ConnectionWatched, Connected
    <2>7. NoSocketLeak'
      BY <1>2, <2>0 DEF Core, NoSocketLeak, TypeOK, TypeHd
    <2> QED
      BY <2>0, <2>1, <2>2, <2>4, <2>5, <2>6, <2>7
      DEF Core, ClosedIsClosing, ConnDoneClosedOnce
  <1> QED BY <1>1, <1>2

LEMMA CoreHd ==
    ASSUME TypeOK, Core, NEW s \in Sockets, HdClose(s) \/ HdEnd(s) \/ HdRestart(s)
    PROVE  Core'
  <1>1. CASE HdClose(s)
    <2> USE <1>1 DEF HdClose, clientVars, flagVars, dialVars, closeVars
    <2>1. s <= installed /\ installed \in Nat
      BY ConstantsAssumption
      DEF Core, InstalledOnly, TypeOK, TypeSock, Sockets
    <2>2. InstalledOnly'
      BY <2>1 DEF Core, InstalledOnly, TypeOK, TypeHd, TypeSock, Sockets
    <2>3. ChannelOpen' BY DEF Core, ChannelOpen
    <2>4. LiveLoops' = LiveLoops BY DEF LiveLoops
    <2>5. DialsAlone' BY <2>4 DEF Core, DialsAlone
    <2>6. OneReconnector' BY <2>4 DEF Core, OneReconnector
    <2>7. ConnectionWatched' BY DEF Core, ConnectionWatched, Connected
    <2>8. NoSocketLeak'
      BY DEF Core, NoSocketLeak, TypeOK, TypeHd, TypeSock
    <2> QED
      BY <2>2, <2>3, <2>5, <2>6, <2>7, <2>8
      DEF Core, ClosedIsClosing, ConnDoneClosedOnce
  <1>2. CASE HdRestart(s)
    <2> USE <1>2 DEF HdRestart, clientVars, sockVars, closeVars
    <2>1. s <= installed /\ installed \in Nat /\ installed # 0
      BY ConstantsAssumption
      DEF Core, InstalledOnly, TypeOK, TypeSock, Sockets
    <2>2. OneReconnector' /\ DialsAlone'
      <3>1. StartLoop(dpc) OBVIOUS
      <3>2. dpc[Main] \in {"waitConn", "returned", "status"}
        BY <2>1 DEF Core, DialsAlone, TypeOK, TypeDial, DialPCs, Dialers
      <3> QED BY <3>1, <3>2, CoreStartLoop DEF TypeOK, TypeDial
    <2>3. InstalledOnly'
      BY <2>1 DEF Core, InstalledOnly, TypeOK, TypeHd, TypeSock, Sockets
    <2>4. ChannelOpen' BY DEF Core, ChannelOpen
    <2>5. ConnectionWatched' BY DEF Core, ConnectionWatched, Connected
    <2>6. NoSocketLeak' BY DEF Core, NoSocketLeak, TypeOK, TypeHd
    <2> QED
      BY <2>2, <2>3, <2>4, <2>5, <2>6
      DEF Core, ClosedIsClosing, ConnDoneClosedOnce
  <1>3. CASE HdEnd(s)
    <2> USE <1>3 DEF HdEnd, clientVars, flagVars, sockVars, dialVars, closeVars
    <2>1. s <= installed /\ installed \in Nat
      BY ConstantsAssumption
      DEF Core, InstalledOnly, TypeOK, TypeSock, Sockets
    <2>2. InstalledOnly'
      BY <2>1 DEF Core, InstalledOnly, TypeOK, TypeHd, TypeSock, Sockets
    <2>3. ChannelOpen' BY DEF Core, ChannelOpen
    <2>4. LiveLoops' = LiveLoops BY DEF LiveLoops
    <2>5. DialsAlone' BY <2>4 DEF Core, DialsAlone
    <2>6. OneReconnector' BY <2>4 DEF Core, OneReconnector
    <2>7. ConnectionWatched' BY DEF Core, ConnectionWatched, Connected
    <2>8. NoSocketLeak' BY DEF Core, NoSocketLeak, TypeOK, TypeHd
    <2> QED
      BY <2>2, <2>3, <2>5, <2>6, <2>7, <2>8
      DEF Core, ClosedIsClosing, ConnDoneClosedOnce
  <1> QED BY <1>1, <1>2, <1>3

LEMMA CoreWatch ==
    ASSUME TypeOK, Core, NEW s \in Sockets,
           \/ ReaderFail(s) \/ ReaderDisconnect(s)
           \/ PingFail(s) \/ PingDisconnect(s) \/ Break(s)
    PROVE  Core'
  <1> USE DEF flagVars, hdVars, dialVars, closeVars
  <1>0. reader \in [Sockets -> WatchPCs] /\ pinger \in [Sockets -> WatchPCs]
    BY DEF TypeOK, TypeSock
  <1>1. CASE ReaderDisconnect(s)
    BY <1>0, <1>1, CoreDisconnect DEF ReaderDisconnect
  <1>2. CASE PingDisconnect(s)
    BY <1>0, <1>2, CoreDisconnect DEF PingDisconnect
  <1>3. CASE ReaderFail(s) \/ PingFail(s) \/ Break(s)
    <2>0. /\ UNCHANGED <<clientVars, flagVars, installed, hd, dpc, closeVars>>
          /\ \A t \in Sockets : sock'[t] \in {"open", "broken"}
                                  <=> sock[t] \in {"open", "broken"}
          /\ \A t \in Sockets : sock'[t] = "unused" <=> sock[t] = "unused"
          /\ \A t \in Sockets : t \notin doneClosed =>
               /\ reader[t] \in {"run", "hd"} => reader'[t] \in {"run", "hd"}
               /\ pinger[t] \in {"run", "hd"} => pinger'[t] \in {"run", "hd"}
      BY <1>0, <1>3 DEF ReaderFail, PingFail, Break, TypeOK, TypeSock
    <2> USE <2>0 DEF clientVars
    <2>1. InstalledOnly' BY DEF Core, InstalledOnly
    <2>2. ChannelOpen' BY DEF Core, ChannelOpen
    <2>3. LiveLoops' = LiveLoops BY DEF LiveLoops
    <2>4. DialsAlone' BY <2>3 DEF Core, DialsAlone
    <2>5. OneReconnector' BY <2>3 DEF Core, OneReconnector
    <2>6. ConnectionWatched'
      BY DEF Core, ConnectionWatched, Connected, TypeOK, TypeClient
    <2>7. NoSocketLeak' BY DEF Core, NoSocketLeak
    <2> QED
      BY <2>1, <2>2, <2>4, <2>5, <2>6, <2>7
      DEF Core, ClosedIsClosing, ConnDoneClosedOnce
  <1> QED BY <1>1, <1>2, <1>3

LEMMA CoreClose ==
    ASSUME TypeOK, Core, CloseBegin \/ CloseDone \/ CloseClear \/ CloseStatus
    PROVE  Core'
  <1> USE DEF clientVars, flagVars, sockVars, hdVars, dialVars, closeVars
  <1>1. CASE CloseBegin \/ CloseDone
    <2> USE <1>1 DEF CloseBegin, CloseDone
    <2>1. InstalledOnly' BY DEF Core, InstalledOnly
    <2>2. ChannelOpen' BY DEF Core, ChannelOpen
    <2>3. LiveLoops' = LiveLoops BY DEF LiveLoops
    <2>4. DialsAlone' BY <2>3 DEF Core, DialsAlone
    <2>5. OneReconnector' BY <2>3 DEF Core, OneReconnector
    <2>6. ConnectionWatched' BY DEF Core, ConnectionWatched, Connected
    <2>7. NoSocketLeak' BY DEF Core, NoSocketLeak
    <2> QED
      BY <2>1, <2>2, <2>4, <2>5, <2>6, <2>7
      DEF Core, ClosedIsClosing, ConnDoneClosedOnce
  <1>2. CASE CloseClear
    <2> USE <1>2 DEF CloseClear
    <2>0. connDone \notin doneClosed
      BY ConstantsAssumption
      DEF Core, ChannelOpen, TypeOK, TypeClient, Sockets, Nil
    <2>1. InstalledOnly'
      BY ConstantsAssumption
      DEF Core, InstalledOnly, TypeOK, TypeClient, TypeSock, Sockets, Nil
    <2>2. ChannelOpen' BY DEF ChannelOpen
    <2>3. LiveLoops' = LiveLoops BY DEF LiveLoops
    <2>4. DialsAlone' BY <2>3 DEF Core, DialsAlone
    <2>5. OneReconnector' BY <2>3 DEF Core, OneReconnector
    <2>6. ConnectionWatched' BY DEF ConnectionWatched, Connected
    <2>7. closed BY DEF Core, ClosedIsClosing
    <2>8. NoSocketLeak' BY <2>7 DEF NoSocketLeak
    <2> QED
      BY <2>0, <2>1, <2>2, <2>4, <2>5, <2>6, <2>7, <2>8
      DEF Core, ClosedIsClosing, ConnDoneClosedOnce
  <1>3. CASE CloseStatus
    <2> USE <1>3 DEF CloseStatus
    <2>0. closed BY DEF Core, ClosedIsClosing
    <2>1. InstalledOnly'
      BY DEF Core, InstalledOnly, TypeOK, TypeClose, TypeSock, Sockets, Nil
    <2>2. ChannelOpen' BY DEF ChannelOpen
    <2>3. LiveLoops' = LiveLoops BY DEF LiveLoops
    <2>4. DialsAlone' BY <2>3 DEF Core, DialsAlone
    <2>5. OneReconnector' BY <2>3 DEF Core, OneReconnector
    <2>6. ConnectionWatched' BY DEF Core, ConnectionWatched, Connected
    <2>7. NoSocketLeak' BY <2>0 DEF NoSocketLeak
    <2> QED
      BY <2>0, <2>1, <2>2, <2>4, <2>5, <2>6, <2>7
      DEF Core, ClosedIsClosing, ConnDoneClosedOnce
  <1> QED BY <1>1, <1>2, <1>3

\* Of Call's steps only the reauthentication touches the connection.
LEMMA CoreCall ==
    ASSUME TypeOK, Core, CallersHaveConn, NEW c \in Callers,
           CallBegin(c) \/ Expire(c) \/ CallStep(c)
    PROVE  Core'
  <1> USE DEF flagVars, hdVars, dialVars
  <1>1. CASE HandleNotAuth(c)
    <2>1. cconn[c] \in Sockets
      BY <1>1 DEF HandleNotAuth, CallersHaveConn, TypeOK, TypeCall
    <2> QED BY <1>1, <2>1, CoreDisconnect DEF HandleNotAuth, sockVars
  <1>2. CASE ~HandleNotAuth(c)
    <2>1. UNCHANGED coreVars
      BY <1>2
      DEF coreVars, CallStep, CallBegin, Expire, Acquire, AcquireTimeout,
          ReadConn, CallSend, CallSendFail, CallReceive, CallTimeout,
          HandleDisconnected, HandleRetry, HandleReturn, WaitConnected,
          WaitGiveUp
    <2> QED BY <2>1, CoreKept
  <1> QED BY <1>1, <1>2

\* Deliveries touch nothing of the core.
LEMMA CoreDeliver ==
    ASSUME Core, NEW s \in Sockets,
           \/ \E m \in wire[s] : ReaderDeliver(s, m)
           \/ \E p \in pending : HdFail(s, p)
    PROVE  Core'
  <1>1. UNCHANGED coreVars
    BY DEF coreVars, ReaderDeliver, HdFail, flagVars, hdVars, dialVars
  <1> QED BY <1>1, CoreKept

\* Only Call's own steps change its program counter.
LEMMA CallersKept ==
    ASSUME TypeOK, CallersHaveConn, Next
    PROVE  CallersHaveConn'
  <1>1. CASE UNCHANGED <<pc, cconn>> BY <1>1 DEF CallersHaveConn
  <1>2. CASE \E c \in Callers : CallBegin(c) \/ Expire(c) \/ CallStep(c)
    <2>1. PICK c \in Callers : CallBegin(c) \/ Expire(c) \/ CallStep(c)
      BY <1>2
    <2>2. pc \in [Callers -> CallPCs]
            /\ cconn \in [Callers -> Sockets \cup {Nil}]
      BY DEF TypeOK, TypeCall
    <2>3. \A b \in Callers : b # c => pc'[b] = pc[b] /\ cconn'[b] = cconn[b]
      BY <2>1, <2>2
      DEF CallBegin, Expire, CallStep, Acquire, AcquireTimeout, ReadConn,
          CallSend, CallSendFail, CallReceive, CallTimeout, HandleNotAuth,
          HandleDisconnected, HandleRetry, HandleReturn, WaitConnected,
          WaitGiveUp, Return
    <2>4. pc'[c] \in {"send", "await", "handle", "inHandle"} => cconn'[c] # Nil
      BY <2>1, <2>2
      DEF CallersHaveConn, CallBegin, Expire, CallStep, Acquire,
          AcquireTimeout, ReadConn, CallSend, CallSendFail, CallReceive,
          CallTimeout, HandleNotAuth, HandleDisconnected, HandleRetry,
          HandleReturn, WaitConnected, WaitGiveUp, Return, Connected
    <2> QED BY <2>3, <2>4 DEF CallersHaveConn
  <1>3. CASE \E d \in Dialers : DialStart(d) \/ DialAuthFail(d)
               \/ DialInstall(d) \/ DialReturn(d) \/ DialFail(d)
    BY <1>1, <1>3
    DEF DialStart, DialAuthFail, DialInstall, DialReturn, DialFail, callVars
  <1>4. CASE \E l \in Loops : LoopWake(l) \/ LoopExit(l)
    BY <1>1, <1>4 DEF LoopWake, LoopExit, callVars
  <1>5. CASE ConnectStartLoop \/ ConnectWait
    BY <1>1, <1>5 DEF ConnectStartLoop, ConnectWait, callVars
  <1>6. CASE \E s \in Sockets :
               \/ HdClose(s) \/ (\E p \in pending : HdFail(s, p)) \/ HdEnd(s)
               \/ HdRestart(s)
               \/ (\E m \in wire[s] : ReaderDeliver(s, m))
               \/ ReaderFail(s) \/ ReaderDisconnect(s)
               \/ PingFail(s) \/ PingDisconnect(s) \/ Break(s)
    BY <1>1, <1>6
    DEF HdClose, HdFail, HdEnd, HdRestart, ReaderDeliver, ReaderFail,
        ReaderDisconnect, PingFail, PingDisconnect, Break, callVars
  <1>7. CASE CloseBegin \/ CloseDone \/ CloseClear \/ CloseStatus
    BY <1>1, <1>7 DEF CloseBegin, CloseDone, CloseClear, CloseStatus, callVars
  <1> QED BY <1>2, <1>3, <1>4, <1>5, <1>6, <1>7, NextCases

LEMMA CoreInit == Init => Core /\ CallersHaveConn
  <1> SUFFICES ASSUME Init PROVE Core /\ CallersHaveConn OBVIOUS
  <1> USE ConstantsAssumption DEF Init, Nil
  <1>1. InstalledOnly BY DEF InstalledOnly
  <1>2. ChannelOpen /\ ClosedIsClosing /\ ConnDoneClosedOnce /\ NoSocketLeak
    BY DEF ChannelOpen, ClosedIsClosing, ConnDoneClosedOnce, NoSocketLeak
  <1>3. LiveLoops = {} BY DEF LiveLoops, Dialers
  <1>4. DialsAlone BY <1>3 DEF DialsAlone, Dialers
  <1>5. OneReconnector BY <1>3 DEF OneReconnector
  <1>6. ConnectionWatched BY DEF ConnectionWatched, Connected
  <1>7. CallersHaveConn BY DEF CallersHaveConn
  <1> QED BY <1>1, <1>2, <1>4, <1>5, <1>6, <1>7 DEF Core

LEMMA ConnInvNext == ConnInv /\ [Next]_vars => ConnInv'
  <1> SUFFICES ASSUME ConnInv, [Next]_vars PROVE ConnInv' OBVIOUS
  <1>1. TypeOK /\ Core /\ CallersHaveConn BY DEF ConnInv, Core
  <1>2. TypeOK' BY <1>1, TypeNext
  <1>3. CASE Next
    <2>1. Core'
      BY <1>1, <1>3, NextCases, CoreDial, CoreInstall, CoreConnect, CoreLoop,
         CoreHd, CoreDeliver, CoreWatch, CoreCall, CoreClose
    <2>2. CallersHaveConn' BY <1>1, <1>3, CallersKept
    <2> QED BY <1>2, <2>1, <2>2 DEF ConnInv, Core
  <1>4. CASE UNCHANGED vars
    <2>1. UNCHANGED coreVars
      BY <1>4 DEF vars, coreVars, flagVars, hdVars, dialVars
    <2>2. CallersHaveConn' BY <1>1, <1>4 DEF vars, callVars, CallersHaveConn
    <2> QED BY <1>1, <1>2, <2>1, <2>2, CoreKept DEF ConnInv, Core
  <1> QED BY <1>3, <1>4

\* The connection invariant holds in every reachable state.
THEOREM ConnectionInvariant == Spec => []ConnInv
  <1>1. Init => ConnInv BY TypeInit, CoreInit DEF ConnInv, Core
  <1> QED BY <1>1, ConnInvNext, PTL DEF Spec

\* No goroutine ever closes a done channel twice, for any number of callers
\* and reconnections (handleDisconnect against Close).
THEOREM NoDoubleClose == Spec => []ConnDoneClosedOnce
  <1>1. ConnInv => ConnDoneClosedOnce BY DEF ConnInv
  <1> QED BY <1>1, ConnectionInvariant, PTL

\* The reconnecting flag is exact and admits one reconnectLoop at a time.
THEOREM SingleReconnector == Spec => []OneReconnector
  <1>1. ConnInv => OneReconnector BY DEF ConnInv
  <1> QED BY <1>1, ConnectionInvariant, PTL

\* The current connection always has its two watchers and an open channel.
THEOREM AlwaysWatched == Spec => []ConnectionWatched
  <1>1. ConnInv => ConnectionWatched BY DEF ConnInv
  <1> QED BY <1>1, ConnectionInvariant, PTL

\* Before Close no socket is left open without an owner.
THEOREM SocketsReclaimed == Spec => []NoSocketLeak
  <1>1. ConnInv => NoSocketLeak BY DEF ConnInv
  <1> QED BY <1>1, ConnectionInvariant, PTL

\* No step replaces a live connection by another one.
THEOREM NothingReplaced == Spec => DialReplacesNothing
  <1>1. ConnInv /\ [Next]_vars =>
          [conn # Nil /\ conn' # conn => conn' = Nil]_vars
    <2> SUFFICES ASSUME ConnInv, Next, conn # Nil, conn' # conn
                 PROVE  conn' = Nil
      OBVIOUS
    <2>1. TypeOK /\ Core BY DEF ConnInv, Core
    <2>2. ~ \E d \in Dialers : DialInstall(d) BY <2>1, CoreInstall
    <2>3. CASE \E s \in Sockets : ReaderDisconnect(s) \/ PingDisconnect(s)
      BY <2>3 DEF ReaderDisconnect, PingDisconnect, Disconnect, clientVars
    <2>4. CASE \E c \in Callers : CallBegin(c) \/ Expire(c) \/ CallStep(c)
      BY <2>4
      DEF CallBegin, Expire, CallStep, Acquire, AcquireTimeout, ReadConn,
          CallSend, CallSendFail, CallReceive, CallTimeout, HandleNotAuth,
          HandleDisconnected, HandleRetry, HandleReturn, WaitConnected,
          WaitGiveUp, Disconnect, clientVars
    <2>5. CASE CloseBegin \/ CloseDone \/ CloseClear \/ CloseStatus
      BY <2>5 DEF CloseBegin, CloseDone, CloseClear, CloseStatus, clientVars
    <2>6. CASE ConnectStartLoop \/ ConnectWait
      BY <2>6 DEF ConnectStartLoop, ConnectWait, clientVars
    <2>7. CASE \E d \in Dialers : DialStart(d) \/ DialAuthFail(d)
                 \/ DialReturn(d) \/ DialFail(d)
      BY <2>7 DEF DialStart, DialAuthFail, DialReturn, DialFail, clientVars
    <2>8. CASE \E l \in Loops : LoopWake(l) \/ LoopExit(l)
      BY <2>8 DEF LoopWake, LoopExit, clientVars
    <2>9. CASE \E s \in Sockets :
                 \/ HdClose(s) \/ (\E p \in pending : HdFail(s, p))
                 \/ HdEnd(s) \/ HdRestart(s) \/ (\E m \in wire[s] : ReaderDeliver(s, m))
                 \/ ReaderFail(s) \/ PingFail(s) \/ Break(s)
      BY <2>9
      DEF HdClose, HdFail, HdEnd, HdRestart, ReaderDeliver, ReaderFail, PingFail,
          Break, clientVars
    <2> QED
      BY <2>2, <2>3, <2>4, <2>5, <2>6, <2>7, <2>8, <2>9, NextCases
  <1> QED BY <1>1, ConnectionInvariant, PTL DEF Spec, DialReplacesNothing
=============================================================================
