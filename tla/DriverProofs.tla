---------------------------- MODULE DriverProofs ----------------------------
(***************************************************************************)
(* Theorems of DriverProcess, for any number of requests and faults.       *)
(* DriverInv says why a stopped server has no handlers left, and that only *)
(* a signal or a server error stops it; it is inductive, and Drained and   *)
(* MetricsOptional follow from it.                                         *)
(***************************************************************************)
EXTENDS DriverProcess, TLAPS

\* Every step keeps the types of main, Run and Stop.
LEMMA ProcTypes ==
    ASSUME TypeOK, [Next]_vars
    PROVE  TypeProc'
<1> USE DEF TypeOK, TypeProc, TypeSignals, Stoppers
<1>1. CASE UNCHANGED vars
  BY <1>1 DEF vars, procVars, srvVars, sigVars, reqVars
<1>2. CASE Connect
  BY <1>2 DEF Connect, Exit, Proceed
<1>3. CASE Ping
  BY <1>3 DEF Ping, Exit, Proceed
<1>4. CASE GetPool
  BY <1>4 DEF GetPool, Exit, Proceed
<1>5. CASE ResolvePortal
  BY <1>5 DEF ResolvePortal, Proceed, Works, Fault
<1>6. CASE ResolvePort
  BY <1>6 DEF ResolvePort, Proceed, Works, Fault
<1>7. CASE NewNodeServer
  BY <1>7 DEF NewNodeServer, Exit, Proceed
<1>8. CASE StartRun
  BY <1>8 DEF StartRun
<1>9. CASE MainReturned
  BY <1>9 DEF MainReturned, Exit
<1>10. CASE MainSignal
  BY <1>10 DEF MainSignal
<1>11. CASE MainStopped
  BY <1>11 DEF MainStopped, Exit
<1>12. CASE RunNotify
  BY <1>12 DEF RunNotify, RunAt
<1>13. CASE RunListen
  BY <1>13 DEF RunListen, RunAt
<1>14. CASE RunServer
  BY <1>14 DEF RunServer, RunAt
<1>15. CASE RunMetrics
  BY <1>15 DEF RunMetrics, RunAt
<1>16. CASE RunServe
  BY <1>16 DEF RunServe, RunAt
<1>17. CASE RunSelect
  BY <1>17 DEF RunSelect, procVars, RunStop
<1>18. CASE RunReturn
  BY <1>18 DEF RunReturn, RunAt
<1>19. CASE ServeStart
  BY <1>19 DEF ServeStart, procVars
<1>20. CASE ServeReturn
  BY <1>20 DEF ServeReturn, procVars
<1>21. CASE Signal
  BY <1>21 DEF Signal, procVars, Exit
<1>22. CASE MetricsFail
  BY <1>22 DEF MetricsFail, procVars, Works, Fault
<1>23. ASSUME NEW x \in Stoppers, StopMetrics(x) PROVE TypeProc'
  BY <1>23 DEF StopMetrics, StopAt
<1>24. ASSUME NEW x \in Stoppers, StopDrain(x) PROVE TypeProc'
  BY <1>24 DEF StopDrain, StopAt, Exit
<1>25. ASSUME NEW x \in Stoppers, StopWait(x) PROVE TypeProc'
  BY <1>25 DEF StopWait, StopAt
<1>26. ASSUME NEW x \in Stoppers, StopForce(x) PROVE TypeProc'
  BY <1>26 DEF StopForce, StopAt
<1>27. ASSUME NEW x \in Stoppers, StopClose(x) PROVE TypeProc'
  BY <1>27 DEF StopClose, StopAt
<1>28. ASSUME NEW r \in Requests, Receive(r) PROVE TypeProc'
  BY <1>28 DEF Receive, procVars, HandlerAt
<1>29. ASSUME NEW r \in Requests, QueryPort(r) PROVE TypeProc'
  BY <1>29 DEF QueryPort, procVars, HandlerAt, Resolved
<1>30. ASSUME NEW r \in Requests, CreatePort(r) PROVE TypeProc'
  BY <1>30 DEF CreatePort, procVars, HandlerAt, Resolved
<1>31. ASSUME NEW r \in Requests, Answer(r) PROVE TypeProc'
  BY <1>31 DEF Answer, procVars, HandlerAt
<1> QED
  BY <1>1, <1>2, <1>3, <1>4, <1>5, <1>6, <1>7, <1>8, <1>9, <1>10, <1>11, <1>12, <1>13, <1>14, <1>15, <1>16,
     <1>17, <1>18, <1>19, <1>20, <1>21, <1>22, <1>23, <1>24, <1>25, <1>26, <1>27, <1>28, <1>29, <1>30, <1>31
     DEF Next, Main, NewDriver, Run, Serve, Stop, Handle

\* Every step keeps the types of the servers.
LEMMA ServerTypes ==
    ASSUME TypeOK, [Next]_vars
    PROVE  TypeServers'
<1> USE DEF TypeOK, TypeServers
<1>1. CASE UNCHANGED vars
  BY <1>1 DEF vars, procVars, srvVars, sigVars, reqVars
<1>2. CASE Connect
  BY <1>2 DEF Connect, srvVars, Exit, Proceed
<1>3. CASE Ping
  BY <1>3 DEF Ping, srvVars, Exit, Proceed
<1>4. CASE GetPool
  BY <1>4 DEF GetPool, srvVars, Exit, Proceed
<1>5. CASE ResolvePortal
  BY <1>5 DEF ResolvePortal, srvVars, Proceed, Works, Fault
<1>6. CASE ResolvePort
  BY <1>6 DEF ResolvePort, srvVars, Proceed, Works, Fault
<1>7. CASE NewNodeServer
  BY <1>7 DEF NewNodeServer, srvVars, Exit, Proceed
<1>8. CASE StartRun
  BY <1>8 DEF StartRun, srvVars
<1>9. CASE MainReturned
  BY <1>9 DEF MainReturned, srvVars, Exit
<1>10. CASE MainSignal
  BY <1>10 DEF MainSignal, srvVars
<1>11. CASE MainStopped
  BY <1>11 DEF MainStopped, srvVars, Exit
<1>12. CASE RunNotify
  BY <1>12 DEF RunNotify, srvVars, RunAt
<1>13. CASE RunListen
  BY <1>13 DEF RunListen, srvVars, RunAt
<1>14. CASE RunServer
  BY <1>14 DEF RunServer, RunAt
<1>15. CASE RunMetrics
  BY <1>15 DEF RunMetrics, RunAt
<1>16. CASE RunServe
  BY <1>16 DEF RunServe, RunAt
<1>17. CASE RunSelect
  BY <1>17 DEF RunSelect, RunStop
<1>18. CASE RunReturn
  BY <1>18 DEF RunReturn, srvVars, RunAt
<1>19. CASE ServeStart
  BY <1>19 DEF ServeStart
<1>20. CASE ServeReturn
  BY <1>20 DEF ServeReturn
<1>21. CASE Signal
  BY <1>21 DEF Signal, srvVars, Exit
<1>22. CASE MetricsFail
  BY <1>22 DEF MetricsFail, Works, Fault
<1>23. ASSUME NEW x \in Stoppers, StopMetrics(x) PROVE TypeServers'
  BY <1>23 DEF StopMetrics, StopAt
<1>24. ASSUME NEW x \in Stoppers, StopDrain(x) PROVE TypeServers'
  BY <1>24 DEF StopDrain, StopAt, Exit
<1>25. ASSUME NEW x \in Stoppers, StopWait(x) PROVE TypeServers'
  BY <1>25 DEF StopWait, srvVars, StopAt
<1>26. ASSUME NEW x \in Stoppers, StopForce(x) PROVE TypeServers'
  BY <1>26 DEF StopForce, srvVars, StopAt
<1>27. ASSUME NEW x \in Stoppers, StopClose(x) PROVE TypeServers'
  BY <1>27 DEF StopClose, srvVars, StopAt
<1>28. ASSUME NEW r \in Requests, Receive(r) PROVE TypeServers'
  BY <1>28 DEF Receive, srvVars, HandlerAt
<1>29. ASSUME NEW r \in Requests, QueryPort(r) PROVE TypeServers'
  BY <1>29 DEF QueryPort, srvVars, HandlerAt, Resolved
<1>30. ASSUME NEW r \in Requests, CreatePort(r) PROVE TypeServers'
  BY <1>30 DEF CreatePort, srvVars, HandlerAt, Resolved
<1>31. ASSUME NEW r \in Requests, Answer(r) PROVE TypeServers'
  BY <1>31 DEF Answer, srvVars, HandlerAt
<1> QED
  BY <1>1, <1>2, <1>3, <1>4, <1>5, <1>6, <1>7, <1>8, <1>9, <1>10, <1>11, <1>12, <1>13, <1>14, <1>15, <1>16,
     <1>17, <1>18, <1>19, <1>20, <1>21, <1>22, <1>23, <1>24, <1>25, <1>26, <1>27, <1>28, <1>29, <1>30, <1>31
     DEF Next, Main, NewDriver, Run, Serve, Stop, Handle

\* Every step keeps the types of the signals.
LEMMA SignalTypes ==
    ASSUME TypeOK, [Next]_vars
    PROVE  TypeSignals'
<1> USE DEF TypeOK, TypeSignals
<1>1. CASE UNCHANGED vars
  BY <1>1 DEF vars, procVars, srvVars, sigVars, reqVars
<1>2. CASE Connect
  BY <1>2 DEF Connect, sigVars, Exit, Proceed
<1>3. CASE Ping
  BY <1>3 DEF Ping, sigVars, Exit, Proceed
<1>4. CASE GetPool
  BY <1>4 DEF GetPool, sigVars, Exit, Proceed
<1>5. CASE ResolvePortal
  BY <1>5 DEF ResolvePortal, sigVars, Proceed, Works, Fault
<1>6. CASE ResolvePort
  BY <1>6 DEF ResolvePort, sigVars, Proceed, Works, Fault
<1>7. CASE NewNodeServer
  BY <1>7 DEF NewNodeServer, sigVars, Exit, Proceed
<1>8. CASE StartRun
  BY <1>8 DEF StartRun, sigVars
<1>9. CASE MainReturned
  BY <1>9 DEF MainReturned, sigVars, Exit
<1>10. CASE MainSignal
  BY <1>10 DEF MainSignal
<1>11. CASE MainStopped
  BY <1>11 DEF MainStopped, sigVars, Exit
<1>12. CASE RunNotify
  BY <1>12 DEF RunNotify, sigVars, RunAt
<1>13. CASE RunListen
  BY <1>13 DEF RunListen, RunAt
<1>14. CASE RunServer
  BY <1>14 DEF RunServer, sigVars, RunAt
<1>15. CASE RunMetrics
  BY <1>15 DEF RunMetrics, sigVars, RunAt
<1>16. CASE RunServe
  BY <1>16 DEF RunServe, sigVars, RunAt
<1>17. CASE RunSelect
  BY <1>17 DEF RunSelect, sigVars, RunStop
<1>18. CASE RunReturn
  BY <1>18 DEF RunReturn, RunAt
<1>19. CASE ServeStart
  BY <1>19 DEF ServeStart, sigVars
<1>20. CASE ServeReturn
  BY <1>20 DEF ServeReturn, sigVars
<1>21. CASE Signal
  BY <1>21 DEF Signal, Exit
<1>22. CASE MetricsFail
  BY <1>22 DEF MetricsFail, sigVars, Works, Fault
<1>23. ASSUME NEW x \in Stoppers, StopMetrics(x) PROVE TypeSignals'
  BY <1>23 DEF StopMetrics, sigVars, StopAt
<1>24. ASSUME NEW x \in Stoppers, StopDrain(x) PROVE TypeSignals'
  BY <1>24 DEF StopDrain, sigVars, StopAt, Exit
<1>25. ASSUME NEW x \in Stoppers, StopWait(x) PROVE TypeSignals'
  BY <1>25 DEF StopWait, sigVars, StopAt
<1>26. ASSUME NEW x \in Stoppers, StopForce(x) PROVE TypeSignals'
  BY <1>26 DEF StopForce, StopAt
<1>27. ASSUME NEW x \in Stoppers, StopClose(x) PROVE TypeSignals'
  BY <1>27 DEF StopClose, sigVars, StopAt
<1>28. ASSUME NEW r \in Requests, Receive(r) PROVE TypeSignals'
  BY <1>28 DEF Receive, sigVars, HandlerAt
<1>29. ASSUME NEW r \in Requests, QueryPort(r) PROVE TypeSignals'
  BY <1>29 DEF QueryPort, sigVars, HandlerAt, Resolved
<1>30. ASSUME NEW r \in Requests, CreatePort(r) PROVE TypeSignals'
  BY <1>30 DEF CreatePort, sigVars, HandlerAt, Resolved
<1>31. ASSUME NEW r \in Requests, Answer(r) PROVE TypeSignals'
  BY <1>31 DEF Answer, sigVars, HandlerAt
<1> QED
  BY <1>1, <1>2, <1>3, <1>4, <1>5, <1>6, <1>7, <1>8, <1>9, <1>10, <1>11, <1>12, <1>13, <1>14, <1>15, <1>16,
     <1>17, <1>18, <1>19, <1>20, <1>21, <1>22, <1>23, <1>24, <1>25, <1>26, <1>27, <1>28, <1>29, <1>30, <1>31
     DEF Next, Main, NewDriver, Run, Serve, Stop, Handle

\* Every step keeps the types of the requests.
LEMMA RequestTypes ==
    ASSUME TypeOK, [Next]_vars
    PROVE  TypeRequests'
<1> USE DEF TypeOK, TypeRequests, Endpoints
<1>1. CASE UNCHANGED vars
  BY <1>1 DEF vars, procVars, srvVars, sigVars, reqVars
<1>2. CASE Connect
  BY <1>2 DEF Connect, reqVars, Exit, Proceed
<1>3. CASE Ping
  BY <1>3 DEF Ping, reqVars, Exit, Proceed
<1>4. CASE GetPool
  BY <1>4 DEF GetPool, reqVars, Exit, Proceed
<1>5. CASE ResolvePortal
  BY <1>5 DEF ResolvePortal, Proceed, Works, Fault
<1>6. CASE ResolvePort
  BY <1>6 DEF ResolvePort, Proceed, Works, Fault
<1>7. CASE NewNodeServer
  BY <1>7 DEF NewNodeServer, reqVars, Exit, Proceed
<1>8. CASE StartRun
  BY <1>8 DEF StartRun, reqVars
<1>9. CASE MainReturned
  BY <1>9 DEF MainReturned, reqVars, Exit
<1>10. CASE MainSignal
  BY <1>10 DEF MainSignal, reqVars
<1>11. CASE MainStopped
  BY <1>11 DEF MainStopped, reqVars, Exit
<1>12. CASE RunNotify
  BY <1>12 DEF RunNotify, reqVars, RunAt
<1>13. CASE RunListen
  BY <1>13 DEF RunListen, reqVars, RunAt
<1>14. CASE RunServer
  BY <1>14 DEF RunServer, reqVars, RunAt
<1>15. CASE RunMetrics
  BY <1>15 DEF RunMetrics, reqVars, RunAt
<1>16. CASE RunServe
  BY <1>16 DEF RunServe, reqVars, RunAt
<1>17. CASE RunSelect
  BY <1>17 DEF RunSelect, reqVars, RunStop
<1>18. CASE RunReturn
  BY <1>18 DEF RunReturn, reqVars, RunAt
<1>19. CASE ServeStart
  BY <1>19 DEF ServeStart, reqVars
<1>20. CASE ServeReturn
  BY <1>20 DEF ServeReturn, reqVars
<1>21. CASE Signal
  BY <1>21 DEF Signal, reqVars, Exit
<1>22. CASE MetricsFail
  BY <1>22 DEF MetricsFail, reqVars, Works, Fault
<1>23. ASSUME NEW x \in Stoppers, StopMetrics(x) PROVE TypeRequests'
  BY <1>23 DEF StopMetrics, reqVars, StopAt
<1>24. ASSUME NEW x \in Stoppers, StopDrain(x) PROVE TypeRequests'
  BY <1>24 DEF StopDrain, reqVars, StopAt, Exit
<1>25. ASSUME NEW x \in Stoppers, StopWait(x) PROVE TypeRequests'
  BY <1>25 DEF StopWait, reqVars, StopAt
<1>26. ASSUME NEW x \in Stoppers, StopForce(x) PROVE TypeRequests'
  BY <1>26 DEF StopForce, reqVars, StopAt
<1>27. ASSUME NEW x \in Stoppers, StopClose(x) PROVE TypeRequests'
  BY <1>27 DEF StopClose, reqVars, StopAt
<1>28. ASSUME NEW r \in Requests, Receive(r) PROVE TypeRequests'
  BY <1>28, DriverAssumption DEF Receive, HandlerAt
<1>29. ASSUME NEW r \in Requests, QueryPort(r) PROVE TypeRequests'
  BY <1>29, DriverAssumption DEF QueryPort, HandlerAt, Resolved
<1>30. ASSUME NEW r \in Requests, CreatePort(r) PROVE TypeRequests'
  BY <1>30, DriverAssumption DEF CreatePort, HandlerAt, Resolved
<1>31. ASSUME NEW r \in Requests, Answer(r) PROVE TypeRequests'
  BY <1>31, DriverAssumption DEF Answer, HandlerAt
<1> QED
  BY <1>1, <1>2, <1>3, <1>4, <1>5, <1>6, <1>7, <1>8, <1>9, <1>10, <1>11, <1>12, <1>13, <1>14, <1>15, <1>16,
     <1>17, <1>18, <1>19, <1>20, <1>21, <1>22, <1>23, <1>24, <1>25, <1>26, <1>27, <1>28, <1>29, <1>30, <1>31
     DEF Next, Main, NewDriver, Run, Serve, Stop, Handle

\* Faults are counted.
LEMMA FaultTypes ==
    ASSUME TypeOK, [Next]_vars
    PROVE  (faults \in Nat)'
<1> USE DEF TypeOK
<1>1. CASE UNCHANGED vars
  BY <1>1, DriverAssumption DEF vars, procVars, srvVars, sigVars, reqVars
<1>2. CASE Connect
  BY <1>2, DriverAssumption DEF Connect, Exit, Proceed, Works, Fault
<1>3. CASE Ping
  BY <1>3, DriverAssumption DEF Ping, Exit, Proceed, Works, Fault
<1>4. CASE GetPool
  BY <1>4, DriverAssumption DEF GetPool, Exit, Proceed, Works, Fault
<1>5. CASE ResolvePortal
  BY <1>5, DriverAssumption DEF ResolvePortal, Proceed, Works, Fault
<1>6. CASE ResolvePort
  BY <1>6, DriverAssumption DEF ResolvePort, Proceed, Works, Fault
<1>7. CASE NewNodeServer
  BY <1>7, DriverAssumption DEF NewNodeServer, Exit, Proceed, Works, Fault
<1>8. CASE StartRun
  BY <1>8, DriverAssumption DEF StartRun
<1>9. CASE MainReturned
  BY <1>9, DriverAssumption DEF MainReturned, Exit
<1>10. CASE MainSignal
  BY <1>10, DriverAssumption DEF MainSignal
<1>11. CASE MainStopped
  BY <1>11, DriverAssumption DEF MainStopped, Exit
<1>12. CASE RunNotify
  BY <1>12, DriverAssumption DEF RunNotify, RunAt
<1>13. CASE RunListen
  BY <1>13, DriverAssumption DEF RunListen, RunAt, Works, Fault
<1>14. CASE RunServer
  BY <1>14, DriverAssumption DEF RunServer, RunAt
<1>15. CASE RunMetrics
  BY <1>15, DriverAssumption DEF RunMetrics, RunAt
<1>16. CASE RunServe
  BY <1>16, DriverAssumption DEF RunServe, RunAt
<1>17. CASE RunSelect
  BY <1>17, DriverAssumption DEF RunSelect, RunStop
<1>18. CASE RunReturn
  BY <1>18, DriverAssumption DEF RunReturn, RunAt
<1>19. CASE ServeStart
  BY <1>19, DriverAssumption DEF ServeStart
<1>20. CASE ServeReturn
  BY <1>20, DriverAssumption DEF ServeReturn, Works, Fault
<1>21. CASE Signal
  BY <1>21, DriverAssumption DEF Signal, Exit
<1>22. CASE MetricsFail
  BY <1>22, DriverAssumption DEF MetricsFail, Works, Fault
<1>23. ASSUME NEW x \in Stoppers, StopMetrics(x) PROVE (faults \in Nat)'
  BY <1>23, DriverAssumption DEF StopMetrics, StopAt
<1>24. ASSUME NEW x \in Stoppers, StopDrain(x) PROVE (faults \in Nat)'
  BY <1>24, DriverAssumption DEF StopDrain, StopAt, Exit
<1>25. ASSUME NEW x \in Stoppers, StopWait(x) PROVE (faults \in Nat)'
  BY <1>25, DriverAssumption DEF StopWait, StopAt
<1>26. ASSUME NEW x \in Stoppers, StopForce(x) PROVE (faults \in Nat)'
  BY <1>26, DriverAssumption DEF StopForce, StopAt
<1>27. ASSUME NEW x \in Stoppers, StopClose(x) PROVE (faults \in Nat)'
  BY <1>27, DriverAssumption DEF StopClose, StopAt
<1>28. ASSUME NEW r \in Requests, Receive(r) PROVE (faults \in Nat)'
  BY <1>28, DriverAssumption DEF Receive, HandlerAt, CallWorks, CallFails, Works, Fault
<1>29. ASSUME NEW r \in Requests, QueryPort(r) PROVE (faults \in Nat)'
  BY <1>29, DriverAssumption DEF QueryPort, HandlerAt, Resolved, CallWorks, CallFails, Works, Fault
<1>30. ASSUME NEW r \in Requests, CreatePort(r) PROVE (faults \in Nat)'
  BY <1>30, DriverAssumption DEF CreatePort, HandlerAt, Resolved, Works, Fault, CallWorks, CallFails
<1>31. ASSUME NEW r \in Requests, Answer(r) PROVE (faults \in Nat)'
  BY <1>31, DriverAssumption DEF Answer, HandlerAt, CallWorks, CallFails, Works, Fault
<1> QED
  BY <1>1, <1>2, <1>3, <1>4, <1>5, <1>6, <1>7, <1>8, <1>9, <1>10, <1>11, <1>12, <1>13, <1>14, <1>15, <1>16,
     <1>17, <1>18, <1>19, <1>20, <1>21, <1>22, <1>23, <1>24, <1>25, <1>26, <1>27, <1>28, <1>29, <1>30, <1>31
     DEF Next, Main, NewDriver, Run, Serve, Stop, Handle

\* Nothing of Run or Stop happens before NewDriver is done.
LEMMA StartedStep ==
    ASSUME TypeOK, Started, [Next]_vars
    PROVE  Started'
<1> USE DEF TypeOK, TypeProc, TypeSignals, Started, Stoppers, NewPCs, Alive
<1>1. CASE UNCHANGED vars
  BY <1>1 DEF vars, procVars, srvVars, sigVars, reqVars
<1>2. CASE Connect
  BY <1>2 DEF Connect, srvVars, sigVars, Exit, Proceed
<1>3. CASE Ping
  BY <1>3 DEF Ping, srvVars, sigVars, Exit, Proceed
<1>4. CASE GetPool
  BY <1>4 DEF GetPool, srvVars, sigVars, Exit, Proceed
<1>5. CASE ResolvePortal
  BY <1>5 DEF ResolvePortal, srvVars, sigVars, Proceed, Works, Fault
<1>6. CASE ResolvePort
  BY <1>6 DEF ResolvePort, srvVars, sigVars, Proceed, Works, Fault
<1>7. CASE NewNodeServer
  BY <1>7 DEF NewNodeServer, srvVars, sigVars, Exit, Proceed
<1>8. CASE StartRun
  BY <1>8 DEF StartRun, srvVars, sigVars
<1>9. CASE MainReturned
  BY <1>9 DEF MainReturned, srvVars, sigVars, Exit
<1>10. CASE MainSignal
  BY <1>10 DEF MainSignal, srvVars
<1>11. CASE MainStopped
  BY <1>11 DEF MainStopped, srvVars, sigVars, Exit
<1>12. CASE RunNotify
  BY <1>12 DEF RunNotify, srvVars, sigVars, RunAt
<1>13. CASE RunListen
  BY <1>13 DEF RunListen, srvVars, RunAt
<1>14. CASE RunServer
  BY <1>14 DEF RunServer, sigVars, RunAt
<1>15. CASE RunMetrics
  BY <1>15 DEF RunMetrics, sigVars, RunAt
<1>16. CASE RunServe
  BY <1>16 DEF RunServe, sigVars, RunAt
<1>17. CASE RunSelect
  BY <1>17 DEF RunSelect, procVars, sigVars, RunStop
<1>18. CASE RunReturn
  BY <1>18 DEF RunReturn, srvVars, RunAt
<1>19. CASE ServeStart
  BY <1>19 DEF ServeStart, procVars, sigVars
<1>20. CASE ServeReturn
  BY <1>20 DEF ServeReturn, procVars, sigVars
<1>21. CASE Signal
  BY <1>21 DEF Signal, procVars, srvVars, Exit
<1>22. CASE MetricsFail
  BY <1>22 DEF MetricsFail, procVars, sigVars, Works, Fault
<1>23. ASSUME NEW x \in Stoppers, StopMetrics(x) PROVE Started'
  BY <1>23 DEF StopMetrics, sigVars, StopAt
<1>24. ASSUME NEW x \in Stoppers, StopDrain(x) PROVE Started'
  BY <1>24 DEF StopDrain, sigVars, StopAt, Exit
<1>25. ASSUME NEW x \in Stoppers, StopWait(x) PROVE Started'
  BY <1>25 DEF StopWait, srvVars, sigVars, StopAt
<1>26. ASSUME NEW x \in Stoppers, StopForce(x) PROVE Started'
  BY <1>26 DEF StopForce, srvVars, StopAt
<1>27. ASSUME NEW x \in Stoppers, StopClose(x) PROVE Started'
  BY <1>27 DEF StopClose, srvVars, sigVars, StopAt
<1>28. ASSUME NEW r \in Requests, Receive(r) PROVE Started'
  BY <1>28 DEF Receive, procVars, srvVars, sigVars, HandlerAt
<1>29. ASSUME NEW r \in Requests, QueryPort(r) PROVE Started'
  BY <1>29 DEF QueryPort, procVars, srvVars, sigVars, HandlerAt, Resolved
<1>30. ASSUME NEW r \in Requests, CreatePort(r) PROVE Started'
  BY <1>30 DEF CreatePort, procVars, srvVars, sigVars, HandlerAt, Resolved
<1>31. ASSUME NEW r \in Requests, Answer(r) PROVE Started'
  BY <1>31 DEF Answer, procVars, srvVars, sigVars, HandlerAt
<1> QED
  BY <1>1, <1>2, <1>3, <1>4, <1>5, <1>6, <1>7, <1>8, <1>9, <1>10, <1>11, <1>12, <1>13, <1>14, <1>15, <1>16,
     <1>17, <1>18, <1>19, <1>20, <1>21, <1>22, <1>23, <1>24, <1>25, <1>26, <1>27, <1>28, <1>29, <1>30, <1>31
     DEF Next, Main, NewDriver, Run, Serve, Stop, Handle

\* Only a signal or a server error starts a Stop.
LEMMA CausedStep ==
    ASSUME TypeOK, Started, Caused, [Next]_vars
    PROVE  Caused'
<1> USE DEF TypeOK, TypeProc, TypeServers, TypeSignals, Caused, Stoppers
<1>1. CASE UNCHANGED vars
  BY <1>1 DEF vars, procVars, srvVars, sigVars, reqVars
<1>2. CASE Connect
  BY <1>2 DEF Connect, srvVars, sigVars, Exit, Proceed
<1>3. CASE Ping
  BY <1>3 DEF Ping, srvVars, sigVars, Exit, Proceed
<1>4. CASE GetPool
  BY <1>4 DEF GetPool, srvVars, sigVars, Exit, Proceed
<1>5. CASE ResolvePortal
  BY <1>5 DEF ResolvePortal, srvVars, sigVars, Proceed, Works, Fault
<1>6. CASE ResolvePort
  BY <1>6 DEF ResolvePort, srvVars, sigVars, Proceed, Works, Fault
<1>7. CASE NewNodeServer
  BY <1>7 DEF NewNodeServer, srvVars, sigVars, Exit, Proceed
<1>8. CASE StartRun
  BY <1>8 DEF StartRun, srvVars, sigVars
<1>9. CASE MainReturned
  BY <1>9 DEF MainReturned, srvVars, sigVars, Exit
<1>10. CASE MainSignal
  BY <1>10 DEF MainSignal, srvVars
<1>11. CASE MainStopped
  BY <1>11 DEF MainStopped, srvVars, sigVars, Exit
<1>12. CASE RunNotify
  BY <1>12 DEF RunNotify, srvVars, sigVars, RunAt
<1>13. CASE RunListen
  BY <1>13 DEF RunListen, srvVars, RunAt
<1>14. CASE RunServer
  BY <1>14 DEF RunServer, sigVars, RunAt
<1>15. CASE RunMetrics
  BY <1>15 DEF RunMetrics, sigVars, RunAt
<1>16. CASE RunServe
  BY <1>16 DEF RunServe, sigVars, RunAt
<1>17. CASE RunSelect
  BY <1>17 DEF RunSelect, procVars, sigVars, RunStop
<1>18. CASE RunReturn
  BY <1>18 DEF RunReturn, srvVars, RunAt
<1>19. CASE ServeStart
  BY <1>19 DEF ServeStart, procVars, sigVars
<1>20. CASE ServeReturn
  BY <1>20 DEF ServeReturn, procVars, sigVars
<1>21. CASE Signal
  BY <1>21 DEF Signal, procVars, srvVars, Exit
<1>22. CASE MetricsFail
  BY <1>22 DEF MetricsFail, procVars, sigVars, Works, Fault
<1>23. ASSUME NEW x \in Stoppers, StopMetrics(x) PROVE Caused'
  BY <1>23 DEF StopMetrics, sigVars, StopAt
<1>24. ASSUME NEW x \in Stoppers, StopDrain(x) PROVE Caused'
  BY <1>24 DEF StopDrain, sigVars, StopAt, Exit
<1>25. ASSUME NEW x \in Stoppers, StopWait(x) PROVE Caused'
  BY <1>25 DEF StopWait, srvVars, sigVars, StopAt
<1>26. ASSUME NEW x \in Stoppers, StopForce(x) PROVE Caused'
  BY <1>26 DEF StopForce, srvVars, StopAt
<1>27. ASSUME NEW x \in Stoppers, StopClose(x) PROVE Caused'
  BY <1>27 DEF StopClose, srvVars, sigVars, StopAt
<1>28. ASSUME NEW r \in Requests, Receive(r) PROVE Caused'
  BY <1>28 DEF Receive, procVars, srvVars, sigVars, HandlerAt
<1>29. ASSUME NEW r \in Requests, QueryPort(r) PROVE Caused'
  BY <1>29 DEF QueryPort, procVars, srvVars, sigVars, HandlerAt, Resolved
<1>30. ASSUME NEW r \in Requests, CreatePort(r) PROVE Caused'
  BY <1>30 DEF CreatePort, procVars, srvVars, sigVars, HandlerAt, Resolved
<1>31. ASSUME NEW r \in Requests, Answer(r) PROVE Caused'
  BY <1>31 DEF Answer, procVars, srvVars, sigVars, HandlerAt
<1> QED
  BY <1>1, <1>2, <1>3, <1>4, <1>5, <1>6, <1>7, <1>8, <1>9, <1>10, <1>11, <1>12, <1>13, <1>14, <1>15, <1>16,
     <1>17, <1>18, <1>19, <1>20, <1>21, <1>22, <1>23, <1>24, <1>25, <1>26, <1>27, <1>28, <1>29, <1>30, <1>31
     DEF Next, Main, NewDriver, Run, Serve, Stop, Handle

\* What a Stop has waited for stays.
LEMMA QuietStep ==
    ASSUME TypeOK, Started, Quiet, [Next]_vars
    PROVE  Quiet'
<1> USE DEF TypeOK, TypeProc, TypeRequests, Started, Quiet, Stoppers, NewPCs, Handled
<1>1. CASE UNCHANGED vars
  BY <1>1 DEF vars, procVars, srvVars, sigVars, reqVars
<1>2. CASE Connect
  BY <1>2 DEF Connect, srvVars, sigVars, reqVars, Exit, Proceed
<1>3. CASE Ping
  BY <1>3 DEF Ping, srvVars, sigVars, reqVars, Exit, Proceed
<1>4. CASE GetPool
  BY <1>4 DEF GetPool, srvVars, sigVars, reqVars, Exit, Proceed
<1>5. CASE ResolvePortal
  BY <1>5 DEF ResolvePortal, srvVars, sigVars, Proceed, Works, Fault
<1>6. CASE ResolvePort
  BY <1>6 DEF ResolvePort, srvVars, sigVars, Proceed, Works, Fault
<1>7. CASE NewNodeServer
  BY <1>7 DEF NewNodeServer, srvVars, sigVars, reqVars, Exit, Proceed
<1>8. CASE StartRun
  BY <1>8 DEF StartRun, srvVars, sigVars, reqVars
<1>9. CASE MainReturned
  BY <1>9 DEF MainReturned, srvVars, sigVars, reqVars, Exit
<1>10. CASE MainSignal
  BY <1>10 DEF MainSignal, srvVars, reqVars
<1>11. CASE MainStopped
  BY <1>11 DEF MainStopped, srvVars, sigVars, reqVars, Exit
<1>12. CASE RunNotify
  BY <1>12 DEF RunNotify, srvVars, sigVars, reqVars, RunAt
<1>13. CASE RunListen
  BY <1>13 DEF RunListen, srvVars, reqVars, RunAt
<1>14. CASE RunServer
  <2>1. run # "none" /\ \A x \in Stoppers : stop[x] \notin {"wait", "close", "done"}
    BY <1>14 DEF RunServer
  <2>2. UNCHANGED <<stop, client, request, expired>>
    BY <1>14 DEF RunServer, RunAt, sigVars, reqVars
  <2> QED
    BY <2>1, <2>2
<1>15. CASE RunMetrics
  BY <1>15 DEF RunMetrics, sigVars, reqVars, RunAt
<1>16. CASE RunServe
  BY <1>16 DEF RunServe, sigVars, reqVars, RunAt
<1>17. CASE RunSelect
  BY <1>17 DEF RunSelect, procVars, sigVars, reqVars, RunStop
<1>18. CASE RunReturn
  BY <1>18 DEF RunReturn, srvVars, reqVars, RunAt
<1>19. CASE ServeStart
  BY <1>19 DEF ServeStart, procVars, sigVars, reqVars
<1>20. CASE ServeReturn
  BY <1>20 DEF ServeReturn, procVars, sigVars, reqVars
<1>21. CASE Signal
  BY <1>21 DEF Signal, procVars, srvVars, reqVars, Exit
<1>22. CASE MetricsFail
  BY <1>22 DEF MetricsFail, procVars, sigVars, reqVars, Works, Fault
<1>23. ASSUME NEW x \in Stoppers, StopMetrics(x) PROVE Quiet'
  BY <1>23 DEF StopMetrics, sigVars, reqVars, StopAt
<1>24. ASSUME NEW x \in Stoppers, StopDrain(x) PROVE Quiet'
  BY <1>24 DEF StopDrain, sigVars, reqVars, StopAt, Exit
<1>25. ASSUME NEW x \in Stoppers, StopWait(x) PROVE Quiet'
  BY <1>25 DEF StopWait, srvVars, sigVars, reqVars, StopAt
<1>26. ASSUME NEW x \in Stoppers, StopForce(x) PROVE Quiet'
  BY <1>26 DEF StopForce, srvVars, reqVars, StopAt
<1>27. ASSUME NEW x \in Stoppers, StopClose(x) PROVE Quiet'
  BY <1>27 DEF StopClose, srvVars, sigVars, reqVars, StopAt
<1>28. ASSUME NEW r \in Requests, Receive(r) PROVE Quiet'
  BY <1>28, DriverAssumption DEF Receive, procVars, srvVars, sigVars, HandlerAt
<1>29. ASSUME NEW r \in Requests, QueryPort(r) PROVE Quiet'
  BY <1>29, DriverAssumption DEF QueryPort, procVars, srvVars, sigVars, HandlerAt, Resolved
<1>30. ASSUME NEW r \in Requests, CreatePort(r) PROVE Quiet'
  BY <1>30, DriverAssumption DEF CreatePort, procVars, srvVars, sigVars, HandlerAt, Resolved
<1>31. ASSUME NEW r \in Requests, Answer(r) PROVE Quiet'
  BY <1>31, DriverAssumption DEF Answer, procVars, srvVars, sigVars, HandlerAt
<1> QED
  BY <1>1, <1>2, <1>3, <1>4, <1>5, <1>6, <1>7, <1>8, <1>9, <1>10, <1>11, <1>12, <1>13, <1>14, <1>15, <1>16,
     <1>17, <1>18, <1>19, <1>20, <1>21, <1>22, <1>23, <1>24, <1>25, <1>26, <1>27, <1>28, <1>29, <1>30, <1>31
     DEF Next, Main, NewDriver, Run, Serve, Stop, Handle

\* DriverInv holds in every state of the driver process: Run and Stop come in
\* order, a Stop has its cause, and what it waited for stays.
THEOREM DriverInvariant == Spec => []DriverInv
<1>1. Init => DriverInv
  <2> SUFFICES ASSUME Init PROVE DriverInv
    OBVIOUS
  <2>1. TypeOK
    BY DEF Init, TypeOK, TypeProc, TypeServers, TypeSignals, TypeRequests, Stoppers, Endpoints
  <2>2. Started /\ Caused /\ Quiet
    BY DEF Init, Started, Caused, Quiet, NewPCs, Stoppers
  <2> QED
    BY <2>1, <2>2 DEF DriverInv
<1>2. DriverInv /\ [Next]_vars => DriverInv'
  <2> SUFFICES ASSUME DriverInv, [Next]_vars PROVE DriverInv'
    OBVIOUS
  <2>1. TypeOK'
    BY ProcTypes, ServerTypes, SignalTypes, RequestTypes, FaultTypes DEF DriverInv, TypeOK
  <2>2. Started' /\ Caused' /\ Quiet'
    BY StartedStep, CausedStep, QuietStep DEF DriverInv
  <2> QED
    BY <2>1, <2>2 DEF DriverInv
<1> QED
  BY <1>1, <1>2, PTL DEF Spec

\* Every variable of the driver process has its type.
THEOREM DriverTypes == Spec => []TypeOK
<1>1. DriverInv => TypeOK
  BY DEF DriverInv
<1> QED
  BY <1>1, DriverInvariant, PTL

\* However main's and Run's calls of Stop interleave, the TrueNAS client is
\* closed only after the handlers have returned or the time for them is up.
THEOREM DriverDrains == Spec => []Drained
<1>1. DriverInv => Drained
  BY DEF DriverInv, Started, Quiet, Drained, Stoppers
<1> QED
  BY <1>1, DriverInvariant, PTL

\* A failing metrics endpoint never stops the gRPC server.
THEOREM MetricsNeverStop == Spec => []MetricsOptional
<1>1. DriverInv => MetricsOptional
  BY DEF DriverInv, Caused, MetricsOptional, Stoppers
<1> QED
  BY <1>1, DriverInvariant, PTL
=============================================================================
