-------------------------- MODULE TrueNASCallProofs --------------------------
(***************************************************************************)
(* Theorems about Call, callOn and the answers dispatched to them, for any *)
(* finite set of callers and any number of calls, sockets and permits.     *)
(***************************************************************************)
EXTENDS TrueNASClientProofs, FiniteSetTheorems

\* Whoever is no caller leaves requests alone, or only ends some of them.
LEMMA OthersCalls ==
    ASSUME Next, ~ \E c \in Callers : CallBegin(c) \/ Expire(c) \/ CallStep(c)
    PROVE  /\ UNCHANGED <<pc, cid, permits, nextID>>
           /\ \/ UNCHANGED <<pending, resp, wire>>
              \/ UNCHANGED <<pending, resp>> /\ \E s \in Sockets : HdClose(s) \/ Break(s)
              \/ UNCHANGED <<pending, resp>> /\ CloseStatus
              \/ \E s \in Sockets, p \in pending : HdFail(s, p)
              \/ \E s \in Sockets : \E m \in wire[s] : ReaderDeliver(s, m)
  <1> USE DEF callVars, reqVars
  <1>1. CASE \E d \in Dialers : DialStart(d) \/ DialAuthFail(d)
               \/ DialInstall(d) \/ DialReturn(d) \/ DialFail(d)
    BY <1>1 DEF DialStart, DialAuthFail, DialInstall, DialReturn, DialFail
  <1>2. CASE \E l \in Loops : LoopWake(l) \/ LoopExit(l)
    BY <1>2 DEF LoopWake, LoopExit
  <1>3. CASE ConnectStartLoop \/ ConnectWait
    BY <1>3 DEF ConnectStartLoop, ConnectWait
  <1>4. CASE \E s \in Sockets : HdClose(s) \/ Break(s)
    BY <1>4 DEF HdClose, Break
  <1>5. CASE \E s \in Sockets :
               \/ HdEnd(s) \/ HdRestart(s) \/ ReaderFail(s) \/ ReaderDisconnect(s)
               \/ PingFail(s) \/ PingDisconnect(s)
    BY <1>5 DEF HdEnd, HdRestart, ReaderFail, ReaderDisconnect, PingFail, PingDisconnect
  <1>6. CASE \/ \E s \in Sockets, p \in pending : HdFail(s, p)
             \/ \E s \in Sockets : \E m \in wire[s] : ReaderDeliver(s, m)
    BY <1>6 DEF HdFail, ReaderDeliver
  <1>7. CASE CloseBegin \/ CloseDone \/ CloseClear
    BY <1>7 DEF CloseBegin, CloseDone, CloseClear
  <1>8. CASE CloseStatus BY <1>8 DEF CloseStatus
  <1> QED BY <1>1, <1>2, <1>3, <1>4, <1>5, <1>6, <1>7, <1>8, NextCases

\* What a step of Call does to its program counter and to its registration.
LEMMA CallMoves ==
    ASSUME TypeOK, NEW c \in Callers, CallBegin(c) \/ Expire(c) \/ CallStep(c)
    PROVE  /\ \A d \in Callers \ {c} : pc'[d] = pc[d] /\ cid'[d] = cid[d]
                                         /\ resp'[d] = resp[d]
           /\ resp'[c] \in {resp[c], None}
           /\ \/ CallSend(c)
              \/ /\ UNCHANGED wire /\ nextID' >= nextID
                 /\ \/ UNCHANGED <<pc, cid, pending>>
                    \/ UNCHANGED pending /\ pc[c] # "await"
                    \/ Forget(c)
  <1> USE DEF TypeOK, TypeCall, TypeReq, reqVars
  <1>1. CASE CallBegin(c) \/ Expire(c) \/ Acquire(c) \/ ReadConn(c)
    BY <1>1 DEF CallBegin, Expire, Acquire, ReadConn
  <1>2. CASE AcquireTimeout(c) \/ HandleReturn(c) \/ WaitGiveUp(c)
    BY <1>2 DEF AcquireTimeout, HandleReturn, WaitGiveUp, Return
  <1>3. CASE CallSend(c) BY <1>3 DEF CallSend
  <1>4. CASE CallSendFail(c) BY <1>4 DEF CallSendFail, TakeID
  <1>5. CASE CallReceive(c) \/ CallTimeout(c)
    BY <1>5 DEF CallReceive, CallTimeout, Return
  <1>6. CASE HandleNotAuth(c) \/ HandleDisconnected(c) \/ HandleRetry(c)
               \/ WaitConnected(c)
    BY <1>6 DEF HandleNotAuth, HandleDisconnected, HandleRetry, WaitConnected
  <1> QED BY <1>1, <1>2, <1>3, <1>4, <1>5, <1>6 DEF CallStep

LEMMA CallInvCall ==
    ASSUME TypeOK, CallInv, NEW c \in Callers, CallBegin(c) \/ Expire(c) \/ CallStep(c)
    PROVE  CallInv'
  <1> USE DEF TypeOK, TypeReq
  <1>1. OwnAnswer'
    BY CallMoves DEF CallInv, OwnAnswer
  <1>2. ASSUME NEW p \in pending PROVE p \in [id : Nat, by : Callers]
    BY <1>2
  <1>3. CASE CallSend(c)
    <2> DEFINE r == [id |-> nextID + 1, by |-> c]
    <2>1. /\ nextID' = nextID + 1 /\ pc[c] = "send" /\ pc'[c] = "await"
          /\ cid'[c] = nextID + 1 /\ pending' \subseteq pending \cup {r}
      BY <1>3 DEF CallSend, TakeID, TypeCall
    <2>2. \A s \in Sockets : wire'[s] \subseteq wire[s] \cup {r}
      BY <1>3, <2>1 DEF CallSend, TypeCall
    <2>3. PendingOwned'
      BY <1>2, <2>1, CallMoves DEF CallInv, PendingOwned
    <2>4. IdsMatch'
      <3>1. \A p \in pending' : p.id <= nextID'
        BY <1>2, <2>1 DEF CallInv, IdsMatch
      <3>2. ASSUME NEW s \in Sockets, NEW m \in wire'[s]
            PROVE  m.id <= nextID' /\ \A p \in pending' : m.id = p.id => m.by = p.by
        <4>1. \A q \in wire[s] : q \in [id : Nat, by : Callers] OBVIOUS
        <4> QED BY <1>2, <2>1, <2>2, <3>2, <4>1 DEF CallInv, IdsMatch
      <3> QED BY <3>1, <3>2 DEF IdsMatch
    <2> QED BY <1>1, <2>3, <2>4 DEF CallInv
  <1>4. CASE ~CallSend(c)
    <2>1. /\ wire' = wire /\ nextID' >= nextID /\ nextID' \in Nat
          /\ \/ UNCHANGED <<pc, cid, pending>>
             \/ UNCHANGED pending /\ pc[c] # "await"
             \/ Forget(c)
      BY <1>4, CallMoves, TypeOKCall
    <2>2. pending' \subseteq pending BY <2>1 DEF Forget
    <2>3. ASSUME NEW p \in pending' PROVE pc'[p.by] = "await" /\ cid'[p.by] = p.id
      <3>1. p \in pending /\ pc[p.by] = "await" /\ cid[p.by] = p.id
        BY <2>2, <2>3 DEF CallInv, PendingOwned
      <3>2. CASE p.by # c BY <1>2, <3>1, <3>2, CallMoves
      <3>3. CASE p.by = c BY <2>1, <2>3, <3>1, <3>3 DEF Forget
      <3> QED BY <3>2, <3>3
    <2>4. IdsMatch'
      <3>1. \A p \in pending' : p.id <= nextID'
        BY <1>2, <2>1, <2>2 DEF CallInv, IdsMatch
      <3>2. ASSUME NEW s \in Sockets, NEW m \in wire[s]
            PROVE  m.id <= nextID' /\ \A p \in pending' : m.id = p.id => m.by = p.by
        <4>1. m.id \in Nat BY <3>2
        <4> QED BY <2>1, <2>2, <3>2, <4>1 DEF CallInv, IdsMatch
      <3> QED BY <2>1, <3>1, <3>2 DEF IdsMatch
    <2> QED BY <1>1, <2>3, <2>4 DEF CallInv, PendingOwned
  <1> QED BY <1>3, <1>4

\* A message fewer and a request fewer disturb nothing.
LEMMA Fewer ==
    ASSUME CallInv, UNCHANGED <<pc, cid, nextID>>, pending' \subseteq pending,
           \A s \in Sockets : wire'[s] \subseteq wire[s]
    PROVE  PendingOwned' /\ IdsMatch'
  BY DEF CallInv, PendingOwned, IdsMatch

LEMMA CallInvNext == TypeOK /\ CallInv /\ [Next]_vars => CallInv'
  <1> SUFFICES ASSUME TypeOK, CallInv, [Next]_vars PROVE CallInv' OBVIOUS
  <1> USE DEF TypeOK, TypeReq
  <1>1. CASE UNCHANGED vars
    BY <1>1
    DEF vars, reqVars, callVars, CallInv, PendingOwned, OwnAnswer, IdsMatch
  <1>2. CASE \E c \in Callers : CallBegin(c) \/ Expire(c) \/ CallStep(c)
    BY <1>2, CallInvCall
  <1>3. CASE Next /\ ~ \E c \in Callers : CallBegin(c) \/ Expire(c) \/ CallStep(c)
    <2>1. UNCHANGED <<pc, cid, permits, nextID>> BY <1>3, OthersCalls
    <2>2. CASE UNCHANGED <<pending, resp, wire>>
      BY <2>1, <2>2, Fewer DEF CallInv, OwnAnswer
    <2>3. CASE UNCHANGED <<pending, resp>> /\
               (CloseStatus \/ \E s \in Sockets : HdClose(s) \/ Break(s))
      <3>1. \A s \in Sockets : wire'[s] \subseteq wire[s]
        BY <2>3 DEF CloseStatus, HdClose, Break
      <3> QED BY <2>1, <2>3, <3>1, Fewer DEF CallInv, OwnAnswer
    <2>4. ASSUME NEW s \in Sockets, NEW p \in pending, HdFail(s, p) PROVE CallInv'
      <3>1. pending' \subseteq pending /\ wire' = wire BY <2>4 DEF HdFail
      <3>2. OwnAnswer' BY <2>4 DEF HdFail, Send1, CallInv, OwnAnswer
      <3> QED BY <2>1, <3>1, <3>2, Fewer DEF CallInv
    <2>5. ASSUME NEW s \in Sockets, NEW m \in wire[s], ReaderDeliver(s, m) PROVE CallInv'
      <3>1. pending' \subseteq pending /\ \A t \in Sockets : wire'[t] \subseteq wire[t]
        BY <2>5 DEF ReaderDeliver
      <3>2. \A p \in pending : p.id = m.id => p.by = m.by
        BY <2>5 DEF CallInv, IdsMatch
      <3>3. OwnAnswer'
        <4>1. CASE UNCHANGED resp BY <4>1 DEF CallInv, OwnAnswer
        <4>2. ASSUME NEW p \in pending, NEW k \in Replies, p.id = m.id,
                     Send1(p.by, [kind |-> k, by |-> m.by])
              PROVE  OwnAnswer'
          <5>1. p.by \in Callers /\ m.by = p.by BY <3>2, <4>2
          <5> QED BY <4>2, <5>1 DEF Send1, CallInv, OwnAnswer
        <4> QED BY <2>5, <4>1, <4>2 DEF ReaderDeliver
      <3> QED BY <2>1, <3>1, <3>3, Fewer DEF CallInv
    <2> QED BY <1>3, <2>2, <2>3, <2>4, <2>5, OthersCalls
  <1> QED BY <1>1, <1>2, <1>3

\* Ids, registrations and answers fit together in every reachable state.
THEOREM CallInvariant == Spec => []CallInv
  <1>1. Init => CallInv
    BY DEF Init, CallInv, PendingOwned, OwnAnswer, IdsMatch
  <1> QED BY <1>1, CallInvNext, TypeCorrect, PTL DEF Spec

\* Nothing stays registered in c.pending once callOn has returned.
THEOREM NoStalePending == Spec => []PendingOwned
  <1>1. CallInv => PendingOwned BY DEF CallInv
  <1> QED BY <1>1, CallInvariant, PTL

\* readLoop never hands a caller the answer to somebody else's request.
THEOREM AnswersMatch == Spec => []OwnAnswer
  <1>1. CallInv => OwnAnswer BY DEF CallInv
  <1> QED BY <1>1, CallInvariant, PTL

-----------------------------------------------------------------------------
(***************************************************************************)
(* The permits of callSem                                                  *)
(***************************************************************************)

\* A caller that comes in takes a permit, one that goes out gives it back.
LEMMA InsideMoves ==
    ASSUME TypeOK, [Next]_vars
    PROVE  \/ Inside' = Inside /\ permits' = permits
           \/ \E c \in Callers \ Inside :
                Inside' = Inside \cup {c} /\ permits' = permits - 1
           \/ \E c \in Inside : Inside' = Inside \ {c} /\ permits' = permits + 1
  <1> USE DEF TypeOK, TypeCall
  <1>1. CASE UNCHANGED vars BY <1>1 DEF vars, callVars, Inside
  <1>2. ASSUME NEW c \in Callers, CallStep(c) \/ CallBegin(c) \/ Expire(c)
        PROVE  \/ Inside' = Inside /\ permits' = permits
               \/ c \notin Inside /\ Inside' = Inside \cup {c} /\ permits' = permits - 1
               \/ c \in Inside /\ Inside' = Inside \ {c} /\ permits' = permits + 1
    <2>1. CASE Acquire(c) BY <2>1 DEF Acquire, Inside
    <2>2. CASE AcquireTimeout(c) BY <2>2 DEF AcquireTimeout, Return, Inside
    <2>3. CASE Return(c, 1) /\ pc[c] \notin {"idle", "acquire"}
      BY <2>3 DEF Return, Inside
    <2>4. CASE HandleReturn(c) \/ WaitGiveUp(c) \/ CallTimeout(c)
      BY <2>3, <2>4 DEF HandleReturn, WaitGiveUp, CallTimeout
    <2>5. CASE CallReceive(c)
      <3>1. CASE Return(c, 1) BY <2>3, <2>5, <3>1 DEF CallReceive
      <3>2. CASE ~Return(c, 1) BY <2>5, <3>2 DEF CallReceive, Inside
      <3> QED BY <3>1, <3>2
    <2>6. CASE CallBegin(c) \/ Expire(c) BY <2>6 DEF CallBegin, Expire, Inside
    <2>7. CASE ReadConn(c) BY <2>7 DEF ReadConn, Inside
    <2>8. CASE CallSend(c) \/ CallSendFail(c) BY <2>8 DEF CallSend, CallSendFail, Inside
    <2>9. CASE HandleNotAuth(c) \/ HandleDisconnected(c) \/ HandleRetry(c)
      BY <2>9 DEF HandleNotAuth, HandleDisconnected, HandleRetry, Inside
    <2>10. CASE WaitConnected(c) BY <2>10 DEF WaitConnected, Inside
    <2> QED
      BY <1>2, <2>1, <2>2, <2>4, <2>5, <2>6, <2>7, <2>8, <2>9, <2>10 DEF CallStep
  <1>3. CASE Next /\ ~ \E c \in Callers : CallBegin(c) \/ Expire(c) \/ CallStep(c)
    BY <1>3, OthersCalls DEF Inside
  <1> QED BY <1>1, <1>2, <1>3

\* No exit of Call loses a permit of callSem or gives one back twice.
THEOREM PermitsBalance == Spec => []PermitsConserved
  <1>1. Init => PermitsConserved
    <2> SUFFICES ASSUME Init PROVE PermitsConserved OBVIOUS
    <2>1. Inside = {} BY DEF Init, Inside
    <2>2. Cardinality(Inside) = 0 BY <2>1, FS_EmptySet
    <2> QED BY <2>2, ConstantsAssumption DEF Init, PermitsConserved
  <1>2. TypeOK /\ PermitsConserved /\ [Next]_vars => PermitsConserved'
    <2> SUFFICES ASSUME TypeOK, PermitsConserved, [Next]_vars PROVE PermitsConserved'
      OBVIOUS
    <2>1. Inside \subseteq Callers /\ IsFiniteSet(Callers)
      BY ConstantsAssumption DEF Inside
    <2>2. IsFiniteSet(Inside) BY <2>1, FS_Subset
    <2>3. Cardinality(Inside) \in Nat BY <2>2, FS_CardinalityType
    <2>4. permits \in Int BY DEF TypeOK, TypeCall
    <2>5. CASE Inside' = Inside /\ permits' = permits BY <2>5 DEF PermitsConserved
    <2>6. ASSUME NEW c \in Callers \ Inside,
                 Inside' = Inside \cup {c}, permits' = permits - 1
          PROVE  PermitsConserved'
      <3>1. Cardinality(Inside') = Cardinality(Inside) + 1
        BY <2>2, <2>6, FS_AddElement
      <3> QED BY <2>3, <2>4, <2>6, <3>1 DEF PermitsConserved
    <2>7. ASSUME NEW c \in Inside, Inside' = Inside \ {c}, permits' = permits + 1
          PROVE  PermitsConserved'
      <3>1. Cardinality(Inside') = Cardinality(Inside) - 1
        BY <2>2, <2>7, FS_RemoveElement
      <3> QED BY <2>3, <2>4, <2>7, <3>1 DEF PermitsConserved
    <2> QED BY <2>5, <2>6, <2>7, InsideMoves
  <1> QED BY <1>1, <1>2, TypeCorrect, PTL DEF Spec
=============================================================================
