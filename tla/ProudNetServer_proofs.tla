------------------------- MODULE ProudNetServer_proofs -------------------------
(***************************************************************************)
(* The connection registry of ProudNetServer is exact and guarded, and     *)
(* Broadcast implements BroadcastGroup, for any number of connections and  *)
(* any handlers.                                                           *)
(***************************************************************************)
EXTENDS ProudNetServer, TLAPS

\* Who is where in the lock:
LockInv ==
  /\ \A c \in Conns : writer = c <=> pc[c] \in {"locking", "delete", "unlock"}
  /\ writer = Acceptor <=> accPC \in {"locking", "insert", "unlock"}
  /\ \A c \in Conns : pc[c] \in {"delete", "unlock"} => readers = {}
  /\ accPC \in {"insert", "unlock"} => readers = {}
  /\ \A c \in readers : c \in Conns /\ pc[c] \in {"rlock", "cast"}
  /\ \A c \in parked : c \in Conns /\ pc[c] = "rlock"
  /\ \A c \in Conns : pc[c] = "cast" => c \in readers
  /\ readers \cap parked = {}

\* What a connection has when, and that no two have one id:
AcceptInv ==
  /\ accPC \in {"lock", "locking", "insert", "unlock", "spawn"} <=> accConn # Nil
  /\ accConn # Nil => pc[accConn] = "none"
  /\ \A c \in Conns : pc[c] # "none" \/ accConn = c =>
       hostID[c] # 0 /\ link[c] \in {"open", "closed"}
  /\ \A c \in Conns : hostID[c] < nextHostID
  /\ \A c, d \in Conns : hostID[c] = hostID[d] /\ hostID[c] # 0 => c = d

\* A broadcast's targets stay registered, and it stands at one of them:
CastInv ==
  \A c \in Conns :
    /\ pc[c] = "cast" => targets[c] \subseteq Registered
    /\ pc[c] # "cast" => targets[c] = {}
    /\ current[c] \in targets[c] \/ (current[c] = 0 /\ targets[c] = {})

IInv == TypeOK /\ LockInv /\ AcceptInv /\ CastInv /\ RegistryExact

-------------------------------------------------------------------------------
(* Types *)

\* A write keeps every send buffer within its capacity.
LEMMA WriteType ==
  ASSUME ServerAssumption, queue \in [Conns -> 0..OutCap], NEW d, WriteTo(d)
  PROVE  queue' \in [Conns -> 0..OutCap]
<1>1. CASE UNCHANGED queue
  BY <1>1
<1>2. CASE queue[d] < OutCap /\ queue' = [queue EXCEPT ![d] = @ + 1]
  <2>1. ASSUME d \in Conns PROVE queue[d] + 1 \in 0..OutCap
    BY <1>2, <2>1 DEF ServerAssumption
  <2>2. ASSUME NEW e \in Conns PROVE queue'[e] \in 0..OutCap
    BY <1>2, <2>1
  <2>. QED
    BY <1>2, <2>2
<1>. QED
  BY <1>1, <1>2 DEF WriteTo

\* The registry holds connections only.
LEMMA RegisteredType == Registered \subseteq HostIDs
BY DEF Registered

\* Choosing the next entry to visit keeps the loop's variables typed.
LEMMA VisitType ==
  ASSUME TypeOK, NEW c \in Conns, NEW S \in SUBSET HostIDs, Visit(c, S)
  PROVE  /\ targets' \in [Conns -> SUBSET HostIDs]
         /\ current' \in [Conns -> HostIDs \cup {0}]
<1>1. targets' = [targets EXCEPT ![c] = S]
  BY DEF Visit
<1>2. PICK h \in HostIDs \cup {0} : current' = [current EXCEPT ![c] = h]
  BY DEF Visit
<1>. QED
  BY <1>1, <1>2 DEF TypeOK

\* Every step of the accept loop keeps the types.
LEMMA AcceptLoopType ==
  ASSUME ServerAssumption, TypeOK, AcceptLoop
  PROVE  TypeOK'
<1>. USE DEF TypeOK, AccGoto, AccPCs, PCs, netVars, accVars, srvVars, castVars, muVars,
          mu!LockTypeOK, Goroutines
<1>1. CASE Accept
  BY <1>1 DEF Accept, HostIDs, ServerAssumption
<1>2. CASE AcceptFails
  BY <1>2 DEF AcceptFails
<1>3. CASE AccAnnounce
  BY <1>3 DEF AccAnnounce, mu!Announce
<1>4. CASE AccEnter
  BY <1>4 DEF AccEnter, mu!Enter
<1>5. CASE Insert
  BY <1>5 DEF Insert
<1>6. CASE AccUnlock
  BY <1>6 DEF AccUnlock, mu!Unlock
<1>7. CASE Spawn
  BY <1>7 DEF Spawn, Goto
<1>. QED
  BY <1>1, <1>2, <1>3, <1>4, <1>5, <1>6, <1>7 DEF AcceptLoop

\* Every step of a client keeps the types.
LEMMA ClientType ==
  ASSUME ServerAssumption, TypeOK, NEW c \in Conns, Client(c)
  PROVE  TypeOK'
<1>. USE DEF TypeOK, netVars, accVars, srvVars, castVars, muVars, mu!LockTypeOK
<1>1. CASE Dial(c)
  BY <1>1 DEF Dial
<1>2. CASE ClientSend(c)
  <2>1. PICK r \in Handlers \cup {BadFrame} : inbox' = [inbox EXCEPT ![c] = Append(@, r)]
    BY <1>2 DEF ClientSend
  <2>2. inbox' \in [Conns -> Seq(Handlers \cup {BadFrame})]
    BY <2>1
  <2>. QED
    BY <1>2, <2>2 DEF ClientSend
<1>3. CASE Drain(c)
  BY <1>3 DEF Drain, ServerAssumption
<1>4. CASE ClientClose(c)
  BY <1>4 DEF ClientClose, ServerAssumption
<1>. QED
  BY <1>1, <1>2, <1>3, <1>4 DEF Client

\* Every step of a serve goroutine keeps the types.
LEMMA ServeType ==
  ASSUME ServerAssumption, TypeOK, NEW c \in Conns, Serve(c)
  PROVE  TypeOK'
<1>. USE DEF TypeOK, netVars, accVars, srvVars, castVars, muVars, mu!LockTypeOK, Goroutines
<1>1. CASE LoopTop(c)
  BY <1>1 DEF LoopTop, Goto, PCs
<1>2. CASE ReadFrame(c)
  <2>1. Head(inbox[c]) \in Seq(Calls) /\ Tail(inbox[c]) \in Seq(Handlers \cup {BadFrame})
    BY <1>2 DEF ReadFrame, ServerAssumption
  <2>2. /\ inbox' \in [Conns -> Seq(Handlers \cup {BadFrame})]
        /\ work' \in [Conns -> Seq(Calls)]
        /\ pc' \in [Conns -> PCs]
    BY <1>2, <2>1 DEF ReadFrame, Goto, PCs
  <2>. QED
    BY <1>2, <2>2 DEF ReadFrame
<1>3. CASE ReadFails(c)
  BY <1>3 DEF ReadFails, Goto, PCs
<1>4. CASE HandlerReturns(c)
  BY <1>4 DEF HandlerReturns, Goto, PCs
<1>5. CASE Send(c)
  <2>1. queue' \in [Conns -> 0..OutCap]
    BY <1>5, WriteType DEF Send
  <2>2. work' \in [Conns -> Seq(Calls)]
    BY <1>5 DEF Send, Calling
  <2>. QED
    BY <1>5, <2>1, <2>2 DEF Send
<1>6. CASE Broadcast(c)
  <2>1. work' \in [Conns -> Seq(Calls)] /\ pc' \in [Conns -> PCs]
    BY <1>6 DEF Broadcast, Calling, Goto, PCs
  <2>2. mu!LockTypeOK'
    BY <1>6 DEF Broadcast, mu!RLock
  <2>. QED
    BY <1>6, <2>1, <2>2 DEF Broadcast
<1>7. CASE BroadcastLocked(c)
  <2>1. /\ targets' \in [Conns -> SUBSET HostIDs]
        /\ current' \in [Conns -> HostIDs \cup {0}]
    BY <1>7, VisitType, RegisteredType DEF BroadcastLocked
  <2>. QED
    BY <1>7, <2>1 DEF BroadcastLocked, Goto, PCs
<1>8. CASE BroadcastSend(c)
  <2>1. queue' \in [Conns -> 0..OutCap]
    BY <1>8, WriteType DEF BroadcastSend
  <2>2. /\ targets' \in [Conns -> SUBSET HostIDs]
        /\ current' \in [Conns -> HostIDs \cup {0}]
    <3>1. targets[c] \ {current[c]} \in SUBSET HostIDs
      OBVIOUS
    <3>. QED
      BY <1>8, <3>1, VisitType DEF BroadcastSend
  <2>. QED
    BY <1>8, <2>1, <2>2 DEF BroadcastSend
<1>9. CASE BroadcastEnd(c)
  BY <1>9 DEF BroadcastEnd, Goto, PCs, mu!RUnlock
<1>10. CASE CloseConn(c)
  BY <1>10 DEF CloseConn, Goto, PCs
<1>11. CASE Announce(c)
  BY <1>11 DEF Announce, Goto, PCs, mu!Announce
<1>12. CASE Enter(c)
  BY <1>12 DEF Enter, Goto, PCs, mu!Enter
<1>13. CASE Delete(c)
  BY <1>13 DEF Delete, Goto, PCs
<1>14. CASE Unlock(c)
  BY <1>14 DEF Unlock, Goto, PCs, mu!Unlock
<1>. QED
  BY <1>1, <1>2, <1>3, <1>4, <1>5, <1>6, <1>7, <1>8, <1>9, <1>10, <1>11, <1>12, <1>13, <1>14
     DEF Serve

\* Every step keeps the types.
LEMMA StepType == ASSUME TypeOK, [Next]_vars PROVE TypeOK'
<1>1. ServerAssumption
  BY ServerAssumption
<1>2. CASE UNCHANGED vars
  BY <1>2 DEF TypeOK, vars, netVars, accVars, srvVars, castVars, muVars, mu!LockTypeOK
<1>3. CASE CancelCtx
  BY <1>3 DEF CancelCtx, TypeOK, netVars, accVars, srvVars, castVars, muVars, mu!LockTypeOK
<1>4. CASE CloseListener
  BY <1>4 DEF CloseListener, TypeOK, srvVars, castVars, muVars, mu!LockTypeOK
<1>. QED
  BY <1>1, <1>2, <1>3, <1>4, AcceptLoopType, ClientType, ServeType DEF Next

\* The initial state has the right types.
LEMMA InitType == ASSUME Init PROVE TypeOK
<1>1. nextHostID \in 2..(MaxHostID + 1) /\ queue \in [Conns -> 0..OutCap]
  BY ServerAssumption DEF Init, ServerAssumption
<1>2. /\ inbox \in [Conns -> Seq(Handlers \cup {BadFrame})]
      /\ work \in [Conns -> Seq(Calls)]
  BY DEF Init
<1>3. conns \in [HostIDs -> Conns \cup {Nil}]
  BY DEF Init
<1>4. mu!LockTypeOK
  BY DEF Init, mu!LockInit, mu!LockTypeOK
<1>. QED
  BY <1>1, <1>2, <1>3, <1>4 DEF Init, TypeOK, AccPCs, PCs

\* Types: host ids, send buffers and the lock keep within their sets, for any
\* connections, handlers and capacities.
THEOREM TypeCorrect == Spec => []TypeOK
BY InitType, StepType, PTL DEF Spec

-------------------------------------------------------------------------------
(* The lock *)

\* Every step keeps the lock's invariant.
LEMMA LockStep ==
  ASSUME TypeOK, LockInv, [Next]_vars
  PROVE  LockInv'
<1>. USE ServerAssumption DEF ServerAssumption, TypeOK, LockInv, Goroutines, mu!LockTypeOK, netVars, accVars, srvVars, castVars, muVars
<1>1. CASE UNCHANGED vars
  BY <1>1 DEF vars
<1>2. CASE CancelCtx
  BY <1>2 DEF CancelCtx
<1>3. CASE CloseListener
  BY <1>3 DEF CloseListener
<1>4. CASE Accept
  BY <1>4 DEF Accept, AccGoto
<1>5. CASE AcceptFails
  BY <1>5 DEF AcceptFails, AccGoto
<1>6. CASE AccAnnounce
  BY <1>6 DEF AccAnnounce, AccGoto, mu!Announce
<1>7. CASE AccEnter
  BY <1>7 DEF AccEnter, AccGoto, mu!Enter
<1>8. CASE Insert
  BY <1>8 DEF Insert, AccGoto
<1>9. CASE AccUnlock
  BY <1>9 DEF AccUnlock, AccGoto, mu!Unlock
<1>10. CASE Spawn
  BY <1>10 DEF Spawn, Goto, AccGoto
<1>11. ASSUME NEW c \in Conns, Dial(c) PROVE LockInv'
  BY <1>11 DEF Dial
<1>12. ASSUME NEW c \in Conns, ClientSend(c) PROVE LockInv'
  BY <1>12 DEF ClientSend
<1>13. ASSUME NEW c \in Conns, Drain(c) PROVE LockInv'
  BY <1>13 DEF Drain
<1>14. ASSUME NEW c \in Conns, ClientClose(c) PROVE LockInv'
  BY <1>14 DEF ClientClose
<1>15. ASSUME NEW c \in Conns, LoopTop(c) PROVE LockInv'
  BY <1>15 DEF LoopTop, Goto
<1>16. ASSUME NEW c \in Conns, ReadFrame(c) PROVE LockInv'
  BY <1>16 DEF ReadFrame, Goto
<1>17. ASSUME NEW c \in Conns, ReadFails(c) PROVE LockInv'
  BY <1>17 DEF ReadFails, Goto
<1>18. ASSUME NEW c \in Conns, HandlerReturns(c) PROVE LockInv'
  BY <1>18 DEF HandlerReturns, Goto
<1>19. ASSUME NEW c \in Conns, Send(c) PROVE LockInv'
  BY <1>19 DEF Send, Calling
<1>20. ASSUME NEW c \in Conns, Broadcast(c) PROVE LockInv'
  BY <1>20 DEF Broadcast, Goto, Calling, mu!RLock
<1>21. ASSUME NEW c \in Conns, BroadcastLocked(c) PROVE LockInv'
  BY <1>21 DEF BroadcastLocked, Goto
<1>22. ASSUME NEW c \in Conns, BroadcastSend(c) PROVE LockInv'
  BY <1>22 DEF BroadcastSend
<1>23. ASSUME NEW c \in Conns, BroadcastEnd(c) PROVE LockInv'
  BY <1>23 DEF BroadcastEnd, Goto, mu!RUnlock
<1>24. ASSUME NEW c \in Conns, CloseConn(c) PROVE LockInv'
  BY <1>24 DEF CloseConn, Goto
<1>25. ASSUME NEW c \in Conns, Announce(c) PROVE LockInv'
  BY <1>25 DEF Announce, Goto, mu!Announce
<1>26. ASSUME NEW c \in Conns, Enter(c) PROVE LockInv'
  BY <1>26 DEF Enter, Goto, mu!Enter
<1>27. ASSUME NEW c \in Conns, Delete(c) PROVE LockInv'
  BY <1>27 DEF Delete, Goto
<1>28. ASSUME NEW c \in Conns, Unlock(c) PROVE LockInv'
  BY <1>28 DEF Unlock, Goto, mu!Unlock
<1>. QED
  BY <1>1, <1>2, <1>3, <1>4, <1>5, <1>6, <1>7, <1>8, <1>9, <1>10, <1>11, <1>12, <1>13, <1>14, <1>15, <1>16, <1>17, <1>18, <1>19, <1>20, <1>21, <1>22, <1>23, <1>24, <1>25, <1>26, <1>27, <1>28
     DEF Next, AcceptLoop, Client, Serve

-------------------------------------------------------------------------------
(* Ids, registry and broadcasts *)

\* Every step keeps ids distinct and connections where they belong.
LEMMA AcceptStep ==
  ASSUME TypeOK, AcceptInv, [Next]_vars
  PROVE  AcceptInv'
<1>. USE ServerAssumption DEF ServerAssumption, TypeOK, AcceptInv, HostIDs, netVars, accVars, srvVars, castVars, muVars
<1>1. CASE UNCHANGED vars
  BY <1>1 DEF vars
<1>2. CASE CancelCtx
  BY <1>2 DEF CancelCtx
<1>3. CASE CloseListener
  BY <1>3 DEF CloseListener
<1>4. CASE Accept
  <2>1. PICK c \in Conns : /\ link[c] = "dialed"
                           /\ link' = [link EXCEPT ![c] = "open"]
                           /\ accConn' = c
                           /\ hostID' = [hostID EXCEPT ![c] = nextHostID]
    BY <1>4 DEF Accept
  <2>2. /\ accPC = "accept" /\ accPC' = "lock"
        /\ nextHostID' = nextHostID + 1 /\ UNCHANGED pc
    BY <1>4 DEF Accept, AccGoto
  <2>3. pc[c] = "none" /\ c # Nil
    BY <2>1
  <2>4. hostID'[c] = nextHostID /\ \A d \in Conns \ {c} : hostID'[d] = hostID[d]
    BY <2>1
  <2>a. nextHostID \in Nat /\ \A d \in Conns : hostID[d] \in Nat /\ hostID[d] < nextHostID
    OBVIOUS
  <2>5. \A d \in Conns : hostID'[d] < nextHostID'
    <3>. SUFFICES ASSUME NEW d \in Conns PROVE hostID'[d] < nextHostID'
      OBVIOUS
    <3>1. CASE d = c
      BY <3>1, <2>2, <2>4, <2>a
    <3>2. CASE d # c
      BY <3>2, <2>2, <2>4, <2>a
    <3>. QED
      BY <3>1, <3>2
  <2>6. \A d, e \in Conns : hostID'[d] = hostID'[e] /\ hostID'[d] # 0 => d = e
    <3>1. \A d \in Conns \ {c} : hostID'[d] # hostID'[c]
      BY <2>4, <2>a
    <3>. QED
      BY <2>4, <3>1
  <2>7. \A d \in Conns : pc'[d] # "none" \/ accConn' = d =>
          hostID'[d] # 0 /\ link'[d] \in {"open", "closed"}
    BY <2>1, <2>2, <2>4
  <2>. QED
    BY <2>1, <2>2, <2>3, <2>5, <2>6, <2>7
<1>5. CASE AcceptFails
  BY <1>5 DEF AcceptFails, AccGoto
<1>6. CASE AccAnnounce
  BY <1>6 DEF AccAnnounce, AccGoto, mu!Announce
<1>7. CASE AccEnter
  BY <1>7 DEF AccEnter, AccGoto, mu!Enter
<1>8. CASE Insert
  BY <1>8 DEF Insert, AccGoto
<1>9. CASE AccUnlock
  BY <1>9 DEF AccUnlock, AccGoto, mu!Unlock
<1>10. CASE Spawn
  BY <1>10 DEF Spawn, Goto, AccGoto
<1>11. ASSUME NEW c \in Conns, Dial(c) PROVE AcceptInv'
  BY <1>11 DEF Dial
<1>12. ASSUME NEW c \in Conns, ClientSend(c) PROVE AcceptInv'
  BY <1>12 DEF ClientSend
<1>13. ASSUME NEW c \in Conns, Drain(c) PROVE AcceptInv'
  BY <1>13 DEF Drain
<1>14. ASSUME NEW c \in Conns, ClientClose(c) PROVE AcceptInv'
  BY <1>14 DEF ClientClose
<1>15. ASSUME NEW c \in Conns, LoopTop(c) PROVE AcceptInv'
  BY <1>15 DEF LoopTop, Goto
<1>16. ASSUME NEW c \in Conns, ReadFrame(c) PROVE AcceptInv'
  BY <1>16 DEF ReadFrame, Goto
<1>17. ASSUME NEW c \in Conns, ReadFails(c) PROVE AcceptInv'
  BY <1>17 DEF ReadFails, Goto
<1>18. ASSUME NEW c \in Conns, HandlerReturns(c) PROVE AcceptInv'
  BY <1>18 DEF HandlerReturns, Goto
<1>19. ASSUME NEW c \in Conns, Send(c) PROVE AcceptInv'
  BY <1>19 DEF Send, Calling
<1>20. ASSUME NEW c \in Conns, Broadcast(c) PROVE AcceptInv'
  BY <1>20 DEF Broadcast, Goto, Calling, mu!RLock
<1>21. ASSUME NEW c \in Conns, BroadcastLocked(c) PROVE AcceptInv'
  BY <1>21 DEF BroadcastLocked, Goto, Visit
<1>22. ASSUME NEW c \in Conns, BroadcastSend(c) PROVE AcceptInv'
  BY <1>22 DEF BroadcastSend, Visit
<1>23. ASSUME NEW c \in Conns, BroadcastEnd(c) PROVE AcceptInv'
  BY <1>23 DEF BroadcastEnd, Goto, mu!RUnlock
<1>24. ASSUME NEW c \in Conns, CloseConn(c) PROVE AcceptInv'
  BY <1>24 DEF CloseConn, Goto
<1>25. ASSUME NEW c \in Conns, Announce(c) PROVE AcceptInv'
  BY <1>25 DEF Announce, Goto, mu!Announce
<1>26. ASSUME NEW c \in Conns, Enter(c) PROVE AcceptInv'
  BY <1>26 DEF Enter, Goto, mu!Enter
<1>27. ASSUME NEW c \in Conns, Delete(c) PROVE AcceptInv'
  BY <1>27 DEF Delete, Goto
<1>28. ASSUME NEW c \in Conns, Unlock(c) PROVE AcceptInv'
  BY <1>28 DEF Unlock, Goto, mu!Unlock
<1>. QED
  BY <1>1, <1>2, <1>3, <1>4, <1>5, <1>6, <1>7, <1>8, <1>9, <1>10, <1>11, <1>12, <1>13, <1>14, <1>15, <1>16, <1>17, <1>18, <1>19, <1>20, <1>21, <1>22, <1>23, <1>24, <1>25, <1>26, <1>27, <1>28
     DEF Next, AcceptLoop, Client, Serve

\* Every step keeps the registry exact.
LEMMA RegistryStep ==
  ASSUME TypeOK, AcceptInv, RegistryExact, [Next]_vars
  PROVE  RegistryExact'
<1>. USE ServerAssumption DEF ServerAssumption, TypeOK, AcceptInv, RegistryExact, Registered, Online, Serving, HostIDs, netVars, accVars, srvVars, castVars, muVars
<1>1. CASE UNCHANGED vars
  BY <1>1 DEF vars
<1>2. CASE CancelCtx
  BY <1>2 DEF CancelCtx
<1>3. CASE CloseListener
  BY <1>3 DEF CloseListener
<1>4. CASE Accept
  <2>1. PICK c \in Conns : /\ link[c] = "dialed"
                           /\ accConn' = c
                           /\ hostID' = [hostID EXCEPT ![c] = nextHostID]
    BY <1>4 DEF Accept
  <2>2. accPC = "accept" /\ accPC' = "lock" /\ UNCHANGED <<conns, pc>>
    BY <1>4 DEF Accept, AccGoto
  <2>3. pc[c] = "none" /\ accConn = Nil
    BY <2>1, <2>2
  <2>4. c \notin Online
    BY <2>2, <2>3
  <2>. QED
    BY <2>1, <2>2, <2>3, <2>4
<1>5. CASE AcceptFails
  BY <1>5 DEF AcceptFails, AccGoto
<1>6. CASE AccAnnounce
  BY <1>6 DEF AccAnnounce, AccGoto, mu!Announce
<1>7. CASE AccEnter
  BY <1>7 DEF AccEnter, AccGoto, mu!Enter
<1>8. CASE Insert
  BY <1>8, SMTT(30) DEF Insert, AccGoto
<1>9. CASE AccUnlock
  BY <1>9 DEF AccUnlock, AccGoto, mu!Unlock
<1>10. CASE Spawn
  BY <1>10 DEF Spawn, Goto, AccGoto
<1>11. ASSUME NEW c \in Conns, Dial(c) PROVE RegistryExact'
  BY <1>11 DEF Dial
<1>12. ASSUME NEW c \in Conns, ClientSend(c) PROVE RegistryExact'
  BY <1>12 DEF ClientSend
<1>13. ASSUME NEW c \in Conns, Drain(c) PROVE RegistryExact'
  BY <1>13 DEF Drain
<1>14. ASSUME NEW c \in Conns, ClientClose(c) PROVE RegistryExact'
  BY <1>14 DEF ClientClose
<1>15. ASSUME NEW c \in Conns, LoopTop(c) PROVE RegistryExact'
  BY <1>15, SMTT(30) DEF LoopTop, Goto
<1>16. ASSUME NEW c \in Conns, ReadFrame(c) PROVE RegistryExact'
  BY <1>16, SMTT(30) DEF ReadFrame, Goto
<1>17. ASSUME NEW c \in Conns, ReadFails(c) PROVE RegistryExact'
  BY <1>17, SMTT(30) DEF ReadFails, Goto
<1>18. ASSUME NEW c \in Conns, HandlerReturns(c) PROVE RegistryExact'
  BY <1>18, SMTT(30) DEF HandlerReturns, Goto
<1>19. ASSUME NEW c \in Conns, Send(c) PROVE RegistryExact'
  BY <1>19 DEF Send, Calling
<1>20. ASSUME NEW c \in Conns, Broadcast(c) PROVE RegistryExact'
  BY <1>20 DEF Broadcast, Goto, Calling, mu!RLock
<1>21. ASSUME NEW c \in Conns, BroadcastLocked(c) PROVE RegistryExact'
  BY <1>21, SMTT(30) DEF BroadcastLocked, Goto
<1>22. ASSUME NEW c \in Conns, BroadcastSend(c) PROVE RegistryExact'
  BY <1>22 DEF BroadcastSend
<1>23. ASSUME NEW c \in Conns, BroadcastEnd(c) PROVE RegistryExact'
  BY <1>23 DEF BroadcastEnd, Goto, mu!RUnlock
<1>24. ASSUME NEW c \in Conns, CloseConn(c) PROVE RegistryExact'
  BY <1>24, SMTT(30) DEF CloseConn, Goto
<1>25. ASSUME NEW c \in Conns, Announce(c) PROVE RegistryExact'
  BY <1>25 DEF Announce, Goto, mu!Announce
<1>26. ASSUME NEW c \in Conns, Enter(c) PROVE RegistryExact'
  BY <1>26 DEF Enter, Goto, mu!Enter
<1>27. ASSUME NEW c \in Conns, Delete(c) PROVE RegistryExact'
  BY <1>27 DEF Delete, Goto
<1>28. ASSUME NEW c \in Conns, Unlock(c) PROVE RegistryExact'
  BY <1>28 DEF Unlock, Goto, mu!Unlock
<1>. QED
  BY <1>1, <1>2, <1>3, <1>4, <1>5, <1>6, <1>7, <1>8, <1>9, <1>10, <1>11, <1>12, <1>13, <1>14, <1>15, <1>16, <1>17, <1>18, <1>19, <1>20, <1>21, <1>22, <1>23, <1>24, <1>25, <1>26, <1>27, <1>28
     DEF Next, AcceptLoop, Client, Serve

\* Every step keeps a broadcast's targets registered.
LEMMA CastStep ==
  ASSUME TypeOK, LockInv, CastInv, [Next]_vars
  PROVE  CastInv'
<1>. USE ServerAssumption DEF ServerAssumption, TypeOK, LockInv, CastInv, Registered, HostIDs, netVars, accVars, srvVars, castVars, muVars
<1>1. CASE UNCHANGED vars
  BY <1>1 DEF vars
<1>2. CASE CancelCtx
  BY <1>2 DEF CancelCtx
<1>3. CASE CloseListener
  BY <1>3 DEF CloseListener
<1>4. CASE Accept
  BY <1>4 DEF Accept, AccGoto
<1>5. CASE AcceptFails
  BY <1>5 DEF AcceptFails, AccGoto
<1>6. CASE AccAnnounce
  BY <1>6 DEF AccAnnounce, AccGoto, mu!Announce
<1>7. CASE AccEnter
  BY <1>7 DEF AccEnter, AccGoto, mu!Enter
<1>8. CASE Insert
  BY <1>8 DEF Insert, AccGoto
<1>9. CASE AccUnlock
  BY <1>9 DEF AccUnlock, AccGoto, mu!Unlock
<1>10. CASE Spawn
  BY <1>10 DEF Spawn, Goto, AccGoto
<1>11. ASSUME NEW c \in Conns, Dial(c) PROVE CastInv'
  BY <1>11 DEF Dial
<1>12. ASSUME NEW c \in Conns, ClientSend(c) PROVE CastInv'
  BY <1>12 DEF ClientSend
<1>13. ASSUME NEW c \in Conns, Drain(c) PROVE CastInv'
  BY <1>13 DEF Drain
<1>14. ASSUME NEW c \in Conns, ClientClose(c) PROVE CastInv'
  BY <1>14 DEF ClientClose
<1>15. ASSUME NEW c \in Conns, LoopTop(c) PROVE CastInv'
  BY <1>15 DEF LoopTop, Goto
<1>16. ASSUME NEW c \in Conns, ReadFrame(c) PROVE CastInv'
  BY <1>16 DEF ReadFrame, Goto
<1>17. ASSUME NEW c \in Conns, ReadFails(c) PROVE CastInv'
  BY <1>17 DEF ReadFails, Goto
<1>18. ASSUME NEW c \in Conns, HandlerReturns(c) PROVE CastInv'
  BY <1>18 DEF HandlerReturns, Goto
<1>19. ASSUME NEW c \in Conns, Send(c) PROVE CastInv'
  BY <1>19 DEF Send, Calling
<1>20. ASSUME NEW c \in Conns, Broadcast(c) PROVE CastInv'
  BY <1>20 DEF Broadcast, Goto, Calling, mu!RLock
<1>21. ASSUME NEW c \in Conns, BroadcastLocked(c) PROVE CastInv'
  BY <1>21, ZenonT(60) DEF BroadcastLocked, Goto, Visit
<1>22. ASSUME NEW c \in Conns, BroadcastSend(c) PROVE CastInv'
  BY <1>22, ZenonT(60) DEF BroadcastSend, Visit
<1>23. ASSUME NEW c \in Conns, BroadcastEnd(c) PROVE CastInv'
  BY <1>23 DEF BroadcastEnd, Goto, mu!RUnlock
<1>24. ASSUME NEW c \in Conns, CloseConn(c) PROVE CastInv'
  BY <1>24 DEF CloseConn, Goto
<1>25. ASSUME NEW c \in Conns, Announce(c) PROVE CastInv'
  BY <1>25 DEF Announce, Goto, mu!Announce
<1>26. ASSUME NEW c \in Conns, Enter(c) PROVE CastInv'
  BY <1>26 DEF Enter, Goto, mu!Enter
<1>27. ASSUME NEW c \in Conns, Delete(c) PROVE CastInv'
  BY <1>27 DEF Delete, Goto
<1>28. ASSUME NEW c \in Conns, Unlock(c) PROVE CastInv'
  BY <1>28 DEF Unlock, Goto, mu!Unlock
<1>. QED
  BY <1>1, <1>2, <1>3, <1>4, <1>5, <1>6, <1>7, <1>8, <1>9, <1>10, <1>11, <1>12, <1>13, <1>14, <1>15, <1>16, <1>17, <1>18, <1>19, <1>20, <1>21, <1>22, <1>23, <1>24, <1>25, <1>26, <1>27, <1>28
     DEF Next, AcceptLoop, Client, Serve

-------------------------------------------------------------------------------
(* The invariant *)

\* The initial state satisfies the invariant.
LEMMA InitInv == ASSUME Init PROVE IInv
<1>1. TypeOK
  BY InitType
<1>2. LockInv
  BY ServerAssumption DEF Init, LockInv, ServerAssumption, mu!LockInit
<1>3. AcceptInv
  BY ServerAssumption DEF Init, AcceptInv, ServerAssumption
<1>4. CastInv
  BY DEF Init, CastInv
<1>5. RegistryExact
  BY DEF Init, RegistryExact, Registered, Online, Serving
<1>. QED
  BY <1>1, <1>2, <1>3, <1>4, <1>5 DEF IInv

\* Every step keeps the invariant.
LEMMA StepInv == ASSUME IInv, [Next]_vars PROVE IInv'
BY StepType, LockStep, AcceptStep, CastStep, RegistryStep DEF IInv

LEMMA Invariance == Spec => []IInv
BY InitInv, StepInv, PTL DEF Spec

\* The lock alone keeps the map from being iterated while it is modified.
LEMMA LockGuards == ASSUME TypeOK, LockInv PROVE MapGuarded
BY ServerAssumption DEF TypeOK, LockInv, ServerAssumption, MapGuarded, Modifying, Iterating

\* The map holds exactly the connections being served, under their own ids,
\* however accepts, broadcasts, disconnects and the shutdown interleave.
THEOREM RegistryIsExact == Spec => []RegistryExact
BY Invariance, PTL DEF IInv

\* Nobody modifies the map while another goroutine iterates or modifies it.
THEOREM MapIsGuarded == Spec => []MapGuarded
<1>1. IInv => MapGuarded
  BY LockGuards DEF IInv
<1>. QED
  BY <1>1, Invariance, PTL

-------------------------------------------------------------------------------
(* Broadcast implements BroadcastGroup *)

\* What no operation of the group sees.
LEMMA Stutter ==
  ASSUME UNCHANGED <<conns, targets, queue, gone>>,
         \A c \in Conns : pc[c] = "cast" <=> pc'[c] = "cast",
         \A c \in Conns : link[c] = "closed" <=> link'[c] = "closed"
  PROVE  UNCHANGED Group!vars
<1>1. UNCHANGED Online
  BY DEF Online, Registered
<1>2. UNCHANGED [b \in Conns |-> {d \in Conns : Owes(b, d)}]
  <2>1. ASSUME NEW b \in Conns, NEW d \in Conns PROVE Owes(b, d) <=> Owes(b, d)'
    BY DEF Owes
  <2>. QED
    BY <2>1
<1>3. UNCHANGED Lost
  BY DEF Lost
<1>4. UNCHANGED {c \in Conns : pc[c] = "cast"}
  OBVIOUS
<1>. QED
  BY <1>1, <1>2, <1>3, <1>4 DEF Group!vars

\* A registered entry is the only one of its connection.
LEMMA OneEntry ==
  ASSUME RegistryExact, NEW h \in Registered, NEW g \in Registered, conns[g] = conns[h]
  PROVE  g = h
BY DEF RegistryExact

\* Registering the accepted connection is a Join.
LEMMA InsertJoins ==
  ASSUME IInv, Insert
  PROVE  Group!Join(accConn) /\ accConn \in Conns
<1>. DEFINE a == accConn
            k == hostID[accConn]
<1>1. a \in Conns /\ k \in HostIDs /\ pc[a] = "none"
  BY DEF IInv, TypeOK, AcceptInv, Insert, AccGoto
<1>2. conns[k] = Nil
  <2>. SUFFICES ASSUME conns[k] # Nil PROVE FALSE
    OBVIOUS
  <2>1. k \in Registered /\ conns[k] \in Conns /\ hostID[conns[k]] = k
    BY <1>1 DEF IInv, TypeOK, Registered, RegistryExact
  <2>2. conns[k] = a
    BY <1>1, <2>1 DEF IInv, AcceptInv, HostIDs
  <2>3. a \in Online
    BY <2>1, <2>2 DEF Online
  <2>. QED
    BY <1>1, <2>3 DEF IInv, RegistryExact, Serving, Insert, AccGoto
<1>3. conns' = [conns EXCEPT ![k] = a] /\ a # Nil
  BY <1>1, ServerAssumption DEF Insert, ServerAssumption
<1>4. Online' = Online \cup {a}
  <2>1. Registered' = Registered \cup {k}
    BY <1>1, <1>2, <1>3 DEF Registered, IInv, TypeOK
  <2>2. conns'[k] = a /\ \A h \in Registered : conns'[h] = conns[h]
    BY <1>1, <1>2, <1>3 DEF Registered, IInv, TypeOK
  <2>. QED
    BY <2>1, <2>2 DEF Online
<1>5. \A c \in Conns : pc[c] # "cast" /\ pc'[c] # "cast"
  BY DEF Insert, AccGoto, srvVars, IInv, LockInv
<1>6. UNCHANGED <<queue, Lost, pc>>
  BY DEF Insert, netVars, srvVars, Lost
<1>7. UNCHANGED [b \in Conns |-> {d \in Conns : Owes(b, d)}]
  BY <1>5 DEF Owes
<1>. QED
  BY <1>1, <1>4, <1>5, <1>6, <1>7 DEF Group!Join

\* The deferred delete is a Leave.
LEMMA DeleteLeaves ==
  ASSUME IInv, NEW c \in Conns, Delete(c)
  PROVE  Group!Leave(c)
<1>. DEFINE k == hostID[c]
<1>1. k \in HostIDs /\ conns[k] = c /\ c # Nil
  <2>1. c \in Online
    BY DEF IInv, RegistryExact, Delete, Goto, Serving
  <2>2. PICK h \in Registered : conns[h] = c
    BY <2>1 DEF Online
  <2>. QED
    BY <2>2, ServerAssumption DEF IInv, RegistryExact, Registered, ServerAssumption
<1>2. conns' = [conns EXCEPT ![k] = Nil]
  BY DEF Delete
<1>3. Online' = Online \ {c}
  <2>1. Registered' = Registered \ {k}
    BY <1>1, <1>2 DEF Registered, IInv, TypeOK
  <2>2. \A h \in Registered \ {k} : conns'[h] = conns[h] /\ conns[h] # c
    BY <1>1, <1>2 DEF Registered, IInv, TypeOK, RegistryExact
  <2>. QED
    BY <1>1, <2>1, <2>2 DEF Online, Registered
<1>4. \A d \in Conns : pc[d] # "cast" /\ pc'[d] # "cast"
  BY DEF Delete, Goto, IInv, LockInv, TypeOK
<1>5. UNCHANGED <<queue, Lost>>
  BY DEF Delete, netVars, Lost
<1>6. UNCHANGED [b \in Conns |-> {d \in Conns : Owes(b, d)}]
  BY <1>4 DEF Owes
<1>. QED
  BY <1>3, <1>4, <1>5, <1>6 DEF Group!Leave

\* Entering the loop of Broadcast is a Begin.
LEMMA LockedBegins ==
  ASSUME IInv, NEW c \in Conns, BroadcastLocked(c)
  PROVE  Group!Begin(c)
<1>1. /\ pc[c] = "rlock"
      /\ pc' = [pc EXCEPT ![c] = "cast"]
      /\ targets' = [targets EXCEPT ![c] = Registered]
      /\ UNCHANGED <<conns, queue, gone, link>>
  BY DEF BroadcastLocked, Goto, Visit, netVars
<1>2. c \in Online
  BY <1>1 DEF IInv, RegistryExact, Serving
<1>3. UNCHANGED <<Online, Lost, queue>>
  BY <1>1 DEF Online, Registered, Lost
<1>4. {d \in Conns : pc'[d] = "cast"} = {d \in Conns : pc[d] = "cast"} \cup {c}
  BY <1>1 DEF IInv, TypeOK
<1>5. \A d \in Conns : Owes(c, d)' <=> d \in Online
  BY <1>1 DEF Owes, Online, IInv, TypeOK
<1>6. Online \subseteq Conns
  BY DEF Online, Registered, IInv, TypeOK
<1>7. \A b \in Conns \ {c}, d \in Conns : Owes(b, d)' <=> Owes(b, d)
  BY <1>1 DEF Owes, IInv, TypeOK
<1>8. [b \in Conns |-> {d \in Conns : Owes(b, d)}]'
        = [[b \in Conns |-> {d \in Conns : Owes(b, d)}] EXCEPT ![c] = Online]
  BY <1>5, <1>6, <1>7
<1>. QED
  BY <1>1, <1>2, <1>3, <1>4, <1>8 DEF Group!Begin

\* A write delivers one frame, or none over a broken connection.
LEMMA WriteFrames == ASSUME NEW d, WriteTo(d) PROVE Group!Frame(d)
BY DEF WriteTo, Group!Frame

\* One turn of the loop is a Deliver.
LEMMA SendDelivers ==
  ASSUME IInv, NEW c \in Conns, BroadcastSend(c)
  PROVE  /\ conns[current[c]] \in Conns
         /\ Group!Deliver(c, conns[current[c]])
<1>. DEFINE k == current[c]
            r == conns[k]
<1>1. /\ pc[c] = "cast" /\ k # 0
      /\ targets' = [targets EXCEPT ![c] = @ \ {k}]
      /\ UNCHANGED <<conns, pc, gone, link>>
  BY DEF BroadcastSend, Visit, IInv, TypeOK
<1>2. k \in targets[c] /\ targets[c] \subseteq Registered
  BY <1>1 DEF IInv, CastInv
<1>3. r \in Conns /\ Owes(c, r)
  BY <1>1, <1>2 DEF Owes, IInv, TypeOK, Registered
<1>4. \A h \in targets[c] : conns[h] = r => h = k
  BY <1>2, OneEntry DEF IInv
<1>5. \A d \in Conns : Owes(c, d)' <=> Owes(c, d) /\ d # r
  BY <1>1, <1>2, <1>4 DEF Owes, IInv, TypeOK
<1>6. \A b \in Conns \ {c}, d \in Conns : Owes(b, d)' <=> Owes(b, d)
  BY <1>1 DEF Owes, IInv, TypeOK
<1>7. [b \in Conns |-> {d \in Conns : Owes(b, d)}]'
        = [[b \in Conns |-> {d \in Conns : Owes(b, d)}] EXCEPT ![c] = @ \ {r}]
  BY <1>5, <1>6
<1>8. Group!Frame(r)
  BY WriteFrames DEF BroadcastSend
<1>9. UNCHANGED <<Online, Lost, {d \in Conns : pc[d] = "cast"}>>
  BY <1>1 DEF Online, Registered, Lost
<1>. QED
  BY <1>3, <1>7, <1>8, <1>9 DEF Group!Deliver

\* Leaving the loop is an End.
LEMMA EndEnds ==
  ASSUME IInv, NEW c \in Conns, BroadcastEnd(c)
  PROVE  Group!End(c)
<1>1. /\ pc[c] = "cast" /\ targets[c] = {}
      /\ pc' = [pc EXCEPT ![c] = "handle"]
      /\ UNCHANGED <<conns, targets, gone, link, queue>>
  BY DEF BroadcastEnd, Goto, netVars, castVars
<1>2. UNCHANGED <<Online, Lost, queue>>
  BY <1>1 DEF Online, Registered, Lost
<1>3. {d \in Conns : pc'[d] = "cast"} = {d \in Conns : pc[d] = "cast"} \ {c}
  BY <1>1 DEF IInv, TypeOK
<1>4. \A b, d \in Conns : Owes(b, d)' <=> Owes(b, d)
  BY <1>1 DEF Owes, IInv, TypeOK
<1>5. UNCHANGED [b \in Conns |-> {d \in Conns : Owes(b, d)}]
  BY <1>4
<1>6. {d \in Conns : Owes(c, d)} = {}
  BY <1>1 DEF Owes
<1>. QED
  BY <1>1, <1>2, <1>3, <1>5, <1>6 DEF Group!End

\* A Send by a handler is a Reply.
LEMMA SendReplies ==
  ASSUME IInv, NEW c \in Conns, Send(c)
  PROVE  Group!Reply(c)
<1>1. c \in Online
  BY DEF Send, Calling, IInv, RegistryExact, Serving
<1>2. Group!Frame(c)
  BY WriteFrames DEF Send
<1>3. UNCHANGED <<Online, Lost, {d \in Conns : pc[d] = "cast"}>>
  BY DEF Send, Online, Registered, Lost
<1>4. UNCHANGED [b \in Conns |-> {d \in Conns : Owes(b, d)}]
  BY DEF Send, castVars, Owes
<1>. QED
  BY <1>1, <1>2, <1>3, <1>4 DEF Group!Reply

\* A client that reads its socket Receives.
LEMMA DrainReceives ==
  ASSUME NEW c \in Conns, Drain(c)
  PROVE  Group!Receive(c)
<1>1. UNCHANGED <<Online, Lost, {d \in Conns : pc[d] = "cast"}>>
  BY DEF Drain, srvVars, Online, Registered, Lost
<1>2. UNCHANGED [b \in Conns |-> {d \in Conns : Owes(b, d)}]
  BY DEF Drain, srvVars, castVars, Owes
<1>. QED
  BY <1>1, <1>2 DEF Drain, Group!Receive

\* Connections that close, and nothing else the group sees, are a Break.
LEMMA Breaks ==
  ASSUME IInv,
         UNCHANGED <<conns, targets>>,
         \A c \in Conns : pc[c] = "cast" <=> pc'[c] = "cast",
         Lost \subseteq Lost',
         \A c \in Conns : queue'[c] # queue[c] => c \in Lost' /\ queue'[c] = 0
  PROVE  Group!Break
<1>1. UNCHANGED <<Online, {d \in Conns : pc[d] = "cast"}>>
  BY DEF Online, Registered
<1>2. UNCHANGED [b \in Conns |-> {d \in Conns : Owes(b, d)}]
  BY DEF Owes
<1>. QED
  BY <1>1, <1>2 DEF Group!Break

\* Every step is a step of the group, or one it does not see.
LEMMA StepRefines ==
  ASSUME IInv, [Next]_vars
  PROVE  [Group!Next]_(Group!vars)
<1>. USE DEF netVars, accVars, srvVars, castVars
<1>a. pc \in [Conns -> PCs] /\ link \in [Conns -> {"unused", "dialed", "open", "closed"}]
  BY DEF IInv, TypeOK
<1>1. CASE UNCHANGED vars
  BY <1>1, Stutter DEF vars
<1>2. CASE CancelCtx
  BY <1>2, Stutter DEF CancelCtx
<1>3. CASE CloseListener
  <2>1. Group!Break
    BY <1>3, <1>a, Breaks DEF CloseListener, Lost
  <2>. QED
    BY <2>1 DEF Group!Next
<1>4. CASE Accept
  BY <1>4, <1>a, Stutter DEF Accept, AccGoto
<1>5. CASE AcceptFails
  BY <1>5, <1>a, Stutter DEF AcceptFails, AccGoto
<1>6. CASE AccAnnounce
  BY <1>6, <1>a, Stutter DEF AccAnnounce, AccGoto
<1>7. CASE AccEnter
  BY <1>7, <1>a, Stutter DEF AccEnter, AccGoto
<1>8. CASE AccUnlock
  BY <1>8, <1>a, Stutter DEF AccUnlock, AccGoto
<1>9. CASE Spawn
  BY <1>9, <1>a, Stutter DEF Spawn, Goto, AccGoto, IInv, AcceptInv
<1>10. CASE Insert
  BY <1>10, InsertJoins DEF Group!Next
<1>11. ASSUME NEW c \in Conns, Dial(c) PROVE [Group!Next]_(Group!vars)
  BY <1>11, <1>a, Stutter DEF Dial
<1>12. ASSUME NEW c \in Conns, ClientSend(c) PROVE [Group!Next]_(Group!vars)
  BY <1>12, <1>a, Stutter DEF ClientSend
<1>13. ASSUME NEW c \in Conns, Drain(c) PROVE [Group!Next]_(Group!vars)
  BY <1>13, DrainReceives DEF Group!Next
<1>14. ASSUME NEW c \in Conns, ClientClose(c) PROVE [Group!Next]_(Group!vars)
  <2>1. queue' = [queue EXCEPT ![c] = 0] /\ queue \in [Conns -> 0..OutCap]
    BY <1>14 DEF ClientClose, IInv, TypeOK
  <2>2. Group!Break
    BY <1>14, <1>a, <2>1, Breaks DEF ClientClose, Lost
  <2>. QED
    BY <2>2 DEF Group!Next
<1>15. ASSUME NEW c \in Conns, LoopTop(c) PROVE [Group!Next]_(Group!vars)
  BY <1>15, <1>a, Stutter DEF LoopTop, Goto
<1>16. ASSUME NEW c \in Conns, ReadFrame(c) PROVE [Group!Next]_(Group!vars)
  BY <1>16, <1>a, Stutter DEF ReadFrame, Goto
<1>17. ASSUME NEW c \in Conns, ReadFails(c) PROVE [Group!Next]_(Group!vars)
  BY <1>17, <1>a, Stutter DEF ReadFails, Goto
<1>18. ASSUME NEW c \in Conns, HandlerReturns(c) PROVE [Group!Next]_(Group!vars)
  BY <1>18, <1>a, Stutter DEF HandlerReturns, Goto
<1>19. ASSUME NEW c \in Conns, Send(c) PROVE [Group!Next]_(Group!vars)
  BY <1>19, SendReplies DEF Group!Next
<1>20. ASSUME NEW c \in Conns, Broadcast(c) PROVE [Group!Next]_(Group!vars)
  BY <1>20, <1>a, Stutter DEF Broadcast, Goto, Calling
<1>21. ASSUME NEW c \in Conns, BroadcastLocked(c) PROVE [Group!Next]_(Group!vars)
  BY <1>21, LockedBegins DEF Group!Next
<1>22. ASSUME NEW c \in Conns, BroadcastSend(c) PROVE [Group!Next]_(Group!vars)
  BY <1>22, SendDelivers DEF Group!Next
<1>23. ASSUME NEW c \in Conns, BroadcastEnd(c) PROVE [Group!Next]_(Group!vars)
  BY <1>23, EndEnds DEF Group!Next
<1>24. ASSUME NEW c \in Conns, CloseConn(c) PROVE [Group!Next]_(Group!vars)
  <2>1. Group!Break
    BY <1>24, <1>a, Breaks DEF CloseConn, Goto, Lost
  <2>. QED
    BY <2>1 DEF Group!Next
<1>25. ASSUME NEW c \in Conns, Announce(c) PROVE [Group!Next]_(Group!vars)
  BY <1>25, <1>a, Stutter DEF Announce, Goto
<1>26. ASSUME NEW c \in Conns, Enter(c) PROVE [Group!Next]_(Group!vars)
  BY <1>26, <1>a, Stutter DEF Enter, Goto
<1>27. ASSUME NEW c \in Conns, Delete(c) PROVE [Group!Next]_(Group!vars)
  BY <1>27, DeleteLeaves DEF Group!Next
<1>28. ASSUME NEW c \in Conns, Unlock(c) PROVE [Group!Next]_(Group!vars)
  BY <1>28, <1>a, Stutter DEF Unlock, Goto
<1>. QED
  BY <1>1, <1>2, <1>3, <1>4, <1>5, <1>6, <1>7, <1>8, <1>9, <1>10, <1>11, <1>12, <1>13, <1>14, <1>15, <1>16, <1>17, <1>18, <1>19, <1>20, <1>21, <1>22, <1>23, <1>24, <1>25, <1>26, <1>27, <1>28
     DEF Next, AcceptLoop, Client, Serve

\* An empty registry is an empty group.
LEMMA InitRefines == ASSUME Init PROVE Group!Init
<1>1. Registered = {} /\ {c \in Conns : pc[c] = "cast"} = {}
  BY DEF Init, Registered
<1>2. Online = {} /\ [b \in Conns |-> {d \in Conns : Owes(b, d)}] = [b \in Conns |-> {}]
  BY <1>1 DEF Online, Owes
<1>3. Lost = {} /\ queue = [c \in Conns |-> 0]
  BY DEF Init, Lost
<1>. QED
  BY <1>1, <1>2, <1>3 DEF Group!Init

\* The registry, the lock and the loop of Broadcast together implement the
\* group: one audience per broadcast, fixed when it begins, nobody joining or
\* leaving before every member of it has been written to.
THEOREM BroadcastImplementsGroup == Spec => BroadcastIsAtomic
<1>1. Init => Group!Init
  BY InitRefines
<1>2. IInv /\ [Next]_vars => [Group!Next]_(Group!vars)
  BY StepRefines
<1>. QED
  BY <1>1, <1>2, Invariance, PTL DEF Spec, BroadcastIsAtomic, Group!Spec
===============================================================================
