--------------------------- MODULE BattleRelay_proofs ---------------------------
(***************************************************************************)
(* Whatever the network does and however often clients move, the relay     *)
(* sends a host's datagrams to endpoints of that host.                     *)
(***************************************************************************)
EXTENDS BattleRelay, TLAPS

\* A datagram under way carries an endpoint its source has had, and every
\* client has had the one it has.
InFlightInv ==
  /\ \A h \in Hosts : addr[h] \in had[h]
  /\ \A m \in net : m.src \in Hosts => m.at \in had[m.src]

IInv == TypeOK /\ InFlightInv /\ RoutesToOwner

-------------------------------------------------------------------------------
(* The steps *)

\* A client that moves has had the new endpoint from then on.
LEMMA MoveStep ==
  ASSUME RelayAssumption, IInv, NEW h \in Hosts, Move(h)
  PROVE  IInv'
<1>. USE DEF IInv, TypeOK, ctxVars
<1>1. PICK a \in Addrs :
        addr' = [addr EXCEPT ![h] = a] /\ had' = [had EXCEPT ![h] = @ \cup {a}]
  BY DEF Move
<1>2. /\ had' \in [Hosts -> SUBSET Addrs] /\ addr' \in [Hosts -> Addrs]
      /\ \A g \in Hosts : had[g] \subseteq had'[g]
      /\ \A g \in Hosts : addr'[g] \in had'[g]
  BY <1>1 DEF InFlightInv
<1>3. TypeOK'
  BY <1>2 DEF Move, RelayAssumption
<1>4. InFlightInv'
  BY <1>2 DEF Move, InFlightInv
<1>5. RoutesToOwner'
  BY <1>2 DEF Move, RoutesToOwner
<1>. QED
  BY <1>3, <1>4, <1>5

\* A datagram starts from where its sender is.
LEMMA SendStep ==
  ASSUME RelayAssumption, IInv, NEW h \in Hosts, NEW d \in Hosts,
         NEW s \in {h, HostIDNone}, SendTo(h, d, s)
  PROVE  IInv'
<1>. USE DEF IInv, TypeOK, ctxVars
<1>. DEFINE new == [at |-> addr[h], dest |-> d, src |-> s]
<1>1. new \in Datagram /\ new.src = s /\ new.at = addr[h]
  BY DEF Datagram
<1>2. net' = net \cup {new}
  BY DEF SendTo
<1>. HIDE DEF new
<1>3. TypeOK'
  BY <1>1, <1>2 DEF SendTo
<1>4. InFlightInv'
  BY <1>1, <1>2 DEF SendTo, InFlightInv, RelayAssumption
<1>5. RoutesToOwner'
  BY DEF SendTo, RoutesToOwner
<1>. QED
  BY <1>3, <1>4, <1>5

\* The relay learns an endpoint its source has had, and forwards to the entry.
LEMMA RelayStep ==
  ASSUME RelayAssumption, IInv, NEW m \in net, Relay(m)
  PROVE  IInv'
<1>. USE DEF IInv, TypeOK, ctxVars
<1>1. m \in Datagram
  OBVIOUS
<1>2. /\ m.at \in Addrs /\ m.dest \in Hosts
      /\ m.src \in Hosts \cup {HostIDNone}
      /\ m.src \in Hosts => m.at \in had[m.src]
  BY <1>1 DEF Datagram, InFlightInv
<1>3. peers' = IF m.src = HostIDNone THEN peers ELSE [peers EXCEPT ![m.src] = m.at]
  BY DEF Relay, RegisterPeer, ParsePeerHeader
<1>4. peers' \in [Hosts -> Addrs \cup {NoAddr}]
  BY <1>2, <1>3
<1>5. \A g \in Hosts : peers'[g] \in had[g] \cup {NoAddr}
  BY <1>2, <1>3 DEF RoutesToOwner
<1>6. \/ out' = out
      \/ peers'[m.dest] # NoAddr /\ out' = out \cup {[to |-> peers'[m.dest], dest |-> m.dest]}
  BY <1>2 DEF Relay, ParsePeerHeader
<1>7. /\ out' \subseteq [to : Addrs, dest : Hosts]
      /\ \A f \in out' : f.to \in had[f.dest]
  BY <1>2, <1>4, <1>5, <1>6 DEF RoutesToOwner
<1>8. TypeOK'
  BY <1>4, <1>7 DEF Relay
<1>9. InFlightInv' /\ RoutesToOwner'
  BY <1>5, <1>7 DEF Relay, InFlightInv, RoutesToOwner
<1>. QED
  BY <1>8, <1>9

\* IInv holds initially.
LEMMA InvInit == RelayAssumption /\ Init => IInv
<1>. SUFFICES ASSUME RelayAssumption, Init PROVE IInv
  OBVIOUS
<1>. USE DEF Init, RelayAssumption
<1>1. /\ peers \in [Hosts -> Addrs \cup {NoAddr}] /\ addr \in [Hosts -> Addrs]
      /\ moves \in 0..MaxMoves
  OBVIOUS
<1>2. had \in [Hosts -> SUBSET Addrs]
  OBVIOUS
<1>3. \A h \in Hosts : addr[h] \in had[h] /\ peers[h] = NoAddr
  OBVIOUS
<1>4. TypeOK
  BY <1>1, <1>2 DEF TypeOK
<1>. QED
  BY <1>3, <1>4 DEF IInv, InFlightInv, RoutesToOwner

\* Every step keeps IInv.
LEMMA InvStep == RelayAssumption /\ IInv /\ [Next]_vars => IInv'
<1>. SUFFICES ASSUME RelayAssumption, IInv, [Next]_vars PROVE IInv'
  OBVIOUS
<1>1. ASSUME NEW h \in Hosts, Logon(h) PROVE IInv'
  BY <1>1 DEF Logon, IInv, TypeOK, InFlightInv, RoutesToOwner, ctxVars
<1>2. ASSUME NEW m \in net, Lose(m) PROVE IInv'
  BY <1>2 DEF Lose, IInv, TypeOK, InFlightInv, RoutesToOwner, ctxVars
<1>3. ASSUME NEW m \in out, Arrive(m) PROVE IInv'
  BY <1>3 DEF Arrive, IInv, TypeOK, InFlightInv, RoutesToOwner, ctxVars
<1>4. ASSUME CancelCtx \/ CloseSocket PROVE IInv'
  BY <1>4 DEF CancelCtx, CloseSocket, IInv, TypeOK, InFlightInv, RoutesToOwner
<1>5. ASSUME UNCHANGED vars PROVE IInv'
  BY <1>5 DEF vars, ctxVars, IInv, TypeOK, InFlightInv, RoutesToOwner
<1>. QED
  BY <1>1, <1>2, <1>3, <1>4, <1>5, MoveStep, SendStep, RelayStep DEF Next

-------------------------------------------------------------------------------
(* The theorems *)

\* Every variable of the relay and of the network keeps its type.
THEOREM TypeCorrect == Spec => []TypeOK
<1>1. IInv => TypeOK
  BY DEF IInv
<1>. QED
  BY <1>1, InvInit, InvStep, RelayAssumption, PTL DEF Spec

\* The relay forwards only to endpoints the destination has had, for any number
\* of hosts, endpoints, moves and datagrams under way.
THEOREM ForwardsToOwner == Spec => []RoutesToOwner
<1>1. IInv => RoutesToOwner
  BY DEF IInv
<1>. QED
  BY <1>1, InvInit, InvStep, RelayAssumption, PTL DEF Spec
===============================================================================
