------------------------------ MODULE BattleRelay ------------------------------
(***************************************************************************)
(* The battle server (server/cmd/battle-server/main.go) and its UDP relay  *)
(* (server/internal/proudnet/udp_relay.go).  A client logs on over TCP and *)
(* sends its peers datagrams through the relay, which learns where a host  *)
(* is from the datagrams it gets: the last source address it saw.          *)
(*                                                                         *)
(* The relay loop is the only goroutine that uses peers, so the handling   *)
(* of one datagram is one step.  The network loses, duplicates and         *)
(* reorders datagrams.  Clients may move to another address (a NAT that    *)
(* maps them anew), which another client may have had before.  Each client *)
(* puts its own id in its datagrams.                                       *)
(***************************************************************************)
EXTENDS Naturals, FiniteSets

CONSTANTS
  Hosts,         \* the clients, each by its HostID
  Addrs,         \* UDP endpoints
  NoAddr,        \* no endpoint
  HostIDNone,    \* the source of a datagram too short to hold one
  Home,          \* where each client is first; no two share an endpoint
  MaxMoves,      \* bound on the address changes
  MaxInFlight    \* bound on the datagrams under way to the relay

ASSUME RelayAssumption ==
  /\ HostIDNone \notin Hosts
  /\ NoAddr \notin Addrs
  /\ Home \in [Hosts -> Addrs] /\ \A g, h \in Hosts : Home[g] = Home[h] => g = h
  /\ IsFiniteSet(Hosts) /\ IsFiniteSet(Addrs)
  /\ MaxMoves \in Nat /\ MaxInFlight \in Nat

VARIABLES
  ctxDone,    \* the context is cancelled
  listening,  \* the relay's socket is open
  peers,      \* HostID -> last seen UDP source, NoAddr where there is no entry
  loggedOn,   \* clients told NotifyNextLogonSuccess
  addr,       \* the endpoint each client has now
  had,        \* history: the endpoints each client has had
  moves,
  net,        \* datagrams under way to the relay
  out         \* datagrams forwarded and not yet delivered

vars == <<ctxDone, listening, peers, loggedOn, addr, had, moves, net, out>>
ctxVars == <<ctxDone, listening>>

\* A datagram that parsePeerHeader accepts: its source address and the ids in
\* its header.  A shorter one is dropped with no effect and is not sent here.
Datagram == [at : Addrs, dest : Hosts, src : Hosts \cup {HostIDNone}]

TypeOK ==
  /\ ctxDone \in BOOLEAN /\ listening \in BOOLEAN
  /\ peers \in [Hosts -> Addrs \cup {NoAddr}]
  /\ loggedOn \subseteq Hosts
  /\ addr \in [Hosts -> Addrs]
  /\ had \in [Hosts -> SUBSET Addrs]
  /\ moves \in 0..MaxMoves
  /\ net \subseteq Datagram
  /\ out \subseteq [to : Addrs, dest : Hosts]

Init ==
  /\ ctxDone = FALSE /\ listening = TRUE
  /\ peers = [h \in Hosts |-> NoAddr]
  /\ loggedOn = {}
  /\ addr = Home
  /\ had = [h \in Hosts |-> {Home[h]}]
  /\ moves = 0
  /\ net = {} /\ out = {}

-------------------------------------------------------------------------------
(* The clients and the network *)

\* Two clients never have one endpoint at the same time.
Move(h) ==
  /\ moves < MaxMoves
  /\ \E a \in Addrs \ {addr[g] : g \in Hosts} :
       /\ addr' = [addr EXCEPT ![h] = a]
       /\ had' = [had EXCEPT ![h] = @ \cup {a}]
  /\ moves' = moves + 1
  /\ UNCHANGED <<ctxVars, peers, loggedOn, net, out>>

\* h sends a datagram to d, with its own id s, or with none.
SendTo(h, d, s) ==
  /\ net' = net \cup {[at |-> addr[h], dest |-> d, src |-> s]}
  /\ net' # net
  /\ Cardinality(net') <= MaxInFlight
  /\ UNCHANGED <<ctxVars, peers, loggedOn, addr, had, moves, out>>

Lose(m) ==
  /\ net' = net \ {m}
  /\ UNCHANGED <<ctxVars, peers, loggedOn, addr, had, moves, out>>

\* A forwarded datagram arrives, at whoever has the endpoint by then, or is lost.
Arrive(m) ==
  /\ out' = out \ {m}
  /\ UNCHANGED <<ctxVars, peers, loggedOn, addr, had, moves, net>>

-------------------------------------------------------------------------------
(* The battle server *)

\* The handler of RequestNextLogon accepts everyone and tells the relay nothing.
Logon(h) ==
  /\ h \notin loggedOn
  /\ ~ctxDone
  /\ loggedOn' = loggedOn \cup {h}
  /\ UNCHANGED <<ctxVars, peers, addr, had, moves, net, out>>

\* As if an entry were never replaced, or the header's ids were swapped.
RegisterPeerOnce(id, a) ==
  IF id = HostIDNone \/ peers[id] # NoAddr THEN peers ELSE [peers EXCEPT ![id] = a]
ParseSwapped(m) == [dest |-> m.src, src |-> m.dest]

RegisterPeer(id, a) == IF id = HostIDNone THEN peers ELSE [peers EXCEPT ![id] = a]
ParsePeerHeader(m) == [dest |-> m.dest, src |-> m.src]

\* As if the datagram were forwarded whether or not the lookup found an entry.
RelayUnchecked(m) ==
  LET h == ParsePeerHeader(m) IN
  /\ listening
  /\ peers' = RegisterPeer(h.src, m.at)
  /\ out' = out \cup {[to |-> peers'[h.dest], dest |-> h.dest]}
  /\ net' \in {net, net \ {m}}
  /\ UNCHANGED <<ctxVars, loggedOn, addr, had, moves>>

\* One turn of the loop: learn the source, look up the destination, forward.
\* The network may still hold a copy of the datagram afterwards.
Relay(m) ==
  LET h == ParsePeerHeader(m) IN
  /\ listening
  /\ peers' = RegisterPeer(h.src, m.at)
  /\ out' = IF h.dest \in Hosts /\ peers'[h.dest] # NoAddr
            THEN out \cup {[to |-> peers'[h.dest], dest |-> h.dest]}
            ELSE out
  /\ net' \in {net, net \ {m}}
  /\ UNCHANGED <<ctxVars, loggedOn, addr, had, moves>>

CancelCtx ==
  /\ ~ctxDone
  /\ ctxDone' = TRUE
  /\ UNCHANGED <<listening, peers, loggedOn, addr, had, moves, net, out>>

CloseSocket ==
  /\ ctxDone /\ listening
  /\ listening' = FALSE
  /\ UNCHANGED <<ctxDone, peers, loggedOn, addr, had, moves, net, out>>

-------------------------------------------------------------------------------

Next ==
  \/ \E h \in Hosts : Move(h) \/ Logon(h)
  \/ \E h, d \in Hosts : SendTo(h, d, h) \/ SendTo(h, d, HostIDNone)
  \/ \E m \in net : Lose(m) \/ Relay(m)
  \/ \E m \in out : Arrive(m)
  \/ CancelCtx
  \/ CloseSocket

\* h's own datagram from where it is now reaches the relay.
Heard(h) == \E m \in net : m.src = h /\ m.at = addr[h] /\ Relay(m)

\* No copy of a datagram lives for ever; clients keep sending, and not all that
\* one of them sends from an endpoint is lost.
Fairness ==
  /\ \A m \in Datagram : WF_vars(m \in net /\ Lose(m))
  /\ \A h \in Hosts : SF_vars(Heard(h)) /\ SF_vars(\E d \in Hosts : SendTo(h, d, h))

Spec == Init /\ [][Next]_vars
FairSpec == Spec /\ Fairness

-------------------------------------------------------------------------------
(* Properties *)

\* The relay sends what is meant for a host only to endpoints that host has had.
RoutesToOwner ==
  /\ \A h \in Hosts : peers[h] \in had[h] \cup {NoAddr}
  /\ \A m \in out : m.to \in had[m.dest]

\* Once clients stop moving, the relay's entry for a host becomes its current
\* endpoint for good, although late copies of old datagrams set it back before.
EntriesSettle == \A h \in Hosts : <>[](peers[h] = addr[h]) \/ <>ctxDone
===============================================================================
