----------------------------- MODULE Lobby_proofs -----------------------------
(***************************************************************************)
(* However many clients create and join rooms at once, the messages of a   *)
(* match reach each of its players in order.                               *)
(***************************************************************************)
EXTENDS Lobby, FiniteSetTheorems, SequenceTheorems, TLAPS

\* c was told that it is in room r, or that r has left the list, or is gone.
Told(c, r) == <<"JoinSuccess", r>> \in heard[c] \/ c \notin online
Knows(c, r) == <<"Disappear", r>> \in heard[c] \/ r \in missed[c] \/ c \notin online

\* A creation under way has its room reserved.
Creating == {c \in Clients : pc[c] \in {"len", "assign"}}
RoomsInv == Len(rooms) + Cardinality(Creating) <= MaxRooms

\* What a handler holds when:
HandlerInv ==
  \A c \in Clients :
    /\ pc[c] \notin {"idle", "dead"} => c \in joined
    /\ c \notin joined => heard[c] = {}
    /\ pc[c] \in {"len", "assign", "lookup"} => name[c] \in Names
    /\ pc[c] \notin {"idle", "len", "assign", "lookup", "fail", "dead"} =>
         room[c] \in 1..Len(rooms)

\* Whoever is, or is about to be, among the players of a room was told so.
PlayersInv ==
  /\ \A c \in Clients : pc[c] \in {"load", "store", "insert"} => Told(c, room[c])
  /\ \A r \in 1..Len(rooms) : \A p \in rooms[r].Players : p \in joined /\ Told(p, r)
  /\ \A k \in 1..Len(launches) :
       /\ launches[k].room \in 1..Len(rooms)
       /\ \A p \in launches[k].left : p \in joined /\ Told(p, launches[k].room)

\* Once a room's Disappear is out, everyone connected knows, or connected later;
\* until then whoever does not know is still to be written to.
ClosedInv ==
  /\ \A r \in RoomIx : Closed(r) => \A c \in joined : Knows(c, r)
  /\ \A d \in Clients : pc[d] = "disappear" =>
       \A c \in joined : Knows(c, room[d]) \/ c \in audience[d]

IInv == TypeOK /\ RoomsInv /\ HandlerInv /\ PlayersInv /\ ClosedInv /\ GotoComesLast

-------------------------------------------------------------------------------
(* Types *)

\* A frame that is sent to a client about a room keeps the histories typed.
LEMMA TellType ==
  ASSUME TypeOK, NEW c \in Clients, NEW msg \in Msgs, NEW r \in RoomIx, Tell(c, msg, r)
  PROVE  heard' \in [Clients -> SUBSET (Msgs \X RoomIx)]
BY DEF TypeOK, Tell

\* Rooms are numbered within the bound.
LEMMA RoomIxType ==
  ASSUME LobbyAssumption, TypeOK
  PROVE  /\ Len(rooms) \in Nat /\ 1..Len(rooms) \subseteq RoomIx
         /\ Len(launches) \in Nat
BY LenProperties DEF LobbyAssumption, TypeOK, RoomIx

\* A function on the indices of a sequence is a sequence.
LEMMA MapType ==
  ASSUME NEW S, NEW s \in Seq(S), NEW t \in [1..Len(s) -> S]
  PROVE  t \in Seq(S) /\ Len(t) = Len(s)
<1>1. Len(s) \in Nat
  BY LenProperties
<1>2. t \in Seq(S)
  BY <1>1, SeqDef
<1>. QED
  BY <1>1, <1>2, LenProperties

\* Whatever one broadcast writes keeps the types.
LEMMA CastType ==
  ASSUME LobbyAssumption, TypeOK, HandlerInv, NEW c \in Clients, NEW from \in PCs, NEW to \in PCs,
         NEW msg \in Msgs, from \in {"appear", "disappear"}, CastTo(c, from, to, msg)
  PROVE  TypeOK'
<1>. USE DEF TypeOK
<1>1. room[c] \in RoomIx
  BY RoomIxType DEF CastTo, HandlerInv
<1>2. heard' \in [Clients -> SUBSET (Msgs \X RoomIx)]
  BY <1>1, TellType DEF CastTo
<1>3. pc' \in [Clients -> PCs]
  BY DEF CastTo
<1>4. audience' \in [Clients -> SUBSET joined]
  <2>1. CASE UNCHANGED audience
    BY <2>1
  <2>2. ASSUME NEW d, audience' = [audience EXCEPT ![c] = @ \ {d}]
        PROVE  audience' \in [Clients -> SUBSET joined]
    BY <2>2
  <2>. QED
    BY <2>1, <2>2 DEF CastTo
<1>. QED
  BY <1>2, <1>3, <1>4 DEF CastTo

\* Every step of a handler keeps the types.
LEMMA HandlerType ==
  ASSUME LobbyAssumption, TypeOK, RoomsInv, HandlerInv, NEW c \in Clients, Handler(c)
  PROVE  TypeOK'
<1>. USE DEF TypeOK, Goto, PCs, Rest
<1>a. /\ Len(rooms) \in Nat /\ 1..Len(rooms) \subseteq RoomIx
      /\ IsFiniteSet(Clients) /\ IsFiniteSet(Names)
  BY RoomIxType DEF LobbyAssumption
<1>1. CASE ReadLen(c)
  <2>1. Cardinality({n \in Names : lobbies[n] # 0}) \in Nat
    BY <1>a, FS_Subset, FS_CardinalityType
  <2>. QED
    BY <1>1, <2>1 DEF ReadLen
<1>2. CASE AssignRoom(c)
  <2>. DEFINE new == [LobbyID |-> local[c], GamerCount |-> 0, Players |-> {}]
  <2>1. new \in Lobby
    BY DEF Lobby
  <2>2. rooms' \in Seq(Lobby) /\ Len(rooms') = Len(rooms) + 1
    BY <1>2, <2>1, AppendProperties DEF AssignRoom
  <2>3. Creating \subseteq Clients /\ c \in Creating
    BY <1>2 DEF Creating, AssignRoom
  <2>4. Cardinality(Creating) \in Nat /\ Cardinality(Creating) # 0
    BY <1>a, <2>3, FS_Subset, FS_CardinalityType, FS_EmptySet
  <2>5. Len(rooms') <= MaxRooms
    BY <1>a, <2>2, <2>4 DEF RoomsInv, LobbyAssumption
  <2>6. ASSUME NEW n \in Names PROVE lobbies'[n] \in 0..Len(rooms')
    BY <1>2, <1>a, <2>2 DEF AssignRoom
  <2>7. ASSUME NEW d \in Clients PROVE room'[d] \in 0..Len(rooms')
    BY <1>2, <1>a, <2>2 DEF AssignRoom
  <2>8. /\ lobbies' \in [Names -> 0..Len(rooms')]
        /\ room' \in [Clients -> 0..Len(rooms')]
    BY <1>2, <2>6, <2>7 DEF AssignRoom
  <2>. QED
    BY <1>2, <2>2, <2>5, <2>8 DEF AssignRoom
<1>3. CASE Appear(c)
  BY <1>3, CastType DEF Appear, Msgs
<1>4. CASE CreateSuccess(c)
  BY <1>4, <1>a, TellType DEF CreateSuccess, HandlerInv, Msgs
<1>5. CASE LookUp(c)
  BY <1>5 DEF LookUp, HandlerInv
<1>6. CASE Check(c)
  BY <1>6 DEF Check
<1>7. CASE JoinFailed(c)
  BY <1>7 DEF JoinFailed
<1>8. CASE JoinSuccess(c)
  <2>1. room[c] \in RoomIx
    BY <1>8, <1>a DEF JoinSuccess, HandlerInv
  <2>2. heard' \in [Clients -> SUBSET (Msgs \X RoomIx)]
    BY <1>8, <2>1, TellType DEF JoinSuccess, Msgs
  <2>3. admitted' \in [RoomIx -> Nat]
    <3>1. admitted[room[c]] + 1 \in Nat
      BY <2>1
    <3>. QED
      BY <1>8, <3>1 DEF JoinSuccess
  <2>. QED
    BY <1>8, <2>2, <2>3 DEF JoinSuccess
<1>9. CASE LoadCount(c)
  <2>1. rooms[room[c]] \in Lobby
    BY <1>9, ElementOfSeq DEF LoadCount, HandlerInv
  <2>. QED
    BY <1>9, <2>1 DEF LoadCount, Lobby
<1>10. CASE StoreCount(c)
  <2>1. room[c] \in 1..Len(rooms)
    BY <1>10 DEF StoreCount, HandlerInv
  <2>2. rooms[room[c]] \in Lobby
    BY <2>1, ElementOfSeq
  <2>3. [rooms[room[c]] EXCEPT !.GamerCount = local[c] + 1] \in Lobby
    <3>1. local[c] + 1 \in Nat
      OBVIOUS
    <3>. QED
      BY <2>2, <3>1 DEF Lobby
  <2>4. rooms' \in Seq(Lobby) /\ Len(rooms') = Len(rooms)
    BY <1>10, <2>1, <2>3, ExceptSeq DEF StoreCount
  <2>. QED
    BY <1>10, <2>4 DEF StoreCount
<1>11. CASE InsertPlayer(c)
  <2>1. room[c] \in 1..Len(rooms)
    BY <1>11 DEF InsertPlayer, HandlerInv
  <2>2. rooms[room[c]] \in Lobby
    BY <2>1, ElementOfSeq
  <2>3. [rooms[room[c]] EXCEPT !.Players = @ \cup {c}] \in Lobby
    BY <2>2 DEF Lobby
  <2>4. rooms' \in Seq(Lobby) /\ Len(rooms') = Len(rooms)
    BY <1>11, <2>1, <2>3, ExceptSeq DEF InsertPlayer
  <2>5. PICK met : launches' = [k \in 1..Len(launches) |->
          IF k \in met THEN [launches[k] EXCEPT !.left = @ \cup {c}] ELSE launches[k]]
    BY <1>11 DEF InsertPlayer
  <2>6. ASSUME NEW k \in 1..Len(launches)
        PROVE  /\ launches[k] \in Launch
               /\ [launches[k] EXCEPT !.left = @ \cup {c}] \in Launch
    <3>1. launches[k] \in Launch
      BY <2>6, ElementOfSeq
    <3>. QED
      BY <3>1 DEF Launch
  <2>7. launches' \in [1..Len(launches) -> Launch]
    BY <2>5, <2>6
  <2>8. launches' \in Seq(Launch)
    BY <2>7, MapType
  <2>. QED
    BY <1>11, <2>4, <2>8 DEF InsertPlayer
<1>12. CASE TestCount(c)
  <2>1. pc' \in [Clients -> PCs]
    BY <1>12, ZenonT(60) DEF TestCount
  <2>2. audience' = [audience EXCEPT ![c] = online] \/ audience' = audience
    BY <1>12 DEF TestCount
  <2>3. audience' \in [Clients -> SUBSET joined]
    BY <2>2
  <2>. QED
    BY <1>12, <2>1, <2>3 DEF TestCount
<1>13. CASE Disappear(c)
  BY <1>13, CastType DEF Disappear, Msgs
<1>14. CASE StartGame(c)
  <2>1. [room |-> room[c], begun |-> FALSE, left |-> {}] \in Launch
    BY <1>14, <1>a DEF StartGame, HandlerInv, Launch
  <2>2. launches' \in Seq(Launch)
    BY <1>14, <2>1, AppendProperties DEF StartGame
  <2>. QED
    BY <1>14, <2>2 DEF StartGame
<1>. QED
  BY <1>1, <1>2, <1>3, <1>4, <1>5, <1>6, <1>7, <1>8, <1>9, <1>10, <1>11, <1>12, <1>13, <1>14
  DEF Handler

\* What clients do, what the handleStartGame goroutines do and what the runtime
\* does keep the types.
LEMMA OtherType ==
  ASSUME LobbyAssumption, TypeOK, HandlerInv, PlayersInv
  PROVE  /\ \A c \in Clients : Connect(c) \/ Disconnect(c) => TypeOK'
         /\ \A c \in Clients, n \in Names : RequestCreate(c, n) \/ RequestJoin(c, n) => TypeOK'
         /\ StartGameLoop \/ Crash => TypeOK'
<1>. USE DEF TypeOK, srvVars, Rest
<1>1. ASSUME NEW c \in Clients, Connect(c) PROVE TypeOK'
  BY <1>1 DEF Connect
<1>2. ASSUME NEW c \in Clients, Disconnect(c) PROVE TypeOK'
  BY <1>2 DEF Disconnect
<1>3. ASSUME NEW c \in Clients, NEW n \in Names, NEW to \in PCs, Request(c, n, to)
      PROVE  TypeOK'
  BY <1>3 DEF Request, Goto, LobbyAssumption
<1>4. ASSUME NEW k \in 1..Len(launches), BeginLaunch(k) PROVE TypeOK'
  <2>1. launches[k] \in Launch /\ rooms[launches[k].room] \in Lobby
    BY ElementOfSeq DEF PlayersInv
  <2>2. [launches[k] EXCEPT !.begun = TRUE, !.left = rooms[launches[k].room].Players] \in Launch
    BY <2>1 DEF Launch, Lobby
  <2>. DEFINE new == [launches[k] EXCEPT !.begun = TRUE, !.left = rooms[launches[k].room].Players]
  <2>3. launches' = [launches EXCEPT ![k] = new]
    <3>1. launches \in [1..Len(launches) -> Launch]
      BY LenProperties
    <3>. QED
      BY <1>4, <2>1, <3>1 DEF BeginLaunch, Launch
  <2>4. launches' \in Seq(Launch)
    BY <2>2, <2>3, ExceptSeq
  <2>. QED
    BY <1>4, <2>4 DEF BeginLaunch
<1>5. ASSUME NEW k \in 1..Len(launches), GotoGameRoom(k) PROVE TypeOK'
  <2>1. PICK p \in launches[k].left :
          /\ Tell(p, "Goto", launches[k].room)
          /\ launches' = [launches EXCEPT ![k].left = @ \ {p}]
          /\ UNCHANGED <<Rest, lobbies, rooms, pc, room, local, audience, admitted>>
    BY <1>5 DEF GotoGameRoom
  <2>2. launches[k] \in Launch
    BY ElementOfSeq
  <2>3. [launches[k] EXCEPT !.left = @ \ {p}] \in Launch
    BY <2>2 DEF Launch
  <2>4. launches' \in Seq(Launch)
    BY <2>1, <2>3, ExceptSeq
  <2>5. p \in Clients /\ launches[k].room \in RoomIx
    BY <2>2 DEF Launch
  <2>6. heard' \in [Clients -> SUBSET (Msgs \X RoomIx)]
    BY <2>1, <2>5, TellType DEF Msgs
  <2>. QED
    BY <2>1, <2>4, <2>6
<1>6. ASSUME Crash PROVE TypeOK'
  <2>1. ASSUME NEW k \in 1..Len(launches)
        PROVE  [launches[k] EXCEPT !.begun = TRUE, !.left = {}] \in Launch
    <3>1. launches[k] \in Launch
      BY <2>1, ElementOfSeq
    <3>. QED
      BY <3>1 DEF Launch
  <2>2. launches' \in [1..Len(launches) -> Launch]
    BY <1>6, <2>1 DEF Crash
  <2>3. launches' \in Seq(Launch)
    BY <2>2, MapType
  <2>. QED
    BY <1>6, <2>3 DEF Crash, PCs
<1>. QED
  BY <1>1, <1>2, <1>3, <1>4, <1>5, <1>6 DEF RequestCreate, RequestJoin, StartGameLoop, PCs

-------------------------------------------------------------------------------
(* Rooms under way *)

\* Every step keeps the rooms made and under way within the bound.
LEMMA RoomsStep ==
  ASSUME LobbyAssumption, TypeOK, RoomsInv, Next
  PROVE  RoomsInv'
<1>. USE DEF TypeOK, Rest, srvVars, Goto
<1>a. /\ IsFiniteSet(Creating) /\ Cardinality(Creating) \in Nat
      /\ Creating \subseteq Clients /\ Len(rooms) \in Nat /\ MaxRooms \in Nat
  BY FS_Subset, FS_CardinalityType, RoomIxType DEF Creating, LobbyAssumption
<1>b. ASSUME Creating' \subseteq Creating, Len(rooms') = Len(rooms) PROVE RoomsInv'
  <2>1. Cardinality(Creating') <= Cardinality(Creating) /\ Cardinality(Creating') \in Nat
    BY <1>a, <1>b, FS_Subset, FS_CardinalityType
  <2>. QED
    BY <1>a, <1>b, <2>1 DEF RoomsInv
<1>1. ASSUME NEW c \in Clients, Connect(c) \/ Disconnect(c) PROVE RoomsInv'
  BY <1>b, <1>1 DEF Connect, Disconnect, Creating
<1>2. ASSUME NEW c \in Clients, NEW n \in Names, RequestCreate(c, n) PROVE RoomsInv'
  <2>1. Creating' = Creating \cup {c}
    BY <1>2 DEF RequestCreate, Request, Creating
  <2>2. Cardinality(Creating') <= Cardinality(Creating) + 1 /\ Cardinality(Creating') \in Nat
    <3>1. Cardinality(Creating') =
            IF c \in Creating THEN Cardinality(Creating) ELSE Cardinality(Creating) + 1
      BY <1>a, <2>1, FS_AddElement
    <3>. QED
      BY <1>a, <3>1
  <2>3. Len(rooms') = Len(rooms) /\ Len(rooms) + Cardinality(Creating) < MaxRooms
    BY <1>2 DEF RequestCreate, Request, Creating
  <2>. QED
    BY <1>a, <2>2, <2>3 DEF RoomsInv
<1>3. ASSUME NEW c \in Clients, NEW n \in Names, RequestJoin(c, n) PROVE RoomsInv'
  BY <1>b, <1>3 DEF RequestJoin, Request, Creating
<1>4. ASSUME NEW c \in Clients, AssignRoom(c) PROVE RoomsInv'
  <2>1. Creating' = Creating \ {c} /\ c \in Creating
    BY <1>4 DEF AssignRoom, Creating
  <2>2. Cardinality(Creating') = Cardinality(Creating) - 1
    BY <1>a, <2>1, FS_RemoveElement
  <2>3. [LobbyID |-> local[c], GamerCount |-> 0, Players |-> {}] \in Lobby
    BY DEF Lobby
  <2>4. Len(rooms') = Len(rooms) + 1
    BY <1>4, <2>3, AppendProperties DEF AssignRoom
  <2>. QED
    BY <1>a, <2>2, <2>4 DEF RoomsInv
<1>5. ASSUME NEW c \in Clients, Handler(c), ~AssignRoom(c) PROVE RoomsInv'
  <2>1. Creating' \subseteq Creating
    BY <1>5 DEF Handler, ReadLen, Appear, CreateSuccess, LookUp, Check, JoinFailed, JoinSuccess,
      LoadCount, StoreCount, InsertPlayer, TestCount, Disappear, StartGame, CastTo, Creating
  <2>2. Len(rooms') = Len(rooms)
    <3>1. CASE StoreCount(c)
      BY <3>1 DEF StoreCount
    <3>2. CASE InsertPlayer(c)
      BY <3>2 DEF InsertPlayer
    <3>3. CASE UNCHANGED rooms
      BY <3>3
    <3>. QED
      BY <1>5, <3>1, <3>2, <3>3 DEF Handler, ReadLen, Appear, CreateSuccess, LookUp, Check,
        JoinFailed, JoinSuccess, LoadCount, TestCount, Disappear, StartGame, CastTo
  <2>. QED
    BY <1>b, <2>1, <2>2
<1>6. ASSUME StartGameLoop PROVE RoomsInv'
  BY <1>b, <1>6 DEF StartGameLoop, BeginLaunch, GotoGameRoom, Creating
<1>7. ASSUME Crash PROVE RoomsInv'
  BY <1>b, <1>7 DEF Crash, Creating
<1>. QED
  BY <1>1, <1>2, <1>3, <1>4, <1>5, <1>6, <1>7 DEF Next

-------------------------------------------------------------------------------
(* What every step keeps *)

\* A frame is added to what its addressee heard, if it is connected.
LEMMA TellGrows ==
  ASSUME TypeOK, NEW d \in Clients, NEW msg, NEW r, Tell(d, msg, r)
  PROVE  \A c \in Clients :
           heard[c] \subseteq heard'[c] /\ (c \notin online => heard'[c] = heard[c])
BY DEF Tell, TypeOK

\* What was heard stays heard, only connected clients hear, nobody connects
\* twice or forgets what it missed, and rooms are never removed.
LEMMA Growth ==
  ASSUME LobbyAssumption, TypeOK, PlayersInv, Next
  PROVE  /\ \A c \in Clients :
              heard[c] \subseteq heard'[c] /\ (c \notin online => heard'[c] = heard[c])
         /\ joined \subseteq joined' /\ online' \cap joined \subseteq online
         /\ \A c \in joined : missed'[c] = missed[c]
         /\ Len(rooms) <= Len(rooms')
<1>. USE DEF Rest, srvVars
<1>a. Len(rooms) \in Nat
  BY RoomIxType
<1>1. ASSUME NEW c \in Clients, Connect(c) \/ Disconnect(c)
      PROVE  /\ UNCHANGED <<heard, rooms>>
             /\ joined \subseteq joined' /\ online' \cap joined \subseteq online
             /\ \A d \in joined : missed'[d] = missed[d]
  BY <1>1 DEF Connect, Disconnect, TypeOK
<1>2. ASSUME NEW c \in Clients, NEW n \in Names, RequestCreate(c, n) \/ RequestJoin(c, n)
      PROVE  UNCHANGED <<heard, rooms, joined, online, missed>>
  BY <1>2 DEF RequestCreate, RequestJoin, Request
<1>3. ASSUME NEW c \in Clients, Handler(c)
      PROVE  /\ UNCHANGED <<joined, online, missed>>
             /\ heard' = heard \/ \E d \in Clients, msg \in Msgs, r \in Nat : Tell(d, msg, r)
             /\ Len(rooms') >= Len(rooms)
  <2>1. UNCHANGED <<joined, online, missed>>
    BY <1>3 DEF Handler, ReadLen, AssignRoom, Appear, CreateSuccess, LookUp, Check, JoinFailed,
      JoinSuccess, LoadCount, StoreCount, InsertPlayer, TestCount, Disappear, StartGame, CastTo
  <2>2. room[c] \in Nat /\ audience[c] \subseteq Clients
    BY <1>a DEF TypeOK
  <2>3. ASSUME NEW from, NEW to, NEW msg \in Msgs, CastTo(c, from, to, msg)
        PROVE  heard' = heard \/ \E d \in Clients, m \in Msgs, r \in Nat : Tell(d, m, r)
    BY <2>2, <2>3 DEF CastTo
  <2>4. heard' = heard \/ \E d \in Clients, msg \in Msgs, r \in Nat : Tell(d, msg, r)
    <3>1. CASE Appear(c) \/ Disappear(c)
      BY <2>3, <3>1 DEF Appear, Disappear, Msgs
    <3>2. CASE CreateSuccess(c)
      BY <2>2, <3>2 DEF CreateSuccess, Msgs
    <3>3. CASE JoinSuccess(c)
      BY <2>2, <3>3 DEF JoinSuccess, Msgs
    <3>. QED
      BY <1>3, <3>1, <3>2, <3>3 DEF Handler, ReadLen, AssignRoom, LookUp, Check, JoinFailed,
        LoadCount, StoreCount, InsertPlayer, TestCount, StartGame
  <2>5. Len(rooms') >= Len(rooms)
    <3>1. CASE AssignRoom(c)
      <4>1. [LobbyID |-> local[c], GamerCount |-> 0, Players |-> {}] \in Lobby
        BY DEF Lobby, TypeOK
      <4>. QED
        BY <1>a, <3>1, <4>1, AppendProperties DEF AssignRoom, TypeOK
    <3>2. CASE StoreCount(c)
      BY <1>a, <3>2 DEF StoreCount, TypeOK
    <3>3. CASE InsertPlayer(c)
      BY <1>a, <3>3 DEF InsertPlayer, TypeOK
    <3>4. CASE UNCHANGED rooms
      BY <1>a, <3>4
    <3>. QED
      BY <1>3, <3>1, <3>2, <3>3, <3>4 DEF Handler, ReadLen, Appear, CreateSuccess, LookUp, Check,
        JoinFailed, JoinSuccess, LoadCount, TestCount, Disappear, StartGame, CastTo
  <2>. QED
    BY <2>1, <2>4, <2>5
<1>4. ASSUME NEW k \in 1..Len(launches), BeginLaunch(k)
      PROVE  UNCHANGED <<heard, rooms, joined, online, missed>>
  BY <1>4 DEF BeginLaunch
<1>5. ASSUME NEW k \in 1..Len(launches), GotoGameRoom(k)
      PROVE  /\ UNCHANGED <<rooms, joined, online, missed>>
             /\ \E d \in Clients, msg \in Msgs, r \in Nat : Tell(d, msg, r)
  <2>1. launches[k] \in Launch
    BY ElementOfSeq DEF TypeOK
  <2>. QED
    BY <1>5, <2>1 DEF GotoGameRoom, Launch, Msgs, RoomIx
<1>6. ASSUME Crash
      PROVE  UNCHANGED <<heard, rooms, joined, missed>> /\ online' = {}
  BY <1>6 DEF Crash
<1>7. joined \subseteq joined' /\ online' \cap joined \subseteq online
  BY <1>1, <1>2, <1>3, <1>4, <1>5, <1>6 DEF Next, StartGameLoop, TypeOK
<1>8. \A c \in joined : missed'[c] = missed[c]
  BY <1>1, <1>2, <1>3, <1>4, <1>5, <1>6 DEF Next, StartGameLoop, TypeOK
<1>9. Len(rooms) <= Len(rooms')
  BY <1>a, <1>1, <1>2, <1>3, <1>4, <1>5, <1>6 DEF Next, StartGameLoop
<1>10. heard' = heard \/ \E d \in Clients, msg \in Msgs, r \in Nat : Tell(d, msg, r)
  BY <1>1, <1>2, <1>3, <1>4, <1>5, <1>6 DEF Next, StartGameLoop
<1>. QED
  BY <1>7, <1>8, <1>9, <1>10, TellGrows

\* So whoever was told, or knows, still is.
LEMMA Stable ==
  ASSUME LobbyAssumption, TypeOK, PlayersInv, Next, NEW c \in joined, NEW r
  PROVE  /\ c \in joined'
         /\ Told(c, r) => Told(c, r)'
         /\ Knows(c, r) => Knows(c, r)'
BY Growth DEF Told, Knows, TypeOK

\* What a handler holds: every step of it or of anybody else.
LEMMA HandlerStep ==
  ASSUME LobbyAssumption, TypeOK, RoomsInv, HandlerInv, PlayersInv, Next, NEW d \in Clients
  PROVE  /\ pc'[d] \notin {"idle", "dead"} => d \in joined'
         /\ d \notin joined' => heard'[d] = {}
         /\ pc'[d] \in {"len", "assign", "lookup"} => name'[d] \in Names
         /\ pc'[d] \notin {"idle", "len", "assign", "lookup", "fail", "dead"} =>
              room'[d] \in 1..Len(rooms')
<1>. USE DEF TypeOK, HandlerInv, Rest, srvVars, Goto
<1>a. /\ Len(rooms) \in Nat /\ Len(rooms') \in Nat /\ Len(rooms) <= Len(rooms')
      /\ joined \subseteq joined'
      /\ d \notin joined' => heard'[d] = {}
  <2>1. Len(rooms') \in Nat
    BY HandlerType, OtherType, LenProperties DEF Next
  <2>. QED
    BY <2>1, Growth, RoomIxType
<1>1. ASSUME NEW c \in Clients, Connect(c) \/ Disconnect(c)
      PROVE  /\ pc'[d] = pc[d] /\ name'[d] = name[d] /\ room'[d] = room[d]
  BY <1>1 DEF Connect, Disconnect
<1>2. ASSUME NEW c \in Clients, NEW n \in Names, RequestCreate(c, n) \/ RequestJoin(c, n)
      PROVE  /\ room'[d] = room[d]
             /\ \/ d = c /\ c \in joined /\ name'[c] \in Names /\ pc'[c] \in {"len", "lookup"}
                \/ name'[d] = name[d] /\ pc'[d] = pc[d]
  BY <1>2 DEF RequestCreate, RequestJoin, Request
<1>3. ASSUME NEW c \in Clients, Handler(c)
      PROVE  /\ name'[d] = name[d]
             /\ d # c => pc'[d] = pc[d] /\ room'[d] = room[d]
             /\ pc[c] \notin {"idle", "dead"}
             /\ pc'[c] \in {"len", "assign", "lookup"} => pc[c] \in {"len", "assign", "lookup"}
  BY <1>3 DEF Handler, ReadLen, AssignRoom, Appear, CreateSuccess, LookUp, Check, JoinFailed,
    JoinSuccess, LoadCount, StoreCount, InsertPlayer, TestCount, Disappear, StartGame, CastTo
<1>4. ASSUME NEW c \in Clients, Handler(c),
             pc'[c] \notin {"idle", "len", "assign", "lookup", "fail", "dead"}
      PROVE  room'[c] \in 1..Len(rooms')
  <2>1. CASE AssignRoom(c)
    <3>1. [LobbyID |-> local[c], GamerCount |-> 0, Players |-> {}] \in Lobby
      BY DEF Lobby
    <3>2. Len(rooms') = Len(rooms) + 1
      BY <2>1, <3>1, AppendProperties DEF AssignRoom
    <3>. QED
      BY <1>a, <2>1, <3>2 DEF AssignRoom
  <2>2. CASE LookUp(c)
    BY <1>4, <1>a, <2>2 DEF LookUp
  <2>3. CASE /\ room'[c] = room[c]
             /\ pc[c] \notin {"idle", "len", "assign", "lookup", "fail", "dead"}
    BY <1>a, <2>3
  <2>. QED
    BY <1>4, <2>1, <2>2, <2>3 DEF Handler, ReadLen, Appear, CreateSuccess, Check, JoinFailed,
      JoinSuccess, LoadCount, StoreCount, InsertPlayer, TestCount, Disappear, StartGame, CastTo
<1>5. ASSUME StartGameLoop
      PROVE  pc'[d] = pc[d] /\ name'[d] = name[d] /\ room'[d] = room[d]
  BY <1>5 DEF StartGameLoop, BeginLaunch, GotoGameRoom
<1>6. ASSUME Crash PROVE pc'[d] = "dead"
  BY <1>6 DEF Crash
<1>. QED
  BY <1>a, <1>1, <1>2, <1>3, <1>4, <1>5, <1>6 DEF Next

-------------------------------------------------------------------------------
(* The players of a room *)

\* A handler that is adding its client told it so; every step keeps that.
LEMMA AddingStep ==
  ASSUME LobbyAssumption, TypeOK, HandlerInv, PlayersInv, Next, NEW d \in Clients,
         pc'[d] \in {"load", "store", "insert"}
  PROVE  Told(d, room[d])'
<1>. USE DEF TypeOK, Rest, srvVars, Goto
<1>1. CASE JoinSuccess(d)
  <2>1. room[d] \in RoomIx /\ room' = room /\ online' = online
    BY <1>1, RoomIxType DEF JoinSuccess, HandlerInv
  <2>. QED
    BY <1>1, <2>1 DEF JoinSuccess, Tell, Told
<1>2. CASE pc[d] \in {"load", "store", "insert"} /\ room'[d] = room[d]
  <2>1. d \in joined /\ Told(d, room[d])
    BY <1>2 DEF HandlerInv, PlayersInv
  <2>. QED
    BY <1>2, <2>1, Stable DEF Told
<1>3. JoinSuccess(d) \/ (pc[d] \in {"load", "store", "insert"} /\ room'[d] = room[d])
  <2>1. ASSUME NEW c \in Clients, Connect(c) \/ Disconnect(c)
        PROVE  pc'[d] = pc[d] /\ room'[d] = room[d]
    BY <2>1 DEF Connect, Disconnect
  <2>2. ASSUME NEW c \in Clients, NEW n \in Names, RequestCreate(c, n) \/ RequestJoin(c, n)
        PROVE  pc'[d] = pc[d] /\ room'[d] = room[d]
    BY <2>2 DEF RequestCreate, RequestJoin, Request
  <2>3. ASSUME NEW c \in Clients, Handler(c), c # d
        PROVE  pc'[d] = pc[d] /\ room'[d] = room[d]
    BY <2>3 DEF Handler, ReadLen, AssignRoom, Appear, CreateSuccess, LookUp, Check, JoinFailed,
      JoinSuccess, LoadCount, StoreCount, InsertPlayer, TestCount, Disappear, StartGame, CastTo
  <2>4. ASSUME Handler(d)
        PROVE  JoinSuccess(d) \/ (pc[d] \in {"load", "store", "insert"} /\ room'[d] = room[d])
    BY <2>4 DEF Handler, ReadLen, AssignRoom, Appear, CreateSuccess, LookUp, Check, JoinFailed,
      LoadCount, StoreCount, InsertPlayer, TestCount, Disappear, StartGame, CastTo
  <2>5. ASSUME StartGameLoop PROVE pc'[d] = pc[d] /\ room'[d] = room[d]
    BY <2>5 DEF StartGameLoop, BeginLaunch, GotoGameRoom
  <2>6. ASSUME Crash PROVE FALSE
    BY <2>6 DEF Crash
  <2>. QED
    BY <2>1, <2>2, <2>3, <2>4, <2>5, <2>6 DEF Next
<1>. QED
  BY <1>1, <1>2, <1>3

\* Only InsertPlayer adds a player to a room.
LEMMA PlayersGrow ==
  ASSUME LobbyAssumption, TypeOK, HandlerInv, Next, NEW r \in 1..Len(rooms'),
         NEW p \in rooms'[r].Players
  PROVE  \/ r \in 1..Len(rooms) /\ p \in rooms[r].Players
         \/ p \in Clients /\ InsertPlayer(p) /\ r = room[p]
<1>. USE DEF TypeOK, Rest, srvVars, Goto
<1>a. Len(rooms) \in Nat
  BY RoomIxType
<1>1. CASE UNCHANGED rooms
  BY <1>1
<1>2. ASSUME NEW c \in Clients, AssignRoom(c)
      PROVE  r \in 1..Len(rooms) /\ p \in rooms[r].Players
  <2>. DEFINE new == [LobbyID |-> local[c], GamerCount |-> 0, Players |-> {}]
  <2>1. new \in Lobby /\ new.Players = {}
    BY DEF Lobby
  <2>2. rooms' = Append(rooms, new)
    BY <1>2 DEF AssignRoom
  <2>. HIDE DEF new
  <2>3. /\ Len(rooms') = Len(rooms) + 1 /\ rooms'[Len(rooms) + 1] = new
        /\ \A i \in 1..Len(rooms) : rooms'[i] = rooms[i]
    BY <2>1, <2>2, AppendProperties
  <2>. QED
    BY <1>a, <2>1, <2>3
<1>3. ASSUME NEW c \in Clients, StoreCount(c)
      PROVE  r \in 1..Len(rooms) /\ p \in rooms[r].Players
  <2>1. room[c] \in 1..Len(rooms) /\ rooms \in [1..Len(rooms) -> Lobby]
    BY <1>3, LenProperties DEF StoreCount, HandlerInv
  <2>2. Len(rooms') = Len(rooms)
    BY <1>3 DEF StoreCount
  <2>3. rooms'[r].Players = rooms[r].Players
    BY <1>3, <2>1, <2>2 DEF StoreCount, Lobby
  <2>. QED
    BY <2>2, <2>3
<1>4. ASSUME NEW c \in Clients, InsertPlayer(c)
      PROVE  \/ r \in 1..Len(rooms) /\ p \in rooms[r].Players
             \/ p = c /\ r = room[c]
  <2>1. room[c] \in 1..Len(rooms) /\ rooms \in [1..Len(rooms) -> Lobby]
    BY <1>4, LenProperties DEF InsertPlayer, HandlerInv
  <2>2. Len(rooms') = Len(rooms)
    BY <1>4 DEF InsertPlayer
  <2>3. rooms'[r] = IF r = room[c] THEN [rooms[r] EXCEPT !.Players = @ \cup {c}] ELSE rooms[r]
    BY <1>4, <2>1, <2>2 DEF InsertPlayer
  <2>4. rooms[r] \in Lobby
    BY <2>1, <2>2
  <2>5. rooms'[r].Players \subseteq
          IF r = room[c] THEN rooms[r].Players \cup {c} ELSE rooms[r].Players
    BY <2>3, <2>4 DEF Lobby
  <2>. QED
    BY <2>2, <2>5
<1>5. \/ UNCHANGED rooms
      \/ \E c \in Clients : AssignRoom(c) \/ StoreCount(c) \/ InsertPlayer(c)
  <2>1. ASSUME NEW c \in Clients, Connect(c) \/ Disconnect(c) PROVE UNCHANGED rooms
    BY <2>1 DEF Connect, Disconnect
  <2>2. ASSUME NEW c \in Clients, NEW n \in Names, RequestCreate(c, n) \/ RequestJoin(c, n)
        PROVE  UNCHANGED rooms
    BY <2>2 DEF RequestCreate, RequestJoin, Request
  <2>3. ASSUME NEW c \in Clients, Handler(c)
        PROVE  UNCHANGED rooms \/ AssignRoom(c) \/ StoreCount(c) \/ InsertPlayer(c)
    BY <2>3 DEF Handler, ReadLen, Appear, CreateSuccess, LookUp, Check, JoinFailed, JoinSuccess,
      LoadCount, TestCount, Disappear, StartGame, CastTo
  <2>4. ASSUME StartGameLoop \/ Crash PROVE UNCHANGED rooms
    BY <2>4 DEF StartGameLoop, BeginLaunch, GotoGameRoom, Crash
  <2>. QED
    BY <2>1, <2>2, <2>3, <2>4 DEF Next
<1>. QED
  BY <1>1, <1>2, <1>3, <1>4, <1>5

\* A launch is that of a room with a full count, and whom it still has to send
\* off was in the room, or is just being added.
LEMMA LaunchesGrow ==
  ASSUME LobbyAssumption, TypeOK, HandlerInv, PlayersInv, Next, NEW k \in 1..Len(launches')
  PROVE  \/ /\ k \in 1..Len(launches) /\ launches'[k].room = launches[k].room
            /\ \A p \in launches'[k].left :
                 \/ p \in launches[k].left
                 \/ p \in rooms[launches[k].room].Players
                 \/ p \in Clients /\ InsertPlayer(p) /\ launches[k].room = room[p]
         \/ \E c \in Clients :
              StartGame(c) /\ launches'[k].room = room[c] /\ launches'[k].left = {}
<1>. USE DEF TypeOK, Rest, srvVars, Goto
<1>a. Len(launches) \in Nat /\ launches \in [1..Len(launches) -> Launch]
  BY LenProperties
<1>1. CASE UNCHANGED launches
  BY <1>1
<1>2. ASSUME NEW c \in Clients, StartGame(c)
      PROVE  \/ k \in 1..Len(launches) /\ launches'[k] = launches[k]
             \/ launches'[k].room = room[c] /\ launches'[k].left = {}
  <2>. DEFINE new == [room |-> room[c], begun |-> FALSE, left |-> {}]
  <2>1. new \in Launch
    BY <1>2, RoomIxType DEF StartGame, HandlerInv, Launch
  <2>2. launches' = Append(launches, new) /\ new.room = room[c] /\ new.left = {}
    BY <1>2 DEF StartGame
  <2>. HIDE DEF new
  <2>3. /\ Len(launches') = Len(launches) + 1 /\ launches'[Len(launches) + 1] = new
        /\ \A i \in 1..Len(launches) : launches'[i] = launches[i]
    BY <2>1, <2>2, AppendProperties
  <2>4. CASE k = Len(launches) + 1
    BY <2>2, <2>3, <2>4
  <2>5. CASE k \in 1..Len(launches)
    BY <2>3, <2>5
  <2>6. k = Len(launches) + 1 \/ k \in 1..Len(launches)
    BY <1>a, <2>3
  <2>. QED
    BY <2>4, <2>5, <2>6
<1>3. ASSUME NEW c \in Clients, InsertPlayer(c)
      PROVE  /\ k \in 1..Len(launches) /\ launches'[k].room = launches[k].room
             /\ \A p \in launches'[k].left :
                  p \in launches[k].left \/ (p = c /\ launches[k].room = room[c])
  <2>1. PICK met \in SUBSET {i \in Running : launches[i].begun /\ launches[i].room = room[c]} :
          launches' = [i \in 1..Len(launches) |->
            IF i \in met THEN [launches[i] EXCEPT !.left = @ \cup {c}] ELSE launches[i]]
    BY <1>3 DEF InsertPlayer
  <2>2. ASSUME NEW i \in 1..Len(launches)
        PROVE  [launches[i] EXCEPT !.left = @ \cup {c}] \in Launch
    <3>1. launches[i] \in Launch
      BY <1>a, <2>2
    <3>. QED
      BY <3>1 DEF Launch
  <2>3. launches' \in [1..Len(launches) -> Launch]
    BY <1>a, <2>1, <2>2
  <2>4. Len(launches') = Len(launches)
    BY <2>3, MapType
  <2>5. launches'[k] = IF k \in met THEN [launches[k] EXCEPT !.left = @ \cup {c}] ELSE launches[k]
    BY <2>1, <2>4
  <2>. QED
    BY <1>a, <2>1, <2>4, <2>5 DEF Launch
<1>4. ASSUME NEW i \in 1..Len(launches), BeginLaunch(i)
      PROVE  /\ k \in 1..Len(launches) /\ launches'[k].room = launches[k].room
             /\ \/ launches'[k].left = launches[k].left
                \/ launches'[k].left = rooms[launches[k].room].Players
  <2>1. Len(launches') = Len(launches)
    BY <1>4 DEF BeginLaunch
  <2>. QED
    BY <1>4, <1>a, <2>1 DEF BeginLaunch, Launch
<1>5. ASSUME NEW i \in 1..Len(launches), GotoGameRoom(i)
      PROVE  /\ k \in 1..Len(launches) /\ launches'[k].room = launches[k].room
             /\ launches'[k].left \subseteq launches[k].left
  <2>1. PICK p : launches' = [launches EXCEPT ![i].left = @ \ {p}]
    BY <1>5 DEF GotoGameRoom
  <2>2. Len(launches') = Len(launches)
    BY <2>1
  <2>. QED
    BY <1>a, <2>1, <2>2 DEF Launch
<1>6. ASSUME Crash
      PROVE  /\ k \in 1..Len(launches) /\ launches'[k].room = launches[k].room
             /\ launches'[k].left = {}
  <2>1. launches' = [i \in 1..Len(launches) |-> [launches[i] EXCEPT !.begun = TRUE, !.left = {}]]
    BY <1>6 DEF Crash
  <2>2. ASSUME NEW i \in 1..Len(launches)
        PROVE  [launches[i] EXCEPT !.begun = TRUE, !.left = {}] \in Launch
    <3>1. launches[i] \in Launch
      BY <1>a, <2>2
    <3>. QED
      BY <3>1 DEF Launch
  <2>3. Len(launches') = Len(launches)
    <3>1. launches' \in [1..Len(launches) -> Launch]
      BY <2>1, <2>2
    <3>. QED
      BY <3>1, MapType
  <2>4. launches'[k] = [launches[k] EXCEPT !.begun = TRUE, !.left = {}] /\ launches[k] \in Launch
    BY <1>a, <2>1, <2>3
  <2>. QED
    BY <2>3, <2>4 DEF Launch
<1>7. \/ UNCHANGED launches
      \/ \E c \in Clients : StartGame(c) \/ InsertPlayer(c)
      \/ \E i \in 1..Len(launches) : BeginLaunch(i) \/ GotoGameRoom(i)
      \/ Crash
  <2>1. ASSUME NEW c \in Clients, Connect(c) \/ Disconnect(c) PROVE UNCHANGED launches
    BY <2>1 DEF Connect, Disconnect
  <2>2. ASSUME NEW c \in Clients, NEW n \in Names, RequestCreate(c, n) \/ RequestJoin(c, n)
        PROVE  UNCHANGED launches
    BY <2>2 DEF RequestCreate, RequestJoin, Request
  <2>3. ASSUME NEW c \in Clients, Handler(c)
        PROVE  UNCHANGED launches \/ StartGame(c) \/ InsertPlayer(c)
    BY <2>3 DEF Handler, ReadLen, AssignRoom, Appear, CreateSuccess, LookUp, Check, JoinFailed,
      JoinSuccess, LoadCount, StoreCount, TestCount, Disappear, CastTo
  <2>. QED
    BY <2>1, <2>2, <2>3 DEF Next, StartGameLoop
<1>8. CASE \E c \in Clients : StartGame(c)
  BY <1>2, <1>8
<1>9. CASE \E c \in Clients : InsertPlayer(c)
  BY <1>3, <1>9
<1>10. CASE \E i \in 1..Len(launches) : BeginLaunch(i) \/ GotoGameRoom(i)
  BY <1>4, <1>5, <1>10
<1>11. CASE Crash
  BY <1>6, <1>11
<1>. QED
  BY <1>1, <1>7, <1>8, <1>9, <1>10, <1>11

\* Every step keeps what is known of players.
LEMMA PlayersStep ==
  ASSUME LobbyAssumption, TypeOK, RoomsInv, HandlerInv, PlayersInv, Next
  PROVE  PlayersInv'
<1>. USE DEF TypeOK
<1>a. Len(rooms) \in Nat /\ Len(rooms') \in Nat /\ Len(rooms) <= Len(rooms')
  <2>1. Len(rooms') \in Nat
    BY HandlerType, OtherType, LenProperties DEF Next
  <2>. QED
    BY <2>1, Growth, RoomIxType
<1>1. ASSUME NEW p \in Clients, InsertPlayer(p)
      PROVE  p \in joined' /\ Told(p, room[p])'
  <2>1. p \in joined /\ Told(p, room[p]) /\ room' = room
    BY <1>1 DEF InsertPlayer, Goto, HandlerInv, PlayersInv
  <2>. QED
    BY <2>1, Stable DEF Told
<1>2. ASSUME NEW r \in 1..Len(rooms'), NEW p \in rooms'[r].Players
      PROVE  p \in joined' /\ Told(p, r)'
  <2>1. CASE r \in 1..Len(rooms) /\ p \in rooms[r].Players
    BY <2>1, Stable DEF PlayersInv
  <2>2. CASE p \in Clients /\ InsertPlayer(p) /\ r = room[p]
    BY <1>1, <2>2 DEF Told, InsertPlayer
  <2>. QED
    BY <2>1, <2>2, PlayersGrow
<1>3. ASSUME NEW k \in 1..Len(launches')
      PROVE  launches'[k].room \in 1..Len(rooms')
  <2>1. CASE k \in 1..Len(launches) /\ launches'[k].room = launches[k].room
    BY <1>a, <2>1 DEF PlayersInv
  <2>2. ASSUME NEW c \in Clients, StartGame(c), launches'[k].room = room[c]
        PROVE  launches'[k].room \in 1..Len(rooms')
    BY <1>a, <2>2 DEF HandlerInv, StartGame, Goto
  <2>. QED
    BY <2>1, <2>2, LaunchesGrow
<1>4. ASSUME NEW k \in 1..Len(launches'), NEW p \in launches'[k].left
      PROVE  p \in joined' /\ Told(p, launches[k].room)'
  <2>1. CASE /\ k \in 1..Len(launches) /\ launches'[k].room = launches[k].room
             /\ p \in launches[k].left \/ p \in rooms[launches[k].room].Players
    BY <2>1, Stable DEF PlayersInv, Told
  <2>2. CASE p \in Clients /\ InsertPlayer(p) /\ launches'[k].room = room[p]
    BY <1>1, <2>2 DEF Told, InsertPlayer
  <2>. QED
    BY <2>1, <2>2, LaunchesGrow
<1>5. ASSUME NEW d \in Clients, pc'[d] \in {"load", "store", "insert"} PROVE Told(d, room[d])'
  BY <1>5, AddingStep
<1>. QED
  BY <1>2, <1>3, <1>4, <1>5 DEF PlayersInv

-------------------------------------------------------------------------------
(* Rooms that have left the list *)

\* A room leaves the list by the end of its Disappear, and for good.
LEMMA Closing ==
  ASSUME LobbyAssumption, TypeOK, HandlerInv, PlayersInv, Next, NEW r \in RoomIx, Closed(r)'
  PROVE  \/ Closed(r)
         \/ \E d \in Clients : pc[d] = "disappear" /\ audience[d] = {} /\ room[d] = r /\ Handler(d)
<1>. USE DEF TypeOK, Rest, srvVars, Goto
<1>1. CASE LaunchesOf(r)' # {}
  <2>1. PICK k \in 1..Len(launches') : launches'[k].room = r
    BY <1>1 DEF LaunchesOf
  <2>2. CASE k \in 1..Len(launches) /\ launches'[k].room = launches[k].room
    BY <2>1, <2>2 DEF Closed, LaunchesOf
  <2>3. ASSUME NEW c \in Clients, StartGame(c), launches'[k].room = room[c] PROVE Closed(r)
    BY <2>1, <2>3 DEF StartGame, Closed
  <2>. QED
    BY <2>2, <2>3, LaunchesGrow
<1>2. ASSUME NEW d \in Clients, pc'[d] = "launch", room'[d] = r
      PROVE  \/ pc[d] = "launch" /\ room[d] = r
             \/ pc[d] = "disappear" /\ audience[d] = {} /\ room[d] = r /\ Handler(d)
  <2>1. ASSUME NEW c \in Clients, Connect(c) \/ Disconnect(c)
        PROVE  pc'[d] = pc[d] /\ room'[d] = room[d]
    BY <2>1 DEF Connect, Disconnect
  <2>2. ASSUME NEW c \in Clients, NEW n \in Names, RequestCreate(c, n) \/ RequestJoin(c, n)
        PROVE  pc'[d] = pc[d] /\ room'[d] = room[d]
    BY <1>2, <2>2 DEF RequestCreate, RequestJoin, Request
  <2>3. ASSUME NEW c \in Clients, Handler(c), c # d
        PROVE  pc'[d] = pc[d] /\ room'[d] = room[d]
    BY <2>3 DEF Handler, ReadLen, AssignRoom, Appear, CreateSuccess, LookUp, Check, JoinFailed,
      JoinSuccess, LoadCount, StoreCount, InsertPlayer, TestCount, Disappear, StartGame, CastTo
  <2>4. ASSUME Handler(d)
        PROVE  pc[d] = "disappear" /\ audience[d] = {} /\ room[d] = r
    BY <1>2, <2>4 DEF Handler, ReadLen, AssignRoom, Appear, CreateSuccess, LookUp, Check,
      JoinFailed, JoinSuccess, LoadCount, StoreCount, InsertPlayer, TestCount, Disappear,
      StartGame, CastTo
  <2>5. ASSUME StartGameLoop PROVE pc'[d] = pc[d] /\ room'[d] = room[d]
    BY <2>5 DEF StartGameLoop, BeginLaunch, GotoGameRoom
  <2>6. ASSUME Crash PROVE FALSE
    BY <1>2, <2>6 DEF Crash
  <2>. QED
    BY <1>2, <2>1, <2>2, <2>3, <2>4, <2>5, <2>6 DEF Next
<1>. QED
  BY <1>1, <1>2 DEF Closed

\* During a Disappear, whoever does not know is still to be written to.
LEMMA CastingStep ==
  ASSUME LobbyAssumption, TypeOK, HandlerInv, PlayersInv, ClosedInv, Next,
         NEW d \in Clients, pc'[d] = "disappear", NEW c \in joined'
  PROVE  Knows(c, room[d])' \/ c \in audience'[d]
<1>. USE DEF TypeOK, Rest, srvVars, Goto
<1>1. CASE TestCount(d)
  BY <1>1 DEF TestCount, Knows
<1>2. CASE Disappear(d)
  <2>1. /\ c \in joined /\ room[d] \in RoomIx /\ c \in Clients
        /\ UNCHANGED <<room, online, missed>>
    BY <1>2, RoomIxType DEF Disappear, CastTo, HandlerInv
  <2>2. PICK e \in audience[d] :
          Tell(e, "Disappear", room[d]) /\ audience' = [audience EXCEPT ![d] = @ \ {e}]
    BY <1>2 DEF Disappear, CastTo
  <2>3. CASE Knows(c, room[d])
    BY <2>1, <2>3, Stable DEF Knows
  <2>4. CASE c \in audience[d] /\ c # e
    BY <2>2, <2>4
  <2>5. CASE c = e
    BY <2>1, <2>2, <2>5 DEF Tell, Knows
  <2>. QED
    BY <1>2, <2>1, <2>3, <2>4, <2>5 DEF ClosedInv, Disappear, CastTo
<1>3. CASE /\ pc[d] = "disappear" /\ room'[d] = room[d] /\ audience'[d] = audience[d]
           /\ joined' = joined
  BY <1>3, Stable DEF ClosedInv, Knows
<1>4. \/ TestCount(d) \/ Disappear(d)
      \/ /\ pc[d] = "disappear" /\ room'[d] = room[d] /\ audience'[d] = audience[d]
         /\ joined' = joined
  <2>1. ASSUME NEW e \in Clients, Connect(e) PROVE FALSE
    BY <2>1 DEF Connect, Casting
  <2>2. ASSUME NEW e \in Clients, Disconnect(e) PROVE UNCHANGED <<joined, pc, room, audience>>
    BY <2>2 DEF Disconnect
  <2>3. ASSUME NEW e \in Clients, NEW n \in Names, RequestCreate(e, n) \/ RequestJoin(e, n)
        PROVE  pc'[d] = pc[d] /\ UNCHANGED <<joined, room, audience>>
    BY <2>3 DEF RequestCreate, RequestJoin, Request
  <2>4. ASSUME NEW e \in Clients, Handler(e), e # d
        PROVE  /\ pc'[d] = pc[d] /\ room'[d] = room[d] /\ audience'[d] = audience[d]
               /\ joined' = joined
    BY <2>4 DEF Handler, ReadLen, AssignRoom, Appear, CreateSuccess, LookUp, Check, JoinFailed,
      JoinSuccess, LoadCount, StoreCount, InsertPlayer, TestCount, Disappear, StartGame, CastTo
  <2>5. ASSUME Handler(d) PROVE TestCount(d) \/ Disappear(d)
    BY <2>5 DEF Handler, ReadLen, AssignRoom, Appear, CreateSuccess, LookUp, Check, JoinFailed,
      JoinSuccess, LoadCount, StoreCount, InsertPlayer, StartGame, CastTo
  <2>6. ASSUME StartGameLoop PROVE UNCHANGED <<joined, pc, room, audience>>
    BY <2>6 DEF StartGameLoop, BeginLaunch, GotoGameRoom
  <2>7. ASSUME Crash PROVE FALSE
    BY <2>7 DEF Crash
  <2>. QED
    BY <2>1, <2>2, <2>3, <2>4, <2>5, <2>6, <2>7 DEF Next
<1>. QED
  BY <1>1, <1>2, <1>3, <1>4

\* Every step keeps what is known of rooms that have left the list.
LEMMA ClosedStep ==
  ASSUME LobbyAssumption, TypeOK, HandlerInv, PlayersInv, ClosedInv, Next
  PROVE  ClosedInv'
<1>1. ASSUME NEW r \in RoomIx, Closed(r)', NEW c \in joined' PROVE Knows(c, r)'
  <2>1. CASE c \in joined /\ Closed(r)
    BY <2>1, Stable DEF ClosedInv
  <2>2. ASSUME NEW d \in Clients, pc[d] = "disappear", audience[d] = {}, room[d] = r, c \in joined
        PROVE  Knows(c, r)'
    BY <2>2, Stable DEF ClosedInv
  <2>3. CASE c \notin joined
    <3>1. Connect(c) /\ c \in Clients
      <4>1. ASSUME NEW e \in Clients, Connect(e) PROVE e = c
        BY <2>3, <4>1 DEF Connect
      <4>2. ASSUME ~\E e \in Clients : Connect(e) PROVE joined' = joined
        BY <4>2 DEF Next, Disconnect, RequestCreate, RequestJoin, Request, StartGameLoop,
          BeginLaunch, GotoGameRoom, Crash, Rest, Handler, ReadLen, AssignRoom, Appear,
          CreateSuccess, LookUp, Check, JoinFailed, JoinSuccess, LoadCount, StoreCount,
          InsertPlayer, TestCount, Disappear, StartGame, CastTo
      <4>. QED
        BY <2>3, <4>1, <4>2
    <3>2. Closed(r)
      BY <1>1, <3>1 DEF Connect, Closed, LaunchesOf, srvVars
    <3>. QED
      BY <3>1, <3>2 DEF Connect, Knows, TypeOK
  <2>4. ASSUME NEW d \in Clients, pc[d] = "disappear" PROVE c \in joined
    <3>1. Casting # {}
      BY <2>4 DEF Casting
    <3>. QED
      BY <3>1 DEF Next, Connect, Disconnect, RequestCreate, RequestJoin, Request, StartGameLoop,
        BeginLaunch, GotoGameRoom, Crash, Rest, Handler, ReadLen, AssignRoom, Appear,
        CreateSuccess, LookUp, Check, JoinFailed, JoinSuccess, LoadCount, StoreCount,
        InsertPlayer, TestCount, Disappear, StartGame, CastTo
  <2>. QED
    BY <1>1, <2>1, <2>2, <2>3, <2>4, Closing
<1>2. ASSUME NEW d \in Clients, pc'[d] = "disappear", NEW c \in joined'
      PROVE  Knows(c, room[d])' \/ c \in audience'[d]
  BY <1>2, CastingStep
<1>. QED
  BY <1>1, <1>2 DEF ClosedInv

-------------------------------------------------------------------------------
(* Goto comes last *)

\* Only a handleStartGame goroutine sends Goto, to a player of its room.
LEMMA OnlyGoto ==
  ASSUME LobbyAssumption, TypeOK, Next, NEW c \in Clients, NEW r \in RoomIx,
         <<"Goto", r>> \in heard'[c], <<"Goto", r>> \notin heard[c]
  PROVE  c \in online /\ \E k \in 1..Len(launches) : c \in launches[k].left /\ launches[k].room = r
<1>. USE DEF TypeOK, Rest
<1>1. ASSUME NEW d \in Clients, NEW msg \in Msgs \ {"Goto"}, NEW q, Tell(d, msg, q) PROVE FALSE
  BY <1>1 DEF Tell
<1>2. ASSUME NEW d \in Clients, Handler(d) PROVE FALSE
  <2>1. ASSUME NEW from, NEW to, NEW msg \in Msgs \ {"Goto"}, CastTo(d, from, to, msg) PROVE FALSE
    BY <1>1, <2>1 DEF CastTo
  <2>2. CASE Appear(d) \/ Disappear(d)
    BY <2>1, <2>2 DEF Appear, Disappear, Msgs
  <2>3. CASE CreateSuccess(d) \/ JoinSuccess(d)
    BY <1>1, <2>3 DEF CreateSuccess, JoinSuccess, Msgs
  <2>. QED
    BY <1>2, <2>2, <2>3 DEF Handler, ReadLen, AssignRoom, LookUp, Check, JoinFailed, LoadCount,
      StoreCount, InsertPlayer, TestCount, StartGame
<1>3. PICK k \in 1..Len(launches) : GotoGameRoom(k)
  BY <1>2 DEF Next, Connect, Disconnect, RequestCreate, RequestJoin, Request, StartGameLoop,
    BeginLaunch, Crash
<1>4. PICK p \in launches[k].left : Tell(p, "Goto", launches[k].room)
  BY <1>3 DEF GotoGameRoom
<1>. QED
  BY <1>4 DEF Tell

\* Every step keeps the order of messages.
LEMMA GotoStep ==
  ASSUME LobbyAssumption, TypeOK, HandlerInv, PlayersInv, ClosedInv, GotoComesLast, Next
  PROVE  GotoComesLast'
<1>1. ASSUME NEW c \in Clients, NEW r \in RoomIx, <<"Goto", r>> \in heard'[c]
      PROVE  /\ <<"JoinSuccess", r>> \in heard'[c]
             /\ <<"Disappear", r>> \in heard'[c] \/ r \in missed'[c]
  <2>1. CASE <<"Goto", r>> \in heard[c]
    <3>1. c \in joined
      BY <2>1 DEF HandlerInv
    <3>. QED
      BY <2>1, <3>1, Growth DEF GotoComesLast
  <2>2. CASE <<"Goto", r>> \notin heard[c]
    <3>1. PICK k \in 1..Len(launches) : c \in launches[k].left /\ launches[k].room = r
      BY <1>1, <2>2, OnlyGoto
    <3>2. c \in online /\ c \in joined /\ Told(c, r)
      BY <1>1, <2>2, <3>1, OnlyGoto DEF PlayersInv
    <3>3. Knows(c, r)
      BY <3>1, <3>2 DEF ClosedInv, Closed, LaunchesOf
    <3>. QED
      BY <3>2, <3>3, Growth DEF Told, Knows
  <2>. QED
    BY <2>1, <2>2
<1>. QED
  BY <1>1 DEF GotoComesLast

-------------------------------------------------------------------------------
(* Rooms while no two requests overlap *)

Count(r) == rooms[r].GamerCount

\* Some handler has told its client that it is in r and has yet to count it.
Counting(r) == \E c \in Clients : pc[c] \in {"load", "store"} /\ room[c] = r

\* One handler runs at a time, and none beside a handleStartGame goroutine.
Alone ==
  /\ ~crashed /\ \A c \in Clients : pc[c] # "dead"
  /\ \A c, d \in Busy : c = d
  /\ Busy # {} => Running = {}

\* A room counts whom it admitted, but for the one being counted.
Counted ==
  /\ \A r \in RoomIx : r \notin 1..Len(rooms) => admitted[r] = 0
  /\ \A r \in 1..Len(rooms) :
       /\ Count(r) \in 0..2
       /\ ~Counting(r) => admitted[r] = Count(r)

\* A room is started once, by the second to join it.
StartedOnce ==
  \A r \in 1..Len(rooms) :
    /\ LaunchesOf(r) # {} => Count(r) = 2
    /\ \A k, l \in LaunchesOf(r) : k = l

\* What a join under way has read is still so.
JoinInv ==
  \A c \in Clients :
    /\ pc[c] \in {"success", "load", "store"} => Count(room[c]) < 2
    /\ pc[c] \in {"load", "store"} => admitted[room[c]] = Count(room[c]) + 1
    /\ pc[c] = "store" => local[c] = Count(room[c])
    /\ pc[c] \in {"insert", "test", "disappear", "launch"} => LaunchesOf(room[c]) = {}
    /\ pc[c] \in {"disappear", "launch"} => Count(room[c]) = 2

SerialInv == ~overlapped => Alone /\ Counted /\ StartedOnce /\ JoinInv

\* One launch at most is a set of at most one launch, and a room that counts
\* two has admitted no more.
LEMMA SerialEnough ==
  ASSUME LobbyAssumption, TypeOK, SerialInv
  PROVE  SerialRooms
<1>. SUFFICES ASSUME ~overlapped, NEW r \in 1..Len(rooms)
              PROVE  /\ admitted[r] <= 2
                     /\ Cardinality(LaunchesOf(r)) <= 1
                     /\ Busy = {} => rooms[r].GamerCount = admitted[r]
                     /\ LaunchesOf(r) # {} => rooms[r].GamerCount = 2
  BY DEF SerialRooms, SerialInv, Alone
<1>1. Alone /\ Counted /\ StartedOnce /\ JoinInv
  BY DEF SerialInv
<1>2. Cardinality(LaunchesOf(r)) <= 1
  <2>1. CASE LaunchesOf(r) = {}
    BY <2>1, FS_EmptySet
  <2>2. ASSUME NEW k \in LaunchesOf(r) PROVE Cardinality(LaunchesOf(r)) <= 1
    <3>1. LaunchesOf(r) = {k}
      BY <1>1, <2>2 DEF StartedOnce
    <3>2. Cardinality({k}) = 1
      BY FS_Singleton
    <3>. QED
      BY <3>1, <3>2
  <2>. QED
    BY <2>1, <2>2
<1>3. Count(r) \in 0..2
  BY <1>1 DEF Counted
<1>4. CASE Counting(r)
  <2>1. PICK c \in Clients : pc[c] \in {"load", "store"} /\ room[c] = r
    BY <1>4 DEF Counting
  <2>2. admitted[r] = Count(r) + 1 /\ Count(r) < 2
    BY <1>1, <2>1 DEF JoinInv
  <2>3. Busy # {}
    BY <2>1 DEF Busy
  <2>. QED
    BY <1>1, <1>2, <1>3, <2>2, <2>3 DEF StartedOnce, Count
<1>5. CASE ~Counting(r)
  BY <1>1, <1>2, <1>3, <1>5 DEF StartedOnce, Counted, Count
<1>. QED
  BY <1>4, <1>5

\* Steps that leave rooms, launches and admissions alone keep what is counted,
\* as long as nobody has finished counting.
LEMMA CountedSame ==
  ASSUME Counted, UNCHANGED <<rooms, admitted>>, \A r \in 1..Len(rooms) : Counting(r) => Counting(r)'
  PROVE  Counted'
BY DEF Counted, Count

\* A room is as much started as long as the goroutines started are for the same rooms.
LEMMA LaunchesSame ==
  ASSUME Len(launches') = Len(launches),
         \A k \in 1..Len(launches) : launches'[k].room = launches[k].room
  PROVE  \A r : LaunchesOf(r)' = LaunchesOf(r)
BY DEF LaunchesOf

\* A handler that runs alone goes on alone.
LEMMA AloneStep ==
  ASSUME LobbyAssumption, TypeOK, Alone, NEW c \in Clients, Handler(c)
  PROVE  /\ Alone' /\ overlapped' = overlapped
         /\ \A d \in Clients : d # c => pc[d] = "idle" /\ pc'[d] = "idle"
         /\ Running = {}
<1>. USE DEF TypeOK, Goto, Rest
<1>1. /\ pc[c] \notin {"idle", "dead"} /\ pc'[c] # "dead"
      /\ \A d \in Clients : d # c => pc'[d] = pc[d]
      /\ UNCHANGED <<overlapped, crashed>>
  BY DEF Handler, ReadLen, AssignRoom, Appear, CreateSuccess, LookUp, Check, JoinFailed,
    JoinSuccess, LoadCount, StoreCount, InsertPlayer, TestCount, Disappear, StartGame, CastTo
<1>2. c \in Busy /\ Running = {}
  BY <1>1 DEF Busy, Alone
<1>3. \A d \in Clients : d # c => pc[d] = "idle" /\ pc'[d] = "idle"
  BY <1>1, <1>2 DEF Busy, Alone
<1>4. Busy' # {} => Running' = {}
  <2>1. CASE StartGame(c)
    <3>1. pc'[c] = "idle"
      BY <2>1 DEF StartGame
    <3>. QED
      BY <1>3, <3>1 DEF Busy
  <2>2. CASE InsertPlayer(c)
    <3>1. Len(launches) \in Nat /\ launches \in [1..Len(launches) -> Launch]
      BY RoomIxType, LenProperties
    <3>2. PICK met \in SUBSET {k \in Running : launches[k].begun /\ launches[k].room = room[c]} :
            launches' = [k \in 1..Len(launches) |->
              IF k \in met THEN [launches[k] EXCEPT !.left = @ \cup {c}] ELSE launches[k]]
      BY <2>2 DEF InsertPlayer
    <3>3. launches' = launches
      BY <1>2, <3>1, <3>2
    <3>. QED
      BY <1>2, <3>3 DEF Running
  <2>3. CASE UNCHANGED launches
    BY <1>2, <2>3 DEF Running
  <2>. QED
    BY <2>1, <2>2, <2>3 DEF Handler, ReadLen, AssignRoom, Appear, CreateSuccess, LookUp, Check,
      JoinFailed, JoinSuccess, LoadCount, StoreCount, TestCount, Disappear, CastTo
<1>5. \A d, e \in Busy' : d = e
  BY <1>3 DEF Busy
<1>. QED
  BY <1>1, <1>2, <1>3, <1>4, <1>5 DEF Alone

\* The steps of a handler that neither make a room, nor admit, count or start.
LEMMA QuietSerial ==
  ASSUME LobbyAssumption, TypeOK, HandlerInv, Alone, Counted, StartedOnce, JoinInv,
         NEW c \in Clients,
         \/ ReadLen(c) \/ Appear(c) \/ CreateSuccess(c) \/ LookUp(c) \/ Check(c) \/ JoinFailed(c)
         \/ LoadCount(c) \/ TestCount(c) \/ Disappear(c)
  PROVE  Counted' /\ StartedOnce' /\ JoinInv'
<1>. USE DEF TypeOK, Goto, Rest
<1>1. UNCHANGED <<rooms, admitted, launches>>
  BY DEF ReadLen, Appear, CreateSuccess, LookUp, Check, JoinFailed, LoadCount, TestCount,
    Disappear, CastTo
<1>2. Handler(c)
  BY DEF Handler
<1>3. \A d \in Clients : d # c => pc[d] = "idle" /\ pc'[d] = "idle"
  BY <1>2, AloneStep
<1>4. pc[c] \in {"load", "store"} => pc'[c] \in {"load", "store"} /\ room'[c] = room[c]
  BY DEF ReadLen, Appear, CreateSuccess, LookUp, Check, JoinFailed, LoadCount, TestCount,
    Disappear, CastTo
<1>5. Counted'
  <2>1. \A r : Counting(r) => Counting(r)'
    BY <1>3, <1>4 DEF Counting
  <2>. QED
    BY <1>1, <2>1, CountedSame
<1>6. \A r : LaunchesOf(r)' = LaunchesOf(r) /\ Count(r)' = Count(r)
  BY <1>1 DEF LaunchesOf, Count
<1>7. StartedOnce'
  BY <1>1, <1>6 DEF StartedOnce
<1>8. /\ pc'[c] \in {"success", "load", "store"} => Count(room[c])' < 2
      /\ pc'[c] \in {"load", "store"} => admitted'[room'[c]] = Count(room[c])' + 1
      /\ pc'[c] = "store" => local'[c] = Count(room[c])'
      /\ pc'[c] \in {"insert", "test", "disappear", "launch"} => LaunchesOf(room[c])' = {}
      /\ pc'[c] \in {"disappear", "launch"} => Count(room[c])' = 2
  <2>1. CASE ReadLen(c) \/ CreateSuccess(c) \/ LookUp(c) \/ JoinFailed(c)
    BY <2>1 DEF ReadLen, CreateSuccess, LookUp, JoinFailed
  <2>2. CASE Check(c)
    BY <1>6, <2>2 DEF Check, Count
  <2>3. CASE LoadCount(c)
    BY <1>1, <1>6, <2>3 DEF LoadCount, Count, JoinInv
  <2>4. CASE TestCount(c)
    BY <1>1, <1>6, <2>4 DEF TestCount, Count, JoinInv
  <2>5. CASE Disappear(c)
    BY <1>1, <1>6, <2>5 DEF Disappear, CastTo, JoinInv
  <2>6. CASE Appear(c)
    BY <2>6 DEF Appear, CastTo
  <2>. QED
    BY <2>1, <2>2, <2>3, <2>4, <2>5, <2>6
<1>9. JoinInv'
  BY <1>3, <1>8 DEF JoinInv
<1>. QED
  BY <1>5, <1>7, <1>9

\* A new room counts nobody and is not started.
LEMMA AssignSerial ==
  ASSUME LobbyAssumption, TypeOK, RoomsInv, HandlerInv, PlayersInv,
         Alone, Counted, StartedOnce, JoinInv,
         NEW c \in Clients, AssignRoom(c)
  PROVE  Counted' /\ StartedOnce' /\ JoinInv'
<1>. USE DEF TypeOK, Goto, Rest
<1>a. Handler(c) /\ Len(rooms) \in Nat
  BY RoomIxType DEF Handler
<1>1. \A d \in Clients : d # c => pc[d] = "idle" /\ pc'[d] = "idle"
  BY <1>a, AloneStep
<1>2. /\ \A r : ~Counting(r) /\ ~Counting(r)'
      /\ JoinInv'
  BY <1>1 DEF AssignRoom, Counting, JoinInv
<1>3. [LobbyID |-> local[c], GamerCount |-> 0, Players |-> {}] \in Lobby
  BY DEF Lobby
<1>4. /\ Len(rooms') = Len(rooms) + 1
      /\ \A r \in 1..Len(rooms) : Count(r)' = Count(r)
      /\ rooms'[Len(rooms) + 1].GamerCount = 0
  <2>1. /\ Len(rooms') = Len(rooms) + 1
        /\ \A r \in 1..Len(rooms) : rooms'[r] = rooms[r]
        /\ rooms'[Len(rooms) + 1] = [LobbyID |-> local[c], GamerCount |-> 0, Players |-> {}]
    BY <1>3, AppendProperties DEF AssignRoom
  <2>. QED
    BY <2>1 DEF Count
<1>5. Len(rooms) + 1 \in RoomIx
  <2>1. TypeOK'
    BY <1>a, HandlerType
  <2>2. Len(rooms') <= MaxRooms
    BY <2>1
  <2>. QED
    BY <1>a, <1>4, <2>2 DEF RoomIx, LobbyAssumption
<1>6. \A r : LaunchesOf(r)' = LaunchesOf(r)
  BY DEF AssignRoom, LaunchesOf
<1>7. LaunchesOf(Len(rooms) + 1) = {}
  BY <1>a DEF LaunchesOf, PlayersInv
<1>8. Counted'
  <2>1. UNCHANGED admitted
    BY DEF AssignRoom
  <2>2. \A r \in 1..Len(rooms') : r \in 1..Len(rooms) \/ r = Len(rooms) + 1
    BY <1>a, <1>4
  <2>3. 1..Len(rooms) \subseteq 1..Len(rooms')
    BY <1>a, <1>4
  <2>4. admitted[Len(rooms) + 1] = 0
    BY <1>a, <1>5 DEF Counted
  <2>. QED
    <3>1. \A r \in RoomIx : r \notin 1..Len(rooms') => admitted'[r] = 0
      BY <2>1, <2>3 DEF Counted
    <3>2. ASSUME NEW r \in 1..Len(rooms')
          PROVE  Count(r)' \in 0..2 /\ admitted'[r] = Count(r)'
      <4>1. CASE r \in 1..Len(rooms)
        BY <1>2, <1>4, <2>1, <4>1 DEF Counted
      <4>2. CASE r = Len(rooms) + 1
        BY <1>4, <2>1, <2>4, <4>2 DEF Count
      <4>. QED
        BY <2>2, <4>1, <4>2
    <3>. QED
      BY <3>1, <3>2 DEF Counted
<1>9. StartedOnce'
  <2>1. \A r \in 1..Len(rooms') : r \in 1..Len(rooms) \/ r = Len(rooms) + 1
    BY <1>a, <1>4
  <2>. QED
    BY <1>4, <1>6, <1>7, <2>1 DEF StartedOnce
<1>. QED
  BY <1>2, <1>8, <1>9

\* An admission is one too many, until the store.
LEMMA JoinSerial ==
  ASSUME LobbyAssumption, TypeOK, HandlerInv, Alone, Counted, StartedOnce, JoinInv,
         NEW c \in Clients, JoinSuccess(c)
  PROVE  Counted' /\ StartedOnce' /\ JoinInv'
<1>. USE DEF TypeOK, Goto, Rest
<1>1. \A d \in Clients : d # c => pc[d] = "idle" /\ pc'[d] = "idle"
  BY AloneStep DEF Handler
<1>2. room[c] \in 1..Len(rooms) /\ room[c] \in RoomIx
  BY RoomIxType DEF JoinSuccess, HandlerInv
<1>3. /\ UNCHANGED <<rooms, room, launches>> /\ pc[c] = "success" /\ pc'[c] = "load"
      /\ admitted' = [admitted EXCEPT ![room[c]] = @ + 1]
  BY DEF JoinSuccess
<1>4. \A r : LaunchesOf(r)' = LaunchesOf(r) /\ Count(r)' = Count(r)
  BY <1>3 DEF LaunchesOf, Count
<1>5. \A r : ~Counting(r) /\ (Counting(r)' <=> r = room[c])
  BY <1>1, <1>3 DEF Counting
<1>6. admitted[room[c]] = Count(room[c])
  BY <1>2, <1>5 DEF Counted
<1>7. Counted'
  BY <1>2, <1>3, <1>4, <1>5 DEF Counted
<1>8. StartedOnce'
  BY <1>3, <1>4 DEF StartedOnce
<1>9. JoinInv'
  BY <1>1, <1>2, <1>3, <1>4, <1>6 DEF JoinInv
<1>. QED
  BY <1>7, <1>8, <1>9

\* The store makes up for it: what was loaded is still the count.
LEMMA StoreSerial ==
  ASSUME LobbyAssumption, TypeOK, HandlerInv, Alone, Counted, StartedOnce, JoinInv,
         NEW c \in Clients, StoreCount(c)
  PROVE  Counted' /\ StartedOnce' /\ JoinInv'
<1>. USE DEF TypeOK, Goto, Rest
<1>1. \A d \in Clients : d # c => pc[d] = "idle" /\ pc'[d] = "idle"
  BY AloneStep DEF Handler
<1>2. room[c] \in 1..Len(rooms)
  BY DEF StoreCount, HandlerInv
<1>3. /\ UNCHANGED <<admitted, room, launches>> /\ pc[c] = "store" /\ pc'[c] = "insert"
      /\ rooms' = [rooms EXCEPT ![room[c]].GamerCount = local[c] + 1]
  BY DEF StoreCount
<1>4. rooms \in [1..Len(rooms) -> Lobby]
  BY LenProperties
<1>5. /\ Len(rooms') = Len(rooms)
      /\ Count(room[c])' = local[c] + 1
      /\ \A r \in 1..Len(rooms) : r # room[c] => Count(r)' = Count(r)
  BY <1>2, <1>3, <1>4 DEF Count, Lobby
<1>6. /\ Count(room[c]) < 2 /\ admitted[room[c]] = Count(room[c]) + 1
      /\ local[c] = Count(room[c]) /\ LaunchesOf(room[c]) = {}
  <2>1. Count(room[c]) # 2 => LaunchesOf(room[c]) = {}
    BY <1>2 DEF StartedOnce
  <2>2. /\ Count(room[c]) < 2 /\ admitted[room[c]] = Count(room[c]) + 1
        /\ local[c] = Count(room[c])
    BY <1>3 DEF JoinInv
  <2>. QED
    BY <2>1, <2>2
<1>7. \A r : LaunchesOf(r)' = LaunchesOf(r)
  BY <1>3 DEF LaunchesOf
<1>8. \A r : r # room[c] => ~Counting(r)
  BY <1>1 DEF Counting
<1>9. Counted'
  <2>1. \A r \in RoomIx : r \notin 1..Len(rooms') => admitted'[r] = 0
    BY <1>3, <1>5 DEF Counted
  <2>2. ASSUME NEW r \in 1..Len(rooms') PROVE Count(r)' \in 0..2 /\ admitted'[r] = Count(r)'
    <3>1. CASE r = room[c]
      BY <1>2, <1>3, <1>5, <1>6, <3>1 DEF Counted
    <3>2. CASE r # room[c]
      BY <1>3, <1>5, <1>8, <3>2 DEF Counted
    <3>. QED
      BY <3>1, <3>2
  <2>. QED
    BY <2>1, <2>2 DEF Counted
<1>10. StartedOnce'
  BY <1>5, <1>6, <1>7 DEF StartedOnce
<1>11. JoinInv'
  BY <1>1, <1>3, <1>6, <1>7 DEF JoinInv
<1>. QED
  BY <1>9, <1>10, <1>11

\* Entering Players counts nobody; no loop over them is under way.
LEMMA InsertSerial ==
  ASSUME LobbyAssumption, TypeOK, HandlerInv, Alone, Counted, StartedOnce, JoinInv,
         NEW c \in Clients, InsertPlayer(c)
  PROVE  Counted' /\ StartedOnce' /\ JoinInv'
<1>. USE DEF TypeOK, Goto, Rest
<1>1. \A d \in Clients : d # c => pc[d] = "idle" /\ pc'[d] = "idle"
  BY AloneStep DEF Handler
<1>2. room[c] \in 1..Len(rooms)
  BY DEF InsertPlayer, HandlerInv
<1>3. /\ UNCHANGED <<admitted, room>> /\ pc[c] = "insert" /\ pc'[c] = "test"
      /\ rooms' = [rooms EXCEPT ![room[c]].Players = @ \cup {c}]
  BY DEF InsertPlayer
<1>4. rooms \in [1..Len(rooms) -> Lobby] /\ launches \in [1..Len(launches) -> Launch]
  BY LenProperties
<1>5. Len(rooms') = Len(rooms) /\ \A r \in 1..Len(rooms) : Count(r)' = Count(r)
  BY <1>2, <1>3, <1>4 DEF Count, Lobby
<1>6. \A r : LaunchesOf(r)' = LaunchesOf(r)
  <2>1. PICK met : launches' = [k \in 1..Len(launches) |->
          IF k \in met THEN [launches[k] EXCEPT !.left = @ \cup {c}] ELSE launches[k]]
    BY DEF InsertPlayer
  <2>2. ASSUME NEW k \in 1..Len(launches)
        PROVE  launches'[k].room = launches[k].room /\ launches'[k] \in Launch
    <3>1. launches[k] \in Launch
      BY <1>4
    <3>2. CASE launches'[k] = launches[k]
      BY <3>1, <3>2
    <3>3. CASE launches'[k] = [launches[k] EXCEPT !.left = @ \cup {c}]
      <4>1. /\ [launches[k] EXCEPT !.left = @ \cup {c}] \in Launch
            /\ [launches[k] EXCEPT !.left = @ \cup {c}].room = launches[k].room
        BY <3>1 DEF Launch
      <4>. QED
        BY <3>3, <4>1
    <3>. QED
      BY <2>1, <3>2, <3>3
  <2>3. launches' \in [1..Len(launches) -> Launch]
    BY <2>1, <2>2
  <2>4. Len(launches') = Len(launches)
    BY <2>3, MapType
  <2>. QED
    BY <2>2, <2>4, LaunchesSame
<1>7. \A r : ~Counting(r)
  BY <1>1, <1>3 DEF Counting
<1>8. Counted' /\ StartedOnce'
  BY <1>3, <1>5, <1>6, <1>7 DEF Counted, StartedOnce
<1>9. JoinInv'
  BY <1>1, <1>3, <1>6 DEF JoinInv
<1>. QED
  BY <1>8, <1>9

\* The room that is started has not been started before, and counts two.
LEMMA StartSerial ==
  ASSUME LobbyAssumption, TypeOK, HandlerInv, Alone, Counted, StartedOnce, JoinInv,
         NEW c \in Clients, StartGame(c)
  PROVE  Counted' /\ StartedOnce' /\ JoinInv'
<1>. USE DEF TypeOK, Goto, Rest
<1>1. \A d \in Clients : d # c => pc[d] = "idle" /\ pc'[d] = "idle"
  BY AloneStep DEF Handler
<1>2. /\ UNCHANGED <<rooms, admitted, room>> /\ pc[c] = "launch" /\ pc'[c] = "idle"
      /\ launches' = Append(launches, [room |-> room[c], begun |-> FALSE, left |-> {}])
  BY DEF StartGame
<1>3. room[c] \in RoomIx /\ Len(launches) \in Nat
  BY <1>2, RoomIxType DEF HandlerInv
<1>4. /\ Len(launches') = Len(launches) + 1
      /\ \A k \in 1..Len(launches) : launches'[k] = launches[k]
      /\ launches'[Len(launches) + 1].room = room[c]
  <2>1. [room |-> room[c], begun |-> FALSE, left |-> {}] \in Launch
    BY <1>3 DEF Launch
  <2>. QED
    BY <1>2, <1>3, <2>1, AppendProperties
<1>5. /\ LaunchesOf(room[c])' = {Len(launches) + 1}
      /\ \A r : r # room[c] => LaunchesOf(r)' = LaunchesOf(r)
  <2>1. LaunchesOf(room[c]) = {}
    BY <1>2 DEF JoinInv
  <2>2. 1..Len(launches') = 1..Len(launches) \cup {Len(launches) + 1}
    BY <1>3, <1>4
  <2>3. \A k \in 1..Len(launches) : launches[k].room # room[c] /\ launches'[k].room # room[c]
    BY <1>4, <2>1 DEF LaunchesOf
  <2>4. LaunchesOf(room[c])' = {Len(launches) + 1}
    BY <1>2, <1>4, <2>2, <2>3 DEF LaunchesOf
  <2>5. ASSUME NEW r, r # room[c] PROVE LaunchesOf(r)' = LaunchesOf(r)
    BY <1>4, <2>2, <2>5 DEF LaunchesOf
  <2>. QED
    BY <2>4, <2>5
<1>6. Count(room[c]) = 2
  BY <1>2 DEF JoinInv
<1>7. Counted' /\ StartedOnce'
  <2>1. \A r : ~Counting(r)
    BY <1>1, <1>2 DEF Counting
  <2>2. \A r : Count(r)' = Count(r)
    BY <1>2 DEF Count
  <2>. QED
    <3>1. Counted'
      BY <1>2, <2>1, <2>2 DEF Counted
    <3>2. ASSUME NEW r \in 1..Len(rooms')
          PROVE  /\ LaunchesOf(r)' # {} => Count(r)' = 2
                 /\ \A k, l \in LaunchesOf(r)' : k = l
      <4>1. CASE r = room[c]
        <5>1. Count(r)' = 2
          BY <1>6, <2>2, <4>1
        <5>2. LaunchesOf(r)' = {Len(launches) + 1}
          BY <1>2, <1>5, <4>1
        <5>. QED
          BY <5>1, <5>2
      <4>2. CASE r # room[c]
        BY <1>2, <1>5, <2>2, <4>2 DEF StartedOnce
      <4>. QED
        BY <4>1, <4>2
    <3>. QED
      BY <3>1, <3>2 DEF StartedOnce
<1>8. JoinInv'
  BY <1>1, <1>2 DEF JoinInv
<1>. QED
  BY <1>7, <1>8

\* What the rooms' order is about.
LEMMA SerialSame ==
  ASSUME UNCHANGED <<rooms, pc, room, local, launches, admitted, overlapped, crashed>>,
         Alone, Counted, StartedOnce, JoinInv
  PROVE  Alone' /\ Counted' /\ StartedOnce' /\ JoinInv'
<1>1. /\ Busy' = Busy /\ Running' = Running
      /\ \A r : (Counting(r)' <=> Counting(r)) /\ Count(r)' = Count(r)
      /\ \A r : LaunchesOf(r)' = LaunchesOf(r)
  BY DEF Busy, Running, Counting, Count, LaunchesOf
<1>2. Alone' /\ JoinInv'
  BY <1>1 DEF Alone, JoinInv
<1>3. Counted' /\ StartedOnce'
  BY <1>1 DEF Counted, StartedOnce
<1>. QED
  BY <1>2, <1>3

\* Every step that is not a handler's keeps the rooms serial.
LEMMA OtherSerial ==
  ASSUME LobbyAssumption, TypeOK, HandlerInv, PlayersInv, SerialInv, Next, ~overlapped',
         ~\E c \in Clients : Handler(c)
  PROVE  Alone' /\ Counted' /\ StartedOnce' /\ JoinInv'
<1>. USE DEF TypeOK, Goto, Rest, srvVars
<1>1. ASSUME NEW c \in Clients, Connect(c) \/ Disconnect(c)
      PROVE  Alone' /\ Counted' /\ StartedOnce' /\ JoinInv'
  <2>1. UNCHANGED <<rooms, pc, room, local, launches, admitted, overlapped, crashed>>
    BY <1>1 DEF Connect, Disconnect
  <2>. QED
    BY <2>1, SerialSame DEF SerialInv
<1>2. ASSUME NEW c \in Clients, NEW n \in Names, NEW to \in {"len", "lookup"}, Request(c, n, to)
      PROVE  Alone' /\ Counted' /\ StartedOnce' /\ JoinInv'
  <2>1. ~overlapped /\ Busy = {} /\ Running = {}
    BY <1>2 DEF Request
  <2>2. /\ UNCHANGED <<rooms, launches, room, local, admitted, crashed>>
        /\ pc' = [pc EXCEPT ![c] = to]
    BY <1>2 DEF Request
  <2>3. \A d \in Clients : pc[d] = "idle" /\ (d # c => pc'[d] = "idle")
    BY <2>1, <2>2 DEF Busy
  <2>4. Alone'
    BY <2>1, <2>2, <2>3 DEF Alone, SerialInv, Busy, Running
  <2>5. \A r : LaunchesOf(r)' = LaunchesOf(r) /\ Count(r)' = Count(r)
    BY <2>2 DEF LaunchesOf, Count
  <2>6. \A r : ~Counting(r) /\ ~Counting(r)'
    BY <2>2, <2>3 DEF Counting
  <2>7. Counted' /\ StartedOnce'
    BY <2>1, <2>2, <2>5, <2>6 DEF SerialInv, Counted, StartedOnce
  <2>8. JoinInv'
    BY <2>2, <2>3 DEF JoinInv
  <2>. QED
    BY <2>4, <2>7, <2>8
<1>3. ASSUME NEW k \in 1..Len(launches), BeginLaunch(k) \/ GotoGameRoom(k)
      PROVE  Alone' /\ Counted' /\ StartedOnce' /\ JoinInv'
  <2>1. launches \in [1..Len(launches) -> Launch] /\ k \in Running
    BY <1>3, LenProperties DEF BeginLaunch, GotoGameRoom, Running
  <2>2. UNCHANGED <<overlapped, crashed, pc, room, local, rooms, admitted>>
    BY <1>3 DEF BeginLaunch, GotoGameRoom
  <2>3. /\ Len(launches') = Len(launches)
        /\ \A l \in 1..Len(launches) : launches'[l].room = launches[l].room
    <3>1. \A l \in 1..Len(launches) : launches[l] \in Launch
      BY <2>1
    <3>2. CASE BeginLaunch(k)
      BY <2>1, <3>1, <3>2 DEF BeginLaunch, Launch
    <3>3. ASSUME NEW p, launches' = [launches EXCEPT ![k].left = @ \ {p}]
          PROVE  /\ Len(launches') = Len(launches)
                 /\ \A l \in 1..Len(launches) : launches'[l].room = launches[l].room
      BY <2>1, <3>1, <3>3 DEF Launch
    <3>. QED
      BY <1>3, <3>2, <3>3 DEF GotoGameRoom
  <2>4. \A r : LaunchesOf(r)' = LaunchesOf(r)
    BY <2>3, LaunchesSame
  <2>5. Alone /\ Busy = {}
    BY <2>1, <2>2 DEF SerialInv, Alone
  <2>6. Alone'
    BY <2>2, <2>5 DEF Alone, Busy
  <2>7. \A r : (Counting(r)' <=> Counting(r)) /\ Count(r)' = Count(r)
    BY <2>2 DEF Counting, Count
  <2>8. Counted' /\ StartedOnce' /\ JoinInv'
    BY <2>2, <2>4, <2>7 DEF SerialInv, Counted, StartedOnce, JoinInv
  <2>. QED
    BY <2>6, <2>8
<1>4. ASSUME Crash PROVE FALSE
  <2>1. Alone /\ MapClash
    BY <1>4 DEF Crash, SerialInv
  <2>. QED
    BY <2>1 DEF Alone, Busy, MapClash
<1>. QED
  BY <1>1, <1>2, <1>3, <1>4 DEF Next, RequestCreate, RequestJoin, StartGameLoop

\* Every step keeps the rooms serial as long as requests do not overlap.
LEMMA SerialStep ==
  ASSUME LobbyAssumption, IInv, SerialInv, [Next]_vars
  PROVE  SerialInv'
<1>. SUFFICES ASSUME ~overlapped' PROVE Alone' /\ Counted' /\ StartedOnce' /\ JoinInv'
  BY DEF SerialInv
<1>. USE DEF IInv
<1>1. ASSUME NEW c \in Clients, Handler(c), Next PROVE Alone' /\ Counted' /\ StartedOnce' /\ JoinInv'
  <2>1. overlapped' = overlapped
    BY <1>1 DEF Handler, ReadLen, AssignRoom, Appear, CreateSuccess, LookUp, Check, JoinFailed,
      JoinSuccess, LoadCount, StoreCount, InsertPlayer, TestCount, Disappear, StartGame, CastTo, Rest
  <2>2. Alone /\ Counted /\ StartedOnce /\ JoinInv
    BY <2>1 DEF SerialInv
  <2>3. Alone'
    BY <1>1, <2>2, AloneStep
  <2>4. Counted' /\ StartedOnce' /\ JoinInv'
    BY <1>1, <2>2, QuietSerial, AssignSerial, JoinSerial, StoreSerial, InsertSerial, StartSerial
    DEF Handler
  <2>. QED
    BY <2>3, <2>4
<1>2. CASE Next /\ ~\E c \in Clients : Handler(c)
  BY <1>2, OtherSerial
<1>3. CASE UNCHANGED vars
  BY <1>3, SerialSame DEF vars, srvVars, SerialInv
<1>. QED
  BY <1>1, <1>2, <1>3

-------------------------------------------------------------------------------
(* The theorems *)

\* IInv holds initially.
LEMMA InvInit == LobbyAssumption /\ Init => IInv
<1>. SUFFICES ASSUME LobbyAssumption, Init PROVE IInv
  OBVIOUS
<1>1. TypeOK
  <2>1. rooms = << >> /\ launches = << >> /\ Len(rooms) = 0
    BY DEF Init
  <2>2. rooms \in Seq(Lobby) /\ launches \in Seq(Launch)
    BY <2>1, EmptySeq
  <2>3. /\ pc \in [Clients -> PCs] /\ name \in [Clients -> Names \cup {Nil}]
        /\ room \in [Clients -> 0..Len(rooms)] /\ lobbies \in [Names -> 0..Len(rooms)]
    BY <2>1 DEF Init, PCs
  <2>4. /\ local \in [Clients -> Nat] /\ admitted \in [RoomIx -> Nat] /\ asked \in 0..MaxRequests
        /\ Len(rooms) <= MaxRooms
    BY <2>1 DEF Init, LobbyAssumption
  <2>5. /\ audience \in [Clients -> SUBSET joined] /\ missed \in [Clients -> SUBSET RoomIx]
        /\ heard \in [Clients -> SUBSET (Msgs \X RoomIx)]
    BY DEF Init
  <2>. QED
    BY <2>2, <2>3, <2>4, <2>5 DEF Init, TypeOK
<1>2. RoomsInv
  <2>1. Creating = {}
    BY DEF Init, Creating
  <2>. QED
    BY <2>1, FS_EmptySet DEF Init, RoomsInv, LobbyAssumption
<1>3. HandlerInv /\ PlayersInv /\ ClosedInv /\ GotoComesLast
  BY DEF Init, HandlerInv, PlayersInv, ClosedInv, Closed, LaunchesOf, GotoComesLast
<1>. QED
  BY <1>1, <1>2, <1>3 DEF IInv

\* Every step keeps IInv.
LEMMA InvStep == LobbyAssumption /\ IInv /\ [Next]_vars => IInv'
<1>. SUFFICES ASSUME LobbyAssumption, IInv, [Next]_vars PROVE IInv'
  OBVIOUS
<1>. USE DEF IInv
<1>1. CASE Next
  <2>1. TypeOK'
    BY <1>1, HandlerType, OtherType DEF Next
  <2>2. HandlerInv'
    BY <1>1, HandlerStep DEF HandlerInv
  <2>. QED
    BY <1>1, <2>1, <2>2, RoomsStep, PlayersStep, ClosedStep, GotoStep
<1>2. CASE UNCHANGED vars
  BY <1>2 DEF vars, srvVars, TypeOK, RoomsInv, Creating, HandlerInv, PlayersInv, ClosedInv, Closed,
    LaunchesOf, GotoComesLast, Told, Knows
<1>. QED
  BY <1>1, <1>2

\* Every variable of the lobby keeps its type.
THEOREM TypeCorrect == Spec => []TypeOK
<1>1. IInv => TypeOK
  BY DEF IInv
<1>. QED
  BY <1>1, InvInit, InvStep, LobbyAssumption, PTL DEF Spec

\* In a match every player is told of its join and of the room's end before it
\* is sent to the battle, whatever requests overlap and however many get in.
THEOREM MatchInOrder == Spec => []GotoComesLast
<1>1. IInv => GotoComesLast
  BY DEF IInv
<1>. QED
  BY <1>1, InvInit, InvStep, LobbyAssumption, PTL DEF Spec

\* As long as no two requests overlap, every room admits two at most, counts
\* whom it admitted and is started once, and the runtime finds no clash of map
\* accesses to stop the process for.
THEOREM SerialRoomsHold == Spec => []SerialRooms
<1>1. Init => SerialInv
  BY DEF Init, SerialInv, Alone, Counted, StartedOnce, JoinInv, Busy, Running
<1>2. IInv /\ SerialInv => SerialRooms
  BY LobbyAssumption, SerialEnough DEF IInv
<1>3. IInv /\ SerialInv /\ [Next]_vars => IInv' /\ SerialInv'
  BY LobbyAssumption, InvStep, SerialStep
<1>. QED
  BY <1>1, <1>2, <1>3, InvInit, LobbyAssumption, PTL DEF Spec
===============================================================================
