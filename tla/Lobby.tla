--------------------------------- MODULE Lobby ---------------------------------
(***************************************************************************)
(* Matchmaking in the lobby server (server/cmd/lobby-server/main.go): the  *)
(* handlers that create and join game rooms, and handleStartGame.  Each    *)
(* connection's goroutine runs its handlers over maps and Lobby records    *)
(* that no lock protects, so every access to shared memory is a step.      *)
(*                                                                         *)
(* Broadcast is what module BroadcastGroup says: an audience fixed when it *)
(* begins, and one write per member.  A socket takes every frame at once.  *)
(* The error of reading a room's name is logged and the name is then empty:*)
(* an empty name is a name.                                                *)
(***************************************************************************)
EXTENDS Naturals, Sequences, FiniteSets

CONSTANTS
  Clients,       \* connections, each by the HostID it has
  Names,         \* names of game rooms
  Nil,           \* no name
  MaxRooms,      \* bound on the rooms created
  MaxRequests    \* bound on the requests served

ASSUME LobbyAssumption ==
  /\ Nil \notin Names
  /\ MaxRooms \in Nat /\ MaxRequests \in Nat
  /\ IsFiniteSet(Clients) /\ IsFiniteSet(Names)

VARIABLES
  online,     \* connections in the server's registry that still work
  joined,     \* connections ever made
  lobbies,    \* lobbyMap: name -> index of a Lobby record, 0 if absent
  rooms,      \* the Lobby records ever made
  pc,         \* where the handler of each connection is
  name,       \* the name in its request
  room,       \* its local variable lobby
  local,      \* a number it has read: len(lobbies) or GamerCount
  audience,   \* connections its Broadcast has still to write to
  launches,   \* the handleStartGame goroutines, in the order they were started
  heard,      \* history: what each client has been sent about which room
  missed,     \* history: the rooms that had left the list when a client connected
  admitted,   \* history: the joins of each room that were told they succeeded
  asked,      \* how many requests have been taken up
  overlapped, \* history: has a request met another one under way?
  crashed     \* the runtime has stopped the process for a concurrent map access

srvVars == <<pc, name, room, local, audience>>
vars == <<online, joined, lobbies, rooms, srvVars, launches, heard, missed, admitted, asked,
          overlapped, crashed>>

PCs == {"idle", "len", "assign", "appear", "created",
        "lookup", "check", "success", "load", "store", "insert", "test", "disappear", "launch",
        "fail", "dead"}
Msgs == {"Appear", "Disappear", "CreateSuccess", "JoinSuccess", "Goto"}
RoomIx == 1..MaxRooms
Lobby == [LobbyID : Nat, GamerCount : Nat, Players : SUBSET Clients]
Launch == [room : RoomIx, begun : BOOLEAN, left : SUBSET Clients]

TypeOK ==
  /\ online \subseteq joined /\ joined \subseteq Clients
  /\ lobbies \in [Names -> 0..Len(rooms)]
  /\ rooms \in Seq(Lobby) /\ Len(rooms) <= MaxRooms
  /\ pc \in [Clients -> PCs]
  /\ name \in [Clients -> Names \cup {Nil}]
  /\ room \in [Clients -> 0..Len(rooms)]
  /\ local \in [Clients -> Nat]
  /\ audience \in [Clients -> SUBSET joined]
  /\ launches \in Seq(Launch)
  /\ heard \in [Clients -> SUBSET (Msgs \X RoomIx)]
  /\ missed \in [Clients -> SUBSET RoomIx]
  /\ admitted \in [RoomIx -> Nat]
  /\ asked \in 0..MaxRequests
  /\ overlapped \in BOOLEAN /\ crashed \in BOOLEAN

Init ==
  /\ online = {} /\ joined = {}
  /\ lobbies = [n \in Names |-> 0]
  /\ rooms = <<>>
  /\ pc = [c \in Clients |-> "idle"]
  /\ name = [c \in Clients |-> Nil]
  /\ room = [c \in Clients |-> 0]
  /\ local = [c \in Clients |-> 0]
  /\ audience = [c \in Clients |-> {}]
  /\ launches = <<>>
  /\ heard = [c \in Clients |-> {}]
  /\ missed = [c \in Clients |-> {}]
  /\ admitted = [r \in RoomIx |-> 0]
  /\ asked = 0
  /\ overlapped = FALSE /\ crashed = FALSE

Goto(c, from, to) ==
  /\ pc[c] = from
  /\ pc' = [pc EXCEPT ![c] = to]

\* A frame to c; c.Send's error is ignored.
Tell(c, msg, r) ==
  heard' = IF c \in online THEN [heard EXCEPT ![c] = @ \cup {<<msg, r>>}] ELSE heard

Casting == {c \in Clients : pc[c] \in {"appear", "disappear"}}
Busy == {c \in Clients : pc[c] # "idle"}
LaunchesOf(r) == {k \in 1..Len(launches) : launches[k].room = r}
Closed(r) == LaunchesOf(r) # {} \/ \E c \in Clients : pc[c] = "launch" /\ room[c] = r
Running == {k \in 1..Len(launches) : launches[k].left # {} \/ ~launches[k].begun}

-------------------------------------------------------------------------------
(* Connections; the registry admits nobody during a broadcast *)

Connect(c) ==
  /\ ~crashed
  /\ c \notin joined
  /\ Casting = {}
  /\ joined' = joined \cup {c}
  /\ online' = online \cup {c}
  /\ missed' = [missed EXCEPT ![c] = {r \in RoomIx : Closed(r)}]
  /\ UNCHANGED <<lobbies, rooms, srvVars, launches, heard, admitted, asked, overlapped,
                 crashed>>

\* Nothing in the lobby notices a lost connection: a handler under way goes on.
Disconnect(c) ==
  /\ c \in online
  /\ online' = online \ {c}
  /\ UNCHANGED <<joined, lobbies, rooms, srvVars, launches, heard, missed, admitted, asked,
                 overlapped, crashed>>

\* serve takes up c's next request and calls its handler.
Request(c, n, to) ==
  /\ c \in online
  /\ asked < MaxRequests
  /\ Goto(c, "idle", to)
  /\ name' = [name EXCEPT ![c] = n]
  /\ asked' = asked + 1
  /\ overlapped' = (overlapped \/ Busy # {} \/ Running # {})
  /\ UNCHANGED <<online, joined, lobbies, rooms, room, local, audience, launches, heard,
                 missed, admitted, crashed>>

RequestCreate(c, n) ==
  /\ Len(rooms) + Cardinality({d \in Clients : pc[d] \in {"len", "assign"}}) < MaxRooms
  /\ Request(c, n, "len")

RequestJoin(c, n) == Request(c, n, "lookup")

\* Broadcast: as soon as the loop has written to everyone, go on.
CastTo(c, from, to, msg) ==
  /\ pc[c] = from
  /\ \/ \E d \in audience[c] :
          /\ Tell(d, msg, room[c])
          /\ audience' = [audience EXCEPT ![c] = @ \ {d}]
          /\ UNCHANGED pc
     \/ /\ audience[c] = {}
        /\ pc' = [pc EXCEPT ![c] = to]
        /\ UNCHANGED <<audience, heard>>
  /\ UNCHANGED <<online, joined, lobbies, rooms, name, room, local, launches, missed, admitted,
                 asked, overlapped, crashed>>

\* Between the handler's shared steps nothing else of the state changes.
Rest == <<online, joined, name, missed, asked, overlapped, crashed>>

-------------------------------------------------------------------------------
(* RequestCreateGameRoom *)

ReadLen(c) ==
  /\ Goto(c, "len", "assign")
  /\ local' = [local EXCEPT ![c] = Cardinality({n \in Names : lobbies[n] # 0})]
  /\ UNCHANGED <<Rest, lobbies, rooms, room, audience, launches, heard, admitted>>

\* A room of that name that is there already is dropped from the map, but not
\* from the handlers that hold it.
AssignRoom(c) ==
  /\ Goto(c, "assign", "appear")
  /\ rooms' = Append(rooms, [LobbyID |-> local[c], GamerCount |-> 0, Players |-> {}])
  /\ lobbies' = [lobbies EXCEPT ![name[c]] = Len(rooms')]
  /\ room' = [room EXCEPT ![c] = Len(rooms')]
  /\ audience' = [audience EXCEPT ![c] = online]
  /\ UNCHANGED <<Rest, local, launches, heard, admitted>>

Appear(c) == CastTo(c, "appear", "created", "Appear")

CreateSuccess(c) ==
  /\ Goto(c, "created", "idle")
  /\ Tell(c, "CreateSuccess", room[c])
  /\ UNCHANGED <<Rest, lobbies, rooms, room, local, audience, launches, admitted>>

-------------------------------------------------------------------------------
(* RequestJoinGameRoom *)

LookUp(c) ==
  /\ Goto(c, "lookup", IF lobbies[name[c]] = 0 THEN "fail" ELSE "check")
  /\ room' = [room EXCEPT ![c] = lobbies[name[c]]]
  /\ UNCHANGED <<Rest, lobbies, rooms, local, audience, launches, heard, admitted>>

\* As if a room took three.
CheckThree(c) ==
  /\ Goto(c, "check", IF rooms[room[c]].GamerCount < 3 THEN "success" ELSE "fail")
  /\ UNCHANGED <<Rest, lobbies, rooms, room, local, audience, launches, heard, admitted>>

\* IsMatchStarted is never set.
Check(c) ==
  /\ Goto(c, "check", IF rooms[room[c]].GamerCount < 2 THEN "success" ELSE "fail")
  /\ UNCHANGED <<Rest, lobbies, rooms, room, local, audience, launches, heard, admitted>>

JoinFailed(c) ==
  /\ Goto(c, "fail", "idle")
  /\ UNCHANGED <<Rest, lobbies, rooms, room, local, audience, launches, heard, admitted>>

JoinSuccess(c) ==
  /\ Goto(c, "success", "load")
  /\ Tell(c, "JoinSuccess", room[c])
  /\ admitted' = [admitted EXCEPT ![room[c]] = @ + 1]
  /\ UNCHANGED <<Rest, lobbies, rooms, room, local, audience, launches>>

\* lobby.GamerCount += 1, a load and a store.
LoadCount(c) ==
  /\ Goto(c, "load", "store")
  /\ local' = [local EXCEPT ![c] = rooms[room[c]].GamerCount]
  /\ UNCHANGED <<Rest, lobbies, rooms, room, audience, launches, heard, admitted>>

\* As if a join freed a place.
StoreCountDown(c) ==
  /\ Goto(c, "store", "insert")
  /\ rooms' = [rooms EXCEPT ![room[c]].GamerCount = local[c] - 1]
  /\ UNCHANGED <<Rest, lobbies, room, local, audience, launches, heard, admitted>>

StoreCount(c) ==
  /\ Goto(c, "store", "insert")
  /\ rooms' = [rooms EXCEPT ![room[c]].GamerCount = local[c] + 1]
  /\ UNCHANGED <<Rest, lobbies, room, local, audience, launches, heard, admitted>>

\* A loop over Players that is under way may or may not meet a new entry.
InsertPlayer(c) ==
  /\ Goto(c, "insert", "test")
  /\ rooms' = [rooms EXCEPT ![room[c]].Players = @ \cup {c}]
  /\ \E met \in SUBSET {k \in Running : launches[k].begun /\ launches[k].room = room[c]} :
       launches' = [k \in 1..Len(launches) |->
         IF k \in met THEN [launches[k] EXCEPT !.left = @ \cup {c}] ELSE launches[k]]
  /\ UNCHANGED <<Rest, lobbies, room, local, audience, heard, admitted>>

\* As if the game were started before the room is taken off the list, or only
\* once a third has joined.
TestCountStartsFirst(c) ==
  /\ Goto(c, "test", IF rooms[room[c]].GamerCount = 2 THEN "launch" ELSE "idle")
  /\ UNCHANGED <<Rest, lobbies, rooms, room, local, audience, launches, heard, admitted>>

TestCountMore(c) ==
  /\ Goto(c, "test", IF rooms[room[c]].GamerCount > 2 THEN "disappear" ELSE "idle")
  /\ UNCHANGED <<Rest, lobbies, rooms, room, local, audience, launches, heard, admitted>>

TestCount(c) ==
  /\ pc[c] = "test"
  /\ IF rooms[room[c]].GamerCount = 2
     THEN /\ pc' = [pc EXCEPT ![c] = "disappear"]
          /\ audience' = [audience EXCEPT ![c] = online]
     ELSE /\ pc' = [pc EXCEPT ![c] = "idle"]
          /\ UNCHANGED audience
  /\ UNCHANGED <<Rest, lobbies, rooms, room, local, launches, heard, admitted>>

Disappear(c) == CastTo(c, "disappear", "launch", "Disappear")

StartGame(c) ==
  /\ Goto(c, "launch", "idle")
  /\ launches' = Append(launches, [room |-> room[c], begun |-> FALSE, left |-> {}])
  /\ UNCHANGED <<Rest, lobbies, rooms, room, local, audience, heard, admitted>>

-------------------------------------------------------------------------------
(* handleStartGame *)

BeginLaunch(k) ==
  /\ ~launches[k].begun
  /\ launches' = [launches EXCEPT ![k].begun = TRUE,
                                  ![k].left = rooms[launches[k].room].Players]
  /\ UNCHANGED <<Rest, lobbies, rooms, pc, room, local, audience, heard, admitted>>

GotoGameRoom(k) ==
  \E p \in launches[k].left :
    /\ Tell(p, "Goto", launches[k].room)
    /\ launches' = [launches EXCEPT ![k].left = @ \ {p}]
    /\ UNCHANGED <<Rest, lobbies, rooms, pc, room, local, audience, admitted>>

-------------------------------------------------------------------------------
(* Concurrent map accesses the Go runtime may notice, and then stops the    *)
(* process: a write of a map met by a read, a write or a loop over it.      *)

MapClash ==
  \/ \E c, d \in Clients : c # d /\ pc[c] = "assign" /\ pc[d] \in {"assign", "lookup"}
  \/ \E c, d \in Clients :
       c # d /\ pc[c] = "insert" /\ pc[d] = "insert" /\ room[c] = room[d]
  \/ \E c \in Clients, k \in Running : pc[c] = "insert" /\ launches[k].room = room[c]

Crash ==
  /\ MapClash
  /\ crashed' = TRUE
  /\ online' = {}
  /\ pc' = [c \in Clients |-> "dead"]
  /\ launches' = [k \in 1..Len(launches) |-> [launches[k] EXCEPT !.begun = TRUE, !.left = {}]]
  /\ UNCHANGED <<joined, lobbies, rooms, name, room, local, audience, heard, missed, admitted,
                 asked, overlapped>>

Handler(c) ==
  \/ ReadLen(c) \/ AssignRoom(c) \/ Appear(c) \/ CreateSuccess(c)
  \/ LookUp(c) \/ Check(c) \/ JoinFailed(c) \/ JoinSuccess(c) \/ LoadCount(c) \/ StoreCount(c)
  \/ InsertPlayer(c) \/ TestCount(c) \/ Disappear(c) \/ StartGame(c)

StartGameLoop == \E k \in 1..Len(launches) : BeginLaunch(k) \/ GotoGameRoom(k)

Next ==
  \/ \E c \in Clients : Connect(c) \/ Disconnect(c) \/ Handler(c)
  \/ \E c \in Clients, n \in Names : RequestCreate(c, n) \/ RequestJoin(c, n)
  \/ StartGameLoop
  \/ Crash

\* Goroutines that can run do run.
Fairness ==
  /\ \A c \in Clients : WF_vars(Handler(c))
  /\ WF_vars(StartGameLoop)

Spec == Init /\ [][Next]_vars
FairSpec == Spec /\ Fairness

-------------------------------------------------------------------------------
(* Properties *)

\* However requests interleave, and even where joins race and more than two get
\* in, nobody is sent to a battle before it was told that it is in the room and,
\* unless it connected later, that the room has left the list: the handler tells
\* it, enters it in Players, broadcasts, and only then starts the game.
GotoComesLast ==
  \A c \in Clients, r \in RoomIx :
    <<"Goto", r>> \in heard[c] =>
      /\ <<"JoinSuccess", r>> \in heard[c]
      /\ <<"Disappear", r>> \in heard[c] \/ r \in missed[c]

\* As long as no two requests overlap, a room admits two, counts whom it
\* admitted and starts once, and the runtime finds nothing to stop for.
SerialRooms ==
  ~overlapped =>
    /\ ~crashed
    /\ \A r \in 1..Len(rooms) :
         /\ admitted[r] <= 2
         /\ Cardinality(LaunchesOf(r)) <= 1
         /\ Busy = {} => rooms[r].GamerCount = admitted[r]
         /\ LaunchesOf(r) # {} => rooms[r].GamerCount = 2

\* "Client creates/joins room -> server returns battle endpoint": two players
\* told that they are in a room both get the battle's address.
BothIn(c, r) ==
  \E d \in Clients \ {c} : <<"JoinSuccess", r>> \in heard[c] \cap heard[d]
SentOff(c, r) == <<"Goto", r>> \in heard[c] \/ c \notin online

GameStarts == \A c \in Clients, r \in RoomIx : BothIn(c, r) ~> SentOff(c, r)

\* They do, as long as no two requests overlap.
SerialGameStarts ==
  \A c \in Clients, r \in RoomIx : BothIn(c, r) ~> (SentOff(c, r) \/ overlapped)
===============================================================================
