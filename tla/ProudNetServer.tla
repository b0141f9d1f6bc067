---------------------------- MODULE ProudNetServer ----------------------------
(***************************************************************************)
(* The TCP core of the Go backend (server/internal/proudnet/server.go):    *)
(* one accept loop, one serve goroutine per connection, the registry of    *)
(* connections behind an RWMutex, and Broadcast, which writes to every     *)
(* registered connection while it holds the read lock.                     *)
(*                                                                         *)
(* A handler is the sequence of Send and Broadcast calls it makes.  One    *)
(* frame is one unit of a socket's send buffer; how a frame is cut into    *)
(* writes and read back is the subject of module FrameStream.              *)
(***************************************************************************)
EXTENDS Naturals, Sequences

CONSTANTS
  Conns,      \* the TCP connections clients may dial, each at most once
  Acceptor,   \* the goroutine of ListenAndServe
  Nil,        \* no connection, no goroutine
  Handlers,   \* what the registered handlers do: sequences of Calls
  BadFrame,   \* a frame ReadFrame rejects
  MaxHostID,  \* bound on the host ids given out (the code: int32)
  InCap,      \* bound on the frames a client has under way
  OutCap,     \* frames a socket's send buffer holds
  Senders,    \* the clients that send requests; the others only listen
  Draining    \* the clients that keep reading their socket

Calls == {"send", "broadcast"}

ASSUME ServerAssumption ==
  /\ Acceptor \notin Conns
  /\ Nil \notin Conns \cup {Acceptor}
  /\ Handlers \subseteq Seq(Calls)
  /\ BadFrame \notin Seq(Calls)
  /\ MaxHostID \in Nat \ {0, 1}
  /\ InCap \in Nat
  /\ OutCap \in Nat \ {0}
  /\ Senders \subseteq Conns
  /\ Draining \subseteq Conns

Goroutines == Conns \cup {Acceptor}
HostIDs == 2..MaxHostID   \* 0 is HostIDNone, 1 is the server itself

VARIABLES
  ctxDone,     \* the context is cancelled
  listening,   \* the listener is open
  accPC,       \* where the accept loop is
  accConn,     \* the connection it has just accepted
  nextHostID,
  conns,       \* the map HostID -> *Conn; Nil where there is no entry
  hostID,      \* the HostID field of each Conn, 0 before it is accepted
  link,        \* the server's end of each TCP connection
  gone,        \* connections the client has closed
  inbox,       \* frames sent by the client and not yet read
  queue,       \* frames in the send buffer towards the client
  pc,          \* where each serve goroutine is
  work,        \* the calls the running handler has still to make
  targets,     \* the host ids a Broadcast has still to write to
  current,     \* the one among them it is writing to, 0 if none
  writer, active, readers, parked   \* Server.mu

mu == INSTANCE RWMutex WITH Procs <- Goroutines, NoProc <- Nil

netVars == <<link, gone, inbox, queue>>
accVars == <<listening, accPC, accConn, nextHostID>>
castVars == <<targets, current>>
srvVars == <<pc, work, castVars>>
muVars == <<writer, active, readers, parked>>
vars == <<ctxDone, accVars, conns, hostID, netVars, srvVars, muVars>>

AccPCs == {"accept", "lock", "locking", "insert", "unlock", "spawn", "returned"}
PCs == {"none", "loop", "read", "handle", "rlock", "cast",
        "close", "lock", "locking", "delete", "unlock", "done"}

TypeOK ==
  /\ ctxDone \in BOOLEAN
  /\ listening \in BOOLEAN
  /\ accPC \in AccPCs
  /\ accConn \in Conns \cup {Nil}
  /\ nextHostID \in 2..(MaxHostID + 1)
  /\ conns \in [HostIDs -> Conns \cup {Nil}]
  /\ hostID \in [Conns -> HostIDs \cup {0}]
  /\ link \in [Conns -> {"unused", "dialed", "open", "closed"}]
  /\ gone \subseteq Conns
  /\ inbox \in [Conns -> Seq(Handlers \cup {BadFrame})]
  /\ queue \in [Conns -> 0..OutCap]
  /\ pc \in [Conns -> PCs]
  /\ work \in [Conns -> Seq(Calls)]
  /\ targets \in [Conns -> SUBSET HostIDs]
  /\ current \in [Conns -> HostIDs \cup {0}]
  /\ mu!LockTypeOK

Init ==
  /\ ctxDone = FALSE
  /\ listening = TRUE
  /\ accPC = "accept"
  /\ accConn = Nil
  /\ nextHostID = 2
  /\ conns = [h \in HostIDs |-> Nil]
  /\ hostID = [c \in Conns |-> 0]
  /\ link = [c \in Conns |-> "unused"]
  /\ gone = {}
  /\ inbox = [c \in Conns |-> <<>>]
  /\ queue = [c \in Conns |-> 0]
  /\ pc = [c \in Conns |-> "none"]
  /\ work = [c \in Conns |-> <<>>]
  /\ targets = [c \in Conns |-> {}]
  /\ current = [c \in Conns |-> 0]
  /\ mu!LockInit

Registered == {h \in HostIDs : conns[h] # Nil}
Online == {conns[h] : h \in Registered}

Goto(c, from, to) ==
  /\ pc[c] = from
  /\ pc' = [pc EXCEPT ![c] = to]

AccGoto(from, to) ==
  /\ accPC = from
  /\ accPC' = to

-------------------------------------------------------------------------------
(* The clients and the kernel *)

Dial(c) ==
  /\ listening
  /\ link[c] = "unused"
  /\ link' = [link EXCEPT ![c] = "dialed"]
  /\ UNCHANGED <<ctxDone, accVars, conns, hostID, gone, inbox, queue, srvVars, muVars>>

ClientSend(c) ==
  /\ c \in Senders
  /\ link[c] \in {"dialed", "open"}
  /\ c \notin gone
  /\ Len(inbox[c]) < InCap
  /\ \E r \in Handlers \cup {BadFrame} : inbox' = [inbox EXCEPT ![c] = Append(@, r)]
  /\ UNCHANGED <<ctxDone, accVars, conns, hostID, link, gone, queue, srvVars, muVars>>

\* The client takes one frame out of its socket.
Drain(c) ==
  /\ c \notin gone
  /\ queue[c] > 0
  /\ queue' = [queue EXCEPT ![c] = @ - 1]
  /\ UNCHANGED <<ctxDone, accVars, conns, hostID, link, gone, inbox, srvVars, muVars>>

\* The client closes or resets the connection; nobody reads its socket any more.
ClientClose(c) ==
  /\ link[c] \in {"dialed", "open"}
  /\ c \notin gone
  /\ gone' = gone \cup {c}
  /\ queue' = [queue EXCEPT ![c] = 0]
  /\ UNCHANGED <<ctxDone, accVars, conns, hostID, link, inbox, srvVars, muVars>>

Client(c) == Dial(c) \/ ClientSend(c) \/ Drain(c) \/ ClientClose(c)

\* A write to a connection in Lost returns at once and its frame goes nowhere;
\* any other write waits for room in the send buffer.
Lost == gone \cup {c \in Conns : link[c] = "closed"}

WriteToNoRoomCheck(d) ==
  IF d \in Lost THEN UNCHANGED queue ELSE queue' = [queue EXCEPT ![d] = @ + 1]

WriteToNeverFails(d) ==
  /\ queue[d] < OutCap
  /\ d \notin Lost
  /\ queue' = [queue EXCEPT ![d] = @ + 1]

WriteTo(d) ==
  \/ /\ d \in Lost
     /\ UNCHANGED queue
  \/ /\ d \notin Lost
     /\ queue[d] < OutCap
     /\ queue' = [queue EXCEPT ![d] = @ + 1]

-------------------------------------------------------------------------------
(* ListenAndServe.  An Accept that fails while the context is live changes *)
(* nothing and is not an action.                                           *)

CancelCtx ==
  /\ ~ctxDone
  /\ ctxDone' = TRUE
  /\ UNCHANGED <<accVars, conns, hostID, netVars, srvVars, muVars>>

\* The goroutine that waits for the context; the backlog is reset.
CloseListener ==
  /\ ctxDone
  /\ listening
  /\ listening' = FALSE
  /\ link' = [c \in Conns |-> IF link[c] = "dialed" THEN "closed" ELSE link[c]]
  /\ UNCHANGED <<ctxDone, accPC, accConn, nextHostID, conns, hostID, gone, inbox, queue,
                 srvVars, muVars>>

Accept ==
  /\ AccGoto("accept", "lock")
  /\ nextHostID <= MaxHostID
  /\ \E c \in Conns :
       /\ link[c] = "dialed"
       /\ link' = [link EXCEPT ![c] = "open"]
       /\ accConn' = c
       /\ hostID' = [hostID EXCEPT ![c] = nextHostID]
  /\ nextHostID' = nextHostID + 1
  /\ UNCHANGED <<ctxDone, listening, conns, gone, inbox, queue, srvVars, muVars>>

AcceptFails ==
  /\ ~listening
  /\ ctxDone
  /\ AccGoto("accept", "returned")
  /\ UNCHANGED <<ctxDone, listening, accConn, nextHostID, conns, hostID, netVars, srvVars,
                 muVars>>

AccAnnounce ==
  /\ AccGoto("lock", "locking")
  /\ mu!Announce(Acceptor)
  /\ UNCHANGED <<ctxDone, listening, accConn, nextHostID, conns, hostID, netVars, srvVars>>

AccEnter ==
  /\ AccGoto("locking", "insert")
  /\ mu!Enter(Acceptor)
  /\ UNCHANGED <<ctxDone, listening, accConn, nextHostID, conns, hostID, netVars, srvVars>>

Insert ==
  /\ AccGoto("insert", "unlock")
  /\ conns' = [conns EXCEPT ![hostID[accConn]] = accConn]
  /\ UNCHANGED <<ctxDone, listening, accConn, nextHostID, hostID, netVars, srvVars, muVars>>

AccUnlockForgotten ==
  /\ AccGoto("unlock", "spawn")
  /\ UNCHANGED <<ctxDone, listening, accConn, nextHostID, conns, hostID, netVars, srvVars,
                 muVars>>

AccUnlock ==
  /\ AccGoto("unlock", "spawn")
  /\ mu!Unlock(Acceptor)
  /\ UNCHANGED <<ctxDone, listening, accConn, nextHostID, conns, hostID, netVars, srvVars>>

Spawn ==
  /\ AccGoto("spawn", "accept")
  /\ Goto(accConn, "none", "loop")
  /\ accConn' = Nil
  /\ UNCHANGED <<ctxDone, listening, nextHostID, conns, hostID, netVars, work, castVars,
                 muVars>>

AcceptLoop ==
  Accept \/ AcceptFails \/ AccAnnounce \/ AccEnter \/ Insert \/ AccUnlock \/ Spawn

-------------------------------------------------------------------------------
(* The serve goroutine of connection c *)

LoopTop(c) ==
  /\ Goto(c, "loop", IF ctxDone THEN "close" ELSE "read")
  /\ UNCHANGED <<ctxDone, accVars, conns, hostID, netVars, work, castVars, muVars>>

\* A frame arrives.  The empty handler stands for one that is not an RMI, has
\* a bad header or no handler.
ReadFrame(c) ==
  /\ Goto(c, "read", "handle")
  /\ inbox[c] # <<>>
  /\ Head(inbox[c]) # BadFrame
  /\ work' = [work EXCEPT ![c] = Head(inbox[c])]
  /\ inbox' = [inbox EXCEPT ![c] = Tail(@)]
  /\ UNCHANGED <<ctxDone, accVars, conns, hostID, link, gone, queue, castVars, muVars>>

\* End of file, a reset (unread frames are lost with it) or a bad frame.
ReadFails(c) ==
  /\ Goto(c, "read", "close")
  /\ \/ c \in gone
     \/ inbox[c] # <<>> /\ Head(inbox[c]) = BadFrame
  /\ UNCHANGED <<ctxDone, accVars, conns, hostID, netVars, work, castVars, muVars>>

HandlerReturns(c) ==
  /\ Goto(c, "handle", "loop")
  /\ work[c] = <<>>
  /\ UNCHANGED <<ctxDone, accVars, conns, hostID, netVars, work, castVars, muVars>>

\* Is the next call of c's handler this one?
Calling(c, call) ==
  /\ pc[c] = "handle"
  /\ work[c] # <<>>
  /\ Head(work[c]) = call

Send(c) ==
  /\ Calling(c, "send")
  /\ WriteTo(c)
  /\ work' = [work EXCEPT ![c] = Tail(@)]
  /\ UNCHANGED <<ctxDone, accVars, conns, hostID, link, gone, inbox, pc, castVars, muVars>>

\* The loop over the map visits its entries in no particular order: the next
\* one of the hosts in S still to visit.
Visit(c, S) ==
  /\ targets' = [targets EXCEPT ![c] = S]
  /\ \E h \in (IF S = {} THEN {0} ELSE S) : current' = [current EXCEPT ![c] = h]

\* As if Broadcast took no lock.
BroadcastUnlocked(c) ==
  /\ Calling(c, "broadcast")
  /\ Goto(c, "handle", "cast")
  /\ Visit(c, Registered)
  /\ work' = [work EXCEPT ![c] = Tail(@)]
  /\ UNCHANGED <<ctxDone, accVars, conns, hostID, netVars, muVars>>

Broadcast(c) ==
  /\ Calling(c, "broadcast")
  /\ Goto(c, "handle", "rlock")
  /\ mu!RLock(c)
  /\ work' = [work EXCEPT ![c] = Tail(@)]
  /\ UNCHANGED <<ctxDone, accVars, conns, hostID, netVars, castVars>>

BroadcastLocked(c) ==
  /\ Goto(c, "rlock", "cast")
  /\ c \in readers
  /\ Visit(c, Registered)
  /\ UNCHANGED <<ctxDone, accVars, conns, hostID, netVars, work, muVars>>

\* As if the loop returned on the first failed write.
BroadcastSendGivesUp(c) ==
  /\ pc[c] = "cast"
  /\ current[c] # 0
  /\ WriteTo(conns[current[c]])
  /\ Visit(c, IF conns[current[c]] \in Lost THEN {} ELSE targets[c] \ {current[c]})
  /\ UNCHANGED <<ctxDone, accVars, conns, hostID, link, gone, inbox, pc, work, muVars>>

\* A failed write is logged and the loop goes on; a write that waits for room
\* holds up the entries behind it.
BroadcastSend(c) ==
  /\ pc[c] = "cast"
  /\ current[c] # 0
  /\ WriteTo(conns[current[c]])
  /\ Visit(c, targets[c] \ {current[c]})
  /\ UNCHANGED <<ctxDone, accVars, conns, hostID, link, gone, inbox, pc, work, muVars>>

BroadcastEndNoRUnlock(c) ==
  /\ Goto(c, "cast", "handle")
  /\ targets[c] = {}
  /\ UNCHANGED <<ctxDone, accVars, conns, hostID, netVars, work, castVars, muVars>>

BroadcastEnd(c) ==
  /\ Goto(c, "cast", "handle")
  /\ targets[c] = {}
  /\ mu!RUnlock(c)
  /\ UNCHANGED <<ctxDone, accVars, conns, hostID, netVars, work, castVars>>

CloseConn(c) ==
  /\ Goto(c, "close", "lock")
  /\ link' = [link EXCEPT ![c] = "closed"]
  /\ UNCHANGED <<ctxDone, accVars, conns, hostID, gone, inbox, queue, work, castVars, muVars>>

Announce(c) ==
  /\ Goto(c, "lock", "locking")
  /\ mu!Announce(c)
  /\ UNCHANGED <<ctxDone, accVars, conns, hostID, netVars, work, castVars>>

\* As if the deferred function took no lock.
EnterUnlocked(c) ==
  /\ Goto(c, "locking", "delete")
  /\ UNCHANGED <<ctxDone, accVars, conns, hostID, netVars, work, castVars, muVars>>

Enter(c) ==
  /\ Goto(c, "locking", "delete")
  /\ mu!Enter(c)
  /\ UNCHANGED <<ctxDone, accVars, conns, hostID, netVars, work, castVars>>

\* As if the entry of the newest connection were removed.
DeleteNewest(c) ==
  /\ Goto(c, "delete", "unlock")
  /\ conns' = [conns EXCEPT ![nextHostID - 1] = Nil]
  /\ UNCHANGED <<ctxDone, accVars, hostID, netVars, work, castVars, muVars>>

Delete(c) ==
  /\ Goto(c, "delete", "unlock")
  /\ conns' = [conns EXCEPT ![hostID[c]] = Nil]
  /\ UNCHANGED <<ctxDone, accVars, hostID, netVars, work, castVars, muVars>>

Unlock(c) ==
  /\ Goto(c, "unlock", "done")
  /\ mu!Unlock(c)
  /\ UNCHANGED <<ctxDone, accVars, conns, hostID, netVars, work, castVars>>

Serve(c) ==
  \/ LoopTop(c) \/ ReadFrame(c) \/ ReadFails(c) \/ HandlerReturns(c) \/ Send(c)
  \/ Broadcast(c) \/ BroadcastLocked(c) \/ BroadcastSend(c) \/ BroadcastEnd(c)
  \/ CloseConn(c) \/ Announce(c) \/ Enter(c) \/ Delete(c) \/ Unlock(c)

-------------------------------------------------------------------------------

Next ==
  \/ CancelCtx
  \/ CloseListener
  \/ AcceptLoop
  \/ \E c \in Conns : Client(c) \/ Serve(c)

\* Goroutines that can run do run.  A blocked Write keeps its place at the
\* socket (the descriptor's write lock queues writers), so a goroutine whose
\* write finds room again and again gets its turn: strong fairness.  Of the
\* clients, only those in Draining are trusted to keep reading.
Fairness ==
  /\ WF_vars(CloseListener)
  /\ WF_vars(AcceptLoop)
  /\ \A c \in Conns : SF_vars(Serve(c))
  /\ \A c \in Draining : WF_vars(Drain(c))

Spec == Init /\ [][Next]_vars
FairSpec == Spec /\ Fairness

-------------------------------------------------------------------------------
(* Properties *)

\* The part of serve between its start and the deferred delete.
Serving == {"loop", "read", "handle", "rlock", "cast", "close", "lock", "locking", "delete"}

\* The map holds a connection exactly while its goroutine serves it (from just
\* before go c.serve to the deferred delete), under that connection's own id,
\* whatever accepts, broadcasts and disconnects overlap.
RegistryExact ==
  /\ \A h \in Registered : hostID[conns[h]] = h
  /\ \A c \in Conns :
       c \in Online <=> \/ pc[c] \in Serving
                        \/ accConn = c /\ accPC \in {"unlock", "spawn"}

\* No goroutine iterates the map while another modifies it, and no two modify
\* it at once: a Go program that did would abort with a concurrent map access.
Modifying == {c \in Conns : pc[c] = "delete"} \cup (IF accPC = "insert" THEN {Acceptor} ELSE {})
Iterating == {c \in Conns : pc[c] = "cast"}

MapGuarded ==
  /\ \A p, q \in Modifying : p = q
  /\ Modifying # {} => Iterating = {}

\* Has b's broadcast still to write to d?
Owes(b, d) == pc[b] = "cast" /\ \E h \in targets[b] : conns[h] = d

\* What Broadcast promises its callers: module BroadcastGroup.
Group == INSTANCE BroadcastGroup WITH
           Clients <- Conns,
           member <- Online,
           owed <- [b \in Conns |-> {d \in Conns : Owes(b, d)}],
           casting <- {c \in Conns : pc[c] = "cast"},
           buffered <- queue,
           broken <- Lost
BroadcastIsAtomic == Group!Spec

\* "Broadcast sends to all currently connected clients": a client that keeps
\* reading gets its frame of every broadcast that has begun, unless it leaves.
BroadcastReachesReaders ==
  \A b \in Conns, d \in Draining :
    (Owes(b, d) /\ d \notin gone) ~> (~Owes(b, d) \/ d \in gone)

\* A connection whose client has left is closed and forgotten.
DepartedForgotten ==
  \A c \in Conns : (c \in gone /\ pc[c] # "none") ~> (pc[c] = "done" /\ c \notin Online)

\* A client in the backlog is served unless the server shuts down first.
DialedIsServed ==
  \A c \in Conns : link[c] = "dialed" ~> (pc[c] # "none" \/ ctxDone)
===============================================================================
