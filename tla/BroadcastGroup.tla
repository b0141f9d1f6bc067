---------------------------- MODULE BroadcastGroup ----------------------------
(***************************************************************************)
(* What the connection registry and Broadcast promise together: a          *)
(* broadcast has one audience, the members at the moment it begins; nobody *)
(* joins or leaves while one is under way; and it ends only when every     *)
(* member of the audience has got its frame or has a broken connection.    *)
(***************************************************************************)
EXTENDS Naturals

CONSTANTS Clients

VARIABLES
  member,    \* the clients in the group
  casting,   \* clients whose broadcast is under way
  owed,      \* for each of them, the audience it has not written to yet
  buffered,  \* frames on their way to each client
  broken     \* clients whose connection has failed

vars == <<member, casting, owed, buffered, broken>>

Init ==
  /\ member = {}
  /\ casting = {}
  /\ owed = [c \in Clients |-> {}]
  /\ buffered = [c \in Clients |-> 0]
  /\ broken = {}

Join(c) ==
  /\ casting = {}
  /\ member' = member \cup {c}
  /\ UNCHANGED <<casting, owed, buffered, broken>>

Leave(c) ==
  /\ casting = {}
  /\ member' = member \ {c}
  /\ UNCHANGED <<casting, owed, buffered, broken>>

Begin(b) ==
  /\ b \in member \ casting
  /\ casting' = casting \cup {b}
  /\ owed' = [owed EXCEPT ![b] = member]
  /\ UNCHANGED <<member, buffered, broken>>

\* One frame to c, or none if its connection is broken.
Frame(c) ==
  IF c \in broken THEN UNCHANGED buffered ELSE buffered' = [buffered EXCEPT ![c] = @ + 1]

Deliver(b, c) ==
  /\ c \in owed[b]
  /\ owed' = [owed EXCEPT ![b] = @ \ {c}]
  /\ Frame(c)
  /\ UNCHANGED <<member, casting, broken>>

End(b) ==
  /\ b \in casting
  /\ owed[b] = {}
  /\ casting' = casting \ {b}
  /\ UNCHANGED <<member, owed, buffered, broken>>

\* A reply of c's own handler.
Reply(c) ==
  /\ c \in member
  /\ Frame(c)
  /\ UNCHANGED <<member, casting, owed, broken>>

Receive(c) ==
  /\ buffered[c] > 0
  /\ buffered' = [buffered EXCEPT ![c] = @ - 1]
  /\ UNCHANGED <<member, casting, owed, broken>>

\* Connections break and stay broken; what was under way may be lost.
Break ==
  /\ broken \subseteq broken'
  /\ \A c \in Clients : buffered'[c] # buffered[c] => c \in broken' /\ buffered'[c] = 0
  /\ UNCHANGED <<member, casting, owed>>

Next ==
  \/ \E c \in Clients : Join(c) \/ Leave(c) \/ Begin(c) \/ End(c) \/ Reply(c) \/ Receive(c)
  \/ \E b, c \in Clients : Deliver(b, c)
  \/ Break

Spec == Init /\ [][Next]_vars
===============================================================================
