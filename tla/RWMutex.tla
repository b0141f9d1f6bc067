------------------------------- MODULE RWMutex -------------------------------
(***************************************************************************)
(* Go's sync.RWMutex as the ProudNet stack uses it.  A writer first owns   *)
(* the writers' mutex and thereby announces itself (Announce); from then   *)
(* on new readers park.  It enters once the readers that were inside have  *)
(* left (Enter).  Unlock admits every parked reader before the next writer *)
(* can announce itself.                                                    *)
(***************************************************************************)
CONSTANTS Procs,   \* the goroutines that use the lock
          NoProc   \* no goroutine

VARIABLES writer,   \* the goroutine that has announced itself as writer, or NoProc
          active,   \* has that writer entered its critical section?
          readers,  \* goroutines that hold the read lock
          parked    \* goroutines that wait inside RLock

LockTypeOK ==
  /\ writer \in Procs \cup {NoProc}
  /\ active \in BOOLEAN
  /\ readers \subseteq Procs
  /\ parked \subseteq Procs

LockInit ==
  /\ writer = NoProc
  /\ active = FALSE
  /\ readers = {}
  /\ parked = {}

Announce(p) ==
  /\ writer = NoProc
  /\ writer' = p
  /\ UNCHANGED <<active, readers, parked>>

Enter(p) ==
  /\ writer = p
  /\ readers = {}
  /\ active' = TRUE
  /\ UNCHANGED <<writer, readers, parked>>

Unlock(p) ==
  /\ writer = p
  /\ writer' = NoProc
  /\ active' = FALSE
  /\ readers' = parked
  /\ parked' = {}

\* RLock returns once p is in readers.
RLock(p) ==
  /\ \/ /\ writer = NoProc
        /\ readers' = readers \cup {p}
        /\ UNCHANGED parked
     \/ /\ writer # NoProc
        /\ parked' = parked \cup {p}
        /\ UNCHANGED readers
  /\ UNCHANGED <<writer, active>>

RUnlock(p) ==
  /\ readers' = readers \ {p}
  /\ UNCHANGED <<writer, active, parked>>
==============================================================================
