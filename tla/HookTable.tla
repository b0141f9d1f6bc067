------------------------------ MODULE HookTable --------------------------------
(***************************************************************************)
(* What the hook library of src/patcher/minhook promises its callers: each *)
(* function has no hook, a hook that is off, or a hook that is on, and a   *)
(* step changes one function along none <-> off <-> on, or forgets them    *)
(* all once none is on.                                                    *)
(***************************************************************************)
CONSTANT Targets    \* functions that can be hooked

VARIABLE hook       \* state of each function's hook

TypeOK == hook \in [Targets -> {"none", "off", "on"}]

Init == hook = [t \in Targets |-> "none"]

Turn(t, from, to) == hook[t] = from /\ hook' = [hook EXCEPT ![t] = to]

Create(t)  == Turn(t, "none", "off")
Enable(t)  == Turn(t, "off", "on")
Disable(t) == Turn(t, "on", "off")
Remove(t)  == Turn(t, "off", "none")

Reset ==
  /\ \A t \in Targets : hook[t] # "on"
  /\ hook' = [t \in Targets |-> "none"]

Next ==
  \/ \E t \in Targets : Create(t) \/ Enable(t) \/ Disable(t) \/ Remove(t)
  \/ Reset

Spec == Init /\ [][Next]_hook
===============================================================================
