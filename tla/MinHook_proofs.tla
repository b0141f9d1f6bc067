---------------------------- MODULE MinHook_proofs ----------------------------
(***************************************************************************)
(* Proofs about MinHook, for any functions and code, any callers, runners  *)
(* and memory blocks and any faults.                                       *)
(*                                                                         *)
(*   IInv        table, call under way and the bytes of the functions,     *)
(*               whatever the type of a slot is (Shape)                    *)
(*   PoolInv,    the allocator's lists and counts and the array of items,  *)
(*   ArrayInv    given IInv                                                *)
(*   RunnersInv  where the runners are, given those (Base)                 *)
(*   NoneCaught  that none is where bytes change under it, given all of    *)
(*               those and code that can be entered (Enterable)            *)
(***************************************************************************)
EXTENDS MinHook, Trampoline_proofs, FiniteSetTheorems, SequenceTheorems, TLAPS

Entries(S) == [target : Targets, slot : S, isEnabled : BOOLEAN, queueEnable : BOOLEAN]

Shape == \E S : hooks \in Seq(Entries(S))

\* What the call under way has still to do, and what it has done.
JobOK ==
  /\ job.op \in Ops \cup {"none"}
  /\ job.phase \in {"idle", "freeze", "patch", "finish"}
  /\ job.pos \in Nat /\ job.ok \in BOOLEAN
  /\ job = [op |-> job.op, phase |-> job.phase, pos |-> job.pos, todo |-> job.todo, ok |-> job.ok]
  /\ job.phase = "idle" => job = Idle
  /\ job.todo \subseteq DOMAIN hooks
  /\ job.phase = "finish" /\ job.ok = TRUE => job.todo = {}
  /\ job.op \in Single => job.pos \in DOMAIN hooks /\ job.todo \subseteq {job.pos}

\* A hook is off before it is forgotten.
OffFirst ==
  /\ job.op = "remove" /\ job.ok = TRUE /\ job.todo = {} => hooks[job.pos].isEnabled = FALSE
  /\ job.op = "uninit" /\ job.ok = TRUE =>
       \A p \in DOMAIN hooks \ job.todo : hooks[p].isEnabled = FALSE

\* Whether a function has a hook and whether it is on, and what a step does to
\* the hook of one function or of all.
State(t) == IF t \notin Hooked THEN "none" ELSE IF t \in patched THEN "on" ELSE "off"
Same == \A u \in Targets : State(u)' = State(u)
Turned(t, from, to) ==
  State(t) = from /\ State(t)' = to /\ \A u \in Targets \ {t} : State(u)' = State(u)
OneTurned ==
  \E t \in Targets : \/ Turned(t, "none", "off") \/ Turned(t, "off", "on")
                     \/ Turned(t, "on", "off") \/ Turned(t, "off", "none")
AllForgotten == \A u \in Targets : State(u) # "on" /\ State(u)' = "none"

IInv == Shape /\ patched \subseteq Targets /\ JobOK /\ OffFirst /\ TableExact

-------------------------------------------------------------------------------
(* Sequences and positions *)

LEMMA HooksAre ==
  ASSUME NEW S, hooks \in Seq(Entries(S))
  PROVE  /\ Len(hooks) \in Nat /\ DOMAIN hooks = 1 .. Len(hooks)
         /\ DOMAIN hooks \subseteq Nat
         /\ hooks \in [DOMAIN hooks -> Entries(S)]
         /\ \A p \in DOMAIN hooks : hooks[p] \in Entries(S)
OBVIOUS

LEMMA SeqOfMore ==
  ASSUME NEW S, NEW T, S \subseteq T, NEW s \in Seq(S)
  PROVE  s \in Seq(T)
OBVIOUS

LEMMA FindIs ==
  ASSUME NEW t \in Hooked
  PROVE  FindHookEntry(t) \in DOMAIN hooks /\ hooks[FindHookEntry(t)].target = t
<1>1. \E p \in DOMAIN hooks : hooks[p].target = t BY DEF Hooked
<1> QED BY <1>1, Zenon DEF FindHookEntry

\* The hooks are patched in the order of the table, which ends.
LEMMA NextIs ==
  ASSUME job.todo # {}, job.todo \subseteq Nat
  PROVE  NextToPatch \in job.todo
<1>1. \E x \in job.todo : \A y \in job.todo : x <= y BY Least
<1> QED BY <1>1, Zenon DEF NextToPatch

-------------------------------------------------------------------------------
(* Steps that leave table and code alone *)

LEMMA Quiet ==
  ASSUME IInv, hooks' = hooks, patched' = patched, JobOK', OffFirst',
         lock' = Nobody <=> job'.phase = "idle", frozen' # {} => job'.phase = "patch"
  PROVE  IInv' /\ Same
<1>1. Hooked' = Hooked BY DEF Hooked
<1>2. Shape' BY DEF IInv, Shape
<1>3. TableExact' BY <1>1 DEF IInv, TableExact
<1>4. Same BY <1>1 DEF Same, State
<1> QED BY <1>2, <1>3, <1>4 DEF IInv

LEMMA IdleIs ==
  ASSUME job' = Idle
  PROVE  JobOK' /\ OffFirst' /\ job'.phase = "idle"
BY DEF JobOK, OffFirst, Idle, Single

\* The call enters.
LEMMA Enter ==
  ASSUME IInv, NEW c \in Callers, NEW op \in Ops, NEW pos \in Nat, NEW todo \in SUBSET (DOMAIN hooks),
         op \in Single => pos \in DOMAIN hooks /\ todo \subseteq {pos},
         op = "remove" /\ todo = {} => hooks[pos].isEnabled = FALSE,
         op = "uninit" => \A p \in DOMAIN hooks \ todo : hooks[p].isEnabled = FALSE,
         EnterSpinLock(c, op, pos, todo)
  PROVE  IInv' /\ Same
<1> DEFINE phase == IF todo = {} THEN "finish" ELSE "freeze"
<1>1. /\ hooks' = hooks /\ patched' = patched /\ frozen' = frozen /\ lock' = c /\ lock = Nobody
      /\ job' = [op |-> op, pos |-> pos, todo |-> todo, ok |-> TRUE, phase |-> phase]
  BY DEF EnterSpinLock, tableVars
<1>2. phase \in {"finish", "freeze"} /\ (phase = "finish" => todo = {}) OBVIOUS
<1> HIDE DEF phase
<1>3. /\ job'.op = op /\ job'.pos = pos /\ job'.todo = todo /\ job'.ok = TRUE /\ job'.phase = phase
  BY <1>1
<1>4. JobOK'
  <2>1. job' = [op |-> job'.op, phase |-> job'.phase, pos |-> job'.pos, todo |-> job'.todo, ok |-> job'.ok]
    BY <1>1, <1>3
  <2>2. TRUE \in BOOLEAN OBVIOUS
  <2> QED BY <1>1, <1>2, <1>3, <2>1, <2>2 DEF JobOK
<1>5. OffFirst' BY <1>1, <1>3 DEF OffFirst
<1>6. c # Nobody BY MinHookAssumption
<1>7. frozen = {} BY <1>1 DEF IInv, TableExact
<1> QED BY <1>1, <1>2, <1>3, <1>4, <1>5, <1>6, <1>7, Quiet

LEMMA CallStays ==
  ASSUME IInv, NEW c \in Callers, Call(c)
  PROVE  IInv' /\ Same
<1>1. PICK S : hooks \in Seq(Entries(S)) BY DEF IInv, Shape
<1>2. /\ DOMAIN hooks \subseteq Nat
      /\ \A p \in DOMAIN hooks : hooks[p].isEnabled \in BOOLEAN
  BY <1>1, HooksAre DEF Entries
<1>3. \A op, p : op \in {"remove", "uninit"} => Wanted(op, p) = FALSE BY DEF Wanted
<1>4. \A p \in DOMAIN hooks : hooks[p].isEnabled # FALSE \/ hooks[p].isEnabled = FALSE OBVIOUS
<1>5. {"enable", "disable", "remove", "enable all", "disable all", "apply", "uninit"} \subseteq Ops
  BY DEF Ops, Single
<1>6. ASSUME NEW t \in Targets, MH_RemoveHook(c, t) PROVE IInv' /\ Same
  <2> DEFINE pos == FindHookEntry(t)
             todo == Changes("remove", {pos})
  <2>1. pos \in DOMAIN hooks BY <1>6, FindIs DEF MH_RemoveHook
  <2>2. EnterSpinLock(c, "remove", pos, todo) BY <1>6 DEF MH_RemoveHook
  <2>3. todo \subseteq {pos} /\ (todo = {} => hooks[pos].isEnabled = FALSE)
    BY <1>3, <2>1 DEF Changes
  <2> HIDE DEF pos, todo
  <2>4. todo \in SUBSET (DOMAIN hooks) /\ pos \in Nat BY <1>2, <2>1, <2>3
  <2>5. "remove" # "uninit" /\ "remove" \in Ops BY <1>5
  <2> QED BY <2>1, <2>2, <2>3, <2>4, <2>5, Enter
<1>7. ASSUME NEW t \in Targets, NEW e, EnableHook(c, t, e) PROVE IInv' /\ Same
  <2> DEFINE op == IF e THEN "enable" ELSE "disable"
             pos == FindHookEntry(t)
  <2>1. pos \in DOMAIN hooks BY <1>7, FindIs DEF EnableHook
  <2>2. EnterSpinLock(c, op, pos, {pos}) BY <1>7 DEF EnableHook
  <2>3. op \in {"enable", "disable"} OBVIOUS
  <2> HIDE DEF pos, op
  <2>4. {pos} \in SUBSET (DOMAIN hooks) /\ pos \in Nat BY <1>2, <2>1
  <2>5. op \in Ops /\ op # "remove" /\ op # "uninit" BY <1>5, <2>3
  <2> QED BY <2>1, <2>2, <2>4, <2>5, Enter
<1>8. ASSUME NEW op \in {"enable all", "disable all", "apply", "uninit"},
             EnterSpinLock(c, op, 0, Changes(op, DOMAIN hooks))
      PROVE  IInv' /\ Same
  <2> DEFINE todo == Changes(op, DOMAIN hooks)
  <2>1. todo \in SUBSET (DOMAIN hooks) BY DEF Changes
  <2>2. op = "uninit" => \A p \in DOMAIN hooks \ todo : hooks[p].isEnabled = FALSE
    BY <1>3 DEF Changes
  <2>3. op \in Ops /\ op \notin Single /\ op # "remove" /\ 0 \in Nat BY <1>5 DEF Single
  <2>4. EnterSpinLock(c, op, 0, todo) BY <1>8
  <2> HIDE DEF todo
  <2> QED BY <2>1, <2>2, <2>3, <2>4, Enter
<1>9. CASE \/ MH_EnableAll(c) \/ MH_DisableAll(c) \/ MH_ApplyQueued(c) \/ MH_Uninitialize(c)
  BY <1>8, <1>9 DEF MH_EnableAll, MH_DisableAll, MH_ApplyQueued, MH_Uninitialize, EnableAllHooksLL
<1> QED BY <1>6, <1>7, <1>9 DEF Call

\* Runners are suspended, missed or let go; the call gives up or returns.
LEMMA QuietSteps ==
  ASSUME IInv, \/ MH_Initialize \/ Freeze \/ FreezeFails \/ ProtectFails \/ Unfreeze \/ Finish
               \/ \E r \in Runners : Run(r)
  PROVE  IInv' /\ Same
<1>1. /\ JobOK /\ OffFirst
      /\ lock = Nobody <=> job.phase = "idle"
      /\ frozen # {} => job.phase = "patch"
  BY DEF IInv, TableExact
<1>2. CASE MH_Initialize \/ \E r \in Runners : Run(r)
  <2>1. hooks' = hooks /\ patched' = patched /\ job' = job /\ lock' = lock /\ frozen' = frozen
    BY <1>2 DEF MH_Initialize, Run, tableVars
  <2>2. JobOK' /\ OffFirst' BY <1>1, <2>1 DEF JobOK, OffFirst
  <2> QED BY <1>1, <2>1, <2>2, Quiet
<1>3. CASE Freeze
  <2>1. /\ hooks' = hooks /\ patched' = patched /\ lock' = lock /\ job.phase = "freeze"
        /\ job' = [job EXCEPT !.phase = "patch"]
    BY <1>3 DEF Freeze, tableVars
  <2>2. /\ job'.op = job.op /\ job'.pos = job.pos /\ job'.todo = job.todo /\ job'.ok = job.ok
        /\ job'.phase = "patch"
    BY <1>1, <2>1 DEF JobOK
  <2>3. JobOK' BY <1>1, <2>1, <2>2 DEF JobOK
  <2>4. OffFirst' BY <1>1, <2>1, <2>2 DEF OffFirst
  <2> QED BY <1>1, <2>1, <2>2, <2>3, <2>4, Quiet
<1>4. CASE FreezeFails
  <2>1. /\ hooks' = hooks /\ patched' = patched /\ lock' = lock /\ job.phase = "freeze" /\ frozen' = frozen
        /\ job' = [job EXCEPT !.phase = "finish", !.ok = FALSE]
    BY <1>4 DEF FreezeFails, tableVars
  <2>2. /\ job'.op = job.op /\ job'.pos = job.pos /\ job'.todo = job.todo /\ job'.ok = FALSE
        /\ job'.phase = "finish"
    BY <1>1, <2>1 DEF JobOK
  <2>3. JobOK' BY <1>1, <2>1, <2>2 DEF JobOK
  <2>4. OffFirst' BY <2>2 DEF OffFirst
  <2> QED BY <1>1, <2>1, <2>2, <2>3, <2>4, Quiet
<1>5. CASE ProtectFails
  <2>1. /\ hooks' = hooks /\ patched' = patched /\ lock' = lock /\ job.phase = "patch"
        /\ job' = [job EXCEPT !.todo = {}, !.ok = FALSE]
    BY <1>5 DEF ProtectFails, tableVars
  <2>2. /\ job'.op = job.op /\ job'.pos = job.pos /\ job'.todo = {} /\ job'.ok = FALSE
        /\ job'.phase = "patch"
    BY <1>1, <2>1 DEF JobOK
  <2>3. JobOK' BY <1>1, <2>1, <2>2 DEF JobOK
  <2>4. OffFirst' BY <2>2 DEF OffFirst
  <2> QED BY <1>1, <2>1, <2>2, <2>3, <2>4, Quiet
<1>6. CASE Unfreeze
  <2>1. /\ hooks' = hooks /\ patched' = patched /\ lock' = lock /\ job.phase = "patch" /\ job.todo = {}
        /\ frozen' = {} /\ job' = [job EXCEPT !.phase = "finish"]
    BY <1>6 DEF Unfreeze, tableVars
  <2>2. /\ job'.op = job.op /\ job'.pos = job.pos /\ job'.todo = {} /\ job'.ok = job.ok
        /\ job'.phase = "finish"
    BY <1>1, <2>1 DEF JobOK
  <2>3. JobOK' BY <1>1, <2>1, <2>2 DEF JobOK
  <2>4. OffFirst' BY <1>1, <2>1, <2>2 DEF OffFirst
  <2> QED BY <1>1, <2>1, <2>2, <2>3, <2>4, Quiet
<1>7. CASE Finish
  <2>1. /\ hooks' = hooks /\ patched' = patched /\ lock' = Nobody /\ frozen' = frozen /\ job' = Idle
        /\ job.phase = "finish"
    BY <1>7 DEF Finish, LeaveSpinLock, tableVars
  <2> QED BY <1>1, <2>1, IdleIs, Quiet
<1> QED BY <1>2, <1>3, <1>4, <1>5, <1>6, <1>7

-------------------------------------------------------------------------------
(* Calls that change the table *)

LEMMA CreateStays ==
  ASSUME IInv, NEW t \in Targets, MH_CreateHook(t)
  PROVE  IInv' /\ (Same \/ Turned(t, "none", "off"))
<1>1. /\ JobOK /\ OffFirst /\ t \notin Hooked /\ patched' = patched /\ job' = job /\ lock' = lock
      /\ frozen' = frozen /\ (lock = Nobody <=> job.phase = "idle") /\ lock = Nobody
      /\ (frozen # {} => job.phase = "patch") /\ patched \subseteq Hooked
  BY DEF IInv, TableExact, MH_CreateHook
<1>2. job' = Idle BY <1>1 DEF JobOK
<1>3. CASE hooks' = hooks BY <1>1, <1>2, <1>3, IdleIs, Quiet
<1>4. ASSUME NEW s, hooks' = Append(hooks, [target |-> t, slot |-> s, isEnabled |-> FALSE,
                                            queueEnable |-> FALSE])
      PROVE  IInv' /\ Turned(t, "none", "off")
  <2> DEFINE e == [target |-> t, slot |-> s, isEnabled |-> FALSE, queueEnable |-> FALSE]
             n == Len(hooks)
  <2>1. PICK S : hooks \in Seq(Entries(S)) BY DEF IInv, Shape
  <2>2. e \in Entries(S \cup {s}) /\ e.target = t /\ e.isEnabled = FALSE BY DEF Entries
  <2>3. Entries(S) \subseteq Entries(S \cup {s}) BY DEF Entries
  <2>4. hooks' = Append(hooks, e) BY <1>4
  <2> HIDE DEF e
  <2>5. hooks \in Seq(Entries(S \cup {s})) BY <2>1, <2>3, SeqOfMore
  <2>6. Shape' BY <2>2, <2>4, <2>5 DEF Shape
  <2>7. /\ n \in Nat /\ DOMAIN hooks = 1 .. n /\ DOMAIN hooks' = 1 .. (n + 1)
        /\ hooks'[n + 1] = e /\ \A p \in 1 .. n : hooks'[p] = hooks[p]
    BY <2>1, <2>4
  <2> HIDE DEF n
  <2>8. \A p \in DOMAIN hooks' : p \in DOMAIN hooks \/ p = n + 1 BY <2>7
  <2>9. n + 1 \in DOMAIN hooks' /\ DOMAIN hooks \subseteq DOMAIN hooks' BY <2>7
  <2>10. \A p \in DOMAIN hooks : hooks[p].target \in Hooked /\ hooks[p].target # t
    BY <1>1 DEF Hooked
  <2>11. Hooked' = Hooked \cup {t} BY <2>2, <2>7, <2>8, <2>9 DEF Hooked
  <2>12. t \notin patched BY <1>1
  <2>13. TableExact'
    <3>1. \A p, q \in DOMAIN hooks' : hooks'[p].target = hooks'[q].target => p = q
      BY <2>2, <2>7, <2>8, <2>10 DEF IInv, TableExact
    <3>2. \A p \in DOMAIN hooks' : hooks'[p].isEnabled <=> hooks'[p].target \in patched
      BY <2>2, <2>7, <2>8, <2>12 DEF IInv, TableExact
    <3> QED BY <1>1, <2>11, <3>1, <3>2 DEF TableExact
  <2>14. Turned(t, "none", "off")
    <3>1. State(t) = "none" /\ State(t)' = "off" BY <1>1, <2>11, <2>12 DEF State
    <3>2. \A u \in Targets \ {t} : State(u)' = State(u) BY <1>1, <2>11 DEF State
    <3> QED BY <3>1, <3>2 DEF Turned
  <2> QED BY <1>1, <1>2, <2>6, <2>13, <2>14, IdleIs DEF IInv
<1>5. hooks' = hooks \/ \E s : hooks' = Append(hooks, [target |-> t, slot |-> s, isEnabled |-> FALSE,
                                                      queueEnable |-> FALSE])
  BY DEF MH_CreateHook, AddHookEntry, AddFails
<1> QED BY <1>3, <1>4, <1>5

LEMMA QueueStays ==
  ASSUME IInv, NEW ts, NEW enable \in BOOLEAN, QueueHook(ts, enable)
  PROVE  IInv' /\ Same
<1>1. /\ JobOK /\ OffFirst /\ patched' = patched /\ job' = job /\ lock' = lock
      /\ frozen' = frozen /\ (lock = Nobody <=> job.phase = "idle") /\ lock = Nobody
      /\ (frozen # {} => job.phase = "patch") /\ patched \subseteq Hooked
  BY DEF IInv, TableExact, QueueHook
<1>2. job' = Idle BY <1>1 DEF JobOK
<1>3. PICK S : hooks \in Seq(Entries(S)) BY DEF IInv, Shape
<1>4. /\ Len(hooks) \in Nat /\ DOMAIN hooks = 1 .. Len(hooks)
      /\ \A p \in DOMAIN hooks : hooks[p] \in Entries(S)
  BY <1>3, HooksAre
<1>5. hooks' = [p \in DOMAIN hooks |->
         IF hooks[p].target \in ts THEN [hooks[p] EXCEPT !.queueEnable = enable] ELSE hooks[p]]
  BY DEF QueueHook
<1>6. \A p \in DOMAIN hooks :
         /\ hooks'[p] \in Entries(S)
         /\ hooks'[p].target = hooks[p].target /\ hooks'[p].isEnabled = hooks[p].isEnabled
  BY <1>4, <1>5 DEF Entries
<1>7. DOMAIN hooks' = DOMAIN hooks /\ hooks' = [p \in DOMAIN hooks |-> hooks'[p]] BY <1>5
<1>8. hooks' \in Seq(Entries(S))
  <2>1. hooks' \in [1 .. Len(hooks) -> Entries(S)] BY <1>4, <1>6, <1>7
  <2> QED BY <1>4, <2>1
<1>9. Shape' BY <1>8 DEF Shape
<1>10. Hooked' = Hooked BY <1>6, <1>7 DEF Hooked
<1>11. TableExact' BY <1>1, <1>6, <1>7, <1>10 DEF IInv, TableExact
<1>12. Same BY <1>1, <1>10 DEF Same, State
<1> QED BY <1>1, <1>2, <1>9, <1>11, <1>12, IdleIs DEF IInv

LEMMA EnableHookLLStays ==
  ASSUME IInv, EnableHookLL
  PROVE  IInv' /\ (Same \/ OneTurned)
<1> DEFINE p == NextToPatch
           enable == Wanted(job.op, p)
<1>1. PICK S : hooks \in Seq(Entries(S)) BY DEF IInv, Shape
<1>2. /\ Len(hooks) \in Nat /\ DOMAIN hooks = 1 .. Len(hooks) /\ DOMAIN hooks \subseteq Nat
      /\ hooks \in [DOMAIN hooks -> Entries(S)]
      /\ \A q \in DOMAIN hooks : hooks[q] \in Entries(S)
  BY <1>1, HooksAre
<1>3. /\ JobOK /\ OffFirst /\ TableExact /\ patched \subseteq Targets
      /\ job.phase = "patch" /\ job.todo # {} /\ job.todo \subseteq DOMAIN hooks
  BY DEF IInv, EnableHookLL, JobOK
<1>4. p \in job.todo BY <1>2, <1>3, NextIs
<1>5. p \in DOMAIN hooks /\ hooks[p].target \in Targets BY <1>2, <1>3, <1>4 DEF Entries
<1>t. PICK t \in Targets : t = hooks[p].target BY <1>5
<1>6. /\ enable = TRUE \/ enable = FALSE
      /\ job.op \in {"remove", "uninit"} => enable = FALSE
  <2>1. hooks[p].queueEnable = TRUE \/ hooks[p].queueEnable = FALSE BY <1>2, <1>5 DEF Entries
  <2> QED BY <2>1 DEF Wanted
<1>7. /\ patched' = (IF enable THEN patched \cup {t} ELSE patched \ {t})
      /\ hooks' = [hooks EXCEPT ![p].isEnabled = enable, ![p].queueEnable = enable]
      /\ job' = [job EXCEPT !.todo = @ \ {p}]
      /\ lock' = lock /\ frozen' = frozen
  BY <1>t DEF EnableHookLL
<1> HIDE DEF p, enable
<1>8. /\ DOMAIN hooks' = DOMAIN hooks /\ hooks' = [q \in DOMAIN hooks |-> hooks'[q]]
      /\ \A q \in DOMAIN hooks \ {p} : hooks'[q] = hooks[q]
      /\ hooks'[p].target = t /\ hooks'[p].isEnabled = enable
      /\ hooks'[p] \in Entries(S)
  BY <1>t, <1>2, <1>5, <1>6, <1>7 DEF Entries
<1>9. \A q \in DOMAIN hooks : hooks'[q].target = hooks[q].target BY <1>t, <1>8
<1>10. Shape'
  <2>1. hooks' \in [1 .. Len(hooks) -> Entries(S)] BY <1>2, <1>8
  <2>2. hooks' \in Seq(Entries(S)) BY <1>2, <2>1
  <2> QED BY <2>2 DEF Shape
<1>11. Hooked' = Hooked BY <1>8, <1>9 DEF Hooked
<1>12. /\ job'.op = job.op /\ job'.pos = job.pos /\ job'.todo = job.todo \ {p}
       /\ job'.ok = job.ok /\ job'.phase = "patch"
       /\ job' = [op |-> job'.op, phase |-> job'.phase, pos |-> job'.pos, todo |-> job'.todo,
                  ok |-> job'.ok]
  BY <1>3, <1>7 DEF JobOK
<1>13. JobOK' BY <1>3, <1>8, <1>12 DEF JobOK
<1>14. OffFirst'
  <2>1. ASSUME job.op = "remove", job.todo \ {p} = {} PROVE hooks'[job.pos].isEnabled = FALSE
    <3>1. p = job.pos BY <1>3, <1>4, <2>1 DEF JobOK, Single
    <3> QED BY <1>6, <1>8, <2>1, <3>1
  <2>2. ASSUME job.op = "uninit", job.ok = TRUE, NEW q \in DOMAIN hooks \ (job.todo \ {p})
        PROVE  hooks'[q].isEnabled = FALSE
    <3>1. CASE q = p BY <1>6, <1>8, <2>2, <3>1
    <3>2. CASE q # p BY <1>3, <1>8, <2>2, <3>2 DEF OffFirst
    <3> QED BY <3>1, <3>2
  <2> QED BY <1>8, <1>12, <2>1, <2>2 DEF OffFirst
<1>15. t \in Hooked /\ \A q \in DOMAIN hooks \ {p} : hooks[q].target # t
  BY <1>t, <1>3, <1>5 DEF Hooked, TableExact
<1>16. \A q, r \in DOMAIN hooks' : hooks'[q].target = hooks'[r].target => q = r
  BY <1>3, <1>8, <1>9 DEF TableExact
<1>17. /\ patched \subseteq Hooked /\ \A q \in DOMAIN hooks : hooks[q].isEnabled <=> hooks[q].target \in patched
       /\ (lock = Nobody <=> job.phase = "idle") /\ (frozen # {} => job.phase = "patch")
  BY <1>3 DEF TableExact
<1>18. CASE enable = TRUE
  <2>1. patched' = patched \cup {t} BY <1>7, <1>18
  <2>2. \A q \in DOMAIN hooks' : hooks'[q].isEnabled <=> hooks'[q].target \in patched'
    BY <1>8, <1>15, <1>17, <1>18, <2>1
  <2>3. TableExact' BY <1>3, <1>7, <1>11, <1>12, <1>15, <1>16, <1>17, <2>1, <2>2 DEF TableExact
  <2>4. \A u \in Targets \ {t} : State(u)' = State(u) BY <1>11, <2>1 DEF State
  <2>5. State(t)' = "on" /\ State(t) \in {"on", "off"} BY <1>11, <1>15, <2>1 DEF State
  <2>6. Same \/ Turned(t, "off", "on") BY <2>4, <2>5 DEF Same, Turned
  <2>7. patched' \subseteq Targets BY <1>t, <1>3, <2>1
  <2> QED BY <1>t, <1>10, <1>13, <1>14, <2>3, <2>6, <2>7 DEF IInv, OneTurned
<1>19. CASE enable = FALSE
  <2>1. patched' = patched \ {t} BY <1>7, <1>19
  <2>2. \A q \in DOMAIN hooks' : hooks'[q].isEnabled <=> hooks'[q].target \in patched'
    BY <1>8, <1>15, <1>17, <1>19, <2>1
  <2>3. TableExact' BY <1>3, <1>7, <1>11, <1>12, <1>15, <1>16, <1>17, <2>1, <2>2 DEF TableExact
  <2>4. \A u \in Targets \ {t} : State(u)' = State(u) BY <1>11, <2>1 DEF State
  <2>5. State(t)' = "off" /\ State(t) \in {"on", "off"} BY <1>11, <1>15, <2>1 DEF State
  <2>6. Same \/ Turned(t, "on", "off") BY <2>4, <2>5 DEF Same, Turned
  <2>7. patched' \subseteq Targets BY <1>3, <2>1
  <2> QED BY <1>t, <1>10, <1>13, <1>14, <2>3, <2>6, <2>7 DEF IInv, OneTurned
<1> QED BY <1>6, <1>18, <1>19

LEMMA FinishRemoveStays ==
  ASSUME IInv, FinishRemove
  PROVE  IInv' /\ OneTurned
<1> DEFINE pos == job.pos
           n == Len(hooks)
<1>1. PICK S : hooks \in Seq(Entries(S)) BY DEF IInv, Shape
<1>2. /\ n \in Nat /\ DOMAIN hooks = 1 .. n
      /\ \A q \in DOMAIN hooks : hooks[q] \in Entries(S)
  BY <1>1, HooksAre
<1>3. /\ JobOK /\ OffFirst /\ TableExact /\ patched \subseteq Targets
      /\ job.phase = "finish" /\ job.op = "remove" /\ job.ok = TRUE
  BY DEF IInv, FinishRemove, JobOK
<1>4. /\ pos \in DOMAIN hooks /\ job.todo = {}
  BY <1>3 DEF JobOK, Single
<1>5. hooks[pos].isEnabled = FALSE BY <1>3, <1>4 DEF OffFirst
<1>t. PICK t \in Targets : t = hooks[pos].target BY <1>2, <1>4 DEF Entries
<1>6. t \in Hooked /\ t \notin patched
  BY <1>t, <1>2, <1>3, <1>4, <1>5 DEF Hooked, TableExact
<1>7. /\ hooks' = [q \in 1 .. n - 1 |-> hooks[IF q = pos THEN n ELSE q]]
      /\ lock' = Nobody /\ job' = Idle /\ frozen' = frozen /\ patched' = patched
  BY DEF FinishRemove, DeleteHookEntry, LeaveSpinLock
<1>8. /\ patched \subseteq Hooked /\ \A q \in DOMAIN hooks : hooks[q].isEnabled <=> hooks[q].target \in patched
      /\ frozen = {}
      /\ \A q, r \in DOMAIN hooks : hooks[q].target = hooks[r].target => q = r
  BY <1>3 DEF TableExact
<1> HIDE DEF pos, n
<1> DEFINE from(q) == IF q = pos THEN n ELSE q
<1>9. /\ DOMAIN hooks' = 1 .. n - 1
      /\ \A q \in DOMAIN hooks' : hooks'[q] = hooks[from(q)]
  BY <1>7
<1>10. /\ \A q \in DOMAIN hooks' : from(q) \in DOMAIN hooks /\ from(q) # pos
       /\ \A q, r \in DOMAIN hooks' : from(q) = from(r) => q = r
       /\ \A r \in DOMAIN hooks \ {pos} : \E q \in DOMAIN hooks' : from(q) = r
  <2>1. pos \in 1 .. n BY <1>2, <1>4
  <2>2. ASSUME NEW r \in DOMAIN hooks \ {pos} PROVE \E q \in DOMAIN hooks' : from(q) = r
    <3>1. CASE r = n
      <4>1. pos \in DOMAIN hooks' BY <1>2, <1>9, <2>1, <2>2, <3>1
      <4> QED BY <4>1, <3>1
    <3>2. CASE r # n
      <4>1. r \in DOMAIN hooks' /\ r # pos BY <1>2, <1>9, <2>1, <2>2, <3>2
      <4> QED BY <4>1
    <3> QED BY <3>1, <3>2
  <2> QED BY <1>2, <1>9, <2>1, <2>2
<1> HIDE DEF from
<1>11. Shape'
  <2>1. hooks' \in [1 .. n - 1 -> Entries(S)] BY <1>2, <1>7, <1>9, <1>10
  <2>2. n - 1 \in Nat BY <1>2, <1>4
  <2>3. hooks' \in Seq(Entries(S)) BY <2>1, <2>2
  <2> QED BY <2>3 DEF Shape
<1>12. Hooked' = Hooked \ {t}
  <2>1. Hooked' \subseteq Hooked \ {t} BY <1>t, <1>4, <1>8, <1>9, <1>10 DEF Hooked
  <2>2. Hooked \ {t} \subseteq Hooked' BY <1>t, <1>9, <1>10 DEF Hooked
  <2> QED BY <2>1, <2>2
<1>13. \A q, r \in DOMAIN hooks' : hooks'[q].target = hooks'[r].target => q = r
  BY <1>8, <1>9, <1>10
<1>14. \A q \in DOMAIN hooks' : hooks'[q].isEnabled <=> hooks'[q].target \in patched'
  BY <1>7, <1>8, <1>9, <1>10
<1>15. JobOK' /\ OffFirst' /\ job'.phase = "idle" BY <1>7, IdleIs
<1>16. frozen = {} BY <1>3 DEF TableExact
<1>17. TableExact' BY <1>6, <1>7, <1>8, <1>12, <1>13, <1>14, <1>15, <1>16 DEF TableExact
<1>18. Turned(t, "off", "none") BY <1>6, <1>7, <1>12 DEF Turned, State
<1> QED BY <1>t, <1>3, <1>7, <1>11, <1>15, <1>17, <1>18 DEF IInv, OneTurned

LEMMA FinishUninitializeStays ==
  ASSUME IInv, FinishUninitialize
  PROVE  IInv' /\ AllForgotten
<1>1. /\ JobOK /\ OffFirst /\ TableExact
      /\ job.phase = "finish" /\ job.op = "uninit" /\ job.ok = TRUE
  BY DEF IInv, FinishUninitialize, JobOK
<1>2. job.todo = {} BY <1>1 DEF JobOK
<1>3. \A p \in DOMAIN hooks : hooks[p].isEnabled = FALSE BY <1>1, <1>2 DEF OffFirst
<1>4. patched = {} BY <1>1, <1>3 DEF TableExact, Hooked
<1>5. frozen = {} BY <1>1 DEF TableExact
<1>6. hooks' = <<>> /\ lock' = Nobody /\ job' = Idle /\ frozen' = {} /\ patched' = {}
  BY <1>4, <1>5 DEF FinishUninitialize, LeaveSpinLock
<1>7. hooks' \in Seq(Entries({})) /\ DOMAIN hooks' = {} BY <1>6
<1>8. Shape' BY <1>7 DEF Shape
<1>9. Hooked' = {} BY <1>7 DEF Hooked
<1>10. JobOK' /\ OffFirst' /\ job'.phase = "idle" BY <1>6, IdleIs
<1>11. TableExact' BY <1>6, <1>7, <1>9, <1>10 DEF TableExact
<1>12. AllForgotten BY <1>4, <1>9 DEF AllForgotten, State
<1> QED BY <1>6, <1>8, <1>10, <1>11, <1>12 DEF IInv

-------------------------------------------------------------------------------
(* The allocator *)

SlotNos == 1 .. SlotsPerBlock
Elems(s) == {s[i] : i \in DOMAIN s}
Once(s) == \A i, j \in DOMAIN s : s[i] = s[j] => i = j

Pools == [list : Seq(Blocks), free : [Blocks -> Seq(SlotNos)], used : [Blocks -> Int]]

\* In pool p the slots U[b] of block b are in use.
BlockOK(p, U, b) ==
  /\ U[b] \subseteq SlotNos
  /\ Once(p.free[b]) /\ Elems(p.free[b]) \cap U[b] = {}
  /\ b \in Listed(p) => p.used[b] = Cardinality(U[b]) /\ Elems(p.free[b]) \cup U[b] = SlotNos
  /\ b \notin Listed(p) => p.free[b] = <<>> /\ U[b] = {}

PoolOK(p, U) == p \in Pools /\ Once(p.list) /\ \A b \in Blocks : BlockOK(p, U, b)

LEMMA SlotNosFinite ==
  /\ SlotsPerBlock \in Nat /\ 1 \in SlotNos /\ IsFiniteSet(SlotNos)
  /\ \A S \in SUBSET SlotNos : IsFiniteSet(S) /\ Cardinality(S) \in Nat
<1>1. SlotsPerBlock \in Nat /\ SlotsPerBlock # 0
  BY MinHookAssumption
<1>2. IsFiniteSet(SlotNos)
  BY <1>1, FS_Interval DEF SlotNos
<1>3. ASSUME NEW S \in SUBSET SlotNos PROVE IsFiniteSet(S) /\ Cardinality(S) \in Nat
  BY <1>2, FS_Subset, FS_CardinalityType
<1>4. 1 \in SlotNos
  BY <1>1 DEF SlotNos
<1>. QED
  BY <1>1, <1>2, <1>3, <1>4

\* What is put before a sequence is one more element of it.
LEMMA PushFront ==
  ASSUME NEW S, NEW s \in Seq(S), NEW x \in S
  PROVE  /\ <<x>> \o s \in Seq(S)
         /\ Elems(<<x>> \o s) = Elems(s) \cup {x}
         /\ Once(s) /\ x \notin Elems(s) => Once(<<x>> \o s)
<1>. DEFINE t == <<x>> \o s
            n == Len(s)
<1>1. /\ t \in Seq(S) /\ n \in Nat /\ DOMAIN s = 1 .. n /\ DOMAIN t = 1 .. n + 1
      /\ t[1] = x /\ \A i \in 1 .. n : t[i + 1] = s[i]
  OBVIOUS
<1>. HIDE DEF t, n
<1>2. \A j \in DOMAIN t : j = 1 \/ \E i \in 1 .. n : j = i + 1
  <2>1. \A j \in 1 .. n + 1 : j = 1 \/ (j - 1 \in 1 .. n /\ j = (j - 1) + 1)
    BY <1>1
  <2>. QED
    BY <1>1, <2>1
<1>3. \A i \in 1 .. n : i + 1 \in DOMAIN t
  BY <1>1
<1>4. Elems(t) = Elems(s) \cup {x}
  <2>1. 1 \in DOMAIN t
    BY <1>1
  <2>a. ASSUME NEW j \in DOMAIN t PROVE t[j] \in Elems(s) \cup {x}
    <3>1. CASE j = 1
      BY <1>1, <3>1
    <3>2. ASSUME NEW i \in 1 .. n, j = i + 1 PROVE t[j] \in Elems(s)
      BY <1>1, <3>2 DEF Elems
    <3>. QED
      BY <1>2, <3>1, <3>2
  <2>2. Elems(t) \subseteq Elems(s) \cup {x}
    BY <2>a DEF Elems
  <2>3. ASSUME NEW i \in 1 .. n PROVE s[i] \in Elems(t)
    BY <1>1, <1>3 DEF Elems
  <2>4. Elems(s) \cup {x} \subseteq Elems(t)
    BY <1>1, <2>1, <2>3 DEF Elems
  <2>. QED
    BY <2>2, <2>4
<1>5. ASSUME Once(s), x \notin Elems(s) PROVE Once(t)
  <2>1. \A i \in 1 .. n : t[i + 1] # x
    BY <1>1, <1>5 DEF Elems
  <2>2. ASSUME NEW i \in DOMAIN t, NEW j \in DOMAIN t, t[i] = t[j] PROVE i = j
    <3>1. CASE i = 1
      BY <1>1, <1>2, <2>1, <2>2, <3>1
    <3>2. CASE j = 1
      BY <1>1, <1>2, <2>1, <2>2, <3>2
    <3>3. ASSUME NEW k \in 1 .. n, NEW l \in 1 .. n, i = k + 1, j = l + 1 PROVE i = j
      BY <1>1, <1>5, <2>2, <3>3 DEF Once
    <3>. QED
      BY <1>2, <3>1, <3>2, <3>3
  <2>. QED
    BY <2>2 DEF Once
<1>. QED
  BY <1>1, <1>4, <1>5 DEF t

\* What is taken off the front is no element any more.
LEMMA TakeFront ==
  ASSUME NEW S, NEW s \in Seq(S), s # <<>>, Once(s)
  PROVE  /\ Head(s) \in Elems(s) /\ Head(s) \in S
         /\ Tail(s) \in Seq(S) /\ Once(Tail(s))
         /\ Elems(Tail(s)) = Elems(s) \ {Head(s)}
<1>. DEFINE t == Tail(s)
            n == Len(s)
<1>1. /\ t \in Seq(S) /\ n \in Nat /\ n > 0 /\ DOMAIN s = 1 .. n /\ DOMAIN t = 1 .. n - 1
      /\ Head(s) = s[1] /\ s[1] \in S /\ \A i \in 1 .. n - 1 : t[i] = s[i + 1]
  OBVIOUS
<1>. HIDE DEF t, n
<1>2. /\ 1 \in DOMAIN s /\ \A i \in 1 .. n - 1 : i + 1 \in DOMAIN s /\ i + 1 # 1
      /\ \A j \in DOMAIN s : j # 1 => j - 1 \in DOMAIN t /\ (j - 1) + 1 = j
  BY <1>1
<1>3. Once(t)
  <2>1. ASSUME NEW i \in 1 .. n - 1, NEW j \in 1 .. n - 1, t[i] = t[j] PROVE i = j
    <3>1. i + 1 = j + 1
      BY <1>1, <1>2, <2>1 DEF Once
    <3>. QED
      BY <1>1, <3>1
  <2>. QED
    BY <1>1, <2>1 DEF Once
<1>4. \A j \in DOMAIN s : j # 1 => s[j] # s[1] /\ s[j] = t[j - 1]
  BY <1>1, <1>2 DEF Once
<1>5. Elems(t) \subseteq Elems(s) \ {s[1]}
  <2>1. ASSUME NEW i \in 1 .. n - 1 PROVE t[i] \in Elems(s) \ {s[1]}
    <3>1. i + 1 \in DOMAIN s /\ i + 1 # 1 /\ t[i] = s[i + 1]
      BY <1>1, <1>2
    <3>2. s[i + 1] # s[1]
      BY <1>4, <3>1
    <3>3. s[i + 1] \in Elems(s)
      BY <3>1 DEF Elems
    <3>. QED
      BY <3>1, <3>2, <3>3
  <2>. QED
    BY <1>1, <2>1 DEF Elems
<1>6. Elems(s) \ {s[1]} \subseteq Elems(t)
  <2>1. ASSUME NEW j \in DOMAIN s, s[j] # s[1] PROVE s[j] \in Elems(t)
    <3>1. j - 1 \in DOMAIN t /\ s[j] = t[j - 1]
      BY <1>2, <1>4, <2>1
    <3>. QED
      BY <3>1 DEF Elems
  <2>. QED
    BY <2>1 DEF Elems
<1>. QED
  BY <1>1, <1>2, <1>3, <1>5, <1>6 DEF t, Elems

\* The block that is unlinked is no element of the list any more.
LEMMA UnlinkIs ==
  ASSUME NEW S, NEW s \in Seq(S), Once(s), NEW x \in Elems(s)
  PROVE  /\ Unlink(s, x) \in Seq(S) /\ Once(Unlink(s, x))
         /\ Elems(Unlink(s, x)) = Elems(s) \ {x}
<1>. DEFINE k == CHOOSE i \in DOMAIN s : s[i] = x
            n == Len(s)
            t == Unlink(s, x)
<1>1. k \in DOMAIN s /\ s[k] = x
  <2>1. \E i \in DOMAIN s : s[i] = x
    BY DEF Elems
  <2>. QED
    BY <2>1, Zenon
<1>2. t = SubSeq(s, 1, k - 1) \o SubSeq(s, k + 1, n)
  BY Zenon DEF Unlink
<1>. HIDE DEF k, t
<1>3. n \in Nat /\ DOMAIN s = 1 .. n
  OBVIOUS
<1>. HIDE DEF n
<1>4. /\ t \in Seq(S) /\ DOMAIN t = 1 .. n - 1
      /\ \A i \in 1 .. n - 1 : t[i] = IF i < k THEN s[i] ELSE s[i + 1]
  <2>. DEFINE a == SubSeq(s, 1, k - 1)
              b == SubSeq(s, k + 1, n)
  <2>1. /\ a \in Seq(S) /\ Len(a) = k - 1 /\ \A i \in 1 .. k - 1 : a[i] = s[i]
        /\ b \in Seq(S) /\ Len(b) = n - k /\ \A i \in 1 .. n - k : b[i] = s[k + i]
    <3>1. k \in 1 .. n /\ k - 1 \in 0 .. n /\ k + 1 \in 1 .. n + 1 /\ n = Len(s)
      BY <1>1, <1>3 DEF n
    <3>2. a \in Seq(S) /\ Len(a) = k - 1 /\ \A i \in 1 .. k - 1 : a[i] = s[i]
      <4>1. \A i \in 1 .. k - 1 : s[i] \in S
        BY <1>3, <3>1
      <4>2. a = [i \in 1 .. k - 1 |-> s[i]]
        BY <3>1
      <4>. QED
        BY <3>1, <4>1, <4>2
    <3>3. b \in Seq(S) /\ Len(b) = n - k /\ \A i \in 1 .. n - k : b[i] = s[k + i]
      <4>1. \A i \in 1 .. n - k : s[k + i] \in S
        BY <1>3, <3>1
      <4>2. b = [i \in 1 .. n - k |-> s[k + i]]
        BY <3>1
      <4>. QED
        BY <3>1, <4>1, <4>2
    <3>. QED
      BY <3>2, <3>3
  <2>. HIDE DEF a, b
  <2>2. /\ a \o b \in Seq(S) /\ Len(a \o b) = Len(a) + Len(b)
        /\ \A i \in 1 .. Len(a) + Len(b) :
             (a \o b)[i] = IF i <= Len(a) THEN a[i] ELSE b[i - Len(a)]
    <3>1. a \in Seq(S) /\ b \in Seq(S)
      BY <2>1
    <3>. QED
      BY <3>1, ConcatProperties
  <2>3. Len(a) + Len(b) = n - 1
    BY <1>1, <1>3, <2>1
  <2>4. t = a \o b
    BY <1>2 DEF a, b
  <2>5. ASSUME NEW i \in 1 .. n - 1 PROVE t[i] = IF i < k THEN s[i] ELSE s[i + 1]
    <3>1. CASE i < k
      BY <1>1, <1>3, <2>1, <2>2, <2>3, <2>4, <3>1
    <3>2. CASE ~(i < k)
      <4>1. i - (k - 1) \in 1 .. n - k /\ k + (i - (k - 1)) = i + 1 /\ ~(i <= k - 1)
        BY <1>1, <1>3, <3>2
      <4>2. b[i - (k - 1)] = s[i + 1]
        BY <2>1, <4>1
      <4>. QED
        BY <2>1, <2>2, <2>3, <2>4, <3>2, <4>1, <4>2
    <3>. QED
      BY <3>1, <3>2
  <2>. QED
    BY <1>3, <2>2, <2>3, <2>4, <2>5
<1>. DEFINE from(i) == IF i < k THEN i ELSE i + 1
<1>5. /\ \A i \in 1 .. n - 1 : from(i) \in 1 .. n /\ from(i) # k /\ t[i] = s[from(i)]
      /\ \A i, j \in 1 .. n - 1 : from(i) = from(j) => i = j
  BY <1>1, <1>3, <1>4
<1>6. ASSUME NEW j \in 1 .. n, j # k PROVE \E i \in 1 .. n - 1 : from(i) = j
  <2>1. CASE j < k
    <3>1. j \in 1 .. n - 1 /\ from(j) = j
      BY <1>1, <1>3, <1>6, <2>1
    <3>. QED
      BY <3>1
  <2>2. CASE ~(j < k)
    <3>1. j - 1 \in 1 .. n - 1 /\ from(j - 1) = j
      BY <1>1, <1>3, <1>6, <2>2
    <3>. QED
      BY <3>1
  <2>. QED
    BY <2>1, <2>2
<1>. HIDE DEF from
<1>7. Once(t)
  BY <1>3, <1>4, <1>5 DEF Once
<1>8. Elems(t) = Elems(s) \ {x}
  <2>1. \A j \in 1 .. n : j # k => s[j] # x
    BY <1>1, <1>3 DEF Once
  <2>2. Elems(t) \subseteq Elems(s) \ {x}
    BY <1>3, <1>4, <1>5, <2>1 DEF Elems
  <2>3. Elems(s) \ {x} \subseteq Elems(t)
    <3>1. ASSUME NEW j \in 1 .. n, s[j] # x PROVE s[j] \in Elems(t)
      <4>1. j # k
        BY <1>1, <3>1
      <4>2. PICK i \in 1 .. n - 1 : from(i) = j
        BY <1>6, <4>1
      <4>3. t[i] = s[j] /\ i \in DOMAIN t
        BY <1>4, <1>5, <4>2
      <4>. QED
        BY <4>3 DEF Elems
    <3>. QED
      BY <1>3, <3>1 DEF Elems
  <2>. QED
    BY <2>2, <2>3
<1>. QED
  BY <1>4, <1>7, <1>8 DEF t

\* A sequence without repetitions is as long as it has elements.
LEMMA OnceCounted ==
  ASSUME NEW S, NEW s \in Seq(S), Once(s)
  PROVE  Cardinality(Elems(s)) = Len(s)
<1>1. Len(s) \in Nat /\ DOMAIN s = 1 .. Len(s) /\ s \in [1 .. Len(s) -> S]
  OBVIOUS
<1>2. s \in Bijection(1 .. Len(s), Elems(s))
  <2>1. s \in [1 .. Len(s) -> Elems(s)]
    BY <1>1 DEF Elems
  <2>2. IsInjective(s)
    BY DEF IsInjective, Once
  <2>3. \A e \in Elems(s) : \E i \in 1 .. Len(s) : s[i] = e
    BY <1>1 DEF Elems
  <2>. QED
    BY <2>1, <2>2, <2>3 DEF Bijection, Injection, Surjection
<1>3. ExistsBijection(1 .. Len(s), Elems(s))
  BY <1>2 DEF ExistsBijection
<1>4. IsFiniteSet(1 .. Len(s)) /\ Cardinality(1 .. Len(s)) = Len(s)
  <2>1. Cardinality(1 .. Len(s)) = IF 1 > Len(s) THEN 0 ELSE Len(s) - 1 + 1
    BY <1>1, FS_Interval
  <2>2. Cardinality(1 .. Len(s)) = Len(s)
    BY <1>1, <2>1
  <2>. QED
    BY <1>1, <2>2, FS_Interval
<1>. QED
  BY <1>3, <1>4, FS_Bijection

\* A block that is made is listed and has all its slots free.
LEMMA NewBlockOK ==
  ASSUME NEW p, NEW U, PoolOK(p, U), NEW b \in Blocks, b \notin Listed(p)
  PROVE  /\ PoolOK(NewBlock(p, b), U)
         /\ Listed(NewBlock(p, b)) = Listed(p) \cup {b}
         /\ NewBlock(p, b).free[b] # <<>>
<1>. DEFINE q == NewBlock(p, b)
            all == [i \in 1 .. SlotsPerBlock |-> SlotsPerBlock + 1 - i]
<1>1. p \in Pools /\ Once(p.list) /\ BlockOK(p, U, b) /\ p.list \in Seq(Blocks)
  BY DEF PoolOK, Pools
<1>2. /\ all \in Seq(SlotNos) /\ Once(all) /\ Elems(all) = SlotNos /\ all # <<>>
  <2>1. SlotsPerBlock \in Nat /\ SlotsPerBlock # 0
    BY MinHookAssumption
  <2>2. /\ all \in [1 .. SlotsPerBlock -> SlotNos] /\ DOMAIN all = SlotNos
        /\ \A i, j \in SlotNos : all[i] = all[j] => i = j
    BY <2>1 DEF SlotNos
  <2>3. \A j \in SlotNos : SlotsPerBlock + 1 - j \in SlotNos /\ all[SlotsPerBlock + 1 - j] = j
    BY <2>1 DEF SlotNos
  <2>4. Elems(all) = SlotNos
    <3>1. Elems(all) \subseteq SlotNos
      BY <2>2 DEF Elems, SlotNos
    <3>2. ASSUME NEW j \in SlotNos PROVE j \in Elems(all)
      BY <2>2, <2>3 DEF Elems
    <3>. QED
      BY <3>1, <3>2
  <2>5. all \in Seq(SlotNos) /\ all # <<>>
    BY <2>1, <2>2 DEF SlotNos
  <2>. QED
    BY <2>2, <2>4, <2>5 DEF Once
<1>3. q = [p EXCEPT !.list = <<b>> \o @, !.free[b] = all, !.used[b] = 0]
  BY DEF NewBlock
<1>. HIDE DEF all, q
<1>4. /\ q.list = <<b>> \o p.list
      /\ q.free[b] = all /\ \A c \in Blocks \ {b} : q.free[c] = p.free[c]
      /\ q.used[b] = 0 /\ \A c \in Blocks \ {b} : q.used[c] = p.used[c]
      /\ q.free \in [Blocks -> Seq(SlotNos)] /\ q.used \in [Blocks -> Int]
      /\ q = [list |-> q.list, free |-> q.free, used |-> q.used]
  <2>1. p.free \in [Blocks -> Seq(SlotNos)] /\ p.used \in [Blocks -> Int]
        /\ p = [list |-> p.list, free |-> p.free, used |-> p.used]
    BY <1>1 DEF Pools
  <2>2. q = [list |-> <<b>> \o p.list, free |-> [p.free EXCEPT ![b] = all],
             used |-> [p.used EXCEPT ![b] = 0]]
    BY <1>3, <2>1
  <2>. QED
    BY <1>2, <2>1, <2>2
<1>5. Listed(p) = Elems(p.list) /\ Listed(q) = Elems(q.list)
  BY DEF Listed, Elems
<1>6. q.list \in Seq(Blocks) /\ Once(q.list) /\ Listed(q) = Listed(p) \cup {b}
  BY <1>1, <1>4, <1>5, PushFront
<1>7. q \in Pools
  BY <1>4, <1>6 DEF Pools
<1>8. ASSUME NEW c \in Blocks PROVE BlockOK(q, U, c)
  <2>1. CASE c = b
    <3>1. U[b] = {} /\ Cardinality({}) = 0
      BY <1>1, FS_EmptySet DEF BlockOK
    <3>. QED
      BY <1>2, <1>4, <1>6, <2>1, <3>1 DEF BlockOK
  <2>2. CASE c # b
    BY <1>4, <1>6, <2>2 DEF BlockOK, PoolOK
  <2>. QED
    BY <2>1, <2>2
<1>. QED
  BY <1>2, <1>4, <1>6, <1>7, <1>8 DEF PoolOK, q

\* The slot taken from a block was free and is in use.
LEMMA TakeOK ==
  ASSUME NEW p, NEW U \in [Blocks -> SUBSET SlotNos], PoolOK(p, U),
         NEW b \in Listed(p), p.free[b] # <<>>
  PROVE  LET x == Head(p.free[b]) IN
         /\ b \in Blocks /\ x \in SlotNos \ U[b]
         /\ Take(p, b).slot = <<b, x>>
         /\ PoolOK(Take(p, b).pool, [U EXCEPT ![b] = @ \cup {x}])
         /\ Listed(Take(p, b).pool) = Listed(p)
<1>. DEFINE x == Head(p.free[b])
            q == Take(p, b).pool
            V == [U EXCEPT ![b] = @ \cup {x}]
<1>1. b \in Blocks
  <2>1. p.list \in Seq(Blocks)
    BY DEF PoolOK, Pools
  <2>. QED
    BY <2>1 DEF Listed
<1>2. p \in Pools /\ Once(p.list) /\ BlockOK(p, U, b) /\ p.free[b] \in Seq(SlotNos)
  BY <1>1 DEF PoolOK, Pools
<1>3. /\ x \in Elems(p.free[b]) /\ x \in SlotNos
      /\ Tail(p.free[b]) \in Seq(SlotNos) /\ Once(Tail(p.free[b]))
      /\ Elems(Tail(p.free[b])) = Elems(p.free[b]) \ {x}
  BY <1>2, TakeFront DEF BlockOK
<1>4. q = [p EXCEPT !.free[b] = Tail(@), !.used[b] = @ + 1] /\ Take(p, b).slot = <<b, x>>
  BY DEF Take
<1>5. V[b] = U[b] \cup {x} /\ \A c \in Blocks \ {b} : V[c] = U[c]
  BY <1>1
<1>. HIDE DEF x, q, V
<1>6. /\ q.list = p.list
      /\ q.free[b] = Tail(p.free[b]) /\ \A c \in Blocks \ {b} : q.free[c] = p.free[c]
      /\ q.used[b] = p.used[b] + 1 /\ \A c \in Blocks \ {b} : q.used[c] = p.used[c]
      /\ q \in Pools
  <2>1. p.free \in [Blocks -> Seq(SlotNos)] /\ p.used \in [Blocks -> Int] /\ p.list \in Seq(Blocks)
        /\ p = [list |-> p.list, free |-> p.free, used |-> p.used]
    BY <1>2 DEF Pools
  <2>2. q = [list |-> p.list, free |-> [p.free EXCEPT ![b] = Tail(p.free[b])],
             used |-> [p.used EXCEPT ![b] = p.used[b] + 1]]
    BY <1>4, <2>1
  <2>3. p.used[b] + 1 \in Int
    BY <1>1, <2>1
  <2>4. q.free \in [Blocks -> Seq(SlotNos)] /\ q.used \in [Blocks -> Int]
    BY <1>3, <2>1, <2>2, <2>3
  <2>. QED
    BY <1>1, <2>1, <2>2, <2>4 DEF Pools
<1>7. Listed(q) = Listed(p)
  BY <1>6 DEF Listed
<1>8. x \notin U[b]
  BY <1>2, <1>3 DEF BlockOK
<1>9. ASSUME NEW c \in Blocks PROVE BlockOK(q, V, c)
  <2>1. CASE c = b
    <3>1. Cardinality(V[b]) = Cardinality(U[b]) + 1
      BY <1>2, <1>5, <1>8, SlotNosFinite, FS_AddElement DEF BlockOK
    <3>. QED
      BY <1>2, <1>3, <1>5, <1>6, <1>7, <1>8, <2>1, <3>1 DEF BlockOK
  <2>2. CASE c # b
    BY <1>5, <1>6, <1>7, <2>2 DEF BlockOK, PoolOK
  <2>. QED
    BY <2>1, <2>2
<1>10. PoolOK(q, V)
  BY <1>2, <1>6, <1>9 DEF PoolOK
<1>. QED
  BY <1>1, <1>3, <1>4, <1>7, <1>8, <1>10 DEF x, q, V

\* What is allocated was free; no block is listed but for its sake.
LEMMA AllocateOK ==
  ASSUME NEW p, NEW U \in [Blocks -> SUBSET SlotNos], PoolOK(p, U), NEW n \in AllocateBuffer(p)
  PROVE  \E b \in Blocks : \E x \in SlotNos \ U[b] :
           /\ n.slot = <<b, x>>
           /\ PoolOK(n.pool, [U EXCEPT ![b] = @ \cup {x}])
           /\ Listed(n.pool) \subseteq Listed(p) \cup {b}
<1>1. PICK m \in GetMemoryBlock(p) : n = Take(m.p, m.b)
  BY DEF AllocateBuffer
<1>2. /\ PoolOK(m.p, U) /\ m.b \in Listed(m.p) /\ m.p.free[m.b] # <<>>
      /\ Listed(m.p) \subseteq Listed(p) \cup {m.b}
  <2>1. CASE Reachable(p) # {}
    <3>. DEFINE i == CHOOSE i \in Reachable(p) : \A j \in Reachable(p) : i <= j
    <3>1. m = [p |-> p, b |-> p.list[i]]
      BY <2>1 DEF GetMemoryBlock
    <3>2. i \in Reachable(p)
      <4>1. Reachable(p) \subseteq Nat
        <5>1. p.list \in Seq(Blocks)
          BY DEF PoolOK, Pools
        <5>. QED
          BY <5>1 DEF Reachable
      <4>2. \E k \in Reachable(p) : \A j \in Reachable(p) : k <= j
        BY <2>1, <4>1, Least
      <4>. QED
        BY <4>2, Zenon
    <3>. HIDE DEF i
    <3>. QED
      BY <3>1, <3>2 DEF Reachable, Listed
  <2>2. ASSUME NEW b \in Blocks \ Listed(p), m = [p |-> NewBlock(p, b), b |-> b]
        PROVE  /\ PoolOK(m.p, U) /\ m.b \in Listed(m.p) /\ m.p.free[m.b] # <<>>
               /\ Listed(m.p) \subseteq Listed(p) \cup {m.b}
    BY <2>2, NewBlockOK
  <2>. QED
    BY <1>1, <2>1, <2>2 DEF GetMemoryBlock
<1>3. LET x == Head(m.p.free[m.b]) IN
      /\ m.b \in Blocks /\ x \in SlotNos \ U[m.b]
      /\ n.slot = <<m.b, x>>
      /\ PoolOK(n.pool, [U EXCEPT ![m.b] = @ \cup {x}])
      /\ Listed(n.pool) = Listed(m.p)
  BY <1>1, <1>2, TakeOK
<1>. QED
  BY <1>2, <1>3

\* A slot that is put back is free, and its block stays listed as long as it
\* has another one in use.
LEMMA FreeOK ==
  ASSUME NEW p, NEW U \in [Blocks -> SUBSET SlotNos], PoolOK(p, U), NEW b \in Blocks, NEW x \in U[b]
  PROVE  LET V == [U EXCEPT ![b] = @ \ {x}] IN
         /\ PoolOK(FreeBuffer(p, <<b, x>>), V)
         /\ \A c \in Listed(FreeBuffer(p, <<b, x>>)) : c \in Listed(p) /\ (c = b => V[b] # {})
<1>. DEFINE V == [U EXCEPT ![b] = @ \ {x}]
            q == FreeBuffer(p, <<b, x>>)
            back == [p EXCEPT !.free[b] = <<x>> \o @, !.used[b] = @ - 1]
<1>1. p \in Pools /\ Once(p.list) /\ BlockOK(p, U, b) /\ p.free[b] \in Seq(SlotNos)
      /\ p.list \in Seq(Blocks) /\ p.used[b] \in Int
  BY DEF PoolOK, Pools
<1>2. b \in Listed(p) /\ x \in SlotNos /\ x \notin Elems(p.free[b])
  BY <1>1 DEF BlockOK
<1>3. V[b] = U[b] \ {x} /\ \A c \in Blocks \ {b} : V[c] = U[c]
  OBVIOUS
<1>4. /\ <<x>> \o p.free[b] \in Seq(SlotNos) /\ Once(<<x>> \o p.free[b])
      /\ Elems(<<x>> \o p.free[b]) = Elems(p.free[b]) \cup {x}
  BY <1>1, <1>2, PushFront DEF BlockOK
<1>5. q = IF back.used[b] # 0 THEN back
          ELSE [back EXCEPT !.list = Unlink(@, b), !.free[b] = <<>>]
  BY <1>2 DEF FreeBuffer
<1>a. back = [p EXCEPT !.free[b] = <<x>> \o @, !.used[b] = @ - 1]
  OBVIOUS
<1>. HIDE DEF V, q, back
<1>6. /\ back.list = p.list
      /\ back.free[b] = <<x>> \o p.free[b] /\ \A c \in Blocks \ {b} : back.free[c] = p.free[c]
      /\ back.used[b] = p.used[b] - 1 /\ \A c \in Blocks \ {b} : back.used[c] = p.used[c]
      /\ back \in Pools
  <2>1. p.free \in [Blocks -> Seq(SlotNos)] /\ p.used \in [Blocks -> Int]
        /\ p = [list |-> p.list, free |-> p.free, used |-> p.used]
    BY <1>1 DEF Pools
  <2>2. back = [list |-> p.list, free |-> [p.free EXCEPT ![b] = <<x>> \o p.free[b]],
                used |-> [p.used EXCEPT ![b] = p.used[b] - 1]]
    BY <1>a, <2>1
  <2>3. p.used[b] - 1 \in Int
    BY <1>1
  <2>4. back.free \in [Blocks -> Seq(SlotNos)] /\ back.used \in [Blocks -> Int]
    BY <1>4, <2>1, <2>2, <2>3
  <2>. QED
    BY <1>1, <2>1, <2>2, <2>4 DEF Pools
<1>7. Cardinality(V[b]) = Cardinality(U[b]) - 1 /\ Cardinality(U[b]) \in Nat
  BY <1>1, <1>3, SlotNosFinite, FS_RemoveElement DEF BlockOK
<1>8. back.used[b] = Cardinality(V[b]) /\ (Cardinality(V[b]) = 0 <=> V[b] = {})
      /\ V[b] \subseteq SlotNos
  <2>1. V[b] \subseteq SlotNos
    BY <1>1, <1>3 DEF BlockOK
  <2>. QED
    BY <1>1, <1>2, <1>6, <1>7, <2>1, SlotNosFinite, FS_EmptySet DEF BlockOK
<1>9. CASE back.used[b] # 0
  <2>1. q = back /\ V[b] # {}
    BY <1>5, <1>8, <1>9
  <2>2. Listed(q) = Listed(p)
    BY <1>6, <2>1 DEF Listed
  <2>3. ASSUME NEW c \in Blocks PROVE BlockOK(q, V, c)
    <3>1. CASE c = b
      <4>1. Elems(q.free[b]) = Elems(p.free[b]) \cup {x} /\ Once(q.free[b])
        BY <1>4, <1>6, <2>1
      <4>2. Elems(q.free[b]) \cap V[b] = {} /\ Elems(q.free[b]) \cup V[b] = SlotNos
        BY <1>1, <1>2, <1>3, <4>1 DEF BlockOK
      <4>. QED
        BY <1>2, <1>8, <2>1, <2>2, <3>1, <4>1, <4>2 DEF BlockOK
    <3>2. CASE c # b
      BY <1>3, <1>6, <2>1, <2>2, <3>2 DEF BlockOK, PoolOK
    <3>. QED
      BY <3>1, <3>2
  <2>4. PoolOK(q, V)
    BY <1>1, <1>6, <2>1, <2>3 DEF PoolOK
  <2>. QED
    BY <2>1, <2>2, <2>4 DEF V, q
<1>10. CASE back.used[b] = 0
  <2>1. q = [back EXCEPT !.list = Unlink(@, b), !.free[b] = <<>>] /\ V[b] = {}
    BY <1>5, <1>8, <1>10
  <2>2. Listed(p) = Elems(p.list) /\ Listed(q) = Elems(q.list)
    BY DEF Listed, Elems
  <2>3. /\ q.list = Unlink(p.list, b)
        /\ q.free[b] = <<>> /\ \A c \in Blocks \ {b} : q.free[c] = p.free[c]
        /\ \A c \in Blocks \ {b} : q.used[c] = p.used[c]
        /\ q.free \in [Blocks -> Seq(SlotNos)] /\ q.used \in [Blocks -> Int]
        /\ q = [list |-> q.list, free |-> q.free, used |-> q.used]
    <3>1. back.free \in [Blocks -> Seq(SlotNos)] /\ back.used \in [Blocks -> Int]
          /\ back = [list |-> back.list, free |-> back.free, used |-> back.used]
      BY <1>6 DEF Pools
    <3>2. q = [list |-> Unlink(p.list, b), free |-> [back.free EXCEPT ![b] = <<>>],
               used |-> back.used]
      BY <1>6, <2>1, <3>1
    <3>3. <<>> \in Seq(SlotNos)
      OBVIOUS
    <3>. QED
      BY <1>6, <3>1, <3>2, <3>3
  <2>4. q.list \in Seq(Blocks) /\ Once(q.list) /\ Listed(q) = Listed(p) \ {b}
    BY <1>1, <1>2, <2>2, <2>3, UnlinkIs
  <2>5. q \in Pools
    BY <2>3, <2>4 DEF Pools
  <2>6. ASSUME NEW c \in Blocks PROVE BlockOK(q, V, c)
    <3>1. CASE c = b
      <4>1. Once(<<>>) /\ Elems(<<>>) = {}
        BY DEF Once, Elems
      <4>. QED
        BY <2>1, <2>3, <2>4, <3>1, <4>1 DEF BlockOK
    <3>2. CASE c # b
      BY <1>3, <2>3, <2>4, <3>2 DEF BlockOK, PoolOK
    <3>. QED
      BY <3>1, <3>2
  <2>7. PoolOK(q, V)
    BY <2>4, <2>5, <2>6 DEF PoolOK
  <2>. QED
    BY <2>4, <2>7 DEF V, q
<1>. QED
  BY <1>9, <1>10

-------------------------------------------------------------------------------
(* The table and the allocator *)

\* The slots of each block that the hooks of table h use.
UseOf(h) == [b \in Blocks |-> {h[p].slot[2] : p \in {q \in DOMAIN h : h[q].slot[1] = b}}]

OwnSlots(h) == \A p, q \in DOMAIN h : h[p].slot = h[q].slot => p = q

PoolInv ==
  /\ hooks \in Seq(Entry) /\ OwnSlots(hooks)
  /\ PoolOK(pool, UseOf(hooks))
  /\ \A b \in Listed(pool) : UseOf(hooks)[b] # {}

\* The items fit the array, which never shrinks below its first size.
ArrayInv ==
  /\ capacity \in Nat /\ items \in BOOLEAN
  /\ IF items THEN INITIAL_HOOK_CAPACITY <= capacity /\ Len(hooks) <= capacity ELSE hooks = <<>>

\* The variables that no other invariant is about.
RestInv ==
  /\ lock \in Callers \cup {Nobody}
  /\ heap \in BOOLEAN /\ undone \in BOOLEAN
  /\ orig \in [Targets -> Slots \cup {NoSlot}]
  /\ frozen \subseteq Runners

\* A slot is in use when a hook has it.
LEMMA UseIs ==
  ASSUME NEW h \in Seq(Entry)
  PROVE  /\ UseOf(h) \in [Blocks -> SUBSET SlotNos]
         /\ \A b \in Blocks : \A x :
              x \in UseOf(h)[b] <=> \E p \in DOMAIN h : h[p].slot = <<b, x>>
<1>1. \A p \in DOMAIN h : h[p] \in Entry
  OBVIOUS
<1>2. \A p \in DOMAIN h : /\ h[p].slot[1] \in Blocks /\ h[p].slot[2] \in SlotNos
                          /\ h[p].slot = <<h[p].slot[1], h[p].slot[2]>>
  BY <1>1 DEF Entry, Slots, SlotNos
<1>3. ASSUME NEW b \in Blocks, NEW x
      PROVE  x \in UseOf(h)[b] <=> \E p \in DOMAIN h : h[p].slot = <<b, x>>
  <2>1. x \in UseOf(h)[b] <=> \E p \in DOMAIN h : h[p].slot[1] = b /\ h[p].slot[2] = x
    BY DEF UseOf
  <2>. QED
    BY <1>2, <2>1
<1>4. UseOf(h) \in [Blocks -> SUBSET SlotNos]
  BY <1>2 DEF UseOf
<1>. QED
  BY <1>3, <1>4

\* Two tables whose entries have the same slots use the same.
LEMMA UseSame ==
  ASSUME NEW h, NEW g, DOMAIN g = DOMAIN h, \A p \in DOMAIN h : g[p].slot = h[p].slot
  PROVE  UseOf(g) = UseOf(h) /\ (OwnSlots(h) => OwnSlots(g))
<1>1. ASSUME NEW b \in Blocks
      PROVE  {g[p].slot[2] : p \in {q \in DOMAIN g : g[q].slot[1] = b}}
               = {h[p].slot[2] : p \in {q \in DOMAIN h : h[q].slot[1] = b}}
  OBVIOUS
<1>. QED
  BY <1>1 DEF UseOf, OwnSlots

\* A new entry whose slot nobody has.
LEMMA UseMore ==
  ASSUME NEW h \in Seq(Entry), OwnSlots(h), NEW e \in Entry,
         NEW b \in Blocks, NEW x \in SlotNos \ UseOf(h)[b], e.slot = <<b, x>>
  PROVE  /\ Append(h, e) \in Seq(Entry) /\ OwnSlots(Append(h, e))
         /\ UseOf(Append(h, e)) = [UseOf(h) EXCEPT ![b] = @ \cup {x}]
<1>. DEFINE g == Append(h, e)
            n == Len(h)
<1>1. /\ g \in Seq(Entry) /\ n \in Nat /\ DOMAIN h = 1 .. n /\ DOMAIN g = 1 .. n + 1
      /\ g[n + 1] = e /\ \A p \in 1 .. n : g[p] = h[p]
  OBVIOUS
<1>. HIDE DEF g, n
<1>2. \A p \in DOMAIN h : h[p].slot # <<b, x>>
  BY UseIs
<1>3. /\ DOMAIN h \subseteq DOMAIN g /\ n + 1 \in DOMAIN g
      /\ \A p \in DOMAIN g : p \in DOMAIN h \/ p = n + 1
  BY <1>1
<1>4. OwnSlots(g)
  BY <1>1, <1>2, <1>3 DEF OwnSlots
<1>5. ASSUME NEW c \in Blocks PROVE UseOf(g)[c] = IF c = b THEN UseOf(h)[b] \cup {x} ELSE UseOf(h)[c]
  <2>1. ASSUME NEW y PROVE y \in UseOf(g)[c] <=> y \in UseOf(h)[c] \/ (c = b /\ y = x)
    <3>1. y \in UseOf(g)[c] <=> \E p \in DOMAIN g : g[p].slot = <<c, y>>
      BY <1>1, UseIs
    <3>2. y \in UseOf(h)[c] <=> \E p \in DOMAIN h : h[p].slot = <<c, y>>
      BY UseIs
    <3>3. (\E p \in DOMAIN g : g[p].slot = <<c, y>>) <=>
            (\E p \in DOMAIN h : h[p].slot = <<c, y>>) \/ <<b, x>> = <<c, y>>
      BY <1>1, <1>3
    <3>. QED
      BY <3>1, <3>2, <3>3
  <2>. QED
    BY <2>1
<1>6. UseOf(g) = [UseOf(h) EXCEPT ![b] = @ \cup {x}]
  <2>1. DOMAIN UseOf(g) = Blocks /\ DOMAIN UseOf(h) = Blocks
        /\ UseOf(g) = [c \in Blocks |-> UseOf(g)[c]]
    BY DEF UseOf
  <2>. QED
    BY <1>5, <2>1
<1>. QED
  BY <1>1, <1>4, <1>6 DEF g

\* What is in use but for slot x of block b.
Less(U, b, x) == [U EXCEPT ![b] = @ \ {x}]

\* The table without the entry at pos.
Dropped(h, pos) == [p \in 1 .. Len(h) - 1 |-> h[IF p = pos THEN Len(h) ELSE p]]

\* The entry at pos is gone, and the last one has taken its place.
LEMMA UseLess ==
  ASSUME NEW h \in Seq(Entry), OwnSlots(h), NEW pos \in DOMAIN h,
         NEW b \in Blocks, NEW x, h[pos].slot = <<b, x>>
  PROVE  /\ Dropped(h, pos) \in Seq(Entry) /\ OwnSlots(Dropped(h, pos))
         /\ Len(Dropped(h, pos)) = Len(h) - 1
         /\ UseOf(Dropped(h, pos)) = Less(UseOf(h), b, x)
<1>. DEFINE n == Len(h)
            g == Dropped(h, pos)
            from(q) == IF q = pos THEN n ELSE q
<1>1. n \in Nat /\ DOMAIN h = 1 .. n /\ pos \in 1 .. n /\ \A p \in 1 .. n : h[p] \in Entry
  OBVIOUS
<1>2. DOMAIN g = 1 .. n - 1 /\ \A q \in 1 .. n - 1 : g[q] = h[from(q)]
  BY DEF Dropped
<1>0. g = [p \in 1 .. n - 1 |-> h[from(p)]]
  BY DEF Dropped
<1>. HIDE DEF n, g
<1>3. /\ \A q \in 1 .. n - 1 : from(q) \in 1 .. n /\ from(q) # pos
      /\ \A q, r \in 1 .. n - 1 : from(q) = from(r) => q = r
  BY <1>1
<1>4. ASSUME NEW r \in 1 .. n, r # pos PROVE \E q \in 1 .. n - 1 : from(q) = r
  <2>1. CASE r = n
    <3>1. pos \in 1 .. n - 1 BY <1>1, <1>4, <2>1
    <3>. QED BY <2>1, <3>1
  <2>2. CASE r # n
    <3>1. r \in 1 .. n - 1 BY <1>1, <1>4, <2>2
    <3>. QED BY <1>4, <3>1
  <2>. QED
    BY <2>1, <2>2
<1>. HIDE DEF from
<1>5. g \in Seq(Entry) /\ Len(g) = n - 1
  <2>1. \A q \in 1 .. n - 1 : g[q] \in Entry
    BY <1>1, <1>2, <1>3
  <2>2. g \in [1 .. n - 1 -> Entry] /\ n - 1 \in Nat
    BY <1>0, <1>1, <1>2, <2>1
  <2>. QED
    BY <2>2
<1>6. OwnSlots(g)
  BY <1>1, <1>2, <1>3 DEF OwnSlots
<1>7. ASSUME NEW c \in Blocks PROVE UseOf(g)[c] = IF c = b THEN UseOf(h)[b] \ {x} ELSE UseOf(h)[c]
  <2>1. ASSUME NEW y PROVE y \in UseOf(g)[c] <=> y \in UseOf(h)[c] /\ ~(c = b /\ y = x)
    <3>1. y \in UseOf(g)[c] <=> \E p \in DOMAIN g : g[p].slot = <<c, y>>
      BY <1>5, UseIs
    <3>2. y \in UseOf(h)[c] <=> \E p \in DOMAIN h : h[p].slot = <<c, y>>
      BY UseIs
    <3>3. ASSUME NEW p \in DOMAIN g, g[p].slot = <<c, y>>
          PROVE  (\E r \in DOMAIN h : h[r].slot = <<c, y>>) /\ <<c, y>> # <<b, x>>
      <4>1. from(p) \in DOMAIN h /\ from(p) # pos /\ h[from(p)].slot = <<c, y>>
        BY <1>1, <1>2, <1>3, <3>3
      <4>. QED
        BY <4>1 DEF OwnSlots
    <3>4. ASSUME NEW r \in DOMAIN h, h[r].slot = <<c, y>>, <<c, y>> # <<b, x>>
          PROVE  \E p \in DOMAIN g : g[p].slot = <<c, y>>
      <4>1. r # pos
        BY <3>4
      <4>2. PICK p \in 1 .. n - 1 : from(p) = r
        BY <1>1, <1>4, <4>1
      <4>. QED
        BY <1>2, <3>4, <4>2
    <3>5. <<c, y>> = <<b, x>> <=> c = b /\ y = x
      OBVIOUS
    <3>. QED
      BY <3>1, <3>2, <3>3, <3>4, <3>5
  <2>. QED
    BY <2>1
<1>8. UseOf(g) = [UseOf(h) EXCEPT ![b] = @ \ {x}]
  <2>1. DOMAIN UseOf(g) = Blocks /\ DOMAIN UseOf(h) = Blocks
        /\ UseOf(g) = [c \in Blocks |-> UseOf(g)[c]]
    BY DEF UseOf
  <2>. QED
    BY <1>7, <2>1
<1>. QED
  BY <1>5, <1>6, <1>8 DEF n, g, Less

\* Steps that leave the slots of the hooks and the allocator alone.
LEMMA SlotsSame ==
  ASSUME PoolInv, ArrayInv, hooks' \in Seq(Entry), DOMAIN hooks' = DOMAIN hooks,
         \A p \in DOMAIN hooks : hooks'[p].slot = hooks[p].slot,
         UNCHANGED <<pool, capacity, items>>
  PROVE  PoolInv' /\ ArrayInv'
<1>1. UseOf(hooks') = UseOf(hooks) /\ OwnSlots(hooks')
  BY UseSame DEF PoolInv
<1>2. PoolInv'
  BY <1>1 DEF PoolInv
<1>3. hooks \in Seq(Entry) /\ Len(hooks') = Len(hooks)
  <2>1. hooks \in Seq(Entry)
    BY DEF PoolInv
  <2>. QED
    BY <2>1
<1>. QED
  BY <1>2, <1>3 DEF ArrayInv

LEMMA CreateOwned ==
  ASSUME PoolInv, ArrayInv, NEW t \in Targets, MH_CreateHook(t)
  PROVE  /\ PoolInv' /\ ArrayInv'
         /\ orig \in [Targets -> Slots \cup {NoSlot}] => orig' \in [Targets -> Slots \cup {NoSlot}]
<1>1. PICK new \in AllocateBuffer(pool) :
        \/ /\ Tramp[t].ok
           /\ AddHookEntry([target |-> t, slot |-> new.slot,
                            isEnabled |-> FALSE, queueEnable |-> FALSE])
           /\ pool' = new.pool /\ orig' = [orig EXCEPT ![t] = new.slot]
        \/ /\ Tramp[t].ok /\ AddFails
           /\ pool' = FreeBuffer(new.pool, new.slot) /\ UNCHANGED orig
        \/ /\ ~Tramp[t].ok
           /\ pool' = FreeBuffer(new.pool, new.slot)
           /\ UNCHANGED <<hooks, capacity, items, orig>>
  BY DEF MH_CreateHook
<1>. DEFINE U == UseOf(hooks)
<1>2. /\ hooks \in Seq(Entry) /\ OwnSlots(hooks) /\ PoolOK(pool, U)
      /\ \A b \in Listed(pool) : U[b] # {}
  BY DEF PoolInv
<1>3. U \in [Blocks -> SUBSET SlotNos]
  BY <1>2, UseIs
<1>. HIDE DEF U
<1>4. PICK b \in Blocks, x \in SlotNos :
        /\ x \notin U[b]
        /\ new.slot = <<b, x>>
        /\ PoolOK(new.pool, [U EXCEPT ![b] = @ \cup {x}])
        /\ Listed(new.pool) \subseteq Listed(pool) \cup {b}
  BY <1>2, <1>3, AllocateOK
<1>. DEFINE V == [U EXCEPT ![b] = @ \cup {x}]
<1>5. /\ V \in [Blocks -> SUBSET SlotNos] /\ x \in V[b]
      /\ \A c \in Blocks : V[c] = IF c = b THEN U[b] \cup {x} ELSE U[c]
  BY <1>3
<1>6. new.slot \in Slots
  BY <1>4 DEF Slots, SlotNos
<1>a. INITIAL_HOOK_CAPACITY \in Nat /\ INITIAL_HOOK_CAPACITY >= 1
  BY MinHookAssumption
<1>7. CASE /\ AddHookEntry([target |-> t, slot |-> new.slot,
                            isEnabled |-> FALSE, queueEnable |-> FALSE])
           /\ pool' = new.pool /\ orig' = [orig EXCEPT ![t] = new.slot]
  <2>. DEFINE e == [target |-> t, slot |-> new.slot, isEnabled |-> FALSE, queueEnable |-> FALSE]
  <2>1. e \in Entry /\ e.slot = <<b, x>>
    BY <1>4, <1>6 DEF Entry
  <2>2. hooks' = Append(hooks, e) /\ capacity' = Grown /\ items' = TRUE
    BY <1>7 DEF AddHookEntry
  <2>. HIDE DEF e
  <2>3. hooks' \in Seq(Entry) /\ OwnSlots(hooks') /\ UseOf(hooks') = V
    <3>1. x \in SlotNos \ UseOf(hooks)[b]
      BY <1>4 DEF U
    <3>2. /\ Append(hooks, e) \in Seq(Entry) /\ OwnSlots(Append(hooks, e))
          /\ UseOf(Append(hooks, e)) = [UseOf(hooks) EXCEPT ![b] = @ \cup {x}]
      BY <1>2, <2>1, <3>1, UseMore
    <3>. QED
      BY <2>2, <3>2 DEF U
  <2>4. PoolOK(pool', UseOf(hooks'))
    BY <1>4, <1>7, <2>3
  <2>5. \A c \in Listed(pool') : UseOf(hooks')[c] # {}
    <3>1. ASSUME NEW c \in Listed(pool'), c # b PROVE V[c] # {}
      <4>1. c \in Listed(pool) /\ U[c] # {}
        BY <1>2, <1>4, <1>7, <3>1
      <4>. QED
        BY <1>5, <3>1, <4>1
    <3>. QED
      BY <1>5, <2>3, <3>1
  <2>6. PoolInv'
    BY <2>3, <2>4, <2>5 DEF PoolInv
  <2>7. ArrayInv'
    <3>1. Len(hooks') = Len(hooks) + 1 /\ Len(hooks) \in Nat
      BY <1>2, <2>2
    <3>2. CASE ~items
      <4>1. Len(hooks) = 0
        BY <3>2 DEF ArrayInv
      <4>2. capacity' = INITIAL_HOOK_CAPACITY
        BY <2>2, <3>2 DEF Grown
      <4>. QED
        BY <1>a, <2>2, <3>1, <4>1, <4>2 DEF ArrayInv
    <3>3. CASE items
      <4>1. /\ capacity \in Nat /\ INITIAL_HOOK_CAPACITY <= capacity /\ Len(hooks) <= capacity
        BY <3>3 DEF ArrayInv
      <4>2. \/ Len(hooks) >= capacity /\ capacity' = capacity * 2
            \/ Len(hooks) < capacity /\ capacity' = capacity
        BY <2>2, <3>1, <3>3, <4>1 DEF Grown
      <4>. QED
        BY <1>a, <2>2, <3>1, <4>1, <4>2 DEF ArrayInv
    <3>. QED
      BY <3>2, <3>3
  <2>. QED
    BY <1>6, <1>7, <2>6, <2>7
<1>8. ASSUME pool' = FreeBuffer(new.pool, new.slot), hooks' = hooks PROVE PoolInv'
  <2>. DEFINE W == [V EXCEPT ![b] = @ \ {x}]
  <2>1. W = U
    <3>1. \A c \in Blocks : W[c] = U[c]
      BY <1>4, <1>5
    <3>2. DOMAIN W = Blocks /\ DOMAIN U = Blocks /\ W = [c \in Blocks |-> W[c]]
          /\ U = [c \in Blocks |-> U[c]]
      BY <1>3, <1>5
    <3>. HIDE DEF W
    <3>. QED
      BY <3>1, <3>2
  <2>2. /\ PoolOK(FreeBuffer(new.pool, <<b, x>>), W)
        /\ \A c \in Listed(FreeBuffer(new.pool, <<b, x>>)) :
             c \in Listed(new.pool) /\ (c = b => W[b] # {})
    <3>. HIDE DEF V
    <3>1. PoolOK(new.pool, V)
      BY <1>4 DEF V
    <3>. QED
      BY <1>5, <3>1, FreeOK
  <2>. HIDE DEF V, W
  <2>3. PoolOK(pool', U)
    BY <1>4, <1>8, <2>1, <2>2
  <2>4. \A c \in Listed(pool') : U[c] # {}
    BY <1>2, <1>4, <1>8, <2>1, <2>2
  <2>. QED
    BY <1>2, <1>8, <2>3, <2>4 DEF PoolInv, U
<1>9. ASSUME UNCHANGED hooks, AddFails \/ UNCHANGED <<capacity, items>> PROVE ArrayInv'
  BY <1>a, <1>9 DEF AddFails, ArrayInv
<1>10. AddFails => UNCHANGED hooks
  BY DEF AddFails
<1>. QED
  BY <1>1, <1>7, <1>8, <1>9, <1>10

LEMMA RemoveOwned ==
  ASSUME PoolInv, ArrayInv, job.pos \in DOMAIN hooks, FinishRemove
  PROVE  PoolInv' /\ ArrayInv'
<1>. DEFINE U == UseOf(hooks)
            n == Len(hooks)
<1>1. /\ hooks \in Seq(Entry) /\ OwnSlots(hooks) /\ PoolOK(pool, U)
      /\ \A b \in Listed(pool) : U[b] # {}
  BY DEF PoolInv
<1>2. U \in [Blocks -> SUBSET SlotNos]
  BY <1>1, UseIs
<1>3. hooks[job.pos] \in Entry /\ n \in Nat /\ n # 0
  BY <1>1
<1>4. PICK b \in Blocks, x \in SlotNos : hooks[job.pos].slot = <<b, x>>
  BY <1>3 DEF Entry, Slots, SlotNos
<1>5. /\ hooks' = [p \in 1 .. n - 1 |-> hooks[IF p = job.pos THEN n ELSE p]]
      /\ pool' = FreeBuffer(pool, <<b, x>>)
      /\ UNCHANGED items
  BY <1>4 DEF FinishRemove, DeleteHookEntry
<1>6. x \in U[b]
  BY <1>1, <1>4, UseIs
<1>. DEFINE V == [U EXCEPT ![b] = @ \ {x}]
<1>7. /\ hooks' \in Seq(Entry) /\ OwnSlots(hooks') /\ Len(hooks') = n - 1
      /\ UseOf(hooks') = V
  <2>1. /\ Len(hooks) = n
        /\ hooks' = [p \in 1 .. Len(hooks) - 1 |-> hooks[IF p = job.pos THEN Len(hooks) ELSE p]]
    BY <1>5
  <2>2. /\ hooks' \in Seq(Entry) /\ OwnSlots(hooks') /\ Len(hooks') = Len(hooks) - 1
        /\ UseOf(hooks') = [UseOf(hooks) EXCEPT ![b] = @ \ {x}]
    <3>. HIDE DEF n
    <3>1. hooks' = Dropped(hooks, job.pos)
      BY <2>1 DEF Dropped
    <3>2. /\ hooks' \in Seq(Entry) /\ OwnSlots(hooks') /\ Len(hooks') = Len(hooks) - 1
          /\ UseOf(hooks') = Less(UseOf(hooks), b, x)
      BY <1>1, <1>4, <3>1, UseLess
    <3>. QED
      BY <3>2 DEF Less
  <2>. QED
    BY <2>2
<1>8. \A c \in Blocks \ {b} : V[c] = U[c]
  BY <1>2
<1>. HIDE DEF U
<1>9. /\ PoolOK(pool', V)
      /\ \A c \in Listed(pool') : c \in Listed(pool) /\ (c = b => V[b] # {})
  BY <1>1, <1>2, <1>5, <1>6, FreeOK
<1>. HIDE DEF V
<1>10. \A c \in Listed(pool') : V[c] # {}
  <2>1. Listed(pool) \subseteq Blocks
    BY <1>1 DEF PoolOK, Pools, Listed
  <2>. QED
    BY <1>1, <1>8, <1>9, <2>1
<1>11. PoolInv'
  BY <1>7, <1>9, <1>10 DEF PoolInv
<1>12. ArrayInv'
  <2>1. items /\ capacity \in Nat /\ n <= capacity /\ INITIAL_HOOK_CAPACITY <= capacity
    BY <1>1, <1>3 DEF ArrayInv
  <2>2. INITIAL_HOOK_CAPACITY \in Nat
    BY MinHookAssumption
  <2>3. \/ capacity' = capacity
        \/ /\ capacity' = capacity \div 2
           /\ capacity \div 2 >= INITIAL_HOOK_CAPACITY /\ capacity \div 2 >= n - 1
    BY DEF FinishRemove, DeleteHookEntry
  <2>4. capacity \div 2 \in Nat
    BY <2>1
  <2>. QED
    BY <1>3, <1>5, <1>7, <2>1, <2>2, <2>3, <2>4 DEF ArrayInv
<1>. QED
  BY <1>11, <1>12

\* Nothing is left in the table or the allocator.
LEMMA EmptyOwned ==
  ASSUME NEW h, NEW p, h = <<>>,
         p = [list |-> <<>>, free |-> [b \in Blocks |-> <<>>], used |-> [b \in Blocks |-> 0]]
  PROVE  h \in Seq(Entry) /\ OwnSlots(h) /\ PoolOK(p, UseOf(h)) /\ Listed(p) = {}
<1>1. h \in Seq(Entry) /\ DOMAIN h = {} /\ OwnSlots(h)
  BY DEF OwnSlots
<1>2. \A b \in Blocks : UseOf(h)[b] = {}
  BY <1>1 DEF UseOf
<1>3. p \in Pools /\ Once(p.list) /\ Listed(p) = {}
  BY DEF Pools, Once, Listed
<1>4. ASSUME NEW b \in Blocks PROVE BlockOK(p, UseOf(h), b)
  <2>1. p.free[b] = <<>> /\ Once(<<>>)
    BY DEF Once
  <2>. QED
    BY <1>2, <1>3, <2>1 DEF BlockOK
<1>. QED
  BY <1>1, <1>3, <1>4 DEF PoolOK

LEMMA UninitializeOwned ==
  ASSUME FinishUninitialize
  PROVE  PoolInv' /\ ArrayInv'
<1>1. /\ hooks' = <<>> /\ capacity' = 0 /\ items' = FALSE
      /\ pool' = [list |-> <<>>, free |-> [b \in Blocks |-> <<>>], used |-> [b \in Blocks |-> 0]]
  BY DEF FinishUninitialize
<1>. QED
  BY <1>1, EmptyOwned DEF PoolInv, ArrayInv

\* Every step keeps table and allocator agreed, and the types.
LEMMA NextOwned ==
  ASSUME IInv, PoolInv, ArrayInv, RestInv, [Next]_vars
  PROVE  PoolInv' /\ ArrayInv' /\ RestInv'
<1>. USE DEF tableVars
<1>1. hooks \in Seq(Entry) /\ JobOK
  BY DEF PoolInv, IInv
<1>2. DOMAIN hooks \subseteq Nat /\ DOMAIN hooks = 1 .. Len(hooks) /\ Len(hooks) \in Nat
      /\ \A p \in DOMAIN hooks : hooks[p] \in Entry
  BY <1>1
<1>3. ASSUME UNCHANGED <<hooks, pool, capacity, items>> PROVE PoolInv' /\ ArrayInv'
  BY <1>1, <1>3, SlotsSame
<1>4. CASE UNCHANGED vars
  BY <1>3, <1>4 DEF vars, RestInv
<1>5. ASSUME NEW t \in Targets, MH_CreateHook(t) PROVE PoolInv' /\ ArrayInv' /\ RestInv'
  BY <1>5, CreateOwned DEF MH_CreateHook, RestInv
<1>6. ASSUME NEW ts, NEW e \in BOOLEAN, QueueHook(ts, e) PROVE PoolInv' /\ ArrayInv' /\ RestInv'
  <2>1. /\ hooks' = [p \in DOMAIN hooks |->
             IF hooks[p].target \in ts THEN [hooks[p] EXCEPT !.queueEnable = e] ELSE hooks[p]]
        /\ UNCHANGED <<lock, heap, capacity, items, pool, orig, frozen, undone>>
    BY <1>6 DEF QueueHook
  <2>2. \A p \in DOMAIN hooks : hooks'[p] \in Entry /\ hooks'[p].slot = hooks[p].slot
    BY <1>2, <2>1 DEF Entry
  <2>3. hooks' \in [1 .. Len(hooks) -> Entry] /\ DOMAIN hooks' = DOMAIN hooks
    BY <1>2, <2>1, <2>2
  <2>4. hooks' \in Seq(Entry)
    BY <1>2, <2>3
  <2>. QED
    BY <2>1, <2>2, <2>3, <2>4, SlotsSame DEF RestInv
<1>7. ASSUME NEW c \in Callers, Call(c) PROVE PoolInv' /\ ArrayInv' /\ RestInv'
  <2>1. \E op, pos, todo : EnterSpinLock(c, op, pos, todo)
    BY <1>7 DEF Call, MH_RemoveHook, EnableHook, MH_EnableAll, MH_DisableAll, MH_ApplyQueued,
      MH_Uninitialize, EnableAllHooksLL
  <2>2. /\ lock' = c
        /\ UNCHANGED <<hooks, pool, capacity, items, heap, undone, orig, frozen>>
    BY <2>1 DEF EnterSpinLock
  <2>. QED
    BY <1>3, <2>2 DEF RestInv
<1>8. CASE EnableHookLL
  <2>. DEFINE p == NextToPatch
              enable == Wanted(job.op, p)
  <2>1. p \in DOMAIN hooks
    BY <1>1, <1>2, <1>8, NextIs DEF EnableHookLL, JobOK
  <2>2. enable \in BOOLEAN
    <3>1. hooks[p].queueEnable \in BOOLEAN
      BY <1>2, <2>1 DEF Entry
    <3>. QED
      BY <3>1 DEF Wanted
  <2>3. /\ hooks' = [hooks EXCEPT ![p].isEnabled = enable, ![p].queueEnable = enable]
        /\ undone' = (undone \/ ~enable)
        /\ UNCHANGED <<lock, heap, capacity, items, pool, orig, frozen>>
    BY <1>8 DEF EnableHookLL
  <2>. HIDE DEF p, enable
  <2>4. hooks' = [hooks EXCEPT ![p] = [@ EXCEPT !.isEnabled = enable, !.queueEnable = enable]]
    BY <1>2, <2>1, <2>3
  <2>5. /\ [hooks[p] EXCEPT !.isEnabled = enable, !.queueEnable = enable] \in Entry
        /\ [hooks[p] EXCEPT !.isEnabled = enable, !.queueEnable = enable].slot = hooks[p].slot
    BY <1>2, <2>1, <2>2 DEF Entry
  <2>6. \A q \in DOMAIN hooks : hooks'[q] \in Entry /\ hooks'[q].slot = hooks[q].slot
    BY <1>2, <2>1, <2>4, <2>5
  <2>7. hooks' \in [1 .. Len(hooks) -> Entry] /\ DOMAIN hooks' = DOMAIN hooks
    BY <1>2, <2>4, <2>6
  <2>8. hooks' \in Seq(Entry)
    BY <1>2, <2>7
  <2>9. PoolInv' /\ ArrayInv'
    BY <2>3, <2>6, <2>7, <2>8, SlotsSame
  <2>. QED
    BY <2>3, <2>9 DEF RestInv
<1>9. CASE FinishRemove
  <2>1. job.pos \in DOMAIN hooks
    BY <1>1, <1>9 DEF FinishRemove, JobOK, Single
  <2>. QED
    BY <1>9, <2>1, RemoveOwned DEF FinishRemove, LeaveSpinLock, RestInv
<1>10. CASE FinishUninitialize
  BY <1>10, UninitializeOwned DEF FinishUninitialize, LeaveSpinLock, RestInv
<1>11. CASE \/ MH_Initialize \/ FreezeFails \/ ProtectFails \/ Unfreeze \/ Finish
            \/ \E r \in Runners : Run(r)
  <2>1. UNCHANGED <<hooks, pool, capacity, items, orig>>
    BY <1>11 DEF MH_Initialize, FreezeFails, ProtectFails, Unfreeze, Finish, Run
  <2>2. RestInv'
    BY <1>11 DEF MH_Initialize, FreezeFails, ProtectFails, Unfreeze, Finish, Run,
      LeaveSpinLock, RestInv
  <2>. QED
    BY <1>3, <2>1, <2>2
<1>12. CASE Freeze
  <2>1. UNCHANGED <<hooks, pool, capacity, items, orig, lock, heap>>
    BY <1>12 DEF Freeze
  <2>2. PICK S \in (IF "suspend" \in Faults THEN SUBSET Runners ELSE {Runners}) :
          frozen' = S /\ undone' = (undone \/ S # Runners)
    BY <1>12 DEF Freeze
  <2>. QED
    BY <1>3, <2>1, <2>2 DEF RestInv
<1>. QED
  BY <1>4, <1>5, <1>6, <1>7, <1>8, <1>9, <1>10, <1>11, <1>12 DEF Next, CallStep

\* What the invariants say of types.
LEMMA TypesFollow ==
  ASSUME IInv, PoolInv, ArrayInv, RestInv
  PROVE  TypeOK
<1>1. hooks \in Seq(Entry) /\ JobOK
  BY DEF PoolInv, IInv
<1>2. DOMAIN hooks \subseteq Nat
  BY <1>1
<1>3. job \in [op : Ops \cup {"none"}, phase : {"idle", "freeze", "patch", "finish"},
               pos : Nat, todo : SUBSET Nat, ok : BOOLEAN]
  BY <1>1, <1>2 DEF JobOK
<1>. QED
  BY <1>1, <1>3 DEF TypeOK, IInv, ArrayInv, RestInv

\* What the invariants say of slots.
LEMMA OwnedFollows ==
  ASSUME PoolInv, ArrayInv
  PROVE  SlotsOwned
<1>. DEFINE U == UseOf(hooks)
<1>1. /\ hooks \in Seq(Entry) /\ OwnSlots(hooks) /\ PoolOK(pool, U)
      /\ \A b \in Listed(pool) : U[b] # {}
  BY DEF PoolInv
<1>2. /\ pool.list \in Seq(Blocks) /\ Once(pool.list)
      /\ \A b \in Blocks : pool.free[b] \in Seq(SlotNos) /\ BlockOK(pool, U, b)
  BY <1>1 DEF PoolOK, Pools
<1>3. Cardinality(Listed(pool)) = Len(pool.list)
  <2>1. Listed(pool) = Elems(pool.list)
    BY DEF Listed, Elems
  <2>. QED
    BY <1>2, <2>1, OnceCounted
<1>4. IF items THEN Len(hooks) <= capacity ELSE hooks = <<>>
  BY DEF ArrayInv
<1>5. ASSUME NEW b \in Blocks
      PROVE  LET inUse == {hooks[p].slot[2] : p \in {q \in DOMAIN hooks : hooks[q].slot[1] = b}}
                 onList == {pool.free[b][i] : i \in DOMAIN pool.free[b]} IN
             /\ b \in Listed(pool) <=> inUse # {}
             /\ b \in Listed(pool) => pool.used[b] = Cardinality(inUse)
             /\ inUse \cap onList = {} /\ Cardinality(onList) = Len(pool.free[b])
             /\ b \in Listed(pool) => inUse \cup onList = 1 .. SlotsPerBlock
  <2>. DEFINE inUse == {hooks[p].slot[2] : p \in {q \in DOMAIN hooks : hooks[q].slot[1] = b}}
              onList == {pool.free[b][i] : i \in DOMAIN pool.free[b]}
  <2>1. U[b] = inUse
    BY DEF UseOf
  <2>2. Elems(pool.free[b]) = onList
    BY DEF Elems
  <2>3. Cardinality(onList) = Len(pool.free[b])
    BY <1>2, <2>2, OnceCounted DEF BlockOK
  <2>. HIDE DEF inUse, onList, U
  <2>4. /\ b \in Listed(pool) <=> inUse # {}
        /\ b \in Listed(pool) => pool.used[b] = Cardinality(inUse)
        /\ inUse \cap onList = {}
        /\ b \in Listed(pool) => inUse \cup onList = 1 .. SlotsPerBlock
    BY <1>1, <1>2, <2>1, <2>2 DEF BlockOK, SlotNos
  <2>. QED
    BY <2>3, <2>4 DEF inUse, onList
<1>. QED
  BY <1>1, <1>3, <1>4, <1>5 DEF SlotsOwned, OwnSlots

LEMMA OwnedInit ==
  ASSUME Init
  PROVE  PoolInv /\ ArrayInv /\ RestInv
<1>1. PoolInv
  BY EmptyOwned DEF Init, PoolInv
<1>. QED
  BY <1>1 DEF Init, ArrayInv, RestInv

-------------------------------------------------------------------------------
(* Every step *)

LEMMA InitInv == Init => IInv
<1> SUFFICES ASSUME Init PROVE IInv OBVIOUS
<1>1. hooks = <<>> /\ patched = {} /\ job = Idle /\ lock = Nobody /\ frozen = {} BY DEF Init
<1>2. hooks \in Seq(Entries({})) /\ DOMAIN hooks = {} BY <1>1
<1>3. Shape BY <1>2 DEF Shape
<1>4. JobOK /\ OffFirst /\ job.phase = "idle" BY <1>1 DEF JobOK, OffFirst, Idle, Single
<1>5. TableExact BY <1>1, <1>2, <1>4 DEF TableExact, Hooked
<1> QED BY <1>1, <1>3, <1>4, <1>5 DEF IInv

LEMMA NextStays ==
  ASSUME IInv, [Next]_vars
  PROVE  IInv' /\ (Same \/ OneTurned \/ AllForgotten)
<1>1. CASE UNCHANGED vars
  <2>1. hooks' = hooks /\ patched' = patched /\ job' = job /\ lock' = lock /\ frozen' = frozen
    BY <1>1 DEF vars, tableVars
  <2>2. JobOK' /\ OffFirst' BY <2>1 DEF IInv, JobOK, OffFirst
  <2> QED BY <2>1, <2>2, Quiet DEF IInv, TableExact
<1>2. CASE \E t \in Targets : MH_CreateHook(t)
  <2>1. PICK t \in Targets : MH_CreateHook(t) BY <1>2
  <2> QED BY <2>1, CreateStays DEF OneTurned
<1>3. CASE \E ts \in {{t} : t \in Hooked} \cup {Hooked}, e \in BOOLEAN : QueueHook(ts, e)
  <2>1. PICK ts \in {{t} : t \in Hooked} \cup {Hooked}, e \in BOOLEAN : QueueHook(ts, e) BY <1>3
  <2> QED BY <2>1, QueueStays
<1>4. CASE \E c \in Callers : Call(c) BY <1>4, CallStays
<1>5. CASE \/ MH_Initialize \/ Freeze \/ FreezeFails \/ ProtectFails \/ Unfreeze \/ Finish
           \/ \E r \in Runners : Run(r)
  BY <1>5, QuietSteps
<1>6. CASE EnableHookLL BY <1>6, EnableHookLLStays
<1>7. CASE FinishRemove BY <1>7, FinishRemoveStays
<1>8. CASE FinishUninitialize BY <1>8, FinishUninitializeStays
<1> QED BY <1>1, <1>2, <1>3, <1>4, <1>5, <1>6, <1>7, <1>8 DEF Next, CallStep

-------------------------------------------------------------------------------
(* Moving a suspended runner *)

Moves(place, m, f) ==
  f = [n \in 0 .. m |->
         IF n = 0 THEN place
         ELSE IF job.pos \in {0, n} THEN MoveIP(hooks[n], ActionEnables(job.op, n), f[n - 1])
         ELSE f[n - 1]]

LEMMA MovesExist ==
  ASSUME NEW place, NEW n \in Nat
  PROVE  \E f : Moves(place, n, f)
<1>. DEFINE S == {m \in Nat : ~\E f : Moves(place, m, f)}
<1>1. ASSUME NEW m \in S PROVE \E l \in S : l < m
  <2>1. m # 0
    <3>1. Moves(place, 0, [k \in 0 .. 0 |-> place])
      BY DEF Moves
    <3>. QED
      BY <3>1
  <2>2. m - 1 \in Nat /\ m - 1 < m
    BY <2>1
  <2>3. ASSUME NEW f, Moves(place, m - 1, f) PROVE FALSE
    <3>. DEFINE step(k, q) == IF job.pos \in {0, k} THEN MoveIP(hooks[k], ActionEnables(job.op, k), q)
                              ELSE q
                g == [k \in 0 .. m |-> IF k < m THEN f[k] ELSE step(k, f[k - 1])]
    <3>0. f = [k \in 0 .. m - 1 |-> IF k = 0 THEN place ELSE step(k, f[k - 1])]
      BY <2>3 DEF Moves
    <3>. HIDE DEF step
    <3>1. ASSUME NEW k \in 0 .. m
          PROVE  g[k] = IF k = 0 THEN place ELSE step(k, g[k - 1])
      <4>1. CASE k < m
        <5>1. k \in 0 .. m - 1 /\ (k # 0 => k - 1 \in 0 .. m /\ k - 1 < m)
          BY <2>2, <4>1
        <5>2. f[k] = IF k = 0 THEN place ELSE step(k, f[k - 1])
          BY <3>0, <5>1
        <5>. QED
          BY <4>1, <5>1, <5>2
      <4>2. CASE ~(k < m)
        <5>1. k = m /\ k # 0 /\ k - 1 \in 0 .. m /\ k - 1 < m
          BY <2>1, <2>2, <4>2
        <5>. QED
          BY <4>2, <5>1
      <4>. QED
        BY <4>1, <4>2
    <3>2. g = [k \in 0 .. m |-> IF k = 0 THEN place ELSE step(k, g[k - 1])]
      BY <3>1
    <3>3. Moves(place, m, g)
      BY <3>2 DEF Moves, step
    <3>. QED
      BY <3>3
  <2>. QED
    BY <2>2, <2>3
<1>2. S = {}
  BY <1>1, NoneLeast
<1>. QED
  BY <1>2

LEMMA ProcessIs ==
  ASSUME NEW place, Len(hooks) \in Nat
  PROVE  \E f : Moves(place, Len(hooks), f) /\ ProcessThreadIPs(place) = f[Len(hooks)]
<1>. DEFINE f == CHOOSE f : Moves(place, Len(hooks), f)
<1>1. Moves(place, Len(hooks), f)
  BY MovesExist
<1>2. ProcessThreadIPs(place) = f[Len(hooks)]
  BY DEF ProcessThreadIPs, Moves
<1>. QED
  BY <1>1, <1>2

\* Slots are not shared, so a place in a trampoline is one function's.
LEMMA OwnerIs ==
  ASSUME OwnSlots(hooks), NEW p \in DOMAIN hooks, NEW k \in DOMAIN Tramp[hooks[p].target].ips
  PROVE  Owner(InTramp(hooks[p].slot, k)) = {hooks[p].target}
<1>1. InTramp(hooks[p].slot, k).slot = hooks[p].slot /\ InTramp(hooks[p].slot, k).k = k
  BY DEF InTramp
<1>2. \A q \in DOMAIN hooks : hooks[q].slot = hooks[p].slot => q = p
  BY DEF OwnSlots
<1>. QED
  BY <1>1, <1>2 DEF Owner

LEMMA MeaningIs ==
  /\ \A t, off : Meaning(In(t, off)) = <<t, off>>
  /\ \A t : Meaning(Above(t)) = <<t, 0>>
BY DEF Meaning, In, Above

LEMMA MeaningOfCopy ==
  ASSUME OwnSlots(hooks), NEW p \in DOMAIN hooks, NEW k \in DOMAIN Tramp[hooks[p].target].ips
  PROVE  Meaning(InTramp(hooks[p].slot, k)) = <<hooks[p].target, Tramp[hooks[p].target].ips[k][1]>>
<1>. DEFINE place == InTramp(hooks[p].slot, k)
            t == CHOOSE x \in Owner(place) : TRUE
<1>1. place.at = "tramp" /\ place.k = k
  BY DEF InTramp
<1>2. Owner(place) = {hooks[p].target}
  BY OwnerIs
<1>3. t = hooks[p].target
  BY <1>2
<1>. HIDE DEF place
<1>4. Meaning(place) = <<t, Tramp[t].ips[place.k][1]>>
  BY <1>1, <1>2 DEF Meaning
<1>. QED
  BY <1>1, <1>3, <1>4 DEF place

LEMMA MoveMeans ==
  ASSUME OwnSlots(hooks), NEW p \in DOMAIN hooks, NEW enable, NEW place
  PROVE  Meaning(MoveIP(hooks[p], enable, place)) = Meaning(place)
<1>. DEFINE h == hooks[p]
            t == h.target
            ips == Tramp[t].ips
<1>1. Meaning(FindNewIP(h, place)) = Meaning(place)
  <2>. DEFINE ks == {k \in DOMAIN ips : place = In(t, ips[k][1])}
  <2>1. CASE ks = {}
    BY <2>1 DEF FindNewIP
  <2>2. CASE ks # {}
    <3>. DEFINE k == CHOOSE k \in ks : TRUE
    <3>1. k \in ks
      BY <2>2
    <3>2. FindNewIP(h, place) = InTramp(h.slot, k)
      BY <2>2 DEF FindNewIP
    <3>. HIDE DEF k
    <3>3. Meaning(InTramp(h.slot, k)) = <<t, ips[k][1]>>
      BY <3>1, MeaningOfCopy
    <3>4. Meaning(place) = <<t, ips[k][1]>>
      BY <3>1, MeaningIs
    <3>. QED
      BY <3>2, <3>3, <3>4
  <2>. QED
    BY <2>1, <2>2
<1>2. Meaning(FindOldIP(h, place)) = Meaning(place)
  <2>. DEFINE ks == {k \in DOMAIN ips : place = InTramp(h.slot, k)}
  <2>1. CASE Tramp[t].patchAbove /\ place = Above(t)
    <3>1. FindOldIP(h, place) = In(t, 0)
      BY <2>1 DEF FindOldIP
    <3>. QED
      BY <2>1, <3>1, MeaningIs
  <2>2. CASE ~(Tramp[t].patchAbove /\ place = Above(t)) /\ ks = {}
    BY <2>2 DEF FindOldIP
  <2>3. CASE ~(Tramp[t].patchAbove /\ place = Above(t)) /\ ks # {}
    <3>. DEFINE k == CHOOSE k \in ks : TRUE
    <3>1. k \in ks
      BY <2>3
    <3>2. FindOldIP(h, place) = In(t, ips[k][1])
      BY <2>3 DEF FindOldIP
    <3>. HIDE DEF k
    <3>3. Meaning(place) = <<t, ips[k][1]>>
      BY <3>1, MeaningOfCopy
    <3>. QED
      BY <3>2, <3>3, MeaningIs
  <2>. QED
    BY <2>1, <2>2, <2>3
<1>. QED
  BY <1>1, <1>2 DEF MoveIP

LEMMA ProcessMeans ==
  ASSUME OwnSlots(hooks), Len(hooks) \in Nat, DOMAIN hooks = 1 .. Len(hooks), NEW place
  PROVE  Meaning(ProcessThreadIPs(place)) = Meaning(place)
<1>1. PICK f : Moves(place, Len(hooks), f) /\ ProcessThreadIPs(place) = f[Len(hooks)]
  BY ProcessIs
<1>. DEFINE S == {n \in 0 .. Len(hooks) : Meaning(f[n]) # Meaning(place)}
<1>2. ASSUME NEW n \in S PROVE \E l \in S : l < n
  <2>1. n # 0
    BY <1>1 DEF Moves
  <2>2. n \in DOMAIN hooks /\ n - 1 \in 0 .. Len(hooks) /\ n - 1 < n
    BY <2>1
  <2>3. f[n] = f[n - 1] \/ f[n] = MoveIP(hooks[n], ActionEnables(job.op, n), f[n - 1])
    BY <1>1, <2>1 DEF Moves
  <2>4. Meaning(f[n]) = Meaning(f[n - 1])
    BY <2>2, <2>3, MoveMeans
  <2>. QED
    BY <2>2, <2>4
<1>3. S = {}
  <2>1. S \in SUBSET Nat
    OBVIOUS
  <2>. HIDE DEF S
  <2>. QED
    BY <1>2, <2>1, NoneLeast
<1>. QED
  BY <1>1, <1>3

-------------------------------------------------------------------------------
(* The places of the runners *)

\* An offset a runner can be at: that of an instruction, and one the trampoline
\* knows when the jump takes its byte.
AtInstruction(t, off) ==
  \E n \in DOMAIN Code[t].body :
    /\ Offset(Code[t].body, n) = off
    /\ Tramp[t].ok /\ off \in PatchedBytes(t) => n \in DOMAIN Tramp[t].ips

InCode(place) ==
  /\ place.at = "code" /\ place = In(place.fn, place.off)
  /\ place.fn \in Targets /\ AtInstruction(place.fn, place.off)
InSlot(place) == place.at = "tramp" /\ place = InTramp(place.slot, place.k)

\* The places there are.
Known(place) ==
  \/ place = Out \/ place = Torn \/ InCode(place) \/ InSlot(place)
  \/ /\ place.at = "above" /\ place = Above(place.fn)
     /\ place.fn \in Targets /\ Tramp[place.fn].patchAbove
  \/ place.at = "detour" /\ place = Detour(place.fn) /\ place.fn \in Targets
  \/ /\ place.at = "callee" /\ place = Called(place.ret)
     /\ place.ret = Out \/ InCode(place.ret) \/ InSlot(place.ret)

\* A place from which a runner goes on as its function would: not in bytes that
\* are the jump's, nor in a detour or trampoline without a hook, nor about to
\* return to one.
Uncaught(place) ==
  /\ place.at # "torn"
  /\ place.at = "code" =>
       (place.fn \in patched => place.off \notin PatchedBytes(place.fn) \ {0})
  /\ place.at = "above" => place.fn \in patched
  /\ place.at = "detour" => place.fn \in Hooked
  /\ place.at = "tramp" => Owner(place) # {}
  /\ place.at = "callee" =>
       /\ place.ret.at = "code" =>
            (Tramp[place.ret.fn].ok => place.ret.off \notin PatchedBytes(place.ret.fn) \ {0})
       /\ place.ret.at = "tramp" => Owner(place.ret) # {}

\* Only functions with a trampoline are hooked, and the caller's ppOriginal is it.
Fitted ==
  \A p \in DOMAIN hooks :
    Tramp[hooks[p].target].ok /\ orig[hooks[p].target] = hooks[p].slot

\* What Freeze is called with: one hook, or all that are not as they should be.
Fresh ==
  job.phase = "freeze" =>
    IF job.pos = 0 THEN job.op \notin Single /\ job.todo = Changes(job.op, DOMAIN hooks)
    ELSE /\ job.op \in Single /\ job.pos \in DOMAIN hooks /\ job.todo = {job.pos}
         /\ hooks[job.pos].isEnabled # Wanted(job.op, job.pos)

Placed == ip = [r \in Runners |-> ip[r]] /\ \A r \in Runners : Known(ip[r])

\* As long as nothing was undone, all runners are suspended while code is
\* written, and none is caught, unless something is about to be undone.
NoneCaught ==
  ~undone =>
    /\ job.phase = "patch" => frozen = Runners
    /\ \/ job.phase = "patch" /\ \E p \in job.todo : ~Wanted(job.op, p)
       \/ \A r \in Runners : Uncaught(ip[r])

LEMMA CodeIs ==
  ASSUME NEW t \in Targets
  PROVE  LET c == Code[t] IN
         /\ c \in FunctionCode /\ c.body \in Seq(Instruction) /\ WellFormed(c)
         /\ Len(c.body) \in Nat \ {0} /\ DOMAIN c.body = 1 .. Len(c.body)
         /\ \A n \in DOMAIN c.body :
              /\ n \in Nat \ {0} /\ c.body[n] \in Instruction /\ c.body[n].len \in Nat \ {0}
              /\ Offset(c.body, n) \in Nat
              /\ Offset(c.body, n + 1) = Offset(c.body, n) + c.body[n].len
         /\ Tramp[t] = CreateTrampolineFunction(c)
<1>. DEFINE c == Code[t]
            body == c.body
<1>1. c \in FunctionCode /\ WellFormed(c) /\ body # <<>>
  BY CodeAssumption
<1>2. body \in Seq(Instruction)
  BY <1>1 DEF FunctionCode
<1>3. Tramp[t] = CreateTrampolineFunction(c)
  BY DEF Tramp
<1>. HIDE DEF c
<1>4. Len(body) \in Nat \ {0} /\ DOMAIN body = 1 .. Len(body)
  BY <1>1, <1>2
<1>5. ASSUME NEW n \in DOMAIN body
      PROVE  /\ n \in Nat \ {0} /\ body[n] \in Instruction /\ body[n].len \in Nat \ {0}
             /\ Offset(body, n) \in Nat
             /\ Offset(body, n + 1) = Offset(body, n) + body[n].len
  <2>1. n \in Nat \ {0} /\ body[n] \in Instruction /\ n \in 1 .. Len(body) + 1
    BY <1>2, <1>4
  <2>2. body[n].len \in Nat \ {0}
    BY <2>1 DEF Instruction
  <2>. QED
    BY <1>2, <2>1, <2>2, OffsetsGrow, OffsetNext
<1>. QED
  BY <1>1, <1>2, <1>3, <1>4, <1>5 DEF c

\* Later instructions are at greater offsets.
LEMMA OffsetsOrdered ==
  ASSUME NEW t \in Targets, NEW m \in DOMAIN Code[t].body, NEW n \in DOMAIN Code[t].body
  PROVE  /\ Offset(Code[t].body, m) = Offset(Code[t].body, n) => m = n
         /\ At(t, Offset(Code[t].body, n)) = n
<1>. DEFINE body == Code[t].body
<1>1. \A i, j \in DOMAIN body : Offset(body, i) = Offset(body, j) => i = j
  <2>1. ASSUME NEW i \in DOMAIN body, NEW j \in DOMAIN body, Offset(body, i) = Offset(body, j)
        PROVE  i = j
    <3>1. body \in Seq(Instruction) /\ Len(body) \in Nat /\ DOMAIN body = 1 .. Len(body)
      BY CodeIs
    <3>2. i \in 1 .. Len(body) + 1 /\ j \in 1 .. Len(body) + 1 /\ i \in Nat /\ j \in Nat
      BY <3>1
    <3>3. Offset(body, i) \in Nat /\ Offset(body, j) \in Nat
      BY <3>1, <3>2, OffsetsGrow
    <3>4. \A k, l \in 1 .. Len(body) + 1 : l < k => Offset(body, l) < Offset(body, k)
      BY <3>1, OffsetsGrow
    <3>5. (i < j => Offset(body, i) < Offset(body, j)) /\ (j < i => Offset(body, j) < Offset(body, i))
      BY <3>2, <3>4
    <3>6. ~(i < j) /\ ~(j < i)
      BY <2>1, <3>3, <3>5
    <3>. QED
      BY <3>2, <3>6
  <2>. QED
    BY <2>1
<1>2. At(t, Offset(body, n)) = n
  BY <1>1 DEF At
<1>. QED
  BY <1>1, <1>2

\* What is known of a trampoline that was made.
LEMMA TrampIs ==
  ASSUME NEW t \in Targets, Tramp[t].ok
  PROVE  /\ DOMAIN Tramp[t].ips = 1 .. Len(Tramp[t].ips) /\ 1 \in DOMAIN Tramp[t].ips
         /\ \A n \in DOMAIN Tramp[t].ips :
              /\ n \in DOMAIN Code[t].body /\ Tramp[t].ips[n][1] = Offset(Code[t].body, n)
              /\ Tramp[t].ips[n][1] \in Nat /\ Tramp[t].ips[n][2] \in Nat
         /\ Tramp[t].ips[1][1] = 0
<1>. DEFINE ips == Tramp[t].ips
<1>1. Code[t] \in FunctionCode /\ Tramp[t] = CreateTrampolineFunction(Code[t])
  BY CodeIs
<1>2. DOMAIN ips = 1 .. Len(ips) /\ Len(ips) \in 1 .. Len(Code[t].body) /\ Len(Code[t].body) \in Nat
  BY <1>1, BoundariesAre, CodeIs
<1>3. 1 \in DOMAIN ips
  BY <1>2
<1>4. ASSUME NEW n \in DOMAIN ips
      PROVE  /\ n \in DOMAIN Code[t].body /\ ips[n][1] = Offset(Code[t].body, n)
             /\ ips[n][1] \in Nat /\ ips[n][2] \in Nat
  BY <1>1, BoundariesAre
<1>5. Offset(Code[t].body, 1) = 0
  BY OffsetNext
<1>. QED
  BY <1>2, <1>3, <1>4, <1>5

LEMMA PatchedBytesAre ==
  ASSUME NEW t
  PROVE  /\ 0 \in PatchedBytes(t) /\ PatchedBytes(t) \subseteq 0 .. JMP_REL - 1
         /\ \A m, n \in Nat : m < n /\ n \in PatchedBytes(t) => m \in PatchedBytes(t)
         /\ \A n \in Nat : n >= JMP_REL => n \notin PatchedBytes(t)
         /\ PatchedBytes(t) = 0 .. (IF Tramp[t].patchAbove THEN JMP_REL_SHORT ELSE JMP_REL) - 1
<1>1. CASE Tramp[t].patchAbove
  <2>1. PatchedBytes(t) = 0 .. 1
    BY <1>1 DEF PatchedBytes, JMP_REL_SHORT
  <2>. QED
    BY <1>1, <2>1 DEF JMP_REL, JMP_REL_SHORT
<1>2. CASE ~Tramp[t].patchAbove
  <2>1. PatchedBytes(t) = 0 .. 4
    BY <1>2 DEF PatchedBytes, JMP_REL
  <2>. QED
    BY <1>2, <2>1 DEF JMP_REL, JMP_REL_SHORT
<1>. QED
  BY <1>1, <1>2

\* An instruction in the bytes of the jump that is no padding is copied.
LEMMA CoveredIs ==
  ASSUME NEW t \in Targets, Tramp[t].ok, NEW n \in DOMAIN Code[t].body,
         Offset(Code[t].body, n) \in PatchedBytes(t), Code[t].body[n].kind # "pad"
  PROVE  n \in DOMAIN Tramp[t].ips
<1>1. Code[t] \in FunctionCode /\ Tramp[t] = CreateTrampolineFunction(Code[t])
  BY CodeIs
<1>2. CoversPatch(Tramp[t], Code[t])
  BY <1>1, CoversThePatch
<1>3. Offset(Code[t].body, n) < (IF Tramp[t].patchAbove THEN JMP_REL_SHORT ELSE JMP_REL)
  BY DEF PatchedBytes, JMP_REL, JMP_REL_SHORT
<1>4. Offset(Code[t].body, n) \in OldIPs(Tramp[t])
  BY <1>2, <1>3 DEF CoversPatch
<1>5. PICK k \in DOMAIN Tramp[t].ips : Tramp[t].ips[k][1] = Offset(Code[t].body, n)
  BY <1>4 DEF OldIPs
<1>6. k \in DOMAIN Code[t].body /\ Offset(Code[t].body, k) = Offset(Code[t].body, n)
  BY <1>5, TrampIs
<1>. QED
  BY <1>5, <1>6, OffsetsOrdered

\* A function is entered at an instruction.
LEMMA EntryIs ==
  ASSUME NEW t \in Targets
  PROVE  AtInstruction(t, 0)
<1>1. 1 \in DOMAIN Code[t].body
  BY CodeIs
<1>2. Offset(Code[t].body, 1) = 0
  BY OffsetNext
<1>3. Tramp[t].ok => 1 \in DOMAIN Tramp[t].ips
  BY TrampIs
<1>. QED
  BY <1>1, <1>2, <1>3 DEF AtInstruction

\* And the next instruction is one, and what a branch leads to.
LEMMA NextIn ==
  ASSUME NEW t \in Targets, NEW n \in DOMAIN Code[t].body, n # Len(Code[t].body),
         Tramp[t].ok /\ Offset(Code[t].body, n) \in PatchedBytes(t) => n \in DOMAIN Tramp[t].ips,
         Code[t].body[n].kind \notin {"ret", "jmp"}
  PROVE  AtInstruction(t, Offset(Code[t].body, n) + Code[t].body[n].len)
<1>. DEFINE body == Code[t].body
            at(k) == Offset(body, k)
<1>1. /\ n \in Nat \ {0} /\ n + 1 \in DOMAIN body /\ at(n) \in Nat /\ body[n].len \in Nat \ {0}
      /\ at(n + 1) = at(n) + body[n].len /\ at(n + 1) \in Nat /\ at(n) < at(n + 1)
  <2>1. DOMAIN body = 1 .. Len(body) /\ Len(body) \in Nat
    BY CodeIs
  <2>2. n \in Nat \ {0} /\ n + 1 \in DOMAIN body
    BY <2>1
  <2>3. at(n) \in Nat /\ body[n].len \in Nat \ {0} /\ at(n + 1) = at(n) + body[n].len /\ at(n + 1) \in Nat
    BY <2>2, CodeIs
  <2>. QED
    BY <2>2, <2>3
<1>2. ASSUME Tramp[t].ok, at(n + 1) \in PatchedBytes(t) PROVE n + 1 \in DOMAIN Tramp[t].ips
  <2>1. at(n) \in PatchedBytes(t)
    BY <1>1, <1>2, PatchedBytesAre
  <2>2. n \in DOMAIN Tramp[t].ips /\ at(n) < JMP_REL
    BY <1>2, <2>1, PatchedBytesAre DEF JMP_REL
  <2>3. Code[t] \in FunctionCode /\ Tramp[t] = CreateTrampolineFunction(Code[t])
    BY CodeIs
  <2>. QED
    BY <1>2, <2>2, <2>3, NextIsCopied
<1>. QED
  BY <1>1, <1>2 DEF AtInstruction

LEMMA BranchIn ==
  ASSUME NEW t \in Targets, NEW n \in DOMAIN Code[t].body, Internal(Code[t].body[n])
  PROVE  AtInstruction(t, Code[t].body[n].dest)
<1>1. PICK m \in DOMAIN Code[t].body : Offset(Code[t].body, m) = Code[t].body[n].dest
  BY CodeIs DEF WellFormed
<1>2. Code[t].body[m].kind # "pad"
  BY <1>1, CodeAssumption
<1>. QED
  BY <1>1, <1>2, CoveredIs DEF AtInstruction

-------------------------------------------------------------------------------
(* One instruction of a runner *)

LEMMA PlacesAre ==
  /\ Out.at = "out" /\ Torn.at = "torn"
  /\ \A t, off : In(t, off).at = "code" /\ In(t, off).fn = t /\ In(t, off).off = off
  /\ \A t : Above(t).at = "above" /\ Above(t).fn = t
  /\ \A t : Detour(t).at = "detour" /\ Detour(t).fn = t
  /\ \A s, k : InTramp(s, k).at = "tramp" /\ InTramp(s, k).slot = s /\ InTramp(s, k).k = k
  /\ \A p : Called(p).at = "callee" /\ Called(p).ret = p
BY DEF Out, Torn, In, Above, Detour, InTramp, Called

\* In the code of its function: out of it, on, where the branch leads, or in
\* what was called.
LEMMA AfterCodeIs ==
  ASSUME NEW t \in Targets, NEW n \in DOMAIN Code[t].body,
         Tramp[t].ok /\ Offset(Code[t].body, n) \in PatchedBytes(t) => n \in DOMAIN Tramp[t].ips,
         NEW q \in AfterCode(t, n)
  PROVE  LET i == Code[t].body[n]
             next == Offset(Code[t].body, n) + i.len IN
         \/ q = Out
         \/ q = Called(Out)
         \/ q = In(t, next) /\ AtInstruction(t, next)
         \/ Internal(i) /\ q = In(t, i.dest) /\ AtInstruction(t, i.dest)
         \/ q = Called(In(t, next)) /\ AtInstruction(t, next) /\ (next >= JMP_REL \/ i.kind = "icall")
<1>. DEFINE body == Code[t].body
            i == body[n]
            off == Offset(body, n)
            next == IF n = Len(body) THEN Out ELSE In(t, off + i.len)
<1>1. /\ i \in Instruction /\ i.len \in Nat /\ off \in Nat
  BY CodeIs
<1>2. i.kind \notin {"ret", "jmp"} => next = Out \/ (next = In(t, off + i.len) /\ AtInstruction(t, off + i.len))
  BY NextIn
<1>3. Internal(i) => AtInstruction(t, i.dest)
  BY BranchIn
<1>4. q \in (CASE i.kind \in {"call", "icall"} -> {Called(next)}
               [] i.kind \in {"ret", "ijmp"}   -> {Out}
               [] i.kind \in Branches ->
                    (IF i.kind = "jmp" THEN {} ELSE {next})
                    \cup {IF Internal(i) THEN In(t, i.dest) ELSE Out}
               [] OTHER           -> {next})
  BY DEF AfterCode
<1>. HIDE DEF next, i, off
<1>5. CASE i.kind \in {"call", "icall"}
  <2>1. q = Called(next)
    BY <1>4, <1>5 DEF Branches
  <2>2. i.kind = "call" => i.len = JMP_REL
    BY <1>1 DEF Instruction
  <2>3. off + i.len >= JMP_REL \/ i.kind = "icall"
    BY <1>1, <1>5, <2>2 DEF JMP_REL
  <2>. QED
    BY <1>2, <1>5, <2>1, <2>3 DEF off, i
<1>6. CASE i.kind \in {"ret", "ijmp"}
  BY <1>4, <1>6 DEF Branches
<1>7. CASE i.kind \in Branches
  <2>1. q \in (IF i.kind = "jmp" THEN {} ELSE {next}) \cup {IF Internal(i) THEN In(t, i.dest) ELSE Out}
    BY <1>4, <1>7 DEF Branches
  <2>2. (i.kind # "jmp" /\ q = next) \/ (Internal(i) /\ q = In(t, i.dest)) \/ q = Out
    BY <2>1
  <2>3. i.kind # "ret"
    BY <1>7 DEF Branches
  <2>. QED
    BY <1>2, <1>3, <2>2, <2>3 DEF off, i
<1>8. CASE i.kind \notin {"call", "icall", "ret", "ijmp"} \cup Branches
  <2>1. q = next
    BY <1>4, <1>8
  <2>2. i.kind \notin {"ret", "jmp"}
    BY <1>8 DEF Branches
  <2>. QED
    BY <1>2, <2>1, <2>2 DEF off, i
<1>. QED
  BY <1>5, <1>6, <1>7, <1>8

\* In its trampoline: out of it, back to the function, on, where the branch
\* leads, or in what was called.  No copied branch misses.
LEMMA AfterTrampIs ==
  ASSUME NEW t \in Targets, Tramp[t].ok, NEW n \in DOMAIN Tramp[t].ips, NEW s,
         NEW q \in AfterTramp(t, s, n)
  PROVE  \/ q = Out
         \/ /\ q = In(t, Tramp[t].ips[n][1]) /\ AtInstruction(t, Tramp[t].ips[n][1])
            /\ Tramp[t].ips[n][1] >= JMP_REL
         \/ \E k \in DOMAIN Tramp[t].ips : q = InTramp(s, k) \/ q = Called(InTramp(s, k))
         \/ q = Torn /\ ~Enterable(t)
<1>. DEFINE c == Code[t]
            i == c.body[n]
            ips == Tramp[t].ips
            lands == {k \in DOMAIN ips : ips[k][2] = ips[n][2] + i.dest - ips[n][1]}
            next == InTramp(s, n + 1)
<1>1. /\ n \in DOMAIN c.body /\ ips[n][1] = Offset(c.body, n) /\ ips[n][1] \in Nat /\ ips[n][2] \in Nat
      /\ c \in FunctionCode /\ WellFormed(c) /\ Tramp[t] = CreateTrampolineFunction(c)
  BY TrampIs, CodeIs
<1>2. i \in Instruction /\ i.dest \in Nat
  <2>1. i \in Instruction
    BY <1>1, CodeIs
  <2>. QED
    BY <2>1 DEF Instruction
<1>3. q \in (CASE ips[n][1] >= JMP_REL -> {In(t, ips[n][1])}
               [] ips[n][1] < JMP_REL /\ i.kind \in {"call", "icall"} -> {Called(next)}
               [] ips[n][1] < JMP_REL /\ i.kind \in {"ret", "ijmp"}   -> {Out}
               [] ips[n][1] < JMP_REL /\ i.kind \in Branches ->
                    (IF i.kind = "jmp" THEN {} ELSE {next})
                    \cup (IF ~Internal(i) THEN {Out}
                          ELSE IF lands = {} THEN {Torn} ELSE {InTramp(s, k) : k \in lands})
               [] OTHER -> {next})
  BY DEF AfterTramp
<1>4. ASSUME ips[n][1] < JMP_REL, i.kind \notin {"ret", "jmp"}
      PROVE  n + 1 \in DOMAIN ips
  BY <1>1, <1>4, NextIsCopied
<1>5. ASSUME ips[n][1] < JMP_REL, Internal(i), Enterable(t) PROVE lands # {}
  <2>1. ~WidenedBehind(Tramp[t], c, n)
    BY <1>1, <1>5 DEF Enterable
  <2>2. Follows(Tramp[t], c)
    BY <1>1, FollowsTheFunction
  <2>3. <<i.dest, ips[n][2] + (i.dest - ips[n][1])>> \in FollowsIn(Tramp[t], c, n, CopySize(ips[n][1], i))
    BY <1>5 DEF FollowsIn
  <2>4. PICK k \in DOMAIN ips : ips[k] = <<i.dest, ips[n][2] + (i.dest - ips[n][1])>>
    BY <1>5, <2>1, <2>2, <2>3 DEF Follows
  <2>5. ips[k][2] = ips[n][2] + i.dest - ips[n][1]
    BY <1>1, <1>2, <2>4
  <2>. QED
    BY <2>5
<1>6. ips[n][1] >= JMP_REL \/ ips[n][1] < JMP_REL
  BY <1>1 DEF JMP_REL
<1>7. CASE ips[n][1] >= JMP_REL
  <2>1. q = In(t, ips[n][1])
    BY <1>1, <1>3, <1>7 DEF JMP_REL
  <2>2. AtInstruction(t, ips[n][1])
    BY <1>1 DEF AtInstruction
  <2>. QED
    BY <1>7, <2>1, <2>2
<1>. HIDE DEF lands, next, i, ips, c
<1>8. CASE ips[n][1] < JMP_REL
  <2>0. ~(ips[n][1] >= JMP_REL)
    BY <1>1, <1>8 DEF JMP_REL
  <2>1. CASE i.kind \in {"call", "icall"}
    <3>1. q = Called(next)
      BY <1>3, <1>8, <2>0, <2>1 DEF Branches
    <3>2. n + 1 \in DOMAIN ips
      BY <1>4, <1>8, <2>1
    <3>. QED
      BY <3>1, <3>2 DEF next, ips
  <2>2. CASE i.kind \in {"ret", "ijmp"}
    BY <1>3, <1>8, <2>0, <2>2 DEF Branches
  <2>3. CASE i.kind \in Branches
    <3>1. q \in (IF i.kind = "jmp" THEN {} ELSE {next})
                 \cup (IF ~Internal(i) THEN {Out}
                       ELSE IF lands = {} THEN {Torn} ELSE {InTramp(s, k) : k \in lands})
      BY <1>3, <1>8, <2>0, <2>3 DEF Branches
    <3>2. \/ i.kind # "jmp" /\ q = next
          \/ q = Out
          \/ Internal(i) /\ lands = {} /\ q = Torn
          \/ \E k \in lands : q = InTramp(s, k)
      BY <3>1
    <3>3. i.kind # "ret"
      BY <2>3 DEF Branches
    <3>4. CASE i.kind # "jmp" /\ q = next
      BY <1>4, <1>8, <3>3, <3>4 DEF next, ips
    <3>5. CASE Internal(i) /\ lands = {} /\ q = Torn
      BY <1>5, <1>8, <3>5
    <3>6. CASE \E k \in lands : q = InTramp(s, k)
      BY <3>6 DEF lands, ips
    <3>. QED
      BY <3>2, <3>4, <3>5, <3>6
  <2>4. CASE i.kind \notin {"call", "icall", "ret", "ijmp"} \cup Branches
    <3>1. q = next
      BY <1>3, <1>8, <2>0, <2>4
    <3>2. n + 1 \in DOMAIN ips
      BY <1>4, <1>8, <2>4 DEF Branches
    <3>. QED
      BY <3>1, <3>2 DEF next, ips
  <2>. QED
    BY <2>1, <2>2, <2>3, <2>4
<1>. QED
  BY <1>6, <1>7, <1>8 DEF ips

\* Who has a place in a trampoline.
LEMMA OwnersAre ==
  ASSUME hooks \in Seq(Entry), Fitted, NEW place, NEW t \in Owner(place)
  PROVE  /\ t \in Targets /\ Tramp[t].ok /\ place.k \in DOMAIN Tramp[t].ips
         /\ \E p \in DOMAIN hooks : hooks[p].target = t /\ hooks[p].slot = place.slot
<1>1. PICK p \in DOMAIN hooks :
        /\ hooks[p].target = t /\ hooks[p].slot = place.slot
        /\ place.k \in DOMAIN Tramp[hooks[p].target].ips
  BY DEF Owner
<1>2. hooks[p] \in Entry
  OBVIOUS
<1>. QED
  BY <1>1, <1>2 DEF Entry, Fitted

LEMMA HeldBy ==
  ASSUME NEW p \in DOMAIN hooks, NEW k \in DOMAIN Tramp[hooks[p].target].ips
  PROVE  Owner(InTramp(hooks[p].slot, k)) # {}
<1>1. InTramp(hooks[p].slot, k).slot = hooks[p].slot /\ InTramp(hooks[p].slot, k).k = k
  BY PlacesAre
<1>. QED
  BY <1>1 DEF Owner

\* The instruction a runner in the code is at.
LEMMA CodePlace ==
  ASSUME NEW place, InCode(place)
  PROVE  /\ place.fn \in Targets /\ At(place.fn, place.off) \in DOMAIN Code[place.fn].body
         /\ Offset(Code[place.fn].body, At(place.fn, place.off)) = place.off /\ place.off \in Nat
         /\ Tramp[place.fn].ok /\ place.off \in PatchedBytes(place.fn) =>
              At(place.fn, place.off) \in DOMAIN Tramp[place.fn].ips
<1>1. place.fn \in Targets
  BY DEF InCode
<1>2. PICK n \in DOMAIN Code[place.fn].body :
        /\ Offset(Code[place.fn].body, n) = place.off
        /\ Tramp[place.fn].ok /\ place.off \in PatchedBytes(place.fn) => n \in DOMAIN Tramp[place.fn].ips
  BY DEF InCode, AtInstruction
<1>3. At(place.fn, place.off) = n
  BY <1>1, <1>2, OffsetsOrdered
<1>4. Offset(Code[place.fn].body, n) \in Nat
  BY <1>1, CodeIs
<1>. QED
  BY <1>1, <1>2, <1>3, <1>4

LEMMA KnownIn ==
  ASSUME NEW t \in Targets, NEW off, AtInstruction(t, off)
  PROVE  InCode(In(t, off)) /\ Known(In(t, off)) /\ Known(Called(In(t, off)))
<1>1. InCode(In(t, off))
  BY PlacesAre DEF InCode
<1>2. Called(In(t, off)).at = "callee" /\ Called(In(t, off)).ret = In(t, off)
  BY PlacesAre
<1>. QED
  BY <1>1, <1>2 DEF Known

LEMMA KnownOthers ==
  /\ Known(Out) /\ Known(Torn) /\ Known(Called(Out))
  /\ \A s, k : InSlot(InTramp(s, k)) /\ Known(InTramp(s, k)) /\ Known(Called(InTramp(s, k)))
  /\ \A t \in Targets : Known(Detour(t)) /\ (Tramp[t].patchAbove => Known(Above(t)))
<1>1. \A s, k : InSlot(InTramp(s, k))
  BY PlacesAre DEF InSlot
<1>2. \A p : Called(p).at = "callee" /\ Called(p).ret = p
  BY PlacesAre
<1>3. \A t : /\ Detour(t).at = "detour" /\ Detour(t).fn = t
             /\ Above(t).at = "above" /\ Above(t).fn = t
  BY PlacesAre
<1>. QED
  BY <1>1, <1>2, <1>3 DEF Known

\* There are no other places.
LEMMA AfterKnown ==
  ASSUME hooks \in Seq(Entry), Fitted, NEW place, Known(place), NEW q \in After(place)
  PROVE  Known(q)
<1>1. CASE place = Out
  <2>1. PICK t \in Targets : q = In(t, 0)
    BY <1>1, PlacesAre DEF After
  <2>. QED
    BY <2>1, EntryIs, KnownIn
<1>2. CASE place = Torn
  BY <1>2, PlacesAre DEF After
<1>3. CASE InCode(place)
  <2>. DEFINE t == place.fn
              n == At(t, place.off)
  <2>1. place.at = "code" /\ t \in Targets
    BY <1>3 DEF InCode
  <2>2. \/ q \in AfterCode(t, n)
        \/ q = Above(t) /\ Tramp[t].patchAbove
        \/ q = Detour(t) \/ q = Torn
    BY <2>1 DEF After
  <2>3. CASE q \in AfterCode(t, n)
    <3>1. /\ n \in DOMAIN Code[t].body
          /\ Tramp[t].ok /\ Offset(Code[t].body, n) \in PatchedBytes(t) => n \in DOMAIN Tramp[t].ips
      BY <1>3, CodePlace
    <3>. HIDE DEF n
    <3>2. q = Out \/ q = Called(Out)
          \/ \E off : AtInstruction(t, off) /\ (q = In(t, off) \/ q = Called(In(t, off)))
      BY <2>1, <2>3, <3>1, AfterCodeIs
    <3>. QED
      BY <2>1, <3>2, KnownIn, KnownOthers
  <2>. QED
    BY <2>1, <2>2, <2>3, KnownOthers
<1>4. CASE InSlot(place)
  <2>1. place.at = "tramp"
    BY <1>4 DEF InSlot
  <2>2. q = Torn \/ \E t \in Owner(place) : q \in AfterTramp(t, place.slot, place.k)
    BY <2>1 DEF After
  <2>3. ASSUME NEW t \in Owner(place), q \in AfterTramp(t, place.slot, place.k) PROVE Known(q)
    <3>1. t \in Targets /\ Tramp[t].ok /\ place.k \in DOMAIN Tramp[t].ips
      BY OwnersAre
    <3>2. \/ q = Out \/ q = Torn
          \/ \E off : AtInstruction(t, off) /\ q = In(t, off)
          \/ \E k : q = InTramp(place.slot, k) \/ q = Called(InTramp(place.slot, k))
      BY <2>3, <3>1, AfterTrampIs
    <3>. QED
      BY <3>1, <3>2, KnownIn, KnownOthers
  <2>. QED
    BY <2>2, <2>3, KnownOthers
<1>5. CASE place.at = "above" /\ place.fn \in Targets
  <2>1. q = Detour(place.fn) \/ q = Torn
    BY <1>5 DEF After
  <2>. QED
    BY <1>5, <2>1, KnownOthers
<1>6. CASE place.at = "detour"
  <2>1. q = Out \/ \E s : q = InTramp(s, 1)
    BY <1>6 DEF After
  <2>. QED
    BY <2>1, KnownOthers
<1>7. CASE place.at = "callee" /\ (place.ret = Out \/ InCode(place.ret) \/ InSlot(place.ret))
  <2>1. q = place.ret
    BY <1>7 DEF After
  <2>. QED
    BY <1>7, <2>1 DEF Known
<1>. QED
  BY <1>1, <1>2, <1>3, <1>4, <1>5, <1>6, <1>7 DEF Known

\* A runner goes on uncaught.
LEMMA AfterUncaught ==
  ASSUME hooks \in Seq(Entry), Fitted, patched \subseteq Hooked, \A t \in Targets : Enterable(t),
         NEW place, Known(place), Uncaught(place), NEW q \in After(place)
  PROVE  Uncaught(q)
<1>0. /\ Uncaught(Out) /\ Uncaught(Called(Out))
      /\ \A s, k : Owner(InTramp(s, k)) # {} => Uncaught(InTramp(s, k)) /\ Uncaught(Called(InTramp(s, k)))
      /\ \A t, off : (t \in patched => off \notin PatchedBytes(t) \ {0}) => Uncaught(In(t, off))
      /\ \A t, off : off \notin PatchedBytes(t) => Uncaught(Called(In(t, off)))
      /\ \A t \in patched : Uncaught(Above(t))
      /\ \A t \in Hooked : Uncaught(Detour(t))
  BY PlacesAre DEF Uncaught
<1>1. CASE place = Out
  <2>1. PICK t \in Targets : q = In(t, 0)
    BY <1>1, PlacesAre DEF After
  <2>. QED
    BY <1>0, <2>1
<1>2. CASE place = Torn
  BY <1>2, PlacesAre DEF Uncaught
<1>3. CASE InCode(place)
  <2>. DEFINE t == place.fn
              off == place.off
              n == At(t, off)
  <2>1. /\ place.at = "code" /\ t \in Targets /\ off \in Nat
        /\ n \in DOMAIN Code[t].body /\ Offset(Code[t].body, n) = off
        /\ Tramp[t].ok /\ off \in PatchedBytes(t) => n \in DOMAIN Tramp[t].ips
        /\ t \in patched => off \notin PatchedBytes(t) \ {0}
    BY <1>3, CodePlace DEF InCode, Uncaught
  <2>2. \/ q \in AfterCode(t, n) /\ (t \in patched => off # 0)
        \/ t \in patched /\ (q = Above(t) \/ q = Detour(t))
    BY <2>1 DEF After
  <2>3. CASE q \in AfterCode(t, n) /\ (t \in patched => off # 0)
    <3>. DEFINE i == Code[t].body[n]
    <3>1. i.len \in Nat \ {0}
      BY <2>1, CodeIs
    <3>2. \/ q = Out \/ q = Called(Out)
          \/ q = In(t, off + i.len)
          \/ Internal(i) /\ q = In(t, i.dest)
          \/ q = Called(In(t, off + i.len)) /\ (off + i.len >= JMP_REL \/ i.kind = "icall")
      BY <2>1, <2>3, AfterCodeIs
    <3>3. t \in patched => off \notin PatchedBytes(t)
      BY <2>1, <2>3
    <3>4. CASE q = In(t, off + i.len)
      <4>1. t \in patched => off + i.len \notin PatchedBytes(t)
        BY <2>1, <3>1, <3>3, PatchedBytesAre
      <4>. QED
        BY <1>0, <3>4, <4>1
    <3>5. CASE Internal(i) /\ q = In(t, i.dest)
      <4>1. t \in patched => i.dest \notin PatchedBytes(t) \ {0}
        BY <2>1, <3>3, <3>5 DEF Enterable
      <4>. QED
        BY <1>0, <3>5, <4>1
    <3>6. CASE q = Called(In(t, off + i.len)) /\ (off + i.len >= JMP_REL \/ i.kind = "icall")
      <4>1. i.kind = "icall" => off + i.len \notin PatchedBytes(t)
        BY <2>1 DEF Enterable
      <4>2. off + i.len >= JMP_REL => off + i.len \notin PatchedBytes(t)
        BY <2>1, <3>1, PatchedBytesAre
      <4>3. off + i.len \notin PatchedBytes(t)
        BY <3>6, <4>1, <4>2
      <4>. QED
        BY <1>0, <3>6, <4>3
    <3>. QED
      BY <1>0, <3>2, <3>4, <3>5, <3>6
  <2>. QED
    BY <1>0, <2>2, <2>3
<1>4. CASE InSlot(place)
  <2>1. place.at = "tramp" /\ Owner(place) # {}
    BY <1>4 DEF InSlot, Uncaught
  <2>2. PICK t \in Owner(place) : q \in AfterTramp(t, place.slot, place.k)
    BY <2>1 DEF After
  <2>3. /\ t \in Targets /\ Tramp[t].ok /\ place.k \in DOMAIN Tramp[t].ips
        /\ \E p \in DOMAIN hooks : hooks[p].target = t /\ hooks[p].slot = place.slot
    BY OwnersAre
  <2>4. \A k \in DOMAIN Tramp[t].ips : Owner(InTramp(place.slot, k)) # {}
    BY <2>3, HeldBy
  <2>5. \/ q = Out
        \/ q = In(t, Tramp[t].ips[place.k][1]) /\ Tramp[t].ips[place.k][1] >= JMP_REL
        \/ \E k \in DOMAIN Tramp[t].ips : q = InTramp(place.slot, k) \/ q = Called(InTramp(place.slot, k))
    BY <2>2, <2>3, AfterTrampIs
  <2>6. Tramp[t].ips[place.k][1] \in Nat
    BY <2>3, TrampIs
  <2>7. Tramp[t].ips[place.k][1] >= JMP_REL => Tramp[t].ips[place.k][1] \notin PatchedBytes(t)
    BY <2>6, PatchedBytesAre
  <2>. QED
    BY <1>0, <2>4, <2>5, <2>7
<1>5. CASE place.at = "above"
  <2>1. place.fn \in patched
    BY <1>5 DEF Uncaught
  <2>2. q = Detour(place.fn)
    BY <1>5, <2>1 DEF After
  <2>. QED
    BY <1>0, <2>1, <2>2
<1>6. CASE place.at = "detour"
  <2>1. PICK p \in DOMAIN hooks : hooks[p].target = place.fn
    BY <1>6 DEF Uncaught, Hooked
  <2>2. q = Out \/ q = InTramp(orig[place.fn], 1)
    BY <1>6 DEF After
  <2>3. hooks[p] \in Entry /\ orig[place.fn] = hooks[p].slot /\ Tramp[place.fn].ok
    BY <2>1 DEF Fitted
  <2>4. 1 \in DOMAIN Tramp[hooks[p].target].ips
    BY <2>1, <2>3, TrampIs DEF Entry
  <2>5. Owner(InTramp(orig[place.fn], 1)) # {}
    BY <2>3, <2>4, HeldBy
  <2>. QED
    BY <1>0, <2>2, <2>5
<1>7. CASE place.at = "callee" /\ (place.ret = Out \/ InCode(place.ret) \/ InSlot(place.ret))
  <2>1. q = place.ret
    BY <1>7 DEF After
  <2>2. CASE InCode(place.ret)
    <3>1. place.ret = In(place.ret.fn, place.ret.off) /\ place.ret.at = "code"
      BY <2>2 DEF InCode
    <3>2. Tramp[place.ret.fn].ok => place.ret.off \notin PatchedBytes(place.ret.fn) \ {0}
      BY <1>7, <3>1 DEF Uncaught
    <3>3. place.ret.fn \in patched => Tramp[place.ret.fn].ok
      BY DEF Fitted, Hooked
    <3>. QED
      BY <1>0, <2>1, <3>1, <3>2, <3>3
  <2>3. CASE InSlot(place.ret)
    <3>1. place.ret = InTramp(place.ret.slot, place.ret.k) /\ place.ret.at = "tramp"
      BY <2>3 DEF InSlot
    <3>2. Owner(place.ret) # {}
      BY <1>7, <3>1 DEF Uncaught
    <3>. QED
      BY <1>0, <2>1, <3>1, <3>2
  <2>. QED
    BY <1>0, <1>7, <2>1, <2>2, <2>3
<1>. QED
  BY <1>1, <1>2, <1>3, <1>4, <1>5, <1>6, <1>7 DEF Known

-------------------------------------------------------------------------------
(* What Freeze does to the places of the runners *)

LEMMA EntriesAre ==
  ASSUME hooks \in Seq(Entry), Fitted, NEW p \in DOMAIN hooks
  PROVE  /\ hooks[p].target \in Targets /\ Tramp[hooks[p].target].ok
         /\ hooks[p].isEnabled \in BOOLEAN /\ hooks[p].queueEnable \in BOOLEAN
         /\ \A op : Wanted(op, p) \in BOOLEAN /\ ActionEnables(op, p) \in BOOLEAN
<1>1. hooks[p] \in Entry
  OBVIOUS
<1>2. hooks[p].queueEnable \in BOOLEAN
  BY <1>1 DEF Entry
<1>3. \A op : Wanted(op, p) \in BOOLEAN
  BY <1>2 DEF Wanted
<1>. QED
  BY <1>1, <1>3 DEF Entry, Fitted, ActionEnables

\* Where a runner is moved to.
LEMMA NewIPIs ==
  ASSUME NEW h, NEW place
  PROVE  \/ /\ FindNewIP(h, place) = place
            /\ \A k \in DOMAIN Tramp[h.target].ips : place # In(h.target, Tramp[h.target].ips[k][1])
         \/ \E k \in DOMAIN Tramp[h.target].ips : FindNewIP(h, place) = InTramp(h.slot, k)
<1>. DEFINE ks == {k \in DOMAIN Tramp[h.target].ips : place = In(h.target, Tramp[h.target].ips[k][1])}
<1>1. CASE ks = {}
  BY <1>1 DEF FindNewIP
<1>2. CASE ks # {}
  <2>1. (CHOOSE k \in ks : TRUE) \in ks
    BY <1>2
  <2>2. FindNewIP(h, place) = InTramp(h.slot, CHOOSE k \in ks : TRUE)
    BY <1>2 DEF FindNewIP
  <2>. QED
    BY <2>1, <2>2
<1>. QED
  BY <1>1, <1>2

LEMMA OldIPIs ==
  ASSUME NEW h, NEW place
  PROVE  \/ /\ FindOldIP(h, place) = place
            /\ ~(Tramp[h.target].patchAbove /\ place = Above(h.target))
            /\ \A k \in DOMAIN Tramp[h.target].ips : place # InTramp(h.slot, k)
         \/ FindOldIP(h, place) = In(h.target, 0)
         \/ \E k \in DOMAIN Tramp[h.target].ips :
              FindOldIP(h, place) = In(h.target, Tramp[h.target].ips[k][1])
<1>. DEFINE ks == {k \in DOMAIN Tramp[h.target].ips : place = InTramp(h.slot, k)}
<1>1. CASE Tramp[h.target].patchAbove /\ place = Above(h.target)
  BY <1>1 DEF FindOldIP
<1>2. CASE ~(Tramp[h.target].patchAbove /\ place = Above(h.target)) /\ ks = {}
  BY <1>2 DEF FindOldIP
<1>3. CASE ~(Tramp[h.target].patchAbove /\ place = Above(h.target)) /\ ks # {}
  <2>1. (CHOOSE k \in ks : TRUE) \in ks
    BY <1>3
  <2>2. FindOldIP(h, place) = In(h.target, Tramp[h.target].ips[CHOOSE k \in ks : TRUE][1])
    BY <1>3 DEF FindOldIP
  <2>. QED
    BY <2>1, <2>2
<1>. QED
  BY <1>1, <1>2, <1>3

LEMMA MoveKnown ==
  ASSUME hooks \in Seq(Entry), Fitted, NEW p \in DOMAIN hooks, NEW enable, NEW place, Known(place)
  PROVE  Known(MoveIP(hooks[p], enable, place))
<1>. DEFINE t == hooks[p].target
<1>1. t \in Targets /\ Tramp[t].ok
  BY EntriesAre
<1>2. Known(FindNewIP(hooks[p], place))
  BY NewIPIs, KnownOthers
<1>3. Known(FindOldIP(hooks[p], place))
  <2>1. AtInstruction(t, 0)
    BY <1>1, EntryIs
  <2>2. ASSUME NEW k \in DOMAIN Tramp[t].ips PROVE AtInstruction(t, Tramp[t].ips[k][1])
    BY <1>1, TrampIs DEF AtInstruction
  <2>. QED
    BY <1>1, <2>1, <2>2, OldIPIs, KnownIn
<1>. QED
  BY <1>2, <1>3 DEF MoveIP

\* A runner that is moved for a hook is out of the way of it.
LEMMA MoveClears ==
  ASSUME hooks \in Seq(Entry), Fitted, NEW p \in DOMAIN hooks, NEW enable \in BOOLEAN,
         hooks[p].isEnabled # enable, NEW place, Known(place)
  PROVE  ~InTheWay(hooks[p], enable, MoveIP(hooks[p], enable, place))
<1>. DEFINE h == hooks[p]
            t == h.target
<1>1. t \in Targets /\ Tramp[t].ok
  BY EntriesAre
<1>2. CASE enable
  <2>1. MoveIP(h, enable, place) = FindNewIP(h, place)
    BY <1>2 DEF MoveIP
  <2>2. ASSUME NEW off \in PatchedBytes(t) \ {0}, FindNewIP(h, place) = In(t, off) PROVE FALSE
    <3>1. \A k : InTramp(h.slot, k) # In(t, off)
      <4>1. \A k : InTramp(h.slot, k).at # In(t, off).at
        BY PlacesAre
      <4>. QED
        BY <4>1
    <3>2. /\ place = In(t, off)
          /\ \A k \in DOMAIN Tramp[t].ips : place # In(t, Tramp[t].ips[k][1])
      BY <2>2, <3>1, NewIPIs
    <3>3. place.at = "code" /\ place.fn = t /\ place.off = off
      BY <3>2, PlacesAre
    <3>4. InCode(place)
      BY <3>3, PlacesAre DEF Known, InSlot
    <3>5. PICK n \in DOMAIN Tramp[t].ips : Offset(Code[t].body, n) = off
      BY <1>1, <3>3, <3>4 DEF InCode, AtInstruction
    <3>6. Tramp[t].ips[n][1] = off
      BY <1>1, <3>5, TrampIs
    <3>. QED
      BY <3>2, <3>6
  <2>. QED
    BY <1>2, <2>1, <2>2 DEF InTheWay
<1>3. CASE ~enable
  <2>1. MoveIP(h, enable, place) = FindOldIP(h, place)
    BY <1>3 DEF MoveIP
  <2>2. ASSUME NEW off PROVE In(t, off) # Above(t) /\ \A k : In(t, off) # InTramp(h.slot, k)
    <3>1. In(t, off).at # Above(t).at /\ \A k : In(t, off).at # InTramp(h.slot, k).at
      BY PlacesAre
    <3>. QED
      BY <3>1
  <2>3. CASE /\ FindOldIP(h, place) = place
             /\ ~(Tramp[t].patchAbove /\ place = Above(t))
             /\ \A k \in DOMAIN Tramp[t].ips : place # InTramp(h.slot, k)
    <3>1. place # Above(t)
      <4>1. SUFFICES ASSUME place = Above(t) PROVE Tramp[t].patchAbove
        BY <2>3
      <4>2. place.at = "above" /\ place.fn = t
        BY <4>1, PlacesAre
      <4>. QED
        BY <4>2, PlacesAre DEF Known, InCode, InSlot
    <3>. QED
      BY <1>3, <2>1, <2>3, <3>1 DEF InTheWay
  <2>4. CASE \E off : FindOldIP(h, place) = In(t, off)
    BY <1>3, <2>1, <2>2, <2>4 DEF InTheWay
  <2>. QED
    BY <2>3, <2>4, OldIPIs
<1>. QED
  BY <1>2, <1>3

\* And stays so when it is moved for another one.
LEMMA MoveKeepsClear ==
  ASSUME OwnSlots(hooks), NEW p \in DOMAIN hooks, NEW q \in DOMAIN hooks,
         hooks[p].target # hooks[q].target,
         NEW enable, NEW other, NEW place, ~InTheWay(hooks[p], enable, place)
  PROVE  ~InTheWay(hooks[p], enable, MoveIP(hooks[q], other, place))
<1>. DEFINE h == hooks[p]
            g == hooks[q]
            new == MoveIP(g, other, place)
<1>1. h.slot # g.slot
  BY DEF OwnSlots
<1>2. new = place \/ (\E k : new = InTramp(g.slot, k)) \/ \E off : new = In(g.target, off)
  BY NewIPIs, OldIPIs DEF MoveIP
<1>. HIDE DEF new
<1>3. ASSUME NEW k PROVE /\ \A off : InTramp(g.slot, k) # In(h.target, off)
                         /\ InTramp(g.slot, k) # Above(h.target)
                         /\ \A l : InTramp(g.slot, k) # InTramp(h.slot, l)
  <2>1. /\ \A off : InTramp(g.slot, k).at # In(h.target, off).at
        /\ InTramp(g.slot, k).at # Above(h.target).at
        /\ \A l : InTramp(g.slot, k).slot # InTramp(h.slot, l).slot
    BY <1>1, PlacesAre
  <2>. QED
    BY <2>1
<1>4. ASSUME NEW off PROVE /\ \A o : In(g.target, off) # In(h.target, o)
                           /\ In(g.target, off) # Above(h.target)
                           /\ \A l : In(g.target, off) # InTramp(h.slot, l)
  <2>1. /\ \A o : In(g.target, off).fn # In(h.target, o).fn
        /\ In(g.target, off).at # Above(h.target).at
        /\ \A l : In(g.target, off).at # InTramp(h.slot, l).at
    BY PlacesAre
  <2>. QED
    BY <2>1
<1>5. ~InTheWay(h, enable, new)
  BY <1>2, <1>3, <1>4 DEF InTheWay
<1>. QED
  BY <1>5 DEF new

\* All runners that are suspended end up out of the way, at known places.
LEMMA ProcessClears ==
  ASSUME hooks \in Seq(Entry), OwnSlots(hooks), Fitted, Fresh, job.phase = "freeze",
         \A p, q \in DOMAIN hooks : hooks[p].target = hooks[q].target => p = q,
         NEW place, Known(place)
  PROVE  /\ Known(ProcessThreadIPs(place))
         /\ job.op # "disable" =>
              \A p \in job.todo : ~InTheWay(hooks[p], Wanted(job.op, p), ProcessThreadIPs(place))
<1>0. Len(hooks) \in Nat /\ DOMAIN hooks = 1 .. Len(hooks)
  OBVIOUS
<1>1. PICK f : Moves(place, Len(hooks), f) /\ ProcessThreadIPs(place) = f[Len(hooks)]
  BY <1>0, ProcessIs
<1>2. f[0] = place
  BY <1>0, <1>1 DEF Moves
<1>3. ASSUME NEW n \in DOMAIN hooks
      PROVE  /\ n - 1 \in 0 .. Len(hooks) /\ n - 1 < n
             /\ \/ job.pos \in {0, n} /\ f[n] = MoveIP(hooks[n], ActionEnables(job.op, n), f[n - 1])
                \/ job.pos \notin {0, n} /\ f[n] = f[n - 1]
  <2>1. n \in 0 .. Len(hooks) /\ n # 0 /\ n - 1 \in 0 .. Len(hooks) /\ n - 1 < n
    BY <1>0
  <2>2. f[n] = IF job.pos \in {0, n} THEN MoveIP(hooks[n], ActionEnables(job.op, n), f[n - 1])
               ELSE f[n - 1]
    BY <1>1, <2>1 DEF Moves
  <2>. QED
    BY <2>1, <2>2
<1>4. ASSUME NEW p \in job.todo
      PROVE  p \in DOMAIN hooks /\ job.pos \in {0, p} /\ hooks[p].isEnabled # Wanted(job.op, p)
  BY DEF Fresh, Changes
<1>. DEFINE Clear(n) == job.op # "disable" =>
              \A p \in job.todo : p <= n => ~InTheWay(hooks[p], Wanted(job.op, p), f[n])
            S == {n \in 0 .. Len(hooks) : ~(Known(f[n]) /\ Clear(n))}
<1>5. ASSUME NEW n \in S PROVE \E l \in S : l < n
  <2>1. n # 0
    <3>1. \A p \in job.todo : ~(p <= 0)
      BY <1>0, <1>4
    <3>. QED
      BY <1>2, <3>1
  <2>2. n \in DOMAIN hooks /\ n \in Nat
    BY <1>0, <2>1
  <2>3. ASSUME Known(f[n - 1]), Clear(n - 1) PROVE Known(f[n]) /\ Clear(n)
    <3>1. Known(f[n])
      BY <1>3, <2>2, <2>3, MoveKnown
    <3>2. ASSUME job.op # "disable", NEW p \in job.todo, p <= n
          PROVE  ~InTheWay(hooks[p], Wanted(job.op, p), f[n])
      <4>1. p \in DOMAIN hooks /\ job.pos \in {0, p} /\ hooks[p].isEnabled # Wanted(job.op, p)
        BY <1>4, <3>2
      <4>2. CASE p = n
        <5>1. ActionEnables(job.op, n) = Wanted(job.op, n)
          BY <3>2 DEF ActionEnables
        <5>2. f[n] = MoveIP(hooks[n], Wanted(job.op, n), f[n - 1])
          BY <1>3, <2>2, <4>1, <4>2, <5>1
        <5>3. Wanted(job.op, n) \in BOOLEAN
          BY <2>2, EntriesAre
        <5>. QED
          BY <2>2, <2>3, <4>1, <4>2, <5>2, <5>3, MoveClears
      <4>3. CASE p # n
        <5>1. p <= n - 1
          BY <1>0, <2>2, <3>2, <4>1, <4>3
        <5>2. ~InTheWay(hooks[p], Wanted(job.op, p), f[n - 1])
          BY <2>3, <3>2, <5>1
        <5>3. hooks[p].target # hooks[n].target
          BY <2>2, <4>1, <4>3
        <5>. QED
          BY <1>3, <2>2, <4>1, <5>2, <5>3, MoveKeepsClear
      <4>. QED
        BY <4>2, <4>3
    <3>. QED
      BY <3>1, <3>2
  <2>4. n - 1 \in S /\ n - 1 < n
    BY <1>3, <2>2, <2>3
  <2>. QED
    BY <2>4
<1>6. S = {}
  <2>1. S \in SUBSET Nat
    OBVIOUS
  <2>. HIDE DEF S
  <2>. QED
    BY <1>5, <2>1, NoneLeast
<1>7. Known(f[Len(hooks)]) /\ Clear(Len(hooks))
  <2>1. Len(hooks) \in 0 .. Len(hooks)
    BY <1>0
  <2>. QED
    BY <1>6, <2>1
<1>8. \A p \in job.todo : p <= Len(hooks)
  BY <1>0, <1>4
<1>. QED
  BY <1>1, <1>7, <1>8

\* When hooks are only enabled, a runner that was not caught is moved to a
\* trampoline that has a hook.
LEMMA ProcessUncaught ==
  ASSUME hooks \in Seq(Entry), Fitted, Fresh, job.phase = "freeze",
         \A p \in job.todo : Wanted(job.op, p), NEW place, Uncaught(place)
  PROVE  Uncaught(ProcessThreadIPs(place))
<1>0. Len(hooks) \in Nat /\ DOMAIN hooks = 1 .. Len(hooks)
  OBVIOUS
<1>1. PICK f : Moves(place, Len(hooks), f) /\ ProcessThreadIPs(place) = f[Len(hooks)]
  BY <1>0, ProcessIs
<1>2. f[0] = place
  BY <1>0, <1>1 DEF Moves
<1>. DEFINE S == {n \in 0 .. Len(hooks) : ~Uncaught(f[n])}
<1>3. ASSUME NEW n \in S PROVE \E l \in S : l < n
  <2>1. n # 0
    BY <1>2
  <2>2. n \in DOMAIN hooks /\ n - 1 \in 0 .. Len(hooks) /\ n - 1 < n
    BY <1>0, <2>1
  <2>3. f[n] = IF job.pos \in {0, n} THEN MoveIP(hooks[n], ActionEnables(job.op, n), f[n - 1])
               ELSE f[n - 1]
    BY <1>1, <2>1 DEF Moves
  <2>4. f[n] = f[n - 1] \/ f[n] = FindNewIP(hooks[n], f[n - 1])
    <3>1. CASE ActionEnables(job.op, n)
      BY <2>3, <3>1 DEF MoveIP
    <3>2. CASE job.pos \in {0, n} /\ ~ActionEnables(job.op, n)
      <4>1. ~Wanted(job.op, n) /\ job.op # "disable" /\ ActionEnables(job.op, n) = Wanted(job.op, n)
        BY <3>2 DEF ActionEnables
      <4>2. n \notin job.todo
        BY <4>1
      <4>3. hooks[n].isEnabled = Wanted(job.op, n)
        BY <2>2, <3>2, <4>2 DEF Fresh, Changes
      <4>. QED
        BY <2>3, <4>1, <4>3 DEF MoveIP
    <3>. QED
      BY <2>3, <3>1, <3>2
  <2>5. \A k \in DOMAIN Tramp[hooks[n].target].ips : Uncaught(InTramp(hooks[n].slot, k))
    BY <2>2, HeldBy, PlacesAre DEF Uncaught
  <2>6. ~Uncaught(f[n - 1])
    BY <2>4, <2>5, NewIPIs
  <2>. QED
    BY <2>2, <2>6
<1>4. S = {}
  <2>1. S \in SUBSET Nat
    OBVIOUS
  <2>. HIDE DEF S
  <2>. QED
    BY <1>3, <2>1, NoneLeast
<1>. QED
  BY <1>0, <1>1, <1>4

-------------------------------------------------------------------------------
(* What the steps do to the runners *)

\* What holds of table, call and allocator, wherever the runners are.
Base == IInv /\ PoolInv /\ ArrayInv /\ RestInv

LEMMA BaseStays == (Init => Base) /\ (Base /\ [Next]_vars => Base')
BY InitInv, OwnedInit, NextStays, NextOwned DEF Base

LEMMA BaseIs ==
  ASSUME Base
  PROVE  /\ hooks \in Seq(Entry) /\ OwnSlots(hooks) /\ Len(hooks) \in Nat
         /\ DOMAIN hooks = 1 .. Len(hooks) /\ DOMAIN hooks \subseteq Nat \ {0}
         /\ \A p \in DOMAIN hooks : hooks[p] \in Entry
         /\ \A p, q \in DOMAIN hooks : hooks[p].target = hooks[q].target => p = q
         /\ patched \subseteq Hooked /\ Hooked \subseteq Targets
         /\ lock = Nobody => job = Idle /\ frozen = {}
         /\ job.todo \subseteq DOMAIN hooks /\ job.pos \in Nat
         /\ job = [op |-> job.op, phase |-> job.phase, pos |-> job.pos, todo |-> job.todo, ok |-> job.ok]
         /\ job.op \in {"remove"} => job.pos \in DOMAIN hooks
         /\ frozen \subseteq Runners
         /\ frozen # {} => job.phase = "patch"
         /\ orig \in [Targets -> Slots \cup {NoSlot}] /\ undone \in BOOLEAN
<1>1. IInv /\ PoolInv /\ RestInv
  BY DEF Base
<1>2. hooks \in Seq(Entry) /\ OwnSlots(hooks)
  BY <1>1 DEF PoolInv
<1>3. /\ Len(hooks) \in Nat /\ DOMAIN hooks = 1 .. Len(hooks)
      /\ \A p \in DOMAIN hooks : hooks[p] \in Entry
  BY <1>2
<1>4. DOMAIN hooks \subseteq Nat \ {0}
  BY <1>3
<1>5. JobOK /\ TableExact
  BY <1>1 DEF IInv
<1>6. Hooked \subseteq Targets
  BY <1>3 DEF Hooked, Entry
<1>7. lock = Nobody => job = Idle /\ frozen = {}
  <2>1. job.phase # "patch" => frozen = {}
    BY <1>5 DEF TableExact
  <2>. QED
    BY <1>5, <2>1 DEF TableExact, JobOK
<1>8. /\ \A p, q \in DOMAIN hooks : hooks[p].target = hooks[q].target => p = q
      /\ patched \subseteq Hooked
      /\ frozen # {} => job.phase = "patch"
  BY <1>5 DEF TableExact
<1>9. /\ job.todo \subseteq DOMAIN hooks /\ job.pos \in Nat
      /\ job = [op |-> job.op, phase |-> job.phase, pos |-> job.pos, todo |-> job.todo, ok |-> job.ok]
      /\ job.op \in {"remove"} => job.pos \in DOMAIN hooks
  BY <1>5 DEF JobOK, Single
<1>10. frozen \subseteq Runners /\ orig \in [Targets -> Slots \cup {NoSlot}] /\ undone \in BOOLEAN
  BY <1>1 DEF RestInv
<1>. QED
  BY <1>2, <1>3, <1>4, <1>6, <1>7, <1>8, <1>9, <1>10

\* Patching a hook changes nothing else of the table, and the other hooks of the
\* call are still to be set to the same.
LEMMA EnableHookLLIs ==
  ASSUME Base, EnableHookLL
  PROVE  \E p \in job.todo :
           /\ p \in DOMAIN hooks /\ DOMAIN hooks' = DOMAIN hooks
           /\ \A q \in DOMAIN hooks : /\ hooks'[q].target = hooks[q].target
                                      /\ hooks'[q].slot = hooks[q].slot
           /\ \A q \in DOMAIN hooks \ {p} : /\ hooks'[q] = hooks[q]
                                            /\ Wanted(job.op, q)' = Wanted(job.op, q)
           /\ Wanted(job.op, p) \in BOOLEAN
           /\ patched' = (IF Wanted(job.op, p) THEN patched \cup {hooks[p].target}
                          ELSE patched \ {hooks[p].target})
           /\ undone' = (undone \/ ~Wanted(job.op, p))
           /\ job.phase = "patch" /\ job'.phase = "patch" /\ job'.op = job.op
           /\ job'.todo = job.todo \ {p}
           /\ UNCHANGED <<lock, heap, capacity, items, pool, orig, frozen, ip>>
<1>. DEFINE p == NextToPatch
            enable == Wanted(job.op, p)
<1>1. /\ job.phase = "patch" /\ job.todo # {}
      /\ patched' = (IF enable THEN patched \cup {hooks[p].target} ELSE patched \ {hooks[p].target})
      /\ hooks' = [hooks EXCEPT ![p].isEnabled = enable, ![p].queueEnable = enable]
      /\ undone' = (undone \/ ~enable)
      /\ job' = [job EXCEPT !.todo = @ \ {p}]
      /\ UNCHANGED <<lock, heap, capacity, items, pool, orig, frozen, ip>>
  BY DEF EnableHookLL
<1>2. p \in job.todo /\ p \in DOMAIN hooks
  <2>1. job.todo \subseteq Nat /\ job.todo \subseteq DOMAIN hooks
    BY BaseIs
  <2>. QED
    BY <1>1, <2>1, NextIs
<1>3. enable \in BOOLEAN
  <2>1. hooks[p].queueEnable \in BOOLEAN
    BY <1>2, BaseIs DEF Entry
  <2>. QED
    BY <2>1 DEF Wanted
<1>4. hooks[p] \in Entry
  BY <1>2, BaseIs
<1>. HIDE DEF p, enable
<1>5. hooks' = [hooks EXCEPT ![p] = [@ EXCEPT !.isEnabled = enable, !.queueEnable = enable]]
  BY <1>1, <1>2, BaseIs
<1>6. /\ [hooks[p] EXCEPT !.isEnabled = enable, !.queueEnable = enable].target = hooks[p].target
      /\ [hooks[p] EXCEPT !.isEnabled = enable, !.queueEnable = enable].slot = hooks[p].slot
  BY <1>4 DEF Entry
<1>7. /\ DOMAIN hooks' = DOMAIN hooks
      /\ \A q \in DOMAIN hooks \ {p} : hooks'[q] = hooks[q]
      /\ \A q \in DOMAIN hooks : hooks'[q].target = hooks[q].target /\ hooks'[q].slot = hooks[q].slot
  BY <1>2, <1>5, <1>6
<1>8. job'.phase = job.phase /\ job'.op = job.op /\ job'.todo = job.todo \ {p}
  BY <1>1, BaseIs
<1>9. \A q \in DOMAIN hooks \ {p} : Wanted(job.op, q)' = Wanted(job.op, q)
  BY <1>7, <1>8 DEF Wanted
<1>10. Wanted(job.op, p) = enable
  BY DEF enable
<1>11. p \in job.todo
  BY <1>2
<1>. QED
  BY <1>1, <1>2, <1>3, <1>7, <1>8, <1>9, <1>10, <1>11

\* A call enters: it will freeze what it has to patch.
LEMMA CallIs ==
  ASSUME Base, NEW c \in Callers, Call(c)
  PROVE  /\ UNCHANGED <<tableVars, patched, frozen, ip, undone>>
         /\ lock = Nobody /\ job'.phase \in {"freeze", "finish"}
         /\ Fresh'
<1>1. ASSUME NEW op, NEW pos, NEW todo, EnterSpinLock(c, op, pos, todo)
      PROVE  /\ UNCHANGED <<tableVars, patched, frozen, ip, undone>> /\ hooks' = hooks
             /\ lock = Nobody /\ job'.phase \in {"freeze", "finish"}
             /\ job'.op = op /\ job'.pos = pos /\ job'.todo = todo
             /\ job'.phase = "freeze" => todo # {}
  <2>1. /\ UNCHANGED <<tableVars, patched, frozen, ip, undone>> /\ lock = Nobody
        /\ job' = [op |-> op, pos |-> pos, todo |-> todo, ok |-> TRUE,
                   phase |-> IF todo = {} THEN "finish" ELSE "freeze"]
    BY <1>1 DEF EnterSpinLock
  <2>. QED
    BY <2>1 DEF tableVars
<1>s. ASSUME NEW op \in Single, NEW pos \in DOMAIN hooks, NEW todo,
             EnterSpinLock(c, op, pos, todo), todo # {} => todo = {pos},
             todo # {} => hooks[pos].isEnabled # Wanted(op, pos),
             job'.phase = "freeze"
      PROVE  Fresh'
  <2>1. hooks' = hooks /\ job'.op = op /\ job'.pos = pos /\ job'.todo = {pos} /\ todo # {}
    BY <1>1, <1>s
  <2>2. pos # 0
    BY BaseIs
  <2>3. Wanted(op, pos)' = Wanted(op, pos)
    BY <2>1 DEF Wanted
  <2>4. hooks'[pos].isEnabled # Wanted(op, pos)'
    BY <1>s, <2>1, <2>3
  <2>5. hooks'[job'.pos].isEnabled # Wanted(job.op, job.pos)'
    BY <2>1, <2>4 DEF Wanted
  <2>. QED
    BY <2>1, <2>2, <2>5 DEF Fresh
<1>2. ASSUME NEW t, MH_RemoveHook(c, t)
      PROVE  \E op, pos, todo : EnterSpinLock(c, op, pos, todo) /\ (job'.phase = "freeze" => Fresh')
  <2>. DEFINE pos == FindHookEntry(t)
              todo == Changes("remove", {pos})
  <2>1. EnterSpinLock(c, "remove", pos, todo) /\ pos \in DOMAIN hooks
    BY <1>2, FindIs DEF MH_RemoveHook
  <2>2. todo # {} => todo = {pos} /\ hooks[pos].isEnabled # Wanted("remove", pos)
    BY DEF Changes
  <2>3. "remove" \in Single
    BY DEF Single
  <2>. HIDE DEF pos, todo
  <2>4. job'.phase = "freeze" => Fresh'
    BY <1>s, <2>1, <2>2, <2>3
  <2>. QED
    BY <2>1, <2>4
<1>3. ASSUME NEW t, NEW e \in BOOLEAN, EnableHook(c, t, e)
      PROVE  \E op, pos, todo : EnterSpinLock(c, op, pos, todo) /\ (job'.phase = "freeze" => Fresh')
  <2>. DEFINE op == IF e THEN "enable" ELSE "disable"
              pos == FindHookEntry(t)
  <2>1. EnterSpinLock(c, op, pos, {pos}) /\ pos \in DOMAIN hooks /\ hooks[pos].isEnabled # e
    BY <1>3, FindIs DEF EnableHook
  <2>2. op \in Single /\ Wanted(op, pos) = e
    BY DEF Single, Wanted
  <2>. HIDE DEF pos, op
  <2>3. job'.phase = "freeze" => Fresh'
    BY <1>s, <2>1, <2>2
  <2>. QED
    BY <2>1, <2>3
<1>4. ASSUME NEW op \in {"enable all", "disable all", "apply", "uninit"},
             EnterSpinLock(c, op, 0, Changes(op, DOMAIN hooks))
      PROVE  \E o, pos, todo : EnterSpinLock(c, o, pos, todo) /\ (job'.phase = "freeze" => Fresh')
  <2>1. hooks' = hooks /\ job'.op = op /\ job'.pos = 0 /\ job'.todo = Changes(op, DOMAIN hooks)
    BY <1>1, <1>4
  <2>2. Changes(op, DOMAIN hooks)' = Changes(op, DOMAIN hooks)
    BY <2>1 DEF Changes, Wanted
  <2>3. op \notin Single
    BY DEF Single
  <2>4. Fresh'
    BY <2>1, <2>2, <2>3 DEF Fresh
  <2>. QED
    BY <1>4, <2>4
<1>5. PICK op, pos, todo : EnterSpinLock(c, op, pos, todo) /\ (job'.phase = "freeze" => Fresh')
  BY <1>2, <1>3, <1>4 DEF Call, MH_EnableAll, MH_DisableAll, MH_ApplyQueued, MH_Uninitialize,
    EnableAllHooksLL
<1>6. job'.phase # "freeze" => Fresh'
  BY DEF Fresh
<1>. QED
  BY <1>1, <1>5, <1>6

\* Only calls that enter go on to freeze.
LEMMA FreshStays ==
  ASSUME Base, Fresh, [Next]_vars
  PROVE  Fresh'
<1>1. CASE UNCHANGED vars \/ MH_Initialize \/ \E r \in Runners : Run(r)
  <2>1. UNCHANGED <<hooks, job>>
    BY <1>1 DEF vars, tableVars, MH_Initialize, Run
  <2>. QED
    BY <2>1 DEF Fresh, Changes, Wanted
<1>2. CASE \/ \E t \in Targets : MH_CreateHook(t)
           \/ \E ts \in {{t} : t \in Hooked} \cup {Hooked}, e \in BOOLEAN : QueueHook(ts, e)
  <2>1. lock = Nobody /\ job' = job
    BY <1>2 DEF MH_CreateHook, QueueHook
  <2>2. job' = Idle
    BY <2>1, BaseIs
  <2>. QED
    BY <2>2 DEF Fresh, Idle
<1>3. CASE \E c \in Callers : Call(c)
  BY <1>3, CallIs
<1>4. CASE CallStep
  <2>1. job'.phase # "freeze"
    <3>1. job' = [job EXCEPT !.phase = "patch"] => job'.phase = "patch"
      BY BaseIs
    <3>2. job' = [job EXCEPT !.phase = "finish", !.ok = FALSE] => job'.phase = "finish"
      BY BaseIs
    <3>3. job' = [job EXCEPT !.phase = "finish"] => job'.phase = "finish"
      BY BaseIs
    <3>4. job' = [job EXCEPT !.todo = {}, !.ok = FALSE] => job'.phase = job.phase
      BY BaseIs
    <3>5. EnableHookLL => job'.phase = "patch"
      BY EnableHookLLIs
    <3>6. job' = Idle => job'.phase = "idle"
      BY DEF Idle
    <3>. QED
      BY <1>4, <3>1, <3>2, <3>3, <3>4, <3>5, <3>6 DEF CallStep, Freeze, FreezeFails, ProtectFails,
        Unfreeze, FinishRemove, FinishUninitialize, Finish, LeaveSpinLock
  <2>. QED
    BY <2>1 DEF Fresh
<1>. QED
  BY <1>1, <1>2, <1>3, <1>4 DEF Next

\* Each hook keeps the slot its caller was given.
LEMMA FittedStays ==
  ASSUME Base, Fitted, [Next]_vars
  PROVE  Fitted'
<1>1. ASSUME hooks' = hooks, orig' = orig PROVE Fitted'
  BY <1>1 DEF Fitted
<1>2. ASSUME DOMAIN hooks' = DOMAIN hooks, orig' = orig,
             \A q \in DOMAIN hooks : hooks'[q].target = hooks[q].target /\ hooks'[q].slot = hooks[q].slot
      PROVE  Fitted'
  BY <1>2 DEF Fitted
<1>3. ASSUME NEW t \in Targets, MH_CreateHook(t) PROVE Fitted'
  <2>1. t \notin Hooked
    BY <1>3 DEF MH_CreateHook
  <2>2. (hooks' = hooks /\ orig' = orig) \/ \E s :
          /\ Tramp[t].ok /\ orig' = [orig EXCEPT ![t] = s]
          /\ hooks' = Append(hooks, [target |-> t, slot |-> s, isEnabled |-> FALSE, queueEnable |-> FALSE])
    BY <1>3 DEF MH_CreateHook, AddHookEntry, AddFails
  <2>3. ASSUME NEW s, Tramp[t].ok, orig' = [orig EXCEPT ![t] = s],
               hooks' = Append(hooks, [target |-> t, slot |-> s, isEnabled |-> FALSE, queueEnable |-> FALSE])
        PROVE  Fitted'
    <3>1. /\ Len(hooks) \in Nat /\ DOMAIN hooks = 1 .. Len(hooks)
          /\ DOMAIN orig = Targets /\ \A p \in DOMAIN hooks : hooks[p].target \in Targets \ {t}
      BY <2>1, BaseIs DEF Hooked, Entry
    <3>. DEFINE n == Len(hooks)
    <3>2. /\ DOMAIN hooks' = 1 .. n + 1 /\ \A p \in 1 .. n : hooks'[p] = hooks[p]
          /\ hooks'[n + 1].target = t /\ hooks'[n + 1].slot = s
      BY <2>3, <3>1, BaseIs
    <3>3. \A p \in 1 .. n + 1 : p \in DOMAIN hooks \/ p = n + 1
      BY <3>1
    <3>. HIDE DEF n
    <3>4. orig'[t] = s /\ \A u \in Targets \ {t} : orig'[u] = orig[u]
      BY <2>3, <3>1
    <3>5. ASSUME NEW p \in DOMAIN hooks'
          PROVE  Tramp[hooks'[p].target].ok /\ orig'[hooks'[p].target] = hooks'[p].slot
      <4>1. CASE p = n + 1
        BY <2>3, <3>2, <3>4, <4>1
      <4>2. CASE p \in DOMAIN hooks
        <5>1. hooks'[p] = hooks[p] /\ hooks[p].target \in Targets \ {t}
          BY <3>1, <3>2, <4>2 DEF n
        <5>2. Tramp[hooks[p].target].ok /\ orig[hooks[p].target] = hooks[p].slot
          BY <4>2 DEF Fitted
        <5>. QED
          BY <3>4, <5>1, <5>2
      <4>. QED
        BY <3>2, <3>3, <4>1, <4>2
    <3>. QED
      BY <3>5 DEF Fitted
  <2>. QED
    BY <1>1, <2>2, <2>3
<1>4. ASSUME NEW ts, NEW e \in BOOLEAN, QueueHook(ts, e) PROVE Fitted'
  <2>1. /\ hooks' = [p \in DOMAIN hooks |->
             IF hooks[p].target \in ts THEN [hooks[p] EXCEPT !.queueEnable = e] ELSE hooks[p]]
        /\ orig' = orig
    BY <1>4 DEF QueueHook
  <2>2. \A p \in DOMAIN hooks : hooks'[p].target = hooks[p].target /\ hooks'[p].slot = hooks[p].slot
    BY <2>1, BaseIs DEF Entry
  <2>. QED
    BY <1>2, <2>1, <2>2
<1>5. ASSUME NEW c \in Callers, Call(c) PROVE Fitted'
  BY <1>1, <1>5, CallIs DEF tableVars
<1>6. CASE EnableHookLL
  BY <1>2, <1>6, EnableHookLLIs
<1>7. CASE FinishRemove
  <2>1. /\ hooks' = [p \in 1 .. Len(hooks) - 1 |-> hooks[IF p = job.pos THEN Len(hooks) ELSE p]]
        /\ orig' = orig
    BY <1>7 DEF FinishRemove, DeleteHookEntry
  <2>2. \A p \in DOMAIN hooks' : \E q \in DOMAIN hooks : hooks'[p] = hooks[q]
    <3>1. Len(hooks) \in Nat /\ DOMAIN hooks = 1 .. Len(hooks) /\ DOMAIN hooks' = 1 .. Len(hooks) - 1
      BY <2>1, BaseIs
    <3>2. \A p \in 1 .. Len(hooks) - 1 : p \in DOMAIN hooks /\ Len(hooks) \in DOMAIN hooks
      BY <3>1
    <3>. QED
      BY <2>1, <3>1, <3>2
  <2>. QED
    BY <2>1, <2>2 DEF Fitted
<1>8. CASE FinishUninitialize
  <2>1. DOMAIN hooks' = {}
    BY <1>8 DEF FinishUninitialize
  <2>. QED
    BY <2>1 DEF Fitted
<1>9. CASE \/ UNCHANGED vars \/ MH_Initialize \/ Freeze \/ FreezeFails \/ ProtectFails \/ Unfreeze
           \/ Finish \/ \E r \in Runners : Run(r)
  BY <1>1, <1>9 DEF vars, tableVars, MH_Initialize, Freeze, FreezeFails, ProtectFails, Unfreeze, Finish, Run
<1>. QED
  BY <1>3, <1>4, <1>5, <1>6, <1>7, <1>8, <1>9 DEF Next, CallStep

\* The steps that move no runner.
LEMMA StandStill ==
  ASSUME Base, [Next]_vars, ~Freeze, ~ \E r \in Runners : Run(r)
  PROVE  ip' = ip
<1>1. ASSUME NEW c \in Callers, Call(c) PROVE ip' = ip
  BY <1>1, CallIs
<1>. QED
  BY <1>1 DEF Next, vars, MH_Initialize, MH_CreateHook, QueueHook, CallStep, FreezeFails, EnableHookLL,
    ProtectFails, Unfreeze, FinishRemove, FinishUninitialize, Finish, LeaveSpinLock

\* Freezing moves the threads it suspends and nothing else.
LEMMA FreezeIs ==
  ASSUME Base, Freeze
  PROVE  /\ \E S \in SUBSET Runners :
              /\ frozen' = S
              /\ ip' = [r \in Runners |-> IF r \in S THEN ProcessThreadIPs(ip[r]) ELSE ip[r]]
              /\ undone' = (undone \/ S # Runners)
         /\ job.phase = "freeze" /\ job'.phase = "patch"
         /\ job'.op = job.op /\ job'.pos = job.pos /\ job'.todo = job.todo
         /\ UNCHANGED <<lock, heap, hooks, capacity, items, pool, orig, patched>>
<1>1. \E S \in SUBSET Runners :
        /\ frozen' = S
        /\ ip' = [r \in Runners |-> IF r \in S THEN ProcessThreadIPs(ip[r]) ELSE ip[r]]
        /\ undone' = (undone \/ S # Runners)
  BY DEF Freeze
<1>2. /\ job.phase = "freeze" /\ job' = [job EXCEPT !.phase = "patch"]
      /\ UNCHANGED <<lock, heap, hooks, capacity, items, pool, orig, patched>>
  BY DEF Freeze, tableVars
<1>3. job'.phase = "patch" /\ job'.op = job.op /\ job'.pos = job.pos /\ job'.todo = job.todo
  BY <1>2, BaseIs
<1>. QED
  BY <1>1, <1>2, <1>3

\* Runners get nowhere else.
LEMMA PlacedStays ==
  ASSUME Base, Fitted, Fresh, Placed, [Next]_vars
  PROVE  Placed'
<1>1. ASSUME ip' = ip PROVE Placed'
  BY <1>1 DEF Placed, Known, InCode, InSlot, AtInstruction
<1>2. CASE Freeze
  <2>1. PICK S \in SUBSET Runners :
          ip' = [r \in Runners |-> IF r \in S THEN ProcessThreadIPs(ip[r]) ELSE ip[r]]
    BY <1>2, FreezeIs
  <2>2. \A r \in Runners : Known(ip'[r])
    <3>1. ASSUME NEW r \in Runners PROVE Known(ip'[r])
      <4>1. Known(ip[r]) /\ ip'[r] = (IF r \in S THEN ProcessThreadIPs(ip[r]) ELSE ip[r])
        BY <2>1 DEF Placed
      <4>2. Known(ProcessThreadIPs(ip[r]))
        BY <1>2, <4>1, BaseIs, FreezeIs, ProcessClears
      <4>. QED
        BY <4>1, <4>2
    <3>. QED
      BY <3>1
  <2>3. ip' = [r \in Runners |-> ip'[r]]
    BY <2>1
  <2>. QED
    BY <2>2, <2>3 DEF Placed, Known, InCode, InSlot, AtInstruction
<1>3. ASSUME NEW r \in Runners, Run(r) PROVE Placed'
  <2>1. PICK place \in After(ip[r]) : ip' = [ip EXCEPT ![r] = place]
    BY <1>3 DEF Run
  <2>2. Known(place)
    BY <2>1, BaseIs, AfterKnown DEF Placed
  <2>3. \A s \in Runners : Known(ip'[s])
    BY <2>1, <2>2 DEF Placed
  <2>4. ip' = [s \in Runners |-> ip'[s]]
    BY <2>1 DEF Placed
  <2>. QED
    BY <2>3, <2>4 DEF Placed, Known, InCode, InSlot, AtInstruction
<1>. QED
  BY <1>1, <1>2, <1>3, StandStill

\* What was cleared stays clear: nothing moves until the threads go on.
LEMMA FrozenStays ==
  ASSUME Base, Fitted, Fresh, Placed, FrozenSafe, [Next]_vars
  PROVE  FrozenSafe'
<1>1. CASE Freeze
  <2>1. PICK S \in SUBSET Runners :
          frozen' = S /\ ip' = [r \in Runners |-> IF r \in S THEN ProcessThreadIPs(ip[r]) ELSE ip[r]]
    BY <1>1, FreezeIs
  <2>2. /\ job.phase = "freeze" /\ job'.op = job.op /\ job'.todo = job.todo /\ hooks' = hooks
    BY <1>1, FreezeIs
  <2>3. ASSUME job.op # "disable", NEW p \in job.todo, NEW r \in S
        PROVE  ~InTheWay(hooks[p], Wanted(job.op, p), ip'[r])
    <3>1. ip'[r] = ProcessThreadIPs(ip[r]) /\ Known(ip[r])
      BY <2>1, <2>3 DEF Placed
    <3>. QED
      BY <2>2, <2>3, <3>1, BaseIs, ProcessClears
  <2>4. SUFFICES ASSUME job.op # "disable", NEW p \in job.todo, NEW r \in S
                 PROVE  ~InTheWay(hooks[p], Wanted(job.op, p), ip[r])'
    BY <2>1, <2>2 DEF FrozenSafe, Evacuated
  <2>5. Wanted(job.op, p)' = Wanted(job.op, p) /\ hooks'[p] = hooks[p]
    BY <2>2 DEF Wanted
  <2>. QED
    BY <2>3, <2>4, <2>5 DEF InTheWay
<1>2. CASE EnableHookLL
  <2>1. PICK p \in job.todo :
          /\ \A q \in DOMAIN hooks \ {p} : hooks'[q] = hooks[q] /\ Wanted(job.op, q)' = Wanted(job.op, q)
          /\ job.phase = "patch" /\ job'.op = job.op /\ job'.todo = job.todo \ {p}
          /\ frozen' = frozen /\ ip' = ip
    BY <1>2, EnableHookLLIs
  <2>2. ASSUME job.op \in Ops \ {"disable"}, NEW q \in job.todo \ {p}, NEW r \in frozen
        PROVE  ~InTheWay(hooks'[q], Wanted(job.op, q)', ip[r])
    <3>1. q \in DOMAIN hooks \ {p}
      BY BaseIs
    <3>2. hooks'[q] = hooks[q] /\ Wanted(job.op, q)' = Wanted(job.op, q)
      BY <2>1, <3>1
    <3>. QED
      BY <2>1, <2>2, <3>2 DEF FrozenSafe, Evacuated
  <2>. QED
    BY <2>1, <2>2 DEF FrozenSafe, Evacuated, InTheWay, Wanted
<1>3. CASE \E r \in Runners : Run(r)
  <2>1. PICK r \in Runners : Run(r)
    BY <1>3
  <2>2. /\ UNCHANGED <<hooks, job, frozen>> /\ r \notin frozen
        /\ \E place : ip' = [ip EXCEPT ![r] = place]
    BY <2>1 DEF Run, tableVars
  <2>3. \A s \in frozen : ip'[s] = ip[s]
    BY <2>2, BaseIs DEF Placed
  <2>. QED
    <3>1. SUFFICES ASSUME job.phase = "patch", job.op \in Ops \ {"disable"}, NEW p \in job.todo, NEW s \in frozen
                   PROVE  ~InTheWay(hooks[p], Wanted(job.op, p), ip[s])'
      BY <2>2 DEF FrozenSafe, Evacuated
    <3>2. Wanted(job.op, p)' = Wanted(job.op, p) /\ hooks'[p] = hooks[p] /\ ip'[s] = ip[s]
      BY <2>2, <2>3 DEF Wanted
    <3>3. ~InTheWay(hooks[p], Wanted(job.op, p), ip[s])
      BY <3>1 DEF FrozenSafe, Evacuated
    <3>. QED
      BY <3>2, <3>3 DEF InTheWay
<1>4. CASE UNCHANGED vars \/ MH_Initialize
  <2>1. UNCHANGED <<hooks, job, frozen, ip>>
    BY <1>4 DEF vars, tableVars, MH_Initialize
  <2>2. SUFFICES ASSUME job.phase = "patch", job.op \in Ops \ {"disable"}, NEW p \in job.todo, NEW s \in frozen
                 PROVE  ~InTheWay(hooks[p], Wanted(job.op, p), ip[s])'
    BY <2>1 DEF FrozenSafe, Evacuated
  <2>3. Wanted(job.op, p)' = Wanted(job.op, p) /\ hooks'[p] = hooks[p] /\ ip'[s] = ip[s]
    BY <2>1 DEF Wanted
  <2>4. ~InTheWay(hooks[p], Wanted(job.op, p), ip[s])
    BY <2>2 DEF FrozenSafe, Evacuated
  <2>. QED
    BY <2>3, <2>4 DEF InTheWay
<1>5. CASE \/ \E t \in Targets : MH_CreateHook(t)
           \/ \E ts \in {{t} : t \in Hooked} \cup {Hooked}, e \in BOOLEAN : QueueHook(ts, e)
  <2>1. job' = Idle
    BY <1>5, BaseIs DEF MH_CreateHook, QueueHook
  <2>. QED
    BY <2>1 DEF FrozenSafe, Evacuated, Idle
<1>6. CASE \E c \in Callers : Call(c)
  BY <1>6, CallIs DEF FrozenSafe, Evacuated
<1>7. CASE FreezeFails \/ Unfreeze \/ FinishRemove \/ FinishUninitialize \/ Finish
  <2>1. job' = [job EXCEPT !.phase = "finish", !.ok = FALSE] => job'.phase = "finish"
    BY BaseIs
  <2>2. job' = [job EXCEPT !.phase = "finish"] => job'.phase = "finish"
    BY BaseIs
  <2>3. job' = Idle => job'.phase = "idle"
    BY DEF Idle
  <2>4. job'.phase # "patch"
    BY <1>7, <2>1, <2>2, <2>3 DEF FreezeFails, Unfreeze, FinishRemove, FinishUninitialize, Finish,
      LeaveSpinLock
  <2>. QED
    BY <2>4 DEF FrozenSafe, Evacuated
<1>8. CASE ProtectFails
  <2>1. job'.todo = {}
    BY <1>8, BaseIs DEF ProtectFails
  <2>. QED
    BY <2>1 DEF FrozenSafe, Evacuated
<1>. QED
  BY <1>1, <1>2, <1>3, <1>4, <1>5, <1>6, <1>7, <1>8 DEF Next, CallStep

\* What is not caught stays so when hooks and jumps are only added, unless one
\* is added over it.
LEMMA UncaughtStays ==
  ASSUME NEW place, Known(place), Uncaught(place), patched \subseteq patched',
         \A p \in DOMAIN hooks : \E q \in DOMAIN hooks' :
           hooks'[q].target = hooks[p].target /\ hooks'[q].slot = hooks[p].slot,
         \A t \in patched' \ patched : \A off \in PatchedBytes(t) \ {0} : place # In(t, off)
  PROVE  Uncaught(place)'
<1>1. ASSUME NEW s, Owner(s) # {} PROVE Owner(s)' # {}
  <2>1. PICK p \in DOMAIN hooks : hooks[p].slot = s.slot /\ s.k \in DOMAIN Tramp[hooks[p].target].ips
    BY <1>1 DEF Owner
  <2>2. PICK q \in DOMAIN hooks' : hooks'[q].target = hooks[p].target /\ hooks'[q].slot = hooks[p].slot
    OBVIOUS
  <2>3. hooks'[q].slot = s.slot /\ s.k \in DOMAIN Tramp[hooks'[q].target].ips
    BY <2>1, <2>2
  <2>. QED
    BY <2>3 DEF Owner
<1>2. Hooked \subseteq Hooked'
  <2>1. ASSUME NEW t \in Hooked PROVE t \in Hooked'
    <3>1. PICK p \in DOMAIN hooks : hooks[p].target = t
      BY DEF Hooked
    <3>. QED
      BY <3>1 DEF Hooked
  <2>. QED
    BY <2>1
<1>3. place.at = "code" => place = In(place.fn, place.off)
  BY PlacesAre DEF Known, InCode, InSlot
<1>4. place.at = "code" => (place.fn \in patched' => place.off \notin PatchedBytes(place.fn) \ {0})
  BY <1>3 DEF Uncaught
<1>5. place.at # "torn"
  BY DEF Uncaught
<1>6. /\ place.at = "above" => place.fn \in patched'
      /\ place.at = "detour" => place.fn \in Hooked'
      /\ place.at = "tramp" => Owner(place)' # {}
      /\ place.at = "callee" => (place.ret.at = "tramp" => Owner(place.ret)' # {})
  BY <1>1, <1>2 DEF Uncaught
<1>7. place.at = "callee" => (place.ret.at = "code" =>
        (Tramp[place.ret.fn].ok => place.ret.off \notin PatchedBytes(place.ret.fn) \ {0}))
  BY DEF Uncaught
<1>. QED
  BY <1>4, <1>5, <1>6, <1>7 DEF Uncaught, PatchedBytes

\* Freeze tears nobody.
LEMMA ProcessTearsNone ==
  ASSUME Base, NEW place, place # Torn
  PROVE  ProcessThreadIPs(place) # Torn
<1>1. Meaning(ProcessThreadIPs(place)) = Meaning(place)
  BY BaseIs, ProcessMeans
<1>2. Meaning(Torn) = <<Torn>>
  BY PlacesAre DEF Meaning
<1>3. Meaning(place) # <<Torn>>
  <2>1. Meaning(place) = <<place>> \/ \E a, b : Meaning(place) = <<a, b>>
    BY DEF Meaning
  <2>2. <<place>> # <<Torn>>
    OBVIOUS
  <2>3. \A a, b : <<a, b>> # <<Torn>>
    <3>1. \A a, b : Len(<<a, b>>) # Len(<<Torn>>)
      OBVIOUS
    <3>. QED
      BY <3>1
  <2>. QED
    BY <2>1, <2>2, <2>3
<1>. QED
  BY <1>1, <1>2, <1>3

\* What holds of the runners whatever is undone and whatever fails.
RunnersInv == Fitted /\ Fresh /\ Placed /\ FrozenSafe

\* The call has still to take a hook out.
Doomed == job.phase = "patch" /\ \E p \in job.todo : ~Wanted(job.op, p)

\* No runner is caught, whether hooks are created or queued, threads frozen and
\* moved, or jumps written.
LEMMA CaughtStays ==
  ASSUME Base, RunnersInv, NoneCaught, EnablingSafe, \A t \in Targets : Enterable(t), [Next]_vars
  PROVE  NoneCaught' /\ EnablingSafe'
<1>. SUFFICES ASSUME ~undone'
              PROVE  /\ job'.phase = "patch" => frozen' = Runners
                     /\ Doomed' \/ \A r \in Runners : Uncaught(ip[r])'
                     /\ \A r \in Runners : ip'[r] # Torn
  BY DEF NoneCaught, EnablingSafe, Doomed
<1>0. /\ hooks \in Seq(Entry) /\ Fitted /\ Fresh /\ patched \subseteq Hooked
      /\ \A r \in Runners : Known(ip[r])
  BY BaseIs DEF RunnersInv, Placed
<1>1. ~undone => /\ job.phase = "patch" => frozen = Runners
                 /\ Doomed \/ \A r \in Runners : Uncaught(ip[r])
                 /\ \A r \in Runners : ip[r] # Torn
  BY DEF NoneCaught, EnablingSafe, Doomed
<1>2. ASSUME ~undone, ip' = ip, ~Doomed, patched \subseteq patched', NEW r \in Runners,
             \A p \in DOMAIN hooks : \E q \in DOMAIN hooks' :
               hooks'[q].target = hooks[p].target /\ hooks'[q].slot = hooks[p].slot,
             \A t \in patched' \ patched : \A off \in PatchedBytes(t) \ {0} : ip[r] # In(t, off)
      PROVE  Uncaught(ip[r])'
  <2>1. PICK place : place = ip[r]
    OBVIOUS
  <2>2. Known(place) /\ Uncaught(place)
    BY <1>0, <1>1, <1>2, <2>1
  <2>3. Uncaught(place)'
    BY <1>2, <2>1, <2>2, UncaughtStays
  <2>. QED
    BY <1>2, <2>1, <2>3 DEF Uncaught, Owner, Hooked
<1>3. ASSUME UNCHANGED <<hooks, patched, ip>>, ~undone, ~Doomed
      PROVE  /\ \A r \in Runners : Uncaught(ip[r])'
             /\ \A r \in Runners : ip'[r] # Torn
  <2>1. \A r \in Runners : Uncaught(ip[r])'
    BY <1>2, <1>3
  <2>. QED
    BY <1>1, <1>3, <2>1
<1>4. CASE Freeze
  <2>1. PICK S \in SUBSET Runners :
          /\ frozen' = S /\ undone' = (undone \/ S # Runners)
          /\ ip' = [r \in Runners |-> IF r \in S THEN ProcessThreadIPs(ip[r]) ELSE ip[r]]
    BY <1>4, FreezeIs
  <2>2. /\ job.phase = "freeze" /\ job'.phase = "patch" /\ job'.op = job.op /\ job'.todo = job.todo
        /\ hooks' = hooks /\ patched' = patched
    BY <1>4, FreezeIs
  <2>3. ~undone /\ frozen' = Runners /\ \A r \in Runners : ip'[r] = ProcessThreadIPs(ip[r])
    BY <2>1
  <2>4. \A r \in Runners : ip'[r] # Torn
    BY <1>1, <2>3, ProcessTearsNone
  <2>5. ASSUME ~Doomed', NEW r \in Runners PROVE Uncaught(ip[r])'
    <3>1. PICK place : place = ProcessThreadIPs(ip[r])
      OBVIOUS
    <3>2. ~Doomed
      BY <2>2 DEF Doomed
    <3>3. \A p \in job.todo : Wanted(job.op, p)
      BY <2>2, <2>5 DEF Doomed, Wanted
    <3>4. Uncaught(place)
      BY <1>0, <1>1, <2>2, <2>3, <3>1, <3>2, <3>3, ProcessUncaught
    <3>5. ip'[r] = place
      BY <2>3, <3>1
    <3>. QED
      BY <2>2, <3>4, <3>5 DEF Uncaught, Owner, Hooked
  <2>. QED
    BY <2>3, <2>4, <2>5
<1>5. CASE EnableHookLL
  <2>1. PICK p \in job.todo :
          /\ p \in DOMAIN hooks /\ DOMAIN hooks' = DOMAIN hooks
          /\ \A q \in DOMAIN hooks : hooks'[q].target = hooks[q].target /\ hooks'[q].slot = hooks[q].slot
          /\ \A q \in DOMAIN hooks \ {p} : Wanted(job.op, q)' = Wanted(job.op, q)
          /\ patched' = (IF Wanted(job.op, p) THEN patched \cup {hooks[p].target}
                         ELSE patched \ {hooks[p].target})
          /\ undone' = (undone \/ ~Wanted(job.op, p))
          /\ job.phase = "patch" /\ job'.phase = "patch" /\ job'.op = job.op
          /\ job'.todo = job.todo \ {p} /\ frozen' = frozen /\ ip' = ip
    BY <1>5, EnableHookLLIs
  <2>2. ~undone /\ Wanted(job.op, p) /\ patched' = patched \cup {hooks[p].target}
    BY <2>1
  <2>3. Doomed => Doomed'
    <3>1. SUFFICES ASSUME NEW q \in job.todo, ~Wanted(job.op, q) PROVE Doomed'
      BY DEF Doomed
    <3>2. q \in job'.todo /\ q \in DOMAIN hooks \ {p}
      BY <2>1, <2>2, <3>1, BaseIs
    <3>3. ~Wanted(job.op, q)'
      BY <2>1, <3>1, <3>2
    <3>. QED
      BY <2>1, <3>2, <3>3 DEF Doomed
  <2>4. ASSUME ~Doomed, NEW r \in Runners PROVE Uncaught(ip[r])'
    <3>1. job.op \in Ops \ {"disable"}
      <4>1. job.op \in {"enable", "enable all", "apply"}
        BY <2>2 DEF Wanted
      <4>. QED
        BY <4>1 DEF Ops, Single
    <3>2. ~InTheWay(hooks[p], Wanted(job.op, p), ip[r])
      BY <1>1, <2>1, <2>2, <3>1 DEF RunnersInv, FrozenSafe, Evacuated
    <3>3. \A off \in PatchedBytes(hooks[p].target) \ {0} : ip[r] # In(hooks[p].target, off)
      BY <2>2, <3>2 DEF InTheWay
    <3>. QED
      BY <1>2, <2>1, <2>2, <2>4, <3>3
  <2>. QED
    BY <1>1, <2>1, <2>2, <2>3, <2>4
<1>6. ASSUME NEW r \in Runners, Run(r)
      PROVE  /\ job'.phase = "patch" => frozen' = Runners
             /\ Doomed' \/ \A s \in Runners : Uncaught(ip[s])'
             /\ \A s \in Runners : ip'[s] # Torn
  <2>1. /\ UNCHANGED <<hooks, patched, job, frozen, undone>> /\ r \notin frozen
    BY <1>6 DEF Run, tableVars
  <2>2. job.phase # "patch" /\ ~undone /\ ~Doomed
    BY <1>1, <2>1 DEF Doomed
  <2>3. PICK place \in After(ip[r]) : ip' = [ip EXCEPT ![r] = place]
    BY <1>6 DEF Run
  <2>4. Known(ip[r]) /\ Uncaught(ip[r])
    BY <1>0, <1>1, <2>2
  <2>5. Uncaught(place)
    BY <1>0, <2>3, <2>4, AfterUncaught
  <2>6. ASSUME NEW s \in Runners PROVE Uncaught(ip[s])' /\ ip'[s] # Torn
    <3>1. PICK other : other = ip'[s]
      OBVIOUS
    <3>2. Uncaught(other)
      <4>1. other = place \/ other = ip[s]
        BY <2>3, <3>1, <1>0 DEF RunnersInv, Placed
      <4>. QED
        BY <1>1, <2>2, <2>5, <4>1
    <3>3. other # Torn
      BY <3>2, PlacesAre DEF Uncaught
    <3>. QED
      BY <2>1, <3>1, <3>2, <3>3 DEF Uncaught, Owner, Hooked
  <2>. QED
    BY <2>1, <2>2, <2>6
<1>7. ASSUME NEW t \in Targets, MH_CreateHook(t)
      PROVE  /\ job'.phase = "patch" => frozen' = Runners
             /\ Doomed' \/ \A s \in Runners : Uncaught(ip[s])'
             /\ \A s \in Runners : ip'[s] # Torn
  <2>1. /\ UNCHANGED <<patched, job, frozen, ip, undone>> /\ lock = Nobody
        /\ hooks' = hooks \/ \E e : hooks' = Append(hooks, e)
    BY <1>7 DEF MH_CreateHook, AddHookEntry, AddFails
  <2>2. job.phase = "idle" /\ ~Doomed
    BY <2>1, BaseIs DEF Idle, Doomed
  <2>3. \A p \in DOMAIN hooks : \E q \in DOMAIN hooks' :
          hooks'[q].target = hooks[p].target /\ hooks'[q].slot = hooks[p].slot
    <3>1. ASSUME NEW e, hooks' = Append(hooks, e)
          PROVE  \A p \in DOMAIN hooks : p \in DOMAIN hooks' /\ hooks'[p] = hooks[p]
      BY <3>1, BaseIs
    <3>. QED
      BY <2>1, <3>1
  <2>. QED
    BY <1>1, <1>2, <2>1, <2>2, <2>3
<1>8. ASSUME NEW ts, NEW e \in BOOLEAN, QueueHook(ts, e)
      PROVE  /\ job'.phase = "patch" => frozen' = Runners
             /\ Doomed' \/ \A s \in Runners : Uncaught(ip[s])'
             /\ \A s \in Runners : ip'[s] # Torn
  <2>1. /\ hooks' = [p \in DOMAIN hooks |->
             IF hooks[p].target \in ts THEN [hooks[p] EXCEPT !.queueEnable = e] ELSE hooks[p]]
        /\ UNCHANGED <<patched, job, frozen, ip, undone>> /\ lock = Nobody
    BY <1>8 DEF QueueHook
  <2>2. job.phase = "idle" /\ ~Doomed
    BY <2>1, BaseIs DEF Idle, Doomed
  <2>3. \A p \in DOMAIN hooks : p \in DOMAIN hooks' /\ hooks'[p].target = hooks[p].target
                                /\ hooks'[p].slot = hooks[p].slot
    BY <2>1, BaseIs DEF Entry
  <2>. QED
    BY <1>1, <1>2, <2>1, <2>2, <2>3
<1>9. ASSUME NEW c \in Callers, Call(c)
      PROVE  /\ job'.phase = "patch" => frozen' = Runners
             /\ Doomed' \/ \A s \in Runners : Uncaught(ip[s])'
             /\ \A s \in Runners : ip'[s] # Torn
  <2>1. /\ UNCHANGED <<hooks, patched, ip, undone>> /\ lock = Nobody /\ job'.phase # "patch"
    BY <1>9, CallIs DEF tableVars
  <2>2. ~Doomed
    BY <2>1, BaseIs DEF Idle, Doomed
  <2>. QED
    BY <1>3, <2>1, <2>2
<1>10. CASE UNCHANGED vars \/ MH_Initialize
  <2>1. UNCHANGED <<hooks, patched, job, frozen, ip, undone>>
    BY <1>10 DEF vars, tableVars, MH_Initialize
  <2>2. Doomed => Doomed'
    BY <2>1 DEF Doomed, Wanted
  <2>3. CASE Doomed
    BY <1>1, <2>1, <2>2, <2>3
  <2>4. CASE ~Doomed
    BY <1>1, <1>3, <2>1, <2>4
  <2>. QED
    BY <2>3, <2>4
<1>11. CASE FreezeFails \/ Unfreeze \/ Finish
  <2>1. UNCHANGED <<hooks, patched, ip, undone>> /\ ~Doomed
    BY <1>11 DEF FreezeFails, Unfreeze, Finish, LeaveSpinLock, tableVars, Doomed
  <2>2. job'.phase # "patch"
    <3>1. job' = [job EXCEPT !.phase = "finish", !.ok = FALSE] => job'.phase = "finish"
      BY BaseIs
    <3>2. job' = [job EXCEPT !.phase = "finish"] => job'.phase = "finish"
      BY BaseIs
    <3>3. job' = Idle => job'.phase = "idle"
      BY DEF Idle
    <3>. QED
      BY <1>11, <3>1, <3>2, <3>3 DEF FreezeFails, Unfreeze, Finish, LeaveSpinLock
  <2>. QED
    BY <1>3, <2>1, <2>2
<1>12. CASE ProtectFails
  <2>1. /\ job.phase = "patch" /\ UNCHANGED <<hooks, patched, frozen, ip>>
        /\ undone' = (undone \/ \E p \in job.todo : ~Wanted(job.op, p))
    BY <1>12 DEF ProtectFails, tableVars
  <2>2. ~undone /\ ~Doomed
    BY <2>1 DEF Doomed
  <2>. QED
    BY <1>1, <1>3, <2>1, <2>2
<1>13. CASE FinishRemove \/ FinishUninitialize
  BY <1>13 DEF FinishRemove, FinishUninitialize
<1>. QED
  BY <1>4, <1>5, <1>6, <1>7, <1>8, <1>9, <1>10, <1>11, <1>12, <1>13 DEF Next, CallStep

LEMMA RunnersInit ==
  ASSUME Init
  PROVE  RunnersInv /\ NoneCaught /\ EnablingSafe
<1>1. /\ hooks = <<>> /\ job.phase = "idle" /\ ip = [r \in Runners |-> Out]
  BY DEF Init, Idle
<1>2. Known(Out) /\ Uncaught(Out) /\ Out # Torn
  BY KnownOthers, PlacesAre DEF Uncaught
<1>. QED
  BY <1>1, <1>2 DEF RunnersInv, Fitted, Fresh, Placed, FrozenSafe, Evacuated, NoneCaught, EnablingSafe

LEMMA RunnersStay ==
  ASSUME Base, RunnersInv, [Next]_vars
  PROVE  RunnersInv'
BY FittedStays, FreshStays, PlacedStays, FrozenStays DEF RunnersInv

-------------------------------------------------------------------------------
(* The theorems *)

\* In every reachable state table and code bytes agree and runners are
\* suspended only under the lock, whatever fails on the way.
THEOREM TableIsExact == Spec => []TableExact
<1>1. IInv /\ [Next]_vars => IInv' BY NextStays
<1>2. IInv => TableExact BY DEF IInv
<1> QED BY <1>1, <1>2, InitInv, PTL DEF Spec

\* Every step of the library is one HookTable allows, so no failure and no
\* order of removals patches, unpatches or forgets a hook behind its caller.
THEOREM LibraryKeepsThePromise == Spec => ImplementsHookTable
<1> DEFINE h == [t \in Targets |-> IF t \notin Hooked THEN "none" ELSE IF t \in patched THEN "on" ELSE "off"]
<1>1. h = [t \in Targets |-> State(t)] BY DEF State
<1>2. Init => HT!Init BY DEF Init, HT!Init, Hooked
<1>3. ASSUME IInv, [Next]_vars PROVE [HT!Next]_h
  <2>1. h' = [t \in Targets |-> State(t)'] BY DEF State
  <2>2. CASE Same
    <3>1. h' = h BY <1>1, <2>1, <2>2 DEF Same
    <3> QED BY <3>1
  <2>3. ASSUME NEW t \in Targets, NEW from, NEW to, Turned(t, from, to)
        PROVE  HT!Turn(t, from, to)
    <3>1. h[t] = from BY <1>1, <2>3 DEF Turned
    <3>2. State(t)' = to /\ \A u \in Targets \ {t} : State(u)' = State(u) BY <2>3 DEF Turned
    <3> DEFINE old(u) == State(u)
               new(u) == State(u)'
    <3>3. h = [u \in Targets |-> old(u)] /\ h' = [u \in Targets |-> new(u)] BY <1>1, <2>1
    <3>4. new(t) = to /\ \A u \in Targets \ {t} : new(u) = old(u) BY <3>2
    <3> HIDE DEF old, new, h
    <3>5. h' = [h EXCEPT ![t] = to] BY <3>3, <3>4
    <3> USE DEF h
    <3> QED BY <3>1, <3>5 DEF HT!Turn
  <2>4. CASE OneTurned
    BY <2>3, <2>4 DEF OneTurned, HT!Next, HT!Create, HT!Enable, HT!Disable, HT!Remove
  <2>5. CASE AllForgotten
    <3>1. h' = [t \in Targets |-> "none"] BY <2>1, <2>5 DEF AllForgotten
    <3>2. \A t \in Targets : h[t] # "on" BY <1>1, <2>5 DEF AllForgotten
    <3> QED BY <3>1, <3>2 DEF HT!Next, HT!Reset
  <2> QED BY <1>3, <2>2, <2>4, <2>5, NextStays
<1>4. IInv /\ [Next]_vars => IInv' BY NextStays
<1> QED BY <1>2, <1>3, <1>4, InitInv, PTL DEF Spec, ImplementsHookTable, HT!Spec

\* Every variable of the library keeps its type.
THEOREM TypeCorrect == Spec => []TypeOK
<1>1. IInv /\ [Next]_vars => IInv' BY NextStays
<1>2. IInv /\ PoolInv /\ ArrayInv /\ RestInv /\ [Next]_vars => PoolInv' /\ ArrayInv' /\ RestInv'
  BY NextOwned
<1>3. Init => PoolInv /\ ArrayInv /\ RestInv BY OwnedInit
<1>4. IInv /\ PoolInv /\ ArrayInv /\ RestInv => TypeOK BY TypesFollow
<1> QED BY <1>1, <1>2, <1>3, <1>4, InitInv, PTL DEF Spec

\* No trampoline is shared or lost: whatever is created, removed or fails, a
\* slot is a hook's or on its block's free list, and a block is released as soon
\* as none of its slots is in use.
THEOREM SlotsAreOwned == Spec => []SlotsOwned
<1>1. IInv /\ [Next]_vars => IInv' BY NextStays
<1>2. IInv /\ PoolInv /\ ArrayInv /\ RestInv /\ [Next]_vars => PoolInv' /\ ArrayInv' /\ RestInv'
  BY NextOwned
<1>3. Init => PoolInv /\ ArrayInv /\ RestInv BY OwnedInit
<1>4. PoolInv /\ ArrayInv => SlotsOwned BY OwnedFollows
<1> QED BY <1>1, <1>2, <1>3, <1>4, InitInv, PTL DEF Spec

\* A runner that is suspended and moved goes on at the copy of the instruction
\* it was stopped at, whatever hooks there are and however many the call is
\* about.
THEOREM MovesToItsCopy == Spec => MovedToItsCopy
<1>1. ASSUME IInv, PoolInv, [Next]_vars
      PROVE  [\A r \in frozen' \ frozen : Meaning(ip'[r]) = Meaning(ip[r])]_vars
  <2>1. CASE Freeze
    <3>1. PICK S \in (IF "suspend" \in Faults THEN SUBSET Runners ELSE {Runners}) :
            /\ frozen' = S
            /\ ip' = [r \in Runners |-> IF r \in S THEN ProcessThreadIPs(ip[r]) ELSE ip[r]]
      BY <2>1 DEF Freeze
    <3>2. OwnSlots(hooks) /\ Len(hooks) \in Nat /\ DOMAIN hooks = 1 .. Len(hooks)
      BY <1>1 DEF PoolInv
    <3>3. ASSUME NEW r \in frozen' \ frozen PROVE Meaning(ip'[r]) = Meaning(ip[r])
      <4>1. r \in Runners /\ ip'[r] = ProcessThreadIPs(ip[r])
        BY <3>1, <3>3
      <4>. QED
        BY <3>2, <4>1, ProcessMeans
    <3>. QED
      BY <3>3
  <2>2. CASE ~Freeze
    <3>1. frozen' = frozen \/ frozen' = {}
      BY <1>1, <2>2 DEF Next, vars, tableVars, MH_Initialize, MH_CreateHook, QueueHook, Call,
        MH_RemoveHook, EnableHook, MH_EnableAll, MH_DisableAll, MH_ApplyQueued, MH_Uninitialize,
        EnableAllHooksLL, EnterSpinLock, CallStep, FreezeFails, EnableHookLL, ProtectFails, Unfreeze,
        FinishRemove, FinishUninitialize, Finish, LeaveSpinLock, Run
    <3>. QED
      BY <3>1
  <2>. QED
    BY <2>1, <2>2
<1>2. IInv /\ [Next]_vars => IInv' BY NextStays
<1>3. IInv /\ PoolInv /\ ArrayInv /\ RestInv /\ [Next]_vars => PoolInv' /\ ArrayInv' /\ RestInv'
  BY NextOwned
<1>4. Init => PoolInv /\ ArrayInv /\ RestInv BY OwnedInit
<1>. QED BY <1>1, <1>2, <1>3, <1>4, InitInv, PTL DEF Spec, MovedToItsCopy

\* Whatever the call does to however many hooks, and whatever faults, no thread
\* it has suspended is in bytes it goes on to write, nor in a trampoline that it
\* takes out of use.
THEOREM FrozenThreadsAreSafe == Spec => []FrozenSafe
<1>1. Init => Base /\ RunnersInv
  BY BaseStays, RunnersInit
<1>2. Base /\ RunnersInv /\ [Next]_vars => Base' /\ RunnersInv'
  BY BaseStays, RunnersStay
<1>3. RunnersInv => FrozenSafe
  BY DEF RunnersInv
<1>. QED
  BY <1>1, <1>2, <1>3, PTL DEF Spec

\* With hooks that are only created, queued and enabled, and every thread
\* suspended while that is done, no thread is ever caught in bytes that change
\* under it, in functions of any length and number that are Enterable: the bytes
\* the jump takes are entered amid by no branch from behind them and no return of
\* an indirect call, and no copied branch goes back over a widened instruction.
\* The library checks none of the three; a function without them is not covered.
THEOREM EnablingIsSafe ==
  ASSUME \A t \in Targets : Enterable(t)
  PROVE  Spec => []EnablingSafe
<1>1. Init => Base /\ RunnersInv /\ NoneCaught /\ EnablingSafe
  BY BaseStays, RunnersInit
<1>2. Base /\ RunnersInv /\ NoneCaught /\ EnablingSafe /\ [Next]_vars =>
        Base' /\ RunnersInv' /\ NoneCaught' /\ EnablingSafe'
  BY BaseStays, RunnersStay, CaughtStays
<1>. QED
  BY <1>1, <1>2, PTL DEF Spec

\* The trampoline of every well-formed function goes through the instructions
\* the function would, and covers the bytes of the jump.
THEOREM TrampolinesAreSound == Spec => []TrampolinesSound
<1>1. TrampolinesSound
  BY TrampolineIsSound, CodeAssumption DEF TrampolinesSound
<1>. QED
  BY <1>1, PTL
===============================================================================
