------------------------------- MODULE MinHook ---------------------------------
(***************************************************************************)
(* The hook library of the client patcher (src/patcher/minhook/hook.c and  *)
(* buffer.c), 32-bit build.  Callers create, enable, disable, queue and    *)
(* remove hooks; runners are the threads that meanwhile execute the hooked *)
(* functions, their detours and their trampolines.                         *)
(*                                                                         *)
(* Every entry point holds one spin lock from its first to its last line.  *)
(* A call that patches no code is one step.  One that does suspends the    *)
(* runners and moves them out of the bytes it is about to write (Freeze),  *)
(* patches hook after hook, lets them go on (Thaw) and only then frees     *)
(* what it removed (Finish).  Calls refused with an error change nothing.  *)
(*                                                                         *)
(* A runner is between instructions at one place: outside all hooked       *)
(* functions, in a function's code, at the jump above it, in its detour,   *)
(* in a trampoline, in what it called from either of them, or torn, when   *)
(* it went on in bytes that are no instruction of its own any more.        *)
(***************************************************************************)
EXTENDS Trampoline, FiniteSets

CONSTANTS
  Targets,          \* functions that can be hooked
  Code,             \* their code, see Trampoline
  Callers,          \* threads that call the library
  Runners,          \* threads that run the functions
  Blocks,           \* memory blocks there is address space for
  SlotsPerBlock,    \* trampolines that fit one block
  INITIAL_HOOK_CAPACITY,
  Faults,           \* what may fail, of FaultKinds
  Nobody,           \* the lock is free
  NoSlot,           \* a trampoline the caller has not been given
  Functions         \* code of functions in general, for TrampolinesSound

FaultKinds == {"alloc", "snapshot", "suspend", "protect"}
Slots == Blocks \X (1 .. SlotsPerBlock)

ASSUME MinHookAssumption ==
  /\ IsFiniteSet(Targets) /\ IsFiniteSet(Runners) /\ IsFiniteSet(Blocks)
  /\ SlotsPerBlock \in Nat \ {0} /\ INITIAL_HOOK_CAPACITY \in Nat \ {0}
  /\ Faults \subseteq FaultKinds
  /\ Nobody \notin Callers /\ NoSlot \notin Slots

\* A function has an instruction, and its branches lead to instructions, none of
\* which is padding.
ASSUME CodeAssumption ==
  /\ Functions \subseteq FunctionCode
  /\ Code \in [Targets -> FunctionCode]
  /\ \A t \in Targets : Code[t].body # <<>> /\ WellFormed(Code[t])
  /\ \A t \in Targets : \A n, m \in DOMAIN Code[t].body :
       Internal(Code[t].body[n]) /\ Offset(Code[t].body, m) = Code[t].body[n].dest
         => Code[t].body[m].kind # "pad"

VARIABLES
  lock,        \* g_isLocked: the caller within the library, or Nobody
  heap,        \* g_hHeap is not NULL
  hooks,       \* g_hooks.pItems: target, trampoline slot, isEnabled, queueEnable
  capacity,    \* g_hooks.capacity, and whether pItems is not NULL
  items,
  pool,        \* g_pMemoryBlocks in list order, their free lists and used counts
  patched,     \* functions with a jump to the detour in their code
  orig,        \* the caller's ppOriginal of each function
  job,         \* the call under way that patches code
  frozen,      \* suspended runners
  ip,          \* where each runner is
  undone       \* history: a hook was taken out, or a fault has left a runner in place

tableVars == <<heap, hooks, capacity, items, pool, orig>>
vars == <<lock, tableVars, patched, job, frozen, ip, undone>>

Tramp == [t \in Targets |-> CreateTrampolineFunction(Code[t])]

Idle == [op |-> "none", phase |-> "idle", pos |-> 0, todo |-> {}, ok |-> TRUE]
Single == {"enable", "disable", "remove"}
Ops == Single \cup {"enable all", "disable all", "apply", "uninit"}

Entry == [target : Targets, slot : Slots, isEnabled : BOOLEAN, queueEnable : BOOLEAN]
Hooked == {hooks[p].target : p \in DOMAIN hooks}
FindHookEntry(t) == CHOOSE p \in DOMAIN hooks : hooks[p].target = t

Out == [at |-> "out"]
Torn == [at |-> "torn"]
In(t, off) == [at |-> "code", fn |-> t, off |-> off]
Above(t) == [at |-> "above", fn |-> t]
Detour(t) == [at |-> "detour", fn |-> t]
InTramp(s, k) == [at |-> "tramp", slot |-> s, k |-> k]
Called(place) == [at |-> "callee", ret |-> place]

TypeOK ==
  /\ lock \in Callers \cup {Nobody}
  /\ heap \in BOOLEAN /\ items \in BOOLEAN /\ undone \in BOOLEAN
  /\ hooks \in Seq(Entry)
  /\ capacity \in Nat
  /\ patched \subseteq Targets
  /\ orig \in [Targets -> Slots \cup {NoSlot}]
  /\ frozen \subseteq Runners
  /\ job \in [op : Ops \cup {"none"}, phase : {"idle", "freeze", "patch", "finish"},
              pos : Nat, todo : SUBSET Nat, ok : BOOLEAN]

Init ==
  /\ lock = Nobody
  /\ heap = FALSE /\ hooks = <<>> /\ capacity = 0 /\ items = FALSE
  /\ pool = [list |-> <<>>, free |-> [b \in Blocks |-> <<>>], used |-> [b \in Blocks |-> 0]]
  /\ patched = {} /\ orig = [t \in Targets |-> NoSlot]
  /\ job = Idle /\ frozen = {}
  /\ ip = [r \in Runners |-> Out]
  /\ undone = FALSE

-------------------------------------------------------------------------------
(* buffer.c: slots for trampolines *)

Listed(p) == {p.list[i] : i \in DOMAIN p.list}

\* The free list is built front to back, so the last slot is the first free one.
NewBlock(p, b) ==
  [p EXCEPT !.list = <<b>> \o @,
            !.free[b] = [i \in 1 .. SlotsPerBlock |-> SlotsPerBlock + 1 - i],
            !.used[b] = 0]

Take(p, b) ==
  [pool |-> [p EXCEPT !.free[b] = Tail(@), !.used[b] = @ + 1], slot |-> <<b, Head(p.free[b])>>]

\* The first listed block with a free slot.
Reachable(p) == {i \in DOMAIN p.list : p.free[p.list[i]] # <<>>}
GetMemoryBlock(p) ==
  IF Reachable(p) # {}
    THEN {[p |-> p, b |-> p.list[CHOOSE i \in Reachable(p) : \A j \in Reachable(p) : i <= j]]}
    ELSE {[p |-> NewBlock(p, b), b |-> b] : b \in Blocks \ Listed(p)}

\* What AllocateBuffer may return; nothing when memory has run out.
AllocateBuffer(p) == {Take(n.p, n.b) : n \in GetMemoryBlock(p)}

\* The list of blocks without b.
Unlink(list, b) ==
  LET i == CHOOSE i \in DOMAIN list : list[i] = b
  IN  SubSeq(list, 1, i - 1) \o SubSeq(list, i + 1, Len(list))

\* As if usedCount were not counted down: the block is never released.
FreeBufferUncounted(p, s) ==
  IF s[1] \in Listed(p) THEN [p EXCEPT !.free[s[1]] = <<s[2]>> \o @] ELSE p

\* Put the slot back, and release a block that has no slot in use.
FreeBuffer(p, s) ==
  LET b == s[1]
      back == [p EXCEPT !.free[b] = <<s[2]>> \o @, !.used[b] = @ - 1]
  IN  CASE b \notin Listed(p)                      -> p
        [] b \in Listed(p) /\ back.used[b] # 0     -> back
        [] OTHER -> [back EXCEPT !.list = Unlink(@, b), !.free[b] = <<>>]

-------------------------------------------------------------------------------
(* Calls that patch no code *)

MH_Initialize ==
  /\ lock = Nobody /\ ~heap
  /\ heap' = TRUE
  /\ UNCHANGED <<lock, hooks, capacity, items, pool, patched, orig, job, frozen, ip, undone>>

\* AddHookEntry: the room there is for one more entry.
Grown == CASE ~items                              -> INITIAL_HOOK_CAPACITY
           [] items /\ Len(hooks) >= capacity     -> capacity * 2
           [] items /\ Len(hooks) < capacity      -> capacity

AddHookEntry(e) ==
  /\ hooks' = Append(hooks, e) /\ capacity' = Grown /\ items' = TRUE

\* The first allocation failing leaves the capacity set and no items.
AddFails ==
  /\ "alloc" \in Faults /\ (~items \/ Len(hooks) >= capacity)
  /\ capacity' = (IF items THEN capacity ELSE INITIAL_HOOK_CAPACITY)
  /\ UNCHANGED <<hooks, items>>

MH_CreateHook(t) ==
  /\ lock = Nobody /\ heap /\ t \notin Hooked
  /\ \E new \in AllocateBuffer(pool) :
       \/ /\ Tramp[t].ok
          /\ AddHookEntry([target |-> t, slot |-> new.slot,
                           isEnabled |-> FALSE, queueEnable |-> FALSE])
          /\ pool' = new.pool /\ orig' = [orig EXCEPT ![t] = new.slot]
       \/ /\ Tramp[t].ok /\ AddFails
          /\ pool' = FreeBuffer(new.pool, new.slot) /\ UNCHANGED orig
       \/ /\ ~Tramp[t].ok
          /\ pool' = FreeBuffer(new.pool, new.slot)
          /\ UNCHANGED <<hooks, capacity, items, orig>>
  /\ UNCHANGED <<lock, heap, patched, job, frozen, ip, undone>>

\* MH_QueueEnableHook and MH_QueueDisableHook, of one function or of all.
QueueHook(ts, enable) ==
  /\ lock = Nobody /\ heap
  /\ hooks' = [p \in DOMAIN hooks |->
       IF hooks[p].target \in ts THEN [hooks[p] EXCEPT !.queueEnable = enable] ELSE hooks[p]]
  /\ UNCHANGED <<lock, heap, capacity, items, pool, patched, orig, job, frozen, ip, undone>>

-------------------------------------------------------------------------------
(* Calls that patch code: entry *)

\* What the call will set isEnabled of entry p to.
Wanted(op, p) ==
  CASE op \in {"enable", "enable all"} -> TRUE
    [] op = "apply"                    -> hooks[p].queueEnable
    [] OTHER                           -> FALSE

Changes(op, ps) == {p \in ps : hooks[p].isEnabled # Wanted(op, p)}

\* pos is 0 for ALL_HOOKS_POS; todo holds the positions still to be patched.
EnterSpinLock(c, op, pos, todo) ==
  /\ lock = Nobody /\ heap
  /\ lock' = c
  /\ job' = [op |-> op, pos |-> pos, todo |-> todo, ok |-> TRUE,
             phase |-> IF todo = {} THEN "finish" ELSE "freeze"]
  /\ UNCHANGED <<tableVars, patched, frozen, ip, undone>>

EnableHook(c, t, enable) ==
  LET op == IF enable THEN "enable" ELSE "disable"
      pos == FindHookEntry(t) IN
  /\ t \in Hooked /\ hooks[pos].isEnabled # enable
  /\ EnterSpinLock(c, op, pos, {pos})

EnableAllHooksLL(c, op) == EnterSpinLock(c, op, 0, Changes(op, DOMAIN hooks))

MH_EnableAll(c) == EnableAllHooksLL(c, "enable all")
MH_DisableAll(c) == EnableAllHooksLL(c, "disable all")
MH_ApplyQueued(c) == EnterSpinLock(c, "apply", 0, Changes("apply", DOMAIN hooks))
MH_Uninitialize(c) == EnableAllHooksLL(c, "uninit")

MH_RemoveHook(c, t) ==
  LET pos == FindHookEntry(t) IN
  /\ t \in Hooked
  /\ EnterSpinLock(c, "remove", pos, Changes("remove", {pos}))

-------------------------------------------------------------------------------
(* Moving a suspended thread *)

\* As if a runner were moved to the trampoline's entry, or not at all.
FindNewIPFirst(h, place) ==
  IF \E k \in DOMAIN Tramp[h.target].ips : place = In(h.target, Tramp[h.target].ips[k][1])
    THEN InTramp(h.slot, 1) ELSE place
FindNewIPNever(h, place) == place

\* The place in the trampoline for one in the function, and back; the place
\* itself when there is none.
FindNewIP(h, place) ==
  LET ks == {k \in DOMAIN Tramp[h.target].ips : place = In(h.target, Tramp[h.target].ips[k][1])}
  IN  IF ks = {} THEN place ELSE InTramp(h.slot, CHOOSE k \in ks : TRUE)

\* As if the jump above were forgotten.
FindOldIPBelow(h, place) ==
  LET ks == {k \in DOMAIN Tramp[h.target].ips : place = InTramp(h.slot, k)} IN
  IF ks = {} THEN place ELSE In(h.target, Tramp[h.target].ips[CHOOSE k \in ks : TRUE][1])

FindOldIP(h, place) ==
  LET ks == {k \in DOMAIN Tramp[h.target].ips : place = InTramp(h.slot, k)} IN
  IF Tramp[h.target].patchAbove /\ place = Above(h.target) THEN In(h.target, 0)
  ELSE IF ks = {} THEN place ELSE In(h.target, Tramp[h.target].ips[CHOOSE k \in ks : TRUE][1])

\* The action Freeze is given: EnableHook gives ACTION_ENABLE when it disables
\* too.
ActionEnables(op, p) == IF op = "disable" THEN TRUE ELSE Wanted(op, p)

MoveIP(h, enable, place) ==
  IF h.isEnabled = enable THEN place
  ELSE IF enable THEN FindNewIP(h, place) ELSE FindOldIP(h, place)

\* One hook, or all of them in the order of the table.
ProcessThreadIPs(place) ==
  LET moved[n \in 0 .. Len(hooks)] ==
        IF n = 0 THEN place
        ELSE IF job.pos \in {0, n} THEN MoveIP(hooks[n], ActionEnables(job.op, n), moved[n - 1])
        ELSE moved[n - 1]
  IN  moved[Len(hooks)]

-------------------------------------------------------------------------------
(* Calls that patch code: the steps under the lock *)

\* As if the calling thread were not left out of the enumeration.
FreezeItself ==
  /\ job.phase = "freeze"
  /\ frozen' = Runners \cup {lock}
  /\ ip' = [r \in Runners |-> ProcessThreadIPs(ip[r])]
  /\ job' = [job EXCEPT !.phase = "patch"]
  /\ UNCHANGED <<lock, tableVars, patched, undone>>

\* A runner is missed when it cannot be opened or suspended, or when it was
\* created after the snapshot.  Suspending them one by one has no other
\* outcome, for a runner that is suspended late can as well have moved before.
Freeze ==
  /\ job.phase = "freeze"
  /\ \E S \in (IF "suspend" \in Faults THEN SUBSET Runners ELSE {Runners}) :
       /\ frozen' = S
       /\ ip' = [r \in Runners |-> IF r \in S THEN ProcessThreadIPs(ip[r]) ELSE ip[r]]
       /\ undone' = (undone \/ S # Runners)
  /\ job' = [job EXCEPT !.phase = "patch"]
  /\ UNCHANGED <<lock, tableVars, patched>>

\* EnumerateThreads fails: nothing was suspended and the call gives up.
FreezeFails ==
  /\ job.phase = "freeze" /\ "snapshot" \in Faults
  /\ job' = [job EXCEPT !.phase = "finish", !.ok = FALSE]
  /\ UNCHANGED <<lock, tableVars, patched, frozen, ip, undone>>

NextToPatch == CHOOSE p \in job.todo : \A q \in job.todo : p <= q

EnableHookLL ==
  /\ job.phase = "patch" /\ job.todo # {}
  /\ LET p == NextToPatch
         enable == Wanted(job.op, p) IN
     /\ patched' = (IF enable THEN patched \cup {hooks[p].target} ELSE patched \ {hooks[p].target})
     /\ hooks' = [hooks EXCEPT ![p].isEnabled = enable, ![p].queueEnable = enable]
     /\ undone' = (undone \/ ~enable)
     /\ job' = [job EXCEPT !.todo = @ \ {p}]
  /\ UNCHANGED <<lock, heap, capacity, items, pool, orig, frozen, ip>>

\* VirtualProtect fails: this hook and those behind it stay as they are.
ProtectFails ==
  /\ job.phase = "patch" /\ job.todo # {} /\ "protect" \in Faults
  /\ job' = [job EXCEPT !.todo = {}, !.ok = FALSE]
  /\ undone' = (undone \/ \E p \in job.todo : ~Wanted(job.op, p))
  /\ UNCHANGED <<lock, tableVars, patched, frozen, ip>>

Unfreeze ==
  /\ job.phase = "patch" /\ job.todo = {}
  /\ frozen' = {}
  /\ job' = [job EXCEPT !.phase = "finish"]
  /\ UNCHANGED <<lock, tableVars, patched, ip, undone>>

\* As if the last entry were dropped, whichever was to be.
DeleteLast(pos) ==
  /\ hooks' = SubSeq(hooks, 1, Len(hooks) - 1)
  /\ UNCHANGED <<capacity, items>>

\* The last entry takes the place of the one removed.
DeleteHookEntry(pos) ==
  /\ hooks' = [p \in 1 .. Len(hooks) - 1 |-> hooks[IF p = pos THEN Len(hooks) ELSE p]]
  /\ LET shrink == /\ capacity \div 2 >= INITIAL_HOOK_CAPACITY
                   /\ capacity \div 2 >= Len(hooks) - 1 IN
     \/ capacity' = (IF shrink THEN capacity \div 2 ELSE capacity)
     \/ "alloc" \in Faults /\ shrink /\ capacity' = capacity
  /\ UNCHANGED items

LeaveSpinLock == lock' = Nobody /\ job' = Idle /\ UNCHANGED <<frozen, ip, patched>>

FinishRemove ==
  /\ job.phase = "finish" /\ job.op = "remove" /\ job.ok
  /\ pool' = FreeBuffer(pool, hooks[job.pos].slot)
  /\ DeleteHookEntry(job.pos)
  /\ undone' = TRUE
  /\ LeaveSpinLock
  /\ UNCHANGED <<heap, orig>>

\* As if the result of EnableAllHooksLL were not looked at.
FinishUninitializeAnyway ==
  /\ job.phase = "finish" /\ job.op = "uninit"
  /\ pool' = [list |-> <<>>, free |-> [b \in Blocks |-> <<>>], used |-> [b \in Blocks |-> 0]]
  /\ hooks' = <<>> /\ capacity' = 0 /\ items' = FALSE /\ heap' = FALSE
  /\ undone' = TRUE
  /\ LeaveSpinLock
  /\ UNCHANGED orig

FinishUninitialize ==
  /\ job.phase = "finish" /\ job.op = "uninit" /\ job.ok
  /\ pool' = [list |-> <<>>, free |-> [b \in Blocks |-> <<>>], used |-> [b \in Blocks |-> 0]]
  /\ hooks' = <<>> /\ capacity' = 0 /\ items' = FALSE /\ heap' = FALSE
  /\ undone' = TRUE
  /\ LeaveSpinLock
  /\ UNCHANGED orig

Finish ==
  /\ job.phase = "finish" /\ (job.op \notin {"remove", "uninit"} \/ ~job.ok)
  /\ LeaveSpinLock
  /\ UNCHANGED <<tableVars, undone>>

Call(c) ==
  \/ \E t \in Targets : MH_RemoveHook(c, t) \/ \E e \in BOOLEAN : EnableHook(c, t, e)
  \/ MH_EnableAll(c) \/ MH_DisableAll(c) \/ MH_ApplyQueued(c) \/ MH_Uninitialize(c)

CallStep ==
  Freeze \/ FreezeFails \/ EnableHookLL \/ ProtectFails \/ Unfreeze
  \/ FinishRemove \/ FinishUninitialize \/ Finish

-------------------------------------------------------------------------------
(* The runners *)

\* The bytes the jumps of a patched function take, as offsets.
PatchedBytes(t) == IF Tramp[t].patchAbove THEN 0 .. JMP_REL_SHORT - 1 ELSE 0 .. JMP_REL - 1

At(t, off) == CHOOSE n \in DOMAIN Code[t].body : Offset(Code[t].body, n) = off

\* Where instruction n of a function leads, for its own bytes (In) and for the
\* copies in a trampoline: next, a branch, a call, or out.
AfterCode(t, n) ==
  LET i == Code[t].body[n]
      off == Offset(Code[t].body, n)
      next == IF n = Len(Code[t].body) THEN Out ELSE In(t, off + i.len) IN
  CASE i.kind \in {"call", "icall"} -> {Called(next)}
    [] i.kind \in {"ret", "ijmp"}   -> {Out}
    [] i.kind \in Branches ->
         (IF i.kind = "jmp" THEN {} ELSE {next})
         \cup {IF Internal(i) THEN In(t, i.dest) ELSE Out}
    [] OTHER           -> {next}

AfterTramp(t, s, n) ==
  LET i == Code[t].body[n]
      ips == Tramp[t].ips
      lands == {k \in DOMAIN ips : ips[k][2] = ips[n][2] + i.dest - ips[n][1]}
      next == InTramp(s, n + 1) IN
  CASE ips[n][1] >= JMP_REL -> {In(t, ips[n][1])}
    [] ips[n][1] < JMP_REL /\ i.kind \in {"call", "icall"} -> {Called(next)}
    [] ips[n][1] < JMP_REL /\ i.kind \in {"ret", "ijmp"}   -> {Out}
    [] ips[n][1] < JMP_REL /\ i.kind \in Branches ->
         (IF i.kind = "jmp" THEN {} ELSE {next})
         \cup (IF ~Internal(i) THEN {Out}
               ELSE IF lands = {} THEN {Torn} ELSE {InTramp(s, k) : k \in lands})
    [] OTHER -> {next}

\* The function whose trampoline has an instruction at this place: none when the
\* hook is gone and its slot is free, or holds a shorter trampoline now.
Owner(place) ==
  {hooks[p].target : p \in {q \in DOMAIN hooks : /\ hooks[q].slot = place.slot
                                               /\ place.k \in DOMAIN Tramp[hooks[q].target].ips}}

\* Where a runner can be after one more instruction.
After(place) ==
  CASE place.at = "out"    -> {In(t, 0) : t \in Targets}
    [] place.at = "callee" -> {place.ret}
    [] place.at = "detour" -> {Out, InTramp(orig[place.fn], 1)}
    [] place.at = "above"  -> {IF place.fn \in patched THEN Detour(place.fn) ELSE Torn}
    [] place.at = "tramp"  -> IF Owner(place) = {} THEN {Torn}
                              ELSE UNION {AfterTramp(t, place.slot, place.k) : t \in Owner(place)}
    [] place.at = "code" /\ place.fn \notin patched -> AfterCode(place.fn, At(place.fn, place.off))
    [] place.at = "code" /\ place.fn \in patched ->
         CASE place.off = 0 -> {IF Tramp[place.fn].patchAbove THEN Above(place.fn) ELSE Detour(place.fn)}
           [] place.off # 0 /\ place.off \in PatchedBytes(place.fn) -> {Torn}
           [] OTHER -> AfterCode(place.fn, At(place.fn, place.off))
    [] OTHER -> {}

Run(r) ==
  /\ r \notin frozen
  /\ \E place \in After(ip[r]) : ip' = [ip EXCEPT ![r] = place]
  /\ UNCHANGED <<lock, tableVars, patched, job, frozen, undone>>

Next ==
  \/ MH_Initialize
  \/ \E t \in Targets : MH_CreateHook(t)
  \/ \E ts \in {{t} : t \in Hooked} \cup {Hooked}, e \in BOOLEAN : QueueHook(ts, e)
  \/ \E c \in Callers : Call(c)
  \/ CallStep
  \/ \E r \in Runners : Run(r)

Spec == Init /\ [][Next]_vars

-------------------------------------------------------------------------------
(* Properties *)

\* The table says what the code bytes say: one entry per function, enabled
\* exactly when the jump is in its code, and no jump without an entry (the
\* swap in DeleteHookEntry, half-done "all" calls, a removal that failed).
\* Runners are suspended only within a call that holds the lock.
TableExact ==
  /\ \A p, q \in DOMAIN hooks : hooks[p].target = hooks[q].target => p = q
  /\ \A p \in DOMAIN hooks : hooks[p].isEnabled <=> hooks[p].target \in patched
  /\ patched \subseteq Hooked
  /\ lock = Nobody <=> job.phase = "idle"
  /\ frozen # {} => job.phase = "patch"

\* No two hooks share a trampoline slot, and allocator and table agree: between
\* calls a slot is in use by a hook or on its block's free list, once, and a
\* block with no slot in use has been released.  The items fit the array.
SlotsOwned ==
  /\ \A p, q \in DOMAIN hooks : hooks[p].slot = hooks[q].slot => p = q
  /\ \A b \in Blocks :
       LET inUse == {hooks[p].slot[2] : p \in {q \in DOMAIN hooks : hooks[q].slot[1] = b}}
           onList == {pool.free[b][i] : i \in DOMAIN pool.free[b]} IN
       /\ b \in Listed(pool) <=> inUse # {}
       /\ b \in Listed(pool) => pool.used[b] = Cardinality(inUse)
       /\ inUse \cap onList = {} /\ Cardinality(onList) = Len(pool.free[b])
       /\ b \in Listed(pool) => inUse \cup onList = 1 .. SlotsPerBlock
  /\ Cardinality(Listed(pool)) = Len(pool.list)
  /\ IF items THEN Len(hooks) <= capacity ELSE hooks = <<>>

\* Where a suspended runner must not be when hook h is about to be changed:
\* amid the instructions the jump will cut up, or, when the jump is taken out,
\* at the jump above or in the trampoline.
InTheWay(h, enable, place) ==
  IF enable THEN \E off \in PatchedBytes(h.target) \ {0} : place = In(h.target, off)
  ELSE place \in {Above(h.target)} \cup {InTramp(h.slot, k) : k \in DOMAIN Tramp[h.target].ips}

Evacuated(ops) ==
  job.phase = "patch" /\ job.op \in ops =>
    \A p \in job.todo, r \in frozen : ~InTheWay(hooks[p], Wanted(job.op, p), ip[r])

\* Freeze leaves no suspended thread in the bytes the call goes on to write,
\* nor, when it takes hooks out, in their trampolines ("If the thread suspended
\* in the overwritten area, move IP to the proper address", hook.c:201).
\* MH_DisableHook of one function is left to SuspendedMoved.
FrozenSafe == Evacuated(Ops \ {"disable"})

\* The same of MH_DisableHook, which tells Freeze that it enables.
SuspendedMoved == Evacuated({"disable"})

\* What EnablingSafe needs of a function, none of which the library looks at: no
\* branch from behind the bytes that the jump takes leads amid them; no indirect
\* call, which may be shorter than the jump, returns amid them; and in the
\* trampoline no copied branch goes back over an instruction that was widened.
Enterable(t) ==
  \A n \in DOMAIN Code[t].body :
    /\ Code[t].body[n].kind = "icall" =>
         Offset(Code[t].body, n) + Code[t].body[n].len \notin PatchedBytes(t)
    /\ Internal(Code[t].body[n]) /\ Offset(Code[t].body, n) \notin PatchedBytes(t)
         => Code[t].body[n].dest \notin PatchedBytes(t) \ {0}
    /\ n \in DOMAIN Tramp[t].ips /\ Tramp[t].ips[n][1] < JMP_REL /\ Internal(Code[t].body[n])
         => ~WidenedBehind(Tramp[t], Code[t], n)

\* What a runner has still to do of the function it is in.
Meaning(place) ==
  CASE place.at = "code" -> <<place.fn, place.off>>
    [] place.at = "above" -> <<place.fn, 0>>
    [] place.at = "tramp" /\ Owner(place) # {} ->
         LET t == CHOOSE x \in Owner(place) : TRUE IN <<t, Tramp[t].ips[place.k][1]>>
    [] OTHER -> <<place>>

\* A runner that is moved goes on at the copy of the very instruction it was
\* stopped at, with the widened instructions in between, for one hook or all.
MovedToItsCopy ==
  [][\A r \in frozen' \ frozen : Meaning(ip'[r]) = Meaning(ip[r])]_vars

\* As long as hooks are only created, queued and enabled, and every runner could
\* be suspended, none is ever caught in bytes that change under it: the one use
\* that src/patcher/hooks makes of the library.
EnablingSafe == ~undone => \A r \in Runners : ip[r] # Torn

\* A trampoline goes through the same instructions as the function, in branches
\* forward, and backward over nothing that was widened, stays within its slot
\* and its eight boundaries, and records every boundary a thread may have to be
\* moved from.  It is a property of the code alone, looked at once: in the one
\* state in which nothing has happened yet.
Untouched == ~heap /\ ~undone /\ \A r \in Runners : ip[r] = Out
TrampolinesSound == Untouched => \A c \in Functions : WellFormed(c) => Sound(c)

HT == INSTANCE HookTable WITH
  hook <- [t \in Targets |->
             IF t \notin Hooked THEN "none" ELSE IF t \in patched THEN "on" ELSE "off"]

\* The library implements HookTable: whatever fails and in whatever order hooks
\* are removed, a step changes one function's hook as the callers were promised,
\* and MH_Uninitialize forgets nothing that is still patched.
ImplementsHookTable == HT!Spec
===============================================================================
