------------------------------ MODULE Trampoline -------------------------------
(***************************************************************************)
(* CreateTrampolineFunction of the patcher's hook library                  *)
(* (src/patcher/minhook/trampoline.c), the 32-bit build: the first         *)
(* instructions of a function are copied to a trampoline until a five-byte *)
(* jump fits over them, relative branches are widened, and the two lists   *)
(* of instruction boundaries (oldIPs, newIPs) are recorded.                *)
(*                                                                         *)
(* A function is [body, above]: the instructions a disassembler meets from *)
(* its entry on, padding included, and whether the five bytes above the    *)
(* entry are executable padding.  An instruction is [len, kind, dest]; the *)
(* destination of a branch is an offset from the entry, and Away stands    *)
(* for every offset outside the first five bytes.  Lengths are those of    *)
(* the encodings; a far branch is long and a near one short or long.       *)
(* Indirect calls and jumps (icall, ijmp: FF /2, FF /4) have any length    *)
(* and are copied like plain instructions: the 32-bit build does not tell  *)
(* them apart.                                                             *)
(***************************************************************************)
EXTENDS Integers, Sequences

JMP_REL == 5          \* sizeof(JMP_REL), also of CALL_REL
JMP_REL_SHORT == 2
JCC_REL == 6
TRAMPOLINE_MAX_SIZE == 32
MAX_IPS == 8          \* ARRAYSIZE(oldIPs)
Away == 99

Branches == {"jmp", "jcc", "loop"}
Kinds == Branches \cup {"plain", "call", "icall", "ret", "ijmp", "pad", "bad"}

Instruction ==
  {i \in [len : Nat \ {0}, kind : Kinds, dest : Nat] : i.kind = "call" => i.len = JMP_REL}
FunctionCode == [body : Seq(Instruction), above : BOOLEAN]

Instr(len, kind) == [len |-> len, kind |-> kind, dest |-> Away]
Branch(len, kind, dest) == [len |-> len, kind |-> kind, dest |-> dest]

\* The branch stays within the bytes that the jump to the detour will take.
Internal(i) == i.kind \in Branches /\ i.dest \in 0 .. JMP_REL - 1

\* Size of what is written for instruction i found at offset old: past the
\* fifth byte, a jump back to the function.
CopySize(old, i) ==
  CASE old >= JMP_REL                           -> JMP_REL
    [] old < JMP_REL /\ i.kind = "call"         -> JMP_REL
    [] old < JMP_REL /\ i.kind = "jmp" /\ ~Internal(i) -> JMP_REL
    [] old < JMP_REL /\ i.kind = "jcc" /\ ~Internal(i) -> JCC_REL
    [] OTHER                                    -> i.len

\* As if internal branches were not remembered.
JmpDestNever(dest, old, i) == dest

\* jmpDest after instruction i at offset old: how far the furthest internal
\* branch so far reaches.
JmpDest(dest, old, i) ==
  IF old < JMP_REL /\ Internal(i) /\ dest < i.dest THEN i.dest ELSE dest

Finishes(dest, old, i) ==
  \/ old >= JMP_REL
  \/ i.kind = "jmp" /\ ~Internal(i) /\ old >= dest
  \/ i.kind = "ret" /\ old >= dest

\* The instructions the function cannot be relocated with.
Unsupported(s, i) ==
  \/ i.kind = "bad"
  \/ s.old < JMP_REL /\ i.kind = "loop" /\ ~Internal(i)
  \/ s.old < JmpDest(s.dest, s.old, i) /\ CopySize(s.old, i) # i.len
  \/ s.new + CopySize(s.old, i) > TRAMPOLINE_MAX_SIZE
  \/ Len(s.ips) >= MAX_IPS

\* One turn of the do loop.  ips holds oldIPs and newIPs as pairs.
Relocate(s, i) ==
  CASE s.st # "scan" -> s
    [] s.st = "scan" /\ Unsupported(s, i) -> [s EXCEPT !.st = "failed"]
    [] OTHER ->
         [old |-> s.old + i.len, new |-> s.new + CopySize(s.old, i),
          dest |-> JmpDest(s.dest, s.old, i),
          ips |-> Append(s.ips, <<s.old, s.new>>),
          st |-> IF Finishes(JmpDest(s.dest, s.old, i), s.old, i) THEN "done" ELSE "scan"]

Start == [old |-> 0, new |-> 0, dest |-> 0, ips |-> <<>>, st |-> "scan"]

Scan(body) ==
  LET scan[n \in 0 .. Len(body)] ==
        IF n = 0 THEN Start ELSE Relocate(scan[n - 1], body[n])
  IN  scan[Len(body)]

\* The offset of instruction n.
Offset(body, n) ==
  LET at[k \in 1 .. n] == IF k = 1 THEN 0 ELSE at[k - 1] + body[k - 1].len IN at[n]

\* The bytes first .. last are padding.
IsCodePadding(body, first, last) ==
  \A b \in first .. last : \E n \in DOMAIN body :
    body[n].kind = "pad" /\ b \in Offset(body, n) .. Offset(body, n) + body[n].len - 1

\* Room for a jump of so many bytes over the end bytes that were scanned.
RoomFor(size, body, end) == end >= size \/ IsCodePadding(body, end, size - 1)

\* The trampoline of function c: whether there is one, its boundaries, and
\* whether the long jump goes above the entry, a short jump to it at the entry.
CreateTrampolineFunction(c) ==
  LET s == Scan(c.body)
      fits == RoomFor(JMP_REL, c.body, s.old)
  IN  [ok |-> s.st = "done" /\ (fits \/ (RoomFor(JMP_REL_SHORT, c.body, s.old) /\ c.above)),
       patchAbove |-> ~fits, ips |-> s.ips]

-------------------------------------------------------------------------------
(* What a trampoline promises *)

OldIPs(t) == {t.ips[k][1] : k \in DOMAIN t.ips}

\* Where the copy of instruction n goes on: behind itself, or where its branch,
\* copied with its displacement, leads.
FollowsIn(t, c, n, size) ==
  LET i == c.body[n] IN
  (IF i.kind \in {"ret", "jmp", "ijmp"} THEN {} ELSE {<<t.ips[n][1] + i.len, t.ips[n][2] + size>>})
  \cup (IF Internal(i) THEN {<<i.dest, t.ips[n][2] + (i.dest - t.ips[n][1])>>} ELSE {})

\* A widened instruction lies between a branch and what it goes back to.
WidenedBehind(t, c, n) ==
  \E m \in 1 .. n - 1 : /\ c.body[n].dest <= t.ips[m][1]
                        /\ CopySize(t.ips[m][1], c.body[m]) # c.body[m].len

\* Going on from any copied instruction, the trampoline reaches the copy of the
\* instruction the function would reach.
Follows(t, c) ==
  \A n \in DOMAIN t.ips :
    t.ips[n][1] < JMP_REL /\ ~(Internal(c.body[n]) /\ WidenedBehind(t, c, n)) =>
      \A p \in FollowsIn(t, c, n, CopySize(t.ips[n][1], c.body[n])) :
        \E k \in DOMAIN t.ips : t.ips[k] = p

\* Every instruction that the jump will overwrite in part, and that can be
\* reached, is one a suspended thread can be moved from.
CoversPatch(t, c) ==
  \A n \in DOMAIN c.body :
    /\ Offset(c.body, n) < (IF t.patchAbove THEN JMP_REL_SHORT ELSE JMP_REL)
    /\ c.body[n].kind # "pad"
    => Offset(c.body, n) \in OldIPs(t)

\* Branches lead to instructions.
WellFormed(c) ==
  \A n \in DOMAIN c.body : Internal(c.body[n]) =>
    \E m \in DOMAIN c.body : Offset(c.body, m) = c.body[n].dest

Sound(c) ==
  LET t == CreateTrampolineFunction(c) IN
  t.ok => /\ Follows(t, c) /\ CoversPatch(t, c)
          /\ \A n \in DOMAIN t.ips : t.ips[n][1] = Offset(c.body, n)
          /\ t.ips[Len(t.ips)][2] + CopySize(t.ips[Len(t.ips)][1], c.body[Len(t.ips)])
               <= TRAMPOLINE_MAX_SIZE
          /\ Len(t.ips) <= MAX_IPS
===============================================================================
