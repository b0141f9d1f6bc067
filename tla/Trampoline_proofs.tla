--------------------------- MODULE Trampoline_proofs ---------------------------
(***************************************************************************)
(* Proofs about CreateTrampolineFunction, for the code of any function.    *)
(*                                                                         *)
(* Offset and Scan are recursive functions over an interval.  Each is      *)
(* shown to exist, and what is said of its values is proved from the least *)
(* value of which it would not hold.                                       *)
(***************************************************************************)
EXTENDS Trampoline, WellFoundedInduction, TLAPS

\* A set of numbers has a least one.
LEMMA Least ==
  ASSUME NEW S \in SUBSET Nat, S # {}
  PROVE  \E x \in S : \A y \in S : x <= y
<1>1. \E x \in S : \A y \in S : ~(<<y, x>> \in OpToRel(<, Nat))
  BY WFMin, NatLessThanWellFounded, Zenon
<1>2. \E x \in S : \A y \in S : ~(<<y, x>> \in {ss \in Nat \X Nat : ss[1] < ss[2]})
  BY <1>1, Zenon DEF OpToRel
<1>3. PICK x \in S : \A y \in S : ~(<<y, x>> \in {ss \in Nat \X Nat : ss[1] < ss[2]})
  BY <1>2
<1>4. ASSUME NEW y \in S PROVE x <= y
  <2>1. x \in Nat /\ y \in Nat OBVIOUS
  <2>2. ~(<<y, x>> \in {ss \in Nat \X Nat : ss[1] < ss[2]}) BY <1>3
  <2>3. ~(y < x) BY <2>1, <2>2
  <2> QED BY <2>1, <2>3
<1> QED BY <1>4

\* A set of numbers without a least one is empty.
LEMMA NoneLeast ==
  ASSUME NEW S \in SUBSET Nat,
         \A x \in S : \E y \in S : y < x
  PROVE  S = {}
<1>1. SUFFICES ASSUME S # {} PROVE FALSE
  OBVIOUS
<1>2. PICK x \in S : \A y \in S : x <= y
  BY <1>1, Least
<1>3. PICK y \in S : y < x
  OBVIOUS
<1>. QED
  BY <1>2, <1>3

-------------------------------------------------------------------------------
(* Offsets *)

Offsets(body, n, at) ==
  at = [k \in 1 .. n |-> IF k = 1 THEN 0 ELSE at[k - 1] + body[k - 1].len]

LEMMA OffsetsExist ==
  ASSUME NEW body, NEW n \in Nat
  PROVE  \E at : Offsets(body, n, at)
<1>. DEFINE S == {m \in Nat : ~\E at : Offsets(body, m, at)}
<1>1. ASSUME NEW m \in S PROVE \E l \in S : l < m
  <2>1. m # 0
    <3>1. Offsets(body, 0, [k \in 1 .. 0 |-> 0])
      BY DEF Offsets
    <3>. QED
      BY <3>1
  <2>2. m - 1 \in Nat /\ m - 1 < m
    BY <2>1
  <2>3. ASSUME NEW at, Offsets(body, m - 1, at) PROVE FALSE
    <3>. DEFINE new == [k \in 1 .. m |-> IF k < m THEN at[k]
                          ELSE IF k = 1 THEN 0 ELSE at[k - 1] + body[k - 1].len]
    <3>1. ASSUME NEW k \in 1 .. m
          PROVE  new[k] = IF k = 1 THEN 0 ELSE new[k - 1] + body[k - 1].len
      <4>1. CASE k < m
        <5>1. k \in 1 .. m - 1 /\ (k # 1 => k - 1 \in 1 .. m - 1 /\ k - 1 < m)
          BY <2>2, <4>1
        <5>2. at[k] = IF k = 1 THEN 0 ELSE at[k - 1] + body[k - 1].len
          BY <2>3, <5>1 DEF Offsets
        <5>. QED
          BY <4>1, <5>1, <5>2
      <4>2. CASE ~(k < m)
        <5>1. k = m /\ (k # 1 => k - 1 \in 1 .. m /\ k - 1 < m)
          BY <2>2, <4>2
        <5>. QED
          BY <4>2, <5>1
      <4>. QED
        BY <4>1, <4>2
    <3>2. Offsets(body, m, new)
      BY <3>1 DEF Offsets
    <3>. QED
      BY <3>2
  <2>. QED
    BY <2>2, <2>3
<1>2. S = {}
  BY <1>1, NoneLeast
<1>. QED
  BY <1>2

LEMMA OffsetIsAt ==
  ASSUME NEW body, NEW n \in Nat \ {0}
  PROVE  \E at : Offsets(body, n, at) /\ Offset(body, n) = at[n]
<1>. DEFINE at == CHOOSE at : Offsets(body, n, at)
<1>1. Offsets(body, n, at)
  BY OffsetsExist
<1>2. Offset(body, n) = at[n]
  BY DEF Offset, Offsets
<1>. QED
  BY <1>1, <1>2

\* Longer lists of offsets begin with the shorter ones.
LEMMA OffsetsAgree ==
  ASSUME NEW body, NEW m \in Nat, NEW n \in Nat, NEW a, NEW b, m <= n,
         Offsets(body, m, a), Offsets(body, n, b), NEW i \in 1 .. m
  PROVE  a[i] = b[i]
<1>. DEFINE S == {k \in Nat : k \in 1 .. m /\ a[k] # b[k]}
<1>1. ASSUME NEW k \in S PROVE \E l \in S : l < k
  <2>1. k \in 1 .. m /\ k \in 1 .. n /\ a[k] # b[k]
    OBVIOUS
  <2>2. a[k] = IF k = 1 THEN 0 ELSE a[k - 1] + body[k - 1].len
    BY <2>1 DEF Offsets
  <2>3. b[k] = IF k = 1 THEN 0 ELSE b[k - 1] + body[k - 1].len
    BY <2>1 DEF Offsets
  <2>4. k # 1 /\ a[k - 1] # b[k - 1]
    BY <2>1, <2>2, <2>3
  <2>5. k - 1 \in S /\ k - 1 < k
    BY <2>1, <2>4
  <2>. QED
    BY <2>5
<1>2. S = {}
  <2>1. S \in SUBSET Nat
    OBVIOUS
  <2>. HIDE DEF S
  <2>. QED
    BY <1>1, <2>1, NoneLeast
<1>. QED
  BY <1>2

LEMMA OffsetNext ==
  ASSUME NEW body, NEW n \in Nat \ {0}
  PROVE  Offset(body, 1) = 0 /\ Offset(body, n + 1) = Offset(body, n) + body[n].len
<1>1. PICK o : Offsets(body, 1, o) /\ Offset(body, 1) = o[1]
  BY OffsetIsAt
<1>2. PICK a : Offsets(body, n, a) /\ Offset(body, n) = a[n]
  BY OffsetIsAt
<1>3. n + 1 \in Nat \ {0}
  OBVIOUS
<1>4. PICK b : Offsets(body, n + 1, b) /\ Offset(body, n + 1) = b[n + 1]
  BY <1>3, OffsetIsAt
<1>5. o[1] = 0
  BY <1>1 DEF Offsets
<1>6. b[n + 1] = b[n] + body[n].len
  <2>1. n + 1 \in 1 .. n + 1 /\ n + 1 # 1 /\ (n + 1) - 1 = n
    OBVIOUS
  <2>. QED
    BY <1>4, <2>1 DEF Offsets
<1>7. a[n] = b[n]
  <2>1. n \in Nat /\ n + 1 \in Nat /\ n <= n + 1 /\ n \in 1 .. n
    OBVIOUS
  <2>. QED
    BY <1>2, <1>4, <2>1, OffsetsAgree
<1>. QED
  BY <1>1, <1>2, <1>4, <1>5, <1>6, <1>7

\* Offsets are numbers and grow.
LEMMA OffsetsGrow ==
  ASSUME NEW body \in Seq(Instruction)
  PROVE  /\ \A n \in 1 .. Len(body) + 1 : Offset(body, n) \in Nat
         /\ \A n \in 1 .. Len(body) + 1, m \in 1 .. Len(body) + 1 :
              m < n => Offset(body, m) < Offset(body, n)
<1>. DEFINE at(n) == Offset(body, n)
            N == Len(body)
            S == {n \in 1 .. N + 1 : at(n) \notin Nat}
<1>1. N \in Nat /\ \A n \in 1 .. N : body[n].len \in Nat \ {0}
  <2>1. ASSUME NEW n \in 1 .. N PROVE body[n].len \in Nat \ {0}
    <3>1. body[n] \in Instruction
      OBVIOUS
    <3>. QED
      BY <3>1 DEF Instruction
  <2>. QED
    BY <2>1
<1>2. at(1) = 0 /\ \A n \in 1 .. N : at(n + 1) = at(n) + body[n].len
  BY <1>1, OffsetNext
<1>. HIDE DEF at, N
<1>3. ASSUME NEW n \in S PROVE \E l \in S : l < n
  <2>1. n \in 1 .. N + 1 /\ n # 1
    BY <1>2
  <2>2. n - 1 \in 1 .. N /\ n - 1 \in 1 .. N + 1 /\ n - 1 < n /\ (n - 1) + 1 = n
    BY <1>1, <2>1
  <2>3. at(n) = at(n - 1) + body[n - 1].len
    BY <1>2, <2>2
  <2>4. at(n - 1) \notin Nat
    BY <1>1, <2>2, <2>3
  <2>. QED
    BY <2>2, <2>4
<1>4. S = {}
  <2>1. S \in SUBSET Nat
    BY <1>1
  <2>. HIDE DEF S
  <2>. QED
    BY <1>3, <2>1, NoneLeast
<1>5. \A n \in 1 .. N + 1 : at(n) \in Nat
  BY <1>4
<1>. DEFINE D == {n \in 1 .. N + 1 : \E m \in 1 .. N + 1 : m < n /\ ~(at(m) < at(n))}
<1>6. ASSUME NEW n \in D PROVE \E l \in D : l < n
  <2>1. PICK m \in 1 .. N + 1 : m < n /\ ~(at(m) < at(n))
    OBVIOUS
  <2>2. n - 1 \in 1 .. N /\ n - 1 \in 1 .. N + 1 /\ n - 1 < n /\ (n - 1) + 1 = n
    BY <1>1, <2>1
  <2>3. at(n) = at(n - 1) + body[n - 1].len
    BY <1>2, <2>2
  <2>4. at(m) \in Nat /\ at(n) \in Nat /\ at(n - 1) \in Nat /\ body[n - 1].len \in Nat \ {0}
    BY <1>1, <1>5, <2>2
  <2>5. m < n - 1 /\ ~(at(m) < at(n - 1))
    BY <2>1, <2>2, <2>3, <2>4
  <2>. QED
    BY <2>2, <2>5
<1>7. D = {}
  <2>1. D \in SUBSET Nat
    BY <1>1
  <2>. HIDE DEF D
  <2>. QED
    BY <1>6, <2>1, NoneLeast
<1>. QED
  BY <1>5, <1>7 DEF at, N

-------------------------------------------------------------------------------
(* The loop *)

Scans(body, m, f) ==
  f = [n \in 0 .. m |-> IF n = 0 THEN Start ELSE Relocate(f[n - 1], body[n])]

LEMMA ScansExist ==
  ASSUME NEW body, NEW n \in Nat
  PROVE  \E f : Scans(body, n, f)
<1>. DEFINE S == {m \in Nat : ~\E f : Scans(body, m, f)}
<1>1. ASSUME NEW m \in S PROVE \E l \in S : l < m
  <2>1. m # 0
    <3>1. Scans(body, 0, [l \in 0 .. 0 |-> Start])
      BY DEF Scans
    <3>. QED
      BY <3>1
  <2>2. m - 1 \in Nat /\ m - 1 < m
    BY <2>1
  <2>3. ASSUME NEW f, Scans(body, m - 1, f) PROVE FALSE
    <3>. DEFINE g == [k \in 0 .. m |-> IF k < m THEN f[k] ELSE Relocate(f[k - 1], body[k])]
    <3>1. ASSUME NEW k \in 0 .. m
          PROVE  g[k] = IF k = 0 THEN Start ELSE Relocate(g[k - 1], body[k])
      <4>1. CASE k < m
        <5>1. k \in 0 .. m - 1 /\ (k # 0 => k - 1 \in 0 .. m /\ k - 1 < m)
          BY <2>2, <4>1
        <5>2. f[k] = IF k = 0 THEN Start ELSE Relocate(f[k - 1], body[k])
          BY <2>3, <5>1 DEF Scans
        <5>. QED
          BY <4>1, <5>1, <5>2
      <4>2. CASE ~(k < m)
        <5>1. k = m /\ k # 0 /\ k - 1 \in 0 .. m /\ k - 1 < m
          BY <2>1, <2>2, <4>2
        <5>. QED
          BY <4>2, <5>1
      <4>. QED
        BY <4>1, <4>2
    <3>2. Scans(body, m, g)
      BY <3>1 DEF Scans
    <3>. QED
      BY <3>2
  <2>. QED
    BY <2>2, <2>3
<1>2. S = {}
  BY <1>1, NoneLeast
<1>. QED
  BY <1>2

LEMMA ScanIs ==
  ASSUME NEW body, Len(body) \in Nat
  PROVE  \E f : Scans(body, Len(body), f) /\ Scan(body) = f[Len(body)]
<1>. DEFINE f == CHOOSE f : Scans(body, Len(body), f)
<1>1. Scans(body, Len(body), f)
  BY ScansExist
<1>2. Scan(body) = f[Len(body)]
  BY DEF Scan, Scans
<1>. QED
  BY <1>1, <1>2

Size(body, k) == CopySize(Offset(body, k), body[k])

\* The state of the loop after at most n instructions, of which some are copied.
LoopState ==
  [old : Nat, new : Nat, dest : Nat, ips : Seq(Nat \X Nat), st : {"scan", "done", "failed"}]

\* The boundaries are those of the function and of the copies.
Recorded(body, n, s) ==
  /\ Len(s.ips) <= n /\ (s.st = "scan" => Len(s.ips) = n) /\ Len(s.ips) <= MAX_IPS
  /\ s.old = Offset(body, Len(s.ips) + 1)
  /\ \A k \in 1 .. Len(s.ips) :
       /\ s.ips[k][1] = Offset(body, k)
       /\ s.ips[k][2] + Size(body, k) =
            IF k = Len(s.ips) THEN s.new ELSE s.ips[k + 1][2]
       /\ s.ips[k][2] + Size(body, k) <= TRAMPOLINE_MAX_SIZE

\* A branch in the bytes that are overwritten.
Inner(body, k) == Offset(body, k) < JMP_REL /\ Internal(body[k])

\* dest is behind every such branch, and what such a branch jumps over is not
\* widened.
Reached(body, s) ==
  \A k \in 1 .. Len(s.ips) : Inner(body, k) =>
    /\ body[k].dest <= s.dest
    /\ \A j \in k .. Len(s.ips) : Offset(body, j) < body[k].dest => Size(body, j) = body[j].len

\* The loop has ended with the instruction it copied last.
Ended(body, s) ==
  s.st = "done" =>
    Len(s.ips) > 0 /\ Finishes(s.dest, Offset(body, Len(s.ips)), body[Len(s.ips)])

Scanned(body, n, s) ==
  s \in LoopState /\ Recorded(body, n, s) /\ Reached(body, s) /\ Ended(body, s)

LEMMA SizeIs ==
  ASSUME NEW old \in Nat, NEW i \in Instruction
  PROVE  CopySize(old, i) \in Nat \ {0}
BY DEF CopySize, Instruction, JMP_REL, JCC_REL

LEMMA JmpDestIs ==
  ASSUME NEW dest \in Nat, NEW old \in Nat, NEW i \in Instruction
  PROVE  /\ JmpDest(dest, old, i) \in Nat /\ dest <= JmpDest(dest, old, i)
         /\ old < JMP_REL /\ Internal(i) => i.dest <= JmpDest(dest, old, i)
BY DEF JmpDest, Instruction, JMP_REL

\* One turn of the loop.
LEMMA RelocateKeeps ==
  ASSUME NEW body \in Seq(Instruction), NEW n \in 1 .. Len(body), NEW s, Scanned(body, n - 1, s)
  PROVE  Scanned(body, n, Relocate(s, body[n]))
<1>. DEFINE i == body[n]
            t == Relocate(s, i)
            at(k) == Offset(body, k)
            L == Len(s.ips)
<1>1. /\ s \in LoopState /\ s.st \in {"scan", "done", "failed"} /\ s.old \in Nat /\ s.new \in Nat
      /\ s.dest \in Nat /\ s.ips \in Seq(Nat \X Nat) /\ L \in Nat
  BY DEF Scanned, LoopState
<1>2. n \in Nat /\ n > 0 /\ Len(body) \in Nat /\ i \in Instruction
  OBVIOUS
<1>3. CASE s.st # "scan"
  <2>1. t = s
    BY <1>3 DEF Relocate
  <2>2. Recorded(body, n, s)
    BY <1>1, <1>2, <1>3 DEF Scanned, Recorded
  <2>. QED
    BY <2>1, <2>2 DEF Scanned
<1>4. CASE s.st = "scan" /\ Unsupported(s, i)
  <2>1. t = [s EXCEPT !.st = "failed"]
    BY <1>4 DEF Relocate
  <2>2. /\ t \in LoopState /\ t.st = "failed" /\ t.old = s.old /\ t.new = s.new
        /\ t.dest = s.dest /\ t.ips = s.ips
    BY <1>1, <2>1 DEF LoopState
  <2>. HIDE DEF t
  <2>3. Recorded(body, n, t)
    <3>1. Recorded(body, n - 1, s)
      BY DEF Scanned
    <3>2. Len(t.ips) <= n /\ t.st # "scan"
      BY <1>1, <1>2, <2>2, <3>1 DEF Recorded
    <3>. QED
      BY <2>2, <3>1, <3>2 DEF Recorded
  <2>4. Reached(body, t) /\ Ended(body, t)
    BY <2>2 DEF Scanned, Reached, Ended
  <2>5. Scanned(body, n, t)
    BY <2>2, <2>3, <2>4 DEF Scanned
  <2>. QED
    BY <2>5 DEF t
<1>5. CASE s.st = "scan" /\ ~Unsupported(s, i)
  <2>. DEFINE dest == JmpDest(s.dest, s.old, i)
              size == CopySize(s.old, i)
  <2>1. /\ t.old = s.old + i.len /\ t.new = s.new + size /\ t.dest = dest
        /\ t.ips = Append(s.ips, <<s.old, s.new>>)
        /\ t.st = (IF Finishes(dest, s.old, i) THEN "done" ELSE "scan")
        /\ t = [old |-> t.old, new |-> t.new, dest |-> t.dest, ips |-> t.ips, st |-> t.st]
    BY <1>5, Zenon DEF Relocate
  <2>2. /\ L = n - 1 /\ s.old = at(n) /\ Size(body, n) = size
        /\ at(n + 1) = at(n) + i.len
    <3>1. L = n - 1 /\ s.old = at(n)
      BY <1>1, <1>2, <1>5 DEF Scanned, Recorded
    <3>. QED
      BY <1>2, <3>1, OffsetNext DEF Size
  <2>3. /\ size \in Nat \ {0} /\ dest \in Nat /\ s.dest <= dest /\ i.len \in Nat \ {0}
        /\ s.old < JMP_REL /\ Internal(i) => i.dest <= dest
    <3>1. i.len \in Nat \ {0}
      BY <1>2 DEF Instruction
    <3>. QED
      BY <1>1, <1>2, <3>1, SizeIs, JmpDestIs
  <2>4. s.new + size <= TRAMPOLINE_MAX_SIZE /\ ~(s.old < dest /\ size # i.len) /\ n <= MAX_IPS
    <3>1. s.new + size <= TRAMPOLINE_MAX_SIZE /\ ~(s.old < dest /\ size # i.len)
      BY <1>1, <1>5, <2>3 DEF Unsupported, TRAMPOLINE_MAX_SIZE
    <3>2. ~(L >= MAX_IPS)
      BY <1>5 DEF Unsupported
    <3>. QED
      BY <1>2, <2>2, <3>1, <3>2 DEF MAX_IPS
  <2>. HIDE DEF t, dest, size, i
  <2>5. /\ t.ips \in Seq(Nat \X Nat) /\ Len(t.ips) = n
        /\ \A k \in 1 .. n - 1 : t.ips[k] = s.ips[k]
        /\ t.ips[n] = <<s.old, s.new>>
    BY <1>1, <1>2, <2>1, <2>2
  <2>6. t \in LoopState
    <3>1. t.old \in Nat /\ t.new \in Nat /\ t.dest \in Nat
      <4>1. s.old + i.len \in Nat /\ s.new + size \in Nat
        <5>1. s.old \in Nat /\ s.new \in Nat
          BY <1>1
        <5>2. i.len \in Nat /\ size \in Nat
          BY <2>3
        <5>. QED
          BY <5>1, <5>2
      <4>2. t.old = s.old + i.len /\ t.new = s.new + size /\ t.dest = dest
        BY <2>1
      <4>. QED
        BY <2>3, <4>1, <4>2
    <3>2. t.st \in {"scan", "done", "failed"}
      BY <2>1
    <3>. QED
      BY <2>1, <2>5, <3>1, <3>2 DEF LoopState
  <2>7. Recorded(body, n, t)
    <3>1. ASSUME NEW k \in 1 .. n
          PROVE  /\ t.ips[k][1] = at(k)
                 /\ t.ips[k][2] + Size(body, k) = IF k = n THEN t.new ELSE t.ips[k + 1][2]
                 /\ t.ips[k][2] + Size(body, k) <= TRAMPOLINE_MAX_SIZE
      <4>1. CASE k = n
        BY <2>1, <2>2, <2>4, <2>5, <4>1
      <4>2. CASE k # n
        <5>1. k \in 1 .. L /\ k \in 1 .. n - 1
          BY <2>2, <4>2
        <5>2. /\ s.ips[k][1] = at(k)
              /\ s.ips[k][2] + Size(body, k) = IF k = L THEN s.new ELSE s.ips[k + 1][2]
              /\ s.ips[k][2] + Size(body, k) <= TRAMPOLINE_MAX_SIZE
          BY <5>1 DEF Scanned, Recorded
        <5>3. t.ips[k] = s.ips[k]
          BY <2>5, <5>1
        <5>4. (IF k = L THEN s.new ELSE s.ips[k + 1][2]) = t.ips[k + 1][2]
          <6>1. CASE k = L
            <7>1. k + 1 = n
              BY <1>2, <2>2, <6>1
            <7>2. t.ips[n][2] = s.new
              BY <2>5
            <7>. QED
              BY <6>1, <7>1, <7>2
          <6>2. CASE k # L
            <7>1. k + 1 \in 1 .. n - 1
              BY <1>2, <2>2, <5>1, <6>2
            <7>. QED
              BY <2>5, <6>2, <7>1
          <6>. QED
            BY <6>1, <6>2
        <5>. QED
          BY <4>2, <5>2, <5>3, <5>4
      <4>. QED
        BY <4>1, <4>2
    <3>2. t.old = at(n + 1) /\ Len(t.ips) = n /\ n <= n /\ n <= MAX_IPS
      BY <1>2, <2>1, <2>2, <2>4, <2>5
    <3>. QED
      BY <3>1, <3>2 DEF Recorded
  <2>8. Reached(body, t)
    <3>1. ASSUME NEW k \in 1 .. n, Inner(body, k)
          PROVE  /\ body[k].dest <= t.dest
                 /\ \A j \in k .. n : at(j) < body[k].dest => Size(body, j) = body[j].len
      <4>1. body[k].dest \in Nat
        <5>1. body[k] \in Instruction
          OBVIOUS
        <5>. QED
          BY <5>1 DEF Instruction
      <4>2. body[k].dest <= dest
        <5>1. CASE k = n
          BY <2>2, <2>3, <3>1, <5>1 DEF Inner, i
        <5>2. CASE k # n
          <6>1. k \in 1 .. L
            BY <2>2, <5>2
          <6>2. body[k].dest <= s.dest
            BY <3>1, <6>1 DEF Scanned, Reached
          <6>. QED
            BY <1>1, <2>3, <4>1, <6>2
        <5>. QED
          BY <5>1, <5>2
      <4>3. ASSUME NEW j \in k .. n, at(j) < body[k].dest PROVE Size(body, j) = body[j].len
        <5>1. CASE j = n
          <6>1. s.old < dest
            BY <1>1, <2>2, <2>3, <4>1, <4>2, <4>3, <5>1
          <6>. QED
            BY <2>2, <2>4, <5>1, <6>1 DEF i
        <5>2. CASE j # n
          <6>1. k \in 1 .. L /\ j \in k .. L
            BY <1>2, <2>2, <5>2
          <6>. QED
            BY <3>1, <4>3, <6>1 DEF Scanned, Reached
        <5>. QED
          BY <5>1, <5>2
      <4>. QED
        BY <2>1, <4>2, <4>3
    <3>. QED
      BY <2>5, <3>1 DEF Reached
  <2>9. Ended(body, t)
    BY <1>2, <2>1, <2>2, <2>5 DEF Ended, i
  <2>. QED
    BY <2>6, <2>7, <2>8, <2>9 DEF Scanned, t, i
<1>. QED
  BY <1>1, <1>3, <1>4, <1>5

LEMMA ScanIsScanned ==
  ASSUME NEW body \in Seq(Instruction)
  PROVE  Scanned(body, Len(body), Scan(body))
<1>1. Len(body) \in Nat
  OBVIOUS
<1>2. PICK f : Scans(body, Len(body), f) /\ Scan(body) = f[Len(body)]
  BY <1>1, ScanIs
<1>. DEFINE S == {n \in 0 .. Len(body) : ~Scanned(body, n, f[n])}
<1>3. ASSUME NEW n \in S PROVE \E l \in S : l < n
  <2>1. n # 0
    <3>1. f[0] = Start
      BY <1>1, <1>2 DEF Scans
    <3>2. Start \in LoopState /\ Len(Start.ips) = 0 /\ Start.old = 0 /\ Start.st = "scan"
      BY DEF Start, LoopState
    <3>3. Offset(body, 1) = 0
      BY OffsetNext
    <3>4. Recorded(body, 0, Start)
      BY <3>2, <3>3 DEF Recorded, MAX_IPS
    <3>5. Reached(body, Start) /\ Ended(body, Start)
      BY <3>2 DEF Reached, Ended
    <3>6. Scanned(body, 0, f[0])
      BY <3>1, <3>2, <3>4, <3>5 DEF Scanned
    <3>. QED
      BY <3>6
  <2>2. n \in 1 .. Len(body) /\ n - 1 \in 0 .. Len(body) /\ n - 1 < n
    BY <1>1, <2>1
  <2>3. f[n] = Relocate(f[n - 1], body[n])
    BY <1>2, <2>2 DEF Scans
  <2>4. ~Scanned(body, n - 1, f[n - 1])
    BY <2>2, <2>3, RelocateKeeps
  <2>. QED
    BY <2>2, <2>4
<1>4. S = {}
  <2>1. S \in SUBSET Nat
    BY <1>1
  <2>. HIDE DEF S
  <2>. QED
    BY <1>3, <2>1, NoneLeast
<1>5. Len(body) \in 0 .. Len(body)
  BY <1>1
<1>. QED
  BY <1>2, <1>4, <1>5

-------------------------------------------------------------------------------
(* What a trampoline promises *)

\* A trampoline that was made is the result of a loop that ended.
LEMMA MadeByTheLoop ==
  ASSUME NEW c \in FunctionCode, CreateTrampolineFunction(c).ok
  PROVE  /\ CreateTrampolineFunction(c).ips = Scan(c.body).ips
         /\ c.body \in Seq(Instruction) /\ Len(c.body) \in Nat
         /\ Scanned(c.body, Len(c.body), Scan(c.body))
         /\ Scan(c.body).st = "done"
         /\ Scan(c.body).ips \in Seq(Nat \X Nat) /\ Scan(c.body).dest \in Nat
         /\ Len(Scan(c.body).ips) \in 1 .. Len(c.body) /\ Len(Scan(c.body).ips) <= MAX_IPS
<1>. DEFINE s == Scan(c.body)
            t == CreateTrampolineFunction(c)
<1>1. s.st = "done" /\ t.ips = s.ips
  BY Zenon DEF CreateTrampolineFunction
<1>2. c.body \in Seq(Instruction) /\ Len(c.body) \in Nat
  BY DEF FunctionCode
<1>3. Scanned(c.body, Len(c.body), s)
  BY <1>2, ScanIsScanned
<1>. HIDE DEF s, t
<1>4. s.ips \in Seq(Nat \X Nat) /\ s.dest \in Nat /\ Len(s.ips) <= Len(c.body) /\ Len(s.ips) > 0
  BY <1>1, <1>3 DEF Scanned, LoopState, Recorded, Ended
<1>5. Len(s.ips) \in 1 .. Len(c.body)
  BY <1>2, <1>4
<1>6. Len(s.ips) <= MAX_IPS
  BY <1>3 DEF Scanned, Recorded
<1>. QED
  BY <1>1, <1>2, <1>3, <1>4, <1>5, <1>6 DEF s, t

\* Its boundaries are those of the first instructions and of their copies.
LEMMA BoundariesAre ==
  ASSUME NEW c \in FunctionCode, CreateTrampolineFunction(c).ok
  PROVE  LET ips == CreateTrampolineFunction(c).ips IN
         /\ ips \in Seq(Nat \X Nat) /\ Len(ips) \in 1 .. Len(c.body) /\ DOMAIN ips = 1 .. Len(ips)
         /\ \A n \in DOMAIN ips :
              /\ n \in DOMAIN c.body
              /\ ips[n][1] = Offset(c.body, n) /\ ips[n][1] \in Nat /\ ips[n][2] \in Nat
              /\ Size(c.body, n) \in Nat \ {0}
              /\ n + 1 \in DOMAIN ips => ips[n + 1][2] = ips[n][2] + Size(c.body, n)
              /\ ips[n][2] + Size(c.body, n) <= TRAMPOLINE_MAX_SIZE
<1>. DEFINE s == Scan(c.body)
            ips == CreateTrampolineFunction(c).ips
<1>1. /\ ips = s.ips /\ ips \in Seq(Nat \X Nat) /\ Len(ips) \in 1 .. Len(c.body)
      /\ DOMAIN ips = 1 .. Len(ips) /\ Len(ips) \in Nat /\ c.body \in Seq(Instruction)
      /\ Len(c.body) \in Nat /\ DOMAIN c.body = 1 .. Len(c.body)
  BY MadeByTheLoop
<1>2. Recorded(c.body, Len(c.body), s)
  BY MadeByTheLoop DEF Scanned
<1>. HIDE DEF s, ips
<1>3. ASSUME NEW n \in 1 .. Len(ips)
      PROVE  /\ n \in DOMAIN c.body
             /\ ips[n][1] = Offset(c.body, n) /\ ips[n][1] \in Nat /\ ips[n][2] \in Nat
             /\ Size(c.body, n) \in Nat \ {0}
             /\ n + 1 \in 1 .. Len(ips) => ips[n + 1][2] = ips[n][2] + Size(c.body, n)
             /\ ips[n][2] + Size(c.body, n) <= TRAMPOLINE_MAX_SIZE
  <2>1. /\ ips[n][1] = Offset(c.body, n)
        /\ ips[n][2] + Size(c.body, n) = IF n = Len(ips) THEN s.new ELSE ips[n + 1][2]
        /\ ips[n][2] + Size(c.body, n) <= TRAMPOLINE_MAX_SIZE
    BY <1>1, <1>2 DEF Recorded
  <2>2. n \in DOMAIN c.body /\ c.body[n] \in Instruction
    BY <1>1
  <2>3. ips[n] \in Nat \X Nat
    BY <1>1
  <2>4. ips[n][1] \in Nat /\ ips[n][2] \in Nat
    BY <2>3
  <2>5. Size(c.body, n) \in Nat \ {0}
    BY <2>1, <2>2, <2>4, SizeIs DEF Size
  <2>6. n + 1 \in 1 .. Len(ips) => n # Len(ips)
    BY <1>1
  <2>. QED
    BY <2>1, <2>2, <2>4, <2>5, <2>6
<1>. QED
  BY <1>1, <1>3 DEF ips

\* The instruction behind a copied one is copied too, unless execution does not
\* reach it or the bytes of the jump have ended.
LEMMA NextIsCopied ==
  ASSUME NEW c \in FunctionCode, CreateTrampolineFunction(c).ok,
         NEW n \in DOMAIN CreateTrampolineFunction(c).ips, Offset(c.body, n) < JMP_REL,
         c.body[n].kind # "ret", c.body[n].kind # "jmp" \/ Internal(c.body[n])
  PROVE  n + 1 \in DOMAIN CreateTrampolineFunction(c).ips
<1>. DEFINE s == Scan(c.body)
            ips == CreateTrampolineFunction(c).ips
<1>1. ips = s.ips /\ s.st = "done" /\ Ended(c.body, s)
  BY MadeByTheLoop DEF Scanned
<1>2. DOMAIN ips = 1 .. Len(ips) /\ Len(ips) \in Nat /\ ips[n][1] \in Nat /\ ips[n][1] = Offset(c.body, n)
  BY BoundariesAre
<1>3. n # Len(ips)
  <2>1. SUFFICES ASSUME n = Len(s.ips) PROVE FALSE
    BY <1>1
  <2>2. Finishes(s.dest, Offset(c.body, n), c.body[n])
    BY <1>1, <2>1 DEF Ended
  <2>3. ~(Offset(c.body, n) >= JMP_REL)
    BY <1>2 DEF JMP_REL
  <2>. QED
    BY <2>2, <2>3 DEF Finishes
<1>. QED
  BY <1>2, <1>3

\* What a copied branch leads to is copied.
LEMMA DestIsCopied ==
  ASSUME NEW c \in FunctionCode, CreateTrampolineFunction(c).ok,
         NEW n \in DOMAIN CreateTrampolineFunction(c).ips, Inner(c.body, n),
         NEW m \in DOMAIN c.body, Offset(c.body, m) = c.body[n].dest
  PROVE  m \in DOMAIN CreateTrampolineFunction(c).ips
<1>. DEFINE s == Scan(c.body)
            ips == CreateTrampolineFunction(c).ips
            L == Len(ips)
            at(k) == Offset(c.body, k)
<1>1. ips = s.ips /\ s.st = "done" /\ Ended(c.body, s) /\ Reached(c.body, s) /\ s.dest \in Nat
  BY MadeByTheLoop DEF Scanned
<1>2. /\ DOMAIN ips = 1 .. L /\ L \in 1 .. Len(c.body)
      /\ Len(c.body) \in Nat /\ DOMAIN c.body = 1 .. Len(c.body) /\ c.body \in Seq(Instruction)
  BY BoundariesAre, MadeByTheLoop
<1>3. /\ \A k \in 1 .. Len(c.body) : at(k) \in Nat
      /\ \A k \in 1 .. Len(c.body), l \in 1 .. Len(c.body) : l < k => at(l) < at(k)
  <2>1. \A k \in 1 .. Len(c.body) : k \in 1 .. Len(c.body) + 1
    BY <1>2
  <2>. QED
    BY <1>2, <2>1, OffsetsGrow
<1>4. c.body[n].dest <= s.dest /\ c.body[n].dest < JMP_REL
  BY <1>1, <1>2 DEF Reached, Inner, Internal, JMP_REL
<1>5. at(L) >= JMP_REL \/ at(L) >= s.dest
  BY <1>1 DEF Ended, Finishes
<1>. HIDE DEF s, ips, at
<1>6. at(m) <= at(L)
  <2>1. at(m) \in Nat /\ at(L) \in Nat /\ at(m) <= s.dest /\ at(m) < JMP_REL
    BY <1>2, <1>3, <1>4 DEF at
  <2>. QED
    BY <1>1, <1>5, <2>1 DEF JMP_REL
<1>7. ~(L < m)
  BY <1>2, <1>3, <1>6
<1>. QED
  BY <1>2, <1>7 DEF ips, L

\* Copies of instructions that were not widened are as far apart as the
\* instructions.
LEMMA SameDistance ==
  ASSUME NEW c \in FunctionCode, CreateTrampolineFunction(c).ok,
         NEW m \in DOMAIN CreateTrampolineFunction(c).ips,
         NEW n \in DOMAIN CreateTrampolineFunction(c).ips, m <= n,
         \A j \in m .. n - 1 : Size(c.body, j) = c.body[j].len
  PROVE  LET ips == CreateTrampolineFunction(c).ips
         IN  ips[n][2] - ips[m][2] = ips[n][1] - ips[m][1]
<1>. DEFINE ips == CreateTrampolineFunction(c).ips
            S == {k \in m .. n : ~(ips[k][2] - ips[m][2] = ips[k][1] - ips[m][1])}
<1>1. /\ DOMAIN ips = 1 .. Len(ips) /\ Len(ips) \in Nat
      /\ \A k \in DOMAIN ips :
           /\ ips[k][1] = Offset(c.body, k) /\ ips[k][1] \in Nat /\ ips[k][2] \in Nat
           /\ Size(c.body, k) \in Nat \ {0}
           /\ k + 1 \in DOMAIN ips => ips[k + 1][2] = ips[k][2] + Size(c.body, k)
  <2>1. DOMAIN ips = 1 .. Len(ips) /\ Len(ips) \in 1 .. Len(c.body)
    BY BoundariesAre
  <2>2. Len(ips) \in Nat
    BY <2>1, MadeByTheLoop
  <2>3. ASSUME NEW k \in DOMAIN ips
        PROVE  /\ ips[k][1] = Offset(c.body, k) /\ ips[k][1] \in Nat /\ ips[k][2] \in Nat
               /\ Size(c.body, k) \in Nat \ {0}
               /\ k + 1 \in DOMAIN ips => ips[k + 1][2] = ips[k][2] + Size(c.body, k)
    BY BoundariesAre
  <2>. QED
    BY <2>1, <2>2, <2>3
<1>. HIDE DEF ips
<1>2. /\ m \in DOMAIN ips /\ n \in DOMAIN ips /\ m \in Nat /\ n \in Nat /\ m .. n \subseteq DOMAIN ips
      /\ m \in m .. n /\ n \in m .. n
  <2>1. m \in DOMAIN ips /\ n \in DOMAIN ips
    BY DEF ips
  <2>. QED
    BY <1>1, <2>1
<1>3. ASSUME NEW k \in S PROVE \E l \in S : l < k
  <2>1. k # m
    BY <1>1, <1>2
  <2>2. k - 1 \in m .. n /\ k - 1 \in m .. n - 1 /\ k - 1 \in DOMAIN ips /\ (k - 1) + 1 = k /\ k - 1 < k
        /\ k \in DOMAIN ips
    BY <1>2, <2>1
  <2>3. ips[k][2] = ips[k - 1][2] + c.body[k - 1].len
    BY <1>1, <2>2
  <2>4. ips[k][1] = ips[k - 1][1] + c.body[k - 1].len
    <3>1. k - 1 \in Nat \ {0}
      BY <1>1, <2>2
    <3>2. Offset(c.body, (k - 1) + 1) = Offset(c.body, k - 1) + c.body[k - 1].len
      BY <3>1, OffsetNext
    <3>. QED
      BY <1>1, <2>2, <3>2
  <2>5. c.body[k - 1].len \in Nat
    BY <1>1, <2>2
  <2>6. ~(ips[k - 1][2] - ips[m][2] = ips[k - 1][1] - ips[m][1])
    <3>1. /\ ips[k - 1][2] \in Nat /\ ips[m][2] \in Nat /\ ips[k - 1][1] \in Nat /\ ips[m][1] \in Nat
          /\ ~(ips[k][2] - ips[m][2] = ips[k][1] - ips[m][1])
      BY <1>1, <1>2, <2>2
    <3>. QED
      BY <2>3, <2>4, <2>5, <3>1
  <2>. QED
    BY <2>2, <2>6
<1>4. S = {}
  <2>1. S \in SUBSET Nat
    BY <1>2
  <2>. HIDE DEF S
  <2>. QED
    BY <1>3, <2>1, NoneLeast
<1>. QED
  BY <1>2, <1>4 DEF ips

LEMMA FollowsTheFunction ==
  ASSUME NEW c \in FunctionCode, WellFormed(c), CreateTrampolineFunction(c).ok
  PROVE  Follows(CreateTrampolineFunction(c), c)
<1>. DEFINE t == CreateTrampolineFunction(c)
            ips == t.ips
            body == c.body
<1>1. SUFFICES ASSUME NEW n \in DOMAIN ips, ips[n][1] < JMP_REL,
                      ~(Internal(body[n]) /\ WidenedBehind(t, c, n)),
                      NEW p \in FollowsIn(t, c, n, CopySize(ips[n][1], body[n]))
               PROVE  \E k \in DOMAIN ips : ips[k] = p
  BY DEF Follows
<1>2. /\ DOMAIN ips = 1 .. Len(ips) /\ Len(ips) \in Nat /\ ips \in Seq(Nat \X Nat)
      /\ body \in Seq(Instruction) /\ Len(body) \in Nat /\ DOMAIN body = 1 .. Len(body)
  BY BoundariesAre, MadeByTheLoop
<1>3. ASSUME NEW k \in DOMAIN ips
      PROVE  /\ k \in DOMAIN body /\ k \in Nat \ {0}
             /\ ips[k][1] = Offset(body, k) /\ ips[k][1] \in Nat /\ ips[k][2] \in Nat
             /\ Size(body, k) = CopySize(ips[k][1], body[k])
             /\ k + 1 \in DOMAIN ips => /\ ips[k + 1][2] = ips[k][2] + Size(body, k)
                                       /\ ips[k + 1][1] = ips[k][1] + body[k].len
             /\ ips[k] = <<ips[k][1], ips[k][2]>>
  <2>1. /\ k \in DOMAIN body
        /\ ips[k][1] = Offset(body, k) /\ ips[k][1] \in Nat /\ ips[k][2] \in Nat
        /\ k + 1 \in DOMAIN ips => ips[k + 1][2] = ips[k][2] + Size(body, k)
    BY BoundariesAre
  <2>2. Size(body, k) = CopySize(ips[k][1], body[k])
    BY <2>1 DEF Size
  <2>3. k \in Nat \ {0}
    BY <1>2
  <2>4. k + 1 \in DOMAIN ips => ips[k + 1][1] = ips[k][1] + body[k].len
    <3>1. Offset(body, k + 1) = Offset(body, k) + body[k].len
      BY <2>3, OffsetNext
    <3>2. k + 1 \in DOMAIN ips => ips[k + 1][1] = Offset(body, k + 1)
      BY BoundariesAre
    <3>. QED
      BY <2>1, <3>1, <3>2
  <2>5. ips[k] \in Nat \X Nat
    BY <1>2
  <2>6. ips[k] = <<ips[k][1], ips[k][2]>>
    BY <2>5
  <2>. QED
    BY <2>1, <2>2, <2>3, <2>4, <2>6
<1>4. CASE body[n].kind \notin {"ret", "jmp"}
           /\ p = <<ips[n][1] + body[n].len, ips[n][2] + CopySize(ips[n][1], body[n])>>
  <2>1. n + 1 \in DOMAIN ips
    BY <1>1, <1>3, <1>4, NextIsCopied
  <2>2. ips[n + 1] = p
    BY <1>3, <1>4, <2>1
  <2>. QED
    BY <2>1, <2>2
<1>5. CASE Internal(body[n]) /\ p = <<body[n].dest, ips[n][2] + (body[n].dest - ips[n][1])>>
  <2>1. PICK m \in DOMAIN body : Offset(body, m) = body[n].dest
    BY <1>3, <1>5 DEF WellFormed
  <2>2. Inner(body, n)
    BY <1>1, <1>3, <1>5 DEF Inner
  <2>3. m \in DOMAIN ips
    BY <2>1, <2>2, DestIsCopied
  <2>4. /\ ips[m][1] = body[n].dest /\ ips[m][1] \in Nat /\ ips[m][2] \in Nat
        /\ ips[n][1] \in Nat /\ ips[n][2] \in Nat /\ m \in Nat /\ n \in Nat
    BY <1>3, <2>1, <2>3
  <2>. DEFINE L == Len(ips)
  <2>5. /\ L \in Nat /\ n \in 1 .. L /\ m \in 1 .. L /\ \A j \in 1 .. L : j \in DOMAIN ips
        /\ \A j \in 1 .. L : j \in 1 .. Len(body) + 1
    <3>1. L \in 1 .. Len(body)
      BY BoundariesAre
    <3>2. L \in Nat /\ n \in 1 .. L /\ m \in 1 .. L /\ \A j \in 1 .. L : j \in DOMAIN ips
      BY <1>2, <2>3
    <3>3. \A j \in 1 .. L : j \in 1 .. Len(body) + 1
      <4>. HIDE DEF L
      <4>. QED
        BY <1>2, <3>1
    <3>. QED
      BY <3>2, <3>3
  <2>. HIDE DEF L
  <2>6. ips[m][2] - ips[n][2] = ips[m][1] - ips[n][1]
    <3>1. CASE m <= n
      <4>1. \A j \in m .. n - 1 : Size(body, j) = body[j].len
        <5>1. ASSUME NEW j \in m .. n - 1 PROVE Size(body, j) = body[j].len
          <6>1. j \in 1 .. n - 1 /\ j \in 1 .. L /\ m <= j
            BY <2>5
          <6>2. body[n].dest <= ips[j][1]
            <7>1. m \in 1 .. Len(body) + 1 /\ j \in 1 .. Len(body) + 1 /\ (m = j \/ m < j)
              BY <2>5, <6>1
            <7>2. m = j \/ Offset(body, m) < Offset(body, j)
              BY <1>2, <7>1, OffsetsGrow
            <7>3. ips[j][1] = Offset(body, j) /\ ips[j][1] \in Nat
              BY <1>3, <2>5, <6>1
            <7>. QED
              BY <2>1, <2>4, <7>2, <7>3
          <6>3. CopySize(ips[j][1], body[j]) = body[j].len
            BY <1>1, <1>5, <6>1, <6>2 DEF WidenedBehind
          <6>4. Size(body, j) = CopySize(ips[j][1], body[j])
            BY <1>3, <2>5, <6>1
          <6>. QED
            BY <6>3, <6>4
        <5>. QED
          BY <5>1
      <4>2. ips[n][2] - ips[m][2] = ips[n][1] - ips[m][1]
        BY <2>3, <3>1, <4>1, SameDistance
      <4>. QED
        BY <2>4, <4>2
    <3>2. CASE n <= m
      <4>1. \A j \in n .. m - 1 : Size(body, j) = body[j].len
        <5>1. ASSUME NEW j \in n .. m - 1 PROVE Size(body, j) = body[j].len
          <6>1. j \in n .. L /\ j \in 1 .. L /\ j < m
            BY <2>5
          <6>2. Offset(body, j) < body[n].dest
            <7>1. m \in 1 .. Len(body) + 1 /\ j \in 1 .. Len(body) + 1
              BY <2>5, <6>1
            <7>2. Offset(body, j) < Offset(body, m)
              BY <1>2, <6>1, <7>1, OffsetsGrow
            <7>. QED
              BY <2>1, <7>2
          <6>3. Reached(body, Scan(body)) /\ ips = Scan(body).ips
            BY MadeByTheLoop DEF Scanned
          <6>. QED
            BY <2>2, <2>5, <6>1, <6>2, <6>3 DEF Reached, L
        <5>. QED
          BY <5>1
      <4>. QED
        BY <2>3, <3>2, <4>1, SameDistance
    <3>. QED
      BY <2>4, <3>1, <3>2
  <2>7. ips[m] = p
    <3>1. ips[m][2] = ips[n][2] + (body[n].dest - ips[n][1])
      BY <2>4, <2>6
    <3>. QED
      BY <1>3, <1>5, <2>3, <2>4, <3>1
  <2>. QED
    BY <2>3, <2>7
<1>. QED
  BY <1>1, <1>4, <1>5 DEF FollowsIn

LEMMA CoversThePatch ==
  ASSUME NEW c \in FunctionCode, CreateTrampolineFunction(c).ok
  PROVE  CoversPatch(CreateTrampolineFunction(c), c)
<1>. DEFINE t == CreateTrampolineFunction(c)
            ips == t.ips
            body == c.body
            s == Scan(body)
            size == IF t.patchAbove THEN JMP_REL_SHORT ELSE JMP_REL
            L == Len(ips)
            at(k) == Offset(body, k)
<1>1. SUFFICES ASSUME NEW n \in DOMAIN body, at(n) < size, body[n].kind # "pad"
               PROVE  at(n) \in OldIPs(t)
  BY DEF CoversPatch
<1>2. /\ DOMAIN ips = 1 .. L /\ L \in 1 .. Len(body) /\ ips = s.ips
      /\ body \in Seq(Instruction) /\ Len(body) \in Nat /\ DOMAIN body = 1 .. Len(body)
      /\ s.old = at(L + 1)
  BY BoundariesAre, MadeByTheLoop DEF Scanned, Recorded
<1>3. /\ \A k \in 1 .. Len(body) + 1 : at(k) \in Nat
      /\ \A k \in 1 .. Len(body) + 1, l \in 1 .. Len(body) + 1 : l < k => at(l) < at(k)
  BY <1>2, OffsetsGrow
<1>4. CASE n <= L
  <2>1. n \in DOMAIN ips
    BY <1>2, <1>4
  <2>2. ips[n][1] = at(n)
    BY <2>1, BoundariesAre
  <2>. QED
    BY <2>1, <2>2 DEF OldIPs
<1>5. CASE ~(n <= L)
  <2>1. RoomFor(size, body, s.old)
    BY DEF CreateTrampolineFunction
  <2>2. s.old \in Nat /\ s.old <= at(n) /\ size \in Nat /\ at(n) \in Nat
    <3>1. L + 1 \in 1 .. Len(body) + 1 /\ n \in 1 .. Len(body) + 1 /\ (L + 1 = n \/ L + 1 < n)
      BY <1>2, <1>5
    <3>2. at(L + 1) \in Nat /\ at(n) \in Nat /\ (L + 1 = n \/ at(L + 1) < at(n))
      BY <1>3, <3>1
    <3>3. size \in Nat
      BY DEF JMP_REL, JMP_REL_SHORT
    <3>. QED
      BY <1>2, <3>2, <3>3
  <2>. HIDE DEF size, s, at
  <2>3. IsCodePadding(body, s.old, size - 1) /\ at(n) \in s.old .. size - 1
    BY <1>1, <2>1, <2>2 DEF RoomFor
  <2>4. PICK m \in DOMAIN body :
          body[m].kind = "pad" /\ at(n) \in at(m) .. at(m) + body[m].len - 1
    BY <2>3, Zenon DEF IsCodePadding, at
  <2>5. /\ m \in 1 .. Len(body) /\ m + 1 \in 1 .. Len(body) + 1 /\ at(m) \in Nat
        /\ at(m + 1) = at(m) + body[m].len /\ body[m].len \in Nat
    <3>1. m \in 1 .. Len(body) /\ m + 1 \in 1 .. Len(body) + 1 /\ m \in 1 .. Len(body) + 1 /\ m \in Nat \ {0}
      BY <1>2
    <3>2. at(m + 1) = at(m) + body[m].len
      BY <3>1, OffsetNext DEF at
    <3>3. body[m] \in Instruction
      BY <1>2
    <3>. QED
      BY <1>3, <3>1, <3>2, <3>3 DEF Instruction
  <2>6. at(m) <= at(n) /\ at(n) < at(m + 1)
    BY <2>2, <2>4, <2>5
  <2>7. n \in 1 .. Len(body) + 1 /\ m \in 1 .. Len(body) + 1 /\ n \in Nat /\ m \in Nat
    BY <1>2
  <2>8. ~(n < m) /\ ~(m + 1 < n) /\ n # m + 1
    BY <1>3, <2>2, <2>5, <2>6, <2>7
  <2>9. n = m
    BY <2>7, <2>8
  <2>. QED
    BY <1>1, <2>4, <2>9
<1>. QED
  BY <1>2, <1>4, <1>5

\* The promise of CreateTrampolineFunction for the code of any function whose
\* branches lead to instructions: the trampoline goes through the same
\* instructions, records their boundaries and those of their copies, records
\* every boundary in the bytes that the jump overwrites, and stays in its slot and
\* in its eight boundaries.
THEOREM TrampolineIsSound == \A c \in FunctionCode : WellFormed(c) => Sound(c)
<1>1. SUFFICES ASSUME NEW c \in FunctionCode, WellFormed(c), CreateTrampolineFunction(c).ok
               PROVE  LET t == CreateTrampolineFunction(c) IN
                      /\ Follows(t, c) /\ CoversPatch(t, c)
                      /\ \A n \in DOMAIN t.ips : t.ips[n][1] = Offset(c.body, n)
                      /\ t.ips[Len(t.ips)][2] + CopySize(t.ips[Len(t.ips)][1], c.body[Len(t.ips)])
                           <= TRAMPOLINE_MAX_SIZE
                      /\ Len(t.ips) <= MAX_IPS
  BY DEF Sound
<1>. DEFINE ips == CreateTrampolineFunction(c).ips
            L == Len(ips)
<1>2. \A n \in DOMAIN ips : ips[n][1] = Offset(c.body, n)
  BY <1>1, BoundariesAre
<1>3. ips[L][2] + CopySize(ips[L][1], c.body[L]) <= TRAMPOLINE_MAX_SIZE
  <2>1. DOMAIN ips = 1 .. L /\ L \in 1 .. Len(c.body) /\ Len(c.body) \in Nat
    BY <1>1, BoundariesAre, MadeByTheLoop
  <2>2. L \in DOMAIN ips
    BY <2>1
  <2>3. ips[L][1] = Offset(c.body, L) /\ ips[L][2] + Size(c.body, L) <= TRAMPOLINE_MAX_SIZE
    BY <1>1, <2>2, BoundariesAre
  <2>. QED
    BY <2>3 DEF Size
<1>4. Follows(CreateTrampolineFunction(c), c)
  BY <1>1, FollowsTheFunction
<1>5. CoversPatch(CreateTrampolineFunction(c), c)
  BY <1>1, CoversThePatch
<1>6. L <= MAX_IPS
  BY <1>1, MadeByTheLoop
<1>. QED
  BY <1>2, <1>3, <1>4, <1>5, <1>6
================================================================================
