--------------------------- MODULE FrameStream_proofs ---------------------------
(***************************************************************************)
(* Framing, for any number of writers and frames, any sizes and any width  *)
(* of the length prefix: as long as no two WriteFrame calls overlap and    *)
(* every payload fits its prefix, the reader gets whole frames in order    *)
(* and does not fail before the connection breaks.                         *)
(*                                                                         *)
(* The stream is described by where each frame begins in it, counted from  *)
(* the next byte to be read, and not as a concatenation of frames: every   *)
(* step then moves or extends the positions, and nothing is by induction.  *)
(***************************************************************************)
EXTENDS FrameStream, SequenceTheorems, TLAPS

\* The j-th byte of frame f, its prefix first.
ByteAt(f, j) ==
  IF j <= 2 THEN [frame |-> f, part |-> "prefix", i |-> j]
            ELSE [frame |-> f, part |-> "payload", i |-> j - 2]

\* A writer stands between its two writes; without overlap, one only, and with
\* the frame begun last.
Writing == \E w \in Writers : job[w] # 0
OneWriter ==
  ~overlapped =>
    \A v, w \in Writers : job[v] # 0 => job[v] = Len(size) /\ (job[w] # 0 => v = w)

Last == Len(size)
Reached == Len(got) + 1     \* the frame being read

\* start[f] is where frame f begins, start[Last + 1] where the next one will.
Starts(start) ==
  /\ start \in [1 .. Last + 1 -> Int]
  /\ \A f \in 1 .. Last : start[f + 1] = start[f] + 2 + size[f]
  /\ \A f, h \in 1 .. Last + 1 : f <= h => start[f] <= start[h]

Layout(start) ==
  /\ \A f \in 1 .. Last : \A j \in 1 .. 2 + size[f] :
       start[f] + j \in 1 .. Len(stream) => stream[start[f] + j] = ByteAt(f, j)
  /\ Writing => Len(stream) <= start[Last] + 2 /\ (~cut => Len(stream) = start[Last] + 2)
  /\ ~Writing => Len(stream) <= start[Last + 1] /\ (~cut => Len(stream) = start[Last + 1])

\* The reader is at the beginning of a frame, or behind the prefix of one.
InStep(start) ==
  /\ Reached \in 1 .. Last + 1
  /\ reading = "prefix" => start[Reached] = 0
  /\ reading = "payload" => Reached <= Last /\ start[Reached] = -2 /\ need = size[Reached]

ReaderInv == Clean /\ reading # "failed" => \E start : Starts(start) /\ Layout(start) /\ InStep(start)

\* Whoever writes, and whatever is under way, belongs to a frame begun.
Begun ==
  /\ \A w \in Writers : job[w] <= Last
  /\ \A k \in 1 .. Len(stream) : stream[k].frame <= Last

TypeInv == TypeOK /\ Begun /\ (reading = "payload" => need > 0)
IInv == TypeInv /\ OneWriter /\ ReaderInv /\ CleanFramesIntact /\ CleanReaderLives

-------------------------------------------------------------------------------
(* Bytes and types *)

LEMMA Sized ==
  ASSUME FrameAssumption, TypeOK
  PROVE  /\ Last \in Nat /\ Len(got) \in Nat /\ Len(stream) \in Nat /\ need \in Nat
         /\ LenMod \in Nat /\ LenMod > 1
         /\ \A f \in 1 .. Last : f \in Frames /\ size[f] \in Sizes /\ size[f] \in Nat \ {0}
         /\ \A k \in 1 .. Len(stream) : stream[k] \in Byte
<1>1. /\ size \in Seq(Sizes) /\ Len(size) <= MaxFrames /\ got \in Seq(Frames \cup {0})
      /\ stream \in Seq(Byte) /\ need \in 0 .. (LenMod - 1)
      /\ Sizes \subseteq Nat \ {0} /\ LenMod \in Nat \ {0, 1} /\ MaxFrames \in Nat
  BY DEF TypeOK, FrameAssumption
<1>2. /\ Len(size) \in Nat /\ size \in [1 .. Len(size) -> Sizes]
      /\ Len(got) \in Nat /\ Len(stream) \in Nat /\ stream \in [1 .. Len(stream) -> Byte]
  BY <1>1, LenProperties
<1>3. \A f \in 1 .. Len(size) : f \in 1 .. MaxFrames /\ size[f] \in Sizes BY <1>1, <1>2
<1>4. LenMod > 1 BY <1>1
<1>5. \A f \in 1 .. Len(size) : size[f] \in Nat \ {0} BY <1>1, <1>3
<1>6. \A k \in 1 .. Len(stream) : stream[k] \in Byte BY <1>2
<1>7. need \in Nat BY <1>1
<1> QED BY <1>1, <1>2, <1>3, <1>4, <1>5, <1>6, <1>7 DEF Last, Frames

LEMMA BytesAre ==
  ASSUME NEW f \in Frames, NEW part \in {"prefix", "payload"}, NEW n \in Nat
  PROVE  /\ Bytes(f, part, n) \in Seq(Byte) /\ Len(Bytes(f, part, n)) = n
         /\ \A k \in 1 .. n : Bytes(f, part, n)[k] = [frame |-> f, part |-> part, i |-> k]
<1>1. Bytes(f, part, n) \in [1 .. n -> Byte] BY DEF Bytes, Byte
<1>2. Bytes(f, part, n) \in Seq(Byte) BY <1>1
<1>3. Len(Bytes(f, part, n)) = n BY <1>1
<1> QED BY <1>2, <1>3 DEF Bytes

\* What is left of the stream once n bytes are read.
LEMMA RestIs ==
  ASSUME FrameAssumption, TypeOK, NEW n \in Nat, n <= Len(stream)
  PROVE  /\ Rest(n) \in Seq(Byte) /\ Len(Rest(n)) = Len(stream) - n
         /\ \A k \in 1 .. Len(stream) - n : Rest(n)[k] = stream[n + k]
<1>1. Len(stream) \in Nat /\ \A k \in 1 .. Len(stream) : stream[k] \in Byte BY Sized
<1>2. \A k \in n + 1 .. Len(stream) : stream[k] \in Byte BY <1>1
<1>3. /\ Rest(n) \in Seq(Byte)
      /\ Len(Rest(n)) = IF n + 1 <= Len(stream) THEN Len(stream) - (n + 1) + 1 ELSE 0
      /\ \A k \in 1 .. Len(stream) - (n + 1) + 1 : Rest(n)[k] = stream[n + 1 + k - 1]
  BY <1>1, <1>2, SubSeqProperties DEF Rest
<1> QED BY <1>1, <1>3

\* The next n bytes of the stream.
LEMMA TakeIs ==
  ASSUME FrameAssumption, TypeOK, NEW n \in Nat, n <= Len(stream)
  PROVE  /\ SubSeq(stream, 1, n) \in Seq(Byte) /\ Len(SubSeq(stream, 1, n)) = n
         /\ \A k \in 1 .. n : SubSeq(stream, 1, n)[k] = stream[k]
<1>1. Len(stream) \in Nat /\ \A k \in 1 .. Len(stream) : stream[k] \in Byte BY Sized
<1>2. \A k \in 1 .. n : stream[k] \in Byte BY <1>1
<1>3. /\ SubSeq(stream, 1, n) \in Seq(Byte)
      /\ Len(SubSeq(stream, 1, n)) = IF 1 <= n THEN n - 1 + 1 ELSE 0
      /\ \A k \in 1 .. n - 1 + 1 : SubSeq(stream, 1, n)[k] = stream[1 + k - 1]
  BY <1>2, SubSeqProperties
<1> QED BY <1>3

\* A prefix that is read gives a length its field can hold.
LEMMA LengthsAre ==
  ASSUME FrameAssumption, TypeOK, Begun, Len(stream) >= 2
  PROVE  Lengths(Take(2)) \subseteq 0 .. (LenMod - 1)
<1> DEFINE b == Take(2)
<1>1. b = SubSeq(stream, 1, 2) /\ Len(stream) \in Nat /\ LenMod \in Nat /\ LenMod > 1
  BY Sized DEF Take
<1>2. b \in Seq(Byte) /\ Len(b) = 2 /\ b[1] = stream[1]
  <2>1. 2 \in Nat /\ 2 <= Len(stream) /\ 1 \in 1 .. 2 BY <1>1
  <2> QED BY <2>1, TakeIs DEF Take
<1>3. b[1].frame \in 1 .. Last
  <2>1. stream[1] \in Byte /\ stream[1].frame <= Last BY <1>1, Sized DEF Begun
  <2> QED BY <1>2, <2>1 DEF Byte, Frames
<1>4. size[b[1].frame] \in Nat BY <1>3, Sized
<1> SUFFICES Lengths(b) \subseteq 0 .. (LenMod - 1) OBVIOUS
<1> HIDE DEF b
<1>5. CASE b = Prefix(b[1].frame)
  <2>1. Lengths(b) = {size[b[1].frame] % LenMod} BY <1>5 DEF Lengths
  <2>2. size[b[1].frame] % LenMod \in 0 .. (LenMod - 1) BY <1>1, <1>4
  <2> QED BY <2>1, <2>2
<1>6. CASE b # Prefix(b[1].frame) BY <1>6 DEF Lengths
<1> QED BY <1>5, <1>6

\* What each kind of step does to the types.
LEMMA TypeStep ==
  ASSUME FrameAssumption, TypeInv, [Next]_vars
  PROVE  TypeInv'
<1> USE FrameAssumption
<1>1. /\ Last \in Nat /\ Len(got) \in Nat /\ Len(stream) \in Nat /\ need \in Nat
      /\ \A f \in 1 .. Last : f \in Frames /\ size[f] \in Sizes /\ size[f] \in Nat \ {0}
      /\ \A k \in 1 .. Len(stream) : stream[k] \in Byte
      /\ MaxFrames \in Nat
  BY Sized DEF TypeInv, FrameAssumption
<1>2. /\ size \in Seq(Sizes) /\ Len(size) <= MaxFrames /\ job \in [Writers -> Frames \cup {0}]
      /\ stream \in Seq(Byte) /\ cut \in BOOLEAN /\ reading \in {"prefix", "payload", "failed"}
      /\ need \in 0 .. (LenMod - 1) /\ got \in Seq(Frames \cup {0}) /\ overlapped \in BOOLEAN
      /\ \A w \in Writers : job[w] <= Last
      /\ \A k \in 1 .. Len(stream) : stream[k].frame <= Last
      /\ reading = "payload" => need > 0
  BY DEF TypeInv, TypeOK, Begun
<1>3. ASSUME NEW w \in Writers, WritePrefix(w) PROVE TypeInv'
  <2> DEFINE f == Len(size) + 1
  <2>1. PICK n \in Sizes : size' = Append(size, n) BY <1>3 DEF WritePrefix
  <2>2. f <= MaxFrames /\ job' = [job EXCEPT ![w] = f] /\ stream' = stream \o Prefix(f)
        /\ overlapped' \in BOOLEAN
        /\ cut' = cut /\ reading' = reading /\ need' = need /\ got' = got
    BY <1>3, <1>2 DEF WritePrefix, readVars
  <2>3. f \in Frames BY <1>1, <2>2 DEF Frames, Last
  <2>4. /\ Prefix(f) \in Seq(Byte) /\ Len(Prefix(f)) = 2
        /\ \A k \in 1 .. 2 : Prefix(f)[k] = [frame |-> f, part |-> "prefix", i |-> k]
    <3> HIDE DEF f
    <3>1. 2 \in Nat /\ "prefix" \in {"prefix", "payload"} OBVIOUS
    <3> QED BY <2>3, <3>1, BytesAre DEF Prefix
  <2>5. size' \in Seq(Sizes) /\ Len(size') = f BY <1>2, <2>1, AppendProperties
  <2>6. /\ stream' \in Seq(Byte) /\ Len(stream') = Len(stream) + 2
        /\ \A k \in 1 .. Len(stream) + 2 :
             stream'[k] = IF k <= Len(stream) THEN stream[k] ELSE Prefix(f)[k - Len(stream)]
    <3> HIDE DEF f
    <3>0. stream \in Seq(Byte) /\ Prefix(f) \in Seq(Byte) BY <1>2, <2>4
    <3>1. /\ stream \o Prefix(f) \in Seq(Byte)
          /\ Len(stream \o Prefix(f)) = Len(stream) + Len(Prefix(f))
          /\ \A k \in 1 .. Len(stream) + Len(Prefix(f)) :
               (stream \o Prefix(f))[k] = IF k <= Len(stream) THEN stream[k] ELSE Prefix(f)[k - Len(stream)]
      BY <3>0, ConcatProperties
    <3> QED BY <2>2, <2>4, <3>1
  <2>7. Last' = f /\ Last < f BY <1>1, <2>5 DEF Last
  <2>8. \A v \in Writers : job'[v] \in Frames \cup {0} /\ job'[v] <= f
    BY <1>1, <1>2, <2>2, <2>3, <2>7 DEF Frames
  <2>9. \A k \in 1 .. Len(stream') : stream'[k].frame <= f
    <3> SUFFICES ASSUME NEW k \in 1 .. Len(stream') PROVE stream'[k].frame <= f OBVIOUS
    <3>1. CASE k <= Len(stream)
      <4>1. stream'[k] = stream[k] /\ stream[k] \in Byte /\ stream[k].frame <= Last
        BY <1>1, <1>2, <2>6, <3>1
      <4>2. stream[k].frame \in Nat BY <4>1 DEF Byte, Frames
      <4> QED BY <1>1, <2>7, <4>1, <4>2
    <3>2. CASE ~(k <= Len(stream))
      <4>1. k - Len(stream) \in 1 .. 2 BY <1>1, <2>6, <3>2
      <4>2. stream'[k].frame = f BY <2>4, <2>6, <3>2, <4>1
      <4> QED BY <1>1, <2>7, <4>2
    <3> QED BY <3>1, <3>2
  <2> HIDE DEF f
  <2>10. job' \in [Writers -> Frames \cup {0}] BY <1>2, <2>2, <2>3
  <2>11. TypeOK' BY <1>2, <2>2, <2>5, <2>6, <2>10 DEF TypeOK
  <2> QED BY <1>2, <2>2, <2>7, <2>8, <2>9, <2>11 DEF TypeInv, Begun
<1>4. ASSUME NEW w \in Writers, WritePayload(w) PROVE TypeInv'
  <2>1. job[w] # 0 /\ job' = [job EXCEPT ![w] = 0]
        /\ stream' = (IF cut THEN stream ELSE stream \o Payload(job[w]))
        /\ size' = size /\ cut' = cut /\ overlapped' = overlapped
        /\ reading' = reading /\ need' = need /\ got' = got
    BY <1>4 DEF WritePayload, readVars
  <2>2. job[w] \in 1 .. Last /\ job[w] \in Frames BY <1>1, <1>2, <2>1 DEF Frames
  <2>3. /\ Payload(job[w]) \in Seq(Byte) /\ Len(Payload(job[w])) = size[job[w]]
        /\ \A k \in 1 .. size[job[w]] :
             Payload(job[w])[k] = [frame |-> job[w], part |-> "payload", i |-> k]
    <3>1. size[job[w]] \in Nat BY <1>1, <2>2
    <3> QED BY <2>2, <3>1, BytesAre DEF Payload
  <2>4. stream' \in Seq(Byte) /\ \A k \in 1 .. Len(stream') : stream'[k].frame <= Last
    <3>1. CASE cut BY <1>2, <2>1, <3>1
    <3>2. CASE ~cut
      <4>1. /\ stream' \in Seq(Byte) /\ Len(stream') = Len(stream) + size[job[w]]
            /\ \A k \in 1 .. Len(stream) + size[job[w]] :
                 stream'[k] = IF k <= Len(stream) THEN stream[k] ELSE Payload(job[w])[k - Len(stream)]
        BY <1>2, <2>1, <2>3, <3>2, ConcatProperties
      <4>2. size[job[w]] \in Nat BY <1>1, <2>2
      <4>3. ASSUME NEW k \in 1 .. Len(stream') PROVE stream'[k].frame <= Last
        <5>1. CASE k <= Len(stream)
          <6>1. k \in 1 .. Len(stream) /\ k \in 1 .. Len(stream) + size[job[w]]
            BY <1>1, <4>1, <4>2, <5>1
          <6>2. stream'[k] = stream[k] BY <4>1, <5>1, <6>1
          <6> QED BY <1>2, <6>1, <6>2
        <5>2. CASE ~(k <= Len(stream))
          <6>1. k - Len(stream) \in 1 .. size[job[w]] BY <1>1, <4>1, <4>2, <5>2
          <6>2. PICK j \in 1 .. size[job[w]] : j = k - Len(stream) BY <6>1
          <6>3. stream'[k] = Payload(job[w])[j] BY <1>1, <4>1, <4>2, <5>2, <6>2
          <6>4. Payload(job[w])[j] = [frame |-> job[w], part |-> "payload", i |-> j] BY <2>3
          <6>5. stream'[k].frame = job[w] BY <6>3, <6>4
          <6> QED BY <2>2, <6>5
        <5> QED BY <5>1, <5>2
      <4> QED BY <4>1, <4>3
    <3> QED BY <3>1, <3>2
  <2>5. job' \in [Writers -> Frames \cup {0}] /\ \A v \in Writers : job'[v] <= Last
    BY <1>1, <1>2, <2>1
  <2>6. Last' = Last BY <2>1 DEF Last
  <2>7. TypeOK' BY <1>2, <2>1, <2>4, <2>5 DEF TypeOK
  <2> QED BY <1>2, <2>1, <2>4, <2>5, <2>6, <2>7 DEF TypeInv, Begun
<1>5. CASE Cut
  <2>1. PICK k \in 0 .. Len(stream) : stream' = SubSeq(stream, 1, k) BY <1>5 DEF Cut
  <2>2. cut' = TRUE /\ size' = size /\ job' = job /\ overlapped' = overlapped
        /\ reading' = reading /\ need' = need /\ got' = got
    BY <1>5 DEF Cut, writeVars, readVars
  <2>3. k \in Nat /\ k <= Len(stream) BY <1>1
  <2>4. stream' \in Seq(Byte) /\ Len(stream') = k /\ \A j \in 1 .. k : stream'[j] = stream[j]
    BY <2>1, <2>3, TakeIs DEF TypeInv
  <2>5. \A j \in 1 .. Len(stream') : stream'[j].frame <= Last BY <1>1, <1>2, <2>3, <2>4
  <2>6. Last' = Last BY <2>2 DEF Last
  <2>7. TypeOK' BY <1>2, <2>2, <2>4 DEF TypeOK
  <2> QED BY <1>2, <2>2, <2>5, <2>6, <2>7 DEF TypeInv, Begun
<1>6. ASSUME NEW n \in Nat, n <= Len(stream), stream' = Rest(n), size' = size, job' = job
      PROVE  stream' \in Seq(Byte) /\ Begun'
  <2>1. stream' \in Seq(Byte) /\ Len(stream') = Len(stream) - n
        /\ \A k \in 1 .. Len(stream) - n : stream'[k] = stream[n + k]
    BY <1>6, RestIs DEF TypeInv
  <2>2. \A k \in 1 .. Len(stream') : stream'[k].frame <= Last BY <1>1, <1>2, <2>1
  <2> QED BY <1>2, <1>6, <2>1, <2>2 DEF Begun, Last
<1>7. CASE ReadLength
  <2>1. /\ Len(stream) >= 2 /\ need' \in Lengths(Take(2)) /\ stream' = Rest(2)
        /\ reading' = (IF need' = 0 THEN "failed" ELSE "payload")
        /\ size' = size /\ job' = job /\ overlapped' = overlapped /\ cut' = cut /\ got' = got
    BY <1>7 DEF ReadLength, writeVars
  <2>2. need' \in 0 .. (LenMod - 1) BY <2>1, LengthsAre DEF TypeInv
  <2>3. stream' \in Seq(Byte) /\ Begun' BY <1>1, <1>6, <2>1
  <2>4. reading' = "payload" => need' > 0 BY <2>1, <2>2
  <2>5. reading' \in {"failed", "payload"} BY <2>1
  <2>6. TypeOK' BY <1>2, <2>1, <2>2, <2>3, <2>5 DEF TypeOK
  <2> QED BY <2>3, <2>4, <2>6 DEF TypeInv
<1>8. CASE ReadBody
  <2> DEFINE x == IF \E f \in 1 .. Len(size) : Take(need) = Payload(f) THEN stream[1].frame ELSE 0
  <2>1. /\ Len(stream) >= need /\ reading = "payload" /\ reading' = "prefix" /\ stream' = Rest(need)
        /\ got' = Append(got, x)
        /\ size' = size /\ job' = job /\ overlapped' = overlapped /\ cut' = cut /\ need' = need
    BY <1>8 DEF ReadBody, writeVars
  <2>2. stream' \in Seq(Byte) /\ Begun' BY <1>1, <1>6, <2>1
  <2>3. x \in Frames \cup {0}
    <3>1. 1 \in 1 .. Len(stream) BY <1>1, <1>2, <2>1
    <3>2. stream[1].frame \in Frames BY <1>1, <3>1 DEF Byte
    <3> QED BY <3>2
  <2> HIDE DEF x
  <2>4. got' \in Seq(Frames \cup {0}) BY <1>2, <2>1, <2>3, AppendProperties
  <2>5. TypeOK' BY <1>2, <2>1, <2>2, <2>4 DEF TypeOK
  <2> QED BY <2>1, <2>2, <2>5 DEF TypeInv
<1>9. CASE ReadEOF
  BY <1>2, <1>9 DEF ReadEOF, writeVars, TypeInv, TypeOK, Begun, Last
<1>10. CASE UNCHANGED vars
  BY <1>2, <1>10 DEF vars, TypeInv, TypeOK, Begun, Last
<1> QED BY <1>3, <1>4, <1>5, <1>7, <1>8, <1>9, <1>10 DEF Next, Reader
-------------------------------------------------------------------------------
(* Writers *)

\* Frames end before those behind them begin.
LEMMA Behind ==
  ASSUME FrameAssumption, TypeOK, NEW start, Starts(start), NEW f \in 1 .. Last,
         NEW j \in 1 .. 2 + size[f]
  PROVE  /\ start[f] + j \in Int
         /\ \A h \in f + 1 .. Last + 1 : start[f] + j <= start[h]
<1>1. Last \in Nat /\ size[f] \in Nat BY Sized
<1>2. f + 1 \in 1 .. Last + 1 /\ f \in 1 .. Last + 1 BY <1>1
<1>3. start[f] \in Int /\ start[f + 1] \in Int /\ start[f + 1] = start[f] + 2 + size[f]
  BY <1>2 DEF Starts
<1>4. start[f] + j <= start[f + 1] BY <1>1, <1>3
<1>5. ASSUME NEW h \in f + 1 .. Last + 1 PROVE start[f + 1] <= start[h] /\ start[h] \in Int
  <2>1. h \in 1 .. Last + 1 /\ f + 1 <= h BY <1>1
  <2> QED BY <1>2, <2>1 DEF Starts
<1> QED BY <1>1, <1>3, <1>4, <1>5

\* A frame is begun at the end of the stream.
LEMMA PrefixStays ==
  ASSUME FrameAssumption, TypeInv, OneWriter, Clean, NEW start, Starts(start), Layout(start),
         InStep(start), NEW w \in Writers, WritePrefix(w), Clean'
  PROVE  \E new : Starts(new)' /\ Layout(new)' /\ InStep(new)'
<1> DEFINE f == Last + 1
<1>1. /\ Last \in Nat /\ Len(got) \in Nat /\ Len(stream) \in Nat
      /\ \A g \in 1 .. Last : size[g] \in Nat \ {0}
  BY Sized DEF TypeInv
<1>2. /\ size \in Seq(Sizes) /\ stream \in Seq(Byte) /\ job \in [Writers -> Frames \cup {0}]
      /\ overlapped \in BOOLEAN
  BY DEF TypeInv, TypeOK
<1>3. PICK n \in Sizes : size' = Append(size, n) BY DEF WritePrefix
<1>4. /\ f <= MaxFrames /\ job' = [job EXCEPT ![w] = f] /\ stream' = stream \o Prefix(f)
      /\ overlapped' = (overlapped \/ \E v \in Writers : job[v] # 0) /\ ~cut
      /\ cut' = cut /\ reading' = reading /\ need' = need /\ got' = got
  BY DEF WritePrefix, readVars, Last
<1>5. n \in Nat \ {0} /\ f \in Frames BY <1>1, <1>4 DEF FrameAssumption, Frames
<1>6. /\ Last' = f /\ Reached' = Reached
      /\ \A g \in 1 .. Last : size'[g] = size[g]
      /\ size'[f] = n
  BY <1>1, <1>2, <1>3, <1>4, AppendProperties DEF Last, Reached
<1>7. /\ Prefix(f) \in Seq(Byte) /\ Len(Prefix(f)) = 2
      /\ \A k \in 1 .. 2 : Prefix(f)[k] = [frame |-> f, part |-> "prefix", i |-> k]
  <2> HIDE DEF f
  <2>1. 2 \in Nat /\ "prefix" \in {"prefix", "payload"} OBVIOUS
  <2> QED BY <1>5, <2>1, BytesAre DEF Prefix
<1>8. /\ Len(stream') = Len(stream) + 2
      /\ \A k \in 1 .. Len(stream) : stream'[k] = stream[k]
      /\ \A k \in 1 .. 2 : stream'[Len(stream) + k] = ByteAt(f, k)
  <2> HIDE DEF f
  <2>1. stream \in Seq(Byte) /\ Prefix(f) \in Seq(Byte) BY <1>2, <1>7
  <2>2. /\ Len(stream \o Prefix(f)) = Len(stream) + Len(Prefix(f))
        /\ \A k \in 1 .. Len(stream) + Len(Prefix(f)) :
             (stream \o Prefix(f))[k] = IF k <= Len(stream) THEN stream[k] ELSE Prefix(f)[k - Len(stream)]
    BY <2>1, ConcatProperties
  <2>3. ASSUME NEW k \in 1 .. 2 PROVE stream'[Len(stream) + k] = ByteAt(f, k)
    <3>1. Len(stream) + k \in 1 .. Len(stream) + Len(Prefix(f)) /\ ~(Len(stream) + k <= Len(stream))
          /\ Len(stream) + k - Len(stream) = k
      BY <1>1, <1>7
    <3>2. stream'[Len(stream) + k] = Prefix(f)[k] BY <1>4, <2>2, <3>1
    <3> QED BY <1>7, <3>2 DEF ByteAt
  <2> QED BY <1>1, <1>4, <1>7, <2>2, <2>3
<1>9. ~Writing BY <1>4 DEF Clean, Writing
<1>10. Writing'
  <2>1. job'[w] # 0 BY <1>1, <1>2, <1>4
  <2> QED BY <2>1 DEF Writing
<1>11. Len(stream) = start[f] BY <1>4, <1>9 DEF Layout
<1>n. PICK new : new = [g \in 1 .. f + 1 |-> IF g <= f THEN start[g] ELSE start[f] + 2 + n]
  OBVIOUS
<1>12. /\ new \in [1 .. f + 1 -> Int] /\ new[f + 1] = start[f] + 2 + n
       /\ \A g \in 1 .. f : new[g] = start[g] /\ new[g] \in Int /\ start[g] <= start[f]
  <2>1. start \in [1 .. f -> Int] /\ f \in 1 .. f /\ f \in Nat BY <1>1 DEF Starts
  <2>2. start[f] + 2 + n \in Int BY <1>5, <2>1
  <2>3. \A g \in 1 .. f : start[g] <= start[f] BY <1>1, <2>1 DEF Starts
  <2>4. new[f + 1] = start[f] + 2 + n BY <1>n, <2>1
  <2>5. \A g \in 1 .. f : new[g] = start[g] /\ start[g] \in Int BY <1>n, <2>1
  <2>6. new \in [1 .. f + 1 -> Int] BY <1>n, <2>1, <2>2
  <2> QED BY <2>3, <2>4, <2>5, <2>6
<1>13. Starts(new)'
  <2>1. ASSUME NEW g \in 1 .. f PROVE new[g + 1] = new[g] + 2 + size'[g]
    <3>1. CASE g = f BY <1>1, <1>6, <1>12, <3>1
    <3>2. CASE g # f
      <4>1. g \in 1 .. Last /\ g + 1 \in 1 .. f BY <1>1, <3>2
      <4> QED BY <1>6, <1>12, <4>1 DEF Starts
    <3> QED BY <3>1, <3>2
  <2>2. ASSUME NEW g \in 1 .. f + 1, NEW h \in 1 .. f + 1, g <= h PROVE new[g] <= new[h]
    <3>1. CASE h \in 1 .. f
      <4>1. g \in 1 .. f BY <1>1, <2>2, <3>1
      <4>2. start[g] <= start[h] BY <2>2, <3>1, <4>1 DEF Starts
      <4> QED BY <1>12, <3>1, <4>1, <4>2
    <3>2. CASE h = f + 1 /\ g \in 1 .. f
      <4>1. f \in 1 .. f /\ start[f] \in Int BY <1>1, <1>12
      <4> QED BY <1>5, <1>12, <3>2, <4>1
    <3>3. CASE h = f + 1 /\ g = f + 1
      <4>1. new[h] \in Int BY <1>12
      <4> QED BY <3>3, <4>1
    <3> QED BY <1>1, <3>1, <3>2, <3>3, <2>2
  <2> QED BY <1>6, <1>12, <2>1, <2>2 DEF Starts
<1>14. ASSUME NEW g \in 1 .. f, NEW j \in 1 .. 2 + size'[g], new[g] + j \in 1 .. Len(stream')
       PROVE  stream'[new[g] + j] = ByteAt(g, j)
  <2>1. CASE g = f
    <3>1. new[g] = Len(stream) BY <1>1, <1>11, <1>12, <2>1
    <3>2. new[g] + j = Len(stream) + j BY <3>1
    <3>3. j \in Int /\ 1 <= j BY <1>5, <1>6, <2>1
    <3>4. Len(stream) + j <= Len(stream) + 2 BY <1>8, <1>14, <3>2
    <3>5. j \in 1 .. 2 BY <1>1, <3>3, <3>4
    <3> QED BY <1>8, <2>1, <3>2, <3>5
  <2>2. CASE g # f
    <3>1. g \in 1 .. Last /\ j \in 1 .. 2 + size[g] /\ new[g] = start[g] BY <1>1, <1>6, <1>12, <2>2
    <3>2. start[g] + j \in Int /\ start[g] + j <= start[f]
      <4>1. f \in g + 1 .. Last + 1 BY <1>1, <3>1
      <4> QED BY <3>1, <4>1, Behind DEF TypeInv
    <3>3. start[g] + j \in 1 .. Len(stream) BY <1>1, <1>11, <1>14, <3>1, <3>2
    <3> QED BY <1>8, <3>1, <3>3 DEF Layout
  <2> QED BY <2>1, <2>2
<1>15. Layout(new)'
  <2>1. new[f] = start[f] BY <1>1, <1>12
  <2>2. Len(stream') = new[Last'] + 2 BY <1>6, <1>8, <1>11, <2>1
  <2>3. Len(stream') <= new[Last'] + 2 BY <1>1, <1>8, <2>2
  <2>4. \A g \in 1 .. Last' : \A j \in 1 .. 2 + size'[g] :
          new[g] + j \in 1 .. Len(stream') => stream'[new[g] + j] = ByteAt(g, j)'
    BY <1>6, <1>14 DEF ByteAt
  <2> QED BY <1>10, <2>2, <2>3, <2>4 DEF Layout
<1>16. InStep(new)'
  <2>1. Reached \in 1 .. f /\ new[Reached] = start[Reached] BY <1>12 DEF InStep
  <2>2. Reached \in 1 .. f + 1 /\ (Reached <= Last => Reached <= f /\ size'[Reached] = size[Reached])
    BY <1>1, <1>6, <2>1
  <2> QED BY <1>4, <1>6, <2>1, <2>2 DEF InStep
<1> QED BY <1>13, <1>15, <1>16

\* A payload is written behind its prefix; on a connection that has broken,
\* nothing is.
LEMMA PayloadStays ==
  ASSUME FrameAssumption, TypeInv, OneWriter, Clean, NEW start, Starts(start), Layout(start),
         InStep(start), NEW w \in Writers, WritePayload(w)
  PROVE  Starts(start)' /\ Layout(start)' /\ InStep(start)'
<1>1. /\ Last \in Nat /\ Len(got) \in Nat /\ Len(stream) \in Nat
      /\ \A g \in 1 .. Last : g \in Frames /\ size[g] \in Nat \ {0}
  BY Sized DEF TypeInv
<1>2. /\ stream \in Seq(Byte) /\ job \in [Writers -> Frames \cup {0}] /\ cut \in BOOLEAN
      /\ \A v \in Writers : job[v] <= Last
  BY DEF TypeInv, TypeOK, Begun
<1>3. /\ job[w] # 0 /\ job' = [job EXCEPT ![w] = 0]
      /\ stream' = (IF cut THEN stream ELSE stream \o Payload(job[w]))
      /\ size' = size /\ cut' = cut /\ overlapped' = overlapped
      /\ reading' = reading /\ need' = need /\ got' = got
  BY DEF WritePayload, readVars
<1>4. job[w] = Last /\ Last \in 1 .. Last /\ \A v \in Writers : job[v] # 0 => v = w
  <2>1. \A v \in Writers : job[w] = Last /\ (job[v] # 0 => w = v)
    BY <1>3 DEF OneWriter, Clean, Last
  <2>2. job[w] \in Nat BY <1>2 DEF Frames
  <2> QED BY <1>1, <1>3, <2>1, <2>2
<1>5. Writing /\ ~Writing' BY <1>2, <1>3, <1>4 DEF Writing
<1>6. Last' = Last /\ Reached' = Reached BY <1>3 DEF Last, Reached
<1>7. Starts(start)' BY <1>3, <1>6 DEF Starts
<1>8. InStep(start)' BY <1>3, <1>6 DEF InStep
<1>9. /\ start[Last + 1] = start[Last] + 2 + size[Last]
      /\ start[Last] \in Int /\ start[Last + 1] \in Int /\ size[Last] \in Nat \ {0}
  BY <1>1, <1>4 DEF Starts
<1>10. Len(stream) <= start[Last] + 2 /\ (~cut => Len(stream) = start[Last] + 2)
  BY <1>5 DEF Layout
<1>11. CASE cut
  <2>1. stream' = stream /\ Len(stream) <= start[Last + 1] BY <1>1, <1>3, <1>9, <1>10, <1>11
  <2> QED BY <1>3, <1>5, <1>6, <1>7, <1>8, <1>11, <2>1 DEF Layout, ByteAt
<1>12. CASE ~cut
  <2>1. /\ Payload(Last) \in Seq(Byte) /\ Len(Payload(Last)) = size[Last]
        /\ \A k \in 1 .. size[Last] :
             Payload(Last)[k] = [frame |-> Last, part |-> "payload", i |-> k]
    <3>1. Last \in Frames /\ size[Last] \in Nat /\ "payload" \in {"prefix", "payload"} BY <1>1, <1>4
    <3> QED BY <3>1, BytesAre DEF Payload
  <2>2. stream \in Seq(Byte) /\ Payload(Last) \in Seq(Byte) BY <1>2, <2>1
  <2>3. /\ Len(stream \o Payload(Last)) = Len(stream) + Len(Payload(Last))
        /\ \A k \in 1 .. Len(stream) + Len(Payload(Last)) :
             (stream \o Payload(Last))[k] =
               IF k <= Len(stream) THEN stream[k] ELSE Payload(Last)[k - Len(stream)]
    BY <2>2, ConcatProperties
  <2>4. stream' = stream \o Payload(Last) BY <1>3, <1>4, <1>12
  <2>5. Len(stream') = start[Last + 1] BY <1>1, <1>9, <1>10, <1>12, <2>1, <2>3, <2>4
  <2>6. ASSUME NEW g \in 1 .. Last, NEW j \in 1 .. 2 + size[g], start[g] + j \in 1 .. Len(stream')
        PROVE  stream'[start[g] + j] = ByteAt(g, j)
    <3>1. CASE start[g] + j <= Len(stream)
      <4>1. start[g] + j \in 1 .. Len(stream) BY <1>1, <2>6, <3>1
      <4>2. stream[start[g] + j] = ByteAt(g, j) BY <4>1 DEF Layout
      <4>3. stream'[start[g] + j] = stream[start[g] + j]
        BY <1>1, <1>9, <2>1, <2>3, <2>4, <3>1, <4>1
      <4> QED BY <4>2, <4>3
    <3>2. CASE ~(start[g] + j <= Len(stream))
      <4>1. g = Last
        <5>1. ASSUME g # Last PROVE FALSE
          <6>1. Last \in g + 1 .. Last + 1 BY <1>1, <5>1
          <6>2. start[g] + j <= start[Last] /\ start[g] + j \in Int BY <6>1, Behind DEF TypeInv
          <6> QED BY <1>1, <1>9, <1>10, <1>12, <3>2, <6>2
        <5> QED BY <5>1
      <4>2. PICK k \in 1 .. size[Last] : k = j - 2 /\ (start[g] + j) - Len(stream) = k
        <5>1. Len(stream) = start[Last] + 2 /\ j \in 1 .. 2 + size[Last] /\ start[g] = start[Last]
          BY <1>10, <1>12, <4>1
        <5>2. j > 2 BY <1>1, <1>9, <3>2, <5>1
        <5>3. j - 2 \in 1 .. size[Last] BY <1>1, <1>9, <5>1, <5>2
        <5>4. j \in Int /\ start[Last] \in Int BY <1>9, <5>1
        <5>5. (start[Last] + j) - (start[Last] + 2) = j - 2 BY <5>4
        <5> QED BY <5>1, <5>3, <5>5
      <4>3. stream'[start[g] + j] = Payload(Last)[k]
        <5>1. PICK p : p = start[g] + j OBVIOUS
        <5>2. p \in 1 .. Len(stream) + Len(Payload(Last)) /\ ~(p <= Len(stream)) /\ p - Len(stream) = k
          <6>1. Len(stream') = Len(stream) + Len(Payload(Last)) BY <2>3, <2>4
          <6>2. p \in 1 .. Len(stream') BY <2>6, <5>1
          <6>3. ~(p <= Len(stream)) BY <3>2, <5>1
          <6>4. p - Len(stream) = k BY <4>2, <5>1
          <6> QED BY <6>1, <6>2, <6>3, <6>4
        <5>3. stream'[p] = Payload(Last)[p - Len(stream)] BY <2>3, <2>4, <5>2
        <5> QED BY <5>1, <5>2, <5>3
      <4>4. Payload(Last)[k] = [frame |-> Last, part |-> "payload", i |-> k] BY <2>1
      <4>5. ~(j <= 2) BY <1>9, <4>2
      <4> QED BY <4>1, <4>2, <4>3, <4>4, <4>5 DEF ByteAt
    <3> QED BY <3>1, <3>2
  <2>7. Layout(start)'
    <3>1. Len(stream') <= start[Last + 1] BY <1>1, <1>9, <2>5
    <3>2. \A g \in 1 .. Last' : \A j \in 1 .. 2 + size'[g] :
            start[g] + j \in 1 .. Len(stream') => stream'[start[g] + j] = ByteAt(g, j)'
      BY <1>3, <1>6, <2>6 DEF ByteAt
    <3> QED BY <1>5, <1>6, <2>5, <3>1, <3>2 DEF Layout
  <2> QED BY <1>7, <1>8, <2>7
<1> QED BY <1>2, <1>11, <1>12

\* The connection breaks: what is left is in its place.
LEMMA CutStays ==
  ASSUME FrameAssumption, TypeInv, NEW start, Starts(start), Layout(start), InStep(start), Cut
  PROVE  Starts(start)' /\ Layout(start)' /\ InStep(start)'
<1>1. /\ Last \in Nat /\ Len(stream) \in Nat /\ \A g \in 1 .. Last : size[g] \in Nat
  BY Sized DEF TypeInv
<1>2. PICK n \in 0 .. Len(stream) : stream' = SubSeq(stream, 1, n) BY DEF Cut
<1>3. /\ ~cut /\ cut' = TRUE /\ size' = size /\ job' = job /\ overlapped' = overlapped
      /\ reading' = reading /\ need' = need /\ got' = got
  BY DEF Cut, writeVars, readVars
<1>4. n \in Nat /\ n <= Len(stream) BY <1>1
<1>5. Len(stream') = n /\ \A k \in 1 .. n : stream'[k] = stream[k] BY <1>2, <1>4, TakeIs DEF TypeInv
<1>6. Last' = Last /\ Reached' = Reached /\ Writing' = Writing BY <1>3 DEF Last, Reached, Writing
<1>7. \A k \in 1 .. n : k \in 1 .. Len(stream) BY <1>1, <1>4
<1>8. \A g \in 1 .. Last' : \A j \in 1 .. 2 + size'[g] :
        start[g] + j \in 1 .. Len(stream') => stream'[start[g] + j] = ByteAt(g, j)'
  BY <1>3, <1>5, <1>6, <1>7 DEF ByteAt, Layout
<1>9. /\ Writing => n <= start[Last] + 2
      /\ ~Writing => n <= start[Last + 1]
  <2>1. Last + 1 \in 1 .. Last + 1 /\ start[Last + 1] \in Int BY <1>1 DEF Starts
  <2>2. ASSUME Writing PROVE n <= start[Last] + 2
    <3>1. Len(stream) = start[Last] + 2 BY <1>3, <2>2 DEF Layout
    <3> QED BY <1>1, <1>4, <3>1
  <2>3. ASSUME ~Writing PROVE n <= start[Last + 1]
    <3>1. Len(stream) = start[Last + 1] BY <1>3, <2>3 DEF Layout
    <3> QED BY <1>1, <1>4, <3>1
  <2> QED BY <2>2, <2>3
<1>10. Layout(start)' BY <1>3, <1>5, <1>6, <1>8, <1>9 DEF Layout
<1>11. Starts(start)' /\ InStep(start)' BY <1>3, <1>6 DEF Starts, InStep
<1> QED BY <1>10, <1>11

-------------------------------------------------------------------------------
(* The reader *)

\* Positions move to the left by what is read.
LEMMA Shift ==
  ASSUME FrameAssumption, TypeInv, NEW start, Starts(start), Layout(start), NEW n \in Nat,
         n <= Len(stream), stream' = Rest(n), size' = size, job' = job, cut' = cut
  PROVE  \E new : /\ Starts(new)' /\ Layout(new)'
                  /\ \A f \in 1 .. Last + 1 : new[f] = start[f] - n
<1>1. /\ Last \in Nat /\ Len(stream) \in Nat /\ \A g \in 1 .. Last : size[g] \in Nat
  BY Sized DEF TypeInv
<1>2. PICK new : new = [f \in 1 .. Last + 1 |-> start[f] - n] OBVIOUS
<1>3. Last' = Last /\ Writing' = Writing BY DEF Last, Writing
<1>4. Len(stream') = Len(stream) - n /\ \A k \in 1 .. Len(stream) - n : stream'[k] = stream[n + k]
  BY RestIs DEF TypeInv
<1>5. \A f \in 1 .. Last + 1 : start[f] \in Int /\ new[f] = start[f] - n /\ new[f] \in Int
  BY <1>2 DEF Starts
<1>6. new \in [1 .. Last + 1 -> Int] BY <1>2, <1>5
<1>7. Starts(new)'
  <2>1. ASSUME NEW f \in 1 .. Last PROVE new[f + 1] = new[f] + 2 + size[f]
    <3>1. f \in 1 .. Last + 1 /\ f + 1 \in 1 .. Last + 1 BY <1>1
    <3>2. start[f + 1] = start[f] + 2 + size[f] BY DEF Starts
    <3>3. /\ start[f] \in Int /\ new[f] = start[f] - n
          /\ start[f + 1] \in Int /\ new[f + 1] = start[f + 1] - n
      BY <1>5, <3>1
    <3>4. size[f] \in Nat BY <1>1
    <3> QED BY <3>2, <3>3, <3>4
  <2>2. ASSUME NEW f \in 1 .. Last + 1, NEW h \in 1 .. Last + 1, f <= h PROVE new[f] <= new[h]
    <3>1. start[f] <= start[h] BY <2>2 DEF Starts
    <3> QED BY <1>5, <3>1
  <2> QED BY <1>3, <1>6, <2>1, <2>2 DEF Starts
<1>8. ASSUME NEW f \in 1 .. Last, NEW j \in 1 .. 2 + size[f], new[f] + j \in 1 .. Len(stream')
      PROVE  stream'[new[f] + j] = ByteAt(f, j)
  <2>1. PICK p : p = new[f] + j OBVIOUS
  <2>2. p \in 1 .. Len(stream) - n BY <1>4, <1>8, <2>1
  <2>3. stream'[p] = stream[n + p] BY <1>4, <2>2
  <2>4. n + p = start[f] + j
    <3>1. f \in 1 .. Last + 1 /\ j \in Int BY <1>1
    <3>2. start[f] \in Int /\ new[f] = start[f] - n BY <1>5, <3>1
    <3> QED BY <2>1, <3>1, <3>2
  <2>5. start[f] + j \in 1 .. Len(stream) BY <1>1, <2>2, <2>4
  <2>6. stream[start[f] + j] = ByteAt(f, j) BY <2>5 DEF Layout
  <2> QED BY <2>1, <2>3, <2>4, <2>6
<1>9. Layout(new)'
  <2>1. \A f \in 1 .. Last' : \A j \in 1 .. 2 + size'[f] :
          new[f] + j \in 1 .. Len(stream') => stream'[new[f] + j] = ByteAt(f, j)'
    BY <1>3, <1>8 DEF ByteAt
  <2>2. /\ Writing => Len(stream) <= start[Last] + 2 /\ (~cut => Len(stream) = start[Last] + 2)
        /\ ~Writing => Len(stream) <= start[Last + 1] /\ (~cut => Len(stream) = start[Last + 1])
    BY DEF Layout
  <2>3. ASSUME Writing PROVE Len(stream') <= new[Last] + 2 /\ (~cut => Len(stream') = new[Last] + 2)
    <3>1. PICK w \in Writers : job[w] # 0 BY <2>3 DEF Writing
    <3>2. job[w] \in Nat /\ job[w] <= Last BY DEF TypeInv, TypeOK, Begun, Frames
    <3>3. Last \in 1 .. Last + 1 BY <1>1, <3>1, <3>2
    <3>4. start[Last] \in Int /\ new[Last] = start[Last] - n BY <1>5, <3>3
    <3>5. Len(stream) <= start[Last] + 2 /\ (~cut => Len(stream) = start[Last] + 2) BY <2>2, <2>3
    <3>6. Len(stream') \in Int /\ Len(stream') = Len(stream) - n BY <1>1, <1>4
    <3> QED BY <1>1, <3>4, <3>5, <3>6
  <2>4. ASSUME ~Writing PROVE Len(stream') <= new[Last + 1] /\ (~cut => Len(stream') = new[Last + 1])
    <3>1. Last + 1 \in 1 .. Last + 1 BY <1>1
    <3>2. start[Last + 1] \in Int /\ new[Last + 1] = start[Last + 1] - n BY <1>5, <3>1
    <3>3. Len(stream) <= start[Last + 1] /\ (~cut => Len(stream) = start[Last + 1]) BY <2>2, <2>4
    <3>4. Len(stream') \in Int /\ Len(stream') = Len(stream) - n BY <1>1, <1>4
    <3>5. Len(stream) \in Int /\ n \in Int BY <1>1
    <3>6. Len(stream') <= new[Last + 1]
      <4>1. Len(stream) - n <= start[Last + 1] - n BY <3>2, <3>3, <3>5
      <4> QED BY <3>2, <3>4, <4>1
    <3>7. ~cut => Len(stream') = new[Last + 1] BY <3>2, <3>3, <3>4
    <3> QED BY <3>6, <3>7
  <2> QED BY <1>3, <2>1, <2>3, <2>4 DEF Layout
<1> QED BY <1>5, <1>7, <1>9

\* A frame that is in the stream has been begun.
LEMMA ReachedIsBegun ==
  ASSUME FrameAssumption, TypeInv, OneWriter, Clean, NEW start, Starts(start), Layout(start),
         InStep(start), reading = "prefix", Len(stream) > 0
  PROVE  Reached \in 1 .. Last
<1>1. Last \in Nat /\ Len(stream) \in Nat /\ \A g \in 1 .. Last : size[g] \in Nat \ {0}
  BY Sized DEF TypeInv
<1>2. Reached \in 1 .. Last + 1 /\ start[Reached] = 0 BY DEF InStep
<1>3. ASSUME Reached = Last + 1 PROVE FALSE
  <2>1. start[Last + 1] = 0 BY <1>2, <1>3
  <2>2. CASE ~Writing BY <1>1, <2>1, <2>2 DEF Layout
  <2>3. CASE Writing
    <3>1. PICK w \in Writers : job[w] # 0 BY <2>3 DEF Writing
    <3>2. job[w] \in Nat /\ job[w] <= Last BY DEF TypeInv, TypeOK, Begun, Frames
    <3>3. Last \in 1 .. Last BY <1>1, <3>1, <3>2
    <3>4. start[Last + 1] = start[Last] + 2 + size[Last] /\ start[Last] \in Int
      BY <1>1, <3>3 DEF Starts
    <3>5. Len(stream) <= start[Last] + 2 BY <2>3 DEF Layout
    <3> QED BY <1>1, <2>1, <3>3, <3>4, <3>5
  <2> QED BY <2>2, <2>3
<1> QED BY <1>1, <1>2, <1>3

\* The prefix of the next frame gives its size.
LEMMA LengthStays ==
  ASSUME FrameAssumption, TypeInv, OneWriter, Clean, NEW start, Starts(start), Layout(start),
         InStep(start), ReadLength
  PROVE  /\ reading' = "payload"
         /\ \E new : Starts(new)' /\ Layout(new)' /\ InStep(new)'
<1>1. /\ Last \in Nat /\ Len(stream) \in Nat /\ Len(got) \in Nat
      /\ \A g \in 1 .. Last : g \in Frames /\ size[g] \in Nat \ {0}
  BY Sized DEF TypeInv
<1>2. /\ reading = "prefix" /\ Len(stream) >= 2 /\ need' \in Lengths(Take(2)) /\ stream' = Rest(2)
      /\ reading' = (IF need' = 0 THEN "failed" ELSE "payload")
      /\ size' = size /\ job' = job /\ overlapped' = overlapped /\ cut' = cut /\ got' = got
  BY DEF ReadLength, writeVars
<1>3. Reached \in 1 .. Last
  <2>1. Len(stream) > 0 BY <1>1, <1>2
  <2> QED BY <1>2, <2>1, ReachedIsBegun
<1>4. start[Reached] = 0 BY <1>2 DEF InStep
<1>5. stream[1] = ByteAt(Reached, 1) /\ stream[2] = ByteAt(Reached, 2)
  <2>1. \A j \in 1 .. 2 + size[Reached] :
          0 + j \in 1 .. Len(stream) => stream[0 + j] = ByteAt(Reached, j)
    BY <1>3, <1>4 DEF Layout
  <2>2. 1 \in 1 .. 2 + size[Reached] /\ 2 \in 1 .. 2 + size[Reached]
        /\ 0 + 1 \in 1 .. Len(stream) /\ 0 + 2 \in 1 .. Len(stream)
    BY <1>1, <1>2, <1>3
  <2> QED BY <2>1, <2>2
<1>6. Take(2) = Prefix(Reached) /\ Take(2)[1].frame = Reached
  <2>1. /\ Take(2) \in Seq(Byte) /\ Len(Take(2)) = 2 /\ \A k \in 1 .. 2 : Take(2)[k] = stream[k]
    <3>1. 2 \in Nat /\ 2 <= Len(stream) BY <1>1, <1>2
    <3> QED BY <3>1, TakeIs DEF TypeInv, Take
  <2>2. /\ Prefix(Reached) \in Seq(Byte) /\ Len(Prefix(Reached)) = 2
        /\ \A k \in 1 .. 2 : Prefix(Reached)[k] = [frame |-> Reached, part |-> "prefix", i |-> k]
    <3>1. Reached \in Frames /\ 2 \in Nat /\ "prefix" \in {"prefix", "payload"} BY <1>1, <1>3
    <3> QED BY <3>1, BytesAre DEF Prefix
  <2>3. \A k \in 1 .. 2 : Take(2)[k] = Prefix(Reached)[k]
    <3>1. Take(2)[1] = Prefix(Reached)[1] BY <1>5, <2>1, <2>2 DEF ByteAt
    <3>2. Take(2)[2] = Prefix(Reached)[2] BY <1>5, <2>1, <2>2 DEF ByteAt
    <3> QED BY <3>1, <3>2
  <2>4. Take(2) = Prefix(Reached) BY <2>1, <2>2, <2>3, SeqEqual
  <2>5. Take(2)[1].frame = Reached BY <2>1, <1>5 DEF ByteAt
  <2> QED BY <2>4, <2>5
<1>7. need' = size[Reached]
  <2>1. need' = size[Reached] % LenMod BY <1>2, <1>6 DEF Lengths
  <2>2. size[Reached] \in Nat /\ size[Reached] < LenMod /\ LenMod \in Nat
    BY <1>1, <1>3 DEF Clean, Fits, Last, FrameAssumption
  <2> QED BY <2>1, <2>2
<1>8. need' # 0 /\ reading' = "payload" BY <1>1, <1>2, <1>3, <1>7
<1>9. PICK new : /\ Starts(new)' /\ Layout(new)'
                 /\ \A f \in 1 .. Last + 1 : new[f] = start[f] - 2
  BY <1>1, <1>2, Shift
<1>10. Reached \in 1 .. Last + 1 /\ Last' = Last /\ Reached' = Reached /\ size' = size
  BY <1>1, <1>2, <1>3 DEF Last, Reached
<1>11. new[Reached] = -2 BY <1>4, <1>9, <1>10
<1>12. InStep(new)' BY <1>1, <1>3, <1>7, <1>8, <1>10, <1>11 DEF InStep
<1> QED BY <1>8, <1>9, <1>12

\* What is read as a payload is the payload of that frame.
LEMMA BodyStays ==
  ASSUME FrameAssumption, TypeInv, Clean, NEW start, Starts(start), Layout(start), InStep(start),
         ReadBody
  PROVE  /\ got' = Append(got, Reached)
         /\ \E new : Starts(new)' /\ Layout(new)' /\ InStep(new)'
<1>1. /\ Last \in Nat /\ Len(stream) \in Nat /\ Len(got) \in Nat /\ need \in Nat
      /\ \A g \in 1 .. Last : g \in Frames /\ size[g] \in Nat \ {0}
  BY Sized DEF TypeInv
<1>2. /\ reading = "payload" /\ Len(stream) >= need /\ reading' = "prefix" /\ stream' = Rest(need)
      /\ got' = Append(got, IF \E f \in 1 .. Len(size) : Take(need) = Payload(f)
                            THEN stream[1].frame ELSE 0)
      /\ size' = size /\ job' = job /\ overlapped' = overlapped /\ cut' = cut /\ need' = need
  BY DEF ReadBody, writeVars
<1>3. Reached \in 1 .. Last /\ start[Reached] = -2 /\ need = size[Reached]
  BY <1>1, <1>2 DEF InStep
<1>4. \A k \in 1 .. need : stream[k] = [frame |-> Reached, part |-> "payload", i |-> k]
  <2> SUFFICES ASSUME NEW k \in 1 .. need
               PROVE  stream[k] = [frame |-> Reached, part |-> "payload", i |-> k]
    OBVIOUS
  <2>1. k + 2 \in 1 .. 2 + size[Reached] /\ -2 + (k + 2) = k /\ ~(k + 2 <= 2) /\ (k + 2) - 2 = k
    BY <1>1, <1>3
  <2>2. k \in 1 .. Len(stream) BY <1>1, <1>2
  <2>3. start[Reached] + (k + 2) = k BY <1>3, <2>1
  <2>4. stream[k] = ByteAt(Reached, k + 2) BY <1>3, <2>1, <2>2, <2>3 DEF Layout
  <2> QED BY <2>1, <2>4 DEF ByteAt
<1>5. Take(need) = Payload(Reached)
  <2>1. /\ Take(need) \in Seq(Byte) /\ Len(Take(need)) = need
        /\ \A k \in 1 .. need : Take(need)[k] = stream[k]
    BY <1>1, <1>2, TakeIs DEF TypeInv, Take
  <2>2. /\ Payload(Reached) \in Seq(Byte) /\ Len(Payload(Reached)) = need
        /\ \A k \in 1 .. need :
             Payload(Reached)[k] = [frame |-> Reached, part |-> "payload", i |-> k]
    <3>1. Reached \in Frames /\ "payload" \in {"prefix", "payload"} BY <1>1, <1>3
    <3> QED BY <1>1, <1>3, <3>1, BytesAre DEF Payload
  <2>3. \A k \in 1 .. need : Take(need)[k] = Payload(Reached)[k] BY <1>4, <2>1, <2>2
  <2> QED BY <2>1, <2>2, <2>3, SeqEqual
<1>6. stream[1].frame = Reached
  <2>1. 1 \in 1 .. need BY <1>1, <1>3
  <2>2. stream[1] = [frame |-> Reached, part |-> "payload", i |-> 1] BY <1>4, <2>1
  <2> QED BY <2>2
<1>7. got' = Append(got, Reached)
  <2>1. \E f \in 1 .. Len(size) : Take(need) = Payload(f) BY <1>3, <1>5 DEF Last
  <2> QED BY <1>2, <1>6, <2>1
<1>8. PICK new : /\ Starts(new)' /\ Layout(new)'
                 /\ \A f \in 1 .. Last + 1 : new[f] = start[f] - need
  BY <1>1, <1>2, Shift
<1>9. Last' = Last /\ Reached' = Reached + 1
  <2>1. got \in Seq(Frames \cup {0}) BY DEF TypeInv, TypeOK
  <2>2. Reached \in Frames \cup {0} BY <1>1, <1>3
  <2>3. Len(got') = Len(got) + 1 BY <1>7, <2>1, <2>2, AppendProperties
  <2> QED BY <1>2, <2>3 DEF Last, Reached
<1>10. new[Reached + 1] = 0
  <2>1. Reached \in 1 .. Last + 1 /\ Reached + 1 \in 1 .. Last + 1 BY <1>1, <1>3
  <2>2. start[Reached + 1] = start[Reached] + 2 + size[Reached] BY <1>3 DEF Starts
  <2> QED BY <1>1, <1>3, <1>8, <2>1, <2>2
<1>11. InStep(new)' BY <1>1, <1>2, <1>3, <1>9, <1>10 DEF InStep
<1> QED BY <1>7, <1>8, <1>11

-------------------------------------------------------------------------------
(* The theorems *)

LEMMA InitInv ==
  ASSUME FrameAssumption, Init
  PROVE  IInv
<1>1. /\ size = <<>> /\ job = [w \in Writers |-> 0] /\ stream = <<>> /\ cut = FALSE
      /\ reading = "prefix" /\ need = 0 /\ got = <<>> /\ overlapped = FALSE
  BY DEF Init
<1>2. /\ size \in Seq(Sizes) /\ Len(size) = 0 /\ stream \in Seq(Byte) /\ Len(stream) = 0
      /\ got \in Seq(Frames \cup {0}) /\ Len(got) = 0
  BY <1>1
<1>3. TypeOK
  <2>1. LenMod \in Nat \ {0} /\ MaxFrames \in Nat BY DEF FrameAssumption
  <2>2. need \in 0 .. (LenMod - 1) /\ Len(size) <= MaxFrames BY <1>1, <1>2, <2>1
  <2> QED BY <1>1, <1>2, <2>2 DEF TypeOK
<1>4. Begun BY <1>1, <1>2 DEF Begun, Last
<1>5. OneWriter /\ ~Writing BY <1>1 DEF OneWriter, Writing
<1>6. \E start : Starts(start) /\ Layout(start) /\ InStep(start)
  <2>1. PICK start : start = [f \in 1 .. 1 |-> 0] OBVIOUS
  <2>2. Last = 0 /\ Last + 1 = 1 /\ Reached = 1 BY <1>2 DEF Last, Reached
  <2>3. start \in [1 .. 1 -> Int] /\ start[1] = 0 BY <2>1
  <2>4. Starts(start) BY <2>2, <2>3 DEF Starts
  <2>5. Layout(start) BY <1>2, <1>5, <2>2, <2>3 DEF Layout
  <2>6. InStep(start) BY <1>1, <2>2, <2>3 DEF InStep
  <2> QED BY <2>4, <2>5, <2>6
<1>7. CleanFramesIntact /\ CleanReaderLives
  BY <1>1, <1>2 DEF CleanFramesIntact, FramesIntact, CleanReaderLives
<1> QED BY <1>1, <1>3, <1>4, <1>5, <1>6, <1>7 DEF IInv, TypeInv, ReaderInv

\* Overlaps and sizes are not forgotten.
LEMMA CleanBefore ==
  ASSUME FrameAssumption, TypeInv, [Next]_vars, Clean'
  PROVE  Clean
<1>1. size \in Seq(Sizes) /\ overlapped \in BOOLEAN /\ Len(size) \in Nat
  BY Sized DEF TypeInv, TypeOK, Last
<1>2. \/ size' = size /\ overlapped' = overlapped
      \/ \E n \in Sizes : size' = Append(size, n) /\ (overlapped => overlapped')
  BY DEF Next, WritePrefix, WritePayload, Cut, Reader, ReadLength, ReadBody, ReadEOF, vars, writeVars
<1>3. CASE size' = size /\ overlapped' = overlapped BY <1>3 DEF Clean, Fits
<1>4. ASSUME NEW n \in Sizes, size' = Append(size, n), overlapped => overlapped' PROVE Clean
  <2>1. Len(size') = Len(size) + 1 /\ \A f \in 1 .. Len(size) : size'[f] = size[f]
    BY <1>1, <1>4, AppendProperties
  <2>2. \A f \in 1 .. Len(size) : f \in 1 .. Len(size') BY <1>1, <2>1
  <2> QED BY <1>4, <2>1, <2>2 DEF Clean, Fits
<1> QED BY <1>2, <1>3, <1>4

LEMMA OneWriterStep ==
  ASSUME FrameAssumption, TypeInv, OneWriter, [Next]_vars
  PROVE  OneWriter'
<1>1. /\ Len(size) \in Nat /\ size \in Seq(Sizes) /\ job \in [Writers -> Frames \cup {0}]
      /\ overlapped \in BOOLEAN
  BY Sized DEF TypeInv, TypeOK, Last
<1>2. ASSUME NEW w \in Writers, WritePrefix(w) PROVE OneWriter'
  <2>1. PICK n \in Sizes : size' = Append(size, n) BY <1>2 DEF WritePrefix
  <2>2. /\ job' = [job EXCEPT ![w] = Len(size) + 1]
        /\ overlapped' = (overlapped \/ \E v \in Writers : job[v] # 0)
    BY <1>2 DEF WritePrefix
  <2>3. Len(size') = Len(size) + 1 BY <1>1, <2>1, AppendProperties
  <2>4. ASSUME ~overlapped' PROVE \A v \in Writers : job'[v] # 0 => v = w /\ job'[v] = Len(size')
    BY <1>1, <2>2, <2>3, <2>4
  <2> QED BY <2>4 DEF OneWriter
<1>3. ASSUME NEW w \in Writers, WritePayload(w) PROVE OneWriter'
  <2>1. size' = size /\ overlapped' = overlapped /\ job' = [job EXCEPT ![w] = 0]
    BY <1>3 DEF WritePayload
  <2>2. \A v \in Writers : job'[v] # 0 => job[v] = job'[v] BY <1>1, <2>1
  <2> QED BY <2>1, <2>2 DEF OneWriter
<1>4. CASE size' = size /\ job' = job /\ overlapped' = overlapped BY <1>4 DEF OneWriter
<1>5. CASE Cut \/ Reader \/ UNCHANGED vars
  BY <1>4, <1>5 DEF Cut, Reader, ReadLength, ReadBody, ReadEOF, vars, writeVars
<1> QED BY <1>2, <1>3, <1>5 DEF Next

\* The three reader properties, step by step.
LEMMA ReaderStep ==
  ASSUME FrameAssumption, IInv, [Next]_vars, Clean'
  PROVE  ReaderInv' /\ FramesIntact' /\ (reading' = "failed" => cut')
<1>1. Clean /\ TypeInv /\ OneWriter /\ FramesIntact /\ (reading = "failed" => cut)
  BY CleanBefore DEF IInv, CleanFramesIntact, CleanReaderLives
<1>2. reading \in {"prefix", "payload", "failed"} /\ cut \in BOOLEAN
      /\ got \in Seq(Frames \cup {0}) /\ Len(got) \in Nat
  BY <1>1, Sized DEF TypeInv, TypeOK
<1>3. CASE reading = "failed"
  <2>1. got' = got /\ reading' = reading /\ (cut => cut')
    BY <1>3 DEF Next, WritePrefix, WritePayload, Cut, Reader, ReadLength, ReadBody, ReadEOF, vars, readVars
  <2> QED BY <1>1, <1>3, <2>1 DEF ReaderInv, FramesIntact
<1>4. CASE reading # "failed"
  <2>1. PICK start : Starts(start) /\ Layout(start) /\ InStep(start)
    BY <1>1, <1>4 DEF IInv, ReaderInv
  <2>2. ASSUME got' = got, reading' = reading, \E new : Starts(new)' /\ Layout(new)' /\ InStep(new)'
        PROVE  ReaderInv' /\ FramesIntact' /\ (reading' = "failed" => cut')
    BY <1>1, <1>4, <2>2 DEF ReaderInv, FramesIntact
  <2>3. ASSUME NEW w \in Writers, WritePrefix(w)
        PROVE  ReaderInv' /\ FramesIntact' /\ (reading' = "failed" => cut')
    <3>1. got' = got /\ reading' = reading BY <2>3 DEF WritePrefix, readVars
    <3> QED BY <1>1, <2>1, <2>2, <2>3, <3>1, PrefixStays
  <2>4. ASSUME NEW w \in Writers, WritePayload(w)
        PROVE  ReaderInv' /\ FramesIntact' /\ (reading' = "failed" => cut')
    <3>1. got' = got /\ reading' = reading BY <2>4 DEF WritePayload, readVars
    <3> QED BY <1>1, <2>1, <2>2, <2>4, <3>1, PayloadStays
  <2>5. CASE Cut
    <3>1. got' = got /\ reading' = reading BY <2>5 DEF Cut, readVars
    <3> QED BY <1>1, <2>1, <2>2, <2>5, <3>1, CutStays
  <2>6. CASE ReadLength
    <3>1. got' = got BY <2>6 DEF ReadLength
    <3>2. reading' = "payload" /\ \E new : Starts(new)' /\ Layout(new)' /\ InStep(new)'
      BY <1>1, <2>1, <2>6, LengthStays
    <3> QED BY <1>1, <3>1, <3>2 DEF ReaderInv, FramesIntact
  <2>7. CASE ReadBody
    <3>1. got' = Append(got, Reached) /\ \E new : Starts(new)' /\ Layout(new)' /\ InStep(new)'
      BY <1>1, <2>1, <2>7, BodyStays
    <3>2. reading' = "prefix" BY <2>7 DEF ReadBody
    <3>3. FramesIntact'
      <4>1. /\ Len(got') = Len(got) + 1 /\ got'[Len(got) + 1] = Reached
            /\ \A k \in 1 .. Len(got) : got'[k] = got[k]
        BY <1>2, <3>1
      <4> QED BY <1>1, <1>2, <4>1 DEF FramesIntact, Reached
    <3> QED BY <3>1, <3>2, <3>3 DEF ReaderInv
  <2>8. CASE ReadEOF
    <3>1. got' = got /\ reading' = "failed" /\ cut' = cut /\ cut BY <2>8 DEF ReadEOF
    <3> QED BY <1>1, <3>1 DEF ReaderInv, FramesIntact
  <2>9. CASE UNCHANGED vars
    <3>1. /\ size' = size /\ job' = job /\ stream' = stream /\ cut' = cut /\ reading' = reading
          /\ need' = need /\ got' = got
      BY <2>9 DEF vars
    <3>2. Starts(start)' /\ Layout(start)' /\ InStep(start)'
      BY <2>1, <3>1 DEF Starts, Layout, InStep, Last, Reached, Writing, ByteAt
    <3> QED BY <2>2, <3>1, <3>2
  <2> QED BY <2>3, <2>4, <2>5, <2>6, <2>7, <2>8, <2>9 DEF Next, Reader
<1> QED BY <1>3, <1>4

LEMMA Invariant == Spec => []IInv
<1>1. Init => IInv BY FrameAssumption, InitInv
<1>2. IInv /\ [Next]_vars => IInv'
  <2> SUFFICES ASSUME IInv, [Next]_vars PROVE IInv' OBVIOUS
  <2>1. TypeInv' BY FrameAssumption, TypeStep DEF IInv
  <2>2. OneWriter' BY FrameAssumption, OneWriterStep DEF IInv
  <2>3. Clean' => ReaderInv' /\ FramesIntact' /\ (reading' = "failed" => cut')
    BY FrameAssumption, ReaderStep
  <2> QED BY <2>1, <2>2, <2>3 DEF IInv, ReaderInv, CleanFramesIntact, CleanReaderLives
<1> QED BY <1>1, <1>2, PTL DEF Spec

\* Every variable of the stream and its two ends keeps its type.
THEOREM TypeCorrect == Spec => []TypeOK
<1>1. IInv => TypeOK BY DEF IInv, TypeInv
<1> QED BY <1>1, Invariant, PTL

\* Without overlapping writes and oversized payloads, ReadFrame returns the
\* frames WriteFrame was given, whole, once and in order, wherever the
\* connection breaks.
THEOREM FramesArriveWhole == Spec => []CleanFramesIntact
<1>1. IInv => CleanFramesIntact BY DEF IInv
<1> QED BY <1>1, Invariant, PTL

\* On such a connection ReadFrame fails only once the connection has broken.
THEOREM ReaderFailsForCause == Spec => []CleanReaderLives
<1>1. IInv => CleanReaderLives BY DEF IInv
<1> QED BY <1>1, Invariant, PTL
===============================================================================
