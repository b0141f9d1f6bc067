------------------------------ MODULE FrameStream ------------------------------
(***************************************************************************)
(* Framing (server/internal/proudnet/framing.go) over one direction of one *)
(* TCP connection.  WriteFrame makes two Writes, the length prefix and the *)
(* payload, and takes no lock; a connection is written to by its own       *)
(* handler, by the broadcasts of others and by handleStartGame.  ReadFrame *)
(* trusts whatever two bytes come next to be a length.                     *)
(*                                                                         *)
(* The stream is a sequence of bytes, each tagged with the frame it was    *)
(* written for: [frame, part, i], the i-th byte of its prefix or payload.  *)
(***************************************************************************)
EXTENDS Naturals, Sequences

CONSTANTS
  Writers,    \* goroutines that send to this connection
  Sizes,      \* payload lengths, the message type byte included
  LenMod,     \* lengths are written modulo this (the code: 2^16)
  MaxFrames   \* bound on the frames written

ASSUME FrameAssumption ==
  /\ Sizes \subseteq Nat \ {0}
  /\ LenMod \in Nat \ {0, 1}
  /\ MaxFrames \in Nat

VARIABLES
  size,        \* the sizes of the frames begun so far, in the order of their prefixes
  job,         \* the frame whose payload a writer has still to write, 0 if none
  stream,      \* the bytes written and not yet read
  cut,         \* the connection is closed
  reading,     \* where ReadFrame is
  need,        \* the length it has read
  got,         \* what ReadFrame has returned: a frame, or 0 for bytes of several
  overlapped   \* history: did a frame begin inside another?

vars == <<size, job, stream, cut, reading, need, got, overlapped>>
writeVars == <<size, job, overlapped>>
readVars == <<reading, need, got>>

Frames == 1..MaxFrames
Byte == [frame : Frames, part : {"prefix", "payload"}, i : Nat \ {0}]

TypeOK ==
  /\ size \in Seq(Sizes) /\ Len(size) <= MaxFrames
  /\ job \in [Writers -> Frames \cup {0}]
  /\ stream \in Seq(Byte)
  /\ cut \in BOOLEAN
  /\ reading \in {"prefix", "payload", "failed"}
  /\ need \in 0..(LenMod - 1)
  /\ got \in Seq(Frames \cup {0})
  /\ overlapped \in BOOLEAN

Init ==
  /\ size = <<>>
  /\ job = [w \in Writers |-> 0]
  /\ stream = <<>>
  /\ cut = FALSE
  /\ reading = "prefix"
  /\ need = 0
  /\ got = <<>>
  /\ overlapped = FALSE

-------------------------------------------------------------------------------
(* WriteFrame *)

Bytes(f, part, n) == [i \in 1..n |-> [frame |-> f, part |-> part, i |-> i]]
Prefix(f) == Bytes(f, "prefix", 2)
Payload(f) == Bytes(f, "payload", size[f])

\* The first Write.  On a closed connection it fails and the frame is dropped,
\* which changes nothing.
WritePrefix(w) ==
  LET f == Len(size) + 1 IN
  /\ job[w] = 0
  /\ ~cut
  /\ f <= MaxFrames
  /\ \E n \in Sizes : size' = Append(size, n)
  /\ job' = [job EXCEPT ![w] = f]
  /\ stream' = stream \o Prefix(f)
  /\ overlapped' = (overlapped \/ \E v \in Writers : job[v] # 0)
  /\ UNCHANGED <<cut, readVars>>

\* The second Write, which fails on a closed connection.
WritePayload(w) ==
  /\ job[w] # 0
  /\ stream' = IF cut THEN stream ELSE stream \o Payload(job[w])
  /\ job' = [job EXCEPT ![w] = 0]
  /\ UNCHANGED <<size, cut, overlapped, readVars>>

\* The connection breaks or its writing end closes; a suffix of what is under
\* way may never arrive.
Cut ==
  /\ ~cut
  /\ cut' = TRUE
  /\ \E k \in 0..Len(stream) : stream' = SubSeq(stream, 1, k)
  /\ UNCHANGED <<writeVars, readVars>>

-------------------------------------------------------------------------------
(* ReadFrame, called until it fails *)

\* As if the prefix were not truncated, or did not count the message type.
LengthsUntruncated(b) == IF b = Prefix(b[1].frame) THEN {size[b[1].frame]} ELSE 0..(LenMod - 1)
LengthsOfBody(b) ==
  IF b = Prefix(b[1].frame) THEN {(size[b[1].frame] - 1) % LenMod} ELSE 0..(LenMod - 1)

\* The length the next two bytes stand for: the prefix of a frame, truncated
\* to 16 bits, or else whatever the bytes happen to be.
Lengths(b) ==
  IF b = Prefix(b[1].frame) THEN {size[b[1].frame] % LenMod} ELSE 0..(LenMod - 1)

Take(n) == SubSeq(stream, 1, n)
Rest(n) == SubSeq(stream, n + 1, Len(stream))

ReadLength ==
  /\ reading = "prefix"
  /\ Len(stream) >= 2
  /\ need' \in Lengths(Take(2))
  /\ reading' = IF need' = 0 THEN "failed" ELSE "payload"
  /\ stream' = Rest(2)
  /\ UNCHANGED <<writeVars, cut, got>>

\* As if the reader waited for one byte more than it needs.
ReadBodyWaits ==
  /\ reading = "payload"
  /\ Len(stream) > need
  /\ reading' = "prefix"
  /\ got' = Append(got, IF \E f \in 1..Len(size) : Take(need) = Payload(f)
                        THEN stream[1].frame ELSE 0)
  /\ stream' = Rest(need)
  /\ UNCHANGED <<writeVars, cut, need>>

ReadBody ==
  /\ reading = "payload"
  /\ Len(stream) >= need
  /\ reading' = "prefix"
  /\ got' = Append(got, IF \E f \in 1..Len(size) : Take(need) = Payload(f)
                        THEN stream[1].frame ELSE 0)
  /\ stream' = Rest(need)
  /\ UNCHANGED <<writeVars, cut, need>>

\* End of file, before or inside a frame.
ReadEOF ==
  /\ cut
  /\ \/ reading = "prefix" /\ Len(stream) < 2
     \/ reading = "payload" /\ Len(stream) < need
  /\ reading' = "failed"
  /\ UNCHANGED <<writeVars, stream, cut, need, got>>

Reader == ReadLength \/ ReadBody \/ ReadEOF

-------------------------------------------------------------------------------

Next ==
  \/ \E w \in Writers : WritePrefix(w) \/ WritePayload(w)
  \/ Cut
  \/ Reader

\* A goroutine between its two writes makes the second; the reader keeps
\* reading.  Nobody has to send, and the connection need not break.
Fairness ==
  /\ \A w \in Writers : WF_vars(WritePayload(w))
  /\ WF_vars(Reader)

Spec == Init /\ [][Next]_vars
FairSpec == Spec /\ Fairness

-------------------------------------------------------------------------------
(* Properties *)

\* What ReadFrame returns are the frames sent, whole, once, in the order of
\* their prefixes: "WriteFrame sends a framed message."
FramesIntact == \A k \in 1..Len(got) : got[k] = k

Fits(f) == size[f] < LenMod
Clean == ~overlapped /\ \A f \in 1..Len(size) : Fits(f)

\* Frames stay intact through any breaking of the connection as long as no two
\* WriteFrame calls overlap and every payload fits its 16-bit prefix.
CleanFramesIntact == Clean => FramesIntact

\* On such a connection each frame begun arrives, unless the connection breaks,
\* and ReadFrame fails only for that reason.
CleanFramesArrive ==
  \A f \in Frames : (f <= Len(size) /\ Clean) ~> (f <= Len(got) \/ cut \/ ~Clean)
CleanReaderLives == Clean /\ reading = "failed" => cut
===============================================================================
