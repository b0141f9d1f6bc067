---------------------------- MODULE Patcher_proofs -----------------------------
(***************************************************************************)
(* Proofs about Patcher, for any number of threads, objects and polls: the *)
(* recursion guard is exact, and no detour of a wait swallows or invents a *)
(* signal.                                                                 *)
(***************************************************************************)
EXTENDS Patcher, FiniteSetTheorems, TLAPS

\* WaitHooks' actions change no variable of PatchThread, and the other way round.
WaitNext ==
  \/ \E t \in Threads : Call(t) \/ ThreadStep(t)
  \/ \E o \in Objects : Signal(o)

\* A step is one of the waiting threads or leaves them alone.
LEMMA StepSplits == [Next]_vars => WaitNext \/ UNCHANGED waitVars
<1> SUFFICES ASSUME [Next]_vars PROVE WaitNext \/ UNCHANGED waitVars OBVIOUS
<1>1. CASE UNCHANGED vars BY <1>1 DEF vars, waitVars
<1>2. CASE InitCreateProcessHooks BY <1>2 DEF InitCreateProcessHooks
<1>3. CASE Round BY <1>3 DEF Round
<1>8. CASE NoPatchThread \/ EnterLoop BY <1>8 DEF NoPatchThread, EnterLoop
<1>4. CASE Late BY <1>4 DEF Late
<1>5. CASE \E g \in Groups : Load(Init_(g).dll) BY <1>5 DEF Load
<1>6. CASE \E t \in Threads : (Call(t) \/ ThreadStep(t)) /\ UNCHANGED <<hook, patchVars>>
  BY <1>6 DEF WaitNext
<1>7. CASE \E o \in Objects : Signal(o) /\ UNCHANGED <<hook, patchVars>>
  BY <1>7 DEF WaitNext
<1> QED BY <1>1, <1>2, <1>3, <1>4, <1>5, <1>6, <1>7, <1>8 DEF Next

-------------------------------------------------------------------------------
(* The invariant *)

\* What one call has used up and will return, by where it is.
Fine(r) ==
  /\ r.taken \in {0, 1}
  /\ r.pc # "done" => r.obj \in Objects
  /\ r.pc \in {"report", "reported"} => r.taken = 1 /\ r.result = "object"
  /\ r.pc \in {"after", "logged", "done"} => (r.result = "object" <=> r.taken = 1)
  /\ r.pc \notin {"report", "reported", "after", "logged", "done"} => r.taken = 0
  /\ r.pc \in {"poll", "exhausted", "last resort", "last"} => Anonymous(r)
  /\ r.pc \in {"enter", "section"} => r.polls = 0
  /\ r.pc = "poll" => r.polls < MaxPolls
  /\ r.pc \in {"exhausted", "last resort", "last"} => r.polls = MaxPolls
  /\ r.pc \in {"after", "logged", "done"} /\ r.timeout = "infinite" /\ r.result = "timeout" =>
       Anonymous(r) /\ r.polls = MaxPolls

\* The guard is held by one thread, if by any.
OneInside ==
  /\ guard = 0 => \A t \in Threads : thread[t].pc \notin Guarded
  /\ guard = 1 => \E t \in Threads : thread[t].pc \in Guarded
  /\ \A t, u \in Threads : thread[t].pc \in Guarded /\ thread[u].pc \in Guarded => t = u

WaitInv == WaitTypeOK /\ OneInside /\ \A t \in Threads : Fine(thread[t])

LEMMA NoCallFine == NoCall \in State /\ Fine(NoCall) /\ NoCall.pc = "done"
<1>1. MaxPolls \in Nat /\ 0 \in 0 .. MaxPolls BY WaitAssumption
<1>2. NoCall \in State BY <1>1 DEF NoCall, State, Places
<1> QED BY <1>2 DEF NoCall, Fine

LEMMA InitWait == Init => WaitInv
<1> SUFFICES ASSUME Init PROVE WaitInv OBVIOUS
<1>1. /\ guard = 0 /\ anonCount = 0 /\ signaled = {}
      /\ thread = [t \in Threads |-> NoCall]
  BY DEF Init, WaitInit
<1>2. WaitTypeOK BY <1>1, NoCallFine, WaitAssumption DEF WaitTypeOK
<1>3. \A t \in Threads : thread[t].pc \notin Guarded BY <1>1, NoCallFine DEF Guarded
<1>4. OneInside BY <1>1, <1>3 DEF OneInside
<1> QED BY <1>1, <1>2, <1>4, NoCallFine DEF WaitInv

\* A step of t that replaces its record by r, which is fine again, keeps the
\* invariant if the guard moves with it.
LEMMA Moves ==
  ASSUME WaitInv, NEW t \in Threads, NEW r \in State, Fine(r),
         thread' = [thread EXCEPT ![t] = r],
         signaled' \subseteq Objects, anonCount' \in 0 .. MaxAnon + 1,
         \/ guard' = guard /\ (r.pc \in Guarded <=> thread[t].pc \in Guarded)
         \/ guard = 0 /\ guard' = 1 /\ r.pc \in Guarded
         \/ thread[t].pc \in Guarded /\ guard' = 0 /\ r.pc \notin Guarded
  PROVE  WaitInv'
<1>1. WaitTypeOK' BY DEF WaitInv, WaitTypeOK
<1>2. /\ thread'[t] = r
      /\ \A u \in Threads \ {t} : thread'[u] = thread[u]
  BY DEF WaitInv, WaitTypeOK
<1>3. OneInside' BY <1>2 DEF WaitInv, WaitTypeOK, OneInside
<1>4. \A u \in Threads : Fine(thread'[u]) BY <1>2 DEF WaitInv
<1> QED BY <1>1, <1>3, <1>4 DEF WaitInv

LEMMA CallStays == ASSUME WaitInv, NEW t \in Threads, Call(t) PROVE WaitInv'
<1>1. PICK c \in Calls :
        thread' = [thread EXCEPT ![t] =
          [NoCall EXCEPT !.fn = c[1], !.obj = c[2], !.timeout = c[3],
                         !.pc = IF hook[c[1]] = "on" THEN "enter" ELSE "direct"]]
  BY DEF Call
<1> DEFINE r == [NoCall EXCEPT !.fn = c[1], !.obj = c[2], !.timeout = c[3],
                               !.pc = IF hook[c[1]] = "on" THEN "enter" ELSE "direct"]
<1>2. /\ c[1] \in WaitFunctions /\ c[2] \in Objects
      /\ c[3] \in {"short", "long", "infinite"}
  BY WaitAssumption
<1>3. r \in State /\ r.pc \in {"enter", "direct"} /\ r.taken = 0 /\ r.polls = 0 /\ r.obj \in Objects
  BY <1>2, NoCallFine DEF NoCall, State, Places, Waiting
<1>4. Fine(r) BY <1>3 DEF Fine
<1>5. thread[t].pc = "done" /\ UNCHANGED <<guard, anonCount, signaled>> BY DEF Call
<1> HIDE DEF r
<1> QED BY <1>1, <1>3, <1>4, <1>5, Moves DEF r, WaitInv, WaitTypeOK, Guarded

\* A step that moves t to pc.
LEMMA MovesTo ==
  ASSUME WaitInv, NEW t \in Threads, NEW pc \in Places, To(t, pc),
         Fine([thread[t] EXCEPT !.pc = pc]),
         signaled' \subseteq Objects, anonCount' \in 0 .. MaxAnon + 1,
         \/ guard' = guard /\ (pc \in Guarded <=> thread[t].pc \in Guarded)
         \/ guard = 0 /\ guard' = 1 /\ pc \in Guarded
         \/ thread[t].pc \in Guarded /\ guard' = 0 /\ pc \notin Guarded
  PROVE  WaitInv'
<1> DEFINE r == [thread[t] EXCEPT !.pc = pc]
<1>1. thread[t] \in State BY DEF WaitInv, WaitTypeOK
<1>2. r \in State /\ r.pc = pc BY <1>1 DEF State
<1>3. thread' = [thread EXCEPT ![t] = r] BY DEF To
<1> HIDE DEF r
<1> QED BY <1>2, <1>3, Moves DEF r

\* A wait that took a signal, or one that ran out of time.
LEMMA Waits ==
  ASSUME WaitInv, NEW t \in Threads, NEW timeout, NEW a \in Places \ Guarded, NEW b \in Places \ Guarded,
         OrigWait(t, timeout, a, b), thread[t].pc \in Waiting, UNCHANGED <<guard, anonCount>>,
         Fine([thread[t] EXCEPT !.taken = @ + 1, !.result = "object", !.pc = a]),
         timeout # "infinite" => Fine([thread[t] EXCEPT !.result = "timeout", !.pc = b])
  PROVE  WaitInv'
<1> DEFINE r == [thread[t] EXCEPT !.taken = @ + 1, !.result = "object", !.pc = a]
           s == [thread[t] EXCEPT !.result = "timeout", !.pc = b]
<1>1. /\ thread[t] \in State /\ thread[t].pc \notin Guarded
      /\ signaled \subseteq Objects /\ anonCount \in 0 .. MaxAnon + 1
  BY DEF WaitInv, WaitTypeOK, Waiting, Guarded
<1>2. /\ r \in State /\ r.pc = a
      /\ s \in State /\ s.pc = b
  <2>1. thread[t].taken + 1 \in Nat BY <1>1 DEF State
  <2>2. r \in State /\ r.pc = a BY <1>1, <2>1 DEF State
  <2>3. s \in State /\ s.pc = b BY <1>1 DEF State
  <2> QED BY <2>2, <2>3
<1>3. \/ thread' = [thread EXCEPT ![t] = r] /\ signaled' \subseteq signaled
      \/ thread' = [thread EXCEPT ![t] = s] /\ signaled' = signaled /\ timeout # "infinite"
  BY DEF OrigWait
<1> HIDE DEF r, s
<1>4. CASE thread' = [thread EXCEPT ![t] = r] /\ signaled' \subseteq signaled
  BY <1>1, <1>2, <1>4, Moves DEF r
<1>5. CASE thread' = [thread EXCEPT ![t] = s] /\ signaled' = signaled /\ timeout # "infinite"
  BY <1>1, <1>2, <1>5, Moves DEF s
<1> QED BY <1>3, <1>4, <1>5

LEMMA DirectStays == ASSUME WaitInv, NEW t \in Threads, Direct(t) PROVE WaitInv'
<1>1. thread[t] \in State /\ Fine(thread[t]) BY DEF WaitInv, WaitTypeOK
<1>2. thread[t].pc = "direct" /\ OrigWait(t, thread[t].timeout, "done", "done") BY DEF Direct
<1>3. Fine([thread[t] EXCEPT !.taken = @ + 1, !.result = "object", !.pc = "done"])
  BY <1>1, <1>2 DEF Fine, State, Anonymous
<1>4. thread[t].timeout # "infinite" => Fine([thread[t] EXCEPT !.result = "timeout", !.pc = "done"])
  BY <1>1, <1>2 DEF Fine, State, Anonymous
<1> QED BY <1>2, <1>3, <1>4, Waits DEF Direct, Waiting, Places, Guarded

LEMMA WaitStays == ASSUME WaitInv, NEW t \in Threads, Wait(t) PROVE WaitInv'
<1>1. thread[t] \in State /\ Fine(thread[t]) BY DEF WaitInv, WaitTypeOK
<1>2. thread[t].pc = "wait" /\ OrigWait(t, thread[t].timeout, "after", "after") BY DEF Wait
<1>3. Fine([thread[t] EXCEPT !.taken = @ + 1, !.result = "object", !.pc = "after"])
  BY <1>1, <1>2 DEF Fine, State, Anonymous
<1>4. thread[t].timeout # "infinite" => Fine([thread[t] EXCEPT !.result = "timeout", !.pc = "after"])
  BY <1>1, <1>2 DEF Fine, State, Anonymous
<1> QED BY <1>2, <1>3, <1>4, Waits DEF Wait, Waiting, Places, Guarded

LEMMA LastStays == ASSUME WaitInv, NEW t \in Threads, Last(t) PROVE WaitInv'
<1>1. thread[t] \in State /\ Fine(thread[t]) BY DEF WaitInv, WaitTypeOK
<1>2. thread[t].pc = "last" /\ OrigWait(t, "2000 ms", "done", "done") BY DEF Last
<1> DEFINE r == [thread[t] EXCEPT !.taken = @ + 1, !.result = "object", !.pc = "done"]
           s == [thread[t] EXCEPT !.result = "timeout", !.pc = "done"]
<1>5. thread[t].taken = 0 /\ Anonymous(thread[t]) /\ thread[t].polls = MaxPolls
  BY <1>1, <1>2 DEF Fine
<1>3. Fine(r)
  <2>1. r.pc = "done" /\ r.taken = 1 /\ r.result = "object" BY <1>1, <1>5 DEF State
  <2> QED BY <2>1 DEF Fine
<1>4. Fine(s)
  <2>1. s.pc = "done" /\ s.taken = 0 /\ s.result = "timeout" BY <1>1, <1>5 DEF State
  <2>2. Anonymous(s) /\ s.polls = MaxPolls BY <1>1, <1>5 DEF State, Anonymous
  <2> QED BY <2>1, <2>2 DEF Fine
<1> HIDE DEF r, s
<1> QED BY <1>2, <1>3, <1>4, Waits DEF Last, Waiting, Places, Guarded, r, s

LEMMA PollStays == ASSUME WaitInv, NEW t \in Threads, Poll(t) PROVE WaitInv'
<1>1. /\ thread[t] \in State /\ Fine(thread[t]) /\ thread[t].pc = "poll"
      /\ signaled \subseteq Objects /\ anonCount \in 0 .. MaxAnon + 1
  BY DEF WaitInv, WaitTypeOK, Poll
<1>2. CASE OrigWait(t, "infinite", "report", "report")
  <2>1. Fine([thread[t] EXCEPT !.taken = @ + 1, !.result = "object", !.pc = "report"])
    BY <1>1 DEF Fine, State, Anonymous
  <2> QED BY <1>1, <1>2, <2>1, Waits DEF Poll, Waiting, Places, Guarded
<1>3. CASE ~OrigWait(t, "infinite", "report", "report")
  <2> DEFINE n == thread[t].polls + 1
             r == [thread[t] EXCEPT !.polls = n, !.pc = IF n < MaxPolls THEN "poll" ELSE "exhausted"]
  <2>1. thread' = [thread EXCEPT ![t] = r] /\ UNCHANGED <<guard, anonCount, signaled>>
    BY <1>1, <1>3 DEF Poll
  <2>2. thread[t].polls \in 0 .. MaxPolls /\ thread[t].polls < MaxPolls /\ MaxPolls \in Nat
    BY <1>1, WaitAssumption DEF State, Fine
  <2>3. n \in 0 .. MaxPolls /\ (~(n < MaxPolls) => n = MaxPolls) BY <2>2
  <2>4. r \in State /\ r.pc \in {"poll", "exhausted"} BY <1>1, <2>3 DEF State, Places, Waiting
  <2>5. Fine(r) BY <1>1, <2>3 DEF Fine, State, Anonymous
  <2> HIDE DEF r
  <2> QED BY <1>1, <2>1, <2>4, <2>5, Moves DEF Guarded
<1> QED BY <1>2, <1>3

LEMMA EnterStays == ASSUME WaitInv, NEW t \in Threads, Enter(t) PROVE WaitInv'
<1>1. /\ thread[t] \in State /\ Fine(thread[t]) /\ thread[t].pc = "enter"
      /\ signaled \subseteq Objects /\ anonCount \in 0 .. MaxAnon + 1
      /\ UNCHANGED <<anonCount, signaled>>
  BY DEF WaitInv, WaitTypeOK, Enter
<1>2. \A pc \in {"section", "wait"} : Fine([thread[t] EXCEPT !.pc = pc])
  BY <1>1 DEF Fine, State, Anonymous
<1>3. CASE LongWait(thread[t])
  BY <1>1, <1>2, <1>3, MovesTo DEF Enter, EnterHook, Places, Guarded, Waiting
<1>4. CASE ~LongWait(thread[t])
  BY <1>1, <1>2, <1>4, MovesTo DEF Enter, Places, Guarded, Waiting
<1> QED BY <1>3, <1>4

LEMMA SectionStays == ASSUME WaitInv, NEW t \in Threads, Section(t) PROVE WaitInv'
<1>1. /\ thread[t] \in State /\ Fine(thread[t]) /\ thread[t].pc = "section"
      /\ signaled \subseteq Objects /\ anonCount \in 0 .. MaxAnon + 1 /\ MaxAnon \in Nat
      /\ MaxPolls \in Nat \ {0}
  BY WaitAssumption DEF WaitInv, WaitTypeOK, Section
<1>2. \A pc \in {"signaled", "wait"} : Fine([thread[t] EXCEPT !.pc = pc])
  BY <1>1 DEF Fine, State, Anonymous
<1>3. Anonymous(thread[t]) => Fine([thread[t] EXCEPT !.pc = "poll"])
  BY <1>1 DEF Fine, State, Anonymous
<1>4. thread[t].obj \in Objects BY <1>1 DEF Fine
<1>5. CASE Detects(thread[t])
  <2>1. To(t, "signaled") /\ signaled' \subseteq Objects /\ UNCHANGED <<guard, anonCount>>
    BY <1>1, <1>4, <1>5 DEF Section
  <2> QED BY <1>1, <1>2, <2>1, MovesTo DEF Places, Guarded
<1>6. CASE ~Detects(thread[t]) /\ Anonymous(thread[t])
  <2>1. PICK pc \in {"poll", "wait"} : LeaveHook(t, pc) BY <1>6 DEF Section
  <2>2. anonCount' \in 0 .. MaxAnon + 1 /\ signaled' = signaled BY <1>1, <1>6 DEF Section
  <2> QED BY <1>1, <1>2, <1>3, <1>6, <2>1, <2>2, MovesTo DEF LeaveHook, Places, Guarded, Waiting
<1>7. CASE ~Detects(thread[t]) /\ ~Anonymous(thread[t])
  BY <1>1, <1>2, <1>7, MovesTo DEF Section, LeaveHook, Places, Guarded, Waiting
<1> QED BY <1>5, <1>6, <1>7

LEMMA LeaveSignaledStays == ASSUME WaitInv, NEW t \in Threads, LeaveSignaled(t) PROVE WaitInv'
<1>1. /\ thread[t] \in State /\ Fine(thread[t]) /\ thread[t].pc = "signaled"
      /\ signaled \subseteq Objects /\ anonCount \in 0 .. MaxAnon + 1
  BY DEF WaitInv, WaitTypeOK, LeaveSignaled
<1>2. Fine([thread[t] EXCEPT !.pc = "wait"]) BY <1>1 DEF Fine, State, Anonymous
<1> QED BY <1>1, <1>2, MovesTo DEF LeaveSignaled, LeaveHook, Places, Guarded, Waiting

LEMMA ReportStays == ASSUME WaitInv, NEW t \in Threads, Report(t) PROVE WaitInv'
<1>1. /\ thread[t] \in State /\ Fine(thread[t]) /\ thread[t].pc \in {"report", "reported"}
      /\ signaled \subseteq Objects /\ anonCount \in 0 .. MaxAnon + 1
      /\ UNCHANGED <<anonCount, signaled>>
  BY DEF WaitInv, WaitTypeOK, Report
<1>2. \A pc \in {"reported", "done"} : Fine([thread[t] EXCEPT !.pc = pc])
  <2> TAKE pc \in {"reported", "done"}
  <2> DEFINE r == [thread[t] EXCEPT !.pc = pc]
  <2>1. thread[t].taken = 1 /\ thread[t].result = "object" /\ thread[t].obj \in Objects
    BY <1>1 DEF Fine
  <2>2. r.pc = pc /\ r.taken = 1 /\ r.result = "object" /\ r.obj \in Objects
    BY <1>1, <2>1 DEF State
  <2> QED BY <2>2 DEF Fine
<1>3. CASE thread[t].pc = "report"
  BY <1>1, <1>2, <1>3, MovesTo DEF Report, EnterHook, Places, Guarded
<1>4. CASE thread[t].pc = "reported"
  BY <1>1, <1>2, <1>4, MovesTo DEF Report, LeaveHook, Places, Guarded
<1> QED BY <1>1, <1>3, <1>4

LEMMA ExhaustedStays == ASSUME WaitInv, NEW t \in Threads, Exhausted(t) PROVE WaitInv'
<1>1. /\ thread[t] \in State /\ Fine(thread[t]) /\ thread[t].pc \in {"exhausted", "last resort"}
      /\ signaled \subseteq Objects /\ anonCount \in 0 .. MaxAnon + 1 /\ UNCHANGED anonCount
  BY DEF WaitInv, WaitTypeOK, Exhausted
<1>2. \A pc \in {"last resort", "last"} : Fine([thread[t] EXCEPT !.pc = pc])
  <2> TAKE pc \in {"last resort", "last"}
  <2> DEFINE r == [thread[t] EXCEPT !.pc = pc]
  <2>1. /\ thread[t].taken = 0 /\ thread[t].obj \in Objects /\ Anonymous(thread[t])
        /\ thread[t].polls = MaxPolls
    BY <1>1 DEF Fine
  <2>2. r.pc = pc /\ r.taken = 0 /\ r.obj \in Objects /\ Anonymous(r) /\ r.polls = MaxPolls
    BY <1>1, <2>1 DEF State, Anonymous
  <2> QED BY <2>2 DEF Fine
<1>3. CASE thread[t].pc = "exhausted"
  BY <1>1, <1>2, <1>3, MovesTo DEF Exhausted, EnterHook, Places, Guarded, Waiting
<1>4. CASE thread[t].pc = "last resort"
  <2>1. signaled' \subseteq Objects /\ LeaveHook(t, "last") BY <1>1, <1>4 DEF Exhausted, Fine
  <2> QED BY <1>1, <1>2, <1>4, <2>1, MovesTo DEF LeaveHook, Places, Guarded, Waiting
<1> QED BY <1>1, <1>3, <1>4

LEMMA AfterStays == ASSUME WaitInv, NEW t \in Threads, After(t) PROVE WaitInv'
<1>1. /\ thread[t] \in State /\ Fine(thread[t]) /\ thread[t].pc \in {"after", "logged"}
      /\ signaled \subseteq Objects /\ anonCount \in 0 .. MaxAnon + 1
      /\ UNCHANGED <<anonCount, signaled>>
  BY DEF WaitInv, WaitTypeOK, After
<1>2. \A pc \in {"logged", "done"} : Fine([thread[t] EXCEPT !.pc = pc])
  BY <1>1 DEF Fine, State, Anonymous
<1>3. CASE thread[t].pc = "after" /\ LongWait(thread[t])
  BY <1>1, <1>2, <1>3, MovesTo DEF After, EnterHook, Places, Guarded
<1>4. CASE thread[t].pc = "after" /\ ~LongWait(thread[t])
  BY <1>1, <1>2, <1>4, MovesTo DEF After, Places, Guarded
<1>5. CASE thread[t].pc = "logged"
  BY <1>1, <1>2, <1>5, MovesTo DEF After, LeaveHook, Places, Guarded
<1> QED BY <1>1, <1>3, <1>4, <1>5

LEMMA WaitStep == WaitInv /\ (WaitNext \/ UNCHANGED waitVars) => WaitInv'
<1> SUFFICES ASSUME WaitInv, WaitNext \/ UNCHANGED waitVars PROVE WaitInv' OBVIOUS
<1>1. CASE UNCHANGED waitVars
  BY <1>1 DEF waitVars, WaitInv, WaitTypeOK, OneInside
<1>2. CASE \E o \in Objects : Signal(o)
  <2>1. PICK o \in Objects : Signal(o) BY <1>2
  <2> QED BY <2>1 DEF Signal, WaitInv, WaitTypeOK, OneInside
<1>3. CASE \E t \in Threads : Call(t) \/ ThreadStep(t)
  <2>1. PICK t \in Threads : Call(t) \/ ThreadStep(t) BY <1>3
  <2> QED BY <2>1, CallStays, DirectStays, EnterStays, SectionStays, LeaveSignaledStays, PollStays,
             ReportStays, ExhaustedStays, LastStays, WaitStays, AfterStays DEF ThreadStep
<1> QED BY <1>1, <1>2, <1>3 DEF WaitNext

LEMMA WaitCorrect == Spec => []WaitInv
BY InitWait, StepSplits, WaitStep, PTL DEF Spec

\* One holder, or none, in the set GuardExact counts.
LEMMA CountsGuard == WaitInv => GuardExact
<1> SUFFICES ASSUME WaitInv PROVE GuardExact OBVIOUS
<1> DEFINE inside == {t \in Threads : thread[t].pc \in Guarded}
<1>1. CASE guard = 0
  <2>1. inside = {} BY <1>1 DEF WaitInv, OneInside
  <2> QED BY <1>1, <2>1, FS_EmptySet DEF GuardExact
<1>2. CASE guard = 1
  <2>1. PICK t \in Threads : thread[t].pc \in Guarded BY <1>2 DEF WaitInv, OneInside
  <2>2. inside = {t} BY <2>1 DEF WaitInv, OneInside
  <2> QED BY <1>2, <2>2, FS_Singleton DEF GuardExact
<1> QED BY <1>1, <1>2 DEF WaitInv, WaitTypeOK

\* The recursion guard of the detours (EnterHook, LeaveHook) is held by one
\* thread, and as long as that thread is in its section, however many threads
\* are in the detours.
THEOREM GuardIsExact == Spec => []GuardExact
BY WaitCorrect, CountsGuard, PTL

\* The detours of the wait functions report the signals they use up, and no
\* others, for any number of polls.
THEOREM WaitsAreTrue == Spec => []SignalsReported
<1>1. WaitInv => SignalsReported
  <2> SUFFICES ASSUME WaitInv, NEW t \in Threads
               PROVE  /\ thread[t].taken <= 1
                      /\ thread[t].pc = "done" => (thread[t].result = "object" <=> thread[t].taken = 1)
                      /\ thread[t].pc = "done" /\ thread[t].timeout = "infinite"
                           /\ thread[t].result = "timeout" =>
                           Anonymous(thread[t]) /\ thread[t].polls = MaxPolls
    BY DEF SignalsReported
  <2>1. Fine(thread[t]) BY DEF WaitInv
  <2>2. thread[t].taken <= 1
    <3>1. thread[t].taken = 0 \/ thread[t].taken = 1 BY <2>1 DEF Fine
    <3> QED BY <3>1
  <2>3. thread[t].pc = "done" => (thread[t].result = "object" <=> thread[t].taken = 1)
    BY <2>1 DEF Fine
  <2>4. thread[t].pc = "done" /\ thread[t].timeout = "infinite" /\ thread[t].result = "timeout" =>
          Anonymous(thread[t]) /\ thread[t].polls = MaxPolls
    BY <2>1 DEF Fine
  <2> QED BY <2>2, <2>3, <2>4
<1> QED BY <1>1, WaitCorrect, PTL

-------------------------------------------------------------------------------
(* PatchThread *)

PatchTypeOK ==
  /\ HT!TypeOK
  /\ mode \in Modes /\ stage \in {"created", "before loop", "loop", "returned"} /\ library \in BOOLEAN /\ late \in BOOLEAN
  /\ installed \subseteq Groups \cap GroupsOf(mode)
  /\ faults \in 0 .. MaxFaults

\* Whatever fails, a round leaves each function's hook in one of its three states.
LEMMA HookedType ==
  ASSUME HT!TypeOK, NEW fs, NEW unmade, NEW unset, hook' = Hooked(fs, unmade, unset)
  PROVE  HT!TypeOK'
BY DEF HT!TypeOK, Hooked

LEMMA FailingType ==
  ASSUME faults \in 0 .. MaxFaults, NEW some \in BOOLEAN, Failing(some)
  PROVE  faults' \in 0 .. MaxFaults
BY PatcherAssumption DEF Failing

LEMMA PatchStep == ASSUME PatchTypeOK, [Next]_vars PROVE PatchTypeOK'
<1>1. CASE UNCHANGED <<hook, patchVars>>
  BY <1>1 DEF patchVars, PatchTypeOK, HT!TypeOK
<1>2. CASE InitCreateProcessHooks
  <2>1. HT!TypeOK' BY <1>2, HookedType DEF InitCreateProcessHooks, PatchTypeOK, HT!TypeOK
  <2>2. \E some \in BOOLEAN : Failing(some) BY <1>2 DEF InitCreateProcessHooks
  <2>3. faults' \in 0 .. MaxFaults BY <2>2, FailingType DEF PatchTypeOK
  <2> QED BY <1>2, <2>1, <2>3 DEF InitCreateProcessHooks, PatchTypeOK
<1>3. CASE Round
  <2>1. HT!TypeOK' BY <1>3, HookedType DEF Round, PatchTypeOK
  <2>2. \E some \in BOOLEAN : Failing(some) BY <1>3 DEF Round
  <2>3. faults' \in 0 .. MaxFaults BY <2>2, FailingType DEF PatchTypeOK
  <2>4. installed' \subseteq Groups \cap GroupsOf(mode)
    BY <1>3 DEF Round, PatchTypeOK, Due
  <2>5. UNCHANGED <<mode, stage, library, late>> BY <1>3 DEF Round
  <2> QED BY <2>1, <2>3, <2>4, <2>5 DEF PatchTypeOK
<1>6. CASE NoPatchThread \/ EnterLoop
  <2>1. /\ UNCHANGED <<hook, mode, library, loaded, installed, late>>
        /\ stage' \in {"loop", "returned"} /\ (Failing(TRUE) \/ UNCHANGED faults)
    BY <1>6 DEF NoPatchThread, EnterLoop
  <2>2. faults' \in 0 .. MaxFaults BY <2>1, FailingType DEF PatchTypeOK
  <2> QED BY <2>1, <2>2 DEF PatchTypeOK, HT!TypeOK
<1>4. CASE Late BY <1>4 DEF Late, PatchTypeOK, HT!TypeOK
<1>5. CASE \E g \in Groups : Load(Init_(g).dll)
  <2>1. UNCHANGED <<hook, mode, stage, library, installed, late, faults>> BY <1>5 DEF Load
  <2> QED BY <2>1 DEF PatchTypeOK, HT!TypeOK
<1> QED BY <1>1, <1>2, <1>3, <1>4, <1>5, <1>6 DEF Next, vars

\* The variables of PatchThread and of the threads that wait keep their types.
THEOREM TypeCorrect == Spec => []TypeOK
<1>1. Init => PatchTypeOK
  <2> SUFFICES ASSUME Init PROVE PatchTypeOK OBVIOUS
  <2>1. HT!TypeOK BY DEF Init, HT!Init, HT!TypeOK
  <2>2. faults \in 0 .. MaxFaults BY PatcherAssumption DEF Init
  <2> QED BY <2>1, <2>2 DEF Init, PatchTypeOK
<1>2. WaitInv /\ PatchTypeOK => TypeOK BY DEF WaitInv, PatchTypeOK, TypeOK
<1> QED BY <1>1, <1>2, PatchStep, WaitCorrect, PTL DEF Spec
===============================================================================
