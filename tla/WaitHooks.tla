------------------------------ MODULE WaitHooks --------------------------------
(***************************************************************************)
(* The detours of WaitForSingleObject, WaitForSingleObjectEx and           *)
(* WaitForMultipleObjects in the game process                              *)
(* (src/patcher/hooks/hook_wait.cpp), with the recursion guard that all    *)
(* detours share (EnterHook and LeaveHook of core/helpers.cpp).            *)
(*                                                                         *)
(* A thread's call goes through the detour if the hook is on when it       *)
(* starts.  A long wait that gets the guard describes its handle; if that  *)
(* is an event of nProtect, whose owner does not run, it signals the event *)
(* itself; a wait without end on an unnamed handle becomes a bounded       *)
(* number of polls.  Without the guard the call goes straight through.     *)
(* WaitForMultipleObjects is given one handle.  Log lines are left out,    *)
(* the guard is taken for them as in the code.                             *)
(***************************************************************************)
EXTENDS Integers, FiniteSets

CONSTANTS
  Threads,      \* threads of the game
  Objects,      \* what they wait for
  Kind,         \* how a handle is described: "nprotect", "unnamed", "other"
  AutoReset,    \* objects that are no longer signaled once a wait took them
  Calls,        \* the calls the game makes: function, object, timeout
  MaxPolls,     \* bound: polls of an unnamed handle, 900
  MaxAnon       \* bound: calls that poll, 20

WaitFunctions == {"WaitForSingleObject", "WaitForSingleObjectEx", "WaitForMultipleObjects"}

ASSUME WaitAssumption ==
  /\ IsFiniteSet(Threads)
  /\ Kind \in [Objects -> {"nprotect", "unnamed", "other"}]
  /\ AutoReset \subseteq Objects
  /\ Calls \subseteq WaitFunctions \X Objects \X {"short", "long", "infinite"}
  /\ MaxPolls \in Nat \ {0} /\ MaxAnon \in Nat

VARIABLES
  hook,        \* the state of each hook, as in HookTable
  guard,       \* g_inHook
  anonCount,   \* g_anonWaitCount, up to the first value that polls no more
  signaled,    \* objects a wait returns from
  thread       \* the call each thread is in, or was in last

waitVars == <<guard, anonCount, signaled, thread>>

\* pc is the next step; taken counts the signals that the waits of this call used up.
NoCall == [pc |-> "done", fn |-> "none", obj |-> "none", timeout |-> "none",
           polls |-> 0, taken |-> 0, result |-> "none"]

Guarded == {"section", "signaled", "reported", "last resort", "logged"}
Waiting == {"poll", "last", "wait", "direct"}
Places == Guarded \cup Waiting \cup {"enter", "report", "exhausted", "after", "done"}

State ==
  [pc : Places, fn : WaitFunctions \cup {"none"}, obj : Objects \cup {"none"},
   timeout : {"short", "long", "infinite", "none"},
   polls : 0 .. MaxPolls, taken : Nat, result : {"none", "object", "timeout"}]

WaitTypeOK ==
  /\ guard \in 0 .. 1
  /\ anonCount \in 0 .. MaxAnon + 1
  /\ signaled \subseteq Objects
  /\ thread \in [Threads -> State]

WaitInit ==
  /\ guard = 0 /\ anonCount = 0 /\ signaled = {}
  /\ thread = [t \in Threads |-> NoCall]

LongWait(r) == r.timeout \in {"long", "infinite"}
To(t, pc) == thread' = [thread EXCEPT ![t].pc = pc]

EnterHook(t, inside, otherwise) ==
  \/ guard = 0 /\ guard' = 1 /\ To(t, inside)
  \/ guard = 1 /\ To(t, otherwise) /\ UNCHANGED guard

LeaveHook(t, pc) == guard' = 0 /\ To(t, pc)

\* A wait on an object, in the kernel: it takes a signal, runs out of time if it
\* has an end, or lasts.
OrigWait(t, timeout, onObject, onTimeout) ==
  LET o == thread[t].obj IN
  \/ /\ o \in signaled
     /\ signaled' = signaled \ ({o} \cap AutoReset)
     /\ thread' = [thread EXCEPT ![t].taken = @ + 1, ![t].result = "object", ![t].pc = onObject]
  \/ /\ o \notin signaled /\ timeout # "infinite"
     /\ thread' = [thread EXCEPT ![t].result = "timeout", ![t].pc = onTimeout]
     /\ UNCHANGED signaled

-------------------------------------------------------------------------------
Call(t) ==
  /\ thread[t].pc = "done"
  /\ \E c \in Calls :
       thread' = [thread EXCEPT ![t] =
         [NoCall EXCEPT !.fn = c[1], !.obj = c[2], !.timeout = c[3],
                        !.pc = IF hook[c[1]] = "on" THEN "enter" ELSE "direct"]]
  /\ UNCHANGED <<guard, anonCount, signaled>>

\* A call of a function that is not hooked.
Direct(t) ==
  /\ thread[t].pc = "direct"
  /\ OrigWait(t, thread[t].timeout, "done", "done")
  /\ UNCHANGED <<guard, anonCount>>

Enter(t) ==
  /\ thread[t].pc = "enter"
  /\ IF LongWait(thread[t]) THEN EnterHook(t, "section", "wait")
                            ELSE To(t, "wait") /\ UNCHANGED guard
  /\ UNCHANGED <<anonCount, signaled>>

\* Only WaitForSingleObject polls; WaitForMultipleObjects looks at no name.
Detects(r) == Kind[r.obj] = "nprotect" /\ r.fn # "WaitForMultipleObjects"
Anonymous(r) == Kind[r.obj] = "unnamed" /\ r.timeout = "infinite" /\ r.fn = "WaitForSingleObject"

\* What a detour does with the guard before it waits.
Section(t) ==
  /\ thread[t].pc = "section"
  /\ LET r == thread[t] IN
     \/ /\ Detects(r)
        /\ signaled' = signaled \cup {r.obj} /\ To(t, "signaled")
        /\ UNCHANGED <<guard, anonCount>>
     \/ /\ ~Detects(r) /\ Anonymous(r)
        /\ anonCount' = (IF anonCount <= MaxAnon THEN anonCount + 1 ELSE anonCount)
        /\ LeaveHook(t, IF anonCount < MaxAnon THEN "poll" ELSE "wait")
        /\ UNCHANGED signaled
     \/ /\ ~Detects(r) /\ ~Anonymous(r)
        /\ LeaveHook(t, "wait")
        /\ UNCHANGED <<anonCount, signaled>>

\* As if the guard were given back only after the wait.
LeaveSignaledLate(t) ==
  /\ thread[t].pc = "signaled"
  /\ To(t, "wait")
  /\ UNCHANGED <<guard, anonCount, signaled>>

LeaveSignaled(t) ==
  /\ thread[t].pc = "signaled"
  /\ LeaveHook(t, "wait")
  /\ UNCHANGED <<anonCount, signaled>>

\* As if one poll less were made.
PollOneLess(t) ==
  /\ thread[t].pc = "poll"
  /\ \/ OrigWait(t, "infinite", "report", "report")
     \/ LET n == thread[t].polls + 1 IN
        /\ thread[t].obj \notin signaled
        /\ thread' = [thread EXCEPT ![t].polls = n, ![t].pc = IF n < MaxPolls - 1 THEN "poll" ELSE "exhausted"]
        /\ UNCHANGED signaled
  /\ UNCHANGED <<guard, anonCount>>

\* As if a poll were never the last, though the object be signaled by nobody.
PollForever(t) ==
  /\ thread[t].pc = "poll"
  /\ OrigWait(t, "100 ms", "report", "poll")
  /\ UNCHANGED <<guard, anonCount>>

\* One wait of 100 ms.
Poll(t) ==
  /\ thread[t].pc = "poll"
  /\ \/ OrigWait(t, "infinite", "report", "report")
     \/ LET n == thread[t].polls + 1 IN
        /\ thread[t].obj \notin signaled
        /\ thread' = [thread EXCEPT ![t].polls = n, ![t].pc = IF n < MaxPolls THEN "poll" ELSE "exhausted"]
        /\ UNCHANGED signaled
  /\ UNCHANGED <<guard, anonCount>>

\* EnterHook around a log line, at the end of a call.
Report(t) ==
  /\ \/ thread[t].pc = "report" /\ EnterHook(t, "reported", "done")
     \/ thread[t].pc = "reported" /\ LeaveHook(t, "done")
  /\ UNCHANGED <<anonCount, signaled>>

\* The polls are used up: signal the object, if the guard is free.
Exhausted(t) ==
  /\ \/ /\ thread[t].pc = "exhausted"
        /\ EnterHook(t, "last resort", "last") /\ UNCHANGED signaled
     \/ /\ thread[t].pc = "last resort"
        /\ signaled' = signaled \cup {thread[t].obj} /\ LeaveHook(t, "last")
  /\ UNCHANGED anonCount

\* And wait two seconds more, whatever the caller asked for.
Last(t) ==
  /\ thread[t].pc = "last"
  /\ OrigWait(t, "2000 ms", "done", "done")
  /\ UNCHANGED <<guard, anonCount>>

Wait(t) ==
  /\ thread[t].pc = "wait"
  /\ OrigWait(t, thread[t].timeout, "after", "after")
  /\ UNCHANGED <<guard, anonCount>>

After(t) ==
  /\ \/ /\ thread[t].pc = "after"
        /\ IF LongWait(thread[t]) THEN EnterHook(t, "logged", "done")
                                  ELSE To(t, "done") /\ UNCHANGED guard
     \/ thread[t].pc = "logged" /\ LeaveHook(t, "done")
  /\ UNCHANGED <<anonCount, signaled>>

\* Others signal their objects; nobody else signals those of nProtect.
Signal(o) ==
  /\ Kind[o] # "nprotect" /\ o \notin signaled
  /\ signaled' = signaled \cup {o}
  /\ UNCHANGED <<guard, anonCount, thread>>

ThreadStep(t) ==
  \/ Direct(t) \/ Enter(t) \/ Section(t) \/ LeaveSignaled(t) \/ Poll(t) \/ Report(t)
  \/ Exhausted(t) \/ Last(t) \/ Wait(t) \/ After(t)

-------------------------------------------------------------------------------
(* Properties *)

\* The guard is held by at most one thread, and held exactly as long as one is
\* between EnterHook and its LeaveHook: on none of the detours' paths is it left
\* twice, or kept over a wait, or left by a thread that has not got it.
GuardExact ==
  guard = Cardinality({t \in Threads : thread[t].pc \in Guarded})

\* A call returns WAIT_OBJECT_0 if it used up a signal and only then, and never
\* uses up two, through the polls, the last resort and the wait after it.  A
\* caller that asked for INFINITE is told WAIT_TIMEOUT by one path only: all the
\* polls of an unnamed handle were made in vain (hook_wait.cpp:77).
SignalsReported ==
  \A t \in Threads :
    LET r == thread[t] IN
    /\ r.taken <= 1
    /\ r.pc = "done" => (r.result = "object" <=> r.taken = 1)
    /\ r.pc = "done" /\ r.timeout = "infinite" /\ r.result = "timeout" =>
         Anonymous(r) /\ r.polls = MaxPolls

\* A wait that found an nProtect event, one that stays signaled, and signaled it
\* returns, whatever the others do; so do the first waits on unnamed handles,
\* signaled or not, when the guard is free or when it is not.
DetectedIsReleased ==
  \A t \in Threads :
    (thread[t].pc = "poll" \/ (thread[t].pc = "signaled" /\ thread[t].obj \notin AutoReset))
      ~> (thread[t].pc = "done")
===============================================================================
