-------------------------------- MODULE Launch ---------------------------------
(***************************************************************************)
(* How the game client comes to run with the patcher DLL: revival_tool     *)
(* (src/tool), revival_wrapper (src/wrapper), the CreateProcess detours of *)
(* the patcher (src/patcher/hooks/hook_process.cpp) and the choice of mode *)
(* in its DllMain.                                                         *)
(*                                                                         *)
(* The system is a table of processes.  Every CreateProcess of an image    *)
(* that has the wrapper as its IFEO Debugger starts the wrapper instead,   *)
(* unless the creator debugs the child.  A process of the tool or of the   *)
(* wrapper runs its main step by step; a game process may start others,    *)
(* through kernel32 or past it, and ends when it likes.  A cleanup kills   *)
(* processes at any of their steps.                                        *)
(*                                                                         *)
(* Past kernel32 only the breakpoint is met that the patcher sets on       *)
(* NtCreateUserProcess (bypass/hwbp.cpp, bypass/veh_handler.cpp): it has   *)
(* the child created suspended, and no program of the repository resumes   *)
(* that child or gives it the DLL.                                         *)
(*                                                                         *)
(* Windows is external: process creation, IFEO, debugging, remote threads  *)
(* and APCs are modelled by what src/ relies on and says of them.          *)
(***************************************************************************)
EXTENDS Integers, Sequences, FiniteSets

CONSTANTS
  MaxProcesses,   \* bound: processes ever created, process ids are not reused
  MaxRequests,    \* bound: commands and programs the user starts
  Commands,       \* commands of the tool the user gives, of AllCommands
  UserStarts,     \* programs the user starts himself
  Faults          \* what may fail, of FaultKinds

AllCommands == {"ifeo set", "ifeo clear", "launch", "launch-args", "launch-launcher",
                "launch-unpacked", "inject", "cleanup"}
FaultKinds == {"registry", "create", "inject", "open"}
Game == {"launcher", "goley", "payload", "unpacked"}

ASSUME LaunchAssumption ==
  /\ MaxProcesses \in Nat /\ MaxRequests \in Nat
  /\ Commands \subseteq AllCommands
  /\ UserStarts \subseteq {"wrapper", "launcher", "goley"}
  /\ Faults \subseteq FaultKinds

VARIABLES
  ifeo,      \* images with the wrapper as Debugger
  proc,      \* the processes
  requests   \* what the user has started so far

vars == <<ifeo, proc, requests>>

Pids == 1 .. MaxProcesses

\* pc is the next step of its main; debugged by its creator; apc is queued;
\* hooks are its CreateProcess hooks; added is addedSuspend of its detour;
\* dr3 is its breakpoint on NtCreateUserProcess: not set yet, set, hit (it may
\* still be set in other threads), or cleared after the hit.
\* bare, lost and stopped are history: nobody had undertaken to inject the DLL
\* when it was created; an injection failed; it was created suspended by the
\* breakpoint of a creator that had not asked for it.
Blank == [img |-> "none", st |-> "free", cmd |-> "none", argv |-> <<>>, pc |-> "none",
          child |-> 0, debugged |-> FALSE, dll |-> FALSE, apc |-> FALSE, hooks |-> FALSE,
          added |-> FALSE, sweep |-> 1, hits |-> {}, code |-> 0, dr3 |-> "none",
          bare |-> FALSE, lost |-> FALSE, stopped |-> FALSE]

\* The prefixes cleanup looks for: Goley_, revival_wrapper, unpacked_Goley_.
Prefixes == <<"goley", "wrapper", "unpacked">>

Steps == {"set goley", "set payload", "spawn", "inject", "resume", "wait", "find", "kill",
          "clear", "start", "detach", "run", "apc", "held", "done", "none"}

Images == Game \cup {"wrapper"}

\* A command line: none, a program's name, or the wrapper's with a program's.
Argvs == {<<>>} \cup {<<x>> : x \in Images} \cup {<<"wrapper", x>> : x \in Images}

Process ==
  [img : Images \cup {"tool", "none"}, st : {"free", "suspended", "running", "dead"},
   cmd : AllCommands \cup {"none"},
   argv : Argvs,
   pc : Steps, child : 0 .. MaxProcesses, debugged : BOOLEAN, dll : BOOLEAN, apc : BOOLEAN,
   hooks : BOOLEAN, added : BOOLEAN, sweep : DOMAIN Prefixes, hits : SUBSET Pids,
   code : 0 .. 1, dr3 : {"none", "set", "hit", "clear"},
   bare : BOOLEAN, lost : BOOLEAN, stopped : BOOLEAN]

TypeOK ==
  /\ ifeo \subseteq {"goley", "payload"} /\ requests \in 0 .. MaxRequests
  /\ proc \in [Pids -> Process]
  /\ \A p \in Pids : proc[p].st = "free" <=> proc[p] = Blank

Init == ifeo = {} /\ proc = [p \in Pids |-> Blank] /\ requests = 0

Live(p) == proc[p].st \in {"suspended", "running"}
At(p, img, pc) == proc[p].st = "running" /\ proc[p].img = img /\ proc[p].pc = pc
\* Hooks and breakpoints go with the process.
Gone(r, code) == [r EXCEPT !.st = "dead", !.code = code, !.hooks = FALSE, !.dr3 = "none"]
Ended(r, code) == [Gone(r, code) EXCEPT !.pc = "done"]
Room == {p \in Pids : proc[p].st = "free"}
Fresh == {p \in Room : \A q \in Room : p <= q}     \* the next id, if there is one

-------------------------------------------------------------------------------
(* Windows *)

FirstStep(img) == IF img = "wrapper" THEN "start" ELSE "run"

\* A new process.  The Debugger gets the command line it replaces, with its own
\* path in front or not (wrapper.cpp:211).
Made(exe, argv, suspended, redirected, promised) ==
  LET img == IF redirected THEN "wrapper" ELSE exe IN
  {[Blank EXCEPT !.img = img, !.st = IF suspended THEN "suspended" ELSE "running",
                 !.argv = a, !.pc = FirstStep(img), !.bare = ~redirected /\ ~promised] :
     a \in IF redirected THEN {argv, <<"wrapper", exe>>} ELSE {argv}}

NewProcess(exe, argv, suspended, debug, promised) ==
  {[n EXCEPT !.debugged = debug] : n \in Made(exe, argv, suspended, exe \in ifeo /\ ~debug, promised)}

\* Whether the breakpoint of p fires when p calls NtCreateUserProcess: in a
\* thread where it is set, which need not be the one that calls.
Fires(p) == IF proc[p].dr3 \in {"set", "hit"} THEN BOOLEAN ELSE {FALSE}

\* VehHandler counts the hit.
VehHandler(r, fires) == IF fires THEN [r EXCEPT !.dr3 = "hit"] ELSE r

\* p calls kernel32 and is r after it.  Kernel32 has NtCreateUserProcess create
\* every process suspended and resumes it itself, so that the breakpoint, if it
\* fires, changes nothing for the child.
CreateProcess(p, r, exe, argv, suspended, debug, promised) ==
  \E c \in Fresh, fires \in Fires(p) : \E n \in NewProcess(exe, argv, suspended, debug, promised) :
    proc' = [proc EXCEPT ![c] = n, ![p] = VehHandler([r EXCEPT !.child = c], fires)]

\* InjectIntoProcess and InjectDll.  A child that is still being debugged does
\* not run the remote thread.
Inject(c) ==
  IF ~Live(c) THEN {[ok |-> FALSE, r |-> proc[c]]}
  ELSE {IF proc[c].debugged THEN [ok |-> FALSE, r |-> proc[c]]
                            ELSE [ok |-> TRUE, r |-> [proc[c] EXCEPT !.dll = TRUE]]}
       \cup {[ok |-> FALSE, r |-> [proc[c] EXCEPT !.lost = TRUE]] : f \in Faults \cap {"inject"}}

\* ResumeThread; a queued APC loads the DLL before anything else runs.
Resumed(c) ==
  IF proc[c].st = "suspended" THEN [proc[c] EXCEPT !.st = "running", !.dll = @ \/ proc[c].apc]
                              ELSE proc[c]

\* TerminateProcess.  A debugger that has not yet detached takes its child along.
Victims(q) == {q} \cup {c \in Pids : proc[q].child = c /\ proc[c].debugged}
Terminate(q, table) ==
  [x \in Pids |-> IF x \in Victims(q) /\ Live(x) THEN Gone(table[x], 1) ELSE table[x]]

-------------------------------------------------------------------------------
(* revival_tool *)

FirstOf(cmd) ==
  CASE cmd \in {"ifeo set", "launch", "launch-args", "launch-launcher"} -> "set goley"
    [] cmd = "launch-unpacked" -> "spawn"
    [] cmd = "inject"          -> "inject"
    [] cmd = "cleanup"         -> "find"
    [] cmd = "ifeo clear"      -> "clear"

\* The user gives a command; inject names a process of the game.
Command(cmd) ==
  /\ requests < MaxRequests /\ requests' = requests + 1
  /\ \E c \in IF cmd = "inject" THEN {q \in Pids : Live(q) /\ proc[q].img \in Game} ELSE {0} :
     \E p \in Fresh :
       proc' = [proc EXCEPT ![p] =
         [Blank EXCEPT !.img = "tool", !.st = "running", !.cmd = cmd, !.pc = FirstOf(cmd), !.child = c]]
  /\ UNCHANGED ifeo

\* Or starts a program as Explorer does.
UserStart(exe) ==
  /\ requests < MaxRequests /\ requests' = requests + 1
  /\ \E p \in Fresh : \E n \in NewProcess(exe, <<exe>>, FALSE, FALSE, FALSE) :
       proc' = [proc EXCEPT ![p] = n]
  /\ UNCHANGED ifeo

\* launch gives up when the registry cannot be written; launch-args and
\* launch-launcher do not look.
AfterSet(r, ok) ==
  CASE r.cmd = "ifeo set" -> Ended(r, IF ok THEN 0 ELSE 1)
    [] r.cmd = "launch" /\ ~ok -> Ended(r, 1)
    [] OTHER -> [r EXCEPT !.pc = "spawn"]

IfeoSetDebuggerForImage(p) ==
  \/ /\ At(p, "tool", "set goley")
     /\ ifeo' = ifeo \cup {"goley"} /\ proc' = [proc EXCEPT ![p].pc = "set payload"]
  \/ /\ At(p, "tool", "set payload")
     /\ ifeo' = ifeo \cup {"payload"} /\ proc' = [proc EXCEPT ![p] = AfterSet(@, TRUE)]
  \/ /\ \/ At(p, "tool", "set goley")
        \/ At(p, "tool", "set payload")
     /\ "registry" \in Faults
     /\ proc' = [proc EXCEPT ![p] = AfterSet(@, FALSE)] /\ UNCHANGED ifeo

\* Only the key of Goley_.exe is cleared.
CmdIfeoClear(p) ==
  /\ At(p, "tool", "clear")
  /\ \/ ifeo' = ifeo \ {"goley"}
     \/ "registry" \in Faults /\ UNCHANGED ifeo
  /\ proc' = [proc EXCEPT ![p] = Ended(@, 0)]

CreateFails(p) == "create" \in Faults /\ proc' = [proc EXCEPT ![p] = Ended(@, 1)]

ToolSpawn(p) ==
  /\ At(p, "tool", "spawn")
  /\ LET cmd == proc[p].cmd
         To(pc) == [proc[p] EXCEPT !.pc = pc] IN
     \/ cmd = "launch" /\ CreateProcess(p, To("wait"), "wrapper", <<"wrapper", "goley">>, FALSE, FALSE, FALSE)
     \/ cmd = "launch-args" /\ CreateProcess(p, To("inject"), "goley", <<"goley">>, TRUE, FALSE, TRUE)
     \/ cmd = "launch-launcher" /\ CreateProcess(p, To("inject"), "launcher", <<"launcher">>, TRUE, FALSE, TRUE)
     \/ cmd = "launch-unpacked" /\ CreateProcess(p, To("inject"), "unpacked", <<"unpacked">>, FALSE, FALSE, TRUE)
     \/ CreateFails(p)
  /\ UNCHANGED ifeo

\* As if a child that could not be injected were left as it is.
ToolInjectLeaves(p) ==
  /\ At(p, "tool", "inject")
  /\ LET c == proc[p].child IN
     \E o \in Inject(c) :
       proc' = [proc EXCEPT ![c] = o.r,
                            ![p] = IF o.ok /\ @.cmd \in {"launch-args", "launch-launcher"}
                                     THEN [@ EXCEPT !.pc = "resume"]
                                     ELSE Ended(@, IF o.ok THEN 0 ELSE 1)]
  /\ UNCHANGED ifeo

\* As if it were tried again until it succeeds.
ToolInjectRetries(p) ==
  /\ At(p, "tool", "inject")
  /\ \E o \in Inject(proc[p].child) :
       proc' = [proc EXCEPT ![proc[p].child] = o.r, ![p].pc = IF o.ok THEN "resume" ELSE "inject"]
  /\ UNCHANGED ifeo

\* CmdInject, and the second half of LaunchAndInject and CmdLaunchUnpacked,
\* which terminate a child they could not inject.
ToolInject(p) ==
  /\ At(p, "tool", "inject")
  /\ LET c == proc[p].child
         cmd == proc[p].cmd IN
     \E o \in Inject(c) :
       LET table == [proc EXCEPT ![c] = o.r] IN
       \/ /\ o.ok /\ cmd \in {"launch-args", "launch-launcher"}
          /\ proc' = [table EXCEPT ![p].pc = "resume"]
       \/ /\ o.ok /\ cmd \in {"launch-unpacked", "inject"}
          /\ proc' = [table EXCEPT ![p] = Ended(@, 0)]
       \/ /\ ~o.ok
          /\ proc' = [(IF cmd = "inject" THEN table ELSE Terminate(c, table)) EXCEPT ![p] = Ended(@, 1)]
  /\ UNCHANGED ifeo

ToolResume(p) ==
  /\ At(p, "tool", "resume")
  /\ proc' = [proc EXCEPT ![proc[p].child] = Resumed(proc[p].child), ![p] = Ended(@, 0)]
  /\ UNCHANGED ifeo

\* CmdLaunch waits for its wrapper.
ToolWait(p) ==
  /\ At(p, "tool", "wait") /\ proc[proc[p].child].st = "dead"
  /\ proc' = [proc EXCEPT ![p] = Ended(@, IF proc[proc[p].child].code = 0 THEN 0 ELSE 1)]
  /\ UNCHANGED ifeo

\* CmdCleanup: for each prefix a snapshot, then one process after the other.
FindPidsByPrefix(p) ==
  /\ At(p, "tool", "find")
  /\ proc' = [proc EXCEPT ![p].hits = {q \in Pids : Live(q) /\ proc[q].img = Prefixes[proc[p].sweep]},
                          ![p].pc = "kill"]
  /\ UNCHANGED ifeo

\* As if the last prefix were followed by one more.
CleanupKillOneMore(p) ==
  /\ At(p, "tool", "kill")
  /\ \/ \E q \in proc[p].hits : proc' = Terminate(q, [proc EXCEPT ![p].hits = @ \ {q}])
     \/ proc[p].hits = {} /\ proc' = [proc EXCEPT ![p].sweep = @ + 1, ![p].pc = "find"]
  /\ UNCHANGED ifeo

CleanupKill(p) ==
  /\ At(p, "tool", "kill")
  /\ \/ \E q \in proc[p].hits :
          LET rest == [proc EXCEPT ![p].hits = @ \ {q}] IN
          \/ proc' = Terminate(q, rest)
          \/ "open" \in Faults /\ proc' = rest
     \/ /\ proc[p].hits = {} /\ proc[p].sweep < Len(Prefixes)
        /\ proc' = [proc EXCEPT ![p].sweep = @ + 1, ![p].pc = "find"]
     \/ /\ proc[p].hits = {} /\ proc[p].sweep = Len(Prefixes)
        /\ proc' = [proc EXCEPT ![p].pc = "clear"]
  /\ UNCHANGED ifeo

ToolStep(p) ==
  \/ IfeoSetDebuggerForImage(p) \/ CmdIfeoClear(p)
  \/ ToolSpawn(p) \/ ToolInject(p) \/ ToolResume(p) \/ ToolWait(p)
  \/ FindPidsByPrefix(p) \/ CleanupKill(p)

-------------------------------------------------------------------------------
(* revival_wrapper *)

\* As if argv[0] were taken for the program whatever it is.
ExePathFirst(argv) == argv[1]

\* The program to start: argv[0], or argv[1] when argv[0] is the wrapper.
ExePath(argv) == IF argv[1] = "wrapper" THEN argv[2] ELSE argv[1]

\* It debugs the child, so that Windows does not redirect it again.
WrapperSpawn(p) ==
  /\ At(p, "wrapper", "start")
  /\ \/ proc[p].argv = <<"wrapper">> /\ proc' = [proc EXCEPT ![p] = Ended(@, 1)]
     \/ /\ proc[p].argv # <<"wrapper">>
        /\ LET exe == ExePath(proc[p].argv) IN
           CreateProcess(p, [proc[p] EXCEPT !.pc = "detach"], exe, <<exe>>, TRUE, TRUE, TRUE)
     \/ proc[p].argv # <<"wrapper">> /\ CreateFails(p)
  /\ UNCHANGED ifeo

\* As if the wrapper stayed attached until after the injection.
WrapperStaysAttached(p) ==
  /\ At(p, "wrapper", "detach")
  /\ proc' = [proc EXCEPT ![p].pc = "inject"]
  /\ UNCHANGED ifeo

WrapperDetach(p) ==
  /\ At(p, "wrapper", "detach")
  /\ proc' = [proc EXCEPT ![proc[p].child].debugged = FALSE, ![p].pc = "inject"]
  /\ UNCHANGED ifeo

WrapperInject(p) ==
  /\ At(p, "wrapper", "inject")
  /\ \E o \in Inject(proc[p].child) :
       proc' = [proc EXCEPT ![proc[p].child] = o.r, ![p].pc = "resume"]
  /\ UNCHANGED ifeo

\* Whether the injection succeeded or not.
WrapperResume(p) ==
  /\ At(p, "wrapper", "resume")
  /\ proc' = [proc EXCEPT ![proc[p].child] = [Resumed(proc[p].child) EXCEPT !.debugged = FALSE],
                          ![p].pc = "wait"]
  /\ UNCHANGED ifeo

\* As if the wrapper ended with its own success.
WrapperEndsWithZero(p) ==
  /\ At(p, "wrapper", "wait") /\ proc[proc[p].child].st = "dead"
  /\ proc' = [proc EXCEPT ![p] = Ended(@, 0)]
  /\ UNCHANGED ifeo

WrapperWait(p) ==
  /\ At(p, "wrapper", "wait") /\ proc[proc[p].child].st = "dead"
  /\ proc' = [proc EXCEPT ![p] = Ended(@, proc[proc[p].child].code)]
  /\ UNCHANGED ifeo

WrapperStep(p) ==
  WrapperSpawn(p) \/ WrapperDetach(p) \/ WrapperInject(p) \/ WrapperResume(p) \/ WrapperWait(p)

-------------------------------------------------------------------------------
(* The game, and the patcher DLL within it *)

Running(p) == proc[p].st = "running" /\ proc[p].img \in Game

\* What each program of the game starts; external.
Starts(img) ==
  CASE img = "launcher" -> {"goley"}
    [] img = "goley"    -> {"goley", "payload"}
    [] img = "unpacked" -> {"payload"}
    [] img = "payload"  -> {}

\* The launcher and the payload only observe, the wrapper is left alone.
GameMode(img) == img \in {"goley", "unpacked"}

\* PatchThread, which DllMain starts, installs the CreateProcess hooks some time
\* after the DLL was loaded, before its loop, or fails to.
PatchThread(p) ==
  /\ Live(p) /\ proc[p].dll /\ GameMode(proc[p].img) /\ ~proc[p].hooks /\ proc[p].dr3 = "none"
  /\ proc' = [proc EXCEPT ![p].hooks = TRUE]
  /\ UNCHANGED ifeo

\* SetHardwareBreakpointAllThreads with DR3, which is for one hit.
DR3(dr3) == IF dr3 = "none" THEN "set" ELSE "clear"

\* A round of its loop sets the breakpoint, and takes it away after the hit.  A
\* round that reaches no thread, and threads that come later, are calls for
\* which it does not fire.
RefreshBreakpoints(p) ==
  /\ Live(p) /\ proc[p].dll /\ GameMode(proc[p].img) /\ proc[p].dr3 \in {"none", "hit"}
  /\ proc' = [proc EXCEPT ![p].dr3 = DR3(@)]
  /\ UNCHANGED ifeo

\* The game calls CreateProcess, with CREATE_SUSPENDED or without: before it is
\* hooked, or through the detour of an observer, which only passes the call on.
Spawn(p, exe, suspended) ==
  /\ Running(p) /\ proc[p].pc = "run" /\ exe \in Starts(proc[p].img)
  /\ ~proc[p].hooks
  /\ CreateProcess(p, [proc[p] EXCEPT !.pc = IF suspended THEN "held" ELSE "run"],
                   exe, <<exe>>, suspended, FALSE, FALSE)
  /\ UNCHANGED ifeo

\* The same through the detour, which has the child created suspended.
HookedCreateProcess(p, exe, suspended) ==
  /\ Running(p) /\ proc[p].pc = "run" /\ exe \in Starts(proc[p].img)
  /\ proc[p].hooks
  /\ CreateProcess(p, [proc[p] EXCEPT !.pc = "apc", !.added = ~suspended],
                   exe, <<exe>>, TRUE, FALSE, TRUE)
  /\ UNCHANGED ifeo

\* The child of a direct call that hit the breakpoint.
Stopped(n, suspended, fires) ==
  IF fires /\ ~suspended THEN [n EXCEPT !.st = "suspended", !.stopped = TRUE] ELSE n

\* Goley_ calls NtCreateUserProcess past kernel32 and its hooks, and nobody
\* undertakes to inject.  Whether IFEO redirects such a call is up to Windows.
\* VehHandler adds CREATE_SUSPENDED for the child, once.
SpawnDirect(p, exe, suspended) ==
  /\ Running(p) /\ proc[p].pc = "run" /\ exe \in Starts(proc[p].img) /\ GameMode(proc[p].img)
  /\ \E c \in Fresh, fires \in Fires(p), redirected \in BOOLEAN :
     /\ redirected => exe \in ifeo
     /\ \E n \in Made(exe, <<exe>>, suspended, redirected, FALSE) :
          proc' = [proc EXCEPT
            ![c] = Stopped(n, suspended, fires),
            ![p] = VehHandler([@ EXCEPT !.child = c, !.pc = IF suspended THEN "held" ELSE "run"], fires)]
  /\ UNCHANGED ifeo

\* As if the child were resumed whoever wanted it suspended.
ApcInjectAndResume(p) ==
  /\ Running(p) /\ proc[p].pc = "apc"
  /\ proc' = [proc EXCEPT ![proc[p].child] = [Resumed(proc[p].child) EXCEPT !.dll = TRUE],
                          ![p].pc = IF proc[p].added THEN "run" ELSE "held"]
  /\ UNCHANGED ifeo

\* The result of QueueUserAPC is not looked at.
ApcInjectChild(p) ==
  /\ Running(p) /\ proc[p].pc = "apc"
  /\ LET c == proc[p].child
         q == [proc EXCEPT ![p].pc = IF proc[p].added THEN "resume" ELSE "held"] IN
     \/ proc' = [q EXCEPT ![c].apc = TRUE]
     \/ "inject" \in Faults /\ proc' = [q EXCEPT ![c].lost = TRUE]
  /\ UNCHANGED ifeo

\* The detour resumes what it had suspended itself.
HookResume(p) ==
  /\ Running(p) /\ proc[p].pc = "resume"
  /\ proc' = [proc EXCEPT ![proc[p].child] = Resumed(proc[p].child), ![p].pc = "run"]
  /\ UNCHANGED ifeo

\* The game resumes what it asked to be suspended.
GameResume(p) ==
  /\ Running(p) /\ proc[p].pc = "held"
  /\ proc' = [proc EXCEPT ![proc[p].child] = Resumed(proc[p].child), ![p].pc = "run"]
  /\ UNCHANGED ifeo

GameEnds(p, code) ==
  /\ Running(p) /\ proc[p].pc = "run"
  /\ proc' = [proc EXCEPT ![p] = Ended(@, code)]
  /\ UNCHANGED ifeo

HookStep(p) == ApcInjectChild(p) \/ HookResume(p)

Step(p) == ToolStep(p) \/ WrapperStep(p) \/ HookStep(p)

GameStep(p) ==
  \/ PatchThread(p) \/ RefreshBreakpoints(p) \/ GameResume(p)
  \/ \E exe \in Game, suspended \in BOOLEAN :
       \/ Spawn(p, exe, suspended) \/ HookedCreateProcess(p, exe, suspended)
       \/ SpawnDirect(p, exe, suspended)
  \/ \E code \in 0 .. 1 : GameEnds(p, code)

Next ==
  \/ \E cmd \in Commands : Command(cmd)
  \/ \E exe \in UserStarts : UserStart(exe)
  \/ \E p \in Pids : (Step(p) \/ GameStep(p)) /\ UNCHANGED requests

\* The tool, the wrapper and the detours go on; the user and the game need not.
Fairness == \A p \in Pids : WF_vars(Step(p) /\ UNCHANGED requests)

Spec == Init /\ [][Next]_vars /\ Fairness

-------------------------------------------------------------------------------
(* Properties *)

\* A process that was terminated in the middle of its main.
Killed(p) == proc[p].st = "dead" /\ proc[p].pc # "done"

\* The wrapper never starts the wrapper, however IFEO spelled its command line
\* and whatever IFEO holds when it starts its child ("1163 instance",
\* wrapper.cpp:198 and :214).
NoForkBomb ==
  \A p \in Pids : proc[p].img = "wrapper" /\ proc[p].child # 0 => proc[proc[p].child].img # "wrapper"

\* A Goley_.exe or BinaryTr.bin runs without the DLL only if an injection into
\* it failed, or if it was created without a redirection by someone who does not
\* inject: the user, a game before its hooks, or a game, hooked or not, that
\* calls NtCreateUserProcess directly (left to a watcher that is not in the
\* repository, patcher_main.cpp:200-203).  The redirection, the two injectors
\* and the detour leave no other gap, in whatever order entries are written and
\* removed.
RunsPatched ==
  \A p \in Pids :
    proc[p].st = "running" /\ proc[p].img \in {"goley", "payload"} =>
      proc[p].dll \/ proc[p].lost \/ proc[p].bare

\* Whoever is suspended has a living creator that will resume it, unless the
\* creator was killed (LaunchAndInject's terminate path, the early returns of
\* the wrapper and of the detour), or the breakpoint suspended it: VehHandler
\* does "so we can inject before run" (patcher_main.cpp:393), and nothing in
\* the repository resumes that child of a direct call.
SuspendedHasResumer ==
  \A q \in Pids : proc[q].st = "suspended" /\ ~proc[q].stopped =>
    \E p \in Pids :
      /\ proc[p].child = q
      /\ \/ Live(p) /\ proc[p].pc \in {"detach", "inject", "apc", "resume", "held"}
         \/ Killed(p)

\* A game finds its child as it asked for it: suspended until it resumes it, or
\* not suspended ("so the caller's expectation holds", hook_process.cpp:204),
\* whether or not the detour or the breakpoint suspended it meanwhile.  Only
\* the child of a direct call that hit the breakpoint is not as it was asked
\* for (veh_handler.cpp:71-84).
CallerGetsWhatItAsked ==
  \A p \in Pids : Running(p) /\ proc[p].child # 0 =>
    LET c == proc[p].child IN
    /\ proc[p].pc = "held" => proc[c].st # "running"
    /\ proc[p].pc = "run"  => proc[c].st # "suspended" \/ proc[c].stopped

\* launch succeeds only if a Goley_.exe was started and ended with code 0: its
\* exit code comes through the wrapper unchanged.
LaunchTellsTheTruth ==
  \A p \in Pids :
    proc[p].cmd = "launch" /\ proc[p].pc = "done" /\ proc[p].code = 0 =>
      LET w == proc[p].child IN
      /\ w # 0 /\ proc[w].img = "wrapper" /\ proc[w].child # 0
      /\ LET g == proc[w].child IN proc[g].img = "goley" /\ proc[g].st = "dead" /\ proc[g].code = 0

\* No creator hangs: a child that is suspended for the injection is resumed or
\* terminated, and when the child of the wrapper or of launch has ended, they
\* end too, unless the creator is killed meanwhile.
NoCreatorHangs ==
  \A p \in Pids :
    LET waits == proc[p].pc = "wait" IN
    (Live(p) /\ (proc[p].pc \in {"detach", "inject", "apc", "resume"} \/ (waits /\ ~Live(proc[p].child))))
      ~> (proc[p].pc \in {"run", "held", "done"} \/ (waits /\ Live(proc[p].child)) \/ Killed(p))
===============================================================================
