-------------------------------- MODULE Patcher --------------------------------
(***************************************************************************)
(* PatchThread (src/patcher/main/patcher_main.cpp) in a process that has   *)
(* the patcher DLL: it hooks CreateProcess once, and then, as long as the  *)
(* process lives, tries to hook groups of functions whose DLLs the game    *)
(* may not yet have loaded.  The hooks of the wait functions come late;    *)
(* what they do is module WaitHooks, whose threads run beside PatchThread. *)
(*                                                                         *)
(* The hook library is HookTable, which MinHook implements: a function's   *)
(* hook is created off, and then enabled; either may fail.  PatchThread is *)
(* its only caller, so one round over all groups is one step.  Thread       *)
(* dumps, the daemon sweep and the breakpoints of the loop are left out; of *)
(* the breakpoints, the one on process creation is in module Launch.        *)
(***************************************************************************)
EXTENDS WaitHooks

CONSTANTS
  Modes,      \* what the process is, of "game", "launcher", "payload"
  Groups,     \* groups of hooks that are tried, of AllGroups
  Missing,    \* functions their DLLs do not export
  MaxFaults   \* bound: rounds in which calls of the hook library or of Windows fail

\* One Init function each: the DLL and its functions.
InitNetworkHooks == [dll |-> "ws2_32", exports |-> {"connect", "gethostbyname", "getaddrinfo"}]
InitCmdLineHooks == [dll |-> "kernel32", exports |-> {"GetCommandLineA", "GetCommandLineW"}]
InitWindowAuditHooks ==
  [dll |-> "user32",
   exports |-> {"CreateWindowExA", "CreateWindowExW", "RegisterClassExA", "RegisterClassExW"}]
InitBugTrapHooks == [dll |-> "BugTrap", exports |-> {"BT_SaveSnapshot", "BT_SendSnapshot", "BT_SetFlags"}]
InitNMRunParamLauncherHooks == [dll |-> "NMRunParamDLL", exports |-> {"SetParam", "SetParam2", "RunProgram"}]
InitNMRunParamGameHooks ==
  [dll |-> "NMRunParamDLL",
   exports |-> InitNMRunParamLauncherHooks.exports
                 \cup {"Load", "GetParam", "ExistsParam", "GetParamCount"}]
InitWaitHooks == [dll |-> "kernel32", exports |-> WaitFunctions]

Init_(g) ==
  CASE g = "network"        -> InitNetworkHooks
    [] g = "cmdline"        -> InitCmdLineHooks
    [] g = "window"         -> InitWindowAuditHooks
    [] g = "bugtrap"        -> InitBugTrapHooks
    [] g = "nmrun launcher" -> InitNMRunParamLauncherHooks
    [] g = "nmrun game"     -> InitNMRunParamGameHooks
    [] g = "wait"           -> InitWaitHooks

\* The groups of the two observers' loop.
ObserverGroups(m) ==
  {"network", "window"} \cup IF m = "launcher" THEN {"nmrun launcher"} ELSE {}

\* And those of the game's.
GameGroups == {"nmrun game", "network", "cmdline", "window", "bugtrap", "wait"}

GroupsOf(m) == IF m = "game" THEN GameGroups ELSE ObserverGroups(m)

AllGroups == UNION {GroupsOf(m) : m \in {"launcher", "payload", "game"}}
Exports(g) == Init_(g).exports \ Missing
CreateProcess == {"CreateProcessA", "CreateProcessW"} \ Missing
Functions == CreateProcess \cup UNION {Init_(g).exports : g \in AllGroups}

ASSUME PatcherAssumption ==
  /\ Modes \subseteq {"game", "launcher", "payload"}
  /\ Groups \subseteq AllGroups
  /\ MaxFaults \in Nat

VARIABLES
  mode,        \* g_launcherMode, g_payloadMode or neither
  stage,       \* of PatchThread: created, before its loop, in it, or returned
  library,     \* MH_Initialize has succeeded
  loaded,      \* DLLs in the process
  installed,   \* groups whose flag says installed
  late,        \* eight seconds have passed, or two after validation
  faults       \* such calls and rounds so far

patchVars == <<mode, stage, library, loaded, installed, late, faults>>
vars == <<hook, waitVars, patchVars>>

HT == INSTANCE HookTable WITH Targets <- Functions

TypeOK ==
  /\ HT!TypeOK /\ WaitTypeOK
  /\ mode \in Modes /\ stage \in {"created", "before loop", "loop", "returned"}
  /\ library \in BOOLEAN /\ late \in BOOLEAN
  /\ installed \subseteq Groups \cap GroupsOf(mode)
  /\ faults \in 0 .. MaxFaults

Init ==
  /\ HT!Init /\ WaitInit
  /\ mode \in Modes /\ stage = "created" /\ library = FALSE /\ late = FALSE
  /\ loaded = {"kernel32", "user32"} /\ installed = {} /\ faults = 0

-------------------------------------------------------------------------------
\* The hooks after MH_CreateHook and MH_EnableHook of functions fs, of which
\* unmade could not be created and unset not enabled.  A hook that is there
\* already is refused, and left as it is.
Hooked(fs, unmade, unset) ==
  [f \in Functions |->
     IF f \notin fs \/ hook[f] # "none" \/ f \in unmade THEN hook[f]
     ELSE IF f \in unset THEN "off" ELSE "on"]

\* Whether any call fails in this round.
Failing(some) ==
  \/ some /\ faults < MaxFaults /\ faults' = faults + 1
  \/ ~some /\ UNCHANGED faults

\* Without its heap the library refuses every call, and is not asked again for
\* one.  Both hooks are created, then all are enabled in that order, up to the
\* first that fails.  The result is not looked at.
InitCreateProcessHooks ==
  /\ stage = "created" /\ stage' = "before loop"
  /\ \/ library' = FALSE /\ Failing(TRUE) /\ UNCHANGED hook
     \/ /\ library' = TRUE
        /\ \E unmade \in SUBSET CreateProcess :
             LET made == CreateProcess \ unmade IN
             \E unset \in {{}, made, made \ {"CreateProcessA"}} :
               /\ Failing(unmade \cup unset # {})
               /\ hook' = Hooked(CreateProcess, unmade, unset)
  /\ UNCHANGED <<waitVars, mode, loaded, installed, late>>

\* The game's PatchThread needs its module handle and an exception handler, unless
\* DllMain has added it already; without one of them it returns, and no group is
\* ever tried.  The observers go straight on to their loop.
EnterLoop ==
  /\ stage = "before loop"
  /\ \/ stage' = "loop" /\ UNCHANGED faults
     \/ mode = "game" /\ stage' = "returned" /\ Failing(TRUE)
  /\ UNCHANGED <<hook, waitVars, mode, library, loaded, installed, late>>

\* DllMain does not look whether the thread could be created.
NoPatchThread ==
  /\ stage = "created" /\ stage' = "returned" /\ Failing(TRUE)
  /\ UNCHANGED <<hook, waitVars, mode, library, loaded, installed, late>>

\* As if the launcher ran the loop of the game.
DueAnywhere == {g \in Groups \ installed : Init_(g).dll \in loaded /\ (g = "wait" => late)}

Due == {g \in (Groups \cap GroupsOf(mode)) \ installed :
          Init_(g).dll \in loaded /\ (g = "wait" => late)}

\* As if a group were done with once it was tried.
SucceededOnce(g) == TRUE

\* anyOk: a hook was created and enabled in this round.  InitWaitHooks returns
\* nothing and counts as installed.
Succeeded(g) == g = "wait" \/ \E f \in Exports(g) : hook[f] = "none" /\ hook'[f] = "on"

\* One round of the loop.
Round ==
  /\ stage = "loop" /\ Due # {}
  /\ LET fs == IF library THEN UNION {Exports(g) : g \in Due} ELSE {} IN
     \E unmade \in SUBSET {f \in fs : hook[f] = "none"} :
       \E unset \in SUBSET ({f \in fs : hook[f] = "none"} \ unmade) :
         /\ Failing(unmade \cup unset # {})
         /\ hook' = Hooked(fs, unmade, unset)
  /\ installed' = installed \cup {g \in Due : Succeeded(g)}
  /\ UNCHANGED <<waitVars, mode, stage, library, loaded, late>>

\* The game loads a DLL; in game mode PatchThread loads NMRunParamDLL itself,
\* which looks the same.
Load(dll) ==
  /\ dll \notin loaded /\ loaded' = loaded \cup {dll}
  /\ UNCHANGED <<hook, waitVars, mode, stage, library, installed, late, faults>>

Late ==
  /\ stage = "loop" /\ ~late /\ late' = TRUE
  /\ UNCHANGED <<hook, waitVars, mode, stage, library, loaded, installed, faults>>

Next ==
  \/ InitCreateProcessHooks \/ NoPatchThread \/ EnterLoop \/ Round \/ Late
  \/ \E g \in Groups : Load(Init_(g).dll)
  \/ \E t \in Threads : (Call(t) \/ ThreadStep(t)) /\ UNCHANGED <<hook, patchVars>>
  \/ \E o \in Objects : Signal(o) /\ UNCHANGED <<hook, patchVars>>

\* PatchThread, if it was created, and the clock go on, and so does a thread that is
\* in a wait; what the game calls, loads or signals is up to it.
Fairness ==
  /\ WF_vars(InitCreateProcessHooks) /\ WF_vars(EnterLoop) /\ WF_vars(Round) /\ WF_vars(Late)
  /\ \A t \in Threads : WF_vars(ThreadStep(t) /\ UNCHANGED <<hook, patchVars>>)

Spec == Init /\ [][Next]_vars /\ Fairness

-------------------------------------------------------------------------------
(* Properties *)

\* Once a DLL is loaded, however late that is, its group gets a hook, through
\* rounds in which MH_CreateHook failed: a failed round does not end the attempts.
\* Excepted is what leaves no second attempt: there is no PatchThread, or it
\* returned before its loop (module handle or exception handler,
\* patcher_main.cpp:115 and :129); MH_Initialize failed; a hook was created and
\* could not be enabled (MH_CreateHook refuses it ever after); and the wait hooks,
\* which are tried once.
LoadedGetsHooked ==
  \A g \in Groups \ {"wait"} :
    (g \in GroupsOf(mode) /\ Init_(g).dll \in loaded /\ Exports(g) # {})
      ~> (\/ stage = "returned"
          \/ stage # "created" /\ ~library
          \/ \E f \in Exports(g) : hook[f] # "none")
===============================================================================
