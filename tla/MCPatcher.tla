------------------------------- MODULE MCPatcher -------------------------------
(* Patcher for TLC: two threads that wait on an event of nProtect (np, stays *)
(* signaled) and on an unnamed auto-reset event (an).  Of the functions it    *)
(* hooks, connect, CreateProcessA and two of the wait functions are exported. *)
EXTENDS Patcher, TLC

CONSTANTS t1, t2, np, an

MCKind == np :> "nprotect" @@ an :> "unnamed"
MCCalls ==
  {<<"WaitForSingleObject", an, "infinite">>, <<"WaitForSingleObject", np, "infinite">>,
   <<"WaitForMultipleObjects", np, "long">>, <<"WaitForSingleObject", an, "short">>}

MCMissing ==
  {"WaitForSingleObjectEx", "CreateProcessW", "gethostbyname", "getaddrinfo",
   "GetCommandLineA", "GetCommandLineW",
   "CreateWindowExA", "CreateWindowExW", "RegisterClassExA", "RegisterClassExW",
   "BT_SaveSnapshot", "BT_SendSnapshot", "BT_SetFlags", "SetParam", "SetParam2",
   "RunProgram", "Load", "GetParam", "ExistsParam", "GetParamCount"}
===============================================================================
