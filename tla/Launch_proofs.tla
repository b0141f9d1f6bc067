----------------------------- MODULE Launch_proofs -----------------------------
(***************************************************************************)
(* Proofs about Launch, for any number of processes and commands and any   *)
(* faults: the wrapper is never started by itself, whoever runs unpatched  *)
(* was not to be patched or an injection failed, nobody is left suspended, *)
(* except by the breakpoint on NtCreateUserProcess, and the exit code of   *)
(* launch is that of the game.                                             *)
(*                                                                         *)
(* The invariant speaks of single processes (Self) and of a process and    *)
(* its child (Pair).  Change says what one step may do to the table of     *)
(* processes so that it is kept; one lemma per action shows that the       *)
(* action does no more.                                                    *)
(***************************************************************************)
EXTENDS Launch, TLAPS

WrapperArgvs ==
  {<<"wrapper">>} \cup {<<x>> : x \in Game} \cup {<<"wrapper", x>> : x \in Game}

\* What command cmd may still have to do.
StepsOf(cmd) ==
  CASE cmd = "ifeo set"        -> {"set goley", "set payload", "done"}
    [] cmd = "ifeo clear"      -> {"clear", "done"}
    [] cmd = "launch"          -> {"set goley", "set payload", "spawn", "wait", "done"}
    [] cmd = "launch-args"     -> {"set goley", "set payload", "spawn", "inject", "resume", "done"}
    [] cmd = "launch-launcher" -> {"set goley", "set payload", "spawn", "inject", "resume", "done"}
    [] cmd = "launch-unpacked" -> {"spawn", "inject", "done"}
    [] cmd = "inject"          -> {"inject", "done"}
    [] cmd = "cleanup"         -> {"find", "kill", "clear", "done"}

Unpatched(r) == r.img \in {"goley", "payload"} /\ ~(r.dll \/ r.lost \/ r.bare)

\* The child's process is held by r until r is done with it.
Holds(r) == r.cmd # "inject" /\ r.pc \in {"detach", "inject", "apc", "resume", "held"}

\* A process alone.
Self(r) ==
  /\ r.st = "free" <=> r.img = "none"
  /\ r.st = "free" => r = Blank
  /\ r.img = "tool" => r.cmd \in AllCommands /\ r.pc \in StepsOf(r.cmd) /\ r.st # "suspended"
  /\ r.img # "tool" => r.cmd = "none"
  /\ r.img = "wrapper" =>
       /\ r.pc \in {"start", "detach", "inject", "resume", "wait", "done"}
       /\ r.argv \in WrapperArgvs
  /\ r.img \in Game => r.pc \in {"run", "apc", "resume", "held", "done"}
  /\ r.pc = "done" => r.st = "dead"
  /\ r.st = "dead" /\ r.pc # "done" => r.code = 1
  /\ r.pc \in {"detach", "inject", "resume", "wait", "apc", "held"} => r.child # 0
  /\ r.pc \in {"set goley", "set payload", "spawn", "start", "find", "kill", "clear"} => r.child = 0
  /\ (r.cmd = "launch" \/ r.img = "wrapper") /\ r.pc = "done" /\ r.code = 0 => r.child # 0
  /\ ~(r.st = "running" /\ Unpatched(r))

\* A process r and its child s.
Pair(r, s) ==
  /\ s.st # "free" /\ s.img # "tool"
  /\ r.img = "wrapper" => s.img = ExePath(r.argv) /\ s.img # "wrapper"
  /\ r.img = "wrapper" /\ r.pc = "inject" => ~s.debugged
  /\ r.cmd # "inject" /\ r.pc \in {"resume", "held"} /\ s.st = "suspended" => s.apc \/ ~Unpatched(s)
  /\ r.cmd = "launch" => s.img = "wrapper" /\ s.argv = <<"wrapper", "goley">>
  /\ (r.cmd = "launch" \/ r.img = "wrapper") /\ r.pc = "done" /\ r.code = 0 =>
       s.st = "dead" /\ s.code = 0
  /\ r.cmd = "launch-unpacked" => s.st # "suspended"
  /\ r.img \in Game /\ r.pc \in {"apc", "held"} => s.st # "running"
  /\ r.img \in Game /\ r.pc = "run" => s.st # "suspended" \/ s.stopped

Typed == ifeo \subseteq {"goley", "payload"} /\ requests \in 0 .. MaxRequests

\* Only inject shares a child with its creator.
OneParent ==
  \A p, q \in Pids :
    p # q /\ proc[p].child # 0 /\ proc[p].child = proc[q].child
      => proc[p].cmd = "inject" \/ proc[q].cmd = "inject"

AllHeld ==
  \A q \in Pids : proc[q].st = "suspended" /\ ~proc[q].stopped =>
    \E p \in Pids : proc[p].child = q /\ Holds(proc[p])

Table ==
  /\ proc \in [Pids -> Process]
  /\ \A p \in Pids : Self(proc[p])
  /\ \A p \in Pids : proc[p].child # 0 => proc[p].child # p /\ Pair(proc[p], proc[proc[p].child])
  /\ OneParent
  /\ AllHeld

Inv == Typed /\ Table

\* What a step may do to a process whose creator is not the one that acts, ...
ChildOK(s, n) ==
  /\ n.img = s.img /\ n.argv = s.argv /\ n.st # "free" /\ n.stopped = s.stopped
  /\ n.debugged => s.debugged
  /\ (s.dll => n.dll) /\ (s.lost => n.lost) /\ (s.bare => n.bare) /\ (s.apc => n.apc)
  /\ s.st = "dead" => n.st = "dead" /\ n.code = s.code
  /\ n.st = "suspended" => s.st = "suspended"

Undisturbed(s, n) == ChildOK(s, n) /\ (n.st = "running" => s.st = "running")

\* ... and to one that does not act itself.
ParentOK(r, n) ==
  /\ n.child = r.child /\ n.cmd = r.cmd /\ n.img = r.img /\ n.argv = r.argv /\ n.pc = r.pc
  /\ r.pc = "done" => n.code = r.code

LEMMA Stable ==
  ASSUME NEW r, NEW s, NEW m, NEW n, Pair(r, s), ParentOK(r, m), Undisturbed(s, n)
  PROVE  Pair(m, n)
BY DEF Pair, ParentOK, Undisturbed, ChildOK, Unpatched

LEMMA StableInject ==
  ASSUME NEW r, NEW s, NEW m, NEW n, Self(r), r.img = "tool", Pair(r, s), ParentOK(r, m), ChildOK(s, n),
         r.cmd = "inject"
  PROVE  Pair(m, n)
BY DEF Pair, ParentOK, ChildOK, Game

\* p acts: it takes a step, or is created.  Its child stays, or is a process
\* that was not there; or p injects.
LEMMA Change ==
  ASSUME Table, NEW p \in Pids, proc' \in [Pids -> Process],
         \A q \in Pids : Self(proc'[q]),
         \A q \in Pids \ {p} :
           \/ ParentOK(proc[q], proc'[q])
           \/ proc[q].st = "free" /\ proc'[q].child = 0,
         \A q \in Pids : proc[q].st # "free" =>
           \/ Undisturbed(proc[q], proc'[q])
           \/ ChildOK(proc[q], proc'[q]) /\ proc[p].child = q /\ proc[p].cmd # "inject",
         proc'[p].child # 0 =>
           proc'[p].child # p /\ Pair(proc'[p], proc'[proc'[p].child]),
         \/ proc'[p].child = proc[p].child /\ proc'[p].cmd = proc[p].cmd
         \/ proc'[p].cmd = "inject"
         \/ proc'[p].child # 0 /\ proc[proc'[p].child].st = "free"
         \/ proc'[p].child = 0,
         \A q \in Pids :
           /\ proc'[q].st = "suspended" /\ ~proc'[q].stopped
           /\ proc[q].st = "free" \/ (proc[p].child = q /\ Holds(proc[p]))
           => proc'[p].child = q /\ Holds(proc'[p])
  PROVE  Table'
<1>1. \A q \in Pids : proc[q].child \in Pids \cup {0} /\ proc'[q].child \in Pids \cup {0}
  BY LaunchAssumption DEF Table, Process, Pids
<1>2. \A q \in Pids : proc[q].child # 0 => proc[proc[q].child].st # "free"
  BY DEF Table, Pair
<1>3. ASSUME NEW q \in Pids, proc'[q].child # 0
      PROVE  proc'[q].child # q /\ Pair(proc'[q], proc'[proc'[q].child])
  <2>1. CASE q = p BY <1>3, <2>1
  <2>2. CASE q # p
    <3> DEFINE c == proc[q].child
    <3>1. ParentOK(proc[q], proc'[q]) BY <1>3, <2>2
    <3>2. proc'[q].child = c /\ c # 0 /\ c \in Pids BY <1>1, <1>3, <3>1 DEF ParentOK
    <3>3. Pair(proc[q], proc[c]) /\ c # q /\ proc[c].st # "free" BY <1>2, <3>2 DEF Table
    <3>4. CASE Undisturbed(proc[c], proc'[c]) BY <3>1, <3>2, <3>3, <3>4, Stable
    <3>5. CASE ChildOK(proc[c], proc'[c]) /\ proc[p].child = c /\ proc[p].cmd # "inject"
      <4>1. proc[q].cmd = "inject" BY <2>2, <3>2, <3>5 DEF Table, OneParent
      <4>2. Self(proc[q]) /\ proc[q].img = "tool" BY <4>1 DEF Table, Self
      <4> QED BY <3>1, <3>2, <3>3, <3>5, <4>1, <4>2, StableInject
    <3> QED BY <3>2, <3>3, <3>4, <3>5
  <2> QED BY <2>1, <2>2
<1>4. OneParent'
  <2> SUFFICES ASSUME NEW q \in Pids, NEW u \in Pids, q # u,
                      proc'[q].child # 0, proc'[q].child = proc'[u].child,
                      proc'[q].cmd # "inject", proc'[u].cmd # "inject"
               PROVE  FALSE
    BY DEF OneParent
  <2>1. \A x \in Pids \ {p} : proc'[x].child # 0 =>
          /\ proc[x].child = proc'[x].child /\ proc[x].cmd = proc'[x].cmd
          /\ proc[proc'[x].child].st # "free"
    BY <1>2 DEF ParentOK
  <2>2. CASE q # p /\ u # p BY <2>1, <2>2 DEF Table, OneParent
  <2>3. CASE q = p
    <3>1. proc[u].child = proc'[q].child /\ proc[u].cmd # "inject" /\ proc[proc'[q].child].st # "free"
      BY <2>1, <2>3
    <3>2. proc'[p].child = proc[p].child /\ proc'[p].cmd = proc[p].cmd BY <2>3, <3>1
    <3> QED BY <2>3, <3>1, <3>2 DEF Table, OneParent
  <2>4. CASE u = p
    <3>1. proc[q].child = proc'[u].child /\ proc[q].cmd # "inject" /\ proc[proc'[u].child].st # "free"
      BY <2>1, <2>4
    <3>2. proc'[p].child = proc[p].child /\ proc'[p].cmd = proc[p].cmd BY <2>4, <3>1
    <3> QED BY <2>4, <3>1, <3>2 DEF Table, OneParent
  <2> QED BY <2>2, <2>3, <2>4
<1>5. AllHeld'
  <2> SUFFICES ASSUME NEW q \in Pids, proc'[q].st = "suspended", ~proc'[q].stopped
               PROVE  \E x \in Pids : proc'[x].child = q /\ Holds(proc'[x])
    BY DEF AllHeld
  <2>1. CASE proc[q].st = "free" BY <2>1
  <2>2. CASE proc[q].st # "free"
    <3>1. proc[q].st = "suspended" /\ ~proc[q].stopped BY <2>2 DEF Undisturbed, ChildOK
    <3>2. PICK x \in Pids : proc[x].child = q /\ Holds(proc[x]) BY <3>1 DEF Table, AllHeld
    <3>3. CASE x = p BY <3>2, <3>3
    <3>4. CASE x # p
      <4>1. proc[x].st # "free"
        <5>1. ~Holds(Blank) BY DEF Holds, Blank
        <5>2. proc[x].st = "free" => proc[x] = Blank BY DEF Table, Self
        <5> QED BY <3>2, <5>1, <5>2
      <4>2. ParentOK(proc[x], proc'[x]) BY <3>4, <4>1
      <4> QED BY <3>2, <4>2 DEF ParentOK, Holds
    <3> QED BY <3>3, <3>4
  <2> QED BY <2>1, <2>2
<1> QED BY <1>3, <1>4, <1>5 DEF Table

LEMMA Same ==
  ASSUME NEW r, r.st # "free"
  PROVE  ParentOK(r, r) /\ Undisturbed(r, r)
BY DEF ParentOK, Undisturbed, ChildOK

LEMMA SameParent == ASSUME NEW r PROVE ParentOK(r, r)
BY DEF ParentOK

\* Only p changes.
LEMMA Alone ==
  ASSUME Table, NEW p \in Pids, NEW r \in Process, proc' = [proc EXCEPT ![p] = r],
         Self(r), r.child = proc[p].child, r.cmd = proc[p].cmd, Undisturbed(proc[p], r),
         r.child # 0 => Pair(r, proc[r.child]),
         proc[p].st # "free",
         Holds(proc[p]) => Holds(r)
  PROVE  Table'
<1>1. proc \in [Pids -> Process] /\ proc[p].child \in Pids \cup {0} /\ 0 \notin Pids
  BY LaunchAssumption DEF Table, Process, Pids
<1>2. /\ proc'[p] = r
      /\ \A q \in Pids \ {p} : proc'[q] = proc[q]
  BY <1>1
<1>3. proc' \in [Pids -> Process] BY <1>1
<1>4. \A q \in Pids : Self(proc'[q]) BY <1>2 DEF Table
<1>5. \A q \in Pids \ {p} : ParentOK(proc[q], proc'[q]) BY <1>2, SameParent
<1>6. \A q \in Pids : proc[q].st # "free" => Undisturbed(proc[q], proc'[q]) BY <1>2, Same
<1>7. proc'[p].child # 0 => proc'[p].child # p /\ Pair(proc'[p], proc'[proc'[p].child])
  BY <1>1, <1>2 DEF Table
<1>8. ASSUME NEW q \in Pids, proc'[q].st = "suspended",
             proc[q].st = "free" \/ (proc[p].child = q /\ Holds(proc[p]))
      PROVE  proc'[p].child = q /\ Holds(proc'[p])
  BY <1>2, <1>8
<1> QED BY <1>2, <1>3, <1>4, <1>5, <1>6, <1>7, <1>8, Change

\* p and its child c change.
LEMMA WithChild ==
  ASSUME Table, NEW p \in Pids, NEW c \in Pids, c = proc[p].child,
         NEW r \in Process, NEW s \in Process, proc' = [proc EXCEPT ![c] = s, ![p] = r],
         Self(r), r.child = c, r.cmd = proc[p].cmd, Undisturbed(proc[p], r), proc[p].st # "free",
         Self(s), ParentOK(proc[c], s), ChildOK(proc[c], s),
         Undisturbed(proc[c], s) \/ proc[p].cmd # "inject",
         Pair(r, s),
         s.st = "suspended" /\ Holds(proc[p]) => Holds(r)
  PROVE  Table'
<1>1. proc \in [Pids -> Process] /\ 0 \notin Pids /\ c # p
  BY LaunchAssumption DEF Table, Process, Pids
<1>2. /\ proc'[p] = r /\ proc'[c] = s
      /\ \A q \in Pids \ {p, c} : proc'[q] = proc[q]
  BY <1>1
<1>3. proc' \in [Pids -> Process] BY <1>1
<1>4. \A q \in Pids : Self(proc'[q]) BY <1>2 DEF Table
<1>5. \A q \in Pids \ {p} : ParentOK(proc[q], proc'[q]) BY <1>2, SameParent
<1>6. \A q \in Pids : proc[q].st # "free" =>
        \/ Undisturbed(proc[q], proc'[q])
        \/ ChildOK(proc[q], proc'[q]) /\ proc[p].child = q /\ proc[p].cmd # "inject"
  BY <1>2, Same
<1>7. proc'[p].child # 0 => proc'[p].child # p /\ Pair(proc'[p], proc'[proc'[p].child])
  BY <1>1, <1>2
<1>8. ASSUME NEW q \in Pids, proc'[q].st = "suspended",
             proc[q].st = "free" \/ (proc[p].child = q /\ Holds(proc[p]))
      PROVE  proc'[p].child = q /\ Holds(proc'[p])
  <2>1. proc[c].st # "free" BY <1>1 DEF Table, Pair
  <2> QED BY <1>2, <1>8, <2>1
<1> QED BY <1>2, <1>3, <1>4, <1>5, <1>6, <1>7, <1>8, Change

\* p creates c.
LEMMA Creates ==
  ASSUME Table, NEW p \in Pids, NEW c \in Fresh, NEW r \in Process, NEW n \in Process,
         proc' = [proc EXCEPT ![c] = n, ![p] = r],
         proc[p].st # "free", Self(r), r.child = c, Undisturbed(proc[p], r),
         Self(n), n.child = 0, Pair(r, n), ~Holds(proc[p]),
         n.st = "suspended" /\ ~n.stopped => Holds(r)
  PROVE  Table'
<1>1. proc \in [Pids -> Process] /\ c \in Pids /\ 0 \notin Pids /\ c # p /\ proc[c].st = "free"
  BY LaunchAssumption DEF Table, Pids, Fresh, Room
<1>2. /\ proc'[p] = r /\ proc'[c] = n
      /\ \A q \in Pids \ {p, c} : proc'[q] = proc[q]
  BY <1>1
<1>3. proc' \in [Pids -> Process] BY <1>1
<1>4. \A q \in Pids : Self(proc'[q]) BY <1>2 DEF Table
<1>5. \A q \in Pids \ {p} : \/ ParentOK(proc[q], proc'[q])
                            \/ proc[q].st = "free" /\ proc'[q].child = 0
  BY <1>1, <1>2, SameParent
<1>6. \A q \in Pids : proc[q].st # "free" => Undisturbed(proc[q], proc'[q]) BY <1>1, <1>2, Same
<1>7. proc'[p].child # 0 => proc'[p].child # p /\ Pair(proc'[p], proc'[proc'[p].child])
  BY <1>1, <1>2
<1>8. proc'[p].child # 0 /\ proc[proc'[p].child].st = "free" BY <1>1, <1>2
<1>9. ASSUME NEW q \in Pids, proc'[q].st = "suspended", ~proc'[q].stopped, proc[q].st = "free"
      PROVE  proc'[p].child = q /\ Holds(proc'[p])
  BY <1>1, <1>2, <1>9
<1>10. \A q \in Pids :
         /\ proc'[q].st = "suspended" /\ ~proc'[q].stopped
         /\ proc[q].st = "free" \/ (proc[p].child = q /\ Holds(proc[p]))
         => proc'[p].child = q /\ Holds(proc'[p])
  BY <1>9
<1> QED BY <1>3, <1>4, <1>5, <1>6, <1>7, <1>8, <1>10, Change

\* p appears, as a program started by the user or with an injection to do.
LEMMA Appears ==
  ASSUME Table, NEW p \in Fresh, NEW n \in Process, proc' = [proc EXCEPT ![p] = n],
         Self(n), n.st # "suspended",
         \/ n.child = 0
         \/ /\ n.cmd = "inject" /\ n.child \in Pids /\ proc[n.child].st # "free"
            /\ Pair(n, proc[n.child])
  PROVE  Table'
<1>1. proc \in [Pids -> Process] /\ p \in Pids /\ 0 \notin Pids /\ proc[p].st = "free"
  BY LaunchAssumption DEF Table, Pids, Fresh, Room
<1>2. /\ proc'[p] = n
      /\ \A q \in Pids \ {p} : proc'[q] = proc[q]
  BY <1>1
<1>3. proc' \in [Pids -> Process] BY <1>1
<1>4. \A q \in Pids : Self(proc'[q]) BY <1>2 DEF Table
<1>5. \A q \in Pids \ {p} : \/ ParentOK(proc[q], proc'[q])
                            \/ proc[q].st = "free" /\ proc'[q].child = 0
  BY <1>2, SameParent
<1>6. \A q \in Pids : proc[q].st # "free" =>
        \/ Undisturbed(proc[q], proc'[q])
        \/ ChildOK(proc[q], proc'[q]) /\ proc[p].child = q /\ proc[p].cmd # "inject"
  BY <1>1, <1>2, Same
<1>7. proc'[p].child # 0 => proc'[p].child # p /\ Pair(proc'[p], proc'[proc'[p].child])
  BY <1>1, <1>2
<1>8. ~Holds(proc[p])
  <2>1. proc[p] = Blank BY <1>1 DEF Table, Self
  <2> QED BY <2>1 DEF Blank, Holds
<1>9. ASSUME NEW q \in Pids, proc'[q].st = "suspended" PROVE proc[q].st # "free"
  BY <1>1, <1>2, <1>9
<1>10. proc'[p].cmd = "inject" \/ proc'[p].child = 0 BY <1>2
<1>11. \A q \in Pids :
         /\ proc'[q].st = "suspended"
         /\ proc[q].st = "free" \/ (proc[p].child = q /\ Holds(proc[p]))
         => proc'[p].child = q /\ Holds(proc'[p])
  BY <1>8, <1>9
<1> QED BY <1>1, <1>3, <1>4, <1>5, <1>6, <1>7, <1>10, <1>11, Change

-------------------------------------------------------------------------------
(* The tool *)

LEMMA Basics ==
  ASSUME Table, NEW p \in Pids
  PROVE  /\ proc \in [Pids -> Process] /\ proc[p] \in Process /\ Self(proc[p])
         /\ proc[p].child # 0 =>
              /\ proc[p].child \in Pids /\ proc[p].child # p
              /\ proc[proc[p].child] \in Process /\ Self(proc[proc[p].child])
              /\ Pair(proc[p], proc[proc[p].child])
         /\ proc[p].child = 0 \/ proc[p].child \in Pids
BY LaunchAssumption DEF Table, Process, Pids

\* A step of the tool that has no child yet.
LEMMA ToolAlone ==
  ASSUME Table, NEW p \in Pids, proc[p].st = "running", proc[p].img = "tool",
         proc[p].child = 0, NEW r \in Process, proc' = [proc EXCEPT ![p] = r],
         \/ r.st = "running" /\ r.code = proc[p].code /\ r.pc \in StepsOf(r.cmd)
              /\ r.pc \notin {"inject", "resume", "wait", "done"}
         \/ /\ r.st = "dead" /\ r.pc = "done" /\ r.pc \in StepsOf(r.cmd)
            /\ r.cmd = "launch" => r.code = 1,
         r.img = "tool", r.child = 0, r.cmd = proc[p].cmd, r.argv = proc[p].argv,
         r.dll = proc[p].dll, r.lost = proc[p].lost, r.stopped = proc[p].stopped, r.bare = proc[p].bare, r.apc = proc[p].apc,
         r.debugged = proc[p].debugged
  PROVE  Table'
<1>1. Self(proc[p]) BY DEF Table
<1>2. \A cmd \in AllCommands :
        StepsOf(cmd) \cap {"detach", "apc", "held", "start", "run"} = {}
  BY ZenonT(60) DEF StepsOf, AllCommands
<1>3. Self(r) BY <1>1, <1>2 DEF Self, Unpatched, Game
<1>4. Undisturbed(proc[p], r) BY DEF Undisturbed, ChildOK
<1>5. ~Holds(proc[p])
  <2>1. proc[p].pc \notin {"inject", "resume", "detach", "apc", "held"} BY <1>1 DEF Self
  <2> QED BY <2>1 DEF Holds
<1> QED BY <1>3, <1>4, <1>5, Alone

LEMMA AfterSetIs ==
  ASSUME NEW r
  PROVE  /\ AfterSet(r, TRUE) = IF r.cmd = "ifeo set" THEN Ended(r, 0) ELSE [r EXCEPT !.pc = "spawn"]
         /\ AfterSet(r, FALSE) = IF r.cmd \in {"ifeo set", "launch"} THEN Ended(r, 1)
                                                                  ELSE [r EXCEPT !.pc = "spawn"]
BY DEF AfterSet

LEMMA IfeoSetStays ==
  ASSUME Inv, NEW p \in Pids, IfeoSetDebuggerForImage(p)
  PROVE  Table' /\ ifeo' \subseteq {"goley", "payload"}
<1>1. /\ Table /\ Typed /\ proc[p] \in Process /\ Self(proc[p]) /\ proc \in [Pids -> Process]
      /\ proc[p].st = "running" /\ proc[p].img = "tool"
      /\ proc[p].pc \in {"set goley", "set payload"}
  BY DEF Inv, Table, IfeoSetDebuggerForImage, At
<1>2. /\ proc[p].child = 0 /\ proc[p].cmd \in {"ifeo set", "launch", "launch-args", "launch-launcher"}
  BY <1>1 DEF Self, StepsOf, AllCommands
<1>3. ASSUME NEW r, r \in {AfterSet(proc[p], TRUE), AfterSet(proc[p], FALSE)},
             proc' = [proc EXCEPT ![p] = r]
      PROVE  Table'
  <2>1. \/ r = Ended(proc[p], 0) /\ proc[p].cmd = "ifeo set"
        \/ r = Ended(proc[p], 1) /\ proc[p].cmd \in {"ifeo set", "launch"}
        \/ r = [proc[p] EXCEPT !.pc = "spawn"] /\ proc[p].cmd # "ifeo set"
    BY <1>3, AfterSetIs
  <2>2. CASE r = [proc[p] EXCEPT !.pc = "spawn"] /\ proc[p].cmd # "ifeo set"
    <3>1. r \in Process /\ r.pc = "spawn" /\ r.st = "running" /\ r.code = proc[p].code
      BY <1>1, <2>2 DEF Process, Steps
    <3>2. /\ r.img = "tool" /\ r.child = 0 /\ r.cmd = proc[p].cmd /\ r.argv = proc[p].argv
          /\ r.dll = proc[p].dll /\ r.lost = proc[p].lost /\ r.stopped = proc[p].stopped /\ r.bare = proc[p].bare
          /\ r.apc = proc[p].apc /\ r.debugged = proc[p].debugged
      BY <1>1, <1>2, <2>2 DEF Process
    <3>3. "spawn" \in StepsOf(r.cmd) BY <1>2, <2>2, <3>2 DEF StepsOf
    <3> QED BY <1>1, <1>2, <1>3, <3>1, <3>2, <3>3, ToolAlone
  <2>3. ASSUME NEW code \in 0 .. 1, r = Ended(proc[p], code), proc[p].cmd = "launch" => code = 1,
               proc[p].cmd \in {"ifeo set", "launch"}
        PROVE  Table'
    <3>1. r \in Process /\ r.pc = "done" /\ r.st = "dead" /\ r.code = code
      BY <1>1, <2>3 DEF Ended, Gone, Process, Steps
    <3>2. /\ r.img = "tool" /\ r.child = 0 /\ r.cmd = proc[p].cmd /\ r.argv = proc[p].argv
          /\ r.dll = proc[p].dll /\ r.lost = proc[p].lost /\ r.stopped = proc[p].stopped /\ r.bare = proc[p].bare
          /\ r.apc = proc[p].apc /\ r.debugged = proc[p].debugged
      BY <1>1, <1>2, <2>3 DEF Ended, Gone, Process
    <3>3. "done" \in StepsOf(r.cmd) BY <2>3, <3>2 DEF StepsOf
    <3> QED BY <1>1, <1>2, <1>3, <2>3, <3>1, <3>2, <3>3, ToolAlone, ZenonT(60)
  <2>4. 0 \in 0 .. 1 /\ 1 \in 0 .. 1 OBVIOUS
  <2>5. CASE r = Ended(proc[p], 0) /\ proc[p].cmd = "ifeo set"
    <3>1. proc[p].cmd # "launch" BY <2>5
    <3> QED BY <2>3, <2>4, <2>5, <3>1
  <2>6. CASE r = Ended(proc[p], 1) /\ proc[p].cmd \in {"ifeo set", "launch"} BY <2>3, <2>4, <2>6
  <2> QED BY <2>1, <2>2, <2>5, <2>6
<1>4. ASSUME proc' = [proc EXCEPT ![p].pc = "set payload"], proc[p].pc = "set goley" PROVE Table'
  <2> DEFINE r == [proc[p] EXCEPT !.pc = "set payload"]
  <2>1. proc' = [proc EXCEPT ![p] = r] BY <1>1, <1>4
  <2>2. r \in Process /\ r.pc = "set payload" /\ r.st = "running" /\ r.code = proc[p].code
    BY <1>1 DEF Process, Steps
  <2>3. /\ r.img = "tool" /\ r.child = 0 /\ r.cmd = proc[p].cmd /\ r.argv = proc[p].argv
        /\ r.dll = proc[p].dll /\ r.lost = proc[p].lost /\ r.stopped = proc[p].stopped /\ r.bare = proc[p].bare
        /\ r.apc = proc[p].apc /\ r.debugged = proc[p].debugged
    BY <1>1, <1>2 DEF Process
  <2>4. "set payload" \in StepsOf(r.cmd) BY <1>2, <2>3 DEF StepsOf
  <2> HIDE DEF r
  <2> QED BY <1>1, <1>2, <2>1, <2>2, <2>3, <2>4, ToolAlone
<1>5. Table' BY <1>3, <1>4 DEF IfeoSetDebuggerForImage, At
<1> QED BY <1>1, <1>5 DEF Typed, IfeoSetDebuggerForImage

-------------------------------------------------------------------------------
(* Records after a step *)

LEMMA MovedIs ==
  ASSUME NEW s \in Process, NEW pc \in Steps, s.st # "free"
  PROVE  LET r == [s EXCEPT !.pc = pc] IN
         /\ r \in Process /\ r.pc = pc /\ Undisturbed(s, r)
         /\ r.img = s.img /\ r.st = s.st /\ r.cmd = s.cmd /\ r.argv = s.argv /\ r.child = s.child
         /\ r.code = s.code /\ r.dll = s.dll /\ r.lost = s.lost /\ r.stopped = s.stopped /\ r.bare = s.bare
         /\ r.debugged = s.debugged /\ r.apc = s.apc
<1>1. [s EXCEPT !.pc = pc] \in Process BY DEF Process
<1> QED BY <1>1 DEF Process, Undisturbed, ChildOK

LEMMA EndedIs ==
  ASSUME NEW s \in Process, NEW code \in 0 .. 1, s.st # "free", s.st = "dead" => code = s.code
  PROVE  LET r == Ended(s, code) IN
         /\ r \in Process /\ r.pc = "done" /\ r.st = "dead" /\ r.code = code /\ Undisturbed(s, r)
         /\ r.img = s.img /\ r.cmd = s.cmd /\ r.argv = s.argv /\ r.child = s.child
<1>1. Ended(s, code) \in Process BY DEF Process, Ended, Gone, Steps
<1> QED BY <1>1 DEF Process, Undisturbed, ChildOK, Ended, Gone

LEMMA EndedSelf ==
  ASSUME NEW s \in Process, NEW code \in 0 .. 1, s.st = "running", Self(s),
         (s.cmd = "launch" \/ s.img = "wrapper") /\ code = 0 => s.child # 0
  PROVE  Self(Ended(s, code))
<1> DEFINE r == Ended(s, code)
<1>1. /\ r \in Process /\ r.pc = "done" /\ r.st = "dead" /\ r.code = code
      /\ r.img = s.img /\ r.cmd = s.cmd /\ r.argv = s.argv /\ r.child = s.child
  BY EndedIs
<1>2. \A cmd \in AllCommands : "done" \in StepsOf(cmd) BY DEF AllCommands, StepsOf
<1> HIDE DEF r
<1>3. Self(r) BY <1>1, <1>2 DEF Self
<1> QED BY <1>3 DEF r

\* A process that is terminated, with whatever else was done to it.
LEMMA KilledIs ==
  ASSUME NEW s \in Process, NEW b \in Process, Self(s), Self(b), ParentOK(s, b), Undisturbed(s, b),
         s.st \in {"suspended", "running"}
  PROVE  LET k == Gone(b, 1) IN
         k \in Process /\ Self(k) /\ ParentOK(s, k) /\ Undisturbed(s, k) /\ k.st = "dead"
<1> DEFINE k == Gone(b, 1)
<1>0. 1 \in 0 .. 1 OBVIOUS
<1>1. k \in Process BY <1>0 DEF Process, Gone
<1>2. /\ k.st = "dead" /\ k.code = 1 /\ k.pc = b.pc /\ k.img = b.img /\ k.cmd = b.cmd
      /\ k.argv = b.argv /\ k.child = b.child /\ k.dll = b.dll /\ k.lost = b.lost
      /\ k.stopped = b.stopped /\ k.bare = b.bare /\ k.apc = b.apc /\ k.debugged = b.debugged
  BY DEF Process, Gone
<1>3. b.pc # "done" /\ b.st # "free" BY DEF Self, ParentOK, Undisturbed, ChildOK
<1> HIDE DEF k
<1>4. Self(k) BY <1>2, <1>3 DEF Self
<1>5. ParentOK(s, k) BY <1>2, <1>3 DEF ParentOK
<1>6. Undisturbed(s, k) BY <1>2 DEF Undisturbed, ChildOK
<1> QED BY <1>1, <1>2, <1>4, <1>5, <1>6 DEF k

LEMMA ResumedIs ==
  ASSUME Table, NEW c \in Pids, proc[c].st # "free",
         proc[c].st = "suspended" => proc[c].apc \/ ~Unpatched(proc[c])
  PROVE  LET s == Resumed(c) IN
         /\ s \in Process /\ Self(s) /\ ParentOK(proc[c], s) /\ ChildOK(proc[c], s)
         /\ s.st # "suspended"
<1>1. proc[c] \in Process /\ Self(proc[c]) BY DEF Table
<1>2. CASE proc[c].st # "suspended"
  <2>1. Resumed(c) = proc[c] BY <1>2 DEF Resumed
  <2> QED BY <1>1, <1>2, <2>1, Same DEF Undisturbed
<1>3. CASE proc[c].st = "suspended"
  <2> DEFINE s == [proc[c] EXCEPT !.st = "running", !.dll = @ \/ proc[c].apc]
  <2>1. Resumed(c) = s BY <1>3 DEF Resumed
  <2>2. s \in Process BY <1>1 DEF Process
  <2>3. /\ s.st = "running" /\ s.pc = proc[c].pc /\ s.img = proc[c].img /\ s.cmd = proc[c].cmd
        /\ s.argv = proc[c].argv /\ s.child = proc[c].child /\ s.code = proc[c].code
        /\ s.lost = proc[c].lost /\ s.stopped = proc[c].stopped /\ s.bare = proc[c].bare /\ s.apc = proc[c].apc
        /\ s.debugged = proc[c].debugged
    BY <1>1 DEF Process
  <2>4. s.dll = (proc[c].dll \/ proc[c].apc) BY <1>1 DEF Process
  <2> HIDE DEF s
  <2>5. ~Unpatched(s) BY <1>3, <2>3, <2>4 DEF Unpatched
  <2>6. Self(s) BY <1>1, <1>3, <2>3, <2>5 DEF Self
  <2>7. ParentOK(proc[c], s) /\ ChildOK(proc[c], s) BY <1>3, <2>3, <2>4 DEF ParentOK, ChildOK
  <2> QED BY <2>1, <2>2, <2>3, <2>6, <2>7
<1> QED BY <1>2, <1>3

LEMMA InjectIs ==
  ASSUME Table, NEW c \in Pids, proc[c].st # "free", NEW o \in Inject(c)
  PROVE  /\ o.r \in Process /\ Self(o.r) /\ ParentOK(proc[c], o.r) /\ Undisturbed(proc[c], o.r)
         /\ o.r.st = proc[c].st
         /\ \/ o.ok = TRUE /\ ~Unpatched(o.r)
            \/ o.ok = FALSE /\ (~Unpatched(o.r) \/ proc[c].st = "dead" \/ proc[c].debugged)
<1>1. proc[c] \in Process /\ Self(proc[c]) BY DEF Table
<1> DEFINE d == [proc[c] EXCEPT !.dll = TRUE]
           l == [proc[c] EXCEPT !.lost = TRUE]
<1>2. \/ o = [ok |-> FALSE, r |-> proc[c]] /\ (proc[c].st = "dead" \/ proc[c].debugged)
      \/ o = [ok |-> TRUE, r |-> d]
      \/ o = [ok |-> FALSE, r |-> l]
  <2>1. proc[c].st \in {"dead", "suspended", "running"} BY <1>1 DEF Process
  <2> QED BY <2>1 DEF Inject, Live
<1>3. CASE o = [ok |-> FALSE, r |-> proc[c]] /\ (proc[c].st = "dead" \/ proc[c].debugged)
  BY <1>1, <1>3, Same
<1>4. CASE o = [ok |-> TRUE, r |-> d]
  <2>1. d \in Process BY <1>1 DEF Process
  <2>2. /\ d.dll = TRUE /\ d.st = proc[c].st /\ d.pc = proc[c].pc /\ d.img = proc[c].img
        /\ d.cmd = proc[c].cmd /\ d.argv = proc[c].argv /\ d.child = proc[c].child
        /\ d.code = proc[c].code /\ d.lost = proc[c].lost /\ d.stopped = proc[c].stopped /\ d.bare = proc[c].bare
        /\ d.apc = proc[c].apc /\ d.debugged = proc[c].debugged
    BY <1>1 DEF Process
  <2>3. o.r = d /\ o.ok = TRUE BY <1>4
  <2> HIDE DEF d
  <2>4. ~Unpatched(d) BY <2>2 DEF Unpatched
  <2>5. Self(d) BY <1>1, <2>2, <2>4 DEF Self
  <2>6. ParentOK(proc[c], d) /\ Undisturbed(proc[c], d) BY <2>2 DEF ParentOK, Undisturbed, ChildOK
  <2> QED BY <2>1, <2>2, <2>3, <2>4, <2>5, <2>6
<1>5. CASE o = [ok |-> FALSE, r |-> l]
  <2>1. l \in Process BY <1>1 DEF Process
  <2>2. /\ l.lost = TRUE /\ l.st = proc[c].st /\ l.pc = proc[c].pc /\ l.img = proc[c].img
        /\ l.cmd = proc[c].cmd /\ l.argv = proc[c].argv /\ l.child = proc[c].child
        /\ l.code = proc[c].code /\ l.dll = proc[c].dll /\ l.stopped = proc[c].stopped /\ l.bare = proc[c].bare
        /\ l.apc = proc[c].apc /\ l.debugged = proc[c].debugged
    BY <1>1 DEF Process
  <2>3. o.r = l /\ o.ok = FALSE BY <1>5
  <2> HIDE DEF l
  <2>4. ~Unpatched(l) BY <2>2 DEF Unpatched
  <2>5. Self(l) BY <1>1, <2>2, <2>4 DEF Self
  <2>6. ParentOK(proc[c], l) /\ Undisturbed(proc[c], l) BY <2>2 DEF ParentOK, Undisturbed, ChildOK
  <2> QED BY <2>1, <2>2, <2>3, <2>4, <2>5, <2>6
<1> QED BY <1>2, <1>3, <1>4, <1>5

\* What is to be known of a new process.
MadeOK(n, exe, argv, suspended, redirected, promised) ==
  /\ n \in Process /\ Self(n) /\ n.child = 0 /\ n.img \in Images /\ n.cmd = "none"
  /\ n.st = (IF suspended = TRUE THEN "suspended" ELSE "running") /\ n.stopped = FALSE
  /\ redirected = FALSE => n.img = exe /\ n.argv = argv
  /\ promised = FALSE => ~Unpatched(n)

LEMMA MadeIs ==
  ASSUME NEW exe \in Images, NEW argv,
         IF exe = "wrapper" THEN argv \in {<<"wrapper">>, <<"wrapper", "goley">>} ELSE argv = <<exe>>,
         NEW suspended, NEW redirected, NEW promised,
         suspended = TRUE \/ suspended = FALSE, redirected = TRUE \/ redirected = FALSE,
         redirected = TRUE => exe \in {"goley", "payload"},
         promised = TRUE \/ promised = FALSE,
         promised = FALSE \/ suspended = TRUE \/ exe \notin {"goley", "payload"},
         NEW n \in Made(exe, argv, suspended, redirected, promised)
  PROVE  MadeOK(n, exe, argv, suspended, redirected, promised)
<1> DEFINE img == IF redirected THEN "wrapper" ELSE exe
           bare == ~redirected /\ ~promised
           st == IF suspended THEN "suspended" ELSE "running"
<1>1. PICK a \in (IF redirected THEN {argv, <<"wrapper", exe>>} ELSE {argv}) :
        n = [Blank EXCEPT !.img = img, !.st = st, !.argv = a, !.pc = FirstStep(img), !.bare = bare]
  BY DEF Made
<1>2. img \in Images BY DEF Images
<1>3. a \in {argv, <<"wrapper", exe>>} /\ (~redirected => a = argv)
  BY <1>1
<1>4. Blank \in Process
  BY LaunchAssumption DEF Blank, Process, Argvs, Prefixes, Steps, Images, Pids
<1>5. FirstStep(img) \in Steps /\ FirstStep(img) = (IF img = "wrapper" THEN "start" ELSE "run")
  BY DEF FirstStep, Steps
<1>6. a \in Argvs
  BY <1>3 DEF Argvs, Images, Game
<1>7. /\ bare \in BOOLEAN /\ st \in {"free", "suspended", "running", "dead"}
      /\ img \in Images \cup {"tool", "none"}
      /\ img = (IF redirected = TRUE THEN "wrapper" ELSE exe)
      /\ bare = (redirected = FALSE /\ promised = FALSE)
      /\ st = (IF suspended = TRUE THEN "suspended" ELSE "running")
  BY <1>2
<1> HIDE DEF img, bare, st
<1>8. n \in Process
  BY <1>1, <1>4, <1>5, <1>6, <1>7, ZenonT(60) DEF Process
<1>9. /\ n.img = img /\ n.st = st /\ n.argv = a
      /\ n.pc = FirstStep(img) /\ n.child = 0 /\ n.cmd = "none" /\ n.bare = bare
      /\ n.stopped = FALSE
  BY <1>1, <1>4 DEF Process, Blank
<1>10. img = "wrapper" => a \in WrapperArgvs
  BY <1>3, <1>7 DEF WrapperArgvs, Images, Game
<1>11. promised = FALSE => ~Unpatched(n) BY <1>7, <1>9 DEF Unpatched
<1>12. ~(n.st = "running" /\ Unpatched(n))
  BY <1>7, <1>9, <1>11 DEF Unpatched
<1>13. Self(n)
  BY <1>2, <1>5, <1>7, <1>9, <1>10, <1>12 DEF Self, Images, Game
<1>14. redirected = FALSE => n.img = exe /\ n.argv = argv
  BY <1>3, <1>7, <1>9
<1> QED BY <1>2, <1>7, <1>8, <1>9, <1>11, <1>13, <1>14 DEF MadeOK

NewOK(n, exe, argv, suspended, debug, promised) ==
  /\ n \in Process /\ Self(n) /\ n.child = 0 /\ n.img \in Images /\ n.cmd = "none"
  /\ n.st = (IF suspended = TRUE THEN "suspended" ELSE "running")
  /\ debug = TRUE => n.img = exe
  /\ exe \notin ifeo => n.img = exe /\ n.argv = argv
  /\ promised = FALSE => ~Unpatched(n)

LEMMA NewIs ==
  ASSUME ifeo \subseteq {"goley", "payload"}, NEW exe \in Images, NEW argv,
         IF exe = "wrapper" THEN argv \in {<<"wrapper">>, <<"wrapper", "goley">>} ELSE argv = <<exe>>,
         NEW suspended, NEW debug, NEW promised,
         suspended = TRUE \/ suspended = FALSE, debug = TRUE \/ debug = FALSE,
         promised = TRUE \/ promised = FALSE,
         promised = FALSE \/ suspended = TRUE \/ exe \notin {"goley", "payload"},
         NEW n \in NewProcess(exe, argv, suspended, debug, promised)
  PROVE  NewOK(n, exe, argv, suspended, debug, promised)
<1> DEFINE redirected == exe \in ifeo /\ ~debug
<1>1. PICK m \in Made(exe, argv, suspended, redirected, promised) : n = [m EXCEPT !.debugged = debug]
  BY DEF NewProcess
<1>2. /\ redirected = TRUE \/ redirected = FALSE
      /\ redirected = TRUE => exe \in {"goley", "payload"}
      /\ debug = TRUE \/ exe \notin ifeo => redirected = FALSE
  OBVIOUS
<1> HIDE DEF redirected
<1>3. MadeOK(m, exe, argv, suspended, redirected, promised) BY <1>1, <1>2, MadeIs
<1>4. m \in Process /\ Self(m) BY <1>3 DEF MadeOK
<1>5. /\ n \in Process
      /\ n.img = m.img /\ n.st = m.st /\ n.cmd = m.cmd /\ n.argv = m.argv /\ n.pc = m.pc
      /\ n.child = m.child /\ n.code = m.code /\ n.dll = m.dll /\ n.lost = m.lost /\ n.bare = m.bare
  BY <1>1, <1>4 DEF Process
<1>6. m.st # "free" BY <1>3 DEF MadeOK
<1>7. Self(n) BY <1>4, <1>5, <1>6 DEF Self, Unpatched
<1>8. Unpatched(n) <=> Unpatched(m) BY <1>5 DEF Unpatched
<1> QED BY <1>2, <1>3, <1>5, <1>7, <1>8 DEF MadeOK, NewOK

\* The creator of c, whose breakpoint may have fired, and the detour, which notes
\* whether it added the suspension.
Born(s, pc, c, f) == VehHandler([[s EXCEPT !.pc = pc] EXCEPT !.child = c], f)
BornAdded(s, pc, a, c, f) == VehHandler([[s EXCEPT !.pc = pc, !.added = a] EXCEPT !.child = c], f)

LEMMA VehIs ==
  ASSUME NEW b \in Process, NEW f \in BOOLEAN
  PROVE  LET r == VehHandler(b, f) IN
         /\ r \in Process /\ r.pc = b.pc /\ r.child = b.child
         /\ r.img = b.img /\ r.st = b.st /\ r.cmd = b.cmd /\ r.argv = b.argv /\ r.code = b.code
         /\ r.dll = b.dll /\ r.lost = b.lost /\ r.stopped = b.stopped /\ r.bare = b.bare
         /\ r.debugged = b.debugged /\ r.apc = b.apc
<1>1. CASE f BY <1>1 DEF VehHandler, Process
<1>2. CASE ~f BY <1>2 DEF VehHandler
<1> QED BY <1>1, <1>2

LEMMA BornIs ==
  ASSUME NEW s \in Process, NEW pc \in Steps, NEW c \in Pids, s.st = "running", NEW f \in BOOLEAN
  PROVE  LET r == Born(s, pc, c, f) IN
         /\ r \in Process /\ r.pc = pc /\ r.child = c /\ Undisturbed(s, r)
         /\ r.img = s.img /\ r.st = s.st /\ r.cmd = s.cmd /\ r.argv = s.argv /\ r.code = s.code
         /\ r.dll = s.dll /\ r.lost = s.lost /\ r.stopped = s.stopped /\ r.bare = s.bare
<1> DEFINE b == [[s EXCEPT !.pc = pc] EXCEPT !.child = c]
<1>1. c \in 0 .. MaxProcesses BY LaunchAssumption DEF Pids
<1>2. b \in Process BY <1>1 DEF Process
<1>3. /\ b.pc = pc /\ b.child = c
      /\ b.img = s.img /\ b.st = s.st /\ b.cmd = s.cmd /\ b.argv = s.argv /\ b.code = s.code
      /\ b.dll = s.dll /\ b.lost = s.lost /\ b.stopped = s.stopped /\ b.bare = s.bare
      /\ b.debugged = s.debugged /\ b.apc = s.apc
  BY <1>1 DEF Process
<1> HIDE DEF b
<1>4. LET r == VehHandler(b, f) IN
      /\ r \in Process /\ r.pc = b.pc /\ r.child = b.child
      /\ r.img = b.img /\ r.st = b.st /\ r.cmd = b.cmd /\ r.argv = b.argv /\ r.code = b.code
      /\ r.dll = b.dll /\ r.lost = b.lost /\ r.stopped = b.stopped /\ r.bare = b.bare
      /\ r.debugged = b.debugged /\ r.apc = b.apc
  BY <1>2, VehIs
<1> QED BY <1>3, <1>4 DEF Undisturbed, ChildOK, Born, b

BornOK(s, r, pc, c) ==
  /\ r \in Process /\ r.pc = pc /\ r.child = c /\ Undisturbed(s, r)
  /\ r.img = s.img /\ r.st = s.st /\ r.cmd = s.cmd /\ r.argv = s.argv /\ r.code = s.code
  /\ r.dll = s.dll /\ r.lost = s.lost /\ r.stopped = s.stopped /\ r.bare = s.bare

LEMMA BornAddedIs ==
  ASSUME NEW s \in Process, NEW pc \in Steps, NEW c \in Pids, s.st = "running",
         NEW a, a = TRUE \/ a = FALSE, NEW f \in BOOLEAN
  PROVE  BornOK(s, BornAdded(s, pc, a, c, f), pc, c)
<1> DEFINE b == [[s EXCEPT !.pc = pc, !.added = a] EXCEPT !.child = c]
<1>1. c \in 0 .. MaxProcesses BY LaunchAssumption DEF Pids
<1>2. b \in Process BY <1>1 DEF Process
<1>3. /\ b.pc = pc /\ b.child = c
      /\ b.img = s.img /\ b.st = s.st /\ b.cmd = s.cmd /\ b.argv = s.argv /\ b.code = s.code
      /\ b.dll = s.dll /\ b.lost = s.lost /\ b.stopped = s.stopped /\ b.bare = s.bare
      /\ b.debugged = s.debugged /\ b.apc = s.apc
  BY <1>1 DEF Process
<1> HIDE DEF b
<1>4. LET r == VehHandler(b, f) IN
      /\ r \in Process /\ r.pc = b.pc /\ r.child = b.child
      /\ r.img = b.img /\ r.st = b.st /\ r.cmd = b.cmd /\ r.argv = b.argv /\ r.code = b.code
      /\ r.dll = b.dll /\ r.lost = b.lost /\ r.stopped = b.stopped /\ r.bare = b.bare
      /\ r.debugged = b.debugged /\ r.apc = b.apc
  BY <1>2, VehIs
<1> QED BY <1>3, <1>4 DEF Undisturbed, ChildOK, BornAdded, BornOK, b

-------------------------------------------------------------------------------
(* The tool, step by step *)

LEMMA ToolEnds ==
  ASSUME Table, NEW p \in Pids, proc[p].st = "running", proc[p].img = "tool", proc[p].child = 0,
         NEW code \in 0 .. 1, proc[p].cmd = "launch" => code = 1,
         proc' = [proc EXCEPT ![p] = Ended(proc[p], code)]
  PROVE  Table'
<1> DEFINE r == Ended(proc[p], code)
<1>1. proc[p] \in Process /\ Self(proc[p]) BY Basics
<1>2. /\ r \in Process /\ r.pc = "done" /\ r.st = "dead" /\ r.code = code
      /\ r.img = "tool" /\ r.child = 0 /\ r.cmd = proc[p].cmd /\ Undisturbed(proc[p], r)
  BY <1>1, EndedIs
<1>3. Self(r)
  <2>1. (proc[p].cmd = "launch" \/ proc[p].img = "wrapper") /\ code = 0 => proc[p].child # 0 OBVIOUS
  <2> QED BY <1>1, <2>1, EndedSelf
<1>4. ~Holds(proc[p])
  <2>1. proc[p].pc \notin {"detach", "inject", "apc", "resume", "held"} BY <1>1 DEF Self
  <2> QED BY <2>1 DEF Holds
<1> HIDE DEF r
<1>5. proc' = [proc EXCEPT ![p] = r] BY DEF r
<1> QED BY <1>2, <1>3, <1>4, <1>5, Alone

\* The commands that have a step of theirs to do.
LEMMA CommandOf ==
  ASSUME NEW s \in Process, Self(s), s.img = "tool"
  PROVE  /\ s.pc = "clear"  => s.cmd \in {"ifeo clear", "cleanup"} /\ s.child = 0
         /\ s.pc \in {"find", "kill"} => s.cmd = "cleanup" /\ s.child = 0
         /\ s.pc = "spawn"  => s.cmd \in {"launch", "launch-args", "launch-launcher", "launch-unpacked"}
                               /\ s.child = 0
         /\ s.pc = "inject" => s.cmd \in {"launch-args", "launch-launcher", "launch-unpacked", "inject"}
                               /\ s.child # 0
         /\ s.pc = "resume" => s.cmd \in {"launch-args", "launch-launcher"} /\ s.child # 0
         /\ s.pc = "wait"   => s.cmd = "launch" /\ s.child # 0
BY DEF Self, StepsOf, AllCommands

LEMMA CmdIfeoClearStays ==
  ASSUME Inv, NEW p \in Pids, CmdIfeoClear(p)
  PROVE  Table' /\ ifeo' \subseteq {"goley", "payload"}
<1>1. /\ Table /\ Typed /\ proc[p] \in Process /\ Self(proc[p]) /\ proc \in [Pids -> Process]
      /\ proc[p].st = "running" /\ proc[p].img = "tool" /\ proc[p].pc = "clear"
  BY DEF Inv, Table, CmdIfeoClear, At
<1>2. proc[p].child = 0 /\ proc[p].cmd # "launch" BY <1>1, CommandOf
<1>3. proc' = [proc EXCEPT ![p] = Ended(proc[p], 0)] BY <1>1 DEF CmdIfeoClear
<1>4. 0 \in 0 .. 1 OBVIOUS
<1>5. Table' BY <1>1, <1>2, <1>3, <1>4, ToolEnds
<1> QED BY <1>1, <1>5 DEF Typed, CmdIfeoClear

LEMMA FindPidsStays ==
  ASSUME Inv, NEW p \in Pids, FindPidsByPrefix(p)
  PROVE  Table' /\ ifeo' \subseteq {"goley", "payload"}
<1>1. /\ Table /\ Typed /\ proc[p] \in Process /\ Self(proc[p]) /\ proc \in [Pids -> Process]
      /\ proc[p].st = "running" /\ proc[p].img = "tool" /\ proc[p].pc = "find"
  BY DEF Inv, Table, FindPidsByPrefix, At
<1>2. proc[p].child = 0 /\ proc[p].cmd = "cleanup" BY <1>1, CommandOf
<1> DEFINE H == {q \in Pids : Live(q) /\ proc[q].img = Prefixes[proc[p].sweep]}
           r == [proc[p] EXCEPT !.hits = H, !.pc = "kill"]
<1>3. proc' = [proc EXCEPT ![p] = r] BY <1>1 DEF FindPidsByPrefix
<1>4. H \in SUBSET Pids OBVIOUS
<1> HIDE DEF H
<1>5. r \in Process BY <1>1, <1>4 DEF Process, Steps
<1>6. /\ r.pc = "kill" /\ r.st = "running" /\ r.code = proc[p].code /\ r.img = "tool" /\ r.child = 0
      /\ r.cmd = proc[p].cmd /\ r.argv = proc[p].argv /\ r.dll = proc[p].dll /\ r.lost = proc[p].lost
      /\ r.stopped = proc[p].stopped /\ r.bare = proc[p].bare /\ r.apc = proc[p].apc /\ r.debugged = proc[p].debugged
  BY <1>1, <1>2 DEF Process
<1>7. "kill" \in StepsOf(r.cmd) BY <1>2, <1>6 DEF StepsOf
<1> HIDE DEF r
<1>8. Table' BY <1>1, <1>2, <1>3, <1>5, <1>6, <1>7, ToolAlone
<1> QED BY <1>1, <1>8 DEF Typed, FindPidsByPrefix

LEMMA ToolWaitStays ==
  ASSUME Inv, NEW p \in Pids, ToolWait(p)
  PROVE  Table' /\ ifeo' \subseteq {"goley", "payload"}
<1>1. /\ Table /\ Typed /\ proc[p] \in Process /\ Self(proc[p]) /\ proc \in [Pids -> Process]
      /\ proc[p].st = "running" /\ proc[p].img = "tool" /\ proc[p].pc = "wait"
      /\ proc[proc[p].child].st = "dead"
  BY DEF Inv, Table, ToolWait, At
<1> DEFINE c == proc[p].child
           code == IF proc[c].code = 0 THEN 0 ELSE 1
           r == Ended(proc[p], code)
<1>2. c # 0 /\ proc[p].cmd = "launch" BY <1>1, CommandOf
<1>3. proc' = [proc EXCEPT ![p] = r] BY <1>1 DEF ToolWait
<1>4. code \in 0 .. 1 /\ (code = 0 => proc[c].code = 0) OBVIOUS
<1>5. Pair(proc[p], proc[c]) BY <1>1, <1>2, Basics
<1> HIDE DEF code
<1>6. /\ r \in Process /\ r.pc = "done" /\ r.st = "dead" /\ r.code = code
      /\ r.img = "tool" /\ r.child = c /\ r.cmd = "launch" /\ Undisturbed(proc[p], r)
  BY <1>1, <1>2, <1>4, EndedIs
<1>7. Self(r) BY <1>1, <1>2, <1>4, EndedSelf
<1> HIDE DEF r
<1>8. Pair(r, proc[c]) BY <1>1, <1>2, <1>4, <1>5, <1>6 DEF Pair, Game
<1>9. ~Holds(proc[p]) BY <1>1 DEF Holds
<1>10. Table' BY <1>1, <1>2, <1>3, <1>6, <1>7, <1>8, <1>9, Alone
<1> QED BY <1>1, <1>10 DEF Typed, ToolWait

LEMMA ToolCreates ==
  ASSUME Table, NEW p \in Pids, proc[p].st = "running", proc[p].img = "tool", proc[p].pc = "spawn",
         NEW c \in Fresh, NEW f \in BOOLEAN, NEW n \in Process, Self(n), n.child = 0, n.img \in Images,
         n.st \in {"running", "suspended"}, NEW pc \in {"wait", "inject"}, pc \in StepsOf(proc[p].cmd),
         proc' = [proc EXCEPT ![c] = n, ![p] = Born(proc[p], pc, c, f)],
         proc[p].cmd = "launch" => n.img = "wrapper" /\ n.argv = <<"wrapper", "goley">>,
         proc[p].cmd = "launch-unpacked" => n.st = "running",
         n.st = "suspended" => pc = "inject"
  PROVE  Table'
<1> DEFINE r == Born(proc[p], pc, c, f)
<1>1. proc[p] \in Process /\ Self(proc[p]) /\ c \in Pids /\ 0 \notin Pids
  BY Basics, LaunchAssumption DEF Fresh, Room, Pids
<1>2. pc \in Steps BY DEF Steps
<1>3. /\ r \in Process /\ r.pc = pc /\ r.child = c /\ Undisturbed(proc[p], r)
      /\ r.img = "tool" /\ r.st = "running" /\ r.cmd = proc[p].cmd /\ r.argv = proc[p].argv
  BY <1>1, <1>2, BornIs
<1>4. proc[p].cmd \in {"launch", "launch-args", "launch-launcher", "launch-unpacked"}
  BY <1>1, CommandOf
<1>5. proc' = [proc EXCEPT ![c] = n, ![p] = r] OBVIOUS
<1> HIDE DEF r
<1>6. Self(r) BY <1>1, <1>3 DEF Self, Unpatched, Game
<1>7. Pair(r, n)
  <2>1. n.img # "tool" /\ n.st # "free" BY DEF Images, Game
  <2>2. r.img \notin Game /\ r.pc \notin {"resume", "held", "done"} BY <1>3 DEF Game
  <2> QED BY <1>3, <2>1, <2>2 DEF Pair
<1>8. ~Holds(proc[p]) BY DEF Holds
<1>9. n.st = "suspended" => Holds(r) BY <1>3, <1>4 DEF Holds
<1> QED BY <1>1, <1>3, <1>5, <1>6, <1>7, <1>8, <1>9, Creates

LEMMA ToolSpawnStays ==
  ASSUME Inv, NEW p \in Pids, ToolSpawn(p)
  PROVE  Table' /\ ifeo' \subseteq {"goley", "payload"}
<1>1. /\ Table /\ Typed /\ proc[p] \in Process /\ Self(proc[p]) /\ proc \in [Pids -> Process]
      /\ proc[p].st = "running" /\ proc[p].img = "tool" /\ proc[p].pc = "spawn"
      /\ ifeo \subseteq {"goley", "payload"}
  BY DEF Inv, Typed, Table, ToolSpawn, At
<1> DEFINE To(pc) == [proc[p] EXCEPT !.pc = pc]
<1>2. ASSUME NEW pc \in {"wait", "inject"}, pc \in StepsOf(proc[p].cmd), NEW exe \in Images, NEW argv,
             NEW suspended, NEW promised,
             suspended = TRUE \/ suspended = FALSE, promised = TRUE \/ promised = FALSE,
             CreateProcess(p, To(pc), exe, argv, suspended, FALSE, promised),
             IF exe = "wrapper" THEN argv = <<"wrapper", "goley">> ELSE argv = <<exe>>,
             promised = FALSE \/ suspended = TRUE \/ exe \notin {"goley", "payload"},
             proc[p].cmd = "launch" => exe = "wrapper",
             proc[p].cmd = "launch-unpacked" => suspended = FALSE,
             suspended = TRUE => pc = "inject"
      PROVE  Table'
  <2>1. PICK c \in Fresh, f \in BOOLEAN, n \in NewProcess(exe, argv, suspended, FALSE, promised) :
          proc' = [proc EXCEPT ![c] = n, ![p] = VehHandler([To(pc) EXCEPT !.child = c], f)]
    BY <1>2 DEF CreateProcess, Fires
  <2>2. proc' = [proc EXCEPT ![c] = n, ![p] = Born(proc[p], pc, c, f)] BY <2>1 DEF Born
  <2>3. IF exe = "wrapper" THEN argv \in {<<"wrapper">>, <<"wrapper", "goley">>} ELSE argv = <<exe>>
    BY <1>2
  <2>4. FALSE = TRUE \/ FALSE = FALSE OBVIOUS
  <2>5. ifeo \subseteq {"goley", "payload"} BY <1>1
  <2>6. promised = FALSE \/ suspended = TRUE \/ exe \notin {"goley", "payload"} BY <1>2
  <2>7. NewOK(n, exe, argv, suspended, FALSE, promised)
    <3>1. exe \in Images BY <1>2
    <3>2. suspended = TRUE \/ suspended = FALSE BY <1>2
    <3>3. promised = TRUE \/ promised = FALSE BY <1>2
    <3>4. n \in NewProcess(exe, argv, suspended, FALSE, promised) BY <2>1
    <3> HIDE DEF To
    <3> QED BY <2>3, <2>4, <2>5, <2>6, <3>1, <3>2, <3>3, <3>4, NewIs
  <2>8. /\ n \in Process /\ Self(n) /\ n.child = 0 /\ n.img \in Images
        /\ n.st = (IF suspended = TRUE THEN "suspended" ELSE "running")
        /\ exe \notin ifeo => n.img = exe /\ n.argv = argv
    BY <2>7 DEF NewOK
  <2>9. exe = "wrapper" => n.img = "wrapper" /\ n.argv = <<"wrapper", "goley">> BY <1>1, <1>2, <2>8
  <2> QED BY <1>1, <1>2, <2>2, <2>8, <2>9, ToolCreates
<1>3. TRUE = TRUE /\ FALSE = FALSE OBVIOUS
<1>4. {"wrapper", "goley", "launcher", "unpacked"} \subseteq Images BY DEF Images, Game
<1>5. ASSUME proc[p].cmd = "launch", CreateProcess(p, To("wait"), "wrapper", <<"wrapper", "goley">>, FALSE, FALSE, FALSE)
      PROVE  Table'
  <2>1. "wait" \in StepsOf(proc[p].cmd) BY <1>5 DEF StepsOf
  <2> HIDE DEF To
  <2> QED BY <1>2, <1>3, <1>4, <1>5, <2>1
<1>6. ASSUME proc[p].cmd = "launch-args", CreateProcess(p, To("inject"), "goley", <<"goley">>, TRUE, FALSE, TRUE)
      PROVE  Table'
  <2>1. "inject" \in StepsOf(proc[p].cmd) BY <1>6 DEF StepsOf
  <2> HIDE DEF To
  <2> QED BY <1>2, <1>3, <1>4, <1>6, <2>1
<1>7. ASSUME proc[p].cmd = "launch-launcher", CreateProcess(p, To("inject"), "launcher", <<"launcher">>, TRUE, FALSE, TRUE)
      PROVE  Table'
  <2>1. "inject" \in StepsOf(proc[p].cmd) BY <1>7 DEF StepsOf
  <2> HIDE DEF To
  <2> QED BY <1>2, <1>3, <1>4, <1>7, <2>1
<1>8. ASSUME proc[p].cmd = "launch-unpacked", CreateProcess(p, To("inject"), "unpacked", <<"unpacked">>, FALSE, FALSE, TRUE)
      PROVE  Table'
  <2>1. "inject" \in StepsOf(proc[p].cmd) BY <1>8 DEF StepsOf
  <2> HIDE DEF To
  <2> QED BY <1>2, <1>3, <1>4, <1>8, <2>1
<1>9. ASSUME CreateFails(p) PROVE Table'
  <2>1. proc' = [proc EXCEPT ![p] = Ended(proc[p], 1)] BY <1>1, <1>9 DEF CreateFails
  <2>2. proc[p].child = 0 BY <1>1, CommandOf
  <2>3. 1 \in 0 .. 1 OBVIOUS
  <2> QED BY <1>1, <2>1, <2>2, <2>3, ToolEnds
<1>10. Table' BY <1>5, <1>6, <1>7, <1>8, <1>9 DEF ToolSpawn
<1> QED BY <1>1, <1>10 DEF Typed, ToolSpawn

\* A step of a process that has a child.
LEMMA MovedSelf ==
  ASSUME NEW s \in Process, Self(s), s.st = "running", s.child # 0,
         NEW pc \in {"inject", "resume", "wait", "apc", "held", "run"},
         s.img = "tool" => pc \in StepsOf(s.cmd),
         s.img = "wrapper" => pc \in {"inject", "resume", "wait"},
         s.img \in Game => pc \in {"run", "apc", "resume", "held"}
  PROVE  Self([s EXCEPT !.pc = pc])
<1> DEFINE r == [s EXCEPT !.pc = pc]
<1>1. pc \in Steps BY DEF Steps
<1>2. /\ r.pc = pc /\ r.img = s.img /\ r.st = s.st /\ r.cmd = s.cmd /\ r.argv = s.argv
      /\ r.child = s.child /\ r.code = s.code /\ r.dll = s.dll /\ r.lost = s.lost /\ r.stopped = s.stopped /\ r.bare = s.bare
  BY <1>1, MovedIs
<1> HIDE DEF r
<1>3. Self(r) BY <1>2 DEF Self, Unpatched
<1> QED BY <1>3 DEF r

LEMMA DetachedIs ==
  ASSUME NEW s \in Process, Self(s), s.st # "free"
  PROVE  LET d == [s EXCEPT !.debugged = FALSE] IN
         /\ d \in Process /\ Self(d) /\ ParentOK(s, d) /\ Undisturbed(s, d)
         /\ d.debugged = FALSE /\ d.st = s.st /\ d.img = s.img /\ d.argv = s.argv /\ d.code = s.code
         /\ d.apc = s.apc /\ d.dll = s.dll /\ d.lost = s.lost /\ d.stopped = s.stopped /\ d.bare = s.bare
<1> DEFINE d == [s EXCEPT !.debugged = FALSE]
<1>1. d \in Process BY DEF Process
<1>2. /\ d.debugged = FALSE /\ d.st = s.st /\ d.pc = s.pc /\ d.img = s.img /\ d.cmd = s.cmd
      /\ d.argv = s.argv /\ d.child = s.child /\ d.code = s.code /\ d.apc = s.apc /\ d.dll = s.dll
      /\ d.lost = s.lost /\ d.stopped = s.stopped /\ d.bare = s.bare
  BY DEF Process
<1> HIDE DEF d
<1>3. Self(d) BY <1>2 DEF Self, Unpatched
<1>4. ParentOK(s, d) /\ Undisturbed(s, d) BY <1>2 DEF ParentOK, Undisturbed, ChildOK
<1> QED BY <1>1, <1>2, <1>3, <1>4 DEF d

LEMMA Then ==
  ASSUME NEW s, NEW m, NEW n, ChildOK(s, m), ParentOK(s, m), Undisturbed(m, n), ParentOK(m, n)
  PROVE  ChildOK(s, n) /\ ParentOK(s, n)
BY DEF ChildOK, Undisturbed, ParentOK

LEMMA ToolResumeStays ==
  ASSUME Inv, NEW p \in Pids, ToolResume(p)
  PROVE  Table' /\ ifeo' \subseteq {"goley", "payload"}
<1>1. /\ Table /\ Typed /\ proc[p] \in Process /\ Self(proc[p]) /\ proc \in [Pids -> Process]
      /\ proc[p].st = "running" /\ proc[p].img = "tool" /\ proc[p].pc = "resume"
  BY DEF Inv, Table, ToolResume, At
<1> DEFINE c == proc[p].child
           s == Resumed(c)
           r == Ended(proc[p], 0)
<1>2. c # 0 /\ proc[p].cmd \in {"launch-args", "launch-launcher"} BY <1>1, CommandOf
<1>3. c \in Pids /\ c # p /\ Pair(proc[p], proc[c]) BY <1>1, <1>2, Basics
<1>4. proc' = [proc EXCEPT ![c] = s, ![p] = r] BY <1>1, <1>3 DEF ToolResume
<1>5. proc[c].st # "free" /\ (proc[c].st = "suspended" => proc[c].apc \/ ~Unpatched(proc[c]))
  BY <1>1, <1>2, <1>3 DEF Pair
<1>6. /\ s \in Process /\ Self(s) /\ ParentOK(proc[c], s) /\ ChildOK(proc[c], s) /\ s.st # "suspended"
  BY <1>1, <1>3, <1>5, ResumedIs
<1>7. 0 \in 0 .. 1 OBVIOUS
<1>8. /\ r \in Process /\ r.pc = "done" /\ r.st = "dead" /\ r.code = 0
      /\ r.img = "tool" /\ r.child = c /\ r.cmd = proc[p].cmd /\ Undisturbed(proc[p], r)
  BY <1>1, <1>7, EndedIs
<1>9. Self(r) BY <1>1, <1>2, <1>7, EndedSelf
<1> HIDE DEF r, s
<1>10. Pair(r, s) BY <1>2, <1>3, <1>6, <1>8 DEF Pair, ChildOK, Game
<1>11. Table'
  BY <1>1, <1>2, <1>3, <1>4, <1>6, <1>8, <1>9, <1>10, WithChild
<1> QED BY <1>1, <1>11 DEF Typed, ToolResume

-------------------------------------------------------------------------------
(* The wrapper *)

LEMMA WrapperDetachStays ==
  ASSUME Inv, NEW p \in Pids, WrapperDetach(p)
  PROVE  Table' /\ ifeo' \subseteq {"goley", "payload"}
<1>1. /\ Table /\ Typed /\ proc[p] \in Process /\ Self(proc[p]) /\ proc \in [Pids -> Process]
      /\ proc[p].st = "running" /\ proc[p].img = "wrapper" /\ proc[p].pc = "detach"
  BY DEF Inv, Table, WrapperDetach, At
<1> DEFINE c == proc[p].child
           s == [proc[c] EXCEPT !.debugged = FALSE]
           r == [proc[p] EXCEPT !.pc = "inject"]
<1>2. c # 0 /\ proc[p].cmd = "none" BY <1>1 DEF Self
<1>3. /\ c \in Pids /\ c # p /\ Pair(proc[p], proc[c]) /\ proc[c] \in Process /\ Self(proc[c])
      /\ proc[c].st # "free"
  BY <1>1, <1>2, Basics DEF Pair
<1>4. proc' = [proc EXCEPT ![c] = s, ![p] = r] BY <1>1, <1>3 DEF WrapperDetach
<1>5. /\ s \in Process /\ Self(s) /\ ParentOK(proc[c], s) /\ Undisturbed(proc[c], s)
      /\ s.debugged = FALSE /\ s.st = proc[c].st /\ s.img = proc[c].img
  BY <1>3, DetachedIs
<1>6. "inject" \in Steps BY DEF Steps
<1>7. /\ r \in Process /\ r.pc = "inject" /\ Undisturbed(proc[p], r)
      /\ r.img = "wrapper" /\ r.cmd = "none" /\ r.argv = proc[p].argv /\ r.child = c
  BY <1>1, <1>2, <1>6, MovedIs
<1>8. Self(r) BY <1>1, <1>2, MovedSelf DEF Game
<1> HIDE DEF r, s
<1>9. Pair(r, s) BY <1>1, <1>3, <1>5, <1>7 DEF Pair, Game
<1>10. Holds(r) BY <1>7 DEF Holds
<1>11. ChildOK(proc[c], s) BY <1>5 DEF Undisturbed
<1>12. Table'
  BY <1>1, <1>2, <1>3, <1>4, <1>5, <1>7, <1>8, <1>9, <1>10, <1>11, WithChild
<1> QED BY <1>1, <1>12 DEF Typed, WrapperDetach

LEMMA WrapperInjectStays ==
  ASSUME Inv, NEW p \in Pids, WrapperInject(p)
  PROVE  Table' /\ ifeo' \subseteq {"goley", "payload"}
<1>1. /\ Table /\ Typed /\ proc[p] \in Process /\ Self(proc[p]) /\ proc \in [Pids -> Process]
      /\ proc[p].st = "running" /\ proc[p].img = "wrapper" /\ proc[p].pc = "inject"
  BY DEF Inv, Table, WrapperInject, At
<1> DEFINE c == proc[p].child
           r == [proc[p] EXCEPT !.pc = "resume"]
<1>2. c # 0 /\ proc[p].cmd = "none" BY <1>1 DEF Self
<1>3. /\ c \in Pids /\ c # p /\ Pair(proc[p], proc[c]) /\ proc[c] \in Process /\ Self(proc[c])
      /\ proc[c].st # "free"
  BY <1>1, <1>2, Basics DEF Pair
<1>4. PICK o \in Inject(c) : proc' = [proc EXCEPT ![c] = o.r, ![p].pc = "resume"]
  BY DEF WrapperInject
<1>5. proc' = [proc EXCEPT ![c] = o.r, ![p] = r] BY <1>1, <1>3, <1>4
<1>6. /\ o.r \in Process /\ Self(o.r) /\ ParentOK(proc[c], o.r) /\ Undisturbed(proc[c], o.r)
      /\ ~Unpatched(o.r) \/ proc[c].st = "dead" \/ proc[c].debugged
      /\ o.r.st = proc[c].st
  BY <1>1, <1>3, <1>4, InjectIs
<1>7. ~proc[c].debugged BY <1>1, <1>3 DEF Pair
<1>8. "resume" \in Steps BY DEF Steps
<1>9. /\ r \in Process /\ r.pc = "resume" /\ Undisturbed(proc[p], r)
      /\ r.img = "wrapper" /\ r.cmd = "none" /\ r.argv = proc[p].argv /\ r.child = c
  BY <1>1, <1>2, <1>8, MovedIs
<1>10. Self(r) BY <1>1, <1>2, MovedSelf DEF Game
<1> HIDE DEF r
<1>11. ChildOK(proc[c], o.r) BY <1>6 DEF Undisturbed
<1>12. o.r.st = "suspended" => ~Unpatched(o.r) BY <1>6, <1>7
<1>13. Pair(r, o.r) BY <1>1, <1>3, <1>9, <1>11, <1>12 DEF Pair, ChildOK, Game
<1>14. Holds(r) BY <1>9 DEF Holds
<1>15. Table'
  BY <1>1, <1>2, <1>3, <1>5, <1>6, <1>9, <1>10, <1>11, <1>13, <1>14, WithChild
<1> QED BY <1>1, <1>15 DEF Typed, WrapperInject

LEMMA WrapperResumeStays ==
  ASSUME Inv, NEW p \in Pids, WrapperResume(p)
  PROVE  Table' /\ ifeo' \subseteq {"goley", "payload"}
<1>1. /\ Table /\ Typed /\ proc[p] \in Process /\ Self(proc[p]) /\ proc \in [Pids -> Process]
      /\ proc[p].st = "running" /\ proc[p].img = "wrapper" /\ proc[p].pc = "resume"
  BY DEF Inv, Table, WrapperResume, At
<1> DEFINE c == proc[p].child
           s == [Resumed(c) EXCEPT !.debugged = FALSE]
           r == [proc[p] EXCEPT !.pc = "wait"]
<1>2. c # 0 /\ proc[p].cmd = "none" BY <1>1 DEF Self
<1>3. /\ c \in Pids /\ c # p /\ Pair(proc[p], proc[c]) /\ proc[c] \in Process /\ Self(proc[c])
      /\ proc[c].st # "free"
  BY <1>1, <1>2, Basics DEF Pair
<1>4. proc' = [proc EXCEPT ![c] = s, ![p] = r] BY <1>1, <1>3 DEF WrapperResume
<1>5. proc[c].st = "suspended" => proc[c].apc \/ ~Unpatched(proc[c])
  BY <1>1, <1>2, <1>3 DEF Pair
<1>6. LET m == Resumed(c) IN
      m \in Process /\ Self(m) /\ ParentOK(proc[c], m) /\ ChildOK(proc[c], m) /\ m.st # "suspended"
  BY <1>1, <1>3, <1>5, ResumedIs
<1>7. Resumed(c).st # "free" BY <1>6 DEF ChildOK
<1>8. /\ s \in Process /\ Self(s) /\ ParentOK(Resumed(c), s) /\ Undisturbed(Resumed(c), s)
      /\ s.st = Resumed(c).st
  BY <1>6, <1>7, DetachedIs
<1>9. ParentOK(proc[c], s) /\ ChildOK(proc[c], s) BY <1>6, <1>8, Then
<1>10. s.st # "suspended" BY <1>6, <1>8
<1>11. "wait" \in Steps BY DEF Steps
<1>12. /\ r \in Process /\ r.pc = "wait" /\ Undisturbed(proc[p], r)
       /\ r.img = "wrapper" /\ r.cmd = "none" /\ r.argv = proc[p].argv /\ r.child = c
  BY <1>1, <1>2, <1>11, MovedIs
<1>13. Self(r) BY <1>1, <1>2, MovedSelf DEF Game
<1> HIDE DEF r, s
<1>14. Pair(r, s) BY <1>1, <1>3, <1>9, <1>10, <1>12 DEF Pair, ChildOK, Game
<1>15. Table'
  BY <1>1, <1>2, <1>3, <1>4, <1>8, <1>9, <1>10, <1>12, <1>13, <1>14, WithChild
<1> QED BY <1>1, <1>15 DEF Typed, WrapperResume

LEMMA WrapperWaitStays ==
  ASSUME Inv, NEW p \in Pids, WrapperWait(p)
  PROVE  Table' /\ ifeo' \subseteq {"goley", "payload"}
<1>1. /\ Table /\ Typed /\ proc[p] \in Process /\ Self(proc[p]) /\ proc \in [Pids -> Process]
      /\ proc[p].st = "running" /\ proc[p].img = "wrapper" /\ proc[p].pc = "wait"
      /\ proc[proc[p].child].st = "dead"
  BY DEF Inv, Table, WrapperWait, At
<1> DEFINE c == proc[p].child
           r == Ended(proc[p], proc[c].code)
<1>2. c # 0 /\ proc[p].cmd = "none" BY <1>1 DEF Self
<1>3. c \in Pids /\ c # p /\ Pair(proc[p], proc[c]) /\ proc[c] \in Process
  BY <1>1, <1>2, Basics
<1>4. proc[c].code \in 0 .. 1 BY <1>3 DEF Process
<1>5. proc' = [proc EXCEPT ![p] = r] BY <1>1 DEF WrapperWait
<1>6. /\ r \in Process /\ r.pc = "done" /\ r.st = "dead" /\ r.code = proc[c].code
      /\ r.img = "wrapper" /\ r.child = c /\ r.cmd = "none" /\ r.argv = proc[p].argv
      /\ Undisturbed(proc[p], r)
  BY <1>1, <1>2, <1>4, EndedIs
<1>7. Self(r) BY <1>1, <1>2, <1>4, EndedSelf
<1> HIDE DEF r
<1>8. Pair(r, proc[c]) BY <1>1, <1>3, <1>6 DEF Pair, Game
<1>9. ~Holds(proc[p]) BY <1>1 DEF Holds
<1>10. Table' BY <1>1, <1>2, <1>5, <1>6, <1>7, <1>8, <1>9, Alone
<1> QED BY <1>1, <1>10 DEF Typed, WrapperWait

-------------------------------------------------------------------------------
(* Processes that are terminated *)

\* What a step may leave of the table before the processes are terminated.
LEMMA Terminated ==
  ASSUME Table, NEW q \in Pids, NEW table \in [Pids -> Process],
         \A x \in Pids : Self(table[x]) /\ ParentOK(proc[x], table[x]),
         \A x \in Pids : proc[x].st # "free" => Undisturbed(proc[x], table[x]),
         \A x \in Pids : proc[x].st = "free" => table[x] = proc[x]
  PROVE  LET t == Terminate(q, table) IN
         /\ t \in [Pids -> Process]
         /\ \A x \in Pids : Self(t[x]) /\ ParentOK(proc[x], t[x])
         /\ \A x \in Pids : proc[x].st # "free" => Undisturbed(proc[x], t[x])
         /\ \A x \in Pids : proc[x].st = "free" => t[x] = proc[x]
         /\ \A x \in Pids \ Victims(q) : t[x] = table[x]
         /\ proc[q].st # "free" => t[q].st = "dead"
<1> DEFINE t == Terminate(q, table)
           k(x) == Gone(table[x], 1)
<1>1. t = [x \in Pids |-> IF x \in Victims(q) /\ Live(x) THEN k(x) ELSE table[x]]
  BY DEF Terminate
<1>2. ASSUME NEW x \in Pids, Live(x)
      PROVE  k(x) \in Process /\ Self(k(x)) /\ ParentOK(proc[x], k(x)) /\ Undisturbed(proc[x], k(x))
             /\ k(x).st = "dead"
  <2>1. proc[x] \in Process /\ Self(proc[x]) BY Basics
  <2>2. proc[x].st \in {"suspended", "running"} /\ proc[x].st # "free" BY <1>2 DEF Live
  <2>3. table[x] \in Process OBVIOUS
  <2>4. Self(table[x]) /\ ParentOK(proc[x], table[x]) /\ Undisturbed(proc[x], table[x]) BY <2>2
  <2> QED BY <2>1, <2>2, <2>3, <2>4, KilledIs
<1> HIDE DEF t, k
<1>3. \A x \in Pids : (t[x] = k(x) /\ x \in Victims(q) /\ Live(x)) \/ t[x] = table[x]
  BY <1>1
<1>4. t \in [Pids -> Process] BY <1>1, <1>2
<1>5. \A x \in Pids : Self(t[x]) /\ ParentOK(proc[x], t[x]) BY <1>2, <1>3
<1>6. \A x \in Pids : proc[x].st # "free" => Undisturbed(proc[x], t[x]) BY <1>2, <1>3
<1>7. \A x \in Pids : proc[x].st = "free" => t[x] = proc[x] BY <1>3 DEF Live
<1>8. \A x \in Pids \ Victims(q) : t[x] = table[x] BY <1>3
<1>9. proc[q].st # "free" => t[q].st = "dead"
  <2>1. CASE Live(q) BY <1>1, <1>2, <2>1 DEF Victims
  <2>2. CASE ~Live(q) /\ proc[q].st # "free"
    <3>1. proc[q].st = "dead" BY <2>2, Basics DEF Live, Process
    <3>2. t[q] = table[q] BY <1>3, <2>2
    <3>3. Undisturbed(proc[q], table[q]) BY <2>2
    <3> QED BY <3>1, <3>2, <3>3 DEF Undisturbed, ChildOK
  <2> QED BY <2>1, <2>2
<1> QED BY <1>4, <1>5, <1>6, <1>7, <1>8, <1>9 DEF t

LEMMA CleanupKillStays ==
  ASSUME Inv, NEW p \in Pids, CleanupKill(p)
  PROVE  Table' /\ ifeo' \subseteq {"goley", "payload"}
<1>1. /\ Table /\ Typed /\ proc[p] \in Process /\ Self(proc[p]) /\ proc \in [Pids -> Process]
      /\ proc[p].st = "running" /\ proc[p].img = "tool" /\ proc[p].pc = "kill"
  BY DEF Inv, Table, CleanupKill, At
<1>2. proc[p].child = 0 /\ proc[p].cmd = "cleanup" BY <1>1, CommandOf
<1>3. ~Holds(proc[p]) BY <1>1 DEF Holds
<1> DEFINE Next1(q) == [proc[p] EXCEPT !.hits = @ \ {q}]
           rest(q) == [proc EXCEPT ![p] = Next1(q)]
<1>4. ASSUME NEW q \in proc[p].hits
      PROVE  LET r == Next1(q) IN
             /\ q \in Pids /\ r \in Process /\ r.pc = "kill" /\ r.st = "running" /\ r.code = proc[p].code
             /\ r.img = "tool" /\ r.child = 0 /\ r.cmd = "cleanup" /\ r.argv = proc[p].argv
             /\ r.dll = proc[p].dll /\ r.lost = proc[p].lost
             /\ r.stopped = proc[p].stopped /\ r.bare = proc[p].bare /\ r.apc = proc[p].apc /\ r.debugged = proc[p].debugged
  <2>1. proc[p].hits \ {q} \in SUBSET Pids /\ q \in Pids BY <1>1, <1>4 DEF Process
  <2>2. Next1(q) \in Process BY <1>1, <2>1 DEF Process
  <2> QED BY <1>1, <1>2, <2>1, <2>2 DEF Process
<1>5. \A cmd : cmd = "cleanup" => "kill" \in StepsOf(cmd) /\ "find" \in StepsOf(cmd) /\ "clear" \in StepsOf(cmd)
  BY DEF StepsOf
<1>6. ASSUME NEW q \in proc[p].hits, proc' = rest(q) PROVE Table'
  <2> DEFINE r == Next1(q)
  <2>1. proc' = [proc EXCEPT ![p] = r] BY <1>6
  <2>2. /\ r \in Process /\ r.pc = "kill" /\ r.st = "running" /\ r.code = proc[p].code
        /\ r.img = "tool" /\ r.child = 0 /\ r.cmd = proc[p].cmd /\ r.argv = proc[p].argv
        /\ r.dll = proc[p].dll /\ r.lost = proc[p].lost
        /\ r.stopped = proc[p].stopped /\ r.bare = proc[p].bare /\ r.apc = proc[p].apc /\ r.debugged = proc[p].debugged
    BY <1>2, <1>4, <1>6
  <2>3. r.pc \in StepsOf(r.cmd) BY <1>2, <1>5, <2>2
  <2> HIDE DEF r
  <2> QED BY <1>1, <1>2, <2>1, <2>2, <2>3, ToolAlone
<1>7. ASSUME NEW q \in proc[p].hits, proc' = Terminate(q, rest(q)) PROVE Table'
  <2> DEFINE r == Next1(q)
             table == rest(q)
  <2>1. /\ q \in Pids /\ r \in Process /\ r.pc = "kill" /\ r.st = "running" /\ r.code = proc[p].code
        /\ r.img = "tool" /\ r.child = 0 /\ r.cmd = "cleanup" /\ r.argv = proc[p].argv
        /\ r.dll = proc[p].dll /\ r.lost = proc[p].lost
        /\ r.stopped = proc[p].stopped /\ r.bare = proc[p].bare /\ r.apc = proc[p].apc /\ r.debugged = proc[p].debugged
    BY <1>4, <1>7
  <2>2. proc' = Terminate(q, table) BY <1>7
  <2> HIDE DEF Next1
  <2>3. table \in [Pids -> Process] /\ table[p] = r /\ \A x \in Pids \ {p} : table[x] = proc[x]
    BY <1>1, <2>1
  <2> HIDE DEF r, table
  <2>4. Self(r)
    <3>1. "kill" \in StepsOf("cleanup") BY <1>5
    <3> QED BY <1>1, <1>2, <2>1, <3>1 DEF Self, Unpatched, Game
  <2>5. ParentOK(proc[p], r) /\ Undisturbed(proc[p], r)
    BY <1>1, <1>2, <2>1 DEF ParentOK, Undisturbed, ChildOK
  <2>6. \A x \in Pids : Self(table[x]) /\ ParentOK(proc[x], table[x])
    BY <2>3, <2>4, <2>5, SameParent, <1>1 DEF Table
  <2>7. \A x \in Pids : proc[x].st # "free" => Undisturbed(proc[x], table[x]) BY <2>3, <2>5, Same
  <2>8. \A x \in Pids : proc[x].st = "free" => table[x] = proc[x] BY <1>1, <2>3
  <2>9. /\ proc' \in [Pids -> Process]
        /\ \A x \in Pids : Self(proc'[x]) /\ ParentOK(proc[x], proc'[x])
        /\ \A x \in Pids : proc[x].st # "free" => Undisturbed(proc[x], proc'[x])
        /\ \A x \in Pids : proc[x].st = "free" => proc'[x] = proc[x]
    BY <1>1, <2>1, <2>2, <2>3, <2>6, <2>7, <2>8, Terminated
  <2>10. proc'[p].child = 0 BY <1>2, <2>9 DEF ParentOK
  <2>11. \A x \in Pids :
           /\ proc'[x].st = "suspended"
           /\ proc[x].st = "free" \/ (proc[p].child = x /\ Holds(proc[p]))
           => proc'[p].child = x /\ Holds(proc'[p])
    BY <1>3, <2>9
  <2> QED BY <1>1, <2>9, <2>10, <2>11, Change
<1>8. ASSUME NEW pc \in {"find", "clear"}, NEW sweep \in DOMAIN Prefixes,
             proc' = [proc EXCEPT ![p] = [proc[p] EXCEPT !.sweep = sweep, !.pc = pc]]
      PROVE  Table'
  <2> DEFINE r == [proc[p] EXCEPT !.sweep = sweep, !.pc = pc]
  <2>1. pc \in Steps BY DEF Steps
  <2>2. r \in Process BY <1>1, <2>1 DEF Process
  <2>3. /\ r.pc = pc /\ r.st = "running" /\ r.code = proc[p].code
        /\ r.img = "tool" /\ r.child = 0 /\ r.cmd = proc[p].cmd /\ r.argv = proc[p].argv
        /\ r.dll = proc[p].dll /\ r.lost = proc[p].lost
        /\ r.stopped = proc[p].stopped /\ r.bare = proc[p].bare /\ r.apc = proc[p].apc /\ r.debugged = proc[p].debugged
    BY <1>1, <1>2 DEF Process
  <2>4. r.pc \in StepsOf(r.cmd) BY <1>2, <1>5, <2>3
  <2>5. proc' = [proc EXCEPT ![p] = r] BY <1>8
  <2> HIDE DEF r
  <2>6. r.pc \notin {"inject", "resume", "wait", "done"} BY <2>3
  <2> QED BY <1>1, <1>2, <2>2, <2>3, <2>4, <2>5, <2>6, ToolAlone
<1>9. ASSUME proc' = [proc EXCEPT ![p].sweep = @ + 1, ![p].pc = "find"], proc[p].sweep < Len(Prefixes)
      PROVE  Table'
  <2>1. proc[p].sweep \in 1 .. 3 /\ Len(Prefixes) = 3 /\ DOMAIN Prefixes = 1 .. 3
    BY <1>1 DEF Process, Prefixes
  <2>2. proc[p].sweep + 1 \in DOMAIN Prefixes BY <1>9, <2>1
  <2>3. proc' = [proc EXCEPT ![p] = [proc[p] EXCEPT !.sweep = proc[p].sweep + 1, !.pc = "find"]]
    BY <1>1, <1>9
  <2> QED BY <1>8, <2>2, <2>3
<1>10. ASSUME proc' = [proc EXCEPT ![p].pc = "clear"] PROVE Table'
  <2>1. proc[p].sweep \in DOMAIN Prefixes BY <1>1 DEF Process
  <2>2. proc' = [proc EXCEPT ![p] = [proc[p] EXCEPT !.sweep = proc[p].sweep, !.pc = "clear"]]
    BY <1>1, <1>10 DEF Process
  <2> QED BY <1>8, <2>1, <2>2
<1>11. \A q \in proc[p].hits : [proc EXCEPT ![p].hits = @ \ {q}] = rest(q) BY <1>1
<1> HIDE DEF rest
<1>12. Table' BY <1>6, <1>7, <1>9, <1>10, <1>11 DEF CleanupKill
<1> QED BY <1>1, <1>12 DEF Typed, CleanupKill

LEMMA ToolInjectStays ==
  ASSUME Inv, NEW p \in Pids, ToolInject(p)
  PROVE  Table' /\ ifeo' \subseteq {"goley", "payload"}
<1>1. /\ Table /\ Typed /\ proc[p] \in Process /\ Self(proc[p]) /\ proc \in [Pids -> Process]
      /\ proc[p].st = "running" /\ proc[p].img = "tool" /\ proc[p].pc = "inject"
  BY DEF Inv, Table, ToolInject, At
<1> DEFINE c == proc[p].child
           cmd == proc[p].cmd
           table(o) == [proc EXCEPT ![c] = o.r]
<1>2. c # 0 /\ cmd \in {"launch-args", "launch-launcher", "launch-unpacked", "inject"}
  BY <1>1, CommandOf
<1>3. /\ c \in Pids /\ c # p /\ Pair(proc[p], proc[c]) /\ proc[c] \in Process /\ Self(proc[c])
      /\ proc[c].st # "free"
  BY <1>1, <1>2, Basics DEF Pair
<1>4. PICK o \in Inject(c) :
        \/ /\ o.ok = TRUE /\ cmd \in {"launch-args", "launch-launcher"}
           /\ proc' = [table(o) EXCEPT ![p].pc = "resume"]
        \/ /\ cmd \in {"launch-unpacked", "inject"}
           /\ proc' = [table(o) EXCEPT ![p] = Ended(@, 0)]
        \/ /\ cmd = "inject"
           /\ proc' = [table(o) EXCEPT ![p] = Ended(@, 1)]
        \/ /\ cmd # "inject"
           /\ proc' = [Terminate(c, table(o)) EXCEPT ![p] = Ended(@, 1)]
  <2>1. PICK o \in Inject(c) :
        \/ /\ o.ok /\ cmd \in {"launch-args", "launch-launcher"}
           /\ proc' = [table(o) EXCEPT ![p].pc = "resume"]
        \/ /\ o.ok /\ cmd \in {"launch-unpacked", "inject"}
           /\ proc' = [table(o) EXCEPT ![p] = Ended(@, 0)]
        \/ /\ ~o.ok
           /\ proc' = [(IF cmd = "inject" THEN table(o) ELSE Terminate(c, table(o)))
                         EXCEPT ![p] = Ended(@, 1)]
    BY DEF ToolInject
  <2>2. o.ok = TRUE \/ o.ok = FALSE BY <1>1, <1>3, <2>1, InjectIs
  <2> HIDE DEF table, cmd
  <2> QED BY <2>1, <2>2
<1>5. /\ o.r \in Process /\ Self(o.r) /\ ParentOK(proc[c], o.r) /\ Undisturbed(proc[c], o.r)
      /\ o.r.st = proc[c].st
      /\ o.ok = TRUE => ~Unpatched(o.r)
  BY <1>1, <1>3, <1>4, InjectIs
<1>6. ChildOK(proc[c], o.r) BY <1>5 DEF Undisturbed
<1>7. table(o)[p] = proc[p] /\ table(o) \in [Pids -> Process] /\ table(o)[c] = o.r
      /\ \A x \in Pids \ {c} : table(o)[x] = proc[x]
  BY <1>1, <1>3, <1>5
<1>8. ASSUME o.ok = TRUE, cmd \in {"launch-args", "launch-launcher"},
             proc' = [table(o) EXCEPT ![p].pc = "resume"]
      PROVE  Table'
  <2> DEFINE r == [proc[p] EXCEPT !.pc = "resume"]
  <2>1. proc' = [proc EXCEPT ![c] = o.r, ![p] = r] BY <1>1, <1>7, <1>8
  <2>2. "resume" \in Steps BY DEF Steps
  <2>3. /\ r \in Process /\ r.pc = "resume" /\ Undisturbed(proc[p], r)
        /\ r.img = "tool" /\ r.cmd = cmd /\ r.child = c
    BY <1>1, <2>2, MovedIs
  <2>4. "resume" \in StepsOf(cmd) BY <1>8 DEF StepsOf
  <2>5. Self(r) BY <1>1, <1>2, <2>4, MovedSelf DEF Game
  <2> HIDE DEF r
  <2>6. Pair(r, o.r) BY <1>3, <1>5, <1>6, <1>8, <2>3 DEF Pair, ChildOK, Game
  <2>7. Holds(r) BY <1>8, <2>3 DEF Holds
  <2> QED BY <1>1, <1>3, <1>5, <1>6, <2>1, <2>3, <2>5, <2>6, <2>7, WithChild
<1>9. ASSUME NEW code \in 0 .. 1, proc' = [table(o) EXCEPT ![p] = Ended(@, code)],
             cmd \in {"launch-unpacked", "inject"}
      PROVE  Table'
  <2> DEFINE r == Ended(proc[p], code)
  <2>1. proc' = [proc EXCEPT ![c] = o.r, ![p] = r] BY <1>1, <1>7, <1>9
  <2>2. /\ r \in Process /\ r.pc = "done" /\ r.st = "dead" /\ r.code = code
        /\ r.img = "tool" /\ r.child = c /\ r.cmd = cmd /\ Undisturbed(proc[p], r)
    BY <1>1, <1>9, EndedIs
  <2>3. Self(r) BY <1>1, <1>2, <1>9, EndedSelf
  <2> HIDE DEF r
  <2>4. Pair(r, o.r) BY <1>3, <1>5, <1>6, <1>9, <2>2 DEF Pair, ChildOK, Game
  <2>5. o.r.st = "suspended" => ~Holds(proc[p]) BY <1>3, <1>5, <1>9 DEF Pair, Holds
  <2> QED BY <1>1, <1>3, <1>5, <1>6, <2>1, <2>2, <2>3, <2>4, <2>5, WithChild
<1>10. ASSUME cmd # "inject", proc' = [Terminate(c, table(o)) EXCEPT ![p] = Ended(@, 1)]
       PROVE  Table'
  <2> DEFINE t == Terminate(c, table(o))
             r == Ended(proc[p], 1)
  <2>1. \A x \in Pids : Self(table(o)[x]) /\ ParentOK(proc[x], table(o)[x])
    BY <1>1, <1>5, <1>7, SameParent DEF Table
  <2>2. \A x \in Pids : proc[x].st # "free" => Undisturbed(proc[x], table(o)[x])
    BY <1>5, <1>7, Same
  <2>3. \A x \in Pids : proc[x].st = "free" => table(o)[x] = proc[x] BY <1>3, <1>7
  <2> HIDE DEF table
  <2>4. /\ t \in [Pids -> Process]
        /\ \A x \in Pids : Self(t[x]) /\ ParentOK(proc[x], t[x])
        /\ \A x \in Pids : proc[x].st # "free" => Undisturbed(proc[x], t[x])
        /\ \A x \in Pids : proc[x].st = "free" => t[x] = proc[x]
        /\ \A x \in Pids \ Victims(c) : t[x] = table(o)[x]
        /\ t[c].st = "dead"
    BY <1>1, <1>3, <1>7, <2>1, <2>2, <2>3, Terminated
  <2>5. p \notin Victims(c)
    <3>1. proc[c].child # p
      <4>1. p # 0 BY LaunchAssumption DEF Pids
      <4> QED BY <1>1, <1>3, <4>1, Basics DEF Pair
    <3> QED BY <1>3, <3>1 DEF Victims
  <2>6. t[p] = proc[p] BY <1>7, <2>4, <2>5
  <2>7. 1 \in 0 .. 1 OBVIOUS
  <2>8. /\ r \in Process /\ r.pc = "done" /\ r.st = "dead" /\ r.code = 1
        /\ r.img = "tool" /\ r.child = c /\ r.cmd = cmd /\ Undisturbed(proc[p], r)
    BY <1>1, <2>7, EndedIs
  <2>9. Self(r) BY <1>1, <2>7, EndedSelf
  <2>10. proc' = [t EXCEPT ![p] = r] BY <1>10, <2>6
  <2> HIDE DEF t, r
  <2>11. proc' \in [Pids -> Process] /\ proc'[p] = r /\ \A x \in Pids \ {p} : proc'[x] = t[x]
    BY <2>4, <2>8, <2>10
  <2>12. \A x \in Pids : Self(proc'[x]) BY <2>4, <2>9, <2>11
  <2>13. \A x \in Pids \ {p} : ParentOK(proc[x], proc'[x]) BY <2>4, <2>11
  <2>14. \A x \in Pids : proc[x].st # "free" => Undisturbed(proc[x], proc'[x])
    BY <2>4, <2>8, <2>11
  <2>15. proc'[c].st = "dead" /\ proc'[p].child = c BY <1>3, <2>4, <2>8, <2>11
  <2>16. Pair(proc'[p], proc'[c])
    <3>1. proc'[c].img = proc[c].img BY <1>3, <2>13 DEF ParentOK
    <3> QED BY <1>2, <1>3, <1>10, <2>8, <2>11, <2>15, <3>1 DEF Pair, Game
  <2>17. \A x \in Pids :
           /\ proc'[x].st = "suspended"
           /\ proc[x].st = "free" \/ (proc[p].child = x /\ Holds(proc[p]))
           => proc'[p].child = x /\ Holds(proc'[p])
    <3>1. \A x \in Pids : proc[x].st = "free" => proc'[x].st = "free" BY <1>1, <2>4, <2>11
    <3> QED BY <2>15, <3>1
  <2>18. proc'[p].child = proc[p].child /\ proc'[p].cmd = proc[p].cmd BY <2>8, <2>11
  <2> QED BY <1>1, <1>3, <2>11, <2>12, <2>13, <2>14, <2>15, <2>16, <2>17, <2>18, Change
<1>11. 0 \in 0 .. 1 /\ 1 \in 0 .. 1 OBVIOUS
<1> HIDE DEF table, cmd
<1>12. Table'
  <2>1. CASE cmd \in {"launch-unpacked", "inject"} /\ proc' = [table(o) EXCEPT ![p] = Ended(@, 0)]
    BY <1>9, <1>11, <2>1
  <2>2. CASE cmd = "inject" /\ proc' = [table(o) EXCEPT ![p] = Ended(@, 1)]
    BY <1>9, <1>11, <2>2
  <2> QED BY <1>4, <1>8, <1>10, <2>1, <2>2
<1> QED BY <1>1, <1>12 DEF Typed, ToolInject

-------------------------------------------------------------------------------
(* Processes that start others *)

\* A creator after the call.
LEMMA BornSelf ==
  ASSUME NEW s \in Process, Self(s), s.st = "running", NEW r, NEW c \in Pids,
         r.child = c, r.img = s.img, r.st = s.st, r.cmd = s.cmd, r.argv = s.argv, r.code = s.code,
         r.dll = s.dll, r.lost = s.lost, r.stopped = s.stopped, r.bare = s.bare,
         \/ s.img = "wrapper" /\ r.pc = "detach"
         \/ s.img \in Game /\ r.pc \in {"run", "apc", "held"}
  PROVE  Self(r)
<1>1. c # 0 BY LaunchAssumption DEF Pids
<1>2. s.img # "tool" BY DEF Game
<1> QED BY <1>1, <1>2 DEF Self, Unpatched, Game

LEMMA WrapperSpawnStays ==
  ASSUME Inv, NEW p \in Pids, WrapperSpawn(p)
  PROVE  Table' /\ ifeo' \subseteq {"goley", "payload"}
<1>1. /\ Table /\ Typed /\ proc[p] \in Process /\ Self(proc[p]) /\ proc \in [Pids -> Process]
      /\ proc[p].st = "running" /\ proc[p].img = "wrapper" /\ proc[p].pc = "start"
      /\ ifeo \subseteq {"goley", "payload"}
  BY DEF Inv, Typed, Table, WrapperSpawn, At
<1>2. proc[p].child = 0 /\ proc[p].cmd = "none" /\ proc[p].argv \in WrapperArgvs BY <1>1 DEF Self
<1>3. ~Holds(proc[p]) BY <1>1 DEF Holds
<1>4. ASSUME proc' = [proc EXCEPT ![p] = Ended(proc[p], 1)] PROVE Table'
  <2> DEFINE r == Ended(proc[p], 1)
  <2>1. 1 \in 0 .. 1 OBVIOUS
  <2>2. /\ r \in Process /\ r.pc = "done" /\ r.st = "dead" /\ r.code = 1
        /\ r.img = "wrapper" /\ r.child = 0 /\ r.cmd = proc[p].cmd /\ Undisturbed(proc[p], r)
    BY <1>1, <1>2, <2>1, EndedIs
  <2>3. Self(r) BY <1>1, <2>1, EndedSelf
  <2>4. proc' = [proc EXCEPT ![p] = r] BY <1>4
  <2> HIDE DEF r
  <2> QED BY <1>1, <1>2, <1>3, <2>2, <2>3, <2>4, Alone
<1> DEFINE exe == ExePath(proc[p].argv)
           s == [proc[p] EXCEPT !.pc = "detach"]
<1>5. ASSUME proc[p].argv # <<"wrapper">>, CreateProcess(p, s, exe, <<exe>>, TRUE, TRUE, TRUE)
      PROVE  Table'
  <2>1. exe \in Game
    <3>1. CASE proc[p].argv \in {<<x>> : x \in Game}
      <4>1. PICK x \in Game : proc[p].argv = <<x>> BY <3>1
      <4>2. x # "wrapper" BY DEF Game
      <4> QED BY <4>1, <4>2 DEF ExePath
    <3>2. CASE proc[p].argv \in {<<"wrapper", x>> : x \in Game}
      <4>1. PICK x \in Game : proc[p].argv = <<"wrapper", x>> BY <3>2
      <4> QED BY <4>1 DEF ExePath
    <3> QED BY <1>2, <1>5, <3>1, <3>2 DEF WrapperArgvs
  <2>2. exe \in Images /\ exe # "wrapper" BY <2>1 DEF Images, Game
  <2>3. PICK c \in Fresh, f \in BOOLEAN, n \in NewProcess(exe, <<exe>>, TRUE, TRUE, TRUE) :
          proc' = [proc EXCEPT ![c] = n, ![p] = VehHandler([s EXCEPT !.child = c], f)]
    <3> HIDE DEF exe, s
    <3> QED BY <1>5 DEF CreateProcess, Fires
  <2> DEFINE r == Born(proc[p], "detach", c, f)
  <2>4. proc' = [proc EXCEPT ![c] = n, ![p] = r] BY <2>3 DEF Born
  <2>5. c \in Pids /\ "detach" \in Steps BY <2>3 DEF Fresh, Room, Steps
  <2>6. /\ r \in Process /\ r.pc = "detach" /\ r.child = c /\ Undisturbed(proc[p], r)
        /\ r.img = "wrapper" /\ r.st = "running" /\ r.cmd = "none" /\ r.argv = proc[p].argv
        /\ r.code = proc[p].code /\ r.dll = proc[p].dll /\ r.lost = proc[p].lost /\ r.stopped = proc[p].stopped /\ r.bare = proc[p].bare
    BY <1>1, <1>2, <2>5, BornIs
  <2> HIDE DEF r, s
  <2>7. Self(r) BY <1>1, <1>2, <2>5, <2>6, BornSelf
  <2>8. NewOK(n, exe, <<exe>>, TRUE, TRUE, TRUE)
    <3>1. n \in NewProcess(exe, <<exe>>, TRUE, TRUE, TRUE) BY <2>3
    <3>2. IF exe = "wrapper" THEN <<exe>> \in {<<"wrapper">>, <<"wrapper", "goley">>} ELSE <<exe>> = <<exe>>
      BY <2>2
    <3>3. ifeo \subseteq {"goley", "payload"} BY <1>1
    <3> HIDE DEF exe
    <3> QED BY <2>2, <3>1, <3>2, <3>3, NewIs
  <2>9. n \in Process /\ Self(n) /\ n.child = 0 /\ n.img = exe /\ n.st = "suspended"
    BY <2>8 DEF NewOK
  <2>10. Pair(r, n) BY <2>1, <2>6, <2>9 DEF Pair, Game
  <2>11. Holds(r) BY <2>6 DEF Holds
  <2> HIDE DEF exe
  <2> QED BY <1>1, <1>3, <2>3, <2>4, <2>6, <2>7, <2>9, <2>10, <2>11, Creates
<1>6. Table'
  <2> HIDE DEF exe, s
  <2>1. CASE proc' = [proc EXCEPT ![p] = Ended(@, 1)] BY <1>1, <1>4, <2>1
  <2>2. CASE CreateFails(p) BY <1>1, <1>4, <2>2 DEF CreateFails
  <2>3. CASE proc[p].argv # <<"wrapper">> /\ CreateProcess(p, s, exe, <<exe>>, TRUE, TRUE, TRUE)
    BY <1>5, <2>3
  <2> QED BY <2>1, <2>2, <2>3 DEF WrapperSpawn, exe, s
<1> QED BY <1>1, <1>6 DEF Typed, WrapperSpawn

-------------------------------------------------------------------------------
(* The game *)

LEMMA StartsGame == \A img \in Game : Starts(img) \subseteq {"goley", "payload"}
BY DEF Starts, Game

LEMMA SpawnStays ==
  ASSUME Inv, NEW p \in Pids, NEW exe \in Game, NEW suspended,
         suspended = TRUE \/ suspended = FALSE, Spawn(p, exe, suspended)
  PROVE  Table' /\ ifeo' \subseteq {"goley", "payload"}
<1>1. /\ Table /\ Typed /\ proc[p] \in Process /\ Self(proc[p]) /\ proc \in [Pids -> Process]
      /\ proc[p].st = "running" /\ proc[p].img \in Game /\ proc[p].pc = "run"
      /\ ifeo \subseteq {"goley", "payload"}
  BY DEF Inv, Typed, Table, Spawn, Running
<1>2. ~Holds(proc[p]) /\ proc[p].cmd = "none" BY <1>1 DEF Holds, Self, Game
<1> DEFINE pc == IF suspended THEN "held" ELSE "run"
           s == [proc[p] EXCEPT !.pc = pc]
<1>3. exe \in Images /\ exe # "wrapper" BY DEF Images, Game
<1>4. PICK c \in Fresh, f \in BOOLEAN, n \in NewProcess(exe, <<exe>>, suspended, FALSE, FALSE) :
        proc' = [proc EXCEPT ![c] = n, ![p] = VehHandler([s EXCEPT !.child = c], f)]
  <2>1. CreateProcess(p, s, exe, <<exe>>, suspended, FALSE, FALSE) BY DEF Spawn
  <2> HIDE DEF s
  <2> QED BY <2>1 DEF CreateProcess, Fires
<1>5. /\ pc \in {"held", "run"}
      /\ suspended = TRUE => pc = "held"
      /\ suspended = FALSE => pc = "run"
  OBVIOUS
<1> HIDE DEF pc
<1> DEFINE r == Born(proc[p], pc, c, f)
<1>6. proc' = [proc EXCEPT ![c] = n, ![p] = r] BY <1>4 DEF Born
<1>7. c \in Pids /\ pc \in Steps BY <1>4, <1>5 DEF Fresh, Room, Steps
<1>8. /\ r \in Process /\ r.pc = pc /\ r.child = c /\ Undisturbed(proc[p], r)
      /\ r.img = proc[p].img /\ r.st = "running" /\ r.cmd = "none" /\ r.argv = proc[p].argv
      /\ r.code = proc[p].code /\ r.dll = proc[p].dll /\ r.lost = proc[p].lost /\ r.stopped = proc[p].stopped /\ r.bare = proc[p].bare
  BY <1>1, <1>2, <1>7, BornIs
<1> HIDE DEF r, s
<1>9. Self(r) BY <1>1, <1>2, <1>5, <1>7, <1>8, BornSelf
<1>10. NewOK(n, exe, <<exe>>, suspended, FALSE, FALSE)
  <2>1. n \in NewProcess(exe, <<exe>>, suspended, FALSE, FALSE) BY <1>4
  <2>2. IF exe = "wrapper" THEN <<exe>> \in {<<"wrapper">>, <<"wrapper", "goley">>} ELSE <<exe>> = <<exe>>
    BY <1>3
  <2>3. ifeo \subseteq {"goley", "payload"} BY <1>1
  <2> QED BY <1>3, <2>1, <2>2, <2>3, NewIs
<1>11. /\ n \in Process /\ Self(n) /\ n.child = 0 /\ n.img \in Images /\ ~Unpatched(n)
       /\ n.st = (IF suspended = TRUE THEN "suspended" ELSE "running")
  BY <1>10 DEF NewOK
<1>12. n.img # "tool" /\ n.st # "free" BY <1>11 DEF Images, Game
<1>13. Pair(r, n)
  <2>1. r.img \notin {"tool", "wrapper"} BY <1>1, <1>8 DEF Game
  <2> QED BY <1>5, <1>8, <1>11, <1>12, <2>1 DEF Pair
<1>14. n.st = "suspended" => Holds(r) BY <1>5, <1>8, <1>11 DEF Holds
<1>15. Table'
  BY <1>1, <1>2, <1>4, <1>6, <1>8, <1>9, <1>11, <1>13, <1>14, Creates
<1> QED BY <1>1, <1>15 DEF Typed, Spawn

LEMMA HookedStays ==
  ASSUME Inv, NEW p \in Pids, NEW exe \in Game, NEW suspended,
         suspended = TRUE \/ suspended = FALSE, HookedCreateProcess(p, exe, suspended)
  PROVE  Table' /\ ifeo' \subseteq {"goley", "payload"}
<1>1. /\ Table /\ Typed /\ proc[p] \in Process /\ Self(proc[p]) /\ proc \in [Pids -> Process]
      /\ proc[p].st = "running" /\ proc[p].img \in Game /\ proc[p].pc = "run"
      /\ ifeo \subseteq {"goley", "payload"}
  BY DEF Inv, Typed, Table, HookedCreateProcess, Running
<1>2. ~Holds(proc[p]) /\ proc[p].cmd = "none" BY <1>1 DEF Holds, Self, Game
<1> DEFINE a == ~suspended
           s == [proc[p] EXCEPT !.pc = "apc", !.added = a]
<1>3. exe \in Images /\ exe # "wrapper" BY DEF Images, Game
<1>4. PICK c \in Fresh, f \in BOOLEAN, n \in NewProcess(exe, <<exe>>, TRUE, FALSE, TRUE) :
        proc' = [proc EXCEPT ![c] = n, ![p] = VehHandler([s EXCEPT !.child = c], f)]
  <2>1. CreateProcess(p, s, exe, <<exe>>, TRUE, FALSE, TRUE) BY DEF HookedCreateProcess
  <2> HIDE DEF s
  <2> QED BY <2>1 DEF CreateProcess, Fires
<1>5. a = TRUE \/ a = FALSE OBVIOUS
<1> HIDE DEF a
<1> DEFINE r == BornAdded(proc[p], "apc", a, c, f)
<1>6. proc' = [proc EXCEPT ![c] = n, ![p] = r] BY <1>4 DEF BornAdded
<1>7. c \in Pids /\ "apc" \in Steps BY <1>4, <1>5 DEF Fresh, Room, Steps
<1>8. /\ r \in Process /\ r.pc = "apc" /\ r.child = c /\ Undisturbed(proc[p], r)
      /\ r.img = proc[p].img /\ r.st = "running" /\ r.cmd = "none" /\ r.argv = proc[p].argv
      /\ r.code = proc[p].code /\ r.dll = proc[p].dll /\ r.lost = proc[p].lost /\ r.stopped = proc[p].stopped /\ r.bare = proc[p].bare
  <2>1. BornOK(proc[p], r, "apc", c)
    <3>1. proc[p] \in Process /\ proc[p].st = "running" BY <1>1
    <3> QED BY <1>5, <1>7, <3>1, BornAddedIs
  <2> QED BY <1>1, <1>2, <2>1 DEF BornOK
<1> HIDE DEF r, s
<1>9. Self(r) BY <1>1, <1>2, <1>7, <1>8, BornSelf
<1>10. NewOK(n, exe, <<exe>>, TRUE, FALSE, TRUE)
  <2>1. n \in NewProcess(exe, <<exe>>, TRUE, FALSE, TRUE) BY <1>4
  <2>2. IF exe = "wrapper" THEN <<exe>> \in {<<"wrapper">>, <<"wrapper", "goley">>} ELSE <<exe>> = <<exe>>
    BY <1>3
  <2>3. ifeo \subseteq {"goley", "payload"} BY <1>1
  <2> QED BY <1>3, <2>1, <2>2, <2>3, NewIs
<1>11. /\ n \in Process /\ Self(n) /\ n.child = 0 /\ n.img \in Images /\ n.st = "suspended"
  BY <1>10 DEF NewOK
<1>12. n.img # "tool" BY <1>11 DEF Images, Game
<1>13. Pair(r, n)
  <2>1. r.img \notin {"tool", "wrapper"} BY <1>1, <1>8 DEF Game
  <2> QED BY <1>8, <1>11, <1>12, <2>1 DEF Pair
<1>14. Holds(r) BY <1>8 DEF Holds
<1>15. Table'
  BY <1>1, <1>2, <1>4, <1>6, <1>8, <1>9, <1>11, <1>13, <1>14, Creates
<1> QED BY <1>1, <1>15 DEF Typed, HookedCreateProcess

\* The child of a direct call.
LEMMA StoppedIs ==
  ASSUME NEW m \in Process, Self(m), m.img \in Images, m.cmd = "none", m.child = 0, ~Unpatched(m),
         NEW suspended \in BOOLEAN, NEW fires \in BOOLEAN, m.stopped = FALSE,
         m.st = (IF suspended = TRUE THEN "suspended" ELSE "running")
  PROVE  LET n == Stopped(m, suspended, fires) IN
         /\ n \in Process /\ Self(n) /\ n.img \in Images /\ n.child = 0 /\ ~Unpatched(n)
         /\ suspended = TRUE => n.st = "suspended"
         /\ suspended = FALSE => n.st = "running" \/ (n.st = "suspended" /\ n.stopped = TRUE)
<1>1. CASE fires /\ ~suspended
  <2> DEFINE n == [m EXCEPT !.st = "suspended", !.stopped = TRUE]
  <2>1. Stopped(m, suspended, fires) = n BY <1>1 DEF Stopped
  <2>2. /\ n \in Process /\ n.st = "suspended" /\ n.stopped = TRUE
        /\ n.img = m.img /\ n.cmd = m.cmd /\ n.argv = m.argv /\ n.pc = m.pc /\ n.child = m.child
        /\ n.code = m.code /\ n.dll = m.dll /\ n.lost = m.lost /\ n.bare = m.bare
    BY DEF Process
  <2>3. m.st = "running" BY <1>1
  <2> HIDE DEF n
  <2>4. ~Unpatched(n) BY <2>2 DEF Unpatched
  <2>5. Self(n) BY <2>2, <2>3, <2>4 DEF Self, Images, Game
  <2> QED BY <1>1, <2>1, <2>2, <2>4, <2>5
<1>2. CASE ~(fires /\ ~suspended)
  <2>1. Stopped(m, suspended, fires) = m BY <1>2 DEF Stopped
  <2> QED BY <2>1
<1> QED BY <1>1, <1>2

LEMMA DirectStays ==
  ASSUME Inv, NEW p \in Pids, NEW exe \in Game, NEW suspended \in BOOLEAN, SpawnDirect(p, exe, suspended)
  PROVE  Table' /\ ifeo' \subseteq {"goley", "payload"}
<1>1. /\ Table /\ Typed /\ proc[p] \in Process /\ Self(proc[p]) /\ proc \in [Pids -> Process]
      /\ proc[p].st = "running" /\ proc[p].img \in Game /\ proc[p].pc = "run"
      /\ ifeo \subseteq {"goley", "payload"}
  BY DEF Inv, Typed, Table, SpawnDirect, Running
<1>2. ~Holds(proc[p]) /\ proc[p].cmd = "none" BY <1>1 DEF Holds, Self, Game
<1> DEFINE pc == IF suspended THEN "held" ELSE "run"
<1>3. exe \in Images /\ exe # "wrapper" BY DEF Images, Game
<1>4. PICK c \in Fresh, f \in BOOLEAN, redirected \in BOOLEAN :
        /\ redirected => exe \in ifeo
        /\ \E m \in Made(exe, <<exe>>, suspended, redirected, FALSE) :
             proc' = [proc EXCEPT
               ![c] = Stopped(m, suspended, f), ![p] = VehHandler([@ EXCEPT !.child = c, !.pc = pc], f)]
  BY DEF SpawnDirect, Fires
<1>5. PICK m \in Made(exe, <<exe>>, suspended, redirected, FALSE) :
        proc' = [proc EXCEPT
          ![c] = Stopped(m, suspended, f), ![p] = VehHandler([@ EXCEPT !.child = c, !.pc = pc], f)]
  BY <1>4
<1> DEFINE n == Stopped(m, suspended, f)
           r == Born(proc[p], pc, c, f)
<1>6. /\ pc \in {"held", "run"}
      /\ suspended = TRUE => pc = "held"
      /\ suspended = FALSE => pc = "run"
  OBVIOUS
<1> HIDE DEF pc
<1>7. c \in Pids /\ c # p /\ pc \in Steps
  <2>1. proc[c].st = "free" BY <1>4 DEF Fresh, Room
  <2> QED BY <1>1, <1>4, <1>6, <2>1 DEF Fresh, Room, Steps
<1>8. proc' = [proc EXCEPT ![c] = n, ![p] = r]
  <2>1. [proc[p] EXCEPT !.child = c, !.pc = pc] = [[proc[p] EXCEPT !.pc = pc] EXCEPT !.child = c]
    BY <1>1 DEF Process
  <2>2. proc' = [proc EXCEPT ![c] = n, ![p] = VehHandler([proc[p] EXCEPT !.child = c, !.pc = pc], f)]
    <3>1. [proc EXCEPT ![c] = n][p] = proc[p] BY <1>1, <1>7
    <3> QED BY <1>5, <3>1
  <2> QED BY <2>1, <2>2 DEF Born
<1>9. /\ r \in Process /\ r.pc = pc /\ r.child = c /\ Undisturbed(proc[p], r)
      /\ r.img = proc[p].img /\ r.st = "running" /\ r.cmd = "none" /\ r.argv = proc[p].argv
      /\ r.code = proc[p].code /\ r.dll = proc[p].dll /\ r.lost = proc[p].lost
      /\ r.stopped = proc[p].stopped /\ r.bare = proc[p].bare
  BY <1>1, <1>2, <1>7, BornIs
<1>10. MadeOK(m, exe, <<exe>>, suspended, redirected, FALSE)
  <2>1. redirected = TRUE => exe \in {"goley", "payload"} BY <1>1, <1>4
  <2> QED BY <1>3, <1>5, <2>1, MadeIs
<1> HIDE DEF r
<1>11. Self(r) BY <1>1, <1>2, <1>6, <1>7, <1>9, BornSelf
<1>12. /\ n \in Process /\ Self(n) /\ n.img \in Images /\ n.child = 0 /\ ~Unpatched(n)
       /\ suspended = TRUE => n.st = "suspended"
       /\ suspended = FALSE => n.st = "running" \/ (n.st = "suspended" /\ n.stopped = TRUE)
  BY <1>10, StoppedIs DEF MadeOK
<1> HIDE DEF n
<1>13. n.img # "tool" /\ n.st # "free" BY <1>12 DEF Images, Game
<1>14. Pair(r, n)
  <2>1. r.img \notin {"tool", "wrapper"} BY <1>1, <1>9 DEF Game
  <2> QED BY <1>6, <1>9, <1>12, <1>13, <2>1 DEF Pair
<1>15. n.st = "suspended" /\ ~n.stopped => Holds(r) BY <1>6, <1>9, <1>12 DEF Holds
<1>16. Table'
  BY <1>1, <1>2, <1>4, <1>8, <1>9, <1>11, <1>12, <1>14, <1>15, Creates
<1> QED BY <1>1, <1>16 DEF Typed, SpawnDirect

\* A thread of the DLL changes what only concerns its own process.
LEMMA PatcherStays ==
  ASSUME Inv, NEW p \in Pids, PatchThread(p) \/ RefreshBreakpoints(p)
  PROVE  Table' /\ ifeo' \subseteq {"goley", "payload"}
<1>1. /\ Table /\ Typed /\ proc[p] \in Process /\ Self(proc[p]) /\ proc \in [Pids -> Process]
      /\ proc[p].st \in {"suspended", "running"}
  BY DEF Inv, Table, PatchThread, RefreshBreakpoints, Live
<1> DEFINE c == proc[p].child
<1>2. PICK r : /\ r = [proc[p] EXCEPT !.hooks = TRUE] \/ r = [proc[p] EXCEPT !.dr3 = DR3(@)]
               /\ proc' = [proc EXCEPT ![p] = r]
  <2>1. CASE PatchThread(p)
    <3>1. proc' = [proc EXCEPT ![p] = [proc[p] EXCEPT !.hooks = TRUE]] BY <1>1, <2>1 DEF PatchThread
    <3> QED BY <3>1
  <2>2. CASE RefreshBreakpoints(p)
    <3>1. proc' = [proc EXCEPT ![p] = [proc[p] EXCEPT !.dr3 = DR3(@)]]
      BY <1>1, <2>2 DEF RefreshBreakpoints
    <3> QED BY <3>1
  <2> QED BY <2>1, <2>2
<1>3. r \in Process
  <2>1. DR3(proc[p].dr3) \in {"none", "set", "hit", "clear"} BY DEF DR3
  <2>2. CASE r = [proc[p] EXCEPT !.hooks = TRUE] BY <1>1, <2>2 DEF Process
  <2>3. CASE r = [proc[p] EXCEPT !.dr3 = DR3(@)] BY <1>1, <2>1, <2>3 DEF Process
  <2> QED BY <1>2, <2>2, <2>3
<1>4. /\ r.pc = proc[p].pc /\ r.img = proc[p].img /\ r.st = proc[p].st /\ r.cmd = proc[p].cmd
      /\ r.argv = proc[p].argv /\ r.child = c /\ r.code = proc[p].code /\ r.dll = proc[p].dll
      /\ r.lost = proc[p].lost /\ r.bare = proc[p].bare /\ r.debugged = proc[p].debugged
      /\ r.apc = proc[p].apc /\ r.stopped = proc[p].stopped
  BY <1>1, <1>2 DEF Process
<1>5. Self(r) BY <1>1, <1>4 DEF Self, Unpatched
<1>6. Undisturbed(proc[p], r) BY <1>1, <1>4 DEF Undisturbed, ChildOK
<1>7. c # 0 => Pair(r, proc[c])
  <2> SUFFICES ASSUME c # 0 PROVE Pair(r, proc[c]) OBVIOUS
  <2>1. Pair(proc[p], proc[c]) /\ proc[c].st # "free" BY <1>1, Basics DEF Pair
  <2>2. ParentOK(proc[p], r) BY <1>4 DEF ParentOK
  <2> QED BY <2>1, <2>2, Same, Stable
<1>8. Holds(proc[p]) => Holds(r) BY <1>4 DEF Holds
<1>9. Table' BY <1>1, <1>2, <1>3, <1>4, <1>5, <1>6, <1>7, <1>8, Alone
<1> QED BY <1>1, <1>9 DEF Typed, PatchThread, RefreshBreakpoints

LEMMA GameEndsStays ==
  ASSUME Inv, NEW p \in Pids, NEW code \in 0 .. 1, GameEnds(p, code)
  PROVE  Table' /\ ifeo' \subseteq {"goley", "payload"}
<1>1. /\ Table /\ Typed /\ proc[p] \in Process /\ Self(proc[p]) /\ proc \in [Pids -> Process]
      /\ proc[p].st = "running" /\ proc[p].img \in Game /\ proc[p].pc = "run"
  BY DEF Inv, Table, GameEnds, Running
<1> DEFINE c == proc[p].child
           r == Ended(proc[p], code)
<1>2. proc' = [proc EXCEPT ![p] = r] BY <1>1 DEF GameEnds
<1>3. /\ r \in Process /\ r.pc = "done" /\ r.st = "dead" /\ r.code = code
      /\ r.img = proc[p].img /\ r.child = c /\ r.cmd = proc[p].cmd /\ Undisturbed(proc[p], r)
  BY <1>1, EndedIs
<1>4. proc[p].cmd = "none" /\ proc[p].img \notin {"tool", "wrapper"} BY <1>1 DEF Self, Game
<1>5. Self(r) BY <1>1, <1>4, EndedSelf
<1> HIDE DEF r
<1>6. c # 0 => Pair(r, proc[c])
  <2> SUFFICES ASSUME c # 0 PROVE Pair(r, proc[c]) OBVIOUS
  <2>1. Pair(proc[p], proc[c]) BY <1>1, Basics
  <2> QED BY <1>3, <1>4, <2>1 DEF Pair
<1>7. ~Holds(proc[p]) BY <1>1 DEF Holds
<1>8. Table' BY <1>1, <1>2, <1>3, <1>5, <1>6, <1>7, Alone
<1> QED BY <1>1, <1>8 DEF Typed, GameEnds

\* The detour and the game resume a child.
LEMMA GameResumes ==
  ASSUME Inv, NEW p \in Pids, Running(p), proc[p].pc \in {"resume", "held"},
         proc' = [proc EXCEPT ![proc[p].child] = Resumed(proc[p].child), ![p].pc = "run"]
  PROVE  Table'
<1>1. /\ Table /\ proc[p] \in Process /\ Self(proc[p]) /\ proc \in [Pids -> Process]
      /\ proc[p].st = "running" /\ proc[p].img \in Game
  BY DEF Inv, Table, Running
<1> DEFINE c == proc[p].child
           s == Resumed(c)
           r == [proc[p] EXCEPT !.pc = "run"]
<1>2. /\ c # 0 /\ proc[p].cmd = "none" /\ proc[p].img \notin {"tool", "wrapper"}
  BY <1>1 DEF Self, Game
<1>3. /\ c \in Pids /\ c # p /\ Pair(proc[p], proc[c]) /\ proc[c].st # "free"
  BY <1>1, <1>2, Basics DEF Pair
<1>4. proc' = [proc EXCEPT ![c] = s, ![p] = r] BY <1>1, <1>3
<1>5. proc[c].st = "suspended" => proc[c].apc \/ ~Unpatched(proc[c])
  BY <1>2, <1>3 DEF Pair
<1>6. s \in Process /\ Self(s) /\ ParentOK(proc[c], s) /\ ChildOK(proc[c], s) /\ s.st # "suspended"
  BY <1>1, <1>3, <1>5, ResumedIs
<1>7. "run" \in Steps BY DEF Steps
<1>8. /\ r \in Process /\ r.pc = "run" /\ Undisturbed(proc[p], r)
      /\ r.img = proc[p].img /\ r.cmd = "none" /\ r.argv = proc[p].argv /\ r.child = c
  BY <1>1, <1>2, <1>7, MovedIs
<1>9. Self(r) BY <1>1, <1>2, MovedSelf
<1> HIDE DEF r, s
<1>10. Pair(r, s) BY <1>2, <1>3, <1>6, <1>8 DEF Pair, ChildOK
<1> QED BY <1>1, <1>2, <1>3, <1>4, <1>6, <1>8, <1>9, <1>10, WithChild

LEMMA ResumeStays ==
  ASSUME Inv, NEW p \in Pids, HookResume(p) \/ GameResume(p)
  PROVE  Table' /\ ifeo' \subseteq {"goley", "payload"}
<1>1. Table' BY GameResumes DEF HookResume, GameResume
<1> QED BY <1>1 DEF Inv, Typed, HookResume, GameResume

\* A queued APC, or one that could not be queued.
LEMMA ApcIs ==
  ASSUME NEW s \in Process, Self(s), s.st # "free",
         NEW d, d = [s EXCEPT !.apc = TRUE] \/ d = [s EXCEPT !.lost = TRUE]
  PROVE  /\ d \in Process /\ Self(d) /\ ParentOK(s, d) /\ Undisturbed(s, d)
         /\ d.st = s.st /\ d.img = s.img /\ d.argv = s.argv
         /\ d.apc = TRUE \/ d.lost = TRUE
<1>1. d \in Process BY ZenonT(60) DEF Process
<1>2. /\ d.st = s.st /\ d.pc = s.pc /\ d.img = s.img /\ d.cmd = s.cmd
      /\ d.argv = s.argv /\ d.child = s.child /\ d.code = s.code /\ d.dll = s.dll
      /\ d.stopped = s.stopped /\ d.bare = s.bare /\ d.debugged = s.debugged
  BY DEF Process
<1>3. (d.apc = TRUE \/ d.lost = TRUE) /\ (s.apc => d.apc) /\ (s.lost => d.lost)
  <2>1. CASE d = [s EXCEPT !.apc = TRUE] BY <2>1 DEF Process
  <2>2. CASE d = [s EXCEPT !.lost = TRUE] BY <2>2 DEF Process
  <2> QED BY <2>1, <2>2
<1>4. Self(d) BY <1>2, <1>3 DEF Self, Unpatched
<1>5. ParentOK(s, d) /\ Undisturbed(s, d) BY <1>2, <1>3 DEF ParentOK, Undisturbed, ChildOK
<1> QED BY <1>1, <1>2, <1>3, <1>4, <1>5

LEMMA ApcStays ==
  ASSUME Inv, NEW p \in Pids, ApcInjectChild(p)
  PROVE  Table' /\ ifeo' \subseteq {"goley", "payload"}
<1>1. /\ Table /\ Typed /\ proc[p] \in Process /\ Self(proc[p]) /\ proc \in [Pids -> Process]
      /\ proc[p].st = "running" /\ proc[p].img \in Game /\ proc[p].pc = "apc"
  BY DEF Inv, Table, ApcInjectChild, Running
<1> DEFINE c == proc[p].child
           pc == IF proc[p].added THEN "resume" ELSE "held"
           r == [proc[p] EXCEPT !.pc = pc]
           q == [proc EXCEPT ![p].pc = pc]
<1>2. /\ c # 0 /\ proc[p].cmd = "none" /\ proc[p].img \notin {"tool", "wrapper"}
  BY <1>1 DEF Self, Game
<1>3. /\ c \in Pids /\ c # p /\ Pair(proc[p], proc[c]) /\ proc[c].st # "free" /\ proc[c] \in Process
      /\ Self(proc[c]) /\ proc[c].st # "running"
  BY <1>1, <1>2, Basics DEF Pair
<1>4. pc \in {"resume", "held"} OBVIOUS
<1> HIDE DEF pc
<1>5. PICK s : /\ s = [proc[c] EXCEPT !.apc = TRUE] \/ s = [proc[c] EXCEPT !.lost = TRUE]
               /\ proc' = [proc EXCEPT ![c] = s, ![p] = r]
  <2>1. proc' = [q EXCEPT ![c].apc = TRUE] \/ proc' = [q EXCEPT ![c].lost = TRUE]
    BY DEF ApcInjectChild, pc
  <2>2. q = [proc EXCEPT ![p] = r] BY <1>1
  <2>3. q[c] = proc[c] /\ q \in [Pids -> Process]
    <3>1. pc \in Steps BY <1>4 DEF Steps
    <3>2. r \in Process BY <1>1, <3>1, MovedIs
    <3> HIDE DEF r, q
    <3> QED BY <1>1, <1>3, <2>2, <3>2
  <2> HIDE DEF q
  <2>4. \A s : [q EXCEPT ![c] = s] = [proc EXCEPT ![c] = s, ![p] = r]
    <3> HIDE DEF r
    <3> QED BY <1>1, <1>3, <2>2
  <2>5. CASE proc' = [q EXCEPT ![c].apc = TRUE]
    <3>1. proc' = [q EXCEPT ![c] = [proc[c] EXCEPT !.apc = TRUE]] BY <2>3, <2>5
    <3> HIDE DEF r
    <3> QED BY <2>4, <3>1
  <2>6. CASE proc' = [q EXCEPT ![c].lost = TRUE]
    <3>1. proc' = [q EXCEPT ![c] = [proc[c] EXCEPT !.lost = TRUE]] BY <2>3, <2>6
    <3> HIDE DEF r
    <3> QED BY <2>4, <3>1
  <2> QED BY <2>1, <2>5, <2>6
<1>6. /\ s \in Process /\ Self(s) /\ ParentOK(proc[c], s) /\ Undisturbed(proc[c], s)
      /\ s.st = proc[c].st /\ s.img = proc[c].img
      /\ s.apc = TRUE \/ s.lost = TRUE
  BY <1>3, <1>5, ApcIs
<1>7. pc \in Steps BY <1>4 DEF Steps
<1>8. /\ r \in Process /\ r.pc = pc /\ Undisturbed(proc[p], r)
      /\ r.img = proc[p].img /\ r.cmd = "none" /\ r.argv = proc[p].argv /\ r.child = c
  BY <1>1, <1>2, <1>7, MovedIs
<1>9. Self(r) BY <1>1, <1>2, <1>4, MovedSelf
<1> HIDE DEF r
<1>10. ChildOK(proc[c], s) BY <1>6 DEF Undisturbed
<1>11. Pair(r, s) BY <1>2, <1>3, <1>4, <1>6, <1>8, <1>10 DEF Pair, ChildOK, Unpatched
<1>12. Holds(r) BY <1>4, <1>8 DEF Holds
<1>13. Table'
  BY <1>1, <1>2, <1>3, <1>5, <1>6, <1>8, <1>9, <1>10, <1>11, <1>12, WithChild
<1> QED BY <1>1, <1>13 DEF Typed, ApcInjectChild

-------------------------------------------------------------------------------
(* The user *)

LEMMA UserStartStays ==
  ASSUME Inv, NEW exe \in UserStarts, UserStart(exe)
  PROVE  Table' /\ ifeo' \subseteq {"goley", "payload"}
<1>1. Table /\ Typed /\ ifeo \subseteq {"goley", "payload"} BY DEF Inv, Typed
<1>2. exe \in {"wrapper", "launcher", "goley"} BY LaunchAssumption
<1>3. exe \in Images BY <1>2 DEF Images, Game
<1>4. PICK p \in Fresh, n \in NewProcess(exe, <<exe>>, FALSE, FALSE, FALSE) :
        proc' = [proc EXCEPT ![p] = n]
  BY DEF UserStart
<1>5. IF exe = "wrapper" THEN <<exe>> \in {<<"wrapper">>, <<"wrapper", "goley">>} ELSE <<exe>> = <<exe>>
  OBVIOUS
<1>6. NewOK(n, exe, <<exe>>, FALSE, FALSE, FALSE)
  <2>1. n \in NewProcess(exe, <<exe>>, FALSE, FALSE, FALSE) BY <1>4
  <2> QED BY <1>1, <1>3, <1>5, <2>1, NewIs
<1>7. n \in Process /\ Self(n) /\ n.child = 0 /\ n.st = "running" BY <1>6 DEF NewOK
<1>8. Table' BY <1>1, <1>4, <1>7, Appears
<1> QED BY <1>1, <1>8 DEF UserStart

LEMMA CommandStays ==
  ASSUME Inv, NEW cmd \in Commands, Command(cmd)
  PROVE  Table' /\ ifeo' \subseteq {"goley", "payload"}
<1>1. Table /\ Typed /\ ifeo \subseteq {"goley", "payload"} /\ proc \in [Pids -> Process]
  BY DEF Inv, Typed, Table
<1>2. cmd \in AllCommands BY LaunchAssumption
<1> DEFINE new(c) == [Blank EXCEPT !.img = "tool", !.st = "running", !.cmd = cmd, !.pc = FirstOf(cmd),
                                   !.child = c]
<1>3. PICK c \in (IF cmd = "inject" THEN {q \in Pids : Live(q) /\ proc[q].img \in Game} ELSE {0}),
           p \in Fresh : proc' = [proc EXCEPT ![p] = new(c)]
  BY DEF Command
<1> DEFINE n == new(c)
<1>4. /\ c \in 0 .. MaxProcesses
      /\ cmd = "inject" => c \in Pids /\ c # 0 /\ proc[c].st # "free" /\ proc[c].img \in Game
      /\ cmd # "inject" => c = 0
  BY <1>3, LaunchAssumption DEF Pids, Live
<1>5. Blank \in Process
  BY LaunchAssumption DEF Blank, Process, Argvs, Prefixes, Steps, Images, Pids
<1>6. /\ FirstOf(cmd) \in StepsOf(cmd) /\ FirstOf(cmd) \in Steps
      /\ cmd = "inject" => FirstOf(cmd) = "inject"
      /\ cmd # "inject" => FirstOf(cmd) \in {"set goley", "spawn", "find", "clear"}
  BY <1>2 DEF FirstOf, StepsOf, Steps, AllCommands
<1>7. n \in Process
  <2> HIDE DEF Blank
  <2> QED BY <1>2, <1>4, <1>5, <1>6 DEF Process
<1>8. /\ n.img = "tool" /\ n.st = "running" /\ n.cmd = cmd /\ n.pc = FirstOf(cmd) /\ n.child = c
  BY <1>5 DEF Process
<1>9. proc' = [proc EXCEPT ![p] = n] BY <1>3
<1> HIDE DEF n, new
<1>10. Self(n) BY <1>2, <1>4, <1>6, <1>8 DEF Self, Unpatched, Game
<1>11. \/ n.child = 0
       \/ /\ n.cmd = "inject" /\ n.child \in Pids /\ proc[n.child].st # "free"
          /\ Pair(n, proc[n.child])
  BY <1>4, <1>6, <1>8 DEF Pair, Game
<1>12. Table' BY <1>1, <1>3, <1>7, <1>8, <1>9, <1>10, <1>11, Appears
<1> QED BY <1>1, <1>12 DEF Command

-------------------------------------------------------------------------------
(* The invariant *)

LEMMA InitInv == Init => Inv
<1> SUFFICES ASSUME Init PROVE Inv OBVIOUS
<1>1. Blank \in Process
  BY LaunchAssumption DEF Blank, Process, Argvs, Prefixes, Steps, Images, Pids
<1>2. Self(Blank) /\ Blank.child = 0 /\ Blank.st = "free"
  BY DEF Self, Blank, Unpatched, Game, AllCommands
<1>3. proc \in [Pids -> Process] /\ \A p \in Pids : proc[p] = Blank BY <1>1 DEF Init
<1>4. Table BY <1>2, <1>3 DEF Table, OneParent, AllHeld
<1>5. Typed BY LaunchAssumption DEF Typed, Init
<1> QED BY <1>4, <1>5 DEF Inv

LEMMA StepStays ==
  ASSUME Inv, NEW p \in Pids, Step(p) \/ GameStep(p)
  PROVE  Table' /\ ifeo' \subseteq {"goley", "payload"}
<1>1. CASE ToolStep(p)
  BY <1>1, IfeoSetStays, CmdIfeoClearStays, ToolSpawnStays, ToolInjectStays, ToolResumeStays,
     ToolWaitStays, FindPidsStays, CleanupKillStays DEF ToolStep
<1>2. CASE WrapperStep(p)
  BY <1>2, WrapperSpawnStays, WrapperDetachStays, WrapperInjectStays, WrapperResumeStays,
     WrapperWaitStays DEF WrapperStep
<1>3. CASE HookStep(p) BY <1>3, ApcStays, ResumeStays DEF HookStep
<1>4. CASE PatchThread(p) \/ RefreshBreakpoints(p) \/ GameResume(p)
  BY <1>4, PatcherStays, ResumeStays
<1>5. CASE \E exe \in Game, suspended \in BOOLEAN : Spawn(p, exe, suspended)
  <2>1. PICK exe \in Game, suspended \in BOOLEAN : Spawn(p, exe, suspended) BY <1>5
  <2>2. suspended = TRUE \/ suspended = FALSE BY <2>1
  <2> QED BY <2>1, <2>2, SpawnStays
<1>6. CASE \E exe \in Game, suspended \in BOOLEAN : HookedCreateProcess(p, exe, suspended)
  <2>1. PICK exe \in Game, suspended \in BOOLEAN : HookedCreateProcess(p, exe, suspended) BY <1>6
  <2>2. suspended = TRUE \/ suspended = FALSE BY <2>1
  <2> QED BY <2>1, <2>2, HookedStays
<1>7. CASE \E exe \in Game, suspended \in BOOLEAN : SpawnDirect(p, exe, suspended)
  BY <1>7, DirectStays
<1>8. CASE \E code \in 0 .. 1 : GameEnds(p, code) BY <1>8, GameEndsStays
<1> QED BY <1>1, <1>2, <1>3, <1>4, <1>5, <1>6, <1>7, <1>8 DEF Step, GameStep

LEMMA NextInv == Inv /\ [Next]_vars => Inv'
<1> SUFFICES ASSUME Inv, [Next]_vars PROVE Inv' OBVIOUS
<1>1. CASE \E cmd \in Commands : Command(cmd)
  <2>1. PICK cmd \in Commands : Command(cmd) BY <1>1
  <2>2. Table' /\ ifeo' \subseteq {"goley", "payload"} BY <2>1, CommandStays
  <2>3. requests' \in 0 .. MaxRequests BY <2>1, LaunchAssumption DEF Command, Inv, Typed
  <2> QED BY <2>2, <2>3 DEF Inv, Typed
<1>2. CASE \E exe \in UserStarts : UserStart(exe)
  <2>1. PICK exe \in UserStarts : UserStart(exe) BY <1>2
  <2>2. Table' /\ ifeo' \subseteq {"goley", "payload"} BY <2>1, UserStartStays
  <2>3. requests' \in 0 .. MaxRequests BY <2>1, LaunchAssumption DEF UserStart, Inv, Typed
  <2> QED BY <2>2, <2>3 DEF Inv, Typed
<1>3. CASE \E p \in Pids : (Step(p) \/ GameStep(p)) /\ UNCHANGED requests
  <2>1. PICK p \in Pids : (Step(p) \/ GameStep(p)) /\ UNCHANGED requests BY <1>3
  <2>2. Table' /\ ifeo' \subseteq {"goley", "payload"} BY <2>1, StepStays
  <2> QED BY <2>1, <2>2 DEF Inv, Typed
<1>4. CASE UNCHANGED vars
  <2>1. proc' = proc /\ ifeo' = ifeo /\ requests' = requests BY <1>4 DEF vars
  <2>2. Typed' BY <2>1 DEF Inv, Typed
  <2>3. OneParent' /\ AllHeld' BY <2>1 DEF Inv, Table, OneParent, AllHeld
  <2> QED BY <2>1, <2>2, <2>3 DEF Inv, Table
<1> QED BY <1>1, <1>2, <1>3, <1>4 DEF Next

LEMMA Invariant == Spec => []Inv
<1> QED BY InitInv, NextInv, PTL DEF Spec

-------------------------------------------------------------------------------
(* What follows from it *)

\* The table of processes is well formed, whatever is killed or fails.
THEOREM TypeCorrect == Spec => []TypeOK
<1>1. Inv => TypeOK
  <2> SUFFICES ASSUME Inv PROVE TypeOK OBVIOUS
  <2>1. Blank.st = "free" BY DEF Blank
  <2>2. \A p \in Pids : proc[p].st = "free" <=> proc[p] = Blank BY <2>1 DEF Inv, Table, Self
  <2> QED BY <2>2 DEF Inv, Typed, Table, TypeOK
<1> QED BY <1>1, Invariant, PTL

\* No number of processes makes the wrapper start itself: the command line that
\* IFEO builds always leads it past its own name (wrapper.cpp:198-214).
THEOREM WrapperStartsTheGame == Spec => []NoForkBomb
<1>1. Inv => NoForkBomb
  <2> SUFFICES ASSUME Inv, NEW p \in Pids, proc[p].img = "wrapper", proc[p].child # 0
               PROVE  proc[proc[p].child].img # "wrapper"
    BY DEF NoForkBomb
  <2>1. Pair(proc[p], proc[proc[p].child]) BY Basics DEF Inv
  <2> QED BY <2>1 DEF Pair
<1> QED BY <1>1, Invariant, PTL

\* For any number of processes: a Goley_.exe or BinaryTr.bin without the DLL is
\* one whose injection failed, or one that nobody had undertaken to inject when
\* it was created, which includes every unredirected child of a direct
\* NtCreateUserProcess.  Redirection, injectors and detour leave no other gap.
THEOREM NobodySlipsThrough == Spec => []RunsPatched
<1>1. Inv => RunsPatched BY DEF Inv, Table, Self, Unpatched, RunsPatched
<1> QED BY <1>1, Invariant, PTL

\* For any number of processes: every early return between the creation of a
\* suspended process and its resumption resumes or terminates it, unless it was
\* the breakpoint on NtCreateUserProcess that suspended it: that child has no
\* one to resume it.
THEOREM NobodyIsLeftSuspended == Spec => []SuspendedHasResumer
<1>1. Inv => SuspendedHasResumer
  <2> SUFFICES ASSUME Inv, NEW q \in Pids, proc[q].st = "suspended", ~proc[q].stopped
               PROVE  \E p \in Pids :
                        /\ proc[p].child = q
                        /\ \/ Live(p) /\ proc[p].pc \in {"detach", "inject", "apc", "resume", "held"}
                           \/ Killed(p)
    BY DEF SuspendedHasResumer
  <2>1. PICK p \in Pids : proc[p].child = q /\ Holds(proc[p]) BY DEF Inv, Table, AllHeld
  <2>2. proc[p] \in Process /\ Self(proc[p]) BY Basics DEF Inv
  <2>3. proc[p].pc \in {"detach", "inject", "apc", "resume", "held"} BY <2>1 DEF Holds
  <2>4. proc[p].st # "free"
    <3>1. Blank.pc = "none" BY DEF Blank
    <3> QED BY <2>2, <2>3, <3>1 DEF Self
  <2>5. proc[p].st \in {"suspended", "running", "dead"} BY <2>2, <2>4 DEF Process
  <2> QED BY <2>1, <2>3, <2>5 DEF Live, Killed
<1> QED BY <1>1, Invariant, PTL

\* The detour hides from its caller that it suspends every child; only the
\* breakpoint does not.
THEOREM DetourIsTransparent == Spec => []CallerGetsWhatItAsked
<1>1. Inv => CallerGetsWhatItAsked
  <2> SUFFICES ASSUME Inv, NEW p \in Pids, Running(p), proc[p].child # 0
               PROVE  /\ proc[p].pc = "held" => proc[proc[p].child].st # "running"
                      /\ proc[p].pc = "run"  => proc[proc[p].child].st # "suspended" \/ proc[proc[p].child].stopped
    BY DEF CallerGetsWhatItAsked
  <2>1. Pair(proc[p], proc[proc[p].child]) BY Basics DEF Inv
  <2> QED BY <2>1 DEF Pair, Running
<1> QED BY <1>1, Invariant, PTL

\* The exit code of launch is earned: wrapper and game ended with 0 too.
THEOREM ExitCodesAreTrue == Spec => []LaunchTellsTheTruth
<1>1. Inv => LaunchTellsTheTruth
  <2> SUFFICES ASSUME Inv, NEW p \in Pids, proc[p].cmd = "launch", proc[p].pc = "done", proc[p].code = 0
               PROVE  LET w == proc[p].child IN
                      /\ w # 0 /\ proc[w].img = "wrapper" /\ proc[w].child # 0
                      /\ LET g == proc[w].child IN
                         proc[g].img = "goley" /\ proc[g].st = "dead" /\ proc[g].code = 0
    BY DEF LaunchTellsTheTruth
  <2> DEFINE w == proc[p].child
             g == proc[w].child
  <2>1. w # 0
    <3>1. Self(proc[p]) BY Basics DEF Inv
    <3> QED BY <3>1 DEF Self
  <2>2. /\ w \in Pids /\ proc[w] \in Process /\ Self(proc[w]) /\ Pair(proc[p], proc[w])
    BY <2>1, Basics DEF Inv
  <2>3. /\ proc[w].img = "wrapper" /\ proc[w].argv = <<"wrapper", "goley">>
        /\ proc[w].st = "dead" /\ proc[w].code = 0
    BY <2>2 DEF Pair
  <2>4. proc[w].pc = "done" /\ g # 0
    <3>1. \A r \in Process : Self(r) /\ r.st = "dead" /\ r.code = 0 => r.pc = "done"
      <4> SUFFICES ASSUME NEW r \in Process, Self(r), r.st = "dead", r.pc # "done" PROVE r.code # 0
        OBVIOUS
      <4>1. r.code = 1 BY DEF Self
      <4>2. 1 # 0 OBVIOUS
      <4> QED BY <4>1, <4>2
    <3>2. \A r : Self(r) /\ r.img = "wrapper" /\ r.pc = "done" /\ r.code = 0 => r.child # 0 BY DEF Self
    <3> HIDE DEF w
    <3> QED BY <2>2, <2>3, <3>1, <3>2
  <2>5. Pair(proc[w], proc[g]) BY <2>2, <2>4, Basics DEF Inv
  <2>6. proc[g].img = "goley"
    <3>1. ExePath(proc[w].argv) = "goley" BY <2>3 DEF ExePath
    <3>2. proc[g].img = ExePath(proc[w].argv) BY <2>3, <2>5 DEF Pair
    <3> QED BY <3>1, <3>2
  <2>7. proc[g].st = "dead" /\ proc[g].code = 0 BY <2>3, <2>4, <2>5 DEF Pair
  <2> QED BY <2>1, <2>3, <2>4, <2>6, <2>7
<1> QED BY <1>1, Invariant, PTL
===============================================================================
