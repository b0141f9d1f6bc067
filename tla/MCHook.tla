-------------------------------- MODULE MCHook ---------------------------------
(* MinHook for TLC: long, whose first five bytes hold a branch that is      *)
(* widened, one that stays within them and a call, and short, which has     *)
(* room for a short jump only, traps above its entry, and makes an indirect *)
(* call from the bytes of the jump that returns behind them.  Menu spells   *)
(* the functions TrampolinesSound is about.                                 *)
EXTENDS MinHook, TLC

CONSTANTS long, short, r1, c1, b1, b2

Pop == Instr(1, "plain")
MCCode == [t \in Targets |->
  IF t = long
    THEN [body |-> <<Instr(2, "jcc"), Branch(2, "loop", 2), Instr(5, "call"), Pop, Instr(1, "ret")>>,
          above |-> FALSE]
    ELSE [body |-> <<Instr(1, "plain"), Instr(2, "icall"), Instr(1, "ret"), Instr(2, "plain")>>,
          above |-> TRUE]]

Menu ==
  {Instr(1, k) : k \in {"plain", "ret", "pad", "bad"}}
  \cup {Instr(2, k) : k \in {"plain", "icall", "ijmp", "jmp", "jcc", "loop"}}
  \cup {Instr(3, "plain"), Instr(5, "call"), Instr(5, "jmp"), Instr(6, "jcc")}
  \cup {Branch(2, k, d) : k \in {"jmp", "jcc", "loop"}, d \in {0, 2, 3, 4}}

\* What is behind the first three instructions.
Rest == <<Instr(3, "plain"), Pop, Pop, Pop, Pop>>
MCFunctions == {[body |-> b \o Rest, above |-> a] : b \in [1 .. 3 -> Menu], a \in BOOLEAN}

ASSUME MCEnterable == \A t \in Targets : Enterable(t)
===============================================================================
