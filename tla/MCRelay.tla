-------------------------------- MODULE MCRelay --------------------------------
(* BattleRelay for TLC: two clients and a spare endpoint, so that with two  *)
(* moves one client can be where the other was.                             *)
EXTENDS BattleRelay, TLC

CONSTANTS h1, h2, a1, a2, a3

MCHome == h1 :> a1 @@ h2 :> a2
===============================================================================
