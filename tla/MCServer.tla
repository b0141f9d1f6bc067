------------------------------- MODULE MCServer -------------------------------
(* ProudNetServer for TLC: handlers that broadcast (Chat), or broadcast    *)
(* and then reply (RequestCreateGameRoom).                                *)
EXTENDS ProudNetServer, TLC

CONSTANTS c1, c2, c3

MCReply == {<<"broadcast", "send">>}
MCChat == {<<"broadcast">>}

\* The clients that send are interchangeable; c3 only listens.
Symmetry == Permutations({c1, c2})

\* The run with three clients leaves out the shutdown, the other runs have it.
NoShutdown == ~ctxDone
===============================================================================
