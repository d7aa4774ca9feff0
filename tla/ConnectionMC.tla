---------------------------- MODULE ConnectionMC ----------------------------
(***************************************************************************)
(* Instances of Connection small enough for TLC: a few messages each way   *)
(* and as many copies.                                                     *)
(***************************************************************************)
EXTENDS Connection

\* c and s: of the client and of the server.
Each(c, s) == [p \in Peers |-> IF p = "client" THEN c ELSE s]
Load(m, k, w) == [msgs |-> m, copies |-> k, window |-> w]

\* One way, commands or telemetry, with a copy; commands also with a window
\* that forgets one of them; and both ways at once.
MCLoads == {Load(Each(2, 0), Each(1, 0), 2), Load(Each(0, 2), Each(0, 1), 2),
            Load(Each(2, 0), Each(1, 0), 1), Load(Each(1, 1), Each(1, 0), 2)}
MCOneCommand == {Load(Each(1, 0), Each(0, 0), 1)}
MCBoth == Peers
MCClient == {"client"}
=============================================================================
