------------------------------ MODULE MCRunner ------------------------------
(***************************************************************************)
(* TLC instance of Runner: six bars of five shapes, without wicks, one gap *)
(* in time, windows of one and two bars.                                   *)
(***************************************************************************)
EXTENDS Runner

Times == <<0, 1, 2, 3, 6, 7>>

Shapes == {<<1, 1>>, <<1, 2>>, <<2, 3>>, <<2, 1>>, <<2, 2>>}

Bar(t, p) == [time |-> t, open |-> p[1], close |-> p[2],
              high |-> IF p[1] < p[2] THEN p[2] ELSE p[1],
              low |-> IF p[1] < p[2] THEN p[1] ELSE p[2]]

MCSeries == {[k \in DOMAIN Times |-> Bar(Times[k], p[k])] : p \in [DOMAIN Times -> Shapes]}

MCUnfinished == {[high |-> 9, low |-> 0, close |-> 9], [high |-> 9, low |-> 0, close |-> 0]}
============================================================================
