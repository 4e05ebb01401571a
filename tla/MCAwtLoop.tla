----------------------------- MODULE MCAwtLoop ------------------------------
(* Two calls; files of the rate asked for and of another one; packets with   *)
(* no frame, one, two, and one that cannot be decoded.                       *)
EXTENDS AwtLoop

Plain     == [ch |-> 1, rate |-> 1]
OtherRate == [ch |-> 1, rate |-> 2]

MCFormats   == {Plain, OtherRate}
MCPositions == 0 .. 2
MCGaps      == {0, 2}
MCContents  == {[frames |-> n, bad |-> FALSE] : n \in 0 .. 2}
                 \cup {[frames |-> 0, bad |-> TRUE]}
=============================================================================
