---------------------------- MODULE MCAwtSession ----------------------------
(* A small instance of AwtSession: mono files.  The threads are not declared *)
(* interchangeable, since the run checks a liveness property.                *)
EXTENDS AwtSession

MCFormats   == {[ch |-> 1, rate |-> 1]}
MCPositions == {0, 1}
=============================================================================
