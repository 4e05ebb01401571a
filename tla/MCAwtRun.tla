------------------------------ MODULE MCAwtRun ------------------------------
(* Small instances of AwtRun: a mono format and one with more channels than *)
(* there are decoders, and a few stream positions.                          *)
EXTENDS AwtRun

Mono     == [ch |-> 1, rate |-> 1]
Surround == [ch |-> 3, rate |-> 2]

MCFormats   == {Mono, Surround}
MCPositions == 0 .. 2
=============================================================================
