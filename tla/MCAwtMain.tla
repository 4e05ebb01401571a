----------------------------- MODULE MCAwtMain ------------------------------
(* main.c with a few files of one format and the threads "main" and "tester". *)
EXTENDS AwtMain

MCFormats   == {[ch |-> 1, rate |-> 1]}
MCPositions == {0}
MCThreads   == {Main, Tester}
=============================================================================
