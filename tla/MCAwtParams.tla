---------------------------- MODULE MCAwtParams -----------------------------
(* Every argument around the ends of its documented range, for 8-bit ints and *)
(* ten ticks in a second: second overflows from 13 on as it does from 2148 on *)
(* in the 32-bit program.                                                     *)
EXTENDS AwtParams

MCPresets  == -2 .. 12
MCPayloads == 0 .. 6
MCSeconds  == -1 .. 14
=============================================================================
