----------------------------- MODULE AwtStream ------------------------------
(***************************************************************************)
(* What the SDK's decoders are promised about the samples they get: blocks *)
(* of awt_size consecutive samples, the same stretch for every channel,    *)
(* channel after channel, each block beginning where the one before ended. *)
(* A gap comes only with a block that was abandoned before its last        *)
(* channel was through.  AwtBlocks implements this specification.          *)
(***************************************************************************)
EXTENDS Naturals

CONSTANTS awt_size, nb_decoder

VARIABLES
    next,    \* position of the first sample of the next block
    block,   \* the samples on offer, per channel, or NoBlock
    channel  \* the channel whose turn it is

NoBlock == <<>>

Consecutive(from) ==
    [i \in 0 .. nb_decoder - 1 |-> [k \in 0 .. awt_size - 1 |-> from + k]]

Init == next = 0 /\ block = NoBlock /\ channel = 0

Offer ==
    /\ block = NoBlock
    /\ block' = Consecutive(next)
    /\ next' = next + awt_size
    /\ channel' = 0

Take ==
    /\ block # NoBlock
    /\ IF channel + 1 < nb_decoder
       THEN channel' = channel + 1 /\ UNCHANGED block
       ELSE block' = NoBlock /\ UNCHANGED channel
    /\ UNCHANGED next

Abandon ==
    /\ block # NoBlock
    /\ block' = NoBlock
    /\ next' >= next
    /\ UNCHANGED channel

Spec == Init /\ [][Offer \/ Take \/ Abandon]_<<next, block, channel>>
=============================================================================
