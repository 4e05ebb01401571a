----------------------------- MODULE AwtBlocks ------------------------------
(***************************************************************************)
(* awt_filter_frame of src/src/awt.c: frames of any length are cut into    *)
(* blocks of awt_size samples, one buffer per channel, and each full block *)
(* is given to the channel's decoder.  The frames come one after another   *)
(* from the filter graph, across the files of a context: nb_buffer keeps   *)
(* the beginning of a block from one frame, and one file, to the next.     *)
(*                                                                         *)
(* A sample is named by its position in everything the graph has put out,  *)
(* the same for all channels, so that a lost, repeated or misplaced sample *)
(* shows.  A run here has its decoders and buffers (see AwtRun for those   *)
(* that have not), so awt_size > 0.                                        *)
(***************************************************************************)
EXTENDS Integers

CONSTANTS
    awt_size,       \* samples in a block, as the SDK reported it
    nb_decoder,     \* channels decoded
    FrameLengths,   \* numbers of samples a filtered frame can have
    MaxSamples      \* bound: samples put out in all

ASSUME BlockConstants ==
    /\ awt_size \in Nat \ {0}
    /\ nb_decoder \in Nat \ {0}
    /\ FrameLengths \subseteq Nat
    /\ MaxSamples \in Nat

Channels == 0 .. nb_decoder - 1
Slots    == 0 .. awt_size - 1

VARIABLES
    nb_buffer,  \* awt->nb_buffer
    buffer,     \* contents of awt->buffer[i]: positions of samples
    at,         \* "return", "copy" or "decode"
    off,        \* off
    nb_samples, \* in->nb_samples
    channel,    \* i, in the loop over the decoders
    \* --- history
    base,       \* position of the first sample of the frame
    cut,        \* blocks filled so far
    given,      \* blocks given to each channel's decoder
    stopped,    \* returns from inside the decoder loop, per channel
    dropped     \* samples of frames that were left unread

blockVars == <<nb_buffer, buffer, at, off, nb_samples, channel,
               base, cut, given, stopped, dropped>>

-----------------------------------------------------------------------------
BlockInit ==
    /\ nb_buffer = 0
    /\ buffer = [i \in Channels |-> [k \in Slots |-> 0]]
    /\ at = "return"
    /\ off = 0 /\ nb_samples = 0 /\ channel = 0
    /\ base = 0 /\ cut = 0 /\ dropped = 0
    /\ given = [i \in Channels |-> 0] /\ stopped = [i \in Channels |-> 0]

\* The function is called with the next frame of the graph.
FilterFrame(samples) ==
    /\ at = "return"
    /\ base + nb_samples + samples <= MaxSamples
    /\ base' = base + nb_samples
    /\ nb_samples' = samples
    /\ off' = 0
    /\ at' = "copy"
    /\ UNCHANGED <<nb_buffer, buffer, channel, cut, given, stopped, dropped>>

\* FFMIN(awt->awt_size - awt->nb_buffer, in->nb_samples - off)
CountIgnoresOffset == IF awt_size - nb_buffer < nb_samples
                      THEN awt_size - nb_buffer ELSE nb_samples
Count == IF awt_size - nb_buffer < nb_samples - off
         THEN awt_size - nb_buffer ELSE nb_samples - off

\* memcpy(dst + nb_buffer, src + off, count) for channel i.
CopiedFromStart(i) ==
    [k \in Slots |-> IF k \in nb_buffer .. nb_buffer + Count - 1
                     THEN base + (k - nb_buffer) ELSE buffer[i][k]]
Copied(i) ==
    [k \in Slots |-> IF k \in nb_buffer .. nb_buffer + Count - 1
                     THEN base + off + (k - nb_buffer) ELSE buffer[i][k]]

\* One turn of the loop over the frame: copy, and start on the decoders when
\* the block is full; leave the loop when it is not.
FullTooLate == nb_buffer + Count > awt_size
BlockFull   == nb_buffer + Count >= awt_size

CopyChunk ==
    /\ at = "copy"
    /\ off < nb_samples
    /\ buffer' = [i \in Channels |-> Copied(i)]
    /\ off' = off + Count
    /\ IF BlockFull
       THEN /\ nb_buffer' = 0
            /\ cut' = cut + 1
            /\ channel' = 0
            /\ at' = "decode"
       ELSE /\ nb_buffer' = nb_buffer + Count
            /\ at' = "return"
            /\ UNCHANGED <<cut, channel>>
    /\ UNCHANGED <<nb_samples, base, given, stopped, dropped>>

\* while(off < in->nb_samples) is over.
FrameRead ==
    /\ at = "copy"
    /\ off >= nb_samples
    /\ at' = "return"
    /\ UNCHANGED <<nb_buffer, buffer, off, nb_samples, channel, base, cut, given,
                   stopped, dropped>>

\* awt5_decode_stream_buffer on the channel's block: nothing found, or found and
\* the callback lets the run go on.
AnotherButOne == channel + 2 < nb_decoder
AnotherLeft   == channel + 1 < nb_decoder

DecodeBlock ==
    /\ at = "decode"
    /\ given' = [given EXCEPT ![channel] = @ + 1]
    /\ IF AnotherLeft
       THEN channel' = channel + 1 /\ UNCHANGED at
       ELSE at' = "copy" /\ UNCHANGED channel
    /\ UNCHANGED <<nb_buffer, buffer, off, nb_samples, base, cut, stopped, dropped>>

\* The SDK fails, or the callback asks to stop: goto end.  The channels that
\* come after this one do not get the block, and the rest of the frame is lost.
StopInBlock ==
    /\ at = "decode"
    /\ given' = [given EXCEPT ![channel] = @ + 1]
    /\ stopped' = [stopped EXCEPT ![channel] = @ + 1]
    /\ dropped' = dropped + (nb_samples - off)
    /\ at' = "return"
    /\ UNCHANGED <<nb_buffer, buffer, off, nb_samples, channel, base, cut>>

BlockDone ==
    /\ at = "return"
    /\ UNCHANGED blockVars

BlockNext ==
    \/ \E samples \in FrameLengths : FilterFrame(samples)
    \/ CopyChunk \/ FrameRead \/ DecodeBlock \/ StopInBlock
    \/ BlockDone

BlockSpec == BlockInit /\ [][BlockNext]_blockVars

-----------------------------------------------------------------------------
\* The position of the next sample to be copied.
Read == base + off

\* Types, with the bounds that keep the memcpy inside the block and the frame: at
\* every copy nb_buffer < awt_size, and off does not pass the end of the frame.
BlockTypeOK ==
    /\ nb_buffer \in Slots
    /\ buffer \in [Channels -> [Slots -> Nat]]
    /\ at \in {"return", "copy", "decode"}
    /\ nb_samples \in Nat /\ off \in 0 .. nb_samples
    /\ channel \in Channels
    /\ base \in Nat /\ cut \in Nat /\ dropped \in Nat
    /\ given \in [Channels -> Nat] /\ stopped \in [Channels -> Nat]

\* Every block a decoder gets holds awt_size consecutive samples, the last of
\* them the last one copied, whatever the lengths of the frames and wherever
\* earlier blocks were abandoned; all channels get the same stretch.
BlocksConsecutive ==
    at = "decode" =>
      \A i \in Channels : \A k \in Slots : buffer[i][k] = Read - awt_size + k

\* No sample is lost or used twice: every one read is in a block, or in the
\* beginning of the next block, or was dropped with the rest of its frame.
SamplesAccounted ==
    at = "return" => base + nb_samples = cut * awt_size + nb_buffer + dropped

\* The channels' decoders fall out of step only through a stop or an error on an
\* earlier channel, by one block each time.
ChannelsInStep ==
    at # "decode" =>
      \A i \in Channels : i > 0 => given[i - 1] = given[i] + stopped[i - 1]

\* The abstract state: the block on offer, and where the next one starts.
NextSample == IF at = "return" THEN base + nb_samples ELSE base + off
blockBar   == IF at = "decode" THEN buffer ELSE <<>>

Stream == INSTANCE AwtStream WITH next <- NextSample - nb_buffer, block <- blockBar

\* awt_filter_frame keeps the promise of AwtStream across frames, files, stops and
\* errors: no decoder gets a block that overlaps with the one before, and a gap
\* only where a stop or an error has left one.
ImplementsStream == Stream!Spec
=============================================================================
