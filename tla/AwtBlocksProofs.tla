-------------------------- MODULE AwtBlocksProofs ---------------------------
(***************************************************************************)
(* Proofs about AwtBlocks for every block size, number of channels and      *)
(* length of frames.  The inductive invariant BlockInv gives the contents   *)
(* of the part of the buffers that is filled, while a block is collected    *)
(* as well as when it is full.                                              *)
(***************************************************************************)
EXTENDS AwtBlocks, TLAPS

\* The filled part of each buffer holds the last samples read.
PrefixConsecutive ==
    at # "decode" =>
      \A i \in Channels : \A k \in 0 .. nb_buffer - 1 :
         buffer[i][k] = NextSample - nb_buffer + k

Accounted == NextSample = cut * awt_size + nb_buffer + dropped

\* While a block is being decoded the channels before this one are ahead by it.
InStep ==
    \A i \in Channels : i > 0 =>
       given[i - 1] = given[i] + stopped[i - 1]
                      + (IF at = "decode" /\ i = channel THEN 1 ELSE 0)

BlockInv ==
    /\ BlockTypeOK /\ PrefixConsecutive /\ BlocksConsecutive
    /\ Accounted /\ InStep
    /\ at = "decode" => nb_buffer = 0

\* One more block of the same size.
LEMMA OneMoreBlock ==
  ASSUME NEW m \in Nat, NEW n \in Nat
  PROVE  (m + 1) * n = m * n + n
OBVIOUS

\* With empty buffers and no frame the invariant holds.
LEMMA BlockInitInv == BlockInit => BlockInv
<1> SUFFICES ASSUME BlockInit PROVE BlockInv
  OBVIOUS
<1> USE BlockConstants DEF BlockConstants, BlockInit
<1>1. BlockTypeOK
  BY DEF BlockTypeOK, Slots, Channels
<1>2. PrefixConsecutive /\ BlocksConsecutive
  BY DEF PrefixConsecutive, BlocksConsecutive, NextSample
<1>3. Accounted
  BY DEF Accounted, NextSample
<1>4. InStep
  BY DEF InStep, Channels
<1> QED
  BY <1>1, <1>2, <1>3, <1>4 DEF BlockInv

\* The next frame starts where the one before ended.
LEMMA FilterFrameInv ==
  ASSUME BlockInv, NEW samples \in FrameLengths, FilterFrame(samples)
  PROVE  BlockInv'
<1> USE BlockConstants DEF BlockConstants, BlockInv, FilterFrame, BlockTypeOK
<1>1. BlockTypeOK'
  BY DEF Slots, Channels
<1>2. PrefixConsecutive' /\ BlocksConsecutive'
  BY DEF PrefixConsecutive, BlocksConsecutive, NextSample, Slots
<1>3. Accounted'
  BY DEF Accounted, NextSample
<1>4. InStep'
  BY DEF InStep
<1> QED
  BY <1>1, <1>2, <1>3, <1>4

\* A chunk is copied behind the filled part, in every channel.
LEMMA CopyChunkInv ==
  ASSUME BlockInv, CopyChunk
  PROVE  BlockInv'
<1>1. /\ awt_size \in Int /\ nb_buffer \in 0 .. awt_size - 1 /\ base \in Nat
      /\ nb_samples \in Nat /\ off \in 0 .. nb_samples - 1
      /\ buffer \in [Channels -> [Slots -> Nat]]
      /\ cut \in Nat /\ dropped \in Nat
  BY BlockConstants DEF BlockConstants, BlockInv, BlockTypeOK, CopyChunk, Slots
<1>2. /\ Count \in Int
      /\ Count \in 1 .. awt_size - nb_buffer
      /\ off + Count \in 0 .. nb_samples
      /\ nb_buffer + Count < awt_size => off + Count = nb_samples
  BY <1>1 DEF Count
<1>3. \A i \in Channels : \A k \in Slots :
         buffer'[i][k] = IF k \in nb_buffer .. nb_buffer + Count - 1
                         THEN base + off + (k - nb_buffer) ELSE buffer[i][k]
  BY DEF CopyChunk, Copied
<1>4. \A i \in Channels : \A k \in 0 .. nb_buffer + Count - 1 :
         buffer'[i][k] = base + off - nb_buffer + k
  <2> TAKE i \in Channels
  <2> TAKE k \in 0 .. nb_buffer + Count - 1
  <2>1. k \in Slots
    BY <1>1, <1>2 DEF Slots
  <2>2. CASE k < nb_buffer
    <3>1. buffer[i][k] = base + off - nb_buffer + k
      BY <1>1, <2>2 DEF BlockInv, CopyChunk, PrefixConsecutive, NextSample
    <3> QED
      BY <1>1, <1>2, <1>3, <2>1, <2>2, <3>1
  <2>3. CASE k >= nb_buffer
    BY <1>1, <1>2, <1>3, <2>1, <2>3
  <2> QED
    BY <1>1, <1>2, <2>2, <2>3
<1>5. buffer' \in [Channels -> [Slots -> Nat]]
  BY <1>1, <1>2 DEF CopyChunk, Copied, Slots
<1>6. CASE BlockFull
  <2>1. /\ nb_buffer + Count = awt_size
        /\ at' = "decode" /\ nb_buffer' = 0 /\ cut' = cut + 1 /\ channel' = 0
        /\ off' = off + Count /\ base' = base /\ nb_samples' = nb_samples
        /\ UNCHANGED <<given, stopped, dropped>>
    BY <1>1, <1>2, <1>6 DEF BlockFull, CopyChunk
  <2>2. BlockTypeOK'
    <3>1. nb_buffer' \in Slots /\ off' \in 0 .. nb_samples'
      BY <1>1, <1>2, <2>1 DEF Slots
    <3>2. channel' \in Channels /\ cut' \in Nat
      BY <1>1, <2>1, BlockConstants DEF BlockConstants, Channels
    <3> QED
      BY <1>1, <1>5, <2>1, <3>1, <3>2 DEF BlockInv, BlockTypeOK
  <2>3. PrefixConsecutive'
    BY <2>1 DEF PrefixConsecutive
  <2>4. BlocksConsecutive'
    <3>1. \A k \in Slots : k \in Int /\ k \in 0 .. nb_buffer + Count - 1
      BY <1>1, <1>2, <2>1 DEF Slots
    <3>2. \A i \in Channels : \A k \in Slots :
             buffer'[i][k] = (base + off)' - awt_size + k
      <4> TAKE i \in Channels
      <4> TAKE k \in Slots
      <4>1. buffer'[i][k] = base + off - nb_buffer + k
        BY <1>4, <3>1
      <4> QED
        BY <1>1, <1>2, <2>1, <3>1, <4>1
    <3> QED
      BY <3>2 DEF BlocksConsecutive, Read
  <2>5. Accounted'
    <3>1. base + off = cut * awt_size + nb_buffer + dropped
      BY DEF BlockInv, Accounted, NextSample, CopyChunk
    <3>2. (cut + 1) * awt_size = cut * awt_size + awt_size
      BY <1>1, BlockConstants, OneMoreBlock DEF BlockConstants
    <3> QED
      BY <1>1, <1>2, <2>1, <3>1, <3>2 DEF Accounted, NextSample
  <2>6. InStep'
    BY <2>1 DEF BlockInv, InStep, CopyChunk, Channels
  <2> QED
    BY <2>1, <2>2, <2>3, <2>4, <2>5, <2>6 DEF BlockInv
<1>7. CASE ~BlockFull
  <2>1. /\ nb_buffer + Count < awt_size /\ off + Count = nb_samples
        /\ at' = "return" /\ nb_buffer' = nb_buffer + Count /\ cut' = cut
        /\ off' = off + Count /\ base' = base /\ nb_samples' = nb_samples
        /\ UNCHANGED <<channel, given, stopped, dropped>>
    BY <1>1, <1>2, <1>7 DEF BlockFull, CopyChunk
  <2>2. BlockTypeOK'
    BY <1>1, <1>2, <1>5, <2>1 DEF BlockInv, BlockTypeOK, Slots
  <2>3. PrefixConsecutive'
    <3>1. \A i \in Channels : \A k \in 0 .. nb_buffer' - 1 :
             buffer'[i][k] = (base + nb_samples)' - nb_buffer' + k
      <4> TAKE i \in Channels
      <4> TAKE k \in 0 .. nb_buffer' - 1
      <4>1. k \in 0 .. nb_buffer + Count - 1
        BY <1>1, <1>2, <2>1
      <4>2. buffer'[i][k] = base + off - nb_buffer + k
        BY <1>4, <4>1
      <4> QED
        BY <1>1, <1>2, <2>1, <4>1, <4>2
    <3>2. NextSample' = (base + nb_samples)'
      BY <2>1 DEF NextSample
    <3> QED
      BY <3>1, <3>2 DEF PrefixConsecutive
  <2>4. BlocksConsecutive'
    BY <2>1 DEF BlocksConsecutive
  <2>5. Accounted'
    <3>1. base + off = cut * awt_size + nb_buffer + dropped
      BY DEF BlockInv, Accounted, NextSample, CopyChunk
    <3> QED
      BY <1>1, <1>2, <2>1, <3>1 DEF Accounted, NextSample
  <2>6. InStep'
    BY <2>1 DEF BlockInv, InStep, CopyChunk
  <2> QED
    BY <2>1, <2>2, <2>3, <2>4, <2>5, <2>6 DEF BlockInv
<1> QED
  BY <1>6, <1>7

\* The whole frame has been read.
LEMMA FrameReadInv ==
  ASSUME BlockInv, FrameRead
  PROVE  BlockInv'
<1> USE DEF BlockInv, FrameRead, BlockTypeOK
<1>1. off = nb_samples
  OBVIOUS
<1>2. PrefixConsecutive' /\ BlocksConsecutive'
  BY <1>1 DEF PrefixConsecutive, BlocksConsecutive, NextSample
<1>3. Accounted' /\ InStep'
  BY <1>1 DEF Accounted, NextSample, InStep
<1> QED
  BY <1>1, <1>2, <1>3

\* The neighbours of a channel, and what InStep says of them.
LEMMA ChannelBefore ==
  ASSUME BlockInv, at = "decode", NEW i \in Channels, i > 0
  PROVE  /\ i \in Int /\ i < nb_decoder /\ i - 1 \in Channels
         /\ given[i] \in Nat /\ given[i - 1] \in Nat /\ stopped[i - 1] \in Nat
         /\ channel \in Int /\ channel >= 0 /\ channel < nb_decoder
         /\ given[i - 1] = given[i] + stopped[i - 1] + (IF i = channel THEN 1 ELSE 0)
<1>1. i \in Int /\ i < nb_decoder /\ i - 1 \in Channels
  BY BlockConstants DEF BlockConstants, Channels
<1>2. given[i] \in Nat /\ given[i - 1] \in Nat /\ stopped[i - 1] \in Nat
  BY <1>1 DEF BlockInv, BlockTypeOK
<1>3. channel \in Int /\ channel >= 0 /\ channel < nb_decoder
  BY BlockConstants DEF BlockConstants, BlockInv, BlockTypeOK, Channels
<1> QED
  BY <1>1, <1>2, <1>3 DEF BlockInv, InStep

\* A channel's decoder takes its block.
LEMMA DecodeBlockInv ==
  ASSUME BlockInv, DecodeBlock
  PROVE  BlockInv'
<1>1. BlockTypeOK'
  <2>1. given' \in [Channels -> Nat]
    BY DEF BlockInv, BlockTypeOK, DecodeBlock
  <2>2. channel' \in Channels
    <3>1. channel \in 0 .. nb_decoder - 1 /\ nb_decoder \in Nat
      BY BlockConstants DEF BlockConstants, BlockInv, BlockTypeOK, Channels
    <3>2. CASE AnotherLeft
      BY <3>1, <3>2 DEF DecodeBlock, AnotherLeft, Channels
    <3>3. CASE ~AnotherLeft
      BY <3>1, <3>3 DEF DecodeBlock, Channels
    <3> QED
      BY <3>2, <3>3
  <2>3. at' \in {"copy", "decode"}
    BY DEF DecodeBlock
  <2> QED
    BY <2>1, <2>2, <2>3 DEF BlockInv, BlockTypeOK, DecodeBlock
<1>2. PrefixConsecutive' /\ BlocksConsecutive'
  BY BlockConstants DEF BlockConstants, BlockInv, DecodeBlock, PrefixConsecutive,
     BlocksConsecutive, Read, Slots
<1>3. Accounted'
  BY DEF BlockInv, DecodeBlock, Accounted, NextSample
<1>4. InStep'
  <2> SUFFICES ASSUME NEW i \in Channels, i > 0
               PROVE  given'[i - 1] = given'[i] + stopped[i - 1]
                        + (IF at' = "decode" /\ i = channel' THEN 1 ELSE 0)
    BY DEF InStep, DecodeBlock
  <2>1. at = "decode"
    BY DEF DecodeBlock
  <2>2. /\ given'[i] = given[i] + (IF i = channel THEN 1 ELSE 0)
        /\ given'[i - 1] = given[i - 1] + (IF i - 1 = channel THEN 1 ELSE 0)
    BY <2>1, ChannelBefore DEF DecodeBlock, BlockInv, BlockTypeOK
  <2>3. CASE AnotherLeft
    <3>1. at' = "decode" /\ channel' = channel + 1
      BY <2>1, <2>3 DEF DecodeBlock
    <3> QED
      BY <2>1, <2>2, <3>1, ChannelBefore
  <2>4. CASE ~AnotherLeft
    <3>1. at' = "copy" /\ ~(channel + 1 < nb_decoder)
      BY <2>4 DEF DecodeBlock, AnotherLeft
    <3>2. i - 1 # channel
      BY <2>1, <3>1, ChannelBefore
    <3> QED
      BY <2>1, <2>2, <3>1, <3>2, ChannelBefore
  <2> QED
    BY <2>3, <2>4
<1>5. at' = "decode" => nb_buffer' = 0
  BY DEF BlockInv, DecodeBlock
<1> QED
  BY <1>1, <1>2, <1>3, <1>4, <1>5 DEF BlockInv

\* The decoder fails, or the callback asks to stop.
LEMMA StopInBlockInv ==
  ASSUME BlockInv, StopInBlock
  PROVE  BlockInv'
<1>1. BlockTypeOK'
  <2>1. given' \in [Channels -> Nat] /\ stopped' \in [Channels -> Nat]
    BY DEF BlockInv, BlockTypeOK, StopInBlock
  <2>2. dropped' \in Nat
    BY DEF BlockInv, BlockTypeOK, StopInBlock
  <2> QED
    BY <2>1, <2>2 DEF BlockInv, BlockTypeOK, StopInBlock
<1>2. PrefixConsecutive' /\ BlocksConsecutive'
  BY DEF BlockInv, StopInBlock, PrefixConsecutive, BlocksConsecutive
<1>3. Accounted'
  <2>1. base + off = cut * awt_size + nb_buffer + dropped
    BY DEF BlockInv, Accounted, NextSample, StopInBlock
  <2>2. /\ base \in Int /\ off \in Int /\ nb_samples \in Int /\ nb_buffer \in Int
        /\ dropped \in Int /\ cut * awt_size \in Int
    BY BlockConstants DEF BlockConstants, BlockInv, BlockTypeOK, Slots
  <2>3. base + nb_samples = cut * awt_size + nb_buffer + (dropped + (nb_samples - off))
    BY <2>1, <2>2
  <2> QED
    BY <2>3 DEF StopInBlock, Accounted, NextSample
<1>4. InStep'
  <2> SUFFICES ASSUME NEW i \in Channels, i > 0
               PROVE  given'[i - 1] = given'[i] + stopped'[i - 1] + 0
    BY DEF InStep, StopInBlock
  <2>1. at = "decode"
    BY DEF StopInBlock
  <2>2. /\ given'[i] = given[i] + (IF i = channel THEN 1 ELSE 0)
        /\ given'[i - 1] = given[i - 1] + (IF i - 1 = channel THEN 1 ELSE 0)
        /\ stopped'[i - 1] = stopped[i - 1] + (IF i - 1 = channel THEN 1 ELSE 0)
    BY <2>1, ChannelBefore DEF StopInBlock, BlockInv, BlockTypeOK
  <2> QED
    BY <2>1, <2>2, ChannelBefore
<1>5. at' # "decode"
  BY DEF StopInBlock
<1> QED
  BY <1>1, <1>2, <1>3, <1>4, <1>5 DEF BlockInv

\* At every place of awt_filter_frame the filled part of the buffers and the
\* counts of samples are what BlockInv says.
THEOREM BlockInvariant == BlockSpec => []BlockInv
<1>1. BlockInv /\ [BlockNext]_blockVars => BlockInv'
  <2> SUFFICES ASSUME BlockInv, [BlockNext]_blockVars PROVE BlockInv'
    OBVIOUS
  <2>1. ASSUME NEW samples \in FrameLengths, FilterFrame(samples) PROVE BlockInv'
    BY <2>1, FilterFrameInv
  <2>2. CASE CopyChunk \/ FrameRead \/ DecodeBlock \/ StopInBlock
    BY <2>2, CopyChunkInv, FrameReadInv, DecodeBlockInv, StopInBlockInv
  <2>3. CASE UNCHANGED blockVars
    BY <2>3 DEF blockVars, BlockInv, BlockTypeOK, PrefixConsecutive, NextSample,
       BlocksConsecutive, Read, Accounted, InStep
  <2> QED
    BY <2>1, <2>2, <2>3 DEF BlockNext, BlockDone
<1> QED
  BY <1>1, BlockInitInv, PTL DEF BlockSpec

\* The copies stay inside block and frame, for all sizes.
THEOREM CopiesInBounds == BlockSpec => []BlockTypeOK
<1>1. BlockInv => BlockTypeOK
  BY DEF BlockInv
<1> QED
  BY <1>1, BlockInvariant, PTL

\* Every block is a stretch of consecutive samples, the same for all channels.
THEOREM BlocksAreConsecutive == BlockSpec => []BlocksConsecutive
<1>1. BlockInv => BlocksConsecutive
  BY DEF BlockInv
<1> QED
  BY <1>1, BlockInvariant, PTL

\* No sample is lost or repeated, except the dropped rest of an abandoned frame.
THEOREM AllSamplesAccounted == BlockSpec => []SamplesAccounted
<1>1. BlockInv => SamplesAccounted
  BY DEF BlockInv, Accounted, NextSample, SamplesAccounted
<1> QED
  BY <1>1, BlockInvariant, PTL

\* Only stops and errors bring the channels out of step.
THEOREM ChannelsStayInStep == BlockSpec => []ChannelsInStep
<1>1. BlockInv => ChannelsInStep
  <2> SUFFICES ASSUME BlockInv, at # "decode", NEW i \in Channels, i > 0
               PROVE  given[i - 1] = given[i] + stopped[i - 1]
    BY DEF ChannelsInStep
  <2>1. i - 1 \in Channels /\ given[i] \in Nat /\ stopped[i - 1] \in Nat
    BY BlockConstants DEF BlockConstants, Channels, BlockInv, BlockTypeOK
  <2> QED
    BY <2>1 DEF BlockInv, InStep
<1> QED
  BY <1>1, BlockInvariant, PTL

-----------------------------------------------------------------------------
\* A block is a function on a set that is not empty, so it is not NoBlock.
LEMMA BlockIsOffered ==
  ASSUME BlockInv
  PROVE  buffer # <<>>
<1>1. DOMAIN buffer = Channels /\ 0 \in Channels
  BY BlockConstants DEF BlockConstants, BlockInv, BlockTypeOK, Channels
<1>2. DOMAIN <<>> = {}
  OBVIOUS
<1> QED
  BY <1>1, <1>2

\* AwtBlocks implements AwtStream: the chunk that fills a block offers it, each
\* channel takes it, a stop abandons it, and every other step stutters.
THEOREM StreamRefinement == BlockSpec => ImplementsStream
<1> DEFINE nextBar == NextSample - nb_buffer
<1>1. BlockInit => Stream!Init
  BY BlockConstants DEF BlockConstants, BlockInit, Stream!Init, Stream!NoBlock,
     NextSample, blockBar
<1>2. ASSUME BlockInv, BlockInv', [BlockNext]_blockVars
      PROVE  [Stream!Offer \/ Stream!Take \/ Stream!Abandon]_<<nextBar, blockBar, channel>>
  <2> USE <1>2 DEF BlockInv
  <2>0. /\ awt_size \in Int /\ awt_size > 0 /\ nb_buffer \in Int
        /\ base \in Int /\ off \in Int /\ nb_samples \in Int /\ off <= nb_samples
    BY BlockConstants DEF BlockConstants, BlockTypeOK, Slots
  <2>1. ASSUME NEW samples \in FrameLengths, FilterFrame(samples)
        PROVE  UNCHANGED <<nextBar, blockBar, channel>>
    BY <2>0, <2>1, BlockConstants DEF BlockConstants, FilterFrame, NextSample, blockBar
  <2>2. CASE CopyChunk
    <3>1. /\ Count \in Int
          /\ nb_buffer + Count <= awt_size
          /\ nb_buffer + Count < awt_size => off + Count = nb_samples
      BY <2>0, <2>2 DEF CopyChunk, Count, BlockTypeOK, Slots
    <3>2. CASE BlockFull
      <4>1. /\ at = "copy" /\ at' = "decode" /\ nb_buffer' = 0 /\ channel' = 0
            /\ base' = base /\ off' = off + Count /\ nb_buffer + Count = awt_size
        BY <2>0, <2>2, <3>1, <3>2 DEF CopyChunk, BlockFull
      <4>2. nextBar' = nextBar + awt_size
        BY <2>0, <3>1, <4>1 DEF NextSample
      <4>3. buffer' = Stream!Consecutive(nextBar)
        <5>1. \A i \in Channels : \A k \in Slots : buffer'[i][k] = nextBar + k
          <6> TAKE i \in Channels
          <6> TAKE k \in Slots
          <6>1. buffer'[i][k] = Read' - awt_size + k /\ k \in Int
            BY <2>0, <4>1 DEF BlocksConsecutive, Slots
          <6>2. Read' = base + off + Count
            BY <2>0, <3>1, <4>1 DEF Read
          <6> QED
            BY <2>0, <3>1, <4>1, <6>1, <6>2 DEF NextSample
        <5>2. buffer' \in [Channels -> [Slots -> Nat]]
          BY DEF BlockTypeOK
        <5> HIDE DEF nextBar
        <5>3. buffer' = [i \in Channels |-> [k \in Slots |-> nextBar + k]]
          BY <5>1, <5>2
        <5> QED
          BY <5>3 DEF Stream!Consecutive, Channels, Slots
      <4> HIDE DEF nextBar
      <4>4. Stream!Offer
        BY <4>1, <4>2, <4>3 DEF Stream!Offer, Stream!NoBlock, blockBar, nextBar
      <4> QED
        BY <4>4
    <3>3. CASE ~BlockFull
      <4>1. /\ at = "copy" /\ at' = "return" /\ nb_buffer' = nb_buffer + Count
            /\ base' = base /\ nb_samples' = nb_samples /\ channel' = channel
            /\ off + Count = nb_samples
        BY <2>0, <2>2, <3>1, <3>3 DEF CopyChunk, BlockFull
      <4> QED
        BY <2>0, <3>1, <4>1 DEF NextSample, blockBar
    <3> QED
      BY <3>2, <3>3
  <2>3. CASE FrameRead
    BY <2>0, <2>3 DEF FrameRead, NextSample, blockBar
  <2>4. CASE DecodeBlock
    <3>1. UNCHANGED nextBar
      BY <2>4 DEF DecodeBlock, NextSample
    <3> HIDE DEF nextBar
    <3>2. Stream!Take
      BY <2>4, <3>1, BlockIsOffered
         DEF DecodeBlock, AnotherLeft, Stream!Take, Stream!NoBlock, blockBar, nextBar
    <3> QED
      BY <3>2
  <2>5. CASE StopInBlock
    <3>1. nextBar' >= nextBar
      BY <2>0, <2>5 DEF StopInBlock, NextSample
    <3> HIDE DEF nextBar
    <3>2. Stream!Abandon
      BY <2>5, <3>1, BlockIsOffered
         DEF StopInBlock, Stream!Abandon, Stream!NoBlock, blockBar, nextBar
    <3> QED
      BY <3>2
  <2>6. CASE UNCHANGED blockVars
    BY <2>6 DEF blockVars, NextSample, blockBar
  <2> QED
    BY <2>1, <2>2, <2>3, <2>4, <2>5, <2>6 DEF BlockNext, BlockDone
<1> QED
  BY <1>1, <1>2, BlockInvariant, PTL DEF BlockSpec, ImplementsStream, Stream!Spec
=============================================================================
