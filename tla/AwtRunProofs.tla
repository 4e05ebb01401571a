---------------------------- MODULE AwtRunProofs ----------------------------
(***************************************************************************)
(* Proofs about AwtRun, for all formats, limits, replies and numbers of    *)
(* calls: the types, and what a context reused across calls keeps.         *)
(*                                                                         *)
(* The inductive invariant RunInv says, of a context between any two       *)
(* statements: the initialised decoders are the first ones (in the order   *)
(* awt_setup makes them); a packet loop without decoders is one whose      *)
(* licence was refused; as long as no set-up has gone wrong, the graph and *)
(* the decoders belong to the same file; and what has been played never    *)
(* exceeds the sum of durations the limit is compared with.                *)
(***************************************************************************)
EXTENDS AwtRun, FiniteSetTheorems, TLAPS

\* The statements between the end of the set-up and the end of the loop.
Looping == {"loop", "read", "decode", "feed"}

DecodersInOrder ==
    /\ \E k \in 0 .. nb_decoder :
          /\ decoder = 0 .. (k - 1)
          /\ buffer = 0 .. (k - 1)
          /\ awt_size = 0 => k = 0
          /\ rpc = "decoders" => k < nb_decoder
          /\ k = nb_decoder \/ initFailed \/ rpc = "decoders"
    /\ initFailed => setupFailed

LoopHasDecoders ==
    rpc \in Looping \cup {"spin"} /\ nb_decoder = 0 => rejected > 0

FilesOpened == rpc \in {"filters", "setup", "decoders"} \cup Looping => file \in Formats

\* As long as nothing has gone wrong in a set-up.
Clean == ~setupFailed /\ rejected = 0

GraphMatchesDecoders ==
    Clean =>
      /\ nb_decoder = 0 /\ rpc \notin {"setup", "wait"} => fg = NoFormat
      /\ nb_decoder # 0 => fg \in Formats /\ nb_decoder = NbDecoders(fg.ch)
      /\ rpc = "setup" /\ nb_decoder = 0 => fg = file

DurationsBounded ==
    /\ played <= pre_duration
    /\ timed /\ rpc \in Looping => current_duration + pre_duration < Limit
    /\ rpc \in {"open", "filters", "setup", "decoders"} => ~timed

RunInv ==
    /\ RunTypeOK /\ DecodersInOrder /\ LoopHasDecoders /\ FilesOpened
    /\ GraphMatchesDecoders /\ DurationsBounded
    /\ FaultNeedsFailedSetup /\ SpinNeedsRefusedLicense

-----------------------------------------------------------------------------
\* The number of decoders awt_setup makes lies between 1 and AWT_MAX_DECODER and
\* does not exceed the number of channels.
LEMMA NbDecodersRange ==
    ASSUME NEW f \in Formats
    PROVE  /\ NbDecoders(f.ch) \in 1 .. AWT_MAX_DECODER
           /\ NbDecoders(f.ch) <= f.ch
  BY RunConstants DEF RunConstants, NbDecoders, AWT_MAX_DECODER

\* The first k naturals number k.
LEMMA FirstNumbers == \A k \in Nat : Cardinality(0 .. (k - 1)) = k
  BY FS_Interval

\* A context fresh from awt_open satisfies the invariant.
LEMMA RunInitInv == RunInit => RunInv
<1> SUFFICES ASSUME RunInit PROVE RunInv
  OBVIOUS
<1> USE RunConstants DEF RunConstants, RunInit
<1>1. RunTypeOK
  <2>1. TypeOfFlags
    BY DEF TypeOfFlags
  <2>2. TypeOfFiles
    BY DEF TypeOfFiles
  <2>3. TypeOfDecoders
    BY DEF TypeOfDecoders, AWT_MAX_DECODER
  <2>4. TypeOfCounters
    BY DEF TypeOfCounters
  <2>5. TypeOfResult
    BY DEF TypeOfResult, RunPCs, ResultCodes, AWT_CODE_SUCCESS
  <2> QED
    BY <2>1, <2>2, <2>3, <2>4, <2>5 DEF RunTypeOK
<1>2. DecodersInOrder
  BY DEF DecodersInOrder
<1>3. LoopHasDecoders /\ FilesOpened
  BY DEF LoopHasDecoders, Looping, FilesOpened
<1>4. GraphMatchesDecoders
  BY DEF GraphMatchesDecoders, Clean
<1>5. DurationsBounded
  BY DEF DurationsBounded, Looping
<1>6. FaultNeedsFailedSetup /\ SpinNeedsRefusedLicense
  BY DEF FaultNeedsFailedSetup, SpinNeedsRefusedLicense
<1> QED
  BY <1>1, <1>2, <1>3, <1>4, <1>5, <1>6 DEF RunInv

-----------------------------------------------------------------------------
\* What each statement of a run does to the invariant.  In every lemma the last
\* step but one collects the conjuncts the statement leaves alone.

\* The loop moves on, or leaves for out:, without touching the context.
LEMMA ControlInv ==
  ASSUME RunInv, rpc \in Looping, rpc' \in Looping \cup {"out"}, ret' \in Int,
         UNCHANGED <<context, file, timed, history>>
  PROVE  RunInv'
<1> USE DEF RunInv, context, history, Looping
<1>1. TypeOfResult'
  BY DEF RunTypeOK, TypeOfResult, RunPCs
<1>2. TypeOfFlags' /\ TypeOfFiles' /\ TypeOfDecoders' /\ TypeOfCounters'
  BY DEF RunTypeOK, TypeOfFlags, TypeOfFiles, TypeOfDecoders, TypeOfCounters
<1>3. DecodersInOrder'
  BY DEF DecodersInOrder
<1>4. LoopHasDecoders' /\ FilesOpened' /\ DurationsBounded'
  BY DEF LoopHasDecoders, FilesOpened, DurationsBounded
<1>5. GraphMatchesDecoders'
  BY DEF GraphMatchesDecoders, Clean
<1>6. FaultNeedsFailedSetup' /\ SpinNeedsRefusedLicense'
  BY DEF FaultNeedsFailedSetup, SpinNeedsRefusedLicense
<1> QED
  BY <1>1, <1>2, <1>3, <1>4, <1>5, <1>6 DEF RunTypeOK

\* The statements of the loop that only move on or fail.
LEMMA LoopControlInv ==
  ASSUME RunInv,
         LoopHead \/ ReadFails \/ ReadOther \/ ReadUntimed \/ Decode
           \/ FeedRejected \/ FeedNoOutput
  PROVE  RunInv'
<1> USE DEF Looping
<1>0. ret \in Int
  BY DEF RunInv, RunTypeOK, TypeOfResult
<1>1. CASE LoopHead
  BY <1>0, <1>1, ControlInv DEF LoopHead
<1>2. CASE ReadFails \/ ReadOther \/ ReadUntimed
  BY <1>2, ControlInv DEF ReadFails, ReadOther, ReadUntimed, GotoOut,
     AVERROR_EAGAIN, AVERROR_EINVAL, AVERROR_EOF, AVERROR_EXIT
<1>3. CASE Decode
  BY <1>3, ControlInv DEF Decode, GotoOut, AVERROR_EAGAIN, AVERROR_EINVAL
<1>4. CASE FeedRejected \/ FeedNoOutput
  BY <1>4, ControlInv DEF FeedRejected, FeedNoOutput, GotoOut,
     AVERROR_EAGAIN, AVERROR_EINVAL
<1> QED
  BY <1>1, <1>2, <1>3, <1>4

\* A new call begins, or fails before it has opened anything.
LEMMA RunStartInv ==
  ASSUME RunInv, RunStart
  PROVE  RunInv'
<1> USE RunConstants DEF RunConstants, RunInv, RunStart, GotoEnd, context,
     history
<1>1. TypeOfFlags'
  BY DEF RunTypeOK, TypeOfFlags
<1>2. TypeOfCounters'
  BY DEF RunTypeOK, TypeOfCounters
<1>3. TypeOfResult'
  BY DEF RunTypeOK, TypeOfResult, RunPCs, ResultCodes, AWT_CODE_SUCCESS,
     AWT_CODE_OPEN_ERROR, AWT_CODE_SETUP_ERROR, AWT_CODE_PROCESS_ERROR
<1>4. DecodersInOrder'
  BY DEF RunTypeOK, TypeOfFlags, DecodersInOrder
<1>5. GraphMatchesDecoders'
  BY DEF RunTypeOK, TypeOfFlags, GraphMatchesDecoders, Clean
<1>6. FaultNeedsFailedSetup'
  BY DEF FaultNeedsFailedSetup
<1>7. /\ TypeOfFiles' /\ TypeOfDecoders' /\ LoopHasDecoders'
      /\ FilesOpened' /\ DurationsBounded' /\ SpinNeedsRefusedLicense'
  BY DEF RunTypeOK, TypeOfFiles, TypeOfDecoders, LoopHasDecoders, FilesOpened,
     DurationsBounded, SpinNeedsRefusedLicense, Looping
<1> QED
  BY <1>1, <1>2, <1>3, <1>4, <1>5, <1>6, <1>7 DEF RunTypeOK

\* The file is opened, or not.
LEMMA OpenInputInv ==
  ASSUME RunInv, OpenInput
  PROVE  RunInv'
<1> USE RunConstants DEF RunConstants, RunInv, OpenInput, GotoEnd, RateFor,
     context, history
<1>1. TypeOfFlags'
  BY DEF RunTypeOK, TypeOfFlags
<1>2. TypeOfFiles'
  BY DEF RunTypeOK, TypeOfFiles
<1>3. TypeOfResult'
  BY DEF RunTypeOK, TypeOfResult, RunPCs, ResultCodes, AWT_CODE_SUCCESS,
     AWT_CODE_OPEN_ERROR, AWT_CODE_SETUP_ERROR, AWT_CODE_PROCESS_ERROR
<1>4. DecodersInOrder'
  BY DEF RunTypeOK, TypeOfFlags, DecodersInOrder
<1>5. FilesOpened'
  BY DEF FilesOpened, Looping
<1>6. GraphMatchesDecoders'
  BY DEF RunTypeOK, TypeOfFlags, GraphMatchesDecoders, Clean
<1>7. /\ TypeOfDecoders' /\ TypeOfCounters' /\ LoopHasDecoders'
      /\ DurationsBounded' /\ FaultNeedsFailedSetup' /\ SpinNeedsRefusedLicense'
  BY DEF RunTypeOK, TypeOfDecoders, TypeOfCounters, LoopHasDecoders,
     DurationsBounded, FaultNeedsFailedSetup, SpinNeedsRefusedLicense, Looping
<1> QED
  BY <1>1, <1>2, <1>3, <1>4, <1>5, <1>6, <1>7 DEF RunTypeOK

\* The graph is built for this file if the context has none.
LEMMA InitFiltersInv ==
  ASSUME RunInv, InitFilters
  PROVE  RunInv'
<1> USE RunConstants DEF RunConstants, RunInv, InitFilters, GotoEnd, GraphFor,
     context, history
<1>1. TypeOfFlags'
  BY DEF RunTypeOK, TypeOfFlags
<1>2. TypeOfFiles'
  BY DEF RunTypeOK, TypeOfFiles
<1>3. TypeOfResult'
  BY DEF RunTypeOK, TypeOfResult, RunPCs, ResultCodes, AWT_CODE_SUCCESS,
     AWT_CODE_OPEN_ERROR, AWT_CODE_SETUP_ERROR, AWT_CODE_PROCESS_ERROR
<1>4. DecodersInOrder'
  BY DEF RunTypeOK, TypeOfFlags, DecodersInOrder
<1>5. GraphMatchesDecoders'
  BY DEF RunTypeOK, TypeOfFlags, GraphMatchesDecoders, Clean, FilesOpened
<1>6. /\ TypeOfDecoders' /\ TypeOfCounters' /\ LoopHasDecoders'
      /\ FilesOpened' /\ DurationsBounded' /\ FaultNeedsFailedSetup'
      /\ SpinNeedsRefusedLicense'
  BY DEF RunTypeOK, TypeOfDecoders, TypeOfCounters, LoopHasDecoders,
     FilesOpened, DurationsBounded, FaultNeedsFailedSetup,
     SpinNeedsRefusedLicense, Looping
<1> QED
  BY <1>1, <1>2, <1>3, <1>4, <1>5, <1>6 DEF RunTypeOK

\* The context has decoders already.
LEMMA SetupSkippedInv ==
  ASSUME RunInv, SetupSkipped
  PROVE  RunInv'
<1> USE RunConstants DEF RunConstants, RunInv, SetupSkipped, SetupNeeded,
     context, history
<1>1. TypeOfResult'
  BY DEF RunTypeOK, TypeOfResult, RunPCs, ResultCodes, AWT_CODE_SUCCESS,
     AWT_CODE_OPEN_ERROR, AWT_CODE_SETUP_ERROR, AWT_CODE_PROCESS_ERROR
<1>2. LoopHasDecoders'
  BY DEF LoopHasDecoders, Looping
<1>3. GraphMatchesDecoders'
  BY DEF GraphMatchesDecoders, Clean
<1>4. /\ TypeOfFlags' /\ TypeOfFiles' /\ TypeOfDecoders'
      /\ TypeOfCounters' /\ DecodersInOrder' /\ FilesOpened'
      /\ DurationsBounded' /\ FaultNeedsFailedSetup' /\ SpinNeedsRefusedLicense'
  BY DEF RunTypeOK, TypeOfFlags, TypeOfFiles, TypeOfDecoders, TypeOfCounters,
     DecodersInOrder, FilesOpened, DurationsBounded, FaultNeedsFailedSetup,
     SpinNeedsRefusedLicense, Looping
<1> QED
  BY <1>1, <1>2, <1>3, <1>4 DEF RunTypeOK

\* The licence server cannot be reached, or says nothing.
LEMMA LicenseUnansweredInv ==
  ASSUME RunInv, LicenseUnreachable \/ LicenseSilent
  PROVE  RunInv'
<1> USE RunConstants DEF RunConstants, RunInv, LicenseUnreachable,
     LicenseSilent, SetupNeeded, GotoEnd, context, history
<1>1. TypeOfFlags'
  BY DEF RunTypeOK, TypeOfFlags
<1>2. TypeOfResult'
  BY DEF RunTypeOK, TypeOfResult, RunPCs, ResultCodes, AWT_CODE_SUCCESS,
     AWT_CODE_OPEN_ERROR, AWT_CODE_SETUP_ERROR, AWT_CODE_PROCESS_ERROR
<1>3. DecodersInOrder'
  BY DEF RunTypeOK, TypeOfFlags, DecodersInOrder
<1>4. GraphMatchesDecoders'
  BY DEF GraphMatchesDecoders, Clean
<1>5. /\ TypeOfFiles' /\ TypeOfDecoders' /\ TypeOfCounters'
      /\ LoopHasDecoders' /\ FilesOpened' /\ DurationsBounded'
      /\ FaultNeedsFailedSetup' /\ SpinNeedsRefusedLicense'
  BY DEF RunTypeOK, TypeOfFiles, TypeOfDecoders, TypeOfCounters,
     LoopHasDecoders, FilesOpened, DurationsBounded, FaultNeedsFailedSetup,
     SpinNeedsRefusedLicense, Looping
<1> QED
  BY <1>1, <1>2, <1>3, <1>4, <1>5 DEF RunTypeOK

\* The licence is refused, let through, or garbled.
LEMMA LicenseReplyInv ==
  ASSUME RunInv, NEW reply \in LicenseReplies, LicenseReply(reply)
  PROVE  RunInv'
<1> USE RunConstants DEF RunConstants, RunInv, LicenseReply, SetupNeeded,
     GotoEnd, context, history
<1>1. TypeOfFlags'
  BY DEF RunTypeOK, TypeOfFlags
<1>2. TypeOfDecoders'
  BY NbDecodersRange DEF RunTypeOK, TypeOfDecoders, AWT_MAX_DECODER,
     FilesOpened
<1>3. TypeOfCounters'
  BY DEF RunTypeOK, TypeOfCounters
<1>4. TypeOfResult'
  BY DEF RunTypeOK, AWT5_ERROR, TypeOfResult, RunPCs, ResultCodes,
     AWT_CODE_SUCCESS, AWT_CODE_OPEN_ERROR, AWT_CODE_SETUP_ERROR,
     AWT_CODE_PROCESS_ERROR
<1>5. DecodersInOrder'
  BY NbDecodersRange DEF RunTypeOK, TypeOfFlags, TypeOfDecoders,
     AWT_MAX_DECODER, DecodersInOrder, FilesOpened
<1>6. LoopHasDecoders'
  BY NbDecodersRange DEF RunTypeOK, TypeOfCounters, LoopHasDecoders, Looping,
     FilesOpened
<1>7. GraphMatchesDecoders'
  BY NbDecodersRange DEF RunTypeOK, TypeOfFlags, TypeOfCounters,
     GraphMatchesDecoders, Clean, FilesOpened
<1>8. DurationsBounded'
  BY DEF DurationsBounded, Looping
<1>9. /\ TypeOfFiles' /\ FilesOpened' /\ FaultNeedsFailedSetup'
      /\ SpinNeedsRefusedLicense'
  BY DEF RunTypeOK, TypeOfFiles, FilesOpened, FaultNeedsFailedSetup,
     SpinNeedsRefusedLicense, Looping
<1> QED
  BY <1>1, <1>2, <1>3, <1>4, <1>5, <1>6, <1>7, <1>8, <1>9 DEF RunTypeOK

\* The next decoder is initialised, or the set-up fails at it.
LEMMA InitDecoderInv ==
  ASSUME RunInv, InitDecoder
  PROVE  RunInv'
<1> USE RunConstants DEF RunConstants, RunInv, InitDecoder, GotoEnd,
     DecoderReady, context, history
<1>1. TypeOfFlags'
  BY DEF RunTypeOK, TypeOfFlags
<1>2. TypeOfDecoders'
  <2> PICK k \in 0 .. nb_decoder :
            decoder = 0 .. (k - 1) /\ (rpc = "decoders" => k < nb_decoder)
    BY DEF DecodersInOrder
  <2>1. k \in 0 .. AWT_MAX_DECODER - 1 /\ Cardinality(decoder) = k
    BY FirstNumbers DEF RunTypeOK, TypeOfDecoders, AWT_MAX_DECODER
  <2> QED
    BY <2>1 DEF RunTypeOK, TypeOfDecoders, Decoders
<1>3. TypeOfResult'
  BY DEF RunTypeOK, TypeOfResult, RunPCs, ResultCodes, AWT_CODE_SETUP_ERROR
<1>4. DecodersInOrder'
  <2> PICK k \in 0 .. nb_decoder :
            /\ decoder = 0 .. (k - 1) /\ buffer = 0 .. (k - 1)
            /\ (awt_size = 0 => k = 0)
            /\ (rpc = "decoders" => k < nb_decoder)
    BY DEF DecodersInOrder
  <2>1. k \in Nat /\ nb_decoder \in Nat /\ k < nb_decoder
    BY DEF RunTypeOK, TypeOfDecoders, AWT_MAX_DECODER
  <2>2. Cardinality(decoder) = k
    BY <2>1, FirstNumbers
  <2>3. CASE DecoderReady(k) /\ rpc' = IF k + 1 = nb_decoder THEN "loop" ELSE "decoders"
    <3>1. decoder' = 0 .. k /\ buffer' = 0 .. k
      BY <2>1, <2>3
    <3>2. awt_size' # 0
      BY <2>3
    <3>3. k + 1 \in 0 .. nb_decoder' /\ k = (k + 1) - 1
      BY <2>1
    <3>4. /\ rpc' = "decoders" => k + 1 < nb_decoder'
          /\ k + 1 = nb_decoder' \/ rpc' = "decoders"
      BY <2>1, <2>3
    <3> QED
      BY <3>1, <3>2, <3>3, <3>4 DEF DecodersInOrder
  <2>4. CASE UNCHANGED <<decoder, buffer, awt_size>> /\ setupFailed' /\ rpc' = "end"
    BY <2>1, <2>4 DEF DecodersInOrder
  <2> QED
    BY <2>2, <2>3, <2>4 DEF RunTypeOK, TypeOfFlags
<1>5. LoopHasDecoders'
  <2>1. nb_decoder # 0
    BY DEF DecodersInOrder, RunTypeOK, TypeOfDecoders, AWT_MAX_DECODER
  <2> QED
    BY <2>1 DEF LoopHasDecoders
<1>6. FilesOpened'
  BY DEF FilesOpened, Looping
<1>7. GraphMatchesDecoders'
  BY DEF RunTypeOK, TypeOfFlags, GraphMatchesDecoders, Clean
<1>8. DurationsBounded'
  BY DEF DurationsBounded, Looping
<1>9. /\ TypeOfFiles' /\ TypeOfCounters' /\ FaultNeedsFailedSetup'
      /\ SpinNeedsRefusedLicense'
  BY DEF RunTypeOK, TypeOfFiles, TypeOfCounters, FaultNeedsFailedSetup,
     SpinNeedsRefusedLicense
<1> QED
  BY <1>1, <1>2, <1>3, <1>4, <1>5, <1>6, <1>7, <1>8, <1>9 DEF RunTypeOK

\* A packet with a timestamp, tested against the limit.
LEMMA ReadTimedInv ==
  ASSUME RunInv, NEW position \in Positions, ReadTimed(position)
  PROVE  RunInv'
<1> USE RunConstants DEF RunConstants, RunInv, ReadTimed, context, history
<1>1. TypeOfFlags'
  BY DEF RunTypeOK, TypeOfFlags
<1>2. TypeOfCounters'
  BY DEF RunTypeOK, TypeOfCounters
<1>3. TypeOfResult'
  BY DEF RunTypeOK, TypeOfResult, RunPCs, ResultCodes, AWT_CODE_SUCCESS,
     AWT_CODE_OPEN_ERROR, AWT_CODE_SETUP_ERROR, AWT_CODE_PROCESS_ERROR
<1>4. DecodersInOrder'
  BY DEF DecodersInOrder
<1>5. DurationsBounded'
  BY DEF RunTypeOK, TypeOfFlags, TypeOfCounters, DurationsBounded, Looping
<1>6. /\ TypeOfFiles' /\ TypeOfDecoders' /\ LoopHasDecoders'
      /\ FilesOpened' /\ GraphMatchesDecoders' /\ FaultNeedsFailedSetup'
      /\ SpinNeedsRefusedLicense'
  BY DEF RunTypeOK, TypeOfFiles, TypeOfDecoders, LoopHasDecoders, FilesOpened,
     GraphMatchesDecoders, Clean, FaultNeedsFailedSetup,
     SpinNeedsRefusedLicense, Looping
<1> QED
  BY <1>1, <1>2, <1>3, <1>4, <1>5, <1>6 DEF RunTypeOK

\* A filtered frame is cut into blocks, on decoders that are there or not.
LEMMA FilterFrameInv ==
  ASSUME RunInv, FilterFrame
  PROVE  RunInv'
<1> USE RunConstants DEF RunConstants, RunInv, FilterFrame, Report, GotoOut,
     context, history
<1>1. TypeOfCounters'
  BY DEF RunTypeOK, TypeOfCounters
<1>2. TypeOfResult'
  BY DEF RunTypeOK, TypeOfResult, RunPCs, AVERROR_EAGAIN, AVERROR_EOF,
     AWT5_ERROR
<1>3. DecodersInOrder'
  BY DEF DecodersInOrder
<1>4. FaultNeedsFailedSetup'
  <2> SUFFICES ASSUME rpc' = "fault", Clean
               PROVE  FALSE
    BY DEF FaultNeedsFailedSetup, Clean, RunTypeOK, TypeOfCounters
  <2>1. decoder = 0 .. (nb_decoder - 1) /\ buffer = 0 .. (nb_decoder - 1)
    BY DEF DecodersInOrder, Clean
  <2>2. nb_decoder # 0 => nb_decoder <= fg.ch
    BY NbDecodersRange DEF GraphMatchesDecoders
  <2>3. FrameReady
    BY <2>1, <2>2, NbDecodersRange
       DEF FrameReady, GraphMatchesDecoders, RunTypeOK, TypeOfDecoders, AWT_MAX_DECODER
  <2> QED
    BY <2>3
<1>5. SpinNeedsRefusedLicense'
  <2> SUFFICES ASSUME rpc' = "spin"
               PROVE  nb_decoder = 0 /\ rejected > 0
    BY DEF SpinNeedsRefusedLicense
  <2>1. FrameReady /\ awt_size = 0
    OBVIOUS
  <2>2. decoder = {}
    BY <2>1 DEF DecodersInOrder
  <2>3. nb_decoder = 0
    BY <2>1, <2>2 DEF FrameReady, RunTypeOK, TypeOfDecoders, AWT_MAX_DECODER
  <2> QED
    BY <2>3 DEF LoopHasDecoders, Looping
<1>6. /\ TypeOfFlags' /\ TypeOfFiles' /\ TypeOfDecoders'
      /\ LoopHasDecoders' /\ FilesOpened' /\ GraphMatchesDecoders'
      /\ DurationsBounded'
  BY DEF RunTypeOK, TypeOfFlags, TypeOfFiles, TypeOfDecoders, LoopHasDecoders,
     FilesOpened, GraphMatchesDecoders, Clean, DurationsBounded, Looping
<1> QED
  BY <1>1, <1>2, <1>3, <1>4, <1>5, <1>6 DEF RunTypeOK

\* The call ends and its duration is added up.
LEMMA RunEndInv ==
  ASSUME RunInv, RunEnd
  PROVE  RunInv'
<1> USE RunConstants DEF RunConstants, RunInv, RunEnd, ResultOf,
     DurationSoFar, context, history
<1>1. TypeOfCounters'
  BY DEF RunTypeOK, TypeOfCounters
<1>2. TypeOfResult'
  BY DEF RunTypeOK, TypeOfResult, RunPCs, ResultCodes, AWT_CODE_SUCCESS,
     AWT_CODE_OPEN_ERROR, AWT_CODE_SETUP_ERROR, AWT_CODE_PROCESS_ERROR
<1>3. DecodersInOrder'
  BY DEF DecodersInOrder
<1>4. DurationsBounded'
  BY DEF RunTypeOK, TypeOfFlags, TypeOfCounters, DurationsBounded, Looping
<1>5. /\ TypeOfFlags' /\ TypeOfFiles' /\ TypeOfDecoders'
      /\ LoopHasDecoders' /\ FilesOpened' /\ GraphMatchesDecoders'
      /\ FaultNeedsFailedSetup' /\ SpinNeedsRefusedLicense'
  BY DEF RunTypeOK, TypeOfFlags, TypeOfFiles, TypeOfDecoders, LoopHasDecoders,
     FilesOpened, GraphMatchesDecoders, Clean, FaultNeedsFailedSetup,
     SpinNeedsRefusedLicense, Looping
<1> QED
  BY <1>1, <1>2, <1>3, <1>4, <1>5 DEF RunTypeOK

\* Another thread clears running.
LEMMA RequestStopInv ==
  ASSUME RunInv, RequestStop
  PROVE  RunInv'
<1> USE RunConstants DEF RunConstants, RunInv, RequestStop, locals, context,
     history
<1>1. TypeOfFlags'
  BY DEF RunTypeOK, TypeOfFlags
<1>2. /\ TypeOfFiles' /\ TypeOfDecoders' /\ TypeOfCounters'
      /\ TypeOfResult' /\ DecodersInOrder' /\ LoopHasDecoders'
      /\ FilesOpened' /\ GraphMatchesDecoders' /\ DurationsBounded'
      /\ FaultNeedsFailedSetup' /\ SpinNeedsRefusedLicense'
  BY DEF RunTypeOK, TypeOfFiles, TypeOfDecoders, TypeOfCounters, TypeOfResult,
     DecodersInOrder, LoopHasDecoders, FilesOpened, GraphMatchesDecoders,
     Clean, DurationsBounded, FaultNeedsFailedSetup, SpinNeedsRefusedLicense,
     Looping
<1> QED
  BY <1>1, <1>2 DEF RunTypeOK

\* The callback, which may clear running too.
LEMMA CallbackRunInv ==
  ASSUME RunInv, Report, running' \in BOOLEAN,
         UNCHANGED <<fg, sample_rate, nb_decoder, decoder, buffer, awt_size, license,
                     current_duration, pre_duration, locals, runs, played, granted,
                     rejected, lost, initFailed, setupFailed>>
  PROVE  RunInv'
<1> USE DEF RunInv, locals, Report
<1>1. TypeOfFlags' /\ TypeOfCounters'
  BY RunConstants DEF RunConstants, RunTypeOK, TypeOfFlags, TypeOfCounters
<1>2. /\ TypeOfFiles' /\ TypeOfDecoders' /\ TypeOfResult' /\ DecodersInOrder'
      /\ LoopHasDecoders' /\ FilesOpened' /\ GraphMatchesDecoders'
      /\ DurationsBounded' /\ FaultNeedsFailedSetup' /\ SpinNeedsRefusedLicense'
  BY DEF RunTypeOK, TypeOfFiles, TypeOfDecoders, TypeOfResult, DecodersInOrder,
     LoopHasDecoders, FilesOpened, GraphMatchesDecoders, Clean, DurationsBounded,
     FaultNeedsFailedSetup, SpinNeedsRefusedLicense, Looping
<1> QED
  BY <1>1, <1>2 DEF RunTypeOK

\* awt_close empties a context on which no run is in progress.
LEMMA TeardownInv ==
  ASSUME RunInv, rpc = "idle", Teardown
  PROVE  RunInv'
<1> USE RunConstants DEF RunConstants, RunInv, Teardown, FreeGraph, locals,
     context, history
<1>1. TypeOfFlags'
  BY DEF RunTypeOK, TypeOfFlags
<1>2. TypeOfFiles'
  BY DEF RunTypeOK, TypeOfFiles
<1>3. TypeOfDecoders'
  BY DEF RunTypeOK, TypeOfDecoders, AWT_MAX_DECODER
<1>4. DecodersInOrder'
  BY DEF RunTypeOK, TypeOfDecoders, AWT_MAX_DECODER, DecodersInOrder
<1>5. LoopHasDecoders'
  BY DEF LoopHasDecoders, Looping
<1>6. GraphMatchesDecoders'
  BY DEF GraphMatchesDecoders, Clean
<1>7. SpinNeedsRefusedLicense'
  BY DEF SpinNeedsRefusedLicense
<1>8. /\ TypeOfCounters' /\ TypeOfResult' /\ FilesOpened'
      /\ DurationsBounded' /\ FaultNeedsFailedSetup'
  BY DEF RunTypeOK, TypeOfCounters, TypeOfResult, FilesOpened,
     DurationsBounded, FaultNeedsFailedSetup, Looping
<1> QED
  BY <1>1, <1>2, <1>3, <1>4, <1>5, <1>6, <1>7, <1>8 DEF RunTypeOK

-----------------------------------------------------------------------------
\* The statements of a run together.
LEMMA RunStepInv == RunInv /\ RunStep => RunInv'
  BY OpenInputInv, InitFiltersInv, SetupSkippedInv, LicenseUnansweredInv,
     LicenseReplyInv, InitDecoderInv, ReadTimedInv, FilterFrameInv, RunEndInv,
     LoopControlInv
     DEF RunStep

\* Every step preserves the invariant: a run that starts or goes on, and the
\* flag that awt_close clears without the lock.
LEMMA RunNextInv == RunInv /\ [RunNext]_runVars => RunInv'
<1> SUFFICES ASSUME RunInv, [RunNext]_runVars PROVE RunInv'
  OBVIOUS
<1>1. CASE RunStart \/ RunStep \/ RequestStop
  BY <1>1, RunStartInv, RunStepInv, RequestStopInv
<1>2. CASE UNCHANGED runVars
  BY <1>2 DEF runVars, context, locals, history, RunInv, RunTypeOK, TypeOfFlags,
     TypeOfFiles, TypeOfDecoders, TypeOfCounters, TypeOfResult, DecodersInOrder,
     LoopHasDecoders, FilesOpened, GraphMatchesDecoders, Clean, DurationsBounded,
     FaultNeedsFailedSetup, SpinNeedsRefusedLicense
<1> QED
  BY <1>1, <1>2 DEF RunNext, RunDone

\* RunInv holds of every context in every state of every sequence of calls.
THEOREM RunInvariant == RunSpec => []RunInv
<1>1. RunInit => RunInv
  BY RunInitInv
<1>2. RunInv /\ [RunNext]_runVars => RunInv'
  BY RunNextInv
<1> QED
  BY <1>1, <1>2, PTL DEF RunSpec

\* Types, and the four codes of awt.h as the only results of a call.
THEOREM RunTypesHold == RunSpec => []RunTypeOK
<1>1. RunInv => RunTypeOK
  BY DEF RunInv
<1> QED
  BY <1>1, RunInvariant, PTL

\* A frame meets a missing decoder, buffer or channel only after a set-up that
\* went wrong, for any file formats and any number of calls.
THEOREM FaultOnlyAfterFailedSetup == RunSpec => []FaultNeedsFailedSetup
<1>1. RunInv => FaultNeedsFailedSetup
  BY DEF RunInv
<1> QED
  BY <1>1, RunInvariant, PTL

\* The frame loop makes no progress only on a context whose licence was refused.
THEOREM SpinOnlyUnlicensed == RunSpec => []SpinNeedsRefusedLicense
<1>1. RunInv => SpinNeedsRefusedLicense
  BY DEF RunInv
<1> QED
  BY <1>1, RunInvariant, PTL

\* The limit of awt_open is never exceeded, however the calls before ended.
THEOREM LimitKept == RunSpec => []LimitNeverExceeded
<1>1. RunInv => LimitNeverExceeded
  BY RunConstants DEF RunConstants, RunInv, RunTypeOK, TypeOfCounters,
     DurationsBounded, Looping, LimitNeverExceeded
<1> QED
  BY <1>1, RunInvariant, PTL

-----------------------------------------------------------------------------
\* A context with a graph or a decoder has a sample rate; so has every call that
\* has opened its file.
RatePositive ==
    fg # NoFormat \/ nb_decoder # 0 \/ rpc \in {"filters", "setup", "decoders"}
      => sample_rate >= 1

\* The rate is set before the graph and the decoders that need it, and no step
\* takes it back.
LEMMA RatePositiveInv ==
  ASSUME RunInv, RatePositive, [RunNext]_runVars
  PROVE  RatePositive'
<1> USE RunConstants DEF RunConstants, RatePositive, context, locals, history,
        GotoEnd, GotoOut, Report
<1>2. CASE RunStart \/ RequestStop
  BY <1>2 DEF RunStart, RequestStop
<1>3. CASE OpenInput
  BY <1>3 DEF OpenInput, RateFor, RunInv, RunTypeOK, TypeOfFiles
<1>4. CASE InitFilters
  BY <1>4 DEF InitFilters
<1>5. CASE SetupSkipped \/ LicenseUnreachable \/ LicenseSilent
  BY <1>5 DEF SetupSkipped, LicenseUnreachable, LicenseSilent
<1>6. ASSUME NEW reply \in LicenseReplies, LicenseReply(reply)
      PROVE  RatePositive'
  BY <1>6 DEF LicenseReply
<1>7. CASE InitDecoder
  BY <1>7 DEF InitDecoder
<1>8. CASE LoopHead \/ ReadFails \/ ReadOther \/ ReadUntimed \/ Decode
  BY <1>8 DEF LoopHead, ReadFails, ReadOther, ReadUntimed, Decode
<1>9. ASSUME NEW position \in Positions, ReadTimed(position)
      PROVE  RatePositive'
  BY <1>9 DEF ReadTimed
<1>10. CASE FeedRejected \/ FeedNoOutput \/ FilterFrame \/ RunEnd
  BY <1>10 DEF FeedRejected, FeedNoOutput, FilterFrame, RunEnd
<1>11. CASE UNCHANGED runVars
  BY <1>11 DEF runVars
<1> QED
  BY <1>2, <1>3, <1>4, <1>5, <1>6, <1>7, <1>8, <1>9, <1>10, <1>11
     DEF RunNext, RunStep, RunDone

\* No step of a call changes the rate of a graph or of decoders.
LEMMA RateKept ==
  ASSUME RunInv, RatePositive, [RunNext]_runVars, fg # NoFormat \/ nb_decoder # 0
  PROVE  sample_rate' = sample_rate
<1> USE DEF context, locals, history, GotoEnd, GotoOut, Report
<1>1. CASE OpenInput
  BY <1>1 DEF OpenInput, RateFor, RatePositive, RunInv, RunTypeOK, TypeOfFiles
<1>2. CASE RunStart \/ RequestStop \/ UNCHANGED runVars
  BY <1>2 DEF RunStart, RequestStop, runVars
<1>3. CASE RunStep /\ ~OpenInput
  BY <1>3 DEF RunStep, InitFilters, SetupSkipped, LicenseUnreachable,
     LicenseSilent, LicenseReply, InitDecoder, LoopHead, ReadFails, ReadOther, ReadUntimed,
     ReadTimed, Decode, FeedRejected, FeedNoOutput, FilterFrame, RunEnd
<1> QED
  BY <1>1, <1>2, <1>3 DEF RunNext, RunDone

\* The rate of a graph or of decoders in use never changes under them.
THEOREM RateFixed == RunSpec => RateFixedOnceUsed
<1>1. RunInit => RatePositive
  BY DEF RunInit, RatePositive
<1>2. RunInv /\ RatePositive /\ [RunNext]_runVars => RatePositive'
  BY RatePositiveInv
<1>3. RunInv /\ RatePositive /\ [RunNext]_runVars
        => [fg # NoFormat \/ nb_decoder # 0 => sample_rate' = sample_rate]_runVars
  BY RateKept
<1> QED
  BY <1>1, <1>2, <1>3, RunInvariant, PTL DEF RunSpec, RateFixedOnceUsed

-----------------------------------------------------------------------------
\* Only awt_license touches the licence pointer, and it is called only on a
\* context without decoders: the buffer it overwrites is a rejected one.
LEMMA LicenseBuffersInv ==
  ASSUME RunInv, LicenseBuffersAccounted, [RunNext]_runVars
  PROVE  LicenseBuffersAccounted'
<1> USE DEF LicenseBuffersAccounted, context, locals, history, GotoEnd, GotoOut,
        Report
<1>1. ASSUME NEW reply \in LicenseReplies, LicenseReply(reply)
      PROVE  LicenseBuffersAccounted'
  <2>1. /\ nb_decoder = 0 /\ license' = TRUE
        /\ rejected \in Nat /\ lost \in Nat /\ license \in BOOLEAN
    BY <1>1 DEF LicenseReply, SetupNeeded, RunInv, RunTypeOK, TypeOfFlags,
       TypeOfCounters
  <2>2. lost' = IF license THEN lost + 1 ELSE lost
    BY <1>1 DEF LicenseReply
  <2>3. lost' = rejected
    BY <2>1, <2>2
  <2>4. file \in Formats
    BY <1>1 DEF LicenseReply, RunInv, FilesOpened
  <2>5. NbDecoders(file.ch) # 0
    BY <2>4, NbDecodersRange DEF AWT_MAX_DECODER
  <2>6. CASE rejected' = rejected + 1 /\ nb_decoder' = nb_decoder
    BY <2>1, <2>3, <2>6
  <2>7. CASE rejected' = rejected /\ nb_decoder' = NbDecoders(file.ch)
    BY <2>1, <2>3, <2>5, <2>7
  <2> QED
    BY <1>1, <2>6, <2>7 DEF LicenseReply
<1>2. CASE RunStart \/ RequestStop \/ UNCHANGED runVars
  BY <1>2 DEF RunStart, RequestStop, runVars
<1>3. CASE \/ OpenInput \/ InitFilters
           \/ SetupSkipped \/ LicenseUnreachable \/ LicenseSilent
  BY <1>3 DEF OpenInput, InitFilters, SetupSkipped, LicenseUnreachable, LicenseSilent
<1>4. CASE InitDecoder \/ LoopHead \/ ReadFails \/ ReadOther \/ ReadUntimed
  BY <1>4 DEF InitDecoder, LoopHead, ReadFails, ReadOther, ReadUntimed
<1>5. ASSUME NEW position \in Positions, ReadTimed(position)
      PROVE  LicenseBuffersAccounted'
  BY <1>5 DEF ReadTimed
<1>6. CASE Decode \/ FeedRejected \/ FeedNoOutput \/ FilterFrame \/ RunEnd
  BY <1>6 DEF Decode, FeedRejected, FeedNoOutput, FilterFrame, RunEnd
<1> QED
  BY <1>1, <1>2, <1>3, <1>4, <1>5, <1>6 DEF RunNext, RunStep, RunDone

\* As long as the context lives, every licence buffer whose reply was turned
\* down is either held by it or counted as lost, after any calls.
THEOREM LicenseBuffersKept == RunSpec => []LicenseBuffersAccounted
<1>1. RunInit => LicenseBuffersAccounted
  BY DEF RunInit, LicenseBuffersAccounted
<1> QED
  BY <1>1, LicenseBuffersInv, RunInvariant, PTL DEF RunSpec

-----------------------------------------------------------------------------
\* The decoders awt_setup has made so far are counted by their first index left.
LEMMA DecodersCounted ==
  ASSUME RunInv
  PROVE  /\ Cardinality(decoder) \in 0 .. nb_decoder
         /\ nb_decoder \in 0 .. 2
         /\ rpc = "decoders" => Cardinality(decoder) < nb_decoder
<1>1. nb_decoder \in 0 .. 2
  BY DEF RunInv, RunTypeOK, TypeOfDecoders, AWT_MAX_DECODER
<1>2. PICK k \in 0 .. nb_decoder : /\ decoder = 0 .. (k - 1)
                                   /\ rpc = "decoders" => k < nb_decoder
  BY DEF RunInv, DecodersInOrder
<1>3. k \in Nat /\ Cardinality(decoder) = k
  BY <1>1, <1>2, FirstNumbers
<1> QED
  BY <1>1, <1>2, <1>3

\* With running at 0, each statement leaves less to do than there was.
LEMMA StatementsRunOut ==
  ASSUME RunInv, RunInv', ~running, RunStep
  PROVE  StatementsLeft' \in 0 .. StatementsLeft - 1
<1> USE DEF GotoEnd, GotoOut
<1>1. CASE OpenInput
  <2>1. rpc = "open" /\ rpc' = "end"
    BY <1>1 DEF OpenInput
  <2> QED
    BY <2>1 DEF StatementsLeft
<1>2. CASE InitFilters
  <2>1. rpc = "filters" /\ rpc' \in {"setup", "end"}
    BY <1>2 DEF InitFilters
  <2> QED
    BY <2>1 DEF StatementsLeft
<1>3. CASE SetupSkipped \/ LicenseUnreachable \/ LicenseSilent
  <2>1. rpc = "setup" /\ rpc' \in {"loop", "end", "wait"}
    BY <1>3 DEF SetupSkipped, LicenseUnreachable, LicenseSilent
  <2> QED
    BY <2>1 DEF StatementsLeft
<1>4. ASSUME NEW reply \in LicenseReplies, LicenseReply(reply)
      PROVE  StatementsLeft' \in 0 .. StatementsLeft - 1
  <2>1. rpc = "setup" /\ rpc' \in {"loop", "end", "decoders"}
    BY <1>4 DEF LicenseReply
  <2>2. Cardinality(decoder)' = 0
    <3>1. nb_decoder = 0 /\ decoder' = decoder
      BY <1>4 DEF LicenseReply, SetupNeeded
    <3>2. Cardinality(decoder) = 0
      BY <3>1, DecodersCounted
    <3> QED
      BY <3>1, <3>2
  <2>3. nb_decoder' \in 0 .. 2
    BY DEF RunInv, RunTypeOK, TypeOfDecoders, AWT_MAX_DECODER
  <2> QED
    BY <2>1, <2>2, <2>3 DEF StatementsLeft
<1>5. CASE InitDecoder
  <2>1. PICK k \in 0 .. nb_decoder : /\ decoder = 0 .. (k - 1)
                                     /\ k < nb_decoder
    BY <1>5 DEF RunInv, DecodersInOrder, InitDecoder
  <2>2. nb_decoder \in 0 .. 2 /\ k \in Nat /\ Cardinality(decoder) = k
    BY <2>1, DecodersCounted, FirstNumbers
  <2>3. rpc = "decoders" /\ nb_decoder' = nb_decoder
    BY <1>5 DEF InitDecoder
  <2>4. CASE rpc' = "end"
    BY <2>2, <2>1, <2>3, <2>4 DEF StatementsLeft
  <2>5. CASE DecoderReady(k) /\ rpc' = IF k + 1 = nb_decoder THEN "loop" ELSE "decoders"
    <3>1. decoder' = 0 .. ((k + 1) - 1)
      BY <2>1, <2>2, <2>5 DEF DecoderReady
    <3>2. k + 1 \in Nat
      BY <2>2
    <3>3. Cardinality(decoder') = k + 1
      BY <3>1, <3>2, FirstNumbers
    <3> QED
      BY <2>1, <2>2, <2>3, <2>5, <3>3 DEF StatementsLeft
  <2> QED
    BY <1>5, <2>2, <2>4, <2>5 DEF InitDecoder
<1>6. CASE LoopHead
  <2>1. rpc = "loop" /\ rpc' = "out"
    BY <1>6 DEF LoopHead
  <2> QED
    BY <2>1 DEF StatementsLeft
<1>7. CASE ReadFails \/ ReadOther \/ ReadUntimed
  <2>1. rpc = "read" /\ rpc' \in {"out", "loop", "decode"}
    BY <1>7 DEF ReadFails, ReadOther, ReadUntimed
  <2> QED
    BY <2>1 DEF StatementsLeft
<1>8. ASSUME NEW position \in Positions, ReadTimed(position)
      PROVE  StatementsLeft' \in 0 .. StatementsLeft - 1
  <2>1. rpc = "read" /\ rpc' \in {"out", "decode"}
    BY <1>8 DEF ReadTimed
  <2> QED
    BY <2>1 DEF StatementsLeft
<1>9. CASE Decode
  <2>1. rpc = "decode" /\ rpc' \in {"out", "loop", "feed"}
    BY <1>9 DEF Decode
  <2> QED
    BY <2>1 DEF StatementsLeft
<1>10. CASE FeedRejected \/ FeedNoOutput \/ FilterFrame
  <2>1. rpc = "feed" /\ rpc' \in {"out", "loop", "fault", "spin"}
    BY <1>10 DEF FeedRejected, FeedNoOutput, FilterFrame
  <2> QED
    BY <2>1 DEF StatementsLeft
<1>11. CASE RunEnd
  <2>1. rpc \in {"out", "end"} /\ rpc' = "idle"
    BY <1>11 DEF RunEnd
  <2> QED
    BY <2>1 DEF StatementsLeft
<1> QED
  BY <1>1, <1>2, <1>3, <1>4, <1>5, <1>6, <1>7, <1>8, <1>9, <1>10, <1>11 DEF RunStep

\* Nothing sets running again: only awt_open does, before the first call.
LEMMA StopSticks ==
  ASSUME ~running, RunStep \/ RunStart \/ RequestStop
  PROVE  ~running'
<1> USE DEF context
<1>1. CASE RunStart \/ RequestStop \/ OpenInput \/ InitFilters
  BY <1>1 DEF RunStart, RequestStop, OpenInput, InitFilters
<1>2. CASE \/ SetupSkipped \/ LicenseUnreachable \/ LicenseSilent \/ InitDecoder
           \/ \E reply \in LicenseReplies : LicenseReply(reply)
  BY <1>2 DEF SetupSkipped, LicenseUnreachable, LicenseSilent, InitDecoder, LicenseReply
<1>3. CASE \/ LoopHead \/ ReadFails \/ ReadOther \/ ReadUntimed \/ Decode
           \/ \E position \in Positions : ReadTimed(position)
  BY <1>3 DEF LoopHead, ReadFails, ReadOther, ReadUntimed, Decode, ReadTimed
<1>4. CASE FeedRejected \/ FeedNoOutput \/ FilterFrame \/ RunEnd
  BY <1>4 DEF FeedRejected, FeedNoOutput, FilterFrame, RunEnd
<1> QED
  BY <1>1, <1>2, <1>3, <1>4 DEF RunStep

\* There are at most six of them.
LEMMA StatementsLeftRange ==
  ASSUME RunInv
  PROVE  StatementsLeft \in 0 .. 6
<1>1. CASE rpc = "decoders"
  BY <1>1, DecodersCounted DEF StatementsLeft
<1>2. CASE rpc # "decoders"
  BY <1>2 DEF StatementsLeft
<1> QED
  BY <1>1, <1>2

\* Whatever the files, the server and the SDK do: once running is 0, a run in
\* progress executes at most six more statements.
THEOREM StopBounds == RunSpec => [](StatementsLeft \in 0 .. 6) /\ StopBoundsRun
<1>1. RunInv => StatementsLeft \in 0 .. 6
  BY StatementsLeftRange
<1>2. ASSUME RunInv, RunInv', [RunNext]_runVars, ~running, ~UNCHANGED runVars
      PROVE  /\ ~running'
             /\ rpc # "idle" => StatementsLeft' \in 0 .. StatementsLeft - 1
  <2>1. ~running'
    BY <1>2, StopSticks DEF RunNext, RunDone
  <2>2. ~RequestStop /\ ~RunDone
    <3>1. running = FALSE
      BY <1>2 DEF RunInv, RunTypeOK, TypeOfFlags
    <3> QED
      BY <1>2, <3>1 DEF RequestStop, RunDone, runVars, context
  <2>3. rpc # "idle" => RunStep
    BY <1>2, <2>2 DEF RunNext, RunStart
  <2> QED
    BY <1>2, <2>1, <2>3, StatementsRunOut
<1>3. RunInv /\ RunInv' /\ [RunNext]_runVars
        => [~running => /\ ~running'
                        /\ rpc # "idle" => StatementsLeft' \in 0 .. StatementsLeft - 1]_runVars
  BY <1>2
<1> QED
  BY <1>1, <1>3, RunInvariant, PTL DEF RunSpec, StopBoundsRun
=============================================================================
