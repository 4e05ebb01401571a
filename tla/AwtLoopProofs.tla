--------------------------- MODULE AwtLoopProofs ----------------------------
(***************************************************************************)
(* Proofs about AwtLoop for every stream of packets, clock rate, limit and *)
(* number of calls: the packet loop implements AwtRun, and what relates    *)
(* the clock, the decoder and the graph to the packet at hand.             *)
(*                                                                         *)
(* LoopInv, the inductive invariant, adds to that of AwtRun: where in the  *)
(* loop each statement is; that a first timestamp lies before the next     *)
(* position; what is in hand while a packet is decoded; how far a sleep    *)
(* reaches; that the decoder is empty between packets; and that the graph  *)
(* holds no more than a resampler keeps.                                   *)
(***************************************************************************)
EXTENDS AwtLoop, AwtRunProofs, SequenceTheorems

Packets == [frames : Nat, bad : BOOLEAN, id : Nat \X Nat]

\* The statements of the loop.
Places ==
    /\ at \in {"none", "poll", "transfer", "sleep", "send", "receive"}
    /\ rpc = "read" <=> at \in {"poll", "transfer"}
    /\ rpc = "decode" <=> at \in {"sleep", "send", "receive"}

Stream ==
    /\ next \in Nat /\ start_pts \in Nat
    /\ stamped \in BOOLEAN /\ several \in BOOLEAN /\ truncated \in BOOLEAN
    /\ timed => start_pts \in Positions /\ start_pts <= next

InHand ==
    rpc = "decode" =>
      /\ packet \in Packets
      /\ ~several => packet.frames <= 1 /\ ~(packet.frames = 1 /\ packet.bad)
      /\ stamped => packet.id = <<runs, start_pts + current_duration>>

Clocked ==
    /\ elapsed \in 0 .. ClockEnd /\ wake \in 0 .. ClockEnd
    /\ at = "sleep" => stamped /\ (wake >= current_duration \div Speed \/ truncated)

WithFrame(f) == [FreshDecoder EXCEPT !.buffer_frame = f]

Emptied ==
    /\ rpc = "idle" => codec = FreshDecoder
    /\ several \/ at = "receive" \/ codec = FreshDecoder
    /\ several \/ at # "receive" \/ codec \in {FreshDecoder, WithFrame(packet.id)}

Collected ==
    /\ held \in Seq(Nat) /\ Len(held) <= HeldBack
    /\ nb_buffer \in 0 .. BlockSize - 1

\* How a call that will return success has left its loop.
WellLeft == reason \in {"none", "eof", "dry", "limit", "closed", "found"}
              \/ (reason = "full" /\ several)
Explained ==
    /\ rpc = "idle" /\ ret = AWT_CODE_SUCCESS => WellLeft
    /\ rpc = "out" /\ ret \in {0, AVERROR_EAGAIN, AVERROR_EOF} => WellLeft
    /\ rpc = "end" => ret # AWT_CODE_SUCCESS

LoopInv ==
    /\ RunInv /\ RatePositive
    /\ Places /\ Stream /\ InHand /\ Clocked /\ Emptied /\ Collected
    /\ Paced /\ PositionOfFrame /\ Explained

USE DEF context, locals, history, loopVars, clock, source, sink, GotoOut, GotoEnd,
        Leave, Stay

-----------------------------------------------------------------------------
\* Every statement of the loop is one that AwtRun allows, or changes nothing that
\* AwtRun speaks of.
LEMMA LoopStepsRefine ==
  ASSUME LoopInv, [LoopNext]_allVars
  PROVE  [RunNext]_runVars
<1> USE DEF runVars
<1>1. CASE Enter \/ Around \/ Finish
  BY <1>1 DEF Enter, Around, Finish, RunNext, RunStep
<1>2. CASE LoopTop
  <2>1. LoopHead
    BY <1>2 DEF LoopTop, LoopHead
  <2> QED
    BY <2>1 DEF RunNext, RunStep
<1>3. CASE Poll \/ NoData
  <2>1. ReadFails \/ ReadOther \/ UNCHANGED runVars
    BY <1>3 DEF Poll, PollStop, NoData, ReadFails, ReadOther, AVERROR_EOF,
       AVERROR_EAGAIN, AVERROR_EINVAL, AVERROR_EXIT
  <2> QED
    BY <2>1 DEF RunNext, RunStep
<1>4. ASSUME NEW content \in Contents, NEW gap \in Gaps, TakeUntimed(content, gap)
      PROVE  [RunNext]_runVars
  <2>1. ReadUntimed
    BY <1>4 DEF TakeUntimed, Take, ReadUntimed
  <2> QED
    BY <2>1 DEF RunNext, RunStep
<1>5. ASSUME NEW content \in Contents, NEW gap \in Gaps, TakeTimed(content, gap)
      PROVE  [RunNext]_runVars
  <2>1. next - start_pts' \in Positions /\ (~timed => next - start_pts' = 0)
    BY <1>5, RunConstants, LoopConstants
       DEF RunConstants, LoopConstants, TakeTimed, Take, LoopInv, Stream
  <2>2. ReadTimed(next - start_pts')
    BY <1>5, <2>1 DEF TakeTimed, Take, LimitReached, ReadTimed
  <2> QED
    BY <2>1, <2>2 DEF RunNext, RunStep
<1>6. CASE Send \/ Receive
  <2>1. Decode \/ UNCHANGED runVars
    BY <1>6 DEF Send, Receive, Decode, EAGAIN, INVALIDDATA, AVERROR_EAGAIN,
       AVERROR_EINVAL
  <2> QED
    BY <2>1 DEF RunNext, RunStep
<1>7. CASE Refused \/ FilterWrong
  BY <1>7 DEF Refused, FilterWrong, RunNext, RunStep
<1>8. CASE Kept
  <2>1. FeedNoOutput
    BY <1>8 DEF Kept, FeedNoOutput
  <2> QED
    BY <2>1 DEF RunNext, RunStep
<1>9. CASE Collect \/ Block
  <2>1. FilterFrame
    BY <1>9 DEF Collect, Block, FilterFrame
  <2> QED
    BY <2>1 DEF RunNext, RunStep
<1>10. CASE Awake \/ Tick \/ UNCHANGED allVars
  BY <1>10 DEF Awake, Tick, allVars
<1>11. CASE RequestStop \/ RunDone
  BY <1>11 DEF RunNext
<1> QED
  BY <1>1, <1>2, <1>3, <1>4, <1>5, <1>6, <1>7, <1>8, <1>9, <1>10, <1>11
     DEF LoopNext, LoopStep

\* So the invariant of AwtRun holds in the detailed loop.
LEMMA RunPartInv ==
  ASSUME LoopInv, [LoopNext]_allVars
  PROVE  RunInv' /\ RatePositive'
BY LoopStepsRefine, RunNextInv, RatePositiveInv DEF LoopInv

-----------------------------------------------------------------------------
\* Each statement is found at its place.
LEMMA PlacesInv ==
  ASSUME LoopInv, [LoopNext]_allVars
  PROVE  Places'
<1> USE DEF LoopInv, Places
<1>1. CASE Enter \/ Finish
  BY <1>1 DEF Enter, Finish, RunStart, RunEnd
<1>2. CASE Around
  BY <1>2 DEF Around, OpenInput, InitFilters, SetupSkipped, LicenseUnreachable,
     LicenseSilent, LicenseReply, InitDecoder
<1>3. CASE LoopTop \/ Poll \/ NoData
  BY <1>3 DEF LoopTop, Poll, NoData
<1>4. ASSUME NEW content \in Contents, NEW gap \in Gaps,
             TakeUntimed(content, gap) \/ TakeTimed(content, gap)
      PROVE  Places'
  BY <1>4 DEF TakeUntimed, TakeTimed, Take
<1>5. CASE Awake \/ Send \/ Receive
  BY <1>5 DEF Awake, Send, Receive, runVars
<1>6. CASE Refused \/ Kept \/ FilterWrong \/ Collect \/ Block
  BY <1>6 DEF Refused, FeedRejected, FeedNoOutput, Kept, FilterWrong, FilterFrame,
     Collect, Block
<1>7. CASE Tick \/ (RequestStop /\ UNCHANGED loopVars) \/ UNCHANGED allVars
  BY <1>7 DEF Tick, RequestStop, runVars, allVars
<1> QED
  BY <1>1, <1>2, <1>3, <1>4, <1>5, <1>6, <1>7 DEF LoopNext, LoopStep, RunDone, allVars

\* The clock and the packet change only where packets are read and at the end of
\* the call.
LEMMA StreamInv ==
  ASSUME LoopInv, [LoopNext]_allVars
  PROVE  Stream'
<1> USE DEF LoopInv, Stream
<1>0. Positions \subseteq Nat /\ 0 \in Positions /\ Gaps \subseteq Nat
  BY RunConstants, LoopConstants DEF RunConstants, LoopConstants
<1>1. CASE Enter
  BY <1>0, <1>1 DEF Enter, RunStart
<1>8. CASE Finish
  <2>1. /\ next' = 0 /\ start_pts' = 0 /\ several' = several
        /\ stamped' = FALSE /\ truncated' = FALSE
    BY <1>8 DEF Finish
  <2>2. stamped' \in BOOLEAN /\ several' \in BOOLEAN /\ truncated' \in BOOLEAN
    BY <2>1, Zenon
  <2>3. next' \in Nat /\ start_pts' \in Positions /\ start_pts' <= next'
    BY <1>0, <2>1
  <2> QED
    BY <1>0, <2>2, <2>3
<1>2. CASE Around
  BY <1>2 DEF Around, OpenInput, InitFilters, SetupSkipped, LicenseUnreachable,
     LicenseSilent, LicenseReply, InitDecoder
<1>3. CASE LoopTop \/ Poll \/ NoData
  BY <1>3 DEF LoopTop, Poll, NoData
<1>4. ASSUME NEW content \in Contents, NEW gap \in Gaps,
             TakeUntimed(content, gap) \/ TakeTimed(content, gap)
      PROVE  Stream'
  <2>1. /\ next \in Nat /\ gap \in Nat /\ next' = next + gap
    BY <1>0, <1>4 DEF TakeUntimed, TakeTimed, Take
  <2>2. several' \in BOOLEAN
    BY <1>4 DEF TakeUntimed, TakeTimed, Take
  <2>3. CASE TakeUntimed(content, gap)
    <3>1. stamped' \in BOOLEAN /\ truncated' \in BOOLEAN
      BY <2>3 DEF TakeUntimed
    <3>2. timed' => start_pts' \in Positions /\ start_pts' <= next'
      BY <1>0, <2>1, <2>3 DEF TakeUntimed
    <3> QED
      BY <2>1, <2>2, <2>3, <3>1, <3>2 DEF TakeUntimed
  <2>4. CASE TakeTimed(content, gap)
    <3>1. start_pts' \in Positions /\ start_pts' <= next
      BY <1>0, <2>1, <2>4 DEF TakeTimed, Take
    <3>2. truncated' \in BOOLEAN
      BY <2>4 DEF TakeTimed
    <3> QED
      BY <1>0, <2>1, <2>2, <2>4, <3>1, <3>2 DEF TakeTimed
  <2> QED
    BY <1>4, <2>3, <2>4
<1>5. CASE Awake \/ Send \/ Receive
  BY <1>5 DEF Awake, Send, Receive, runVars
<1>6. CASE Refused \/ Kept \/ FilterWrong \/ Collect \/ Block
  BY <1>6 DEF Refused, FeedRejected, FeedNoOutput, Kept, FilterWrong, FilterFrame,
     Collect, Block
<1>7. CASE Tick \/ (RequestStop /\ UNCHANGED loopVars) \/ UNCHANGED allVars
  BY <1>7 DEF Tick, RequestStop, runVars, allVars
<1> QED
  BY <1>1, <1>2, <1>3, <1>4, <1>5, <1>6, <1>7, <1>8
     DEF LoopNext, LoopStep, RunDone, allVars

\* What is known of the packet when it goes to the decoder.
LEMMA InHandInv ==
  ASSUME LoopInv, [LoopNext]_allVars
  PROVE  InHand'
<1> USE DEF LoopInv, InHand
<1>1. CASE Enter \/ Finish
  BY <1>1 DEF Enter, Finish, RunStart, RunEnd
<1>2. CASE Around
  BY <1>2 DEF Around, OpenInput, InitFilters, SetupSkipped, LicenseUnreachable,
     LicenseSilent, LicenseReply, InitDecoder
<1>3. CASE LoopTop \/ Poll \/ NoData
  BY <1>3 DEF LoopTop, Poll, NoData
<1>4. ASSUME NEW content \in Contents, NEW gap \in Gaps,
             TakeUntimed(content, gap) \/ TakeTimed(content, gap)
      PROVE  InHand'
  <2>0. /\ content \in [frames : Nat, bad : BOOLEAN]
        /\ next \in Nat /\ start_pts \in Nat /\ runs \in Nat
    BY LoopConstants, RunConstants
       DEF LoopConstants, RunConstants, Stream, RunInv, RunTypeOK, TypeOfCounters
  <2>1. /\ content.frames \in Nat /\ content.bad \in BOOLEAN
        /\ next \in Nat /\ start_pts \in Nat /\ runs \in Nat
        /\ packet' = [frames |-> content.frames, bad |-> content.bad,
                      id |-> <<runs, next>>]
    BY <1>4, <2>0 DEF TakeUntimed, TakeTimed, Take
  <2>2. packet' \in Packets
    BY <2>1 DEF Packets
  <2>3. ~several' => packet'.frames <= 1 /\ ~(packet'.frames = 1 /\ packet'.bad)
    <3>1. ~several' => ~(content.frames > 1) /\ ~(content.frames = 1 /\ content.bad)
      BY <1>4, Zenon DEF TakeUntimed, TakeTimed, Take
    <3> QED
      BY <2>1, <3>1
  <2>4. stamped' => packet'.id = <<runs', start_pts' + current_duration'>>
    <3>1. CASE TakeUntimed(content, gap)
      BY <3>1 DEF TakeUntimed
    <3>2. CASE TakeTimed(content, gap)
      <4>0. start_pts' \in Int /\ next \in Int
        BY <2>1, <3>2 DEF TakeTimed, Take
      <4>1. current_duration' = next - start_pts' /\ runs' = runs
        BY <3>2 DEF TakeTimed
      <4>2. start_pts' + current_duration' = next
        <5>1. \A a, b \in Int : b + (a - b) = a
          OBVIOUS
        <5>2. start_pts' + (next - start_pts') = next
          BY <4>0, <5>1, Zenon
        <5> QED
          BY <4>1, <5>2, Zenon
      <4>3. packet'.id = <<runs, next>>
        BY <2>1
      <4> QED
        BY <4>1, <4>2, <4>3
    <3> QED
      BY <1>4, <3>1, <3>2
  <2> QED
    BY <2>2, <2>3, <2>4
<1>5. CASE Awake \/ Send \/ Receive
  BY <1>5 DEF Awake, Send, Receive, runVars
<1>6. CASE Refused \/ Kept \/ FilterWrong \/ Collect \/ Block
  BY <1>6 DEF Refused, FeedRejected, FeedNoOutput, Kept, FilterWrong, FilterFrame,
     Collect, Block
<1>7. CASE Tick \/ (RequestStop /\ UNCHANGED loopVars) \/ UNCHANGED allVars
  BY <1>7 DEF Tick, RequestStop, runVars, allVars
<1> QED
  BY <1>1, <1>2, <1>3, <1>4, <1>5, <1>6, <1>7 DEF LoopNext, LoopStep, RunDone, allVars

-----------------------------------------------------------------------------
\* What usleep makes of its argument is no more than the argument.
LEMMA SleepBounds ==
  ASSUME NEW d \in Nat, NEW r \in Nat, r > 0
  PROVE  d % r \in Nat /\ d % r <= d /\ (d < r => d % r = d)
<1>1. d % r \in 0 .. r - 1
  OBVIOUS
<1>2. d % r \in Nat /\ d % r < r
  BY <1>1
<1>3. d < r => d % r = d
  OBVIOUS
<1> QED
  BY <1>2, <1>3

\* A position is due before the clock ends.
LEMMA DueTime ==
  ASSUME NEW p \in Positions
  PROVE  p \div Speed \in 0 .. ClockEnd
<1>1. p \in Nat /\ Speed \in Nat /\ Speed > 0 /\ ClockEnd \in Nat
  BY RunConstants, LoopConstants DEF RunConstants, LoopConstants
<1>2. p \div Speed \in Nat
  BY <1>1
<1>3. p \div Speed <= ClockEnd
  BY LoopConstants DEF LoopConstants
<1> QED
  BY <1>1, <1>2, <1>3

\* A sleep of the whole distance ends when the position is due.
LEMMA SleepReaches ==
  ASSUME NEW e \in 0 .. ClockEnd, NEW due \in 0 .. ClockEnd, due - e > 0
  PROVE  /\ e + ((due - e) % SleepRange) \in 0 .. ClockEnd
         /\ due - e >= SleepRange \/ e + ((due - e) % SleepRange) = due
<1>1. SleepRange \in Nat /\ SleepRange > 0 /\ ClockEnd \in Nat
  BY LoopConstants DEF LoopConstants
<1>2. e \in Nat /\ due \in Nat /\ due <= ClockEnd
  BY <1>1
<1> DEFINE d == due - e
<1>3. d \in Nat /\ e + d = due
  BY <1>2
<1>4. d % SleepRange \in Nat /\ d % SleepRange <= d
        /\ (d < SleepRange => d % SleepRange = d)
  BY <1>1, <1>3, SleepBounds
<1> HIDE DEF d
<1>5. e + (d % SleepRange) \in 0 .. ClockEnd
  BY <1>1, <1>2, <1>3, <1>4
<1>6. d >= SleepRange \/ e + (d % SleepRange) = due
  BY <1>1, <1>3, <1>4
<1> QED
  BY <1>5, <1>6 DEF d

\* The clock is ahead of the packet that goes to the decoder, or will be when
\* the sleep is over.
LEMMA ClockedInv ==
  ASSUME LoopInv, [LoopNext]_allVars
  PROVE  Clocked' /\ Paced'
<1> USE DEF Clocked, Paced, Places
<1>0. Clocked /\ Paced /\ Places /\ Stream /\ RunInv
  BY DEF LoopInv
<1>01. ClockEnd \in Nat /\ 0 \in 0 .. ClockEnd
  BY LoopConstants DEF LoopConstants
<1>1. CASE Enter
  BY <1>0, <1>1 DEF Enter, RunStart
<1>2. CASE Finish
  BY <1>0, <1>01, <1>2 DEF Finish, RunEnd
<1>3. CASE Around
  BY <1>0, <1>3 DEF Around, OpenInput, InitFilters, SetupSkipped, LicenseUnreachable,
     LicenseSilent, LicenseReply, InitDecoder
<1>4. CASE LoopTop \/ Poll \/ NoData
  BY <1>0, <1>4 DEF LoopTop, Poll, NoData
<1>5. ASSUME NEW content \in Contents, NEW gap \in Gaps, TakeUntimed(content, gap)
      PROVE  Clocked' /\ Paced'
  BY <1>0, <1>5 DEF TakeUntimed, Take
<1>6. ASSUME NEW content \in Contents, NEW gap \in Gaps, TakeTimed(content, gap)
      PROVE  Clocked' /\ Paced'
  <2>1. current_duration' \in Positions
    <3>1. next \in Positions /\ (timed => start_pts \in Positions /\ start_pts <= next)
      BY <1>0, <1>6 DEF Stream, TakeTimed, Take
    <3>2. start_pts' \in Positions /\ start_pts' <= next
      BY <3>1, <1>6, RunConstants DEF RunConstants, TakeTimed
    <3>3. current_duration' = next - start_pts'
      BY <1>6 DEF TakeTimed
    <3> QED
      BY <3>1, <3>2, <3>3, LoopConstants DEF LoopConstants
  <2> DEFINE due == current_duration' \div Speed
  <2>2. due \in 0 .. ClockEnd
    BY <2>1, DueTime
  <2>3. elapsed \in 0 .. ClockEnd /\ wake \in 0 .. ClockEnd /\ elapsed' = elapsed
    BY <1>0, <1>6 DEF TakeTimed
  <2>4. stamped' = TRUE /\ truncated' = (due - elapsed >= SleepRange)
    BY <1>6 DEF TakeTimed, Delta
  <2>5. \/ at' = "none" /\ rpc' = "out" /\ wake' = wake
        \/ at' = "send" /\ wake' = wake /\ ~(due - elapsed > 0)
        \/ /\ at' = "sleep" /\ due - elapsed > 0
           /\ wake' = elapsed + ((due - elapsed) % SleepRange)
    BY <1>6 DEF TakeTimed, Delta
  <2> HIDE DEF due
  <2>6. due - elapsed > 0 => /\ elapsed + ((due - elapsed) % SleepRange) \in 0 .. ClockEnd
                             /\ \/ due - elapsed >= SleepRange
                                \/ elapsed + ((due - elapsed) % SleepRange) = due
    BY <2>2, <2>3, SleepReaches
  <2>7. wake' \in 0 .. ClockEnd
    BY <2>3, <2>5, <2>6
  <2>8. at' = "sleep" => wake' >= due \/ truncated'
    <3>1. CASE due - elapsed >= SleepRange
      BY <2>4, <3>1, Zenon
    <3>2. CASE ~(due - elapsed >= SleepRange)
      <4>1. at' = "sleep" => wake' = due
        BY <2>5, <2>6, <3>2
      <4> QED
        BY <1>01, <2>2, <4>1
    <3> QED
      BY <3>1, <3>2
  <2>9. at' = "send" => elapsed' >= due
    BY <1>01, <2>2, <2>3, <2>5
  <2>10. at' # "receive"
    BY <2>5
  <2>11. elapsed' \in 0 .. ClockEnd
    BY <2>3
  <2> QED
    BY <2>4, <2>7, <2>8, <2>9, <2>10, <2>11 DEF due
<1>7. CASE Awake
  <2>1. /\ elapsed >= wake /\ at' = "send" /\ stamped
        /\ wake >= current_duration \div Speed \/ truncated
    BY <1>0, <1>7 DEF Awake
  <2>2. UNCHANGED <<elapsed, wake, current_duration, truncated, stamped>>
    BY <1>7 DEF Awake, runVars
  <2>3. current_duration \div Speed \in Int
    BY <1>0, LoopConstants DEF LoopConstants, RunInv, RunTypeOK, TypeOfCounters
  <2>4. elapsed \in Int /\ wake \in Int
    BY <1>0, <1>01
  <2>5. elapsed >= current_duration \div Speed \/ truncated
    BY <2>1, <2>3, <2>4
  <2> QED
    BY <1>0, <2>1, <2>2, <2>5
<1>8. CASE Send \/ Receive
  BY <1>0, <1>8 DEF Send, Receive
<1>9. CASE Refused \/ Kept \/ FilterWrong \/ Collect \/ Block
  BY <1>0, <1>9 DEF Refused, FeedRejected, FeedNoOutput, Kept, FilterWrong,
     FilterFrame, Collect, Block
<1>10. CASE Tick
  <2>1. elapsed \in 0 .. ClockEnd /\ elapsed < ClockEnd /\ elapsed' = elapsed + 1
    BY <1>0, <1>10 DEF Tick
  <2>2. elapsed' \in 0 .. ClockEnd /\ elapsed' >= elapsed
    BY <1>01, <2>1
  <2>3. UNCHANGED <<rpc, at, stamped, current_duration, truncated, wake>>
    BY <1>10 DEF Tick, runVars
  <2>4. current_duration \div Speed \in Int
    BY <1>0, LoopConstants DEF LoopConstants, RunInv, RunTypeOK, TypeOfCounters
  <2>5. elapsed \in Int /\ elapsed' \in Int
    BY <1>01, <2>1
  <2>6. elapsed >= current_duration \div Speed => elapsed' >= current_duration \div Speed
    BY <2>2, <2>4, <2>5
  <2> QED
    BY <1>0, <2>2, <2>3, <2>6
<1>11. CASE (RequestStop /\ UNCHANGED loopVars) \/ UNCHANGED allVars
  BY <1>0, <1>11 DEF RequestStop, runVars, allVars
<1> QED
  BY <1>1, <1>2, <1>3, <1>4, <1>5, <1>6, <1>7, <1>8, <1>9, <1>10, <1>11
     DEF LoopNext, LoopStep, RunDone, allVars

-----------------------------------------------------------------------------
\* A decoder that has nothing gives a packet of at most one frame its frame, and
\* keeps nothing but that.
LEMMA SendOne ==
  ASSUME NEW p \in Packets, p.frames <= 1, ~(p.frames = 1 /\ p.bad)
  PROVE  /\ SendPacket(FreshDecoder, p).decoder \in {FreshDecoder, WithFrame(p.id)}
         /\ SendPacket(FreshDecoder, p).code = 0
              \/ SendPacket(FreshDecoder, p).decoder = FreshDecoder
         /\ SendPacket(FreshDecoder, p).code # EAGAIN
<1> DEFINE e == [FreshDecoder EXCEPT !.buffer_pkt = p]
           r == Decoded(e)
<1>1. p # NoPacket /\ p.frames \in Nat /\ p.bad \in BOOLEAN
  BY LoopConstants DEF LoopConstants, Packets
<1>2. e = [buffer_pkt |-> p, in_pkt |-> NoPacket, buffer_frame |-> NoFrame]
  BY DEF FreshDecoder
<1>3. NextPacket(e) = [buffer_pkt |-> NoPacket, in_pkt |-> p, buffer_frame |-> NoFrame]
  BY <1>2 DEF NextPacket
<1>4. [NextPacket(e) EXCEPT !.in_pkt = NoPacket] = FreshDecoder
  BY <1>3 DEF FreshDecoder
<1>5. CASE p.frames = 0
  <2>1. /\ r.code \in {EAGAIN, INVALIDDATA}
        /\ r.frame = NoFrame /\ r.decoder = FreshDecoder
    BY <1>1, <1>3, <1>4, <1>5 DEF Decoded, Outcome
  <2>2. [r.decoder EXCEPT !.buffer_frame = r.frame] = FreshDecoder
    BY <2>1 DEF FreshDecoder
  <2>3. /\ SendPacket(FreshDecoder, p).decoder = FreshDecoder
        /\ SendPacket(FreshDecoder, p).code \in {0, INVALIDDATA}
    <3> HIDE DEF r
    <3>1. FreshDecoder.buffer_pkt = NoPacket /\ FreshDecoder.buffer_frame = NoFrame
      BY DEF FreshDecoder
    <3> QED
      BY <2>1, <2>2, <3>1 DEF SendPacket, Outcome, r
  <2> QED
    BY <2>3 DEF EAGAIN, INVALIDDATA
<1>6. CASE p.frames = 1
  <2>1. RestOf(p) = NoPacket
    BY <1>1, <1>6 DEF RestOf
  <2>2. [[NextPacket(e) EXCEPT !.in_pkt = NoPacket] EXCEPT !.in_pkt = RestOf(p)]
          = FreshDecoder
    BY <1>4, <2>1 DEF FreshDecoder
  <2>3. r.code = 0 /\ r.frame = p.id /\ r.decoder = FreshDecoder
    <3>1. NextPacket(e).in_pkt = p /\ p # NoPacket /\ p.frames > 0
      BY <1>1, <1>3, <1>6
    <3>2. r = Outcome(0, p.id, FreshDecoder)
      <4> HIDE DEF e
      <4> QED
        BY <2>2, <3>1, Zenon DEF Decoded
    <3> QED
      BY <3>2 DEF Outcome
  <2>4. [r.decoder EXCEPT !.buffer_frame = r.frame] = WithFrame(p.id)
    BY <2>3 DEF WithFrame
  <2>5. /\ SendPacket(FreshDecoder, p).decoder = WithFrame(p.id)
        /\ SendPacket(FreshDecoder, p).code = 0
    <3>1. FreshDecoder.buffer_pkt = NoPacket /\ FreshDecoder.buffer_frame = NoFrame
      BY DEF FreshDecoder
    <3>2. r.code # INVALIDDATA
      BY <2>3 DEF INVALIDDATA
    <3> QED
      BY <2>4, <3>1, <3>2 DEF SendPacket, Outcome
  <2> QED
    BY <2>5 DEF EAGAIN
<1> QED
  BY <1>1, <1>5, <1>6

\* Receiving takes that frame, and leaves the decoder with nothing.
LEMMA ReceiveOne ==
  ASSUME NEW id \in Nat \X Nat
  PROVE  /\ ReceiveFrame(FreshDecoder).decoder = FreshDecoder
         /\ ReceiveFrame(FreshDecoder).code = EAGAIN
         /\ ReceiveFrame(WithFrame(id)).decoder = FreshDecoder
         /\ ReceiveFrame(WithFrame(id)).frame = id
<1>1. /\ FreshDecoder.buffer_frame = NoFrame /\ FreshDecoder.in_pkt = NoPacket
      /\ FreshDecoder.buffer_pkt = NoPacket
  BY DEF FreshDecoder
<1>2. NextPacket(FreshDecoder) = FreshDecoder
  BY <1>1 DEF NextPacket, FreshDecoder
<1>3. /\ ReceiveFrame(FreshDecoder).decoder = FreshDecoder
      /\ ReceiveFrame(FreshDecoder).code = EAGAIN
  BY <1>1, <1>2 DEF ReceiveFrame, Decoded, Outcome
<1>4. WithFrame(id).buffer_frame = id /\ id # NoFrame
  BY LoopConstants DEF LoopConstants, WithFrame, FreshDecoder
<1>5. [WithFrame(id) EXCEPT !.buffer_frame = NoFrame] = FreshDecoder
  <2>1. WithFrame(id) = [buffer_pkt |-> NoPacket, in_pkt |-> NoPacket,
                         buffer_frame |-> id]
    BY DEF WithFrame, FreshDecoder
  <2> QED
    BY <2>1 DEF FreshDecoder
<1>6. /\ ReceiveFrame(WithFrame(id)).decoder = FreshDecoder
      /\ ReceiveFrame(WithFrame(id)).frame = id
  BY <1>4, <1>5 DEF ReceiveFrame, Outcome
<1> QED
  BY <1>3, <1>6

\* So one frame out for one packet in leaves nothing behind, and the frame is
\* that of the packet.
LEMMA EmptiedInv ==
  ASSUME LoopInv, [LoopNext]_allVars
  PROVE  Emptied' /\ PositionOfFrame'
<1> USE DEF Emptied, PositionOfFrame, Places
<1>0. Emptied /\ PositionOfFrame /\ Places /\ InHand
  BY DEF LoopInv
<1>1. CASE Enter
  BY <1>0, <1>1 DEF Enter, RunStart
<1>2. CASE Finish
  BY <1>0, <1>2 DEF Finish, RunEnd, DecoderFreed
<1>3. CASE Around
  BY <1>0, <1>3 DEF Around, OpenInput, InitFilters, SetupSkipped, LicenseUnreachable,
     LicenseSilent, LicenseReply, InitDecoder
<1>4. CASE LoopTop \/ Poll \/ NoData
  BY <1>0, <1>4 DEF LoopTop, Poll, NoData
<1>5. ASSUME NEW content \in Contents, NEW gap \in Gaps,
             TakeUntimed(content, gap) \/ TakeTimed(content, gap)
      PROVE  Emptied' /\ PositionOfFrame'
  BY <1>0, <1>5 DEF TakeUntimed, TakeTimed, Take
<1>6. CASE Awake
  BY <1>0, <1>6 DEF Awake, runVars
<1>7. CASE Send
  <2>1. rpc = "decode" /\ at = "send" /\ UNCHANGED <<packet, several>>
    BY <1>7 DEF Send
  <2>2. /\ rpc' \in {"decode", "out"}
        /\ \/ at' = "receive" /\ SendPacket(codec, packet).code = 0
           \/ at' = "none" /\ SendPacket(codec, packet).code # 0
    BY <1>7 DEF Send, EAGAIN, INVALIDDATA
  <2>3. codec' = SendPacket(codec, packet).decoder
    BY <1>7 DEF Send
  <2>4. ~several => /\ codec = FreshDecoder
                    /\ packet \in Packets /\ packet.frames <= 1
                    /\ ~(packet.frames = 1 /\ packet.bad)
    BY <1>0, <2>1 DEF InHand
  <2>5. ~several => /\ codec' \in {FreshDecoder, WithFrame(packet.id)}
                    /\ at' = "receive" \/ codec' = FreshDecoder
    BY <2>2, <2>3, <2>4, SendOne
  <2> QED
    BY <2>1, <2>2, <2>5
<1>8. CASE Receive
  <2>1. rpc = "decode" /\ at = "receive"
          /\ UNCHANGED <<packet, several, stamped, runs, start_pts, current_duration>>
    BY <1>8 DEF Receive
  <2>2. rpc' \in {"feed", "loop", "out"} /\ at' = "none"
    BY <1>8 DEF Receive
  <2>3. codec' = ReceiveFrame(codec).decoder /\ frame' = ReceiveFrame(codec).frame
    BY <1>8 DEF Receive
  <2>4. rpc' = "feed" => ReceiveFrame(codec).code = 0
    BY <1>8 DEF Receive
  <2>5. /\ packet.id \in Nat \X Nat
        /\ stamped => packet.id = <<runs, start_pts + current_duration>>
    BY <1>0, <2>1 DEF InHand, Packets
  <2>6. ~several => codec \in {FreshDecoder, WithFrame(packet.id)}
    BY <1>0, <2>1
  <2>7. ~several => codec' = FreshDecoder /\ (rpc' = "feed" => frame' = packet.id)
    <3>1. CASE codec = FreshDecoder
      BY <2>3, <2>4, <2>5, <3>1, ReceiveOne DEF EAGAIN
    <3>2. CASE codec = WithFrame(packet.id)
      BY <2>3, <2>5, <3>2, ReceiveOne
    <3> QED
      BY <2>6, <3>1, <3>2
  <2>8. PositionOfFrame'
    BY <2>1, <2>5, <2>7
  <2> QED
    BY <2>1, <2>2, <2>7, <2>8
<1>9. CASE Refused \/ Kept \/ FilterWrong \/ Collect \/ Block
  BY <1>0, <1>9 DEF Refused, FeedRejected, FeedNoOutput, Kept, FilterWrong,
     FilterFrame, Collect, Block
<1>10. CASE Tick \/ (RequestStop /\ UNCHANGED loopVars) \/ UNCHANGED allVars
  BY <1>0, <1>10 DEF Tick, RequestStop, runVars, allVars
<1> QED
  BY <1>1, <1>2, <1>3, <1>4, <1>5, <1>6, <1>7, <1>8, <1>9, <1>10
     DEF LoopNext, LoopStep, RunDone, allVars

-----------------------------------------------------------------------------
\* One frame goes in at the end and one comes out at the front.
LEMMA QueueFacts ==
  ASSUME held \in Seq(Nat), runs \in Nat
  PROVE  /\ Queue \in Seq(Nat) /\ Len(Queue) = Len(held) + 1
         /\ Tail(Queue) \in Seq(Nat) /\ Len(Tail(Queue)) = Len(held)
         /\ Len(held) = 0 => Head(Queue) = runs
<1>1. Queue \in Seq(Nat) /\ Len(Queue) = Len(held) + 1
  BY DEF Queue
<1>2. Len(held) \in Nat /\ Queue # <<>>
  BY <1>1, EmptySeq, LenProperties
<1>3. Tail(Queue) \in Seq(Nat) /\ Len(Tail(Queue)) = Len(Queue) - 1
  BY <1>1, <1>2, HeadTailProperties
<1>4. Len(held) = 0 => Queue[1] = runs
  BY DEF Queue
<1>5. Head(Queue) = Queue[1]
  BY <1>1, <1>2
<1> QED
  BY <1>1, <1>2, <1>3, <1>4, <1>5

\* What a graph may hold never shrinks: it holds nothing before it is built, and
\* afterwards the rates it was built with stay.
LEMMA HeldBackGrows ==
  ASSUME LoopInv, [LoopNext]_allVars
  PROVE  /\ HeldBack \in Nat /\ HeldBack' \in Nat /\ HeldBack <= HeldBack'
         /\ rpc = "feed" => HeldBack' = HeldBack
<1> USE DEF HeldBack
<1>0. HoldsBack \in Nat
  BY LoopConstants DEF LoopConstants
<1>1. RatePositive /\ RunInv /\ [RunNext]_runVars
  BY LoopStepsRefine DEF LoopInv
<1>2. fg # NoFormat => UNCHANGED <<fg, sample_rate>>
  <2> USE <1>1 DEF RatePositive
  <2>1. CASE RunStart \/ RequestStop
    BY <2>1 DEF RunStart, RequestStop
  <2>2. CASE OpenInput \/ InitFilters
    BY <2>2 DEF OpenInput, InitFilters, RateFor, GraphFor, RunInv, RunTypeOK, TypeOfFiles
  <2>3. CASE SetupSkipped \/ LicenseUnreachable \/ LicenseSilent \/ InitDecoder
    BY <2>3 DEF SetupSkipped, LicenseUnreachable, LicenseSilent, InitDecoder
  <2>4. ASSUME NEW reply \in LicenseReplies, LicenseReply(reply)
        PROVE  UNCHANGED <<fg, sample_rate>>
    BY <2>4 DEF LicenseReply
  <2>5. CASE LoopHead \/ ReadFails \/ ReadOther \/ ReadUntimed \/ Decode
    BY <2>5 DEF LoopHead, ReadFails, ReadOther, ReadUntimed, Decode
  <2>6. ASSUME NEW position \in Positions, ReadTimed(position)
        PROVE  UNCHANGED <<fg, sample_rate>>
    BY <2>6 DEF ReadTimed
  <2>7. CASE FeedRejected \/ FeedNoOutput \/ FilterFrame \/ RunEnd
    BY <2>7 DEF FeedRejected, FeedNoOutput, FilterFrame, RunEnd
  <2>8. CASE RunDone \/ UNCHANGED runVars
    BY <2>8 DEF RunDone, runVars
  <2> QED
    BY <1>1, <2>1, <2>2, <2>3, <2>4, <2>5, <2>6, <2>7, <2>8 DEF RunNext, RunStep
<1>3. fg = NoFormat => HeldBack = 0
  OBVIOUS
<1>4. HeldBack \in Nat /\ HeldBack' \in Nat
  BY <1>0
<1>5. fg # NoFormat => HeldBack' = HeldBack
  BY <1>2
<1>6. rpc = "feed" /\ fg = NoFormat => fg' = NoFormat
  <2>1. rpc = "feed" => UNCHANGED fg
    BY <1>1 DEF RunNext, RunStep, RunStart, RequestStop, OpenInput, InitFilters,
       SetupSkipped, LicenseUnreachable, LicenseSilent, LicenseReply, InitDecoder,
       LoopHead, ReadFails, ReadOther, ReadUntimed, ReadTimed, Decode, FeedRejected,
       FeedNoOutput, FilterFrame, RunEnd, RunDone, runVars
  <2> QED
    BY <2>1
<1>7. fg' = NoFormat => HeldBack' = 0
  OBVIOUS
<1> QED
  BY <1>3, <1>4, <1>5, <1>6, <1>7

\* The graph and the block keep no more than their share.
LEMMA CollectedInv ==
  ASSUME LoopInv, [LoopNext]_allVars
  PROVE  Collected'
<1> USE DEF Collected
<1>0. /\ held \in Seq(Nat) /\ Len(held) <= HeldBack /\ Len(held) \in Nat
      /\ nb_buffer \in 0 .. BlockSize - 1 /\ BlockSize \in Nat /\ BlockSize > 0
      /\ runs \in Nat /\ awt_size \in {0, BlockSize}
  BY RunConstants DEF LoopInv, RunConstants, RunInv, RunTypeOK, TypeOfDecoders,
     TypeOfCounters
<1>1. /\ HeldBack \in Nat /\ HeldBack' \in Nat /\ HeldBack <= HeldBack'
      /\ rpc = "feed" => HeldBack' = HeldBack
  BY HeldBackGrows
<1>2. CASE UNCHANGED <<held, nb_buffer>>
  BY <1>0, <1>1, <1>2
<1>3. CASE Kept
  <2>1. /\ rpc = "feed" /\ held' = Queue /\ nb_buffer' = nb_buffer
        /\ Len(held) < HeldBack
    BY <1>3 DEF Kept
  <2>2. held' \in Seq(Nat) /\ Len(held') = Len(held) + 1
    BY <1>0, <2>1, QueueFacts
  <2>3. Len(held') <= HeldBack'
    BY <1>0, <1>1, <2>1, <2>2
  <2> QED
    BY <1>0, <2>1, <2>2, <2>3
<1>4. CASE Collect \/ Block
  <2>1. /\ rpc = "feed" /\ held' = Tail(Queue) /\ awt_size # 0
        /\ nb_buffer' = 0 \/ (nb_buffer' = nb_buffer + 1 /\ nb_buffer + 1 # awt_size)
    BY <1>4 DEF Collect, Block, BlockFull
  <2>2. held' \in Seq(Nat) /\ Len(held') = Len(held)
    BY <1>0, <2>1, QueueFacts
  <2>3. Len(held') <= HeldBack'
    BY <1>0, <1>1, <2>1, <2>2
  <2>4. nb_buffer' \in 0 .. BlockSize - 1
    BY <1>0, <2>1
  <2> QED
    BY <2>2, <2>3, <2>4
<1>5. CASE Enter \/ Around \/ Finish \/ LoopTop \/ Poll \/ NoData
  BY <1>2, <1>5 DEF Enter, Around, Finish, LoopTop, Poll, NoData
<1>6. ASSUME NEW content \in Contents, NEW gap \in Gaps,
             TakeUntimed(content, gap) \/ TakeTimed(content, gap)
      PROVE  Collected'
  BY <1>2, <1>6 DEF TakeUntimed, TakeTimed
<1>7. CASE Awake \/ Send \/ Receive \/ Refused \/ FilterWrong \/ Tick
  BY <1>2, <1>7 DEF Awake, Send, Receive, Refused, FilterWrong, Tick
<1>8. CASE (RequestStop /\ UNCHANGED loopVars) \/ UNCHANGED allVars
  BY <1>2, <1>8 DEF allVars
<1> QED
  BY <1>3, <1>4, <1>5, <1>6, <1>7, <1>8 DEF LoopNext, LoopStep, RunDone, allVars

-----------------------------------------------------------------------------
\* Why a call has left its loop goes with what it returns.
LEMMA ExplainedInv ==
  ASSUME LoopInv, [LoopNext]_allVars
  PROVE  Explained'
<1> USE DEF Explained, WellLeft, Places
<1>0. Explained /\ Places /\ Emptied /\ InHand
  BY DEF LoopInv
<1>1. CASE Enter
  BY <1>0, <1>1 DEF Enter, RunStart, GotoEnd, AWT_CODE_SUCCESS, AWT_CODE_SETUP_ERROR
<1>2. CASE Around
  BY <1>0, <1>2 DEF Around, OpenInput, InitFilters, SetupSkipped, LicenseUnreachable,
     LicenseSilent, LicenseReply, InitDecoder, GotoEnd, AWT_CODE_SUCCESS,
     AWT_CODE_SETUP_ERROR, AWT_CODE_OPEN_ERROR
<1>3. CASE Finish
  BY <1>0, <1>3 DEF Finish, RunEnd, ResultOf, AWT_CODE_SUCCESS, AWT_CODE_PROCESS_ERROR
<1>4. CASE LoopTop \/ Poll \/ NoData
  BY <1>0, <1>4 DEF LoopTop, Poll, NoData, AVERROR_EOF, AVERROR_EAGAIN,
     AVERROR_EINVAL, AVERROR_EXIT
<1>5. ASSUME NEW content \in Contents, NEW gap \in Gaps,
             TakeUntimed(content, gap) \/ TakeTimed(content, gap)
      PROVE  Explained'
  BY <1>0, <1>5 DEF TakeUntimed, TakeTimed, Take
<1>6. CASE Awake
  BY <1>0, <1>6 DEF Awake, runVars
<1>7. CASE Send
  <2>1. rpc = "decode" /\ at = "send" /\ several' = several
    BY <1>7 DEF Send
  <2>2. /\ rpc' = "decode" \/ rpc' = "out"
        /\ rpc' = "out" => \/ /\ SendPacket(codec, packet).code = EAGAIN
                              /\ reason' = "full"
                           \/ ret' = INVALIDDATA
    BY <1>7 DEF Send
  <2>3. ~several => SendPacket(codec, packet).code # EAGAIN
    BY <1>0, <2>1, SendOne DEF Emptied, InHand
  <2> QED
    BY <2>1, <2>2, <2>3 DEF INVALIDDATA, AVERROR_EAGAIN, AVERROR_EOF
<1>8. CASE Receive
  BY <1>0, <1>8 DEF Receive, INVALIDDATA, AVERROR_EAGAIN, AVERROR_EOF
<1>9. CASE Refused
  BY <1>0, <1>9 DEF Refused, FeedRejected, FeedNoOutput, AVERROR_EINVAL, AVERROR_EAGAIN,
     AVERROR_EOF
<1>10. CASE Kept \/ FilterWrong \/ Collect \/ Block
  BY <1>0, <1>10 DEF Kept, FilterWrong, FilterFrame, Collect, Block, AWT5_ERROR,
     AVERROR_EAGAIN, AVERROR_EOF
<1>11. CASE Tick \/ (RequestStop /\ UNCHANGED loopVars) \/ UNCHANGED allVars
  BY <1>0, <1>11 DEF Tick, RequestStop, runVars, allVars
<1> QED
  BY <1>1, <1>2, <1>3, <1>4, <1>5, <1>6, <1>7, <1>8, <1>9, <1>10, <1>11
     DEF LoopNext, LoopStep, RunDone, allVars

-----------------------------------------------------------------------------
LEMMA LoopInitInv == LoopInit => LoopInv
<1> SUFFICES ASSUME LoopInit
             PROVE  LoopInv
  OBVIOUS
<1>0. /\ BlockSize \in Nat /\ BlockSize > 0 /\ ClockEnd \in Nat
      /\ 0 \in Positions /\ Positions \subseteq Nat
  BY RunConstants, LoopConstants DEF RunConstants, LoopConstants
<1>1. RunInv /\ RatePositive
  BY RunInitInv DEF LoopInit, RunInit, RatePositive
<1>2. Places /\ InHand /\ Paced /\ PositionOfFrame
  BY DEF LoopInit, RunInit, Places, InHand, Paced, PositionOfFrame
<1>3. Stream
  BY DEF LoopInit, RunInit, Stream
<1>4. Clocked
  BY <1>0 DEF LoopInit, Clocked
<1>5. Emptied
  BY DEF LoopInit, Emptied
<1>6. Collected
  <2>1. held = <<>> /\ Len(held) = 0 /\ held \in Seq(Nat) /\ HeldBack = 0
    BY EmptySeq DEF LoopInit, RunInit, HeldBack
  <2>2. nb_buffer \in 0 .. BlockSize - 1
    BY <1>0 DEF LoopInit
  <2> QED
    BY <2>1, <2>2 DEF Collected
<1>7. Explained
  BY DEF LoopInit, RunInit, Explained, WellLeft
<1> QED
  BY <1>1, <1>2, <1>3, <1>4, <1>5, <1>6, <1>7 DEF LoopInv

LEMMA LoopNextInv ==
  ASSUME LoopInv, [LoopNext]_allVars
  PROVE  LoopInv'
<1>1. RunInv' /\ RatePositive'
  BY RunPartInv
<1>2. Places' /\ Stream' /\ InHand'
  BY PlacesInv, StreamInv, InHandInv
<1>3. Clocked' /\ Paced'
  BY ClockedInv
<1>4. Emptied' /\ PositionOfFrame'
  BY EmptiedInv
<1>5. Collected' /\ Explained'
  BY CollectedInv, ExplainedInv
<1> QED
  BY <1>1, <1>2, <1>3, <1>4, <1>5 DEF LoopInv

THEOREM LoopInvariant == LoopSpec => []LoopInv
<1>1. LoopInit => LoopInv
  BY LoopInitInv
<1>2. LoopInv /\ [LoopNext]_allVars => LoopInv'
  BY LoopNextInv
<1> QED
  BY <1>1, <1>2, PTL DEF LoopSpec

\* Types; no block is full between two frames, and the graph holds no more than
\* the resampler's share.
THEOREM LoopTypesHold == LoopSpec => []LoopTypeOK
<1>1. LoopInv => LoopTypeOK
  <2> SUFFICES ASSUME LoopInv
               PROVE  LoopTypeOK
    OBVIOUS
  <2>1. HoldsBack \in Nat /\ HeldBack <= HoldsBack /\ HeldBack \in Nat
    BY LoopConstants DEF LoopConstants, HeldBack
  <2>2. Len(held) <= HoldsBack /\ nb_buffer \in 0 .. BlockSize - 1
    <3>1. held \in Seq(Nat) /\ Len(held) <= HeldBack /\ nb_buffer \in 0 .. BlockSize - 1
      BY DEF LoopInv, Collected
    <3>2. Len(held) \in Nat
      BY <3>1, LenProperties
    <3> QED
      BY <2>1, <3>1, <3>2
  <2>3. elapsed \in 0 .. ClockEnd /\ wake \in 0 .. ClockEnd
    BY DEF LoopInv, Clocked
  <2>4. at \in {"none", "poll", "transfer", "sleep", "send", "receive"}
    BY DEF LoopInv, Places
  <2>5. Stream
    BY DEF LoopInv
  <2> QED
    BY <2>2, <2>3, <2>4, <2>5, Zenon DEF LoopTypeOK, Stream
<1> QED
  BY <1>1, LoopInvariant, PTL

\* For every speed and clock: no packet is decoded before it is due, unless usleep
\* was asked for more than it takes.
THEOREM PaceKept == LoopSpec => []Paced
<1>1. LoopInv => Paced
  BY DEF LoopInv
<1> QED
  BY <1>1, LoopInvariant, PTL

\* For every stream: one frame per packet leaves the decoder empty.
THEOREM DecoderIsEmptied == LoopSpec => []DecoderEmptied
<1>1. LoopInv => DecoderEmptied
  BY Zenon DEF LoopInv, Emptied, Places, DecoderEmptied
<1> QED
  BY <1>1, LoopInvariant, PTL

\* For every stream: the position reported belongs to the frame at hand.
THEOREM PositionBelongsToFrame == LoopSpec => []PositionOfFrame
<1>1. LoopInv => PositionOfFrame
  BY DEF LoopInv
<1> QED
  BY <1>1, LoopInvariant, PTL

\* Success without the file being played happens only when a packet held several
\* frames.
THEOREM SuccessIsExplained == LoopSpec => []SuccessExplained
<1>1. LoopInv => SuccessExplained
  BY DEF LoopInv, Explained, WellLeft, SuccessExplained
<1> QED
  BY <1>1, LoopInvariant, PTL

\* A graph that does not resample gives every frame back at once, so that no
\* block ends with a frame of an earlier file.
THEOREM TailOnlyWhenResampling == LoopSpec => TailNeedsResampling
<1>1. LoopInv /\ [LoopNext]_allVars
        => [nb_buffer' # nb_buffer /\ nb_buffer' = 0
              => Head(Queue) = runs \/ fg.rate # sample_rate]_allVars
  <2> SUFFICES ASSUME LoopInv, [LoopNext]_allVars,
                      nb_buffer' # nb_buffer, nb_buffer' = 0, fg.rate = sample_rate
               PROVE  Head(Queue) = runs
    OBVIOUS
  <2>1. held \in Seq(Nat) /\ Len(held) <= HeldBack /\ runs \in Nat
    BY RunConstants DEF RunConstants, LoopInv, Collected, RunInv, RunTypeOK,
       TypeOfCounters
  <2>2. HeldBack = 0 /\ Len(held) \in Nat
    BY <2>1, LenProperties DEF HeldBack
  <2>3. Len(held) = 0
    BY <2>1, <2>2
  <2> QED
    BY <2>1, <2>3, QueueFacts
<1> QED
  BY <1>1, LoopInvariant, PTL DEF LoopSpec, TailNeedsResampling

\* The detailed loop implements AwtRun: every behaviour of it is one of AwtRun.
THEOREM LoopImplementsRun == LoopSpec => ImplementsRun
<1>1. LoopInit => RunInit
  BY DEF LoopInit
<1>2. LoopInv /\ [LoopNext]_allVars => [RunNext]_runVars
  BY LoopStepsRefine
<1> QED
  BY <1>1, <1>2, LoopInvariant, PTL DEF LoopSpec, ImplementsRun, RunSpec

-----------------------------------------------------------------------------
\* A decoder that holds packets and frames of the given numbers only.
PacketsOf(ids) == [frames : Nat, bad : BOOLEAN, id : ids]
Holding(ids) == [buffer_pkt : PacketsOf(ids) \cup {NoPacket},
                 in_pkt : PacketsOf(ids) \cup {NoPacket},
                 buffer_frame : ids \cup {NoFrame}]

\* It invents nothing: its frames are of packets it was given, and what it keeps is.
LEMMA DecodedFrom ==
  ASSUME NEW ids \in SUBSET (Nat \X Nat), NEW d \in Holding(ids)
  PROVE  /\ Decoded(d).decoder \in Holding(ids)
         /\ Decoded(d).frame \in ids \cup {NoFrame}
         /\ Decoded(d).code = 0 => Decoded(d).frame \in ids
<1> DEFINE n == NextPacket(d)
           e == [n EXCEPT !.in_pkt = NoPacket]
           p == n.in_pkt
<1>1. n \in Holding(ids)
  BY DEF Holding, NextPacket
<1>2. e \in Holding(ids) /\ p \in PacketsOf(ids) \cup {NoPacket}
  BY <1>1 DEF Holding
<1>3. CASE p = NoPacket
  <2>1. Decoded(d) = Outcome(EAGAIN, NoFrame, d)
    BY <1>3 DEF Decoded
  <2> QED
    BY <2>1 DEF Outcome, EAGAIN
<1>4. CASE p # NoPacket /\ p.frames > 0
  <2>1. p \in PacketsOf(ids) /\ p.frames \in Nat /\ p.id \in ids
    BY <1>2, <1>4 DEF PacketsOf
  <2>2. RestOf(p) \in PacketsOf(ids) \cup {NoPacket}
    <3>1. p.frames - 1 \in Nat
      BY <1>4, <2>1
    <3> HIDE DEF p
    <3>2. [p EXCEPT !.frames = @ - 1] \in PacketsOf(ids)
      BY <2>1, <3>1 DEF PacketsOf
    <3> QED
      BY <3>2 DEF RestOf
  <2>3. Decoded(d) = Outcome(0, p.id, [e EXCEPT !.in_pkt = RestOf(p)])
    BY <1>4 DEF Decoded
  <2>4. [e EXCEPT !.in_pkt = RestOf(p)] \in Holding(ids)
    <3> HIDE DEF e, p
    <3> QED
      BY <1>2, <2>2 DEF Holding
  <2> HIDE DEF e, p
  <2> QED
    BY <2>1, <2>3, <2>4 DEF Outcome
<1>5. CASE p # NoPacket /\ ~(p.frames > 0)
  <2>1. Decoded(d) = Outcome(IF p.bad THEN INVALIDDATA ELSE EAGAIN, NoFrame, e)
    BY <1>5 DEF Decoded
  <2> HIDE DEF e
  <2> QED
    BY <1>2, <2>1 DEF Outcome, INVALIDDATA, EAGAIN
<1> QED
  BY <1>3, <1>4, <1>5

LEMMA SendFrom ==
  ASSUME NEW ids \in SUBSET (Nat \X Nat), NEW d \in Holding(ids), NEW p \in PacketsOf(ids)
  PROVE  SendPacket(d, p).decoder \in Holding(ids)
<1> DEFINE e == [d EXCEPT !.buffer_pkt = p]
           r == Decoded(e)
<1>1. e \in Holding(ids)
  BY DEF Holding
<1>2. r.decoder \in Holding(ids) /\ r.frame \in ids \cup {NoFrame}
  <2> HIDE DEF e
  <2> QED
    BY <1>1, DecodedFrom
<1>3. [r.decoder EXCEPT !.buffer_frame = r.frame] \in Holding(ids)
  <2> HIDE DEF r
  <2> QED
    BY <1>2 DEF Holding
<1>4. SendPacket(d, p).decoder \in {d, e, r.decoder, [r.decoder EXCEPT !.buffer_frame = r.frame]}
  BY DEF SendPacket, Outcome
<1> HIDE DEF e, r
<1> QED
  BY <1>1, <1>2, <1>3, <1>4

LEMMA ReceiveFrom ==
  ASSUME NEW ids \in SUBSET (Nat \X Nat), NEW d \in Holding(ids)
  PROVE  /\ ReceiveFrame(d).decoder \in Holding(ids)
         /\ ReceiveFrame(d).code = 0 => ReceiveFrame(d).frame \in ids
<1>1. CASE d.buffer_frame # NoFrame
  <2>1. ReceiveFrame(d) = Outcome(0, d.buffer_frame, [d EXCEPT !.buffer_frame = NoFrame])
    BY <1>1 DEF ReceiveFrame
  <2>2. [d EXCEPT !.buffer_frame = NoFrame] \in Holding(ids) /\ d.buffer_frame \in ids
    BY <1>1 DEF Holding
  <2> QED
    BY <2>1, <2>2 DEF Outcome
<1>2. CASE d.buffer_frame = NoFrame
  <2>1. ReceiveFrame(d) = Decoded(d)
    BY <1>2 DEF ReceiveFrame
  <2> QED
    BY <2>1, DecodedFrom
<1> QED
  BY <1>1, <1>2

\* An empty decoder, and one that holds less.
LEMMA HoldingFacts ==
  ASSUME NEW ids, NEW more, ids \subseteq more
  PROVE  FreshDecoder \in Holding(ids) /\ Holding(ids) \subseteq Holding(more)
<1>1. FreshDecoder \in Holding(ids)
  BY DEF FreshDecoder, Holding
<1>2. PacketsOf(ids) \subseteq PacketsOf(more)
  BY DEF PacketsOf
<1> QED
  BY <1>1, <1>2 DEF Holding

\* Numbers of the packets read so far in this call, up to the n-th position.
UpTo(n) == {runs} \X (0 .. n)

\* The decoder holds only what was read in this call; at the packet in hand, nothing
\* beyond it.
Lagging ==
    /\ codec \in Holding(UpTo(next))
    /\ rpc \in {"decode", "feed"} =>
          /\ packet \in Packets /\ packet.id \in UpTo(next)
          /\ codec \in Holding(UpTo(packet.id[2]))
          /\ stamped => packet.id = <<runs, start_pts + current_duration>>
    /\ rpc = "feed" => frame \in UpTo(packet.id[2])

LEMMA LaggingInv ==
  ASSUME LoopInv, Lagging, [LoopNext]_allVars
  PROVE  Lagging'
<1> USE DEF Lagging, UpTo
<1>0. /\ runs \in Nat /\ runs' \in Nat /\ next \in Nat /\ Places /\ Places'
      /\ InHand /\ InHand' /\ Emptied /\ Emptied'
  BY RunConstants, LoopNextInv
     DEF RunConstants, LoopInv, RunInv, RunTypeOK, TypeOfCounters, Stream
<1>1. CASE Enter \/ Finish
  <2>1. codec' = FreshDecoder
    BY <1>0, <1>1 DEF Enter, RunStart, Finish, DecoderFreed, Emptied
  <2>2. rpc' \notin {"decode", "feed"}
    BY <1>1 DEF Enter, RunStart, Finish, RunEnd
  <2> QED
    BY <2>1, <2>2, HoldingFacts
<1>2. CASE Around
  BY <1>2 DEF Around, OpenInput, InitFilters, SetupSkipped, LicenseUnreachable,
     LicenseSilent, LicenseReply, InitDecoder
<1>3. CASE LoopTop \/ Poll \/ NoData
  BY <1>3 DEF LoopTop, Poll, NoData
<1>4. ASSUME NEW content \in Contents, NEW gap \in Gaps,
             TakeUntimed(content, gap) \/ TakeTimed(content, gap)
      PROVE  Lagging'
  <2>1. gap \in Nat /\ next' = next + gap
    BY <1>4, LoopConstants DEF LoopConstants, TakeUntimed, TakeTimed, Take
  <2>a. packet' = [frames |-> content.frames, bad |-> content.bad, id |-> <<runs, next>>]
    BY <1>4 DEF TakeUntimed, TakeTimed, Take
  <2>b. codec' = codec /\ UNCHANGED history
    BY <1>4 DEF TakeUntimed, TakeTimed
  <2>2. runs' = runs /\ codec' = codec /\ packet'.id = <<runs, next>>
    BY <2>a, <2>b
  <2>3. 0 .. next \subseteq 0 .. next' /\ packet'.id[2] = next /\ packet'.id \in UpTo(next)'
    BY <1>0, <2>1, <2>2
  <2>4. codec' \in Holding(UpTo(next))'
    BY <2>2, <2>3, HoldingFacts
  <2>5. rpc' \in {"decode", "out"}
    BY <1>4 DEF TakeUntimed, TakeTimed
  <2>6. rpc' = "decode" => /\ packet' \in Packets
                           /\ stamped' => packet'.id = <<runs', start_pts' + current_duration'>>
    BY <1>0 DEF InHand
  <2> QED
    BY <2>2, <2>3, <2>4, <2>5, <2>6
<1>5. CASE Awake
  BY <1>0, <1>5 DEF Awake, runVars
<1>6. CASE Send \/ Receive
  <2>1. /\ rpc = "decode" /\ UNCHANGED <<packet, stamped, next, runs, start_pts, current_duration>>
    BY <1>6 DEF Send, Receive
  <2> DEFINE ids == UpTo(packet.id[2])
  <2>2. /\ packet \in Packets /\ packet.id \in UpTo(next) /\ codec \in Holding(ids)
        /\ stamped => packet.id = <<runs, start_pts + current_duration>>
    BY <2>1
  <2>3. packet.id[2] \in 0 .. next /\ packet.id[1] = runs /\ packet.id = <<runs, packet.id[2]>>
    BY <2>2
  <2>4. ids \in SUBSET (Nat \X Nat) /\ packet.id \in ids /\ ids \subseteq UpTo(next)
    <3> DEFINE k == packet.id[2]
    <3>0. k \in 0 .. next
      BY <2>3
    <3>1. k \in 0 .. k /\ 0 .. k \subseteq 0 .. next /\ 0 .. k \subseteq Nat
      <4> HIDE DEF k
      <4> QED
        BY <1>0, <3>0
    <3>2. packet.id = <<runs, k>> /\ ids = {runs} \X (0 .. k)
      BY <2>3
    <3> HIDE DEF k, ids
    <3> QED
      BY <1>0, <3>1, <3>2
  <2>5. packet \in PacketsOf(ids)
    BY <2>2, <2>4 DEF Packets, PacketsOf
  <2>6. codec' \in Holding(ids) /\ (rpc' = "feed" => frame' \in ids)
    <3> HIDE DEF ids
    <3>1. CASE Send
      BY <2>2, <2>4, <2>5, <3>1, SendFrom DEF Send
    <3>2. CASE Receive
      BY <2>2, <2>4, <3>2, ReceiveFrom DEF Receive
    <3> QED
      BY <1>6, <3>1, <3>2
  <2>7. codec' \in Holding(UpTo(next))
    <3> HIDE DEF ids
    <3> QED
      BY <2>4, <2>6, HoldingFacts
  <2> QED
    BY <2>1, <2>2, <2>6, <2>7
<1>7. CASE Refused \/ Kept \/ FilterWrong \/ Collect \/ Block
  BY <1>7 DEF Refused, FeedRejected, FeedNoOutput, Kept, FilterWrong, FilterFrame,
     Collect, Block
<1>8. CASE Tick \/ (RequestStop /\ UNCHANGED loopVars) \/ UNCHANGED allVars
  <2>1. UNCHANGED <<rpc, codec, next, runs, packet, stamped, start_pts, current_duration, frame>>
    <3>1. CASE Tick
      BY <3>1 DEF Tick, runVars
    <3>2. CASE RequestStop /\ UNCHANGED loopVars
      BY <3>2 DEF RequestStop
    <3>3. CASE UNCHANGED allVars
      BY <3>3 DEF allVars, runVars
    <3> QED
      BY <1>8, <3>1, <3>2, <3>3
  <2> QED
    BY <2>1
<1> QED
  BY <1>1, <1>2, <1>3, <1>4, <1>5, <1>6, <1>7, <1>8 DEF LoopNext, LoopStep, RunDone, allVars

\* For every stream, packets of several frames included: what the filter gets was read
\* in this call, and not after the position that is reported.
THEOREM FrameIsNotAhead == LoopSpec => []FrameNotAhead
<1>1. LoopInit => Lagging
  BY HoldingFacts DEF LoopInit, RunInit, Lagging
<1>2. LoopInv /\ Lagging /\ [LoopNext]_allVars => Lagging'
  BY LaggingInv
<1>3. LoopInv /\ Lagging => FrameNotAhead
  <2> SUFFICES ASSUME LoopInv, Lagging, rpc = "feed"
               PROVE  /\ frame[1] = runs
                      /\ stamped => frame[2] <= start_pts + current_duration
    BY DEF FrameNotAhead
  <2>1. frame \in {runs} \X (0 .. packet.id[2])
    BY DEF Lagging, UpTo
  <2>2. frame[1] = runs /\ frame[2] <= packet.id[2]
    BY <2>1
  <2>3. stamped => packet.id[2] = start_pts + current_duration
    BY DEF Lagging
  <2> QED
    BY <2>2, <2>3
<1> QED
  BY <1>1, <1>2, <1>3, LoopInvariant, PTL DEF LoopSpec

-----------------------------------------------------------------------------
\* Outside a read and the work on a packet the count is that of AwtRun.
LEMMA CallLeftElsewhere ==
  ASSUME Places, rpc \notin {"read", "decode"}
  PROVE  at = "none" /\ CallStatementsLeft = StatementsLeft
<1>1. at = "none"
  BY DEF Places
<1> QED
  BY <1>1 DEF CallStatementsLeft

LEMMA CallStatementsRunOut ==
  ASSUME LoopInv, LoopInv', ~running, LoopStep
  PROVE  CallStatementsLeft' \in 0 .. CallStatementsLeft - 1
<1>0. /\ RunInv /\ RunInv' /\ Places /\ Places' /\ running = FALSE
      /\ rpc \notin {"read", "decode"} => CallStatementsLeft = StatementsLeft
  <2>1. RunInv /\ RunInv' /\ Places /\ Places'
    BY DEF LoopInv
  <2>2. running = FALSE
    BY <2>1 DEF RunInv, RunTypeOK, TypeOfFlags
  <2> QED
    BY <2>1, <2>2, CallLeftElsewhere
<1>1. CASE Around \/ Finish
  <2>1. RunStep /\ rpc \notin {"read", "decode"} /\ UNCHANGED at
    <3>1. CASE Around
      <4>1. RunStep /\ UNCHANGED at
        BY <3>1 DEF Around, RunStep
      <4>2. rpc \in {"open", "filters", "setup", "decoders"}
        BY <3>1 DEF Around, OpenInput, InitFilters, SetupSkipped, LicenseUnreachable,
           LicenseSilent, LicenseReply, InitDecoder
      <4> QED
        BY <4>1, <4>2
    <3>2. CASE Finish
      BY <3>2 DEF Finish, RunEnd, RunStep
    <3> QED
      BY <1>1, <3>1, <3>2
  <2>2. at = "none" /\ at' = "none"
    BY <1>0, <2>1, CallLeftElsewhere
  <2>3. CallStatementsLeft = StatementsLeft /\ CallStatementsLeft' = StatementsLeft'
    BY <2>2 DEF CallStatementsLeft
  <2> QED
    BY <1>0, <2>1, <2>3, StatementsRunOut
<1>2. CASE LoopTop
  <2>1. rpc = "loop" /\ rpc' = "out" /\ at' = "none"
    BY <1>0, <1>2 DEF LoopTop
  <2> QED
    BY <1>0, <2>1 DEF CallStatementsLeft, StatementsLeft
<1>3. CASE Poll
  <2>1. at = "poll" /\ at' = "none" /\ rpc' = "out"
    BY <1>0, <1>3 DEF Poll, PollStop
  <2> QED
    BY <2>1 DEF CallStatementsLeft, StatementsLeft
<1>4. CASE NoData
  <2>1. at = "transfer" /\ (at' = "poll" \/ (at' = "none" /\ rpc' \in {"loop", "out"}))
    BY <1>4 DEF NoData
  <2> QED
    BY <2>1 DEF CallStatementsLeft, StatementsLeft
<1>5. ASSUME NEW content \in Contents, NEW gap \in Gaps,
             TakeUntimed(content, gap) \/ TakeTimed(content, gap)
      PROVE  CallStatementsLeft' \in 0 .. CallStatementsLeft - 1
  <2>1. at = "transfer" /\ (at' \in {"sleep", "send"} \/ (at' = "none" /\ rpc' = "out"))
    <3>1. CASE TakeUntimed(content, gap)
      BY <3>1 DEF TakeUntimed, Take
    <3>2. CASE TakeTimed(content, gap)
      BY <3>2 DEF TakeTimed, Take
    <3> QED
      BY <1>5, <3>1, <3>2
  <2> QED
    BY <2>1 DEF CallStatementsLeft, StatementsLeft
<1>6. CASE Awake
  <2>1. at = "sleep" /\ at' = "send"
    BY <1>6 DEF Awake
  <2> QED
    BY <2>1 DEF CallStatementsLeft
<1>7. CASE Send
  <2>1. /\ at = "send"
        /\ (at' = "receive" /\ rpc' = "decode") \/ (at' = "none" /\ rpc' = "out")
    BY <1>7 DEF Send
  <2> QED
    BY <2>1 DEF CallStatementsLeft, StatementsLeft
<1>8. CASE Receive
  <2>1. /\ at = "receive" /\ rpc = "decode"
        /\ at' = "none" /\ rpc' \in {"feed", "loop", "out"}
    <3>1. at = "receive" /\ rpc = "decode" /\ at' = "none"
      BY <1>8 DEF Receive
    <3>2. rpc' \in {"feed", "loop", "out"}
      BY <1>8 DEF Receive
    <3> QED
      BY <3>1, <3>2
  <2> QED
    BY <2>1 DEF CallStatementsLeft, StatementsLeft
<1>9. CASE Refused \/ Kept \/ FilterWrong \/ Collect \/ Block
  <2>1. rpc = "feed" /\ rpc' \in {"out", "loop", "fault", "spin"}
    BY <1>9 DEF Refused, FeedRejected, FeedNoOutput, Kept, FilterWrong, FilterFrame,
       Collect, Block
  <2>2. at' = "none"
    BY <1>0, <2>1 DEF Places
  <2> QED
    BY <1>0, <2>1, <2>2 DEF CallStatementsLeft, StatementsLeft
<1> QED
  BY <1>1, <1>2, <1>3, <1>4, <1>5, <1>6, <1>7, <1>8, <1>9 DEF LoopStep

\* There are at most seven of them.
LEMMA CallStatementsLeftRange ==
  ASSUME LoopInv
  PROVE  CallStatementsLeft \in 0 .. 7
<1>1. StatementsLeft \in 0 .. 6
  BY StatementsLeftRange DEF LoopInv
<1> QED
  BY <1>1 DEF CallStatementsLeft

\* Whatever the stream and its source do: once running is 0, the call executes at
\* most seven more statements, the attempt to read that is under way included.
THEOREM CallStopBounds == LoopSpec => [](CallStatementsLeft \in 0 .. 7) /\ StopBoundsCall
<1>1. LoopInv => CallStatementsLeft \in 0 .. 7
  BY CallStatementsLeftRange
<1>2. ASSUME LoopInv, LoopInv', [LoopNext]_allVars, ~running, ~UNCHANGED allVars
      PROVE  /\ ~running'
             /\ rpc # "idle" => \/ Tick
                                \/ CallStatementsLeft' \in 0 .. CallStatementsLeft - 1
  <2>0. running = FALSE
    BY <1>2 DEF LoopInv, RunInv, RunTypeOK, TypeOfFlags
  <2>1. ~running'
    <3>1. RunStep \/ RunStart \/ RequestStop \/ UNCHANGED runVars
      BY <1>2, LoopStepsRefine DEF RunNext, RunDone
    <3>2. UNCHANGED runVars => ~running'
      BY <2>0 DEF runVars
    <3> QED
      BY <1>2, <3>1, <3>2, StopSticks
  <2>2. ~(RequestStop /\ UNCHANGED loopVars) /\ ~(RunDone /\ UNCHANGED loopVars)
    <3>1. RequestStop => UNCHANGED runVars
      BY <2>0 DEF RequestStop, runVars
    <3>2. RunDone => UNCHANGED runVars
      BY DEF RunDone
    <3>3. ~(UNCHANGED runVars /\ UNCHANGED loopVars)
      BY <1>2 DEF allVars
    <3> QED
      BY <3>1, <3>2, <3>3
  <2>3. rpc # "idle" => ~Enter
    BY DEF Enter, RunStart
  <2>4. rpc # "idle" => LoopStep \/ Tick
    BY <1>2, <2>2, <2>3 DEF LoopNext
  <2>5. LoopStep => CallStatementsLeft' \in 0 .. CallStatementsLeft - 1
    BY <1>2, CallStatementsRunOut
  <2> QED
    BY <2>1, <2>4, <2>5
<1>3. LoopInv /\ LoopInv' /\ [LoopNext]_allVars
        => [~running => /\ ~running'
                        /\ rpc # "idle" =>
                             \/ Tick
                             \/ CallStatementsLeft' \in 0 .. CallStatementsLeft - 1]_allVars
  BY <1>2
<1> QED
  BY <1>1, <1>3, LoopInvariant, PTL DEF LoopSpec, StopBoundsCall

-----------------------------------------------------------------------------
\* What AwtRun promises of the limit, of the two ways in which awt_filter_frame goes
\* wrong, of the buffers of the licence and of the sample rate holds of the loop with its packets, clock and decoder.
THEOREM RunPromisesHold ==
  LoopSpec => /\ []LimitNeverExceeded
              /\ []FaultNeedsFailedSetup
              /\ []SpinNeedsRefusedLicense
              /\ []LicenseBuffersAccounted
              /\ RateFixedOnceUsed
BY LoopImplementsRun, LimitKept, FaultOnlyAfterFailedSetup, SpinOnlyUnlicensed,
   LicenseBuffersKept, RateFixed, PTL DEF ImplementsRun
=============================================================================
