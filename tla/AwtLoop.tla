------------------------------ MODULE AwtLoop -------------------------------
(***************************************************************************)
(* The packet loop of awt_run in src/src/awt.c, statement by statement,    *)
(* with what it drives: the reads of libavformat, which poll awt_interupt, *)
(* the decoder (module AvDecoder), the filter graph with the samples it    *)
(* holds back, the block that is being collected, and the wall clock that  *)
(* paces the run.  The statements before the loop and after it are those   *)
(* of AwtRun, of which this module is a refinement: the packet loop does   *)
(* nothing that AwtRun does not allow.                                     *)
(*                                                                         *)
(* Frames have one length, the unit of BlockSize; media time and wall      *)
(* clock have one unit.  The clock counts from the start of the call.      *)
(***************************************************************************)
EXTENDS AwtRun, AvDecoder, Sequences

CONSTANTS
    Gaps,       \* media time from one packet of the stream to the next
    Contents,   \* contents of a packet: records [frames, bad]
    Speed,      \* awt->speed, media time per unit of wall clock
    SleepRange, \* usleep takes its argument modulo this number
    HoldsBack,  \* frames a graph that resamples has not put out yet
    ClockEnd    \* bound: every packet is due by then, and time stops

ASSUME LoopConstants ==
    /\ Gaps \subseteq Nat
    /\ Contents \subseteq [frames : Nat, bad : BOOLEAN]
    /\ NoPacket \notin [frames : Nat, bad : BOOLEAN, id : Nat \X Nat]
    /\ NoFrame \notin Nat \X Nat
    /\ Speed \in Nat \ {0} /\ SleepRange \in Nat \ {0}
    /\ HoldsBack \in Nat /\ ClockEnd \in Nat
    /\ \A p, q \in Positions : q <= p => p - q \in Positions
    /\ \A p \in Positions : p \div Speed <= ClockEnd

VARIABLES
    at,         \* the statement of the loop: "none", "poll", "transfer",
                \* "sleep", "send" or "receive"
    elapsed,    \* av_gettime() - start_time
    wake,       \* when usleep returns
    next,       \* position of the next packet of the stream
    start_pts,  \* start_pts, once timed
    packet,     \* packet: its number, position and contents
    frame,      \* frame
    codec,      \* the AVCodecContext
    held,       \* calls whose frames the graph holds, oldest first
    nb_buffer,  \* frames in the block that is being collected
    \* --- history
    stamped,    \* the packet has a timestamp
    several,    \* a packet of this call held more than a frame
    truncated,  \* usleep was given a number it does not take
    reason      \* why the call has left its loop

loopVars == <<at, elapsed, wake, next, start_pts, packet, frame, codec, held,
              nb_buffer, stamped, several, truncated, reason>>
allVars  == <<runVars, loopVars>>

clock  == <<elapsed, wake>>
source == <<next, start_pts, packet, stamped, several, truncated>>
sink   == <<held, nb_buffer>>

LoopInit ==
    /\ RunInit
    /\ at = "none" /\ elapsed = 0 /\ wake = 0
    /\ next = 0 /\ start_pts = 0
    /\ packet = NoPacket /\ frame = NoFrame /\ codec = FreshDecoder
    /\ held = <<>> /\ nb_buffer = 0
    /\ stamped = FALSE /\ several = FALSE /\ truncated = FALSE
    /\ reason = "none"

Enter ==
    /\ RunStart
    /\ several' = FALSE /\ reason' = "none"
    /\ UNCHANGED <<at, clock, next, start_pts, packet, stamped, truncated, frame,
                   codec, sink>>

\* Everything up to the loop.
Around ==
    /\ \/ OpenInput \/ InitFilters \/ SetupSkipped \/ LicenseUnreachable \/ LicenseSilent
       \/ \E reply \in LicenseReplies : LicenseReply(reply)
       \/ InitDecoder
    /\ UNCHANGED loopVars

\* The statements after it: packet, frame and decoder are freed, the clock and
\* start_pts were locals; the graph and the block stay for the next call.
DecoderReused == codec
DecoderFreed  == FreshDecoder

Finish ==
    /\ RunEnd
    /\ elapsed' = 0 /\ wake' = 0
    /\ next' = 0 /\ start_pts' = 0
    /\ packet' = NoPacket /\ frame' = NoFrame /\ codec' = DecoderFreed
    /\ stamped' = FALSE /\ truncated' = FALSE
    /\ UNCHANGED <<at, several, reason, sink>>

\* goto out, and why.
Leave(code, why) ==
    /\ GotoOut(code)
    /\ at' = "none"
    /\ reason' = why

Stay(place) == at' = place /\ UNCHANGED reason

\* while (awt->running); av_read_frame asks the protocol, or has the bytes in its
\* buffer.
LoopTop ==
    /\ rpc = "loop"
    /\ \/ /\ running /\ rpc' = "read" /\ UNCHANGED ret
          /\ Stay("poll") \/ Stay("transfer")
       \/ ~running /\ Leave(ret, "closed")
    /\ packet' = NoPacket /\ frame' = NoFrame
    /\ UNCHANGED <<context, file, timed, history, clock, next, start_pts, stamped,
                   several, truncated, codec, sink>>

\* retry_transfer_wrapper, and the wait of a socket below it: awt_interupt is
\* asked before every attempt, and an attempt that brings nothing is repeated.
PollOnce == TRUE
PollStop == running

Poll ==
    /\ rpc = "read" /\ at = "poll"
    /\ \/ PollStop /\ at' = "transfer" /\ UNCHANGED <<rpc, ret, reason>>
       \/ ~PollStop /\ Leave(AVERROR_EXIT, "closed")
    /\ UNCHANGED <<context, file, timed, history, clock, source, frame, codec, sink>>

\* Nothing there yet; a packet of another stream; or av_read_frame fails.
NoData ==
    /\ rpc = "read" /\ at = "transfer"
    /\ \/ at' = "poll" /\ UNCHANGED <<rpc, ret, reason>>
       \/ rpc' = "loop" /\ ret' = 0 /\ Stay("none")
       \/ Leave(AVERROR_EOF, "eof")
       \/ Leave(AVERROR_EAGAIN, "dry")
       \/ Leave(AVERROR_EINVAL, "error")
    /\ UNCHANGED <<context, file, timed, history, clock, source, frame, codec, sink>>

\* The next packet of the stream is in hand.
Take(content, gap) ==
    /\ rpc = "read" /\ at = "transfer"
    /\ next \in Positions
    /\ next' = next + gap
    /\ packet' = [frames |-> content.frames, bad |-> content.bad,
                  id |-> <<runs, next>>]
    /\ several' = \/ several \/ content.frames > 1
                  \/ content.frames = 1 /\ content.bad
    /\ ret' = 0

\* A packet without a timestamp.
TakeUntimed(content, gap) ==
    /\ Take(content, gap)
    /\ stamped' = FALSE
    /\ rpc' = "decode" /\ Stay("send")
    /\ UNCHANGED <<context, file, timed, history, clock, start_pts, truncated,
                   frame, codec, sink>>

\* current_duration + pre_duration >= second
LimitOfFile  == current_duration' >= Limit
LimitReached == current_duration' + pre_duration >= Limit

\* delta = current_duration/speed - realtime
DeltaLate(position) == elapsed - position \div Speed
Delta(position)     == position \div Speed - elapsed

\* A packet with one: the position it gives the call, the limit, the pace.
TakeTimed(content, gap) ==
    /\ Take(content, gap)
    /\ stamped' = TRUE
    /\ timed' = TRUE
    /\ start_pts' = IF timed THEN start_pts ELSE next
    /\ current_duration' = next - start_pts'
    /\ LET delta == Delta(current_duration') IN
       /\ truncated' = (delta >= SleepRange)
       /\ \/ LimitReached /\ rpc' = "out" /\ at' = "none" /\ reason' = "limit"
             /\ UNCHANGED wake
          \/ ~LimitReached /\ rpc' = "decode"
             /\ IF delta > 0
                THEN Stay("sleep") /\ wake' = elapsed + (delta % SleepRange)
                ELSE Stay("send") /\ UNCHANGED wake
    /\ UNCHANGED <<running, fg, sample_rate, nb_decoder, decoder, buffer, awt_size,
                   license, pre_duration, file, history, elapsed, frame, codec, sink>>

\* usleep returns; nothing else ends it.
Awake ==
    /\ rpc = "decode" /\ at = "sleep"
    /\ elapsed >= wake
    /\ Stay("send")
    /\ UNCHANGED <<runVars, clock, source, frame, codec, sink>>

Send ==
    /\ rpc = "decode" /\ at = "send"
    /\ LET r == SendPacket(codec, packet) IN
       /\ codec' = r.decoder
       /\ \/ r.code = 0 /\ Stay("receive") /\ UNCHANGED <<rpc, ret>>
          \/ r.code = EAGAIN /\ Leave(EAGAIN, "full")
          \/ r.code = INVALIDDATA /\ Leave(INVALIDDATA, "error")
    /\ UNCHANGED <<context, file, timed, history, clock, source, frame, sink>>

Receive ==
    /\ rpc = "decode" /\ at = "receive"
    /\ LET r == ReceiveFrame(codec) IN
       /\ codec' = r.decoder
       /\ frame' = r.frame
       /\ \/ r.code = 0 /\ rpc' = "feed" /\ ret' = 0 /\ Stay("none")
          \/ r.code = EAGAIN /\ rpc' = "loop" /\ ret' = EAGAIN /\ Stay("none")
          \/ r.code = INVALIDDATA /\ Leave(INVALIDDATA, "error")
    /\ UNCHANGED <<context, file, timed, history, clock, source, sink>>

-----------------------------------------------------------------------------
\* Frames the graph does not give back yet: those of a resampler, which
\* avfilter_graph_config inserts when the rates differ.
HeldAlways == HoldsBack
HeldBack   == IF fg # NoFormat /\ fg.rate # sample_rate THEN HoldsBack ELSE 0

Queue == Append(held, runs)

Refused ==
    /\ FeedRejected \/ (FeedNoOutput /\ rpc' = "out")
    /\ reason' = "error"
    /\ UNCHANGED <<at, clock, source, frame, codec, sink>>

\* The graph keeps the frame, and the sink has none: the EAGAIN it answers is
\* also what ends the loop over the decoder's frames.
Kept ==
    /\ rpc = "feed" /\ file = fg
    /\ Len(held) < HeldBack
    /\ held' = Queue
    /\ rpc' = "loop" /\ ret' = AVERROR_EAGAIN
    /\ UNCHANGED <<context, file, timed, history, at, clock, source, frame, codec,
                   nb_buffer, reason>>

\* awt_filter_frame goes wrong as AwtRun says.
FilterWrong ==
    /\ Len(held) >= HeldBack
    /\ FilterFrame
    /\ rpc' \in {"fault", "spin"}
    /\ UNCHANGED loopVars

\* The oldest frame of the graph goes into the block, which is not full yet.
BlockFullLate == nb_buffer = awt_size
BlockFull     == nb_buffer + 1 = awt_size

Collect ==
    /\ rpc = "feed" /\ file = fg /\ FrameReady /\ awt_size # 0
    /\ Len(held) >= HeldBack
    /\ ~BlockFull
    /\ held' = Tail(Queue)
    /\ nb_buffer' = nb_buffer + 1
    /\ rpc' = "loop" /\ ret' = AVERROR_EAGAIN
    /\ UNCHANGED <<context, file, timed, history, at, clock, source, frame, codec,
                   reason>>

\* It is full: the SDK fails, finds nothing or finds a watermark, upon which
\* the callback goes on or stops the call.
Block ==
    /\ rpc = "feed" /\ file = fg /\ FrameReady /\ awt_size # 0
    /\ Len(held) >= HeldBack
    /\ BlockFull
    /\ held' = Tail(Queue)
    /\ nb_buffer' = 0
    /\ \/ nb_decoder # 0 /\ Leave(AWT5_ERROR, "error") /\ UNCHANGED reports
       \/ rpc' = "loop" /\ ret' = AVERROR_EAGAIN /\ Stay("none") /\ UNCHANGED reports
       \/ /\ nb_decoder # 0
          /\ Report
          /\ \/ rpc' = "loop" /\ ret' = AVERROR_EAGAIN /\ Stay("none")
             \/ Leave(AVERROR_EOF, "found")
    /\ UNCHANGED <<context, file, timed, runs, played, granted, rejected, lost,
                   initFailed, setupFailed, clock, source, frame, codec>>

-----------------------------------------------------------------------------
Tick ==
    /\ rpc # "idle" /\ elapsed < ClockEnd
    /\ elapsed' = elapsed + 1
    /\ UNCHANGED <<runVars, wake, at, source, frame, codec, sink, reason>>

LoopStep ==
    \/ Around \/ Finish
    \/ LoopTop \/ Poll \/ NoData
    \/ \E content \in Contents, gap \in Gaps :
          TakeUntimed(content, gap) \/ TakeTimed(content, gap)
    \/ Awake \/ Send \/ Receive
    \/ Refused \/ Kept \/ FilterWrong \/ Collect \/ Block

LoopNext ==
    \/ Enter \/ LoopStep \/ Tick
    \/ RequestStop /\ UNCHANGED loopVars
    \/ RunDone /\ UNCHANGED loopVars

LoopSpec == LoopInit /\ [][LoopNext]_allVars

\* The call's statements are executed and time passes.  Nothing is assumed of
\* the source: a read may repeat its attempts for ever.
FairLoopSpec == LoopSpec /\ WF_allVars(LoopStep) /\ WF_allVars(Tick)

-----------------------------------------------------------------------------
\* Types; the block that is being collected is never full between two frames,
\* and the graph never holds more than the resampler's share.
LoopTypeOK ==
    /\ at \in {"none", "poll", "transfer", "sleep", "send", "receive"}
    /\ elapsed \in 0 .. ClockEnd /\ wake \in 0 .. ClockEnd
    /\ next \in Nat /\ start_pts \in Nat
    /\ stamped \in BOOLEAN /\ several \in BOOLEAN /\ truncated \in BOOLEAN
    /\ nb_buffer \in 0 .. BlockSize - 1
    /\ Len(held) <= HoldsBack

\* No packet reaches the decoder before the wall clock has caught up with its
\* position, unless usleep got a number beyond its range and returned early.
Paced ==
    rpc = "decode" /\ at \in {"send", "receive"} /\ stamped
      => elapsed >= current_duration \div Speed \/ truncated

\* The code takes one frame out of the decoder for every packet, because the
\* EAGAIN of the sink ends the loop around avcodec_receive_frame.  As long as no
\* packet of the call held more than one frame, the decoder is empty all the
\* same whenever the next packet is read.
DecoderEmptied == rpc = "read" /\ ~several => codec = FreshDecoder

\* What is reported with a watermark is the position of the frame at hand: the
\* decoder does not lag behind the packet, and nothing is left in it from an
\* earlier file.
PositionOfFrame ==
    rpc = "feed" /\ stamped /\ ~several
      => frame = <<runs, start_pts + current_duration>>

\* However far the decoder lags behind, because packets hold several frames or
\* none: what the filter gets is a frame of this call's file, and not one of a
\* packet that has not been read, so that the position reported with a watermark
\* never lies before the audio that carries it.
FrameNotAhead ==
    rpc = "feed" => /\ frame[1] = runs
                    /\ stamped => frame[2] <= start_pts + current_duration

\* A call that returns success has played the file to its end or to where there
\* was nothing to read, reached the limit, or was stopped from outside; the only
\* other case is a decoder that took no more packets because of several frames
\* in one: then the rest of the file is passed over in silence.
SuccessExplained ==
    rpc = "idle" /\ ret = AWT_CODE_SUCCESS
      => \/ reason \in {"none", "eof", "dry", "limit", "closed", "found"}
         \/ reason = "full" /\ several

\* A block ends with a frame of the file at hand, unless the graph resamples:
\* then the end of one file is reported during the next one.
TailNeedsResampling ==
    [][nb_buffer' # nb_buffer /\ nb_buffer' = 0
          => Head(Queue) = runs \/ fg.rate # sample_rate]_allVars

\* Once running is 0 the call ends, even if the source never answers: a read
\* asks before each attempt, a sleep is over some time.
StopEndsCall ==
    ~running /\ rpc # "idle" ~> rpc \in {"idle", "wait", "spin", "fault"}

\* How many statements the call still has to execute, at most, once running is 0;
\* passing time is none.
CallStatementsLeft ==
    CASE at = "transfer" -> 7
      [] at = "sleep" -> 6
      [] at = "send" -> 5
      [] at = "poll" -> 2
      [] OTHER -> StatementsLeft

\* Once running is 0 every statement of the call brings its end nearer: a read
\* repeats no attempt, and a packet is the last one (avio.c:368, awt.c:519).
StopBoundsCall ==
    [][~running => /\ ~running'
                   /\ rpc # "idle" => \/ Tick
                                      \/ CallStatementsLeft' \in 0 .. CallStatementsLeft - 1]_allVars

\* The loop does what AwtRun allows, so that its properties hold here too.
ImplementsRun == RunSpec
=============================================================================
