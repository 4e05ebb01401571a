------------------------------- MODULE AwtRun -------------------------------
(***************************************************************************)
(* One awt_exec call after another on one AWTContext: the body of awt_run  *)
(* in src/src/awt.c with the helpers it calls (awt_open_input,             *)
(* awt_init_filters, awt_setup, awt_license, awt_filter_frame), as seen    *)
(* from the context they leave behind.  At most one run is in progress,    *)
(* because awt_exec holds awt->lock around it (module AwtSession), so the  *)
(* locals of the run are plain variables.                                  *)
(*                                                                         *)
(* What survives from one call to the next is the point of the module:     *)
(* the filter graph, the decoders, the licence text and the durations all  *)
(* stay in the context, whatever the return code of the call was.          *)
(*                                                                         *)
(* Sample data and the preset table are abstracted; the modules AwtBlocks  *)
(* and AwtParams look into them.  The packet loop is an outline here; the  *)
(* module AwtLoop refines it.                                              *)
(***************************************************************************)
EXTENDS Integers, FiniteSets

CONSTANTS
    Formats,        \* audio formats a file can have: records [ch, rate]
    NoFormat,       \* awt->fg == NULL
    RequestedRate,  \* sample_rate given to awt_open; < 1: take the file's
    BlockSize,      \* buffer size the SDK reports for a decoder
    Positions,      \* stream positions a packet can have (media time)
    Limit,          \* awt->second, in the unit of Positions
    LicenseReplies, \* what the licence server and the SDK can answer
    MaxRuns,        \* bound: number of awt_exec calls
    MaxReports      \* bound: callback invocations counted

Replies == {"unreachable", "silent", "garbled", "expired", "short", "valid"}

ASSUME RunConstants ==
    /\ \A f \in Formats : f.ch \in Nat \ {0} /\ f.rate \in Nat \ {0}
    /\ NoFormat \notin Formats
    /\ RequestedRate \in Int
    /\ BlockSize \in Nat \ {0}
    /\ Positions \subseteq Nat /\ 0 \in Positions
    /\ Limit \in Nat \ {0}
    /\ LicenseReplies \subseteq Replies
    /\ MaxRuns \in Nat /\ MaxReports \in Nat

(***************************************************************************)
(* Return codes: awt.h, libavutil's AVERROR values, and one positive code  *)
(* standing for all those of the SDK ("0 on success, >0 on error").        *)
(***************************************************************************)
AWT_CODE_SUCCESS       == 0
AWT_CODE_OPEN_ERROR    == -1
AWT_CODE_SETUP_ERROR   == -2
AWT_CODE_PROCESS_ERROR == -3
AVERROR_EAGAIN         == -11
AVERROR_EINVAL         == -22
AVERROR_EOF            == -541478725
AVERROR_EXIT           == -1414092869
AWT5_ERROR             == 72

ResultCodes == {AWT_CODE_SUCCESS, AWT_CODE_OPEN_ERROR, AWT_CODE_SETUP_ERROR,
                AWT_CODE_PROCESS_ERROR}

AWT_MAX_DECODER == 2
Decoders == 0 .. AWT_MAX_DECODER - 1

VARIABLES
    \* --- AWTContext, kept between calls
    running,            \* awt->running
    fg,                 \* format the filter graph was built for, or NoFormat
    sample_rate,        \* awt->sample_rate
    nb_decoder,         \* awt->nb_decoder
    decoder,            \* indices whose awt->decoder[i] is initialised
    buffer,             \* indices whose awt->buffer[i] is allocated
    awt_size,           \* awt->awt_size
    license,            \* awt->license points to a buffer
    current_duration,   \* awt->current_duration
    pre_duration,       \* awt->pre_duration
    \* --- locals of the run in progress
    rpc,                \* where the run is
    file,               \* format of the opened file
    timed,              \* start_pts has been set
    ret                 \* ret, then the result of the call
    
context == <<running, fg, sample_rate, nb_decoder, decoder, buffer, awt_size,
             license, current_duration, pre_duration>>
locals  == <<rpc, file, timed, ret>>

VARIABLES
    \* --- history: not in the program, read by properties only
    runs,        \* awt_exec calls started so far
    reports,     \* callback invocations, counted up to MaxReports
    played,      \* sum over finished calls of the position each one reached
    granted,     \* last licence reply that awt_license let through
    rejected,    \* licence buffers whose reply awt_license turned down
    lost,        \* licence buffers overwritten while still allocated
    initFailed,  \* awt5_decode_stream_init has failed
    setupFailed  \* some call has returned AWT_CODE_SETUP_ERROR

history == <<runs, reports, played, granted, rejected, lost, initFailed, setupFailed>>
runVars == <<context, locals, history>>

RunPCs == {"idle", "open", "filters", "setup", "decoders", "loop", "read",
           "decode", "feed", "out", "end", "wait", "spin", "fault"}

\* The packet loop of awt_run, from its condition to awt_filter_frame.
InLoop == rpc \in {"loop", "read", "decode", "feed", "spin", "fault"}

-----------------------------------------------------------------------------
\* awt_open_internal: av_mallocz zeroes the context, then running = 1.
RunInit ==
    /\ running = TRUE
    /\ fg = NoFormat
    /\ sample_rate = RequestedRate
    /\ nb_decoder = 0 /\ decoder = {} /\ buffer = {} /\ awt_size = 0
    /\ license = FALSE
    /\ current_duration = 0 /\ pre_duration = 0
    /\ rpc = "idle" /\ file = NoFormat /\ timed = FALSE
    /\ ret = AWT_CODE_SUCCESS
    /\ runs = 0 /\ reports = 0 /\ played = 0
    /\ granted = "none" /\ rejected = 0 /\ lost = 0
    /\ initFailed = FALSE /\ setupFailed = FALSE

\* goto end with one of the AWT_CODE_ values.
GotoEnd(code) ==
    /\ rpc' = "end"
    /\ ret' = code
    /\ setupFailed' = (setupFailed \/ code = AWT_CODE_SETUP_ERROR)

\* goto out with a library code.
GotoOut(code) ==
    /\ rpc' = "out"
    /\ ret' = code

\* Entry of awt_run: packet and frames are allocated, or one of them is not.
RunStart ==
    /\ rpc = "idle"
    /\ runs < MaxRuns
    /\ runs' = runs + 1
    /\ timed' = FALSE
    /\ \/ /\ rpc' = "open"
          /\ ret' = AWT_CODE_SUCCESS
          /\ UNCHANGED setupFailed
       \/ GotoEnd(AWT_CODE_SETUP_ERROR)
    /\ UNCHANGED <<context, file, reports, played, granted, rejected, lost, initFailed>>

\* if(awt->sample_rate < 1): the first file that opens decides.
RateOfLatest(f) == f.rate
RateFor(f)      == IF sample_rate < 1 THEN f.rate ELSE sample_rate

\* awt_open_input, and the default of sample_rate that follows it.  Once
\* running is 0 the probe of the file is interrupted before its first byte.
OpenInput ==
    /\ rpc = "open"
    /\ \/ \E f \in Formats :
            /\ running
            /\ file' = f
            /\ sample_rate' = RateFor(f)
            /\ rpc' = "filters"
            /\ UNCHANGED <<ret, setupFailed>>
       \/ /\ GotoEnd(AWT_CODE_OPEN_ERROR)
          /\ UNCHANGED <<file, sample_rate>>
    /\ UNCHANGED <<running, fg, nb_decoder, decoder, buffer, awt_size, license,
                   current_duration, pre_duration, timed, runs, reports,
                   played, granted, rejected, lost, initFailed>>

\* if(!awt->fg && (ret = awt_init_filters(...))): built once per context.
GraphOfLatest(f) == f
GraphFor(f)      == IF fg = NoFormat THEN f ELSE fg

InitFilters ==
    /\ rpc = "filters"
    /\ \/ /\ rpc' = "setup"
          /\ fg' = GraphFor(file)
          /\ UNCHANGED <<ret, setupFailed>>
       \/ /\ fg = NoFormat
          /\ GotoEnd(AWT_CODE_SETUP_ERROR)
          /\ UNCHANGED fg
    /\ UNCHANGED <<running, sample_rate, nb_decoder, decoder, buffer, awt_size,
                   license, current_duration, pre_duration, file, timed, runs,
                   reports, played, granted, rejected, lost, initFailed>>

\* if(!awt->nb_decoder && ...): a context that has decoders keeps them.
SetupEveryTime == TRUE
SetupNeeded    == nb_decoder = 0

SetupSkipped ==
    /\ rpc = "setup"
    /\ ~SetupNeeded
    /\ rpc' = "loop"
    /\ UNCHANGED <<context, file, timed, ret, history>>

(***************************************************************************)
(* awt_setup up to the licence: awt_license overwrites awt->license with   *)
(* a new buffer, fills it from the server and asks the SDK about it.  It   *)
(* returns the SDK's code, which is 0 for a licence that is merely too     *)
(* short and positive for one that is refused; awt_run takes only a        *)
(* negative result of awt_setup for a failure.                             *)
(***************************************************************************)
DecoderPerChannel(channels) == channels
NbDecoders(channels) == IF channels < AWT_MAX_DECODER THEN channels
                                                      ELSE AWT_MAX_DECODER

LicenseUnreachable ==
    /\ rpc = "setup"
    /\ SetupNeeded
    /\ "unreachable" \in LicenseReplies
    /\ GotoEnd(AWT_CODE_SETUP_ERROR)
    /\ UNCHANGED <<context, file, timed, runs, reports, played, granted,
                   rejected, lost, initFailed>>

\* avio_open is given no interrupt callback and no timeout: it waits as long
\* as the server says nothing, whatever becomes of running.
LicenseSilent ==
    /\ rpc = "setup"
    /\ SetupNeeded
    /\ "silent" \in LicenseReplies
    /\ rpc' = "wait"
    /\ UNCHANGED <<context, file, timed, ret, history>>

LicenseReply(reply) ==
    /\ rpc = "setup"
    /\ SetupNeeded
    /\ reply \notin {"unreachable", "silent"}
    /\ license' = TRUE
    /\ lost' = IF license THEN lost + 1 ELSE lost
    /\ \/ /\ reply = "garbled"
          /\ GotoEnd(AWT_CODE_SETUP_ERROR)
          /\ rejected' = rejected + 1
          /\ UNCHANGED <<nb_decoder, granted>>
       \/ /\ reply = "expired"
          /\ rpc' = "loop"
          /\ ret' = AWT5_ERROR
          /\ rejected' = rejected + 1
          /\ UNCHANGED <<nb_decoder, granted, setupFailed>>
       \/ /\ reply \in {"short", "valid"}
          /\ rpc' = "decoders"
          /\ ret' = 0
          /\ granted' = reply
          /\ nb_decoder' = NbDecoders(file.ch)
          /\ UNCHANGED <<rejected, setupFailed>>
    /\ UNCHANGED <<running, fg, sample_rate, decoder, buffer, awt_size,
                   current_duration, pre_duration, file, timed, runs, reports,
                   played, initFailed>>

\* awt5_decode_stream_init and malloc succeed for decoder i.
DecoderReadySizeLost(i) ==
    /\ decoder' = decoder \cup {i}
    /\ buffer' = buffer \cup {i}
    /\ awt_size' = awt_size
DecoderReady(i) ==
    /\ decoder' = decoder \cup {i}
    /\ buffer' = buffer \cup {i}
    /\ awt_size' = BlockSize

\* One turn of awt_setup's loop over the decoders; i is the first index left.
InitDecoder ==
    /\ rpc = "decoders"
    /\ LET i == Cardinality(decoder) IN
       \/ /\ DecoderReady(i)
          /\ rpc' = IF i + 1 = nb_decoder THEN "loop" ELSE "decoders"
          /\ UNCHANGED <<ret, initFailed, setupFailed>>
       \/ /\ GotoEnd(AWT_CODE_SETUP_ERROR)
          /\ initFailed' = TRUE
          /\ UNCHANGED <<decoder, buffer, awt_size>>
    /\ UNCHANGED <<running, fg, sample_rate, nb_decoder, license,
                   current_duration, pre_duration, file, timed, runs, reports,
                   played, granted, rejected, lost>>

-----------------------------------------------------------------------------
\* while (awt->running)
LoopHeadUnaware ==
    /\ rpc = "loop"
    /\ rpc' = "read"
    /\ UNCHANGED <<context, file, timed, ret, history>>

LoopHead ==
    /\ rpc = "loop"
    /\ rpc' = IF running THEN "read" ELSE "out"
    /\ UNCHANGED <<context, file, timed, ret, history>>

\* av_read_frame fails: end of file, nothing to read yet, an I/O error, or
\* awt_interupt has told the protocol layer that running is 0.
ReadFails ==
    /\ rpc = "read"
    /\ \E code \in {AVERROR_EOF, AVERROR_EAGAIN, AVERROR_EINVAL, AVERROR_EXIT} :
          /\ code = AVERROR_EXIT => ~running
          /\ GotoOut(code)
    /\ UNCHANGED <<context, file, timed, history>>

\* A packet of another stream is dropped.
ReadOther ==
    /\ rpc = "read"
    /\ rpc' = "loop"
    /\ ret' = 0
    /\ UNCHANGED <<context, file, timed, history>>

\* A packet of the audio stream without a timestamp.
ReadUntimed ==
    /\ rpc = "read"
    /\ rpc' = "decode"
    /\ ret' = 0
    /\ UNCHANGED <<context, file, timed, history>>

\* A packet with a timestamp: the position counts from the first one, and
\* the limit on what is processed is tested before the packet is decoded.
ReadTimed(position) ==
    /\ rpc = "read"
    /\ timed' = TRUE
    /\ current_duration' = IF timed THEN position ELSE 0
    /\ rpc' = IF current_duration' + pre_duration >= Limit THEN "out"
                                                           ELSE "decode"
    /\ ret' = 0
    /\ UNCHANGED <<running, fg, sample_rate, nb_decoder, decoder, buffer,
                   awt_size, license, pre_duration, file, history>>

\* avcodec_send_packet and avcodec_receive_frame: an error, a full decoder,
\* no frame for this packet, or a frame.
Decode ==
    /\ rpc = "decode"
    /\ \/ \E code \in {AVERROR_EINVAL, AVERROR_EAGAIN} : GotoOut(code)
       \/ rpc' = "loop" /\ ret' = AVERROR_EAGAIN
       \/ rpc' = "feed" /\ ret' = 0
    /\ UNCHANGED <<context, file, timed, history>>

\* av_buffersrc_add_frame_flags checks the frame against the graph, which
\* was built for the first file whose filters could be set up.
FeedRejected ==
    /\ rpc = "feed"
    /\ file # fg
    /\ GotoOut(AVERROR_EINVAL)
    /\ UNCHANGED <<context, file, timed, history>>

\* The graph takes the frame and has no frame to give, or fails.
FeedNoOutput ==
    /\ rpc = "feed"
    /\ file = fg
    /\ \/ rpc' = "loop" /\ ret' = AVERROR_EAGAIN
       \/ GotoOut(AVERROR_EINVAL)
    /\ UNCHANGED <<context, file, timed, history>>

\* awt->counter++ and the call of the callback.
Report == reports' = IF reports < MaxReports THEN reports + 1 ELSE reports

\* What awt_filter_frame takes for granted about every channel it scans.
FrameReady == \A i \in 0 .. nb_decoder - 1 :
                 i \in decoder /\ i \in buffer /\ i < fg.ch

\* awt_filter_frame on the frames the graph gives back.  With awt_size = 0 its
\* loop makes no progress; on a channel that is not there it copies through a
\* null pointer or uses an uninitialised decoder.  Otherwise the samples are
\* only collected, or a block is decoded: an SDK error, nothing found, or a
\* watermark reported to the callback, which may ask to stop.
FilterFrame ==
    /\ rpc = "feed"
    /\ file = fg
    /\ \/ ~FrameReady /\ rpc' = "fault" /\ UNCHANGED <<ret, reports>>
       \/ FrameReady /\ awt_size = 0 /\ rpc' = "spin" /\ UNCHANGED <<ret, reports>>
       \/ /\ FrameReady
          /\ awt_size # 0
          /\ \/ rpc' = "loop" /\ ret' = AVERROR_EAGAIN /\ UNCHANGED reports
             \/ nb_decoder # 0 /\ GotoOut(AWT5_ERROR) /\ UNCHANGED reports
             \/ /\ nb_decoder # 0
                /\ Report
                /\ \/ rpc' = "loop" /\ ret' = AVERROR_EAGAIN
                   \/ GotoOut(AVERROR_EOF)
    /\ UNCHANGED <<context, file, timed, runs, played, granted, rejected,
                   lost, initFailed, setupFailed>>

\* out: what a library code becomes.
ResultPassedOn(code) == IF code \in {AVERROR_EAGAIN, AVERROR_EOF}
                        THEN AWT_CODE_SUCCESS ELSE code
ResultNegative(code) == IF code >= 0 \/ code \in {AVERROR_EAGAIN, AVERROR_EOF}
                        THEN AWT_CODE_SUCCESS ELSE AWT_CODE_PROCESS_ERROR
ResultOf(code)       == IF code \in {0, AVERROR_EAGAIN, AVERROR_EOF}
                        THEN AWT_CODE_SUCCESS ELSE AWT_CODE_PROCESS_ERROR

\* awt->pre_duration += awt->current_duration
DurationOfLatest == current_duration
DurationSoFar    == pre_duration + current_duration

\* out: and end:, with what awt_exec returns left in ret.
RunEnd ==
    /\ rpc \in {"out", "end"}
    /\ rpc' = "idle"
    /\ ret' = IF rpc = "end" THEN ret ELSE ResultOf(ret)
    /\ pre_duration' = DurationSoFar
    /\ played' = IF timed THEN played + current_duration ELSE played
    /\ UNCHANGED <<running, fg, sample_rate, nb_decoder, decoder, buffer,
                   awt_size, license, current_duration, file, timed, runs,
                   reports, granted, rejected, lost, initFailed, setupFailed>>

\* The statements of awt_run after its entry; one of them is enabled
\* whenever a run is in progress and has not gone wrong.
RunStep ==
    \/ OpenInput \/ InitFilters
    \/ SetupSkipped \/ LicenseUnreachable \/ LicenseSilent
    \/ \E reply \in LicenseReplies : LicenseReply(reply)
    \/ InitDecoder
    \/ LoopHead \/ ReadFails \/ ReadOther \/ ReadUntimed
    \/ \E position \in Positions : ReadTimed(position)
    \/ Decode \/ FeedRejected \/ FeedNoOutput \/ FilterFrame
    \/ RunEnd

\* awt_close's first assignment, made by another thread without the lock.
RequestStop ==
    /\ running' = FALSE
    /\ UNCHANGED <<fg, sample_rate, nb_decoder, decoder, buffer, awt_size,
                   license, current_duration, pre_duration, locals, history>>

\* The body of awt_close under the lock: kill the decoders, free the buffers,
\* the licence and the graph.  awt_size, the pointers in decoder[] and the
\* durations keep their values; decoder and buffer name live objects only.
KeepGraph == fg' = fg
FreeGraph == fg' = NoFormat

TeardownKeepsCount ==
    /\ nb_decoder' = nb_decoder
    /\ decoder' = decoder \ (0 .. nb_decoder - 1)
    /\ buffer' = buffer \ (0 .. nb_decoder - 1)
    /\ license' = FALSE
    /\ FreeGraph
    /\ UNCHANGED <<running, sample_rate, awt_size, current_duration,
                   pre_duration, locals, history>>

Teardown ==
    /\ nb_decoder' = 0
    /\ decoder' = decoder \ (0 .. nb_decoder - 1)
    /\ buffer' = buffer \ (0 .. nb_decoder - 1)
    /\ license' = FALSE
    /\ FreeGraph
    /\ UNCHANGED <<running, sample_rate, awt_size, current_duration,
                   pre_duration, locals, history>>

\* Nothing left to do within the bounds, or a run that cannot go on.
RunDone ==
    /\ \/ rpc = "idle" /\ runs = MaxRuns
       \/ rpc \in {"wait", "spin", "fault"}
    /\ UNCHANGED runVars

RunNext == RunStart \/ RunStep \/ RequestStop \/ RunDone

RunSpec == RunInit /\ [][RunNext]_runVars

\* Every library call of a run returns, because reads poll awt_interupt, but
\* for one that waits for the licence server.
FairRunSpec == RunSpec /\ WF_runVars(RunStep)

-----------------------------------------------------------------------------
\* The state stays in its types; what a call returns is one of the four codes
\* of awt.h, whichever library the failure came from.
TypeOfFlags ==
    /\ running \in BOOLEAN /\ license \in BOOLEAN /\ timed \in BOOLEAN
    /\ initFailed \in BOOLEAN /\ setupFailed \in BOOLEAN
TypeOfFiles ==
    /\ fg \in Formats \cup {NoFormat} /\ file \in Formats \cup {NoFormat}
    /\ sample_rate \in Int
TypeOfDecoders ==
    /\ nb_decoder \in 0 .. AWT_MAX_DECODER
    /\ decoder \subseteq Decoders /\ buffer \subseteq Decoders
    /\ awt_size \in {0, BlockSize}
TypeOfCounters ==
    /\ current_duration \in Nat /\ pre_duration \in Nat /\ played \in Nat
    /\ runs \in 0 .. MaxRuns /\ reports \in 0 .. MaxReports
    /\ rejected \in Nat /\ lost \in Nat
TypeOfResult ==
    /\ rpc \in RunPCs /\ ret \in Int
    /\ rpc \in {"idle", "end"} => ret \in ResultCodes
    /\ granted \in {"none", "short", "valid"}

RunTypeOK ==
    /\ TypeOfFlags /\ TypeOfFiles /\ TypeOfDecoders /\ TypeOfCounters
    /\ TypeOfResult

\* awt_filter_frame meets a missing decoder, buffer or channel only on a context
\* on which an earlier call failed in awt_setup: it returned
\* AWT_CODE_SETUP_ERROR, or the licence was refused and the code passed over.
\* A context whose set-up went well the first time is safe for any later file.
FaultNeedsFailedSetup == rpc = "fault" => setupFailed \/ rejected > 0

\* awt_filter_frame loses its progress only when the licence was refused and
\* awt_run took the SDK's positive code for success.
SpinNeedsRefusedLicense == rpc = "spin" => nb_decoder = 0 /\ rejected > 0

\* Every licence buffer whose reply was turned down is either still held by the
\* context or lost for good by the malloc of the next attempt (awt.c:85).
LicenseBuffersAccounted ==
    rejected = lost + (IF license /\ nb_decoder = 0 THEN 1 ELSE 0)

\* Whatever calls came before, failed ones included, no packet with a timestamp
\* is decoded once the audio already played reaches the limit of awt_open.
LimitNeverExceeded ==
    rpc \in {"decode", "feed"} /\ timed => played + current_duration < Limit

\* The rate a graph or a decoder was built with never changes under it: later
\* files are resampled to the rate fixed by the first one.
RateFixedOnceUsed ==
    [][fg # NoFormat \/ nb_decoder # 0 => sample_rate' = sample_rate]_runVars

\* Once running is 0 the run in progress ends, unless it waits for the licence
\* server, the frame loop spins on an unlicensed context or a fault has stopped
\* the program.
StopEndsRun ==
    ~running /\ rpc # "idle" ~> rpc \in {"idle", "wait", "spin", "fault"}

\* How many statements a run still has to execute, at most, once running is 0.
StatementsLeft ==
    CASE rpc = "filters" -> 6
      [] rpc = "setup" -> 5
      [] rpc = "decoders" -> 2 + nb_decoder - Cardinality(decoder)
      [] rpc = "read" -> 5
      [] rpc = "decode" -> 4
      [] rpc = "feed" -> 3
      [] rpc \in {"open", "loop"} -> 2
      [] rpc \in {"out", "end"} -> 1
      [] OTHER -> 0

\* Once running is 0 it stays so, and every statement of the run in progress
\* brings its end nearer: at most six more are executed, whatever packets,
\* replies and errors they meet (awt.c:519, the flag awt_close sets).
StopBoundsRun ==
    [][~running => /\ ~running'
                   /\ rpc # "idle" => StatementsLeft' \in 0 .. StatementsLeft - 1]_runVars

\* What the SDK asks for (awt5_sdk.h: "AWT5 decoder object must be initialized
\* prior to this call"), said of every decoder awt_filter_frame will use.
DecodersInitialised ==
    rpc = "feed" /\ file = fg => \A i \in 0 .. nb_decoder - 1 : i \in decoder

\* Each decoder has a channel of the filtered frame to read.
ChannelsPresent == rpc = "feed" /\ file = fg => nb_decoder <= fg.ch

\* "whether the license is valid" (awt.c:100): the packet loop is entered only
\* under a licence that covers AWT_DURATION.
LoopLicensed == InLoop => granted = "valid"

\* awt.h: second limits the duration processed, so a call stops for it only
\* when the audio played so far amounts to it.
LimitNotEarly ==
    [][rpc = "read" /\ rpc' = "out" /\ ret' = 0
          => played + current_duration' >= Limit]_runVars
=============================================================================
