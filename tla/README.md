# A verification of awt, the audio watermark reader

`src/src/awt.c` is a small C library (`awt.h`: `awt_open`, `awt_open2`,
`awt_exec`, `awt_close`) that opens media files with FFmpeg, decodes their audio,
cuts it into blocks and hands every block to a decoder of the AWT5 SDK; watermarks
that are found go to a callback.  `src/src/main.c` and `src/src/main.js` are its
clients.  The rest of the repository, 7600 files, is FFmpeg 5.0 as it was
released and the SDK as a binary.  This directory holds TLA+ models of the
library and of its C client, the TLC runs that check them and the TLAPS proofs
about them.

## The system

| component | state it keeps | operations | interacts with |
|---|---|---|---|
| session | `*awt_ptr`, `lock`, `running` | `awt_exec`, `awt_close` from any thread | the context, which contains the lock; the run |
| run | `fg`, `sample_rate`, `pre_duration`, `current_duration`, locals of `awt_run` | `awt_run`, `awt_open_input`, `awt_init_filters`, `awt_interupt` | FFmpeg by calls; `running`, which another thread clears |
| licence and set-up | `license`, `nb_decoder`, `decoder[]`, `buffer[]`, `awt_size` | `awt_license`, `awt_setup` | licence server by HTTP, SDK by calls |
| parameters | `preset`, `payload_length`, `second`, carrier parameters | `awt_open`, `awt_open2`, first half of `awt_setup` | the SDK, which gets them |
| frame blocks | `nb_buffer`, contents of `buffer[]` | `awt_filter_frame` | SDK decoders, callback |
| packet loop | packet, frame, the codec's queue | the loop of `awt_run` | libavformat, libavcodec, libavfilter |
| main.c | `counter`, `i` | `main`, `test_thread`, `callback` | the session, from two threads |

A client opens a handle and calls `awt_exec` once per file, on the same handle.
`awt_exec` holds `awt->lock` for the whole call.  `awt_close` clears `running`
without the lock, so that the run in progress leaves its loop, then takes the
lock, tears the context down, releases the lock and frees the context.  The
context outlives the calls: graph, decoders and licence are made by the first
call that needs them and used by all later ones, whatever the earlier ones
returned.

What is hard here, and what the properties are for:

* **the lock inside the object it protects**: who may still touch the context
  when `awt_close` frees it, and what a client must do to be safe;
* **reuse after failure**: a call may fail after the graph, after the licence,
  between the two decoders; the next one finds what was left;
* **error codes of three kinds** (AWT codes, negative FFmpeg codes, positive SDK
  codes) that are tested with `if(ret)` in one place and `< 0` in another;
* **termination**: a run must notice `running = 0` wherever it is, or the close
  waits for ever;
* **accounting over calls**: the limit on the duration, the samples of a block
  that is begun in one frame or file and completed in another, the channels'
  decoders in step;
* **numeric edges**: the limit in microseconds, the clamps and the two switches
  over presets, the copy lengths.

The list of these places, line by line, is `hazards` in `PROJECT.json`.

## Modules

| module | what it is | code |
|---|---|---|
| `AwtRun` | one context, calls one after another | awt.c 53-110, 218-252, 255-464, 536-668 |
| `AwtSession` | extends `AwtRun`: threads, lock, handle, memory | awt.c 515-538, 669-678 |
| `AwtHandle` | what a client may rely on | awt.h |
| `AwtLoop` | refines `AwtRun`: the packet loop statement by statement | awt.c 536-551, 585-668, avio.c, network.c, af_aresample.c, buffersink.c |
| `AvDecoder` | what libavcodec keeps between send and receive | libavcodec/decode.c |
| `AwtMain` | extends `AwtSession`: the two threads of the client | main.c |
| `AwtParams` | arguments, clamps, presets, limit | awt.c 111-216, 465-514 |
| `AwtBlocks` | frames cut into blocks | awt.c 255-293 |
| `AwtStream` | what a decoder of the SDK is promised | abstract specification of `AwtBlocks` |
| `MCAwt...` | constants of the small instances | |
| `Awt...Proofs` | theorems and proofs | |

### AwtRun

The first block of variables is the part of `AWTContext` that survives a call,
under the names of the struct (`decoder` and `buffer` are the sets of indices
that are initialised, `license` says whether the pointer is set, `fg` is the
format the graph was built for).  The second block is the locals of `awt_run`,
with `rpc` for the place in it; the third is history that only properties read.
There is one action per stage: `RunStart`, `OpenInput`, `InitFilters`,
`SetupSkipped`/`LicenseUnreachable`/`LicenseSilent`/`LicenseReply`, `InitDecoder` (one decoder
per step), `LoopHead`, `ReadFails`/`ReadOther`/`ReadUntimed`/`ReadTimed`,
`Decode`, `FeedRejected`/`FeedNoOutput`/`FilterFrame`, `RunEnd`.  Their results
are the return codes of the code, with one positive number for those of the SDK;
`GotoEnd` and `GotoOut` are the two labels.  `RequestStop` is the assignment in
`awt_close`, `Teardown` its locked part.

Two facts of FFmpeg are in the guards.  A file cannot be opened once `running`
is 0, because every read of the probe asks `awt_interupt` first
(`libavformat/avio.c`, `retry_transfer_wrapper`).  The buffer source rejects a
frame whose format is not that of the graph (`libavfilter/buffersrc.c`,
`CHECK_AUDIO_PARAM_CHANGE`).  Where the code then does something C leaves
undefined or never ends, the run stops at `fault` or `spin`, and the properties
say when that can happen.  A licence server that accepts the connection and says
nothing leaves the run at `wait`: `avio_open` is called without an interrupt
callback there.

### AwtLoop, AvDecoder

`AwtLoop` extends `AwtRun` by what it leaves open inside the loop.  `at` is the
place between two of `AwtRun`'s: `poll` and `transfer` are the two halves of
`retry_transfer_wrapper` (and of the socket wait below it), `sleep` is `usleep`,
`send` and `receive` are the calls of the decoder.  `Around` and `Finish` are the
stages before and after the loop, with the actions of `AwtRun`; packet, frame,
decoder and clock do not survive the call, because they are locals of `awt_run`.  `TakeUntimed` and `TakeTimed` are lines 589-604: position,
limit, pace.  The clock is `elapsed`, `av_gettime() - start_time`; it advances by
`Tick` at any moment, and a sleep ends at `wake`, whose length is the argument
modulo `SleepRange`, as `usleep` takes an `unsigned`.  `Kept`, `Collect` and
`Block` are a frame that the graph holds back, one that goes into the block, and
one that completes it.

`AvDecoder` is the part of `AVCodecInternal` that decides what a call returns:
the packet in the bit stream filter, the packet that is partly decoded, and the
frame decoded ahead by `avcodec_send_packet`.  `awt_run` takes one frame for each
packet, because the EAGAIN of the buffer sink is also what ends the loop around
`avcodec_receive_frame` (line 612).  With the usual packets of one frame this
leaves the decoder empty (`DecoderEmptied`) and the position right
(`PositionOfFrame`); with packets of several frames it does not, the decoder fills
up and the call ends with success in the middle of the file
(`SuccessExplained`).  What holds even then is `FrameNotAhead`: the frame is of this
call's file and of a packet no later than the position that is reported.  The history variables `stamped`, `several`, `truncated`
and `reason` say so in the properties.

A graph that resamples holds the last `HoldsBack` frames and is never flushed;
it is kept for the next file, whose first block then ends with samples of the
file before.  `TailNeedsResampling` says that nothing else causes this.

### AwtSession, AwtHandle

Each access to the handle, the lock and the context is one step: the load and
the test of the handle, the lock, the second load in `awt_run`, the statements
of the run, the unlock; and for `awt_close` the load, the flag, the lock, the
teardown, the unlock, the free and the assignment of NULL.  An access to freed
memory, to the lock of a freed context or through the NULL handle sets
`crashed`, after which nothing happens.  `overlapped` records the misuse that
makes this possible: when the lock is granted to an `awt_close`, another call is
already waiting in `awt_exec` or `awt_close`, or a call loads the handle before
that `awt_close` has cleared it.

`Callback` is a call of `awt_exec` or `awt_close` out of the callback, on the
handle whose run it is: the mutex is not recursive, so the thread waits for
itself at `stuck`, with `running` cleared if the call was `awt_close`.  `Held`
collects the three ways in which the lock is never released: this one, the
endless frame loop and the silent licence server.  `CloseReturns` says that
there is no fourth, and `CloseStopsRuns` why: while a thread waits in `awt_close`,
`running` stays 0 and every step of the run that has the lock brings its end
nearer, or is one of the three.

`KillsOnlyLive` is about the loop over `nb_decoder` in `awt_close`: a closer that
gets there finds as many decoders and buffers as `nb_decoder` says, even if other
closes came before it and whatever set-ups failed and were tried again.  The one
exception is that of `run_retry_setup`: an `awt5_decode_stream_init` that failed
(`initFailed`), after which those from the failed one on are missing.  A licence
that was refused, a graph that could not be built or a frame that could not be
allocated exempts nothing; that is why `session_calls` has a garbled reply.

`AwtHandle` is the contract: runs are serialised, a close takes effect between
two runs, no run begins after it, and a client that overlaps has no promise.
`AwtSession` implements it with the mapping `stateBar`, `userBar`.

### AwtMain

The main thread goes through the files, stops at the first failure, joins the
other thread and closes; `test_thread` polls the counter and closes when there
are two watermarks.  The guards of `AwtSession`'s actions apply unchanged.
Printing is left out, and so is the failure of `pthread_create`, after which
only `return` follows.  `CrashNeedsNextFile` narrows the finding of `main_stop`
down: the call that found the watermarks is waited for, and it is the one `main`
starts for the next file that meets the freed context.

### AwtParams

`IntMax` and `Second` are parameters: with 127 and 10 a product overflows for a
`second` of 13 as it does with 2^31-1 and 1000000 for 2148.  `Wrap` is what the
build does (`cw.sh` compiles without optimisation, so the product is an `imul`);
C leaves it undefined.  The carrier parameters are named by the preset they belong
to (`params`); what matters is that the SDK gets those of the preset, at the first
attempt of `awt_setup` and at later ones, not the frequencies themselves.

### AwtBlocks

A sample is its position in everything the graph has put out.  `AwtStream`, the
abstract specification, offers the decoders one block of consecutive samples after
the other and may skip samples only when a block is abandoned; the mapping
(`NextSample`, `blockBar`) shows that `awt_filter_frame` with its partial copies
across frames does no other.  `Copied` is the
`memcpy` of one channel, `Count` its length.  The decoder loop takes one step
per channel; `StopInBlock` is both exits out of it.

## Runs

| run | instance | checks |
|---|---|---|
| `run_reuse` | 3 calls, a mono and a 3-channel format, all licence replies, 3 stream positions, limit 4 | types and return codes; faults and the endless frame loop have the causes named; licence buffers, limit and rate stay accounted for; after a stop every statement brings the end nearer, and the run ends |
| `session_calls` | 3 threads, 2 runs, calls at will and from the callback, five licence replies | mutual exclusion, the one cause of undefined behaviour, complete teardown, quiet after close, nothing freed under a run, decoders killed once, refinement of `AwtHandle`, a waiting close stops the runs before it and returns unless the lock is held for ever |
| `loop_packets` | 2 calls, files of two rates, packets with 0, 1, 2 frames or a bad one, gaps 0 and 2, limit 3, `SleepRange` 2 | pace, decoder empty between packets, position of the frame, no frame ahead of the reported position, explanation of success, the resampler's tail, a stop bounds and ends the call, refinement of `AwtRun` |
| `main_threads` | 3 files, 2 watermarks wanted | the join orders the closes; what breaks is a call for a further file; the program ends once two are found |
| `param_setup` | presets -2..12, payloads 0..6, seconds -1..14, two set-ups | presets stay valid, come with their own parameters and fit the payload; the limit is exact below the overflow |
| `blocks_cut` | blocks of 3 samples, frames of 0, 1, 2, 3, 5, 7, 16 samples in all, 2 channels | copies in bounds, blocks consecutive, every sample accounted for, channels in step, refinement of `AwtStream` |

Why the bounds are enough.  Three calls allow a first one that leaves something
behind, a second that meets it and a third that meets the result; formats with
fewer and with more channels than decoders cover both sides of `FFMIN(2,
channels)` and of the graph's check.  Three threads are one that runs or closes
and two that wait or overlap with it.  Frame lengths lie below, at and above one
and two blocks.  Positions 0 to 2 with a limit of 4 reach the limit within one
call, across two and across three.  In `loop_packets` two packets of a file reach
every combination of the decoder's three places, a distance of 2 is the first
one that `usleep` truncates, and a second file meets what the graph has kept of
the first; `MaxReports` is 0 there and in `session_calls` because reports only
count.  The clock ends at `ClockEnd`, when every packet is due.

Six runs show where the code differs from what its comments, its header or the
headers it uses say; each is a finding in `PROJECT.json` with the quotation.

| run | what happens |
|---|---|
| `run_refused_license` | a refused licence returns a positive code that `awt_run` does not take for an error; the loop runs without decoders and `awt_filter_frame` never ends, holding the lock.  With the reply `short` alone the same property fails by line 105: a licence that is too short is refused with the return value 0 |
| `run_retry_setup` | `nb_decoder` is set before the decoders; after a failure the next call uses one that was never initialised |
| `run_channels` | a graph kept from a failed call has fewer channels than the decoders made later |
| `run_limit_early` | the previous call's duration is added twice when a call ends early, and the limit bites too soon |
| `main_stop` | `awt_close` frees the context while `awt_exec` of the other thread waits for its lock |
| `param_limit` | `second` from 2148 on overflows |

### Fairness

`FairRunSpec` has weak fairness of the statements of a run: every library call
returns, because libavformat polls `awt_interupt`, with the one exception of the
licence request, which the model has as the place `wait`.  `FairLoopSpec` has it
of the loop's statements and of the clock; a read may repeat its attempts for
ever, so that `StopEndsCall` rests on the poll and not on an assumption about the
source.  `FairSessionSpec` has weak fairness of each thread inside the library:
a scheduler that runs every thread, and a mutex that is taken by a waiting thread
when it stays free.  That the lock does stay free is not assumed of the client
but comes with the bound on calls.  `FairMainSpec` has weak fairness of each of
the two threads of `main.c`.  No other specification has fairness: all else is
safety.

## Proofs

Every invariant of the passing runs, every action property and every refinement is
proved for all values of the constants.  What is left to TLC is liveness
(`StopEndsRun`, `StopEndsCall`, `CloseReturns`, `FoundEnds`): it needs fairness and
ENABLED, which the prover does not treat.  The part of it that is safety, a measure
that every step after a stop decreases, is proved.

* `AwtRunProofs`.  `RunInv` strengthens `RunTypeOK` with what each stage has
  established (`RunInvariant`): how far decoders, buffers and `awt_size` are in
  step with `nb_decoder` at every `rpc`, that only a failed or refused set-up
  leaves them out of step, that the format of a graph agrees with the decoders
  otherwise, that `pre_duration` is never less than what was played.  None of
  the safety properties is inductive without it: a fault in the frame loop is
  explained by a failure two calls earlier.  Two properties have an inductive
  argument of their own on top of it: `RateFixed`, because `RatePositive` must
  hold before the rate can stay, and `LicenseBuffersKept`, which speaks of a
  context that lives (`awt_close` frees the licence buffer).  `StopBounds` is about
  `StatementsLeft`, the number of statements between a place of `awt_run` and its
  end when no loop is entered again: once `running` is 0 it is at most six, no step
  sets `running` again (`StopSticks`) and every step decreases it
  (`StatementsRunOut`).  In the set-up the measure is the number of decoders still
  to be made, which `DecodersCounted` reads off the order in which they are made.
* `AwtSessionProofs`.  `SessionInv` says who owns the lock at each position,
  which positions are possible once a closer has passed the point of safety,
  and what memory and handle are then; it uses `RunInv` for the steps of the
  run.  The refinement of `AwtHandle` follows from it, step by step.
  `CloseWaitsBounded` is `StopBounds` seen by a closer: `FlagCleared`, that a
  thread beyond the first assignment of `awt_close` has `running` at 0, is the
  invariant it needs, and `StepsByContext` sorts the steps of a thread by what they
  do to the run.  `NoDecoderKilledTwice` holds because a closer at the teardown
  has the lock and finds the run idle, where `RunInv` counts the decoders: all of
them, or those in front of the one whose initialisation failed.  `CallsOfThreadsInSequence` and
  `RateFixedForThreads` carry four results about one caller over to any number of
  threads that close and call from the callback.
* `AwtLoopProofs`.  `LoopInv` adds to `RunInv` the places of the loop, what the
  packet in hand is, how far a sleep reaches, the two states a decoder can be in
  while packets have one frame, and the share of the graph.  Its centre is
  `LoopStepsRefine`: every step of the loop is a step of `AwtRun` or a stutter
  (`LoopImplementsRun`), which needs that a first timestamp lies before the next
  position.  From the refinement `RunInv` comes back (`RunPartInv`), and with it
  the theorems of `AwtRunProofs` (`RunPromisesHold`).  `SendOne` and
  `ReceiveOne` are the lemmas about libavcodec, `SleepReaches` the arithmetic of
  the truncated sleep, `HeldBackGrows` that the rates of a graph stay.
  `FrameIsNotAhead` gives up the restriction to packets of one frame.  It rests on
  `DecodedFrom`, `SendFrom` and `ReceiveFrom`, which say that the decoder invents
  nothing: it returns and keeps only numbers of packets it was given.  The
  invariant `Lagging` follows these numbers through a call: the decoder, emptied
  when a call ends, holds none but those of this call, up to the packet in hand.
  `CallStopBounds` is `StopBounds` with the polls of a read, the sleep and the two
  calls of the decoder counted: at most seven statements, with time passing between
  them, however the source behaves.
* `AwtParamsProofs`.  `ParamInv` relates preset, payload and limit to the
  arguments of the call.
* `AwtBlocksProofs`.  `BlockInv` describes the filled part of the buffers while
  a block is collected; `Accounted` and `InStep` extend two properties to the
  places inside the loops where they do not hold as stated.  `StreamRefinement`
  shows that `awt_filter_frame` implements `AwtStream`.
* `AwtMainProofs`.  `MainInv` ties the place of each thread in `main.c` to its
  place in the library: `test_thread` is the only one that closes before the
  join, and once it is gone handle and memory are gone.  It needs nothing of
  `SessionInv`, so it holds even where the session's misuse ends in a crash.
  `MainImplementsSession` makes `main.c` a client of the session for any numbers of
  files and watermarks, and `MainIsServed` lists what it gets from that.
  `OnlyNextFileCrashes` adds `NextFileInv`: nobody but `test_thread` frees the
  context (`FreedByTester`), and during `main`'s first call it cannot have got
  there, because watermarks are reported under the lock that its close then waits
  for (`InFirstCall`).

The assumptions are the named ones of the modules (`RunConstants`,
`LoopConstants`, `SessionConstants`, `MainConstants`, `ParamConstants`,
`BlockConstants`); TLC evaluates them in the runs.

## Not modelled

* FFmpeg beyond `AvDecoder`, the polls of a read and the graph's hold on frames,
  and the SDK: vendored source of 1.5 million lines whose codecs, containers and
  protocols keep no state that awt depends on, and a binary.  The library that is
  verified here, `awt.c` with its header and its client, is about 760 lines,
  nearly all of which have a definition.
* Sample values, the presets' meaning to the SDK, the printing of messages.
* The rescaling of timestamps and the rounding of `current_duration/speed` beyond
  that of `\div`; a stream whose timestamps go back (positions only grow), for
  which `current_duration` would be negative.
* Frames of different lengths in `AwtLoop`: its unit is the frame.  The cut of
  frames into blocks is in `AwtBlocks`, which counts samples.
* Races on plain `int`s beyond the interleaving of loads and stores: the scripts build without
  optimisation, so that every access is a load or a store.
* Replies of the licence server longer than its buffer of 128 bytes: what is then
  overwritten is not a state of this program.
* What the SDK does when `awt5_decode_stream_kill` gets a decoder whose
  initialisation has failed: that is not documented.  `KillsOnlyLive` says that
  it gets no other.
* Memory that runs out where the code does not look: the `malloc` of a decoder's
  buffer (awt.c:250), of the licence's (awt.c:85) and of the context (awt.c:468)
  are taken to succeed.  The code would write through the NULL pointer.  The allocations it does check
  are in the models, as failures of the stage they belong to.
* `main.js`, which is a session with one thread, and `example.c`, which does not
  compile against `awt.h`.

## What remains

A composition of `AwtLoop` and `AwtBlocks` in samples rather than frames would
let `SamplesAccounted` speak of the samples of the files; each holds its half
today, `AwtLoop` which file a frame is of, `AwtBlocks` which sample ends up where.
The six runs with findings turn into passing ones when the code is corrected:
`DecodersInitialised`, `ChannelsPresent`, `LoopLicensed`, `LimitNotEarly`,
`StopIsSafe` and `LimitExact` then become invariants to prove.
