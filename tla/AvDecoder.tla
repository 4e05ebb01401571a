----------------------------- MODULE AvDecoder ------------------------------
(***************************************************************************)
(* avcodec_send_packet and avcodec_receive_frame of the libavcodec that    *)
(* awt is built with (src/ffmpeg, configured by cf.sh): what they do to    *)
(* the packets and the frame a decoder holds.  The decoders of that build  *)
(* for aac, mp3 and PCM have no delay and no frame threads; awt never      *)
(* sends an empty packet, so that nothing is ever drained.                 *)
(*                                                                         *)
(* A packet is a record: frames is the number of frames that can still be  *)
(* decoded from it, bad says that the bytes after them are no frame.  A    *)
(* packet with neither is one whose samples are all skipped.  A frame is   *)
(* the packet it was decoded from.                                         *)
(***************************************************************************)
EXTENDS Integers

CONSTANTS NoPacket, NoFrame

\* AVCodecInternal: bsf->buffer_pkt, in_pkt and buffer_frame.
FreshDecoder == [buffer_pkt |-> NoPacket, in_pkt |-> NoPacket,
                 buffer_frame |-> NoFrame]

EAGAIN      == -11
INVALIDDATA == -22  \* stands for every error of a decoder

\* What is left of a packet when one frame has been decoded from it.
RestKept(p) == [p EXCEPT !.frames = @ - 1]
RestOf(p)   == IF p.frames = 1 /\ ~p.bad THEN NoPacket
               ELSE [p EXCEPT !.frames = @ - 1]

\* The frame that comes out, or NoFrame; the code; the decoder afterwards.
Outcome(code, frame, d) == [code |-> code, frame |-> frame, decoder |-> d]

\* ff_decode_get_packet: only when in_pkt is used up.
NextPacket(d) == IF d.in_pkt # NoPacket THEN d
                 ELSE [d EXCEPT !.in_pkt = d.buffer_pkt, !.buffer_pkt = NoPacket]

\* decode_receive_frame_internal.  A packet whose samples are all skipped can
\* only be one just taken, so that the loop for more input ends with EAGAIN.
Decoded(d) ==
    LET e == [NextPacket(d) EXCEPT !.in_pkt = NoPacket]
        p == NextPacket(d).in_pkt
    IN  IF p = NoPacket THEN Outcome(EAGAIN, NoFrame, d)
        ELSE IF p.frames > 0 THEN Outcome(0, p.id, [e EXCEPT !.in_pkt = RestOf(p)])
        ELSE Outcome(IF p.bad THEN INVALIDDATA ELSE EAGAIN, NoFrame, e)

\* avcodec_send_packet: the bit stream filter takes one packet at a time; the
\* decoder runs at once when it has no frame waiting.
SendPacketAlone(d, p) ==
    Outcome(0, NoFrame, [d EXCEPT !.buffer_pkt = p])
SendPacket(d, p) ==
    LET e == [d EXCEPT !.buffer_pkt = p]
        r == Decoded(e)
    IN  IF d.buffer_pkt # NoPacket THEN Outcome(EAGAIN, NoFrame, d)
        ELSE IF d.buffer_frame # NoFrame THEN Outcome(0, NoFrame, e)
        ELSE IF r.code = INVALIDDATA THEN Outcome(INVALIDDATA, NoFrame, r.decoder)
        ELSE Outcome(0, NoFrame, [r.decoder EXCEPT !.buffer_frame = r.frame])

\* avcodec_receive_frame.
ReceiveFrame(d) ==
    IF d.buffer_frame # NoFrame
    THEN Outcome(0, d.buffer_frame, [d EXCEPT !.buffer_frame = NoFrame])
    ELSE Decoded(d)
=============================================================================
