----------------------------- MODULE StreamDecoder -----------------------------
(***************************************************************************)
(* The receive path of the UART: uart_ipc_rx_feed                          *)
(* (abios/common/uart_ipc/uart_ipc_rx.c) under uart::StreamDecoder         *)
(* (isml_diag/src/uart/UartProtocol.cpp).  It splits one byte stream into  *)
(* frames delimited by zero bytes and the text lines the boot code prints  *)
(* between them.                                                           *)
(*                                                                         *)
(* A byte is its class and its origin: noise and boot text have origin 0,  *)
(* byte k of frame f carries <<f, k>>.  COBS, CRC and header checks are    *)
(* abstracted to "the buffer is exactly one frame, unaltered" (modules     *)
(* Cobs and UartFrame treat them).  The first byte of an encoded frame is  *)
(* the COBS code 3 or 4, hence never printable.                            *)
(***************************************************************************)
EXTENDS Naturals, Sequences

CONSTANTS
  MaxEncoded,  \* sizeof rx->buf, UART_IPC_MAX_ENCODED = 278 in the code
  FrameLen,    \* bytes of an encoded frame
  Frames,      \* bound of the model: frames sent
  Stale,       \* the frames among 1 .. Frames that carry another session ID
  Noise        \* bound of the model: bytes of noise or boot text sent

ASSUME LengthsAssumption ==
  /\ MaxEncoded \in Nat \ {0} /\ FrameLen \in 1 .. MaxEncoded
  /\ Frames \in Nat /\ Noise \in Nat /\ Stale \subseteq 1 .. Frames

VARIABLES
  rx,         \* rx->state
  buf,        \* the first rx->len bytes of rx->buf
  oversize,   \* dropped_oversize > 0
  text,       \* bytes handed to the text handler
  received,   \* frames handed to the frame handler, in order
  stale,      \* stale_session_frames_
  sending,    \* [frame, next, intact]: the frame on the line; next = 0 is none
  intact,     \* history: frames whose every byte arrived, in order
  noise       \* noise bytes so far

vars == <<rx, buf, oversize, text, received, stale, sending, intact, noise>>

Byte(class, f, k) == [class |-> class, frame |-> f, pos |-> k]

Zero == Byte("zero", 0, 0)

\* Byte k of the encoding of frame f: binary first, then anything but zero.
FrameBytes(f, k) == {Byte(c, f, k) : c \in IF k = 1 THEN {"binary"}
                                            ELSE {"binary", "printable", "newline"}}

NoiseBytes == {Byte(c, 0, 0) : c \in {"binary", "printable", "newline"}}

\* StreamDecoder::printable
Printable(b) == b # <<>> /\ \A i \in DOMAIN b : b[i].class \in {"printable", "newline"}

\* cobs_decode and uart_ipc_decode accept the buffer: it is frame f, whole.
IsFrame(b, f) ==
  Len(b) = FrameLen /\ \A k \in DOMAIN b : b[k].frame = f /\ b[k].pos = k

-----------------------------------------------------------------------------
Init ==
  /\ rx = "HUNT" /\ buf = <<>> /\ oversize = FALSE
  /\ text = {} /\ received = <<>> /\ stale = 0
  /\ sending = [frame |-> 0, next |-> 0, intact |-> TRUE]
  /\ intact = <<>> /\ noise = 0

\* StreamDecoder::decode, called back with a complete buffer.
Decode(b) ==
  IF \E f \in 1 .. Frames : IsFrame(b, f)
    THEN /\ IF b[1].frame \in Stale
              THEN stale' = stale + 1 /\ UNCHANGED received
              ELSE received' = Append(received, b[1].frame) /\ UNCHANGED stale
         /\ UNCHANGED text
    ELSE /\ text' = IF Printable(b) THEN text \cup {b[i] : i \in DOMAIN b} ELSE text
         /\ UNCHANGED <<received, stale>>

\* StreamDecoder::feed of a zero byte: uart_ipc_rx_feed ends the frame.
BugFeedZero ==
  /\ IF buf # <<>> /\ rx # "DISCARD" THEN Decode(buf) ELSE UNCHANGED <<text, received, stale>>
  /\ rx' = IF rx = "DISCARD" THEN "DISCARD" ELSE "HUNT"
  /\ buf' = <<>>
  /\ UNCHANGED oversize

FeedZero ==
  /\ IF buf # <<>> /\ rx # "DISCARD" THEN Decode(buf) ELSE UNCHANGED <<text, received, stale>>
  /\ rx' = "HUNT" /\ buf' = <<>>
  /\ UNCHANGED oversize

Room == Len(buf) < MaxEncoded

\* StreamDecoder::feed of another byte: it is kept while there is room, and a
\* newline that ends a printable buffer makes it a line of text.
BugEndsLine(b, kept) == b.class = "newline"

EndsLine(b, kept) == b.class = "newline" /\ Printable(kept)

FeedByte(b) ==
  LET kept == IF rx = "DISCARD" THEN buf
              ELSE IF Room THEN Append(buf, b) ELSE <<>>
      line == EndsLine(b, kept)
  IN  /\ text' = IF line THEN text \cup {kept[i] : i \in DOMAIN kept} ELSE text
      /\ buf' = IF line THEN <<>> ELSE kept
      /\ rx' = CASE line                       -> "HUNT"
                 [] ~line /\ rx = "DISCARD"    -> "DISCARD"
                 [] ~line /\ rx # "DISCARD"    -> IF Room THEN "COLLECT" ELSE "DISCARD"
      /\ oversize' = (oversize \/ (rx # "DISCARD" /\ ~Room))
      /\ UNCHANGED <<received, stale>>

\* StreamDecoder::flush_partial_text, after a second without input and once
\* more when the worker ends.
Flush ==
  /\ Printable(buf)
  /\ text' = text \cup {buf[i] : i \in DOMAIN buf}
  /\ buf' = <<>> /\ rx' = "HUNT"
  /\ UNCHANGED <<oversize, received, stale, sending, intact, noise>>

-----------------------------------------------------------------------------
(***************************************************************************)
(* The line: uart_ipc_encode puts a zero before and after the encoded      *)
(* bytes.  Bytes of a frame can be lost or altered; noise and boot text    *)
(* come between frames.                                                    *)
(***************************************************************************)

BeginFrame ==
  /\ sending.next = 0 /\ sending.frame < Frames
  /\ sending' = [frame |-> sending.frame + 1, next |-> 1, intact |-> TRUE]
  /\ FeedZero
  /\ UNCHANGED <<intact, noise>>

FrameByte ==
  /\ sending.next \in 1 .. FrameLen
  /\ \E b \in FrameBytes(sending.frame, sending.next) : FeedByte(b)
  /\ sending' = [sending EXCEPT !.next = @ + 1]
  /\ UNCHANGED <<intact, noise>>

DamageByte ==
  /\ sending.next \in 1 .. FrameLen
  /\ sending' = [sending EXCEPT !.next = @ + 1, !.intact = FALSE]
  /\ \/ UNCHANGED <<rx, buf, oversize, text, received, stale>>
     \/ FeedZero
     \/ \E b \in NoiseBytes : FeedByte(b)
  /\ UNCHANGED <<intact, noise>>

EndFrame ==
  /\ sending.next = FrameLen + 1
  /\ FeedZero
  /\ intact' = IF sending.intact THEN Append(intact, sending.frame) ELSE intact
  /\ sending' = [sending EXCEPT !.next = 0]
  /\ UNCHANGED noise

NoiseByte ==
  /\ sending.next = 0 /\ noise < Noise
  /\ \/ FeedZero
     \/ \E b \in NoiseBytes : FeedByte(b)
  /\ noise' = noise + 1
  /\ UNCHANGED <<sending, intact>>

Next == BeginFrame \/ FrameByte \/ DamageByte \/ EndFrame \/ NoiseByte \/ Flush

Spec == Init /\ [][Next]_vars

-----------------------------------------------------------------------------
\* The buffer never outgrows rx->buf, and holds bytes exactly while collecting.
TypeOK ==
  /\ rx \in {"HUNT", "COLLECT", "DISCARD"}
  /\ Len(buf) <= MaxEncoded
  /\ rx = "COLLECT" <=> buf # <<>>
  /\ oversize \in BOOLEAN

\* Whatever noise, text, truncated or oversized input came before, every frame
\* of this session that arrives unaltered is delivered, once and in order, and
\* nothing else is; those of another session are counted, and the buffer is in
\* bounds throughout
\* (UartProtocol.cpp:63-103, uart_ipc_rx.c:38-78).
FramesDelivered ==
  /\ TypeOK
  /\ received = SelectSeq(intact, LAMBDA f : f \notin Stale)
  /\ stale = Len(SelectSeq(intact, LAMBDA f : f \in Stale))

\* Boot text never takes a byte of a frame that arrives unaltered: the comment
\* at UartProtocol.cpp:96-97 ("a wholly printable line is boot text").
TextKeepsFrames ==
  \A b \in text : \A i \in DOMAIN intact : b.frame # intact[i]
=============================================================================
