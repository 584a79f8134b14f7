--------------------------- MODULE MCStreamDecoder ---------------------------
(***************************************************************************)
(* The receive path for TLC, and the codecs it rests on: a behaviour feeds *)
(* the stream, or puts one input to the codecs.                            *)
(***************************************************************************)
EXTENDS StreamDecoder, Cobs, UartFrame

LOCAL INSTANCE SequencesExt

CONSTANTS
  MaxNoise,  \* the longest byte string decoded
  Versions, Types, PayloadLens, SessionIds, RequestIds,  \* header fields
  RawLens    \* lengths of raw frames

VARIABLE probe

Probe(kind, input) == [kind |-> kind, input |-> input]

Headers == [version : Versions, type : Types, payload_len : PayloadLens,
            session_id : SessionIds, request_id : RequestIds]

\* Put one input to the codecs: a raw frame to encode and decode again, any
\* bytes to decode, or a header.
PutProbe ==
  /\ sending.frame = 0 /\ noise = 0
  /\ \/ \E f \in BoundedSeq(0 .. MaxByte, MaxRaw) : probe' = Probe("frame", f)
     \/ \E b \in BoundedSeq(0 .. MaxByte, MaxNoise) : probe' = Probe("bytes", b)
     \/ \E h \in Headers : probe' = Probe("header", h)
  /\ UNCHANGED vars

MCInit == Init /\ probe = Probe("none", <<>>)

MCNext ==
  /\ probe.kind = "none"
  /\ PutProbe \/ (Next /\ UNCHANGED probe)

MCSpec == MCInit /\ [][MCNext]_<<vars, probe>>

-----------------------------------------------------------------------------
\* Decoding an encoded frame gives the frame back, and neither direction
\* reports a problem on the way.  What goes over the wire has no zero byte, so
\* that the delimiters of uart_ipc_encode are the only ones, and fits the bound
\* UART_IPC_MAX_ENCODED is computed with (cobs.c:39-220, uart_ipc_proto.h:27).
\* Whatever bytes it is given, cobs_decode writes at most its buffer.
RoundTrip ==
  /\ probe.kind = "frame" =>
       LET e == cobs_encode(probe.input)
       IN  /\ e.ok /\ Len(e.bytes) <= EncodedMax(Len(probe.input))
           /\ \A i \in DOMAIN e.bytes : e.bytes[i] # 0
           /\ cobs_decode(e.bytes) = [ok |-> TRUE, bytes |-> probe.input]
  /\ probe.kind = "bytes" => Len(cobs_decode(probe.input).bytes) <= MaxRaw

\* The host accepts exactly the logs and responses uart_ipc_encode can
\* produce: a frame of the right length whose header passes every rule of the
\* encoder, although uart_ipc_decode itself does not check request IDs
\* (uart_ipc_proto.c:80-195, UartProtocol.cpp:69-72).
RulesAgree ==
  probe.kind = "header" =>
    \A r \in [len : RawLens, crc : BOOLEAN] :
      HostAccepts(probe.input, r) <=>
        Encodes(probe.input) /\ probe.input.type # CMD /\ r = Encoded(probe.input)
=============================================================================
