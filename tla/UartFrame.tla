------------------------------- MODULE UartFrame -------------------------------
(***************************************************************************)
(* Header rules of the UART protocol: uart_ipc_encode and uart_ipc_decode  *)
(* (abios/common/uart_ipc/uart_ipc_proto.c) and the rules that             *)
(* StreamDecoder::decode adds (isml_diag/src/uart/UartProtocol.cpp:63-76). *)
(* A raw frame is its header, its length and whether the CRC matches.      *)
(***************************************************************************)
EXTENDS Naturals

HdrLen == 16
CrcLen == 4
MaxPayload == 256
CMD == 1
RSP == 2
LOG == 3

PayloadLenMatchesType(t, n) ==
  \/ t = CMD /\ n = 16
  \/ t = RSP /\ n = 8
  \/ t = LOG /\ n \in 8 .. MaxPayload

RawLen(n) == HdrLen + n + CrcLen

\* uart_ipc_encode returns UART_IPC_OK.
Encodes(h) ==
  /\ h.version = 1
  /\ h.type \in {CMD, RSP, LOG}
  /\ PayloadLenMatchesType(h.type, h.payload_len)
  /\ h.session_id # 0
  /\ IF h.type = LOG THEN h.request_id = 0 ELSE h.request_id # 0

\* uart_ipc_decode returns UART_IPC_OK.
Decodes(h, r) ==
  /\ r.len >= HdrLen + CrcLen
  /\ h.version = 1
  /\ h.session_id # 0
  /\ PayloadLenMatchesType(h.type, h.payload_len)
  /\ r.len = RawLen(h.payload_len)
  /\ r.crc

BugHostRules(h) == h.type \in {LOG, RSP}

\* What the host's stream decoder requires on top.
HostRules(h) ==
  /\ h.type \in {LOG, RSP}
  /\ IF h.type = LOG THEN h.request_id = 0 ELSE h.request_id # 0

\* StreamDecoder::decode hands the frame on (or counts it as stale).
HostAccepts(h, r) == Decodes(h, r) /\ HostRules(h)

\* What uart_ipc_encode makes of an accepted header.
Encoded(h) == [len |-> RawLen(h.payload_len), crc |-> TRUE]
=============================================================================
