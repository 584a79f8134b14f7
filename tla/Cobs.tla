--------------------------------- MODULE Cobs ---------------------------------
(***************************************************************************)
(* cobs_encode and cobs_decode (abios/external/cobs/src/cobs.c), loop by   *)
(* loop, on the buffers that uart_ipc_encode and StreamDecoder::decode     *)
(* give them.  Each loop is a recursive function from the number of turns  *)
(* taken to the state of its pointers.                                     *)
(***************************************************************************)
EXTENDS Naturals, Sequences

CONSTANTS
  Full,     \* the code of a full block, 0xFF in the code
  MaxByte,  \* the largest byte value
  MaxRaw    \* the longest raw frame: capacity of the decoder's buffer

ASSUME BytesAssumption ==
  /\ Full \in Nat \ {0, 1} /\ MaxByte \in Nat /\ MaxByte >= Full
  /\ MaxRaw \in Nat

\* COBS_ENCODE_DST_BUF_LEN_MAX
EncodedMax(n) == IF n = 0 THEN 1 ELSE n + (n + Full - 2) \div (Full - 1)

\* uart_ipc_encode sizes its buffer for the longest raw frame.
EncodeCap == EncodedMax(MaxRaw)

\* A code byte is written once its block is complete.
CloseBlock(s, n) ==
  [s EXCEPT !.out = Append([s.out EXCEPT ![s.code] = n], 0),
            !.code = Len(s.out) + 1, !.search = 1]

\* One turn of the encoder: a zero byte closes the block, any other is
\* copied, and closes it when that makes it full and more input follows.
EncodeByte(s, b, last) ==
  LET copied == [s EXCEPT !.out = Append(@, b), !.search = @ + 1]
  IN  CASE Len(s.out) >= EncodeCap -> [s EXCEPT !.overflow = TRUE]
        [] Len(s.out) < EncodeCap /\ b = 0 -> CloseBlock(s, s.search)
        [] OTHER -> IF ~last /\ copied.search = Full
                      THEN CloseBlock(copied, Full) ELSE copied

\* The code byte of the block that was open when the input ended.
LastCode(s) == [s.out EXCEPT ![s.code] = s.search]

cobs_encode(bytes) ==
  LET turn[k \in 0 .. Len(bytes)] ==
        IF k = 0 THEN [out |-> <<0>>, code |-> 1, search |-> 1, overflow |-> FALSE]
        ELSE IF turn[k - 1].overflow THEN turn[k - 1]
        ELSE EncodeByte(turn[k - 1], bytes[k], k = Len(bytes))
      end == turn[Len(bytes)]
  IN  IF end.overflow \/ end.code > EncodeCap
        THEN [ok |-> FALSE, bytes |-> end.out]
        ELSE [ok |-> TRUE, bytes |-> LastCode(end)]

BugAddsZero(n) == TRUE

\* A block is followed by a zero unless it was full.
AddsZero(n) == n # Full - 1

\* len_code reduced to what is left of the input or of the output buffer.
Clip(n, room) == IF n > room THEN room ELSE n

NoRoom(out) == Len(out) >= MaxRaw

\* One turn of the decoder: a code byte and the bytes it announces, then a
\* zero unless the input ends.
DecodeBlock(s, bytes) ==
  LET code == bytes[s.rd + 1]
      ask  == code - 1
      left == Len(bytes) - s.rd - 1
      have == Clip(ask, left)
      room == MaxRaw - Len(s.out)
      n    == Clip(have, room)
      part == SubSeq(bytes, s.rd + 2, s.rd + 1 + n)
      body == s.out \o part
      end  == s.rd + 1 + n >= Len(bytes)
      zero == ~end /\ AddsZero(n)
      full == zero /\ NoRoom(body)
  IN  IF code = 0
        THEN [s EXCEPT !.ok = FALSE, !.done = TRUE]
        ELSE [rd |-> s.rd + 1 + n,
              out |-> IF zero /\ ~full THEN Append(body, 0) ELSE body,
              ok |-> s.ok /\ ask <= left /\ have <= room /\ ~full
                          /\ \A i \in DOMAIN part : part[i] # 0,
              done |-> end \/ full]

cobs_decode(bytes) ==
  LET turn[k \in 0 .. Len(bytes)] ==
        IF k = 0 THEN [rd |-> 0, out |-> <<>>, ok |-> TRUE, done |-> bytes = <<>>]
        ELSE IF turn[k - 1].done THEN turn[k - 1]
        ELSE DecodeBlock(turn[k - 1], bytes)
  IN  [ok |-> turn[Len(bytes)].ok, bytes |-> turn[Len(bytes)].out]

=============================================================================
