------------------------------- MODULE WsFrame -------------------------------
(***************************************************************************)
(* The frames of the WebSocket connection: what send_ws_frame puts on the  *)
(* stream, what read_ws_frame takes off it (debugger/src/                  *)
(* websocket_server.cpp:404-488), and RFC 6455 as the other end applies it *)
(*                                                                         *)
(* A byte is a number below Byte; the two lengths at which the header      *)
(* changes its form, 126 and 65536 in the code, are parameters, so that    *)
(* short payloads have all three.                                          *)
(***************************************************************************)
EXTENDS Integers, SequencesExt

CONSTANTS
    Byte,           \* number of bytes, 256 in the code
    Wide,           \* first length that two bytes do not hold, 65536
    WideBytes,      \* bytes of the longest form's length, 8
    ByteXor(_, _)       \* of two bytes

Half == Byte \div 2     \* 0x80: the FIN bit, and the mask bit
Two == Half - 2         \* 126: the length follows in two bytes
Many == Half - 1        \* 127: it follows in WideBytes bytes

ASSUME FrameAssumption ==
    /\ Byte \in Nat /\ Byte > 0 /\ Byte % 32 = 0
    /\ WideBytes \in Nat /\ WideBytes > 2
    /\ Wide \in Nat /\ Two < Wide /\ Wide <= Byte * Byte
    /\ \A b, m \in 0..Byte - 1 : ByteXor(b, m) \in 0..Byte - 1 /\ ByteXor(ByteXor(b, m), m) = b

Opcodes == 0..15        \* 0x0F
TextOp == 1

\* n >> 8*j
Shifted(n, j) ==
    LET shift[i \in 0..j] == IF i = 0 THEN n ELSE shift[i - 1] \div Byte IN shift[j]

\* Mutant: the shifted lengths are not cut to a byte.
BigEndianWhole(n, k) == [i \in 1..k |-> Shifted(n, k - i)]

\* The low k bytes of n, the highest first.
BigEndian(n, k) == [i \in 1..k |-> Shifted(n, k - i) % Byte]

Number(bytes) ==
    LET value[i \in 0..Len(bytes)] == IF i = 0 THEN 0 ELSE value[i - 1] * Byte + bytes[i]
    IN  value[Len(bytes)]

-----------------------------------------------------------------------------
(* The server's end.                                                       *)

\* send_ws_frame: a final frame without a mask.
SendFrame(op, payload) ==
    LET n == Len(payload)
    IN  (CASE n < Two               -> <<Half + op, n>>
           [] Two <= n /\ n < Wide  -> <<Half + op, Two>> \o BigEndian(n, 2)
           [] OTHER                 -> <<Half + op, Many>> \o BigEndian(n, WideBytes))
        \o payload

\* Mutant: the mask is applied from its second byte on.
UnmaskShifted(body, mask) == [i \in 1..Len(body) |-> ByteXor(body[i], mask[(i % 4) + 1])]

\* payload[i] ^= mask[i % 4], counted from 0.
Unmask(body, mask) == [i \in 1..Len(body) |-> ByteXor(body[i], mask[((i - 1) % 4) + 1])]

\* read_ws_frame, on a stream that holds a whole frame: the opcode (the FIN
\* bit is not looked at), the payload, and what is left on the stream.
ReadFrame(s) ==
    LET masked == s[2] >= Half
        code   == s[2] % Half
        ext    == CASE code = Two -> 2 [] code = Many -> WideBytes [] OTHER -> 0
        len    == IF ext = 0 THEN code ELSE Number(SubSeq(s, 3, 2 + ext))
        start  == 2 + ext + (IF masked THEN 4 ELSE 0)
        body   == SubSeq(s, start + 1, start + len)
    IN  [op |-> s[1] % 16,
         payload |-> IF masked THEN Unmask(body, SubSeq(s, 3 + ext, 6 + ext)) ELSE body,
         rest |-> SubSeq(s, start + len + 1, Len(s))]

-----------------------------------------------------------------------------
(* The client's end: RFC 6455, 5.2.                                        *)

\* The length field in its shortest form, with the mask bit.
RfcLength(n, bit) ==
    IF n < Two THEN <<bit + n>>
    ELSE IF n < Wide THEN <<bit + Two, n \div Byte, n % Byte>>
    ELSE <<bit + Many>> \o [i \in 1..WideBytes |->
                              IF i = WideBytes THEN n % Byte
                              ELSE IF i = WideBytes - 1 THEN (n \div Byte) % Byte
                              ELSE IF i = WideBytes - 2 THEN n \div (Byte * Byte) ELSE 0]

\* The frame a client sends: final, and masked.
RfcClientFrame(op, payload, mask) ==
    <<Half + op>> \o RfcLength(Len(payload), Half) \o mask \o
    [i \in 1..Len(payload) |-> ByteXor(payload[i], mask[((i - 1) % 4) + 1])]

\* The payload lengths a final, unmasked text frame at the head of s can have.
RfcLengths(s) ==
    {n \in 0..Len(s) - 2 : LET h == <<Half + TextOp>> \o RfcLength(n, 0)
                           IN  IsPrefix(h, s) /\ Len(h) + n <= Len(s)}

RfcPayload(s, n) == LET h == 1 + Len(RfcLength(n, 0)) IN SubSeq(s, h + 1, h + n)
RfcRest(s, n) == LET h == 1 + Len(RfcLength(n, 0)) IN SubSeq(s, h + n + 1, Len(s))
=============================================================================
