-------------------------------- MODULE Wire --------------------------------
(***************************************************************************)
(* The session of Inspection as it goes over the wire: what is told is a   *)
(* frame with a JSON text, and what is read is what the reader makes of    *)
(* the bytes (cdp_handler.cpp:24-33, websocket_server.cpp:359-488,         *)
(* json.h).  The queues sent and told of Inspection hold the messages that *)
(* were meant by the frames on the two streams.                            *)
(***************************************************************************)
EXTENDS Inspection, JsonText, WsFrame

CONSTANT Alphabet       \* the characters; a character's byte is its place

ASSUME WireAssumption == IsInjective(Alphabet) /\ Len(Alphabet) <= Byte

VARIABLES up, down      \* the bytes to the server and to the client

wireVars == <<vars, up, down>>

ByteOf == [c \in Range(Alphabet) |-> CHOOSE i \in 0..Len(Alphabet) - 1 : Alphabet[i + 1] = c]
Encode(text) == [i \in 1..Len(text) |-> ByteOf[text[i]]]
Decode(bytes) == [i \in 1..Len(bytes) |-> Alphabet[bytes[i] + 1]]

-----------------------------------------------------------------------------
(* The server.                                                             *)

\* The message whose frame is next.
Incoming == Parse(Decode(ReadFrame(up).payload))

\* receive, then handle_message.
Receive ==
    /\ up # <<>>
    /\ \E m \in {Incoming} : Handle(m)
    /\ up' = ReadFrame(up).rest
    /\ UNCHANGED down

\* An event or an answer: serialize, then one frame.
Transmit ==
    /\ SendNext \/ Pause \/ Resumed
    /\ \E msg \in {Last(told')} : down' = down \o SendFrame(TextOp, Encode(Serialize(msg)))
    /\ UNCHANGED up

Silent == (Stop \/ CaptureFrame) /\ UNCHANGED <<up, down>>

-----------------------------------------------------------------------------
(* The client: JSON in a style of its own, frames as RFC 6455 has them.    *)

Submit ==
    /\ Ask
    /\ \E msg \in {Last(sent')} :
          up' = up \o RfcClientFrame(TextOp, Encode(Text(msg, setup.style)), setup.mask)
    /\ UNCHANGED down

\* A text that is none of the message is dropped.
Hear ==
    /\ told # <<>>
    /\ \E n \in RfcLengths(down) :
          /\ Read(IsTextOf(Decode(RfcPayload(down, n)), Head(told)))
          /\ down' = RfcRest(down, n)
    /\ UNCHANGED up

-----------------------------------------------------------------------------
WireInit == Init /\ up = <<>> /\ down = <<>>
WireNext == Receive \/ Transmit \/ Silent \/ Submit \/ Hear

WireSpec == WireInit /\ [][WireNext]_wireVars

-----------------------------------------------------------------------------
(* Properties.                                                             *)

\* Types: the streams are bytes; no length or character overflows one
\* (send_ws_frame).
WireTypeOK == up \in Seq(0..Byte - 1) /\ down \in Seq(0..Byte - 1)

\* The bytes carry the session: every request is handled as the one the client
\* meant, whatever blanks, escapes, mask and length its frame has, and every
\* message is understood but an answer whose values JSON cannot express.  So the
\* bytes refine the messages, of which the theorems of InspectionProofs speak.
MessagesArrive == Spec

\* Whatever blanks, escapes and mask a client uses, the message that
\* handle_message works on is the one the client sent: read_ws_frame leaves
\* the stream at the next frame, and the parser undoes every escape.
RequestsArrive ==
    [][Len(sent') < Len(sent) =>
          \E text \in {Decode(ReadFrame(up).payload)} : Parse(text) = Head(sent)]_wireVars

\* A number that JSON cannot express: NaN or an infinity.
RECURSIVE Unspeakable(_)
Unspeakable(v) ==
    CASE v.t = "number" -> v.n \notin Numerals
      [] v.t = "array"  -> \E i \in 1..Len(v.a) : Unspeakable(v.a[i])
      [] v.t = "object" -> \E k \in DOMAIN v.o : Unspeakable(v.o[k])
      [] OTHER          -> FALSE

\* Every message is sent as one frame of RFC 6455 that holds a text RFC 8259
\* gives to that very message, whatever strings of the script are in it
\* (send_ws_frame, serialize_to); only a NaN or an infinity, written as
\* printf does it, makes the text unreadable.
RepliesArrive ==
    [][Len(told') > Len(told) =>
          \E frame \in {SubSeq(down', Len(down) + 1, Len(down'))} :
          \E n \in RfcLengths(frame) :
             /\ RfcRest(frame, n) = <<>>
             /\ \E text \in {Decode(RfcPayload(frame, n))}, msg \in {Last(told')} :
                   Unspeakable(msg) \/ IsTextOf(text, msg)]_wireVars
=============================================================================
