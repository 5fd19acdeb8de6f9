----------------------------- MODULE WebSocket ------------------------------
(***************************************************************************)
(* The frames of the WebSocket: what Send writes, as a server that follows *)
(* RFC 6455 reads it, and what such a server writes, as Read reads it.     *)
(*                                                                         *)
(* A message is a number of equal bytes.  Send writes a frame by one Write, *)
(* so frames of several goroutines follow one another; a stream that is    *)
(* read is a sequence of runs, [n, byte].  The server sends unmasked text  *)
(* frames, none in parts; the connection may break within a frame.         *)
(***************************************************************************)
EXTENDS Naturals, Sequences, SequencesExt

CONSTANTS
    Sizes,          \* the sizes that a message may have
    Byte,           \* the byte it is made of
    MaxMessages     \* bound of the model: messages in both directions

MaxSize == 2147483647   \* bound of the model: the sizes that TLC can count

ASSUME SocketAssumption ==
    /\ \A size \in Sizes : size \in Nat /\ size <= MaxSize
    /\ Byte \in 0..255
    /\ MaxMessages \in Nat

VARIABLES
    sent,       \* the messages that Send was given
    outbound,   \* the frames on their way to the server
    served,     \* what the server has read
    pushed,     \* the messages that the server has sent
    inbound,    \* the runs of bytes on their way to the client
    received,   \* what Read has returned
    conn        \* "open", "broken", or "closed" after an error

socketVars == <<sent, outbound, served, pushed, inbound, received, conn>>

SocketInit ==
    /\ sent = << >> /\ outbound = << >> /\ served = << >>
    /\ pushed = << >> /\ inbound = << >> /\ received = << >>
    /\ conn = "open"

Message(size) == [n |-> size, byte |-> Byte]

FieldLen(b) == IF b = 126 THEN 2 ELSE IF b = 127 THEN 8 ELSE 0

-----------------------------------------------------------------------------
(* Send *)

(* Mistake: two bytes for a size that does not fit into them. *)
LengthInclusive(size) == IF size <= 125 THEN size ELSE IF size <= 65536 THEN 126 ELSE 127

Length(size) == IF size <= 125 THEN size ELSE IF size < 65536 THEN 126 ELSE 127

ShiftedRight(n, digit) == IF digit > 30 THEN 0 ELSE n \div 2^digit

(* The size, most significant byte first. *)
Field(size, len) ==
    [i \in 1..len |-> ShiftedRight(size, (len - i) * 8) % 256]

Mask == <<0, 1, 2, 3>>

Bit(b, k) == (b \div k) % 2

Differ(a, b, k) == IF Bit(a, k) = Bit(b, k) THEN 0 ELSE k

(* The exclusive or of two bytes. *)
Xor(a, b) ==
    Differ(a, b, 1) + Differ(a, b, 2) + Differ(a, b, 4) + Differ(a, b, 8)
        + Differ(a, b, 16) + Differ(a, b, 32) + Differ(a, b, 64) + Differ(a, b, 128)

(* The i-th byte of the message (from 0) has been combined with the byte   *)
(* i % 4 of the mask.                                                      *)
Frame(m) ==
    [header |-> <<129, 128 + Length(m.n)>> \o Field(m.n, FieldLen(Length(m.n))) \o Mask,
     n |-> m.n,
     body |-> [i \in 0..3 |-> Xor(m.byte, Mask[i + 1])]]

Send(size) ==
    /\ Len(sent) + Len(pushed) < MaxMessages
    /\ conn = "open"
    /\ sent' = Append(sent, Message(size))
    /\ outbound' = Append(outbound, Frame(Message(size)))
    /\ UNCHANGED <<served, pushed, inbound, received, conn>>

(* Write fails and the connection is closed. *)
SendFails ==
    /\ Len(sent) + Len(pushed) < MaxMessages
    /\ conn = "broken"
    /\ conn' = "closed"
    /\ UNCHANGED <<sent, outbound, served, pushed, inbound, received>>

-----------------------------------------------------------------------------
(* The server, after RFC 6455 *)

Pair(field, i) == field[i] * 256 + field[i + 1]

(* What a field of two or of eight bytes says. *)
Number(field) ==
    IF Len(field) = 2 THEN Pair(field, 1)
    ELSE ((Pair(field, 1) * 65536 + Pair(field, 3)) * 65536 + Pair(field, 5)) * 65536
            + Pair(field, 7)

(* The length of the field: as short as can be. *)
Needed(size) == IF size < 126 THEN 0 ELSE IF size < 65536 THEN 2 ELSE 8

(* The size that a header says its message has. *)
Claimed(h) ==
    LET e == FieldLen(h[2] - 128)
    IN  IF e = 0 THEN h[2] - 128 ELSE Number(SubSeq(h, 3, e + 2))

(* A text frame, whole and masked, with the field it needs, carries m. *)
Carries(frame, m) ==
    LET h == frame.header
        e == FieldLen(h[2] - 128)
        key == SubSeq(h, e + 3, Len(h))
    IN  /\ h[1] = 129 /\ h[2] >= 128 /\ Len(h) = e + 6
        /\ m.n = Claimed(h) /\ m.n = frame.n /\ e = Needed(m.n)
        /\ \A i \in 0..3 : m.byte = Xor(frame.body[i], key[i + 1])

Decoded(frame) ==
    [n |-> Claimed(frame.header),
     byte |-> Xor(frame.body[0], frame.header[Len(frame.header) - 3])]

ServerReads ==
    /\ outbound # << >>
    /\ Carries(Head(outbound), Decoded(Head(outbound)))
    /\ served' = Append(served, Decoded(Head(outbound)))
    /\ outbound' = Tail(outbound)
    /\ UNCHANGED <<sent, pushed, inbound, received, conn>>

Run(n, byte) == IF n = 0 THEN << >> ELSE << [n |-> n, byte |-> byte] >>

(* The runs of a frame of the server. *)
Runs(size) ==
    LET e == Needed(size)
        len == IF e = 0 THEN size ELSE IF e = 2 THEN 126 ELSE 127
        head == <<129, len>> \o Field(size, e)
    IN  [i \in 1..Len(head) |-> [n |-> 1, byte |-> head[i]]] \o Run(size, Byte)

ServerSends(size) ==
    /\ Len(sent) + Len(pushed) < MaxMessages
    /\ conn = "open"
    /\ pushed' = Append(pushed, Message(size))
    /\ inbound' = inbound \o Runs(size)
    /\ UNCHANGED <<sent, outbound, served, received, conn>>

(* What was on its way arrives in part, the last run too. *)
Break ==
    /\ conn = "open"
    /\ conn' = "broken"
    /\ \E k \in 0..Len(inbound), short \in BOOLEAN :
         /\ short => k > 0 /\ inbound[k].n > 1
         /\ inbound' = [i \in 1..k |-> IF short /\ i = k
                                       THEN [inbound[i] EXCEPT !.n = @ - 1] ELSE inbound[i]]
    /\ \E k \in 0..Len(outbound) : outbound' = SubSeq(outbound, 1, k)
    /\ UNCHANGED <<sent, served, pushed, received>>

-----------------------------------------------------------------------------
(* Read.  Its reads wait for bytes while the connection is open.           *)

(* The sizes of the first frame's header and body, when they have arrived. *)
HeaderLen == 2 + FieldLen(inbound[2].byte % 128)

BodyLen ==
    LET b == inbound[2].byte % 128 IN
    IF FieldLen(b) = 0 THEN b
    ELSE Number([i \in 1..FieldLen(b) |-> inbound[i + 2].byte])

HeaderHere == Len(inbound) >= 2 /\ Len(inbound) >= HeaderLen

(* ReadFull: the body, and what is left of the run that it is taken from.  *)
BodyHere ==
    /\ HeaderHere
    /\ BodyLen = 0 \/ (Len(inbound) > HeaderLen /\ inbound[HeaderLen + 1].n >= BodyLen)

ReadFrame ==
    /\ conn \in {"open", "broken"}
    /\ BodyHere
    /\ LET rest == SubSeq(inbound, HeaderLen + 1, Len(inbound)) IN
         /\ received' = Append(received, [n |-> BodyLen,
                          byte |-> IF BodyLen = 0 THEN Byte ELSE Head(rest).byte])
         /\ inbound' = IF BodyLen = 0 THEN rest
                       ELSE Run(Head(rest).n - BodyLen, Head(rest).byte) \o Tail(rest)
    /\ UNCHANGED <<sent, outbound, served, pushed, conn>>

(* Read closes the connection when it fails. *)
ReadFrameFails ==
    /\ conn = "broken"
    /\ ~BodyHere
    /\ conn' = "closed"
    /\ UNCHANGED <<sent, outbound, served, pushed, inbound, received>>

SocketNext ==
    \/ \E size \in Sizes : Send(size) \/ ServerSends(size)
    \/ SendFails \/ ServerReads \/ Break \/ ReadFrame \/ ReadFrameFails

SocketSpec == SocketInit /\ [][SocketNext]_socketVars

-----------------------------------------------------------------------------
(* Every message arrives as it was sent, whole and in order, whichever the *)
(* form of its length; a message cut by the end of the connection is not   *)
(* delivered in part, and as long as the connection is open none is lost.  *)
FrameRoundTrip ==
    /\ IsPrefix(served, sent)
    /\ \A i \in 1..Len(outbound) : Carries(outbound[i], sent[Len(served) + i])
    /\ IsPrefix(received, pushed)
    /\ conn = "open" =>
         /\ Len(served) + Len(outbound) = Len(sent)
         /\ inbound = << >> <=> received = pushed
         /\ inbound # << >> => BodyHere
=============================================================================
