---------------------------- MODULE StreamReader ----------------------------
(***************************************************************************)
(* StreamReader: every Read asks the browser for the next piece of the     *)
(* stream, appends it to a buffer and reads from the buffer.               *)
(*                                                                         *)
(* The caller reads until an error or the end of the stream.  A stream is  *)
(* a sequence of bytes 1..Size; the browser sends pieces of any length,    *)
(* and the sign of the end with or without a last piece.  A request names  *)
(* the Offset at which to begin, when the caller has set one.              *)
(***************************************************************************)
EXTENDS Naturals, Sequences, SequencesExt

CONSTANTS
    Size,       \* the bytes in the stream
    NoOffset,
    Offsets,    \* the values of StreamReader.Offset: NoOffset or a position
    Spaces      \* the lengths of the slices that the caller reads into

ASSUME StreamAssumption == Size \in Nat /\ Offsets \subseteq (0..Size) \cup {NoOffset}

ASSUME SpacesAssumption == Spaces \subseteq Nat

VARIABLES
    Offset,     \* StreamReader.Offset
    position,   \* the browser's position in the stream
    buf,        \* StreamReader.buf
    got,        \* what the caller has read
    reading,    \* "reading", "eof" or "error"
    odd         \* history: the browser sent nothing, or data with the end

streamVars == <<Offset, position, buf, got, reading, odd>>

StreamInit ==
    /\ Offset \in Offsets
    /\ position = 0
    /\ buf = << >> /\ got = << >>
    /\ reading = "reading"
    /\ odd = FALSE

Piece(from, to) == [i \in 1..(to - from) |-> from + i]

(* Mistake: what does not fit into the caller's space is dropped. *)
ReadBufferOnce(buffer, n) ==
    IF buffer = << >>
    THEN reading' = "eof" /\ UNCHANGED <<got, buf>>
    ELSE /\ got' = got \o SubSeq(buffer, 1, IF n < Len(buffer) THEN n ELSE Len(buffer))
         /\ buf' = << >>
         /\ UNCHANGED reading

(* Buffer.Read into space for n bytes: an empty buffer is the end of it,   *)
(* unless there is no space to read into.                                  *)
ReadBuffer(buffer, n) ==
    IF buffer = << >> /\ n > 0
    THEN reading' = "eof" /\ UNCHANGED <<got, buf>>
    ELSE LET k == IF n < Len(buffer) THEN n ELSE Len(buffer) IN
         /\ got' = got \o SubSeq(buffer, 1, k)
         /\ buf' = SubSeq(buffer, k + 1, Len(buffer))
         /\ UNCHANGED reading

(* The position at which the browser begins to read. *)
Start == IF Offset = NoOffset THEN position ELSE Offset

Read(n) ==
    /\ reading = "reading"
    /\ Len(got) + Len(buf) <= Size     \* bound of the model: with an Offset it does not end
    /\ \E to \in Start..Size, EOF \in BOOLEAN :
         /\ EOF => to = Size
         /\ position' = to
         /\ odd' = (odd \/ (EOF <=> to > Start))
         /\ ReadBuffer(IF EOF THEN buf ELSE buf \o Piece(Start, to), n)
    /\ UNCHANGED Offset

(* The request fails, or its data cannot be decoded. *)
IOReadFails ==
    /\ reading = "reading"
    /\ reading' = "error"
    /\ position' \in position..Size
    /\ UNCHANGED <<Offset, buf, got, odd>>

StreamNext == IOReadFails \/ \E n \in Spaces : Read(n)

StreamSpec == StreamInit /\ [][StreamNext]_streamVars

-----------------------------------------------------------------------------
StreamTypeOK ==
    /\ position \in 0..Size
    /\ buf \in Seq(1..Size) /\ got \in Seq(1..Size)
    /\ reading \in {"reading", "eof", "error"}
    /\ odd \in BOOLEAN

(* Without an Offset the caller reads the stream from its beginning,       *)
(* nothing twice and nothing out of order, whatever the lengths of the     *)
(* pieces and of the caller's reads, and at the end of the stream it has   *)
(* the whole of it, if the browser sends nothing but data before the end   *)
(* and nothing with it.                                                    *)
StreamComplete ==
    /\ StreamTypeOK
    /\ Offset = NoOffset =>
         /\ reading # "error" /\ ~odd => got \o buf = Piece(0, position)
         /\ reading = "eof" /\ ~odd => got = Piece(0, Size)
         /\ \A i \in 1..(Len(got) - 1) : got[i] < got[i + 1]
=============================================================================
