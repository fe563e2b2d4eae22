------------------------------ MODULE Pktline ------------------------------
(***************************************************************************)
(* Package pktline: frames with a length of four hex digits, which counts  *)
(* itself, and the markers 0000, 0001 and 0002.  A writer puts frames on a *)
(* stream with Encode, EncodeLine and EncodeFlush and may break off in any *)
(* Write; or somebody else writes the rest, any bytes at all.              *)
(* PktLineStream.Next reads the stream through io.ReadFull into one buffer *)
(* of MaxPktLen bytes.  Decode does the same for bytes in memory.          *)
(*                                                                         *)
(* The number of values of a digit is a parameter (16 in the code) so that *)
(* short frames reach the limits.                                          *)
(***************************************************************************)
EXTENDS Naturals, Sequences

CONSTANTS
  Base,       \* the values of a digit
  MaxPktLen,  \* the longest frame
  Lengths,    \* the lengths of the payloads that are written
  MaxFrames,  \* bound: how many frames are written
  Foreign     \* what somebody else may write

ASSUME PktlineAssumption ==
  /\ Base \in Nat \ {0, 1} /\ MaxPktLen \in Nat /\ MaxFrames \in Nat
  /\ 4 < MaxPktLen /\ MaxPktLen < Base * Base * Base * Base
  /\ Lengths \subseteq Nat
  /\ Foreign \subseteq Seq(0 .. Base)

VARIABLES
  wire,      \* all bytes written so far
  writing,   \* <<payload>> while EncodeLine has written only its prefix
  closed,    \* the writer ended, or broke off
  foreign,   \* somebody else wrote the rest
  pos,       \* how many bytes of wire are read
  reading,   \* "prefix", "payload", or "done" after Next returned nil or an error
  length,    \* the length in the prefix that was read
  result,    \* how the last call of Next ended: "packet", "nil", an error, "panic"
  \* History, read by nobody:
  sent,      \* the packets written completely
  torn,      \* the writer broke off inside a frame
  received   \* the packets that Next returned

writer == <<wire, writing, closed, foreign, sent, torn>>
reader == <<pos, reading, length, result, received>>
vars   == <<writer, reader>>

(* A byte is a digit, or Base for any other.                                 *)
Bytes == 0 .. Base

Payload(n) == [i \in 1 .. n |-> (n + i) % (Base + 1)]

(* What is sent, and the struct Packet that is returned for it.              *)
Packet(type, payload) == [type |-> type, payload |-> payload]

Decoded(type, payload, consumed) ==
  [type |-> type, payload |-> payload, consumed |-> consumed]

Content(p) == Packet(p.type, p.payload)

Markers == {"flush", "delimiter", "response-end"}

Errors == {"incomplete", "invalid length", "invalid character", "empty packet",
           "packet too large", "EOF", "unexpected EOF"}

TypeOK ==
  /\ wire \in Seq(Bytes)
  /\ writing \in {<<>>} \cup {<<Payload(n)>> : n \in Lengths}
  /\ closed \in BOOLEAN /\ foreign \in BOOLEAN /\ torn \in BOOLEAN
  /\ pos \in 0 .. Len(wire)
  /\ reading \in {"prefix", "payload", "done"}
  /\ length \in 0 .. MaxPktLen
  /\ result \in {"none", "packet", "nil", "panic"} \cup Errors
  /\ reading = "done" <=> result \in {"nil", "panic"} \cup Errors
  /\ received \in Seq([type : Markers \cup {"data"}, payload : Seq(Bytes),
                       consumed : Nat])

Init ==
  /\ wire = <<>> /\ writing = <<>> /\ closed = FALSE /\ foreign = FALSE
  /\ pos = 0 /\ reading = "prefix" /\ length = 0 /\ result = "none"
  /\ sent = <<>> /\ torn = FALSE /\ received = <<>>

-----------------------------------------------------------------------------
(* Encoding *)

(* fmt.Sprintf("%04x", n)                                                    *)
Prefix(n) == << (n \div (Base * Base * Base)) % Base, (n \div (Base * Base)) % Base,
                (n \div Base) % Base, n % Base >>

(* The errors of Encode for a payload of n bytes.                            *)
EncodeError(n) == IF n = 0 THEN "empty packet"
                  ELSE IF n + 4 > MaxPktLen THEN "packet too large" ELSE "none"

(* Those of EncodeLine, whose total is never 0.                              *)
EncodeLineError(n) == IF n + 4 > MaxPktLen THEN "packet too large" ELSE "none"

Marker(m) == Prefix(CASE m = "flush" -> 0 [] m = "delimiter" -> 1 [] m = "response-end" -> 2)

(* A Write of bytes that ends the frame p succeeds, or breaks off.           *)
Write(bytes, p) ==
  \/ wire' = wire \o bytes /\ sent' = Append(sent, p) /\ UNCHANGED <<closed, torn>>
  \/ \E k \in {0} \cup 1 .. Len(bytes) - 1 :
       /\ wire' = wire \o SubSeq(bytes, 1, k)
       /\ torn' = (k > 0 \/ writing # <<>>) /\ closed' = TRUE
       /\ UNCHANGED sent

Writable == ~closed /\ ~foreign /\ writing = <<>> /\ Len(sent) < MaxFrames

(* Encode, and one Write of the result.                                      *)
WriteEncoded(n) ==
  /\ Writable
  /\ EncodeError(n) = "none"
  /\ Write(Prefix(n + 4) \o Payload(n), Packet("data", Payload(n)))
  /\ UNCHANGED <<writing, foreign, reader>>

(* The first Write of EncodeLine.                                            *)
EncodeLine(n) ==
  /\ Writable
  /\ EncodeLineError(n) = "none"
  /\ \/ /\ wire' = wire \o Prefix(n + 4)
        /\ writing' = <<Payload(n)>>
        /\ UNCHANGED <<closed, torn>>
     \/ \E k \in 0 .. 3 :
          /\ wire' = wire \o SubSeq(Prefix(n + 4), 1, k)
          /\ torn' = (k > 0) /\ closed' = TRUE
          /\ UNCHANGED writing
  /\ UNCHANGED <<foreign, sent, reader>>

(* The second.                                                               *)
EncodeLineData ==
  /\ ~closed /\ writing # <<>>
  /\ writing' = <<>>
  /\ Write(writing[1], Packet("data", writing[1]))
  /\ UNCHANGED <<foreign, reader>>

(* EncodeFlush; a caller writes the other two markers itself.                *)
EncodeFlush(m) ==
  /\ Writable
  /\ Write(Marker(m), Packet(m, <<>>))
  /\ UNCHANGED <<writing, foreign, reader>>

(* NewPacketIterator takes any io.Reader: what follows need not come from    *)
(* this package.                                                             *)
WriteForeign(bytes) ==
  /\ ~closed /\ ~foreign /\ writing = <<>>
  /\ wire' = wire \o bytes /\ foreign' = TRUE
  /\ UNCHANGED <<writing, closed, sent, torn, reader>>

Close ==
  /\ ~closed /\ writing = <<>>
  /\ closed' = TRUE
  /\ UNCHANGED <<wire, writing, foreign, sent, torn, reader>>

-----------------------------------------------------------------------------
(* Decoding *)

(* strconv.ParseUint(p, 16, 16), with the first number that does not fit for *)
(* an error.                                                                 *)
ParseUint(p) ==
  IF \E i \in 1 .. 4 : p[i] = Base THEN Base * Base * Base * Base
  ELSE ((p[1] * Base + p[2]) * Base + p[3]) * Base + p[4]

Invalid(n) == n = Base * Base * Base * Base

(* The switch on the length that Decode and Next share.                      *)
Special(n) == CASE n = 0 -> "flush" [] n = 1 -> "delimiter" [] n = 2 -> "response-end"
                [] n = 3 -> "invalid length" [] n = 4 -> "empty packet"
                [] OTHER -> "none"

(* Mutant: Consumed leaves the prefix out.                                   *)
DecodePayloadOnly(data) ==
  IF Len(data) < 4 THEN Decoded("incomplete", <<>>, 0)
  ELSE LET n == ParseUint(data)
       IN  IF Invalid(n) THEN Decoded("invalid character", <<>>, 0)
           ELSE IF Special(n) \in Markers THEN Decoded(Special(n), <<>>, 4)
           ELSE IF Special(n) # "none" THEN Decoded(Special(n), <<>>, 0)
           ELSE IF Len(data) < n THEN Decoded("incomplete", <<>>, 0)
           ELSE Decoded("data", SubSeq(data, 5, n), n - 4)

Decode(data) ==
  IF Len(data) < 4 THEN Decoded("incomplete", <<>>, 0)
  ELSE LET n == ParseUint(data)
       IN  IF Invalid(n) THEN Decoded("invalid character", <<>>, 0)
           ELSE IF Special(n) \in Markers THEN Decoded(Special(n), <<>>, 4)
           ELSE IF Special(n) # "none" THEN Decoded(Special(n), <<>>, 0)
           ELSE IF Len(data) < n THEN Decoded("incomplete", <<>>, 0)
           ELSE Decoded("data", SubSeq(data, 5, n), n)

(* io.ReadFull of n bytes: it succeeds, ends with the stream, or waits.      *)
Available   == Len(wire) - pos
Ready(n)    == Available >= n \/ closed
Read(n)     == SubSeq(wire, pos + 1, pos + n)
ReadError(n) == IF Available >= n THEN "none"
                ELSE IF Available = 0 THEN "EOF" ELSE "unexpected EOF"

Fail(error) ==
  /\ reading' = "done" /\ result' = error
  /\ UNCHANGED <<length, received>>

(* Consumed is 4, the bytes of the prefix, for data as for markers.          *)
Yield(type, payload) ==
  /\ reading' = "prefix" /\ result' = "packet" /\ length' = 0
  /\ received' = Append(received, Decoded(type, payload, 4))

(* it.buf[4:n] is out of the buffer's range.                                 *)
Overlong(n) == ~Invalid(n) /\ MaxPktLen < n

(* Mutant: any error of the first ReadFull is taken for the end.             *)
NextPrefixLenient ==
  /\ reading = "prefix" /\ Ready(4)
  /\ pos' = IF Available >= 4 THEN pos + 4 ELSE Len(wire)
  /\ IF ReadError(4) # "none" THEN Fail("nil")
     ELSE LET n == ParseUint(Read(4))
          IN  CASE Invalid(n) -> Fail("invalid length")
                [] Special(n) \in Markers -> Yield(Special(n), <<>>)
                [] Special(n) \in Errors -> Fail(Special(n))
                [] Overlong(n) -> Fail("panic")
                [] OTHER -> /\ reading' = "payload" /\ length' = n
                            /\ UNCHANGED <<result, received>>
  /\ UNCHANGED writer

(* Next, up to the slice of the buffer that the payload is read into.        *)
NextPrefix ==
  /\ reading = "prefix" /\ Ready(4)
  /\ pos' = IF Available >= 4 THEN pos + 4 ELSE Len(wire)
  /\ IF ReadError(4) = "EOF" THEN Fail("nil")
     ELSE IF ReadError(4) # "none" THEN Fail(ReadError(4))
     ELSE LET n == ParseUint(Read(4))
          IN  CASE Invalid(n) -> Fail("invalid length")
                [] Special(n) \in Markers -> Yield(Special(n), <<>>)
                [] Special(n) \in Errors -> Fail(Special(n))
                [] Overlong(n) -> Fail("panic")
                [] OTHER -> /\ reading' = "payload" /\ length' = n
                            /\ UNCHANGED <<result, received>>
  /\ UNCHANGED writer

(* Mutant: the slice of the buffer starts at the prefix.                     *)
NextPayloadPrefixed ==
  /\ reading = "payload" /\ Ready(length - 4)
  /\ pos' = IF Available >= length - 4 THEN pos + length - 4 ELSE Len(wire)
  /\ IF ReadError(length - 4) # "none" THEN Fail(ReadError(length - 4))
     ELSE Yield("data", SubSeq(wire, pos - 3, pos + length - 4))
  /\ UNCHANGED writer

(* The payload.                                                              *)
NextPayload ==
  /\ reading = "payload" /\ Ready(length - 4)
  /\ pos' = IF Available >= length - 4 THEN pos + length - 4 ELSE Len(wire)
  /\ IF ReadError(length - 4) # "none" THEN Fail(ReadError(length - 4))
     ELSE Yield("data", Read(length - 4))
  /\ UNCHANGED writer

Next ==
  \/ \E n \in Lengths : WriteEncoded(n) \/ EncodeLine(n)
  \/ EncodeLineData
  \/ \E m \in Markers : EncodeFlush(m)
  \/ \E bytes \in Foreign : WriteForeign(bytes)
  \/ Close
  \/ NextPrefix \/ NextPayload

Spec == Init /\ [][Next]_vars

-----------------------------------------------------------------------------
(* Properties *)

(* Next returns what was written, in that order, whatever has arrived: the   *)
(* type and payload of the packets received are those of the first that were *)
(* sent, and there are more only if somebody else wrote behind them.         *)
ReadsWhatWasSent ==
  /\ Len(received) <= Len(sent) \/ foreign
  /\ \A i \in 1 .. Len(received) : i <= Len(sent) => Content(received[i]) = sent[i]

(* Next returns nil only when everything sent was received and the writer    *)
(* did not stop inside a frame; it fails, or panics, only when the writer    *)
(* did, or EncodeLine was given nothing to write, or the bytes are somebody  *)
(* else's: what Encode and EncodeLine accept fits the buffer of Next.        *)
CleanEnd ==
  /\ result = "nil" => Len(sent) <= Len(received) /\ ~torn
  /\ result \in {"panic"} \cup Errors =>
       \/ torn \/ foreign
       \/ writing = << <<>> >> \/ \E i \in 1 .. Len(sent) : sent[i] = Packet("data", <<>>)

(* Whoever wrote the bytes, Decode, applied again and again behind what it   *)
(* consumed, finds in the bytes read so far the packets that Next returned,  *)
(* type and payload, and arrives where Next is.  What differs is Consumed:   *)
(* that of Next is 4.                                                        *)
DecodeAgrees ==
  reading = "prefix" \/ result = "nil" =>
    LET offset[i \in 0 .. Len(received)] ==
          IF i = 0 THEN 0
          ELSE offset[i - 1]
                 + Decode(SubSeq(wire, offset[i - 1] + 1, pos)).consumed
    IN  /\ offset[Len(received)] = pos
        /\ \A i \in 1 .. Len(received) :
             LET d == Decode(SubSeq(wire, offset[i - 1] + 1, pos))
             IN  received[i] = Decoded(d.type, d.payload, 4)

-----------------------------------------------------------------------------
(* Why the first two hold: the wire is the frames that were sent, one behind *)
(* the other, and the beginning of one more or foreign bytes; the reader     *)
(* stands at the start of one of them or behind its prefix, until it is past *)
(* them all.                                                                 *)
Packets == {Packet(m, <<>>) : m \in Markers}
             \cup {Packet("data", Payload(n)) : n \in {k \in Lengths : k + 4 <= MaxPktLen}}

(* The number in the prefix of a packet, and the bytes of its frame.         *)
Field(p) == IF p.type = "data" THEN Len(p.payload) + 4
            ELSE IF p.type = "flush" THEN 0 ELSE IF p.type = "delimiter" THEN 1 ELSE 2

Size(p) == 4 + Len(p.payload)

(* Behind the first a bytes of w is the prefix of n, or the frame of p.      *)
Headed(w, a, n) == \A k \in 1 .. 4 : w[a + k] = Prefix(n)[k]

Placed(w, a, p) ==
  /\ Headed(w, a, Field(p))
  /\ \A k \in 1 .. Len(p.payload) : w[a + 4 + k] = p.payload[k]

(* w begins with the frames of s; at[i] is where the i-th of them ends.      *)
Frames(w, s, at) ==
  /\ at[0] = 0
  /\ \A i \in 1 .. Len(s) :
       at[i] = at[i - 1] + Size(s[i]) /\ Placed(w, at[i - 1], s[i])
  /\ \A i \in 0 .. Len(s) : at[i] <= at[Len(s)]

(* What is behind the a bytes of the frames that were sent: nothing, the     *)
(* prefix that EncodeLine wrote, what was written of a broken frame, or      *)
(* foreign bytes.                                                            *)
Whole(a) == writing = <<>> /\ ~torn /\ Len(wire) = a

Begun(a) ==
  /\ writing # <<>> /\ ~torn /\ ~closed /\ ~foreign /\ Len(wire) = a + 4
  /\ Len(writing[1]) + 4 <= MaxPktLen /\ Headed(wire, a, Len(writing[1]) + 4)

Broken(a) ==
  /\ writing = <<>> /\ torn /\ closed /\ ~foreign /\ Len(wire) > a
  /\ \/ Len(wire) < a + 4
     \/ \E n \in Lengths : /\ n + 4 <= MaxPktLen /\ Headed(wire, a, n + 4)
                           /\ n = 0 \/ Len(wire) < a + 4 + n

Alien(a) == writing = <<>> /\ ~torn /\ foreign /\ Len(wire) >= a

Behind(a) == Whole(a) \/ Begun(a) \/ Broken(a) \/ Alien(a)

(* Where the reader is, r packets having been received.                      *)
Position(r, at) ==
  /\ reading = "prefix" /\ r <= Len(sent) => pos = at[r]
  /\ reading = "payload" /\ r < Len(sent) =>
       /\ pos = at[r] + 4 /\ sent[r + 1].type = "data" /\ length = Size(sent[r + 1])
  /\ reading = "payload" /\ r = Len(sent) =>
       /\ pos = at[r] + 4
       /\ \/ writing # <<>> /\ length = Len(writing[1]) + 4
          \/ torn /\ Len(wire) < at[r] + length
          \/ foreign

Streamed ==
  \E at \in [0 .. Len(sent) -> 0 .. Len(wire)] :
    Frames(wire, sent, at) /\ Behind(at[Len(sent)]) /\ Position(Len(received), at)

Ended == result = "nil" => closed

Inv == /\ TypeOK /\ sent \in Seq(Packets)
       /\ reading = "payload" => length > 4
       /\ Streamed /\ Ended /\ ReadsWhatWasSent /\ CleanEnd

(* Why Decode agrees, whoever wrote: the bytes read are the frames of the    *)
(* packets that Next returned, in the sense of the switch on the length.     *)
Said(w, a) == ParseUint(SubSeq(w, a + 1, a + 4))

Framed(w, a, p) ==
  /\ ~Invalid(Said(w, a))
  /\ \/ p.type \in Markers /\ Special(Said(w, a)) = p.type /\ p.payload = <<>>
     \/ /\ p.type = "data" /\ Special(Said(w, a)) = "none" /\ Said(w, a) = Size(p)
        /\ p.payload = SubSeq(w, a + 5, a + Size(p))

Sliced(w, s, at) ==
  /\ at[0] = 0
  /\ \A i \in 1 .. Len(s) : /\ at[i] = at[i - 1] + Size(s[i])
                            /\ Framed(w, at[i - 1], s[i]) /\ s[i].consumed = 4

Stands(a) ==
  /\ reading = "prefix" \/ result = "nil" => pos = a
  /\ reading = "payload" => /\ pos = a + 4 /\ length = Said(wire, a)
                            /\ Special(length) = "none" /\ ~Invalid(length)

Cut == \E at \in [0 .. Len(received) -> 0 .. Len(wire)] :
         Sliced(wire, received, at) /\ Stands(at[Len(received)])
=============================================================================
