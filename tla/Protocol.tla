------------------------------- MODULE Protocol --------------------------------
(* core/src/network/protocol.{h,cpp}: the K4 binary framing.  A radio sends      *)
(* frames, and sometimes bytes that are none; TCP hands them to feedData() in    *)
(* pieces of any length; the parser delivers the payloads.  The module describes *)
(* one connection after the other, with reset() between them.                    *)
EXTENDS Integers, Sequences, SequencesExt

CONSTANTS Base,          \* 256: a byte is a number below it
          StartMarker,   \* START_MARKER
          EndMarker,     \* END_MARKER
          MaxFrameSize,  \* MAX_FRAME_SIZE
          MaxRead,       \* length of the buffer of readLoopFunc(), 8192
          Payloads,      \* payloads of the frames the radio may send, type byte first
          Endings,       \* what it may send where an end marker belongs
          Junk,          \* bytes it may send between two frames
          MaxPieces      \* bound on the frames and junk of one connection

Bytes == 0..(Base - 1)

\* A read fits under the overflow limit on top of any unfinished frame.
ASSUME Framing ==
  /\ Base \in Nat \ {0} /\ StartMarker \in [1..4 -> Bytes] /\ EndMarker \in [1..4 -> Bytes]
  /\ MaxFrameSize \in Nat \ {0} /\ MaxRead \in Nat \ {0}
  /\ MaxRead <= MaxFrameSize + 1 /\ MaxRead + 3 <= 2 * MaxFrameSize

ASSUME Radio ==
  /\ Payloads \subseteq Seq(Bytes) \ {<<>>} /\ Endings \subseteq [1..4 -> Bytes]
  /\ Junk \subseteq Seq(Bytes) /\ MaxPieces \in Nat

VARIABLES
  parseState,      \* m_state
  buffer,          \* m_buffer
  expectedLength,  \* m_expectedLength
  processing,      \* whether feedData() is running
  delivered,       \* the payloads given to m_frameCb
  wire,            \* bytes sent and not yet read
  received,        \* bytes given to feedData() in this connection
  sent,            \* the payloads of the frames sent in this connection
  intact,          \* of each of them, whether it was sent with its end marker
  orderly,         \* whether all of them were sent as frames are
  pieces           \* frames and junk sent in this connection

parser == <<parseState, buffer, expectedLength, processing, delivered>>
peer   == <<wire, sent, intact, orderly, pieces>>
vars   == <<parser, peer, received>>

ParseStates == {"SEEKING_START", "READING_LENGTH", "READING_PAYLOAD", "READING_END"}

TypeOK ==
  /\ parseState \in ParseStates /\ processing \in BOOLEAN
  /\ buffer \in Seq(Bytes) /\ expectedLength \in Nat
  /\ parseState = "READING_PAYLOAD" => expectedLength \in 1..MaxFrameSize
  /\ delivered \in Seq(Seq(Bytes)) /\ sent \in Seq(Seq(Bytes))
  /\ intact \in Seq(BOOLEAN) /\ Len(intact) = Len(sent)
  /\ wire \in Seq(Bytes) /\ received \in Seq(Bytes)
  /\ orderly \in BOOLEAN /\ pieces \in Nat

Init ==
  /\ parseState = "SEEKING_START" /\ buffer = <<>> /\ expectedLength = 0
  /\ processing = FALSE /\ delivered = <<>> /\ received = <<>>
  /\ wire = <<>> /\ sent = <<>> /\ intact = <<>> /\ orderly = TRUE /\ pieces = 0

\* s without its first n elements: erase(begin, begin + n).
Erase(s, n) == SubSeq(s, n + 1, Len(s))

\* The positions of the start markers in s, from position i on.
Starts(s, i) == {j \in i..(Len(s) - 3) : SubSeq(s, j, j + 3) = StartMarker}

LengthField(s) == s[4] + Base * (s[3] + Base * (s[2] + Base * s[1]))

\* encode(): the length bytes of a payload.
LengthBytes(n) ==
  LET upper == n \div Base
      third == upper \div Base
  IN <<(third \div Base) % Base, third % Base, upper % Base, n % Base>>

--------------------------------------------------------------------------------
(* The radio                                                                    *)

\* A frame as encode() makes it, but for what stands in place of its end marker.
Send(payload, ending) ==
  /\ pieces < MaxPieces /\ pieces' = pieces + 1
  /\ wire' = wire \o StartMarker \o LengthBytes(Len(payload)) \o payload \o ending
  /\ sent' = Append(sent, payload) /\ intact' = Append(intact, ending = EndMarker)
  /\ UNCHANGED <<orderly, parser, received>>

\* Bytes between frames, which are no part of one.
SendJunk(j) ==
  /\ pieces < MaxPieces /\ pieces' = pieces + 1
  /\ wire' = wire \o j
  /\ UNCHANGED <<sent, intact, orderly, parser, received>>

\* A frame whose end marker is missing.
SendUnended(payload) ==
  /\ pieces < MaxPieces /\ pieces' = pieces + 1
  /\ wire' = wire \o StartMarker \o LengthBytes(Len(payload)) \o payload
  /\ orderly' = FALSE
  /\ UNCHANGED <<sent, intact, parser, received>>

RadioSends ==
  \/ \E p \in Payloads : (\E e \in Endings : Send(p, e)) \/ SendUnended(p)
  \/ \E j \in Junk : SendJunk(j)

--------------------------------------------------------------------------------
(* The parser                                                                   *)

\* A wrong variant: the state of the parser is kept, only the bytes go.
ResetBufferOnly ==
  /\ ~processing
  /\ buffer' = <<>>
  /\ delivered' = <<>> /\ received' = <<>>
  /\ wire' = <<>> /\ sent' = <<>> /\ intact' = <<>> /\ orderly' = TRUE /\ pieces' = 0
  /\ UNCHANGED <<parseState, expectedLength, processing>>

\* reset(), as connect() calls it before it dials: the next byte is the first of
\* another connection.
Reset ==
  /\ ~processing
  /\ parseState' = "SEEKING_START" /\ buffer' = <<>> /\ expectedLength' = 0
  /\ delivered' = <<>> /\ received' = <<>>
  /\ wire' = <<>> /\ sent' = <<>> /\ intact' = <<>> /\ orderly' = TRUE /\ pieces' = 0
  /\ UNCHANGED processing

\* feedData() of the next n bytes.  Past the limit everything is dropped.
Feed(n) ==
  /\ ~processing /\ n <= Len(wire)
  /\ wire' = Erase(wire, n) /\ received' = received \o SubSeq(wire, 1, n)
  /\ LET fed == buffer \o SubSeq(wire, 1, n)
     IN IF Len(fed) > 2 * MaxFrameSize
        THEN /\ parseState' = "SEEKING_START" /\ buffer' = <<>> /\ expectedLength' = 0
             /\ UNCHANGED processing
        ELSE /\ buffer' = fed /\ processing' = TRUE
             /\ UNCHANGED <<parseState, expectedLength>>
  /\ UNCHANGED <<delivered, sent, intact, orderly, pieces>>

\* processBuffer() is at the head of its loop in state st, with n bytes it needs.
At(st, n) == processing /\ parseState = st /\ buffer # <<>> /\ Len(buffer) >= n

\* Everything up to the first start marker and with it is discarded.
Seek ==
  \E pos \in Starts(buffer, 1) :
    /\ At("SEEKING_START", 4)
    /\ \A i \in Starts(buffer, 1) : pos <= i
    /\ buffer' = Erase(buffer, pos + 3)
    /\ parseState' = "READING_LENGTH"
    /\ UNCHANGED <<expectedLength, processing, delivered, peer, received>>

\* A wrong variant: all bytes are kept.
SeekFurtherKeepingAll ==
  /\ At("SEEKING_START", 1) /\ Starts(buffer, 1) = {}
  /\ processing' = FALSE
  /\ UNCHANGED <<buffer, parseState, expectedLength, delivered, peer, received>>

\* No start marker: three bytes are kept, which may begin one.
SeekFurther ==
  /\ At("SEEKING_START", 1) /\ Starts(buffer, 1) = {}
  /\ buffer' = IF Len(buffer) > 3 THEN Erase(buffer, Len(buffer) - 3) ELSE buffer
  /\ processing' = FALSE
  /\ UNCHANGED <<parseState, expectedLength, delivered, peer, received>>

ReadLength ==
  /\ At("READING_LENGTH", 4)
  /\ expectedLength' = LengthField(buffer)
  /\ buffer' = Erase(buffer, 4)
  /\ parseState' = IF expectedLength' \in 1..MaxFrameSize THEN "READING_PAYLOAD"
                                                         ELSE "SEEKING_START"
  /\ UNCHANGED <<processing, delivered, peer, received>>

ReadPayload ==
  /\ At("READING_PAYLOAD", expectedLength)
  /\ delivered' = Append(delivered, SubSeq(buffer, 1, expectedLength))
  /\ buffer' = Erase(buffer, expectedLength)
  /\ parseState' = "READING_END"
  /\ UNCHANGED <<expectedLength, processing, peer, received>>

\* A wrong variant: what is no end marker is left in the buffer.
ReadEndStrict ==
  /\ At("READING_END", 4)
  /\ buffer' = IF SubSeq(buffer, 1, 4) = EndMarker THEN Erase(buffer, 4) ELSE buffer
  /\ parseState' = "SEEKING_START"
  /\ UNCHANGED <<expectedLength, processing, delivered, peer, received>>

\* Four bytes are consumed, whether or not they are the end marker.
ReadEnd ==
  /\ At("READING_END", 4)
  /\ buffer' = Erase(buffer, 4)
  /\ parseState' = "SEEKING_START"
  /\ UNCHANGED <<expectedLength, processing, delivered, peer, received>>

\* feedData() returns: the buffer is empty, or too short for what comes next.
Needed == IF parseState = "READING_PAYLOAD" THEN expectedLength ELSE 4

Return ==
  /\ processing
  /\ buffer = <<>> \/ (parseState # "SEEKING_START" /\ Len(buffer) < Needed)
  /\ processing' = FALSE
  /\ UNCHANGED <<parseState, buffer, expectedLength, delivered, peer, received>>

Process == Seek \/ SeekFurther \/ ReadLength \/ ReadPayload \/ ReadEnd \/ Return

Next == RadioSends \/ (\E n \in 1..MaxRead : Feed(n)) \/ Process \/ Reset

Spec == Init /\ [][Next]_vars

--------------------------------------------------------------------------------
(* Properties                                                                   *)

First(S) == CHOOSE i \in S : \A j \in S : i <= j

\* What a stream of bytes says, read as a whole: from a start marker a length,
\* a payload and four more bytes, and a bad length is skipped.
Decode(s) ==
  LET From[i \in 1..(Len(s) + 8)] ==
        IF Starts(s, i) = {} THEN <<>>
        ELSE LET l == First(Starts(s, i)) + 4   \* where the length stands
                 p == l + 4                     \* where the payload begins
             IN IF p > Len(s) + 1 THEN <<>>
                ELSE LET n == LengthField(SubSeq(s, l, l + 3))
                     IN IF n \notin 1..MaxFrameSize THEN From[p]
                        ELSE IF p + n > Len(s) + 1 THEN <<>>
                        ELSE <<SubSeq(s, p, p + n - 1)>> \o From[p + n + 4]
  IN From[1]

\* What feedData() has delivered when it returns depends on the bytes of this
\* connection alone: neither on where TCP cut them, nor on an earlier connection.
DecodesStream ==
  /\ IsPrefix(delivered, Decode(received))
  /\ ~processing => delivered = Decode(received)

\* That f picks, for every payload delivered, the frame it came in: in their order, and
\* no frame twice.
Picks(f) ==
  /\ \A i \in DOMAIN f : delivered[i] = sent[f[i]]
  /\ \A i, j \in DOMAIN f : i < j => f[i] < f[j]

\* As long as the radio sends whole frames, and between them only bytes that hold no
\* start marker or a length that is refused, nothing is delivered but the payloads of
\* these frames, in their order, and every frame that ends in its end marker is
\* delivered, though others before it do not ("consume regardless - don't lose sync").
\* What becomes of a frame with a damaged end marker is left open.
InSync ==
  orderly => \E f \in [DOMAIN delivered -> DOMAIN sent] :
               /\ Picks(f)
               /\ ~processing /\ wire = <<>> =>
                    \A n \in DOMAIN sent : intact[n] => \E i \in DOMAIN f : f[i] = n

\* When feedData() returns, the next read cannot get past the limit at which the
\* parser drops everything it holds, in the middle of a frame or not.
NeverOverflows == ~processing => Len(buffer) + MaxRead <= 2 * MaxFrameSize
================================================================================
