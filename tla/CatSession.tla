------------------------------- MODULE CatSession ------------------------------
(* core/src/network/cat_server.cpp: what one client of the CAT server says and  *)
(* is answered.  TCP cuts its bytes anywhere; the handler gathers them in a     *)
(* buffer, takes the commands out of it, and answers each or forwards it to the *)
(* radio.  CatServer has the threads and descriptors, of which Receive(h) is    *)
(* what is told here in full.                                                   *)
(*                                                                              *)
(* A byte is a character.  Of the values that are answered there is left the    *)
(* number of the mode, whose numbering differs between the radio and the code.  *)
EXTENDS Integers, Sequences, SequencesExt

CONSTANTS Letters,    \* characters, without the ";" that ends a command
          Controls,   \* the commands that set something in the radio: the code has no
                      \* list of them
          Pieces,     \* what a client may send at a time: one command, or bytes without end
          MaxCmd,     \* MAX_CMD_LENGTH, with the ";"
          MaxRead,    \* length of the buffer of clientHandler(), less one
          MaxPieces   \* bound on the pieces of a session

Chars == Letters \cup {";"}

ASSUME Client ==
  /\ Pieces \subseteq Seq(Chars) /\ Controls \subseteq Seq(Chars) /\ ";" \notin Letters
  /\ MaxCmd \in Nat \ 0..2 /\ MaxRead \in Nat \ {0} /\ MaxPieces \in Nat

MaxBuffer == MaxCmd * 4

VARIABLES
  stage,       \* "recv", or "lines": commands are taken out of the buffer
  lineBuffer,
  wire,        \* bytes sent and not yet read
  received,    \* bytes read
  pieces,      \* pieces sent
  replies,     \* what the client was answered, in order
  forwarded,   \* what the radio was given, in order
  attached,    \* m_radioState is not null
  sink,        \* m_sendToRadioCb is set
  mode,        \* RadioState's mode of VFO A, a qk4_mode_t
  number       \* the number with which the radio has reported that mode

client      == <<wire, received, pieces>>
radio       == <<attached, sink, mode, number>>
sessionVars == <<stage, lineBuffer, client, replies, forwarded, radio>>

RadioNumbers == {1, 2, 3, 4, 5, 6, 7, 9}

\* parseCatCommand(): the mode that a number of the radio stands for.
Mapped == [n \in RadioNumbers |-> IF n = 9 THEN 5 ELSE <<0, 1, 2, 7, 6, 4, 3>>[n]]

\* A wrong variant: AM and FM in the order of the radio.
ModeNumberSwapped(m) == <<1, 2, 3, 7, 6, 9, 4, 5>>[m + 1]

\* modeMap of handleQuery().
ModeNumber(m) == <<1, 2, 3, 7, 6, 9, 5, 4>>[m + 1]

SessionInit ==
  /\ stage = "recv" /\ lineBuffer = <<>>
  /\ wire = <<>> /\ received = <<>> /\ pieces = 0
  /\ replies = <<>> /\ forwarded = <<>>
  /\ attached \in BOOLEAN /\ sink \in BOOLEAN
  /\ number = 2 /\ mode = Mapped[2]

--------------------------------------------------------------------------------
(* The handler                                                                  *)

\* recv() of the next n bytes.
Read(n) ==
  /\ stage = "recv" /\ n <= Len(wire)
  /\ wire' = SubSeq(wire, n + 1, Len(wire))
  /\ received' = received \o SubSeq(wire, 1, n)
  /\ lineBuffer' = lineBuffer \o SubSeq(wire, 1, n)
  /\ stage' = "lines"
  /\ UNCHANGED <<pieces, replies, forwarded, radio>>

\* Where commands in the buffer end.
Terminators == {i \in 1..Len(lineBuffer) : lineBuffer[i] = ";"}

Queries == {"FA", "FB", "MD", "SM", "TQ", "PC", "IF"}
Asks(c) == IF Len(c) = 3 THEN c[1] \o c[2] ELSE ""

Replies == [kind : Queries \cup {"?", "?N"}, mode : 0..9]
Reply(kind) == [kind |-> kind, mode |-> IF kind = "MD" THEN ModeNumber(mode)
                                        ELSE IF kind = "IF" THEN mode + 1 ELSE 0]

Tell(kind) == replies' = Append(replies, Reply(kind)) /\ UNCHANGED forwarded
Proper(c) == Len(c) \in 3..MaxCmd

\* A command that is too long is refused, and any other goes to handleQuery(): too short,
\* no RadioState, a query with a known prefix, or something for the radio, if it can be
\* told.
Execute(cmd) ==
  \/ ~Proper(cmd) /\ Tell("?")
  \/ Proper(cmd) /\ ~attached /\ Tell("?N")
  \/ Proper(cmd) /\ attached /\ Asks(cmd) \in Queries /\ Tell(Asks(cmd))
  \/ /\ Proper(cmd) /\ attached /\ Asks(cmd) \notin Queries
     /\ IF sink THEN forwarded' = Append(forwarded, cmd) /\ UNCHANGED replies
                ELSE Tell("?")

\* The first command in the buffer.
Handle ==
  \E pos \in Terminators :
    /\ stage = "lines" /\ \A i \in Terminators : pos <= i
    /\ Execute(SubSeq(lineBuffer, 1, pos))
    /\ lineBuffer' = SubSeq(lineBuffer, pos + 1, Len(lineBuffer))
    /\ UNCHANGED <<stage, client, radio>>

\* A wrong variant: no more is kept than one command may have.
OverflowAtOneCommand ==
  /\ stage = "lines" /\ Terminators = {}
  /\ lineBuffer' = IF Len(lineBuffer) > MaxCmd THEN <<>> ELSE lineBuffer
  /\ stage' = "recv"
  /\ UNCHANGED <<client, replies, forwarded, radio>>

\* A wrong variant: everything is kept.
OverflowNever ==
  /\ stage = "lines" /\ Terminators = {}
  /\ stage' = "recv"
  /\ UNCHANGED <<lineBuffer, client, replies, forwarded, radio>>

\* No command is left.  The beginning of one is kept, up to a limit.
Overflow ==
  /\ stage = "lines" /\ Terminators = {}
  /\ lineBuffer' = IF Len(lineBuffer) > MaxBuffer THEN <<>> ELSE lineBuffer
  /\ stage' = "recv"
  /\ UNCHANGED <<client, replies, forwarded, radio>>

--------------------------------------------------------------------------------
(* The client and the radio                                                     *)

Send(p) ==
  /\ pieces < MaxPieces /\ pieces' = pieces + 1
  /\ wire' = wire \o p
  /\ UNCHANGED <<stage, lineBuffer, received, replies, forwarded, radio>>

\* The radio reports its mode (MD).
ReportMode(n) ==
  /\ number' = n /\ mode' = Mapped[n]
  /\ UNCHANGED <<stage, lineBuffer, client, replies, forwarded, attached, sink>>

SessionNext ==
  \/ \E p \in Pieces : Send(p)
  \/ \E n \in 1..MaxRead : Read(n)
  \/ Handle \/ Overflow
  \/ \E n \in RadioNumbers : ReportMode(n)

SessionSpec == SessionInit /\ [][SessionNext]_sessionVars

--------------------------------------------------------------------------------
(* Properties                                                                   *)

\* Types, and the limit of the line buffer: what is kept between reads, and during one.
SessionTypeOK ==
  /\ stage \in {"recv", "lines"}
  /\ lineBuffer \in Seq(Chars)
  /\ Len(lineBuffer) <= MaxBuffer + IF stage = "recv" THEN 0 ELSE MaxRead
  /\ wire \in Seq(Chars) /\ received \in Seq(Chars)
  /\ pieces \in 0..MaxPieces
  /\ replies \in Seq(Replies)
  /\ forwarded \in Seq(Seq(Chars))
  /\ {attached, sink} \subseteq BOOLEAN /\ mode \in 0..7 /\ number \in RadioNumbers

\* The radio is given what is well formed and no query; all else is answered.  A command
\* that is no control of the radio's may be refused instead, the same way as one that is
\* too long: the code gives it to the radio, and tells the client nothing.
IsForRadio(refusing, c) ==
  /\ attached /\ sink /\ Len(c) \in 3..MaxCmd
  /\ Len(c) > 3 \/ c[1] \o c[2] \notin Queries
  /\ refusing => c \in Controls
Kind(c) ==
  IF Len(c) \in 3..MaxCmd /\ ~attached THEN "?N"
  ELSE IF attached /\ Len(c) = 3 /\ c[1] \o c[2] \in Queries THEN c[1] \o c[2] ELSE "?"

\* What a stream of bytes says, read as a whole: command after command, each up to its
\* ";", is for the radio or is answered, and what follows the last one is kept.
Ends(s) == {i \in DOMAIN s : s[i] = ";"}
FirstEnd(s) == CHOOSE i \in Ends(s) : \A j \in Ends(s) : i <= j

Heard(refusing) ==
  LET Rest[s \in Seq(Chars)] ==
        IF Ends(s) = {} THEN [kept |-> s, radio |-> <<>>, told |-> <<>>]
        ELSE LET c     == SubSeq(s, 1, FirstEnd(s))
                 after == Rest[SubSeq(s, FirstEnd(s) + 1, Len(s))]
             IN [kept  |-> after.kept,
                 radio |-> IF IsForRadio(refusing, c) THEN <<c>> \o after.radio ELSE after.radio,
                 told  |-> IF IsForRadio(refusing, c) THEN after.told
                                                     ELSE <<Kind(c)>> \o after.told]
  IN Rest

\* More bytes without an end than the buffer may keep.
Endless(s) == \E i \in 0..(Len(s) - MaxBuffer - 1) : \A j \in 1..(MaxBuffer + 1) : s[i + j] # ";"

\* However TCP cuts what a client sends: when a read has been worked off, each command
\* has been answered or forwarded, once, in order, every query with the answer that
\* belongs to it, every control of the radio's given to the radio, and the beginning of
\* the next command is kept.  Unless more than the limit of the buffer comes without an
\* end.  Whether a command that the radio does not know is refused is left open, and so
\* is what a client should be told when the radio is lost: the code only tests for
\* a RadioState.
AnswersStream ==
  stage = "recv" /\ ~Endless(received) =>
    \E refusing \in BOOLEAN :
      Heard(refusing)[received] = [kept |-> lineBuffer, radio |-> forwarded,
                                   told |-> [i \in DOMAIN replies |-> replies[i].kind]]

Answered == replies' # replies

\* A client that asks for the mode is told the number the radio itself has for it, though
\* the number goes through the code's own numbering, by two tables in two files.
ModeAsReported ==
  [][Answered /\ Last(replies').kind = "MD" => Last(replies').mode = number]_sessionVars
================================================================================
