----------------------------- MODULE AsciiFramer -----------------------------
(***************************************************************************)
(* anymodbus.framer_ascii: reading ASCII frames off a byte stream, one     *)
(* character at a time: a colon, pairs of hex digits, CR LF.  A client     *)
(* reads a response of one slave (read_adu), a server a request to any     *)
(* (read_request_adu).  Nothing here depends on time but the deadline of   *)
(* the caller, so the line is just the characters still to be received.    *)
(***************************************************************************)
EXTENDS Integers, Sequences

CONSTANTS
  Address,       \* client: expected_slave_address
  Adus,          \* the digit sequences whose LRC verifies
  Transmissions, \* what stations and damage put on the line
  MaxHexChars    \* _MAX_ASCII_HEX_CHARS

Hex   == 0..15
Colon == 16
CR    == 17
LF    == 18
Other == 19
Chars == 0..19

ASSUME AsciiAssumption ==
  /\ Address \in 0..255
  /\ Adus \subseteq Seq(Hex) /\ Transmissions \subseteq Seq(Chars)
  /\ MaxHexChars \in Nat

VARIABLES
  server, \* the reader takes requests, not responses; it does not change
  line,   \* what is still to be received
  eof,    \* the stream ends after it
  mode,   \* what the reader looks for: "seek" a colon, the "body" or its "lf"
  frame,  \* the digits of the frame it is reading
  begun,  \* the colon that frame began with
  last,   \* the last character received
  result  \* how the last read ended

vars == <<server, line, eof, mode, frame, begun, last, result>>

Modes   == {"idle", "seek", "body", "lf"}
Results == {"none", "ok", "lrc", "frame", "timeout", "eof"}

(* A character; whether it is the first of a transmission, and whether that*)
(* is a whole, undamaged frame.                                            *)
Token   == [c : Chars, start : BOOLEAN, whole : BOOLEAN]
NoToken == [c |-> Other, start |-> FALSE, whole |-> FALSE]

MinRawLen == 3
Enclosed(s) == <<Colon>> \o s \o <<CR, LF>>
RawLen(s)   == Len(s) \div 2
RawFirst(s) == 16 * s[1] + s[2]

-----------------------------------------------------------------------------
(* The reader                                                              *)

Finish(outcome) == mode' = "idle" /\ result' = outcome

Start ==
  /\ mode = "idle" /\ ~(server /\ result = "eof")
  /\ mode' = "seek" /\ frame' = <<>> /\ begun' = NoToken /\ result' = "none"
  /\ UNCHANGED <<server, line, eof, last>>

(* One character is received.                                              *)
Receive ==
  /\ line # <<>>
  /\ line' = Tail(line) /\ last' = Head(line)
  /\ UNCHANGED <<server, eof>>

(* Whatever comes before a colon is dropped.                               *)
Seek ==
  /\ mode = "seek" /\ Receive
  /\ IF last'.c = Colon THEN mode' = "body" /\ frame' = <<>> /\ begun' = last'
     ELSE UNCHANGED <<mode, frame, begun>>
  /\ UNCHANGED result

TooLongNever(s) == FALSE

TooLong(s) == Len(s) > MaxHexChars

RejectsAllButSpace(c) == c \notin Hex \cup {CR, LF}

Rejects(c) == c \notin Hex \cup {CR}

(* Digits are kept up to CR; anything else, or too many, ends the read.    *)
ReadBody ==
  /\ mode = "body" /\ Receive
  /\ frame' = IF last'.c \in Hex THEN Append(frame, last'.c) ELSE frame
  /\ IF last'.c = CR THEN mode' = "lf" /\ UNCHANGED result
     ELSE IF Rejects(last'.c) \/ TooLong(frame') THEN Finish("frame")
     ELSE UNCHANGED <<mode, result>>
  /\ UNCHANGED begun

UnreadableIfShortest(s) == Len(s) % 2 = 1 \/ RawLen(s) <= MinRawLen

Unreadable(s) == Len(s) % 2 = 1 \/ RawLen(s) < MinRawLen

NotForUs(s) == ~server /\ RawFirst(s) # Address

(* A frame for another slave is skipped before its LRC is judged.          *)
ReadLf ==
  /\ mode = "lf" /\ Receive
  /\ IF last'.c # LF \/ Unreadable(frame) THEN Finish("frame")
     ELSE IF NotForUs(frame) THEN mode' = "seek" /\ UNCHANGED result
     ELSE Finish(IF frame \in Adus THEN "ok" ELSE "lrc")
  /\ UNCHANGED <<frame, begun>>

(* receive raises EndOfStream: within a frame that is a FrameError.        *)
EndOfStream ==
  /\ eof /\ line = <<>> /\ mode # "idle"
  /\ Finish(IF mode = "seek" THEN "eof" ELSE "frame")
  /\ UNCHANGED <<server, line, eof, frame, begun, last>>

Expire ==
  /\ ~server /\ mode # "idle"
  /\ Finish("timeout")
  /\ UNCHANGED <<server, line, eof, frame, begun, last>>

-----------------------------------------------------------------------------
(* The line                                                                *)

Marked(t) ==
  LET whole == \E a \in Adus : t = Enclosed(a) IN
  [i \in DOMAIN t |-> [c |-> t[i], start |-> i = 1, whole |-> whole]]

Transmit(t) ==
  /\ line = <<>> /\ ~eof
  /\ line' = Marked(t)
  /\ UNCHANGED <<server, eof, mode, frame, begun, last, result>>

(* The stream ends, perhaps in the middle of a frame.                      *)
CloseLine ==
  /\ ~eof
  /\ eof' = TRUE /\ line' \in {line, <<>>}
  /\ UNCHANGED <<server, mode, frame, begun, last, result>>

-----------------------------------------------------------------------------
Init ==
  /\ server \in BOOLEAN
  /\ line = <<>> /\ eof = FALSE /\ mode = "idle" /\ frame = <<>>
  /\ begun = NoToken /\ last = NoToken /\ result = "none"

Next ==
  \/ Start \/ Seek \/ ReadBody \/ ReadLf \/ EndOfStream \/ Expire
  \/ CloseLine \/ \E t \in Transmissions : Transmit(t)

Spec == Init /\ [][Next]_vars

-----------------------------------------------------------------------------
(* Properties                                                              *)

(* Values of their kinds; a station that never sends CR LF cannot make the *)
(* reader keep more than one digit past the longest frame.                 *)
TypeOK ==
  /\ server \in BOOLEAN /\ line \in Seq(Token) /\ eof \in BOOLEAN
  /\ mode \in Modes /\ result \in Results
  /\ frame \in Seq(Hex) /\ Len(frame) <= MaxHexChars + 1
  /\ begun \in Token /\ last \in Token

(* A read that finds the colon of an undamaged frame for this reader       *)
(* returns that frame, whatever was on the line before it: only the        *)
(* deadline or the end of the stream can cut it short.                     *)
WholeFrameAccepted == result = "lrc" \/ (result = "frame" /\ ~eof) => ~begun.whole

(* A frame damaged inside, or one for another slave, costs no other: no    *)
(* colon of an undamaged frame is taken for a part of what came before it, *)
(* unless that was cut off before its CR LF; then the read ends with it    *)
(* and the frame after is safe (read_ascii_frame).                         *)
DamageCostsOneFrame ==
  [][last' # last /\ last'.start /\ last'.whole =>
       mode = "seek" \/ (last.c \in Hex \cup {Colon, CR} /\ mode' = "idle")]_vars
=============================================================================
