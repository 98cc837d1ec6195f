------------------------------ MODULE RtuFramer ------------------------------
(***************************************************************************)
(* anymodbus.framer: reading RTU frames off a byte stream.  A client reads *)
(* a response of one slave (_read_raw_adu), a server a request to any      *)
(* (_read_raw_request_adu).                                                *)
(*                                                                         *)
(* The line carries bytes and pauses, a pause being a silence of at least  *)
(* the idle gap.  Bytes arrive one at a time; a receive takes what has     *)
(* arrived, up to the number of bytes it asks for.                         *)
(***************************************************************************)
EXTENDS Integers, Sequences, FiniteSets, FrameTables

CONSTANTS
  Setups,       \* the readers and lines examined, by name
  Setup,        \* name -> [server, address, line, resync, deadlines, closes]
  Adus,         \* the byte sequences whose CRC verifies
  MaxByteCount, \* _MAX_BYTE_COUNT
  MaxTail,      \* _MAX_TAIL_BYTES
  BufferMax     \* bound: bytes that have arrived and are not received

Byte  == 0..255
Pause == -1

ASSUME FramerAssumption ==
  /\ \A n \in Setups :
       /\ Setup[n].address \in Byte
       /\ Setup[n].line \subseteq Seq(Byte \cup {Pause})
       /\ {Setup[n].server, Setup[n].resync, Setup[n].deadlines, Setup[n].closes} \subseteq BOOLEAN
  /\ Adus \subseteq Seq(Byte)
  /\ BufferMax \in Nat \ {0} /\ MaxByteCount \in Nat /\ MaxTail \in Nat
  /\ MaxTail >= 8 /\ MaxTail >= MaxByteCount + 3

VARIABLES
  setup,  \* the setup examined; it does not change
  wire,   \* what is still to arrive
  buffer, \* bytes that have arrived and are not received
  mode,   \* what the reader awaits: see below
  frame,  \* the bytes it has received for the frame it is reading
  result, \* how the last read ended
  eof     \* the stream has ended, after what is on the wire

vars == <<setup, wire, buffer, mode, frame, result, eof>>

Server    == Setup[setup].server    \* reading requests; otherwise responses
Address   == Setup[setup].address   \* client: expected_slave_address
Resync    == Setup[setup].resync    \* client: the bus discards after a failed attempt
Deadlines == Setup[setup].deadlines \* client: the caller's deadline may end a read
Closes    == Setup[setup].closes    \* the stream may end

(* "exact": a number of bytes; "gap": the rest of a frame whose length is  *)
(* not known; "stray": the rest of another slave's frame; "drain": silence.*)
Modes   == {"idle", "exact", "gap", "stray", "drain"}
Results == {"none", "ok", "crc", "frame", "protocol", "timeout", "eof"}
Errors  == {"crc", "frame", "protocol"}

(* A byte or pause on the wire; whether it is the first of a transmission, *)
(* and whether that transmission is a whole, undamaged frame.              *)
Token == [b : Byte \cup {Pause}, start : BOOLEAN, whole : BOOLEAN]

Lower(a, b) == IF a < b THEN a ELSE b
First(s, n) == SubSeq(s, 1, n)
Rest(s, n)  == SubSeq(s, n + 1, Len(s))
IsByte(x)   == x # Pause
Bytes(f)    == [i \in DOMAIN f |-> f[i].b]

-----------------------------------------------------------------------------
(* How long a frame is                                                     *)

HasLength(fc) ==
  IF Server THEN fc \in DOMAIN RequestFixedTail \cup DOMAIN RequestByteCountPrefix
  ELSE IsException(fc) \/ fc \in ByteCount1B \cup DOMAIN FixedTail

(* Where the byte count of a frame is, if it has one; otherwise 0.         *)
CountAt(fc) ==
  IF Server THEN IF fc \in DOMAIN RequestByteCountPrefix
                 THEN HeadLen + RequestByteCountPrefix[fc] + 1 ELSE 0
  ELSE IF fc \in ByteCount1B THEN HeadLen + 1 ELSE 0

FixedLength(fc) ==
  HeadLen + (IF Server THEN RequestFixedTail[fc]
             ELSE IF IsException(fc) THEN 1 + CrcLen ELSE FixedTail[fc])

(* How far the reader reads before it decides again.                       *)
Target(s) ==
  IF Len(s) < HeadLen THEN HeadLen
  ELSE LET at == CountAt(s[2]) IN
       IF at = 0 THEN FixedLength(s[2])
       ELSE IF Len(s) < at THEN at
       ELSE at + s[at] + CrcLen

CountNeverTooLarge(s) == FALSE

CountTooLarge(s) ==
  LET at == CountAt(s[2]) IN at # 0 /\ Len(s) >= at /\ s[at] > MaxByteCount

VerifyCrc(s) == s \in Adus

(* What becomes of a read that has received the bytes s.                   *)
NextMode(s) ==
  IF Len(s) < HeadLen THEN "exact"
  ELSE IF ~Server /\ s[1] # Address THEN "stray"
  ELSE IF ~Server /\ s[2] = 0 THEN "protocol"
  ELSE IF ~HasLength(s[2]) THEN "gap"
  ELSE IF CountTooLarge(s) THEN "frame"
  ELSE IF Len(s) < Target(s) THEN "exact"
  ELSE IF VerifyCrc(s) THEN "ok"
  ELSE "crc"

(* What becomes of a frame read to the idle gap.                           *)
GapResult(s) ==
  IF Len(s) < HeadLen + CrcLen THEN "frame"
  ELSE IF VerifyCrc(s) THEN "ok"
  ELSE "crc"

-----------------------------------------------------------------------------
(* The reader                                                              *)

Await(m) == mode' = m /\ UNCHANGED result

FinishUndrained(outcome, drain) == mode' = "idle" /\ result' = outcome

(* A server drains the line to a pause before it raises.                   *)
Finish(outcome, drain) ==
  /\ mode' = IF drain THEN "drain" ELSE "idle"
  /\ result' = outcome

(* The attempts after which the bus opens a late-reply window.             *)
MayLeaveBytes(outcome) == outcome \in Errors \cup {"timeout"}

(* A call of read_adu or read_request_adu.  Before it, the bus discards    *)
(* what a failed attempt may have left (Bus._discard_late_bytes).          *)
Start ==
  /\ mode = "idle" /\ ~(Server /\ result = "eof")
  /\ mode' = IF ~Server /\ Resync /\ MayLeaveBytes(result) THEN "drain" ELSE "exact"
  /\ frame' = <<>> /\ result' = "none"
  /\ UNCHANGED <<setup, wire, buffer, eof>>

(* _read_exact, and the decision on what it returns.                       *)
ReceiveExact ==
  /\ mode = "exact" /\ buffer # <<>>
  /\ LET n == Lower(Len(buffer), Target(Bytes(frame)) - Len(frame))
         f == frame \o First(buffer, n)
         m == NextMode(Bytes(f))
     IN /\ frame' = f /\ buffer' = Rest(buffer, n)
        /\ IF m \in Modes THEN Await(m)
           ELSE Finish(m, Server /\ m \in {"crc", "frame"})
  /\ UNCHANGED <<setup, wire, eof>>

(* The end of _read_until_idle: the frame is judged, or a stray one        *)
(* forgotten and the next one read.                                        *)
EndIdle(f) ==
  IF mode = "stray" THEN frame' = <<>> /\ Await("exact")
  ELSE /\ frame' = f
       /\ LET r == GapResult(Bytes(f)) IN Finish(r, Server /\ r = "crc")

FullNever(f) == FALSE

Full(f) == Len(f) = HeadLen + MaxTail

ReceiveUntilIdle ==
  /\ mode \in {"gap", "stray"} /\ buffer # <<>>
  /\ LET n == Lower(Len(buffer), HeadLen + MaxTail - Len(frame))
         f == frame \o First(buffer, n)
     IN /\ buffer' = Rest(buffer, n)
        /\ IF Full(f) THEN EndIdle(f) ELSE frame' = f /\ Await(mode)
  /\ UNCHANGED <<setup, wire, eof>>

ReceiveDrain ==
  /\ mode = "drain" /\ buffer # <<>>
  /\ buffer' = <<>>
  /\ UNCHANGED <<setup, wire, mode, frame, result, eof>>

(* The end of a drain: the server's read raises, the client's starts.      *)
EndDrain ==
  /\ mode' = IF Server THEN "idle" ELSE "exact"
  /\ UNCHANGED <<frame, result>>

WaitsUnlessStray == mode = "drain" \/ (mode = "gap" /\ Len(frame) > HeadLen)

(* The receive is under move_on_after(gap); the first one of               *)
(* _read_until_idle is not.                                                *)
WaitsForGap == mode = "drain" \/ (mode \in {"gap", "stray"} /\ Len(frame) > HeadLen)

GapOver ==
  /\ WaitsForGap /\ buffer = <<>>
  /\ wire # <<>> => ~IsByte(Head(wire).b)
  /\ IF mode = "drain" THEN EndDrain ELSE EndIdle(frame)
  /\ UNCHANGED <<setup, wire, buffer, eof>>

(* receive raises EndOfStream.  Between requests that is a clean end.      *)
EndOfStream ==
  /\ eof /\ wire = <<>> /\ buffer = <<>> /\ mode # "idle"
  /\ CASE mode = "exact" -> /\ Finish(IF Server /\ frame = <<>> THEN "eof" ELSE "frame", FALSE)
                            /\ UNCHANGED frame
       [] mode = "drain" -> IF Server THEN EndDrain ELSE Finish("eof", FALSE) /\ UNCHANGED frame
       [] OTHER          -> EndIdle(frame)
  /\ UNCHANGED <<setup, wire, buffer, eof>>

(* The caller's deadline; what was received is lost.                       *)
Expire ==
  /\ Deadlines /\ ~Server /\ mode \notin {"idle", "drain"}
  /\ Finish("timeout", FALSE)
  /\ UNCHANGED <<setup, wire, buffer, frame, eof>>

-----------------------------------------------------------------------------
(* The line                                                                *)

BytesIn(t, k) == Cardinality({i \in 1..k : IsByte(t[i])})

(* Without its pauses, t is the frame a.                                   *)
Carries(t, a) ==
  /\ Len(a) = BytesIn(t, Len(t))
  /\ \A k \in DOMAIN t : IsByte(t[k]) => t[k] = a[BytesIn(t, k)]

Marked(t) ==
  LET whole == \E a \in Adus : Carries(t, a) IN
  [i \in DOMAIN t |-> [b |-> t[i], start |-> i = 1, whole |-> whole]]

Transmit(t) ==
  /\ wire = <<>> /\ ~eof
  /\ wire' = Marked(t)
  /\ UNCHANGED <<setup, buffer, mode, frame, result, eof>>

Arrive ==
  /\ wire # <<>> /\ IsByte(Head(wire).b) /\ Len(buffer) < BufferMax
  /\ buffer' = Append(buffer, Head(wire)) /\ wire' = Tail(wire)
  /\ UNCHANGED <<setup, mode, frame, result, eof>>

(* The reader is scheduled within a pause: it sees the silence.            *)
PauseOver ==
  /\ wire # <<>> /\ ~IsByte(Head(wire).b)
  /\ buffer = <<>> /\ ~WaitsForGap
  /\ wire' = Tail(wire)
  /\ UNCHANGED <<setup, buffer, mode, frame, result, eof>>

CloseLine ==
  /\ Closes /\ ~eof
  /\ eof' = TRUE
  /\ UNCHANGED <<setup, wire, buffer, mode, frame, result>>

-----------------------------------------------------------------------------
Init ==
  /\ setup \in Setups
  /\ wire = <<>> /\ buffer = <<>> /\ frame = <<>>
  /\ mode = "idle" /\ result = "none" /\ eof = FALSE

ReaderStep ==
  Start \/ ReceiveExact \/ ReceiveUntilIdle \/ ReceiveDrain \/ GapOver \/ EndOfStream
LineStep == (\E t \in Setup[setup].line : Transmit(t)) \/ Arrive \/ PauseOver

Next == ReaderStep \/ Expire \/ LineStep \/ CloseLine

Spec == Init /\ [][Next]_vars

(* The reader is scheduled, and the line never falls silent for good.      *)
BusyLineSpec == Spec /\ WF_vars(ReaderStep) /\ WF_vars(LineStep)
-----------------------------------------------------------------------------
(* Properties                                                              *)

Longest == HeadLen + (IF Server THEN 9 + MaxByteCount + CrcLen ELSE MaxTail)

(* Values of their kinds, and a frame never longer than an ADU can be: a   *)
(* damaged byte count or a station that never pauses cannot make it grow.  *)
TypeOK ==
  /\ setup \in Setups /\ wire \in Seq(Token) /\ eof \in BOOLEAN
  /\ \A f \in {buffer, frame} : f \in Seq(Token) /\ \A i \in DOMAIN f : IsByte(f[i].b)
  /\ mode \in Modes /\ result \in Results
  /\ Len(frame) <= IF HeadLen + MaxTail > Longest THEN HeadLen + MaxTail ELSE Longest

(* A read that begins at the first byte of an undamaged frame returns it:  *)
(* however it is cut into chunks, and however its length is told.          *)
WholeFrameAccepted ==
  result \in Errors /\ frame # <<>> => ~(frame[1].start /\ frame[1].whole)

(* After a failed read, a server or a client that resynchronises begins at *)
(* the start of a transmission and not inside what the failure left.       *)
StartsAtBoundary == (Server \/ Resync) /\ frame # <<>> => frame[1].start

(* Draining another slave's frame takes nothing of the awaited reply.      *)
StraySparesReply ==
  mode = "stray" =>
    \A i \in 2..Len(frame) :
      ~(frame[i].start /\ frame[i].whole /\ frame[i].b = Address)

(* Reading until the line is idle ends, even if it never is.               *)
GapReadEnds == mode \in {"gap", "stray"} ~> mode \notin {"gap", "stray"}
=============================================================================
