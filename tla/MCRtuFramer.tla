---------------------------- MODULE MCRtuFramer -----------------------------
(* Small instances of RtuFramer for TLC.  The last two bytes of a frame are*)
(* its CRC; Adus lists the frames whose CRC verifies.                      *)
EXTENDS RtuFramer

(* Responses of slave 1, and one of slave 2 that looks like slave 1's from *)
(* its fourth byte on.                                                     *)
ReadReply   == <<1, 3, 2, 7, 8, 90, 91>>
WriteReply  == <<1, 6, 0, 1, 0, 2, 92, 93>>
MaskReply   == <<1, 22, 0, 1, 2, 3, 4, 5, 94, 95>>
Exception   == <<1, 131, 2, 96, 97>>
VendorReply == <<1, 65, 9, 98, 99>>
StrayReply  == <<2, 3, 2, 1, 6, 80, 81>>
Responses   == {ReadReply, WriteReply, MaskReply, Exception, VendorReply, StrayReply}

(* Requests to slave 1.                                                    *)
ReadRequest   == <<1, 3, 0, 1, 0, 2, 70, 71>>
WriteRequest  == <<1, 16, 0, 1, 0, 1, 2, 7, 8, 72, 73>>
BothRequest   == <<1, 23, 0, 1, 0, 1, 0, 1, 0, 1, 2, 7, 8, 74, 75>>
VendorRequest == <<1, 65, 9, 76, 77>>
Requests      == {ReadRequest, WriteRequest, BothRequest, VendorRequest}

ToPause(T) == {t \o <<Pause>> : t \in T}

(* A pause of the scheduler after the first n bytes of a frame.            *)
Late(t, n) == First(t, n) \o <<Pause>> \o Rest(t, n)

(* A function code without a length, a byte count out of range, too large  *)
(* and too small, a wrong address, a frame cut short.                      *)
Damaged(t, at) ==
  {[t EXCEPT ![2] = 7], [t EXCEPT ![at] = 255], [t EXCEPT ![at] = @ + 1],
   [t EXCEPT ![at] = @ - 1], [t EXCEPT ![1] = 2], First(t, Len(t) - 1)}

DamagedLine == ToPause({ReadReply, MaskReply, StrayReply} \cup Damaged(ReadReply, 3))
JitterLine ==
  ToPause({VendorReply, StrayReply} \cup
    UNION {{Late(t, n) : n \in 1..(Len(t) - 1)} :
             t \in {ReadReply, WriteReply, MaskReply, Exception}})
ServerLine ==
  ToPause(Requests \cup Damaged(WriteRequest, 7) \cup Damaged(BothRequest, 11)
            \cup {<<1>>, <<1, 3>>})
DripLine == {<<2, 3, 4>>, <<1, 65>>}
SplitStrayLine == ToPause({ReadReply, Late(StrayReply, 5)})

Client == [server |-> FALSE, address |-> 1, line |-> {}, resync |-> FALSE,
           deadlines |-> FALSE, closes |-> FALSE]

(* damage: a client with a late-reply window, and deadlines; jitter: the   *)
(* bytes of a reply come late; server: requests, some damaged; drip: a line*)
(* that never pauses; splitstray: another slave's reply comes late.        *)
SetupOf ==
  [damage     |-> [Client EXCEPT !.line = DamagedLine, !.resync = TRUE, !.deadlines = TRUE,
                                 !.closes = TRUE],
   jitter     |-> [Client EXCEPT !.line = JitterLine],
   server     |-> [Client EXCEPT !.line = ServerLine, !.server = TRUE, !.closes = TRUE],
   drip       |-> [Client EXCEPT !.line = DripLine],
   splitstray |-> [Client EXCEPT !.line = SplitStrayLine]]

AllAdus == Responses \cup Requests
=============================================================================
