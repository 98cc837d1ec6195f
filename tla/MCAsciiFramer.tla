--------------------------- MODULE MCAsciiFramer ----------------------------
(* Small instances of AsciiFramer for TLC.  The last two digits of a frame *)
(* are its LRC.                                                            *)
EXTENDS AsciiFramer

Ours   == <<0, 1, 0, 3, 15, 12>>
Theirs == <<0, 2, 0, 3, 15, 11>>
Frames == {Ours, Theirs}
Whole  == {Enclosed(a) : a \in Frames}

(* Damage inside a frame: a character that is no digit, a digit lost or    *)
(* changed, a colon, CR or LF lost.                                        *)
Inside(t) ==
  {[t EXCEPT ![4] = Other], [t EXCEPT ![4] = 7], [t EXCEPT ![2] = 7],
   SubSeq(t, 1, 3) \o SubSeq(t, 5, Len(t)), SubSeq(t, 1, 3) \o SubSeq(t, 6, Len(t)),
   [t EXCEPT ![1] = Other], [t EXCEPT ![Len(t) - 1] = LF], [t EXCEPT ![Len(t)] = Other]}
CutOff(t) == {SubSeq(t, 1, n) : n \in {1, 4, Len(t) - 2, Len(t) - 1}}
DamagedLine ==
  Whole \cup UNION {Inside(t) \cup CutOff(t) : t \in Whole}
    \cup {Enclosed(<<0, 1, 0, 3, 0, 0, 0, 0, 0, 15, 12>>), <<Other, LF>>}
=============================================================================
