----------------------------- MODULE FrameTables -----------------------------
(***************************************************************************)
(* The length tables of anymodbus.framer: bytes after the slave address    *)
(* and the function code, checksum included.                               *)
(***************************************************************************)
EXTENDS Integers

CrcLen  == 2
HeadLen == 2

FixedTailLumped == [fc \in {5, 6, 8, 15, 16, 22} |-> 6]

FixedTail   == [fc \in {5, 6, 8, 15, 16, 22} |-> IF fc = 22 THEN 8 ELSE 6]
ByteCount1B == {1, 2, 3, 4, 23}

RequestFixedTail       == [fc \in {1, 2, 3, 4, 5, 6, 8, 22} |-> IF fc = 22 THEN 8 ELSE 6]
RequestByteCountPrefix == [fc \in {15, 16, 23} |-> IF fc = 23 THEN 8 ELSE 4]

IsException(fc) == fc >= 128
=============================================================================
