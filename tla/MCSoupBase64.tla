---------------------------- MODULE MCSoupBase64 ----------------------------
(***************************************************************************)
(* Model-checking instance of SoupBase64: every string of up to four      *)
(* bytes over a set that covers each bit position in each sextet.         *)
(***************************************************************************)
EXTENDS SoupBase64

(* 0x00, 0x4D = 01001101, 0xB6 = 10110110, 0xFF.                          *)
Bytes == {0, 77, 182, 255}

(* Bytes below 0x80 only: text such as "user:password".                   *)
AsciiBytes == {0, 77, 109, 127}

Strings(B) == UNION {[1..n -> B] : n \in 0..4}

MCInputs == Strings(Bytes)

MCAsciiInputs == Strings(AsciiBytes)

====
