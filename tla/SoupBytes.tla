------------------------------ MODULE SoupBytes ------------------------------
(***************************************************************************)
(* Byte-buffer primitives shared by the reader and the writer of           *)
(* soup-transfer.c, and soup_substring_index of soup-misc.c.                *)
(*                                                                         *)
(* A buffer (GByteArray) is a sequence of bytes.  A byte is a short string: *)
(* "CR" and "LF" for \r and \n, the hex digits as themselves, and any other *)
(* one-character string for an ordinary byte.  Offsets and lengths are      *)
(* the C ones (0-based), so arr->data[k] is arr[k + 1].                     *)
(***************************************************************************)
EXTENDS Integers, Sequences

CR == "CR"
LF == "LF"
CRLF == <<CR, LF>>
CRLFCRLF == <<CR, LF, CR, LF>>

(* isxdigit() and the value decode_hex gives each digit: isdigit() bytes   *)
(* are c - 0x30, the letters tolower(c) - 0x57.                            *)
HexVal == [d \in {"0","1","2","3","4","5","6","7","8","9",
                  "a","b","c","d","e","f","A","B","C","D","E","F"} |->
             CASE d = "0" -> 0  [] d = "1" -> 1  [] d = "2" -> 2
               [] d = "3" -> 3  [] d = "4" -> 4  [] d = "5" -> 5
               [] d = "6" -> 6  [] d = "7" -> 7  [] d = "8" -> 8
               [] d = "9" -> 9  [] d \in {"a","A"} -> 10
               [] d \in {"b","B"} -> 11 [] d \in {"c","C"} -> 12
               [] d \in {"d","D"} -> 13 [] d \in {"e","E"} -> 14
               [] d \in {"f","F"} -> 15]

IsXDigit(b) == b \in DOMAIN HexVal

(* The byte at C offset k, or a non-hex sentinel past the end (the scans   *)
(* below only run off the data when a CRLF stops them first).             *)
ByteAt(arr, k) == IF k \in 0..Len(arr) - 1 THEN arr[k + 1] ELSE "NUL"

(***************************************************************************)
(* soup_substring_index (str = &arr->data[off], len, substr): the first i  *)
(* in 0 .. len - sublen at which substr occurs, or -1.                     *)
(***************************************************************************)
SubstringIndex(arr, off, len, sub) ==
  LET hits == {i \in 0..(len - Len(sub)) :
                 \A j \in 1..Len(sub) : ByteAt(arr, off + i + j - 1) = sub[j]}
  IN IF hits = {} THEN -1
     ELSE CHOOSE i \in hits : \A h \in hits : i <= h

(***************************************************************************)
(* remove_block_at_index: g_return_if_fail (length != 0) leaves the array  *)
(* alone; g_assert (arr->len >= offset + length) aborts the process, which *)
(* RemoveBlockFails states; otherwise the tail is moved down over the      *)
(* block and the array shrinks by length.                                  *)
(***************************************************************************)
RemoveBlockFails(arr, offset, length) ==
  length # 0 /\ Len(arr) < offset + length

(* Mutant: the tail is moved down one byte short, keeping the block's last *)
(* byte.                                                                   *)
RemoveBlockAtIndexKeepsOne(arr, offset, length) ==
  IF length = 0 THEN arr
  ELSE SubSeq(arr, 1, offset) \o SubSeq(arr, offset + length, Len(arr))

RemoveBlockAtIndex(arr, offset, length) ==
  IF length = 0 THEN arr
  ELSE SubSeq(arr, 1, offset) \o SubSeq(arr, offset + length + 1, Len(arr))

(***************************************************************************)
(* decode_hex (src = &arr->data[p], &width): width counts the leading hex  *)
(* digits, and the value adds digit << 4*j for the j-th digit from the     *)
(* right, into a gint.  An eighth digit of 8 or more sets the sign bit:   *)
(* the sum wraps negative (gcc's two's complement).  A ninth digit would  *)
(* shift by 32 or more, which C leaves undefined; no modelled message has *)
(* more than eight digits.                                                 *)
(***************************************************************************)
RECURSIVE HexWidth(_, _)
HexWidth(arr, p) ==
  IF IsXDigit(ByteAt(arr, p)) THEN 1 + HexWidth(arr, p + 1) ELSE 0

RECURSIVE Pow16(_)
Pow16(j) == IF j = 0 THEN 1 ELSE 16 * Pow16(j - 1)

(* The digits of the w-digit number at p from the j-th (from the right)   *)
(* down, each shifted by 4*j.                                              *)
(* digit << 4*j as a gint, for j in 0..7: at j = 7 bit 31 is the sign.   *)
HexTerm(d, j) ==
  IF j = 7 /\ d >= 8 THEN (d - 8) * Pow16(7) - 2^30 - 2^30 ELSE d * Pow16(j)

RECURSIVE HexSum(_, _, _, _)
HexSum(arr, p, w, j) ==
  IF j < 0 THEN 0
  ELSE HexTerm(HexVal[ByteAt(arr, p + w - 1 - j)], j) + HexSum(arr, p, w, j - 1)

DecodeHexOf(arr, p, w) == [width |-> w, value |-> HexSum(arr, p, w, w - 1)]

DecodeHex(arr, p) == DecodeHexOf(arr, p, HexWidth(arr, p))

=============================================================================
