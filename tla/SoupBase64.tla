----------------------------- MODULE SoupBase64 -----------------------------
(***************************************************************************)
(* soup_base64_encode (soup-misc.c) as the state machine of its loop: one  *)
(* action per pass of the three-byte loop, one for the trailing bytes and *)
(* one for the terminating NUL.  A byte is an integer 0..255; CharSigned   *)
(* says whether the build's char is signed, in which case a byte >= 0x80  *)
(* is read as byte - 256.  Shifts and masks act on the promoted int in     *)
(* two's complement, and an index outside base64_alphabet reads whatever  *)
(* precedes or follows the array (a member of Garbage).  The call starts *)
(* in phase "entry", where the argument checks and the allocation size    *)
(* are one action, Begin.                                                  *)
(***************************************************************************)
EXTENDS Integers, Sequences, Bitwise

CONSTANTS
  Inputs,       \* the byte strings the caller may pass (text, inlen)
  CharSigned,   \* TRUE when gchar is signed on this build
  Garbage       \* what an out-of-bounds read of the alphabet can yield

ASSUME /\ \A s \in Inputs : \A i \in 1..Len(s) : s[i] \in 0..255
       /\ CharSigned \in BOOLEAN
       /\ Garbage # {}

VARIABLES
  input,    \* history: the whole argument
  text,     \* the bytes from the text pointer on
  inlen,    \* the loop counter inlen
  out,      \* the bytes written at point so far
  outlen,   \* the computed allocation size minus the NUL byte
  phase     \* "entry" on the call, "loop" in the for loop, "done" on return

vars == <<input, text, inlen, out, outlen, phase>>

base64_alphabet ==
  <<"A","B","C","D","E","F","G","H","I","J","K","L","M","N","O","P","Q",
    "R","S","T","U","V","W","X","Y","Z","a","b","c","d","e","f","g","h",
    "i","j","k","l","m","n","o","p","q","r","s","t","u","v","w","x","y",
    "z","0","1","2","3","4","5","6","7","8","9","+","/","=">>

(* Two's complement on the promoted int.  Every value the loop shifts or  *)
(* masks lies in -2^11..2^12, so 16 bits give the same low bits and sign  *)
(* as the build's 32 (and stay inside TLC's own integers).                *)
U16(i) == i % 2^16
S16(u) == IF u >= 2^15 THEN u - 2^16 ELSE u
Or32(a, b) == S16(U16(a) | U16(b))
And32(a, b) == S16(U16(a) & U16(b))
Shl(a, k) == a * 2^k
Shr(a, k) == a \div 2^k          \* arithmetic shift, as gcc does for int

(* C's int division truncates toward zero.                                 *)
TDiv(a, b) == IF a >= 0 THEN a \div b ELSE -((-a) \div b)

(* The value *p has once promoted to int.                                  *)
Char(b) == IF CharSigned /\ b >= 128 THEN b - 256 ELSE b

(* base64_alphabet[i]: in bounds a letter, out of bounds any garbage.      *)
Lookups(i) == IF i \in 0..64 THEN {base64_alphabet[i + 1]} ELSE Garbage

(* inlen*4 as a 32-bit int: wraps once inlen reaches 2^29.               *)
Times4(n) == LET m == n % 2^30 IN IF m >= 2^29 THEN (m - 2^30) * 4 ELSE m * 4

(* The allocation size computed before the loop (int arithmetic).          *)
OutlenPadShort(n) ==
  TDiv(Times4(n), 3) + (IF n % 3 > 0 THEN 3 - (n % 3) ELSE 0)
Outlen(n) ==
  TDiv(Times4(n), 3) + (IF n % 3 > 0 THEN 4 - (n % 3) ELSE 0)

(* The four alphabet indices of one pass of the loop over bytes a, b, c.  *)
TripleNoMask(a, b, c) ==
  << Shr(a, 2), Or32(Shl(a, 4), Shr(b, 4)),
     Or32(And32(Shl(b, 2), 60), Shr(c, 6)), And32(c, 63) >>
Triple(a, b, c) ==
  << Shr(a, 2),
     Or32(And32(Shl(a, 4), 48), Shr(b, 4)),
     Or32(And32(Shl(b, 2), 60), Shr(c, 6)),
     And32(c, 63) >>

(* The trailing one or two bytes; the third and fourth entries of a tail  *)
(* of one byte are the literal '=' (index 64).                             *)
Trailing(a, b, n) ==
  << Shr(a, 2),
     Or32(And32(Shl(a, 4), 48), IF n = 2 THEN Shr(b, 4) ELSE 0),
     IF n = 1 THEN 64 ELSE And32(Shl(b, 2), 60),
     64 >>

(* Write the characters for a sequence of indices.                         *)
EmitAll(idx) ==
  Lookups(idx[1]) \X Lookups(idx[2]) \X Lookups(idx[3]) \X Lookups(idx[4])

(* The call soup_base64_encode (text, inlen), text non-NULL.             *)
Init ==
  \E s \in Inputs :
    /\ input = s
    /\ text = s
    /\ inlen = Len(s)
    /\ out = <<>>
    /\ outlen = 0
    /\ phase = "entry"

(* The argument checks: inlen = 0 returns the empty string at once;       *)
(* otherwise outlen is computed and the buffer allocated.                 *)
Begin ==
  /\ phase = "entry"
  /\ IF inlen = 0
     THEN /\ phase' = "done"
          /\ UNCHANGED outlen
     ELSE /\ phase' = "loop"
          /\ outlen' = Outlen(inlen)
  /\ UNCHANGED <<input, text, inlen, out>>

(* One pass of the for loop: four characters from three bytes.             *)
EncodeTriple ==
  /\ phase = "loop"
  /\ inlen >= 3
  /\ \E w \in EmitAll(Triple(Char(text[1]), Char(text[2]), Char(text[3]))) :
       out' = out \o w
  /\ text' = SubSeq(text, 4, Len(text))
  /\ inlen' = inlen - 3
  /\ UNCHANGED <<input, outlen, phase>>

(* The trailing bytes, padded with '=', then the NUL.                      *)
EncodeTail ==
  /\ phase = "loop"
  /\ inlen \in 1..2
  /\ LET b == IF inlen = 2 THEN Char(text[2]) ELSE 0
     IN \E w \in EmitAll(Trailing(Char(text[1]), b, inlen)) : out' = out \o w
  /\ phase' = "done"
  /\ UNCHANGED <<input, text, inlen, outlen>>

(* No trailing bytes: only the NUL.                                        *)
Terminate ==
  /\ phase = "loop"
  /\ inlen = 0
  /\ phase' = "done"
  /\ UNCHANGED <<input, text, inlen, out, outlen>>

Next == Begin \/ EncodeTriple \/ EncodeTail \/ Terminate

Spec == Init /\ [][Next]_vars /\ WF_vars(Next)

-----------------------------------------------------------------------------
(* Reference: RFC 4648 section 4, by 24-bit groups of plain arithmetic.   *)
Sextet(n, k) == (n \div 2^(6 * k)) % 64
RECURSIVE RFC4648(_)
RFC4648(s) ==
  IF Len(s) = 0 THEN <<>>
  ELSE LET b1 == s[1]
           b2 == IF Len(s) >= 2 THEN s[2] ELSE 0
           b3 == IF Len(s) >= 3 THEN s[3] ELSE 0
           n == b1 * 2^16 + b2 * 2^8 + b3
           used == IF Len(s) >= 3 THEN 4 ELSE Len(s) + 1
           q == [k \in 1..4 |-> IF k <= used
                                THEN base64_alphabet[Sextet(n, 4 - k) + 1]
                                ELSE "="]
       IN q \o RFC4648(SubSeq(s, 4, Len(s)))

(* The encoder returns exactly the RFC 4648 encoding of its argument; a   *)
(* byte >= 0x80 read as a negative char breaks the shifts in the loop.    *)
Base64Correct == phase = "done" => out = RFC4648(input)

(* What the loop has written, and the four bytes per remaining group it   *)
(* will write, fit in the outlen bytes the code allocated before the NUL. *)
BufferFits ==
  phase = "loop" => Len(out) + 4 * ((inlen + 2) \div 3) <= outlen

(***************************************************************************)
(* The refinement: the loop implements the one-step encoder whose result  *)
(* is the RFC 4648 encoding.  The caller sees the result once the call    *)
(* returns (phase "done") and nothing before.                             *)
(***************************************************************************)
Encoder == INSTANCE SoupBase64Encoder
             WITH Encode <- RFC4648,
                  arg <- input,
                  result <- IF phase = "done" THEN out ELSE <<>>,
                  returned <- phase = "done"

(* soup_base64_encode behaves as the atomic RFC 4648 encoder: every call  *)
(* returns, and returns exactly the encoding of its argument, for every   *)
(* length modulo 3 and every byte value.                                   *)
EncoderSpec == Encoder!Spec

=============================================================================
