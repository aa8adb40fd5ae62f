----------------------------- MODULE SoupStrCase -----------------------------
(***************************************************************************)
(* soup_str_case_hash and soup_str_case_equal of soup-misc.c: the hash and *)
(* the equality a GHashTable keyed by header names is built with.  Two     *)
(* callers hash a key each, as a table does for the key it stores and the  *)
(* key it looks up; each runs the hash loop one iteration per step.        *)
(*                                                                         *)
(* A byte is an integer 0..255 and a key a sequence of non-NUL bytes.  A   *)
(* guint is kept as its two 16-bit halves, so that the shift, subtraction  *)
(* and addition wrap modulo 2^32 as the C ones do.                         *)
(***************************************************************************)
EXTENDS Integers, Sequences

CONSTANTS
  Keys,        \* the strings the callers may hash
  CharSigned   \* TRUE when char is signed on this build

ASSUME /\ Keys \subseteq Seq(1..255)
       /\ CharSigned \in BOOLEAN

Callers == {1, 2}
Two16 == 65536

VARIABLES
  key,     \* key[i]: the string caller i hashes
  p,       \* p[i]: the offset of p in key[i]
  h,       \* h[i]: the guint h, as [hi, lo]
  phase    \* phase[i]: "entry", "loop" or "done"

vars == <<key, p, h, phase>>

(* An int converted to guint: two's complement modulo 2^32.                *)
Guint(n) == [hi |-> (n \div Two16) % Two16, lo |-> n % Two16]

(* *p as an int: a byte >= 0x80 is negative where char is signed.          *)
Char(b) == IF CharSigned /\ b >= 128 THEN b - 256 ELSE b

(* toupper in the C locale: a..z to A..Z, every other value unchanged     *)
(* (glibc's table also maps -128..-1 to themselves).                      *)
toupper(c) == IF c \in 97..122 THEN c - 32 ELSE c

(* h << 5, h - x and h + x on guints.                                      *)
Shl5(x) == [hi |-> (x.hi * 32 + x.lo \div 2048) % Two16,
            lo |-> (x.lo * 32) % Two16]

GSub(x, y) == LET l == x.lo - y.lo
              IN [hi |-> (x.hi - y.hi + (IF l < 0 THEN -1 ELSE 0)) % Two16,
                  lo |-> l % Two16]

GAdd(x, y) == LET l == x.lo + y.lo
              IN [hi |-> (x.hi + y.hi + l \div Two16) % Two16,
                  lo |-> l % Two16]

(* Mutant: the byte added as it is, without toupper.                      *)
MixNoUpper(x, c) == GAdd(GSub(Shl5(x), x), Guint(Char(c)))

(* One iteration of the loop: h = (h << 5) - h + toupper of *p.         *)
Mix(x, c) == GAdd(GSub(Shl5(x), x), Guint(toupper(Char(c))))

(* soup_str_case_equal: g_strcasecmp (v1, v2) == 0, which compares the     *)
(* bytes as unsigned char after tolower in the C locale.                   *)
tolower(c) == IF c \in 65..90 THEN c + 32 ELSE c

soup_str_case_equal(v1, v2) ==
  /\ Len(v1) = Len(v2)
  /\ \A i \in 1..Len(v1) : tolower(v1[i]) = tolower(v2[i])

-----------------------------------------------------------------------------
Init ==
  /\ key \in [Callers -> Keys]
  /\ p = [i \in Callers |-> 0]
  /\ h = [i \in Callers |-> Guint(0)]
  /\ phase = [i \in Callers |-> "entry"]

(* guint h = toupper of *p; if (h) enters the loop, else h (0) is       *)
(* returned for the empty string.                                          *)
Begin(i) ==
  /\ phase[i] = "entry"
  /\ LET first == IF key[i] = <<>> THEN 0 ELSE toupper(Char(key[i][1]))
     IN /\ h' = [h EXCEPT ![i] = Guint(first)]
        /\ phase' = [phase EXCEPT ![i] = IF first # 0 THEN "loop" ELSE "done"]
  /\ UNCHANGED <<key, p>>

(* for (p += 1; *p != '\0'; p++): one iteration.                           *)
Step(i) ==
  /\ phase[i] = "loop"
  /\ p[i] + 1 < Len(key[i])
  /\ h' = [h EXCEPT ![i] = Mix(h[i], key[i][p[i] + 2])]
  /\ p' = [p EXCEPT ![i] = p[i] + 1]
  /\ UNCHANGED <<key, phase>>

(* *p == '\0': return h.                                                   *)
Return(i) ==
  /\ phase[i] = "loop"
  /\ p[i] + 1 = Len(key[i])
  /\ phase' = [phase EXCEPT ![i] = "done"]
  /\ UNCHANGED <<key, p, h>>

Next == \E i \in Callers : Begin(i) \/ Step(i) \/ Return(i)

Spec == Init /\ [][Next]_vars

-----------------------------------------------------------------------------
(***************************************************************************)
(* The GHashTable contract soup_str_case_hash and soup_str_case_equal must *)
(* keep together: keys equal but for case hash alike, so that a header     *)
(* stored as "Content-Type" is found as "content-type".                    *)
(***************************************************************************)
EqualKeysHashAlike ==
  \A i, j \in Callers :
    (phase[i] = "done" /\ phase[j] = "done"
     /\ soup_str_case_equal(key[i], key[j])) => h[i] = h[j]

=============================================================================
