---------------------------- MODULE FieldBytes ----------------------------
(***************************************************************************)
(* The original field arithmetic (src/src/x25519bench/c25519/f25519.c),    *)
(* which fe32/f25519.c replaces on the T425 and fe32/difftest.c compares   *)
(* it with: 32 bytes, one pass of carries in a 16- or 32-bit accumulator,  *)
(* then everything above bit 255 folded back by 19.                        *)
(*                                                                         *)
(* W is the byte's width, Words the number of bytes; accumulators have 2*W *)
(* and 4*W bits.                                                           *)
(***************************************************************************)
EXTENDS Integers, Sequences, SequencesExt

CONSTANTS W, Words, D

Radix     == 2^W
Bits      == W * Words
p         == 2^(Bits - 1) - D
HalfRadix == Radix \div 2

U16(c) == c % 2^(2 * W)
U32(c) == c % 2^(4 * W)

(* a * b mod p in small steps: TLC's integers have 32 bits.                *)
MulMod(a, b) == LET m == a % p IN (((m * (b \div 256)) % p) * 256 + m * (b % 256)) % p

Value(w) == FoldRight(LAMBDA d, v : v * Radix + d, w, 0)
Load(v)  == [i \in 1..Words |-> (v \div Radix^(i - 1)) % Radix]

(* The bytes in order: Sum(i, c) is the accumulator when byte i is stored; *)
(* the carry into the next byte is what is left above it.                  *)
Along(Sum(_, _), c0, n) ==
  FoldLeft(LAMBDA st, i : LET c == Sum(i, st.c)
                          IN  [w |-> Append(st.w, c % Radix), c |-> c \div Radix, last |-> c],
           [w |-> <<>>, c |-> c0, last |-> 0], [i \in 1..n |-> i])

(* Everything above the top byte's low bits, times D, added in again.      *)
Reduce(w, last, U(_)) ==
  LET r == [w EXCEPT ![Words] = @ % HalfRadix]
  IN  Along(LAMBDA i, c : U(c + r[i]), U((last \div HalfRadix) * D), Words).w

f25519_add(a, b) ==
  LET s == Along(LAMBDA i, c : U16(c + a[i] + b[i]), 0, Words)
  IN  Reduce(s.w, s.last, U16)

TwoPLow == Radix - 2 * D
TwoPRest == (Radix - 1) * Radix

f25519_sub(a, b) ==
  LET s    == Along(LAMBDA i, c : U32(c + TwoPRest + a[i] - b[i]), TwoPLow, Words - 1)
      last == U32(s.c + a[Words] - b[Words])
  IN  Reduce(Append(s.w, last % Radix), last, U32)

f25519_neg(a) ==
  LET s    == Along(LAMBDA i, c : U32(c + TwoPRest - a[i]), TwoPLow, Words - 1)
      last == U32(s.c - a[Words])
  IN  Reduce(Append(s.w, last % Radix), last, U32)

(* One column of the product, the part above 2^Bits folded by 2*D at once. *)
Column(a, b, i) ==
  FoldLeft(LAMBDA c, j : c + IF j <= i THEN a[j] * b[i - j + 1]
                             ELSE a[j] * b[i + Words - j + 1] * 2 * D,
           0, [j \in 1..Words |-> j])

f25519_mul__distinct(a, b) ==
  LET s == Along(LAMBDA i, c : U32(c + Column(a, b, i)), 0, Words)
  IN  Reduce(s.w, s.last, U32)

f25519_mul_c(a, b) ==
  LET s == Along(LAMBDA i, c : U32(c + b * a[i]), 0, Words)
  IN  Reduce(s.w, s.last, U32)

f25519_select(zero, one, condition) == IF condition = 1 THEN one ELSE zero

(* x - p is taken when the subtraction did not underflow 16 bits.          *)
f25519_normalize(x) ==
  LET w0   == Reduce(x, x[Words], U16)
      s    == Along(LAMBDA i, c : U16(c + w0[i]), D, Words - 1)
      last == U16(s.c + w0[Words] - HalfRadix)
  IN  f25519_select(Append(s.w, last % Radix), w0, last \div 2^(2 * W - 1))

----------------------------------------------------------------------------
(* The exponentiation chains, one bit of the exponent a step: square, and  *)
(* multiply by x where the bit is one.  2^255 - 21 and 2^252 - 3 are a run *)
(* of ones and 01011, 01.                                                  *)

Ones     == [i \in 1..(Bits - 1 - 7) + 1 |-> 1]
InvChain == Ones \o <<0, 1, 0, 1, 1>>
ExpChain == Ones \o <<0, 1>>

Link(s, x, bit) == LET sq == f25519_mul__distinct(s, s)
                   IN  IF bit = 1 THEN f25519_mul__distinct(sq, x) ELSE sq

(* The root of a from v = (2a)^(2^252 - 3); not normalized here.           *)
f25519_sqrt(a, v) ==
  LET x == f25519_mul_c(a, 2)
      i == f25519_sub(f25519_mul__distinct(x, f25519_mul__distinct(v, v)), Load(1))
  IN  f25519_mul__distinct(f25519_mul__distinct(v, a), i)
============================================================================
