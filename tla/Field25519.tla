---------------------------- MODULE Field25519 ----------------------------
(***************************************************************************)
(* The field arithmetic of the T425's X25519 and Ed25519 servers           *)
(* (src/src/x25519bench/fe32/f25519.c): numbers modulo p = 2^255 - 19 in   *)
(* eight 32-bit words, with carries and borrows folded back by             *)
(* 2^256 = 38 (mod p).                                                     *)
(*                                                                         *)
(* The code is generic in all three numbers, so they are parameters: Words *)
(* words of W bits, p = 2^(W*Words - 1) - D, folding by 2*D.  The code's   *)
(* are 8, 32 and 19.  Every loop over the words, every carry and every     *)
(* truncation is the code's; a number is the sequence of its words, least  *)
(* significant first, which is what load and store convert bytes to and    *)
(* from.                                                                   *)
(***************************************************************************)
EXTENDS Integers, Sequences, SequencesExt

CONSTANTS W, Words, D

Radix == 2^W
Bits  == W * Words
p     == 2^(Bits - 1) - D

(* One final carry of a product, times 2*D, fits a word: the fold drops    *)
(* nothing.  With the code's numbers 38 * 38 < 2^32.                       *)
FieldSized ==
  /\ W \in Nat \ {0} /\ Words \in Nat \ {0} /\ D \in Nat \ {0}
  /\ 2 * D * (2 * D) < Radix
  /\ D < 2^(Bits - 2)

----------------------------------------------------------------------------
Flag(b) == IF b THEN 1 ELSE 0

(* The words in order, each step given the words done and the carry.       *)
Along(Step(_, _), w0, c0) == FoldLeft(Step, [w |-> w0, c |-> c0], [i \in 1..Words |-> i])

Value(w) == FoldRight(LAMBDA d, v : v * Radix + d, w, 0)
load(v)  == [i \in 1..Words |-> (v \div Radix^(i - 1)) % Radix]

mac(x, y, c) == [lo |-> (x * y + c) % Radix, hi |-> (x * y + c) \div Radix]

add_small(w0, k0) ==
  Along(LAMBDA st, i : LET s == (st.w[i] + st.c) % Radix
                       IN  [w |-> [st.w EXCEPT ![i] = s], c |-> Flag(s < st.w[i])],
        w0, k0)

sub_small(w0, k0) ==
  Along(LAMBDA st, i : [w |-> [st.w EXCEPT ![i] = (@ - st.c) % Radix],
                        c |-> Flag(st.w[i] < st.c)],
        w0, k0)

Pass(st) == LET m == mac(st.c, 2 * D, 0)
                a == add_small(st.w, m.lo)
            IN  [w |-> a.w, c |-> m.hi + a.c]

fold(w0, c0) == Pass(Pass(Pass([w |-> w0, c |-> c0]))).w

f25519_add(x, y) ==
  LET r == Along(LAMBDA st, i : LET s == (st.w[i] + st.c) % Radix
                                    t == (s + y[i]) % Radix
                                IN  [w |-> [st.w EXCEPT ![i] = t],
                                     c |-> Flag(s < st.c) + Flag(t < s)],
                 x, 0)
  IN  fold(r.w, r.c)

f25519_sub(x, y) ==
  LET r == Along(LAMBDA st, i : LET d == (st.w[i] - y[i]) % Radix
                                IN  [w |-> [st.w EXCEPT ![i] = (d - st.c) % Radix],
                                     c |-> Flag(st.w[i] < y[i] \/ d < st.c)],
                 x, 0)
      once == sub_small(r.w, 2 * D * r.c)
  IN  sub_small(once.w, 2 * D * once.c).w

(* One row of the schoolbook product: t + x[i] * y, shifted by i - 1.      *)
Row(t, x, y, i) ==
  LET r == Along(LAMBDA st, j : LET m  == mac(x[i], y[j], st.c)
                                    k  == i + j - 1
                                    lo == (m.lo + st.w[k]) % Radix
                                IN  [w |-> [st.w EXCEPT ![k] = lo],
                                     c |-> m.hi + Flag(lo < st.w[k])],
                 t, 0)
  IN  [r.w EXCEPT ![i + Words] = r.c]

f25519_mul__distinct(x, y) ==
  LET t == FoldLeft(LAMBDA s, i : Row(s, x, y, i), [k \in 1..2 * Words |-> 0],
                    [i \in 1..Words |-> i])
      r == Along(LAMBDA st, i : LET m  == mac(t[i + Words], 2 * D, st.c)
                                    lo == (m.lo + t[i]) % Radix
                                IN  [w |-> [st.w EXCEPT ![i] = lo],
                                     c |-> m.hi + Flag(lo < t[i])],
                 load(0), 0)
  IN  fold(r.w, r.c)

f25519_mul_c(x, b) ==
  LET r == Along(LAMBDA st, i : LET m == mac(st.w[i], b, st.c)
                                IN  [w |-> [st.w EXCEPT ![i] = m.lo], c |-> m.hi],
                 x, 0)
  IN  fold(r.w, r.c)

(* Bit Bits-1 folded by D, then p taken off when that does not underflow.  *)
f25519_normalize(x) ==
  LET half == Radix \div 2
      w0   == add_small([x EXCEPT ![Words] = @ % half], D * (x[Words] \div half)).w
      t    == add_small(w0, D).w
  IN  IF t[Words] \div half = 1 THEN [t EXCEPT ![Words] = @ % half] ELSE w0

f25519_neg(x) == f25519_sub(load(0), x)

f25519_select(zero, one, condition) == IF condition = 1 THEN one ELSE zero

----------------------------------------------------------------------------
(* The exponentiation chains, one bit of the exponent a step: square, and  *)
(* multiply by x where the bit is one.  2^255 - 21 and 2^252 - 3 are a run *)
(* of ones and 01011, 01.                                                  *)

Ones     == [i \in 1..(Bits - 1 - 7) + 1 |-> 1]
InvChain == Ones \o <<0, 1, 0, 1, 1>>
ExpChain == Ones \o <<0, 1>>

Link(s, x, bit) == LET sq == f25519_mul__distinct(s, s)
                   IN  IF bit = 1 THEN f25519_mul__distinct(sq, x) ELSE sq

Root(r) == f25519_normalize(r)

(* The root of a from v = (2a)^(2^252 - 3).                                *)
f25519_sqrt(a, v) ==
  LET x  == f25519_mul_c(a, 2)
      vv == f25519_mul__distinct(v, v)
      ii == f25519_sub(f25519_mul__distinct(x, vv), load(1))
  IN  Root(f25519_mul__distinct(f25519_mul__distinct(v, a), ii))

----------------------------------------------------------------------------
(* What the header promises: any value below 2^Bits is taken, and the      *)
(* answer is below 2^Bits and congruent to the true result.                *)

Fits(w) == /\ Len(w) = Words
           /\ \A i \in 1..Words : w[i] \in 0..Radix - 1

(* a * b mod p in small steps: TLC's integers have 32 bits.                *)
MulMod(a, b) ==
  LET b0 == b % 256  b1 == (b \div 256) % 256  b2 == b \div 65536  m == a % p
  IN  ((((((m * b2) % p) * 256 + m * b1) % p) * 256) + m * b0) % p
============================================================================
