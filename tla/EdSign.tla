------------------------------ MODULE EdSign ------------------------------
(***************************************************************************)
(* The curve and the signatures of the T425's servers                      *)
(* (src/src/x25519bench): the x-only Montgomery ladder of c25519/c25519.c, *)
(* the extended Edwards coordinates of ed25519/ed25519.c, the maps between *)
(* them of ed25519/morph25519.c; and Ed25519 (ed25519/edsign.c) with the   *)
(* arithmetic modulo the group's order of fprime.c and the hashing of      *)
(* fe32/sha512_32.c: 64-bit numbers as pairs of 32-bit words, a message    *)
(* schedule in a ring of sixteen, and the padding of the last block.       *)
(*                                                                         *)
(* The field is what f25519 promises (modules Field25519, FieldBytes):     *)
(* arithmetic modulo P.  The curve y^2 = x^3 + A x^2 + x, the prime P and  *)
(* the length Size of a key in bits are parameters; the code's are 486662, *)
(* 2^255 - 19 and 256.  A packed point or a scalar is a Size-bit number;   *)
(* Order is the order of Base.  The hash values themselves are arbitrary   *)
(* (the operations take them as arguments); which bytes are hashed, in     *)
(* which blocks, is modelled exactly, with the code's sizes.               *)
(***************************************************************************)
EXTENDS Integers, Sequences, SequencesExt, Bitwise

CONSTANTS P, A, Size

(* P = 5 (mod 8) for the square root; the Edwards form is complete.        *)
ASSUME CurveAssumption ==
  /\ P % 8 = 5 /\ P < 2^(Size - 1) /\ A \in 3..P - 3
  /\ \E s \in 1..P - 1 : (s * s + A + 2) % P = 0
  /\ \A s \in 1..P - 1 : (s * s * (A + 2) + A - 2) % P /= 0

Fp == 0..P - 1

add(a, b) == (a + b) % P
sub(a, b) == (a - b) % P
mul(a, b) == (a * b) % P
inv == [a \in Fp |-> IF a = 0 THEN 0 ELSE CHOOSE b \in Fp : mul(a, b) = 1]
sqrt == [a \in Fp |-> LET R == {r \in Fp : mul(r, r) = a}
                      IN  IF R = {} THEN 0 ELSE CHOOSE r \in R : TRUE]
normalize(v) == v % P

(* FoldLeft, each step's value worked out before the next step begins.     *)
Steps(Step(_, _), start, s) ==
  FoldLeft(LAMBDA v, i : CHOOSE w \in {Step(u, i) : u \in {v}} : TRUE, start, s)

Bit(e, i) == (e \div 2^i) % 2

(* Clamping: the low three bits and the top bit off, the one below it on.  *)
c25519_prepare(e) == (e % 2^(Size - 2)) - (e % 8) + 2^(Size - 2)

----------------------------------------------------------------------------
(* x-only points, [x |-> X, z |-> Z].                                      *)

xc_double(q) ==
  LET xx == mul(q.x, q.x)  zz == mul(q.z, q.z)  xz == mul(q.x, q.z)
      d  == sub(xx, zz)
  IN  [x |-> mul(d, d), z |-> mul(4, mul(xz, add(zz, add(xx, mul(A, xz)))))]

(* Mutant: the difference taken the other way round on one side.           *)
xc_diffadd_Swapped(q1, q2, q3) ==
  LET da == mul(add(q2.x, q2.z), sub(q3.x, q3.z))
      cb == mul(add(q3.x, q3.z), sub(q2.z, q2.x))
      s  == add(da, cb)
      d  == sub(da, cb)
  IN  [x |-> mul(q1.z, mul(s, s)), z |-> mul(q1.x, mul(d, d))]

xc_diffadd(q1, q2, q3) ==
  LET da == mul(add(q2.x, q2.z), sub(q3.x, q3.z))
      cb == mul(add(q3.x, q3.z), sub(q2.x, q2.z))
      s  == add(da, cb)
      d  == sub(da, cb)
  IN  [x |-> mul(q1.z, mul(s, s)), z |-> mul(q1.x, mul(d, d))]

(* One bit of the ladder: P_m and P_(m-1) to P_2m and P_(2m-1), or to      *)
(* P_(2m+1) and P_2m.                                                      *)
Rung(st, q, bit) ==
  LET m1 == xc_diffadd(q, st.m, st.m1)
      m  == xc_double(st.m)
      ms == xc_diffadd(m1, m, q)
  IN  IF bit = 1 THEN [m |-> ms, m1 |-> m] ELSE [m |-> m, m1 |-> m1]

c25519_smult(qx, e) ==
  LET q  == [x |-> normalize(qx), z |-> 1]
      r  == Steps(LAMBDA st, i : Rung(st, q, Bit(e, Size - 2 - i)),
                     [m |-> q, m1 |-> [x |-> 1, z |-> 0]], [i \in 1..Size - 2 |-> i])
  IN  mul(inv[r.m.z], r.m.x)

----------------------------------------------------------------------------
(* Edwards points, extended: x/z, y/z, t = x*y/z.                          *)

ed25519_d == mul(sub(2, A), inv[add(A, 2)])
ed25519_k == mul(2, ed25519_d)
ed25519_neutral == [x |-> 0, y |-> 1, t |-> 0, z |-> 1]

ed25519_project(x, y) == [x |-> x, y |-> y, t |-> mul(x, y), z |-> 1]
ed25519_unproject(q)  == <<mul(q.x, inv[q.z]), mul(q.y, inv[q.z])>>

ed25519_pack(x, y) == y + (x % 2) * 2^(Size - 1)

(* The x with the given parity whose point has this y; ok tells whether    *)
(* there is one.                                                           *)
WithParity(a, parity) == IF (a + parity) % 2 = 1 THEN sub(0, a) ELSE a
RootOf(c, x) == [x |-> x, ok |-> mul(x, x) = c]

ey2ex(y, parity) ==
  LET c == mul(sub(mul(y, y), 1), inv[add(mul(mul(y, y), ed25519_d), 1)])
  IN  RootOf(c, WithParity(sqrt[c], parity))

ed25519_try_unpack(comp) ==
  LET y == normalize(comp % 2^(Size - 1))
      r == ey2ex(y, comp \div 2^(Size - 1))
  IN  [x |-> r.x, y |-> y, ok |-> r.ok]

ed25519_add(q1, q2) ==
  LET a == mul(sub(q1.y, q1.x), sub(q2.y, q2.x))
      b == mul(add(q1.y, q1.x), add(q2.y, q2.x))
      c == mul(mul(q1.t, q2.t), ed25519_k)
      d == mul(2, mul(q1.z, q2.z))
      e == sub(b, a)  f == sub(d, c)  g == add(d, c)  h == add(b, a)
  IN  [x |-> mul(e, f), y |-> mul(g, h), t |-> mul(e, h), z |-> mul(f, g)]

ed25519_double(q) ==
  LET a == mul(q.x, q.x)  b == mul(q.y, q.y)  c == mul(2, mul(q.z, q.z))
      s == add(q.x, q.y)
      e == sub(sub(mul(s, s), a), b)
      g == sub(b, a)  f == sub(g, c)  h == sub(sub(0, b), a)
  IN  [x |-> mul(e, f), y |-> mul(g, h), t |-> mul(e, h), z |-> mul(f, g)]

ed25519_smult(q, e) ==
  Steps(LAMBDA r, i : LET d == ed25519_double(r)
                         IN  IF Bit(e, Size - i) = 1 THEN ed25519_add(d, q) ELSE d,
           ed25519_neutral, [i \in 1..Size |-> i])

----------------------------------------------------------------------------
(* The maps between the two forms.                                         *)

morph25519_e2m(y) == mul(add(1, y), inv[sub(1, y)])
mx2ey(mx)         == mul(sub(mx, 1), inv[add(mx, 1)])
morph25519_m2e(mx, parity) == [y |-> mx2ey(mx)] @@ ey2ex(mx2ey(mx), parity)

----------------------------------------------------------------------------
(* The group itself, by its affine addition law: what the code above must  *)
(* compute.                                                                *)

OnCurve(x, y) == sub(mul(y, y), mul(x, x)) = add(1, mul(ed25519_d, mul(mul(x, x), mul(y, y))))
Points == {q \in Fp \X Fp : OnCurve(q[1], q[2])}
Zero   == <<0, 1>>

Plus(q, r) ==
  LET t == mul(ed25519_d, mul(mul(q[1], r[1]), mul(q[2], r[2])))
  IN  <<mul(add(mul(q[1], r[2]), mul(r[1], q[2])), inv[add(1, t)]),
        mul(add(mul(q[2], r[2]), mul(q[1], r[1])), inv[sub(1, t)])>>

(* n*q by halving: Plus is associative.                                    *)
Times(n, q) ==
  LET f[k \in 0..2^Size] == IF k = 0 THEN Zero
                            ELSE LET h == f[k \div 2]
                                     d == Plus(h, h)
                                 IN  IF k % 2 = 1 THEN Plus(d, q) ELSE d
  IN  f[n]

----------------------------------------------------------------------------
(* The group and its order.                                                *)

CONSTANTS Order, Base,   \* the order of the base point, a pair <<x, y>>
          Half           \* bits of one word of a pair: 32

ASSUME OrderAssumption ==
  /\ Order \in 2..2^(Size - 2) /\ Base \in Points
  /\ Base /= Zero /\ Times(Order, Base) = Zero

Min2(a, b) == IF a < b THEN a ELSE b

----------------------------------------------------------------------------
(* fprime: arithmetic modulo the order, on numbers of Size bits.           *)

raw_add(x, m)      == (x + m) % 2^Size
raw_try_sub(x, m)  == IF x >= m THEN x - m ELSE x
prime_msb(m)       == CHOOSE i \in 0..Size : 2^i <= m /\ m < 2^(i + 1)
shift_n_bits(x, n) == (x * 2^n) % 2^Size

(* A number of len bits: as many of its top bits as stay below the modulus *)
(* at once, the rest bit by bit.                                           *)
PreloadBits(m, len) == Min2(prime_msb(m) - 1, len)

fprime_from_bytes(x, len, m) ==
  LET rbits == len - PreloadBits(m, len)
  IN  Steps(LAMBDA n, i : raw_try_sub(shift_n_bits(n, 1) + Bit(x, rbits - i), m),
               x \div 2^rbits, [i \in 1..rbits |-> i])

fprime_add(r, a, m) == raw_try_sub(raw_add(r, a), m)
fprime_sub(r, a, m) == raw_try_sub(raw_try_sub(raw_add(r, m), a), m)

fprime_mul(a, b, m) ==
  Steps(LAMBDA r, i : LET d == raw_try_sub(shift_n_bits(r, 1), m)
                         IN  IF Bit(b, prime_msb(m) + 1 - i) = 1 THEN fprime_add(d, a, m) ELSE d,
           0, [i \in 1..prime_msb(m) + 1 |-> i])

fprime_inv(a, m) ==
  Steps(LAMBDA r, i : LET r2 == fprime_mul(r, r, m)
                         IN  IF Bit(m - 2, prime_msb(m) + 1 - i) = 1
                             THEN fprime_mul(r2, a, m) ELSE r2,
           1, [i \in 1..prime_msb(m) + 1 |-> i])

----------------------------------------------------------------------------
(* edsign.                                                                 *)

upp(packed) == LET u == ed25519_try_unpack(packed)
               IN  [pt |-> ed25519_project(u.x, u.y), ok |-> u.ok]
pp(q)       == LET u == ed25519_unproject(q) IN ed25519_pack(u[1], u[2])
sm_pack(k)  == pp(ed25519_smult(ed25519_project(Base[1], Base[2]), k))

edsign_sec_to_pub(secret) == sm_pack(c25519_prepare(secret))

(* secret is the first half of the secret's hash; hk and hz the hashes     *)
(* that give k and z.                                                      *)
edsign_sign(secret, hk, hz) ==
  LET k == fprime_from_bytes(hk, 2 * Size, Order)
      z == fprime_from_bytes(hz, 2 * Size, Order)
      e == fprime_from_bytes(c25519_prepare(secret), Size, Order)
  IN  [r |-> sm_pack(k), s |-> fprime_add(fprime_mul(z, e, Order), k, Order)]

(* f25519_eq of the T425's field: both sides normalized first, the packed  *)
(* parity bit included.                                                    *)
PackedEq(a, b) == a % P = b % P

Unpacked(p, q) == p.ok /\ q.ok

edsign_verify(sig, pub, hz) ==
  LET z == fprime_from_bytes(hz, 2 * Size, Order)
      p == upp(pub)
      q == upp(sig.r)
  IN  Unpacked(p, q)
      /\ PackedEq(sm_pack(sig.s), pp(ed25519_add(ed25519_smult(p.pt, z), q.pt)))

----------------------------------------------------------------------------
(* Which bytes are hashed.  A block is a sequence of BlockSize symbols.    *)

BlockSize == 128

Bytes(name, lo, n) == [i \in 1..n |-> <<name, lo + i>>]
Fill(block)        == block \o [i \in 1..BlockSize - Len(block) |-> <<"zero", 0>>]
Length(total)      == [i \in 1..8 |-> <<"length", total, i>>]

LastFits(last_size) == last_size <= 111

(* sha512_final: the rest of the data, the end mark, the length.           *)
sha512_final(rest, total) ==
  LET last_size == total % BlockSize
      temp      == Fill(SubSeq(rest, 1, last_size) \o <<<<"end", 0>>>>)
      WithLength(t) == SubSeq(t, 1, BlockSize - 8) \o Length(total)
  IN  IF LastFits(last_size) THEN <<WithLength(temp)>> ELSE <<temp, WithLength(Fill(<<>>))>>

(* hash_with_prefix: the blocks given to sha512_block, in order.           *)
hash_with_prefix(prefix, message) ==
  LET room == BlockSize - Len(prefix)
      len  == Len(message)
      n    == (len - room) \div BlockSize       \* whole blocks after the first
      From(i) == SubSeq(message, i + 1, len)
  IN  IF len < room THEN sha512_final(prefix \o message, len + Len(prefix))
      ELSE <<prefix \o SubSeq(message, 1, room)>>
           \o [b \in 1..n |-> SubSeq(message, room + (b - 1) * BlockSize + 1, room + b * BlockSize)]
           \o sha512_final(From(room + n * BlockSize), len + Len(prefix))

(* The standard's padding: the data, one end mark, zeros, and a length of  *)
(* sixteen bytes at the end of the last block.                             *)
Padded(data) ==
  LET n == Len(data)
      z == (-(n + 1 + 16)) % BlockSize
  IN  data \o <<<<"end", 0>>>> \o [i \in 1..z + 8 |-> <<"zero", 0>>] \o Length(n)

----------------------------------------------------------------------------
(* 64-bit arithmetic on pairs, and one block of the compression.           *)

Word == 2^Half

mk(h, l) == [hi |-> h % Word, lo |-> l % Word]
Pair(v)  == mk(v \div Word, v)
Num(x)   == x.hi * Word + x.lo

ADD(a, b) == LET l == (a.lo + b.lo) % Word
             IN  mk(a.hi + b.hi + IF l < a.lo THEN 1 ELSE 0, l)
XOR(a, b) == mk(a.hi ^^ b.hi, a.lo ^^ b.lo)

SHR(x, n) == IF n < Half
             THEN mk(x.hi \div 2^n, (x.lo \div 2^n) + x.hi * 2^(Half - n))
             ELSE mk(0, x.hi \div 2^(n - Half))

ROTR(x, n) ==
  LET R(h, l, k) == mk((h \div 2^k) + l * 2^(Half - k), (l \div 2^k) + h * 2^(Half - k))
  IN  CASE n = Half -> mk(x.lo, x.hi)
        [] n < Half -> R(x.hi, x.lo, n)
        [] OTHER    -> R(x.lo, x.hi, n - Half)

(* The schedule: word i + 16 replaces word i in the ring when round i has  *)
(* used it.  Sigma0, Sigma1 stand for the two small sigmas.                        *)
Sigma0(x) == XOR(ROTR(x, 1), SHR(x, 3))
Sigma1(x) == XOR(ROTR(x, Half + 1), SHR(x, Half))
Ring(w, rounds) ==
  Steps(LAMBDA st, i :
             LET At(k) == st.w[((i - 1 + k) % 16) + 1]
             IN  [w    |-> [st.w EXCEPT ![((i - 1) % 16) + 1] =
                               ADD(ADD(ADD(At(0), Sigma0(At(1))), At(9)), Sigma1(At(14)))],
                  used |-> Append(st.used, At(0))],
           [w |-> w, used |-> <<>>], [i \in 1..rounds |-> i]).used
============================================================================
