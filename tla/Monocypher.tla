---------------------------- MODULE Monocypher ----------------------------
(***************************************************************************)
(* X25519 and Ed25519 on the 68030, used by Dropbear when the T425 does    *)
(* not answer: src/staging/DROPBEAR/monocypher.c and                       *)
(* monocypher-ed25519.c.  Another field (ten signed limbs of 26 and 25     *)
(* bits), another ladder, a Barrett reduction, sliding windows and combs   *)
(* in place of bitwise multiplication, and a streaming SHA-512.            *)
(*                                                                         *)
(* As in Field25519 and EdSign the sizes are parameters: Wide is the       *)
(* width of an even limb (26), LWord of a word modulo the order (32),      *)
(* Spacing the distance of a comb's teeth (32).  The ten limbs, the 19,    *)
(* the order of the carries and the window widths are the code's.  Above   *)
(* the limbs the field is arithmetic modulo P.                             *)
(***************************************************************************)
EXTENDS EdSign

CONSTANTS Wide, Chunk, LWord, Spacing

Upto(n) == [j \in 1..n |-> j - 1]

----------------------------------------------------------------------------
(* Field elements: ten signed limbs, 0..9.                                 *)

Limb(i)  == IF i % 2 = 0 THEN Wide ELSE Wide - 1
Start(i) == i * Wide - i \div 2
FeBits   == Start(10)
FeP      == 2^FeBits - 19

(* Chunk[i] is the first bit of the bytes loaded into limb i: never below  *)
(* the limb's own first bit.                                               *)
ASSUME ChunkAssumption ==
  /\ Wide \in Nat /\ Wide >= 2
  /\ DOMAIN Chunk = 0..10 /\ Chunk[0] = 0 /\ Chunk[10] = FeBits
  /\ \A i \in 1..9 : Chunk[i] >= Start(i) /\ Chunk[i] < Chunk[i + 1]

FeValue(h) == MapThenSumSet(LAMBDA i : h[i] * 2^Start(i), 0..9)

fe_add(f, g) == [i \in 0..9 |-> f[i] + g[i]]
fe_sub(f, g) == [i \in 0..9 |-> f[i] - g[i]]

Carry(t, i) ==
  LET c == (t[i] + 2^(Limb(i) - 1)) \div 2^Limb(i)
  IN  [t EXCEPT ![i] = @ - c * 2^Limb(i),
                ![(i + 1) % 10] = @ + c * (IF i = 9 THEN 19 ELSE 1)]

FE_CARRY(t) == Steps(Carry, t, <<0, 4, 1, 5, 2, 6, 3, 7, 4, 8, 9, 0>>)

(* The bytes of s without its top bit, a run of whole bytes to a limb.     *)
fe_frombytes(s) ==
  FE_CARRY([i \in 0..9 |-> (((s % 2^FeBits) \div 2^Chunk[i]) % 2^(Chunk[i + 1] - Chunk[i]))
                           * 2^(Chunk[i] - Start(i))])

(* q is 0 for a number of the range, -1 for a negative one; then the limbs *)
(* are made positive and the bit beyond the last is dropped.               *)
fe_tobytes(h) ==
  LET q0 == (19 * h[9] + 2^(Limb(9) - 1)) \div 2^Limb(9)
      q  == Steps(LAMBDA c, i : (c + h[i]) \div 2^Limb(i), q0, Upto(10))
      r  == Steps(LAMBDA st, i : LET s == st.t[i] + st.q
                                    IN  [t |-> [st.t EXCEPT ![i] = s % 2^Limb(i)],
                                         q |-> s \div 2^Limb(i)],
                     [t |-> h, q |-> 19 * q], Upto(10))
  IN  FeValue(r.t)

Weight(i, j) == (IF i % 2 = 1 /\ j % 2 = 1 THEN 2 ELSE 1) * (IF i + j >= 10 THEN 19 ELSE 1)

fe_mul(f, g) ==
  FE_CARRY([k \in 0..9 |->
              MapThenSumSet(LAMBDA i : LET j == (k - i) % 10 IN f[i] * g[j] * Weight(i, j), 0..9)])

fe_sq(f) ==
  FE_CARRY([k \in 0..9 |->
              MapThenSumSet(LAMBDA i : LET j == (k - i) % 10
                                       IN  CASE i < j -> 2 * f[i] * f[j] * Weight(i, j)
                                             [] i = j -> f[i] * f[i] * Weight(i, i)
                                             [] OTHER -> 0,
                            0..9)])

fe_mul_small(f, g) == FE_CARRY([i \in 0..9 |-> f[i] * g])

----------------------------------------------------------------------------
(* Square roots and inverses, over the field modulo P.                     *)

sqrtm1 == CHOOSE r \in Fp : mul(r, r) = P - 1
Power(x, n) == Steps(LAMBDA a, i : mul(a, x), 1, Upto(n))

invsqrt ==
  [x \in Fp |->
     LET t0      == Power(x, (P - 5) \div 8)
         quartic == mul(mul(t0, t0), x)
     IN  [isr |-> IF quartic \in {P - 1, sub(0, sqrtm1)} THEN mul(t0, sqrtm1) ELSE t0,
          ok  |-> quartic \in {1, P - 1} \/ x = 0]]

fe_invert == [x \in Fp |-> LET t == invsqrt[mul(x, x)].isr IN mul(mul(t, t), x)]

----------------------------------------------------------------------------
(* X25519.                                                                 *)

scalar_bit(s, i) == IF i < 0 THEN 0 ELSE Bit(s, i)

Swapped(l, swap) == IF swap = 1 THEN [l EXCEPT !.x2 = l.x3, !.x3 = l.x2, !.z2 = l.z3, !.z3 = l.z2]
                    ELSE l

(* The swap for this bit and the one left from the bit above, then a step. *)
LadderStep(st, x1, b) ==
  LET l   == Swapped(st, (st.swap + b) % 2)
      t0  == sub(l.x3, l.z3)      t1 == sub(l.x2, l.z2)
      x2a == add(l.x2, l.z2)      z2a == add(l.x3, l.z3)
      z3b == mul(t0, x2a)         z2b == mul(z2a, t1)
      t0c == mul(t1, t1)          t1c == mul(x2a, x2a)
      e   == sub(t1c, t0c)        dif == sub(z3b, z2b)  sum == add(z3b, z2b)
      a24 == mul(add(A, 2), inv[4])
  IN  [x2 |-> mul(t1c, t0c), z2 |-> mul(e, add(t0c, mul(e, a24))),
       x3 |-> mul(sum, sum), z3 |-> mul(x1, mul(dif, dif)), swap |-> b]

scalarmult(scalar, pt, nb_bits) ==
  LET x1 == normalize(pt % 2^(Size - 1))
      st == Steps(LAMBDA l, i : LadderStep(l, x1, scalar_bit(scalar, nb_bits - 1 - i)),
                     [x2 |-> 1, z2 |-> 0, x3 |-> x1, z3 |-> 1, swap |-> 0], Upto(nb_bits))
      r  == Swapped(st, st.swap)
  IN  mul(r.x2, fe_invert[r.z2])

crypto_eddsa_trim_scalar(s) == (s % 2^(Size - 2)) - (s % 8) + 2^(Size - 2)
crypto_x25519(secret, pt)   == scalarmult(crypto_eddsa_trim_scalar(secret), pt, Size - 1)

----------------------------------------------------------------------------
(* Arithmetic modulo L, the order: numbers of LWords words, 0..LWords - 1. *)

B      == 2^LWord
LWords == Size \div LWord
Barrett == 2^(2 * Size) \div Order
BWords  == CHOOSE n \in 1..2 * LWords + 1 : B^(n - 1) <= Barrett /\ Barrett < B^n

ToWords(v, n) == [i \in 0..n - 1 |-> (v \div B^i) % B]
OfWords(w)    == MapThenSumSet(LAMBDA i : w[i] * B^i, 0..LWords - 1)
L             == ToWords(Order, LWords)

(* p + x * y, shifted by i, over m words of y.                             *)
AddRow(p, x, y, i, m) ==
  Steps(LAMBDA st, j : LET v == st.c + st.w[i + j] + x * y[j]
                          IN  [w |-> [st.w EXCEPT ![i + j] = v % B], c |-> v \div B],
           [w |-> p, c |-> 0], Upto(m))

AddProduct(p, x, y, nx, ny) ==
  Steps(LAMBDA w, i : LET r == AddRow(w, x[i], y, i, ny) IN [r.w EXCEPT ![i + ny] = r.c],
           p, Upto(nx))

multiply(p, a, b) == AddProduct(p, a, b, LWords, LWords)

(* x + y + c over the words, y in ones' complement where c is a borrow.    *)
WordSum(x, y, c0) ==
  Steps(LAMBDA st, i : LET v == st.c + x[i] + y[i]
                          IN  [w |-> [st.w EXCEPT ![i] = v % B], c |-> v \div B],
           [w |-> ToWords(0, LWords), c |-> c0], Upto(LWords))
Complement(y) == [i \in 0..LWords - 1 |-> B - 1 - y[i]]

is_above_l(x) == WordSum(x, Complement(L), 1).c
remove_l(x)   == IF is_above_l(x) = 1 THEN WordSum(x, Complement(L), 1).w ELSE x

mod_l(x) ==
  LET xr  == AddProduct(ToWords(0, 2 * LWords + BWords), ToWords(Barrett, BWords), x,
                        BWords, 2 * LWords)
      low == Steps(LAMBDA w, i : AddRow(w, xr[i + 2 * LWords], L, i, LWords - i).w,
                      ToWords(0, LWords), Upto(LWords))
  IN  OfWords(remove_l(WordSum(x, Complement(low), 1).w))

crypto_eddsa_reduce(v) == mod_l(ToWords(v, 2 * LWords))
crypto_eddsa_mul_add(a, b, c) ==
  mod_l(multiply(ToWords(c, 2 * LWords), ToWords(a, LWords), ToWords(b, LWords)))

----------------------------------------------------------------------------
(* Points, extended, and in the cached form of an addition.                *)

ge_zero == [X |-> 0, Y |-> 1, Z |-> 1, T |-> 0]

Packed(h, recip) == ed25519_pack(mul(h.X, recip), mul(h.Y, recip))
ge_tobytes(h)    == Packed(h, fe_invert[h.Z])

Affine(q)      == [X |-> q[1], Y |-> q[2], Z |-> 1, T |-> mul(q[1], q[2])]
SignedX(x, odd) == IF x % 2 = odd THEN sub(0, x) ELSE x

ge_frombytes_neg_vartime(s) ==
  LET y   == normalize(s % 2^(Size - 1))
      num == sub(mul(y, y), 1)
      r   == invsqrt[mul(num, add(mul(mul(y, y), ed25519_d), 1))]
  IN  [ok |-> r.ok, pt |-> Affine(<<SignedX(mul(num, r.isr), s \div 2^(Size - 1)), y>>)]

ge_cache(p) == [Yp |-> add(p.Y, p.X), Ym |-> sub(p.Y, p.X), Z |-> p.Z, T2 |-> mul(p.T, ed25519_k)]

ge_add(p, q) ==
  LET a == mul(add(p.Y, p.X), q.Yp)
      b == mul(sub(p.Y, p.X), q.Ym)
      y == add(a, b)
      x == sub(a, b)
      z == mul(add(p.Z, p.Z), q.Z)
      t == mul(p.T, q.T2)
  IN  [X |-> mul(x, sub(z, t)), Y |-> mul(y, add(z, t)), Z |-> mul(add(z, t), sub(z, t)),
       T |-> mul(x, y)]

Negated(q)   == [q EXCEPT !.Yp = q.Ym, !.Ym = q.Yp, !.T2 = sub(0, @)]

(* The precomputed tables have Z = 1.                                      *)
ge_madd(p, q) == ge_add(p, [q EXCEPT !.Z = 1])

ge_double(p) ==
  LET xx == mul(p.X, p.X)  yy == mul(p.Y, p.Y)  zz == mul(2, mul(p.Z, p.Z))
      s  == add(p.X, p.Y)
      qT == add(yy, xx)    qY == sub(yy, xx)
      qX == sub(mul(s, s), qT)
      qZ == sub(zz, qY)
  IN  [X |-> mul(qX, qZ), Y |-> mul(qT, qY), Z |-> mul(qY, qZ), T |-> mul(qX, qT)]

----------------------------------------------------------------------------
(* Sliding windows: the signed digits of a scalar, from the top.           *)

Max2(a, b) == IF a > b THEN a ELSE b

TopBit(s, top) == LET ones == {i \in 1..top : scalar_bit(s, i) = 1}
                  IN  IF ones = {} THEN 0 ELSE Max(ones)

(* Mutant: the search starts one bit below the order's top bit.            *)
slide_init_Below(s, top) == [next_check |-> TopBit(s, top - 1) + 1, next_index |-> -1, next_digit |-> -1]

slide_init(s, top) == [next_check |-> TopBit(s, top) + 1, next_index |-> -1, next_digit |-> -1]

slide_step(ctx, width, i, s) ==
  LET w   == Min2(width, i + 1)
      v   == MapThenSumSet(LAMBDA j : scalar_bit(s, i - (w - 1) + j) * 2^j, 0..w - 2)
             - scalar_bit(s, i) * 2^(w - 1) + scalar_bit(s, i - w)
      log == CHOOSE k \in 0..7 : v % 2^k = 0 /\ v % 2^(k + 1) /= 0
  IN  CASE i /= ctx.next_check -> ctx
        [] scalar_bit(s, i) = scalar_bit(s, i - 1) -> [ctx EXCEPT !.next_check = @ - 1]
        [] OTHER -> [next_index |-> i - (w - 1) + log, next_digit |-> v \div 2^log,
                     next_check |-> ctx.next_check - w]

Digit(ctx, i) == IF i = ctx.next_index THEN ctx.next_digit ELSE 0

(* All the digits of a scalar, as the loop of the check meets them.        *)
Digits(s, width, top) ==
  LET c0 == slide_init(s, top)
  IN  Steps(LAMBDA st, k : LET i == c0.next_check - k
                                  c == slide_step(st.ctx, width, i, s)
                              IN  [ctx |-> c, d |-> (i :> Digit(c, i)) @@ st.d],
               [ctx |-> c0, d |-> <<>>], Upto(c0.next_check + 1)).d

P_W_WIDTH == 3
B_W_WIDTH == 5
b_window == [k \in 0..7 |-> ge_cache(Affine(Times(2 * k + 1, Base)))]

(* A digit's multiple of a point added, or taken away.                     *)
Entry(d, lut)        == IF d > 0 THEN lut[d \div 2] ELSE Negated(lut[(-d) \div 2])
AddDigit(p, d, lut)  == IF d = 0 THEN p ELSE ge_add(p, Entry(d, lut))
MAddDigit(p, d, lut) == IF d = 0 THEN p ELSE ge_madd(p, Entry(d, lut))

(* One turn of the merged loop.                                            *)
CheckSum(sum, i, hs, ss, lutA) ==
  [sum |-> MAddDigit(AddDigit(ge_double(sum), Digit(hs, i), lutA), Digit(ss, i), b_window),
   h |-> hs, s |-> ss]
CheckStep(st, i, h, s, lutA) ==
  CheckSum(st.sum, i, slide_step(st.h, P_W_WIDTH, i, h), slide_step(st.s, B_W_WIDTH, i, s), lutA)

CheckLoop(h, s, lutA) ==
  LET h0  == slide_init(h, prime_msb(Order))
      s0  == slide_init(s, prime_msb(Order))
      top == Max2(h0.next_check, s0.next_check)
  IN  Steps(LAMBDA st, k : CheckStep(st, top - k, h, s, lutA),
            [sum |-> ge_zero, h |-> h0, s |-> s0], Upto(top + 1)).sum

LutA(p, p0) == (0 :> p0) @@ (1 :> ge_cache(ge_add(ge_double(p), p0)))

crypto_eddsa_check_equation(sig, pub, h) ==
  /\ is_above_l(ToWords(sig.s, LWords)) = 0
  /\ \E mA \in {ge_frombytes_neg_vartime(pub)}, mR \in {ge_frombytes_neg_vartime(sig.r)} :
       /\ mA.ok /\ mR.ok
       /\ \E sum \in {CheckLoop(h, sig.s, LutA(mA.pt, ge_cache(mA.pt)))} :
            \E diff \in {ge_add(sum, ge_cache(mR.pt))} :
              ge_tobytes(ge_double(ge_double(ge_double(diff)))) = 1

----------------------------------------------------------------------------
(* The base point's multiples, by two signed combs of four teeth.          *)

(* Entry j of a comb: its top tooth added, the others added or subtracted. *)
Comb(shift) ==
  [j \in 0..7 |->
     LET n == 8^Spacing + MapThenSumSet(LAMBDA t : (2 * Bit(j, t) - 1) * 2^(Spacing * t), 0..2)
     IN  ge_cache(Affine(Times((n * 2^shift) % Order, Base)))]

b_comb_low  == Comb(0)
b_comb_high == Comb(4 * Spacing)

lookup_add(p, comb, scalar, i) ==
  LET low3 == MapThenSumSet(LAMBDA t : scalar_bit(scalar, i + t * Spacing) * 2^t, 0..2)
  IN  ge_madd(p, IF scalar_bit(scalar, i + 3 * Spacing) = 1 THEN comb[low3]
                 ELSE Negated(comb[7 - low3]))

half_mod_L == (Order + 1) \div 2
half_ones  == ((2^(8 * Spacing) - 1) * half_mod_L) % Order

BothCombs(p, s, i) == lookup_add(lookup_add(p, b_comb_low, s, i), b_comb_high, s, i + 4 * Spacing)
CombSum(s) ==
  Steps(LAMBDA p, k : BothCombs(IF k = 0 THEN p ELSE ge_double(p), s, Spacing - 1 - k),
        ge_zero, Upto(Spacing))
ge_scalarmult_base(scalar) == CombSum(crypto_eddsa_mul_add(scalar, half_mod_L, half_ones))

crypto_eddsa_scalarbase(scalar) == ge_tobytes(ge_scalarmult_base(scalar))

(* secret is the first half of the secret's hash, hr and hh the hashes     *)
(* that give r and h.                                                      *)
crypto_ed25519_key_pair(secret) == crypto_eddsa_scalarbase(crypto_eddsa_trim_scalar(secret))

crypto_ed25519_sign(secret, hr, hh) ==
  LET r == crypto_eddsa_reduce(hr)
  IN  [r |-> crypto_eddsa_scalarbase(r),
       s |-> crypto_eddsa_mul_add(crypto_eddsa_reduce(hh), crypto_eddsa_trim_scalar(secret), r)]

----------------------------------------------------------------------------
(* SHA-512, fed in pieces.  input is the block's bytes, blocks the blocks  *)
(* compressed so far; compressing leaves the schedule in input.            *)

ZeroByte == <<"zero", 0>>
Blank    == [i \in 1..BlockSize |-> ZeroByte]

crypto_sha512_init == [input |-> Blank, input_idx |-> 0, size |-> 0, blocks |-> <<>>]

(* A byte is ORed into its place.                                          *)
sha512_set_input(ctx, b) ==
  [ctx EXCEPT !.input[ctx.input_idx + 1] = IF @ = ZeroByte THEN b ELSE <<"or", @, b>>]

sha512_compress(ctx) ==
  [ctx EXCEPT !.blocks = Append(@, ctx.input), !.input = [i \in 1..BlockSize |-> <<"schedule", i>>]]

SetBytes(ctx, m) ==
  Steps(LAMBDA c, b : [sha512_set_input(c, b) EXCEPT !.input_idx = @ + 1], ctx, m)

(* load64_be_buf: whole words written over the block from byte `at`.       *)
LoadWords(ctx, at, m) ==
  [ctx EXCEPT !.input = [i \in 1..BlockSize |-> IF i - at \in 1..Len(m) THEN m[i - at] ELSE @[i]]]

WholeBlock(ctx) ==
  [sha512_compress([ctx EXCEPT !.size = @ + BlockSize]) EXCEPT !.input_idx = 0, !.input = Blank]

First(m, n) == SubSeq(m, 1, n)
After(m, n) == SubSeq(m, n + 1, Len(m))

(* The four stages of an update, each taking its part of the message:      *)
(* bytes to a word boundary, words to a block boundary, blocks, the rest.  *)
Fed(ctx, m, n) == [ctx |-> ctx, rest |-> After(m, n)]

ToWord(f) == LET n == Min2((-f.ctx.input_idx) % 8, Len(f.rest))
             IN  Fed(SetBytes(f.ctx, First(f.rest, n)), f.rest, n)

IfWhole(ctx) == IF ctx.input_idx = BlockSize THEN WholeBlock(ctx) ELSE ctx

InWords(f, at, n) == [LoadWords(f.ctx, at, First(f.rest, n)) EXCEPT !.input_idx = @ + n]

ToBlock(f) == LET n == 8 * (Min2((-f.ctx.input_idx) % BlockSize, Len(f.rest)) \div 8)
              IN  Fed(IfWhole(InWords(f, f.ctx.input_idx, n)), f.rest, n)

Blocks(f) ==
  LET nb == Len(f.rest) \div BlockSize
  IN  Fed(Steps(LAMBDA c, b : WholeBlock(LoadWords(c, 0, SubSeq(f.rest, b * BlockSize + 1, (b + 1) * BlockSize))),
                f.ctx, Upto(nb)), f.rest, nb * BlockSize)

Remaining(f) == LET n == 8 * (Len(f.rest) \div 8)
                IN  SetBytes(InWords(f, 0, n), After(f.rest, n))

crypto_sha512_update(ctx, message) ==
  IF message = <<>> THEN ctx ELSE Remaining(Blocks(ToBlock(ToWord(Fed(ctx, message, 0)))))

crypto_sha512_final(ctx) ==
  LET c0 == IF ctx.input_idx = 0 THEN [ctx EXCEPT !.input = Blank] ELSE ctx
      c1 == sha512_set_input(c0, <<"end", 0>>)
      c2 == [c1 EXCEPT !.size = @ + ctx.input_idx]
      c3 == IF ctx.input_idx > 111 THEN LoadWords(sha512_compress(c2), 0, First(Blank, 112)) ELSE c2
  IN  sha512_compress(LoadWords(c3, 112, First(Blank, 8) \o Length(c3.size))).blocks

(* hash_reduce's pieces, in order.                                         *)
ed25519_hash_reduce(pieces) ==
  crypto_sha512_final(Steps(crypto_sha512_update, crypto_sha512_init, pieces))
============================================================================
