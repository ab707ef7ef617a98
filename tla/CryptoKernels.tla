--------------------------- MODULE CryptoKernels ---------------------------
(***************************************************************************)
(* Calls of the cryptographic kernels, of the T425's servers and of the    *)
(* 68030's Monocypher: each action                                         *)
(* is one call of a library function with arguments from a bounded set,    *)
(* and the properties compare its answer with the definition of what it    *)
(* computes.  calc is the call made and its answer.                        *)
(*                                                                         *)
(* The field is run in two sizes of each version: a small one whose every  *)
(* pair of numbers is tried (p = 31 in two words of three bits, p = 255 in *)
(* three bytes of three bits) and one with the code's own 19 and           *)
(* exponentiation chains (p = 2^21 - 19 and 2^19 - 19, both prime) at the  *)
(* numbers next to 0, p, 2p and the largest.                               *)
(***************************************************************************)
EXTENDS Monocypher

CONSTANTS Keys, Signers,  \* scalars tried, and those whose signatures are varied
          Hashes,         \* double-length hash values
          Lengths,        \* message lengths
          MulConsts       \* second arguments of f25519_mul_c

VARIABLE calc

FS == INSTANCE Field25519 WITH W <- 3, Words <- 2, D <- 1
FC == INSTANCE Field25519 WITH W <- 11, Words <- 2, D <- 19
BS == INSTANCE FieldBytes WITH W <- 3, Words <- 3, D <- 1
BC == INSTANCE FieldBytes WITH W <- 5, Words <- 4, D <- 19

ASSUME SizedAssumption == FS!FieldSized /\ FC!FieldSized

NoCall == [fn |-> "none"]
Idle   == calc.fn = "none"

Near(q, top) == {v \in UNION {{k * q - 1, k * q, k * q + 1, k * q + 18, k * q + 19} : k \in 0..2}
                           \cup {top - 38, top - 37, top - 1} : v >= 0 /\ v < top}

FCNums == Near(FC!p, 2^FC!Bits)
Spread == {7919 * k : k \in 1..12}     \* numbers with no pattern, for the chains
BSNums == Near(BS!p, 2 * BS!p)      \* the original takes numbers below 2p (f25519.h)
BCNums == Near(BC!p, 2 * BC!p)

Binary(lib, fn, a, b, f(_, _), Ld(_)) ==
  calc' = [fn |-> fn, lib |-> lib, a |-> a, b |-> b, out |-> f(Ld(a), Ld(b))]

(* f25519_add, f25519_sub and f25519_mul__distinct.                        *)
FieldCall ==
  /\ Idle
  /\ \/ \E a, b \in 0..2^FS!Bits - 1 :
          \/ Binary("FS", "add", a, b, FS!f25519_add, FS!load)
          \/ Binary("FS", "sub", a, b, FS!f25519_sub, FS!load)
          \/ Binary("FS", "mul", a, b, FS!f25519_mul__distinct, FS!load)
     \/ \E a, b \in FCNums :
          \/ Binary("FC", "add", a, b, FC!f25519_add, FC!load)
          \/ Binary("FC", "sub", a, b, FC!f25519_sub, FC!load)
          \/ Binary("FC", "mul", a, b, FC!f25519_mul__distinct, FC!load)
     \/ \E a \in 0..2 * BS!p - 1, b \in BSNums :
          \/ Binary("BS", "add", a, b, BS!f25519_add, BS!Load)
          \/ Binary("BS", "sub", a, b, BS!f25519_sub, BS!Load)
          \/ Binary("BS", "mul", a, b, BS!f25519_mul__distinct, BS!Load)
     \/ \E a, b \in BCNums :
          \/ Binary("BC", "add", a, b, BC!f25519_add, BC!Load)
          \/ Binary("BC", "sub", a, b, BC!f25519_sub, BC!Load)
          \/ Binary("BC", "mul", a, b, BC!f25519_mul__distinct, BC!Load)

Unary(lib, fn, a, out) == calc' = [fn |-> fn, lib |-> lib, a |-> a, b |-> 0, out |-> out]
Times_(lib, a, b, out) == calc' = [fn |-> "mulc", lib |-> lib, a |-> a, b |-> b, out |-> out]

(* The functions of one number.                                            *)
FieldCall1 ==
  /\ Idle
  /\ \/ \E a \in 0..2^FS!Bits - 1 :
          \/ Unary("FS", "norm", a, FS!f25519_normalize(FS!load(a)))
          \/ Unary("FS", "neg", a, FS!f25519_neg(FS!load(a)))
          \/ Times_("FS", a, 4, FS!f25519_mul_c(FS!load(a), 4))
     \/ \E a \in FCNums :
          \/ Unary("FC", "norm", a, FC!f25519_normalize(FC!load(a)))
          \/ \E b \in MulConsts : Times_("FC", a, b, FC!f25519_mul_c(FC!load(a), b))
     \/ \E a \in 0..2 * BS!p - 1 :
          \/ Unary("BS", "norm", a, BS!f25519_normalize(BS!Load(a)))
          \/ Unary("BS", "neg", a, BS!f25519_neg(BS!Load(a)))
     \/ \E a \in BCNums :
          \/ Unary("BC", "norm", a, BC!f25519_normalize(BC!Load(a)))
          \/ \E b \in MulConsts : Times_("BC", a, b, BC!f25519_mul_c(BC!Load(a), b))

(* f25519_inv__distinct and f25519_sqrt, a step for each bit of the        *)
(* exponent; the root is asked of a square.                                *)
Chain(lib, goal, a, x) ==
  calc' = [fn |-> "chain", lib |-> lib, goal |-> goal, a |-> a, x |-> x, s |-> x, i |-> 1]

ChainCall ==
  /\ Idle
  /\ \/ \E a \in FCNums \cup Spread :
          \/ Chain("FC", "inv", a, FC!load(a))
          \/ Chain("FC", "sqrt", a, FC!f25519_mul_c(FC!load(FC!MulMod(a, a)), 2))
     \/ \E a \in BCNums \cup Spread :
          \/ Chain("BC", "inv", a, BC!Load(a))
          \/ Chain("BC", "sqrt", a, BC!f25519_mul_c(BC!Load(BC!MulMod(a, a)), 2))

Exponent(lib, goal) == CASE lib = "FC" -> IF goal = "inv" THEN FC!InvChain ELSE FC!ExpChain
                         [] lib = "BC" -> IF goal = "inv" THEN BC!InvChain ELSE BC!ExpChain

ChainStep ==
  /\ calc.fn = "chain"
  /\ calc.i <= Len(Exponent(calc.lib, calc.goal))
  /\ LET bit == Exponent(calc.lib, calc.goal)[calc.i]
     IN  calc' = [calc EXCEPT !.i = @ + 1,
                              !.s = IF calc.lib = "FC" THEN FC!Link(@, calc.x, bit)
                                    ELSE BC!Link(@, calc.x, bit)]

ChainEnd ==
  /\ calc.fn = "chain"
  /\ calc.i > Len(Exponent(calc.lib, calc.goal))
  /\ Unary(calc.lib, calc.goal, calc.a,
           CASE calc.goal = "inv" -> calc.s
             [] calc.lib = "FC" -> FC!f25519_sqrt(FC!load(FC!MulMod(calc.a, calc.a)), calc.s)
             [] calc.lib = "BC" -> BC!f25519_sqrt(BC!Load(BC!MulMod(calc.a, calc.a)), calc.s))

----------------------------------------------------------------------------
(* X25519 and the Edwards multiplication of one point by one scalar.       *)
PointCall ==
  /\ Idle
  /\ \E q \in Points :
       \/ \E e \in 2^(Size - 2)..2^(Size - 1) - 1 :
            calc' = [fn |-> "x25519", q |-> q, e |-> e,
                     out |-> c25519_smult(morph25519_e2m(q[2]), e)]
       \/ \E e \in 0..2^Size - 1 :
            calc' = [fn |-> "ed25519", q |-> q, e |-> e,
                     out |-> ed25519_smult(ed25519_project(q[1], q[2]), e)]
       \/ calc' = [fn |-> "morph", q |-> q,
                   out |-> morph25519_m2e(morph25519_e2m(q[2]), q[1] % 2)]

(* A signature made, or any, to be checked by both libraries.              *)
GivenSignatures ==
  [pub : {edsign_sec_to_pub(k) : k \in Signers}, hz : {1, Order - 1},
   sig : [r : 0..2^Size - 1, s : {0, 1, Order - 1, Order}]]
  \cup [pub : 0..2^Size - 1, hz : {1, Order}, sig : {[r |-> 1, s |-> 0]}]

SignCall ==
  /\ Idle
  /\ \/ \E secret \in Keys, hk, hz \in Hashes :
          calc' = [fn |-> "signed", secret |-> secret, hk |-> hk, hz |-> hz,
                   pub |-> edsign_sec_to_pub(secret), sig |-> edsign_sign(secret, hk, hz)]
     \/ \E g \in GivenSignatures : calc' = [fn |-> "given"] @@ g

(* The same signature made by Monocypher.                                  *)
MonoSignCall ==
  /\ calc.fn = "signed"
  /\ calc' = [fn |-> "msigned", pub |-> calc.pub, sig |-> calc.sig,
              mpub |-> crypto_ed25519_key_pair(calc.secret),
              msig |-> crypto_ed25519_sign(calc.secret, calc.hk, calc.hz)]

CheckCall ==
  /\ calc.fn \in {"signed", "given"}
  /\ calc' = [fn |-> "checked", made |-> calc.fn = "signed",
              pub |-> calc.pub, sig |-> calc.sig, hz |-> calc.hz,
              t425 |-> edsign_verify(calc.sig, calc.pub, calc.hz),
              mono |-> crypto_eddsa_check_equation(calc.sig, calc.pub, crypto_eddsa_reduce(calc.hz))]

ScalarCall ==
  /\ Idle
  /\ \E m \in {Order, 2^(Size - 2) - 3} :
       \/ \E a, b \in {v \in Keys : v < m} :
            calc' = [fn |-> "fprime", m |-> m, a |-> a, b |-> b,
                     out |-> <<fprime_add(a, b, m), fprime_sub(a, b, m), fprime_mul(a, b, m),
                               fprime_mul(a, fprime_inv(a, m), m)>>]
       \/ \E x \in Hashes :
            calc' = [fn |-> "from_bytes", m |-> m, x |-> x,
                     out |-> fprime_from_bytes(x, 2 * Size, m)]

----------------------------------------------------------------------------
HashCall ==
  /\ Idle
  /\ \E prefix \in {32, 64}, n \in Lengths :
       calc' = [fn |-> "hash", prefix |-> prefix, n |-> n,
                out |-> hash_with_prefix(Bytes("p", 0, prefix), Bytes("m", 0, n))]

PairCall ==
  /\ Idle
  /\ \/ \E x, y \in 0..Word^2 - 1 :
          calc' = [fn |-> "ADD", x |-> x, y |-> y, out |-> ADD(Pair(x), Pair(y))]
     \/ \E x \in 0..Word^2 - 1, n \in 1..2 * Half - 1 :
          \/ calc' = [fn |-> "SHR", x |-> x, y |-> n, out |-> SHR(Pair(x), n)]
          \/ calc' = [fn |-> "ROTR", x |-> x, y |-> n, out |-> ROTR(Pair(x), n)]
     \/ \E x \in Keys :
          calc' = [fn |-> "ring", x |-> x,
                   out |-> Ring([i \in 1..16 |-> Pair((x * i) % Word^2)], 40)]

----------------------------------------------------------------------------
(* Monocypher's field: a product of what the curve code multiplies, sums   *)
(* and differences of loaded numbers; a square; a small product; a load.   *)
FeNums == Near(FeP, 2^FeBits) \cup {7919 * 4001 % 2^FeBits, 2^FeBits - 12345, 11184810 % 2^FeBits}

MonoFieldCall ==
  /\ Idle
  /\ \E a, b \in FeNums :
       LET f == fe_frombytes(a)
           g == fe_frombytes(b)
       IN  \/ calc' = [fn |-> "fe_mul", a |-> a, b |-> b, out |-> fe_tobytes(fe_mul(fe_sub(f, g), fe_add(f, g)))]
           \/ calc' = [fn |-> "fe_sq", a |-> a, b |-> b, out |-> fe_tobytes(fe_sq(fe_sub(f, g)))]
           \/ calc' = [fn |-> "fe_load", a |-> a, b |-> 0, out |-> fe_tobytes(f)]
           \/ \E k \in MulConsts : calc' = [fn |-> "fe_small", a |-> a, b |-> k,
                                            out |-> fe_tobytes(fe_mul_small(f, k))]

(* X25519, the base point's multiples, and the scalars.                    *)
MonoPointCall ==
  /\ Idle
  /\ \/ \E q \in Points, e \in Keys \cup {8 * k : k \in 0..7}, top \in {0, 2^(Size - 1)} :
          calc' = [fn |-> "mx25519", q |-> q, e |-> e, top |-> top,
                   out |-> crypto_x25519(e, morph25519_e2m(q[2]) + top),
                   t425 |-> normalize(c25519_smult(morph25519_e2m(q[2]) + top, c25519_prepare(e)))]
     \/ \E e \in 0..2^Size - 1 :
          calc' = [fn |-> "mbase", e |-> e, out |-> crypto_eddsa_scalarbase(e)]
     \/ \E x \in Hashes \cup 0..300 :
          calc' = [fn |-> "mod_l", x |-> x, out |-> crypto_eddsa_reduce(x)]
     \/ \E x \in 0..2^(Size + 2) - 1, w \in {P_W_WIDTH, B_W_WIDTH} :
          calc' = [fn |-> "slide", x |-> x, w |-> w, out |-> Digits(x, w, Size + 1)]

(* The pieces of a signature's two hashes, and of a check's.               *)
MonoHashCall ==
  /\ Idle
  /\ \E n \in Lengths, shape \in {<<0, 32>>, <<32, 32>>} :
       LET pieces == <<Bytes("a", 0, shape[1]), Bytes("b", 0, shape[2]), Bytes("m", 0, n), <<>>>>
       IN  calc' = [fn |-> "mhash", pieces |-> pieces, out |-> ed25519_hash_reduce(pieces)]

KernelInit == calc = NoCall
KernelNext == FieldCall \/ FieldCall1 \/ ChainCall \/ ChainStep \/ ChainEnd \/ PointCall \/ SignCall \/ ScalarCall \/ HashCall \/ PairCall
              \/ MonoFieldCall \/ MonoPointCall \/ MonoSignCall \/ CheckCall \/ MonoHashCall

----------------------------------------------------------------------------
(* Every field function, of the words and of the bytes, answers a number   *)
(* that fits and is congruent to the true result, whatever numbers it is   *)
(* given (f25519.c:5-7, 85-94, 145-147); normalize reduces fully, and so   *)
(* does the square root, whose parity Ed25519 reads (278).                 *)
Agrees(v, q, MM(_, _)) ==
  LET a == calc.a % q
      b == calc.b % q
  IN  CASE calc.fn = "add"  -> v % q = (a + b) % q
        [] calc.fn = "sub"  -> v % q = (a - b) % q
        [] calc.fn \in {"mul", "mulc"} -> v % q = MM(a, b)
        [] calc.fn = "neg"  -> v % q = (-a) % q
        [] calc.fn = "norm" -> v = a
        [] calc.fn = "inv"  -> MM(v, a) = IF a = 0 THEN 0 ELSE 1
        [] calc.fn = "sqrt" -> (calc.lib = "FC" => v < q) /\ MM(v, v) = MM(a, a)

FieldSound ==
  calc.fn \in {"add", "sub", "mul", "mulc", "norm", "neg", "inv", "sqrt"} =>
    CASE calc.lib = "FS" -> FS!Fits(calc.out) /\ Agrees(FS!Value(calc.out), FS!p, FS!MulMod)
      [] calc.lib = "FC" -> FC!Fits(calc.out) /\ Agrees(FC!Value(calc.out), FC!p, FC!MulMod)
      [] calc.lib = "BS" -> Agrees(BS!Value(calc.out), BS!p, BS!MulMod)
      [] calc.lib = "BC" -> Agrees(BC!Value(calc.out), BC!p, BC!MulMod)

(* The ladder loses the point when it meets P_(2m-1) with x-coordinate 0   *)
(* (or none): P_(2m+1) is computed from P_2m and P_1, whose difference it  *)
(* is.  Two of 104 odd multiples of a point here, two in about 2^252 of    *)
(* Curve25519's.                                                           *)
Loses(q, e) ==
  \E i \in 1..Size - 2 : morph25519_e2m(Times(2 * (e \div 2^i) - 1, q)[2]) = 0

(* Both multiplications compute n*q: the ladder of c25519.c, through the   *)
(* map of morph25519.c, and the Edwards one give the same point for every  *)
(* point of the curve and every scalar (except where Loses), the extended  *)
(* coordinates stay consistent, and the map back returns the point.        *)
CurveSound ==
  CASE calc.fn = "x25519"  ->
         Loses(calc.q, calc.e) \/ calc.out = morph25519_e2m(Times(calc.e, calc.q)[2])
    [] calc.fn = "ed25519" -> /\ ed25519_unproject(calc.out) = Times(calc.e, calc.q)
                              /\ mul(calc.out.t, calc.out.z) = mul(calc.out.x, calc.out.y)
    [] calc.fn = "morph"   -> calc.q[1] /= 0 => calc.out.ok /\ <<calc.out.x, calc.out.y>> = calc.q
    [] OTHER -> TRUE

(* The point a packed number stands for, if any.                           *)
Unpack(c) ==
  LET y == (c % 2^(Size - 1)) % P
  IN  {q \in {<<x, y>> : x \in {x \in Fp : OnCurve(x, y)}} :
         q[1] /= 0 => q[1] % 2 = c \div 2^(Size - 1)}

(* A signature edsign.c made is accepted; any other is accepted only when  *)
(* key and signature are points and s*B = z*A + R (up to the folding of    *)
(* the parity bit in f25519_eq); scalars are computed modulo the order.    *)
SignSound ==
  CASE calc.fn = "checked" ->
         /\ calc.made => calc.t425
         /\ calc.t425 <=> \E a \in Unpack(calc.pub), r \in Unpack(calc.sig.r) :
                            LET lhs == Times(calc.sig.s, Base)
                                rhs == Plus(Times(calc.hz % Order, a), r)
                            IN  PackedEq(ed25519_pack(lhs[1], lhs[2]), ed25519_pack(rhs[1], rhs[2]))
    [] calc.fn = "fprime" ->
         calc.out = <<(calc.a + calc.b) % calc.m, (calc.a - calc.b) % calc.m,
                      (calc.a * calc.b) % calc.m, IF calc.a = 0 THEN 0 ELSE 1>>
    [] calc.fn = "from_bytes" -> calc.out = calc.x % calc.m
    [] OTHER -> TRUE

(* What is hashed is the prefix and the message, padded as the standard    *)
(* says, at every length (edsign.c:74-90, sha512_32.c:173-187); the pairs  *)
(* compute 64-bit arithmetic, and the ring of sixteen words gives the      *)
(* standard's schedule W[t].                                               *)
HashSound ==
  CASE calc.fn = "hash" ->
         FlattenSeq(calc.out) = Padded(Bytes("p", 0, calc.prefix) \o Bytes("m", 0, calc.n))
    [] calc.fn = "ADD"  -> Num(calc.out) = (calc.x + calc.y) % Word^2
    [] calc.fn = "SHR"  -> Num(calc.out) = calc.x \div 2^calc.y
    [] calc.fn = "ROTR" -> Num(calc.out) = (calc.x \div 2^calc.y)
                                           + (calc.x % 2^calc.y) * 2^(2 * Half - calc.y)
    [] calc.fn = "ring" ->
         \A t \in 1..Len(calc.out) :
           calc.out[t] = IF t <= 16 THEN Pair((calc.x * t) % Word^2)
                         ELSE ADD(ADD(ADD(calc.out[t - 16], Sigma0(calc.out[t - 15])),
                                      calc.out[t - 7]), Sigma1(calc.out[t - 2]))
    [] OTHER -> TRUE

(* a * b modulo FeP, in small steps.                                       *)
FeMulMod(a, b) ==
  LET m == a % FeP
      n == b % FeP
      S(k) == (m * ((n \div 32^k) % 32)) % FeP
  IN  Steps(LAMBDA v, k : (v * 32 + S(4 - k)) % FeP, S(5), Upto(5))

(* X25519 on both, of the number sent and of the scalar: the same point,   *)
(* unless bit 255 is set, which xserv2.c does not mask, or the T425's      *)
(* ladder loses the point.                                                 *)
SamePoint == calc.top = 0 => calc.t425 = calc.out \/ Loses(calc.q, c25519_prepare(calc.e))

(* The two libraries' verdicts on one signature differ only when s is not  *)
(* below the order (the T425 does not look), or when the two sides are     *)
(* different points which agree eight times over (only Monocypher takes    *)
(* that) or in their packed form modulo p (only the T425 does).            *)
SameVerdict ==
  calc.t425 = calc.mono
  \/ calc.sig.s >= Order
  \/ \E a \in Unpack(calc.pub), r \in Unpack(calc.sig.r) :
       LET lhs == Times(calc.sig.s, Base)
           rhs == Plus(Times(calc.hz % Order, a), r)
       IN  /\ lhs /= rhs
           /\ \/ Times(8, lhs) = Times(8, rhs)
              \/ PackedEq(ed25519_pack(lhs[1], lhs[2]), ed25519_pack(rhs[1], rhs[2]))

(* The path taken, the 68030 or the T425, shows only where SamePoint and   *)
(* SameVerdict say (curve25519-monocypher.c:5-7 calls them the same        *)
(* algorithms): Monocypher's fields, ladder, combs, windows, reductions    *)
(* and streamed hash compute the numbers that they should.  Its ladder     *)
(* computes e*q for every point, whatever bit 255 of the number sent       *)
(* (monocypher.c:1160-1179); a signature it makes is edsign.c's, and both  *)
(* accept it; it accepts any other only when both encodings are points, s  *)
(* is below the order and eight times the equation holds (2000-2065); the  *)
(* digits of a sliding window, searched from the order's top bit           *)
(* (1949-1966), add up to the scalar and index its table.                  *)
SameEitherWay ==
  CASE calc.fn = "fe_mul"   -> calc.out = FeMulMod(calc.a - calc.b, calc.a + calc.b)
    [] calc.fn = "fe_sq"    -> calc.out = FeMulMod(calc.a - calc.b, calc.a - calc.b)
    [] calc.fn = "fe_small" -> calc.out = FeMulMod(calc.a, calc.b)
    [] calc.fn = "fe_load"  -> calc.out = calc.a % FeP
    [] calc.fn = "mx25519"  -> /\ calc.out = morph25519_e2m(Times(c25519_prepare(calc.e), calc.q)[2])
                               /\ SamePoint
    [] calc.fn = "mbase"    -> calc.out = sm_pack(calc.e)
    [] calc.fn = "mod_l"    -> calc.out = calc.x % Order
    [] calc.fn = "slide"    ->
         /\ MapThenSumSet(LAMBDA i : calc.out[i] * 2^i, DOMAIN calc.out) = calc.x
         /\ \A i \in DOMAIN calc.out :
              LET d == calc.out[i]
              IN  d = 0 \/ (d % 2 = 1 /\ d < 2^(calc.w - 1) /\ -d < 2^(calc.w - 1))
    [] calc.fn = "msigned"  -> calc.mpub = calc.pub /\ calc.msig = calc.sig
    [] calc.fn = "checked"  ->
         /\ calc.made => calc.mono
         /\ SameVerdict
         /\ calc.mono <=> /\ calc.sig.s < Order
                          /\ \E a \in Unpack(calc.pub), r \in Unpack(calc.sig.r) :
                               Times(8, Times(calc.sig.s, Base))
                                 = Times(8, Plus(Times(calc.hz % Order, a), r))
    [] calc.fn = "mhash"    -> FlattenSeq(calc.out) = Padded(FlattenSeq(calc.pieces))
    [] OTHER -> TRUE
============================================================================
