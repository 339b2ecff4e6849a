--------------------------- MODULE EngineArithmetic ---------------------------
(***************************************************************************)
(* The arithmetic of the accelerator (arty/pl_db/hls/HW/                   *)
(* classifier_engine.cpp): two signed products out of one multiplication,  *)
(* and the requantisation of an accumulator to an activation.              *)
(***************************************************************************)
EXTENDS Integers

CONSTANTS
    AccBits,            \* width of accum_t and of the multiplier: 32
    ActMax              \* largest activation: 127

ASSUME ArithmeticAssumption == AccBits \in Nat \ {0} /\ ActMax \in Nat

(* 2 ^ n, by doubling *)
pow2(n) ==
    LET double[k \in 0 .. n] == IF k = 0 THEN 1 ELSE 2 * double[k - 1]
    IN  double[n]

(* Numbers of accum_t *)
AccRange == pow2(AccBits)
Acc      == -pow2(AccBits - 1) .. pow2(AccBits - 1) - 1

(* act_t and weight_t *)
Int8 == -128 .. 127

(* A number that is stored in an ap_int of some width keeps its low bits. *)
stored(x, modulus) == ((x + modulus \div 2) % modulus) - modulus \div 2

-----------------------------------------------------------------------------
(* mac_pair: w_hi and w_lo + 128 side by side in one operand, 16 bits      *)
(* apart.  The low half of the product, read as a signed number, is        *)
(* a * (w_lo + 128).                                                       *)
packed(w_lo, w_hi) == w_hi * 65536 + (w_lo + 128)

(* Slip: the high half is shifted out with the borrow of the low one. *)
highHalf_Slip_Borrow(p) == p \div 65536
highHalf(p) == (p - stored(p, 65536)) \div 65536

mac_pair(a, w_lo, w_hi) ==
    LET p == a * packed(w_lo, w_hi)
    IN  [lo |-> stored(p, 65536) - a * 128, hi |-> highHalf(p)]

-----------------------------------------------------------------------------
(* requant_relu_c0, _c1 and _c2: the product in twice the width, shifted   *)
(* right with its sign, stored in the width of the accumulator, then ReLU  *)
(* and clamp.                                                              *)

scaled(acc, rq) == acc * rq.multiplier

clamp(x) == IF x < 0 THEN 0 ELSE IF x > ActMax THEN ActMax ELSE x

requant_relu(acc, rq) ==
    clamp(stored(scaled(acc, rq) \div pow2(rq.shift), AccRange))

-----------------------------------------------------------------------------
(* Both halves of the packed product are the products of the two weights,  *)
(* at the ends of the ranges too: no carry from one into the other.        *)
PairExact(a, w_lo, w_hi) ==
    mac_pair(a, w_lo, w_hi) = [lo |-> a * w_lo, hi |-> a * w_hi]

(* What requantisation is to give: the quotient rounded down, clamped. *)
RequantExact(acc, rq) ==
    requant_relu(acc, rq) = clamp((acc * rq.multiplier) \div pow2(rq.shift))
=============================================================================
