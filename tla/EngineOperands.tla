---------------------------- MODULE EngineOperands ----------------------------
(***************************************************************************)
(* The arithmetic of the accelerator by itself, one operation per          *)
(* behaviour: a packed multiplication with an activation, or the           *)
(* requantisation of an accumulator.                                       *)
(***************************************************************************)
EXTENDS EngineArithmetic

CONSTANTS
    HighWeights,        \* bound: weights of the upper of two packed products
    SomeAcc             \* bound: accumulators and multipliers

ASSUME OperandsAssumption == HighWeights \subseteq Int8 /\ SomeAcc \subseteq Acc

VARIABLE op             \* the operation and its operands

NoOp == [name |-> "none"]

PackedOps  == [name : {"mac_pair"}, a : Int8]
RequantOps == [name : {"requant"}, acc : SomeAcc, multiplier : SomeAcc]

(* The accelerator computes without loss.  Both products of a packed       *)
(* multiplication are exact (mac_pair); and with a multiplier that is not  *)
(* negative and a shift of at least the width of the accumulator less one, *)
(* as all exported layers have, requantisation does not wrap: a large      *)
(* accumulator gives the largest activation and never 0 (requant_relu).    *)
ArithmeticIsExact ==
    /\ op.name = "mac_pair" =>
          \A w_lo \in Int8, w_hi \in HighWeights : PairExact(op.a, w_lo, w_hi)
    /\ (op.name = "requant" /\ op.multiplier >= 0) =>
          \A shift \in AccBits - 1 .. 2 * AccBits :
              RequantExact(op.acc, [multiplier |-> op.multiplier, shift |-> shift])
=============================================================================
