------------------------------ MODULE MCVision ------------------------------
(***************************************************************************)
(* What becomes of the pixels: the proposals and crops of the Jetson, the  *)
(* layers of the accelerator and, by itself, its arithmetic.  part says    *)
(* which of them a behaviour shows; the others stay as they start.         *)
(*                                                                         *)
(* Proposals: a frame of 12 x 9 pixels on a canvas of 8 x 8, in half       *)
(* pixels (a step on the canvas is 1.5 pixels).  Three boxes of which each *)
(* overlaps the next by more than the threshold, with three scores, and    *)
(* boxes that are too weak, tiny, over the edge of the picture, larger     *)
(* than it and in the padding.                                             *)
(*                                                                         *)
(* Layers: images of 8 x 8 pixels in two channels, four channels after     *)
(* each layer: two blocks of output channels and two of input channels.  A *)
(* kernel has one tap, and every tap of every layer is taken once, with    *)
(* the channels mixed; one model has all taps.  Images are a pattern       *)
(* without symmetry and single pixels at a corner and an edge.             *)
(*                                                                         *)
(* Arithmetic: every activation and low weight with the high weights at    *)
(* the ends of the range; accumulators and multipliers around the ends and *)
(* the middle of theirs, in 12 bits instead of 32 (TLC's own numbers have  *)
(* 32), with every shift.                                                  *)
(***************************************************************************)
EXTENDS RoiProposal, ClassifierEngine, EngineOperands

PredictedBox(x1, x2, y1, y2, score) ==
    [x1 |-> x1, x2 |-> x2, y1 |-> y1, y2 |-> y2, score |-> score]

MCOutputs ==
    {PredictedBox(x, x + 3, 1, 4, score) : x \in 0 .. 2, score \in {20, 30, 60}}
        \cup {PredictedBox(0, 3, 1, 4, 5), PredictedBox(0, 1, 1, 2, 30),
              PredictedBox(7, 9, 6, 8, 30), PredictedBox(-1, 9, 0, 8, 60),
              PredictedBox(7, 8, 0, 1, 60)}

MCNoOutputBoxes == {PredictedBox(0, 4, 0, 4, 0), PredictedBox(0, 24, 0, 18, 100)}

-----------------------------------------------------------------------------
ChannelCounts == <<2, 4, 4, 4>>

Pattern(f(_, _, _)) ==
    [p \in Upto(Size + 2) \X Upto(Size + 2) \X Upto(2) |->
        IF p[1] \in 1 .. Size /\ p[2] \in 1 .. Size THEN f(p[1], p[2], p[3]) ELSE 0]

TestImages ==
    {Pattern(LAMBDA y, x, c : (7 * y + 3 * x + 5 * c + x * y) % 11),
     Pattern(LAMBDA y, x, c : IF <<y, x>> = <<1, 1>> THEN 9 ELSE 0),
     Pattern(LAMBDA y, x, c : IF <<y, x>> = <<Size, 4>> THEN 9 - c ELSE 1)}

(* One tap; output channel oc takes input channel oc + shift, odd ones     *)
(* with the opposite sign in the last layer                                *)
OneTap(n, ky, kx) ==
    [kernel |-> [t \in Upto(4) \X Upto(ChannelCounts[n]) \X Upto(3) \X Upto(3) |->
                   IF t[3] = ky /\ t[4] = kx /\ t[2] = (t[1] + n) % ChannelCounts[n]
                   THEN (IF n = 3 /\ t[1] % 2 = 1 THEN -1 ELSE 2) ELSE 0],
     bias |-> [c \in Upto(4) |-> c],
     rq |-> [multiplier |-> 2, shift |-> 2]]

(* All taps, of either sign *)
AllTaps(n) ==
    [OneTap(n, 1, 1) EXCEPT
        !.kernel = [t \in DOMAIN @ |-> ((7 * t[1] + 5 * t[2] + 3 * t[3] + 11 * t[4]) % 5) - 2]]

TestModels ==
    {[n \in 1 .. 3 |-> AllTaps(n)]} \cup
    {[n \in 1 .. 3 |-> IF n = m THEN OneTap(n, ky, kx) ELSE OneTap(n, 1, 1)] :
        m \in 1 .. 3, ky, kx \in 0 .. 2}

-----------------------------------------------------------------------------
MCHighWeights == {-128, -127, -1, 0, 1, 127}

AccMax    == pow2(AccBits - 1) - 1
MCSomeAcc == {-AccMax - 1, -AccMax, -1, AccMax - 1, AccMax, AccMax \div 2, AccMax \div 2 + 1}
               \cup 0 .. 40

VARIABLE part       \* what is shown
all == <<part, op, engineVars, proposalVars>>

OneOf(S) == {CHOOSE x \in S : TRUE}

MCInit ==
    \/ /\ part = "arithmetic" /\ op \in PackedOps \cup RequantOps
       /\ EngineInit(OneOf(Images), OneOf(Models)) /\ ProposalInit({{}})
    \/ /\ part = "engine" /\ op = NoOp
       /\ EngineInit(Images, Models) /\ ProposalInit({{}})
    \/ /\ part = "proposals" /\ op = NoOp
       /\ EngineInit(OneOf(Images), OneOf(Models)) /\ ProposalInit(FrameOutputs)

MCNext ==
    /\ UNCHANGED <<part, op>>
    /\ \/ part = "engine"    /\ EngineNext   /\ UNCHANGED proposalVars
       \/ part = "proposals" /\ ProposalNext /\ UNCHANGED engineVars

MCSpec == MCInit /\ [][MCNext]_all
=============================================================================
