---------------------------- MODULE ClassifyOne ----------------------------
(***************************************************************************)
(* classify_one of arty/ps_db/tools/ps_classifier_server.c with the        *)
(* preprocessing and the postprocessing it calls: pixels are quantized and *)
(* padded, the accelerator runs, its output is summed per channel, the     *)
(* last layer gives a logit per class, and the largest one wins.           *)
(*                                                                         *)
(* The sizes are constants, and IntMax stands for INT32_MAX, so that small *)
(* weights reach the overflow the code looks for.  What the accelerator    *)
(* computes is in ClassifierEngine: its output is an input here.  The      *)
(* confidence, a softmax in floating point, is left out.                   *)
(***************************************************************************)
EXTENDS Integers, FiniteSetsExt

CONSTANTS
    Width, Height, Channels,    \* of the image
    PixelValues,                \* a subset of 0 .. 255
    Area,                       \* pixels of the accelerator's output
    Features,                   \* channels of the accelerator's output
    OutputValues, WeightValues, BiasValues,
    class_count,
    Divisors,                   \* gap_divisor
    IntMax

ASSUME ClassifyAssumption ==
    /\ {Width, Height, Channels, Area, Features, class_count, IntMax} \subseteq Nat \ {0}
    /\ PixelValues \subseteq 0 .. 255
    /\ OutputValues \cup WeightValues \cup BiasValues \subseteq -128 .. 127
    /\ Divisors \subseteq 1 .. IntMax

Classes   == 0 .. class_count - 1
ImageSize == Width * Height * Channels
InputSize == (Width + 2) * (Height + 2) * Channels
NoClass   == -1                 \* ADAS_ROI_INVALID_CLASS_ID

VARIABLES
    stage,
    pixels,                     \* the request
    input,                      \* the input buffer of the device
    pl_output,                  \* its output buffer
    weights, biases, divisor,   \* the model
    answer

modelVars    == <<weights, biases, divisor>>
classifyVars == <<stage, pixels, input, pl_output, modelVars, answer>>

(* A request with one of these images, on one of these models.  The buffer *)
(* holds what the last request left there.                                 *)
ClassifyInit(images, outputs, rows, offsets, divisors) ==
    /\ stage = "preprocess"
    /\ pixels \in [0 .. ImageSize - 1 -> images]
    /\ input = [i \in 0 .. InputSize - 1 |-> 99]
    /\ pl_output \in [0 .. Area * Features - 1 -> outputs]
    /\ weights \in [0 .. class_count * Features - 1 -> rows]
    /\ biases \in [Classes -> offsets]
    /\ divisor \in divisors
    /\ answer = [status |-> "none", class_id |-> NoClass]

failed_result(why) == [status |-> why, class_id |-> NoClass]
Reply(r) == stage' = "answered" /\ answer' = r

-----------------------------------------------------------------------------
adas_roi_quantize_pixel(p) == (p * 127 + 127) \div 255

(* Slip: the stride of the padded rows is forgotten. *)
outputIndex_Slip_Stride(x, y, c) == ((y + 1) * Width + (x + 1)) * Channels + c
outputIndex(x, y, c) == ((y + 1) * (Width + 2) + (x + 1)) * Channels + c

inputIndex(x, y, c) == (y * Width + x) * Channels + c

(* The buffer is cleared, then each pixel goes to its place. *)
adas_roi_preprocess(img) ==
    LET Places == (0 .. Width - 1) \X (0 .. Height - 1) \X (0 .. Channels - 1)
        At(i)  == {t \in Places : outputIndex(t[1], t[2], t[3]) = i}
    IN  [i \in 0 .. InputSize - 1 |->
            IF At(i) = {} THEN 0
            ELSE LET t == CHOOSE t \in At(i) : TRUE
                 IN  adas_roi_quantize_pixel(img[inputIndex(t[1], t[2], t[3])])]

PreprocessRoi ==
    /\ stage = "preprocess"
    /\ input' = adas_roi_preprocess(pixels)
    /\ stage' = "run"
    /\ UNCHANGED <<pixels, pl_output, modelVars, answer>>

(* adas_classifier_device_run succeeds, or times out or fails. *)
RunDevice ==
    /\ stage = "run"
    /\ \/ stage' = "postprocess" /\ UNCHANGED answer
       \/ Reply(failed_result("accelerator error"))
    /\ UNCHANGED <<pixels, input, pl_output, modelVars>>

-----------------------------------------------------------------------------
total(g) == MapThenSumSet(LAMBDA i : g[i], DOMAIN g)

adas_classifier_gap_sum(out) ==
    [f \in 0 .. Features - 1 |-> total([p \in 0 .. Area - 1 |-> out[p * Features + f]])]

(* Integer division of C: towards zero. *)
quotient(a, b) == IF a >= 0 THEN a \div b ELSE -((-a) \div b)

exactLogit(sums, k) ==
    biases[k] + total([f \in 0 .. Features - 1 |->
                           quotient(sums[f], divisor) * weights[k * Features + f]])

fits(v) == v \in -IntMax - 1 .. IntMax

(* The sum is kept in an int64 and refused if an int32 cannot hold it. *)
adas_classifier_fc(sums) ==
    LET logits == [k \in Classes |-> exactLogit(sums, k)]
    IN  [status |-> IF \A k \in Classes : fits(logits[k]) THEN "ok" ELSE "overflow",
         logits |-> logits]

(* Of equal logits the first one wins. *)
adas_classifier_argmax(logits) ==
    LET best[k \in Classes] ==
            IF k = 0 THEN 0
            ELSE IF logits[k] > logits[best[k - 1]] THEN k ELSE best[k - 1]
    IN  best[class_count - 1]

PostprocessOutput ==
    /\ stage = "postprocess"
    /\ LET fc == adas_classifier_fc(adas_classifier_gap_sum(pl_output))
       IN  \/ Reply(failed_result("postprocess error"))     \* malloc failed
           \/ Reply(IF fc.status = "ok"
                     THEN [status |-> "ok", class_id |-> adas_classifier_argmax(fc.logits)]
                     ELSE failed_result("postprocess error"))
    /\ UNCHANGED <<pixels, input, pl_output, modelVars>>

ClassifyNext == PreprocessRoi \/ RunDevice \/ PostprocessOutput

ClassifySpec ==
    /\ ClassifyInit(PixelValues, OutputValues, WeightValues, BiasValues, Divisors)
    /\ [][ClassifyNext]_classifyVars

-----------------------------------------------------------------------------
(* The accelerator sees each pixel, rounded to the nearest of 128 levels,  *)
(* at its place, and zero on the border, whatever the last request had     *)
(* left in the buffer.                                                     *)
PaddedImage ==
    stage # "preprocess" =>
        \A y \in 0 .. Height + 1, x \in 0 .. Width + 1, c \in 0 .. Channels - 1 :
            LET v      == input[(y * (Width + 2) + x) * Channels + c]
                inside == y \in 1 .. Height /\ x \in 1 .. Width
                p      == pixels[((y - 1) * Width + x - 1) * Channels + c]
            IN  IF inside THEN v \in 0 .. 127 /\ 2 * (255 * v - 127 * p) \in -255 .. 255
                ELSE v = 0

(* An answer names the first of the classes whose exact logit is the       *)
(* largest; if the logit of any class is beyond 32 bits, no class is       *)
(* named: never one that won by a wrapped number.                          *)
AnswerIsExact ==
    LET logit(k) == exactLogit(adas_classifier_gap_sum(pl_output), k)
    IN  answer.status = "ok" =>
            /\ \A k \in Classes : fits(logit(k)) /\ logit(answer.class_id) >= logit(k)
            /\ \A k \in 0 .. answer.class_id - 1 : logit(k) < logit(answer.class_id)

(* What classify_one answers is what the model says of the image. *)
ClassificationIsExact == PaddedImage /\ AnswerIsExact
=============================================================================
