----------------------------- MODULE RoiProposal -----------------------------
(***************************************************************************)
(* From the output of the proposal network to the crops of a frame:        *)
(* RoiProposer::propose (threshold, letterbox undone, clamp, sort,         *)
(* non-maximum suppression, cap) and RoiCropper::crop (square window with  *)
(* margin, clipped to the frame and padded).                               *)
(*                                                                         *)
(* Lengths in the frame are integers in units of 1 / Sub pixel, and scores *)
(* and thresholds in percent; float rounding is left out.  std::sort is    *)
(* not stable: boxes of equal score come in any order.                     *)
(***************************************************************************)
EXTENDS Integers, SequencesExt

CONSTANTS
    kModelSize,                 \* the network sees a square canvas
    cols, rows,                 \* of the camera frame, cols >= rows
    Sub,
    confidence_threshold, nms_iou_threshold, max_candidates,
    Margin,                     \* margin_ratio in twentieths (0.15)
    Outputs,                    \* predictions the network may make
    MaxOutputs,                 \* bound: predictions in a frame
    NoOutputBoxes               \* candidate of a frame without proposals

Box == [x1 : Int, x2 : Int, y1 : Int, y2 : Int, score : Int]

(* A box with an area, some of it in the frame. *)
visible(b) ==
    /\ b.x1 < b.x2 /\ b.x1 < cols * Sub /\ b.x2 > 0
    /\ b.y1 < b.y2 /\ b.y1 < rows * Sub /\ b.y2 > 0

ASSUME ProposalAssumption ==
    /\ {kModelSize, cols, rows, Sub, max_candidates} \subseteq Nat \ {0}
    /\ rows <= cols /\ (cols * Sub) % kModelSize = 0 /\ (rows * kModelSize) % cols = 0
    /\ confidence_threshold \in 0 .. 100 /\ nms_iou_threshold \in 0 .. 100
    /\ Margin \in Nat /\ MaxOutputs \in Nat
    /\ Outputs \subseteq Box
    /\ NoOutputBoxes \subseteq Box /\ \A b \in NoOutputBoxes : visible(b)

VARIABLES
    stage,                      \* "sort", "nms", "crop" or "done"
    predictions,                \* what the network returned
    boxes,                      \* those that remain, in order of score
    proposals,                  \* kept so far: the candidates of main()
    candidate,                  \* those that main() has come to
    crops                       \* of the candidates, in their order

proposalVars == <<stage, predictions, boxes, proposals, candidate, crops>>

-----------------------------------------------------------------------------
(* The letterbox: the frame is scaled by kModelSize / cols and put at      *)
(* (pad_x, pad_y) of the canvas.                                           *)
resized_height == (rows * kModelSize) \div cols
pad_x == 0
pad_y == (kModelSize - resized_height) \div 2

toFrame(c, pad) == (c - pad) * ((cols * Sub) \div kModelSize)

limited(v, hi) == IF v < 0 THEN 0 ELSE IF v > hi THEN hi ELSE v

decoded(p) ==
    [x1 |-> limited(toFrame(p.x1, pad_x), cols * Sub),
     x2 |-> limited(toFrame(p.x2, pad_x), cols * Sub),
     y1 |-> limited(toFrame(p.y1, pad_y), rows * Sub),
     y2 |-> limited(toFrame(p.y2, pad_y), rows * Sub),
     score |-> p.score]

passes(p) ==
    /\ p.score >= confidence_threshold
    /\ decoded(p).x2 > decoded(p).x1 /\ decoded(p).y2 > decoded(p).y1

inOrder(s) == \A i, j \in DOMAIN s : i < j => s[i].score >= s[j].score

-----------------------------------------------------------------------------
larger(a, b)  == IF a > b THEN a ELSE b
smaller(a, b) == IF a < b THEN a ELSE b

intersection(a, b) ==
    larger(0, smaller(a.x2, b.x2) - larger(a.x1, b.x1))
        * larger(0, smaller(a.y2, b.y2) - larger(a.y1, b.y1))

area(a) == (a.x2 - a.x1) * (a.y2 - a.y1)

(* intersection_over_union(a, b) > nms_iou_threshold *)
overlap(a, b) ==
    100 * intersection(a, b) > nms_iou_threshold * (area(a) + area(b) - intersection(a, b))

(* Slip: a box that was suppressed suppresses others. *)
suppressed_Slip_Chain(box) ==
    \E p \in predictions : passes(p) /\ p.score > box.score /\ overlap(box, decoded(p))

suppressed(box) == \E i \in DOMAIN proposals : overlap(box, proposals[i])

(* What remains of the output, sorted. *)
Decode(s) ==
    /\ stage = "sort"
    /\ inOrder(s)
    /\ boxes' = [i \in DOMAIN s |-> decoded(s[i])]
    /\ stage' = "nms"
    /\ UNCHANGED <<predictions, proposals, candidate, crops>>

(* The next box is suppressed or becomes a proposal. *)
Suppress ==
    /\ stage = "nms"
    /\ boxes # << >> /\ Len(proposals) < max_candidates
    /\ boxes' = Tail(boxes)
    /\ proposals' = IF suppressed(Head(boxes)) THEN proposals
                    ELSE Append(proposals, Head(boxes))
    /\ UNCHANGED <<stage, predictions, candidate, crops>>

(* The candidates are complete; an empty frame may have one of its own (a  *)
(* heartbeat), as has the mode without proposals.                          *)
Proposed(own) ==
    /\ stage = "nms"
    /\ boxes = << >> \/ Len(proposals) = max_candidates
    /\ boxes' = << >>
    /\ \/ proposals' = proposals
       \/ proposals = << >> /\ proposals' = <<own>>
    /\ stage' = "crop"
    /\ UNCHANGED <<predictions, candidate, crops>>

-----------------------------------------------------------------------------
(* RoiCropper::crop.  Sizes times 20 * Sub are exact. *)
Scale == 20 * Sub
floorPx(v) == v \div Scale
ceilPx(v)  == -((-v) \div Scale)

(* Slip: the far edge is rounded like the near one. *)
farPx_Slip_Floor(v) == floorPx(v)
farPx(v) == ceilPx(v)

(* One side of the square before it is made exact: first and last pixel *)
side(lo, hi, square) ==
    [lo |-> floorPx(10 * (lo + hi) - square), hi |-> farPx(10 * (lo + hi) + square)]

(* A side that is short of the size is widened, half of it to the left. *)
widened(s, width) == s.lo - (width - (s.hi - s.lo)) \div 2

(* The part of [lo, lo + size) inside [0, n), and what is outside of it *)
clipped(lo, width, n) ==
    LET first == larger(lo, 0)
        last  == smaller(lo + width, n)
    IN  [first |-> first, length |-> last - first,
         before |-> first - lo, after |-> lo + width - last]

crop(b) ==
    LET square == (10 + Margin) * larger(b.x2 - b.x1, b.y2 - b.y1)
        h      == side(b.x1, b.x2, square)
        v      == side(b.y1, b.y2, square)
        width  == larger(h.hi - h.lo, v.hi - v.lo)
        left   == widened(h, width)
        top    == widened(v, width)
    IN  [x |-> left, y |-> top, width |-> width,
         across |-> clipped(left, width, cols), down |-> clipped(top, width, rows)]

croppable(b) ==
    /\ b.x2 > b.x1 /\ b.y2 > b.y1
    /\ crop(b).across.length > 0 /\ crop(b).down.length > 0

(* The loop over the candidates in main(): one that gives no crop is left  *)
(* out.                                                                    *)
Crop ==
    /\ stage = "crop" /\ candidate < Len(proposals)
    /\ candidate' = candidate + 1
    /\ LET b == proposals[candidate + 1]
       IN  crops' = IF croppable(b) THEN Append(crops, crop(b)) ELSE crops
    /\ UNCHANGED <<stage, predictions, boxes, proposals>>

FrameDone ==
    /\ stage = "crop" /\ candidate = Len(proposals)
    /\ stage' = "done"
    /\ UNCHANGED <<predictions, boxes, proposals, candidate, crops>>

-----------------------------------------------------------------------------
(* What the network may return for a frame *)
FrameOutputs == {Range(output) : output \in [1 .. MaxOutputs -> Outputs]}

ProposalInit(returned) ==
    /\ stage = "sort"
    /\ predictions \in returned
    /\ boxes = << >> /\ proposals = << >> /\ candidate = 0 /\ crops = << >>

ProposalNext ==
    \/ \E s \in SetToSeqs({p \in predictions : passes(p)}) : Decode(s)
    \/ Suppress
    \/ \E own \in NoOutputBoxes : Proposed(own)
    \/ Crop
    \/ FrameDone

ProposalSpec == ProposalInit(FrameOutputs) /\ [][ProposalNext]_proposalVars

-----------------------------------------------------------------------------
Complete == stage \in {"crop", "done"}

(* Nothing the network reported gets lost and nothing is sent twice: every *)
(* box over the threshold is sent, or one that is kept and at least as     *)
(* strong covers it, or the cap is reached by boxes at least as strong; a  *)
(* box that was itself suppressed hides nothing.  And any two ROIs of a    *)
(* frame overlap by the threshold at most, not only neighbours in the      *)
(* order.                                                                  *)
NothingLost ==
    Complete =>
        /\ \A p \in predictions : passes(p) =>
              LET box == decoded(p) IN
              \/ \E i \in DOMAIN proposals :
                    /\ proposals[i].score >= box.score
                    /\ proposals[i] = box \/ overlap(box, proposals[i])
              \/ /\ Len(proposals) = max_candidates
                 /\ \A i \in DOMAIN proposals : proposals[i].score >= box.score
        /\ \A i, j \in DOMAIN proposals : i # j => ~overlap(proposals[i], proposals[j])

(* A prediction inside the picture on the canvas is where the object is in *)
(* the frame: undoing the letterbox does not shift it and the clamp does   *)
(* not cut it.                                                             *)
MapsToFrame(p) ==
    /\ 0 <= p.x1 /\ p.x1 <= p.x2 /\ p.x2 <= kModelSize
    /\ pad_y <= p.y1 /\ p.y1 <= p.y2 /\ p.y2 <= pad_y + resized_height
    =>  LET box == decoded(p) IN
        /\ kModelSize * box.y1 = cols * Sub * (p.y1 - pad_y)
        /\ kModelSize * (box.y2 - box.y1) = cols * Sub * (p.y2 - p.y1)
        /\ kModelSize * (box.x2 - box.x1) = cols * Sub * (p.x2 - p.x1)

(* What the network saw ends up in a crop where it is.  Every proposal can *)
(* be cropped, also one at the edge of the frame or larger than it; its    *)
(* window is square, holds the whole box, and is made up exactly by the    *)
(* visible part and the padding; and the box is where the network saw it.  *)
WindowHoldsBox ==
    stage = "done" =>
        /\ \A p \in predictions : MapsToFrame(p)
        /\ Len(crops) = Len(proposals)
        /\ \A i \in DOMAIN crops :
              LET c == crops[i]
                  b == proposals[i]
              IN  /\ c.x * Sub <= b.x1 /\ b.x2 <= (c.x + c.width) * Sub
                  /\ c.y * Sub <= b.y1 /\ b.y2 <= (c.y + c.width) * Sub
                  /\ \A along \in {c.across, c.down} :
                        /\ along.before >= 0 /\ along.after >= 0 /\ along.length > 0
                        /\ along.before + along.length + along.after = c.width
=============================================================================
