---------------------------- MODULE SafetyJudge ----------------------------
(***************************************************************************)
(* The judgement of one frame: common/src/SafetyJudge.cpp.                 *)
(*                                                                         *)
(* A detection is a box with a class and a score.  The code keeps box      *)
(* coordinates and thresholds as ratios of the frame in floats; here they  *)
(* are integers in one common unit (a fraction of the frame), which keeps  *)
(* every comparison the code makes.  The class ids are the ones the Arty   *)
(* PS installs (projectClassMap in ps_safety_bridge.cpp).                  *)
(***************************************************************************)
EXTENDS SafetyState, Integers, Sequences

CONSTANTS
    min_score,                  \* detections below it are ignored
    zone_x_min, zone_x_max,     \* corridor of the robot, left and right
    zone_y_min,                 \* bottom edge must reach this line
    stop_height, slow_height,   \* box height stands for closeness
    sign_slow_width             \* the only gate of a sign

(* ps_safety_start refuses zone_x_min > zone_x_max; slow_height may exceed *)
(* stop_height (it only warns).                                            *)
ASSUME JudgeConfigAssumption ==
    /\ {min_score, zone_x_min, zone_x_max, zone_y_min,
        stop_height, slow_height, sign_slow_width} \subseteq Nat
    /\ zone_x_min <= zone_x_max

-----------------------------------------------------------------------------
(* projectClassMap() *)
background == 0
car        == 1
person     == 2
signs      == {3, 4, 5}
ClassId    == 0 .. 5
NoClass    == -1

isHazardClass(c) == c \in {car, person}
isSignClass(c)   == c \in signs

DetectionRecord ==
    [class_id : ClassId, score : Int, x1 : Int, y1 : Int, x2 : Int, y2 : Int]

-----------------------------------------------------------------------------
(* The path of the robot: the centre of the box between the two corridor   *)
(* lines, its bottom edge low enough.                                      *)
InZone(det) ==
    /\ det.x1 + det.x2 >= 2 * zone_x_min
    /\ det.x1 + det.x2 <= 2 * zone_x_max
    /\ det.y2 >= zone_y_min

judgeOne(det) ==
    LET height == det.y2 - det.y1
        judged == /\ isSignClass(det.class_id) \/ isHazardClass(det.class_id)
                  /\ det.score >= min_score
                  /\ height > 0
                  /\ det.x2 > det.x1
    IN  IF ~judged THEN Clear
        ELSE IF isSignClass(det.class_id)
             THEN IF det.x2 - det.x1 >= sign_slow_width THEN Slow ELSE Clear
        ELSE IF ~InZone(det)          THEN Clear
        ELSE IF height >= stop_height THEN Stop
        ELSE IF height >= slow_height THEN Slow
        ELSE Clear

(* The level a detection contributes when one class is left out. *)
levelWithout(det, exclude_class) ==
    IF det.class_id = exclude_class THEN Clear ELSE judgeOne(det)

(* The worst level in a frame, and the first detection at a level. *)
worstLevel(items, exclude_class) ==
    LET attained == {levelWithout(items[i], exclude_class) : i \in DOMAIN items}
    IN  IF Stop \in attained THEN Stop
        ELSE IF Slow \in attained THEN Slow ELSE Clear

isFirstAt(items, exclude_class, level, i) ==
    /\ levelWithout(items[i], exclude_class) = level
    /\ \A j \in 1 .. i - 1 : levelWithout(items[j], exclude_class) # level

firstAt(items, exclude_class, level) ==
    CHOOSE i \in DOMAIN items : isFirstAt(items, exclude_class, level, i)

(* judgeWorst: the worst level, and the class of the first detection that  *)
(* attains it.  JudgeLoop shows that the loop of the code computes this.   *)
judgeWorst(items, exclude_class) ==
    LET worst == worstLevel(items, exclude_class)
    IN  [state |-> worst,
         class |-> IF worst = Clear THEN NoClass
                   ELSE items[firstAt(items, exclude_class, worst)].class_id]

(* The class is in the frame and passes the gates of the judgement. *)
classPresent(items, target_class) ==
    /\ target_class >= 0
    /\ \E i \in DOMAIN items :
        items[i].class_id = target_class /\ judgeOne(items[i]) # Clear
=============================================================================
