----------------------------- MODULE JudgeLoop -----------------------------
(***************************************************************************)
(* The loop of judgeWorst (common/src/SafetyJudge.cpp), one iteration per  *)
(* step, with its early return.  The rest of the project uses the          *)
(* declarative judgeWorst of SafetyJudge; here the two are compared.       *)
(***************************************************************************)
EXTENDS SafetyJudge

CONSTANTS
    Detections,     \* the detections a frame may hold
    MaxItems        \* bound: detections in a frame (kMaxDetections)

ASSUME LoopAssumption ==
    Detections \subseteq DetectionRecord /\ MaxItems \in Nat

VARIABLES
    items, exclude_class,       \* the arguments
    i,                          \* index of the next detection to look at
    worst, out_class,           \* the running result
    returned

loopVars == <<items, exclude_class, i, worst, out_class, returned>>

Excludable == {NoClass, car, person}
LoopFrames     == UNION {[1 .. n -> Detections] : n \in 0 .. MaxItems}

LoopTypeOK ==
    /\ items \in Seq(Detections)
    /\ exclude_class \in Excludable
    /\ i \in 1 .. Len(items) + 1
    /\ worst \in State
    /\ out_class \in ClassId \cup {NoClass}
    /\ returned \in BOOLEAN

LoopInit ==
    /\ items \in LoopFrames
    /\ exclude_class \in Excludable
    /\ i = 1
    /\ worst = Clear
    /\ out_class = NoClass
    /\ returned = FALSE

More == ~returned /\ i <= Len(items)

(* continue: the class is excluded *)
Skip ==
    /\ More
    /\ items[i].class_id = exclude_class
    /\ i' = i + 1
    /\ UNCHANGED <<items, exclude_class, worst, out_class, returned>>

(* return State::Stop: nothing later can be worse *)
ReturnStop ==
    /\ More
    /\ items[i].class_id # exclude_class
    /\ judgeOne(items[i]) = Stop
    /\ worst' = Stop
    /\ out_class' = items[i].class_id
    /\ returned' = TRUE
    /\ UNCHANGED <<items, exclude_class, i>>

(* Plausible slip: >= for >, so a later detection of the same level takes  *)
(* the class over.                                                         *)
Raise_Slip_OrEqual ==
    /\ More
    /\ items[i].class_id # exclude_class
    /\ judgeOne(items[i]) # Stop
    /\ IF judgeOne(items[i]) >= worst
       THEN worst' = judgeOne(items[i]) /\ out_class' = items[i].class_id
       ELSE UNCHANGED <<worst, out_class>>
    /\ i' = i + 1
    /\ UNCHANGED <<items, exclude_class, returned>>

(* a level below Stop replaces the running result only when it is greater *)
Raise ==
    /\ More
    /\ items[i].class_id # exclude_class
    /\ judgeOne(items[i]) # Stop
    /\ IF judgeOne(items[i]) > worst
       THEN worst' = judgeOne(items[i]) /\ out_class' = items[i].class_id
       ELSE UNCHANGED <<worst, out_class>>
    /\ i' = i + 1
    /\ UNCHANGED <<items, exclude_class, returned>>

(* return worst: the loop is over (or there was nothing to look at) *)
ReturnWorst ==
    /\ ~returned
    /\ i = Len(items) + 1
    /\ returned' = TRUE
    /\ UNCHANGED <<items, exclude_class, i, worst, out_class>>

Iterate == Skip \/ ReturnStop \/ Raise
LoopNext    == Iterate \/ ReturnWorst

LoopSpec == LoopInit /\ [][LoopNext]_loopVars

-----------------------------------------------------------------------------
(* What the loop has established of the detections before i: the running   *)
(* result is the worst of the prefix, held by the first that attains it.   *)
PrefixJudged ==
    ~returned =>
        /\ worst # Stop
        /\ \A j \in 1 .. i - 1 : levelWithout(items[j], exclude_class) # Stop
        /\ worst = Clear =>
            /\ out_class = NoClass
            /\ \A j \in 1 .. i - 1 : levelWithout(items[j], exclude_class) = Clear
        /\ worst = Slow =>
            \E f \in 1 .. i - 1 :
                /\ levelWithout(items[f], exclude_class) = Slow
                /\ \A j \in 1 .. f - 1 :
                       levelWithout(items[j], exclude_class) # Slow
                /\ out_class = items[f].class_id

(* The loop of judgeWorst, early return included, gives exactly the worst  *)
(* level of the detections that are not excluded and the class of the      *)
(* first detection at that level (the class the hazard latch remembers).   *)
LoopComputesWorst ==
    returned => [state |-> worst, class |-> out_class]
                    = judgeWorst(items, exclude_class)
=============================================================================
