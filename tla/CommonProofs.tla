--------------------------- MODULE CommonProofs ----------------------------
(***************************************************************************)
(* The parts of common/ for every value of their constants: the loop of    *)
(* judgeWorst, the hazard latch, the debounce, the shared message, and the *)
(* frame on the UART with the node that receives it.                       *)
(***************************************************************************)
EXTENDS UartLink, JudgeLoop, LatchMachine, SafetyDebounce, SafetyMessage, LatchFacts, TLAPS

-----------------------------------------------------------------------------
(* JudgeLoop: the loop of judgeWorst computes judgeWorst, for every set of *)
(* detections and every frame length.                                      *)

(* A frame has at most one first detection at a level. *)
LEMMA FirstIsUnique ==
    ASSUME NEW s \in Seq(Detections), NEW e, NEW level, NEW f \in DOMAIN s,
           isFirstAt(s, e, level, f)
    PROVE  firstAt(s, e, level) = f
<1> DEFINE g == firstAt(s, e, level)
<1>1. g \in DOMAIN s /\ isFirstAt(s, e, level, g)
  BY FirstAtIsFirst
<1> HIDE DEF g
<1>2. g \in Int /\ f \in Int /\ g >= 1 /\ f >= 1
  BY <1>1
<1>3. ~(g < f) /\ ~(f < g)
  BY <1>1, <1>2 DEF isFirstAt
<1>4. g = f
  BY <1>2, <1>3
<1> QED BY <1>4 DEF g

(* If f is the first detection at Stop, judgeWorst reports it. *)
LEMMA WorstIsStop ==
    ASSUME NEW s \in Seq(Detections), NEW e, NEW f \in DOMAIN s,
           levelWithout(s[f], e) = Stop,
           \A j \in 1 .. f - 1 : levelWithout(s[j], e) # Stop
    PROVE  judgeWorst(s, e) = [state |-> Stop, class |-> s[f].class_id]
<1>1. firstAt(s, e, Stop) = f
  BY FirstIsUnique DEF isFirstAt
<1>2. worstLevel(s, e) = Stop
  BY DEF worstLevel
<1> QED BY <1>1, <1>2 DEF judgeWorst, Stop, Clear

(* If no detection is at Stop and f is the first at Slow, judgeWorst       *)
(* reports f.                                                              *)
LEMMA WorstIsSlow ==
    ASSUME NEW s \in Seq(Detections), NEW e, NEW f \in DOMAIN s,
           \A j \in DOMAIN s : levelWithout(s[j], e) # Stop,
           levelWithout(s[f], e) = Slow,
           \A j \in 1 .. f - 1 : levelWithout(s[j], e) # Slow
    PROVE  judgeWorst(s, e) = [state |-> Slow, class |-> s[f].class_id]
<1>1. firstAt(s, e, Slow) = f
  BY FirstIsUnique DEF isFirstAt
<1>2. worstLevel(s, e) = Slow
  BY DEF worstLevel
<1> QED BY <1>1, <1>2 DEF judgeWorst, Slow, Clear

(* If every detection is at Clear, judgeWorst reports no class. *)
LEMMA WorstIsClear ==
    ASSUME NEW s \in Seq(Detections), NEW e,
           \A j \in DOMAIN s : levelWithout(s[j], e) = Clear
    PROVE  judgeWorst(s, e) = [state |-> Clear, class |-> NoClass]
<1>1. worstLevel(s, e) = Clear
  BY DEF worstLevel, Stop, Slow, Clear
<1> QED BY <1>1 DEF judgeWorst

-----------------------------------------------------------------------------
(* The inductive invariant: types, the judged prefix, the returned result. *)
LoopInv == LoopTypeOK /\ PrefixJudged /\ LoopComputesWorst

(* It holds before the first iteration, when the prefix is empty. *)
LEMMA LoopInvInit == LoopInit => LoopInv
<1> SUFFICES ASSUME LoopInit PROVE LoopInv
  OBVIOUS
<1>1. items \in Seq(Detections)
  BY LoopAssumption DEF LoopInit, LoopFrames
<1>2. Len(items) \in Nat
  BY <1>1
<1>3. LoopTypeOK
  <2>1. i \in 1 .. Len(items) + 1
    BY <1>2 DEF LoopInit
  <2>2. worst \in State /\ returned \in BOOLEAN
    BY DEF LoopInit, State
  <2>3. exclude_class \in Excludable /\ out_class \in ClassId \cup {NoClass}
    BY DEF LoopInit
  <2> QED BY <1>1, <2>1, <2>2, <2>3 DEF LoopTypeOK
<1>4. PrefixJudged
  BY DEF LoopInit, PrefixJudged, Clear, Slow, Stop
<1>5. LoopComputesWorst
  BY DEF LoopInit, LoopComputesWorst
<1> QED BY <1>3, <1>4, <1>5 DEF LoopInv

(* Every iteration, and the return, preserves it. *)
LEMMA LoopInvStep == LoopInv /\ [LoopNext]_loopVars => LoopInv'
<1> SUFFICES ASSUME LoopInv, [LoopNext]_loopVars PROVE LoopInv'
  OBVIOUS
<1> USE DEF LoopInv
<1>t. /\ Len(items) \in Nat
      /\ DOMAIN items = 1 .. Len(items)
      /\ \A j \in DOMAIN items : items[j] \in DetectionRecord
  BY LoopAssumption DEF LoopTypeOK
<1>c. ASSUME More
      PROVE  /\ i \in DOMAIN items /\ i + 1 \in 1 .. Len(items) + 1
             /\ items[i].class_id \in ClassId
             /\ judgeOne(items[i]) \in State
  <2>1. i \in DOMAIN items /\ i + 1 \in 1 .. Len(items) + 1
    BY <1>c, <1>t DEF More, LoopTypeOK
  <2> QED BY <2>1, <1>t, JudgeOneType DEF DetectionRecord
<1>p. ASSUME i' = i + 1, More,
             levelWithout(items[i], exclude_class) = Clear,
             UNCHANGED <<items, exclude_class, worst, out_class, returned>>
      PROVE  PrefixJudged'
  <2>1. \A j \in 1 .. i' - 1 : j \in 1 .. i - 1 \/ j = i
    BY <1>p DEF LoopTypeOK
  <2>2. 1 .. i - 1 \subseteq 1 .. i' - 1
    BY <1>p DEF LoopTypeOK
  <2> QED BY <1>p, <2>1, <2>2 DEF PrefixJudged, More, Clear, Slow, Stop
<1>1. CASE Skip
  <2>1. LoopTypeOK'
    BY <1>1, <1>c DEF Skip, LoopTypeOK
  <2>2. levelWithout(items[i], exclude_class) = Clear
    BY <1>1 DEF Skip, levelWithout
  <2>3. PrefixJudged'
    BY <1>1, <2>2, <1>p DEF Skip
  <2> QED BY <1>1, <2>1, <2>3 DEF Skip, More, LoopComputesWorst
<1>2. CASE ReturnStop
  <2>1. LoopTypeOK'
    BY <1>2, <1>c DEF ReturnStop, LoopTypeOK, State
  <2>2. levelWithout(items[i], exclude_class) = Stop
    BY <1>2 DEF ReturnStop, levelWithout
  <2>3. \A j \in 1 .. i - 1 : levelWithout(items[j], exclude_class) # Stop
    BY <1>2 DEF ReturnStop, More, PrefixJudged
  <2>4. judgeWorst(items, exclude_class)
            = [state |-> Stop, class |-> items[i].class_id]
    BY <2>2, <2>3, <1>2, <1>c, WorstIsStop DEF ReturnStop, LoopTypeOK
  <2>5. LoopComputesWorst'
    BY <1>2, <2>4 DEF ReturnStop, LoopComputesWorst
  <2> QED BY <1>2, <2>1, <2>5 DEF ReturnStop, PrefixJudged
<1>3. CASE Raise
  <2>1. LoopTypeOK'
    BY <1>3, <1>c DEF Raise, LoopTypeOK, State
  <2>2. levelWithout(items[i], exclude_class) = judgeOne(items[i])
    BY <1>3 DEF Raise, levelWithout
  <2>3. PrefixJudged'
    <3>1. \A j \in 1 .. i' - 1 : j \in 1 .. i - 1 \/ j = i
      BY <1>3 DEF Raise, LoopTypeOK
    <3>2. 1 .. i - 1 \subseteq 1 .. i' - 1 /\ i \in 1 .. i' - 1
      BY <1>3 DEF Raise, LoopTypeOK
    <3>3. worst \in State /\ worst # Stop /\ judgeOne(items[i]) \in State
          /\ judgeOne(items[i]) # Stop
      BY <1>3, <1>c DEF Raise, More, LoopTypeOK, PrefixJudged
    <3>4. CASE judgeOne(items[i]) > worst
      <4>1. worst = Clear /\ judgeOne(items[i]) = Slow
        BY <3>3, <3>4 DEF State, Clear, Slow, Stop
      <4>2. \A j \in 1 .. i - 1 : levelWithout(items[j], exclude_class) = Clear
        BY <1>3, <4>1 DEF Raise, More, PrefixJudged
      <4> QED BY <1>3, <2>2, <3>1, <3>2, <3>4, <4>1, <4>2
              DEF Raise, More, PrefixJudged, Clear, Slow, Stop
    <3>5. CASE ~(judgeOne(items[i]) > worst)
      <4>1. worst = Clear => judgeOne(items[i]) = Clear
        BY <3>3, <3>5 DEF State, Clear, Slow, Stop
      <4> QED BY <1>3, <2>2, <3>1, <3>2, <3>3, <3>5, <4>1
              DEF Raise, More, PrefixJudged, Clear, Slow, Stop
    <3> QED BY <3>4, <3>5
  <2> QED BY <1>3, <2>1, <2>3 DEF Raise, More, LoopComputesWorst
<1>4. CASE ReturnWorst
  <2>1. LoopTypeOK' /\ PrefixJudged'
    BY <1>4 DEF ReturnWorst, LoopTypeOK, PrefixJudged
  <2>2. 1 .. i - 1 = DOMAIN items
    BY <1>4, <1>t DEF ReturnWorst
  <2>3. [state |-> worst, class |-> out_class] = judgeWorst(items, exclude_class)
    <3>1. CASE worst = Clear
      BY <1>4, <2>2, <3>1, WorstIsClear DEF ReturnWorst, PrefixJudged, LoopTypeOK
    <3>2. CASE worst = Slow
      <4>1. PICK f \in 1 .. i - 1 :
                /\ levelWithout(items[f], exclude_class) = Slow
                /\ \A j \in 1 .. f - 1 :
                       levelWithout(items[j], exclude_class) # Slow
                /\ out_class = items[f].class_id
        BY <1>4, <3>2 DEF ReturnWorst, PrefixJudged
      <4>2. \A j \in DOMAIN items : levelWithout(items[j], exclude_class) # Stop
        BY <1>4, <2>2 DEF ReturnWorst, PrefixJudged
      <4> QED BY <2>2, <3>2, <4>1, <4>2, WorstIsSlow DEF LoopTypeOK
    <3> QED BY <1>4, <3>1, <3>2 DEF ReturnWorst, PrefixJudged, LoopTypeOK, State
  <2> QED BY <1>4, <2>1, <2>3 DEF ReturnWorst, LoopComputesWorst
<1>5. CASE UNCHANGED loopVars
  BY <1>5 DEF loopVars, LoopTypeOK, PrefixJudged, LoopComputesWorst
<1> QED BY <1>1, <1>2, <1>3, <1>4, <1>5 DEF LoopNext, Iterate

(* The variables of the loop keep their types. *)
THEOREM LoopTypeCorrect == LoopSpec => []LoopTypeOK
<1>1. LoopInv => LoopTypeOK
  BY DEF LoopInv
<1> QED BY <1>1, LoopInvInit, LoopInvStep, PTL DEF LoopSpec

(* The loop of judgeWorst in SafetyJudge.cpp, with its early return,       *)
(* returns the worst level of the detections not excluded and the class of *)
(* the first detection at that level, for every frame.                     *)
THEOREM LoopCorrect == LoopSpec => []LoopComputesWorst
<1>1. LoopInv => LoopComputesWorst
  BY DEF LoopInv
<1> QED BY <1>1, LoopInvInit, LoopInvStep, PTL DEF LoopSpec

-----------------------------------------------------------------------------
(* LatchMachine: the types of the latch, that it implements StopHold, that *)
(* it never retriggers early and that it masks one class only.  LatchInv,  *)
(* with the types, is the inductive invariant.                             *)

IInv == LatchTypeOK /\ LatchInv

(* A frame preserves the invariant, does not retrigger early and is        *)
(* answered with Stop if it shows a hazard that is not masked.             *)
LEMMA FrameStep ==
    ASSUME IInv, NEW s \in Frames, Frame(s)
    PROVE  /\ LatchTypeOK'
           /\ LatchInv'
           /\ opened(latch, latch') /\ owed => latch'.latched_class # last
           /\ latch.last_state = Stop /\ latch'.last_state # Stop
                    => now - since >= hold_ms
           /\ judgeWorst(s, IF latch.phase = "Idle" THEN NoClass ELSE last).state = Stop
                    => latch'.last_state = Stop
<1> USE LatchConfigAssumption, MachineAssumption
<1> DEFINE seen == classPresent(s, last)
<1>t. /\ latch \in HazardLatch /\ now \in Nat /\ s \in Seq(DetectionRecord)
      /\ since \in Nat /\ unseen_frames \in Nat /\ unseen_since \in Nat
      /\ now' = now /\ latch' = update(latch, s, now)
      /\ owed \in BOOLEAN
  BY DEF IInv, LatchTypeOK, Frame
<1>l. /\ latch.phase \in Phase /\ latch.hold_until_ms \in Nat
      /\ latch.absent_frames \in Nat /\ latch.absent_since_ms \in Nat
  BY <1>t DEF HazardLatch
<1>i. LatchInv
  BY DEF IInv
<1>u. /\ latch' \in HazardLatch
      /\ \/ Kept(latch, latch', s, now) \/ Opens(latch, latch', s, now)
         \/ Stays(latch, latch', s, now) \/ Ends(latch, latch', s, now)
  BY <1>t, UpdateCases
<1>o. ~opened(latch, latch') =>
        /\ last' = last
        /\ seen => unseen_frames' = 0 /\ unseen_since' = now /\ owed' = owed
        /\ ~seen => /\ unseen_frames' = unseen_frames + 1
                    /\ unseen_since' = unseen_since
                    /\ owed' = (owed /\ ~(/\ unseen_frames + 1 >= release_frames
                                          /\ now - unseen_since >= release_ms))
  BY DEF Frame, Remember
<1>s. since' = IF latch.last_state # Stop /\ latch'.last_state = Stop
               THEN now ELSE since
  BY DEF Frame
<1>y. LatchTypeOK'
  <2>1. /\ burst' \in 0 .. MaxBurst /\ now' \in 0 .. MaxTime /\ since' \in Nat
    BY <1>t, <1>s DEF IInv, LatchTypeOK, Frame
  <2>2. latch'.latched_class \in ClassId \cup {NoClass}
    BY <1>u DEF HazardLatch
  <2>3. /\ last' \in ClassId \cup {NoClass} /\ unseen_frames' \in Nat
        /\ unseen_since' \in Nat
    BY <1>t, <2>2 DEF IInv, LatchTypeOK, Frame, Remember
  <2>4. owed' \in BOOLEAN
    BY <1>t, <1>o DEF Frame, Remember
  <2> QED BY <1>u, <2>1, <2>2, <2>3, <2>4 DEF LatchTypeOK
<1>1. CASE Kept(latch, latch', s, now)
  <2>1. /\ latch'.phase = latch.phase /\ latch.phase = "Holding"
        /\ latch'.hold_until_ms = latch.hold_until_ms
        /\ latch'.latched_class = latch.latched_class
        /\ latch'.last_state = Stop
    BY <1>1, <1>t DEF Kept, held, HazardLatch
  <2>2. ~opened(latch, latch') /\ since' = since
    BY <2>1, <1>s, <1>i DEF opened, LatchInv
  <2>3. LatchInv'
    BY <1>t, <1>l, <1>o, <1>i, <2>1, <2>2 DEF LatchInv
  <2> QED BY <1>y, <2>1, <2>2, <2>3
<1>2. CASE Opens(latch, latch', s, now)
  <2>1. opened(latch, latch')
    BY <1>2, <1>l, <1>t DEF Opens, opened, held
  <2>2. last' = latch'.latched_class /\ unseen_since' = now
    BY <2>1 DEF Frame, Remember
  <2>3. since' <= now /\ since' \in Int
    BY <1>t, <1>s, <1>i DEF LatchInv
  <2>4. LatchInv'
    <3>1. /\ latch'.phase = "Holding" /\ latch'.last_state = Stop
          /\ last' \in {car, person} /\ last' = latch'.latched_class
      BY <1>2, <2>2 DEF Opens
    <3>2. latch'.hold_until_ms = now + hold_ms
      BY <1>2 DEF Opens
    <3>3. /\ latch'.hold_until_ms >= since' + hold_ms
          /\ latch'.hold_until_ms <= now' + hold_ms
          /\ unseen_since' <= now' /\ since' <= now'
      <4>1. now \in Int /\ now' = now /\ hold_ms \in Int
        BY <1>t
      <4>2. unseen_since' <= now' /\ since' <= now'
        BY <2>2, <2>3, <4>1
      <4>3. latch'.hold_until_ms <= now' + hold_ms
        BY <3>2, <4>1
      <4>4. latch'.hold_until_ms >= since' + hold_ms
        <5>1. since' + hold_ms <= now + hold_ms
          BY <2>3, <4>1, AddMonotone, Zenon
        <5> QED BY <3>2, <5>1
      <4> QED BY <4>2, <4>3, <4>4
    <3> QED BY <3>1, <3>3 DEF LatchInv
  <2>5. owed => latch'.latched_class # last
    BY <1>2, <1>i, <1>l DEF Opens, LatchInv, Phase
  <2> QED BY <1>2, <1>y, <2>4, <2>5 DEF Opens
<1>3. CASE Stays(latch, latch', s, now)
  <2>1. ~opened(latch, latch') /\ since' = since
    BY <1>3, <1>s DEF Stays, Quiet, opened
  <2>2. latch.latched_class = last /\ latch.phase # "Idle"
    BY <1>3, <1>i DEF Stays, LatchInv
  <2>3. LatchInv'
    BY <1>3, <1>t, <1>l, <1>o, <1>i, <2>1, <2>2 DEF LatchInv, Stays, Quiet, Phase
  <2>4. latch.last_state = Stop => now - since >= hold_ms
    BY <1>3, <1>t, <1>l, <1>i DEF LatchInv, Stays, Quiet, held
  <2> QED BY <1>3, <1>y, <2>1, <2>2, <2>3, <2>4 DEF Stays, Quiet
<1>4. CASE Ends(latch, latch', s, now)
  <2>1. ~opened(latch, latch') /\ since' = since
    BY <1>4, <1>s DEF Ends, Quiet, opened
  <2>2. latch.phase # "Idle" => latch.latched_class = last
    BY <1>i DEF LatchInv
  <2>3. ~owed'
    <3>1. CASE latch.phase = "Idle"
      BY <1>o, <1>i, <2>1, <3>1 DEF LatchInv
    <3>2. CASE latch.phase # "Idle"
      <4>1. ~seen
        BY <1>4, <2>2, <3>2 DEF Ends
      <4>2. unseen_frames + 1 >= release_frames /\ now - unseen_since >= release_ms
        BY <1>4, <1>t, <1>l, <1>i, <3>2 DEF Ends, LatchInv, Phase
      <4> QED BY <1>o, <2>1, <4>1, <4>2
    <3> QED BY <3>1, <3>2
  <2>4. LatchInv'
    <3>1. unseen_since' <= now' /\ since' <= now' /\ last' \in {NoClass, car, person}
      BY <1>t, <1>o, <1>i, <2>1 DEF LatchInv
    <3>2. latch'.phase = "Idle" /\ latch'.last_state # Stop
      BY <1>4 DEF Ends, Quiet
    <3> QED BY <2>3, <3>1, <3>2 DEF LatchInv
  <2>5. latch.last_state = Stop => now - since >= hold_ms
    BY <1>4, <1>t, <1>l, <1>i DEF LatchInv, Ends, Quiet, held
  <2> QED BY <1>4, <1>y, <2>1, <2>2, <2>4, <2>5 DEF Ends, Quiet
<1> QED BY <1>u, <1>1, <1>2, <1>3, <1>4

(* The invariant holds of a latch that has just been constructed. *)
LEMMA IInvInit == LatchInit => IInv
<1> SUFFICES ASSUME LatchInit PROVE IInv
  OBVIOUS
<1>1. reset \in HazardLatch
  BY DEF reset, HazardLatch, Phase, State
<1>2. LatchTypeOK
  <2>1. /\ now \in 0 .. MaxTime /\ burst \in 0 .. MaxBurst
        /\ since \in Nat /\ unseen_frames \in Nat /\ unseen_since \in Nat
    BY MachineAssumption DEF LatchInit
  <2>2. latch \in HazardLatch /\ last \in ClassId \cup {NoClass}
    BY <1>1 DEF LatchInit
  <2>3. owed \in BOOLEAN
    BY DEF LatchInit
  <2> QED BY <2>1, <2>2, <2>3 DEF LatchTypeOK
<1>3. LatchInv
  BY DEF LatchInit, LatchInv, reset, Clear, Stop
<1> QED BY <1>2, <1>3 DEF IInv

(* Time passing preserves it. *)
LEMMA PassStep == IInv /\ Pass => IInv'
<1> SUFFICES ASSUME IInv, Pass PROVE IInv'
  OBVIOUS
<1>1. /\ now \in Nat /\ now' = now + 1 /\ now' \in 0 .. MaxTime /\ burst' = 0
      /\ latch' = latch /\ UNCHANGED history
  BY MachineAssumption DEF IInv, LatchTypeOK, Pass
<1>2. LatchTypeOK'
  BY <1>1, MachineAssumption DEF IInv, LatchTypeOK, history
<1>3. LatchInv'
  BY <1>1, LatchConfigAssumption DEF IInv, LatchTypeOK, LatchInv, history, HazardLatch
<1> QED BY <1>2, <1>3 DEF IInv

LEMMA IInvStep == IInv /\ [LatchNext]_latchVars => IInv'
<1> SUFFICES ASSUME IInv, [LatchNext]_latchVars PROVE IInv'
  OBVIOUS
<1>1. CASE Pass
  BY <1>1, PassStep
<1>2. ASSUME NEW s \in Frames, Frame(s) PROVE IInv'
  BY <1>2, FrameStep DEF IInv
<1>3. CASE UNCHANGED latchVars
  BY <1>3 DEF latchVars, history, IInv, LatchTypeOK, LatchInv
<1> QED BY <1>1, <1>2, <1>3 DEF LatchNext

(* The members of the latch keep their types through every run. *)
THEOREM LatchTypeCorrect == LatchSpec => []LatchTypeOK
<1>1. IInv => LatchTypeOK
  BY DEF IInv
<1> QED BY <1>1, IInvInit, IInvStep, PTL DEF LatchSpec

(* LatchInv holds in every reachable state of the latch. *)
THEOREM LatchInvariant == LatchSpec => []LatchInv
<1>1. IInv => LatchInv
  BY DEF IInv
<1> QED BY <1>1, IInvInit, IInvStep, PTL DEF LatchSpec

(* update() never opens an event for the class of the latest event before  *)
(* that class has been absent for release_frames frames over release_ms.   *)
THEOREM LatchNoEarlyRetrigger == LatchSpec => NoEarlyRetrigger
<1> DEFINE A == opened(latch, latch') /\ owed => latch'.latched_class # last
<1>1. IInv /\ [LatchNext]_latchVars => [A]_latchVars
  <2> SUFFICES ASSUME IInv, [LatchNext]_latchVars PROVE A \/ UNCHANGED latchVars
    BY Zenon
  <2>1. CASE Pass
    BY <2>1 DEF Pass, opened
  <2>2. ASSUME NEW s \in Frames, Frame(s) PROVE A
    BY <2>2, FrameStep
  <2> QED BY <2>1, <2>2 DEF LatchNext
<1> QED BY <1>1, IInvInit, IInvStep, PTL DEF LatchSpec, NoEarlyRetrigger

(* update() answers Stop to every frame that shows a car or person at Stop *)
(* other than the class of the latest event (or any, once Idle).           *)
THEOREM LatchNewHazardStops == LatchSpec => NewHazardStops
<1> DEFINE A == \A s \in Frames :
                    LET masked == IF latch.phase = "Idle" THEN NoClass ELSE last
                    IN  Frame(s) /\ judgeWorst(s, masked).state = Stop
                            => latch'.last_state = Stop
<1>1. IInv /\ [LatchNext]_latchVars => [A]_latchVars
  BY FrameStep
<1> QED BY <1>1, IInvInit, IInvStep, PTL DEF LatchSpec, NewHazardStops

(* The latch implements StopHold: once it answers Stop it answers Stop for *)
(* at least hold_ms.                                                       *)
THEOREM LatchHoldsStop == LatchSpec => HoldsStop
<1>1. LatchInit => Output!Init
  BY DEF LatchInit, Output!Init, reset, State, Stop, Clear
<1>2. IInv /\ [LatchNext]_latchVars => [Output!Next]_<<latch.last_state, since, now>>
  <2> SUFFICES ASSUME IInv, [LatchNext]_latchVars
               PROVE  Output!Next \/ UNCHANGED <<latch.last_state, since, now>>
    BY Zenon
  <2>1. CASE Pass
    BY <2>1 DEF Pass, history, Output!Next, Output!Pass
  <2>2. ASSUME NEW s \in Frames, Frame(s)
        PROVE  Output!Next \/ UNCHANGED <<latch.last_state, since, now>>
    <3>1. latch.last_state \in State /\ latch'.last_state \in State
      BY <2>2, FrameStep DEF IInv, LatchTypeOK, HazardLatch
    <3>2. latch.last_state = Stop /\ latch'.last_state # Stop
              => now - since >= hold_ms
      BY <2>2, FrameStep
    <3>3. /\ now' = now
          /\ since' = IF latch.last_state # Stop /\ latch'.last_state = Stop
                      THEN now ELSE since
      BY <2>2 DEF Frame
    <3>4. CASE latch.last_state # Stop /\ latch'.last_state = Stop
      BY <3>3, <3>4 DEF Output!Next, Output!EnterStop
    <3>5. CASE latch.last_state = Stop /\ latch'.last_state # Stop
      BY <3>1, <3>2, <3>3, <3>5 DEF Output!Next, Output!LeaveStop
    <3>6. CASE latch.last_state # Stop /\ latch'.last_state # Stop
      BY <3>1, <3>3, <3>6 DEF Output!Next, Output!Vary
    <3>7. CASE latch.last_state = Stop /\ latch'.last_state = Stop
      BY <3>3, <3>7
    <3> QED BY <3>4, <3>5, <3>6, <3>7
  <2>3. CASE UNCHANGED latchVars
    BY <2>3 DEF latchVars, history
  <2> QED BY <2>1, <2>2, <2>3 DEF LatchNext
<1> QED BY <1>1, <1>2, IInvInit, IInvStep, PTL DEF LatchSpec, HoldsStop, Output!Spec

-----------------------------------------------------------------------------
(* SafetyDebounce: danger is passed on at once, and only what was seen     *)
(* long enough is released.                                                *)

(* One call of update(): the same or a more dangerous judgement, a new     *)
(* candidate, and the old one with and without its release.                *)
LEMMA UpdateInv ==
    ASSUME DebounceInv, NEW raw \in State, NEW d \in 0 .. MaxStep, Update(raw, now_ms + d)
    PROVE  /\ DebounceInv'
           /\ state_' < state_ =>
                /\ judged' = state_'
                /\ row' >= debounce_frames
                /\ now_ms' - row_since' >= release_hold_ms
  <1> DEFINE t == now_ms + d
  <1>1. /\ state_ \in State /\ pending_ \in State /\ judged \in State
        /\ pending_frames_ \in Nat /\ pending_since_ \in Nat /\ now_ms \in Nat
        /\ calls \in Nat /\ row \in Nat /\ row_since \in Nat /\ t \in Nat
        /\ debounce_frames \in Nat /\ release_hold_ms \in Nat
    BY DebounceAssumption DEF DebounceInv, DebounceTypeOK
  <1>2. /\ now_ms' = t /\ calls' = calls + 1 /\ judged' = raw
        /\ row' = (IF raw = judged THEN row + 1 ELSE 1)
        /\ row_since' = (IF raw = judged /\ row > 0 THEN row_since ELSE t)
        /\ Debounce_update(raw, t)
    BY DEF Update
  <1>3. CandidateInv
    BY DEF DebounceInv
  <1>4. /\ row' \in Nat /\ row' > 0 /\ row_since' \in Nat /\ row_since' <= t
        /\ raw \in Int /\ state_ \in Int
    BY <1>1, <1>2, <1>3 DEF CandidateInv, State, Clear, Slow, Stop, t
  <1> HIDE DEF t
  <1>5. CASE raw >= state_
    <2>1. /\ state_' = raw /\ pending_' = raw
          /\ pending_frames_' = 0 /\ pending_since_' = t
      BY <1>2, <1>5 DEF Debounce_update, Candidate
    <2>2. DebounceTypeOK'
      BY <1>1, <1>2, <1>4, <2>1 DEF DebounceTypeOK
    <2>3. DangerAtOnce' /\ CandidateInv'
      BY <1>2, <1>4, <2>1 DEF DangerAtOnce, CandidateInv
    <2>4. ~(state_' < state_)
      BY <1>4, <1>5, <2>1
    <2> QED BY <2>2, <2>3, <2>4 DEF DebounceInv
  <1>6. CASE ~(raw >= state_) /\ raw # pending_
    <2>1. /\ state_' = state_ /\ pending_' = raw
          /\ pending_frames_' = 1 /\ pending_since_' = t
      BY <1>2, <1>6 DEF Debounce_update, Count, Candidate
    <2>2. DebounceTypeOK'
      BY <1>1, <1>2, <1>4, <2>1 DEF DebounceTypeOK
    <2>3. DangerAtOnce' /\ CandidateInv'
      BY <1>2, <1>4, <1>6, <2>1 DEF DangerAtOnce, CandidateInv
    <2>4. ~(state_' < state_)
      BY <1>4, <2>1
    <2> QED BY <2>2, <2>3, <2>4 DEF DebounceInv
  <1>7. CASE ~(raw >= state_) /\ raw = pending_
    <2>1. /\ raw = judged /\ raw < state_
          /\ pending_frames_ <= row /\ row > 0 /\ row_since <= pending_since_
      BY <1>3, <1>4, <1>7 DEF CandidateInv
    <2>2. row' = row + 1 /\ row_since' = row_since
      BY <1>2, <2>1
    <2>3. Count(raw, t)
      BY <1>2, <1>7 DEF Debounce_update
    <2>4. CASE pending_frames_ + 1 >= debounce_frames /\ t - pending_since_ >= release_hold_ms
      <3>1. /\ state_' = raw /\ pending_' = raw
            /\ pending_frames_' = 0 /\ pending_since_' = t
        BY <1>7, <2>3, <2>4 DEF Count, Candidate
      <3>2. DebounceTypeOK'
        BY <1>1, <1>2, <1>4, <3>1 DEF DebounceTypeOK
      <3>3. DangerAtOnce' /\ CandidateInv'
        BY <1>2, <1>4, <3>1 DEF DangerAtOnce, CandidateInv
      <3>4. row' >= debounce_frames /\ now_ms' - row_since' >= release_hold_ms
        BY <1>1, <1>2, <2>1, <2>2, <2>4
      <3> QED BY <1>2, <3>1, <3>2, <3>3, <3>4 DEF DebounceInv
    <2>5. CASE ~(pending_frames_ + 1 >= debounce_frames
                   /\ t - pending_since_ >= release_hold_ms)
      <3>1. /\ state_' = state_ /\ pending_' = raw
            /\ pending_frames_' = pending_frames_ + 1
            /\ pending_since_' = pending_since_
        BY <1>7, <2>3, <2>5 DEF Count, Candidate
      <3>2. DebounceTypeOK'
        BY <1>1, <1>2, <1>4, <3>1 DEF DebounceTypeOK
      <3>3. DangerAtOnce' /\ CandidateInv'
        BY <1>1, <1>2, <1>4, <2>1, <2>2, <3>1 DEF DangerAtOnce, CandidateInv
      <3>4. ~(state_' < state_)
        BY <1>4, <3>1
      <3> QED BY <3>2, <3>3, <3>4 DEF DebounceInv
    <2> QED BY <2>4, <2>5
  <1> QED BY <1>5, <1>6, <1>7

(* reset() gives the candidate up and leads to the most dangerous state. *)
LEMMA ResetInv ==
    ASSUME DebounceInv, Debounce_reset
    PROVE  DebounceInv' /\ ~(state_' < state_)
  BY DEF Debounce_reset, Candidate, DebounceInv, DebounceTypeOK, DangerAtOnce, CandidateInv, State, Clear,
         Slow, Stop

(* The count of the candidate never runs ahead of the judgements. *)
THEOREM DebounceInvariant == DebounceSpec => []DebounceInv
  <1>1. DebounceInit => DebounceInv
    BY DEF DebounceInit, DebounceInv, DebounceTypeOK, DangerAtOnce, CandidateInv, State, Clear, Slow, Stop
  <1>2. DebounceInv /\ [DebounceNext]_debounceVars => DebounceInv'
    <2> SUFFICES ASSUME DebounceInv, [DebounceNext]_debounceVars PROVE DebounceInv'
      OBVIOUS
    <2>1. CASE DebounceNext
      BY <2>1, UpdateInv, ResetInv DEF DebounceNext
    <2>2. CASE UNCHANGED debounceVars
      BY <2>2 DEF debounceVars, pendingVars, DebounceInv, DebounceTypeOK, DangerAtOnce, CandidateInv
    <2> QED BY <2>1, <2>2
  <1> QED BY <1>1, <1>2, PTL DEF DebounceSpec

(* update() never returns less than the judgement it was given. *)
THEOREM DangerIsPassedOn == DebounceSpec => []DangerAtOnce
  BY DebounceInvariant, PTL DEF DebounceInv

(* A safer state is the result of release_frames equal judgements in a row *)
(* that took release_hold_ms.                                              *)
THEOREM ReleaseTakesBoth == DebounceSpec => ReleaseIsEarned
  <1>1. DebounceInv /\ [DebounceNext]_debounceVars =>
          [state_' < state_ =>
             /\ judged' = state_'
             /\ row' >= debounce_frames
             /\ now_ms' - row_since' >= release_hold_ms]_debounceVars
    <2> SUFFICES ASSUME DebounceInv, DebounceNext
                 PROVE  state_' < state_ =>
                          /\ judged' = state_'
                          /\ row' >= debounce_frames
                          /\ now_ms' - row_since' >= release_hold_ms
      OBVIOUS
    <2>1. ASSUME NEW raw \in State, NEW d \in 0 .. MaxStep, Update(raw, now_ms + d)
          PROVE  state_' < state_ =>
                   /\ judged' = state_'
                   /\ row' >= debounce_frames
                   /\ now_ms' - row_since' >= release_hold_ms
      BY <2>1, UpdateInv
    <2>2. CASE Debounce_reset
      BY <2>2, ResetInv
    <2> QED BY <2>1, <2>2 DEF DebounceNext
  <1> QED BY DebounceInvariant, <1>1, PTL DEF DebounceSpec, ReleaseIsEarned

-----------------------------------------------------------------------------
(* SafetyMessage: read() returns true only with a whole snapshot, unless a *)
(* writer went on where another had died.                                  *)

(* Each of the two increments of publish() turns odd into even or back. *)
LEMMA Parity == \A n \in Nat : isOdd(n + 1) <=> ~isOdd(n)
  BY DEF isOdd

(* The words are different from each other. *)
LEMMA WordsDiffer ==
    /\ {format, count, time} \subseteq Words /\ Records \subseteq Words
    /\ format # count /\ format # time /\ count # time
    /\ \A r \in Records : r # format /\ r # count /\ r # time
  BY MessageAssumption DEF Words, Records, format, count, time

(* The memory is cleared, the writer and the reader are idle. *)
LEMMA MessageInitInv == MessageInit => MessageInv
  <1> SUFFICES ASSUME MessageInit PROVE MessageInv
    OBVIOUS
  <1> USE MessageAssumption, WordsDiffer
  <1>1. MessageTypeOK
    BY DEF MessageInit, MessageTypeOK
  <1>2. shared[count] = 0 /\ shared[time] = 0 /\ out[time] = 0 /\ counts[0] = 0
    BY DEF MessageInit
  <1>3. whole(shared)
    BY <1>2 DEF whole, Records
  <1>4. WriterInv
    BY <1>2, <1>3 DEF MessageInit, WriterInv
  <1>5. ReaderInv /\ WholeSnapshot
    BY <1>2 DEF MessageInit, ReaderInv, WholeSnapshot
  <1> QED BY <1>1, <1>4, <1>5 DEF MessageInv

(* publish() begins: sequence becomes odd, or a writer is revived. *)
LEMMA BeginInv ==
    ASSUME MessageInv, NEW n \in 0 .. kMaxDetections + 1, Begin(n)
    PROVE  MessageInv'
  <1> USE MessageAssumption, WordsDiffer
  <1>1. MessageTypeOK /\ WriterInv /\ ReaderInv /\ WholeSnapshot
    BY DEF MessageInv
  <1>2. kept(n) \in 0 .. kMaxDetections /\ frame + 1 \in 0 .. MaxMessages
    BY <1>1 DEF Begin, kept, MessageTypeOK
  <1>3. /\ frame' = frame + 1 /\ counts'[frame + 1] = kept(n)
        /\ counts' \in [0 .. MaxMessages -> Nat]
        /\ \A f \in 0 .. frame : counts'[f] = counts[f]
    <2>1. /\ frame' = frame + 1 /\ counts' = [counts EXCEPT ![frame + 1] = kept(n)]
          /\ counts \in [0 .. MaxMessages -> Nat] /\ frame \in 0 .. MaxMessages
      BY <1>1 DEF Begin, MessageTypeOK
    <2>2. kept(n) \in Nat /\ frame + 1 \in 0 .. MaxMessages
      BY <1>2
    <2>3. \A f \in 0 .. frame : f # frame + 1 /\ f \in 0 .. MaxMessages
      BY <2>1
    <2> QED BY <2>1, <2>2, <2>3
  <1>4. /\ frameWords' = todo'
        /\ todo' \subseteq Words
    BY <1>2, <1>3 DEF Begin, frameWords, Words, Records
  <1>5. MessageTypeOK'
    <2>1. /\ sequence \in Nat /\ sequence' = sequence + 1 /\ frame \in Nat /\ writer' = "writing"
          /\ revived \in BOOLEAN /\ revived' = (revived \/ isOdd(sequence))
      BY <1>1 DEF Begin, MessageTypeOK
    <2>2. sequence' \in Nat /\ frame' \in Nat /\ writer' \in {"idle", "writing"} /\ revived' \in BOOLEAN
      BY <1>3, <2>1 DEF isOdd
    <2>3. UNCHANGED <<shared, readerVars>>
      BY DEF Begin
    <2> QED BY <1>1, <1>3, <1>4, <2>2, <2>3 DEF MessageTypeOK, readerVars
  <1>6. shared[time] \in 0 .. frame /\ out[time] \in 0 .. frame
    BY <1>1 DEF MessageTypeOK, WriterInv, ReaderInv
  <1>7. ~revived' => ~revived /\ isOdd(sequence')
    BY <1>1, Parity DEF Begin, MessageTypeOK
  <1>8. WriterInv'
    <2>1. frame' <= MaxMessages /\ shared'[time] <= frame'
      BY <1>1, <1>2, <1>3, <1>6 DEF Begin, MessageTypeOK
    <2>2. counts'[frame'] <= kMaxDetections
      BY <1>2, <1>3
    <2>3. writer' = "writing"
      BY DEF Begin
    <2> QED BY <1>4, <1>7, <2>1, <2>2, <2>3 DEF WriterInv
  <1>9. ReaderInv'
    <2>1. reader' = "copy" => ~isOdd(before') /\ before' < sequence'
      BY <1>1 DEF Begin, ReaderInv, readerVars, MessageTypeOK
    <2> QED BY <1>1, <1>3, <1>5, <1>6, <2>1 DEF Begin, ReaderInv, readerVars, MessageTypeOK
  <1>10. WholeSnapshot'
    BY <1>1, <1>3, <1>6, <1>7 DEF Begin, WholeSnapshot, readerVars, whole
  <1> QED BY <1>5, <1>8, <1>9, <1>10 DEF MessageInv

(* A word is written: sequence is odd, so nobody takes the copy. *)
LEMMA WriteInv ==
    ASSUME MessageInv, NEW w \in Words, Write(w)
    PROVE  MessageInv'
  <1> USE MessageAssumption, WordsDiffer
  <1>1. MessageTypeOK /\ WriterInv /\ ReaderInv /\ WholeSnapshot
    BY DEF MessageInv
  <1>2. frame \in 0 .. MaxMessages /\ counts[frame] \in Nat
    BY <1>1 DEF MessageTypeOK, WriterInv
  <1>3. valueOf(w) \in Nat /\ (w = time => valueOf(w) = frame)
    BY <1>1, <1>2 DEF valueOf, MessageTypeOK
  <1>4. MessageTypeOK'
    BY <1>1, <1>3 DEF Write, MessageTypeOK, readerVars
  <1>5. writer = "writing" /\ (~revived => isOdd(sequence))
    BY <1>1 DEF Write, WriterInv, MessageTypeOK
  <1>6. /\ frameWords' = frameWords
        /\ \A x \in Words : valueOf(x)' = valueOf(x)
    BY DEF Write, frameWords, valueOf
  <1>7. \A x \in Words : shared'[x] = IF x = w THEN valueOf(w) ELSE shared[x]
    BY <1>1 DEF Write, MessageTypeOK
  <1>8. frameWords \subseteq Words
    BY <1>1, <1>2 DEF frameWords, WriterInv, Words, Records
  <1>9. \A x \in frameWords \ todo' : shared'[x] = valueOf(x)'
    BY <1>1, <1>5, <1>6, <1>7, <1>8 DEF Write, WriterInv
  <1>10. shared'[time] <= frame
    BY <1>1, <1>2, <1>3, <1>7 DEF WriterInv
  <1>11. WriterInv'
    BY <1>1, <1>5, <1>6, <1>9, <1>10 DEF Write, WriterInv
  <1>12. ReaderInv'
    BY <1>1, <1>5 DEF Write, ReaderInv, readerVars
  <1>13. WholeSnapshot'
    BY <1>1 DEF Write, WholeSnapshot, readerVars, whole
  <1> QED BY <1>4, <1>11, <1>12, <1>13 DEF MessageInv

(* The last increment: every word of the frame is there. *)
LEMMA FinishInv ==
    ASSUME MessageInv, Finish
    PROVE  MessageInv'
  <1> USE MessageAssumption, WordsDiffer
  <1>1. MessageTypeOK /\ WriterInv /\ ReaderInv /\ WholeSnapshot
    BY DEF MessageInv
  <1>2. MessageTypeOK'
    BY <1>1 DEF Finish, MessageTypeOK, readerVars
  <1>3. \A x \in frameWords : shared[x] = valueOf(x)
    BY <1>1 DEF Finish, WriterInv
  <1>4. shared[count] = counts[frame] /\ shared[time] = frame
    BY <1>3 DEF frameWords, valueOf
  <1>5. \A r \in Records : r <= counts[frame] => r \in frameWords
    BY <1>1 DEF frameWords, Records, MessageTypeOK, WriterInv
  <1>6. \A r \in Records : r <= counts[frame] => shared[r] = frame
    BY <1>3, <1>5 DEF valueOf
  <1>7. whole(shared)
    BY <1>4, <1>6 DEF whole
  <1>8. WriterInv'
    BY <1>1, <1>7 DEF Finish, WriterInv, whole
  <1>9. ReaderInv'
    BY <1>1 DEF Finish, ReaderInv, readerVars, MessageTypeOK
  <1>10. WholeSnapshot'
    BY <1>1 DEF Finish, WholeSnapshot, readerVars, whole
  <1> QED BY <1>2, <1>8, <1>9, <1>10 DEF MessageInv

(* A writer that dies in publish() leaves an odd sequence. *)
LEMMA RestartInv ==
    ASSUME MessageInv, Restart
    PROVE  MessageInv'
  <1>1. MessageTypeOK /\ WriterInv /\ ReaderInv /\ WholeSnapshot
    BY DEF MessageInv
  <1>2. MessageTypeOK'
    BY <1>1 DEF Restart, MessageTypeOK, readerVars
  <1>3. WriterInv'
    BY <1>1 DEF Restart, WriterInv, whole
  <1>4. ReaderInv' /\ WholeSnapshot'
    BY <1>1 DEF Restart, ReaderInv, WholeSnapshot, readerVars, whole
  <1> QED BY <1>2, <1>3, <1>4 DEF MessageInv

(* What the reader does leaves the writer and the memory alone. *)
LEMMA WriterUndisturbed ==
    ASSUME MessageInv, UNCHANGED writerVars
    PROVE  WriterInv'
  BY DEF MessageInv, writerVars, WriterInv, whole, frameWords, valueOf

(* A call, and a look at sequence: a copy begins only if it is even. *)
LEMMA LookInv ==
    ASSUME MessageInv, Call \/ Look
    PROVE  MessageInv'
  <1>1. MessageTypeOK /\ WriterInv /\ ReaderInv /\ WholeSnapshot
    BY DEF MessageInv
  <1>2. UNCHANGED writerVars
    BY DEF Call, Look
  <1>3. WriterInv'
    BY <1>2, WriterUndisturbed
  <1>4. MessageTypeOK'
    <2>1. CASE Call
      BY <1>1, <2>1 DEF Call, MessageTypeOK, writerVars
    <2>2. CASE Look
      <3>1. attempt' \in Nat /\ reader' \in {"idle", "look", "copy"}
        BY <1>1, <2>2, MessageAssumption DEF Look, Retry, Return, MessageTypeOK
      <3>2. result' \in BOOLEAN
        BY <1>1, <2>2, Zenon DEF Look, Retry, Return, MessageTypeOK
      <3> QED BY <1>1, <2>2, <3>1, <3>2 DEF Look, MessageTypeOK, writerVars
    <2> QED BY <2>1, <2>2
  <1>5. ReaderInv'
    BY <1>1 DEF Call, Look, Retry, Return, ReaderInv, writerVars, MessageTypeOK
  <1>6. WholeSnapshot'
    BY <1>1 DEF Call, Look, Retry, Return, WholeSnapshot, writerVars
  <1> QED BY <1>3, <1>4, <1>5, <1>6 DEF MessageInv

(* A word is copied. *)
LEMMA CopyInv ==
    ASSUME MessageInv, NEW w \in Words, Copy(w)
    PROVE  MessageInv'
  <1> USE WordsDiffer
  <1>1. MessageTypeOK /\ WriterInv /\ ReaderInv /\ WholeSnapshot
    BY DEF MessageInv
  <1>2. WriterInv'
    BY WriterUndisturbed DEF Copy
  <1>3. MessageTypeOK'
    BY <1>1 DEF Copy, MessageTypeOK, writerVars
  <1>4. \A x \in Words : out'[x] = IF x = w THEN shared[w] ELSE out[x]
    BY <1>1 DEF Copy, MessageTypeOK
  <1>5. ReaderInv'
    BY <1>1, <1>4 DEF Copy, ReaderInv, WriterInv, writerVars
  <1>6. WholeSnapshot'
    BY DEF Copy, WholeSnapshot
  <1> QED BY <1>2, <1>3, <1>5, <1>6 DEF MessageInv

(* sequence is looked at again: if it is the same and even, the memory is  *)
(* whole and the copy is the memory.                                       *)
LEMMA RecheckInv ==
    ASSUME MessageInv, Recheck
    PROVE  MessageInv'
  <1> USE WordsDiffer
  <1>1. MessageTypeOK /\ WriterInv /\ ReaderInv /\ WholeSnapshot
    BY DEF MessageInv
  <1>2. WriterInv'
    BY WriterUndisturbed DEF Recheck
  <1>3. MessageTypeOK'
    <2>1. valid \in BOOLEAN
      BY DEF valid
    <2>2. attempt' \in Nat /\ reader' \in {"idle", "look", "copy"}
      BY <1>1, MessageAssumption DEF Recheck, Retry, Return, MessageTypeOK
    <2>3. result' \in BOOLEAN
      BY <1>1, <2>1, Zenon DEF Recheck, Retry, Return, MessageTypeOK
    <2> QED BY <1>1, <2>2, <2>3 DEF Recheck, MessageTypeOK, writerVars
  <1>4. ReaderInv'
    BY <1>1 DEF Recheck, Retry, Return, ReaderInv, writerVars
  <1>5. unchanged /\ ~revived => whole(out)
    <2> SUFFICES ASSUME unchanged, ~revived PROVE whole(out)
      OBVIOUS
    <2>1. \A x \in Words : out[x] = shared[x]
      BY <1>1 DEF Recheck, ReaderInv, unchanged
    <2>2. whole(shared)
      BY <1>1 DEF Recheck, ReaderInv, WriterInv, unchanged
    <2> QED BY <2>1, <2>2 DEF whole
  <1>6. WholeSnapshot'
    BY <1>5 DEF Recheck, Retry, Return, WholeSnapshot, writerVars, whole
  <1> QED BY <1>2, <1>3, <1>4, <1>6 DEF MessageInv

(* The inductive invariant holds in every state. *)
THEOREM MessageInvariant == MessageSpec => []MessageInv
  <1>1. MessageInv /\ [MessageNext]_messageVars => MessageInv'
    <2> SUFFICES ASSUME MessageInv, [MessageNext]_messageVars PROVE MessageInv'
      OBVIOUS
    <2>1. CASE UNCHANGED messageVars
      BY <2>1
      DEF messageVars, writerVars, readerVars, MessageInv, MessageTypeOK, WriterInv, ReaderInv,
          WholeSnapshot, whole, frameWords, valueOf
    <2>2. CASE MessageNext
      BY <2>2, BeginInv, WriteInv, CopyInv, FinishInv, RestartInv, LookInv, RecheckInv
      DEF MessageNext
    <2> QED BY <2>1, <2>2
  <1> QED BY MessageInitInv, <1>1, PTL DEF MessageSpec

(* read() of SafetyMessage.cpp: true stands for a whole snapshot, however  *)
(* the steps of publish() and of the copy fall, and even if the writer     *)
(* dies, until another writer goes on from an odd sequence.                *)
THEOREM SnapshotIsWhole == MessageSpec => []WholeSnapshot
  BY MessageInvariant, PTL DEF MessageInv

-----------------------------------------------------------------------------
(* UartLink: the receiver node makes of the line every frame that went out *)
(* whole and nothing that was not sent.  First the check byte: the eight   *)
(* steps of the division are one to one, and three values decide.          *)

(* xor of two bytes is a byte. *)
LEMMA XorType ==
    ASSUME NEW a \in Byte, NEW b \in Byte
    PROVE  xor(a, b) \in Byte
<1> DEFINE bit(d) == ((a \div d) + (b \div d)) % 2
<1>1. \A d \in {1, 2, 4, 8, 16, 32, 64, 128} : bit(d) \in {0, 1}
  BY DEF Byte
<1>2. xor(a, b) = 1 * bit(1) + 2 * bit(2) + 4 * bit(4) + 8 * bit(8) + 16 * bit(16) + 32 * bit(32) + 64 * bit(64) + 128 * bit(128)
  BY DEF xor
<1> HIDE DEF bit
<1> QED BY <1>1, <1>2 DEF Byte

(* One bit of the division: of a byte with the high bit, the three lowest  *)
(* bits of what is left are complemented.                                  *)
LEMMA BitStepClosed ==
    ASSUME NEW x \in Byte
    PROVE  bitStep(x) = IF x >= 128 THEN 8 * ((2 * x - 256) \div 8) + 7 - ((2 * x - 256) % 8) ELSE 2 * x
<1> DEFINE e == 2 * x - 256
<1>1. CASE x >= 128
 <2>1. (2 * x) % 256 = e /\ e \in 0 .. 255 /\ e % 2 = 0
   BY <1>1 DEF Byte
 <2>2. xor(e, 7) = 8 * (e \div 8) + 7 - (e % 8)
   <3> HIDE DEF e
   <3>1. 7 \div 1 = 7 /\ 7 \div 2 = 3 /\ 7 \div 4 = 1 /\ 7 \div 8 = 0 /\ 7 \div 16 = 0 /\ 7 \div 32 = 0 /\ 7 \div 64 = 0 /\ 7 \div 128 = 0
     OBVIOUS
   <3> QED BY <2>1, <3>1, SMTT(60) DEF xor
 <2> QED BY <1>1, <2>1, <2>2 DEF bitStep
<1> QED BY <1>1 DEF bitStep, Byte

(* No two bytes are the same after a bit of the division. *)
LEMMA BitStepOneToOne ==
    ASSUME NEW x \in Byte, NEW y \in Byte, bitStep(x) = bitStep(y)
    PROVE  x = y
<1> DEFINE e(z) == 2 * z - 256
           q(z) == e(z) \div 8
           r(z) == e(z) % 8
<1>1. ASSUME NEW z \in Byte, z >= 128
      PROVE  q(z) \in Int /\ r(z) \in 0 .. 7 /\ e(z) = 8 * q(z) + r(z) /\ bitStep(z) = 8 * q(z) + (7 - r(z))
             /\ bitStep(z) % 2 = 1
  <2>1. bitStep(z) = 8 * q(z) + (7 - r(z))
    BY <1>1, BitStepClosed
  <2> QED BY <1>1, <2>1 DEF Byte
<1>2. ASSUME NEW z \in Byte, ~(z >= 128) PROVE bitStep(z) = 2 * z /\ bitStep(z) % 2 = 0
  BY <1>2, BitStepClosed DEF Byte
<1>3. CASE x >= 128 /\ y >= 128
  <2>1. e(x) = e(y)
    <3> HIDE DEF e, q, r
    <3> QED BY <1>1, <1>3
  <2> QED BY <2>1 DEF Byte
<1>4. CASE ~(x >= 128) /\ ~(y >= 128)
  <2>1. 2 * x = 2 * y
    BY <1>2, <1>4
  <2> QED BY <2>1 DEF Byte
<1>5. CASE (x >= 128) # (y >= 128)
  BY <1>1, <1>2, <1>5
<1> QED BY <1>3, <1>4, <1>5

(* No two bytes are the same after an xor with the same third. *)
LEMMA XorOneToOne ==
    ASSUME NEW x \in Byte, NEW y \in Byte, NEW k \in Byte, xor(k, x) = xor(k, y)
    PROVE  x = y
<1> DEFINE bit(z, w) == ((k \div w) + (z \div w)) % 2
           low(z, w) == (z \div w) % 2
           W == {1, 2, 4, 8, 16, 32, 64, 128}
<1>1. \A z \in Byte, w \in W : bit(z, w) \in 0 .. 1
  BY DEF Byte
<1>2. \A z : xor(k, z) = 1 * bit(z, 1) + 2 * bit(z, 2) + 4 * bit(z, 4) + 8 * bit(z, 8) + 16 * bit(z, 16)
                   + 32 * bit(z, 32) + 64 * bit(z, 64) + 128 * bit(z, 128)
  BY DEF xor
<1>3. \A w \in W : bit(x, w) = bit(y, w)
  <2> HIDE DEF bit
  <2>1. /\ bit(x, 1) \in 0 .. 1 /\ bit(x, 2) \in 0 .. 1 /\ bit(x, 4) \in 0 .. 1 /\ bit(x, 8) \in 0 .. 1
        /\ bit(x, 16) \in 0 .. 1 /\ bit(x, 32) \in 0 .. 1 /\ bit(x, 64) \in 0 .. 1 /\ bit(x, 128) \in 0 .. 1
    BY <1>1
  <2>2. /\ bit(y, 1) \in 0 .. 1 /\ bit(y, 2) \in 0 .. 1 /\ bit(y, 4) \in 0 .. 1 /\ bit(y, 8) \in 0 .. 1
        /\ bit(y, 16) \in 0 .. 1 /\ bit(y, 32) \in 0 .. 1 /\ bit(y, 64) \in 0 .. 1 /\ bit(y, 128) \in 0 .. 1
    BY <1>1
  <2>3. 1 * bit(x, 1) + 2 * bit(x, 2) + 4 * bit(x, 4) + 8 * bit(x, 8) + 16 * bit(x, 16)
                   + 32 * bit(x, 32) + 64 * bit(x, 64) + 128 * bit(x, 128)
      = 1 * bit(y, 1) + 2 * bit(y, 2) + 4 * bit(y, 4) + 8 * bit(y, 8) + 16 * bit(y, 16)
                   + 32 * bit(y, 32) + 64 * bit(y, 64) + 128 * bit(y, 128)
    BY <1>2
  <2>4. /\ bit(x, 1) = bit(y, 1) /\ bit(x, 2) = bit(y, 2) /\ bit(x, 4) = bit(y, 4)
        /\ bit(x, 8) = bit(y, 8) /\ bit(x, 16) = bit(y, 16) /\ bit(x, 32) = bit(y, 32)
        /\ bit(x, 64) = bit(y, 64) /\ bit(x, 128) = bit(y, 128)
    <3> DEFINE p0 == bit(x, 1)  p1 == bit(x, 2)  p2 == bit(x, 4)  p3 == bit(x, 8)
               p4 == bit(x, 16) p5 == bit(x, 32) p6 == bit(x, 64) p7 == bit(x, 128)
               q0 == bit(y, 1)  q1 == bit(y, 2)  q2 == bit(y, 4)  q3 == bit(y, 8)
               q4 == bit(y, 16) q5 == bit(y, 32) q6 == bit(y, 64) q7 == bit(y, 128)
    <3>1. /\ p0 \in 0 .. 1 /\ p1 \in 0 .. 1 /\ p2 \in 0 .. 1 /\ p3 \in 0 .. 1
          /\ p4 \in 0 .. 1 /\ p5 \in 0 .. 1 /\ p6 \in 0 .. 1 /\ p7 \in 0 .. 1
      BY <2>1
    <3>2. /\ q0 \in 0 .. 1 /\ q1 \in 0 .. 1 /\ q2 \in 0 .. 1 /\ q3 \in 0 .. 1
          /\ q4 \in 0 .. 1 /\ q5 \in 0 .. 1 /\ q6 \in 0 .. 1 /\ q7 \in 0 .. 1
      BY <2>2
    <3>3. 1 * p0 + 2 * p1 + 4 * p2 + 8 * p3 + 16 * p4 + 32 * p5 + 64 * p6 + 128 * p7
        = 1 * q0 + 2 * q1 + 4 * q2 + 8 * q3 + 16 * q4 + 32 * q5 + 64 * q6 + 128 * q7
      BY <2>3
    <3>4. p0 = q0 /\ p1 = q1 /\ p2 = q2 /\ p3 = q3 /\ p4 = q4 /\ p5 = q5 /\ p6 = q6 /\ p7 = q7
      <4> HIDE DEF p0, p1, p2, p3, p4, p5, p6, p7, q0, q1, q2, q3, q4, q5, q6, q7
      <4> QED BY <3>1, <3>2, <3>3
    <3> QED BY <3>4
  <2> QED BY <2>4
<1>4. \A w \in W : low(x, w) = low(y, w)
  <2>1. SUFFICES ASSUME NEW w \in W PROVE low(x, w) = low(y, w)
    OBVIOUS
  <2>2. k \div w \in Int /\ x \div w \in Int /\ y \div w \in Int
    BY DEF Byte
  <2> QED BY <1>3, <2>2
<1>5. ASSUME NEW z \in Byte
      PROVE  z = 1 * low(z, 1) + 2 * low(z, 2) + 4 * low(z, 4) + 8 * low(z, 8) + 16 * low(z, 16)
                   + 32 * low(z, 32) + 64 * low(z, 64) + 128 * low(z, 128)
  <2>1. /\ z = 2 * (z \div 2) + low(z, 1) /\ z \div 2 = 2 * (z \div 4) + low(z, 2)
        /\ z \div 4 = 2 * (z \div 8) + low(z, 4) /\ z \div 8 = 2 * (z \div 16) + low(z, 8)
    BY DEF Byte
  <2>2. /\ z \div 16 = 2 * (z \div 32) + low(z, 16) /\ z \div 32 = 2 * (z \div 64) + low(z, 32)
        /\ z \div 64 = 2 * (z \div 128) + low(z, 64) /\ z \div 128 = low(z, 128)
    BY DEF Byte
  <2>3. \A w \in W : low(z, w) \in Int
    BY DEF Byte
  <2> HIDE DEF low
  <2> QED BY <2>1, <2>2, <2>3 DEF Byte
<1> HIDE DEF low
<1> QED BY <1>4, <1>5

(* The division keeps a byte a byte. *)
LEMMA BitStepType ==
    ASSUME NEW x \in Byte
    PROVE  bitStep(x) \in Byte
BY BitStepClosed DEF Byte

LEMMA ByteStepType ==
    ASSUME NEW x \in Byte
    PROVE  byteStep(x) \in Byte
BY BitStepType DEF byteStep, fourBits, twoBits

(* No two bytes are the same after the eight bits of a byte. *)
LEMMA ByteStepOneToOne ==
    ASSUME NEW x \in Byte, NEW y \in Byte, byteStep(x) = byteStep(y)
    PROVE  x = y
<1>1. \A v, w \in Byte : twoBits(v) = twoBits(w) => v = w
  BY BitStepOneToOne, BitStepType DEF twoBits
<1>2. \A v \in Byte : twoBits(v) \in Byte /\ fourBits(v) \in Byte
  BY BitStepType DEF twoBits, fourBits
<1>3. \A v, w \in Byte : fourBits(v) = fourBits(w) => v = w
  BY <1>1, <1>2 DEF fourBits
<1> QED BY <1>2, <1>3 DEF byteStep

(* The CRC of two bytes. *)
LEMMA CrcOfTwo ==
    ASSUME NEW b1 \in Byte, NEW b2 \in Byte
    PROVE  crc8(<<b1, b2>>) = byteStep(xor(byteStep(xor(0, b1)), b2))
<1> DEFINE bytes == <<b1, b2>>
           c1 == byteStep(xor(0, b1))
           c2 == byteStep(xor(c1, b2))
           w == [n \in 0 .. 2 |-> IF n = 0 THEN 0 ELSE IF n = 1 THEN c1 ELSE c2]
           h(crc) == crc = [n \in 0 .. 2 |-> IF n = 0 THEN 0
            ELSE byteStep(xor(crc[n - 1], bytes[n]))]
           g == CHOOSE crc : h(crc)
<1>1. h(w)
  <2>1. \A n \in 0 .. 2 : w[n] = IF n = 0 THEN 0 ELSE byteStep(xor(w[n - 1], bytes[n]))
    <3> HIDE DEF c2
    <3>1. w[0] = 0 /\ w[1] = c1 /\ w[2] = c2
      OBVIOUS
    <3>2. w[1] = byteStep(xor(w[0], bytes[1]))
      BY <3>1
    <3>3. w[2] = byteStep(xor(w[1], bytes[2]))
      BY <3>1 DEF c2
    <3> HIDE DEF w
    <3>4. \A n \in 0 .. 2 : n = 0 \/ n = 1 \/ n = 2
      OBVIOUS
    <3> QED BY <3>1, <3>2, <3>3, <3>4
  <2> QED BY <2>1
<1>2. h(g)
  BY <1>1
<1>3. crc8(bytes) = g[2]
  BY DEF crc8
<1> HIDE DEF g
<1>4. g[0] = 0 /\ g[1] = c1 /\ g[2] = c2
  <2>1. g[0] = 0
    BY <1>2
  <2>2. g[1] = byteStep(xor(g[0], bytes[1]))
    BY <1>2
  <2>3. g[2] = byteStep(xor(g[1], bytes[2]))
    BY <1>2
  <2> QED BY <2>1, <2>2, <2>3
<1> QED BY <1>3, <1>4

(* The eight bits of a byte, one after the other. *)
LEMMA EightBits ==
  ASSUME NEW x0, NEW x1, NEW x2, NEW x3, NEW x4, NEW x5, NEW x6, NEW x7, NEW x8,
         bitStep(x0) = x1, bitStep(x1) = x2, bitStep(x2) = x3, bitStep(x3) = x4,
         bitStep(x4) = x5, bitStep(x5) = x6, bitStep(x6) = x7, bitStep(x7) = x8
  PROVE  byteStep(x0) = x8
BY DEF byteStep, fourBits, twoBits

(* The CRC after the magic byte. *)
LEMMA MagicStep == byteStep(165) = 114
<1>1. /\ bitStep(165) = 77 /\ bitStep(77) = 154 /\ bitStep(154) = 51 /\ bitStep(51) = 102
      /\ bitStep(102) = 204 /\ bitStep(204) = 159 /\ bitStep(159) = 57 /\ bitStep(57) = 114
  BY BitStepClosed DEF Byte
<1> QED BY <1>1, EightBits

(* The check byte of a state. *)
checkByte(byte) == crc8(<<165, byte>>)

LEMMA CheckOf ==
    ASSUME NEW v \in Byte
    PROVE  checkByte(v) = byteStep(xor(114, v))
<1>1. 165 \in Byte
  BY DEF Byte
<1>2. xor(0, 165) = 165
  BY DEF xor
<1> QED BY <1>1, <1>2, CrcOfTwo, MagicStep DEF checkByte

LEMMA CheckType ==
    ASSUME NEW v \in Byte
    PROVE  checkByte(v) \in Byte
<1>1. 114 \in Byte
  BY DEF Byte
<1> QED BY <1>1, CheckOf, XorType, ByteStepType

(* A check byte belongs to one state only. *)
LEMMA CheckOneToOne ==
    ASSUME NEW v \in Byte, NEW w \in Byte, checkByte(v) = checkByte(w)
    PROVE  v = w
<1>1. 114 \in Byte
  BY DEF Byte
<1> QED BY <1>1, CheckOf, XorType, ByteStepOneToOne, XorOneToOne

(* The three bytes for which the magic byte or its check byte comes out. *)
LEMMA CheckValues == checkByte(36) = 165 /\ checkByte(126) = 36 /\ checkByte(165) = 43
<1>0. 36 \in Byte /\ 126 \in Byte /\ 165 \in Byte
  BY DEF Byte
<1>1. xor(114, 36) = 86
  BY DEF xor
<1>2. xor(114, 126) = 12
  BY DEF xor
<1>3. xor(114, 165) = 215
  BY DEF xor
<1>4. /\ bitStep(86) = 172 /\ bitStep(172) = 95 /\ bitStep(95) = 190 /\ bitStep(190) = 123
      /\ bitStep(123) = 246 /\ bitStep(246) = 235 /\ bitStep(235) = 209 /\ bitStep(209) = 165
  BY BitStepClosed DEF Byte
<1>5. /\ bitStep(12) = 24 /\ bitStep(24) = 48 /\ bitStep(48) = 96 /\ bitStep(96) = 192
      /\ bitStep(192) = 135 /\ bitStep(135) = 9 /\ bitStep(9) = 18 /\ bitStep(18) = 36
  BY BitStepClosed DEF Byte
<1>6. /\ bitStep(215) = 169 /\ bitStep(169) = 85 /\ bitStep(85) = 170 /\ bitStep(170) = 83
      /\ bitStep(83) = 166 /\ bitStep(166) = 75 /\ bitStep(75) = 150 /\ bitStep(150) = 43
  BY BitStepClosed DEF Byte
<1>7. byteStep(86) = 165 /\ byteStep(12) = 36 /\ byteStep(215) = 43
  BY <1>4, <1>5, <1>6, EightBits
<1> QED BY <1>0, <1>1, <1>2, <1>3, <1>7, CheckOf

(* What keeps two frames apart: neither a state that is sent, nor its      *)
(* check byte, nor the check byte of that looks like the magic byte, and   *)
(* the check byte of the magic byte is no state that is sent.              *)
LEMMA CheckFacts ==
  /\ \A s \in State : s \in Byte /\ s # 165 /\ checkByte(s) # 165 /\ checkByte(checkByte(s)) # 165
  /\ checkByte(165) \notin State
  /\ \A s \in State : checkByte(s) # checkByte(165)
<1>1. \A s \in State : s \in Byte /\ s # 165 /\ s # 36 /\ s # 126
  BY DEF State, Clear, Slow, Stop, Byte
<1>2. 36 \in Byte /\ 126 \in Byte /\ 165 \in Byte
  BY DEF Byte
<1>3. \A s \in State : checkByte(s) # 165 /\ checkByte(s) # 36 /\ checkByte(s) # checkByte(165)
  BY <1>1, <1>2, CheckValues, CheckOneToOne
<1>4. \A s \in State : checkByte(checkByte(s)) # 165
  BY <1>1, <1>2, <1>3, CheckValues, CheckOneToOne, CheckType
<1> QED BY <1>1, <1>3, <1>4, CheckValues DEF State, Clear, Slow, Stop

(* A frame is valid if it begins with the magic byte and ends with the     *)
(* check byte of what is between.                                          *)
LEMMA ValidIs ==
    ASSUME NEW a, NEW b, NEW c
    PROVE  <<a, b, c>> \in ValidFrame <=> a = kMagic /\ b \in Byte /\ c = checkByte(b)
BY DEF ValidFrame, encode, checkByte, kMagic

LEMMA NotValid ==
    /\ \A a, b, c : a # kMagic => <<a, b, c>> \notin ValidFrame
    /\ \A a, b, c : c # checkByte(b)   => <<a, b, c>> \notin ValidFrame
BY ValidIs

LEMMA FrameIs ==
    ASSUME NEW packet \in SentFrame
    PROVE  \E s \in State : packet = <<kMagic, s, checkByte(s)>> /\ packet = encode(s)
BY DEF SentFrame, encode, checkByte, kMagic

(* The bytes the receiver has yet to make something of. *)
line == buffer \o wire

values(T, at) == <<T[at].v, T[at + 1].v, T[at + 2].v>>

(* A frame that went out whole lies at i of T. *)
wholeAt(T, at, states, intact) ==
    /\ at \in 1 .. Len(T) - 2
    /\ T[at].f \in intact /\ T[at + 1].f = T[at].f /\ T[at + 2].f = T[at].f
    /\ values(T, at) = encode(states[T[at].f])

(* The bytes come in the order of their frames. *)
InOrder(T) == \A at, j \in 1 .. Len(T) : at < j => T[at].f <= T[j].f

(* What looks like a frame is one that went out whole: neither what is     *)
(* left of a faulty frame nor bytes of two frames.                         *)
OnlyWhole(T, states, intact) ==
    \A at \in 1 .. Len(T) - 2 : values(T, at) \in ValidFrame => wholeAt(T, at, states, intact)

(* A frame that went out whole is there with all its bytes or not at all. *)
Unbroken(T, states, intact) ==
    \A k \in 1 .. Len(T) : T[k].f \in intact =>
        \E at \in 1 .. Len(T) - 2 :
            /\ at <= k /\ k <= at + 2
            /\ wholeAt(T, at, states, intact)
            /\ \A j \in 1 .. Len(T) : T[j].f = T[k].f => at <= j /\ j <= at + 2

(* The last bytes do not become a frame by the bytes of the next one. *)
TailOK(T) ==
    \A k \in 1 .. Len(T) :
        /\ k = Len(T)     => \A s \in State : <<T[k].v, kMagic, s>> \notin ValidFrame
        /\ k = Len(T) - 1 => <<T[k].v, T[k + 1].v, kMagic>> \notin ValidFrame

(* After a whole frame not even a magic byte is near the end. *)
TailClean(T) == \A k \in 1 .. Len(T) : k >= Len(T) - 1 => T[k].v # kMagic

StreamOK(T, states, intact) ==
    /\ T \in Seq([v : Byte, f : 1 .. Len(states)])
    /\ InOrder(T) /\ OnlyWhole(T, states, intact) /\ Unbroken(T, states, intact)
    /\ TailOK(T)
    /\ Len(states) = 0 \/ Len(states) \in intact => TailClean(T)

(* What was published are whole frames, in order and before all bytes of   *)
(* T, and every whole frame was published or is in T.                      *)
TopicOK(T, pub, states, intact) ==
    /\ pub \in Seq([state : State, f : 1 .. Len(states)])
    /\ \A p \in 1 .. Len(pub) : pub[p].f \in intact /\ pub[p].state = states[pub[p].f]
    /\ \A p, q \in 1 .. Len(pub) : p < q => pub[p].f < pub[q].f
    /\ \A p \in 1 .. Len(pub), k \in 1 .. Len(T) : pub[p].f < T[k].f
    /\ \A f \in intact : (\E p \in 1 .. Len(pub) : pub[p].f = f) \/ (\E k \in 1 .. Len(T) : T[k].f = f)

(* The inductive invariant of the line. *)
LineInv ==
    /\ sent \in Seq(State) /\ Len(sent) <= MaxFrames
    /\ clean \subseteq 1 .. Len(sent)
    /\ faults \in 0 .. MaxFaults
    /\ buffer \in Seq(OnWire) /\ Len(buffer) < 3 /\ wire \in Seq(OnWire)
    /\ StreamOK(line, sent, clean)
    /\ TopicOK(line, topic, sent, clean)

LEMMA StreamTypes ==
    ASSUME NEW states, NEW intact, NEW T, StreamOK(T, states, intact)
    PROVE  /\ Len(T) \in Nat
           /\ \A k \in 1 .. Len(T) : T[k].v \in Byte /\ T[k].f \in 1 .. Len(states)
<1> DEFINE X == [v : Byte, f : 1 .. Len(states)]
<1>1. T \in Seq(X)
  BY DEF StreamOK
<1> HIDE DEF X
<1>2. Len(T) \in Nat /\ \A j \in 1 .. Len(T) : T[j] \in X
  BY <1>1
<1> QED BY <1>2 DEF X

(* Whole frames do not overlap, and come in order. *)
LEMMA WholeApart ==
    ASSUME NEW states, NEW intact, NEW T, Len(T) \in Nat, \A j \in 1 .. Len(T) : T[j].f \in Nat,
           Unbroken(T, states, intact),
           NEW at, wholeAt(T, at, states, intact)
    PROVE  /\ \A j \in 1 .. Len(T) : T[j].f = T[at].f <=> (at <= j /\ j <= at + 2)
           /\ \A j : wholeAt(T, j, states, intact) /\ at < j => at + 3 <= j
           /\ InOrder(T) => \A j \in 1 .. Len(T) : at + 2 < j => T[at].f < T[j].f
<1>1. /\ at \in 1 .. Len(T) - 2 /\ T[at].f \in intact
      /\ T[at + 1].f = T[at].f /\ T[at + 2].f = T[at].f
  BY DEF wholeAt
<1>2. Len(T) \in Nat /\ at \in Int /\ at \in 1 .. Len(T) /\ at + 1 \in 1 .. Len(T) /\ at + 2 \in 1 .. Len(T)
  BY <1>1
<1>3. PICK h \in 1 .. Len(T) - 2 : \A j \in 1 .. Len(T) : T[j].f = T[at].f => h <= j /\ j <= h + 2
  BY <1>1, <1>2 DEF Unbroken
<1>4. h = at
  <2>1. h <= at /\ at + 2 <= h + 2
    BY <1>1, <1>2, <1>3
  <2> QED BY <1>2, <1>3, <2>1
<1>5. \A j \in 1 .. Len(T) : T[j].f = T[at].f => at <= j /\ j <= at + 2
  BY <1>3, <1>4
<1>6. \A j \in 1 .. Len(T) : at <= j /\ j <= at + 2 => T[j].f = T[at].f
  <2>1. \A j \in 1 .. Len(T) : at <= j /\ j <= at + 2 => j = at \/ j = at + 1 \/ j = at + 2
    BY <1>2
  <2> QED BY <1>1, <2>1
<1>7. ASSUME NEW j, wholeAt(T, j, states, intact), at < j PROVE at + 3 <= j
  <2>1. /\ j \in 1 .. Len(T) /\ j + 2 \in 1 .. Len(T) /\ T[j + 2].f = T[j].f
    BY <1>2, <1>7, SMTT(60) DEF wholeAt
  <2>2. ~(j <= at + 2)
    BY <1>2, <1>5, <1>6, <1>7, <2>1
  <2> QED BY <1>2, <2>1, <2>2
<1>8. ASSUME InOrder(T), NEW j \in 1 .. Len(T), at + 2 < j PROVE T[at].f < T[j].f
  <2>1. T[at].f \in Nat /\ T[j].f \in Nat
    BY <1>2, <1>8
  <2>2. T[at].f <= T[j].f
    BY <1>2, <1>8 DEF InOrder
  <2>3. T[j].f # T[at].f
    BY <1>2, <1>5, <1>8
  <2> QED BY <2>1, <2>2, <2>3
<1> QED BY <1>5, <1>6, <1>7, <1>8

(* No whole frame reaches over position n. *)
Cut(T, n, states, intact) ==
    \A j : wholeAt(T, j, states, intact) /\ j < n => j + 3 <= n

(* R is what is left of T from position n on. *)
Rest(R, T, n) == Len(R) = Len(T) - n + 1 /\ \A k \in 1 .. Len(R) : R[k] = T[k + n - 1]

(* The places of three bytes in a row. *)
LEMMA ThreePlaces ==
    ASSUME NEW l \in Nat, NEW at \in 1 .. l - 2
    PROVE  at \in 1 .. l /\ at + 1 \in 1 .. l /\ at + 2 \in 1 .. l
OBVIOUS

(* Where the elements of the rest are in the whole, and the reverse. *)
LEMMA RestPlaces ==
    ASSUME NEW l \in Nat, NEW n \in 1 .. l + 1, NEW m \in Nat, m = l - n + 1
    PROVE  /\ \A k \in 1 .. m : k + n - 1 \in 1 .. l /\ k + n - 1 >= n
           /\ \A k \in 1 .. m - 2 : k + n - 1 \in 1 .. l - 2
           /\ \A k \in 1 .. m : k >= m - 1 => k + n - 1 >= l - 1
           /\ \A k \in 1 .. m : k = m => k + n - 1 = l
           /\ \A k \in 1 .. m : k = m - 1 => k + n - 1 = l - 1 /\ k + 1 \in 1 .. m
           /\ \A k \in 1 .. l : k >= n => k - n + 1 \in 1 .. m /\ (k - n + 1) + n - 1 = k
           /\ \A k \in 1 .. l - 2 : k >= n => k - n + 1 \in 1 .. m - 2
OBVIOUS

LEMMA RestAt ==
    ASSUME NEW T, Len(T) \in Nat, NEW n \in 1 .. Len(T) + 1, NEW R, Len(R) \in Nat, Rest(R, T, n)
    PROVE  /\ \A k \in 1 .. Len(R) : k + n - 1 \in 1 .. Len(T) /\ k + n - 1 >= n /\ R[k] = T[k + n - 1]
           /\ \A k \in 1 .. Len(R) : k + 1 \in 1 .. Len(R) => R[k + 1] = T[(k + n - 1) + 1]
           /\ \A k \in 1 .. Len(T) : k >= n => k - n + 1 \in 1 .. Len(R) /\ R[k - n + 1] = T[k]
<1>1. Len(R) = Len(T) - n + 1 /\ \A k \in 1 .. Len(R) : R[k] = T[k + n - 1]
  BY DEF Rest
<1>2. /\ \A k \in 1 .. Len(R) : k + n - 1 \in 1 .. Len(T) /\ k + n - 1 >= n
      /\ \A k \in 1 .. Len(T) : k >= n => k - n + 1 \in 1 .. Len(R) /\ (k - n + 1) + n - 1 = k
  BY <1>1, RestPlaces
<1>3. ASSUME NEW k \in 1 .. Len(R), k + 1 \in 1 .. Len(R) PROVE R[k + 1] = T[(k + n - 1) + 1]
  <2>1. (k + 1) + n - 1 = (k + n - 1) + 1
    OBVIOUS
  <2>2. R[k + 1] = T[(k + 1) + n - 1]
    BY <1>1, <1>3
  <2> QED BY <2>1, <2>2
<1>4. ASSUME NEW k \in 1 .. Len(T), k >= n PROVE R[k - n + 1] = T[k]
  <2>1. k - n + 1 \in 1 .. Len(R) /\ (k - n + 1) + n - 1 = k
    BY <1>2, <1>4
  <2>2. R[k - n + 1] = T[(k - n + 1) + n - 1]
    BY <1>1, <2>1
  <2> QED BY <2>1, <2>2
<1> QED BY <1>1, <1>2, <1>3, <1>4

(* What is left of a stream that was cut between two frames. *)
LEMMA SuffixWhole ==
    ASSUME NEW states, NEW intact, NEW T, Len(T) \in Nat, NEW R, Len(R) \in Nat, NEW n \in 1 .. Len(T) + 1,
           Rest(R, T, n), NEW at \in 1 .. Len(R) - 2
    PROVE  /\ wholeAt(R, at, states, intact) <=> wholeAt(T, at + n - 1, states, intact)
           /\ values(R, at) = values(T, at + n - 1)
<1>1. at \in 1 .. Len(R) /\ at + 1 \in 1 .. Len(R) /\ at + 2 \in 1 .. Len(R)
  BY ThreePlaces
<1>2. R[at] = T[at + n - 1] /\ R[at + 1] = T[(at + n - 1) + 1]
  <2>1. R[at] = T[at + n - 1]
    BY <1>1 DEF Rest
  <2>2. R[at + 1] = T[(at + n - 1) + 1]
    BY <1>1, RestAt
  <2> QED BY <2>1, <2>2
<1>3. R[at + 2] = T[(at + n - 1) + 2]
  <2>1. R[at + 2] = T[(at + 2) + n - 1]
    BY <1>1, RestAt
  <2>2. (at + 2) + n - 1 = (at + n - 1) + 2
    OBVIOUS
  <2> QED BY <2>1, <2>2
<1>4. at + n - 1 \in 1 .. Len(T) - 2
  BY RestPlaces DEF Rest
<1> QED BY <1>2, <1>3, <1>4 DEF wholeAt, values

LEMMA SuffixOK ==
    ASSUME NEW states, NEW intact, Len(states) \in Nat,
           NEW T, StreamOK(T, states, intact),
           NEW n \in 1 .. Len(T) + 1, Cut(T, n, states, intact),
           NEW R \in Seq([v : Byte, f : 1 .. Len(states)]), Rest(R, T, n)
    PROVE  StreamOK(R, states, intact)
<1>0. Len(T) \in Nat /\ Len(R) \in Nat
  BY DEF StreamOK
<1>1. /\ \A k \in 1 .. Len(R) : k + n - 1 \in 1 .. Len(T) /\ R[k] = T[k + n - 1]
      /\ \A k \in 1 .. Len(R) : k + 1 \in 1 .. Len(R) => R[k + 1] = T[(k + n - 1) + 1]
  <2>1. ASSUME NEW k \in 1 .. Len(R) PROVE k + n - 1 \in 1 .. Len(T) /\ R[k] = T[k + n - 1]
    BY <1>0, RestAt
  <2>2. ASSUME NEW k \in 1 .. Len(R), k + 1 \in 1 .. Len(R) PROVE R[k + 1] = T[(k + n - 1) + 1]
    BY <1>0, <2>2, RestAt
  <2> QED BY <2>1, <2>2
<1>1a. /\ Len(R) = Len(T) - n + 1
       /\ \A k \in 1 .. Len(R) - 2 : k + n - 1 \in 1 .. Len(T) - 2
       /\ \A k \in 1 .. Len(R) : k >= Len(R) - 1 => k + n - 1 >= Len(T) - 1
       /\ \A k \in 1 .. Len(R) : k = Len(R) => k + n - 1 = Len(T)
       /\ \A k \in 1 .. Len(R) : k = Len(R) - 1 => k + n - 1 = Len(T) - 1 /\ k + 1 \in 1 .. Len(R)
       /\ \A k \in 1 .. Len(T) - 2 : k >= n => k - n + 1 \in 1 .. Len(R) - 2
  <2>1. Len(R) = Len(T) - n + 1
    BY DEF Rest
  <2> QED BY <1>0, <2>1, RestPlaces
<1>2. InOrder(R)
  <2>1. \A at, j \in 1 .. Len(R) : at < j => at + n - 1 < j + n - 1
    BY <1>0
  <2>2. InOrder(T)
    BY DEF StreamOK
  <2> QED BY <1>1, <2>1, <2>2 DEF InOrder
<1>3. OnlyWhole(R, states, intact)
  <2>1. SUFFICES ASSUME NEW at \in 1 .. Len(R) - 2, values(R, at) \in ValidFrame
                 PROVE  wholeAt(R, at, states, intact)
    BY DEF OnlyWhole
  <2>2. at + n - 1 \in 1 .. Len(T) - 2
    BY <1>1a
  <2>3. values(T, at + n - 1) \in ValidFrame
    <3>1. values(R, at) = values(T, at + n - 1)
      BY <1>0, SuffixWhole
    <3> QED BY <2>1, <3>1
  <2>4. wholeAt(T, at + n - 1, states, intact)
    BY <2>2, <2>3 DEF OnlyWhole, StreamOK
  <2> QED BY <1>0, <2>4, SuffixWhole
<1>4. ASSUME NEW k \in 1 .. Len(R), R[k].f \in intact
      PROVE  \E at \in 1 .. Len(R) - 2 :
                /\ at <= k /\ k <= at + 2
                /\ wholeAt(R, at, states, intact)
                /\ \A j \in 1 .. Len(R) : R[j].f = R[k].f => at <= j /\ j <= at + 2
  <2> DEFINE m == k + n - 1
  <2>1. m \in 1 .. Len(T) /\ R[k] = T[m] /\ T[m].f \in intact
    BY <1>1, <1>4
  <2>2. PICK h \in 1 .. Len(T) - 2 :
                /\ h <= m /\ m <= h + 2
                /\ wholeAt(T, h, states, intact)
                /\ \A j \in 1 .. Len(T) : T[j].f = T[m].f => h <= j /\ j <= h + 2
    BY <2>1 DEF StreamOK, Unbroken
  <2>0. n \in Int /\ h \in Int /\ k \in Int /\ k >= 1
    BY <1>0
  <2>3. h >= n
    <3>1. h < n => h + 3 <= n
      BY <2>2 DEF Cut
    <3>2. k + n - 1 <= h + 2
      BY <2>2
    <3> HIDE DEF m
    <3> QED BY <2>0, <3>1, <3>2
  <2> DEFINE at == h - n + 1
  <2>4. at \in 1 .. Len(R) - 2
    BY <1>1a, <2>3
  <2>5. at + n - 1 = h /\ at <= k /\ k <= at + 2
    <3>1. h <= k + n - 1 /\ k + n - 1 <= h + 2
      BY <2>2
    <3> HIDE DEF m
    <3> QED BY <2>0, <3>1
  <2> HIDE DEF m, at
  <2>6. wholeAt(R, at, states, intact)
    BY <1>0, <2>2, <2>4, <2>5, SuffixWhole
  <2>7. ASSUME NEW j \in 1 .. Len(R), R[j].f = R[k].f PROVE at <= j /\ j <= at + 2
    <3>1. j + n - 1 \in 1 .. Len(T) /\ T[j + n - 1].f = T[m].f
      BY <1>1, <2>1, <2>7
    <3>2. h <= j + n - 1 /\ j + n - 1 <= h + 2
      BY <2>2, <3>1
    <3>3. j \in Int /\ at = h - n + 1
      BY <1>0 DEF at
    <3> QED BY <2>0, <3>2, <3>3
  <2> QED BY <2>4, <2>5, <2>6, <2>7
<1>5. Unbroken(R, states, intact)
  BY <1>4 DEF Unbroken
<1>8. TailOK(R)
  BY <1>1, <1>1a DEF TailOK, StreamOK
<1>9. TailClean(T) => TailClean(R)
  BY <1>1, <1>1a DEF TailClean
<1> QED BY <1>2, <1>3, <1>5, <1>8, <1>9 DEF StreamOK

(* One step of the loop of _poll, from what it makes of the later bytes. *)
drainStep(buf, from, at) ==
    IF at + 2 > Len(buf) THEN [left |-> at, out |-> << >>]
    ELSE IF ~atFrame(buf, at) THEN from[at + 1]
    ELSE LET rest == from[at + 3] IN [rest EXCEPT !.out = <<found(buf, at)>> \o @]

drainBy(buf, from) == from = [at \in 1 .. Len(buf) + 3 |-> drainStep(buf, from, at)]

(* A step depends on the later bytes only. *)
LEMMA DrainStepLocal ==
    ASSUME NEW buf, Len(buf) \in Nat, NEW g, NEW h, NEW at \in 1 .. Len(buf) + 3,
           \A j \in 1 .. Len(buf) + 3 : at < j => g[j] = h[j]
    PROVE  drainStep(buf, g, at) = drainStep(buf, h, at)
<1>1. CASE at + 2 > Len(buf)
  BY <1>1 DEF drainStep
<1>2. CASE ~(at + 2 > Len(buf))
  <2>1. g[at + 1] = h[at + 1] /\ g[at + 3] = h[at + 3]
    BY <1>2
  <2> QED BY <1>2, <2>1 DEF drainStep
<1> QED BY <1>1, <1>2

(* So the loop is defined: the least number of bytes for which it were not *)
(* leads to one less.                                                      *)
LEMMA DrainExists ==
    ASSUME NEW buf, Len(buf) \in Nat
    PROVE  \E from : drainBy(buf, from)
<1> DEFINE N == Len(buf) + 3
           by(g, low) == \A at \in 1 .. N : low <= at => g[at] = drainStep(buf, g, at)
           bad == {d \in Nat : d <= Len(buf) + 2 /\ ~(\E g : by(g, N - d))}
<1>0. N \in Nat /\ N >= 3
  OBVIOUS
<1>1. ASSUME NEW g, NEW m \in 1 .. N, by(g, m + 1)
      PROVE  \E h : by(h, m)
  <2> DEFINE h == [at \in 1 .. N |-> IF at = m THEN drainStep(buf, g, m) ELSE g[at]]
  <2>1. \A at \in 1 .. N : at # m => h[at] = g[at]
    OBVIOUS
  <2>2. h[m] = drainStep(buf, g, m)
    OBVIOUS
  <2> HIDE DEF h
  <2>3. ASSUME NEW at \in 1 .. N, m <= at PROVE h[at] = drainStep(buf, h, at)
    <3>1. drainStep(buf, g, at) = drainStep(buf, h, at)
      <4>1. \A j \in 1 .. Len(buf) + 3 : at < j => g[j] = h[j]
        BY <1>0, <2>1, <2>3
      <4> HIDE DEF N
      <4>2. at \in 1 .. Len(buf) + 3
        BY DEF N
      <4> QED BY <4>1, <4>2, DrainStepLocal
    <3>2. CASE at = m
      BY <2>2, <3>1, <3>2
    <3>3. CASE at # m
      <4>1. m + 1 <= at
        BY <1>0, <2>3, <3>3
      <4>2. g[at] = drainStep(buf, g, at)
        BY <1>1, <4>1
      <4> QED BY <2>1, <3>1, <3>3, <4>2
    <3> QED BY <3>2, <3>3
  <2> QED BY <2>3
<1>2. \E g : by(g, N)
  <2> DEFINE e == [left |-> N, out |-> << >>]
             g0 == [at \in 1 .. N |-> e]
  <2>1. drainStep(buf, g0, N) = e
    BY <1>0 DEF drainStep
  <2>2. g0[N] = e
    BY <1>0
  <2>3. \A at \in 1 .. N : N <= at => at = N
    BY <1>0
  <2> HIDE DEF g0, N
  <2> QED BY <2>1, <2>2, <2>3
<1>3. bad = {}
  <2>1. SUFFICES ASSUME bad # {} PROVE FALSE
    OBVIOUS
  <2>2. PICK d \in bad : \A y \in bad : d <= y
    <3>1. bad \in SUBSET Nat
      OBVIOUS
    <3> HIDE DEF bad
    <3> QED BY <2>1, <3>1, LeastElement
  <2>3. d \in Nat /\ d <= Len(buf) + 2 /\ ~(\E g : by(g, N - d))
    OBVIOUS
  <2>4. d # 0
    <3> HIDE DEF by
    <3> QED BY <1>0, <1>2, <2>3
  <2>5. d - 1 \in Nat /\ d - 1 <= Len(buf) + 2 /\ ~(d <= d - 1)
    BY <2>3, <2>4
  <2>6. \E g : by(g, N - (d - 1))
    <3>1. d - 1 \notin bad
      <4> HIDE DEF bad
      <4> QED BY <2>2, <2>5
    <3> HIDE DEF by, N
    <3> QED BY <2>5, <3>1
  <2>7. N - (d - 1) = (N - d) + 1 /\ N - d \in 1 .. N
    BY <1>0, <2>3
  <2> HIDE DEF by, N, bad
  <2> QED BY <1>1, <2>3, <2>6, <2>7
<1>4. PICK g : by(g, 1)
  <2>0. Len(buf) + 2 \in Nat /\ N - (Len(buf) + 2) = 1
    OBVIOUS
  <2>1. Len(buf) + 2 \notin bad
    <3> HIDE DEF bad
    <3> QED BY <1>3
  <2>2. \E g : by(g, N - (Len(buf) + 2))
    <3> HIDE DEF by, N
    <3> QED BY <2>0, <2>1
  <2> HIDE DEF by, N
  <2> QED BY <2>0, <2>2
<1> DEFINE from == [at \in 1 .. N |-> g[at]]
<1>5. \A at \in 1 .. N : from[at] = drainStep(buf, from, at)
  <2>1. \A j \in 1 .. N : g[j] = from[j]
    OBVIOUS
  <2> HIDE DEF from
  <2>2. SUFFICES ASSUME NEW at \in 1 .. N PROVE from[at] = drainStep(buf, from, at)
    OBVIOUS
  <2>3. g[at] = drainStep(buf, g, at)
    BY <1>0, <1>4
  <2>4. drainStep(buf, g, at) = drainStep(buf, from, at)
    BY <2>1, DrainStepLocal
  <2> QED BY <2>1, <2>3, <2>4
<1>6. from = [at \in 1 .. N |-> drainStep(buf, from, at)]
  <2>1. from = [at \in 1 .. N |-> from[at]]
    OBVIOUS
  <2> HIDE DEF from
  <2> QED BY <1>5, <2>1
<1> HIDE DEF from
<1> QED BY <1>6 DEF drainBy

LEMMA DrainUnfold ==
    ASSUME NEW buf, Len(buf) \in Nat
    PROVE  \E from : drainBy(buf, from) /\ drain(buf) = from[1]
<1> DEFINE from == CHOOSE g : drainBy(buf, g)
<1>1. drainBy(buf, from)
  BY DrainExists
<1>2. drain(buf) = from[1]
  BY DEF drain, drainBy, drainStep
<1> HIDE DEF from
<1> QED BY <1>1, <1>2

Published(states) == [state : State, f : 1 .. Len(states)]

(* r is what the loop should make of the bytes from i on of the first n of *)
(* T.                                                                      *)
DrainsTo(T, n, at, r, states, intact) ==
    /\ r \in [left : at .. n + 1, out : Seq(Published(states))]
    /\ r.left + 2 > n
    /\ Cut(T, r.left, states, intact)
    /\ \A p \in 1 .. Len(r.out) : \E j \in at .. r.left - 1 :
            wholeAt(T, j, states, intact) /\ r.out[p] = [state |-> states[T[j].f], f |-> T[j].f]
    /\ \A j \in at .. r.left - 1 : wholeAt(T, j, states, intact) =>
            \E p \in 1 .. Len(r.out) : r.out[p].f = T[j].f
    /\ \A p, q \in 1 .. Len(r.out) : p < q => r.out[p].f < r.out[q].f

(* It should stop where less than a frame is left, ... *)
LEMMA DrainNone ==
    ASSUME NEW T, NEW n \in Nat, NEW at \in 1 .. n + 1, NEW states, NEW intact,
           at + 2 > n, Cut(T, at, states, intact)
    PROVE  DrainsTo(T, n, at, [left |-> at, out |-> << >>], states, intact)
<1> DEFINE r == [left |-> at, out |-> << >>]
<1>1. r.left = at /\ r.out = << >> /\ Len(r.out) = 0
  OBVIOUS
<1>2. r \in [left : at .. n + 1, out : Seq(Published(states))]
  OBVIOUS
<1> HIDE DEF r
<1> QED BY <1>1, <1>2 DEF DrainsTo

(* ... pass over a byte that no whole frame begins with, ... *)
LEMMA DrainSkip ==
    ASSUME NEW T, NEW n \in Nat, NEW at \in 1 .. n + 1, NEW states, NEW intact, NEW r,
           at + 2 <= n, ~wholeAt(T, at, states, intact),
           DrainsTo(T, n, at + 1, r, states, intact)
    PROVE  DrainsTo(T, n, at, r, states, intact)
<1>1. r \in [left : at .. n + 1, out : Seq(Published(states))] /\ r.left \in Int
  BY DEF DrainsTo
<1>2. \A j \in (at + 1) .. r.left - 1 : j \in at .. r.left - 1
  BY <1>1
<1>3. \A j \in at .. r.left - 1 : j = at \/ j \in (at + 1) .. r.left - 1
  BY <1>1
<1> QED BY <1>1, <1>2, <1>3 DEF DrainsTo

(* ... and publish a whole frame and go on behind it. *)
LEMMA DrainFrame ==
    ASSUME NEW states, NEW intact, Len(states) \in Nat,
           NEW T, Len(T) \in Nat, \A j \in 1 .. Len(T) : T[j].f \in Nat,
           Unbroken(T, states, intact), InOrder(T),
           NEW n \in Nat, n <= Len(T), NEW at \in 1 .. n + 1, NEW r,
           at + 2 <= n, wholeAt(T, at, states, intact),
           NEW e \in Published(states), e = [state |-> states[T[at].f], f |-> T[at].f],
           DrainsTo(T, n, at + 3, r, states, intact)
    PROVE  DrainsTo(T, n, at, [r EXCEPT !.out = <<e>> \o @], states, intact)
<1> DEFINE s == [r EXCEPT !.out = <<e>> \o @]
<1>1. r \in [left : at + 3 .. n + 1, out : Seq(Published(states))] /\ r.left \in Int
  BY DEF DrainsTo
<1> DEFINE pub == <<e>> \o r.out
<1>2. s.left = r.left /\ s.out = pub /\ s \in [left : at .. n + 1, out : Seq(Published(states))]
  <2>1. pub \in Seq(Published(states))
    BY <1>1
  <2> HIDE DEF pub
  <2>2. s = [r EXCEPT !.out = pub]
    BY DEF pub
  <2> HIDE DEF s
  <2>3. r.left \in at .. n + 1
    BY <1>1
  <2> QED BY <1>1, <2>1, <2>2, <2>3
<1>3. Len(pub) = Len(r.out) + 1 /\ pub[1] = e /\ \A p \in 1 .. Len(r.out) : pub[p + 1] = r.out[p]
  BY <1>1, SMTT(60)
<1>4. \A p \in 1 .. Len(pub) : p = 1 \/ (p - 1 \in 1 .. Len(r.out) /\ pub[p] = r.out[p - 1])
  <2>1. Len(r.out) \in Nat
    BY <1>1
  <2>2. \A p \in 1 .. Len(pub) : p = 1 \/ (p - 1 \in 1 .. Len(r.out) /\ (p - 1) + 1 = p)
    BY <1>3, <2>1
  <2> HIDE DEF pub
  <2> QED BY <1>3, <2>2
<1> HIDE DEF s, pub
<1>5. ASSUME NEW p \in 1 .. Len(pub)
      PROVE  \E j \in at .. r.left - 1 :
                wholeAt(T, j, states, intact) /\ pub[p] = [state |-> states[T[j].f], f |-> T[j].f]
  <2>1. CASE p = 1
    <3>1. at \in at .. r.left - 1
      BY <1>1
    <3> QED BY <1>3, <2>1, <3>1
  <2>2. CASE p - 1 \in 1 .. Len(r.out) /\ pub[p] = r.out[p - 1]
    <3>1. PICK j \in at + 3 .. r.left - 1 :
             wholeAt(T, j, states, intact) /\ r.out[p - 1] = [state |-> states[T[j].f], f |-> T[j].f]
      BY <2>2 DEF DrainsTo
    <3>2. j \in at .. r.left - 1
      BY <1>1, <3>1
    <3> QED BY <2>2, <3>1, <3>2
  <2> QED BY <1>4, <2>1, <2>2
<1>6. ASSUME NEW j \in at .. r.left - 1, wholeAt(T, j, states, intact)
      PROVE  \E p \in 1 .. Len(pub) : pub[p].f = T[j].f
  <2>1. CASE j = at
    <3>1. 1 \in 1 .. Len(pub) /\ pub[1].f = T[at].f
      BY <1>1, <1>3
    <3> QED BY <2>1, <3>1
  <2>2. CASE j # at
    <3>1. j \in at + 3 .. r.left - 1
      <4>1. at < j
        BY <1>1, <2>2
      <4>2. at + 3 <= j
        BY <1>6, <4>1, WholeApart
      <4> QED BY <1>1, <4>2
    <3>2. PICK p \in 1 .. Len(r.out) : r.out[p].f = T[j].f
      BY <1>6, <3>1 DEF DrainsTo
    <3>3. p + 1 \in 1 .. Len(pub)
      BY <1>1, <1>3, SMTT(60)
    <3>4. pub[p + 1].f = T[j].f
      BY <1>3, <3>2
    <3> QED BY <3>3, <3>4
  <2> QED BY <2>1, <2>2
<1>7. ASSUME NEW p \in 1 .. Len(pub), NEW q \in 1 .. Len(pub), p < q PROVE pub[p].f < pub[q].f
  <2>0. Len(pub) \in Nat /\ Len(r.out) \in Nat
    BY <1>1, <1>3
  <2>1. q - 1 \in 1 .. Len(r.out) /\ pub[q] = r.out[q - 1]
    BY <1>4, <1>7
  <2>2. CASE p = 1
    <3>1. PICK j \in at + 3 .. r.left - 1 :
             wholeAt(T, j, states, intact) /\ r.out[q - 1] = [state |-> states[T[j].f], f |-> T[j].f]
      BY <2>1 DEF DrainsTo
    <3>2. j \in 1 .. Len(T) /\ at + 2 < j
      BY <1>1, <3>1, SMTT(60) DEF wholeAt
    <3>3. T[at].f < T[j].f
      BY <3>2, WholeApart
    <3> QED BY <1>3, <2>1, <2>2, <3>1, <3>3, SMTT(60)
  <2>3. CASE p - 1 \in 1 .. Len(r.out) /\ pub[p] = r.out[p - 1]
    <3>1. p - 1 < q - 1
      BY <1>7, <2>0
    <3> QED BY <2>1, <2>3, <3>1 DEF DrainsTo
  <2> QED BY <1>4, <2>2, <2>3
<1>8. Cut(T, r.left, states, intact) /\ r.left + 2 > n
  BY DEF DrainsTo
<1>9. DrainsTo(T, n, at, s, states, intact)
  <2>1. \A p \in 1 .. Len(s.out) : \E j \in at .. s.left - 1 :
            wholeAt(T, j, states, intact) /\ s.out[p] = [state |-> states[T[j].f], f |-> T[j].f]
    BY <1>2, <1>5
  <2>2. \A j \in at .. s.left - 1 : wholeAt(T, j, states, intact) =>
            \E p \in 1 .. Len(s.out) : s.out[p].f = T[j].f
    BY <1>2, <1>6
  <2>3. \A p, q \in 1 .. Len(s.out) : p < q => s.out[p].f < s.out[q].f
    BY <1>2, <1>7
  <2>4. Cut(T, s.left, states, intact) /\ s.left + 2 > n
    BY <1>2, <1>8
  <2> QED BY <1>2, <2>1, <2>2, <2>3, <2>4 DEF DrainsTo
<1> QED BY <1>9 DEF s

(* The loop makes of the bytes that have arrived what it should: the last  *)
(* position for which it did not, before one for which it does, is none of *)
(* the three cases.                                                        *)
LEMMA Drained ==
    ASSUME NEW states \in Seq(State), NEW intact,
           NEW T, StreamOK(T, states, intact),
           NEW buf \in Seq([v : Byte, f : 1 .. Len(states)]), Len(buf) <= Len(T),
           \A k \in 1 .. Len(buf) : T[k] = buf[k]
    PROVE  DrainsTo(T, Len(buf), 1, drain(buf), states, intact)
<1> DEFINE n == Len(buf)
<1>0. /\ n \in Nat /\ Len(T) \in Nat /\ Len(states) \in Nat
      /\ \A j \in 1 .. Len(T) : T[j] \in [v : Byte, f : 1 .. Len(states)]
  <2> DEFINE X == [v : Byte, f : 1 .. Len(states)]
  <2>1. T \in Seq(X)
    BY DEF StreamOK
  <2> HIDE DEF X
  <2>2. Len(T) \in Nat /\ \A j \in 1 .. Len(T) : T[j] \in X
    BY <2>1
  <2> QED BY <2>2 DEF X
<1>0a. \A j \in 1 .. Len(T) : T[j].v \in Byte /\ T[j].f \in 1 .. Len(states) /\ T[j].f \in Nat
  BY <1>0
<1>1. PICK from : drainBy(buf, from) /\ drain(buf) = from[1]
  BY <1>0, DrainUnfold
<1>2. \A at \in 1 .. n + 3 : from[at] = drainStep(buf, from, at)
  BY <1>1 DEF drainBy
<1>3. \A at \in 1 .. n - 2 : atFrame(buf, at) <=> values(T, at) \in ValidFrame
  <2>1. SUFFICES ASSUME NEW at \in 1 .. n - 2 PROVE atFrame(buf, at) <=> values(T, at) \in ValidFrame
    OBVIOUS
  <2>2. at \in 1 .. n /\ at + 1 \in 1 .. n /\ at + 2 \in 1 .. n
    BY <1>0
  <2>3. T[at] = buf[at] /\ T[at + 1] = buf[at + 1] /\ T[at + 2] = buf[at + 2]
    BY <2>2
  <2> QED BY <2>3 DEF atFrame, values
<1>4. ASSUME NEW at \in 1 .. n + 1, at + 2 <= n
      PROVE  atFrame(buf, at) <=> wholeAt(T, at, states, intact)
  <2>1. at \in 1 .. n - 2 /\ at \in 1 .. Len(T) - 2 /\ at \in 1 .. Len(T)
    BY <1>0, <1>4
  <2>2. values(T, at) \in ValidFrame => wholeAt(T, at, states, intact)
    BY <2>1 DEF StreamOK, OnlyWhole
  <2>3. wholeAt(T, at, states, intact) => values(T, at) \in ValidFrame
    <3>1. states[T[at].f] \in State
      BY <1>0a, <2>1
    <3>2. State \subseteq Byte
      BY DEF State, Clear, Slow, Stop, Byte
    <3> QED BY <3>1, <3>2 DEF wholeAt, ValidFrame
  <2> QED BY <1>3, <2>1, <2>2, <2>3
<1> DEFINE bad == {d \in 0 .. n : /\ Cut(T, n + 1 - d, states, intact)
                                 /\ ~DrainsTo(T, n, n + 1 - d, from[n + 1 - d], states, intact)}
<1>5. bad = {}
  <2>1. SUFFICES ASSUME bad # {} PROVE FALSE
    OBVIOUS
  <2>2. PICK d \in bad : \A y \in bad : d <= y
    <3>1. bad \in SUBSET Nat
      BY <1>0
    <3> HIDE DEF bad
    <3> QED BY <2>1, <3>1, LeastElement
  <2> DEFINE at == n + 1 - d
  <2>3. /\ d \in 0 .. n /\ Cut(T, at, states, intact)
        /\ ~DrainsTo(T, n, at, from[at], states, intact)
    OBVIOUS
  <2>4. at \in 1 .. n + 1 /\ at \in 1 .. n + 3
    BY <1>0, <2>3
  <2>5. \A m \in at + 1 .. n + 1 : Cut(T, m, states, intact) => DrainsTo(T, n, m, from[m], states, intact)
    <3>1. SUFFICES ASSUME NEW m \in at + 1 .. n + 1, Cut(T, m, states, intact),
                          ~DrainsTo(T, n, m, from[m], states, intact)
                   PROVE  FALSE
      OBVIOUS
    <3>2. n + 1 - m \in 0 .. n /\ n + 1 - (n + 1 - m) = m /\ ~(d <= n + 1 - m)
      <4>1. n \in Nat /\ d \in 0 .. n /\ m \in (n + 1 - d) + 1 .. n + 1
        BY <1>0, <2>3, <3>1
      <4> HIDE DEF n, at, bad
      <4> QED BY <4>1
    <3>3. n + 1 - m \in bad
      BY <3>1, <3>2
    <3> HIDE DEF bad
    <3> QED BY <2>2, <3>2, <3>3
  <2> HIDE DEF bad, at
  <2>6. from[at] = drainStep(buf, from, at)
    BY <1>2, <2>4
  <2>7. CASE at + 2 > n
    <3>1. from[at] = [left |-> at, out |-> << >>]
      BY <2>6, <2>7 DEF drainStep
    <3> QED BY <1>0, <2>3, <2>4, <2>7, <3>1, DrainNone
  <2>8. CASE at + 2 <= n /\ ~atFrame(buf, at)
    <3>1. from[at] = from[at + 1]
      BY <1>0, <2>4, <2>6, <2>8 DEF drainStep
    <3>2. ~wholeAt(T, at, states, intact)
      BY <1>4, <2>4, <2>8
    <3>3. Cut(T, at + 1, states, intact)
      <4>1. SUFFICES ASSUME NEW j, wholeAt(T, j, states, intact), j < at + 1 PROVE j + 3 <= at + 1
        BY DEF Cut
      <4>2. j \in Int /\ j # at
        BY <1>0, <3>2, <4>1 DEF wholeAt
      <4>3. j < at
        BY <2>4, <4>1, <4>2
      <4>4. j + 3 <= at
        BY <2>3, <4>1, <4>3 DEF Cut
      <4> QED BY <2>4, <4>2, <4>4
    <3>4. at + 1 \in at + 1 .. n + 1
      BY <1>0, <2>4, <2>8
    <3>5. DrainsTo(T, n, at + 1, from[at + 1], states, intact)
      BY <2>5, <3>3, <3>4
    <3>6. DrainsTo(T, n, at, from[at + 1], states, intact)
      BY <1>0, <2>4, <2>8, <3>2, <3>5, DrainSkip
    <3> QED BY <2>3, <3>1, <3>6
  <2>9. CASE at + 2 <= n /\ atFrame(buf, at)
    <3> DEFINE e == found(buf, at)
    <3>1. from[at] = [from[at + 3] EXCEPT !.out = <<e>> \o @]
      BY <1>0, <2>4, <2>6, <2>9 DEF drainStep
    <3>2. wholeAt(T, at, states, intact)
      BY <1>4, <2>4, <2>9
    <3>3. Unbroken(T, states, intact) /\ InOrder(T)
      BY DEF StreamOK
    <3>4. Cut(T, at + 3, states, intact)
      <4>1. SUFFICES ASSUME NEW j, wholeAt(T, j, states, intact), j < at + 3 PROVE j + 3 <= at + 3
        BY DEF Cut
      <4>2. j \in Int
        BY <1>0, <4>1 DEF wholeAt
      <4>3. ~(at < j)
        <5>1. at < j => at + 3 <= j
          BY <1>0, <1>0a, <3>2, <3>3, <4>1, WholeApart
        <5> QED BY <2>4, <4>1, <4>2, <5>1
      <4> QED BY <2>4, <4>2, <4>3
    <3>5. at + 3 \in at + 1 .. n + 1
      BY <1>0, <2>4, <2>9
    <3>6. DrainsTo(T, n, at + 3, from[at + 3], states, intact)
      BY <2>5, <3>4, <3>5
    <3>7. e = [state |-> states[T[at].f], f |-> T[at].f] /\ e \in Published(states)
      <4>1. at \in 1 .. n /\ at + 1 \in 1 .. n /\ at \in 1 .. Len(T)
        BY <1>0, <2>4, <2>9
      <4>2. buf[at] = T[at] /\ buf[at + 1] = T[at + 1]
        BY <4>1
      <4>3. T[at + 1].v = states[T[at].f]
        BY <3>2 DEF wholeAt, values, encode
      <4>4. T[at].f \in 1 .. Len(states)
        BY <1>0a, <4>1
      <4>5. states[T[at].f] \in State
        BY <4>4
      <4> QED BY <4>2, <4>3, <4>4, <4>5 DEF found, safeState, Published
    <3> HIDE DEF e
    <3>8. DrainsTo(T, n, at, [from[at + 3] EXCEPT !.out = <<e>> \o @], states, intact)
      BY <1>0, <1>0a, <2>4, <2>9, <3>2, <3>3, <3>6, <3>7, DrainFrame
    <3> QED BY <2>3, <3>1, <3>8
  <2>10. at + 2 > n \/ at + 2 <= n
    BY <1>0, <2>4
  <2> QED BY <2>7, <2>8, <2>9, <2>10
<1>6. Cut(T, 1, states, intact)
  BY <1>0 DEF Cut, wholeAt
<1>7. n \in 0 .. n /\ n + 1 - n = 1 /\ n \notin bad
  <2>1. n \in 0 .. n /\ n + 1 - n = 1
    BY <1>0
  <2> HIDE DEF bad
  <2> QED BY <1>5, <2>1
<1>8. DrainsTo(T, n, 1, from[1], states, intact)
  BY <1>6, <1>7
<1> QED BY <1>1, <1>8

(* What a faulty frame may leave on the wire: no frame, and nothing that   *)
(* the first bytes of the next frame make one.                             *)
Remains(bytes) ==
    /\ bytes \in Seq(Byte) /\ Len(bytes) <= 3
    /\ Len(bytes) = 3 => <<bytes[1], bytes[2], bytes[3]>> \notin ValidFrame
    /\ Len(bytes) >= 1 => \A s \in State : <<bytes[Len(bytes)], kMagic, s>> \notin ValidFrame
    /\ Len(bytes) >= 2 => <<bytes[Len(bytes) - 1], bytes[Len(bytes)], kMagic>> \notin ValidFrame

(* Each form that a lost, cut or damaged frame takes is of this kind. *)
LEMMA SomeRemains ==
    ASSUME NEW bytes \in Seq(Byte), NEW s \in State
    PROVE  /\ Len(bytes) = 0 => Remains(bytes)
           /\ Len(bytes) = 1 /\ bytes[1] = kMagic => Remains(bytes)
           /\ Len(bytes) = 2 /\ bytes[1] = kMagic /\ bytes[2] = s    => Remains(bytes)
           /\ Len(bytes) = 2 /\ bytes[1] = s      /\ bytes[2] = checkByte(s) => Remains(bytes)
           /\ Len(bytes) = 2 /\ bytes[1] = kMagic /\ bytes[2] = checkByte(s) => Remains(bytes)
           /\ Len(bytes) = 3 /\ bytes[1] # kMagic /\ bytes[2] = s    /\ bytes[3] = checkByte(s) => Remains(bytes)
           /\ Len(bytes) = 3 /\ bytes[1] = kMagic /\ bytes[2] # s    /\ bytes[3] = checkByte(s) => Remains(bytes)
           /\ Len(bytes) = 3 /\ bytes[1] = kMagic /\ bytes[2] = s    /\ bytes[3] # checkByte(s) => Remains(bytes)
<1>0. kMagic = 165 /\ kMagic \in Byte
  BY DEF kMagic, Byte
<1> DEFINE c == checkByte(s)
<1>1. s \in Byte /\ s # kMagic /\ c # kMagic /\ kMagic # checkByte(c) /\ c \in Byte
  BY <1>0, CheckFacts, CheckType
<1>2. \A t \in State : t # checkByte(kMagic)
  BY <1>0, CheckFacts
<1>3. \A v \in Byte : v # s => c # checkByte(v)
  BY <1>1, CheckOneToOne
<1> HIDE DEF c
<1>4. ASSUME Len(bytes) = 0 PROVE Remains(bytes)
  BY <1>4 DEF Remains
<1>5. ASSUME Len(bytes) = 1, bytes[1] = kMagic PROVE Remains(bytes)
  BY <1>2, <1>5, NotValid DEF Remains
<1>6. ASSUME Len(bytes) = 2, bytes[2] # kMagic,
             bytes[1] # kMagic \/ kMagic # checkByte(bytes[2])
      PROVE  Remains(bytes)
  <2>1. \A t \in State : <<bytes[2], kMagic, t>> \notin ValidFrame
    BY <1>6, NotValid
  <2>2. <<bytes[1], bytes[2], kMagic>> \notin ValidFrame
    BY <1>6, NotValid
  <2>3. Len(bytes) - 1 = 1
    BY <1>6
  <2> QED BY <1>6, <2>1, <2>2, <2>3 DEF Remains
<1>7. ASSUME Len(bytes) = 3,
             \A t \in State : bytes[3] # kMagic \/ t # checkByte(kMagic),
             bytes[2] # kMagic \/ kMagic # checkByte(bytes[3]),
             bytes[1] # kMagic \/ bytes[3] # checkByte(bytes[2])
      PROVE  Remains(bytes)
  <2>1. \A t \in State : <<bytes[3], kMagic, t>> \notin ValidFrame
    BY <1>7, NotValid
  <2>2. <<bytes[2], bytes[3], kMagic>> \notin ValidFrame
    BY <1>7, NotValid
  <2>3. <<bytes[1], bytes[2], bytes[3]>> \notin ValidFrame
    BY <1>7, NotValid
  <2>4. Len(bytes) - 1 = 2
    BY <1>7
  <2> QED BY <1>7, <2>1, <2>2, <2>3, <2>4 DEF Remains
<1>8. ASSUME Len(bytes) = 2, bytes[2] = s \/ bytes[2] = c, bytes[1] = kMagic \/ bytes[1] = s,
             bytes[1] = kMagic /\ bytes[2] = s => kMagic # checkByte(s)
      PROVE  Remains(bytes)
  BY <1>1, <1>6, <1>8
<1>9. kMagic # checkByte(s)
  BY <1>1 DEF c
<1>10. ASSUME Len(bytes) = 3, bytes[1] # kMagic, bytes[2] = s, bytes[3] = c PROVE Remains(bytes)
  BY <1>1, <1>7, <1>10
<1>11. ASSUME Len(bytes) = 3, bytes[1] = kMagic, bytes[2] # s, bytes[3] = c PROVE Remains(bytes)
  <2>0. \A j \in 1 .. Len(bytes) : bytes[j] \in Byte
    OBVIOUS
  <2>1. bytes[2] \in Byte
    BY <1>11, <2>0
  <2>2. c # checkByte(bytes[2])
    BY <1>3, <1>11, <2>1
  <2> QED BY <1>1, <1>7, <1>11, <2>2
<1>12. ASSUME Len(bytes) = 3, bytes[1] = kMagic, bytes[2] = s, bytes[3] # checkByte(s) PROVE Remains(bytes)
  BY <1>1, <1>2, <1>7, <1>12
<1> QED BY <1>4, <1>5, <1>8, <1>9, <1>10, <1>11, <1>12 DEF c

LEMMA FaultRemains ==
    ASSUME NEW packet \in SentFrame
    PROVE  /\ \A k \in 0 .. 2 : Remains(SubSeq(packet, 1, k))
           /\ \A k \in 1 .. 3 : Remains(SubSeq(packet, 1, k - 1) \o SubSeq(packet, k + 1, 3))
           /\ \A k \in 1 .. 3, v \in Byte : v # packet[k] => Remains([packet EXCEPT ![k] = v])
<1>1. PICK s \in State : packet = <<kMagic, s, checkByte(s)>>
  BY FrameIs
<1>2. kMagic \in Byte /\ s \in Byte /\ checkByte(s) \in Byte
  <2>1. kMagic \in Byte
    BY DEF kMagic, Byte
  <2>2. s \in Byte
    BY CheckFacts
  <2> QED BY <2>1, <2>2, CheckType
<1>3. packet \in Seq(Byte) /\ Len(packet) = 3 /\ packet[1] = kMagic /\ packet[2] = s /\ packet[3] = checkByte(s)
  BY <1>1, <1>2
<1>3a. /\ \A m \in 0 .. 2 : SubSeq(packet, 1, m) \in Seq(Byte) /\ Len(SubSeq(packet, 1, m)) = m
       /\ \A m \in 2 .. 4 : SubSeq(packet, m, 3) \in Seq(Byte) /\ Len(SubSeq(packet, m, 3)) = 4 - m
  <2>1. ASSUME NEW m \in 0 .. 2 PROVE SubSeq(packet, 1, m) \in Seq(Byte) /\ Len(SubSeq(packet, 1, m)) = m
    <3>1. m \in 1 - 1 .. Len(packet) /\ 1 \in 1 .. Len(packet) + 1 /\ m - 1 + 1 = m
      BY <1>3
    <3> QED BY <1>3, <3>1, PartOf
  <2>2. ASSUME NEW m \in 2 .. 4 PROVE SubSeq(packet, m, 3) \in Seq(Byte) /\ Len(SubSeq(packet, m, 3)) = 4 - m
    <3>1. 3 \in m - 1 .. Len(packet) /\ m \in 1 .. Len(packet) + 1 /\ 3 - m + 1 = 4 - m
      BY <1>3
    <3> QED BY <1>3, <3>1, PartOf
  <2> QED BY <2>1, <2>2
<1>4. ASSUME NEW k \in 0 .. 2 PROVE Remains(SubSeq(packet, 1, k))
  <2> DEFINE b == SubSeq(packet, 1, k)
  <2>1. b \in Seq(Byte) /\ Len(b) = k /\ (k >= 1 => b[1] = packet[1]) /\ (k = 2 => b[2] = packet[2])
    <3>1. k \in 0 .. Len(packet)
      BY <1>3
    <3>2. b \in Seq(Byte) /\ Len(b) = k /\ \A p \in 1 .. k : b[p] = packet[p]
      BY <1>3, <3>1, Beginning
    <3> HIDE DEF b
    <3> QED BY <3>2
  <2>2. k = 0 \/ k = 1 \/ k = 2
    OBVIOUS
  <2> HIDE DEF b
  <2>3. Remains(b)
    <3>1. CASE k = 0
      BY <2>1, <3>1, SomeRemains
    <3>2. CASE k = 1
      BY <1>3, <2>1, <3>2, SomeRemains
    <3>3. CASE k = 2
      BY <1>3, <2>1, <3>3, SomeRemains
    <3> QED BY <2>2, <3>1, <3>2, <3>3
  <2> QED BY <2>3 DEF b
<1>5. ASSUME NEW k \in 1 .. 3 PROVE Remains(SubSeq(packet, 1, k - 1) \o SubSeq(packet, k + 1, 3))
  <2> DEFINE p == SubSeq(packet, 1, k - 1)
             q == SubSeq(packet, k + 1, 3)
             b == p \o q
  <2>1. p \in Seq(Byte) /\ q \in Seq(Byte) /\ Len(p) = k - 1 /\ Len(q) = 3 - k
    <3>1. k - 1 \in 0 .. 2 /\ k + 1 \in 2 .. 4 /\ 4 - (k + 1) = 3 - k
      OBVIOUS
    <3>2. p \in Seq(Byte) /\ Len(p) = k - 1
      BY <1>3a, <3>1
    <3>3. q \in Seq(Byte) /\ Len(q) = 3 - k
      BY <1>3a, <3>1
    <3> QED BY <3>2, <3>3
  <2>2. /\ k >= 2 => p[1] = packet[1]
        /\ k = 3  => p[2] = packet[2]
        /\ k = 1  => q[1] = packet[2] /\ q[2] = packet[3]
        /\ k = 2  => q[1] = packet[3]
    BY <1>3
  <2> HIDE DEF p, q
  <2>3. b \in Seq(Byte) /\ Len(b) = 2
    BY <2>1
  <2>4. /\ k = 1 => b[1] = q[1] /\ b[2] = q[2]
        /\ k = 2 => b[1] = p[1] /\ b[2] = q[1]
        /\ k = 3 => b[1] = p[1] /\ b[2] = p[2]
    BY <2>1
  <2>5. k = 1 \/ k = 2 \/ k = 3
    OBVIOUS
  <2> HIDE DEF b
  <2>6. Remains(b)
    BY <1>1, <1>3, <2>2, <2>3, <2>4, <2>5, SomeRemains
  <2> QED BY <2>6 DEF b, p, q
<1>6. ASSUME NEW k \in 1 .. 3, NEW v \in Byte, v # packet[k] PROVE Remains([packet EXCEPT ![k] = v])
  <2> DEFINE b == [packet EXCEPT ![k] = v]
  <2>1. b \in Seq(Byte) /\ Len(b) = 3 /\ b[k] = v /\ \A j \in 1 .. 3 : j # k => b[j] = packet[j]
    <3>1. k \in 1 .. Len(packet) /\ \A j \in 1 .. 3 : j \in 1 .. Len(packet)
      BY <1>3
    <3>2. /\ b \in Seq(Byte) /\ Len(b) = Len(packet)
          /\ \A j \in 1 .. Len(packet) : b[j] = IF j = k THEN v ELSE packet[j]
      <4> DEFINE g == [j \in 1 .. 3 |-> IF j = k THEN v ELSE packet[j]]
      <4>1. DOMAIN packet = 1 .. 3
        BY <1>3
      <4>2. b = g
        BY <4>1
      <4>3. \A j \in 1 .. 3 : g[j] = (IF j = k THEN v ELSE packet[j]) /\ g[j] \in Byte
        <5>1. \A j \in 1 .. Len(packet) : packet[j] \in Byte
          <6>1. packet \in Seq(Byte)
            BY <1>3
          <6> QED BY <6>1
        <5>2. \A j \in 1 .. 3 : packet[j] \in Byte
          BY <1>3, <5>1
        <5> QED BY <5>2
      <4>4. g \in Seq(Byte) /\ Len(g) = 3
        BY <4>3
      <4> HIDE DEF b, g
      <4> QED BY <1>3, <4>2, <4>3, <4>4
    <3> QED BY <1>3, <3>1, <3>2
  <2> HIDE DEF b
  <2>2. k = 1 \/ k = 2 \/ k = 3
    OBVIOUS
  <2>3. Remains(b)
    BY <1>1, <1>3, <1>6, <2>1, <2>2, SomeRemains
  <2> QED BY <2>3 DEF b
<1> QED BY <1>4, <1>5, <1>6

(* R is T with these bytes of frame f behind. *)
LineExtends(R, T, bytes, f) ==
    /\ Len(R) = Len(T) + Len(bytes)
    /\ \A k \in 1 .. Len(T) : R[k] = T[k]
    /\ \A k \in 1 .. Len(bytes) : R[Len(T) + k] = [v |-> bytes[k], f |-> f]

(* A stream that is extended by the bytes of one frame. *)
LEMMA AppendOK ==
    ASSUME NEW states \in Seq(State), NEW intact \in SUBSET (1 .. Len(states)), NEW x \in State,
           NEW T, StreamOK(T, states, intact),
           NEW bytes \in Seq(Byte),
           NEW more, NEW new, more = Append(states, x),
           new = intact \/ new = intact \cup {Len(states) + 1},
           NEW R \in Seq([v : Byte, f : 1 .. Len(more)]),
           LineExtends(R, T, bytes, Len(states) + 1),
           \A at \in 1 .. Len(R) - 2 : at > Len(T) - 2 /\ values(R, at) \in ValidFrame => wholeAt(R, at, more, new),
           Len(states) + 1 \in new =>
                Len(bytes) = 3 /\ wholeAt(R, Len(T) + 1, more, new) /\ TailClean(R),
           TailOK(R)
    PROVE  StreamOK(R, more, new)
<1> DEFINE n == Len(states)
           L == Len(T)
<1>0. n \in Nat /\ L \in Nat /\ Len(bytes) \in Nat /\ Len(R) \in Nat /\ Len(R) = L + Len(bytes)
  BY DEF StreamOK, LineExtends
<1>1. \A k \in 1 .. L : T[k].f \in 1 .. n
  <2> DEFINE X == [v : Byte, f : 1 .. Len(states)]
  <2>1. T \in Seq(X)
    BY DEF StreamOK
  <2> HIDE DEF X
  <2>2. \A j \in 1 .. Len(T) : T[j] \in X
    BY <2>1
  <2> QED BY <2>2 DEF X
<1>2. \A k \in 1 .. Len(R) : (k \in 1 .. L /\ R[k] = T[k]) \/ (k > L /\ R[k].f = n + 1)
  <2>1. SUFFICES ASSUME NEW k \in 1 .. Len(R), ~(k \in 1 .. L) PROVE R[k].f = n + 1
    BY <1>0 DEF LineExtends
  <2>2. k - L \in 1 .. Len(bytes) /\ L + (k - L) = k
    BY <1>0, <2>1
  <2>3. R[L + (k - L)] = [v |-> bytes[k - L], f |-> n + 1]
    BY <2>2 DEF LineExtends
  <2> QED BY <2>2, <2>3
<1>2a. \A k \in 1 .. Len(R) : k \in 1 .. L => R[k].f \in 1 .. n /\ R[k].f # n + 1
  <2>1. \A f \in 1 .. n : f # n + 1
    BY <1>0
  <2>2. \A k \in 1 .. L : R[k] = T[k]
    BY DEF LineExtends
  <2> HIDE DEF n, L
  <2> QED BY <1>1, <2>1, <2>2
<1>3. Len(more) = n + 1 /\ (\A f \in 1 .. n : more[f] = states[f]) /\ \A f \in 1 .. n : f \in new <=> f \in intact
  BY <1>0
<1> HIDE DEF n, L
<1>4. ASSUME NEW at \in 1 .. L - 2
      PROVE  /\ wholeAt(R, at, more, new) <=> wholeAt(T, at, states, intact)
             /\ values(R, at) = values(T, at)
  <2>1. at \in 1 .. L /\ at + 1 \in 1 .. L /\ at + 2 \in 1 .. L
    BY <1>0, SMTT(60)
  <2>2. R[at] = T[at] /\ R[at + 1] = T[at + 1] /\ R[at + 2] = T[at + 2]
    BY <2>1 DEF LineExtends, L
  <2>3. at \in 1 .. Len(R) - 2 /\ at \in 1 .. Len(T) - 2
    BY <1>0 DEF L
  <2>4. T[at].f \in 1 .. n
    BY <1>1, <2>1
  <2>5. (T[at].f \in new <=> T[at].f \in intact) /\ more[T[at].f] = states[T[at].f]
    BY <1>3, <2>4
  <2>6. values(R, at) = values(T, at)
    BY <2>2 DEF values
  <2> QED BY <2>2, <2>3, <2>5, <2>6 DEF wholeAt
<1>5. InOrder(R)
  <2>1. SUFFICES ASSUME NEW at \in 1 .. Len(R), NEW j \in 1 .. Len(R), at < j PROVE R[at].f <= R[j].f
    BY DEF InOrder
  <2>2. CASE j \in 1 .. L
    <3>1. at \in 1 .. L
      BY <1>0, <2>1, <2>2
    <3>2. T[at].f <= T[j].f
      BY <2>1, <2>2, <3>1 DEF StreamOK, InOrder, L
    <3> QED BY <1>0, <1>2, <2>2, <3>1, <3>2, SMTT(60)
  <2>3. CASE R[j].f = n + 1
    <3>1. R[at].f \in 1 .. n + 1
      <4>1. \A f : f \in 1 .. n \/ f = n + 1 => f \in 1 .. n + 1
        BY <1>0
      <4> QED BY <1>2, <1>2a, <4>1
    <3> QED BY <1>0, <2>3, <3>1
  <2> QED BY <1>2, <2>2, <2>3
<1>6. OnlyWhole(R, more, new)
  <2>1. SUFFICES ASSUME NEW at \in 1 .. Len(R) - 2, values(R, at) \in ValidFrame
                 PROVE  wholeAt(R, at, more, new)
    BY DEF OnlyWhole
  <2>2. CASE at \in 1 .. L - 2
    BY <1>4, <2>1, <2>2 DEF StreamOK, OnlyWhole, L
  <2>3. CASE ~(at \in 1 .. L - 2)
    <3>1. at > Len(T) - 2
      BY <1>0, <2>3 DEF L
    <3> QED BY <2>1, <3>1
  <2> QED BY <2>2, <2>3
<1>7. ASSUME NEW k \in 1 .. Len(R), R[k].f \in new
      PROVE  \E at \in 1 .. Len(R) - 2 :
                /\ at <= k /\ k <= at + 2
                /\ wholeAt(R, at, more, new)
                /\ \A j \in 1 .. Len(R) : R[j].f = R[k].f => at <= j /\ j <= at + 2
  <2>1. CASE k \in 1 .. L
    <3>1. R[k] = T[k] /\ T[k].f \in 1 .. n /\ T[k].f \in intact
      BY <1>0, <1>1, <1>2, <1>3, <1>7, <2>1
    <3>2. PICK at \in 1 .. Len(T) - 2 :
                /\ at <= k /\ k <= at + 2
                /\ wholeAt(T, at, states, intact)
                /\ \A j \in 1 .. Len(T) : T[j].f = T[k].f => at <= j /\ j <= at + 2
      BY <2>1, <3>1 DEF StreamOK, Unbroken, L
    <3>3. at \in 1 .. L - 2 /\ at \in 1 .. Len(R) - 2
      BY <1>0 DEF L
    <3>4. wholeAt(R, at, more, new)
      BY <1>4, <3>2, <3>3
    <3>5. ASSUME NEW j \in 1 .. Len(R), R[j].f = R[k].f PROVE at <= j /\ j <= at + 2
      <4>1. j \in 1 .. L /\ R[j] = T[j]
        <5>1. R[k].f # n + 1
          BY <1>2a, <2>1
        <5> QED BY <1>2, <3>5, <5>1
      <4>2. T[j].f = T[k].f /\ j \in 1 .. Len(T)
        BY <3>1, <3>5, <4>1 DEF L
      <4> QED BY <3>2, <4>2
    <3> QED BY <3>2, <3>3, <3>4, <3>5
  <2>2. CASE ~(k \in 1 .. L)
    <3>1. k > L /\ R[k].f = n + 1
      BY <1>2, <2>2
    <3>2. Len(bytes) = 3 /\ wholeAt(R, L + 1, more, new)
      BY <1>7, <3>1 DEF n, L
    <3>3. L + 1 \in 1 .. Len(R) - 2 /\ L + 1 <= k /\ k <= (L + 1) + 2
      BY <1>0, <3>1, <3>2
    <3>4. ASSUME NEW j \in 1 .. Len(R), R[j].f = R[k].f PROVE L + 1 <= j /\ j <= (L + 1) + 2
      <4>1. ~(j \in 1 .. L)
        BY <1>2a, <3>1, <3>4
      <4> QED BY <1>0, <3>2, <4>1
    <3> QED BY <3>2, <3>3, <3>4
  <2> QED BY <2>1, <2>2
<1>8. Unbroken(R, more, new)
  BY <1>7 DEF Unbroken
<1>9. Len(more) = 0 \/ Len(more) \in new => TailClean(R)
  BY <1>0, <1>3 DEF n
<1> QED BY <1>5, <1>6, <1>8, <1>9 DEF StreamOK

(* A whole frame, behind anything, ... *)
LEMMA SendOK ==
    ASSUME NEW states \in Seq(State), NEW intact \in SUBSET (1 .. Len(states)), NEW x \in State,
           NEW T, StreamOK(T, states, intact),
           NEW more, NEW new, more = Append(states, x), new = intact \cup {Len(states) + 1},
           NEW R \in Seq([v : Byte, f : 1 .. Len(more)]),
           LineExtends(R, T, encode(x), Len(states) + 1)
    PROVE  StreamOK(R, more, new)
<1> DEFINE L == Len(T)
           n == Len(states)
           bytes == encode(x)
<1>0. kMagic = 165 /\ kMagic \in Byte
  BY DEF kMagic, Byte
<1>1. x \in Byte /\ x # kMagic /\ checkByte(x) # kMagic /\ checkByte(x) \in Byte
  BY <1>0, CheckFacts, CheckType
<1>2. bytes = <<kMagic, x, checkByte(x)>>
  BY <1>0 DEF encode, checkByte
<1>3. bytes \in Seq(Byte) /\ Len(bytes) = 3 /\ bytes[1] = kMagic /\ bytes[2] = x /\ bytes[3] = checkByte(x)
  BY <1>0, <1>1, <1>2
<1>4. L \in Nat /\ n \in Nat
  BY DEF StreamOK
<1> HIDE DEF bytes
<1>5. /\ Len(R) = L + 3
      /\ R[L + 1] = [v |-> kMagic, f |-> n + 1]
      /\ R[L + 2] = [v |-> x, f |-> n + 1]
      /\ R[L + 3] = [v |-> checkByte(x), f |-> n + 1]
      /\ \A k \in 1 .. L : R[k] = T[k]
  <2>1. LineExtends(R, T, bytes, n + 1)
    BY DEF bytes
  <2>2. 1 \in 1 .. Len(bytes) /\ 2 \in 1 .. Len(bytes) /\ 3 \in 1 .. Len(bytes)
    BY <1>3
  <2> QED BY <1>3, <2>1, <2>2 DEF LineExtends
<1> HIDE DEF L, n
<1>6. more[n + 1] = x /\ Len(more) = n + 1
  BY <1>4 DEF n
<1>7. wholeAt(R, L + 1, more, new)
  <2>1. (L + 1) + 1 = L + 2 /\ (L + 1) + 2 = L + 3 /\ L + 1 \in 1 .. Len(R) - 2
    <3>1. Len(R) = L + 3
      BY <1>5
    <3>2. \A a \in Nat : (a + 1) + 1 = a + 2 /\ (a + 1) + 2 = a + 3 /\ a + 1 \in 1 .. (a + 3) - 2
      OBVIOUS
    <3> QED BY <1>4, <3>1, <3>2
  <2>2. values(R, L + 1) = bytes
    BY <1>2, <1>5, <2>1 DEF values
  <2>3. n + 1 \in new
    BY DEF n
  <2> QED BY <1>5, <1>6, <2>1, <2>2, <2>3 DEF wholeAt, bytes
<1>8. TailClean(R)
  <2>1. SUFFICES ASSUME NEW k \in 1 .. Len(R), k >= Len(R) - 1 PROVE R[k].v # kMagic
    BY DEF TailClean
  <2>2. k = L + 2 \/ k = L + 3
    <3>1. Len(R) = L + 3
      BY <1>5
    <3> QED BY <1>4, <2>1, <3>1, SMTT(60)
  <2> QED BY <1>1, <1>5, <2>2
<1>9. TailOK(R)
  <2>1. SUFFICES ASSUME NEW k \in 1 .. Len(R), k >= Len(R) - 1
                 PROVE  \A a, b : <<R[k].v, a, b>> \notin ValidFrame
    <3>1. \A k \in 1 .. Len(R) : k = Len(R) \/ k = Len(R) - 1 => k >= Len(R) - 1
      BY <1>4, <1>5
    <3> QED BY <2>1, <3>1 DEF TailOK
  <2> QED BY <1>8, <2>1, NotValid DEF TailClean
<1>10. ASSUME NEW at \in 1 .. Len(R) - 2, at > Len(T) - 2, values(R, at) \in ValidFrame
       PROVE  wholeAt(R, at, more, new)
  <2>1. at = L + 1 \/ (at = L /\ at \in 1 .. L) \/ (at = L - 1 /\ at \in 1 .. L /\ L \in 1 .. L)
    <3>1. Len(R) = L + 3 /\ at \in 1 .. Len(R) - 2 /\ at > L - 2
      BY <1>5, <1>10 DEF L
    <3> HIDE DEF L
    <3> QED BY <1>4, <3>1
  <2>2. CASE at = L /\ at \in 1 .. L
    <3>1. values(R, at) = <<T[at].v, kMagic, x>>
      BY <1>5, <2>2 DEF values
    <3>2. values(R, at) \notin ValidFrame
      BY <2>2, <3>1 DEF StreamOK, TailOK, L
    <3> QED BY <1>10, <3>2
  <2>3. CASE at = L - 1 /\ at \in 1 .. L /\ L \in 1 .. L
    <3>1. at + 1 = L /\ at + 2 = L + 1
      BY <1>4, <2>3, SMTT(60)
    <3>4. R[at] = T[at] /\ R[at + 1] = T[at + 1]
      BY <1>5, <2>3, <3>1
    <3>5. R[at + 2].v = kMagic
      <4>1. R[L + 1].v = kMagic
        BY <1>5
      <4> QED BY <3>1, <4>1
    <3>2. values(R, at) = <<T[at].v, T[at + 1].v, kMagic>>
      BY <3>4, <3>5 DEF values
    <3>3. values(R, at) \notin ValidFrame
      BY <2>3, <3>2 DEF StreamOK, TailOK, L
    <3> QED BY <1>10, <3>3
  <2> QED BY <1>7, <2>1, <2>2, <2>3
<1>11. StreamOK(R, more, new)
  <2>1. LineExtends(R, T, bytes, Len(states) + 1)
    BY DEF bytes
  <2> QED BY <1>3, <1>7, <1>8, <1>9, <1>10, <2>1, AppendOK DEF L
<1> QED BY <1>11

(* ... and what is left of a faulty one, behind a whole one. *)
LEMMA FaultOK ==
    ASSUME NEW states \in Seq(State), NEW intact \in SUBSET (1 .. Len(states)), NEW x \in State,
           NEW T, StreamOK(T, states, intact),
           Len(states) = 0 \/ Len(states) \in intact,
           NEW bytes, Remains(bytes),
           NEW more, more = Append(states, x),
           NEW R \in Seq([v : Byte, f : 1 .. Len(more)]),
           LineExtends(R, T, bytes, Len(states) + 1)
    PROVE  StreamOK(R, more, intact)
<1> DEFINE L == Len(T)
           n == Len(states)
           m == Len(bytes)
<1>1. TailClean(T)
  BY DEF StreamOK
<1>2. L \in Nat /\ n \in Nat /\ m \in Nat /\ m <= 3 /\ bytes \in Seq(Byte) /\ Len(R) = L + m /\ Len(R) \in Nat
  BY DEF StreamOK, Remains, LineExtends
<1>3. \A k \in 1 .. L : R[k] = T[k]
  BY DEF LineExtends
<1>4. \A k \in 1 .. m : R[L + k].v = bytes[k]
  <2>1. SUFFICES ASSUME NEW k \in 1 .. m PROVE R[L + k].v = bytes[k]
    OBVIOUS
  <2>2. R[L + k] = [v |-> bytes[k], f |-> n + 1]
    BY <2>1 DEF LineExtends
  <2> QED BY <2>2
<1>5. \A k \in 1 .. L : \A a, b : k >= L - 1 => <<R[k].v, a, b>> \notin ValidFrame
  BY <1>1, <1>3, NotValid DEF TailClean
<1> HIDE DEF L, n, m
<1>6. ASSUME NEW at \in 1 .. Len(R) - 2, at > Len(T) - 2, values(R, at) \in ValidFrame
      PROVE  wholeAt(R, at, more, intact)
  <2>1. ~(at \in 1 .. L)
    <3>1. at >= L - 1
      BY <1>2, <1>6 DEF L
    <3> QED BY <1>5, <1>6, <3>1 DEF values
  <2>2. at = L + 1 /\ m = 3 /\ at + 1 = L + 2 /\ at + 2 = L + 3
    BY <1>2, <2>1, SMTT(60)
  <2>3. values(R, at) = <<bytes[1], bytes[2], bytes[3]>>
    <3>1. 1 \in 1 .. m /\ 2 \in 1 .. m /\ 3 \in 1 .. m
      BY <2>2
    <3> QED BY <1>4, <2>2, <3>1 DEF values
  <2>4. values(R, at) \notin ValidFrame
    BY <2>2, <2>3 DEF Remains, m
  <2> QED BY <1>6, <2>4
<1>7. TailOK(R)
  <2>1. ASSUME NEW k \in 1 .. Len(R), k = Len(R), NEW s \in State
        PROVE  <<R[k].v, kMagic, s>> \notin ValidFrame
    <3>1. CASE m = 0
      <4>1. k \in 1 .. L /\ k >= L - 1
        BY <1>2, <2>1, <3>1
      <4> QED BY <1>5, <4>1
    <3>2. CASE m >= 1
      <4>1. k = L + m /\ m \in 1 .. m
        BY <1>2, <2>1, <3>2
      <4>2. R[k].v = bytes[m]
        BY <1>4, <4>1
      <4> QED BY <3>2, <4>2 DEF Remains, m
    <3> QED BY <1>2, <3>1, <3>2
  <2>2. ASSUME NEW k \in 1 .. Len(R), k = Len(R) - 1
        PROVE  <<R[k].v, R[k + 1].v, kMagic>> \notin ValidFrame
    <3>1. CASE m <= 1
      <4>1. k \in 1 .. L /\ k >= L - 1
        BY <1>2, <2>2, <3>1
      <4> QED BY <1>5, <4>1
    <3>2. CASE m >= 2
      <4>1. k = L + (m - 1) /\ m - 1 \in 1 .. m /\ k + 1 = L + m /\ m \in 1 .. m
        BY <1>2, <2>2, <3>2, SMTT(60)
      <4>2. R[k].v = bytes[m - 1] /\ R[k + 1].v = bytes[m]
        BY <1>4, <4>1
      <4> QED BY <3>2, <4>2 DEF Remains, m
    <3> QED BY <1>2, <3>1, <3>2
  <2> QED BY <2>1, <2>2 DEF TailOK
<1>8. Len(states) + 1 \notin intact
  BY <1>2 DEF n
<1> QED BY <1>2, <1>6, <1>7, <1>8, AppendOK

(* The topic, when bytes are sent ... *)
LEMMA TopicAppend ==
    ASSUME NEW states \in Seq(State), NEW intact \in SUBSET (1 .. Len(states)), NEW x \in State,
           NEW T, StreamOK(T, states, intact),
           NEW pub, TopicOK(T, pub, states, intact),
           NEW bytes, Len(bytes) \in Nat,
           NEW more, NEW new, more = Append(states, x),
           new = intact \/ (new = intact \cup {Len(states) + 1} /\ Len(bytes) >= 1),
           NEW R, LineExtends(R, T, bytes, Len(states) + 1)
    PROVE  TopicOK(R, pub, more, new)
<1> DEFINE n == Len(states)
           L == Len(T)
<1>1. /\ n \in Nat /\ L \in Nat /\ Len(more) = n + 1 /\ Len(R) = L + Len(bytes)
      /\ \A f \in 1 .. n : more[f] = states[f]
  BY StreamTypes DEF LineExtends
<1>2. pub \in Seq(Published(states)) /\ pub \in Seq(Published(more))
  <2>1. Published(states) \subseteq Published(more)
    BY <1>1 DEF Published
  <2>2. pub \in Seq(Published(states))
    BY DEF TopicOK, Published
  <2> QED BY <2>1, <2>2
<1>3. Len(pub) \in Nat /\ \A p \in 1 .. Len(pub) : pub[p].f \in 1 .. n
  <2>1. \A p \in 1 .. Len(pub) : pub[p] \in Published(states)
    BY <1>2
  <2> QED BY <1>2, <2>1 DEF Published
<1>4. ASSUME NEW k \in 1 .. Len(R) PROVE (k \in 1 .. L /\ R[k] = T[k]) \/ R[k].f = n + 1
  <2>1. CASE k \in 1 .. L
    BY <2>1 DEF LineExtends
  <2>2. CASE ~(k \in 1 .. L)
    <3>1. k - L \in 1 .. Len(bytes) /\ L + (k - L) = k
      BY <1>1, <2>2
    <3>2. R[L + (k - L)] = [v |-> bytes[k - L], f |-> n + 1]
      BY <3>1 DEF LineExtends
    <3> QED BY <3>1, <3>2
  <2> QED BY <2>1, <2>2
<1> HIDE DEF n, L
<1>5. ASSUME NEW p \in 1 .. Len(pub) PROVE pub[p].f \in new /\ pub[p].state = more[pub[p].f]
  <2>1. pub[p].f \in intact /\ pub[p].state = states[pub[p].f]
    BY DEF TopicOK
  <2> QED BY <1>1, <1>3, <2>1
<1>6. ASSUME NEW p \in 1 .. Len(pub), NEW k \in 1 .. Len(R) PROVE pub[p].f < R[k].f
  <2>1. CASE k \in 1 .. L /\ R[k] = T[k]
    BY <2>1 DEF TopicOK, L
  <2>2. CASE R[k].f = n + 1
    BY <1>1, <1>3, <2>2
  <2> QED BY <1>4, <2>1, <2>2
<1>7. ASSUME NEW f \in new
      PROVE  (\E p \in 1 .. Len(pub) : pub[p].f = f) \/ (\E k \in 1 .. Len(R) : R[k].f = f)
  <2>1. CASE f \in intact
    <3>1. (\E p \in 1 .. Len(pub) : pub[p].f = f) \/ (\E k \in 1 .. L : T[k].f = f)
      BY <2>1 DEF TopicOK, L
    <3>2. \A k \in 1 .. L : k \in 1 .. Len(R) /\ R[k] = T[k]
      BY <1>1 DEF LineExtends, L
    <3> QED BY <3>1, <3>2
  <2>2. CASE f = n + 1 /\ Len(bytes) >= 1
    <3>1. L + 1 \in 1 .. Len(R) /\ 1 \in 1 .. Len(bytes)
      BY <1>1, <2>2
    <3>2. R[L + 1] = [v |-> bytes[1], f |-> n + 1]
      BY <3>1 DEF LineExtends, n, L
    <3>3. R[L + 1].f = f
      BY <2>2, <3>2
    <3> QED BY <3>1, <3>3
  <2> QED BY <2>1, <2>2 DEF n
<1>8. \A p, q \in 1 .. Len(pub) : p < q => pub[p].f < pub[q].f
  BY DEF TopicOK
<1> QED BY <1>2, <1>5, <1>6, <1>7, <1>8 DEF TopicOK, Published

(* ... and when they are worked off. *)
LEMMA TopicPoll ==
    ASSUME NEW states \in Seq(State), NEW intact \in SUBSET (1 .. Len(states)),
           NEW T, StreamOK(T, states, intact),
           NEW pub, TopicOK(T, pub, states, intact),
           NEW n \in Nat, n <= Len(T), NEW r, DrainsTo(T, n, 1, r, states, intact),
           NEW R, Rest(R, T, r.left)
    PROVE  TopicOK(R, pub \o r.out, states, intact)
<1> DEFINE all == pub \o r.out
           cut == r.left
           o == Len(pub)
           m == Len(r.out)
<1>1. /\ cut \in 1 .. n + 1 /\ r.out \in Seq(Published(states)) /\ pub \in Seq(Published(states))
      /\ Len(T) \in Nat
  BY StreamTypes DEF DrainsTo, TopicOK, Published
<1>0. cut \in 1 .. Len(T) + 1 /\ Len(T) \in Nat /\ Len(R) \in Nat
  <2>1. Len(R) = Len(T) - cut + 1
    BY DEF Rest
  <2>2. cut \in 1 .. Len(T) + 1
    BY <1>1
  <2> QED BY <1>1, <2>1, <2>2
<1>2. all \in Seq(Published(states)) /\ Len(all) = o + m /\ o \in Nat /\ m \in Nat
  BY <1>1, Joined
<1>3. \A p \in 1 .. Len(all) : (p \in 1 .. o /\ all[p] = pub[p])
                             \/ (p > o /\ p - o \in 1 .. m /\ all[p] = r.out[p - o])
  BY <1>1, Joined
<1>4. /\ \A p \in 1 .. o : p \in 1 .. Len(all) /\ all[p] = pub[p]
      /\ \A p \in 1 .. m : o + p \in 1 .. Len(all) /\ all[o + p] = r.out[p]
  <2>1. \A p \in 1 .. o : p \in 1 .. Len(all) /\ all[p] = pub[p]
    BY <1>1, Joined
  <2>2. ASSUME NEW p \in 1 .. m PROVE o + p \in 1 .. Len(all) /\ all[o + p] = r.out[p]
    <3>1. p \in 1 .. Len(r.out) /\ pub \in Seq(Published(states)) /\ r.out \in Seq(Published(states))
      BY <1>1
    <3>2. Len(pub) + p \in 1 .. Len(pub \o r.out) /\ (pub \o r.out)[Len(pub) + p] = r.out[p]
      BY <3>1, Joined
    <3> QED BY <3>2
  <2> QED BY <2>1, <2>2
<1>5. /\ \A k \in 1 .. Len(R) : k + cut - 1 \in 1 .. Len(T) /\ R[k] = T[k + cut - 1] /\ k + cut - 1 >= cut
      /\ \A k \in 1 .. Len(T) : k >= cut => k - cut + 1 \in 1 .. Len(R) /\ R[k - cut + 1] = T[k]
  <2>1. Rest(R, T, cut)
    OBVIOUS
  <2> HIDE DEF cut
  <2> QED BY <1>0, <2>1, RestAt
<1> HIDE DEF all, o, m, cut
<1>6. ASSUME NEW p \in 1 .. m
      PROVE  /\ \E j \in 1 .. cut - 1 : /\ wholeAt(T, j, states, intact)
                                         /\ r.out[p] = [state |-> states[T[j].f], f |-> T[j].f]
                                         /\ j \in 1 .. Len(T)
             /\ r.out[p].f \in intact /\ r.out[p].state = states[r.out[p].f]
             /\ \A k \in 1 .. Len(R) : r.out[p].f < R[k].f
             /\ \A q \in 1 .. o : pub[q].f < r.out[p].f
  <2>1. PICK j \in 1 .. cut - 1 : /\ wholeAt(T, j, states, intact)
                                   /\ r.out[p] = [state |-> states[T[j].f], f |-> T[j].f]
    BY DEF DrainsTo, m, cut
  <2>2. j \in 1 .. Len(T) /\ T[j].f \in intact
    BY <1>1, <2>1 DEF wholeAt
  <2>3. j + 3 <= cut
    <3>1. Cut(T, cut, states, intact) /\ j < cut
      BY <1>1, <2>1 DEF DrainsTo, cut
    <3> QED BY <2>1, <3>1 DEF Cut
  <2>4. ASSUME NEW k \in 1 .. Len(T), k >= cut PROVE T[j].f < T[k].f
    <3>1. j + 2 < k
      BY <1>1, <2>1, <2>3, <2>4
    <3>2. Unbroken(T, states, intact) /\ InOrder(T)
      BY DEF StreamOK
    <3>3. \A at \in 1 .. Len(T) : T[at].f \in Nat
      BY StreamTypes
    <3> QED BY <1>1, <2>1, <3>1, <3>2, <3>3, WholeApart
  <2>5. \A k \in 1 .. Len(R) : T[j].f < R[k].f
    BY <1>5, <2>4
  <2>6. \A q \in 1 .. o : pub[q].f < T[j].f
    BY <2>2 DEF TopicOK, o
  <2> QED BY <2>1, <2>2, <2>5, <2>6
<1>7. ASSUME NEW p \in 1 .. Len(all)
      PROVE  all[p].f \in intact /\ all[p].state = states[all[p].f] /\ \A k \in 1 .. Len(R) : all[p].f < R[k].f
  <2>1. CASE p \in 1 .. o /\ all[p] = pub[p]
    <3>1. pub[p].f \in intact /\ pub[p].state = states[pub[p].f]
      BY <2>1 DEF TopicOK, o
    <3>2. \A k \in 1 .. Len(T) : pub[p].f < T[k].f
      BY <2>1 DEF TopicOK, o
    <3> QED BY <1>5, <2>1, <3>1, <3>2
  <2>2. CASE p - o \in 1 .. m /\ all[p] = r.out[p - o]
    BY <1>6, <2>2
  <2> QED BY <1>3, <2>1, <2>2
<1>8. ASSUME NEW p \in 1 .. Len(all), NEW q \in 1 .. Len(all), p < q PROVE all[p].f < all[q].f
  <2>1. CASE q \in 1 .. o /\ all[q] = pub[q]
    <3>1. p \in 1 .. o /\ all[p] = pub[p]
      BY <1>2, <1>4, <1>8, <2>1
    <3> QED BY <1>8, <2>1, <3>1 DEF TopicOK, o
  <2>2. CASE q - o \in 1 .. m /\ all[q] = r.out[q - o]
    <3>1. CASE p \in 1 .. o /\ all[p] = pub[p]
      BY <1>6, <2>2, <3>1
    <3>2. CASE p - o \in 1 .. m /\ all[p] = r.out[p - o]
      <4>1. p - o < q - o
        BY <1>2, <1>8
      <4> QED BY <2>2, <3>2, <4>1 DEF DrainsTo, m
    <3> QED BY <1>3, <3>1, <3>2
  <2> QED BY <1>3, <2>1, <2>2
<1>9. ASSUME NEW f \in intact
      PROVE  (\E p \in 1 .. Len(all) : all[p].f = f) \/ (\E k \in 1 .. Len(R) : R[k].f = f)
  <2>1. CASE \E p \in 1 .. o : pub[p].f = f
    BY <1>4, <2>1
  <2>2. CASE \E k \in 1 .. Len(T) : T[k].f = f
    <3>1. PICK k \in 1 .. Len(T) : T[k].f = f
      BY <2>2
    <3>2. CASE k >= cut
      <4>1. k - cut + 1 \in 1 .. Len(R) /\ R[k - cut + 1] = T[k]
        BY <1>5, <3>2
      <4> QED BY <3>1, <4>1
    <3>3. CASE k < cut
      <4>1. PICK at \in 1 .. Len(T) - 2 : at <= k /\ k <= at + 2 /\ wholeAt(T, at, states, intact)
        BY <3>1 DEF StreamOK, Unbroken
      <4>2. at \in 1 .. cut - 1
        BY <1>1, <3>3, <4>1
      <4>3. PICK p \in 1 .. m : r.out[p].f = T[at].f
        BY <4>1, <4>2 DEF DrainsTo, m, cut
      <4>4. T[at].f = f
        <5>1. k = at \/ k = at + 1 \/ k = at + 2
          <6>1. k \in Int /\ at \in Int /\ at <= k /\ k <= at + 2
            BY <1>0, <4>1
          <6> QED BY <6>1
        <5> QED BY <3>1, <4>1, <5>1 DEF wholeAt
      <4> QED BY <1>4, <4>3, <4>4
    <3> QED BY <1>1, <3>2, <3>3
  <2> QED BY <2>1, <2>2 DEF TopicOK, o
<1>10. TopicOK(R, all, states, intact)
  BY <1>2, <1>7, <1>8, <1>9 DEF TopicOK, Published
<1> QED BY <1>10 DEF all

LEMMA LineInvInit == LinkInit => LineInv
<1>1. SUFFICES ASSUME LinkInit PROVE LineInv
  OBVIOUS
<1>2. line = << >> /\ Len(line) = 0
  BY <1>1 DEF LinkInit, line
<1>3. sent = << >> /\ topic = << >> /\ clean = {} /\ Len(sent) = 0 /\ Len(topic) = 0
  BY <1>1 DEF LinkInit
<1>4. StreamOK(line, sent, clean)
  BY <1>2, <1>3 DEF StreamOK, InOrder, OnlyWhole, Unbroken, TailOK, TailClean
<1>5. TopicOK(line, topic, sent, clean)
  BY <1>2, <1>3 DEF TopicOK
<1> QED BY <1>1, <1>3, <1>4, <1>5, LinkAssumption DEF LineInv, LinkInit

(* What a frame of which these bytes reach the wire does to the line. *)
LEMMA OutStep ==
    ASSUME LineInv, NEW packet \in SentFrame, NEW bytes \in Seq(Byte), Out(packet, bytes)
    PROVE  \E x \in State :
            /\ packet = encode(x) /\ sent' = Append(sent, x)
            /\ sent' \in Seq(State) /\ Len(sent') <= MaxFrames /\ Len(sent') = Len(sent) + 1
            /\ line' \in Seq([v : Byte, f : 1 .. Len(sent')])
            /\ LineExtends(line', line, bytes, Len(sent) + 1)
            /\ buffer' = buffer /\ wire' \in Seq(OnWire) /\ topic' = topic
<1> DEFINE n == Len(sent)
           X == [v : Byte, f : 1 .. n]
           Y == [v : Byte, f : 1 .. n + 1]
           run == [k \in DOMAIN bytes |-> [v |-> bytes[k], f |-> n + 1]]
<1>1. PICK x \in State : packet = <<kMagic, x, checkByte(x)>> /\ packet = encode(x)
  BY FrameIs
<1>2. n \in Nat /\ n < MaxFrames /\ sent' = Append(sent, x) /\ wire' = wire \o run /\ UNCHANGED <<buffer, topic>>
  BY <1>1 DEF Out, LineInv
<1>3. sent' \in Seq(State) /\ Len(sent') <= MaxFrames /\ Len(sent') = n + 1
  BY <1>2, LinkAssumption DEF LineInv
<1>4. Len(run) = Len(bytes) /\ run \in Seq(Y) /\ \A k \in 1 .. Len(bytes) : run[k] = [v |-> bytes[k], f |-> n + 1]
  <2>1. DOMAIN bytes = 1 .. Len(bytes) /\ Len(bytes) \in Nat
    OBVIOUS
  <2>2. \A k \in 1 .. Len(bytes) : bytes[k] \in Byte
    OBVIOUS
  <2>3. \A k \in DOMAIN bytes : [v |-> bytes[k], f |-> n + 1] \in Y
    BY <1>2, <2>1, <2>2
  <2> HIDE DEF Y
  <2> QED BY <2>1, <2>3
<1>5. Y \subseteq OnWire /\ X \subseteq Y
  <2>1. \A f \in 1 .. n + 1 : f \in 1 .. MaxFrames
    BY <1>2, LinkAssumption
  <2> QED BY <1>2, <2>1 DEF OnWire
<1>6. buffer \in Seq(OnWire) /\ wire \in Seq(OnWire) /\ line \in Seq(X)
  BY DEF LineInv, StreamOK
<1> HIDE DEF run, X, Y
<1>7. run \in Seq(OnWire) /\ wire' \in Seq(OnWire)
  BY <1>2, <1>4, <1>5, <1>6
<1>8. line' = line \o run
  <2>1. buffer \o (wire \o run) = (buffer \o wire) \o run
    BY <1>6, <1>7
  <2> QED BY <1>2, <2>1 DEF line
<1>9. line' \in Seq(Y)
  BY <1>4, <1>5, <1>6, <1>8
<1>10. LineExtends(line', line, bytes, n + 1)
  <2>1. line \in Seq(Y)
    BY <1>5, <1>6
  <2>2. /\ Len(line \o run) = Len(line) + Len(run)
        /\ \A k \in 1 .. Len(line) : (line \o run)[k] = line[k]
        /\ \A k \in 1 .. Len(run) : (line \o run)[Len(line) + k] = run[k]
    BY <1>4, <2>1
  <2> QED BY <1>4, <1>8, <2>2 DEF LineExtends
<1> QED BY <1>1, <1>2, <1>3, <1>7, <1>9, <1>10 DEF Y

LEMMA SendStep ==
    ASSUME LineInv, NEW packet \in SentFrame, Send(packet)
    PROVE  LineInv'
<1>1. packet \in Seq(Byte) /\ Len(packet) = 3
  <2>1. PICK s \in State : packet = <<kMagic, s, checkByte(s)>>
    BY FrameIs
  <2>2. kMagic \in Byte
    BY DEF kMagic, Byte
  <2>3. s \in Byte
    BY CheckFacts
  <2> QED BY <2>1, <2>2, <2>3, CheckType
<1>2. Out(packet, packet) /\ clean' = clean \cup {Len(sent) + 1} /\ faults' = faults
  BY DEF Send
<1>3. PICK x \in State :
            /\ packet = encode(x) /\ sent' = Append(sent, x)
            /\ sent' \in Seq(State) /\ Len(sent') <= MaxFrames /\ Len(sent') = Len(sent) + 1
            /\ line' \in Seq([v : Byte, f : 1 .. Len(sent')])
            /\ LineExtends(line', line, packet, Len(sent) + 1)
            /\ buffer' = buffer /\ wire' \in Seq(OnWire) /\ topic' = topic
  BY <1>1, <1>2, OutStep
<1>4. sent \in Seq(State) /\ clean \in SUBSET (1 .. Len(sent)) /\ StreamOK(line, sent, clean)
      /\ TopicOK(line, topic, sent, clean)
  BY DEF LineInv
<1>5. StreamOK(line', sent', clean')
  BY <1>2, <1>3, <1>4, SendOK
<1>6. TopicOK(line', topic, sent', clean')
  <2>1. Len(packet) \in Nat /\ Len(packet) >= 1
    BY <1>1
  <2>2. clean' = clean \cup {Len(sent) + 1} /\ Len(packet) >= 1
    BY <1>2, <2>1
  <2> QED BY <1>3, <1>4, <2>1, <2>2, TopicAppend
<1>7. clean' \subseteq 1 .. Len(sent')
  <2>1. Len(sent) \in Nat
    BY <1>4
  <2>2. \A f \in clean' : f \in 1 .. Len(sent) \/ f = Len(sent) + 1
    BY <1>2, <1>4
  <2> QED BY <1>3, <2>1, <2>2
<1> QED BY <1>2, <1>3, <1>5, <1>6, <1>7 DEF LineInv

LEMMA FaultStep ==
    ASSUME LineInv, NEW packet \in SentFrame, NEW bytes, Remains(bytes), Out(packet, bytes), Fault
    PROVE  LineInv'
<1>1. bytes \in Seq(Byte) /\ Len(bytes) \in Nat
  BY DEF Remains
<1>2. lastWhole /\ clean' = clean /\ faults' \in 0 .. MaxFaults
  BY LinkAssumption DEF Fault, LineInv
<1>3. PICK x \in State :
            /\ packet = encode(x) /\ sent' = Append(sent, x)
            /\ sent' \in Seq(State) /\ Len(sent') <= MaxFrames /\ Len(sent') = Len(sent) + 1
            /\ line' \in Seq([v : Byte, f : 1 .. Len(sent')])
            /\ LineExtends(line', line, bytes, Len(sent) + 1)
            /\ buffer' = buffer /\ wire' \in Seq(OnWire) /\ topic' = topic
  BY <1>1, OutStep
<1>4. sent \in Seq(State) /\ clean \in SUBSET (1 .. Len(sent)) /\ StreamOK(line, sent, clean)
      /\ TopicOK(line, topic, sent, clean)
  BY DEF LineInv
<1>5. StreamOK(line', sent', clean')
  BY <1>2, <1>3, <1>4, FaultOK DEF lastWhole
<1>6. TopicOK(line', topic, sent', clean')
  BY <1>1, <1>2, <1>3, <1>4, TopicAppend
<1>7. clean' \subseteq 1 .. Len(sent')
  <2>1. Len(sent) \in Nat
    BY <1>4
  <2> QED BY <1>2, <1>3, <1>4, <2>1
<1> QED BY <1>2, <1>3, <1>5, <1>6, <1>7 DEF LineInv

(* Positions before and after a cut. *)
LEMMA CutIndex ==
    ASSUME NEW a \in Nat, NEW b \in Nat, NEW c \in Nat, NEW q \in Nat, NEW j \in 1 .. c + q,
           1 <= a, c = b - a + 1
    PROVE  /\ j + a - 1 \in 1 .. b + q
           /\ j > c => j - c \in 1 .. q /\ c + (j - c) = j /\ b + (j - c) = j + a - 1
<1>1. c + a = b + 1 /\ j \in Nat /\ 1 <= j /\ j <= c + q
  OBVIOUS
<1> QED BY <1>1

LEMMA PollStep ==
    ASSUME LineInv, NEW n \in 1 .. Len(wire), Poll(n)
    PROVE  LineInv'
<1> DEFINE bytes == buffer \o SubSeq(wire, 1, n)
           rest  == SubSeq(wire, n + 1, Len(wire))
           r     == drain(bytes)
           X     == [v : Byte, f : 1 .. Len(sent)]
           m     == Len(bytes)
<1>1. /\ sent \in Seq(State) /\ clean \in SUBSET (1 .. Len(sent)) /\ StreamOK(line, sent, clean)
      /\ TopicOK(line, topic, sent, clean)
      /\ buffer \in Seq(OnWire) /\ wire \in Seq(OnWire) /\ line \in Seq(X)
  BY DEF LineInv, StreamOK
<1>2. /\ wire' = rest /\ buffer' = SubSeq(bytes, r.left, Len(bytes)) /\ topic' = topic \o r.out
      /\ UNCHANGED <<sent, clean, faults>>
  BY DEF Poll
<1>3. /\ bytes \in Seq(OnWire) /\ rest \in Seq(OnWire)
      /\ m = Len(buffer) + n /\ Len(rest) = Len(wire) - n /\ Len(line) = Len(buffer) + Len(wire)
      /\ Len(buffer) \in Nat /\ Len(wire) \in Nat /\ n <= Len(wire)
      /\ \A k \in 1 .. m : line[k] = bytes[k]
      /\ \A k \in 1 .. Len(rest) : line[m + k] = rest[k]
  <2> DEFINE front == SubSeq(wire, 1, n)
  <2>1. Len(buffer) \in Nat /\ Len(wire) \in Nat /\ n <= Len(wire)
    BY <1>1
  <2>2. front \in Seq(OnWire) /\ Len(front) = n /\ \A k \in 1 .. n : front[k] = wire[k]
    BY <1>1, <2>1
  <2>3. rest \in Seq(OnWire) /\ Len(rest) = Len(wire) - n /\ \A k \in 1 .. Len(rest) : rest[k] = wire[n + k]
    BY <1>1, <2>1
  <2> HIDE DEF front, rest
  <2>4. bytes \in Seq(OnWire) /\ m = Len(buffer) + n
    BY <1>1, <2>2 DEF front
  <2>5. /\ Len(line) = Len(buffer) + Len(wire)
        /\ \A k \in 1 .. Len(buffer) : line[k] = buffer[k] /\ bytes[k] = buffer[k]
        /\ \A k \in 1 .. Len(wire) : line[Len(buffer) + k] = wire[k]
        /\ \A k \in 1 .. n : bytes[Len(buffer) + k] = front[k]
    BY <1>1, <2>1, <2>2 DEF line, front
  <2> HIDE DEF bytes, m
  <2>6. ASSUME NEW k \in 1 .. m PROVE line[k] = bytes[k]
    <3>1. CASE k <= Len(buffer)
      BY <2>1, <2>4, <2>5, <3>1
    <3>2. CASE k > Len(buffer)
      <4>1. k - Len(buffer) \in 1 .. n /\ k - Len(buffer) \in 1 .. Len(wire) /\ Len(buffer) + (k - Len(buffer)) = k
        BY <2>1, <2>4, <3>2
      <4> DEFINE h == k - Len(buffer)
      <4>2. line[Len(buffer) + h] = wire[h] /\ bytes[Len(buffer) + h] = front[h] /\ front[h] = wire[h]
        BY <2>2, <2>5, <4>1
      <4> QED BY <4>1, <4>2
    <3> QED BY <2>1, <3>1, <3>2
  <2>7. ASSUME NEW k \in 1 .. Len(rest) PROVE line[m + k] = rest[k]
    <3>1. n + k \in 1 .. Len(wire) /\ m + k = Len(buffer) + (n + k)
      BY <2>1, <2>3, <2>4
    <3> QED BY <2>3, <2>5, <3>1
  <2> QED BY <2>1, <2>3, <2>4, <2>5, <2>6, <2>7
<1> HIDE DEF bytes, rest, r
<1>4. bytes \in Seq(X)
  <2>1. \A k \in 1 .. m : k \in 1 .. Len(line) /\ bytes[k] = line[k]
    BY <1>3
  <2>2. \A k \in 1 .. Len(line) : line[k] \in X
    <3> HIDE DEF X
    <3> QED BY <1>1
  <2> HIDE DEF X
  <2>3. \A k \in 1 .. m : bytes[k] \in X
    BY <2>1, <2>2
  <2> QED BY <1>3, <2>3
<1>5. DrainsTo(line, m, 1, r, sent, clean)
  <2>1. Len(bytes) <= Len(line)
    BY <1>3
  <2> QED BY <1>1, <1>3, <1>4, <2>1, Drained DEF r
<1>6. r.left \in 1 .. m + 1 /\ r.left + 2 > m /\ Cut(line, r.left, sent, clean) /\ m \in Nat
  BY <1>3, <1>5 DEF DrainsTo
<1>7. /\ buffer' \in Seq(OnWire) /\ Len(buffer') = m - r.left + 1
      /\ \A k \in 1 .. m - r.left + 1 : buffer'[k] = bytes[k + r.left - 1]
  <2>1. bytes \in Seq(OnWire) /\ buffer' = SubSeq(bytes, r.left, m)
    BY <1>2, <1>3
  <2>2. ASSUME NEW b \in Seq(OnWire), NEW a \in 1 .. Len(b) + 1
        PROVE  /\ SubSeq(b, a, Len(b)) \in Seq(OnWire)
               /\ Len(SubSeq(b, a, Len(b))) = Len(b) - a + 1
               /\ \A k \in 1 .. Len(b) - a + 1 : SubSeq(b, a, Len(b))[k] = b[k + a - 1]
    OBVIOUS
  <2> QED BY <1>6, <2>1, <2>2
<1> HIDE DEF m
<1>8. /\ Len(line') = Len(line) - r.left + 1
      /\ \A k \in 1 .. Len(line') : line'[k] = line[k + r.left - 1] /\ k + r.left - 1 \in 1 .. Len(line)
  <2>1. /\ Len(line') = Len(buffer') + Len(rest)
        /\ \A k \in 1 .. Len(buffer') : line'[k] = buffer'[k]
        /\ \A k \in 1 .. Len(rest) : line'[Len(buffer') + k] = rest[k]
    <3>1. line' = buffer' \o rest
      BY <1>2 DEF line
    <3>2. ASSUME NEW p \in Seq(OnWire), NEW q \in Seq(OnWire)
          PROVE  /\ Len(p \o q) = Len(p) + Len(q)
                 /\ \A k \in 1 .. Len(p) : (p \o q)[k] = p[k]
                 /\ \A k \in 1 .. Len(q) : (p \o q)[Len(p) + k] = q[k]
      OBVIOUS
    <3> QED BY <1>3, <1>7, <3>1, <3>2
  <2>2. Len(line) = m + Len(rest) /\ Len(rest) \in Nat
    BY <1>3
  <2>5. r.left \in Int /\ r.left >= 1 /\ r.left <= m + 1 /\ m \in Nat /\ Len(buffer') = m - r.left + 1
    BY <1>6, <1>7
  <2>6. Len(line') = Len(buffer') + Len(rest)
    BY <2>1
  <2>3. ASSUME NEW k \in 1 .. Len(line')
        PROVE  line'[k] = line[k + r.left - 1] /\ k + r.left - 1 \in 1 .. Len(line)
    <3>5. r.left \in Nat /\ Len(buffer') \in Nat /\ k \in 1 .. Len(buffer') + Len(rest)
      BY <1>7, <2>2, <2>5, <2>6
    <3>6. /\ k + r.left - 1 \in 1 .. m + Len(rest)
          /\ k > Len(buffer') =>
                /\ k - Len(buffer') \in 1 .. Len(rest) /\ Len(buffer') + (k - Len(buffer')) = k
                /\ m + (k - Len(buffer')) = k + r.left - 1
      <4> DEFINE a == r.left
                 c == Len(buffer')
                 q == Len(rest)
      <4>1. /\ a \in Nat /\ m \in Nat /\ c \in Nat /\ q \in Nat /\ k \in 1 .. c + q
            /\ 1 <= a /\ c = m - a + 1
        BY <2>2, <2>5, <3>5
      <4> HIDE DEF a, c, q
      <4>2. /\ k + a - 1 \in 1 .. m + q
            /\ k > c => k - c \in 1 .. q /\ c + (k - c) = k /\ m + (k - c) = k + a - 1
        BY <4>1, CutIndex
      <4> QED BY <4>2 DEF a, c, q
    <3>7. k + r.left - 1 \in 1 .. Len(line)
      BY <2>2, <3>6
    <3>1. CASE k <= Len(buffer')
      <4>1. k \in 1 .. m - r.left + 1 /\ k + r.left - 1 \in 1 .. m /\ k \in 1 .. Len(buffer')
        BY <2>5, <3>1
      <4>2. line'[k] = bytes[k + r.left - 1]
        BY <1>7, <2>1, <4>1
      <4> QED BY <1>3, <3>7, <4>1, <4>2
    <3>2. CASE k > Len(buffer')
      <4> DEFINE h == k - Len(buffer')
      <4>1. h \in 1 .. Len(rest) /\ Len(buffer') + h = k /\ m + h = k + r.left - 1
        BY <3>2, <3>6
      <4>2. line'[k] = rest[h]
        BY <2>1, <4>1
      <4>4. line[m + h] = rest[h]
        BY <1>3, <4>1
      <4> QED BY <3>7, <4>1, <4>2, <4>4
    <3>3. k \in Int /\ Len(buffer') \in Int
      BY <1>6, <1>7
    <3> QED BY <3>1, <3>2, <3>3
  <2>4. Len(line') = Len(line) - r.left + 1
    <3>1. Len(rest) \in Int
      BY <2>2
    <3> QED BY <2>2, <2>5, <2>6, <3>1
  <2> QED BY <2>3, <2>4
<1>9. line' \in Seq(X)
  <2>1. line' \in Seq(OnWire)
    BY <1>2, <1>3, <1>7 DEF line
  <2>2. \A k \in 1 .. Len(line) : line[k] \in X
    <3> HIDE DEF X
    <3> QED BY <1>1
  <2> HIDE DEF X
  <2>3. \A k \in 1 .. Len(line') : line'[k] \in X
    BY <1>8, <2>2
  <2> QED BY <2>1, <2>3
<1>10. StreamOK(line', sent, clean)
  <2>1. r.left \in 1 .. Len(line) + 1 /\ Len(sent) \in Nat
    <3>1. m <= Len(line) /\ Len(line) \in Nat
      BY <1>3
    <3>2. Len(sent) \in Nat
      BY <1>1
    <3> QED BY <1>6, <3>1, <3>2
  <2>2. Rest(line', line, r.left)
    BY <1>8 DEF Rest
  <2> QED BY <1>1, <1>6, <1>9, <2>1, <2>2, SuffixOK
<1>11. TopicOK(line', topic \o r.out, sent, clean)
  <2>1. m <= Len(line)
    BY <1>3
  <2>2. Rest(line', line, r.left)
    BY <1>8 DEF Rest
  <2> QED BY <1>1, <1>5, <1>6, <2>1, <2>2, TopicPoll
<1>12. Len(buffer') < 3
  BY <1>6, <1>7
<1> QED BY <1>2, <1>3, <1>7, <1>10, <1>11, <1>12 DEF LineInv

LEMMA LineInvStep == LineInv /\ [LinkNext]_linkVars => LineInv'
<1>1. SUFFICES ASSUME LineInv, [LinkNext]_linkVars PROVE LineInv'
  OBVIOUS
<1>2. CASE UNCHANGED linkVars
  BY <1>1, <1>2 DEF linkVars, LineInv, line
<1>3. ASSUME NEW packet \in SentFrame, Send(packet) PROVE LineInv'
  BY <1>1, <1>3, SendStep
<1>4. ASSUME NEW packet \in SentFrame, NEW k \in 0 .. 2, WriteFails(packet, k) PROVE LineInv'
  BY <1>1, <1>4, FaultRemains, FaultStep DEF WriteFails
<1>5. ASSUME NEW packet \in SentFrame, NEW k \in 1 .. 3, Lose(packet, k) PROVE LineInv'
  BY <1>1, <1>5, FaultRemains, FaultStep DEF Lose
<1>6. ASSUME NEW packet \in SentFrame, NEW k \in 1 .. 3, NEW v \in Noise, Damage(packet, k, v) PROVE LineInv'
  BY <1>1, <1>6, FaultRemains, FaultStep, LinkAssumption DEF Damage
<1>7. ASSUME NEW n \in 1 .. Len(wire), Poll(n) PROVE LineInv'
  BY <1>1, <1>7, PollStep
<1> QED BY <1>1, <1>2, <1>3, <1>4, <1>5, <1>6, <1>7 DEF LinkNext

LEMMA LineInvFaithful == LineInv => LineIsFaithful
<1>1. SUFFICES ASSUME LineInv PROVE LineIsFaithful
  OBVIOUS
<1>2. topic \in Seq(Published(sent)) /\ Len(sent) \in Nat /\ Len(sent) <= MaxFrames
  BY <1>1 DEF LineInv, TopicOK, Published
<1>3. LinkTypeOK
  <2>1. Published(sent) \subseteq [state : State, f : 1 .. MaxFrames]
    BY <1>2, LinkAssumption DEF Published
  <2>2. topic \in Seq([state : State, f : 1 .. MaxFrames])
    <3> DEFINE Z == [state : State, f : 1 .. MaxFrames]
    <3> HIDE DEF Z
    <3>1. Published(sent) \subseteq Z
      BY <2>1 DEF Z
    <3>2. topic \in Seq(Z)
      BY <1>2, <3>1
    <3> QED BY <3>2 DEF Z
  <2> QED BY <1>1, <2>2 DEF LinkTypeOK, LineInv
<1>4. DOMAIN topic = 1 .. Len(topic) /\ Len(topic) \in Nat
  BY <1>2
<1>5. NothingInvented
  BY <1>1, <1>4 DEF NothingInvented, LineInv, TopicOK
<1>6. \A p, q \in DOMAIN topic : p < q => topic[p].f < topic[q].f
  BY <1>1, <1>4 DEF LineInv, TopicOK
<1>7. ASSUME NEW f \in clean,
             \A k \in DOMAIN wire : wire[k].f # f, \A k \in DOMAIN buffer : buffer[k].f # f
      PROVE  \E p \in DOMAIN topic : topic[p] = [state |-> sent[f], f |-> f]
  <2>1. ~(\E k \in 1 .. Len(line) : line[k].f = f)
    <3>1. SUFFICES ASSUME NEW k \in 1 .. Len(line), line[k].f = f PROVE FALSE
      OBVIOUS
    <3>2. buffer \in Seq(OnWire) /\ wire \in Seq(OnWire)
      BY <1>1 DEF LineInv
    <3>3. \/ k \in DOMAIN buffer /\ line[k] = buffer[k]
          \/ k - Len(buffer) \in DOMAIN wire /\ line[k] = wire[k - Len(buffer)]
      BY <3>2 DEF line
    <3> QED BY <1>7, <3>1, <3>3
  <2>2. PICK p \in 1 .. Len(topic) : topic[p].f = f
    BY <1>1, <2>1 DEF LineInv, TopicOK
  <2>3. topic[p].state = sent[f]
    BY <1>1, <2>2 DEF LineInv, TopicOK
  <2>4. topic[p] \in Published(sent)
    BY <1>2
  <2>5. topic[p] = [state |-> sent[f], f |-> f]
    BY <2>2, <2>3, <2>4 DEF Published
  <2> QED BY <1>4, <2>5
<1> QED BY <1>3, <1>5, <1>6, <1>7 DEF LineIsFaithful, CleanFramesArrive

(* The receiver node publishes every frame that went out whole, once, in   *)
(* order and with its state, and nothing that was not sent, whatever is    *)
(* lost or damaged of frames that do not follow each other.                *)
THEOREM LineCorrect == LinkSpec => []LineIsFaithful
<1>1. LinkSpec => []LineInv
  BY LineInvInit, LineInvStep, PTL DEF LinkSpec
<1> QED BY <1>1, LineInvFaithful, PTL
=============================================================================
