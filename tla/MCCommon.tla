------------------------------ MODULE MCCommon ------------------------------
(***************************************************************************)
(* The parts of common/, each checked by itself: part says which of them   *)
(* runs in a behaviour, and the others stay as they start.                 *)
(*                                                                         *)
(* The loop of judgeWorst sees every frame of up to MaxItems detections    *)
(* drawn from one detection per case the judgement tells apart (boxes in   *)
(* percent of the frame, the thresholds of the cfg are the defaults of     *)
(* JudgeConfig).  The latch sees frames that make every case of update()   *)
(* happen; its times are a few units of the clock.  The debounce is called *)
(* often enough for a candidate to be given up and taken up again and for  *)
(* two releases.  A copy of the shared message may fall anywhere around    *)
(* the second of two messages of up to two records.                        *)
(***************************************************************************)
EXTENDS JudgeLoop, LatchMachine, SafetyDebounce, SafetyMessage

Det(c, score, x1, y1, x2, y2) ==
    [class_id |-> c, score |-> score, x1 |-> x1, y1 |-> y1, x2 |-> x2, y2 |-> y2]

MCDetections ==
    { Det(person, 90, 40, 30, 60, 80),      \* in the path and close: Stop
      Det(car,    90, 30, 40, 70, 85),      \* exactly stop_height: Stop
      Det(car,    90, 40, 50, 60, 80),      \* in the path, further away: Slow
      Det(person, 90, 75, 30, 95, 80),      \* close but beside the path: Clear
      Det(3,      90, 85, 10, 97, 20),      \* sign at the edge, wide enough: Slow
      Det(person, 20, 40, 30, 60, 80),      \* score too low: Clear
      Det(background, 90, 40, 30, 60, 80) } \* not an object: Clear

Near(c) == Det(c, 90, 40, 30, 60, 80)
Far(c)  == Det(c, 90, 40, 50, 60, 80)

MCFrames ==
    { << >>, <<Near(person)>>, <<Near(car)>>, <<Near(person), Near(car)>>,
      <<Far(person)>>, <<Far(3)>> }

VARIABLE part       \* the part that runs
all == <<part, loopVars, latchVars, debounceVars, messageVars>>

NoCall ==
    /\ items = << >> /\ exclude_class = NoClass /\ i = 1
    /\ worst = Clear /\ out_class = NoClass /\ returned = FALSE

MCInit ==
    /\ part \in {"judgement", "latch", "debounce", "message"}
    /\ IF part = "judgement" THEN LoopInit ELSE NoCall
    /\ LatchInit /\ DebounceInit /\ MessageInit

MCNext ==
    /\ UNCHANGED part
    /\ \/ /\ part = "judgement" /\ LoopNext
          /\ UNCHANGED <<latchVars, debounceVars, messageVars>>
       \/ /\ part = "latch" /\ LatchNext
          /\ UNCHANGED <<loopVars, debounceVars, messageVars>>
       \/ /\ part = "debounce" /\ DebounceNext
          /\ UNCHANGED <<loopVars, latchVars, messageVars>>
       \/ /\ part = "message" /\ MessageNext
          /\ UNCHANGED <<loopVars, latchVars, debounceVars>>

MCSpec == MCInit /\ [][MCNext]_all
=============================================================================
