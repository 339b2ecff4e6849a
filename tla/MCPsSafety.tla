----------------------------- MODULE MCPsSafety -----------------------------
(***************************************************************************)
(* The safety path with a close box and the heartbeat of an empty frame    *)
(* (objectness 0), in pixels of the 640 x 360 camera.  Thresholds are the  *)
(* defaults of JudgeConfig in 1/28800 of the frame, scores in percent;     *)
(* times are a few units of the clock.                                     *)
(*                                                                         *)
(* scene is what the camera sees: a car, with classifications that fail,   *)
(* or a person, a sign and background.                                     *)
(***************************************************************************)
EXTENDS PsSafety

Box(objectness, x, y, width, height) ==
    [objectness |-> objectness, x |-> x, y |-> y, width |-> width, height |-> height]

MCBoxes == {Box(90, 256, 108, 128, 180), Box(0, 0, 0, 32, 32)}

Ok(c)  == [ok |-> TRUE,  class_id |-> c]
Failed == [ok |-> FALSE, class_id |-> background]

Scene ==
    [hazards |-> {Ok(car), Failed},
     signs   |-> {Ok(person), Ok(3), Ok(background)}]

MCResults == UNION {Scene[s] : s \in DOMAIN Scene}

VARIABLE scene

MCInit == Init /\ scene \in DOMAIN Scene

(* The scene with signs ends before LastInput. *)
MCNext ==
    /\ Next
    /\ UNCHANGED scene
    /\ pc = "classify" /\ pc' = "send" => \E result \in Scene[scene] : Classify(result)
    /\ scene = "signs" => now' < LastInput

MCSpec == MCInit /\ [][MCNext]_<<vars, scene>>
=============================================================================
