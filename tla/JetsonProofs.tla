---------------------------- MODULE JetsonProofs ----------------------------
(***************************************************************************)
(* The Jetson.  Its main loop: the PS judges only whole frames, for every  *)
(* number of proposals and every failure of the link, and if the longest   *)
(* frame fits the PS's timeout, its decision never grows too old.  Its     *)
(* camera: a buffer is with the driver or with the thread, never with      *)
(* both, so the memory of the camera is handled safely.  Its proposals: no *)
(* object is lost on the way from the network to the crops, and each crop  *)
(* shows its whole box.                                                    *)
(***************************************************************************)
EXTENDS JetsonLoop, FrameSource, RoiProposal, FiniteSetTheorems, TLAPS

(* The longest time between two judgements while nothing fails: all round  *)
(* trips of the frame that brought the last one, frames without a request  *)
(* until just before the heartbeat is due, and one more capture.           *)
roundTrips(n) == n * MaxRtt

LoopFitsTimeout ==
    roundTrips(MaxRois) + (heartbeat_interval_ms - 1) + MaxCapture < decision_timeout_ms

LoopTypeOK ==
    /\ pc \in {"frame", "rois", "exit"}
    /\ connection \in {"none", "live", "dead"}
    /\ frame_id \in 0 .. FrameIdSpan - 1 /\ current_frame_id \in 0 .. FrameIdSpan - 1
    /\ candidates \in 0 .. MaxRois /\ tried \in 0 .. candidates
    /\ request_age \in 0 .. MaxAge /\ judged_age \in 0 .. MaxAge
    /\ received \in Nat /\ expected \in Nat

(* Frames since the one the PS holds. *)
gap == IF frame_id >= current_frame_id
       THEN frame_id - current_frame_id
       ELSE frame_id - current_frame_id + FrameIdSpan

(* The PS holds a frame only over a live connection: all of an earlier one *)
(* of which the number is still another, or what was sent of this one.     *)
SessionInv ==
    /\ have_current_frame => connection = "live"
    /\ pc = "rois" /\ tried = 0 /\ candidates = 0 => request_age < heartbeat_interval_ms
    /\ have_current_frame /\ (pc = "rois" => tried = 0) =>
          /\ received = expected
          /\ gap \in 1 .. heartbeat_interval_ms
          /\ pc # "rois" => gap <= request_age + 1
          /\ pc = "rois" /\ candidates = 0 => gap <= request_age
    /\ pc = "rois" /\ tried > 0 /\ connection = "live" =>
          /\ have_current_frame /\ current_frame_id = frame_id
          /\ received = tried /\ expected = candidates
    /\ ~part_judged

AgeInv ==
    calm =>
        /\ have_current_frame /\ connection = "live" /\ pc # "exit"
        /\ pc = "rois" /\ tried > 0 => judged_age <= roundTrips(tried)
        /\ pc = "rois" /\ tried = 0 =>
              /\ judged_age <= request_age + roundTrips(MaxRois)
              /\ request_age <= heartbeat_interval_ms - 1 + MaxCapture
        /\ pc = "frame" =>
              /\ judged_age <= request_age + roundTrips(MaxRois)
              /\ request_age <= heartbeat_interval_ms - 1

LoopInv == LoopTypeOK /\ SessionInv /\ AgeInv

-----------------------------------------------------------------------------
(* Operators of the loop *)
LEMMA LoopConstants ==
    /\ heartbeat_interval_ms \in Nat /\ heartbeat_interval_ms > 0
    /\ decision_timeout_ms \in Nat
    /\ MaxCapture \in Nat /\ MaxRtt \in Nat /\ capture_timeout \in Nat
    /\ MaxRois \in Nat /\ MaxRois > 0
    /\ MaxAge \in Nat /\ MaxAge > heartbeat_interval_ms
    /\ MaxAge > decision_timeout_ms
    /\ FrameIdSpan \in Nat /\ FrameIdSpan > heartbeat_interval_ms + 1
  BY LoopAssumption

LEMMA OlderIs ==
    ASSUME NEW age \in Nat, NEW d \in Nat
    PROVE  /\ older(age, d) \in 0 .. MaxAge
           /\ older(age, d) = IF age + d <= MaxAge THEN age + d ELSE MaxAge
<1> DEFINE S == {age + d, MaxAge}
           m == IF age + d <= MaxAge THEN age + d ELSE MaxAge
<1>1. m \in S /\ (\A y \in S : m <= y) /\ m \in 0 .. MaxAge
  BY LoopConstants
<1>2. \A x \in S : (\A y \in S : x <= y) => x = m
  BY LoopConstants
<1>3. Min(S) \in S /\ \A y \in S : Min(S) <= y
  <2> HIDE DEF m, S
  <2> QED BY <1>1 DEF Min
<1>4. Min(S) = m
  BY <1>2, <1>3
<1> QED BY <1>1, <1>4 DEF older

LEMMA RoundTripsGrow ==
    /\ \A n \in Nat : roundTrips(n) \in Nat /\ roundTrips(n + 1) = roundTrips(n) + MaxRtt
    /\ \A n, k \in Nat : n <= k => roundTrips(n) <= roundTrips(k)
    /\ roundTrips(1) = MaxRtt
<1>1. MaxRtt \in Nat
  BY LoopConstants
<1>2. ASSUME NEW n \in Nat
      PROVE  n * MaxRtt \in Nat /\ (n + 1) * MaxRtt = n * MaxRtt + MaxRtt
  BY <1>1
<1>3. ASSUME NEW n \in Nat, NEW k \in Nat, n <= k PROVE n * MaxRtt <= k * MaxRtt
  BY <1>1, <1>3
<1>4. 1 * MaxRtt = MaxRtt
  BY <1>1
<1> QED BY <1>2, <1>3, <1>4 DEF roundTrips

LEMMA NextIdIs ==
    ASSUME frame_id \in 0 .. FrameIdSpan - 1
    PROVE  nextFrameId = IF frame_id = FrameIdSpan - 1 THEN 0 ELSE frame_id + 1
<1>1. FrameIdSpan \in Nat /\ FrameIdSpan > 0
  BY LoopConstants
<1>2. CASE frame_id = FrameIdSpan - 1
  <2>1. frame_id + 1 = FrameIdSpan /\ FrameIdSpan % FrameIdSpan = 0
    BY <1>1, <1>2
  <2> QED BY <1>2, <2>1 DEF nextFrameId
<1>3. CASE frame_id # FrameIdSpan - 1
  <2> DEFINE n == frame_id + 1
  <2>1. n \in Nat /\ n < FrameIdSpan
    BY <1>1, <1>3
  <2> HIDE DEF n
  <2>2. n % FrameIdSpan = n
    BY <1>1, <2>1
  <2> QED BY <1>3, <2>2 DEF nextFrameId, n
<1> QED BY <1>2, <1>3

-----------------------------------------------------------------------------
(* The steps of the loop *)
LEMMA LoopInitInv == ClientInit => LoopInv
<1> SUFFICES ASSUME ClientInit PROVE LoopInv
  OBVIOUS
<1>1. LoopTypeOK
  BY LoopConstants DEF ClientInit, LoopTypeOK
<1>2. SessionInv /\ AgeInv
  BY DEF ClientInit, SessionInv, AgeInv
<1> QED BY <1>1, <1>2 DEF LoopInv

LEMMA TakeFrameInv ==
    ASSUME LoopInv, NEW d \in 1 .. MaxCapture, NEW n \in 0 .. MaxRois, TakeFrame(d, n)
    PROVE  LoopInv'
<1> USE LoopConstants DEF LoopInv
<1>1. /\ pc = "frame" /\ pc' = "rois" /\ tried' = 0
      /\ UNCHANGED <<connection, frame_id, current_frame_id, received, expected,
                     have_current_frame, part_judged, calm>>
      /\ candidates' = IF n = 0 /\ request_age' >= heartbeat_interval_ms THEN 1 ELSE n
  BY DEF TakeFrame, psVars, heartbeat_frame
<1>2. request_age \in Nat /\ judged_age \in Nat /\ d \in Nat
  BY DEF LoopTypeOK
<1>3. /\ request_age' \in 0 .. MaxAge /\ judged_age' \in 0 .. MaxAge
      /\ request_age' = IF request_age + d <= MaxAge THEN request_age + d ELSE MaxAge
      /\ judged_age' = IF judged_age + d <= MaxAge THEN judged_age + d ELSE MaxAge
  BY <1>2, OlderIs DEF TakeFrame, elapse
<1>4. candidates' \in 0 .. MaxRois
      /\ (candidates' = 0 => request_age' < heartbeat_interval_ms)
  BY <1>1, <1>3
<1>5. LoopTypeOK'
  BY <1>1, <1>3, <1>4 DEF LoopTypeOK
<1>6. SessionInv'
  <2>1. gap' = gap /\ gap \in Int
    BY <1>1 DEF gap, LoopTypeOK
  <2>2. ASSUME have_current_frame, candidates' = 0
        PROVE  gap <= request_age'
    <3>1. gap <= request_age + 1
      BY <1>1, <2>2 DEF SessionInv
    <3> HIDE DEF gap
    <3> QED BY <1>2, <1>3, <1>4, <2>1, <2>2, <3>1
  <2> HIDE DEF gap
  <2> QED BY <1>1, <1>4, <2>1, <2>2 DEF SessionInv
<1>7. AgeInv'
  <2> DEFINE R == roundTrips(MaxRois)
  <2>1. R \in Nat
    BY RoundTripsGrow
  <2>2. ASSUME calm
        PROVE  /\ judged_age' <= request_age' + R
               /\ request_age' <= heartbeat_interval_ms - 1 + MaxCapture
    <3>1. judged_age <= request_age + R /\ request_age <= heartbeat_interval_ms - 1
      BY <1>1, <2>2 DEF AgeInv
    <3> HIDE DEF R
    <3> QED BY <1>2, <1>3, <2>1, <3>1
  <2> QED BY <1>1, <2>2 DEF AgeInv
<1> QED BY <1>5, <1>6, <1>7

(* The first request of a frame makes the PS judge the one before, and the *)
(* others only add to it.                                                  *)
LEMMA ClassifyInv ==
    ASSUME LoopInv, NEW d \in 0 .. MaxRtt, Classify(d)
    PROVE  LoopInv'
<1> USE LoopConstants DEF LoopInv
<1>1. /\ pc = "rois" /\ tried < candidates /\ connection = "live"
      /\ have_current_frame' = TRUE /\ current_frame_id' = frame_id
      /\ expected' = candidates /\ tried' = tried + 1
      /\ UNCHANGED <<pc, frame_id, candidates, connection>>
  BY DEF Classify, psReceives
<1>2. /\ request_age \in Nat /\ judged_age \in Nat /\ d \in Nat /\ tried \in Nat
      /\ candidates \in Nat /\ candidates <= MaxRois
  BY DEF LoopTypeOK
<1>3. request_age' \in 0 .. MaxAge /\ judged_age' \in 0 .. MaxAge
  BY <1>2, OlderIs DEF Classify, psReceives
<1>4. CASE tried = 0
  <2>1. have_current_frame => frame_id # current_frame_id /\ received = expected
    BY <1>1, <1>4 DEF SessionInv, gap, LoopTypeOK
  <2>2. /\ received' = 1 /\ ~part_judged'
        /\ calm' => calm \/ have_current_frame
        /\ have_current_frame => judged_age' = older(0, d)
    BY <2>1 DEF Classify, psReceives, SessionInv
  <2>3. LoopTypeOK'
    BY <1>1, <1>2, <1>3, <2>2 DEF LoopTypeOK
  <2>4. SessionInv'
    BY <1>1, <1>4, <2>2 DEF SessionInv
  <2>5. AgeInv'
    <3>1. calm' => have_current_frame
      BY <2>2 DEF AgeInv
    <3>2. older(0, d) <= d
      <4>1. older(0, d) = IF 0 + d <= MaxAge THEN 0 + d ELSE MaxAge
        BY <1>2, OlderIs
      <4> QED BY <1>2, <4>1
    <3>3. roundTrips(tried') = MaxRtt
      BY <1>1, <1>4, RoundTripsGrow
    <3>4. calm' => judged_age' <= roundTrips(tried')
      <4>1. ASSUME calm' PROVE judged_age' <= MaxRtt
        <5>1. judged_age' = older(0, d)
          BY <2>2, <3>1, <4>1
        <5>2. d <= MaxRtt
          OBVIOUS
        <5> QED BY <1>2, <1>3, <3>2, <5>1, <5>2
      <4> QED BY <3>3, <4>1
    <3> QED BY <1>1, <1>4, <3>4 DEF AgeInv
  <2> QED BY <2>3, <2>4, <2>5
<1>5. CASE tried > 0
  <2>1. /\ have_current_frame /\ current_frame_id = frame_id /\ received = tried
        /\ ~part_judged
    BY <1>1, <1>5 DEF SessionInv
  <2>2. /\ received' = tried + 1 /\ ~part_judged' /\ (calm' => calm)
        /\ judged_age' = older(judged_age, d)
    BY <2>1 DEF Classify, psReceives
  <2>3. LoopTypeOK'
    BY <1>1, <1>2, <1>3, <2>2 DEF LoopTypeOK
  <2>4. SessionInv'
    BY <1>1, <1>2, <1>5, <2>1, <2>2 DEF SessionInv
  <2>5. AgeInv'
    <3>1. calm => judged_age <= roundTrips(tried)
      BY <1>1, <1>5 DEF AgeInv
    <3>2. judged_age' <= judged_age + d
      <4>1. judged_age' = IF judged_age + d <= MaxAge THEN judged_age + d ELSE MaxAge
        BY <1>2, <2>2, OlderIs
      <4> QED BY <1>2, <4>1
    <3>3. roundTrips(tried) \in Nat /\ roundTrips(tried') = roundTrips(tried) + MaxRtt
      BY <1>1, <1>2, RoundTripsGrow
    <3>4. calm' => judged_age' <= roundTrips(tried')
      BY <1>2, <1>3, <2>2, <3>1, <3>2, <3>3
    <3> QED BY <1>1, <1>2, <2>2, <3>4 DEF AgeInv
  <2> QED BY <2>3, <2>4, <2>5
<1> QED BY <1>2, <1>4, <1>5

LEMMA EndFrameInv == LoopInv /\ EndFrame => LoopInv'
<1> SUFFICES ASSUME LoopInv, EndFrame PROVE LoopInv'
  OBVIOUS
<1> USE LoopConstants DEF LoopInv
<1>1. /\ pc = "rois" /\ tried = candidates /\ pc' = "frame"
      /\ candidates' = 0 /\ tried' = 0
      /\ request_age' = IF candidates # 0 THEN 0 ELSE request_age
      /\ connection' = IF connection = "none" /\ link THEN "live" ELSE connection
      /\ UNCHANGED <<current_frame_id, received, expected, have_current_frame,
                     part_judged, judged_age, calm>>
  BY DEF EndFrame, reconnected, psVars
<1>2. frame_id' = IF frame_id = FrameIdSpan - 1 THEN 0 ELSE frame_id + 1
  BY NextIdIs DEF EndFrame, LoopTypeOK
<1>3. LoopTypeOK'
  BY <1>1, <1>2 DEF LoopTypeOK
<1>4. SessionInv'
  <2>1. CASE candidates = 0
    <3>1. have_current_frame =>
              gap' = gap + 1 /\ gap \in Nat /\ gap <= request_age
              /\ gap \in 1 .. heartbeat_interval_ms
              /\ request_age < heartbeat_interval_ms /\ received = expected
      BY <1>1, <1>2, <2>1 DEF SessionInv, LoopTypeOK, gap
    <3> QED BY <1>1, <2>1, <3>1 DEF SessionInv, LoopTypeOK
  <2>2. CASE candidates # 0
    <3>1. have_current_frame =>
              /\ current_frame_id = frame_id /\ received = expected
              /\ connection = "live"
      BY <1>1, <2>2 DEF SessionInv, LoopTypeOK
    <3>2. have_current_frame => gap' = 1
      BY <1>1, <1>2, <3>1 DEF LoopTypeOK, gap
    <3> QED BY <1>1, <2>2, <3>1, <3>2 DEF SessionInv
  <2> QED BY <2>1, <2>2
<1>5. AgeInv'
  <2>1. CASE candidates = 0
    BY <1>1, <2>1 DEF AgeInv, SessionInv, LoopTypeOK
  <2>2. CASE candidates # 0
    <3>1. calm => judged_age <= roundTrips(MaxRois)
      <4>1. candidates \in Nat /\ candidates <= MaxRois /\ judged_age \in Nat
        BY DEF LoopTypeOK
      <4>2. /\ roundTrips(candidates) <= roundTrips(MaxRois)
            /\ roundTrips(candidates) \in Nat /\ roundTrips(MaxRois) \in Nat
        BY <4>1, RoundTripsGrow
      <4> QED BY <1>1, <2>2, <4>1, <4>2 DEF AgeInv
    <3>2. roundTrips(MaxRois) \in Nat
      BY RoundTripsGrow
    <3> QED BY <1>1, <2>2, <3>1, <3>2 DEF AgeInv
  <2> QED BY <2>1, <2>2
<1> QED BY <1>3, <1>4, <1>5

LEMMA NoFrameInv == LoopInv /\ NoFrameCame => LoopInv'
<1> SUFFICES ASSUME LoopInv, NoFrameCame PROVE LoopInv'
  OBVIOUS
<1> USE DEF LoopInv
<1>1. /\ pc = "frame" /\ ~calm'
      /\ UNCHANGED <<pc, connection, frame_id, current_frame_id, candidates, tried,
                     received, expected, have_current_frame, part_judged>>
  BY DEF NoFrameCame, loopVars, psVars
<1>2. request_age \in Nat /\ judged_age \in Nat /\ request_age <= MaxAge
  BY LoopConstants DEF LoopTypeOK
<1>3. /\ request_age' \in 0 .. MaxAge /\ judged_age' \in 0 .. MaxAge
      /\ request_age' >= request_age
  <2> DEFINE t == request_age + capture_timeout
  <2>1. /\ request_age' \in 0 .. MaxAge /\ judged_age' \in 0 .. MaxAge
        /\ request_age' = IF t <= MaxAge THEN t ELSE MaxAge
    BY <1>2, LoopConstants, OlderIs DEF NoFrameCame, elapse
  <2> QED BY <1>2, <2>1, LoopConstants
<1>4. gap' = gap /\ gap \in Int
  BY <1>1, LoopConstants DEF gap, LoopTypeOK
<1>5. LoopTypeOK' /\ AgeInv'
  BY <1>1, <1>3 DEF LoopTypeOK, AgeInv
<1>6. SessionInv'
  <2>1. have_current_frame => gap <= request_age + 1
    BY <1>1 DEF SessionInv
  <2>2. have_current_frame => gap <= request_age' + 1
    <3>1. \A g \in Int, a, b \in Nat : g <= a + 1 /\ a <= b => g <= b + 1
      OBVIOUS
    <3>2. request_age' \in Nat /\ request_age <= request_age'
      BY <1>2, <1>3, LoopConstants
    <3> QED BY <1>2, <1>4, <2>1, <3>1, <3>2
  <2> QED BY <1>1, <1>4, <2>2 DEF SessionInv
<1> QED BY <1>5, <1>6

(* A wait in vain, a failure of the link and the end of the program take   *)
(* away the calm, and those that end the connection also the session.      *)
LEMMA FailureInv ==
    ASSUME LoopInv,
           \/ NoFrameCame
           \/ \E failed \in BOOLEAN : Leave(failed)
           \/ \E d \in 0 .. MaxRtt : ClassifyFails(d)
           \/ ClassifySkipped
           \/ LinkLost
    PROVE  LoopInv'
<1> USE LoopConstants DEF LoopInv
<1>1. request_age \in Nat /\ judged_age \in Nat
  BY DEF LoopTypeOK
<1>2. CASE NoFrameCame
  BY <1>2, NoFrameInv
<1>3. ASSUME NEW failed \in BOOLEAN, Leave(failed) PROVE LoopInv'
  BY <1>3 DEF Leave, psForgets, LoopTypeOK, SessionInv, AgeInv
<1>4. ASSUME NEW d \in 0 .. MaxRtt, ClassifyFails(d) PROVE LoopInv'
  <2>1. /\ pc = "rois" /\ tried < candidates /\ connection = "dead"
        /\ connection' = "none" /\ tried' = tried + 1
        /\ UNCHANGED <<pc, frame_id, current_frame_id, candidates, received, expected,
                       have_current_frame, part_judged, calm>>
    BY <1>4 DEF ClassifyFails, afterFailure, psVars
  <2>2. request_age' \in 0 .. MaxAge /\ judged_age' \in 0 .. MaxAge
    BY <1>1, <1>4, OlderIs DEF ClassifyFails, elapse
  <2> QED BY <2>1, <2>2 DEF LoopTypeOK, SessionInv, AgeInv
<1>5. CASE ClassifySkipped
  BY <1>5 DEF ClassifySkipped, psVars, LoopTypeOK, SessionInv, AgeInv
<1>6. CASE LinkLost
  BY <1>6 DEF LinkLost, psForgets, loopVars, LoopTypeOK, SessionInv, AgeInv
<1> QED BY <1>2, <1>3, <1>4, <1>5, <1>6

LEMMA LoopInvariant == ClientSpec => []LoopInv
<1>1. ASSUME LoopInv, [ClientNext]_clientVars PROVE LoopInv'
  <2>1. CASE Loop
    BY <1>1, <2>1, TakeFrameInv, ClassifyInv, EndFrameInv, FailureInv DEF Loop
  <2>2. CASE LinkLost
    BY <1>1, <2>2, FailureInv
  <2>3. CASE SignalLoop \/ LinkBack \/ Exited \/ UNCHANGED clientVars
    <3>1. UNCHANGED <<pc, connection, frame_id, current_frame_id, candidates, tried,
                      received, expected, have_current_frame, part_judged, calm,
                      request_age, judged_age>>
      BY <2>3 DEF SignalLoop, LinkBack, Exited, clientVars, loopVars, psVars
    <3> QED BY <1>1, <3>1 DEF LoopInv, LoopTypeOK, SessionInv, AgeInv, gap
  <2> QED BY <1>1, <2>1, <2>2, <2>3 DEF ClientNext
<1> QED BY LoopInitInv, <1>1, PTL DEF ClientSpec

(* The PS never judges a frame of which a request is missing, for any      *)
(* number of proposals per frame and any failures of the link.             *)
THEOREM LoopJudgesWholeFrames == ClientSpec => []WholeFramesJudged
<1>1. LoopInv => WholeFramesJudged
  BY DEF LoopInv, SessionInv, WholeFramesJudged
<1> QED BY <1>1, LoopInvariant, PTL

(* If the round trips of one frame, the heartbeat interval and one capture *)
(* fit the decision timeout, the decision of the PS never grows too old    *)
(* while camera and link work.                                             *)
THEOREM LoopStaysFresh ==
    ASSUME LoopFitsTimeout
    PROVE  ClientSpec => []StaysFresh
<1>1. ASSUME LoopInv, calm PROVE judged_age < decision_timeout_ms
  <2>1. /\ pc \in {"frame", "rois"} /\ tried \in Nat /\ tried <= MaxRois
        /\ judged_age \in Nat /\ request_age \in Nat
    BY <1>1, LoopConstants DEF LoopInv, LoopTypeOK, AgeInv
  <2>2. /\ roundTrips(tried) <= roundTrips(MaxRois)
        /\ roundTrips(tried) \in Nat /\ roundTrips(MaxRois) \in Nat
    BY <2>1, LoopConstants, RoundTripsGrow
  <2> QED BY <1>1, <2>1, <2>2, LoopConstants DEF LoopInv, AgeInv, LoopFitsTimeout
<1>2. LoopInv => StaysFresh
  BY <1>1 DEF StaysFresh
<1> QED BY <1>2, LoopInvariant, PTL

-----------------------------------------------------------------------------
(* The camera.  Its invariant: where each buffer is (with the driver,      *)
(* empty or filled, or with the thread, never in two places), what the     *)
(* main thread has set up at each step and not yet given back, and that    *)
(* whatever was stored is a whole frame.                                   *)
Elems(s)    == {s[i] : i \in 1 .. Len(s)}
Distinct(s) == \A i, j \in 1 .. Len(s) : s[i] = s[j] => i = j

SettingUp == {"open", "negotiate", "map", "initFailed", "start"}
Running   == {"head", "wait", "busy", "stop", "join"}
InUse     == tpc \in {"convert", "convert2", "qbuf"}
Images    == [copy : {TRUE}, frame : 0 .. MaxTaken]

CaptureTypes ==
    /\ CaptureTypeOK
    /\ mpc \in SettingUp \cup Running \cup {"closed"}
    /\ tpc \in {"none", "check", "poll", "dqbuf", "convert", "convert2", "qbuf", "store",
                "exit"}
    /\ format.width \in Nat /\ format.height \in Nat /\ format.bytesperline \in Nat
    /\ length \in Nat /\ seq \in Nat
    /\ frames \in 0 .. MaxTaken
    /\ latest \in Images /\ image \in Images

LifeInv ==
    /\ buffers = mapped
    /\ mpc \in SettingUp => tpc = "none"
    /\ mpc \in Running => tpc # "none"
    /\ mpc \in Running \cup {"start"} => fd /\ streaming
    /\ mpc \in {"negotiate", "map"} => fd
    /\ mpc = "closed" => /\ tpc \in {"none", "exit"}
                         /\ ~fd /\ ~stop_fd /\ ~streaming /\ mapped = {}
    /\ mpc \in {"open", "negotiate"} => mapped = {}
    /\ mpc = "map" => \E k \in Nat : mapped = 1 .. k
    /\ mapped # {} => /\ format.bytesperline * format.height <= length
                      /\ 2 * format.width <= format.bytesperline
    /\ mpc = "map" => 2 * format.width <= format.bytesperline

QueueInv ==
    /\ Distinct(queued) /\ Distinct(filled)
    /\ Elems(queued) \cap Elems(filled) = {}
    /\ Elems(queued) \cup Elems(filled) \subseteq mapped
    /\ \A b \in Elems(filled) : content[b] # NoFrame
    /\ tpc = "dqbuf" => filled # << >>
    /\ InUse => /\ buf \in mapped /\ buf \notin Elems(queued) \cup Elems(filled)
                /\ content[buf] # NoFrame

FrameInv ==
    /\ tpc = "convert2" => half = content[buf]
    /\ tpc \in {"qbuf", "store"} => work # NoFrame
    /\ seq > 0 => latest.frame # NoFrame
    /\ mpc = "busy" => seen # NoFrame /\ image.frame = seen

CaptureInv == CaptureTypes /\ LifeInv /\ QueueInv /\ FrameInv

-----------------------------------------------------------------------------
(* Queues of buffers *)
LEMMA EmptyQueue == Elems(<< >>) = {} /\ Distinct(<< >>)
  BY DEF Elems, Distinct

LEMMA AppendQueue ==
    ASSUME NEW S, NEW s \in Seq(S), NEW e \in S
    PROVE  /\ Append(s, e) \in Seq(S) /\ Append(s, e) # << >>
           /\ Elems(Append(s, e)) = Elems(s) \cup {e}
           /\ Distinct(s) /\ e \notin Elems(s) => Distinct(Append(s, e))
<1>1. /\ Append(s, e) \in Seq(S) /\ Len(Append(s, e)) = Len(s) + 1 /\ Len(s) \in Nat
      /\ \A i \in 1 .. Len(s) : Append(s, e)[i] = s[i]
      /\ Append(s, e)[Len(s) + 1] = e
  OBVIOUS
<1>2. Elems(Append(s, e)) = Elems(s) \cup {e}
  <2>1. 1 .. Len(s) + 1 = 1 .. Len(s) \cup {Len(s) + 1}
    BY <1>1
  <2> QED BY <1>1, <2>1 DEF Elems
<1>3. ASSUME Distinct(s), e \notin Elems(s),
             NEW i \in 1 .. Len(s) + 1, NEW j \in 1 .. Len(s) + 1,
             Append(s, e)[i] = Append(s, e)[j]
      PROVE  i = j
  BY <1>1, <1>3 DEF Distinct, Elems
<1>4. Append(s, e) # << >>
  BY <1>1
<1> QED BY <1>1, <1>2, <1>3, <1>4 DEF Distinct

LEMMA TailQueue ==
    ASSUME NEW S, NEW s \in Seq(S), s # << >>
    PROVE  /\ Tail(s) \in Seq(S) /\ Head(s) \in S /\ Head(s) \in Elems(s)
           /\ Distinct(s) => /\ Distinct(Tail(s))
                             /\ Elems(Tail(s)) = Elems(s) \ {Head(s)}
<1>1. /\ Tail(s) \in Seq(S) /\ Len(s) \in Nat /\ Len(s) > 0 /\ Len(Tail(s)) = Len(s) - 1
      /\ \A i \in 1 .. Len(s) - 1 : Tail(s)[i] = s[i + 1]
      /\ Head(s) = s[1] /\ Head(s) \in S
  OBVIOUS
<1>2. Head(s) \in Elems(s)
  BY <1>1 DEF Elems
<1>3. ASSUME Distinct(s)
      PROVE  Distinct(Tail(s))
  BY <1>1, <1>3 DEF Distinct
<1>4. ASSUME Distinct(s)
      PROVE  Elems(Tail(s)) = Elems(s) \ {Head(s)}
  <2>1. ASSUME NEW x \in Elems(Tail(s)) PROVE x \in Elems(s) /\ x # Head(s)
    <3>1. PICK i \in 1 .. Len(s) - 1 : x = s[i + 1]
      BY <1>1, <2>1 DEF Elems
    <3>2. i + 1 \in 1 .. Len(s) /\ 1 \in 1 .. Len(s) /\ i + 1 # 1
      BY <1>1
    <3> QED BY <1>1, <1>4, <3>1, <3>2 DEF Elems, Distinct
  <2>2. ASSUME NEW x \in Elems(s), x # Head(s) PROVE x \in Elems(Tail(s))
    <3>1. PICK i \in 1 .. Len(s) : x = s[i]
      BY <2>2 DEF Elems
    <3>2. i - 1 \in 1 .. Len(s) - 1 /\ (i - 1) + 1 = i
      BY <1>1, <2>2, <3>1
    <3>3. Tail(s)[i - 1] = x
      BY <1>1, <3>1, <3>2
    <3> QED BY <1>1, <3>2, <3>3 DEF Elems
  <2> QED BY <2>1, <2>2
<1> QED BY <1>1, <1>2, <1>3, <1>4

-----------------------------------------------------------------------------
(* The steps of the camera's two threads and of its driver *)
LEMMA CaptureInitInv == CaptureInit => CaptureInv
<1> SUFFICES ASSUME CaptureInit PROVE CaptureInv
  OBVIOUS
<1> USE CaptureAssumption DEF CaptureInit
<1>1. NoImage \in Images /\ NoFrame \in 0 .. MaxTaken
  BY DEF NoImage, Images, NoFrame
<1>2. CaptureTypeOK
  <2>1. {fd, stop_fd, streaming, gone, running, capture_error, stop_requested,
         stop_event} \subseteq BOOLEAN
    OBVIOUS
  <2>2. content \in [Buffers -> 0 .. MaxTaken]
    BY <1>1
  <2>3. queued \in Seq(Buffers) /\ filled \in Seq(Buffers)
    OBVIOUS
  <2>4. {work, half, seen} \subseteq 0 .. MaxTaken
    BY <1>1
  <2> QED BY <2>1, <2>2, <2>3, <2>4 DEF CaptureTypeOK
<1>3. CaptureTypes
  BY <1>1, <1>2 DEF CaptureTypes, SettingUp, NoFormat
<1>4. LifeInv
  BY DEF LifeInv, SettingUp, Running
<1>5. QueueInv
  BY EmptyQueue DEF QueueInv, InUse
<1>6. FrameInv
  BY DEF FrameInv
<1> QED BY <1>3, <1>4, <1>5, <1>6 DEF CaptureInv

(* What the driver and the thread do to their queues. *)
LEMMA QueueTypes ==
    ASSUME CaptureInv, [CaptureNext]_captureVars
    PROVE  /\ queued' \in Seq(Buffers) /\ filled' \in Seq(Buffers)
           /\ mapped' \subseteq Buffers /\ buffers' = mapped'
<1> USE DEF CaptureInv
<1>1. /\ queued \in Seq(Buffers) /\ filled \in Seq(Buffers) /\ << >> \in Seq(Buffers)
      /\ mapped \subseteq Buffers /\ buffers = mapped
  BY DEF CaptureTypes, CaptureTypeOK, LifeInv
<1> DEFINE Goal == /\ queued' \in Seq(Buffers) /\ filled' \in Seq(Buffers)
                   /\ mapped' \subseteq Buffers /\ buffers' = mapped'
<1>2. CASE Initialise
  <2>1. CASE openDevice \/ negotiate \/ startStreaming
    BY <1>1, <2>1 DEF openDevice, negotiate, startStreaming, driverVars
  <2>2. CASE mapBuffer
    <3>1. PICK k \in Nat : mapped = 1 .. k
      BY <2>2 DEF mapBuffer, LifeInv
    <3>2. Cardinality(mapped) = k
      BY <3>1, FS_Interval
    <3>3. k + 1 \in Buffers
      BY <2>2, <3>2, CaptureAssumption DEF mapBuffer, Buffers
    <3>4. /\ mapped' = mapped \cup {k + 1} /\ buffers' = buffers \cup {k + 1}
          /\ queued' = Append(queued, k + 1) \/ queued' = queued
          /\ filled' = filled
      BY <2>2, <3>2 DEF mapBuffer
    <3>5. Append(queued, k + 1) \in Seq(Buffers)
      BY <1>1, <3>3, AppendQueue
    <3> QED BY <1>1, <3>3, <3>4, <3>5
  <2>3. CASE initFails
    BY <1>1, <2>3 DEF initFails, close
  <2> QED BY <1>2, <2>1, <2>2, <2>3 DEF Initialise
<1>3. CASE DriverFill
  <2>1. CASE queued = << >>
    BY <1>1, <1>3, <2>1 DEF DriverFill, deviceVars
  <2>2. CASE queued # << >>
    <3>1. Head(queued) \in Buffers /\ Tail(queued) \in Seq(Buffers)
      BY <1>1, <2>2, TailQueue
    <3>2. Append(filled, Head(queued)) \in Seq(Buffers)
      BY <1>1, <3>1, AppendQueue
    <3> QED BY <1>1, <1>3, <2>2, <3>1, <3>2 DEF DriverFill, deviceVars
  <2> QED BY <2>1, <2>2
<1>4. CASE Dqbuf
  <2>1. filled # << >>
    BY <1>4 DEF Dqbuf, QueueInv
  <2>2. Tail(filled) \in Seq(Buffers)
    BY <1>1, <2>1, TailQueue
  <2> QED BY <1>1, <1>4, <2>2 DEF Dqbuf, deviceVars
<1>5. CASE Qbuf
  <2>1. buf \in Buffers
    BY <1>1, <1>5 DEF Qbuf, QueueInv, InUse
  <2>2. Append(queued, buf) \in Seq(Buffers)
    BY <1>1, <2>1, AppendQueue
  <2> QED BY <1>1, <1>5, <2>2 DEF Qbuf, deviceVars
<1>6. CASE Close
  BY <1>1, <1>6 DEF Close, close
<1>7. CASE RunCheck \/ waitForEvent \/ ConvertFirst \/ ConvertSecond \/ Store
  BY <1>1, <1>7 DEF RunCheck, waitForEvent, ConvertFirst, ConvertSecond, Store,
                    deviceVars, driverVars
<1>8. CASE Start \/ LoopHead \/ next \/ Stop \/ Signal \/ Unplug
  BY <1>1, <1>8 DEF Start, LoopHead, next, Stop, Signal, Unplug,
                    deviceVars, driverVars
<1>9. CASE UNCHANGED captureVars
  BY <1>1, <1>9 DEF captureVars, deviceVars, driverVars
<1> QED BY <1>2, <1>3, <1>4, <1>5, <1>6, <1>7, <1>8, <1>9 DEF CaptureNext, Capture, Main

LEMMA CaptureTypesStep ==
    ASSUME CaptureInv, [CaptureNext]_captureVars
    PROVE  CaptureTypes'
<1> USE DEF CaptureInv, NoFrame
<1> DEFINE Flags == {fd, stop_fd, streaming, gone, running, capture_error,
                     stop_requested, stop_event} \subseteq BOOLEAN
           Pcs == /\ mpc \in SettingUp \cup Running \cup {"closed"}
                  /\ tpc \in {"none", "check", "poll", "dqbuf", "convert", "convert2",
                              "qbuf", "store", "exit"}
           Shape == /\ format.width \in Nat /\ format.height \in Nat
                    /\ format.bytesperline \in Nat /\ length \in Nat
           Data == /\ buf \in Nat /\ seq \in Nat /\ last_seq \in 0 .. seq
                   /\ content \in [Buffers -> 0 .. MaxTaken] /\ frames \in 0 .. MaxTaken
                   /\ work \in 0 .. MaxTaken /\ half \in 0 .. MaxTaken
                   /\ seen \in 0 .. MaxTaken
                   /\ latest \in Images /\ image \in Images
<1>0. Flags /\ Pcs /\ Shape /\ Data /\ MaxTaken \in Nat
  BY CaptureAssumption DEF CaptureTypes, CaptureTypeOK
<1>1. Flags'
  BY <1>0
     DEF CaptureNext, Capture, Main, Initialise, openDevice, negotiate, mapBuffer,
         startStreaming, initFails, close, DriverFill, Unplug, RunCheck, waitForEvent,
         leaveRun, Dqbuf, ConvertFirst, ConvertSecond, Qbuf, Store, Signal, Start,
         LoopHead, next, Stop, Close, captureVars, deviceVars, driverVars, threadVars,
         sharedVars, mainVars
<1>2. Pcs'
  BY <1>0
     DEF CaptureNext, Capture, Main, Initialise, openDevice, negotiate, mapBuffer,
         startStreaming, initFails, DriverFill, Unplug, RunCheck, waitForEvent,
         leaveRun, Dqbuf, ConvertFirst, ConvertSecond, Qbuf, Store, Signal, Start,
         LoopHead, next, Stop, Close, captureVars, threadVars, mainVars, SettingUp, Running
<1>3. Shape'
  <2>1. CASE negotiate
    BY <2>1, CaptureAssumption DEF negotiate, withStride
  <2>2. CASE initFails \/ Close
    BY <1>0, <2>2 DEF initFails, Close, close, NoFormat
  <2>3. CASE UNCHANGED <<format, length>>
    BY <1>0, <2>3
  <2> QED BY <2>1, <2>2, <2>3
     DEF CaptureNext, Capture, Main, Initialise, openDevice, mapBuffer,
         startStreaming, DriverFill, Unplug, RunCheck, waitForEvent,
         Dqbuf, ConvertFirst, ConvertSecond, Qbuf, Store, Signal, Start,
         LoopHead, next, Stop, captureVars, deviceVars
<1>4. Data'
  <2> USE DEF threadVars, sharedVars, mainVars, driverVars
  <2>1. CASE DriverFill
    <3>1. frames' = frames + 1 /\ frames < MaxTaken
      BY <2>1 DEF DriverFill
    <3>2. frames' \in 0 .. MaxTaken
      BY <1>0, <3>1
    <3>3. content' = content \/ content' = [content EXCEPT ![Head(queued)] = frames']
      BY <2>1 DEF DriverFill
    <3>4. content' \in [Buffers -> 0 .. MaxTaken]
      <4>1. content \in [Buffers -> 0 .. MaxTaken]
        BY <1>0
      <4> QED BY <3>2, <3>3, <4>1
    <3>5. UNCHANGED <<buf, seq, last_seq, work, half, seen, latest, image>>
      BY <2>1 DEF DriverFill
    <3> QED BY <1>0, <3>2, <3>4, <3>5
  <2>2. CASE Dqbuf
    <3>1. filled # << >> /\ filled \in Seq(Buffers)
      BY <2>2 DEF Dqbuf, QueueInv, CaptureTypes, CaptureTypeOK
    <3>2. Head(filled) \in Nat
      BY <3>1, TailQueue, CaptureAssumption DEF Buffers
    <3> QED BY <1>0, <2>2, <3>2 DEF Dqbuf
  <2>3. CASE ConvertFirst \/ ConvertSecond
    <3>1. content[buf] \in 0 .. MaxTaken
      BY <1>0, <2>3 DEF ConvertFirst, ConvertSecond, QueueInv, InUse, CaptureTypes,
                        CaptureTypeOK
    <3> QED BY <1>0, <2>3, <3>1 DEF ConvertFirst, ConvertSecond
  <2>4. CASE Store
    <3>1. [copy |-> TRUE, frame |-> work] \in Images
      BY <1>0 DEF Images
    <3>2. seq' = seq + 1 /\ seq' \in Nat /\ last_seq' \in 0 .. seq'
      BY <1>0, <2>4 DEF Store
    <3> QED BY <1>0, <2>4, <3>1, <3>2 DEF Store
  <2>5. CASE LoopHead
    <3>1. NoImage \in Images
      BY <1>0 DEF NoImage, Images
    <3> QED BY <1>0, <2>5, <3>1 DEF LoopHead
  <2>6. CASE next
    <3>1. shows(latest) \in 0 .. MaxTaken
      BY <1>0 DEF shows, Images
    <3>2. seq \in 0 .. seq
      BY <1>0
    <3> QED BY <1>0, <2>6, <3>1, <3>2 DEF next
  <2>7. CASE UNCHANGED <<buf, seq, last_seq, content, frames, work, half, seen, latest,
                         image>>
    BY <1>0, <2>7
  <2>8. CASE Initialise
    BY <1>0, <2>8 DEF Initialise, openDevice, negotiate, mapBuffer,
         startStreaming, initFails, close
  <2> QED BY <2>1, <2>2, <2>3, <2>4, <2>5, <2>6, <2>7, <2>8
     DEF CaptureNext, Capture, Main, Unplug, RunCheck, waitForEvent,
         Qbuf, Signal, Start, Stop, Close, close, captureVars
<1>5. CaptureTypeOK'
  BY <1>1, <1>4, QueueTypes DEF CaptureTypeOK
<1> QED BY <1>2, <1>3, <1>4, <1>5 DEF CaptureTypes

(* Whatever was set up is there while the thread runs, and given back at   *)
(* the end, wherever the start-up fails.                                   *)
LEMMA LifeStep ==
    ASSUME CaptureInv, [CaptureNext]_captureVars
    PROVE  LifeInv'
<1> USE DEF CaptureInv, SettingUp, Running
<1>1. buffers = mapped
  BY DEF LifeInv
<1>2. CASE openDevice /\ UNCHANGED tpc
  BY <1>2 DEF openDevice, LifeInv
<1>3. CASE negotiate /\ UNCHANGED tpc
  <2>1. 2 * format'.width <= format'.bytesperline
    BY <1>3, CaptureAssumption DEF negotiate, withStride
  <2>2. /\ mapped' = {} /\ buffers' = {} /\ {} = 1 .. 0 /\ mpc' = "map" /\ tpc' = "none"
        /\ fd'
    BY <1>1, <1>3 DEF negotiate, LifeInv
  <2> QED BY <2>1, <2>2 DEF LifeInv
<1>4. CASE mapBuffer /\ UNCHANGED tpc
  <2>1. PICK k \in Nat : mapped = 1 .. k
    BY <1>4 DEF mapBuffer, LifeInv
  <2>2. Cardinality(mapped) = k
    BY <2>1, FS_Interval
  <2>3. /\ mapped' = mapped \cup {k + 1} /\ buffers' = mapped'
        /\ mpc' \in {"map", "initFailed"} /\ tpc' = "none" /\ fd'
        /\ UNCHANGED <<format, length>>
    BY <1>1, <1>4, <2>2 DEF mapBuffer, LifeInv
  <2>4. mapped' = 1 .. k + 1
    BY <2>1, <2>3
  <2>5. /\ format.bytesperline * format.height <= length
        /\ 2 * format.width <= format.bytesperline
    <3>1. length >= format.bytesperline * format.height
      BY <1>4 DEF mapBuffer, bigEnough
    <3>2. length \in Nat /\ format.bytesperline * format.height \in Nat
      BY DEF CaptureTypes
    <3> QED BY <1>4, <3>1, <3>2 DEF mapBuffer, LifeInv
  <2> QED BY <2>3, <2>4, <2>5 DEF LifeInv
<1>5. CASE startStreaming /\ UNCHANGED tpc
  <2>1. fd' /\ streaming' /\ mpc' = "start" /\ tpc' = "none"
    BY <1>5 DEF startStreaming, LifeInv
  <2>2. UNCHANGED <<mapped, buffers, format, length>>
    BY <1>5 DEF startStreaming
  <2> QED BY <1>1, <2>1, <2>2 DEF LifeInv
<1>6. CASE initFails /\ UNCHANGED tpc
  <2>1. /\ tpc' = "none" /\ mpc' = "closed" /\ mapped' = {} /\ buffers' = {}
        /\ ~fd' /\ ~stop_fd' /\ ~streaming'
    BY <1>1, <1>6 DEF initFails, close, LifeInv
  <2> QED BY <2>1 DEF LifeInv
<1>7. CASE Close
  <2>1. /\ tpc' = "exit" /\ mpc' = "closed" /\ mapped' = {} /\ buffers' = {}
        /\ ~fd' /\ ~stop_fd' /\ ~streaming'
    BY <1>1, <1>7 DEF Close, close, joined, threadVars, LifeInv
  <2> QED BY <2>1 DEF LifeInv
<1>8. CASE Capture
  <2>1. /\ UNCHANGED <<deviceVars, mpc>> /\ tpc' # "none" /\ tpc \notin {"none", "exit"}
    BY <1>8 DEF Capture, RunCheck, waitForEvent, leaveRun, Dqbuf, ConvertFirst,
                ConvertSecond, Qbuf, Store, mainVars
  <2>2. mpc \in Running
    BY <2>1 DEF LifeInv, CaptureTypes
  <2> QED BY <2>1, <2>2 DEF LifeInv, deviceVars
<1>9. CASE Start
  BY <1>9 DEF Start, LifeInv, deviceVars
<1>10. CASE LoopHead \/ next \/ Stop
  <2>1. mpc \in Running /\ mpc' \in Running /\ UNCHANGED <<deviceVars, tpc>>
    BY <1>10 DEF LoopHead, next, Stop, threadVars
  <2> QED BY <2>1 DEF LifeInv, deviceVars
<1>11. CASE Signal \/ DriverFill \/ Unplug \/ UNCHANGED captureVars
  <2>1. UNCHANGED <<deviceVars, tpc, mpc>>
    BY <1>11 DEF Signal, DriverFill, Unplug, captureVars, threadVars, mainVars
  <2> QED BY <2>1 DEF LifeInv, deviceVars
<1> QED BY <1>2, <1>3, <1>4, <1>5, <1>6, <1>7, <1>8, <1>9, <1>10, <1>11
        DEF CaptureNext, Main, Initialise, threadVars

(* No buffer is in two places: the driver writes only into buffers that    *)
(* are queued, and the thread reads only the one it has taken.             *)
LEMMA QueueStep ==
    ASSUME CaptureInv, [CaptureNext]_captureVars
    PROVE  QueueInv'
<1> USE DEF CaptureInv, NoFrame
<1>1. /\ queued \in Seq(Buffers) /\ filled \in Seq(Buffers)
      /\ mapped \subseteq Buffers /\ content \in [Buffers -> 0 .. MaxTaken]
  BY DEF CaptureTypes, CaptureTypeOK
<1>0. /\ Elems(queued)' = Elems(queued') /\ Elems(filled)' = Elems(filled')
      /\ Distinct(queued)' <=> Distinct(queued')
      /\ Distinct(filled)' <=> Distinct(filled')
  BY DEF Elems, Distinct
<1>2. CASE mapBuffer /\ UNCHANGED tpc
  <2>1. PICK k \in Nat : mapped = 1 .. k
    BY <1>2 DEF mapBuffer, LifeInv
  <2>2. Cardinality(mapped) = k
    BY <2>1, FS_Interval
  <2>3. k + 1 \in Buffers /\ k + 1 \notin mapped
    BY <1>2, <2>1, <2>2, CaptureAssumption DEF mapBuffer, Buffers
  <2>4. /\ mapped' = mapped \cup {k + 1} /\ filled' = filled /\ content' = content
        /\ queued' = queued \/ queued' = Append(queued, k + 1)
        /\ tpc' = "none"
    BY <1>2, <2>2 DEF mapBuffer, LifeInv, SettingUp
  <2>5. /\ Elems(queued)' \subseteq Elems(queued) \cup {k + 1}
        /\ Distinct(queued)'
    <3>1. CASE queued' = queued
      BY <3>1 DEF QueueInv, Elems, Distinct
    <3>2. CASE queued' = Append(queued, k + 1)
      <4>1. k + 1 \notin Elems(queued) /\ Distinct(queued)
        BY <2>3 DEF QueueInv
      <4>2. Elems(queued') = Elems(queued) \cup {k + 1} /\ Distinct(queued')
        BY <1>1, <2>3, <3>2, <4>1, AppendQueue
      <4> QED BY <4>2 DEF Elems, Distinct
    <3> QED BY <2>4, <3>1, <3>2
  <2>6. Elems(filled)' = Elems(filled) /\ Distinct(filled)'
    BY <2>4 DEF Elems, Distinct, QueueInv
  <2>7. ~InUse' /\ tpc' # "dqbuf"
    BY <2>4 DEF InUse
  <2> QED BY <2>3, <2>4, <2>5, <2>6, <2>7 DEF QueueInv
<1>3. CASE (initFails /\ UNCHANGED tpc) \/ Close
  <2>1. queued' = << >> /\ filled' = << >> /\ tpc' \in {"none", "exit"}
    BY <1>3 DEF initFails, Close, close, joined, threadVars, LifeInv, SettingUp
  <2>2. /\ Elems(queued)' = {} /\ Elems(filled)' = {}
        /\ Distinct(queued)' /\ Distinct(filled)'
    BY <2>1, EmptyQueue DEF Elems, Distinct
  <2> QED BY <2>1, <2>2 DEF QueueInv, InUse
<1>4. CASE DriverFill
  <2>1. UNCHANGED <<mapped, tpc, buf>>
    BY <1>4 DEF DriverFill, deviceVars, threadVars
  <2>2. CASE queued = << >>
    <3>1. UNCHANGED <<queued, filled, content>>
      BY <1>4, <2>2 DEF DriverFill
    <3> QED BY <2>1, <3>1 DEF QueueInv, Elems, Distinct, InUse
  <2>3. CASE queued # << >>
    <3> DEFINE h == Head(queued)
    <3>1. /\ content' = [content EXCEPT ![h] = frames + 1]
          /\ filled' = Append(filled, h) /\ queued' = Tail(queued)
      BY <1>4, <2>3 DEF DriverFill
    <3>2. /\ h \in Buffers /\ h \in Elems(queued) /\ Distinct(Tail(queued))
          /\ Elems(Tail(queued)) = Elems(queued) \ {h}
      BY <1>1, <2>3, TailQueue DEF QueueInv
    <3>3. /\ Elems(Append(filled, h)) = Elems(filled) \cup {h}
          /\ Distinct(Append(filled, h)) /\ Append(filled, h) # << >>
      <4> HIDE DEF h
      <4>1. h \notin Elems(filled) /\ Distinct(filled)
        BY <3>2 DEF QueueInv
      <4> QED BY <1>1, <3>2, <4>1, AppendQueue
    <3> HIDE DEF h
    <3>4. /\ Elems(queued)' = Elems(queued) \ {h} /\ Distinct(queued)'
          /\ Elems(filled)' = Elems(filled) \cup {h} /\ Distinct(filled)'
          /\ filled' # << >>
      BY <1>0, <3>1, <3>2, <3>3
    <3>5. frames + 1 # 0
      BY DEF CaptureTypes
    <3>6. \A b \in Buffers : content'[b] = IF b = h THEN frames + 1 ELSE content[b]
      BY <1>1, <3>1
    <3>7. Elems(queued) \cup Elems(filled) \subseteq Buffers
      BY <1>1 DEF QueueInv
    <3>8. \A b \in Elems(filled)' : content'[b] # NoFrame
      BY <3>2, <3>4, <3>5, <3>6, <3>7 DEF QueueInv
    <3>9. InUse => /\ buf \notin Elems(queued) \cup Elems(filled) /\ buf \in mapped
                   /\ content[buf] # NoFrame
      BY DEF QueueInv
    <3>10. InUse' => /\ buf \notin Elems(queued)' \cup Elems(filled)' /\ buf \in mapped
                     /\ content'[buf] # NoFrame
      BY <1>1, <2>1, <3>2, <3>4, <3>6, <3>9 DEF InUse
    <3> QED BY <2>1, <3>2, <3>4, <3>8, <3>10 DEF QueueInv
  <2> QED BY <2>2, <2>3
<1>5. CASE Dqbuf
  <2>1. UNCHANGED <<mapped, queued, content>>
    BY <1>5 DEF Dqbuf, deviceVars
  <2>2. CASE UNCHANGED <<buf, filled>> /\ tpc' \in {"check", "exit"}
    BY <2>1, <2>2 DEF QueueInv, Elems, Distinct, InUse
  <2>3. CASE buf' = Head(filled) /\ filled' = Tail(filled) /\ tpc' = "convert"
    <3>1. filled # << >> /\ Distinct(filled)
      BY <1>5 DEF Dqbuf, QueueInv
    <3>2. /\ buf' \in Elems(filled) /\ Distinct(filled')
          /\ Elems(filled') = Elems(filled) \ {buf'}
      BY <1>1, <2>3, <3>1, TailQueue
    <3>3. /\ Elems(filled)' = Elems(filled) \ {buf'} /\ Distinct(filled)'
          /\ Elems(queued)' = Elems(queued) /\ Distinct(queued)'
      BY <1>0, <2>1, <3>2 DEF QueueInv
    <3>4. /\ Elems(queued) \cap Elems(filled) = {} /\ buf' \in mapped
          /\ content'[buf'] # NoFrame
      BY <2>1, <3>2 DEF QueueInv
    <3> QED BY <2>1, <2>3, <3>2, <3>3, <3>4 DEF QueueInv
  <2> QED BY <1>5, <2>2, <2>3 DEF Dqbuf, leaveRun
<1>6. CASE Qbuf
  <2>1. UNCHANGED <<mapped, filled, content, buf>> /\ tpc' \in {"store", "exit"}
    BY <1>6 DEF Qbuf, leaveRun, deviceVars
  <2>2. CASE queued' = queued
    BY <2>1, <2>2 DEF QueueInv, Elems, Distinct, InUse
  <2>3. CASE queued' = Append(queued, buf)
    <3>1. /\ buf \in mapped /\ buf \notin Elems(queued) \cup Elems(filled)
          /\ Distinct(queued) /\ buf \in Buffers
      BY <1>1, <1>6 DEF Qbuf, QueueInv, InUse
    <3>2. Elems(queued') = Elems(queued) \cup {buf} /\ Distinct(queued')
      BY <1>1, <2>3, <3>1, AppendQueue
    <3>3. /\ Elems(queued)' = Elems(queued) \cup {buf} /\ Distinct(queued)'
          /\ Elems(filled)' = Elems(filled) /\ Distinct(filled)'
      BY <1>0, <2>1, <3>2 DEF QueueInv
    <3> QED BY <2>1, <3>1, <3>3 DEF QueueInv, InUse
  <2> QED BY <1>6, <2>2, <2>3 DEF Qbuf
<1>7. CASE /\ UNCHANGED <<mapped, queued, filled, content, buf>>
           /\ tpc' = "dqbuf" => filled # << >>
           /\ InUse' => InUse
  BY <1>7 DEF QueueInv, Elems, Distinct
<1>8. CASE RunCheck \/ waitForEvent \/ ConvertFirst \/ ConvertSecond \/ Store
  <2>1. /\ UNCHANGED <<mapped, queued, filled, content, buf>>
        /\ tpc' = "dqbuf" => filled # << >>
        /\ InUse' => InUse
    BY <1>8 DEF RunCheck, waitForEvent, leaveRun, ConvertFirst, ConvertSecond, Store,
                deviceVars, driverVars, InUse
  <2> QED BY <1>7, <2>1
<1>9. CASE Start \/ LoopHead \/ next \/ Stop \/ Signal \/ Unplug \/ UNCHANGED captureVars
           \/ ((openDevice \/ negotiate \/ startStreaming) /\ UNCHANGED threadVars)
  <2>1. /\ UNCHANGED <<mapped, queued, filled, content, buf>>
        /\ tpc' = tpc \/ tpc' = "check"
    BY <1>9 DEF Start, LoopHead, next, Stop, Signal, Unplug, openDevice, negotiate,
                startStreaming, captureVars, deviceVars, driverVars, threadVars
  <2>2. (tpc' = "dqbuf" => filled # << >>) /\ (InUse' => InUse)
    BY <2>1 DEF QueueInv, InUse
  <2> QED BY <1>7, <2>1, <2>2
<1> QED BY <1>2, <1>3, <1>4, <1>5, <1>6, <1>8, <1>9
        DEF CaptureNext, Capture, Main, Initialise, threadVars

(* A buffer in use is not written, so both halves of a conversion see the  *)
(* same frame, and what is stored and handed over is a whole one.          *)
LEMMA FrameStep ==
    ASSUME CaptureInv, [CaptureNext]_captureVars
    PROVE  FrameInv'
<1> USE DEF CaptureInv, NoFrame
<1>1. /\ latest \in Images /\ image \in Images /\ seq \in Nat
      /\ content \in [Buffers -> 0 .. MaxTaken] /\ last_seq \in 0 .. seq
  BY DEF CaptureTypes, CaptureTypeOK
<1>2. CASE DriverFill
  <2>1. UNCHANGED <<tpc, buf, half, work, seq, latest, mpc, seen, image>>
    BY <1>2 DEF DriverFill, threadVars, sharedVars, mainVars
  <2>2. tpc = "convert2" => content'[buf] = content[buf]
    <3>1. SUFFICES ASSUME tpc = "convert2", queued # << >>
                   PROVE  content'[buf] = content[buf]
      BY <1>2 DEF DriverFill
    <3>2. buf \notin Elems(queued) /\ queued \in Seq(Buffers) /\ buf \in Buffers
      BY <3>1 DEF QueueInv, InUse, CaptureTypes, CaptureTypeOK
    <3>3. Head(queued) \in Elems(queued)
      BY <3>1, <3>2, TailQueue
    <3>4. content' = [content EXCEPT ![Head(queued)] = frames']
      BY <1>2, <3>1 DEF DriverFill
    <3> QED BY <1>1, <3>2, <3>3, <3>4
  <2> QED BY <2>1, <2>2 DEF FrameInv
<1>3. CASE ConvertFirst
  BY <1>3 DEF ConvertFirst, FrameInv, driverVars, sharedVars, mainVars
<1>4. CASE ConvertSecond
  <2>1. content[buf] = half /\ half # NoFrame
    BY <1>4 DEF ConvertSecond, FrameInv, QueueInv, InUse
  <2> QED BY <1>4, <2>1 DEF ConvertSecond, FrameInv, sharedVars, mainVars
<1>5. CASE Store
  <2>1. /\ latest'.frame = work /\ work # NoFrame /\ tpc' = "check"
        /\ UNCHANGED <<mpc, seen, image>>
    BY <1>5 DEF Store, FrameInv, mainVars
  <2> QED BY <2>1 DEF FrameInv
<1>6. CASE next
  <2>1. UNCHANGED <<tpc, buf, half, work, content, seq, latest>>
    BY <1>6 DEF next, threadVars, driverVars, sharedVars
  <2>2. CASE mpc' # "busy"
    BY <2>1, <2>2 DEF FrameInv
  <2>3. CASE mpc' = "busy"
    <3>1. image' = latest /\ seen' = shows(latest) /\ seq # last_seq
      BY <1>6, <2>3 DEF next, isNew
    <3>2. seq > 0
      BY <1>1, <3>1
    <3>3. latest.copy /\ latest.frame # NoFrame
      BY <1>1, <3>2 DEF Images, FrameInv
    <3> QED BY <2>1, <3>1, <3>3 DEF FrameInv, shows
  <2> QED BY <2>2, <2>3
<1>7. CASE RunCheck \/ waitForEvent \/ Dqbuf \/ Qbuf
  <2>1. /\ UNCHANGED <<work, seq, latest, mpc, seen, image>> /\ tpc' # "convert2"
        /\ tpc' \in {"qbuf", "store"} => tpc = "qbuf"
    BY <1>7 DEF RunCheck, waitForEvent, leaveRun, Dqbuf, Qbuf, sharedVars, mainVars
  <2> QED BY <2>1 DEF FrameInv
<1>8. CASE Initialise \/ Start \/ LoopHead \/ Stop \/ Close \/ Signal \/ Unplug
           \/ UNCHANGED captureVars
  <2>1. /\ UNCHANGED <<buf, half, work, content, seq, latest, seen>>
        /\ tpc' = tpc \/ tpc' = "check"
        /\ mpc' = "busy" => mpc = "busy" /\ image' = image
    BY <1>8 DEF Initialise, openDevice, negotiate, mapBuffer, startStreaming, initFails,
                close, Start, LoopHead, Stop, Close, Signal, Unplug, captureVars,
                driverVars, threadVars, sharedVars, mainVars
  <2> QED BY <2>1 DEF FrameInv
<1> QED BY <1>2, <1>3, <1>4, <1>5, <1>6, <1>7, <1>8 DEF CaptureNext, Capture, Main

LEMMA CaptureInvariant == CaptureSpec => []CaptureInv
<1>1. CaptureInit => CaptureInv
  BY CaptureInitInv
<1>2. CaptureInv /\ [CaptureNext]_captureVars => CaptureInv'
  BY CaptureTypesStep, LifeStep, QueueStep, FrameStep DEF CaptureInv
<1> QED BY <1>1, <1>2, PTL DEF CaptureSpec

(* The memory of the camera is handled safely (BuffersAreSafe), for every  *)
(* number of buffers, every format and buffer length the driver may        *)
(* answer with, and every number of frames: nothing leaks, the conversion  *)
(* reads inside the mapping, the device is closed after the thread, and    *)
(* the frame the main thread works on is whole and does not change.        *)
THEOREM CaptureBuffersAreSafe == CaptureSpec => []BuffersAreSafe
<1>1. ASSUME CaptureInv PROVE BuffersAreSafe
  <2> USE <1>1 DEF CaptureInv
  <2>1. CaptureTypeOK /\ NothingLeaks
    BY DEF CaptureTypes, LifeInv, NothingLeaks
  <2>2. ReadsInside
    BY DEF ReadsInside, QueueInv, InUse, LifeInv
  <2>3. NoUseAfterClose
    BY DEF NoUseAfterClose, LifeInv, CaptureTypes
  <2>4. image.copy
    BY DEF CaptureTypes, Images
  <2>5. StableFrame
    BY <2>4 DEF StableFrame, FrameInv, shows
  <2> QED BY <2>1, <2>2, <2>3, <2>5 DEF BuffersAreSafe
<1> QED BY <1>1, CaptureInvariant, PTL

-----------------------------------------------------------------------------
(* The proposals.  What the network reported is still to be looked at, or  *)
(* kept, or covered by one that is kept and at least as strong; whatever   *)
(* is kept was at least as strong as all that remains; and each candidate  *)
(* that main() has come to has its crop.                                   *)
kept(box, i) ==
    /\ proposals[i].score >= box.score
    /\ proposals[i] = box \/ overlap(box, proposals[i])

ProposalTypes ==
    /\ stage \in {"sort", "nms", "crop", "done"}
    /\ predictions \subseteq Outputs /\ IsFiniteSet(predictions)
    /\ boxes \in Seq(Box) /\ proposals \in Seq(Box)
    /\ candidate \in 0 .. Len(proposals)

OrderedInv ==
    /\ stage # "nms" => boxes = << >>
    /\ stage = "sort" => proposals = << >>
    /\ Len(proposals) <= max_candidates
    /\ inOrder(boxes)
    /\ \A i \in DOMAIN proposals, j \in DOMAIN boxes : proposals[i].score >= boxes[j].score

ApartInv == \A i, j \in DOMAIN proposals : i # j => ~overlap(proposals[i], proposals[j])

VisibleInv ==
    /\ \A i \in DOMAIN boxes : visible(boxes[i])
    /\ \A i \in DOMAIN proposals : visible(proposals[i])

KeptInv ==
    stage # "sort" =>
        \A p \in predictions : passes(p) =>
            \/ \E j \in DOMAIN boxes : boxes[j] = decoded(p)
            \/ \E i \in DOMAIN proposals : kept(decoded(p), i)
            \/ /\ stage # "nms" /\ Len(proposals) = max_candidates
               /\ \A i \in DOMAIN proposals : proposals[i].score >= decoded(p).score

CropInv ==
    /\ crops = [i \in 1 .. candidate |-> crop(proposals[i])]
    /\ stage \in {"sort", "nms"} => candidate = 0
    /\ stage = "done" => candidate = Len(proposals)

ProposalInv ==
    ProposalTypes /\ OrderedInv /\ ApartInv /\ VisibleInv /\ KeptInv /\ CropInv

-----------------------------------------------------------------------------
LEMMA ProposalConstants ==
    /\ kModelSize \in Nat /\ kModelSize > 0 /\ cols \in Nat /\ cols > 0
    /\ rows \in Nat /\ rows > 0 /\ Sub \in Nat /\ Sub > 0
    /\ max_candidates \in Nat /\ max_candidates > 0
    /\ nms_iou_threshold \in Int /\ Margin \in Nat /\ MaxOutputs \in Nat
BY ProposalAssumption

(* The quotient of two integers, the divisor positive. *)
LEMMA Quotient ==
    ASSUME NEW v \in Int, NEW d \in Nat, d > 0
    PROVE  /\ v \div d \in Int
           /\ d * (v \div d) <= v /\ v < d * (v \div d) + d
           /\ v % d = 0 => d * (v \div d) = v
OBVIOUS

(* Overlapping is mutual. *)
LEMMA OverlapIsMutual ==
    ASSUME NEW a \in Box, NEW b \in Box
    PROVE  overlap(a, b) <=> overlap(b, a)
<1>1. intersection(a, b) = intersection(b, a)
  <2>1. /\ smaller(a.x2, b.x2) = smaller(b.x2, a.x2)
        /\ smaller(a.y2, b.y2) = smaller(b.y2, a.y2)
        /\ larger(a.x1, b.x1) = larger(b.x1, a.x1)
        /\ larger(a.y1, b.y1) = larger(b.y1, a.y1)
    BY DEF Box, smaller, larger
  <2> QED BY <2>1 DEF intersection
<1>2. area(a) \in Int /\ area(b) \in Int
  BY DEF Box, area
<1>3. intersection(b, a) \in Int
  BY DEF Box, intersection, smaller, larger
<1>4. area(a) + area(b) - intersection(b, a) = area(b) + area(a) - intersection(b, a)
  BY <1>2, <1>3
<1> QED BY <1>1, <1>4, Zenon DEF overlap

(* A decoded prediction is a box; one that passes is seen in the frame. *)
LEMMA DecodedBox ==
    ASSUME NEW p \in Outputs
    PROVE  decoded(p) \in Box /\ (passes(p) => visible(decoded(p)))
<1>1. p \in Box
  BY ProposalAssumption
<1>2. pad_x \in Int /\ pad_y \in Int
  <2>1. resized_height \in Int
    <3>1. rows * kModelSize \in Int
      BY ProposalConstants
    <3> QED BY <3>1, Quotient, ProposalConstants DEF resized_height
  <2> QED BY <2>1, ProposalConstants DEF pad_x, pad_y
<1>3. \A c, pad \in Int : toFrame(c, pad) \in Int
  <2>1. cols * Sub \in Int
    BY ProposalConstants
  <2>2. (cols * Sub) \div kModelSize \in Int
    BY <2>1, Quotient, ProposalConstants
  <2> QED BY <2>2 DEF toFrame
<1>4. \A v, hi \in Int : hi > 0 => limited(v, hi) \in 0 .. hi
  BY DEF limited
<1>5. /\ cols * Sub \in Int /\ cols * Sub > 0
      /\ rows * Sub \in Int /\ rows * Sub > 0
  BY ProposalConstants
<1>6. /\ decoded(p).x1 \in 0 .. cols * Sub /\ decoded(p).x2 \in 0 .. cols * Sub
      /\ decoded(p).y1 \in 0 .. rows * Sub /\ decoded(p).y2 \in 0 .. rows * Sub
  BY <1>1, <1>2, <1>3, <1>4, <1>5 DEF decoded, Box
<1>7. decoded(p) \in Box
  <2>1. decoded(p) = [x1 |-> decoded(p).x1, x2 |-> decoded(p).x2, y1 |-> decoded(p).y1,
                      y2 |-> decoded(p).y2, score |-> p.score]
    BY DEF decoded
  <2>2. p.score \in Int
    BY <1>1 DEF Box
  <2> QED BY <1>6, <2>1, <2>2 DEF Box
<1>8. ASSUME passes(p) PROVE visible(decoded(p))
  <2>1. decoded(p).x2 > decoded(p).x1 /\ decoded(p).y2 > decoded(p).y1
    BY <1>8 DEF passes
  <2> QED BY <1>5, <1>6, <2>1 DEF visible
<1> QED BY <1>7, <1>8

(* A set in a sequence: all of it is there, and nothing else. *)
LEMMA Arranged ==
    ASSUME NEW S, IsFiniteSet(S), NEW s \in SetToSeqs(S)
    PROVE  s \in Seq(S) /\ \A x \in S : \E i \in DOMAIN s : s[i] = x
<1> DEFINE n == Cardinality(S)
<1>1. n \in Nat
  BY FS_CardinalityType
<1>2. s \in [1 .. n -> S] /\ \A i, j \in 1 .. n : i # j => s[i] # s[j]
  BY DEF SetToSeqs
<1> HIDE DEF n
<1>3. s \in Injection(1 .. n, S)
  BY <1>2 DEF Injection, IsInjective
<1>4. Cardinality(1 .. n) = n
  BY <1>1, FS_Interval
<1>5. s \in Surjection(1 .. n, S)
  BY <1>3, <1>4, FS_Injection DEF n
<1> QED BY <1>1, <1>2, <1>5 DEF Surjection

(* The edges of the window are rounded away from the box. *)
LEMMA PixelEdges ==
    ASSUME NEW v \in Int
    PROVE  /\ floorPx(v) \in Int /\ farPx(v) \in Int
           /\ Scale * floorPx(v) <= v /\ v <= Scale * farPx(v)
<1>1. Scale \in Nat /\ Scale > 0
  BY ProposalConstants DEF Scale
<1>2. floorPx(v) \in Int /\ Scale * floorPx(v) <= v
  BY <1>1, Quotient DEF floorPx
<1> DEFINE q == (-v) \div Scale
<1>4. -v \in Int
  OBVIOUS
<1>5. q \in Int /\ Scale * q <= -v
  BY <1>1, <1>4, Quotient
<1>6. farPx(v) = -q
  BY DEF farPx, ceilPx
<1> HIDE DEF q
<1>7. Scale * (-q) = -(Scale * q)
  BY <1>1, <1>5
<1>8. Scale * q \in Int
  BY <1>1, <1>5
<1>9. v <= Scale * farPx(v)
  BY <1>5, <1>6, <1>7, <1>8
<1> QED BY <1>2, <1>5, <1>6, <1>9

LEMMA TimesSub ==
    ASSUME NEW a \in Int, NEW b \in Int, a <= b
    PROVE  a * Sub \in Int /\ b * Sub \in Int /\ a * Sub <= b * Sub
BY ProposalConstants

(* One side of the window holds one side of the box. *)
LEMMA SideHolds ==
    ASSUME NEW lo \in Int, NEW hi \in Int, NEW square \in Int, 10 * (hi - lo) <= square
    PROVE  /\ side(lo, hi, square).lo \in Int /\ side(lo, hi, square).hi \in Int
           /\ side(lo, hi, square).lo * Sub <= lo
           /\ hi <= side(lo, hi, square).hi * Sub
<1> DEFINE a == floorPx(10 * (lo + hi) - square)
           z == farPx(10 * (lo + hi) + square)
<1>1. side(lo, hi, square) = [lo |-> a, hi |-> z]
  BY DEF side
<1>2. a \in Int /\ Scale * a <= 10 * (lo + hi) - square
  BY PixelEdges
<1>3. z \in Int /\ 10 * (lo + hi) + square <= Scale * z
  BY PixelEdges
<1> HIDE DEF a, z
<1>4. /\ a * Sub \in Int /\ Scale * a = 20 * (a * Sub)
      /\ z * Sub \in Int /\ Scale * z = 20 * (z * Sub)
  BY <1>2, <1>3, ProposalConstants DEF Scale
<1>5. a * Sub <= lo /\ hi <= z * Sub
  BY <1>2, <1>3, <1>4
<1> QED BY <1>1, <1>2, <1>3, <1>5

(* ... also after it was widened to the size of the square. *)
LEMMA WidenedHolds ==
    ASSUME NEW s \in [lo : Int, hi : Int], NEW width \in Int, s.hi - s.lo <= width
    PROVE  /\ widened(s, width) \in Int
           /\ widened(s, width) <= s.lo /\ s.hi <= widened(s, width) + width
BY DEF widened

(* A stretch that meets the frame is made up of what is seen and what is   *)
(* padded.                                                                 *)
LEMMA ClippedIsWhole ==
    ASSUME NEW lo \in Int, NEW width \in Int, NEW n \in Int,
           n > 0, width > 0, lo < n, lo + width > 0
    PROVE  LET c == clipped(lo, width, n)
           IN  /\ c.before >= 0 /\ c.after >= 0 /\ c.length > 0
               /\ c.before + c.length + c.after = width
BY DEF clipped, larger, smaller

(* A box that is seen can be cropped, and its window holds it. *)
holds(c, b) ==
    /\ c.x * Sub <= b.x1 /\ b.x2 <= (c.x + c.width) * Sub
    /\ c.y * Sub <= b.y1 /\ b.y2 <= (c.y + c.width) * Sub
    /\ \A along \in {c.across, c.down} :
          /\ along.before >= 0 /\ along.after >= 0 /\ along.length > 0
          /\ along.before + along.length + along.after = c.width

LEMMA CropHolds ==
    ASSUME NEW b \in Box, visible(b)
    PROVE  croppable(b) /\ holds(crop(b), b)
<1> DEFINE square == (10 + Margin) * larger(b.x2 - b.x1, b.y2 - b.y1)
           h      == side(b.x1, b.x2, square)
           v      == side(b.y1, b.y2, square)
           width  == larger(h.hi - h.lo, v.hi - v.lo)
           left   == widened(h, width)
           top    == widened(v, width)
<1>1. /\ b.x1 \in Int /\ b.x2 \in Int /\ b.y1 \in Int /\ b.y2 \in Int
      /\ b.x1 < b.x2 /\ b.y1 < b.y2
  BY DEF Box, visible
<1>2. square \in Int /\ 10 * (b.x2 - b.x1) <= square /\ 10 * (b.y2 - b.y1) <= square
  <2> DEFINE m == larger(b.x2 - b.x1, b.y2 - b.y1)
  <2>1. m \in Int /\ m > 0 /\ b.x2 - b.x1 <= m /\ b.y2 - b.y1 <= m
    BY <1>1 DEF larger
  <2> HIDE DEF m
  <2>2. (10 + Margin) * m \in Int /\ 10 * m <= (10 + Margin) * m
    BY <2>1, ProposalConstants
  <2>3. square = (10 + Margin) * m
    BY DEF m
  <2> HIDE DEF square
  <2> QED BY <1>1, <2>1, <2>2, <2>3
<1> HIDE DEF square
<1>3. /\ h \in [lo : Int, hi : Int] /\ h.lo * Sub <= b.x1 /\ b.x2 <= h.hi * Sub
      /\ v \in [lo : Int, hi : Int] /\ v.lo * Sub <= b.y1 /\ b.y2 <= v.hi * Sub
  <2>1. /\ h.lo \in Int /\ h.hi \in Int /\ h.lo * Sub <= b.x1 /\ b.x2 <= h.hi * Sub
        /\ v.lo \in Int /\ v.hi \in Int /\ v.lo * Sub <= b.y1 /\ b.y2 <= v.hi * Sub
    BY <1>1, <1>2, SideHolds
  <2>2. h = [lo |-> h.lo, hi |-> h.hi] /\ v = [lo |-> v.lo, hi |-> v.hi]
    BY DEF side
  <2> HIDE DEF h, v
  <2> QED BY <2>1, <2>2
<1> HIDE DEF h, v
<1>4. width \in Int /\ h.hi - h.lo <= width /\ v.hi - v.lo <= width
  BY <1>3 DEF larger
<1> HIDE DEF width
<1>5. /\ left \in Int /\ left <= h.lo /\ h.hi <= left + width
      /\ top \in Int /\ top <= v.lo /\ v.hi <= top + width
  BY <1>3, <1>4, WidenedHolds
<1> HIDE DEF left, top
<1>6. /\ left * Sub \in Int /\ left * Sub <= b.x1
      /\ (left + width) * Sub \in Int /\ b.x2 <= (left + width) * Sub
      /\ top * Sub \in Int /\ top * Sub <= b.y1
      /\ (top + width) * Sub \in Int /\ b.y2 <= (top + width) * Sub
  <2>1. /\ left * Sub <= h.lo * Sub /\ h.hi * Sub <= (left + width) * Sub
        /\ top * Sub <= v.lo * Sub /\ v.hi * Sub <= (top + width) * Sub
    BY <1>3, <1>4, <1>5, TimesSub
  <2>2. /\ left * Sub \in Int /\ (left + width) * Sub \in Int
        /\ top * Sub \in Int /\ (top + width) * Sub \in Int
        /\ h.lo * Sub \in Int /\ h.hi * Sub \in Int
        /\ v.lo * Sub \in Int /\ v.hi * Sub \in Int
    BY <1>3, <1>4, <1>5, ProposalConstants
  <2> QED BY <1>1, <1>3, <2>1, <2>2
<1>7. /\ left < cols /\ left + width > 0 /\ top < rows /\ top + width > 0 /\ width > 0
  <2>1. left < cols
    <3>1. SUFFICES ASSUME cols <= left PROVE FALSE
      BY <1>5, ProposalConstants
    <3>2. cols * Sub <= left * Sub
      BY <1>5, <3>1, TimesSub, ProposalConstants
    <3> QED BY <1>1, <1>6, <3>2, ProposalConstants DEF visible
  <2>2. top < rows
    <3>1. SUFFICES ASSUME rows <= top PROVE FALSE
      BY <1>5, ProposalConstants
    <3>2. rows * Sub <= top * Sub
      BY <1>5, <3>1, TimesSub, ProposalConstants
    <3> QED BY <1>1, <1>6, <3>2, ProposalConstants DEF visible
  <2>3. \A n \in Int : n * Sub > 0 => n > 0
    BY ProposalConstants
  <2>4. (left + width) * Sub > 0 /\ (top + width) * Sub > 0
    BY <1>1, <1>6 DEF visible
  <2>5. left + width > 0 /\ top + width > 0
    BY <1>4, <1>5, <2>3, <2>4
  <2>6. width > 0
    <3>1. SUFFICES ASSUME left + width <= left PROVE FALSE
      BY <1>4, <1>5
    <3>2. (left + width) * Sub <= left * Sub
      BY <1>4, <1>5, <3>1, TimesSub
    <3> QED BY <1>1, <1>6, <3>2
  <2> QED BY <2>1, <2>2, <2>5, <2>6
<1>8. crop(b) = [x |-> left, y |-> top, width |-> width,
                 across |-> clipped(left, width, cols), down |-> clipped(top, width, rows)]
  BY DEF crop, square, h, v, width, left, top
<1> DEFINE whole(c) == /\ c.before >= 0 /\ c.after >= 0 /\ c.length > 0
                       /\ c.before + c.length + c.after = width
<1>9. whole(clipped(left, width, cols)) /\ whole(clipped(top, width, rows))
  BY <1>4, <1>5, <1>7, ClippedIsWhole, ProposalConstants
<1>10. croppable(b)
  BY <1>1, <1>8, <1>9 DEF croppable
<1>11. holds(crop(b), b)
  BY <1>6, <1>8, <1>9 DEF holds
<1> QED BY <1>10, <1>11

(* The letterbox is undone exactly: a step on the canvas is step units of  *)
(* the frame, and the height of the picture becomes that of the frame.     *)
LEMMA LetterboxUndone ==
    ASSUME NEW p \in Outputs
    PROVE  MapsToFrame(p)
<1> DEFINE step == (cols * Sub) \div kModelSize
           k == kModelSize
           rh == resized_height
<1>1. /\ p.x1 \in Int /\ p.x2 \in Int /\ p.y1 \in Int /\ p.y2 \in Int
      /\ p \in Box
  BY ProposalAssumption DEF Box
<1>2. cols * Sub \in Int /\ cols * Sub > 0 /\ rows * Sub \in Int /\ rows * k \in Int
  BY ProposalConstants
<1>3. step \in Int /\ k * step = cols * Sub
  BY <1>2, Quotient, ProposalConstants, ProposalAssumption
<1>4. rh \in Int /\ cols * rh = rows * k
  BY <1>2, Quotient, ProposalConstants, ProposalAssumption DEF resized_height
<1>5. pad_x = 0 /\ pad_y \in Int
  BY <1>4, ProposalConstants DEF pad_x, pad_y
<1> DEFINE a == p.y1 - pad_y
           b == p.y2 - pad_y
<1>6. /\ decoded(p).x1 = limited(p.x1 * step, cols * Sub)
      /\ decoded(p).x2 = limited(p.x2 * step, cols * Sub)
      /\ decoded(p).y1 = limited(a * step, rows * Sub)
      /\ decoded(p).y2 = limited(b * step, rows * Sub)
  <2>1. p.x1 - pad_x = p.x1 /\ p.x2 - pad_x = p.x2
    BY <1>1, <1>5
  <2> QED BY <2>1 DEF decoded, toFrame
<1> HIDE DEF step, rh
<1>7. step > 0
  <2>1. SUFFICES ASSUME step <= 0 PROVE FALSE
    BY <1>3
  <2>2. k * step <= 0
    BY <1>3, <2>1, ProposalConstants
  <2> QED BY <1>2, <1>3, <2>2
<1>8. rh * step = rows * Sub
  <2>1. cols * (rh * step) = (cols * rh) * step
    BY <1>3, <1>4, ProposalConstants
  <2>2. (rows * k) * step = rows * (k * step)
    BY <1>3, ProposalConstants
  <2>3. rows * (cols * Sub) = cols * (rows * Sub)
    BY ProposalConstants
  <2>4. cols * (rh * step) = cols * (rows * Sub)
    BY <1>3, <1>4, <2>1, <2>2, <2>3
  <2>5. rh * step \in Int
    BY <1>3, <1>4
  <2>6. \A m, n \in Int : cols * m = cols * n => m = n
    BY ProposalConstants
  <2> QED BY <1>2, <2>4, <2>5, <2>6
<1>9. \A m, n \in Int : 0 <= m /\ m <= n => 0 <= m * step /\ m * step <= n * step
  BY <1>3, <1>7
<1>10. \A m \in Int : k * (m * step) = cols * Sub * m
  <2>1. SUFFICES ASSUME NEW m \in Int PROVE k * (m * step) = cols * Sub * m
    OBVIOUS
  <2>2. k * (m * step) = (k * step) * m
    BY <1>3, ProposalConstants
  <2> QED BY <1>3, <2>2
<1>11. \A m, n \in Int : k * (m * step - n * step) = cols * Sub * (m - n)
  <2>1. SUFFICES ASSUME NEW m \in Int, NEW n \in Int
                 PROVE  k * (m * step - n * step) = cols * Sub * (m - n)
    OBVIOUS
  <2>2. m * step - n * step = (m - n) * step
    BY <1>3
  <2>3. m - n \in Int
    OBVIOUS
  <2> QED BY <1>10, <2>2, <2>3
<1>12. SUFFICES ASSUME 0 <= p.x1, p.x1 <= p.x2, p.x2 <= kModelSize,
                       pad_y <= p.y1, p.y1 <= p.y2, p.y2 <= pad_y + rh
                PROVE  /\ k * decoded(p).y1 = cols * Sub * (p.y1 - pad_y)
                       /\ k * (decoded(p).y2 - decoded(p).y1) = cols * Sub * (p.y2 - p.y1)
                       /\ k * (decoded(p).x2 - decoded(p).x1) = cols * Sub * (p.x2 - p.x1)
  BY DEF MapsToFrame, rh
<1>13. a \in Int /\ b \in Int /\ 0 <= a /\ a <= b /\ b <= rh /\ b - a = p.y2 - p.y1
  BY <1>1, <1>4, <1>5, <1>12
<1> HIDE DEF a, b
<1>14. \A m, hi \in Int : 0 <= m /\ m <= hi => limited(m, hi) = m
  BY DEF limited
<1>15. decoded(p).x1 = p.x1 * step /\ decoded(p).x2 = p.x2 * step
  <2>1. /\ 0 <= p.x1 * step /\ p.x1 * step <= k * step
        /\ 0 <= p.x2 * step /\ p.x2 * step <= k * step
    BY <1>1, <1>9, <1>12, ProposalConstants
  <2>2. p.x1 * step \in Int /\ p.x2 * step \in Int
    BY <1>1, <1>3
  <2> QED BY <1>2, <1>3, <1>6, <1>14, <2>1, <2>2
<1>16. decoded(p).y1 = a * step /\ decoded(p).y2 = b * step
  <2>1. 0 <= a * step /\ a * step <= rh * step /\ 0 <= b * step /\ b * step <= rh * step
    BY <1>4, <1>9, <1>13
  <2>2. a * step \in Int /\ b * step \in Int
    BY <1>3, <1>13
  <2> QED BY <1>2, <1>6, <1>8, <1>14, <2>1, <2>2
<1>17. k * decoded(p).y1 = cols * Sub * (p.y1 - pad_y)
  BY <1>10, <1>13, <1>16 DEF a
<1>18. k * (decoded(p).y2 - decoded(p).y1) = cols * Sub * (p.y2 - p.y1)
  BY <1>11, <1>13, <1>16
<1>19. k * (decoded(p).x2 - decoded(p).x1) = cols * Sub * (p.x2 - p.x1)
  BY <1>1, <1>11, <1>15
<1> QED BY <1>17, <1>18, <1>19

-----------------------------------------------------------------------------
LEMMA ProposalInitInv == ProposalInit(FrameOutputs) => ProposalInv
<1>1. SUFFICES ASSUME ProposalInit(FrameOutputs) PROVE ProposalInv
  OBVIOUS
<1>2. PICK output \in [1 .. MaxOutputs -> Outputs] : predictions = Range(output)
  BY <1>1 DEF ProposalInit, FrameOutputs
<1>3. output \in Surjection(1 .. MaxOutputs, predictions) /\ predictions \subseteq Outputs
  BY <1>2 DEF Surjection, Range
<1>4. IsFiniteSet(predictions)
  BY <1>3, FS_Surjection, FS_Interval, ProposalConstants
<1> QED BY <1>1, <1>3, <1>4, ProposalConstants
        DEF ProposalInit, ProposalInv, ProposalTypes, OrderedInv, ApartInv, VisibleInv,
            KeptInv, CropInv, inOrder

LEMMA DecodeStep ==
    ASSUME ProposalInv, NEW s \in SetToSeqs({p \in predictions : passes(p)}), Decode(s)
    PROVE  ProposalInv'
<1> DEFINE S == {p \in predictions : passes(p)}
<1>1. predictions \subseteq Outputs /\ IsFiniteSet(predictions)
  BY DEF ProposalInv, ProposalTypes
<1>2. IsFiniteSet(S)
  BY <1>1, FS_Subset
<1>3. s \in Seq(S) /\ \A p \in S : \E i \in DOMAIN s : s[i] = p
  BY <1>2, Arranged
<1>4. \A i \in DOMAIN s : s[i] \in predictions /\ s[i] \in Outputs /\ passes(s[i])
  BY <1>1, <1>3
<1>5. /\ DOMAIN boxes' = DOMAIN s /\ boxes' \in Seq(Box)
      /\ \A i \in DOMAIN s : boxes'[i] = decoded(s[i]) /\ visible(boxes'[i])
  BY <1>3, <1>4, DecodedBox DEF Decode
<1>6. /\ stage = "sort" /\ stage' = "nms" /\ inOrder(s)
      /\ UNCHANGED <<predictions, proposals, candidate, crops>>
  BY DEF Decode
<1>7. proposals = << >>
  BY <1>6 DEF ProposalInv, OrderedInv
<1>8. inOrder(boxes')
  <2>1. \A i \in DOMAIN s : boxes'[i].score = s[i].score
    BY <1>5 DEF decoded
  <2> QED BY <1>5, <1>6, <2>1 DEF inOrder
<1>9. KeptInv'
  <2>1. ASSUME NEW p \in predictions, passes(p)
        PROVE  \E j \in DOMAIN boxes' : boxes'[j] = decoded(p)
    BY <1>3, <1>5, <2>1
  <2> QED BY <1>6, <2>1 DEF KeptInv
<1>10. ProposalTypes'
  BY <1>5, <1>6 DEF ProposalInv, ProposalTypes
<1>11. OrderedInv'
  BY <1>6, <1>7, <1>8, ProposalConstants DEF OrderedInv, inOrder
<1>12. ApartInv' /\ VisibleInv'
  BY <1>5, <1>6, <1>7 DEF ApartInv, VisibleInv
<1>13. CropInv'
  BY <1>6 DEF ProposalInv, CropInv
<1> QED BY <1>9, <1>10, <1>11, <1>12, <1>13 DEF ProposalInv

(* The next box is covered by one that was kept, or kept itself, apart     *)
(* from all before it; those after it are no stronger.                     *)
LEMMA SuppressStep ==
    ASSUME ProposalInv, Suppress
    PROVE  ProposalInv'
<1> DEFINE box == boxes[1]
           n == Len(proposals)
<1>1. /\ stage = "nms" /\ boxes # << >> /\ n < max_candidates
      /\ boxes' = Tail(boxes)
      /\ UNCHANGED <<stage, predictions, candidate, crops>>
  BY DEF Suppress
<1>2. /\ boxes \in Seq(Box) /\ proposals \in Seq(Box) /\ predictions \subseteq Outputs
      /\ n \in Nat /\ candidate = 0
  BY <1>1 DEF ProposalInv, ProposalTypes, CropInv
<1>3. /\ Head(boxes) = box /\ box \in Box /\ 1 \in DOMAIN boxes
      /\ boxes' \in Seq(Box) /\ Len(boxes') = Len(boxes) - 1 /\ Len(boxes) \in Nat
      /\ DOMAIN boxes' = 1 .. Len(boxes) - 1 /\ DOMAIN boxes = 1 .. Len(boxes)
      /\ \A j \in 1 .. Len(boxes) - 1 : boxes'[j] = boxes[j + 1]
  BY <1>1, <1>2
<1>4. /\ suppressed(box) => proposals' = proposals
      /\ ~suppressed(box) => proposals' = Append(proposals, box)
  BY <1>3 DEF Suppress
<1>5. /\ \A i \in 1 .. n : proposals'[i] = proposals[i] /\ i \in DOMAIN proposals'
      /\ proposals' \in Seq(Box) /\ DOMAIN proposals = 1 .. n
      /\ \A i \in DOMAIN proposals' : i \in 1 .. n \/ i = n + 1
      /\ n + 1 \in DOMAIN proposals' => proposals'[n + 1] = box /\ ~suppressed(box)
      /\ ~suppressed(box) => n + 1 \in DOMAIN proposals'
      /\ Len(proposals') \in {n, n + 1}
  <2> HIDE DEF box
  <2>1. CASE suppressed(box)
    BY <1>2, <1>3, <1>4, <2>1
  <2>2. CASE ~suppressed(box)
    <3>1. proposals' = Append(proposals, box) /\ box \in Box
      BY <1>3, <1>4, <2>2
    <3>2. /\ proposals' \in Seq(Box) /\ Len(proposals') = n + 1
          /\ DOMAIN proposals = 1 .. n /\ DOMAIN proposals' = 1 .. n + 1
          /\ proposals'[n + 1] = box
          /\ \A i \in 1 .. n : proposals'[i] = proposals[i]
      BY <1>2, <3>1
    <3> QED BY <1>2, <2>2, <3>2
  <2> QED BY <2>1, <2>2
<1>6. /\ \A i \in 1 .. n, j \in DOMAIN boxes : proposals[i].score >= boxes[j].score
      /\ \A i, j \in DOMAIN boxes : i < j => boxes[i].score >= boxes[j].score
  BY <1>5 DEF ProposalInv, OrderedInv, inOrder
<1>7. /\ \A j \in DOMAIN boxes' : boxes'[j] \in Box /\ box.score >= boxes'[j].score
      /\ box.score \in Int
      /\ \A i \in 1 .. n : proposals[i].score \in Int
  <2>1. \A j \in DOMAIN boxes' : j + 1 \in DOMAIN boxes /\ 1 < j + 1 /\ boxes'[j] = boxes[j + 1]
    BY <1>3
  <2>2. ASSUME NEW j \in DOMAIN boxes'
        PROVE  boxes'[j] \in Box /\ box.score >= boxes'[j].score
    <3>1. boxes'[j] \in Box
      BY <1>3
    <3> QED BY <1>3, <1>6, <2>1, <3>1
  <2>3. \A b \in Box : b.score \in Int
    BY DEF Box
  <2>4. \A i \in 1 .. n : proposals[i] \in Box
    BY <1>2, <1>5
  <2> QED BY <1>3, <2>2, <2>3, <2>4
<1>8. ProposalTypes'
  BY <1>1, <1>2, <1>3, <1>5 DEF ProposalInv, ProposalTypes
<1>9. OrderedInv'
  <2>1. \A j \in DOMAIN boxes' : j + 1 \in DOMAIN boxes /\ boxes'[j] = boxes[j + 1]
    BY <1>3
  <2>2. inOrder(boxes')
    <3>1. SUFFICES ASSUME NEW i \in DOMAIN boxes', NEW j \in DOMAIN boxes', i < j
                   PROVE  boxes'[i].score >= boxes'[j].score
      BY DEF inOrder
    <3>2. i + 1 < j + 1
      BY <1>3, <3>1
    <3> QED BY <1>6, <2>1, <3>2
  <2>3. ASSUME NEW i \in DOMAIN proposals', NEW j \in DOMAIN boxes'
        PROVE  proposals'[i].score >= boxes'[j].score
    <3>1. CASE i \in 1 .. n
      BY <1>5, <1>6, <2>1, <3>1
    <3>2. CASE i = n + 1
      BY <1>5, <1>7, <3>2
    <3> QED BY <1>5, <3>1, <3>2
  <2> QED BY <1>1, <1>2, <1>5, <2>2, <2>3, ProposalConstants DEF OrderedInv, inOrder
<1>10. ApartInv'
  <2>1. \A i, j \in 1 .. n : i # j => ~overlap(proposals[i], proposals[j])
    BY <1>5 DEF ProposalInv, ApartInv
  <2>2. ~suppressed(box) => \A i \in 1 .. n : ~overlap(box, proposals[i])
    BY <1>5 DEF suppressed
  <2>3. \A i \in 1 .. n : overlap(proposals[i], box) <=> overlap(box, proposals[i])
    BY <1>2, <1>3, <1>5, OverlapIsMutual
  <2>4. ASSUME NEW i \in DOMAIN proposals', NEW j \in DOMAIN proposals', i # j
        PROVE  ~overlap(proposals'[i], proposals'[j])
    <3>1. CASE i \in 1 .. n /\ j \in 1 .. n
      BY <1>5, <2>1, <2>4, <3>1
    <3>2. CASE i \in 1 .. n /\ j = n + 1
      BY <1>5, <2>2, <2>3, <3>2
    <3>3. CASE i = n + 1 /\ j \in 1 .. n
      BY <1>5, <2>2, <3>3
    <3> QED BY <1>5, <2>4, <3>1, <3>2, <3>3
  <2> QED BY <2>4 DEF ApartInv
<1>11. VisibleInv'
  <2>1. /\ \A j \in DOMAIN boxes : visible(boxes[j])
        /\ \A i \in 1 .. n : visible(proposals[i])
    BY <1>5 DEF ProposalInv, VisibleInv
  <2>2. \A j \in DOMAIN boxes' : visible(boxes'[j])
    BY <1>3, <2>1
  <2>3. \A i \in DOMAIN proposals' : visible(proposals'[i])
    BY <1>3, <1>5, <2>1
  <2> QED BY <2>2, <2>3 DEF VisibleInv
<1>12. KeptInv'
  <2>1. ASSUME NEW p \in predictions, passes(p)
        PROVE  \/ \E j \in DOMAIN boxes' : boxes'[j] = decoded(p)
               \/ \E i \in DOMAIN proposals' :
                    /\ proposals'[i].score >= decoded(p).score
                    /\ proposals'[i] = decoded(p) \/ overlap(decoded(p), proposals'[i])
    <3>1. \/ \E j \in DOMAIN boxes : boxes[j] = decoded(p)
          \/ \E i \in DOMAIN proposals : kept(decoded(p), i)
      BY <1>1, <2>1 DEF ProposalInv, KeptInv
    <3>2. CASE \E i \in DOMAIN proposals : kept(decoded(p), i)
      BY <1>5, <3>2 DEF kept
    <3>3. CASE \E j \in DOMAIN boxes : j # 1 /\ boxes[j] = decoded(p)
      <4>1. PICK j \in DOMAIN boxes : j # 1 /\ boxes[j] = decoded(p)
        BY <3>3
      <4>2. j - 1 \in DOMAIN boxes' /\ boxes'[j - 1] = boxes[j]
        BY <1>3, <4>1
      <4> QED BY <4>1, <4>2
    <3>4. CASE box = decoded(p) /\ ~suppressed(box)
      <4>1. n + 1 \in DOMAIN proposals' /\ proposals'[n + 1] = box
        BY <1>5, <3>4
      <4> QED BY <1>7, <3>4, <4>1
    <3>5. CASE box = decoded(p) /\ suppressed(box)
      <4>1. PICK i \in 1 .. n : overlap(box, proposals[i])
        BY <1>5, <3>5 DEF suppressed
      <4>2. proposals[i].score >= box.score
        BY <1>3, <1>6
      <4> QED BY <1>5, <3>5, <4>1, <4>2
    <3> QED BY <3>1, <3>2, <3>3, <3>4, <3>5
  <2> QED BY <1>1, <2>1 DEF KeptInv, kept
<1>13. CropInv'
  BY <1>1, <1>2 DEF ProposalInv, CropInv
<1> QED BY <1>8, <1>9, <1>10, <1>11, <1>12, <1>13 DEF ProposalInv

(* The candidates of main(): those of the proposer, or one of its own.     *)
LEMMA ProposedStep ==
    ASSUME ProposalInv, NEW own \in NoOutputBoxes, Proposed(own)
    PROVE  ProposalInv'
<1>1. /\ stage = "nms" /\ stage' = "crop" /\ boxes' = << >>
      /\ boxes = << >> \/ Len(proposals) = max_candidates
      /\ proposals' = proposals \/ (proposals = << >> /\ proposals' = <<own>>)
      /\ UNCHANGED <<predictions, candidate, crops>>
  BY DEF Proposed
<1>2. own \in Box /\ visible(own)
  BY ProposalAssumption
<1>3. /\ boxes \in Seq(Box) /\ proposals \in Seq(Box) /\ candidate = 0
      /\ Len(proposals) \in Nat /\ DOMAIN proposals = 1 .. Len(proposals)
  BY <1>1 DEF ProposalInv, ProposalTypes, CropInv
<1>4. ASSUME NEW p \in predictions, passes(p)
      PROVE  \/ \E i \in DOMAIN proposals : kept(decoded(p), i)
             \/ /\ Len(proposals) = max_candidates
                /\ \A i \in DOMAIN proposals : proposals[i].score >= decoded(p).score
  <2>1. CASE \E i \in DOMAIN proposals : kept(decoded(p), i)
    BY <2>1
  <2>2. CASE \E j \in DOMAIN boxes : boxes[j] = decoded(p)
    <3>1. PICK j \in DOMAIN boxes : boxes[j] = decoded(p)
      BY <2>2
    <3>2. boxes # << >>
      BY <1>3, <3>1
    <3> QED BY <1>1, <3>1, <3>2 DEF ProposalInv, OrderedInv
  <2> QED BY <1>1, <1>4, <2>1, <2>2 DEF ProposalInv, KeptInv
<1>5. CASE proposals' = proposals
  <2>1. ProposalTypes' /\ OrderedInv' /\ ApartInv' /\ VisibleInv' /\ CropInv'
    BY <1>1, <1>3, <1>5
       DEF ProposalInv, ProposalTypes, OrderedInv, ApartInv, VisibleInv, CropInv, inOrder
  <2>2. KeptInv'
    BY <1>1, <1>4, <1>5 DEF KeptInv, kept
  <2> QED BY <2>1, <2>2 DEF ProposalInv
<1>6. CASE proposals = << >> /\ proposals' = <<own>>
  <2>1. \A p \in predictions : ~passes(p)
    BY <1>3, <1>4, <1>6, ProposalConstants
  <2>2. /\ proposals' \in Seq(Box) /\ Len(proposals') = 1 /\ DOMAIN proposals' = {1}
        /\ proposals'[1] = own
    BY <1>2, <1>6
  <2>3. ProposalTypes' /\ CropInv'
    BY <1>1, <1>3, <2>2 DEF ProposalInv, ProposalTypes, CropInv
  <2>4. OrderedInv' /\ ApartInv' /\ VisibleInv'
    BY <1>1, <1>2, <2>2, ProposalConstants DEF OrderedInv, ApartInv, VisibleInv, inOrder
  <2>5. KeptInv'
    BY <1>1, <2>1 DEF KeptInv
  <2> QED BY <2>3, <2>4, <2>5 DEF ProposalInv
<1> QED BY <1>1, <1>5, <1>6

(* Every candidate is seen in the frame, so each gives a crop. *)
LEMMA CropStep ==
    ASSUME ProposalInv, Crop
    PROVE  ProposalInv'
<1> DEFINE b == proposals[candidate + 1]
<1>1. /\ stage = "crop" /\ candidate < Len(proposals) /\ candidate' = candidate + 1
      /\ crops' = IF croppable(b) THEN Append(crops, crop(b)) ELSE crops
      /\ UNCHANGED <<stage, predictions, boxes, proposals>>
  BY DEF Crop
<1>2. /\ proposals \in Seq(Box) /\ candidate \in Nat /\ Len(proposals) \in Nat
      /\ candidate + 1 \in DOMAIN proposals
  BY <1>1 DEF ProposalInv, ProposalTypes
<1>3. croppable(b)
  BY <1>2, CropHolds DEF ProposalInv, VisibleInv
<1>4. crops = [i \in 1 .. candidate |-> crop(proposals[i])]
  BY DEF ProposalInv, CropInv
<1>5. crops' = [i \in 1 .. candidate + 1 |-> crop(proposals[i])]
  <2> DEFINE f(i) == crop(proposals[i])
  <2>1. f(candidate + 1) = crop(b)
    OBVIOUS
  <2>2. crops = [i \in 1 .. candidate |-> f(i)] /\ crops' = Append(crops, f(candidate + 1))
    BY <1>1, <1>3, <1>4
  <2> HIDE DEF f
  <2>3. crops' = [i \in 1 .. candidate + 1 |-> f(i)]
    BY <1>2, <2>2
  <2> QED BY <2>3 DEF f
<1>6. CropInv'
  BY <1>1, <1>5 DEF CropInv
<1>7. ProposalTypes' /\ OrderedInv' /\ ApartInv' /\ VisibleInv' /\ KeptInv'
  BY <1>1, <1>2
     DEF ProposalInv, ProposalTypes, OrderedInv, ApartInv, VisibleInv, KeptInv, kept, inOrder
<1> QED BY <1>6, <1>7 DEF ProposalInv

LEMMA ProposalInvariant == ProposalSpec => []ProposalInv
<1>1. ProposalInv /\ [ProposalNext]_proposalVars => ProposalInv'
  <2>1. SUFFICES ASSUME ProposalInv, [ProposalNext]_proposalVars PROVE ProposalInv'
    OBVIOUS
  <2>2. CASE FrameDone
    BY <2>1, <2>2
       DEF FrameDone, ProposalInv, ProposalTypes, OrderedInv, ApartInv, VisibleInv,
           KeptInv, kept, inOrder, CropInv
  <2>3. CASE UNCHANGED proposalVars
    BY <2>1, <2>3
       DEF proposalVars, ProposalInv, ProposalTypes, OrderedInv, ApartInv, VisibleInv,
           KeptInv, kept, inOrder, CropInv
  <2> QED BY <2>1, <2>2, <2>3, DecodeStep, SuppressStep, ProposedStep, CropStep
          DEF ProposalNext
<1> QED BY ProposalInitInv, <1>1, PTL DEF ProposalSpec

(* Whatever the network returns, in whatever order boxes of equal score    *)
(* come: no box over the threshold is lost but to one that is as strong    *)
(* and covers it, or to the cap, and no two proposals overlap by more than *)
(* the threshold.                                                          *)
THEOREM ProposerLosesNothing == ProposalSpec => []NothingLost
<1>1. ProposalInv => NothingLost
  <2>1. SUFFICES ASSUME ProposalInv, Complete PROVE NothingLost
    BY DEF NothingLost
  <2>2. boxes = << >> /\ stage # "sort" /\ stage # "nms"
    BY <2>1 DEF ProposalInv, OrderedInv, Complete
  <2> QED BY <2>1, <2>2 DEF ProposalInv, KeptInv, kept, ApartInv, NothingLost
<1> QED BY <1>1, ProposalInvariant, PTL

(* For every frame and canvas size, margin and box, also at the edge of    *)
(* the frame: each candidate gives a crop, whose square window holds the   *)
(* whole box, at the place in the frame where the network saw it.          *)
THEOREM CropperHoldsBox == ProposalSpec => []WindowHoldsBox
<1>1. ProposalInv => WindowHoldsBox
  <2>1. SUFFICES ASSUME ProposalInv, stage = "done" PROVE WindowHoldsBox
    BY DEF WindowHoldsBox
  <2>2. /\ predictions \subseteq Outputs /\ proposals \in Seq(Box)
        /\ crops = [i \in 1 .. Len(proposals) |-> crop(proposals[i])]
        /\ \A i \in DOMAIN proposals : visible(proposals[i])
    BY <2>1 DEF ProposalInv, ProposalTypes, VisibleInv, CropInv
  <2>3. /\ Len(crops) = Len(proposals) /\ DOMAIN crops = DOMAIN proposals
        /\ \A i \in DOMAIN crops : crops[i] = crop(proposals[i])
    BY <2>2
  <2>4. \A i \in DOMAIN crops : holds(crops[i], proposals[i])
    BY <2>2, <2>3, CropHolds
  <2>5. \A p \in predictions : MapsToFrame(p)
    BY <2>2, LetterboxUndone
  <2> QED BY <2>3, <2>4, <2>5 DEF WindowHoldsBox, holds
<1> QED BY <1>1, ProposalInvariant, PTL
=============================================================================
