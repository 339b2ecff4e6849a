--------------------------- MODULE PsSafetyProofs ---------------------------
(***************************************************************************)
(* The safety path of the PS for every camera, configuration, sequence of  *)
(* requests and results, and every timing of its two threads: first the    *)
(* transmitter by itself, for every period, timeout and jitter.            *)
(*                                                                         *)
(* PsInv is the inductive invariant.  It says where the server is with the *)
(* transmitter (ServerInv: it publishes in the order of its clock readings *)
(* and Stop before the end), that no observation of a frame is dropped for *)
(* want of a slot (RoomInv), and what the decision in hand or the one      *)
(* published owes to the latch, to a sign and to a hazard that was seen    *)
(* (DecisionInv, HazardInv).                                               *)
(***************************************************************************)
EXTENDS PsSafety, LatchFacts, TLAPS

-----------------------------------------------------------------------------
(* The transmitter by itself.  The properties speak of what is on the      *)
(* UART; what makes them inductive is where the thread is in its cycle:    *)
(* the end of its sleep is within a period of the tick that sent the state *)
(* (TxCycle).                                                              *)

(* The clock is ahead of every recorded time, and the thread is never more *)
(* than MaxJitter late.                                                    *)
TxOrder ==
    /\ decided_at_ms <= now
    /\ raised_at <= now
    /\ wake <= now + period_ms
    /\ thread = "check" => now <= wake + MaxJitter
    /\ thread = "tick"  => now <= wake - period_ms + MaxJitter

(* The thread is only told to end once Stop is published. *)
TxEnding ==
    /\ transmitter_stop => published = Stop
    /\ thread = "done" => transmitter_stop

(* The end of the sleep, measured from the decision behind a state on the  *)
(* UART and from the publication of a worse one.                           *)
TxCycle ==
    /\ last_sent # Stop /\ ~lost =>
        /\ thread = "check" => wake < decided_at_ms + decision_timeout_ms + period_ms
        /\ thread = "tick"  => wake < decided_at_ms + decision_timeout_ms
                                        + 2 * period_ms + MaxJitter
    /\ last_sent < published /\ ~lost =>
        /\ thread = "check" => wake <= raised_at + period_ms
        /\ thread = "tick"  => wake <= raised_at + 2 * period_ms + MaxJitter

TxInv == TxTypeOK /\ TxOrder /\ TxEnding /\ StopIsImmediate /\ TxCycle

(* What the transmitter promises follows from the invariant. *)
LEMMA TxInvSuffices == TxInv => StaleStops /\ WorseReachesWire
<1> SUFFICES ASSUME TxInv PROVE StaleStops /\ WorseReachesWire
  OBVIOUS
<1>1. /\ now \in Nat /\ wake \in Nat /\ decided_at_ms \in Nat /\ raised_at \in Nat
      /\ period_ms \in Nat /\ decision_timeout_ms \in Nat /\ MaxJitter \in Nat
      /\ thread \in {"check", "tick", "done"}
      /\ published \in State /\ last_sent \in State
  BY TransmitterAssumption DEF TxInv, TxTypeOK
<1>2. thread = "done" /\ ~lost => last_sent = Stop /\ published = Stop
  BY DEF TxInv, TxEnding, StopIsImmediate
<1>3. StaleStops
  BY <1>1, <1>2 DEF TxInv, TxOrder, TxCycle, StaleStops, Lag
<1>4. WorseReachesWire
  BY <1>1, <1>2 DEF TxInv, TxOrder, TxCycle, WorseReachesWire, Lag, Stop
<1> QED BY <1>3, <1>4

(* It holds when the thread starts. *)
LEMMA TxInvInit == TxInit => TxInv
<1> SUFFICES ASSUME TxInit PROVE TxInv
  OBVIOUS
<1> USE TransmitterAssumption
<1>1. TxTypeOK
  <2>1. decision_seen \in BOOLEAN /\ transmitter_stop \in BOOLEAN /\ lost \in BOOLEAN
    BY DEF TxInit
  <2>2. /\ now \in 0 .. MaxTime /\ decided_at_ms \in Nat /\ wake \in Nat
        /\ failures \in 0 .. MaxFailures /\ raised_at \in Nat
    BY DEF TxInit
  <2>3. /\ published \in State /\ last_sent \in State
        /\ thread \in {"check", "tick", "done"}
    BY DEF TxInit, State
  <2> QED BY <2>1, <2>2, <2>3 DEF TxTypeOK
<1>2. TxOrder
  BY DEF TxInit, TxOrder
<1>3. TxEnding /\ StopIsImmediate
  BY DEF TxInit, TxEnding, StopIsImmediate
<1>4. TxCycle
  BY DEF TxInit, TxCycle, Stop
<1> QED BY <1>1, <1>2, <1>3, <1>4 DEF TxInv

(* sendLocked leaves the state on the UART, or counts a failure. *)
LEMMA SendType ==
    ASSUME TxTypeOK, NEW told \in State, sendLocked(told)
    PROVE  /\ last_sent' \in State
           /\ failures' \in 0 .. MaxFailures
           /\ lost' \in BOOLEAN
           /\ ~lost' => last_sent' = told
<1>1. last_sent' \in State /\ failures' \in 0 .. MaxFailures
  BY TransmitterAssumption DEF TxTypeOK, sendLocked
<1>2. lost' \in BOOLEAN /\ (~lost' => last_sent' = told)
  BY DEF sendLocked
<1> QED BY <1>1, <1>2

-----------------------------------------------------------------------------
(* The types as the steps below use them. *)
LEMMA TxTypes ==
    ASSUME TxTypeOK
    PROVE  /\ now \in Nat /\ wake \in Nat /\ decided_at_ms \in Nat
           /\ raised_at \in Nat /\ period_ms \in Nat \ {0}
           /\ decision_timeout_ms \in Nat \ {0} /\ MaxJitter \in Nat
           /\ published \in State /\ last_sent \in State
           /\ thread \in {"check", "tick", "done"}
BY TransmitterAssumption DEF TxTypeOK

(* The loop test of run(). *)
LEMMA RunCheckStep == TxInv /\ RunCheck => TxInv'
<1> SUFFICES ASSUME TxInv, RunCheck PROVE TxInv'
  OBVIOUS
<1>t. TxTypeOK /\ TxOrder /\ TxEnding /\ StopIsImmediate /\ TxCycle
  BY DEF TxInv
<1>n. /\ now \in Nat /\ wake \in Nat /\ decided_at_ms \in Nat
      /\ raised_at \in Nat /\ period_ms \in Nat /\ MaxJitter \in Nat
      /\ decision_timeout_ms \in Nat /\ published \in State /\ last_sent \in State
  BY <1>t, TxTypes
<1>u. /\ thread = "check" /\ now >= wake
      /\ UNCHANGED <<now, published, decided_at_ms, decision_seen, last_sent,
                     failures, lost, transmitter_stop, raised_at>>
  BY DEF RunCheck, sendVars
<1>1. CASE transmitter_stop
  <2>1. thread' = "done" /\ wake' = wake
    BY <1>1 DEF RunCheck
  <2>2. TxTypeOK'
    BY <1>t, <1>u, <2>1 DEF TxTypeOK
  <2>3. TxOrder' /\ TxEnding' /\ StopIsImmediate' /\ TxCycle'
    BY <1>t, <1>u, <1>1, <2>1 DEF TxOrder, TxEnding, StopIsImmediate, TxCycle
  <2> QED BY <2>2, <2>3 DEF TxInv
<1>2. CASE ~transmitter_stop
  <2>1. thread' = "tick" /\ wake' = now + period_ms
    BY <1>2 DEF RunCheck
  <2>2. TxTypeOK'
    BY <1>t, <1>n, <1>u, <2>1 DEF TxTypeOK
  <2>3. TxOrder'
    BY <1>t, <1>n, <1>u, <2>1 DEF TxOrder
  <2>4. TxEnding' /\ StopIsImmediate'
    BY <1>t, <1>u, <2>1 DEF TxEnding, StopIsImmediate
  <2>5. TxCycle'
    BY <1>t, <1>n, <1>u, <2>1 DEF TxCycle, TxOrder
  <2> QED BY <2>2, <2>3, <2>4, <2>5 DEF TxInv
<1> QED BY <1>1, <1>2

(* One tick: what it sends is fresh or Stop, and not behind the decision. *)
LEMMA RunTickStep == TxInv /\ RunTick => TxInv'
<1> SUFFICES ASSUME TxInv, RunTick PROVE TxInv'
  OBVIOUS
<1>t. TxTypeOK /\ TxOrder /\ TxEnding /\ StopIsImmediate /\ TxCycle
  BY DEF TxInv
<1>n. /\ now \in Nat /\ wake \in Nat /\ decided_at_ms \in Nat
      /\ raised_at \in Nat /\ period_ms \in Nat /\ MaxJitter \in Nat
      /\ decision_timeout_ms \in Nat /\ published \in State /\ last_sent \in State
  BY <1>t, TxTypes
<1>u. /\ thread = "tick" /\ thread' = "check"
      /\ UNCHANGED <<now, published, decided_at_ms, decision_seen, wake,
                     transmitter_stop, raised_at>>
  BY DEF RunTick
<1> DEFINE told == IF stale THEN Stop ELSE published
<1>1. told \in State /\ sendLocked(told)
  BY <1>n DEF RunTick, tick, State
<1>2. told # Stop => now - decided_at_ms < decision_timeout_ms
  BY <1>t, <1>n DEF stale, TxOrder
<1>3. ~(told < published)
  BY <1>n DEF State, Clear, Slow, Stop
<1> HIDE DEF told
<1>4. /\ last_sent' \in State /\ failures' \in 0 .. MaxFailures
      /\ lost' \in BOOLEAN /\ (~lost' => last_sent' = told)
  BY <1>t, <1>1, SendType
<1>5. TxTypeOK'
  BY <1>t, <1>u, <1>4 DEF TxTypeOK
<1>6. TxOrder'
  BY <1>t, <1>n, <1>u DEF TxOrder
<1>7. TxEnding'
  BY <1>t, <1>u DEF TxEnding
<1>8. StopIsImmediate'
  <2>1. published = Stop => told = Stop
    BY DEF told
  <2> QED BY <1>u, <1>4, <2>1 DEF StopIsImmediate
<1>9. TxCycle'
  <2>1. told # Stop => wake < decided_at_ms + decision_timeout_ms + period_ms
    BY <1>t, <1>n, <1>u, <1>2 DEF TxOrder
  <2>2. last_sent' # Stop /\ ~lost' =>
            wake' < decided_at_ms' + decision_timeout_ms + period_ms
    BY <1>u, <1>4, <2>1
  <2>3. ~lost' => ~(last_sent' < published')
    BY <1>u, <1>3, <1>4
  <2> QED BY <1>u, <2>2, <2>3 DEF TxCycle
<1> QED BY <1>5, <1>6, <1>7, <1>8, <1>9 DEF TxInv

(* Time passes while the thread is not late. *)
LEMMA AdvanceStep == TxInv /\ Advance => TxInv'
<1> SUFFICES ASSUME TxInv, Advance PROVE TxInv'
  OBVIOUS
<1>t. TxTypeOK /\ TxOrder /\ TxEnding /\ StopIsImmediate /\ TxCycle
  BY DEF TxInv
<1>n. /\ now \in Nat /\ wake \in Nat /\ decided_at_ms \in Nat
      /\ raised_at \in Nat /\ period_ms \in Nat /\ MaxJitter \in Nat
      /\ decision_timeout_ms \in Nat /\ published \in State /\ last_sent \in State
  BY <1>t, TxTypes
<1>u. /\ now' = now + 1 /\ now < MaxTime /\ InTime
      /\ UNCHANGED <<published, decided_at_ms, decision_seen, last_sent, failures,
                     lost, thread, wake, transmitter_stop, raised_at>>
  BY DEF Advance, sendVars
<1>1. now' \in 0 .. MaxTime
  BY <1>n, <1>u, TransmitterAssumption
<1>2. TxTypeOK'
  BY <1>t, <1>u, <1>1 DEF TxTypeOK
<1>3. TxOrder'
  BY <1>t, <1>n, <1>u DEF TxOrder, InTime
<1>4. TxEnding' /\ StopIsImmediate' /\ TxCycle'
  BY <1>t, <1>u DEF TxEnding, StopIsImmediate, TxCycle
<1> QED BY <1>2, <1>3, <1>4 DEF TxInv

(* A decision is published, not older than the one before it. *)
LEMMA PublishStep ==
    ASSUME TxInv, ~transmitter_stop,
           NEW told \in State, NEW at \in decided_at_ms .. now,
           publish(told, at), UNCHANGED <<now, thread, wake, transmitter_stop>>
    PROVE  TxInv'
<1>t. TxTypeOK /\ TxOrder /\ TxEnding /\ StopIsImmediate /\ TxCycle
  BY DEF TxInv
<1>n. /\ now \in Nat /\ wake \in Nat /\ decided_at_ms \in Nat
      /\ raised_at \in Nat /\ period_ms \in Nat /\ MaxJitter \in Nat
      /\ decision_timeout_ms \in Nat /\ published \in State /\ last_sent \in State
      /\ at \in Nat /\ at >= decided_at_ms /\ at <= now
  BY <1>t, TxTypes
<1>u. /\ published' = told /\ decided_at_ms' = at
      /\ raised_at' = IF told > published THEN now ELSE raised_at
      /\ UNCHANGED <<now, thread, wake, transmitter_stop>>
  BY DEF publish
<1>b. decision_seen' \in BOOLEAN
  BY DEF publish
<1>r. raised_at' \in Nat /\ raised_at' <= now'
  BY <1>t, <1>n, <1>u DEF TxOrder
<1>e. TxEnding'
  BY <1>t, <1>u DEF TxEnding
<1>o. TxOrder'
  BY <1>t, <1>n, <1>u, <1>r DEF TxOrder
<1>1. CASE told = Stop /\ published # Stop
  <2>1. sendLocked(Stop) /\ Stop \in State
    BY <1>1 DEF publish, State
  <2>2. /\ last_sent' \in State /\ failures' \in 0 .. MaxFailures
        /\ lost' \in BOOLEAN /\ (~lost' => last_sent' = Stop)
    BY <1>t, <2>1, SendType
  <2>3. TxTypeOK'
    BY <1>t, <1>n, <1>u, <1>b, <1>r, <2>2 DEF TxTypeOK
  <2>4. StopIsImmediate' /\ TxCycle'
    BY <1>1, <1>u, <2>2 DEF StopIsImmediate, TxCycle, Stop
  <2> QED BY <1>e, <1>o, <2>3, <2>4 DEF TxInv
<1>2. CASE ~(told = Stop /\ published # Stop)
  <2>1. UNCHANGED <<last_sent, failures, lost>>
    BY <1>2 DEF publish, sendVars
  <2>2. TxTypeOK'
    BY <1>t, <1>n, <1>u, <1>b, <1>r, <2>1 DEF TxTypeOK
  <2>3. StopIsImmediate'
    BY <1>t, <1>u, <1>2, <2>1 DEF StopIsImmediate
  <2>4. TxCycle'
    <3>1. CASE told > published
      BY <1>t, <1>n, <1>u, <2>1, <3>1 DEF TxCycle, TxOrder
    <3>2. CASE ~(told > published)
      <4>1. last_sent < told => last_sent < published
        BY <1>n, <3>2 DEF State, Clear, Slow, Stop
      <4> QED BY <1>t, <1>n, <1>u, <2>1, <3>2, <4>1 DEF TxCycle
    <3> QED BY <3>1, <3>2
  <2> QED BY <1>e, <1>o, <2>2, <2>3, <2>4 DEF TxInv
<1> QED BY <1>1, <1>2

(* The thread is told to end. *)
LEMMA RequestStopStep == TxInv /\ RequestStop => TxInv'
<1> SUFFICES ASSUME TxInv, RequestStop PROVE TxInv'
  OBVIOUS
<1>1. /\ transmitter_stop' = TRUE /\ published = Stop
      /\ UNCHANGED <<now, published, decided_at_ms, decision_seen, last_sent,
                     failures, lost, thread, wake, raised_at>>
  BY DEF RequestStop, sendVars
<1>2. transmitter_stop' \in BOOLEAN
  BY <1>1
<1>3. TxTypeOK'
  BY <1>1, <1>2 DEF TxInv, TxTypeOK
<1> QED BY <1>1, <1>3 DEF TxInv, TxOrder, TxEnding, StopIsImmediate, TxCycle

LEMMA TxInvStep == TxInv /\ [TxNext]_txVars => TxInv'
<1> SUFFICES ASSUME TxInv, [TxNext]_txVars PROVE TxInv'
  OBVIOUS
<1>1. CASE Publish
  <2>1. PICK told \in State, at \in decided_at_ms .. now : publish(told, at)
    BY <1>1 DEF Publish
  <2> QED BY <1>1, <2>1, PublishStep DEF Publish
<1>2. CASE UNCHANGED txVars
  BY <1>2 DEF txVars, TxInv, TxTypeOK, TxOrder, TxEnding, StopIsImmediate, TxCycle
<1> QED BY <1>1, <1>2, RunCheckStep, RunTickStep, AdvanceStep, RequestStopStep
        DEF TxNext

(* The members of the transmitter keep their types. *)
THEOREM TransmitterTypeCorrect == TxSpec => []TxTypeOK
<1>1. TxInv => TxTypeOK
  BY DEF TxInv
<1> QED BY <1>1, TxInvInit, TxInvStep, PTL DEF TxSpec

(* The watchdog of tick(), for every period, timeout and jitter. *)
THEOREM TransmitterStaleStops == TxSpec => []StaleStops
<1> QED BY TxInvSuffices, TxInvInit, TxInvStep, PTL DEF TxSpec

(* The immediate send of publish(). *)
THEOREM TransmitterStopIsImmediate == TxSpec => []StopIsImmediate
<1>1. TxInv => StopIsImmediate
  BY DEF TxInv
<1> QED BY <1>1, TxInvInit, TxInvStep, PTL DEF TxSpec

(* A more dangerous state reaches the UART within Lag. *)
THEOREM TransmitterWorseReachesWire == TxSpec => []WorseReachesWire
<1> QED BY TxInvSuffices, TxInvInit, TxInvStep, PTL DEF TxSpec

-----------------------------------------------------------------------------
(* The server and the transmitter together. *)

ServerInv ==
    /\ transmitter_stop <=> pc \in {"join", "exit"}
    /\ pc \in {"stopping", "join", "exit"} => published = Stop
    /\ pc \in {"flush", "publish", "classify"} => request \in Request
    /\ pc = "publish" => decided_at_ms <= now_ms /\ now_ms <= now

RoomInv ==
    /\ have_current_frame => rois >= 1
    /\ pc \in {"flush", "publish", "classify", "send"} => have_current_frame
    /\ pc \in {"accept", "publish"} => pending = << >>
    /\ pc = "accept" => ~pending_background_slow
    /\ pc = "recv" /\ ~have_current_frame =>
            pending = << >> /\ ~pending_background_slow
    /\ pc \in {"flush", "publish"} => rois = 1
    /\ pc \in {"recv", "send"} => Len(pending) <= rois
    /\ pc = "classify" => Len(pending) < rois

DecisionInv ==
    /\ ~judged => published = Stop
    /\ latch.phase = "Holding" =>
        IF pc = "publish" THEN state = Stop ELSE published = Stop
    /\ sign_at # Never =>
        /\ sign_slow_until_ms = sign_at + sign_hold_ms
        /\ pc = "publish" /\ state = Clear => now_ms >= sign_at + sign_hold_ms
        /\ pc # "publish" /\ published = Clear =>
                decided_at_ms >= sign_at + sign_hold_ms

(* An observation of the frame that the latch will answer with Stop. *)
Pends(k) ==
    /\ judgeOne(pending[k]) = Stop
    /\ latch.phase = "Idle" \/ pending[k].class_id # latch.latched_class

HazardInv ==
    hazard_since # Never =>
        /\ decided_at_ms <= hazard_since /\ hazard_since <= now
        /\ IF pc = "publish" THEN state = Stop
           ELSE \E k \in DOMAIN pending : Pends(k)

(* The members that are not the transmitter's keep their types. *)
BridgeTypeOK ==
    /\ pc \in PC
    /\ have_current_frame \in BOOLEAN
    /\ current_frame_id \in FrameIds
    /\ request \in Request \cup {NoRequest}
    /\ latch \in HazardLatch
    /\ pending \in Seq(DetectionRecord)
    /\ Len(pending) <= kMaxDetections
    /\ pending_background_slow \in BOOLEAN
    /\ sign_slow_until_ms \in Nat
    /\ state \in State
    /\ now_ms \in Nat
    /\ rois \in 0 .. MaxRois
    /\ burst \in 0 .. MaxBurst
    /\ judged \in BOOLEAN
    /\ hazard_since \in Nat \cup {Never}
    /\ sign_at \in Nat \cup {Never}

PsInv ==
    /\ BridgeTypeOK /\ TxInv
    /\ ServerInv /\ RoomInv /\ DecisionInv /\ HazardInv

(* The properties follow from the invariant. *)
LEMMA PsInvSuffices ==
    PsInv => TypeOK /\ NoMoveWithoutFrame /\ HazardStops /\ SignKeepsSlow /\ HoldIsPublished
<1> SUFFICES ASSUME PsInv
             PROVE  TypeOK /\ NoMoveWithoutFrame /\ HazardStops /\ SignKeepsSlow
                        /\ HoldIsPublished
  OBVIOUS
<1>1. TypeOK
  BY DEF PsInv, BridgeTypeOK, TxInv, TypeOK
<1>2. NoMoveWithoutFrame
  BY DEF PsInv, TxInv, DecisionInv, RoomInv, StopIsImmediate, NoMoveWithoutFrame
<1>3. HazardStops
  <2>1. StaleStops
    BY TxInvSuffices DEF PsInv
  <2>2. /\ now \in Nat /\ decided_at_ms \in Nat /\ decision_timeout_ms \in Nat
        /\ hazard_since # Never => hazard_since \in Nat
        /\ Lag \in Nat
    BY TransmitterAssumption DEF PsInv, TxInv, TxTypeOK, BridgeTypeOK, Lag
  <2> QED BY <2>1, <2>2 DEF PsInv, HazardInv, StaleStops, HazardStops
<1>4. SignKeepsSlow
  BY DEF PsInv, DecisionInv, SignKeepsSlow
<1>5. HoldIsPublished
  BY DEF PsInv, DecisionInv, HoldIsPublished, held
<1> QED BY <1>1, <1>2, <1>3, <1>4, <1>5

(* It holds when ps_safety_start has returned. *)
LEMMA PsInvInit == Init => PsInv
<1> SUFFICES ASSUME Init PROVE PsInv
  OBVIOUS
<1> USE BridgeAssumption, TransmitterAssumption
<1>1. TxInv
  BY TxInvInit DEF Init
<1>2. BridgeTypeOK
  <2>1. reset \in HazardLatch
    BY DEF reset, HazardLatch, Phase, State
  <2>2. /\ have_current_frame \in BOOLEAN /\ pending_background_slow \in BOOLEAN
        /\ judged \in BOOLEAN /\ latch \in HazardLatch
    BY <2>1 DEF Init
  <2>3. /\ pc \in PC /\ current_frame_id \in FrameIds
        /\ request \in Request \cup {NoRequest} /\ state \in State
        /\ hazard_since \in Nat \cup {Never} /\ sign_at \in Nat \cup {Never}
    BY DEF Init, PC, State
  <2>4. /\ pending \in Seq(DetectionRecord) /\ Len(pending) <= kMaxDetections
        /\ sign_slow_until_ms \in Nat /\ now_ms \in Nat
        /\ rois \in 0 .. MaxRois /\ burst \in 0 .. MaxBurst
    BY DEF Init
  <2> QED BY <2>2, <2>3, <2>4 DEF BridgeTypeOK
<1>3. ServerInv
  BY DEF Init, TxInit, ServerInv
<1>4. RoomInv
  BY DEF Init, RoomInv
<1>5. DecisionInv /\ HazardInv
  BY DEF Init, TxInit, DecisionInv, HazardInv, reset
<1> QED BY <1>1, <1>2, <1>3, <1>4, <1>5 DEF PsInv

-----------------------------------------------------------------------------
(* What a step of the system is to the transmitter: one of its own steps,  *)
(* a publication no older than the one before, or the end of the thread    *)
(* once Stop is published.                                                 *)
PublishesInOrder ==
    /\ ~transmitter_stop
    /\ \E s \in State, at \in decided_at_ms .. now : publish(s, at)
    /\ UNCHANGED <<now, thread, wake, transmitter_stop>>

EndsThread ==
    /\ ~transmitter_stop /\ published = Stop
    /\ transmitter_stop' = TRUE
    /\ UNCHANGED <<now, published, decided_at_ms, decision_seen, sendVars,
                   thread, wake, raised_at>>

TxUse ==
    RunCheck \/ RunTick \/ Advance \/ PublishesInOrder \/ EndsThread \/ UNCHANGED txVars

(* The types as the steps below use them. *)
LEMMA PsTypes ==
    ASSUME PsInv
    PROVE  /\ now \in Nat /\ now <= MaxTime /\ decided_at_ms \in Nat
           /\ decided_at_ms <= now /\ published \in State /\ state \in State
           /\ now_ms \in Nat /\ sign_slow_until_ms \in Nat /\ sign_hold_ms \in Nat
           /\ rois \in Nat /\ MaxRois \in Nat /\ kMaxDetections \in Nat
           /\ MaxRois <= kMaxDetections /\ rois <= MaxRois
           /\ latch \in HazardLatch /\ pending \in Seq(DetectionRecord)
           /\ pc \in PC
BY BridgeAssumption, TransmitterAssumption
   DEF PsInv, BridgeTypeOK, TxInv, TxTypeOK, TxOrder

(* forceStop publishes Stop with the time of the clock. *)
LEMMA ForceStopPublishes ==
    ASSUME PsInv, forceStop, ~transmitter_stop
    PROVE  PublishesInOrder
<1>1. Stop \in State /\ now \in decided_at_ms .. now
  BY PsTypes DEF State
<1>2. publish(Stop, now) /\ UNCHANGED <<now, thread, wake, transmitter_stop>>
  BY DEF forceStop
<1> QED BY <1>1, <1>2 DEF PublishesInOrder

(* Every step of the system is such a step. *)
LEMMA StepUsesTx == PsInv /\ [Next]_vars => TxUse
<1> SUFFICES ASSUME PsInv, [Next]_vars PROVE TxUse
  OBVIOUS
<1>s. ServerInv
  BY DEF PsInv
<1>1. CASE Accept \/ Flush \/ Send \/ Join
  BY <1>1 DEF Accept, Flush, Send, Join, TxUse
<1>2. CASE AcceptFails \/ LinkFails
  <2>1. ~transmitter_stop /\ forceStop
    BY <1>2, <1>s DEF AcceptFails, LinkFails, ServerInv
  <2> QED BY <2>1, ForceStopPublishes DEF TxUse
<1>3. CASE PublishFrame
  <2>1. ~transmitter_stop /\ now_ms \in decided_at_ms .. now /\ state \in State
    BY <1>3, <1>s, PsTypes DEF PublishFrame, ServerInv
  <2>2. publish(state, now_ms) /\ UNCHANGED <<now, thread, wake, transmitter_stop>>
    BY <1>3 DEF PublishFrame
  <2> QED BY <2>1, <2>2 DEF PublishesInOrder, TxUse
<1>4. CASE SetStopFlag
  <2>1. ~transmitter_stop /\ published = Stop
    BY <1>4, <1>s DEF SetStopFlag, ServerInv
  <2> QED BY <1>4, <2>1 DEF SetStopFlag, EndsThread, TxUse
<1>5. ASSUME NEW r \in Request, Receive(r) PROVE TxUse
  BY <1>5 DEF Receive, TxUse
<1>6. ASSUME NEW result \in Results, Classify(result) PROVE TxUse
  BY <1>6 DEF Classify, TxUse
<1>7. CASE Transmitter \/ Pass
  BY <1>7 DEF Transmitter, Pass, TxUse
<1>8. CASE UNCHANGED vars
  BY <1>8 DEF vars, TxUse
<1> QED BY <1>1, <1>2, <1>3, <1>4, <1>5, <1>6, <1>7, <1>8 DEF Next, Server

(* So it keeps the invariant of the transmitter, ... *)
LEMMA TxUseInv == TxInv /\ TxUse => TxInv'
<1> SUFFICES ASSUME TxInv, TxUse PROVE TxInv'
  OBVIOUS
<1>1. CASE PublishesInOrder
  <2>1. PICK s \in State, at \in decided_at_ms .. now : publish(s, at)
    BY <1>1 DEF PublishesInOrder
  <2> QED BY <1>1, <2>1, PublishStep DEF PublishesInOrder
<1>2. CASE EndsThread
  <2>1. /\ transmitter_stop' = TRUE /\ published = Stop
        /\ UNCHANGED <<now, published, decided_at_ms, decision_seen, last_sent,
                       failures, lost, thread, wake, raised_at>>
    BY <1>2 DEF EndsThread, sendVars
  <2>2. transmitter_stop' \in BOOLEAN
    BY <2>1
  <2>3. TxTypeOK'
    BY <2>1, <2>2 DEF TxInv, TxTypeOK
  <2> QED BY <2>1, <2>3 DEF TxInv, TxOrder, TxEnding, StopIsImmediate, TxCycle
<1>3. CASE UNCHANGED txVars
  BY <1>3 DEF txVars, TxInv, TxTypeOK, TxOrder, TxEnding, StopIsImmediate, TxCycle
<1> QED BY <1>1, <1>2, <1>3, RunCheckStep, RunTickStep, AdvanceStep DEF TxUse

(* ... and is allowed by its specification. *)
LEMMA TxUseAllowed ==
    ASSUME PsInv, TxUse PROVE [Tx!TxNext]_(Tx!txVars)
<1>s. Tx!Stop = Stop /\ Tx!State = State
  BY DEF Tx!Stop, Stop, Tx!State, State, Tx!Clear, Clear, Tx!Slow, Slow
<1>1. CASE RunCheck
  BY <1>1 DEF RunCheck, sendVars, Tx!TxNext, Tx!RunCheck, Tx!sendVars
<1>2. CASE RunTick
  BY <1>s, <1>2 DEF RunTick, tick, stale, sendLocked, Tx!TxNext, Tx!RunTick, Tx!tick,
              Tx!stale, Tx!sendLocked
<1>3. CASE Advance
  BY <1>3 DEF Advance, InTime, sendVars, Tx!TxNext, Tx!Advance, Tx!InTime, Tx!sendVars
<1>4. CASE PublishesInOrder
  <2>1. now <= MaxTime
    BY PsTypes
  <2> QED BY <1>s, <1>4, <2>1
          DEF PublishesInOrder, publish, sendLocked, sendVars, Tx!TxNext, Tx!Publish,
              Tx!publish, Tx!sendLocked, Tx!sendVars
<1>5. CASE EndsThread
  <2>1. now <= MaxTime
    BY PsTypes
  <2> QED BY <1>s, <1>5, <2>1 DEF EndsThread, sendVars, Tx!TxNext, Tx!RequestStop, Tx!sendVars
<1>6. CASE UNCHANGED txVars
  BY <1>6 DEF txVars, Tx!txVars
<1> QED BY <1>1, <1>2, <1>3, <1>4, <1>5, <1>6 DEF TxUse

-----------------------------------------------------------------------------
(* An observation of a request is a detection record. *)
LEMMA RecordType ==
    ASSUME NEW bbox \in Boxes, NEW result \in Results
    PROVE  recordOf(bbox, result) \in DetectionRecord
<1>1. /\ bbox.objectness \in Int /\ bbox.x \in Int /\ bbox.y \in Int
      /\ bbox.width \in Int /\ bbox.height \in Int
  BY BridgeAssumption
<1>2. Unit \div frame_width \in Int /\ Unit \div frame_height \in Int
  BY BridgeAssumption
<1>3. \A v \in Int : ratio(v, frame_width) \in Int /\ ratio(v, frame_height) \in Int
  BY <1>2 DEF ratio
<1>4. result.class_id \in ClassId /\ person \in ClassId
  BY BridgeAssumption DEF person, ClassId
<1>5. bbox.x + bbox.width \in Int /\ bbox.y + bbox.height \in Int
  BY <1>1
<1> QED BY <1>1, <1>3, <1>4, <1>5 DEF recordOf, DetectionRecord

(* raised never lowers a judgement, and leaves no Clear while a sign is    *)
(* remembered.                                                             *)
LEMMA RaisedFacts ==
    ASSUME NEW j \in State, NEW u \in Nat, now \in Nat
    PROVE  /\ raised(j, u) \in State
           /\ j = Stop => raised(j, u) = Stop
           /\ raised(j, u) = Clear => now >= u
BY DEF raised, State, Clear, Slow, Stop

(* A latch that holds has answered Stop. *)
LEMMA HoldingIsStop ==
    ASSUME NEW l \in HazardLatch, NEW s \in Seq(DetectionRecord), NEW t \in Nat,
           update(l, s, t).phase = "Holding"
    PROVE  update(l, s, t).last_state = Stop
<1> DEFINE n == update(l, s, t)
<1>1. \/ Kept(l, n, s, t) \/ Opens(l, n, s, t) \/ Stays(l, n, s, t) \/ Ends(l, n, s, t)
  BY UpdateCases
<1>2. Kept(l, n, s, t) => n.last_state = Stop
  BY DEF Kept, HazardLatch
<1> HIDE DEF n
<1> QED BY <1>1, <1>2 DEF Opens, Stays, Ends, n

(* update() answers Stop to a frame with a detection at Stop that is not   *)
(* of the class it masks.                                                  *)
LEMMA UnmaskedStops ==
    ASSUME NEW l \in HazardLatch, NEW s \in Seq(DetectionRecord), NEW t \in Nat,
           NEW k \in DOMAIN s, judgeOne(s[k]) = Stop,
           l.phase = "Idle" \/ s[k].class_id # l.latched_class
    PROVE  update(l, s, t).last_state = Stop
<1> DEFINE n == update(l, s, t)
           x == IF l.phase = "Idle" THEN NoClass ELSE l.latched_class
<1>1. \/ Kept(l, n, s, t) \/ Opens(l, n, s, t) \/ Stays(l, n, s, t) \/ Ends(l, n, s, t)
  BY UpdateCases
<1>2. Kept(l, n, s, t) => n.last_state = Stop
  BY DEF Kept, HazardLatch
<1>3. s[k].class_id # x
  <2>1. s[k] \in DetectionRecord
    OBVIOUS
  <2>2. s[k].class_id \in 0 .. 5
    BY <2>1 DEF DetectionRecord, ClassId
  <2> QED BY <2>2 DEF NoClass
<1>4. judgeWorst(s, x).state = Stop
  <2>1. levelWithout(s[k], x) = Stop
    BY <1>3 DEF levelWithout
  <2> QED BY <2>1, WorstStopIff
<1> HIDE DEF n
<1>5. ~Quiet(l, n, s, t)
  BY <1>4 DEF Quiet
<1> QED BY <1>1, <1>2, <1>5 DEF Opens, Stays, Ends, n

-----------------------------------------------------------------------------
(* The decision and the hazard are as they were while the bridge, the      *)
(* published state and the history are.                                    *)
LEMMA DecisionKept ==
    ASSUME PsInv, UNCHANGED <<latch, pending, state, sign_slow_until_ms, historyVars>>,
           UNCHANGED <<published, decided_at_ms, now_ms>>,
           (pc = "publish") <=> (pc' = "publish"), now' \in Nat, now <= now'
    PROVE  DecisionInv' /\ HazardInv'
<1>1. DecisionInv'
  BY DEF PsInv, DecisionInv, historyVars
<1>2. HazardInv'
  <2>1. now \in Nat
    BY PsTypes
  <2>2. hazard_since # Never => hazard_since \in Nat
    BY DEF PsInv, BridgeTypeOK
  <2>3. \A k : Pends(k)' <=> Pends(k)
    BY DEF Pends
  <2>4. hazard_since' = hazard_since
    BY DEF historyVars
  <2> QED BY <2>1, <2>2, <2>3, <2>4 DEF PsInv, HazardInv
<1> QED BY <1>1, <1>2

(* A forced Stop, after which the server is not about to publish, leaves   *)
(* nothing to answer for.                                                  *)
LEMMA ForceStopStep ==
    ASSUME PsInv, forceStop, pc' \in PC \ {"publish"}
    PROVE  /\ DecisionInv' /\ HazardInv'
           /\ latch' \in HazardLatch /\ pending' = << >>
           /\ pending_background_slow' \in BOOLEAN /\ ~pending_background_slow'
           /\ sign_slow_until_ms' \in Nat
           /\ state' \in State /\ judged' \in BOOLEAN
           /\ hazard_since' \in Nat \cup {Never} /\ sign_at' \in Nat \cup {Never}
           /\ published' = Stop /\ UNCHANGED <<now, transmitter_stop>>
<1>1. /\ latch' = latch /\ published' = Stop /\ judged' = FALSE
      /\ hazard_since' = Never /\ sign_at' = Never /\ pending' = << >>
      /\ sign_slow_until_ms' = 0 /\ state' = Stop /\ pending_background_slow' = FALSE
      /\ UNCHANGED <<now, transmitter_stop>>
  BY DEF forceStop, publish
<1>2. DecisionInv' /\ HazardInv'
  BY <1>1 DEF DecisionInv, HazardInv
<1>3. /\ pending_background_slow' \in BOOLEAN /\ ~pending_background_slow'
      /\ judged' \in BOOLEAN
  BY <1>1
<1> QED BY <1>1, <1>2, <1>3, PsTypes DEF State

LEMMA AcceptStep == ASSUME PsInv, Accept, TxInv' PROVE PsInv'
<1>u. /\ pc = "accept" /\ pc' = "recv" /\ rois' = 0 /\ current_frame_id' = 0
      /\ have_current_frame' = FALSE
      /\ UNCHANGED <<txVars, bridgeVars, request, now_ms, burst, historyVars>>
  BY DEF Accept
<1>v. /\ UNCHANGED <<now, published, decided_at_ms, transmitter_stop>>
      /\ UNCHANGED <<latch, pending, pending_background_slow, sign_slow_until_ms, state>>
      /\ UNCHANGED <<judged, hazard_since, sign_at>>
  BY <1>u DEF txVars, bridgeVars, historyVars
<1>1. have_current_frame' \in BOOLEAN
  BY DEF Accept
<1>2. BridgeTypeOK'
  BY <1>u, <1>v, <1>1, BridgeAssumption DEF PsInv, BridgeTypeOK, PC
<1>3. ServerInv' /\ RoomInv'
  BY <1>u, <1>v DEF PsInv, ServerInv, RoomInv
<1>4. DecisionInv' /\ HazardInv'
  BY <1>u, <1>v, PsTypes, DecisionKept DEF historyVars
<1> QED BY <1>2, <1>3, <1>4 DEF PsInv

LEMMA AcceptFailsStep == ASSUME PsInv, AcceptFails, TxInv' PROVE PsInv'
<1>u. /\ pc = "accept" /\ pc' = "stopping" /\ forceStop
      /\ UNCHANGED <<have_current_frame, current_frame_id, request, now_ms, rois, burst>>
  BY DEF AcceptFails
<1>1. pc' \in PC \ {"publish"}
  BY <1>u DEF PC
<1>2. BridgeTypeOK'
  <2>1. pending' \in Seq(DetectionRecord) /\ Len(pending') <= kMaxDetections
    BY <1>1, <1>u, ForceStopStep, BridgeAssumption
  <2> QED BY <1>u, <1>1, <2>1, ForceStopStep DEF PsInv, BridgeTypeOK
<1>3. ServerInv' /\ RoomInv'
  BY <1>u, <1>1, ForceStopStep DEF PsInv, ServerInv, RoomInv
<1> QED BY <1>u, <1>1, <1>2, <1>3, ForceStopStep DEF PsInv

LEMMA LinkFailsStep == ASSUME PsInv, LinkFails, TxInv' PROVE PsInv'
<1>u. /\ pc \in {"recv", "send"} /\ pc' = "accept" /\ forceStop /\ request' = NoRequest
      /\ UNCHANGED <<have_current_frame, current_frame_id, now_ms, rois, burst>>
  BY DEF LinkFails
<1>1. pc' \in PC \ {"publish"}
  BY <1>u DEF PC
<1>2. BridgeTypeOK'
  <2>1. pending' \in Seq(DetectionRecord) /\ Len(pending') <= kMaxDetections
    BY <1>1, <1>u, ForceStopStep, BridgeAssumption
  <2> QED BY <1>u, <1>1, <2>1, ForceStopStep DEF PsInv, BridgeTypeOK
<1>3. ServerInv' /\ RoomInv'
  BY <1>u, <1>1, ForceStopStep DEF PsInv, ServerInv, RoomInv
<1> QED BY <1>u, <1>1, <1>2, <1>3, ForceStopStep DEF PsInv

LEMMA ReceiveStep == ASSUME PsInv, NEW r \in Request, Receive(r), TxInv' PROVE PsInv'
<1> DEFINE complete == have_current_frame /\ r.frame_id # current_frame_id
<1>u. /\ pc = "recv" /\ request' = r /\ have_current_frame' = TRUE
      /\ pc' = IF complete THEN "flush" ELSE "classify"
      /\ rois' = IF complete THEN 1 ELSE rois + 1
      /\ complete \/ rois < MaxRois
      /\ current_frame_id' = IF complete THEN current_frame_id ELSE r.frame_id
      /\ burst < MaxBurst /\ burst' = burst + 1
      /\ UNCHANGED <<txVars, bridgeVars, now_ms, historyVars>>
  BY DEF Receive
<1>v. /\ UNCHANGED <<now, published, decided_at_ms, transmitter_stop>>
      /\ UNCHANGED <<latch, pending, pending_background_slow, sign_slow_until_ms, state>>
      /\ UNCHANGED <<judged, hazard_since, sign_at>>
  BY <1>u DEF txVars, bridgeVars, historyVars
<1>p. Len(pending) \in Nat /\ Len(pending) <= rois
  BY <1>u, PsTypes DEF PsInv, RoomInv
<1>1. r.frame_id \in FrameIds
  BY DEF Request
<1>2. MaxRois >= 1
  <2>1. CASE complete
    BY <2>1, PsTypes DEF PsInv, RoomInv
  <2>2. CASE ~complete
    BY <1>u, <2>2, PsTypes
  <2> QED BY <2>1, <2>2
<1>3. rois' \in 0 .. MaxRois
  BY <1>u, <1>2, PsTypes
<1> HIDE DEF complete
<1>4. BridgeTypeOK'
  BY <1>u, <1>v, <1>1, <1>3, BridgeAssumption DEF PsInv, BridgeTypeOK, PC
<1>5. ServerInv' /\ RoomInv'
  BY <1>u, <1>v, <1>p, PsTypes DEF PsInv, ServerInv, RoomInv
<1>6. DecisionInv' /\ HazardInv'
  BY <1>u, <1>v, PsTypes, DecisionKept DEF historyVars
<1> QED BY <1>4, <1>5, <1>6 DEF PsInv

(* flush_frame: the latch answers, and what it answers is raised. *)
LEMMA FlushStep == ASSUME PsInv, Flush, TxInv' PROVE PsInv'
<1> DEFINE l == update(latch, pending, now)
           until == IF signSeen THEN now + sign_hold_ms ELSE sign_slow_until_ms
<1>u. /\ pc = "flush" /\ pc' = "publish" /\ now_ms' = now
      /\ latch' = l /\ sign_slow_until_ms' = until
      /\ state' = raised(l.last_state, until) /\ pending' = << >>
      /\ sign_at' = IF signSeen THEN now ELSE sign_at
      /\ UNCHANGED <<txVars, have_current_frame, current_frame_id, request, rois, burst,
                     judged, hazard_since>>
  BY DEF Flush, flushFrame
<1>v. UNCHANGED <<now, published, decided_at_ms, transmitter_stop>>
  BY <1>u DEF txVars
<1>b. pending_background_slow' \in BOOLEAN
  BY DEF Flush, flushFrame
<1>n. /\ now \in Nat /\ decided_at_ms \in Nat /\ decided_at_ms <= now
      /\ sign_hold_ms \in Nat /\ latch \in HazardLatch
      /\ pending \in Seq(DetectionRecord)
  BY PsTypes
<1>1. l \in HazardLatch /\ l.last_state \in State
  <2>1. l \in HazardLatch
    BY <1>n, UpdateCases
  <2> QED BY <2>1 DEF HazardLatch
<1>2. l.phase = "Holding" => l.last_state = Stop
  BY <1>n, HoldingIsStop
<1>3. until \in Nat
  BY <1>n, PsTypes
<1>4. hazard_since # Never => l.last_state = Stop
  <2>1. SUFFICES ASSUME NEW k \in DOMAIN pending, Pends(k) PROVE l.last_state = Stop
    BY <1>u DEF PsInv, HazardInv
  <2> QED BY <1>n, <2>1, UnmaskedStops DEF Pends
<1> HIDE DEF l
<1>5. /\ state' \in State
      /\ l.last_state = Stop => state' = Stop
      /\ state' = Clear => now >= until
  BY <1>u, <1>n, <1>1, <1>3, RaisedFacts
<1>6. sign_at' # Never => until = sign_at' + sign_hold_ms
  BY <1>u, <1>n DEF PsInv, DecisionInv
<1>7. sign_at' \in Nat \cup {Never}
  BY <1>u, <1>n DEF PsInv, BridgeTypeOK
<1> HIDE DEF until
<1>8. BridgeTypeOK'
  <2>1. pending' \in Seq(DetectionRecord) /\ Len(pending') <= kMaxDetections
    BY <1>u, BridgeAssumption
  <2> QED BY <1>u, <1>b, <1>n, <1>1, <1>3, <1>5, <1>7, <2>1 DEF PsInv, BridgeTypeOK, PC
<1>9. ServerInv' /\ RoomInv'
  BY <1>u, <1>v, <1>n DEF PsInv, ServerInv, RoomInv
<1>10. DecisionInv'
  BY <1>u, <1>v, <1>2, <1>5, <1>6 DEF PsInv, DecisionInv
<1>11. HazardInv'
  BY <1>u, <1>v, <1>4, <1>5 DEF PsInv, HazardInv
<1> QED BY <1>8, <1>9, <1>10, <1>11 DEF PsInv

(* flush_frame publishes the decision. *)
LEMMA PublishFrameStep == ASSUME PsInv, PublishFrame, TxInv' PROVE PsInv'
<1>u. /\ pc = "publish" /\ pc' = "classify" /\ now_ms' = 0
      /\ published' = state /\ decided_at_ms' = now_ms
      /\ current_frame_id' = request.frame_id /\ judged' = TRUE
      /\ hazard_since' = (IF state = Stop THEN Never ELSE hazard_since)
      /\ UNCHANGED <<now, transmitter_stop, bridgeVars,
                     have_current_frame, request, rois, burst, sign_at>>
  BY DEF PublishFrame, publish
<1>v. UNCHANGED <<latch, pending, pending_background_slow, sign_slow_until_ms, state>>
  BY <1>u DEF bridgeVars
<1>n. state \in State /\ judged' \in BOOLEAN
  BY <1>u, PsTypes
<1>1. request \in Request /\ request.frame_id \in FrameIds
  BY <1>u DEF PsInv, ServerInv, Request
<1>2. hazard_since' = Never
  BY <1>u DEF PsInv, HazardInv
<1>3. BridgeTypeOK'
  BY <1>u, <1>v, <1>n, <1>1, <1>2 DEF PsInv, BridgeTypeOK, PC
<1>4. ServerInv' /\ RoomInv'
  BY <1>u, <1>v, <1>1 DEF PsInv, ServerInv, RoomInv
<1>5. DecisionInv' /\ HazardInv'
  BY <1>u, <1>v, <1>2 DEF PsInv, DecisionInv, HazardInv
<1> QED BY <1>3, <1>4, <1>5 DEF PsInv

(* What an observation does to the frame: nothing, one flag, or one record *)
(* more.                                                                   *)
LEMMA ClassifyStep ==
    ASSUME PsInv, NEW result \in Results, Classify(result), TxInv' PROVE PsInv'
<1> DEFINE record == recordOf(request.bbox, result)
<1>u. /\ pc = "classify" /\ pc' = "send" /\ addObservation(request.bbox, result)
      /\ hazard_since' = (IF hazard_since = Never /\ isNewHazard(request.bbox, result)
                          THEN now ELSE hazard_since)
      /\ UNCHANGED <<txVars, latch, sign_slow_until_ms, state, have_current_frame,
                     current_frame_id, request, now_ms, rois, burst, judged, sign_at>>
  BY DEF Classify
<1>v. UNCHANGED <<now, published, decided_at_ms, transmitter_stop>>
  BY <1>u DEF txVars
<1>n. /\ now \in Nat /\ decided_at_ms \in Nat /\ decided_at_ms <= now /\ rois \in Nat
      /\ kMaxDetections \in Nat /\ rois <= kMaxDetections
      /\ pending \in Seq(DetectionRecord) /\ Len(pending) \in Nat
  BY PsTypes
<1>1. Len(pending) < rois
  BY <1>u DEF PsInv, RoomInv
<1>2. record \in DetectionRecord
  <2>1. request.bbox \in Boxes
    BY <1>u DEF PsInv, ServerInv, Request
  <2> QED BY <2>1, RecordType
<1>3. \/ UNCHANGED pending
      \/ pending' = Append(pending, record)
  BY <1>u DEF addObservation
<1>4. pending_background_slow' \in BOOLEAN
  BY <1>u DEF addObservation, PsInv, BridgeTypeOK
<1>5. isNewHazard(request.bbox, result) => pending' = Append(pending, record)
  <2>1. SUFFICES ASSUME isNewHazard(request.bbox, result)
                 PROVE  pending' = Append(pending, record)
    OBVIOUS
  <2>2. accepted(request.bbox) /\ judgeOne(record) = Stop
    BY <2>1 DEF isNewHazard
  <2>3. record.class_id \in {car, person}
    BY <2>2, OnlyHazardsStop DEF isHazardClass
  <2>4. ~(result.ok /\ result.class_id = background)
    BY <2>3 DEF recordOf, background, car, person
  <2>5. ~(Len(pending) >= kMaxDetections)
    BY <1>n, <1>1
  <2> QED BY <1>u, <2>2, <2>4, <2>5 DEF addObservation
<1> HIDE DEF record
<1>6. /\ pending' \in Seq(DetectionRecord) /\ Len(pending') <= Len(pending) + 1
      /\ \A k \in DOMAIN pending : k \in DOMAIN pending' /\ pending'[k] = pending[k]
  BY <1>n, <1>2, <1>3
<1>7. BridgeTypeOK'
  <2>1. Len(pending') <= kMaxDetections
    BY <1>n, <1>1, <1>6
  <2>2. hazard_since' \in Nat \cup {Never}
    BY <1>u, <1>n DEF PsInv, BridgeTypeOK
  <2> QED BY <1>u, <1>4, <1>6, <2>1, <2>2 DEF PsInv, BridgeTypeOK, PC
<1>8. ServerInv' /\ RoomInv'
  BY <1>u, <1>v, <1>n, <1>1, <1>6 DEF PsInv, ServerInv, RoomInv
<1>9. DecisionInv'
  BY <1>u, <1>v DEF PsInv, DecisionInv
<1>10. HazardInv'
  <2>1. CASE hazard_since # Never
    <3>1. PICK k \in DOMAIN pending : Pends(k)
      BY <1>u, <2>1 DEF PsInv, HazardInv
    <3>2. k \in DOMAIN pending' /\ Pends(k)'
      BY <1>u, <1>6, <3>1 DEF Pends
    <3> QED BY <1>u, <1>v, <2>1, <3>2 DEF PsInv, HazardInv
  <2>2. CASE hazard_since = Never /\ isNewHazard(request.bbox, result)
    <3>1. PICK k \in DOMAIN pending' : pending'[k] = record
      <4>1. /\ Len(pending) + 1 \in DOMAIN pending'
            /\ pending'[Len(pending) + 1] = record
        BY <1>n, <1>2, <1>5, <2>2
      <4> QED BY <4>1
    <3>2. /\ judgeOne(record) = Stop
          /\ latch.phase = "Idle" \/ record.class_id # latch.latched_class
      BY <2>2 DEF isNewHazard, record
    <3>3. Pends(k)'
      BY <1>u, <3>1, <3>2 DEF Pends
    <3> QED BY <1>u, <1>v, <1>n, <2>2, <3>1, <3>3 DEF HazardInv
  <2>3. CASE hazard_since = Never /\ ~isNewHazard(request.bbox, result)
    BY <1>u, <2>3 DEF HazardInv
  <2> QED BY <2>1, <2>2, <2>3
<1> QED BY <1>7, <1>8, <1>9, <1>10 DEF PsInv

LEMMA SendStep == ASSUME PsInv, Send, TxInv' PROVE PsInv'
<1>u. /\ pc = "send" /\ pc' = "recv" /\ request' = NoRequest
      /\ UNCHANGED <<txVars, bridgeVars, have_current_frame, current_frame_id,
                     now_ms, rois, burst, historyVars>>
  BY DEF Send
<1>v. /\ UNCHANGED <<now, published, decided_at_ms, transmitter_stop>>
      /\ UNCHANGED <<latch, pending, pending_background_slow, sign_slow_until_ms, state>>
      /\ UNCHANGED <<judged, hazard_since, sign_at>>
  BY <1>u DEF txVars, bridgeVars, historyVars
<1>1. BridgeTypeOK'
  BY <1>u, <1>v DEF PsInv, BridgeTypeOK, PC
<1>2. ServerInv' /\ RoomInv'
  BY <1>u, <1>v DEF PsInv, ServerInv, RoomInv
<1>3. DecisionInv' /\ HazardInv'
  BY <1>u, <1>v, PsTypes, DecisionKept DEF historyVars
<1> QED BY <1>1, <1>2, <1>3 DEF PsInv

(* ps_safety_stop, after its forced Stop. *)
LEMMA StopThreadStep == ASSUME PsInv, SetStopFlag \/ Join, TxInv' PROVE PsInv'
<1>u. /\ \/ pc = "stopping" /\ pc' = "join" /\ transmitter_stop' = TRUE
         \/ pc = "join" /\ pc' = "exit" /\ transmitter_stop' = transmitter_stop
      /\ UNCHANGED <<now, published, decided_at_ms, bridgeVars, have_current_frame,
                     current_frame_id, request, now_ms, rois, burst, historyVars>>
  BY DEF SetStopFlag, Join, txVars
<1>v. /\ UNCHANGED <<latch, pending, pending_background_slow, sign_slow_until_ms, state>>
      /\ UNCHANGED <<judged, hazard_since, sign_at>>
  BY <1>u DEF bridgeVars, historyVars
<1>1. BridgeTypeOK'
  BY <1>u, <1>v DEF PsInv, BridgeTypeOK, PC
<1>2. ServerInv'
  BY <1>u, <1>v DEF PsInv, ServerInv
<1>3. RoomInv'
  BY <1>u, <1>v DEF PsInv, RoomInv
<1>4. DecisionInv' /\ HazardInv'
  BY <1>u, <1>v, PsTypes, DecisionKept DEF historyVars
<1> QED BY <1>1, <1>2, <1>3, <1>4 DEF PsInv

(* The other thread, and the clock. *)
LEMMA OtherStep == ASSUME PsInv, Transmitter \/ Pass, TxInv' PROVE PsInv'
<1>u. /\ UNCHANGED <<published, decided_at_ms, transmitter_stop, bridgeVars, pc,
                     have_current_frame, current_frame_id, request, now_ms, rois,
                     historyVars>>
      /\ now' = now \/ now' = now + 1
      /\ burst' = burst \/ burst' = 0
  BY DEF Transmitter, Pass, RunCheck, RunTick, Advance, serverVars
<1>v. /\ UNCHANGED <<latch, pending, pending_background_slow, sign_slow_until_ms, state>>
      /\ UNCHANGED <<judged, hazard_since, sign_at>>
  BY <1>u DEF bridgeVars, historyVars
<1>n. now \in Nat /\ now' \in Nat /\ now <= now' /\ now_ms \in Nat
  BY <1>u, PsTypes
<1>1. BridgeTypeOK'
  <2>1. burst' \in 0 .. MaxBurst
    BY <1>u, BridgeAssumption DEF PsInv, BridgeTypeOK
  <2> QED BY <1>u, <1>v, <2>1 DEF PsInv, BridgeTypeOK
<1>2. ServerInv' /\ RoomInv'
  BY <1>u, <1>v, <1>n DEF PsInv, ServerInv, RoomInv
<1>3. DecisionInv' /\ HazardInv'
  BY <1>u, <1>v, <1>n, DecisionKept DEF historyVars
<1> QED BY <1>1, <1>2, <1>3 DEF PsInv

LEMMA PsInvStep == PsInv /\ [Next]_vars => PsInv'
<1> SUFFICES ASSUME PsInv, [Next]_vars PROVE PsInv'
  OBVIOUS
<1>t. TxInv'
  BY StepUsesTx, TxUseInv DEF PsInv
<1>1. CASE UNCHANGED vars
  <2>1. /\ UNCHANGED <<now, published, decided_at_ms, transmitter_stop>>
        /\ UNCHANGED <<latch, pending, pending_background_slow, sign_slow_until_ms, state>>
        /\ UNCHANGED <<pc, have_current_frame, current_frame_id, request, now_ms, rois,
                       burst>>
        /\ UNCHANGED <<judged, hazard_since, sign_at>>
    BY <1>1 DEF vars, txVars, bridgeVars, serverVars, historyVars
  <2>2. BridgeTypeOK' /\ ServerInv' /\ RoomInv'
    BY <2>1 DEF PsInv, BridgeTypeOK, ServerInv, RoomInv
  <2>3. DecisionInv' /\ HazardInv'
    BY <2>1, PsTypes, DecisionKept DEF historyVars
  <2> QED BY <1>t, <2>2, <2>3 DEF PsInv
<1>2. ASSUME NEW r \in Request, Receive(r) PROVE PsInv'
  BY <1>t, <1>2, ReceiveStep
<1>3. ASSUME NEW result \in Results, Classify(result) PROVE PsInv'
  BY <1>t, <1>3, ClassifyStep
<1> QED BY <1>t, <1>1, <1>2, <1>3, AcceptStep, AcceptFailsStep, FlushStep,
           PublishFrameStep, SendStep, LinkFailsStep, StopThreadStep, OtherStep
        DEF Next, Server

-----------------------------------------------------------------------------
(* The variables of bridge, server and transmitter keep their types; no    *)
(* frame has more observations than pending has slots.                     *)
THEOREM PsTypeCorrect == Spec => []TypeOK
<1> QED BY PsInvInit, PsInvStep, PsInvSuffices, PTL DEF Spec

(* Nothing but Stop before the first frame of a connection is judged: the  *)
(* forced Stop of ps_classifier_server.c stays until then.                 *)
THEOREM PsNoMoveWithoutFrame == Spec => []NoMoveWithoutFrame
<1> QED BY PsInvInit, PsInvStep, PsInvSuffices, PTL DEF Spec

(* From the observation of a hazard to Stop on the UART, through the       *)
(* collection of the frame, the latch, the bridge and the watchdog.        *)
THEOREM PsHazardStops == Spec => []HazardStops
<1> QED BY PsInvInit, PsInvStep, PsInvSuffices, PTL DEF Spec

(* The sign hold of flush_frame. *)
THEOREM PsSignKeepsSlow == Spec => []SignKeepsSlow
<1> QED BY PsInvInit, PsInvStep, PsInvSuffices, PTL DEF Spec

(* The hold of the latch is what is published. *)
THEOREM PsHoldIsPublished == Spec => []HoldIsPublished
<1> QED BY PsInvInit, PsInvStep, PsInvSuffices, PTL DEF Spec

(* Bridge and server use the transmitter as its specification allows, so   *)
(* the bounds proved of it by itself hold in the PS.                       *)
THEOREM PsUsesTransmitter == Spec => UsesTransmitter
<1>1. Init => Tx!TxInit
  BY DEF Init, TxInit, Tx!TxInit, Stop, Tx!Stop
<1>2. PsInv /\ [Next]_vars => [Tx!TxNext]_(Tx!txVars)
  BY StepUsesTx, TxUseAllowed
<1> QED BY <1>1, <1>2, PsInvInit, PsInvStep, PTL DEF Spec, UsesTransmitter, Tx!TxSpec
=============================================================================
