---------------------------- MODULE RobotProofs -----------------------------
(***************************************************************************)
(* The properties of CmdVelArbiter hold for every choice of its constants: *)
(* any timeouts, caps and thresholds, any controller messages; and so do   *)
(* those of DriveChain, through which the robot is really driven.          *)
(*                                                                         *)
(* The arbiter's invariant says, besides the types: the timer is never     *)
(* late, so what a velocity was commanded on is fresh enough to last until *)
(* it fires again; a velocity above the caps of Slow will not outlive the  *)
(* timer that is due; and while a neutral input is owed the gate is armed, *)
(* or the next callback of the timer that gets that far arms it.           *)
(***************************************************************************)
EXTENDS DriveChain, TLAPS

inputStamp == IF no_joy_mode THEN manual_stamp ELSE joy_stamp

OrderInv ==
    /\ now <= due
    /\ due <= now + timer_period
    /\ safety_stamp <= now
    /\ joy_stamp <= now
    /\ manual_stamp <= now

FreshInv ==
    cmd # zero =>
        /\ due <= safety_stamp + safety_timeout + timer_period
        /\ due <= inputStamp + joy_timeout + timer_period

Within == abs(cmd.lin) <= slow_lin /\ abs(cmd.ang) <= slow_ang
CapInv == safety = Slow => Within \/ due <= slow_since + timer_period

GateInv ==
    owed =>
        /\ cmd = zero
        /\ \/ require_resume /\ ~seen_neutral
           \/ ~no_joy_mode /\ prev_safety = Stop
        /\ safety # Stop => ~atNeutral(input)

ArbiterInv == TypeOK /\ OrderInv /\ StopHalts /\ FreshInv /\ CapInv /\ GateInv

-----------------------------------------------------------------------------
(* Reading the controls gives numbers, whatever the controller sends. *)
LEMMA DeadzoneType ==
    ASSUME NEW v \in Int
    PROVE  applyDeadzone(v) \in Int
<1> DEFINE d == 100 - stick_deadzone
           n == (abs(v) - stick_deadzone) * 100
<1>1. d \in Int /\ d > 0 /\ n \in Int
  BY ArbiterAssumption DEF abs
<1>2. n \div d \in Int
  <2> HIDE DEF n, d
  <2> QED BY <1>1
<1> QED BY <1>2 DEF applyDeadzone

LEMMA DirectionType ==
    ASSUME NEW j \in JoyMessages \cup {NoJoy}
    PROVE  directionInput(j) \in Twist
<1>1. CASE j = NoJoy
  BY <1>1 DEF directionInput, zero, Twist
<1>2. CASE j # NoJoy
  <2>1. j.lin \in Int /\ j.ang \in Int
    BY <1>2, ArbiterAssumption DEF Joy
  <2>2. linear_axis_sign * j.lin \in Int
    BY <2>1, ArbiterAssumption
  <2> DEFINE a == applyDeadzone(linear_axis_sign * j.lin)
             b == applyDeadzone(j.ang)
  <2>3. a \in Int /\ b \in Int
    BY <2>1, <2>2, DeadzoneType
  <2>4. snapped(a, b) \in Twist
    <3> HIDE DEF a, b
    <3> QED BY <2>3 DEF snapped, Twist
  <2> QED BY <1>2, <2>4 DEF directionInput, Twist
<1> QED BY <1>1, <1>2

LEMMA AskedType ==
    ASSUME TypeOK
    PROVE  input \in Twist /\ asked \in Twist
<1>1. manual_twist \in Twist
  BY ArbiterAssumption DEF TypeOK, zero, Twist
<1>2. input \in Twist
  BY <1>1, DirectionType DEF TypeOK, input
<1>3. input.lin \in Int /\ input.ang \in Int
  BY <1>2 DEF Twist
<1>4. input.lin * MAX_LINEAR \in Int /\ input.ang * MAX_ANGULAR \in Int
  BY <1>3, ArbiterAssumption
<1> QED BY <1>1, <1>2, <1>4 DEF asked, Twist

(* A capped velocity is within the caps. *)
LEMMA CappedWithin ==
    ASSUME NEW t \in Twist
    PROVE  /\ capped(t) \in Twist
           /\ abs(capped(t).lin) <= slow_lin
           /\ abs(capped(t).ang) <= slow_ang
<1>1. t.lin \in Int /\ t.ang \in Int
  BY DEF Twist
<1>2. \A v, l : v \in Int /\ l \in Nat =>
          clamp(v, l) \in Int /\ abs(clamp(v, l)) <= l
  BY DEF clamp, abs
<1> QED BY <1>1, <1>2, ArbiterAssumption DEF capped, Twist

-----------------------------------------------------------------------------
(* What a velocity is commanded on: a gate that passes one, and a timer    *)
(* that does, has seen a fresh state other than Stop and a fresh input.    *)
LEMMA GateStep ==
    ASSUME TypeOK, NEW armed \in BOOLEAN, NEW seen \in BOOLEAN,
           ResumeGate(armed, seen)
    PROVE  /\ cmd' \in Twist
           /\ require_resume' \in BOOLEAN /\ seen_neutral' \in BOOLEAN
           /\ safety = Slow => Within'
           /\ armed /\ ~seen /\ ~atNeutral(input) =>
                cmd' = zero /\ require_resume' /\ ~seen_neutral'
<1>1. /\ asked \in Twist /\ zero \in Twist
      /\ capped(asked) \in Twist
  BY AskedType, CappedWithin DEF zero, Twist
<1>2. cmd' = zero \/ cmd' = asked \/ cmd' = capped(asked)
  BY DEF ResumeGate
<1>3. cmd' \in Twist
  BY <1>1, <1>2
<1>4. ASSUME safety = Slow PROVE Within'
  <2>1. cmd' = zero \/ cmd' = capped(asked)
    BY <1>4 DEF ResumeGate
  <2>2. abs(0) <= slow_lin /\ abs(0) <= slow_ang
    BY ArbiterAssumption DEF abs
  <2>3. CASE cmd' = zero
    BY <2>2, <2>3 DEF Within, zero
  <2>4. CASE cmd' = capped(asked)
    BY <2>4, <1>1, CappedWithin DEF Within
  <2> QED BY <2>1, <2>3, <2>4
<1>5. require_resume' \in BOOLEAN /\ seen_neutral' \in BOOLEAN
  BY DEF ResumeGate, atNeutral
<1>6. ASSUME armed, ~seen, ~atNeutral(input)
      PROVE  cmd' = zero /\ require_resume' /\ ~seen_neutral'
  BY <1>6 DEF ResumeGate
<1> QED BY <1>3, <1>4, <1>5, <1>6

LEMMA HaltStep ==
    ASSUME TypeOK, NEW rearm \in BOOLEAN, Halt(rearm)
    PROVE  /\ cmd' = zero /\ cmd' \in Twist /\ Within'
           /\ require_resume' \in BOOLEAN /\ seen_neutral' \in BOOLEAN
           /\ \/ require_resume' /\ ~seen_neutral'
              \/ require_resume' = require_resume /\ seen_neutral' = seen_neutral
<1>1. abs(0) <= slow_lin /\ abs(0) <= slow_ang
  BY ArbiterAssumption DEF abs
<1>2. cmd' = zero /\ cmd' \in Twist /\ Within'
  BY <1>1 DEF Halt, zero, Twist, Within
<1>3. /\ require_resume' \in BOOLEAN /\ seen_neutral' \in BOOLEAN
      /\ \/ require_resume' /\ ~seen_neutral'
         \/ require_resume' = require_resume /\ seen_neutral' = seen_neutral
  BY DEF Halt, armResume, gateVars, TypeOK
<1> QED BY <1>2, <1>3

(* One callback of the timer, either mode. *)
LEMMA TimerStep ==
    ASSUME TypeOK, GateInv, Timer
    PROVE  /\ cmd' \in Twist
           /\ require_resume' \in BOOLEAN /\ seen_neutral' \in BOOLEAN
           /\ prev_safety' \in State
           /\ estop' \in BOOLEAN /\ prev_estop_btn' \in BOOLEAN
           /\ cmd' # zero => safety # Stop /\ ~safetyStale /\ ~inputStale
           /\ safety = Slow => Within'
           /\ owed => /\ cmd' = zero
                      /\ \/ require_resume' /\ ~seen_neutral'
                         \/ ~no_joy_mode /\ prev_safety' = Stop
<1> DEFINE Goal == /\ cmd' \in Twist
                   /\ require_resume' \in BOOLEAN /\ seen_neutral' \in BOOLEAN
                   /\ prev_safety' \in State
                   /\ estop' \in BOOLEAN /\ prev_estop_btn' \in BOOLEAN
                   /\ cmd' # zero => safety # Stop /\ ~safetyStale /\ ~inputStale
                   /\ safety = Slow => Within'
                   /\ owed => /\ cmd' = zero
                              /\ \/ require_resume' /\ ~seen_neutral'
                                 \/ ~no_joy_mode /\ prev_safety' = Stop
<1>1. CASE no_joy_mode
  <2>1. TimerManual
    BY <1>1 DEF Timer
  <2>2. prev_safety' \in State /\ estop' \in BOOLEAN /\ prev_estop_btn' \in BOOLEAN
    BY <2>1 DEF TimerManual, TypeOK
  <2>3. CASE safetyStale \/ safety = Stop \/ inputStale
    <3>1. Halt(TRUE)
      BY <2>1, <2>3 DEF TimerManual
    <3>2. require_resume' /\ ~seen_neutral'
      BY <3>1 DEF Halt, armResume
    <3> QED BY <2>2, <3>1, <3>2, HaltStep
  <2>4. CASE ~(safetyStale \/ safety = Stop \/ inputStale)
    <3>1. ResumeGate(require_resume, seen_neutral)
      BY <2>1, <2>4 DEF TimerManual
    <3>2. require_resume \in BOOLEAN /\ seen_neutral \in BOOLEAN
      BY DEF TypeOK
    <3>3. owed => require_resume /\ ~seen_neutral /\ ~atNeutral(input)
      BY <1>1, <2>4 DEF GateInv
    <3> QED BY <2>2, <2>4, <3>1, <3>2, <3>3, GateStep
  <2> QED BY <2>3, <2>4
<1>2. CASE ~no_joy_mode
  <2>1. TimerJoy
    BY <1>2 DEF Timer
  <2>2. estop' \in BOOLEAN /\ prev_estop_btn' \in BOOLEAN
    BY <2>1 DEF TimerJoy, TypeOK, btn
  <2> DEFINE halting == estop' \/ inputStale \/ ~btn(joy, "LB") \/ safetyStale
  <2>3. CASE halting
    <3>1. Halt(~estop' /\ (inputStale \/ btn(joy, "LB"))) /\ prev_safety' = prev_safety
      BY <2>1, <2>3 DEF TimerJoy
    <3>2. (~estop' /\ (inputStale \/ btn(joy, "LB"))) \in BOOLEAN
      OBVIOUS
    <3>3. prev_safety' \in State
      BY <3>1 DEF TypeOK
    <3>4. owed => \/ require_resume /\ ~seen_neutral
                  \/ ~no_joy_mode /\ prev_safety = Stop
      BY DEF GateInv
    <3> HIDE DEF halting
    <3> QED BY <2>2, <3>1, <3>2, <3>3, <3>4, HaltStep
  <2>4. CASE ~halting /\ safety = Stop
    <3>1. Halt(TRUE) /\ prev_safety' = safety
      BY <2>1, <2>4 DEF TimerJoy
    <3>2. require_resume' /\ ~seen_neutral'
      BY <3>1 DEF Halt, armResume
    <3>3. prev_safety' \in State
      BY <3>1 DEF TypeOK
    <3> QED BY <2>2, <3>1, <3>2, <3>3, HaltStep
  <2>5. CASE ~halting /\ safety # Stop
    <3> DEFINE armed == require_resume \/ prev_safety = Stop
               seen  == seen_neutral /\ ~(prev_safety = Stop)
    <3>1. ResumeGate(armed, seen) /\ prev_safety' = safety
      BY <2>1, <2>5 DEF TimerJoy
    <3>2. armed \in BOOLEAN /\ seen \in BOOLEAN
      BY DEF TypeOK
    <3>3. owed => armed /\ ~seen /\ ~atNeutral(input)
      BY <1>2, <2>5 DEF GateInv
    <3>4. prev_safety' \in State
      BY <3>1 DEF TypeOK
    <3>5. ~safetyStale /\ ~inputStale /\ safety # Stop
      BY <2>5
    <3> HIDE DEF armed, seen, halting
    <3> QED BY <2>2, <3>1, <3>2, <3>3, <3>4, <3>5, GateStep
  <2> QED BY <2>3, <2>4, <2>5
<1> QED BY <1>1, <1>2 DEF TypeOK

-----------------------------------------------------------------------------
(* The invariant holds at the start, and every callback preserves it. *)
LEMMA InitInv == Init => ArbiterInv
<1> SUFFICES ASSUME Init PROVE ArbiterInv
  OBVIOUS
<1>1. TypeOK
  <2>1. /\ no_joy_mode \in BOOLEAN /\ require_resume \in BOOLEAN
        /\ seen_neutral \in BOOLEAN /\ estop \in BOOLEAN
        /\ prev_estop_btn \in BOOLEAN /\ owed \in BOOLEAN
    BY DEF Init
  <2>2. /\ safety \in State /\ prev_safety \in State /\ cmd \in Twist
        /\ joy \in JoyMessages \cup {NoJoy} /\ manual_twist \in ManualTwists \cup {zero}
    BY DEF Init, zero, Twist, State
  <2>3. /\ safety_stamp \in Nat /\ joy_stamp \in Nat /\ manual_stamp \in Nat
        /\ now \in StartTime .. MaxTime /\ due \in Nat
        /\ burst \in 0 .. MaxBurst /\ slow_since \in Nat
    BY ArbiterAssumption DEF Init
  <2> QED BY <2>1, <2>2, <2>3 DEF TypeOK
<1>2. OrderInv
  BY ArbiterAssumption DEF Init, OrderInv
<1>3. StopHalts /\ FreshInv /\ CapInv
  BY DEF Init, StopHalts, FreshInv, CapInv, Stop, Slow
<1>4. GateInv
  BY DEF Init, GateInv
<1> QED BY <1>1, <1>2, <1>3, <1>4 DEF ArbiterInv

LEMMA TimerInv == ArbiterInv /\ Timer => ArbiterInv'
<1> SUFFICES ASSUME ArbiterInv, Timer PROVE ArbiterInv'
  OBVIOUS
<1> USE DEF ArbiterInv
<1>1. /\ cmd' \in Twist
      /\ require_resume' \in BOOLEAN /\ seen_neutral' \in BOOLEAN
      /\ prev_safety' \in State
      /\ estop' \in BOOLEAN /\ prev_estop_btn' \in BOOLEAN
      /\ cmd' # zero => safety # Stop /\ ~safetyStale /\ ~inputStale
      /\ safety = Slow => Within'
      /\ owed => /\ cmd' = zero
                 /\ \/ require_resume' /\ ~seen_neutral'
                    \/ ~no_joy_mode /\ prev_safety' = Stop
  BY TimerStep
<1>2. /\ now >= due /\ due' = due + timer_period
      /\ UNCHANGED <<no_joy_mode, safety, safety_stamp, joy, joy_stamp, manual_twist,
                     manual_stamp, now, burst, owed, slow_since>>
  BY DEF Timer, inputVars
<1>3. due = now /\ now \in Nat /\ due \in Nat /\ due' \in Nat
  BY <1>2, ArbiterAssumption DEF TypeOK, OrderInv
<1>4. TypeOK'
  BY <1>1, <1>2, <1>3 DEF TypeOK
<1>5. OrderInv'
  BY <1>2, <1>3, ArbiterAssumption DEF OrderInv, TypeOK
<1>6. StopHalts'
  BY <1>1, <1>2 DEF StopHalts
<1>7. FreshInv'
  <2> SUFFICES ASSUME cmd' # zero
               PROVE  /\ due' <= safety_stamp + safety_timeout + timer_period
                      /\ due' <= inputStamp + joy_timeout + timer_period
    BY <1>2 DEF FreshInv, inputStamp
  <2>1. now - safety_stamp <= safety_timeout /\ now - inputStamp <= joy_timeout
    BY <1>1, ArbiterAssumption DEF safetyStale, inputStale, inputStamp, TypeOK
  <2> QED BY <2>1, <1>2, <1>3, ArbiterAssumption DEF TypeOK, inputStamp
<1>8. CapInv'
  BY <1>1, <1>2 DEF CapInv
<1>9. GateInv'
  <2>1. atNeutral(input)' <=> atNeutral(input)
    BY <1>2 DEF atNeutral, input
  <2> QED BY <1>1, <1>2, <2>1 DEF GateInv
<1> QED BY <1>4, <1>5, <1>6, <1>7, <1>8, <1>9

LEMMA SafetyInv ==
    ASSUME ArbiterInv, NEW data \in SafetyData, onSafety(data)
    PROVE  ArbiterInv'
<1> USE DEF ArbiterInv
<1>1. /\ safety' = IF data \in State THEN data ELSE Stop
      /\ safety_stamp' = now
      /\ slow_since' = IF safety' = Slow /\ safety # Slow THEN now ELSE slow_since
      /\ UNCHANGED <<no_joy_mode, joy, joy_stamp, manual_twist, manual_stamp,
                     prev_safety, estop, prev_estop_btn, now, due>>
      /\ burst' = burst + 1 /\ burst < MaxBurst
      /\ owed' = (safety' = Stop \/ (owed /\ (safety' = Stop \/ ~atNeutral(input'))))
  BY DEF onSafety, Settle, inputVars
<1>2. \/ safety' = Stop /\ Halt(TRUE)
      \/ safety' # Stop /\ UNCHANGED <<cmd, require_resume, seen_neutral>>
  BY DEF onSafety, gateVars
<1>3. safety' \in State
  BY <1>1 DEF State
<1>4. /\ cmd' \in Twist
      /\ require_resume' \in BOOLEAN /\ seen_neutral' \in BOOLEAN
      /\ safety' = Stop => cmd' = zero /\ require_resume' /\ ~seen_neutral'
  <2>1. CASE safety' = Stop /\ Halt(TRUE)
    <3>1. cmd' = zero /\ require_resume' = TRUE /\ seen_neutral' = FALSE
      BY <2>1 DEF Halt, armResume
    <3>2. zero \in Twist
      BY DEF zero, Twist
    <3> QED BY <3>1, <3>2
  <2>2. CASE safety' # Stop /\ UNCHANGED <<cmd, require_resume, seen_neutral>>
    BY <2>2 DEF TypeOK
  <2> QED BY <1>2, <2>1, <2>2
<1>5. TypeOK'
  <2>1. owed' \in BOOLEAN
    BY <1>1
  <2>2. burst' \in 0 .. MaxBurst /\ slow_since' \in Nat /\ safety_stamp' \in Nat
    BY <1>1, ArbiterAssumption DEF TypeOK
  <2> QED BY <1>1, <1>3, <1>4, <2>1, <2>2 DEF TypeOK
<1>6. OrderInv'
  BY <1>1, ArbiterAssumption DEF OrderInv, TypeOK
<1>7. StopHalts'
  BY <1>4 DEF StopHalts
<1>8. FreshInv'
  <2>1. cmd' # zero => cmd # zero
    BY <1>2 DEF Halt
  <2>2. inputStamp' = inputStamp
    BY <1>1 DEF inputStamp
  <2> QED BY <1>1, <2>1, <2>2, ArbiterAssumption
          DEF FreshInv, OrderInv, TypeOK, inputStamp
<1>9. CapInv'
  <2> SUFFICES ASSUME safety' = Slow
               PROVE  Within' \/ due' <= slow_since' + timer_period
    BY DEF CapInv
  <2>1. UNCHANGED cmd
    BY <1>2 DEF Stop, Slow
  <2>2. CASE safety # Slow
    BY <1>1, <2>2 DEF OrderInv
  <2>3. CASE safety = Slow
    BY <1>1, <2>1, <2>3 DEF CapInv, Within
  <2> QED BY <2>2, <2>3
<1>10. GateInv'
  <2> SUFFICES ASSUME owed'
               PROVE  /\ cmd' = zero
                      /\ \/ require_resume' /\ ~seen_neutral'
                         \/ ~no_joy_mode /\ prev_safety = Stop
                      /\ safety' # Stop => ~atNeutral(input)'
    BY <1>1 DEF GateInv
  <2>1. CASE safety' = Stop
    BY <1>4, <2>1
  <2>2. CASE safety' # Stop
    <3>1. owed /\ ~atNeutral(input')
      BY <1>1, <2>2
    <3>2. atNeutral(input)' <=> atNeutral(input')
      BY <1>1 DEF atNeutral, input
    <3>3. UNCHANGED <<cmd, require_resume, seen_neutral>>
      BY <1>2, <2>2
    <3>4. cmd = zero /\ (\/ require_resume /\ ~seen_neutral
                         \/ ~no_joy_mode /\ prev_safety = Stop)
      BY <3>1 DEF GateInv
    <3> QED BY <3>1, <3>2, <3>3, <3>4
  <2> QED BY <2>1, <2>2
<1> QED BY <1>5, <1>6, <1>7, <1>8, <1>9, <1>10

(* A message of the controller, or of the other teleoperation node, brings *)
(* a new input and nothing else.                                           *)
LEMMA InputInv ==
    ASSUME ArbiterInv,
           \/ \E msg \in JoyMessages : onJoy(msg)
           \/ \E msg \in ManualTwists \cup {zero} : onManual(msg)
    PROVE  ArbiterInv'
<1> USE DEF ArbiterInv
<1>1. /\ joy' \in JoyMessages \cup {NoJoy}
      /\ manual_twist' \in ManualTwists \cup {zero}
      /\ joy_stamp' = now \/ joy_stamp' = joy_stamp
      /\ manual_stamp' = now \/ manual_stamp' = manual_stamp
      /\ UNCHANGED <<no_joy_mode, safety, safety_stamp, require_resume, seen_neutral,
                     prev_safety, estop, prev_estop_btn, cmd, now, due, slow_since>>
      /\ burst' = burst + 1 /\ burst < MaxBurst
      /\ owed' = (owed /\ (safety' = Stop \/ ~atNeutral(input')))
  BY DEF onJoy, onManual, Settle, gateVars, TypeOK
<1>2. TypeOK'
  <2>1. owed' \in BOOLEAN
    BY <1>1
  <2>2. burst' \in 0 .. MaxBurst /\ joy_stamp' \in Nat /\ manual_stamp' \in Nat
    BY <1>1, ArbiterAssumption DEF TypeOK
  <2> QED BY <1>1, <2>1, <2>2 DEF TypeOK
<1>3. OrderInv'
  BY <1>1 DEF OrderInv, TypeOK
<1>4. StopHalts' /\ CapInv'
  BY <1>1 DEF StopHalts, CapInv, Within
<1>5. FreshInv'
  <2>1. inputStamp' >= inputStamp /\ inputStamp' \in Nat /\ inputStamp \in Nat
    BY <1>1 DEF inputStamp, OrderInv, TypeOK
  <2> HIDE DEF inputStamp
  <2> QED BY <1>1, <2>1, ArbiterAssumption DEF FreshInv, TypeOK
<1>6. GateInv'
  <2>1. atNeutral(input)' <=> atNeutral(input')
    BY <1>1 DEF atNeutral, input
  <2> QED BY <1>1, <2>1 DEF GateInv
<1> QED BY <1>2, <1>3, <1>4, <1>5, <1>6

LEMMA AdvanceInv == ArbiterInv /\ Advance => ArbiterInv'
<1> SUFFICES ASSUME ArbiterInv, Advance PROVE ArbiterInv'
  OBVIOUS
<1> USE DEF ArbiterInv
<1>1. /\ now' = now + 1 /\ now < MaxTime /\ now < due /\ burst' = 0
      /\ UNCHANGED <<no_joy_mode, safety, safety_stamp, joy, joy_stamp, manual_twist,
                     manual_stamp, require_resume, seen_neutral, prev_safety, estop,
                     prev_estop_btn, cmd, due, owed, slow_since>>
  BY DEF Advance, inputVars, gateVars
<1>2. TypeOK'
  BY <1>1, ArbiterAssumption DEF TypeOK
<1>3. OrderInv'
  BY <1>1, ArbiterAssumption DEF OrderInv, TypeOK
<1>4. StopHalts' /\ CapInv' /\ FreshInv'
  BY <1>1 DEF StopHalts, CapInv, Within, FreshInv, inputStamp
<1>5. GateInv'
  BY <1>1 DEF GateInv, atNeutral, input
<1> QED BY <1>2, <1>3, <1>4, <1>5

LEMMA StutterInv == ArbiterInv /\ UNCHANGED vars => ArbiterInv'
  BY DEF ArbiterInv, vars, inputVars, gateVars, TypeOK, OrderInv, StopHalts,
         FreshInv, inputStamp, CapInv, Within, GateInv, atNeutral, input

LEMMA ArbiterInvariant == Spec => []ArbiterInv
<1>1. ArbiterInv /\ [Next]_vars => ArbiterInv'
  BY TimerInv, SafetyInv, InputInv, AdvanceInv, StutterInv DEF Next
<1> QED BY InitInv, <1>1, PTL DEF Spec

-----------------------------------------------------------------------------
(* Every state of the arbiter has the declared type; in particular the     *)
(* safety state is one of the three whatever number the topic carries.     *)
THEOREM ArbiterTypeCorrect == Spec => []TypeOK
<1>1. ArbiterInv => TypeOK
  BY DEF ArbiterInv
<1> QED BY <1>1, ArbiterInvariant, PTL

(* The velocity commanded last is zero for as long as the safety state is  *)
(* Stop, for every timing of messages and timer.                           *)
THEOREM ArbiterStopHalts == Spec => []StopHalts
<1>1. ArbiterInv => StopHalts
  BY DEF ArbiterInv
<1> QED BY <1>1, ArbiterInvariant, PTL

(* Silence of the safety topic or of the input halts the robot within its  *)
(* timeout and one period of the timer, whatever these are.                *)
THEOREM ArbiterSilenceHalts == Spec => []SilenceHalts
<1>1. ArbiterInv => SilenceHalts
  BY ArbiterAssumption
     DEF ArbiterInv, SilenceHalts, FreshInv, OrderInv, TypeOK, inputStamp
<1> QED BY <1>1, ArbiterInvariant, PTL

(* The gate: after a Stop no velocity other than zero is commanded before  *)
(* a neutral input that is later than the Stop.                            *)
THEOREM ArbiterResumeAfterNeutral == Spec => []ResumeAfterNeutral
<1>1. ArbiterInv => ResumeAfterNeutral
  BY DEF ArbiterInv, ResumeAfterNeutral, GateInv
<1> QED BY <1>1, ArbiterInvariant, PTL

(* One period after Slow has come, the velocity is within the caps.        *)
THEOREM ArbiterSlowIsCapped == Spec => []SlowIsCapped
<1>1. ArbiterInv => SlowIsCapped
  BY ArbiterAssumption
     DEF ArbiterInv, SlowIsCapped, CapInv, OrderInv, TypeOK, Within
<1> QED BY <1>1, ArbiterInvariant, PTL

-----------------------------------------------------------------------------
(* The chain.  Its invariant adds to that of the arbiter: a controller at  *)
(* rest is known to the teleoperation node, which has passed the zero on,  *)
(* or will at its next period; the arbiter has taken that zero, or will at *)
(* its own next period; and the shutdown script is as far behind the last  *)
(* velocity of the teleoperation node as its pauses say.                   *)
ChainTypeOK ==
    /\ no_joy_mode
    /\ pad \in Pads
    /\ held \in Pads \cup {NoJoy}
    /\ teleop_up \in BOOLEAN
    /\ teleop_due \in Nat /\ script_at \in Nat /\ rest_since \in Nat
    /\ script \in {"none", "teleop_down", "zero_sent", "nodes_down"}
    /\ teleop_up <=> script = "none"
    /\ rest_since <= now

ReleaseInv ==
    teleop_up =>
        /\ now <= teleop_due /\ teleop_due <= now + teleop_period
        /\ held = pad \/ (held = NoJoy /\ atRest(pad))
        /\ atRest(pad) =>
              /\ manual_twist = zero \/ teleop_due <= rest_since + teleop_period
              /\ \/ cmd = zero \/ manual_twist # zero
                 \/ due <= rest_since + teleop_period + timer_period

ScriptInv ==
    /\ script = "teleop_down" => script_at >= manual_stamp
    /\ script = "zero_sent" => script_at >= manual_stamp + script_sleep + command_time
    /\ script = "nodes_down" => cmd = zero

DriveInv == ArbiterInv /\ ChainTypeOK /\ ReleaseInv /\ ScriptInv

(* A controller at rest asks for nothing, and the arbiter then commands    *)
(* nothing.                                                                *)
LEMMA RestIsZero ==
    /\ teleopTwist(NoJoy) = zero
    /\ \A p \in Pads : atRest(p) => teleopTwist(p) = zero
  BY DriveAssumption, ArbiterAssumption
     DEF teleopTwist, atRest, btn, zero, Joy

LEMMA TwistType ==
    ASSUME ChainTypeOK
    PROVE  teleopTwist(held) \in ManualTwists \cup {zero}
  BY TeleopAssumption, RestIsZero DEF ChainTypeOK

LEMMA ZeroIsKept ==
    ASSUME no_joy_mode, manual_twist = zero, Timer
    PROVE  cmd' = zero
<1>1. capped(zero) = zero
  BY ArbiterAssumption DEF capped, clamp, zero
<1>2. asked = zero
  BY DEF asked
<1> QED BY <1>1, <1>2 DEF Timer, TimerManual, Halt, ResumeGate

(* The numbers of the clocks, for the arithmetic below. *)
LEMMA ClockTypes ==
    ASSUME ArbiterInv
    PROVE  /\ now \in Nat /\ due \in Nat /\ manual_stamp \in Nat
           /\ now <= due /\ due <= now + timer_period /\ manual_stamp <= now
  BY ArbiterAssumption DEF ArbiterInv, TypeOK, OrderInv

LEMMA DriveInitInv == DriveInit => DriveInv
<1> SUFFICES ASSUME DriveInit PROVE DriveInv
  OBVIOUS
<1>1. ArbiterInv
  BY InitInv DEF DriveInit
<1>2. now = StartTime /\ manual_twist = zero /\ cmd = zero
  BY DEF DriveInit, Init
<1>3. ChainTypeOK
  BY <1>2, ArbiterAssumption, DriveAssumption DEF DriveInit, ChainInit, ChainTypeOK
<1>4. ReleaseInv
  BY <1>2, ArbiterAssumption, DriveAssumption DEF DriveInit, ChainInit, ReleaseInv
<1>5. ScriptInv
  BY DEF DriveInit, ChainInit, ScriptInv
<1> QED BY <1>1, <1>3, <1>4, <1>5 DEF DriveInv

(* The arbiter's part of every step is a step of the arbiter, except that  *)
(* the script may send the zero on its own.                                *)
LEMMA ArbiterPart ==
    ASSUME DriveInv, [DriveNext]_<<vars, chainVars>>
    PROVE  ArbiterInv'
<1>1. ArbiterInv /\ ChainTypeOK
  BY DEF DriveInv
<1>2. CASE TeleopTimer
  <2>1. onManual(teleopTwist(held)) \/ UNCHANGED vars
    BY <1>2 DEF TeleopTimer
  <2> QED BY <1>1, <2>1, TwistType, InputInv, StutterInv
<1>3. ASSUME NEW p \in Pads, Grip(p) PROVE ArbiterInv'
  <2>1. onJoy(p) /\ p \in JoyMessages
    BY <1>3, DriveAssumption DEF Grip
  <2> QED BY <1>1, <2>1, InputInv
<1>4. ASSUME NEW data \in SafetyData, Safety(data) PROVE ArbiterInv'
  BY <1>1, <1>4, SafetyInv DEF Safety
<1>5. CASE Arbitrate
  BY <1>1, <1>5, TimerInv DEF Arbitrate
<1>6. CASE LosePad \/ StopTeleop \/ TorqueOffAndKill \/ UNCHANGED <<vars, chainVars>>
  <2>1. UNCHANGED vars
    BY <1>6 DEF LosePad, StopTeleop, TorqueOffAndKill
  <2> QED BY <1>1, <2>1, StutterInv
<1>7. CASE PublishZero
  <2>1. /\ cmd' = zero \/ cmd' = cmd
        /\ UNCHANGED <<no_joy_mode, safety, safety_stamp, joy, joy_stamp, manual_twist,
                       manual_stamp, require_resume, seen_neutral, prev_safety, estop,
                       prev_estop_btn, now, due, burst, owed, slow_since>>
    BY <1>7 DEF PublishZero, inputVars, gateVars
  <2>2. CASE cmd' = cmd
    BY <1>1, <2>1, <2>2, StutterInv DEF vars, inputVars, gateVars
  <2>3. CASE cmd' = zero
    <3>1. zero \in Twist /\ abs(0) <= slow_lin /\ abs(0) <= slow_ang
      BY ArbiterAssumption DEF zero, Twist, abs
    <3>2. TypeOK' /\ OrderInv'
      BY <1>1, <2>1, <2>3, <3>1 DEF ArbiterInv, TypeOK, OrderInv
    <3>3. StopHalts' /\ FreshInv' /\ CapInv'
      BY <2>3, <3>1 DEF StopHalts, FreshInv, CapInv, Within, zero
    <3>4. GateInv'
      BY <1>1, <2>1, <2>3 DEF ArbiterInv, GateInv, atNeutral, input
    <3> QED BY <3>2, <3>3, <3>4 DEF ArbiterInv
  <2> QED BY <2>1, <2>2, <2>3
<1>8. CASE Tick
  BY <1>1, <1>8, AdvanceInv DEF Tick
<1> QED BY <1>2, <1>3, <1>4, <1>5, <1>6, <1>7, <1>8 DEF DriveNext

LEMMA ChainTypePart ==
    ASSUME DriveInv, [DriveNext]_<<vars, chainVars>>
    PROVE  ChainTypeOK'
<1> USE DEF DriveInv, ChainTypeOK, padVars, teleopVars, scriptVars, chainVars
<1>1. now \in Nat
  BY ClockTypes
<1>2. CASE TeleopTimer
  <2>1. UNCHANGED <<no_joy_mode, now>>
    BY <1>2 DEF TeleopTimer, onManual, vars
  <2> QED BY <1>2, <2>1, DriveAssumption DEF TeleopTimer
<1>3. ASSUME NEW p \in Pads, Grip(p) PROVE ChainTypeOK'
  BY <1>1, <1>3 DEF Grip, onJoy
<1>4. ASSUME NEW data \in SafetyData, Safety(data) PROVE ChainTypeOK'
  BY <1>4 DEF Safety, onSafety
<1>5. CASE Arbitrate
  BY <1>5 DEF Arbitrate, Timer
<1>6. CASE LosePad \/ StopTeleop \/ TorqueOffAndKill \/ UNCHANGED <<vars, chainVars>>
  <2>1. UNCHANGED <<no_joy_mode, now, pad, held, teleop_due, rest_since>>
    BY <1>6 DEF LosePad, StopTeleop, TorqueOffAndKill, vars
  <2>2. /\ teleop_up' \in BOOLEAN /\ script_at' \in Nat
        /\ script' \in {"none", "teleop_down", "zero_sent", "nodes_down"}
    BY <1>1, <1>6 DEF LosePad, StopTeleop, TorqueOffAndKill, scriptStep
  <2>3. teleop_up' <=> script' = "none"
    BY <1>6 DEF LosePad, StopTeleop, TorqueOffAndKill, scriptStep
  <2> QED BY <2>1, <2>2, <2>3
<1>7. CASE PublishZero
  BY <1>1, <1>7 DEF PublishZero, scriptStep
<1>8. CASE Tick
  BY <1>1, <1>8 DEF Tick, Advance
<1> QED BY <1>2, <1>3, <1>4, <1>5, <1>6, <1>7, <1>8 DEF DriveNext

(* A release travels through both nodes, at most a period each. *)
LEMMA ReleasePart ==
    ASSUME DriveInv, [DriveNext]_<<vars, chainVars>>
    PROVE  ReleaseInv'
<1> USE DEF DriveInv, padVars, teleopVars, scriptVars, chainVars
<1>1. /\ now \in Nat /\ due \in Nat /\ teleop_due \in Nat /\ rest_since \in Nat
      /\ now <= due /\ due <= now + timer_period /\ rest_since <= now
  BY ClockTypes DEF ChainTypeOK
<1>2. timer_period \in Nat /\ teleop_period \in Nat
  BY ArbiterAssumption, DriveAssumption
<1>3. CASE TeleopTimer
  <2>1. /\ teleop_up /\ teleop_due = now /\ teleop_due' = now + teleop_period
        /\ UNCHANGED <<now, due, cmd, pad, held, teleop_up, rest_since>>
        /\ manual_twist' = teleopTwist(held)
    BY <1>1, <1>3 DEF TeleopTimer, onManual, sent, ReleaseInv
  <2>2. atRest(pad) => manual_twist' = zero
    BY <2>1, RestIsZero DEF ReleaseInv, ChainTypeOK
  <2>3. ASSUME atRest(pad), cmd # zero
        PROVE  due <= rest_since + teleop_period + timer_period
    BY <1>1, <1>2, <2>1, <2>3 DEF ReleaseInv
  <2> QED BY <1>1, <1>2, <2>1, <2>2, <2>3 DEF ReleaseInv, atRest, stickUsed
<1>4. ASSUME NEW p \in Pads, Grip(p) PROVE ReleaseInv'
  <2>1. /\ pad' = p
        /\ held' = IF teleop_up THEN p ELSE held
        /\ rest_since' = IF atRest(p) /\ ~atRest(pad) THEN now ELSE rest_since
        /\ UNCHANGED <<now, due, cmd, manual_twist, teleop_up, teleop_due>>
    BY <1>4 DEF Grip, onJoy
  <2>2. atRest(pad)' <=> atRest(p)
    BY <2>1 DEF atRest, stickUsed
  <2> QED BY <1>1, <1>2, <2>1, <2>2 DEF ReleaseInv
<1>5. ASSUME NEW data \in SafetyData, Safety(data) PROVE ReleaseInv'
  <2>1. /\ cmd' = zero \/ cmd' = cmd
        /\ UNCHANGED <<now, due, manual_twist, pad, held, teleop_up, teleop_due,
                       rest_since>>
    BY <1>5 DEF Safety, onSafety, Halt, inputVars
  <2> QED BY <2>1 DEF ReleaseInv, atRest, stickUsed
<1>6. CASE Arbitrate
  <2>1. UNCHANGED <<now, manual_twist, pad, held, teleop_up, teleop_due, rest_since>>
    BY <1>6 DEF Arbitrate, Timer, inputVars
  <2>2. manual_twist = zero => cmd' = zero
    BY <1>6, ZeroIsKept DEF Arbitrate, ChainTypeOK
  <2> QED BY <2>1, <2>2 DEF ReleaseInv, atRest, stickUsed
<1>7. CASE StopTeleop
  BY <1>7 DEF StopTeleop, ReleaseInv
<1>8. CASE LosePad \/ TorqueOffAndKill \/ UNCHANGED <<vars, chainVars>>
  <2>1. UNCHANGED <<now, due, cmd, manual_twist, pad, held, teleop_up, teleop_due,
                    rest_since>>
    BY <1>8 DEF LosePad, TorqueOffAndKill, vars, inputVars
  <2> QED BY <2>1 DEF ReleaseInv, atRest, stickUsed
<1>9. CASE PublishZero
  BY <1>9 DEF PublishZero, scriptStep, ReleaseInv, ChainTypeOK
<1>10. CASE Tick
  <2>1. /\ now' = now + 1
        /\ teleop_up => now < teleop_due
        /\ UNCHANGED <<due, cmd, manual_twist, pad, held, teleop_up, teleop_due,
                       rest_since>>
    BY <1>10 DEF Tick, Advance, inputVars
  <2> QED BY <1>1, <1>2, <2>1 DEF ReleaseInv, atRest, stickUsed
<1> QED BY <1>3, <1>4, <1>5, <1>6, <1>7, <1>8, <1>9, <1>10 DEF DriveNext

(* By the time the nodes are killed, the input of the arbiter is older     *)
(* than it accepts, and its timer has fired since.                         *)
LEMMA ScriptPart ==
    ASSUME DriveInv, [DriveNext]_<<vars, chainVars>>
    PROVE  ScriptInv'
<1> USE DEF DriveInv, padVars, teleopVars, scriptVars, chainVars
<1>1. /\ now \in Nat /\ due \in Nat /\ manual_stamp \in Nat /\ script_at \in Nat
      /\ now <= due /\ manual_stamp <= now
  BY ClockTypes DEF ChainTypeOK
<1>2. /\ joy_timeout \in Nat /\ timer_period \in Nat
      /\ script_sleep \in Nat /\ command_time \in Nat
  BY ArbiterAssumption, DriveAssumption
<1>3. CASE TeleopTimer
  BY <1>3 DEF TeleopTimer, ChainTypeOK, ScriptInv
<1>4. ASSUME NEW p \in Pads, Grip(p) PROVE ScriptInv'
  BY <1>4 DEF Grip, onJoy, ScriptInv
<1>5. ASSUME NEW data \in SafetyData, Safety(data) PROVE ScriptInv'
  BY <1>5 DEF Safety, onSafety, nodesUp, inputVars, ScriptInv
<1>6. CASE Arbitrate
  BY <1>6 DEF Arbitrate, Timer, nodesUp, inputVars, ScriptInv
<1>7. CASE StopTeleop
  BY <1>1, <1>7 DEF StopTeleop, scriptStep, vars, inputVars, ScriptInv
<1>8. CASE PublishZero
  BY <1>1, <1>2, <1>8 DEF PublishZero, scriptStep, pause, inputVars, ScriptInv
<1>9. CASE TorqueOffAndKill
  <2>1. /\ script = "zero_sent" /\ now >= script_at + command_time
        /\ script' = "nodes_down" /\ cmd' = cmd
    BY <1>9 DEF TorqueOffAndKill, scriptStep, vars
  <2>2. now >= manual_stamp + script_sleep + 2 * command_time
    BY <1>1, <1>2, <2>1 DEF ScriptInv
  <2>3. cmd # zero => due <= manual_stamp + joy_timeout + timer_period
    BY DEF ArbiterInv, FreshInv, inputStamp, ChainTypeOK
  <2>4. cmd = zero
    BY <1>1, <1>2, <2>2, <2>3, DriveAssumption
  <2> QED BY <2>1, <2>4 DEF ScriptInv
<1>10. CASE LosePad \/ UNCHANGED <<vars, chainVars>>
  BY <1>10 DEF LosePad, vars, inputVars, ScriptInv
<1>11. CASE Tick
  BY <1>11 DEF Tick, Advance, inputVars, ScriptInv
<1> QED BY <1>3, <1>4, <1>5, <1>6, <1>7, <1>8, <1>9, <1>10, <1>11 DEF DriveNext

LEMMA DriveInvariant == DriveSpec => []DriveInv
<1>1. DriveInv /\ [DriveNext]_<<vars, chainVars>> => DriveInv'
  BY ArbiterPart, ChainTypePart, ReleasePart, ScriptPart DEF DriveInv
<1> QED BY DriveInitInv, <1>1, PTL DEF DriveSpec

(* Whatever the periods of the two nodes, a controller that is let go has  *)
(* stopped the robot one period of each later.                             *)
THEOREM DriveReleasedPadStops == DriveSpec => []ReleasedPadStops
<1>1. DriveInv => ReleasedPadStops
  BY ClockTypes, ArbiterAssumption, DriveAssumption
     DEF DriveInv, ChainTypeOK, ReleaseInv, ReleasedPadStops
<1> QED BY <1>1, DriveInvariant, PTL

(* stop_robot.sh leaves a zero behind when its pause and its two commands  *)
(* outlast the timeout and a period of the arbiter, also if the commands   *)
(* do nothing.                                                             *)
THEOREM DriveShutdownStops == DriveSpec => []ShutdownStops
<1>1. DriveInv => ShutdownStops
  BY DEF DriveInv, ScriptInv, ShutdownStops
<1> QED BY <1>1, DriveInvariant, PTL

(* What the arbiter promises by itself it keeps when it is driven through  *)
(* the chain, until the end of the shutdown.                               *)
THEOREM DriveKeepsArbiter ==
    DriveSpec => [](StopHalts /\ SilenceHalts /\ ResumeAfterNeutral /\ SlowIsCapped)
<1>1. ArbiterInv => StopHalts /\ SilenceHalts /\ ResumeAfterNeutral /\ SlowIsCapped
  BY ArbiterAssumption
     DEF ArbiterInv, SilenceHalts, FreshInv, OrderInv, TypeOK, inputStamp,
         ResumeAfterNeutral, GateInv, SlowIsCapped, CapInv, Within
<1>2. DriveInv => ArbiterInv
  BY DEF DriveInv
<1> QED BY <1>1, <1>2, DriveInvariant, PTL
=============================================================================
