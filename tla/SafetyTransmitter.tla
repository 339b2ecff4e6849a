------------------------- MODULE SafetyTransmitter -------------------------
(***************************************************************************)
(* The transmitter of arty/ps_db/src/control/SafetyTransmitter.cpp: a      *)
(* thread that repeats the published state on the UART every period_ms,    *)
(* and sends Stop instead when the decision is too old.                    *)
(*                                                                         *)
(* publish() runs in the classifier thread and tick() in the transmitter   *)
(* thread; each holds the mutex throughout, so each is one step.  Reading  *)
(* the stop flag and ticking are two steps of run().  The statistics are   *)
(* left out: nothing reads them back.                                      *)
(*                                                                         *)
(* The steady clock is now.  The operating system is assumed to run a      *)
(* thread that is due within MaxJitter; the bounds the properties state    *)
(* are in terms of it.                                                     *)
(***************************************************************************)
EXTENDS SafetyState, Integers

CONSTANTS
    period_ms,              \* interval of the frames on the UART
    decision_timeout_ms,    \* a decision this old is stale
    MaxJitter,              \* scheduling delay of a thread that is due
    MaxTime,                \* bound: the clock stops here
    LastInput,              \* bound: the caller is active up to this time
    MaxFailures             \* bound: UART writes that fail

ASSUME TransmitterAssumption ==
    /\ period_ms \in Nat \ {0}
    /\ decision_timeout_ms \in Nat \ {0}
    /\ MaxJitter \in Nat
    /\ MaxTime \in Nat
    /\ LastInput \in Nat
    /\ MaxFailures \in Nat

VARIABLES
    now,
    published,          \* published_
    decided_at_ms,      \* when that was decided, as publish() was told
    decision_seen,
    last_sent,          \* last_sent_: the last state written to the UART
    thread,             \* where run() is: "check", "tick" or "done"
    wake,               \* end of its sleep
    transmitter_stop,   \* the flag that ends run()
    (* history *)
    failures,           \* writes that failed
    lost,               \* no write has succeeded since one failed
    raised_at           \* when published last became more dangerous

sendVars == <<last_sent, failures, lost>>
txVars   == <<now, published, decided_at_ms, decision_seen, last_sent, thread,
              wake, transmitter_stop, failures, lost, raised_at>>

TxTypeOK ==
    /\ now \in 0 .. MaxTime
    /\ published \in State
    /\ decided_at_ms \in Nat
    /\ decision_seen \in BOOLEAN
    /\ last_sent \in State
    /\ thread \in {"check", "tick", "done"}
    /\ wake \in Nat
    /\ transmitter_stop \in BOOLEAN
    /\ failures \in 0 .. MaxFailures
    /\ lost \in BOOLEAN
    /\ raised_at \in Nat

TxInit ==
    /\ now = 0
    /\ published = Stop
    /\ decided_at_ms = 0
    /\ decision_seen = FALSE
    /\ last_sent = Stop
    /\ thread = "check"
    /\ wake = 0
    /\ transmitter_stop = FALSE
    /\ failures = 0
    /\ lost = FALSE
    /\ raised_at = 0

-----------------------------------------------------------------------------
(* sendLocked: last_sent_ changes only if the write succeeds. *)
sendLocked(state) ==
    \/ /\ last_sent' = state
       /\ lost' = FALSE
       /\ UNCHANGED failures
    \/ /\ failures < MaxFailures
       /\ failures' = failures + 1
       /\ lost' = TRUE
       /\ UNCHANGED last_sent

(* publish(): entering Stop is sent at once, by the calling thread. *)
publish(state, decided_at) ==
    /\ published' = state
    /\ decided_at_ms' = decided_at
    /\ decision_seen' = TRUE
    /\ raised_at' = IF state > published THEN now ELSE raised_at
    /\ IF state = Stop /\ published # Stop
       THEN sendLocked(Stop)
       ELSE UNCHANGED sendVars

(* Slip: the watchdog is off by one period of the clock. *)
stale_Slip_Late ==
    \/ ~decision_seen
    \/ now >= decided_at_ms /\ now - decided_at_ms > decision_timeout_ms

(* Slip: the watchdog is missing once a decision has been seen. *)
stale_Slip_Off == ~decision_seen

stale ==
    \/ ~decision_seen
    \/ now >= decided_at_ms /\ now - decided_at_ms >= decision_timeout_ms

(* Slip: a state worse than the last one sent is left to publish(). *)
tick_Slip_LeaveRise ==
    LET state == IF stale THEN Stop ELSE published
    IN  IF state > last_sent THEN UNCHANGED sendVars ELSE sendLocked(state)

tick == sendLocked(IF stale THEN Stop ELSE published)

(* run(): the loop test, when the sleep is over *)
RunCheck ==
    /\ thread = "check"
    /\ now >= wake
    /\ IF transmitter_stop
       THEN thread' = "done" /\ UNCHANGED wake
       ELSE thread' = "tick" /\ wake' = now + period_ms
    /\ UNCHANGED <<now, published, decided_at_ms, decision_seen, sendVars,
                   transmitter_stop, raised_at>>

(* run(): the body; the time it takes is taken off the sleep *)
RunTick ==
    /\ thread = "tick"
    /\ tick
    /\ thread' = "check"
    /\ UNCHANGED <<now, published, decided_at_ms, decision_seen, wake,
                   transmitter_stop, raised_at>>

(* Time may pass unless the transmitter thread would then be later than    *)
(* MaxJitter.                                                              *)
InTime ==
    /\ thread = "check" => now < wake + MaxJitter
    /\ thread = "tick"  => now < wake - period_ms + MaxJitter

Advance ==
    /\ now < MaxTime
    /\ InTime
    /\ now' = now + 1
    /\ UNCHANGED <<published, decided_at_ms, decision_seen, sendVars, thread,
                   wake, transmitter_stop, raised_at>>

-----------------------------------------------------------------------------
(* What a caller may do: publish decisions in the order it takes them, and *)
(* end the thread after publishing Stop (ps_safety_stop).                  *)
Publish ==
    /\ now <= LastInput
    /\ ~transmitter_stop
    /\ \E state \in State, at \in decided_at_ms .. now : publish(state, at)
    /\ UNCHANGED <<now, thread, wake, transmitter_stop>>

RequestStop ==
    /\ now <= LastInput
    /\ ~transmitter_stop
    /\ published = Stop
    /\ transmitter_stop' = TRUE
    /\ UNCHANGED <<now, published, decided_at_ms, decision_seen, sendVars,
                   thread, wake, raised_at>>

TxNext == RunCheck \/ RunTick \/ Advance \/ Publish \/ RequestStop

TxSpec == TxInit /\ [][TxNext]_txVars

(* Time goes on and the transmitter thread is scheduled; the caller may    *)
(* hang at any point.                                                      *)
TxFairness == WF_txVars(RunCheck) /\ WF_txVars(RunTick) /\ WF_txVars(Advance)
TxLiveSpec == TxSpec /\ TxFairness

-----------------------------------------------------------------------------
(* How far behind the decisions the UART can be when writes succeed. *)
Lag == period_ms + 2 * MaxJitter

(* The watchdog: as long as writes succeed, the last frame on the UART is  *)
(* a state other than Stop only while the decision behind it is younger    *)
(* than decision_timeout_ms plus the lag of the thread.                    *)
StaleStops ==
    last_sent # Stop /\ ~lost => now < decided_at_ms + decision_timeout_ms + Lag

(* A Stop is on the UART from the step that publishes it, whatever the     *)
(* periodic thread does around it, unless its write failed.                *)
StopIsImmediate == published = Stop /\ ~lost => last_sent = Stop

(* Any more dangerous state reaches the UART within one lag, even when it  *)
(* is published again before every tick.                                   *)
WorseReachesWire == last_sent < published /\ ~lost => now <= raised_at + Lag

(* When the caller falls silent, for whatever reason and at whatever       *)
(* point, Stop ends up on the UART for good: the watchdog replaces the old *)
(* state and the period repeats a write that failed.  The one exception is *)
(* a thread that ps_safety_stop ended right after the write of the last    *)
(* Stop failed: nothing repeats that one.                                  *)
SilenceStops == <>[](last_sent = Stop \/ (thread = "done" /\ lost))
=============================================================================
