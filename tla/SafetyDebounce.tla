--------------------------- MODULE SafetyDebounce ---------------------------
(***************************************************************************)
(* Debounce of common/src/SafetyDebounce.cpp: a more dangerous state is    *)
(* taken at once, a safer one only after it has been seen in               *)
(* release_frames frames in a row and for release_hold_ms.                 *)
(*                                                                         *)
(* The caller's clock does not run backwards.  MaxCalls and MaxStep bound  *)
(* the calls and the time between two of them.                             *)
(***************************************************************************)
EXTENDS SafetyState, Integers

CONSTANTS
    debounce_frames,    \* release_frames
    release_hold_ms,
    MaxCalls,           \* bound: calls of update()
    MaxStep             \* bound: time between two calls

ASSUME DebounceAssumption ==
    {debounce_frames, release_hold_ms, MaxCalls, MaxStep} \subseteq Nat

VARIABLES
    state_,
    pending_, pending_frames_, pending_since_,      \* the candidate
    now_ms,                                         \* now_ms of the last call
    (* history *)
    calls,
    judged,             \* the judgement of the last call
    row, row_since      \* its number of calls in a row, and the time of the first

pendingVars == <<pending_, pending_frames_, pending_since_>>
debounceVars == <<state_, pendingVars, now_ms, calls, judged, row, row_since>>

DebounceTypeOK ==
    /\ {state_, pending_, judged} \subseteq State
    /\ {pending_frames_, pending_since_, now_ms, calls, row, row_since} \subseteq Nat

DebounceInit ==
    /\ state_ = Stop
    /\ pending_ = Stop /\ pending_frames_ = 0 /\ pending_since_ = 0
    /\ now_ms = 0 /\ calls = 0
    /\ judged = Stop /\ row = 0 /\ row_since = 0

-----------------------------------------------------------------------------
(* The candidate is s from t on, seen n times. *)
Candidate(s, n, t) == pending_' = s /\ pending_frames_' = n /\ pending_since_' = t

(* Slip: another candidate is counted on where the last one was. *)
Count_Slip_GoesOn(raw, t) ==
    /\ Candidate(raw, pending_frames_ + 1, pending_since_)
    /\ state_' = IF pending_frames_' >= debounce_frames
                    /\ t - pending_since_ >= release_hold_ms
                 THEN raw ELSE state_

(* A safer state than the present one: a new candidate starts a count, and *)
(* the old one is released when both the frames and the time suffice.      *)
Count(raw, t) ==
    IF raw # pending_
    THEN Candidate(raw, 1, t) /\ UNCHANGED state_
    ELSE IF pending_frames_ + 1 >= debounce_frames /\ t - pending_since_ >= release_hold_ms
    THEN Candidate(raw, 0, t) /\ state_' = raw
    ELSE Candidate(raw, pending_frames_ + 1, pending_since_) /\ UNCHANGED state_

(* A state that is as dangerous or more is taken, and ends the candidate. *)
Debounce_update(raw, t) ==
    IF raw >= state_ THEN state_' = raw /\ Candidate(raw, 0, t) ELSE Count(raw, t)

Update(raw, t) ==
    /\ calls < MaxCalls
    /\ Debounce_update(raw, t)
    /\ now_ms' = t
    /\ calls' = calls + 1
    /\ judged' = raw
    /\ row' = IF raw = judged THEN row + 1 ELSE 1
    /\ row_since' = IF raw = judged /\ row > 0 THEN row_since ELSE t

Debounce_reset ==
    /\ state_' = Stop
    /\ Candidate(Stop, 0, 0)
    /\ UNCHANGED <<now_ms, calls, judged, row, row_since>>

DebounceNext ==
    \/ \E raw \in State, d \in 0 .. MaxStep : Update(raw, now_ms + d)
    \/ Debounce_reset

DebounceSpec == DebounceInit /\ [][DebounceNext]_debounceVars

-----------------------------------------------------------------------------
(* update() never returns less than the judgement it was given: danger is  *)
(* passed on with the frame that shows it.                                 *)
DangerAtOnce == state_ >= judged \/ calls = 0

(* A step to a safer state follows release_frames judgements of exactly    *)
(* this state in a row, without another one in between, which took         *)
(* release_hold_ms; whatever candidates came before and wherever reset()   *)
(* fell.                                                                   *)
ReleaseIsEarned ==
    [][state_' < state_ =>
        /\ judged' = state_'
        /\ row' >= debounce_frames
        /\ now_ms' - row_since' >= release_hold_ms]_debounceVars

(* The count of the candidate never runs ahead of the judgements. *)
CandidateInv ==
    /\ row_since <= now_ms
    /\ pending_ # state_ =>
        /\ pending_ = judged /\ pending_ < state_
        /\ pending_frames_ <= row /\ row > 0
        /\ row_since <= pending_since_

DebounceInv == DebounceTypeOK /\ DangerAtOnce /\ CandidateInv
=============================================================================
