---------------------------- MODULE RoiExchange -----------------------------
(***************************************************************************)
(* What the ROI link promises to the two programs that use it: a call of   *)
(* the Jetson hands its request to the PS whole and at most once, and      *)
(* returns a result only if it is the one the PS computed for this very    *)
(* request.  A call may always fail instead.  RoiLink implements it.       *)
(***************************************************************************)
EXTENDS Naturals

CONSTANTS
    MaxCalls,                   \* bound: calls of classify
    Results,                    \* results of a classification
    NoResult                    \* no result (yet)

VARIABLES
    calls,                      \* calls begun so far; the last one is the current
    active,                     \* the last call is in progress
    handed,                     \* requests handed to the PS
    answers,                    \* what the PS computed for each
    returned                    \* what each call returned

exchangeVars == <<calls, active, handed, answers, returned>>

ExchangeInit ==
    /\ calls = 0
    /\ active = FALSE
    /\ handed = {}
    /\ answers = [r \in 1 .. MaxCalls |-> NoResult]
    /\ returned = [r \in 1 .. MaxCalls |-> NoResult]

Begin ==
    /\ ~active /\ calls < MaxCalls
    /\ calls' = calls + 1
    /\ active' = TRUE
    /\ UNCHANGED <<handed, answers, returned>>

Hand(r) ==
    /\ r \in 1 .. calls /\ r \notin handed
    /\ handed' = handed \cup {r}
    /\ UNCHANGED <<calls, active, answers, returned>>

Answer(r) ==
    /\ r \in handed /\ answers[r] = NoResult
    /\ \E result \in Results : answers' = [answers EXCEPT ![r] = result]
    /\ UNCHANGED <<calls, active, handed, returned>>

Return ==
    /\ active /\ answers[calls] # NoResult
    /\ active' = FALSE
    /\ returned' = [returned EXCEPT ![calls] = answers[calls]]
    /\ UNCHANGED <<calls, handed, answers>>

Fail ==
    /\ active
    /\ active' = FALSE
    /\ UNCHANGED <<calls, handed, answers, returned>>

ExchangeNext ==
    \/ Begin \/ Return \/ Fail
    \/ \E r \in 1 .. MaxCalls : Hand(r) \/ Answer(r)

ExchangeSpec == ExchangeInit /\ [][ExchangeNext]_exchangeVars
=============================================================================
