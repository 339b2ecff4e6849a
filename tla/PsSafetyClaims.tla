--------------------------- MODULE PsSafetyClaims ---------------------------
(***************************************************************************)
(* A statement of the repository about the safety path that its code does  *)
(* not keep.  The system is PsSafety; the variables added here record how  *)
(* old the judged observations are.                                        *)
(***************************************************************************)
EXTENDS PsSafety

VARIABLES
    frame_at,       \* when the frame being collected was last observed
    evidence_at     \* the same, of the frame judged last

claimVars == <<frame_at, evidence_at>>

ClaimInit == Init /\ frame_at = 0 /\ evidence_at = 0

ClaimNext ==
    /\ Next
    /\ frame_at' = IF pc = "classify" /\ pc' = "send" THEN now ELSE frame_at
    /\ evidence_at' = IF pc = "flush" /\ pc' = "publish" THEN frame_at ELSE evidence_at

ClaimSpec == ClaimInit /\ [][ClaimNext]_<<vars, claimVars>>

(* jetson_roi_client.cpp says that the watchdog of the PS answers old      *)
(* evidence with Stop: a state other than Stop would only be on the UART   *)
(* while the observations behind it are younger than decision_timeout_ms   *)
(* (and the lag of the thread).                                            *)
EvidenceIsFresh ==
    last_sent # Stop /\ ~lost => now < evidence_at + decision_timeout_ms + Lag
=============================================================================
