----------------------------- MODULE MCRoiLink ------------------------------
(***************************************************************************)
(* Three calls over three connections, two of which may break, with a      *)
(* server of the same or of an older version.                              *)
(***************************************************************************)
EXTENDS RoiLink

Result(status, has_class, ppm) ==
    [status |-> status, has_class |-> has_class, confidence_ppm |-> ppm]

(* What classify_one produces, a class or a failed run, and what a server  *)
(* of another build might: results that break the contract.                *)
MCResults ==
    { Result(0, TRUE, 900000), Result(3, FALSE, 0),
      Result(3, FALSE, 10), Result(5, FALSE, 0), Result(0, TRUE, 2000000) }
=============================================================================
