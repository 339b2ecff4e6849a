------------------------------ MODULE MCOutput ------------------------------
(***************************************************************************)
(* How a state leaves the PS and reaches the robot and its operator: the   *)
(* transmitter under any caller that publishes in order, the UART with its *)
(* receiver node, and the page in the operator's browser.  part says which *)
(* of them runs in a behaviour; the others stay as they start.             *)
(*                                                                         *)
(* Three frames on the UART, of which two, not neighbours, may be lost or  *)
(* damaged in part.  The receiver only compares bytes, with each other and *)
(* with check bytes; so a damaged byte is a byte of a frame, the check     *)
(* byte of one, a byte that has one as its check byte, or any other (255   *)
(* stands for these).  The page has two questions under way, so that an    *)
(* older answer may arrive after a newer one; 7 is a number that is no     *)
(* state.                                                                  *)
(***************************************************************************)
EXTENDS SafetyTransmitter, UartLink, UserInterface

(* UartFrame.hpp gives the check value of the CRC, that of "123456789". *)
ASSUME CrcCheckValue == crc8(<<49, 50, 51, 52, 53, 54, 55, 56, 57>>) = 244

FrameByte == UNION {{frame[k] : k \in 1 .. 3} : frame \in SentFrame}

MCNoise == {255} \cup FrameByte
             \cup {frame[3] : frame \in {g \in ValidFrame : g[2] \in FrameByte}}
             \cup {frame[2] : frame \in {g \in ValidFrame : g[3] \in FrameByte}}

MCSafetyData == {Clear, Stop, 7}

VARIABLE part       \* the part that runs
all == <<part, txVars, linkVars, pageVars>>

MCInit == part \in {"transmitter", "line", "page"} /\ TxInit /\ LinkInit /\ PageInit

MCNext ==
    /\ UNCHANGED part
    /\ \/ part = "transmitter" /\ TxNext   /\ UNCHANGED <<linkVars, pageVars>>
       \/ part = "line"        /\ LinkNext /\ UNCHANGED <<txVars, pageVars>>
       \/ part = "page"        /\ PageNext /\ UNCHANGED <<txVars, linkVars>>

(* TxFairness and PageFairness, of the part that runs. *)
MCFairness ==
    /\ WF_txVars(part = "transmitter" /\ RunCheck)
    /\ WF_txVars(part = "transmitter" /\ RunTick)
    /\ WF_txVars(part = "transmitter" /\ Advance)
    /\ \A r \in Requests :
        /\ WF_pageVars(part = "page" /\ poll(r))
        /\ WF_pageVars(part = "page" /\ do_GET(r))
        /\ WF_pageVars(part = "page" /\ Answer(r))
        /\ WF_pageVars(part = "page" /\ Fails(r))

MCSpec == MCInit /\ [][MCNext]_all /\ MCFairness
=============================================================================
