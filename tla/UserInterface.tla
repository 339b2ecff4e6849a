--------------------------- MODULE UserInterface ---------------------------
(***************************************************************************)
(* The page the operator looks at (turtlebot/scripts/ui_server.py): a ROS  *)
(* node keeps the last message of each topic with the time it came, an     *)
(* HTTP thread per request answers with a snapshot of them, and a script   *)
(* in the browser asks ten times a second and renders what it gets.  The   *)
(* safety topic is followed here; the others are kept and drawn alike.     *)
(*                                                                         *)
(* Of the age of an entry only matters whether it exceeds stale_sec: time  *)
(* makes an entry stale, a message makes it fresh.  The script does not    *)
(* wait for an answer before it asks again, so answers overtake each       *)
(* other.  The server may die and be started again.                        *)
(***************************************************************************)
EXTENDS SafetyState

CONSTANTS
    SafetyData,         \* values of the safety topic
    Requests            \* bound: questions under way at a time

(* STATE_NAMES: what is sent to the page for a message of the topic. *)
STATE_NAMES(v) ==
    CASE v = Clear -> "CLEAR" [] v = Slow -> "SLOW" [] v = Stop -> "STOP"
      [] OTHER -> "UNKNOWN"
Values  == {STATE_NAMES(v) : v \in SafetyData}
Nothing == [value |-> "none", stale |-> TRUE]

VARIABLES
    up,                 \* the server runs
    data,               \* UiState: the entry of the topic
    request,            \* per question: what became of it, and the answer
    pill,               \* the state that is shown
    dot,                \* the mark that the server answers
    drawn               \* history: the answer that was rendered last

pageVars == <<up, data, request, pill, dot, drawn>>

idle == [is |-> "idle", answer |-> Nothing]

PageInit ==
    /\ up = TRUE
    /\ data = Nothing
    /\ request = [r \in Requests |-> idle]
    /\ pill = "NO SIGNAL" /\ dot = FALSE
    /\ drawn = Nothing

-----------------------------------------------------------------------------
(* UiState.put, from the callback of the subscription. *)
Receive(v) ==
    /\ up
    /\ data' = [value |-> v, stale |-> FALSE]
    /\ UNCHANGED <<up, request, pill, dot, drawn>>

(* stale_sec pass without a message. *)
Expire ==
    /\ ~data.stale
    /\ data' = [data EXCEPT !.stale = TRUE]
    /\ UNCHANGED <<up, request, pill, dot, drawn>>

(* The process ends with its entries; start_robot.sh starts it again. *)
Die     == up  /\ up' = FALSE /\ data' = Nothing /\ UNCHANGED <<request, pill, dot, drawn>>
Restart == ~up /\ up' = TRUE  /\ UNCHANGED <<data, request, pill, dot, drawn>>

-----------------------------------------------------------------------------
(* Slip: the next question is asked from the handler of an answer. *)
mayAsk_Slip_Chained == dot \/ drawn = Nothing
(* setInterval asks whatever became of the questions before. *)
mayAsk == TRUE

poll(r) ==
    /\ mayAsk
    /\ request[r] = idle
    /\ request' = [request EXCEPT ![r].is = "asked"]
    /\ UNCHANGED <<up, data, pill, dot, drawn>>

(* UiState.snapshot *)
snapshot == data

do_GET(r) ==
    /\ up
    /\ request[r].is = "asked"
    /\ request' = [request EXCEPT ![r] = [is |-> "answered", answer |-> snapshot]]
    /\ UNCHANGED <<up, data, pill, dot, drawn>>

fresh(s) == ~s.stale

render(s) ==
    /\ pill' = IF fresh(s) THEN s.value ELSE "NO SIGNAL"
    /\ drawn' = s

(* The answer arrives. *)
Answer(r) ==
    /\ request[r].is = "answered"
    /\ request' = [request EXCEPT ![r] = idle]
    /\ render(request[r].answer)
    /\ dot' = TRUE
    /\ UNCHANGED <<up, data>>

(* The handler of a question that failed: no connection, or the server     *)
(* died before it had answered.  The rest of the page stays as it is.      *)
Fails(r) ==
    /\ ~up
    /\ request[r].is = "asked"
    /\ request' = [request EXCEPT ![r] = idle]
    /\ dot' = FALSE
    /\ UNCHANGED <<up, data, pill, drawn>>

PageNext ==
    \/ Expire \/ \E v \in Values : Receive(v)
    \/ Die \/ Restart
    \/ \E r \in Requests : poll(r) \/ do_GET(r) \/ Answer(r) \/ Fails(r)

(* The interval timer of the browser, the threads of the server and the    *)
(* network go on.  Nobody promises that messages come, that the server     *)
(* stays up or that it is started again.                                   *)
PageFairness ==
    \A r \in Requests :
        WF_pageVars(poll(r)) /\ WF_pageVars(do_GET(r)) /\ WF_pageVars(Answer(r)) /\ WF_pageVars(Fails(r))

PageSpec == PageInit /\ [][PageNext]_pageVars /\ PageFairness

-----------------------------------------------------------------------------
(* A page that stays open follows the robot, and follows it again after   *)
(* any outage of the server: a safety topic that falls silent ends as NO   *)
(* SIGNAL for good, even if older answers that still say CLEAR arrive      *)
(* late; and a state that keeps coming is the state that is shown, with    *)
(* the mark that the server answers.                                       *)
PageFollows ==
    /\ <>[](up /\ ~fresh(data)) => <>[](pill = "NO SIGNAL")
    /\ \A v \in Values :
        <>[](up /\ fresh(data) /\ data.value = v)
            => <>[](pill = v /\ dot)
=============================================================================
