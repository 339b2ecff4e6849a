----------------------------- MODULE MjpegStream -----------------------------
(***************************************************************************)
(* The stream server of the Jetson (jetson/src/stream/                     *)
(* MjpegStreamServer.cpp): the main loop publishes a frame into one slot,  *)
(* the encoder thread takes the latest from it and puts a JPEG into        *)
(* another, and a thread per viewer sends it; one more thread accepts      *)
(* viewers.  stop() clears running_, closes the listener, notifies and     *)
(* joins them all.                                                         *)
(*                                                                         *)
(* A thread evaluates the predicate of its wait and goes to sleep in two   *)
(* steps ("doze" in between).  It holds the mutex of its slot there, which *)
(* keeps a new frame or JPEG out, but not stop(): running_ is changed and  *)
(* the notification is sent without the mutex.                             *)
(***************************************************************************)
EXTENDS Naturals, FiniteSets

CONSTANTS
    Viewers,
    MaxFrames           \* bound: frames that are published

ASSUME StreamAssumption == IsFiniteSet(Viewers) /\ MaxFrames \in Nat \ {0}

VARIABLES
    serving,            \* running_
    listening,          \* listen_fd_ is open
    frame_version,      \* of latest_frame_; 0 is no frame
    jpeg_version,       \* counts the JPEGs
    jpeg,               \* the frame latest_jpeg_ shows; 0 is none
    main, enc, acc,     \* where the threads are
    taken,              \* last_encoded_version of the encoder
    client,             \* where the thread of a viewer is
    last_sent,          \* last_sent_version of it
    viewer,             \* the peer: "away", "queued", "silent", "reads", "slow", "gone"
    shown,              \* history: the frame the viewer has last got
    owned               \* client threads in client_threads_, to be joined

slotVars == <<frame_version, jpeg_version, jpeg>>
streamVars     == <<serving, listening, slotVars, main, enc, acc, taken, client, last_sent,
              viewer, shown, owned>>

StreamInit ==
    /\ serving = FALSE /\ listening = FALSE
    /\ frame_version = 0 /\ jpeg_version = 0 /\ jpeg = 0
    /\ main = "start" /\ enc = "none" /\ acc = "none"
    /\ taken = 0
    /\ client = [v \in Viewers |-> "none"]
    /\ last_sent = [v \in Viewers |-> 0]
    /\ viewer = [v \in Viewers |-> "away"]
    /\ shown = [v \in Viewers |-> 0]
    /\ owned = {}

-----------------------------------------------------------------------------
(* The main thread *)

(* start(): the listener cannot be made, and main goes on without *)
StartServer(ok) ==
    /\ main = "start"
    /\ serving' = ok /\ listening' = ok
    /\ main' = IF ok THEN "loop" ELSE "off"
    /\ enc' = IF ok THEN "check" ELSE "none"
    /\ acc' = IF ok THEN "top" ELSE "none"
    /\ UNCHANGED <<slotVars, taken, client, last_sent, viewer, shown, owned>>

(* publish(), with its notification of the encoder *)
Publish ==
    /\ main = "loop" /\ enc # "doze"
    /\ frame_version < MaxFrames
    /\ frame_version' = frame_version + 1
    /\ enc' = IF enc = "asleep" THEN "check" ELSE enc
    /\ UNCHANGED <<serving, listening, jpeg_version, jpeg, main, acc, taken, client,
                   last_sent, viewer, shown, owned>>

(* stop(), step by step *)
StopBegins ==
    /\ main = "loop"
    /\ serving' = FALSE
    /\ main' = "close"
    /\ UNCHANGED <<listening, slotVars, enc, acc, taken, client, last_sent, viewer,
                   shown, owned>>

StopCloses ==
    /\ main = "close"
    /\ listening' = FALSE
    /\ main' = "notify"
    /\ viewer' = [v \in Viewers |-> IF viewer[v] = "queued" THEN "gone" ELSE viewer[v]]
    /\ UNCHANGED <<serving, slotVars, enc, acc, taken, client, last_sent, shown, owned>>

StopNotifies ==
    /\ main = "notify"
    /\ enc' = IF enc = "asleep" THEN "check" ELSE enc
    /\ client' = [v \in Viewers |-> IF client[v] = "asleep" THEN "check" ELSE client[v]]
    /\ main' = "joinAccept"
    /\ UNCHANGED <<serving, listening, slotVars, acc, taken, last_sent, viewer, shown,
                   owned>>

StopJoins ==
    /\ \/ main = "joinAccept"  /\ acc = "done"    /\ main' = "joinEncoder"
       \/ main = "joinEncoder" /\ enc = "done" /\ main' = "joinClients"
       \/ main = "joinClients" /\ (\A v \in owned : client[v] = "done") /\ main' = "stopped"
    /\ owned' = IF main' = "stopped" THEN {} ELSE owned
    /\ UNCHANGED <<serving, listening, slotVars, enc, acc, taken, client, last_sent,
                   viewer, shown>>

MainThread == (\E ok \in BOOLEAN : StartServer(ok)) \/ StopCloses \/ StopNotifies \/ StopJoins

-----------------------------------------------------------------------------
(* encoderLoop *)
newFrame == frame_version # 0 /\ frame_version # taken

(* running_, at the head of the loop and after the wait, and the slot *)
EncoderCheck ==
    /\ enc = "check"
    /\ enc' = IF ~serving THEN "done" ELSE IF newFrame THEN "encode" ELSE "doze"
    /\ taken' = IF serving /\ newFrame THEN frame_version ELSE taken
    /\ UNCHANGED <<serving, listening, slotVars, main, acc, client, last_sent, viewer,
                   shown, owned>>

EncoderSleeps ==
    /\ enc = "doze"
    /\ enc' = "asleep"
    /\ UNCHANGED <<serving, listening, slotVars, main, acc, taken, client, last_sent, viewer,
                   shown, owned>>

(* Slip: wait instead of wait_for. *)
wakesUp_Slip_OnlyNotified == FALSE

(* wait_for ends after poll_interval_ms *)
wakesUp == TRUE

EncoderTimeout ==
    /\ enc = "asleep" /\ wakesUp
    /\ enc' = "check"
    /\ UNCHANGED <<serving, listening, slotVars, main, acc, taken, client, last_sent,
                   viewer, shown, owned>>

(* imencode outside the lock; then the JPEG slot and its notification *)
EncoderStores(ok) ==
    /\ enc = "encode"
    /\ IF ok
       THEN /\ \A v \in Viewers : client[v] # "doze"
            /\ jpeg' = taken
            /\ jpeg_version' = jpeg_version + 1
            /\ client' = [v \in Viewers |-> IF client[v] = "asleep" THEN "check" ELSE client[v]]
       ELSE UNCHANGED <<jpeg, jpeg_version, client>>
    /\ enc' = "check"
    /\ UNCHANGED <<serving, listening, frame_version, main, acc, taken, last_sent, viewer,
                   shown, owned>>

Encoder == EncoderCheck \/ EncoderSleeps \/ EncoderTimeout \/ (\E ok \in BOOLEAN : EncoderStores(ok))

-----------------------------------------------------------------------------
(* acceptLoop *)
AcceptTop ==
    /\ acc = "top"
    /\ acc' = IF serving THEN "poll" ELSE "done"
    /\ UNCHANGED <<serving, listening, slotVars, main, enc, taken, client, last_sent,
                   viewer, shown, owned>>

(* poll() times out, or the listener was closed under it *)
AcceptNothing ==
    /\ acc = "poll"
    /\ acc' = "top"
    /\ UNCHANGED <<serving, listening, slotVars, main, enc, taken, client, last_sent,
                   viewer, shown, owned>>

AcceptViewer(v) ==
    /\ acc = "poll" /\ listening
    /\ viewer[v] = "queued"
    /\ viewer' = [viewer EXCEPT ![v] = "silent"]
    /\ client' = [client EXCEPT ![v] = "recv"]
    /\ owned' = owned \cup {v}
    /\ acc' = "top"
    /\ UNCHANGED <<serving, listening, slotVars, main, enc, taken, last_sent, shown>>

Acceptor == AcceptTop \/ AcceptNothing \/ (\E v \in Viewers : AcceptViewer(v))

-----------------------------------------------------------------------------
(* clientLoop *)
clientGoes(v, to) == client' = [client EXCEPT ![v] = to]

(* recv, without a time limit and its result unused: a request or the end  *)
(* of the connection; then writeAll(kHeader), which may find the peer gone *)
ClientRecv(v) ==
    /\ client[v] = "recv"
    /\ viewer[v] # "silent"
    /\ \/ clientGoes(v, "check")
       \/ viewer[v] = "gone" /\ clientGoes(v, "done")
    /\ UNCHANGED <<serving, listening, slotVars, main, enc, acc, taken, last_sent,
                   viewer, shown, owned>>

(* Slip: only a viewer without a picture gets one. *)
newJpeg_Slip_Once(v) == jpeg # 0 /\ last_sent[v] = 0

newJpeg(v) == jpeg # 0 /\ jpeg_version # last_sent[v]

ClientCheck(v) ==
    /\ client[v] = "check"
    /\ clientGoes(v, IF ~serving THEN "done" ELSE IF newJpeg(v) THEN "send" ELSE "doze")
    /\ last_sent' = [last_sent EXCEPT ![v] = IF serving /\ newJpeg(v) THEN jpeg_version ELSE @]
    /\ UNCHANGED <<serving, listening, slotVars, main, enc, acc, taken, viewer, shown,
                   owned>>

ClientSleeps(v) ==
    /\ client[v] = "doze"
    /\ clientGoes(v, "asleep")
    /\ UNCHANGED <<serving, listening, slotVars, main, enc, acc, taken, last_sent, viewer,
                   shown, owned>>

ClientTimeout(v) ==
    /\ client[v] = "asleep" /\ wakesUp
    /\ clientGoes(v, "check")
    /\ UNCHANGED <<serving, listening, slotVars, main, enc, acc, taken, last_sent, viewer,
                   shown, owned>>

(* The copy taken at the check goes out, part by part; a send that takes   *)
(* longer than client_send_timeout_ms fails.  JPEGs are numbered in the    *)
(* order of their frames, so the copy of version n is recorded as n.       *)
ClientSend(v) ==
    /\ client[v] = "send"
    /\ IF viewer[v] = "reads"
       THEN clientGoes(v, "check") /\ shown' = [shown EXCEPT ![v] = last_sent[v]]
       ELSE clientGoes(v, "done") /\ UNCHANGED shown
    /\ UNCHANGED <<serving, listening, slotVars, main, enc, acc, taken, last_sent, viewer,
                   owned>>

Client(v) == ClientRecv(v) \/ ClientCheck(v) \/ ClientSleeps(v) \/ ClientTimeout(v) \/ ClientSend(v)

-----------------------------------------------------------------------------
(* The viewers: connect, send a request, read too slowly, recover, leave *)
ViewerDoes(v, from, to) ==
    /\ viewer[v] = from
    /\ from = "away" => listening
    /\ viewer' = [viewer EXCEPT ![v] = to]
    /\ UNCHANGED <<serving, listening, slotVars, main, enc, acc, taken, client, last_sent,
                   shown, owned>>

Moves == {<<"away", "queued">>, <<"silent", "reads">>, <<"reads", "slow">>,
          <<"slow", "reads">>, <<"silent", "gone">>, <<"reads", "gone">>, <<"slow", "gone">>}

StreamNext ==
    \/ MainThread \/ Publish \/ StopBegins
    \/ Encoder
    \/ Acceptor
    \/ \E v \in Viewers : Client(v)
    \/ \E v \in Viewers, move \in Moves : ViewerDoes(v, move[1], move[2])
    \/ main \in {"stopped", "off"} /\ UNCHANGED streamVars

(* The threads of the server run, and imencode does not fail for ever.     *)
(* Nothing is assumed of the viewers.                                      *)
StreamSpec ==
    /\ StreamInit /\ [][StreamNext]_streamVars
    /\ WF_streamVars(MainThread) /\ WF_streamVars(Encoder) /\ WF_streamVars(Acceptor)
    /\ \A v \in Viewers : WF_streamVars(Client(v))
    /\ SF_streamVars(EncoderStores(TRUE))

-----------------------------------------------------------------------------
(* A viewer that keeps reading gets the newest picture and is not left     *)
(* with an older one, however the notifications and time limits of the     *)
(* threads interleave.                                                     *)
NewestIsShown ==
    \A v \in Viewers :
        <>[](serving /\ jpeg # 0 /\ viewer[v] = "reads" /\ client[v] # "done")
            => <>[](shown[v] = jpeg_version)

(* No thread of the server is left, nor its socket. *)
NothingLeft ==
    /\ enc = "done" /\ acc = "done" /\ ~listening
    /\ \A v \in Viewers : client[v] \in {"none", "done"}

(* stop() returns when every viewer it accepted has sent its request or    *)
(* left, and then nothing of the server runs: also no thread that was made *)
(* for a viewer who connected during stop().                               *)
StopReturns ==
    (\A v \in Viewers : []<>(viewer[v] # "silent"))
        => (main = "close" ~> main = "stopped" /\ NothingLeft)
=============================================================================
