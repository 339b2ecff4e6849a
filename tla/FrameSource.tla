---------------------------- MODULE FrameSource -----------------------------
(***************************************************************************)
(* The camera of the Jetson: V4L2Capture (its start-up, the mmap buffers   *)
(* it exchanges with the kernel, and captureFrame), the thread of          *)
(* FrameSource that calls it, and the program's main thread, which takes   *)
(* the latest frame with next(), works on it, and in the end stops the     *)
(* thread and closes the device.                                           *)
(*                                                                         *)
(* The kernel driver is external: it fills queued buffers with frames,     *)
(* drops a frame when none is queued, and may disappear.  A frame is its   *)
(* number.  Timeouts may happen whenever there is nothing to wait for.     *)
(***************************************************************************)
EXTENDS Naturals, Sequences, FiniteSets

CONSTANTS
    BufferCount,                \* buffers the driver gives for REQBUFS
    MaxTaken,                  \* bound: frames the camera takes
    Formats,                    \* formats S_FMT may answer with
    Lengths                     \* buffer lengths QUERYBUF may report

ASSUME CaptureAssumption ==
    /\ BufferCount \in Nat /\ MaxTaken \in Nat /\ Lengths \subseteq Nat
    /\ Formats \subseteq [width : Nat, height : Nat, yuyv : BOOLEAN, bytesperline : Nat]

Buffers == 1 .. BufferCount
NoFrame == 0

VARIABLES
    fd, stop_fd, streaming,     \* the device, the eventfd, STREAMON done
    format, length,             \* negotiated format, length of the buffers
    mapped,                     \* buffers mapped into the process
    buffers,                    \* buffers_: mappings close() will undo
    queued, filled,               \* the driver's queues: empty and filled buffers
    content, frames, gone,      \* what is in a buffer; frames taken; unplugged
    stop_event,                 \* the eventfd was written
    tpc, buf, half, work,       \* capture thread; its buffer; its local frame
    running, seq, latest, capture_error,    \* shared with next()
    mpc, stop_requested, last_seq, image,   \* main thread; the frame it holds
    seen                        \* history: what image showed when it was taken

deviceVars == <<fd, stop_fd, streaming, format, length, mapped, buffers>>
driverVars == <<queued, filled, content, frames, gone>>
threadVars == <<tpc, buf, half, work>>
sharedVars == <<running, seq, latest, capture_error, stop_event>>
mainVars   == <<mpc, stop_requested, last_seq, image, seen>>
captureVars       == <<deviceVars, driverVars, threadVars, sharedVars, mainVars>>

NoFormat == [width |-> 0, height |-> 0, yuyv |-> FALSE, bytesperline |-> 0]
NoImage  == [copy |-> TRUE, frame |-> NoFrame]

CaptureInit ==
    /\ fd = FALSE /\ stop_fd = FALSE /\ streaming = FALSE
    /\ format = NoFormat /\ length = 0 /\ mapped = {} /\ buffers = {}
    /\ queued = << >> /\ filled = << >> /\ frames = 0 /\ gone = FALSE
    /\ content = [b \in Buffers |-> NoFrame]
    /\ stop_event = FALSE
    /\ tpc = "none" /\ buf = 1 /\ half = NoFrame /\ work = NoFrame
    /\ running = FALSE /\ seq = 0 /\ latest = NoImage /\ capture_error = FALSE
    /\ mpc = "open" /\ stop_requested = FALSE
    /\ last_seq = 0 /\ image = NoImage /\ seen = NoFrame

-----------------------------------------------------------------------------
(* V4L2Capture::init.  Every step that fails ends in close(). *)

close ==
    /\ fd' = FALSE /\ stop_fd' = FALSE /\ streaming' = FALSE
    /\ format' = NoFormat /\ mapped' = mapped \ buffers /\ buffers' = {}
    /\ queued' = << >> /\ filled' = << >>
    /\ UNCHANGED <<length, content, frames, gone>>

openDevice ==
    /\ mpc = "open"
    /\ fd' = TRUE /\ stop_fd' = TRUE /\ mpc' = "negotiate"
    /\ UNCHANGED <<streaming, format, length, mapped, buffers, driverVars>>

(* The stride is at least the width of a YUYV row. *)
withStride(f) ==
    [f EXCEPT !.bytesperline = IF @ < 2 * f.width THEN 2 * f.width ELSE @]

acceptsFormat(f) == f.width > 0 /\ f.height > 0 /\ f.yuyv

(* queryCapability, negotiateFormat, negotiateFrameRate, REQBUFS. *)
negotiate ==
    /\ mpc = "negotiate"
    /\ \E f \in Formats, l \in Lengths :
         /\ acceptsFormat(f)
         /\ format' = withStride(f) /\ length' = l
    /\ mpc' = "map"
    /\ UNCHANGED <<fd, stop_fd, streaming, mapped, buffers, driverVars>>

bigEnough == length >= format.bytesperline * format.height

(* setupBuffers, one buffer: mapped, recorded, then queued. *)
mapBuffer ==
    /\ mpc = "map" /\ Cardinality(mapped) < BufferCount /\ bigEnough
    /\ LET b == Cardinality(mapped) + 1
       IN  /\ mapped' = mapped \cup {b} /\ buffers' = buffers \cup {b}
           /\ \/ queued' = Append(queued, b) /\ UNCHANGED mpc
              \/ UNCHANGED queued /\ mpc' = "initFailed"
    /\ UNCHANGED <<fd, stop_fd, streaming, format, length, filled, content, frames, gone>>

startStreaming ==
    /\ mpc = "map" /\ Cardinality(mapped) = BufferCount /\ BufferCount > 0
    /\ streaming' = TRUE /\ mpc' = "start"
    /\ UNCHANGED <<fd, stop_fd, format, length, mapped, buffers, driverVars>>

(* A step of init fails: open, eventfd, any ioctl, a buffer too small. *)
initFails ==
    /\ mpc \in {"open", "negotiate", "map", "initFailed"}
    /\ close /\ mpc' = "closed"

Initialise ==
    /\ openDevice \/ negotiate \/ mapBuffer \/ startStreaming \/ initFails
    /\ UNCHANGED <<threadVars, sharedVars, stop_requested, last_seq, image, seen>>

-----------------------------------------------------------------------------
(* The driver *)

DriverFill ==
    /\ streaming /\ ~gone /\ frames < MaxTaken
    /\ frames' = frames + 1
    /\ IF queued = << >>
       THEN UNCHANGED <<queued, filled, content>>
       ELSE /\ content' = [content EXCEPT ![Head(queued)] = frames']
            /\ filled' = Append(filled, Head(queued))
            /\ queued' = Tail(queued)
    /\ UNCHANGED <<gone, deviceVars, threadVars, sharedVars, mainVars>>

Unplug ==
    /\ streaming /\ ~gone
    /\ gone' = TRUE
    /\ UNCHANGED <<queued, filled, content, frames, deviceVars, threadVars, sharedVars, mainVars>>

-----------------------------------------------------------------------------
(* FrameSource::run and captureFrame *)

RunCheck ==
    /\ tpc = "check"
    /\ tpc' = IF running THEN "poll" ELSE "exit"
    /\ UNCHANGED <<buf, half, work, deviceVars, driverVars, sharedVars, mainVars>>

(* Slip: every end of the loop looks like a stop. *)
leaveRun_Slip_Silent(error) == tpc' = "exit" /\ capture_error' = FALSE

(* The loop ends; only an error is told to next(). *)
leaveRun(error) == tpc' = "exit" /\ capture_error' = error

waitForEvent ==
    /\ tpc = "poll"
    /\ CASE stop_event       -> leaveRun(FALSE)
         [] ~stop_event /\ gone -> leaveRun(TRUE)
         [] ~stop_event /\ ~gone ->
                tpc' = (IF filled # << >> THEN "dqbuf" ELSE "check") /\ UNCHANGED capture_error
    /\ UNCHANGED <<buf, half, work, deviceVars, driverVars,
                   running, seq, latest, stop_event, mainVars>>

Dqbuf ==
    /\ tpc = "dqbuf"
    /\ \/ /\ ~gone /\ buf' = Head(filled) /\ filled' = Tail(filled)
          /\ tpc' = "convert" /\ UNCHANGED capture_error
       \/ tpc' = "check" /\ UNCHANGED <<buf, filled, capture_error>>     \* EAGAIN
       \/ gone /\ leaveRun(TRUE) /\ UNCHANGED <<buf, filled>>
    /\ UNCHANGED <<half, work, deviceVars, queued, content, frames, gone,
                   running, seq, latest, stop_event, mainVars>>

(* cvtColor reads the first half of the buffer, then the second. *)
ConvertFirst ==
    /\ tpc = "convert"
    /\ half' = content[buf] /\ tpc' = "convert2"
    /\ UNCHANGED <<buf, work, deviceVars, driverVars, sharedVars, mainVars>>

ConvertSecond ==
    /\ tpc = "convert2"
    /\ work' = (IF content[buf] = half THEN half ELSE NoFrame)  \* torn
    /\ tpc' = "qbuf"
    /\ UNCHANGED <<buf, half, deviceVars, driverVars, sharedVars, mainVars>>

Qbuf ==
    /\ tpc = "qbuf"
    /\ \/ /\ ~gone /\ queued' = Append(queued, buf) /\ tpc' = "store"
          /\ UNCHANGED capture_error
       \/ gone /\ leaveRun(TRUE) /\ UNCHANGED queued
    /\ UNCHANGED <<buf, half, work, deviceVars, filled, content, frames, gone,
                   running, seq, latest, stop_event, mainVars>>

(* latest_frame_ is a clone, so the next conversion does not write into it. *)
Store ==
    /\ tpc = "store"
    /\ latest' = [copy |-> TRUE, frame |-> work] /\ seq' = seq + 1 /\ tpc' = "check"
    /\ UNCHANGED <<buf, half, work, deviceVars, driverVars, running, capture_error,
                   stop_event, mainVars>>

Capture == RunCheck \/ waitForEvent \/ Dqbuf \/ ConvertFirst \/ ConvertSecond
               \/ Qbuf \/ Store

-----------------------------------------------------------------------------
(* The main thread of jetson_roi_client *)

Signal ==
    /\ ~stop_requested /\ stop_requested' = TRUE
    /\ UNCHANGED <<deviceVars, driverVars, threadVars, sharedVars, mpc, last_seq, image, seen>>

(* start(); without a connection to the PS the program ends at once. *)
Start ==
    /\ mpc = "start"
    /\ running' = TRUE /\ tpc' = "check"
    /\ mpc' \in {"head", "stop"}
    /\ UNCHANGED <<deviceVars, driverVars, buf, half, work, seq, latest, capture_error,
                   stop_event, stop_requested, last_seq, image, seen>>

LoopHead ==
    /\ mpc \in {"head", "busy"}
    /\ mpc' = IF mpc = "busy" THEN "head" ELSE IF stop_requested THEN "stop" ELSE "wait"
    /\ image' = NoImage
    /\ UNCHANGED <<deviceVars, driverVars, threadVars, sharedVars, stop_requested, last_seq, seen>>

(* What an image shows now: a frame that is not a copy is the thread's. *)
shows(i) == IF i.copy THEN i.frame ELSE work

isNew == seq # last_seq

(* next(): returns an error first, then a timeout, then the latest frame. *)
next ==
    /\ mpc = "wait"
    /\ \/ capture_error /\ mpc' = "stop" /\ UNCHANGED <<last_seq, image, seen>>
       \/ /\ ~capture_error /\ ~isNew
          /\ mpc' = "head" /\ UNCHANGED <<last_seq, image, seen>>
       \/ /\ ~capture_error /\ isNew
          /\ image' = latest /\ last_seq' = seq /\ seen' = shows(latest)
          /\ mpc' = "busy"
    /\ UNCHANGED <<deviceVars, driverVars, threadVars, sharedVars, stop_requested>>

(* FrameSource::stop: the write to the eventfd may fail. *)
Stop ==
    /\ mpc = "stop"
    /\ running' = FALSE /\ stop_event' \in BOOLEAN /\ mpc' = "join"
    /\ UNCHANGED <<deviceVars, driverVars, threadVars, seq, latest, capture_error,
                   stop_requested, last_seq, image, seen>>

(* Slip: the device is closed while the thread runs. *)
joined_Slip_Detached == TRUE
joined == tpc = "exit"

Close ==
    /\ mpc = "join" /\ joined
    /\ close /\ mpc' = "closed"
    /\ UNCHANGED <<threadVars, sharedVars, stop_requested, last_seq, image, seen>>

Main == Initialise \/ Start \/ LoopHead \/ next \/ Stop \/ Close

CaptureNext == Capture \/ Main \/ Signal \/ DriverFill \/ Unplug

(* Both threads are scheduled; the camera may stop delivering for ever. *)
CaptureSpec == CaptureInit /\ [][CaptureNext]_captureVars /\ WF_captureVars(Capture) /\ WF_captureVars(Main)

-----------------------------------------------------------------------------
CaptureTypeOK ==
    /\ {fd, stop_fd, streaming, gone, running, capture_error, stop_requested,
        stop_event} \subseteq BOOLEAN
    /\ mapped \subseteq Buffers /\ buffers \subseteq mapped
    /\ queued \in Seq(Buffers) /\ filled \in Seq(Buffers) /\ buf \in Nat
    /\ content \in [Buffers -> 0 .. MaxTaken]
    /\ {work, half, seen} \subseteq 0 .. MaxTaken
    /\ last_seq \in 0 .. seq

(* However init fails and however the program ends, V4L2Capture::close has   *)
(* given back the descriptors and every mapping.                           *)
NothingLeaks ==
    mpc = "closed" => ~fd /\ ~stop_fd /\ ~streaming /\ mapped = {}

(* cvtColor reads height rows of bytesperline bytes, 2 * width of each: all  *)
(* inside the mapped buffer, whatever the driver negotiated.               *)
ReadsInside ==
    tpc \in {"convert", "convert2"} =>
        /\ format.bytesperline * format.height <= length
        /\ 2 * format.width <= format.bytesperline
        /\ buf \in mapped

(* The thread uses the device only while it is open: stop() has joined the   *)
(* thread before close() unmaps the buffers.                               *)
NoUseAfterClose == tpc \notin {"none", "exit"} => fd /\ streaming

(* The frame the main thread works on is one whole frame of the camera and   *)
(* stays what it was, whatever the thread captures meanwhile.              *)
StableFrame == mpc = "busy" => seen # NoFrame /\ shows(image) = seen

(* All of it: the memory of the camera is handled safely. *)
BuffersAreSafe ==
    CaptureTypeOK /\ NothingLeaks /\ ReadsInside /\ NoUseAfterClose /\ StableFrame

(* A camera that disappears ends the program instead of leaving it waiting;  *)
(* and a program that is stopping ends, in the middle of any capture and     *)
(* even if the eventfd could not be written.                               *)
LossIsNoticed == (gone \/ mpc = "stop") ~> mpc = "closed"
=============================================================================
