-------------------------- MODULE ClassifierDevice --------------------------
(***************************************************************************)
(* The accelerator as the PS uses it: the kernel driver adas-classifier.c  *)
(* with the registers of the PL behind it, the user-space device           *)
(* (classifier_device.c), and the server that opens it, loads weights and  *)
(* parameters and classifies one ROI after the other                       *)
(* (ps_classifier_server.c).                                               *)
(*                                                                         *)
(* An image is one of two tokens that alternate, so that a result can be   *)
(* told from the one before.  The control register is that of the          *)
(* generated hardware: a start during a run has no effect, and reading     *)
(* AP_DONE clears it.  Nothing stops a run: the PL finishes when it likes, *)
(* after a time-out, after close() and after the driver is gone.           *)
(*                                                                         *)
(* An open file, and the mapping, belong to one binding of the driver:     *)
(* after it is undone they are "stale", also when a new one exists.        *)
(* Nothing is claimed of what follows the use of memory that is gone; here *)
(* the process ends, and what the PL writes there is lost.                 *)
(***************************************************************************)
EXTENDS Naturals

CONSTANTS
    Layouts,            \* mmap layouts a header may describe
    UserLayout          \* the one user space is built with

ASSUME DeviceAssumption ==
    /\ UserLayout \in Layouts
    /\ \A l \in Layouts : DOMAIN l = {"abi_version", "dma_span", "ifmap", "weights", "output"}

Image   == {1, 2}
Garbage == 0            \* an input changed during a run, or never written

VARIABLES
    (* the driver *)
    bound,              \* probe succeeded: the device node is there
    dma,                \* the coherent buffer is allocated
    layout,             \* the driver is built with
    parameters_set,
    (* the PL *)
    busy, ap_done,
    job,                \* the input of the run in progress
    job_dma,            \* the buffer it works on is allocated
    ifmap, output,      \* buffers in the DMA region
    (* the server process *)
    pc,
    fd,                 \* "none", "live" or "stale"
    mapped,
    image,              \* of the request in hand
    status,             \* of the last request
    result,             \* what it was computed from
    (* history *)
    timed_out,          \* a run was given up
    finished,           \* the PL finished a run since RUN wrote AP_START
    disturbed,          \* the PL was not at rest when the image was written
    unbound,            \* the driver was unbound from an open device
    freed_use           \* who has used memory that is gone

driverVars == <<bound, dma, layout, parameters_set>>
plVars     == <<busy, ap_done, job, job_dma, output>>
procVars   == <<pc, fd, mapped>>
resVars    == <<image, status, result>>
histVars   == <<timed_out, finished, disturbed, unbound, freed_use>>
deviceVars == <<driverVars, plVars, ifmap, procVars, resVars, histVars>>

Status == {"none", "OK", "ACCELERATOR_ERROR", "POSTPROCESS_ERROR"}

DeviceTypeOK ==
    /\ {bound, dma, parameters_set, busy, ap_done, job_dma, mapped, timed_out,
        finished, disturbed, unbound} \subseteq BOOLEAN
    /\ layout \in Layouts
    /\ {job, ifmap, output, result} \subseteq Image \cup {Garbage}
    /\ image \in Image
    /\ pc \in {"closed", "opened", "configure", "idle", "run", "poll", "sleep", "post"}
    /\ fd \in {"none", "live", "stale"}
    /\ status \in Status
    /\ freed_use \subseteq {"server", "PL"}

DeviceInit ==
    /\ bound = FALSE /\ dma = FALSE /\ parameters_set = FALSE
    /\ layout \in Layouts
    /\ busy = FALSE /\ ap_done = FALSE /\ job_dma = FALSE
    /\ job = Garbage /\ ifmap = Garbage /\ output = Garbage
    /\ pc = "closed" /\ fd = "none" /\ mapped = FALSE
    /\ image = 1 /\ status = "none" /\ result = Garbage
    /\ timed_out = FALSE /\ finished = FALSE /\ disturbed = FALSE
    /\ unbound = FALSE /\ freed_use = {}

-----------------------------------------------------------------------------
(* adas_classifier_probe: a new structure and a buffer of zeros; what the  *)
(* devm_ functions allocate is freed by the kernel when probe fails        *)
Probe ==
    /\ ~bound
    /\ bound' = TRUE /\ dma' = TRUE
    /\ parameters_set' = FALSE
    /\ ifmap' = Garbage /\ output' = Garbage
    /\ UNCHANGED <<layout, busy, ap_done, job, job_dma, procVars, resVars, histVars>>

registerFails == dma' = FALSE

ProbeFails(registering) ==
    /\ ~bound
    /\ IF registering THEN registerFails ELSE UNCHANGED dma
    /\ UNCHANGED <<bound, layout, parameters_set, plVars, ifmap, procVars, resVars,
                   histVars>>

(* adas_classifier_remove; the PL is left as it is *)
remove ==
    /\ bound' = FALSE /\ dma' = FALSE
    /\ job_dma' = FALSE
    /\ fd' = IF fd = "none" THEN "none" ELSE "stale"
    /\ UNCHANGED <<layout, parameters_set, busy, ap_done, job, output, ifmap, pc,
                   mapped, resVars, timed_out, finished, disturbed, freed_use>>

(* Slip: .owner is not set. *)
removable_Slip_NoOwner == TRUE

(* .owner = THIS_MODULE: the module cannot be unloaded while a file is open. *)
removable == fd = "none"

Unload ==
    /\ bound /\ removable
    /\ remove
    /\ UNCHANGED unbound

(* .owner does not keep the driver from being unbound from its device. *)
Unbind ==
    /\ bound /\ fd # "none"
    /\ remove
    /\ unbound' = TRUE

-----------------------------------------------------------------------------
(* adas_classifier_device_open and its failures *)

(* What GET_INFO returns is compared; it does not tell where the weights are. *)
accepts(l) ==
    /\ l.abi_version = UserLayout.abi_version
    /\ l.dma_span = UserLayout.dma_span
    /\ l.ifmap = UserLayout.ifmap
    /\ l.output = UserLayout.output

Open ==
    /\ pc = "closed" /\ bound
    /\ fd' = "live"
    /\ pc' = "opened"
    /\ UNCHANGED <<driverVars, plVars, ifmap, mapped, resVars, histVars>>

(* GET_INFO and mmap.  Any of them may fail: the device is closed again. *)
close ==
    /\ fd' = "none" /\ mapped' = FALSE
    /\ pc' = "closed"
    /\ status' = "none"

GetInfo(mmap_ok) ==
    /\ pc = "opened" /\ fd = "live"
    /\ IF accepts(layout) /\ mmap_ok
       THEN mapped' = TRUE /\ pc' = "configure" /\ UNCHANGED <<fd, status>>
       ELSE close
    /\ UNCHANGED <<driverVars, plVars, ifmap, image, result, histVars>>

(* The weights are copied, then SET_PARAMETERS, which refuses a shift over *)
(* 63 before it writes a register.                                         *)
Configure(shifts_ok) ==
    /\ pc = "configure" /\ fd = "live"
    /\ IF shifts_ok
       THEN parameters_set' = TRUE /\ pc' = "idle" /\ UNCHANGED <<fd, mapped, status>>
       ELSE close /\ UNCHANGED parameters_set
    /\ UNCHANGED <<bound, dma, layout, plVars, ifmap, image, result, histVars>>

(* The server ends, or is killed between two ioctls; RUN cannot be         *)
(* interrupted.                                                            *)
Close ==
    /\ pc \notin {"closed", "poll", "sleep"}
    /\ close
    /\ UNCHANGED <<driverVars, plVars, ifmap, image, result, histVars>>

(* Any other step of a process whose driver has gone. *)
UseGone ==
    /\ fd = "stale"
    /\ close
    /\ freed_use' = freed_use \cup {"server"}
    /\ UNCHANGED <<driverVars, plVars, ifmap, image, result, timed_out, finished,
                   disturbed, unbound>>

-----------------------------------------------------------------------------
(* classify_one *)

(* The next image is quantised into the input buffer. *)
Preprocess ==
    /\ pc = "idle" /\ fd = "live"
    /\ image' = 3 - image
    /\ ifmap' = image'
    /\ job' = IF busy THEN Garbage ELSE job
    /\ disturbed' = (busy \/ ap_done)
    /\ pc' = "run"
    /\ UNCHANGED <<driverVars, busy, ap_done, job_dma, output, fd, mapped, status,
                   result, timed_out, finished, unbound, freed_use>>

(* RUN: the addresses and AP_START.  A run in progress takes no start, and *)
(* uses the old addresses or the new ones.                                 *)
RunStart ==
    /\ pc = "run" /\ fd = "live"
    /\ parameters_set
    /\ IF busy THEN job_dma' \in {job_dma, dma} /\ UNCHANGED <<busy, job>>
               ELSE busy' = TRUE /\ job' = ifmap /\ job_dma' = dma
    /\ finished' = FALSE
    /\ pc' = "poll"
    /\ UNCHANGED <<driverVars, ap_done, output, ifmap, fd, mapped, resVars, timed_out,
                   disturbed, unbound, freed_use>>

(* Slip: the register is not looked at. *)
seesDone_Slip_Any == TRUE
seesDone == ap_done

(* AP_DONE is read, and cleared by reading. *)
PollDone ==
    /\ pc = "poll" /\ fd = "live"
    /\ seesDone
    /\ ap_done' = FALSE
    /\ pc' = "post"
    /\ UNCHANGED <<driverVars, busy, job, job_dma, output, ifmap, fd, mapped, resVars,
                   histVars>>

(* Not done: usleep_range, in which the PL may finish ... *)
PollBusy ==
    /\ pc = "poll" /\ fd = "live"
    /\ ~seesDone
    /\ pc' = "sleep"
    /\ UNCHANGED <<driverVars, plVars, ifmap, fd, mapped, resVars, histVars>>

(* ... and before the deadline the next look at the register. *)
PollAgain ==
    /\ pc = "sleep" /\ fd = "live"
    /\ pc' = "poll"
    /\ UNCHANGED <<driverVars, plVars, ifmap, fd, mapped, resVars, histVars>>

(* After it -ETIMEDOUT, without another look.  The PL is left as it is. *)
PollTimeout ==
    /\ pc = "sleep" /\ fd = "live"
    /\ timed_out' = TRUE
    /\ status' = "ACCELERATOR_ERROR"
    /\ result' = Garbage
    /\ pc' = "idle"
    /\ UNCHANGED <<driverVars, plVars, ifmap, fd, mapped, image, finished, disturbed,
                   unbound, freed_use>>

(* The output is read: global average, fully connected layer, argmax *)
Postprocess(ok) ==
    /\ pc = "post" /\ fd = "live"
    /\ status' = IF ok THEN "OK" ELSE "POSTPROCESS_ERROR"
    /\ result' = IF ok THEN output ELSE Garbage
    /\ pc' = "idle"
    /\ UNCHANGED <<driverVars, plVars, ifmap, fd, mapped, image, histVars>>

(* The PL finishes a run and writes its output, wherever that was. *)
PlFinish ==
    /\ busy
    /\ busy' = FALSE /\ ap_done' = TRUE
    /\ job' = Garbage /\ job_dma' = FALSE
    /\ output' = IF job_dma THEN job ELSE output
    /\ finished' = TRUE
    /\ freed_use' = IF job_dma THEN freed_use ELSE freed_use \cup {"PL"}
    /\ UNCHANGED <<driverVars, ifmap, procVars, resVars, timed_out, disturbed, unbound>>

Driver ==
    \/ Probe \/ (\E registering \in BOOLEAN : ProbeFails(registering))
    \/ Unload \/ Unbind

Server ==
    \/ Open \/ (\E ok \in BOOLEAN : GetInfo(ok) \/ Configure(ok) \/ Postprocess(ok))
    \/ Preprocess \/ RunStart \/ PollDone \/ PollBusy \/ PollAgain \/ PollTimeout
    \/ Close \/ UseGone

DeviceNext == Driver \/ Server \/ PlFinish

DeviceSpec == DeviceInit /\ [][DeviceNext]_deviceVars

-----------------------------------------------------------------------------
(* An answer is about the image of its request, never about the one before *)
(* or a half-written input, if the PL was at rest when that image was      *)
(* written: preprocessing, run and output are outside any lock and share   *)
(* the buffers with the PL.  It always is, until a run is given up: one    *)
(* that is still going, or has finished unseen in the last sleep or later, *)
(* is in the way of the next requests.                                     *)
ResultIsOwn ==
    freed_use = {} =>
        /\ pc = "idle" /\ status = "OK" /\ ~disturbed => result = image
        /\ disturbed => timed_out

(* The server uses memory that is gone only if the driver was unbound from *)
(* a device in use, which .owner does not prevent; the PL only in that     *)
(* case or when a run was given up, which neither remove() nor close()     *)
(* ends.  Unloading alone takes memory from nobody.                        *)
NoUseAfterFree ==
    /\ "server" \in freed_use => unbound
    /\ "PL" \in freed_use => unbound \/ timed_out

(* The DMA buffer is held exactly while the device node exists, whichever  *)
(* step of probe fails, and a process that gave up holds nothing.          *)
NothingKept == /\ dma <=> bound
               /\ pc = "closed" => fd = "none" /\ ~mapped

(* A server that runs uses the buffers where the driver has put them, as   *)
(* far as GET_INFO tells them.                                             *)
BuffersAgree ==
    pc \notin {"closed", "opened"} =>
        layout.ifmap = UserLayout.ifmap /\ layout.output = UserLayout.output

(* The driver and its user agree on what there is and who holds it, from   *)
(* the probe to the removal.                                               *)
DeviceIsShared == DeviceTypeOK /\ NoUseAfterFree /\ NothingKept /\ BuffersAgree

(* "`RUN`: DMA 주소 설정, `ap_start`, `ap_done` 대기": RUN waits until the  *)
(* run it started is done.                                                 *)
RunWaitsForDone == [][(pc = "poll" /\ pc' = "post") => finished]_deviceVars
=============================================================================
