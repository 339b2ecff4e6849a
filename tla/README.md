# A TLA+ model of the ADAS robot

The repository drives a TurtleBot from a camera.  A **Jetson** captures frames,
proposes regions of interest (ROIs) and sends each, cropped, over TCP to an
**Arty** board.  The Arty's processing system (PS) classifies the ROI on an
accelerator in its programmable logic (PL), answers the Jetson, judges each frame
and sends a safety state (Clear, Slow, Stop) over a UART to the robot's
**Raspberry Pi**.  There ROS 2 nodes receive the state and combine it with the
operator's controller into the velocity command, and a page shows what goes on.

This directory models the programs on all three boards.  `PROJECT.json` ties every
definition to its source lines.

## Inventory

| Component | State | Operations | Talks to |
|---|---|---|---|
| frame judgement (`common/src/SafetyJudge.cpp`) | none | `judgeOne`, `judgeWorst`, `classPresent` | called by the latch and the bridge |
| hazard latch (`common/src/SafetyHazardLatch.cpp`) | phase, latched class, end of hold, absence counters | `update`, `reset` | called once per frame by the bridge |
| `SafetyMessage`, `SafetyDebounce` (`common/src`) | seqlock and records / candidate and its count | `publish`, `read` / `update`, `reset` | used by no program here |
| safety bridge (`arty/ps_db/src/control/ps_safety_bridge.cpp`) | pending observations, sign hold, background flag, state | `add_observation`, `flush_frame`, `force_stop`, `stop` | called by the server loop, publishes to the transmitter |
| classifier server (`arty/ps_db/tools/ps_classifier_server.c`) | what it acquired, current frame id, connection | start-up, accept, receive, classify, send, clean-up | TCP to the Jetson, ioctl to the driver |
| model, pre- and postprocessing (`arty/ps_db/src/model`, `preprocess`, `postprocess`) | the eight files of the model, the input buffer | load, quantise and pad, channel sums, last layer, arg max | the DMA buffer |
| accelerator driver (`adas-classifier.c`, `classifier_device.c`) | parameters set, DMA buffer, owner | probe, remove, GET_INFO, SET_PARAMETERS, RUN | registers of the engine |
| engine (`arty/pl_db/hls/HW/classifier_engine.cpp`) | static row buffers and maps | three fused layers, packed products, requantisation | DMA |
| safety transmitter (`arty/ps_db/src/control/SafetyTransmitter.cpp`) | published state and its time, last state sent | `publish` (server thread), `tick`/`run` (own thread) | one mutex between two threads; UART |
| UART frame and port (`common/src/UartFrame.cpp`, `UartPort.cpp`) | file descriptor | `encode`, `write` | three bytes per state |
| UART receiver (`uart_safety_receiver.py`) | byte buffer | `_poll` at 100 Hz | topic `/adas/safety_state` |
| velocity arbiter (`cmd_vel_arbiter.py`) | safety state, inputs, their stamps, resume gate, emergency stop | three subscriptions, one timer | topic `/cmd_vel` |
| teleoperation and shutdown (`button_teleop.py`, `start_robot.sh`, `stop_robot.sh`) | the last controller message; which nodes run | a velocity every 50 ms; stop, zero, torque off, kill | arbiter, motor node |
| user interface (`ui_server.py`) | last message of each topic with its stamp; the page | topics, HTTP, polling script | browser |
| ROI link (`roi_protocol.h`, `TcpRoiClient.cpp`, `tcp_roi_server.c`) | sockets, partial transfers | connect, classify / accept, receive, send | Jetson to PS |
| Jetson loop (`jetson_roi_client.cpp`) | frame id, heartbeat timer, connection | capture, propose, classify, heartbeat, reconnect | camera, TCP, stream server |
| camera (`FrameSource.cpp`, `V4L2Capture.cpp`) | descriptors, mapped buffers, latest frame | init, capture thread, `next`, `stop`, `close` | V4L2 driver |
| ROI proposal and crop (`jetson/src/roi`) | none | decode, suppress, cap, crop | TensorRT |
| stream server (`MjpegStreamServer.cpp`) | two slots with versions, client threads | publish, encode, accept, serve, stop | browsers |

What is hard in it: a decision is taken one frame late, when the next frame's
first request arrives; threads share slots and states; a peer can vanish or hang at
any point of a transfer; bytes are lost; an accelerator may finish after it was
given up; and several time-outs (500 ms on the PS, 2 s and 1 s on the robot) answer
for whatever falls silent.  `hazards` in `PROJECT.json` lists these at their lines,
each with the properties that would notice it going wrong.

## Modules

```
SafetyState          the three states and their order
SafetyJudge          judgeOne, judgeWorst, classPresent as operators
  JudgeLoop            the loop of judgeWorst, against the operator
  SafetyHazardLatch    the latch as operators on its record of members
    LatchMachine         the latch under any frames and times;  implements StopHold
SafetyDebounce       the debounce            SafetyMessage   the lock-free message
SafetyTransmitter    the thread, publish(), the watchdog
PsSafety             = SafetyTransmitter + SafetyHazardLatch + bridge + server loop
  PsSafetyClaims       a statement of the repository, refuted
PsStartup            main() of the server around its loop
ClassifierDevice     driver, registers, device library, server process
ClassifyOne          classify_one: image in, class out
EngineArithmetic     packed products, requantisation
  EngineOperands       one operation of it at a time
  ClassifierEngine     the three layers, row by row
UartLink             frame, faulty line, receiver
CmdVelArbiter        the arbiter node
  DriveChain           = CmdVelArbiter + controller, teleoperation, shutdown script
  CmdVelArbiterClaims  a statement of the repository, refuted
UserInterface        server and page
RoiLink              both ends of the TCP link;  implements RoiExchange
JetsonLoop           the main loop, with the PS that judges
FrameSource          V4L2Capture, its thread and the main thread
RoiProposal          RoiProposer and RoiCropper
MjpegStream          the stream server
```

The `MC` modules put them together for TLC.  Components that run in one process or
depend on each other are *composed* (`PsSafety`, `DriveChain`, `RoiLink`).
Components that do not share state only share a run: in `MCCommon`, `MCOutput`,
`MCRobot`, `MCServer`, `MCJetson` and `MCVision` a variable `part` says which of them
a behaviour is about, and the others stay as they start; the states of a run add up
and are not multiplied.

How state and actions correspond to the code:

- Variables and operators keep the names of the code without the trailing `_`,
  with a prefix where two components of a run would clash (`Debounce_update` is
  `Debounce::update`).  Variables under "history" are written by the model and read
  by properties only.  Operators with `_Slip_` in their name are plausible mistakes,
  used to show that a property notices them; no specification uses one.
- **SafetyJudge.** The code's ratios are floats; here they are integers in a common
  unit, so every comparison stays.  A percent is one unit in `MCCommon`; `PsSafety`
  uses 1/28800 of the frame, which 640 and 360 divide, so its conversion of pixels
  rounds nothing.
- **SafetyHazardLatch.** `update` is the composition of its four numbered parts:
  `expireHold`, `trackAbsence`, `worstNew`, `openEvent`, after the early return `held`.
- **SafetyMessage.** `publish` and `read` take one step per word, without a lock;
  the writer may die in the middle and another go on.
- **SafetyTransmitter.** `publish` and `tick` hold the mutex throughout: one step
  each.  `run` is two steps, the test of the flag (`RunCheck`) and the body
  (`RunTick`), so a stop request or a publication can fall between.  A write succeeds
  or fails (`sendLocked`); `last_sent` changes only on success, as in the code.
- **PsSafety.** The server thread is a program counter over the blocking points of
  `main`: accept, receive, classify, send.  `Flush` and `PublishFrame` are the two
  halves of `ps_safety_flush_frame`, because the time is read at the first and used
  at the second, with the transmitter thread free between them.
- **PsStartup, ClassifierDevice, ClassifyOne.** One step per acquisition that can
  fail, with the releases of its error path.  The driver's `mmap` layout and the one
  the server was built with are two records that may differ.  RUN is a step per look at
  the register and per sleep, since it gives up after a sleep without looking again.  The
  PL finishes when it likes: in that sleep, after the time-out, after the driver is gone.
  The driver goes by unloading, which `.owner` prevents while a file is open, or by
  unbinding, which it does not; what a process does with a file that has become stale is
  not followed beyond the first use (`UseGone`).  In `ClassifyOne` integers have the
  width `IntMax` gives them.
- **EngineArithmetic, EngineOperands, ClassifierEngine.** A number that is stored in an
  `ap_int` keeps its low bits (`stored`); a shift divides by a power of two (`pow2`).  A step is one row of a layer, with the pooling after every
  second; static buffers keep what the image before left.
- **UartLink.** Each byte carries the number of its frame, which only the properties
  read.  `drain` is the `while` loop of `_poll` as a recursive function over the
  buffer.  `crc8` is the bitwise division of the code; its check value from
  `UartFrame.hpp` is an assumption TLC evaluates.  Any number of frames may be lost,
  damaged or written in part, but not two in a row (`lastWhole`): what is left of two
  neighbours may by chance be a valid frame.  When of one frame only the magic is written
  and the magic of the next is damaged, that byte is taken for a state and the state
  for its check byte, which it may be.
- **CmdVelArbiter, DriveChain.** `rclpy.spin` runs one callback at a time: one action
  per callback, in any order.  The early returns of the timer callback all command zero
  and differ only in whether they arm the resume gate (`Halt`).  In the chain,
  `joy_node` speaks only when the controller changes, the teleoperation node repeats,
  and the script takes its steps at any time.
- **UserInterface.** Time makes an entry stale, a message makes it fresh.  Each
  question is answered by its own thread, so answers overtake each other.
- **RoiLink.** Headers, payloads and results are a few units each; a send or a receive
  moves any number of them that the buffer allows.  `RoiExchange` is what the link
  promises: a request is handed over whole and at most once, and a call returns its own
  result or fails.
- **JetsonLoop.** The loop has one thread: time passes inside its steps, and clock
  readings are kept as ages.  The PS is what `PsSafety` shows it to be: it judges a
  frame when a request of another arrives, and forgets when the connection ends.
- **FrameSource.** Three actors: the main thread (init, `next`, `stop`, `close`), the
  capture thread and the driver with its two queues.  A conversion reads a buffer in
  two halves, so that a buffer the driver refills meanwhile shows as torn.
- **RoiProposal.** Exact arithmetic in fractions of a pixel in place of float; boxes of
  equal score come in any order, as `std::sort` allows.  One step per box of the
  suppression and per candidate of the loop that crops.
- **MjpegStream.** A thread tests its predicate and goes to sleep in two steps, since
  `stop()` notifies without the mutex.

## Runs

Eight runs must pass, four must find what they look for.

| Run | Instance | Shows |
|---|---|---|
| `common` | frames of up to 3 of 7 detections; latch: 6 frames, 2 per unit, 8 units, hold 3, release 2 frames and 2 units; debounce: 9 calls, up to 2 units apart; 2 messages of up to 2 records, 1 retry | `LoopComputesWorst`; `HoldsStop` (refinement of `StopHold`), `NoEarlyRetrigger`, `NewHazardStops`; `ReleaseIsEarned`; `WholeSnapshot` |
| `ps_safety` | 2 frame ids, 2 ROIs per frame, 5 units; scene with a car and failing classifications, scene with a person, a sign and background | `NoMoveWithoutFrame`, `HazardStops`, `SignKeepsSlow`, `HoldIsPublished`, `UsesTransmitter` (refinement: `PsSafety` uses the transmitter as its own module allows) |
| `output` | transmitter: period 2, timeout 3, jitter 1, 20 units, caller active up to 6, 2 failing writes; UART: 3 frames, up to 2 faulty, every split into polls; page: 2 questions under way, outages | `StaleStops`, `WorseReachesWire`, `SilenceStops`; `LineIsFaithful`; `PageFollows` |
| `robot` | arbiter in both modes, 5 controller messages, 3 manual ones, a number that is no state; chain with 3 positions of the controller and the script at any time | `SilenceHalts`, `ResumeAfterNeutral`, `SlowIsCapped`; `ReleasedPadStops`, `ShutdownStops` |
| `roi_link` | 3 calls, 3 connections, 2 breaks, backlog 1, results in and outside the contract, a server of either version | `InSync`, `OnlyWhole`, `KeepsExchange` (refinement of `RoiExchange`), `CallReturns` |
| `server` | each acquisition failing, 8 model files; driver and server headers that differ in one place; images of 2 x 3 pixels; 3 classes, 2 features, 5-bit integers | `AllOrNothing`; `ResultIsOwn`, `DeviceIsShared`; `ClassificationIsExact` |
| `jetson` | loop in units of 50 ms, up to 2 ROIs per frame; 2 buffers, 3 frames, 4 formats, 2 lengths; 1 viewer, 3 pictures | `StaysFresh`, `WholeFramesJudged`, `JudgingResumes`; `BuffersAreSafe`, `LossIsNoticed`; `NewestIsShown`, `StopReturns` |
| `vision` | up to 4 of 14 predictions; images of 8 x 8, every tap of every layer, 2 images in a row; all activations and low weights, 12-bit requantisation | `NothingLost`, `WindowHoldsBox`; `OutputIsReference`; `ArithmeticIsExact` |
| `evidence`, `estop_gate`, `late_done`, `lost_pad` | smaller instances of the same | the four findings below |

The runs bound clocks, calls, frames or images, so their last states have no
successor: deadlock is not checked, and what must happen is stated as a liveness
property.

Why the bounds are enough.  Times appear in the code only in comparisons of a
difference with a constant; each run leaves room for every such comparison to go both
ways and to be met with equality, more than once: the latch runs through two full
holds, the transmitter through several timeouts, the arbiter through two of its longest
timeout.  Two frame ids are enough because the server compares an id only with the
current one; `FrameIdSpan` lets the id wrap around.  `MaxBurst`, the number of messages
in one unit of time, keeps the clock and the messages from being interleaved without
limit; 2 already lets a frame complete within a unit.  `LastInput` is the last time a
caller acts.  `MaxFailures` is 0 in `ps_safety`: failing writes are the subject of
`output`, and `UsesTransmitter` carries its results over.  On the UART a damaged byte
takes the values the receiver can tell apart.  Three calls over three connections let a
call meet what is left of one before it, on the same and on a new connection; two
breaks let a second call fail while the first is being cleaned up.  Two images in a row
show what static buffers keep; the sizes give every layer edges, corners and two blocks
of channels.  One viewer suffices for the slots, since viewers share only the JPEG slot,
which they read; two viewers with two pictures give the same result but take longer
than the run is allowed.

Fairness.  Each assumption is that a thread which can go on does: the transmitter
thread and the clock (`output`), client and server of the link (`roi_link`), the main
loop and the two threads of the camera, and each thread of the stream server
(`jetson`); the browser's interval timer, the HTTP threads and the network (`output`,
page, whose questions are answered or fail).  They are running threads of an
operating system whose calls return or have a time limit.  The one strong fairness is
that `imencode` does not fail for ever.  Nothing is assumed of
callers, cameras, viewers or operators, which may stop at any point; where a property
needs one of them to come back, it says so (`JudgingResumes`, `StopReturns`).

## Proofs

TLAPS proves every safety property that a passing run checks, for every value of the
constants, with the assumptions each module names (`JudgeConfigAssumption`,
`LatchConfigAssumption`, `TransmitterAssumption`, ...), which TLC evaluates on the
instances.  Every inductive invariant was first checked by TLC on the instance of the
module's run.

The induction theorems of the library take an operator as a parameter, which the
provers cannot instantiate.  Where a proof needs induction over data (sums, powers of
two, the loop over a buffer, `argmax`), it looks at the least counterexample instead
(`FirstOf`, `LeastElement`): that a recursive function exists, and what it returns, then follows
from the facts about smaller arguments.

- `CommonProofs`, for `common/`, on the facts about `judgeOne`, `judgeWorst` and one
  call of `HazardLatch::update` in `LatchFacts`.
  - **LoopTypeCorrect**, **LoopCorrect**, for frames of any length.  `LoopComputesWorst`
    speaks of the end of the loop only; what is inductive is `PrefixJudged`, the running
    result against the prefix already seen, and its counterpart for the early return.
  - **LatchTypeCorrect**, **LatchInvariant**, **LatchNoEarlyRetrigger**,
    **LatchNewHazardStops**, **LatchHoldsStop** (the refinement of `StopHold`).
    `LatchInv` says that the counters of the latch never run ahead of the absence the
    frames show: the latch starts counting when the hold ends, history counts from the
    last sighting.
  - **DebounceInvariant**, **DangerIsPassedOn**, **ReleaseTakesBoth**.  `CandidateInv`
    relates the count and start of a candidate to the judgements that were really equal
    to it in a row.
  - **MessageInvariant**, **SnapshotIsWhole**, for every number of records, retries and
    messages.  `WriterInv` says that an even `sequence` means a whole message in memory,
    `ReaderInv` that what was copied while `sequence` did not change is the memory.  The
    theorem excepts a writer that died inside `publish` (see below).
  - **LineCorrect**, for the UART and its receiver, any number of frames and of faults.
    First the check byte: a step of the division is one to one (`BitStepOneToOne`), so
    eight are (`ByteStepOneToOne`), a state has one check byte and a check byte
    one state; no state and none of its check bytes is the magic (`CheckFacts`,
    by computing the CRC of three bytes).  Hence what one fault leaves of a frame holds
    no frame (`Remains`).  `LineInv` looks at buffer and wire as one stream.  `StreamOK`:
    its frames are in order, three bytes in it that the receiver would accept are a whole
    frame (`OnlyWhole`), the bytes of a whole frame are together (`Unbroken`), and no two
    bytes at its end become a frame with the magic of the next.  `TopicOK`: what was
    published are whole frames, in order and before the stream, and every whole frame was
    published or is in the stream.  `Drained` is what the loop of `_poll` does to such a
    stream: it takes out its whole frames in order and stops between two.
- `PsSafetyProofs`, for the safety bridge and the transmitter it contains.
  - **TransmitterTypeCorrect**, **TransmitterStaleStops**,
    **TransmitterStopIsImmediate**, **TransmitterWorseReachesWire**.  `TxInv` bounds the
    age of the state on the UART by where the thread is: while it sleeps, its next tick
    is at most `wake + MaxJitter` away.
  - **PsTypeCorrect**, **PsNoMoveWithoutFrame**, **PsHazardStops**,
    **PsSignKeepsSlow**, **PsHoldIsPublished**, and the refinement
    **PsUsesTransmitter**, by which `TxInv` holds inside the PS.  `PsInv` adds to it
    where the server thread is (`ServerInv`: it publishes in the order of its clock
    readings, and Stop before the end), that an observation always finds a slot
    because a frame has at most `MaxRois` requests and none when a connection begins
    (`RoomInv`), and what the decision
    in hand, or the one published, owes to the latch, to a sign (`DecisionInv`) and to
    a hazard that was seen but not judged yet (`HazardInv`).  The last is why
    `HazardStops` is not inductive: between the request and the flush of its frame the
    hazard exists in `pending` only.
- `RobotProofs`.
  - **ArbiterTypeCorrect**, **ArbiterStopHalts**, **ArbiterSilenceHalts**,
    **ArbiterResumeAfterNeutral**, **ArbiterSlowIsCapped**.  `ArbiterInv` adds that
    stamps are in the past and the timer is at most a period away (`OrderInv`), that a
    velocity commanded was fresh one period ago (`FreshInv`, `CapInv`), and that the gate
    is armed, or about to be armed by leaving Stop, and has seen no neutral input while
    one is owed (`GateInv`).
  - **DriveReleasedPadStops**, **DriveShutdownStops** and **DriveKeepsArbiter** for the
    whole chain.  `DriveInv` is `ArbiterInv` (each step of the chain is one of the
    arbiter's or leaves it alone), how far a release has come on its way from the
    controller to the command (`ReleaseInv`), and how long ago the last velocity arrived
    at each stage of the script (`ScriptInv`).
- `RoiLinkProofs`: **LinkInSync**, **LinkOnlyWhole**, **LinkKeepsExchange** (the
  refinement of `RoiExchange`), for all sizes of header, payload, result and socket
  buffers, any number of calls, connections and breaks, and servers of any version.
  `LinkInv` says that there is a function `of`, the last call begun on each connection,
  such that every unit in a stream or a buffer is the unit of that call's request or
  response that belongs at this place (`UpInv`, `DownInv`, `ServerInv`, `ClientInv`),
  and no call was begun on two connections (`CallInv`).  A stream alone does not say
  whose bytes it holds; with `of` each partial send and receive keeps the claim.
- `JetsonProofs`.
  - **LoopJudgesWholeFrames**, **LoopStaysFresh**.  `SessionInv` says that the PS holds
    all requests of the last frame or those sent so far of this one, and how many frames
    ago (the frame counter may wrap: a frame id does not come back before the heartbeat);
    `AgeInv` adds up the ages.  `LoopStaysFresh` has the hypothesis `LoopFitsTimeout`:
    the round trips of one frame, the heartbeat interval and one capture fit the decision
    timeout.  It is what the configuration of the two boards has to satisfy.
  - **CaptureBuffersAreSafe**.  `CaptureInv` follows descriptors and mappings through
    start and end (`LifeInv`), says that each buffer is in one queue of the driver or with
    the thread (`QueueInv`), and that what the thread has read of a buffer is still in it
    (`FrameInv`).
  - **ProposerLosesNothing**, **CropperHoldsBox**.  `ProposalInv`: a reported box is still
    to be looked at, kept, or covered by a kept one at least as strong (`KeptInv`); kept
    boxes are at least as strong as all that remain (`OrderedInv`) and apart
    (`ApartInv`, from the symmetry of the overlap); every candidate is in the frame
    (`VisibleInv`), so that its crop exists.  The rest is arithmetic: rounding, widening
    and clipping of the window, and the letterbox undone.
- `ServerProofs`.
  - **StartupAllOrNothing**, for any list of model files.  `StartupInv` gives what is held
    and how much of the model is read at each step of `main`.
  - **DeviceStaysShared**, **DeviceResultIsOwn**, without an assumption on when the PL
    finishes: the properties themselves name the cases in which the driver gives no
    protection, an unbinding in use and a run that was given up.  `HolderInv`: a live file
    keeps the driver, and a run outlives its buffer only in those cases.  `QuietInv`: as
    long as no run was given up the PL works, or shows `AP_DONE`, only while the server
    waits for it.  `RunInv`: a request whose image found the PL at rest keeps its input,
    its `AP_DONE` and its output to itself, also after an earlier time-out.
  - **ClassifyOneIsExact**, for all sizes of image and model: indices of the padded image
    are unique (`IndexIsUnique`), and the loop of `argmax` finds the first of the largest
    logits (`ArgmaxIsFirst`, by way of a first class at which it would not).
- `EngineProofs`, for every size of the image, number of channels and of lanes, every
  model and any sequence of images.
  - **PackedProductsExact**: both halves of the packed multiplication are exact for all
    operands of eight bits (the run enumerates the high weights at the ends only).
    **RequantIsExact**: requantisation does not wrap, at any width of the accumulator, by
    the facts that powers of two double, are positive and grow (`Pow2Step`,
    `Pow2Positive`, `Pow2Grows`).  **ArithmeticCorrect** is both, as the run states them.
  - **EngineComputesReference**.  The engine adds in another order than the reference, so
    the proof needs a theory of finite sums: any element may be taken first (`FoldTake`),
    indices may be renamed (`FoldImage`), and a sum may be taken lane by lane
    (`FoldLanes`).  With it and the exact products, one value of the engine is one value
    of the reference (`ConvolveIsReference`).  `EngineInv` says that the layers before the
    running one are done for the image of this run, that the rows the running layer has
    passed are pooled, and that of an odd row the one before waits in the buffer: so
    nothing of an earlier image is read.

Only model-checked:

- Liveness, which is out of the prover's reach: `SilenceStops`, `PageFollows`,
  `CallReturns`, `JudgingResumes`, `LossIsNoticed`, `NewestIsShown`, `StopReturns`.
  They are also all that is claimed of `MjpegStream` and `UserInterface`.
- The four claims that runs refute.

Assumptions that are not the code's own: a thread that is due runs within `MaxJitter`;
the clock of the robot does not step back (the ROS clock may) and its timer is served
before the clock passes the next period; the Jetson sends at most
`MaxRois <= kMaxDetections` ROIs of a frame (10 against 32 in the code); `hold_ms > 0`;
a UART write does not block for long; a link ends with a FIN or an error on both sides
(a Jetson that loses power sends neither: the server then stays in `recv`, and the robot
stays stopped by the watchdog); scores are numbers; one process uses the accelerator;
the pause of `stop_robot.sh` and its two `ros2` commands together last longer than
`joy_timeout` and a period of the arbiter (the pause alone equals `joy_timeout`, and each
command starts a process); the candidate the Jetson adds to an empty frame lies, at least
in part, inside the frame; a heartbeat is due before the frame counter has wrapped.

## Findings

With a run that shows them:

- **`evidence`.**  `flush_frame` stamps a decision with the time of the flush, which is
  when the *next* frame's first request arrives.  After a pause on a connection that
  stays open, the frame from before the pause is published as a fresh decision.
  `jetson_roi_client.cpp:430-431` describes the watchdog as answering old evidence.  The
  state lasts until the next frame is complete.
- **`lost_pad`.**  `button_teleop.py` repeats the velocity of the last controller
  message, and in `no_joy_mode`, which `start_robot.sh` uses, the arbiter looks only at
  the age of that velocity: a controller that is lost while pushed drives on.
  `cmd_vel_arbiter.py:18` promises zero after a controller timeout.
- **`late_done`.**  `run_classifier` neither waits for an idle PL nor clears `AP_DONE`:
  when a run finishes in the last sleep before its time-out or later, the next RUN
  returns at once with the output of the one before.  `arty/ps_db/kernel/README.md:27` says RUN waits for `ap_done`.
- **`estop_gate`.**  `cmd_vel_arbiter.py:174` says the gate follows any forced stop; the
  emergency stop does not arm it.

Also noted while modelling, without a run:

- `ps_safety_bridge.h:53-54` says the frame in hand is flushed before a connection ends;
  the server drops it and forces Stop (deliberately: `ps_classifier_server.c:490-495`).
- `cmd_vel_arbiter.py:19` says a stale safety state arms the resume gate; with the deadman
  button released the callback returns before it looks.  In `no_joy_mode` a Clear and a
  manual command that precede the first timer callback are not gated, and one threshold
  serves for stick positions and velocities, so that a stick pushed by less than half
  counts as neutral.
- `last_request_ms` of the Jetson is set by a frame of which nothing was sent.
- The header calls GET_INFO a check of the layout; a driver that keeps the weights
  elsewhere in a buffer of the same span is accepted.
- `MjpegStreamServer::stop()` is said to end all threads; a viewer that connected and
  sent nothing keeps it waiting (`StopReturns` states the condition).  A frame that
  cannot be sent in time is said to be skipped; the connection is ended instead.
- Requantisation is documented without a condition on the shift; the shifted product is
  stored in 32 bits before the clamp (`ArithmeticIsExact` states the condition, which the
  exported layers meet).
- The page is said never to leave an old state standing; when its server dies it does,
  with a small mark.  Its "blocked by safety" badge also appears when nothing is known of
  the output.
- `adas_classifier_remove` does not stop the PL: a run that was given up may finish into
  the freed buffer after the module is unloaded, and an unbinding takes the driver from a
  server that has the device open (`NoUseAfterFree` states these two exceptions).
- `SafetyMessage::publish` without items but with a count stores the count and leaves the
  records of the frame before; no such call exists, and it is not modelled.
- `SafetyMessage::read` is said to return true only with a whole snapshot; after a writer
  that died inside `publish` odd and even have changed their meaning.
- `SafetyTransmitter.hpp:39` speaks of a receive timeout of 100 ms on the robot, where the
  arbiter waits 2 s; `HazardLatch::reset()` has no caller.

## Not modelled

The TensorRT engine (calls into a library, no control state of its own); latency metrics,
logging and CSV (nothing of the control reads them); the softmax of the confidence, the
resizing of pixels and the training and export tools (floating-point numerics over
tensors, out of TLC's reach); `classifier_buffers.c`, `conv_same_parallel` and
`dot27_pair`, which nothing calls; opening and closing the UART port and the parsing of
arguments and environment variables, which give the CONSTANTS; the board checks and
deployment scripts; gauge, video and layout of the page.  `components` gives the reason
for each part.

## Plan

1. *(done)* judgement, latch, debounce, message, transmitter, bridge, server with its
   start-up, driver, model, engine, UART, receiver, arbiter, teleoperation, page, ROI
   link, Jetson loop, camera, proposals and crops, stream server.
2. *(done)* proofs of every safety property the runs check, and of the three
   refinements.
3. `SafetyChain`: transmitter, UART, receiver and arbiter composed; the end-to-end bound
   from a published Stop, or a dead PS, to a zero velocity.
