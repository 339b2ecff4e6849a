---------------------------- MODULE ServerProofs ----------------------------
(***************************************************************************)
(* The classifier server: main() ends with nothing left behind wherever it *)
(* fails, for any list of model files; the driver, the PL and the server   *)
(* share the buffers without one using what another has freed, except      *)
(* after an unbinding or a time-out, and a result is that of its own       *)
(* request if that found the PL at rest; and a class is answered that the  *)
(* model really gives to the image.                                        *)
(***************************************************************************)
EXTENDS PsStartup, ClassifierDevice, ClassifyOne, WellFoundedInduction, TLAPS

(* main(): what is held, and how much of the model is there, at each step. *)
StartupPcs ==
    {"arguments", "allocate", "files", "device", "configure", "listen", "csv", "uart",
     "serve", "exit"}

StartupTypeOK ==
    /\ main_pc \in StartupPcs
    /\ uart_set \in BOOLEAN /\ csv_set \in BOOLEAN
    /\ next \in Nat
    /\ model \in [Parts -> {"empty", "whole"}]
    /\ device \in [Parts -> {"empty", "whole"}]

HeldInv ==
    /\ held \subseteq {"model", "device", "socket", "csv", "safety"}
    /\ main_pc \in {"arguments", "allocate"} => held = {}
    /\ main_pc \in {"files", "device"} => held \subseteq {"model"}
    /\ main_pc \in {"configure", "listen"} => held \subseteq {"model", "device"}
    /\ main_pc \in {"csv"} => held \subseteq {"model", "device", "socket"}
    /\ main_pc \in {"uart"} => held \subseteq {"model", "device", "socket", "csv"}

whole == [f \in Parts |-> "whole"]

ModelInv ==
    /\ device = empty \/ device = whole
    /\ main_pc \in {"arguments", "allocate"} => model = empty /\ next = 1
    /\ main_pc = "files" =>
          /\ next \in 1 .. Len(Files)
          /\ \A i \in 1 .. Len(Files) : i < next => model[Files[i]] = "whole"
    /\ main_pc \in {"device", "configure", "listen", "csv", "uart", "serve"} =>
          model = whole

StartupInv ==
    StartupTypeOK /\ HeldInv /\ ModelInv /\ NeverUnguarded /\ ExitGivesBack

-----------------------------------------------------------------------------
LEMMA StartupInitInv == StartupInit => StartupInv
<1> SUFFICES ASSUME StartupInit PROVE StartupInv
  OBVIOUS
<1>1. StartupTypeOK
  BY DEF StartupInit, StartupTypeOK, StartupPcs, empty
<1>2. HeldInv /\ ModelInv
  BY DEF StartupInit, HeldInv, ModelInv
<1>3. NeverUnguarded /\ ExitGivesBack
  BY DEF StartupInit, NeverUnguarded, ExitGivesBack
<1> QED BY <1>1, <1>2, <1>3 DEF StartupInv

(* Whatever is read is accepted only if it is whole, so the last file      *)
(* completes the model.                                                    *)
LEMMA ReadFileInv ==
    ASSUME StartupInv, NEW size, ReadFile(size)
    PROVE  StartupInv'
<1> USE DEF StartupInv
<1>1. /\ main_pc = "files" /\ UNCHANGED <<uart_set, csv_set, device>>
      /\ held \subseteq {"model"}
      /\ next \in 1 .. Len(Files) /\ Len(Files) \in Nat /\ DOMAIN Files = 1 .. Len(Files)
  BY FilesAssumption DEF ReadFile, HeldInv, ModelInv
<1>2. CASE size = "right"
  <2>1. /\ model' = [model EXCEPT ![Files[next]] = "whole"]
        /\ next' = next + 1 /\ UNCHANGED held
        /\ main_pc' = IF next = Len(Files) THEN "device" ELSE "files"
    BY <1>2 DEF ReadFile, accepted
  <2>2. StartupTypeOK'
    <3>1. model' \in [Parts -> {"empty", "whole"}]
      BY <2>1 DEF StartupTypeOK
    <3>2. main_pc' \in StartupPcs
      BY <2>1 DEF StartupPcs
    <3>3. next \in Nat /\ next' = next + 1
      BY <2>1 DEF StartupTypeOK
    <3>4. next' \in Nat
      BY <3>3
    <3> QED BY <1>1, <3>1, <3>2, <3>4 DEF StartupTypeOK
  <2>3. \A i \in 1 .. Len(Files) : i < next + 1 => model'[Files[i]] = "whole"
    <3> SUFFICES ASSUME NEW i \in 1 .. Len(Files), i < next + 1
                 PROVE  model'[Files[i]] = "whole"
      OBVIOUS
    <3>1. Files[i] \in Parts /\ model \in [Parts -> {"empty", "whole"}]
      BY <1>1 DEF Parts, StartupTypeOK
    <3>2. i = next \/ i < next
      BY <1>1
    <3> QED BY <1>1, <2>1, <3>1, <3>2 DEF ModelInv
  <2>4. next = Len(Files) => model' = whole
    <3> SUFFICES ASSUME next = Len(Files), NEW f \in Parts PROVE model'[f] = "whole"
      BY <2>2 DEF whole, StartupTypeOK
    <3>1. PICK i \in 1 .. Len(Files) : f = Files[i]
      BY <1>1 DEF Parts
    <3> QED BY <1>1, <2>3, <3>1
  <2>5. ModelInv'
    <3>1. device' = empty \/ device' = whole
      BY <1>1 DEF ModelInv
    <3>2. CASE next = Len(Files)
      BY <2>1, <2>4, <3>1, <3>2 DEF ModelInv, whole, empty
    <3>3. CASE next # Len(Files)
      <4>1. next \in 1 .. Len(Files) /\ Len(Files) \in Nat /\ next' = next + 1
        BY <1>1, <2>1
      <4>2. main_pc' = "files" /\ next' \in 1 .. Len(Files)
        BY <2>1, <3>3, <4>1
      <4>3. \A i \in 1 .. Len(Files) : i < next' => model'[Files[i]] = "whole"
        BY <2>1, <2>3
      <4> QED BY <3>1, <4>2, <4>3 DEF ModelInv, whole, empty
    <3> QED BY <3>2, <3>3
  <2>6. HeldInv' /\ NeverUnguarded' /\ ExitGivesBack'
    BY <1>1, <2>1 DEF HeldInv, NeverUnguarded, ExitGivesBack
  <2> QED BY <2>2, <2>5, <2>6
<1>3. CASE size # "right"
  <2>1. main_pc' = "exit" /\ held' = held \ {"model"} /\ model' = empty /\ next' = next
    BY <1>3 DEF ReadFile, accepted, Exit
  <2>2. StartupTypeOK'
    BY <1>1, <2>1 DEF StartupTypeOK, StartupPcs, empty
  <2>3. ModelInv'
    BY <1>1, <2>1 DEF ModelInv, whole, empty
  <2>4. HeldInv' /\ NeverUnguarded' /\ ExitGivesBack'
    BY <1>1, <2>1 DEF HeldInv, NeverUnguarded, ExitGivesBack, empty
  <2> QED BY <2>2, <2>3, <2>4
<1> QED BY <1>2, <1>3

LEMMA StartupInvariant == StartupSpec => []StartupInv
<1>1. ASSUME StartupInv, [StartupNext]_startupVars PROVE StartupInv'
  <2> USE <1>1 DEF StartupInv
  <2>1. CASE ParseArguments
    BY <2>1 DEF ParseArguments, StartupTypeOK, StartupPcs, HeldInv, ModelInv,
                NeverUnguarded, ExitGivesBack, empty, whole
  <2>2. CASE AllocateModel
    <3>1. /\ held = {} /\ model = empty /\ next = 1
          /\ UNCHANGED <<uart_set, csv_set, next, model, device>>
          /\ \/ main_pc' = "files" /\ held' = {"model"}
             \/ main_pc' = "exit" /\ held' = {}
      BY <2>2 DEF AllocateModel, Exit, HeldInv, ModelInv
    <3>2. 1 \in 1 .. Len(Files) /\ \A i \in 1 .. Len(Files) : ~(i < 1)
      BY FilesAssumption
    <3>3. ModelInv'
      BY <3>1, <3>2 DEF ModelInv, whole, empty
    <3>4. StartupTypeOK' /\ HeldInv'
      BY <3>1 DEF StartupTypeOK, StartupPcs, HeldInv
    <3>5. NeverUnguarded' /\ ExitGivesBack'
      BY <3>1 DEF NeverUnguarded, ExitGivesBack, empty
    <3> QED BY <3>3, <3>4, <3>5
  <2>3. ASSUME NEW size, ReadFile(size) PROVE StartupInv'
    BY <2>3, ReadFileInv
  <2>4. CASE OpenDevice
    BY <2>4 DEF OpenDevice, Exit, StartupTypeOK, StartupPcs, HeldInv, ModelInv,
                NeverUnguarded, ExitGivesBack, empty, whole
  <2>5. CASE ConfigureDevice
    BY <2>5 DEF ConfigureDevice, Exit, StartupTypeOK, StartupPcs, HeldInv, ModelInv,
                NeverUnguarded, ExitGivesBack, empty, whole
  <2>6. CASE Listen
    BY <2>6 DEF Listen, listenFailed, Exit, StartupTypeOK, StartupPcs, HeldInv,
                ModelInv, NeverUnguarded, ExitGivesBack, empty, whole
  <2>7. CASE OpenCsv
    BY <2>7 DEF OpenCsv, StartupTypeOK, StartupPcs, HeldInv,
                ModelInv, NeverUnguarded, ExitGivesBack, empty, whole
  <2>8. CASE StartSafety
    <3>1. /\ held \subseteq {"model", "device", "socket", "csv"} /\ model = whole
          /\ UNCHANGED <<uart_set, csv_set, next, device>>
          /\ \/ main_pc' = "serve" /\ held' = held \cup {"safety"} /\ model' = model
             \/ main_pc' = "serve" /\ ~uart_set /\ held' = held /\ model' = model
             \/ /\ main_pc' = "exit" /\ model' = empty
                /\ held' = held \ {"socket", "device", "model"}
      BY <2>8 DEF StartSafety, withoutUart, Exit, HeldInv, ModelInv
    <3>2. StartupTypeOK'
      BY <3>1 DEF StartupTypeOK, StartupPcs, empty
    <3>3. HeldInv' /\ ModelInv'
      BY <3>1 DEF HeldInv, ModelInv, whole, empty
    <3>4. NeverUnguarded'
      BY <3>1 DEF NeverUnguarded
    <3>5. ExitGivesBack'
      BY <3>1 DEF ExitGivesBack, empty
    <3> QED BY <3>2, <3>3, <3>4, <3>5
  <2>9. CASE LeaveLoop
    BY <2>9 DEF LeaveLoop, Exit, StartupTypeOK, StartupPcs, HeldInv,
                ModelInv, NeverUnguarded, ExitGivesBack, empty, whole
  <2>10. CASE UNCHANGED startupVars
    BY <2>10 DEF startupVars, StartupTypeOK, StartupPcs, HeldInv,
                 ModelInv, NeverUnguarded, ExitGivesBack, empty, whole
  <2> QED BY <1>1, <2>1, <2>2, <2>3, <2>4, <2>5, <2>6, <2>7, <2>8, <2>9, <2>10
          DEF StartupNext, Ended
<1> QED BY StartupInitInv, <1>1, PTL DEF StartupSpec

(* For any list of model files and wherever main() fails: a server that is *)
(* to guard the robot never serves without the link to it, the accelerator *)
(* is configured with whole files or not at all, and what was acquired is  *)
(* given back.                                                             *)
THEOREM StartupAllOrNothing == StartupSpec => []AllOrNothing
<1>1. StartupInv => AllOrNothing
  BY DEF StartupInv, AllOrNothing, ModelInv, WholeModelOnly, whole
<1> QED BY <1>1, StartupInvariant, PTL

-----------------------------------------------------------------------------
(* The device.  HolderInv: a file that is live keeps what it needs, and    *)
(* the buffer of a run goes only if the driver is unbound or the run was   *)
(* given up.                                                               *)
HolderInv ==
    /\ NothingKept
    /\ fd = "none" => pc = "closed"
    /\ fd = "live" => bound
    /\ fd = "stale" => unbound
    /\ mapped => fd # "none"
    /\ pc \notin {"closed", "opened"} => accepts(layout)
    /\ busy /\ ~job_dma => unbound \/ timed_out
    /\ NoUseAfterFree

(* The PL works, or shows AP_DONE, only while the server waits for it,     *)
(* unless a run was given up.                                              *)
QuietInv ==
    freed_use = {} /\ ~timed_out =>
        /\ busy \/ ap_done => pc \in {"poll", "sleep"}
        /\ ~(busy /\ ap_done)
        /\ ~disturbed

(* A request whose image found the PL at rest: until its answer nobody     *)
(* touches the input, and AP_DONE stands for its run alone.                *)
RunInv ==
    /\ fd = "live" /\ ~disturbed =>
        /\ pc = "run" => ~busy /\ ~ap_done /\ ifmap = image
        /\ pc \in {"poll", "sleep"} =>
              \/ busy /\ ~ap_done /\ job = image /\ job_dma
              \/ ~busy /\ ap_done /\ output = image
        /\ pc = "post" => ~busy /\ output = image
    /\ pc \in {"closed", "opened", "configure"} => status = "none"
    /\ pc = "idle" /\ status = "OK" /\ ~disturbed => result = image

DeviceInv == DeviceTypeOK /\ HolderInv /\ QuietInv /\ RunInv

LEMMA DeviceInitInv == DeviceInit => DeviceInv
<1> SUFFICES ASSUME DeviceInit PROVE DeviceInv
  OBVIOUS
<1> USE DEF DeviceInit
<1>1. DeviceTypeOK
  BY DEF DeviceTypeOK, Image, Garbage, Status
<1>2. HolderInv
  BY DEF HolderInv, NothingKept, NoUseAfterFree
<1>3. QuietInv /\ RunInv
  BY DEF QuietInv, RunInv
<1> QED BY <1>1, <1>2, <1>3 DEF DeviceInv

LEMMA DeviceTypeStep ==
    ASSUME DeviceTypeOK, [DeviceNext]_deviceVars
    PROVE  DeviceTypeOK'
<1> USE DEF DeviceTypeOK, driverVars, plVars, procVars, resVars, histVars
<1>1. CASE Driver
  <2>1. CASE Probe
    BY <2>1 DEF Probe
  <2>2. ASSUME NEW registering \in BOOLEAN, ProbeFails(registering) PROVE DeviceTypeOK'
    BY <2>2 DEF ProbeFails, registerFails
  <2>3. CASE Unload
    BY <2>3 DEF Unload, remove
  <2>4. CASE Unbind
    BY <2>4 DEF Unbind, remove
  <2> QED BY <1>1, <2>1, <2>2, <2>3, <2>4 DEF Driver
<1>2. CASE Open
  BY <1>2 DEF Open
<1>3. ASSUME NEW ok \in BOOLEAN, GetInfo(ok) PROVE DeviceTypeOK'
  BY <1>3 DEF GetInfo, close, Status
<1>4. ASSUME NEW ok \in BOOLEAN, Configure(ok) PROVE DeviceTypeOK'
  <2>1. CASE ok
    BY <1>4, <2>1 DEF Configure
  <2>2. CASE ~ok
    BY <1>4, <2>2, ZenonT(60) DEF Configure, close, Status
  <2> QED BY <2>1, <2>2
<1>5. ASSUME NEW ok \in BOOLEAN, Postprocess(ok) PROVE DeviceTypeOK'
  BY <1>5 DEF Postprocess, Status
<1>6. CASE Preprocess
  BY <1>6 DEF Preprocess, Image, Garbage
<1>7. CASE RunStart
  BY <1>7 DEF RunStart
<1>8. CASE PollDone \/ PollBusy \/ PollAgain \/ PollTimeout
  BY <1>8 DEF PollDone, PollBusy, PollAgain, PollTimeout, Status
<1>9. CASE Close
  BY <1>9 DEF Close, close, Status
<1>10. CASE UseGone
  BY <1>10 DEF UseGone, close, Status
<1>11. CASE PlFinish
  BY <1>11, ZenonT(60) DEF PlFinish
<1>12. CASE UNCHANGED deviceVars
  BY <1>12 DEF deviceVars
<1> QED BY <1>1, <1>2, <1>3, <1>4, <1>5, <1>6, <1>7, <1>8, <1>9, <1>10, <1>11, <1>12
        DEF DeviceNext, Server

(* Each use of the driver's memory is under a live file; a run begins with *)
(* a buffer, and outlasts its server only when it was given up.            *)
LEMMA HolderStep ==
    ASSUME DeviceInv, [DeviceNext]_deviceVars
    PROVE  HolderInv'
<1> USE DEF DeviceInv, HolderInv, NothingKept, NoUseAfterFree, accepts,
            driverVars, plVars, procVars, resVars, histVars
<1>1. CASE Probe
  BY <1>1 DEF Probe
<1>2. ASSUME NEW registering \in BOOLEAN, ProbeFails(registering) PROVE HolderInv'
  BY <1>2 DEF ProbeFails, registerFails
<1>3. CASE Unload
  BY <1>3 DEF Unload, remove, removable, QuietInv, DeviceTypeOK
<1>4. CASE Unbind
  BY <1>4 DEF Unbind, remove
<1>5. CASE Open
  BY <1>5 DEF Open
<1>6. ASSUME NEW ok \in BOOLEAN, GetInfo(ok) PROVE HolderInv'
  BY <1>6 DEF GetInfo, close
<1>7. ASSUME NEW ok \in BOOLEAN, Configure(ok) PROVE HolderInv'
  BY <1>7 DEF Configure, close
<1>8. ASSUME NEW ok \in BOOLEAN, Postprocess(ok) PROVE HolderInv'
  BY <1>8 DEF Postprocess
<1>9. CASE Preprocess
  BY <1>9 DEF Preprocess
<1>10. CASE RunStart
  BY <1>10 DEF RunStart
<1>11. CASE PollDone
  BY <1>11 DEF PollDone, seesDone
<1>12. CASE PollBusy
  BY <1>12 DEF PollBusy, seesDone
<1>13. CASE PollAgain
  BY <1>13 DEF PollAgain
<1>14. CASE PollTimeout
  BY <1>14 DEF PollTimeout
<1>15. CASE Close
  BY <1>15 DEF Close, close
<1>16. CASE UseGone
  BY <1>16 DEF UseGone, close
<1>17. CASE PlFinish
  BY <1>17 DEF PlFinish
<1>18. CASE UNCHANGED deviceVars
  BY <1>18 DEF deviceVars
<1> QED BY <1>1, <1>2, <1>3, <1>4, <1>5, <1>6, <1>7, <1>8, <1>9, <1>10, <1>11, <1>12,
           <1>13, <1>14, <1>15, <1>16, <1>17, <1>18
        DEF DeviceNext, Driver, Server

LEMMA QuietStep ==
    ASSUME DeviceInv, [DeviceNext]_deviceVars
    PROVE  QuietInv'
<1> USE DEF DeviceInv, QuietInv, driverVars, plVars, procVars, resVars, histVars
<1>1. CASE Probe
  BY <1>1 DEF Probe
<1>2. ASSUME NEW registering \in BOOLEAN, ProbeFails(registering) PROVE QuietInv'
  BY <1>2 DEF ProbeFails, registerFails
<1>3. CASE Unload
  BY <1>3 DEF Unload, remove, removable
<1>4. CASE Unbind
  BY <1>4 DEF Unbind, remove
<1>5. CASE Open
  BY <1>5 DEF Open
<1>6. ASSUME NEW ok \in BOOLEAN, GetInfo(ok) PROVE QuietInv'
  BY <1>6 DEF GetInfo, close
<1>7. ASSUME NEW ok \in BOOLEAN, Configure(ok) PROVE QuietInv'
  BY <1>7 DEF Configure, close
<1>8. ASSUME NEW ok \in BOOLEAN, Postprocess(ok) PROVE QuietInv'
  BY <1>8 DEF Postprocess
<1>9. CASE Preprocess
  BY <1>9 DEF Preprocess
<1>10. CASE RunStart
  BY <1>10 DEF RunStart
<1>11. CASE PollDone
  BY <1>11 DEF PollDone, seesDone
<1>12. CASE PollBusy
  BY <1>12 DEF PollBusy, seesDone
<1>13. CASE PollAgain
  BY <1>13 DEF PollAgain
<1>14. CASE PollTimeout
  BY <1>14 DEF PollTimeout
<1>15. CASE Close
  BY <1>15 DEF Close, close
<1>16. CASE UseGone
  BY <1>16 DEF UseGone, close
<1>17. CASE PlFinish
  BY <1>17 DEF PlFinish
<1>18. CASE UNCHANGED deviceVars
  BY <1>18 DEF deviceVars
<1> QED BY <1>1, <1>2, <1>3, <1>4, <1>5, <1>6, <1>7, <1>8, <1>9, <1>10, <1>11, <1>12,
           <1>13, <1>14, <1>15, <1>16, <1>17, <1>18
        DEF DeviceNext, Driver, Server

LEMMA RunStep ==
    ASSUME DeviceInv, [DeviceNext]_deviceVars
    PROVE  RunInv'
<1> USE DEF DeviceInv, RunInv, driverVars, plVars, procVars, resVars, histVars
<1>1. CASE Probe
  BY <1>1 DEF Probe, HolderInv
<1>2. ASSUME NEW registering \in BOOLEAN, ProbeFails(registering) PROVE RunInv'
  BY <1>2 DEF ProbeFails, registerFails
<1>3. CASE Unload
  BY <1>3 DEF Unload, remove, removable, HolderInv, NothingKept
<1>4. CASE Unbind
  BY <1>4 DEF Unbind, remove, HolderInv, NothingKept
<1>5. CASE Open
  BY <1>5 DEF Open, HolderInv, NothingKept
<1>6. ASSUME NEW ok \in BOOLEAN, GetInfo(ok) PROVE RunInv'
  BY <1>6 DEF GetInfo, close
<1>7. ASSUME NEW ok \in BOOLEAN, Configure(ok) PROVE RunInv'
  BY <1>7 DEF Configure, close
<1>8. ASSUME NEW ok \in BOOLEAN, Postprocess(ok) PROVE RunInv'
  BY <1>8 DEF Postprocess
<1>9. CASE Preprocess
  BY <1>9 DEF Preprocess
<1>10. CASE RunStart
  BY <1>10 DEF RunStart, HolderInv, NothingKept
<1>11. CASE PollDone
  BY <1>11 DEF PollDone, seesDone
<1>12. CASE PollBusy
  BY <1>12 DEF PollBusy, seesDone
<1>13. CASE PollAgain
  BY <1>13 DEF PollAgain
<1>14. CASE PollTimeout
  BY <1>14 DEF PollTimeout
<1>15. CASE Close
  BY <1>15 DEF Close, close, HolderInv, NothingKept
<1>16. CASE UseGone
  BY <1>16 DEF UseGone, close, HolderInv, NothingKept
<1>17. CASE PlFinish
  BY <1>17 DEF PlFinish
<1>18. CASE UNCHANGED deviceVars
  BY <1>18 DEF deviceVars
<1> QED BY <1>1, <1>2, <1>3, <1>4, <1>5, <1>6, <1>7, <1>8, <1>9, <1>10, <1>11, <1>12,
           <1>13, <1>14, <1>15, <1>16, <1>17, <1>18
        DEF DeviceNext, Driver, Server

LEMMA DeviceInvariant == DeviceSpec => []DeviceInv
<1>1. DeviceInv /\ [DeviceNext]_deviceVars => DeviceInv'
  BY DeviceTypeStep, HolderStep, QuietStep, RunStep DEF DeviceInv
<1> QED BY DeviceInitInv, <1>1, PTL DEF DeviceSpec

(* Whatever the PL finishes late, and however often the driver is removed: *)
(* the server uses memory that is gone only after the driver was unbound   *)
(* from an open device, the PL only then or after a time-out; the buffer   *)
(* lives exactly as long as the device node; and the server works with the *)
(* layout the driver has, for every set of layouts the driver may have     *)
(* been built with.                                                        *)
THEOREM DeviceStaysShared == DeviceSpec => []DeviceIsShared
<1>1. DeviceInv => DeviceIsShared
  BY DEF DeviceInv, HolderInv, DeviceIsShared, BuffersAgree, accepts
<1> QED BY <1>1, DeviceInvariant, PTL

(* An answer is about the image of its own request if the PL was at rest   *)
(* when that image was written, and the PL always is before the first      *)
(* time-out, however failures, restarts of the server and removals of the  *)
(* driver precede the request.                                             *)
THEOREM DeviceResultIsOwn == DeviceSpec => []ResultIsOwn
<1>1. DeviceInv => ResultIsOwn
  BY DEF DeviceInv, QuietInv, RunInv, ResultIsOwn
<1> QED BY <1>1, DeviceInvariant, PTL

-----------------------------------------------------------------------------
(* classify_one: the image in the buffer of the accelerator and the class  *)
(* of the answer.  The loop of argmax is a recursive function; what it     *)
(* computes is shown by way of a first class where the claim would fail.   *)

(* A non-empty set of natural numbers has a first one. *)
LEMMA FirstOf ==
    ASSUME NEW T \in SUBSET Nat, T # {}
    PROVE  \E x \in T : \A y \in T : x <= y
<1> DEFINE before == {ss \in Nat \X Nat : ss[1] < ss[2]}
<1>1. IsWellFoundedOn(before, Nat)
  BY NatLessThanWellFounded DEF OpToRel
<1>2. PICK x \in T : \A y \in T : ~(<<y, x>> \in before)
  <2> HIDE DEF before
  <2> QED BY <1>1, WFMin
<1>3. \A y \in T : ~(y < x)
  BY <1>2
<1> QED BY <1>3

LEMMA ClassifyConstants ==
    /\ Width \in Nat /\ Width > 0 /\ Height \in Nat /\ Height > 0
    /\ Channels \in Nat /\ Channels > 0 /\ class_count \in Nat /\ class_count > 0
    /\ IntMax \in Nat
BY ClassifyAssumption

(* One turn of the loop of argmax, after the turns that found f. *)
turn(logits, f, k) ==
    IF k = 0 THEN 0 ELSE IF logits[k] > logits[f[k - 1]] THEN k ELSE f[k - 1]

(* The loop of argmax has a result after every turn. *)
LEMMA ArgmaxDefined ==
    ASSUME NEW logits
    PROVE  \E f : f = [k \in Classes |-> turn(logits, f, k)]
<1> DEFINE Runs(n) == \E f : f = [k \in 0 .. n |-> turn(logits, f, k)]
           T == {n \in Nat : ~Runs(n)}
<1>1. T = {}
  <2>1. SUFFICES ASSUME T # {} PROVE FALSE
    OBVIOUS
  <2>2. PICK n \in T : \A m \in T : n <= m
    <3> HIDE DEF T
    <3>1. T \subseteq Nat
      BY DEF T
    <3> QED BY <2>1, <3>1, FirstOf
  <2>3. n \in Nat /\ ~Runs(n)
    OBVIOUS
  <2>4. CASE n = 0
    <3> DEFINE g == [k \in 0 .. n |-> 0]
    <3>1. g = [k \in 0 .. n |-> turn(logits, g, k)]
      BY <2>4 DEF turn
    <3> QED BY <2>3, <3>1
  <2>5. CASE n > 0
    <3>1. Runs(n - 1)
      BY <2>2, <2>3, <2>5
    <3>2. PICK f : f = [k \in 0 .. n - 1 |-> turn(logits, f, k)]
      BY <3>1
    <3> DEFINE g == [k \in 0 .. n |-> IF k = n THEN turn(logits, f, k) ELSE f[k]]
    <3>3. ASSUME NEW k \in 0 .. n PROVE g[k] = turn(logits, g, k)
      <4>1. k # 0 => g[k - 1] = f[k - 1]
        BY <2>3
      <4>2. turn(logits, g, k) = turn(logits, f, k)
        BY <4>1 DEF turn
      <4>3. k # n => f[k] = turn(logits, f, k)
        <5>1. k # n => k \in 0 .. n - 1
          BY <2>3
        <5> HIDE DEF g
        <5> QED BY <3>2, <5>1
      <4> QED BY <4>2, <4>3
    <3>4. g = [k \in 0 .. n |-> g[k]]
      OBVIOUS
    <3>5. g = [k \in 0 .. n |-> turn(logits, g, k)]
      <4> HIDE DEF g
      <4> QED BY <3>3, <3>4
    <3> QED BY <2>3, <3>5
  <2> QED BY <2>3, <2>4, <2>5
<1>2. Runs(class_count - 1)
  BY <1>1, ClassifyConstants
<1> QED BY <1>2 DEF Classes

(* Of the largest logits argmax takes the first. *)
LEMMA ArgmaxIsFirst ==
    ASSUME NEW logits \in [Classes -> Int]
    PROVE  LET r == adas_classifier_argmax(logits)
           IN  /\ r \in Classes
               /\ \A k \in Classes : logits[r] >= logits[k]
               /\ \A k \in 0 .. r - 1 : logits[k] < logits[r]
<1> DEFINE best == CHOOSE f : f = [k \in Classes |-> turn(logits, f, k)]
<1>1. best = [k \in Classes |-> turn(logits, best, k)]
  BY ArgmaxDefined
<1>2. adas_classifier_argmax(logits) = best[class_count - 1]
  BY DEF adas_classifier_argmax, turn
<1> HIDE DEF best
<1>3. \A k \in Classes : best[k] = turn(logits, best, k)
  BY <1>1, Zenon
<1> DEFINE First(n) ==
        /\ best[n] \in 0 .. n
        /\ \A k \in 0 .. n : logits[best[n]] >= logits[k]
        /\ \A k \in 0 .. best[n] - 1 : logits[k] < logits[best[n]]
           T == {n \in Classes : ~First(n)}
<1>4. T = {}
  <2>1. SUFFICES ASSUME T # {} PROVE FALSE
    OBVIOUS
  <2>2. PICK n \in T : \A m \in T : n <= m
    <3> HIDE DEF T
    <3>1. T \subseteq Nat
      BY ClassifyConstants DEF T, Classes
    <3> QED BY <2>1, <3>1, FirstOf
  <2>3. n \in Classes /\ n \in Nat /\ ~First(n) /\ best[n] = turn(logits, best, n)
    <3>1. n \in Classes /\ ~First(n)
      OBVIOUS
    <3>2. n \in Nat
      BY <3>1, ClassifyConstants DEF Classes
    <3> QED BY <1>3, <3>1, <3>2
  <2>4. CASE n = 0
    <3>1. best[n] = 0 /\ logits[0] \in Int
      BY <2>3, <2>4 DEF turn
    <3> QED BY <2>3, <2>4, <3>1
  <2>5. CASE n > 0
    <3> DEFINE b == best[n - 1]
    <3>1. n - 1 \in Classes /\ First(n - 1)
      BY <2>2, <2>3, <2>5, ClassifyConstants DEF Classes
    <3>2. /\ b \in 0 .. n - 1
          /\ \A k \in 0 .. n - 1 : logits[b] >= logits[k]
          /\ \A k \in 0 .. b - 1 : logits[k] < logits[b]
          /\ best[n] = IF logits[n] > logits[b] THEN n ELSE b
      BY <2>3, <2>5, <3>1 DEF turn
    <3>3. \A k \in 0 .. n : logits[k] \in Int /\ (k \in 0 .. n - 1 \/ k = n)
      BY <2>3, ClassifyConstants DEF Classes
    <3> HIDE DEF b
    <3>4. CASE logits[n] > logits[b]
      <4>1. best[n] = n /\ b \in 0 .. n /\ logits[b] \in Int
        BY <2>3, <3>2, <3>3, <3>4
      <4>2. \A k \in 0 .. n - 1 : logits[k] < logits[n]
        BY <2>3, <3>2, <3>3, <3>4, <4>1
      <4> QED BY <2>3, <3>3, <4>1, <4>2
    <3>5. CASE ~(logits[n] > logits[b])
      <4>1. best[n] = b /\ b \in 0 .. n /\ logits[b] \in Int /\ logits[n] \in Int
        BY <2>3, <3>2, <3>3, <3>5
      <4>2. \A k \in 0 .. n : logits[b] >= logits[k]
        BY <3>2, <3>3, <3>5, <4>1
      <4> QED BY <2>3, <3>2, <4>1, <4>2
    <3> QED BY <3>4, <3>5
  <2> QED BY <2>3, <2>4, <2>5
<1>5. class_count - 1 \in Classes
  BY ClassifyConstants DEF Classes
<1>6. First(class_count - 1)
  BY <1>4, <1>5
<1> QED BY <1>2, <1>6, ClassifyConstants DEF Classes

-----------------------------------------------------------------------------
(* Two digits are told from their number. *)
LEMMA Digits ==
    ASSUME NEW n \in Nat, NEW a \in Int, NEW b \in 0 .. n - 1,
           NEW c \in Int, NEW d \in 0 .. n - 1, a * n + b = c * n + d
    PROVE  a = c /\ b = d
<1>1. \A e, f \in Int : e < f => e * n + n <= f * n
  <2>1. SUFFICES ASSUME NEW e \in Int, NEW f \in Int, e < f PROVE e * n + n <= f * n
    OBVIOUS
  <2>2. (e + 1) * n <= f * n
    BY <2>1
  <2>3. (e + 1) * n = e * n + n
    OBVIOUS
  <2> QED BY <2>2, <2>3
<1>2. a * n \in Int /\ c * n \in Int
  OBVIOUS
<1>3. ~(a < c)
  BY <1>1, <1>2
<1>4. ~(c < a)
  BY <1>1, <1>2
<1>5. a = c
  BY <1>3, <1>4
<1> QED BY <1>2, <1>5

(* The padded row and column of a value are told from its index. *)
at(x, y, c) == (y * (Width + 2) + x) * Channels + c

LEMMA IndexIsUnique ==
    ASSUME NEW x \in 0 .. Width + 1, NEW y \in 0 .. Height + 1, NEW c \in 0 .. Channels - 1,
           NEW u \in 0 .. Width + 1, NEW v \in 0 .. Height + 1, NEW d \in 0 .. Channels - 1,
           at(x, y, c) = at(u, v, d)
    PROVE  x = u /\ y = v /\ c = d
<1> DEFINE a == y * (Width + 2) + x
           b == v * (Width + 2) + u
<1>1. a \in Int /\ b \in Int /\ Width + 2 \in Nat
  BY ClassifyConstants
<1>2. a * Channels + c = b * Channels + d
  BY DEF at
<1>3. a = b /\ c = d
  <2> HIDE DEF a, b
  <2> QED BY <1>1, <1>2, Digits, ClassifyConstants
<1>4. /\ x \in 0 .. (Width + 2) - 1 /\ u \in 0 .. (Width + 2) - 1
      /\ y \in Int /\ v \in Int
  BY ClassifyConstants
<1>5. y = v /\ x = u
  BY <1>1, <1>3, <1>4, Digits
<1> QED BY <1>3, <1>5

(* The index of a value in a picture of W columns and H rows. *)
LEMMA WithinPicture ==
    ASSUME NEW W \in Nat, NEW H \in Nat,
           NEW x \in 0 .. W - 1, NEW y \in 0 .. H - 1, NEW c \in 0 .. Channels - 1
    PROVE  (y * W + x) * Channels + c \in 0 .. W * H * Channels - 1
<1> DEFINE a == y * W + x
           n == W * H
<1>1. a \in Nat /\ n \in Nat /\ a + 1 <= n
  <2>1. y * W \in Nat /\ (H - 1) * W \in Int /\ y * W <= (H - 1) * W
    OBVIOUS
  <2>2. n = (H - 1) * W + W
    OBVIOUS
  <2> QED BY <2>1, <2>2
<1> HIDE DEF a, n
<1>2. /\ a * Channels \in Nat /\ n * Channels \in Nat
      /\ (a + 1) * Channels <= n * Channels
      /\ (a + 1) * Channels = a * Channels + Channels
  BY <1>1, ClassifyConstants
<1>3. a * Channels + c \in 0 .. n * Channels - 1
  BY <1>2, ClassifyConstants
<1> QED BY <1>3 DEF a, n

LEMMA IndexFits ==
    ASSUME NEW x \in 0 .. Width + 1, NEW y \in 0 .. Height + 1, NEW c \in 0 .. Channels - 1
    PROVE  at(x, y, c) \in 0 .. InputSize - 1
<1>1. /\ Width + 2 \in Nat /\ x \in 0 .. (Width + 2) - 1
      /\ Height + 2 \in Nat /\ y \in 0 .. (Height + 2) - 1
  BY ClassifyConstants
<1> QED BY <1>1, WithinPicture DEF at, InputSize

LEMMA PixelIndexFits ==
    ASSUME NEW x \in 0 .. Width - 1, NEW y \in 0 .. Height - 1, NEW c \in 0 .. Channels - 1
    PROVE  inputIndex(x, y, c) \in 0 .. ImageSize - 1
BY WithinPicture, ClassifyConstants DEF inputIndex, ImageSize

(* The image of a pixel, rounded to the nearest of 128 levels. *)
LEMMA QuantizedPixel ==
    ASSUME NEW p \in 0 .. 255
    PROVE  LET v == adas_roi_quantize_pixel(p)
           IN  v \in 0 .. 127 /\ 2 * (255 * v - 127 * p) \in -255 .. 255
BY DEF adas_roi_quantize_pixel

(* Each pixel goes to its place, and to the border goes none. *)
LEMMA PreprocessIsExact ==
    ASSUME NEW img \in [0 .. ImageSize - 1 -> PixelValues],
           NEW y \in 0 .. Height + 1, NEW x \in 0 .. Width + 1, NEW c \in 0 .. Channels - 1
    PROVE  LET v == adas_roi_preprocess(img)[at(x, y, c)]
           IN  IF y \in 1 .. Height /\ x \in 1 .. Width
               THEN v = adas_roi_quantize_pixel(img[inputIndex(x - 1, y - 1, c)])
               ELSE v = 0
<1> DEFINE Places == (0 .. Width - 1) \X (0 .. Height - 1) \X (0 .. Channels - 1)
           At(i)  == {t \in Places : outputIndex(t[1], t[2], t[3]) = i}
           i == at(x, y, c)
           here == <<x - 1, y - 1, c>>
<1>1. i \in 0 .. InputSize - 1
  BY IndexFits
<1>2. adas_roi_preprocess(img)[i] =
          IF At(i) = {} THEN 0
          ELSE LET t == CHOOSE t \in At(i) : TRUE
               IN  adas_roi_quantize_pixel(img[inputIndex(t[1], t[2], t[3])])
  BY <1>1 DEF adas_roi_preprocess
<1>3. ASSUME NEW t \in At(i) PROVE t = here /\ y \in 1 .. Height /\ x \in 1 .. Width
  <2>1. PICK u \in 0 .. Width - 1, v \in 0 .. Height - 1, d \in 0 .. Channels - 1 :
             t = <<u, v, d>> /\ outputIndex(u, v, d) = i
    OBVIOUS
  <2>2. u + 1 \in 0 .. Width + 1 /\ v + 1 \in 0 .. Height + 1
    BY ClassifyConstants
  <2> HIDE DEF At
  <2>3. at(u + 1, v + 1, d) = i
    BY <2>1 DEF outputIndex, at
  <2>4. u + 1 = x /\ v + 1 = y /\ d = c
    BY <2>2, <2>3, IndexIsUnique
  <2>5. u = x - 1 /\ v = y - 1 /\ y \in 1 .. Height /\ x \in 1 .. Width
    BY <2>4, ClassifyConstants
  <2> QED BY <2>1, <2>4, <2>5
<1>4. ASSUME y \in 1 .. Height, x \in 1 .. Width PROVE here \in At(i)
  <2>1. here \in Places
    BY <1>4, ClassifyConstants
  <2>2. outputIndex(x - 1, y - 1, c) = i
    <3>1. (x - 1) + 1 = x /\ (y - 1) + 1 = y
      BY <1>4, ClassifyConstants
    <3> QED BY <3>1 DEF outputIndex, at
  <2> QED BY <2>1, <2>2
<1>5. CASE y \in 1 .. Height /\ x \in 1 .. Width
  <2>1. At(i) = {here}
    <3> HIDE DEF At, here
    <3> QED BY <1>3, <1>4, <1>5
  <2>2. (CHOOSE t \in At(i) : TRUE) = here
    <3> HIDE DEF At, here
    <3> QED BY <2>1
  <2>3. here[1] = x - 1 /\ here[2] = y - 1 /\ here[3] = c
    OBVIOUS
  <2> HIDE DEF At, here, i
  <2>4. adas_roi_preprocess(img)[i] = adas_roi_quantize_pixel(img[inputIndex(x - 1, y - 1, c)])
    BY <1>2, <2>1, <2>2, <2>3
  <2> QED BY <1>5, <2>4 DEF i
<1>6. CASE ~(y \in 1 .. Height /\ x \in 1 .. Width)
  <2>1. At(i) = {}
    <3> HIDE DEF At
    <3> QED BY <1>3, <1>6
  <2> HIDE DEF At, i
  <2>2. adas_roi_preprocess(img)[i] = 0
    BY <1>2, <2>1
  <2> QED BY <1>6, <2>2 DEF i
<1> QED BY <1>5, <1>6

(* The whole handler: the input buffer holds the padded image once it was  *)
(* written, and an answer with a class was computed from logits that fit.  *)
ClassifyInv ==
    /\ stage \in {"preprocess", "run", "postprocess", "answered"}
    /\ pixels \in [0 .. ImageSize - 1 -> PixelValues]
    /\ stage # "preprocess" => input = adas_roi_preprocess(pixels)
    /\ AnswerIsExact

LEMMA ClassifyInvariant == ClassifySpec => []ClassifyInv
<1>1. ClassifyInit(PixelValues, OutputValues, WeightValues, BiasValues, Divisors) => ClassifyInv
  BY DEF ClassifyInit, ClassifyInv, AnswerIsExact
<1>2. ClassifyInv /\ [ClassifyNext]_classifyVars => ClassifyInv'
  <2>1. SUFFICES ASSUME ClassifyInv, [ClassifyNext]_classifyVars PROVE ClassifyInv'
    OBVIOUS
  <2> DEFINE sums == adas_classifier_gap_sum(pl_output)
             logits == [k \in Classes |-> exactLogit(sums, k)]
             Exact(r) ==
                 r.status = "ok" =>
                    /\ \A k \in Classes : /\ fits(exactLogit(sums, k))
                                          /\ exactLogit(sums, r.class_id) >= exactLogit(sums, k)
                    /\ \A k \in 0 .. r.class_id - 1 :
                            exactLogit(sums, k) < exactLogit(sums, r.class_id)
  <2>2. Exact(answer)
    BY <2>1 DEF ClassifyInv, AnswerIsExact
  <2>3. UNCHANGED <<pl_output, modelVars>> /\ Exact(answer') => AnswerIsExact'
    BY DEF AnswerIsExact, modelVars, exactLogit
  <2>4. \A why \in {"accelerator error", "postprocess error"} : Exact(failed_result(why))
    BY DEF failed_result
  <2>5. CASE PreprocessRoi
    <3>1. Exact(answer') /\ UNCHANGED <<pl_output, modelVars>>
      BY <2>2, <2>5 DEF PreprocessRoi
    <3> QED BY <2>1, <2>3, <2>5, <3>1 DEF PreprocessRoi, ClassifyInv
  <2>6. CASE RunDevice
    <3>1. Exact(answer') /\ UNCHANGED <<pl_output, modelVars>>
      BY <2>2, <2>4, <2>6 DEF RunDevice, Reply
    <3> QED BY <2>1, <2>3, <2>6, <3>1 DEF RunDevice, Reply, ClassifyInv
  <2>7. CASE PostprocessOutput
    <3> DEFINE fc == adas_classifier_fc(sums)
               won == [status |-> "ok", class_id |-> adas_classifier_argmax(logits)]
    <3>1. fc.logits = logits /\ (fc.status = "ok" => \A k \in Classes : fits(logits[k]))
      BY DEF adas_classifier_fc
    <3>2. fc.status = "ok" => Exact(won)
      <4>1. SUFFICES ASSUME fc.status = "ok" PROVE Exact(won)
        OBVIOUS
      <4>2. logits \in [Classes -> Int]
        BY <3>1, <4>1, ClassifyConstants DEF fits
      <4> DEFINE r == adas_classifier_argmax(logits)
      <4>3. /\ r \in Classes
            /\ \A k \in Classes : logits[r] >= logits[k]
            /\ \A k \in 0 .. r - 1 : logits[k] < logits[r]
        BY <4>2, ArgmaxIsFirst
      <4>4. \A k \in 0 .. r - 1 : k \in Classes
        BY <4>3, ClassifyConstants DEF Classes
      <4>5. \A k \in Classes : logits[k] = exactLogit(sums, k)
        OBVIOUS
      <4>6. won.class_id = r
        OBVIOUS
      <4> HIDE DEF logits, r, won
      <4> QED BY <3>1, <4>1, <4>3, <4>4, <4>5, <4>6
    <3>3. /\ UNCHANGED <<pl_output, modelVars, pixels, input>>
          /\ stage = "postprocess" /\ stage' = "answered"
          /\ \/ answer' = failed_result("postprocess error")
             \/ fc.status = "ok" /\ answer' = won
      BY <2>7, <3>1 DEF PostprocessOutput, Reply
    <3>4. Exact(answer')
      BY <2>4, <3>2, <3>3
    <3> QED BY <2>1, <2>3, <3>3, <3>4 DEF ClassifyInv
  <2>8. CASE UNCHANGED classifyVars
    <3>1. Exact(answer') /\ UNCHANGED <<pl_output, modelVars>>
      BY <2>2, <2>8 DEF classifyVars
    <3> QED BY <2>1, <2>3, <2>8, <3>1 DEF classifyVars, ClassifyInv
  <2> QED BY <2>1, <2>5, <2>6, <2>7, <2>8 DEF ClassifyNext
<1> QED BY <1>1, <1>2, PTL DEF ClassifySpec

(* For all sizes of the image and of the model: the accelerator gets every *)
(* pixel at its place and zeros around them, and an answer names the first *)
(* class with the largest logit, none of which left its 32 bits.           *)
THEOREM ClassifyOneIsExact == ClassifySpec => []ClassificationIsExact
<1>1. ClassifyInv => ClassificationIsExact
  <2>1. SUFFICES ASSUME ClassifyInv PROVE PaddedImage
    BY DEF ClassifyInv, ClassificationIsExact
  <2>2. SUFFICES ASSUME stage # "preprocess", NEW y \in 0 .. Height + 1,
                        NEW x \in 0 .. Width + 1, NEW c \in 0 .. Channels - 1
                 PROVE  LET v      == input[at(x, y, c)]
                            inside == y \in 1 .. Height /\ x \in 1 .. Width
                            p      == pixels[inputIndex(x - 1, y - 1, c)]
                        IN  IF inside
                            THEN v \in 0 .. 127 /\ 2 * (255 * v - 127 * p) \in -255 .. 255
                            ELSE v = 0
    BY DEF PaddedImage, at, inputIndex
  <2>3. /\ pixels \in [0 .. ImageSize - 1 -> PixelValues]
        /\ input = adas_roi_preprocess(pixels)
    BY <2>1, <2>2 DEF ClassifyInv
  <2>4. ASSUME y \in 1 .. Height, x \in 1 .. Width
        PROVE  pixels[inputIndex(x - 1, y - 1, c)] \in 0 .. 255
    <3>1. inputIndex(x - 1, y - 1, c) \in 0 .. ImageSize - 1
      BY <2>4, PixelIndexFits, ClassifyConstants
    <3>2. PixelValues \subseteq 0 .. 255
      BY ClassifyAssumption
    <3> QED BY <2>3, <3>1, <3>2
  <2>5. /\ y \in 1 .. Height /\ x \in 1 .. Width =>
              input[at(x, y, c)] = adas_roi_quantize_pixel(pixels[inputIndex(x - 1, y - 1, c)])
        /\ ~(y \in 1 .. Height /\ x \in 1 .. Width) => input[at(x, y, c)] = 0
    BY <2>3, PreprocessIsExact
  <2>6. CASE y \in 1 .. Height /\ x \in 1 .. Width
    <3> DEFINE p == pixels[inputIndex(x - 1, y - 1, c)]
               v == adas_roi_quantize_pixel(p)
    <3>1. p \in 0 .. 255
      BY <2>4, <2>6
    <3>2. input[at(x, y, c)] = v
      BY <2>5, <2>6
    <3> HIDE DEF p
    <3>3. v \in 0 .. 127 /\ 2 * (255 * v - 127 * p) \in -255 .. 255
      BY <3>1, QuantizedPixel
    <3> HIDE DEF v
    <3> QED BY <2>6, <3>2, <3>3 DEF p
  <2> QED BY <2>5, <2>6
<1> QED BY <1>1, ClassifyInvariant, PTL
=============================================================================
