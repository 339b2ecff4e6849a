----------------------------- MODULE PsStartup -----------------------------
(***************************************************************************)
(* main() of arty/ps_db/tools/ps_classifier_server.c around its loop, with *)
(* adas_classifier_model_load: what the server acquires one after the      *)
(* other, each of which may fail, and what it gives back on each way out.  *)
(* The loop itself is in PsSafety and RoiLink, the inside of the device in *)
(* ClassifierDevice.                                                       *)
(***************************************************************************)
EXTENDS Naturals, Sequences

CONSTANT Files          \* the model files in the order they are read

Parts == {Files[i] : i \in DOMAIN Files}

ASSUME FilesAssumption == Files \in Seq(Parts) /\ Len(Files) > 0

VARIABLES
    main_pc,
    uart_set, csv_set,  \* ADAS_UART_PORT and ADAS_PS_CSV are set
    held,               \* what the process has acquired
    next,               \* the file to be read
    model,              \* per file: "empty", or how much of it was read
    device              \* the model the device was configured with

startupVars == <<main_pc, uart_set, csv_set, held, next, model, device>>

empty == [f \in Parts |-> "empty"]

StartupInit ==
    /\ main_pc = "arguments"
    /\ uart_set \in BOOLEAN /\ csv_set \in BOOLEAN
    /\ held = {}
    /\ next = 1
    /\ model = empty
    /\ device = empty

Exit(giveBack) == main_pc' = "exit" /\ held' = held \ giveBack

-----------------------------------------------------------------------------
(* Wrong arguments end the program before anything is acquired. *)
ParseArguments ==
    /\ main_pc = "arguments"
    /\ main_pc' \in {"allocate", "exit"}
    /\ UNCHANGED <<uart_set, csv_set, held, next, model, device>>

(* The two arrays of the last layer are freed together. *)
AllocateModel ==
    /\ main_pc = "allocate"
    /\ \/ main_pc' = "files" /\ held' = held \cup {"model"}
       \/ Exit({"model"})
    /\ UNCHANGED <<uart_set, csv_set, next, model, device>>

(* read_exact_file: not a byte less, and not one more. *)
accepted(size) == size = "right"

(* One file after the other; the first that fails empties the model. *)
ReadFile(size) ==
    /\ main_pc = "files"
    /\ IF accepted(size)
       THEN /\ model' = [model EXCEPT ![Files[next]] =
                           IF size = "short" THEN "partly" ELSE "whole"]
            /\ next' = next + 1
            /\ main_pc' = IF next = Len(Files) THEN "device" ELSE "files"
            /\ UNCHANGED held
       ELSE Exit({"model"}) /\ model' = empty /\ UNCHANGED next
    /\ UNCHANGED <<uart_set, csv_set, device>>

OpenDevice ==
    /\ main_pc = "device"
    /\ \/ main_pc' = "configure" /\ held' = held \cup {"device"} /\ UNCHANGED model
       \/ Exit({"model"}) /\ model' = empty
    /\ UNCHANGED <<uart_set, csv_set, next, device>>

(* The weights are copied into the buffers, then the parameters are set. *)
ConfigureDevice ==
    /\ main_pc = "configure"
    /\ device' = model
    /\ \/ main_pc' = "listen" /\ UNCHANGED <<held, model>>
       \/ Exit({"device", "model"}) /\ model' = empty
    /\ UNCHANGED <<uart_set, csv_set, next>>

(* Slip: the device stays open. *)
listenFailed_Slip_Device == {"model"}
listenFailed == {"device", "model"}

Listen ==
    /\ main_pc = "listen"
    /\ \/ main_pc' = "csv" /\ held' = held \cup {"socket"} /\ UNCHANGED model
       \/ Exit(listenFailed) /\ model' = empty
    /\ UNCHANGED <<uart_set, csv_set, next, device>>

(* A measurement file that cannot be opened is done without. *)
OpenCsv ==
    /\ main_pc = "csv"
    /\ main_pc' = "uart"
    /\ held' \in IF csv_set THEN {held, held \cup {"csv"}} ELSE {held}
    /\ UNCHANGED <<uart_set, csv_set, next, model, device>>

(* The server runs without the safety link only if none was asked for. *)
withoutUart == ~uart_set

StartSafety ==
    /\ main_pc = "uart"
    /\ \/ uart_set /\ main_pc' = "serve" /\ held' = held \cup {"safety"} /\ UNCHANGED model
       \/ IF withoutUart
          THEN main_pc' = "serve" /\ UNCHANGED <<held, model>>
          ELSE Exit({"socket", "device", "model"}) /\ model' = empty
    /\ UNCHANGED <<uart_set, csv_set, next, device>>

(* accept() failed: the only way out of the loop. *)
LeaveLoop ==
    /\ main_pc = "serve"
    /\ Exit({"csv", "safety", "socket", "device", "model"})
    /\ model' = empty
    /\ UNCHANGED <<uart_set, csv_set, next, device>>

Ended == main_pc = "exit" /\ UNCHANGED startupVars

StartupNext ==
    \/ ParseArguments
    \/ AllocateModel
    \/ \E size \in {"missing", "short", "long", "right"} : ReadFile(size)
    \/ OpenDevice \/ ConfigureDevice
    \/ Listen \/ OpenCsv \/ StartSafety
    \/ LeaveLoop
    \/ Ended

StartupSpec == StartupInit /\ [][StartupNext]_startupVars

-----------------------------------------------------------------------------
(* A server that was told to guard the robot never serves without the link *)
(* to it: classifying while the robot is not stopped by anyone is the      *)
(* state the comment at ADAS_UART_PORT rules out.                          *)
NeverUnguarded == main_pc = "serve" /\ uart_set => "safety" \in held

(* The accelerator is configured with whole files of one model or not at   *)
(* all, whichever file is missing or of the wrong size.                    *)
WholeModelOnly == device # empty => \A f \in Parts : device[f] = "whole"

(* Whatever step fails, the memory, the device, the port of the server and *)
(* the safety link are given back before main() returns; only the file of  *)
(* the measurement is left to exit() when the UART cannot be opened.       *)
ExitGivesBack ==
    main_pc = "exit" => held \subseteq {"csv"} /\ model = empty

(* main() either reaches its loop with everything it was told to have, or  *)
(* ends with nothing left behind.                                          *)
AllOrNothing == NeverUnguarded /\ WholeModelOnly /\ ExitGivesBack
=============================================================================
