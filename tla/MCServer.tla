------------------------------ MODULE MCServer ------------------------------
(***************************************************************************)
(* The classifier server of the PS around its loop: main() as it starts    *)
(* and ends, the accelerator it opens, and classify_one on a request.      *)
(* part says which of them runs in a behaviour; the others stay as they    *)
(* start.                                                                  *)
(*                                                                         *)
(* The driver is built with the header of user space or with one that      *)
(* differs from it in one place.  classify_one is asked two questions with *)
(* separate inputs.  The image: two rows of three pixels, so that a wrong  *)
(* stride shows, with values around the ends and the middle of the range   *)
(* and around the points where rounding changes.  The logits: three        *)
(* classes, two features and 5-bit integers, so that ties, negative sums   *)
(* and overflows occur.                                                    *)
(***************************************************************************)
EXTENDS PsStartup, ClassifierDevice, ClassifyOne

CONSTANT Components     \* those that are looked at

(* The eight files of the model. *)
MCFiles == << "w_conv0", "w_conv1", "w_conv2", "b_conv0", "b_conv1", "b_conv2",
              "fc_weight", "fc_bias" >>

MCUserLayout == [abi_version |-> 1, dma_span |-> 1, ifmap |-> 1, weights |-> 1, output |-> 1]

MCLayouts ==
    {MCUserLayout} \cup {[MCUserLayout EXCEPT ![f] = 2] : f \in DOMAIN MCUserLayout}

MCWeights == {-2, 1}
MCOutputs == {-3, 0, 2}

VARIABLE part       \* the part that runs
all == <<part, startupVars, deviceVars, classifyVars>>

(* The inputs that matter to a part, and one value of the others. *)
onlyFor(p, values, idle) == IF part = p THEN values ELSE {idle}

MCInit ==
    /\ part \in Components
    /\ StartupInit /\ (part # "startup" => uart_set /\ csv_set)
    /\ DeviceInit /\ (part # "device" => layout = UserLayout)
    /\ ClassifyInit(onlyFor("image", PixelValues, 0), onlyFor("logits", OutputValues, 0),
                    onlyFor("logits", WeightValues, 1), onlyFor("logits", BiasValues, 0),
                    onlyFor("logits", Divisors, 1))

MCNext ==
    /\ UNCHANGED part
    /\ \/ part = "startup" /\ StartupNext /\ UNCHANGED <<deviceVars, classifyVars>>
       \/ part = "device"  /\ DeviceNext  /\ UNCHANGED <<startupVars, classifyVars>>
       \/ /\ part \in {"image", "logits"} /\ ClassifyNext
          /\ UNCHANGED <<startupVars, deviceVars>>

MCSpec == MCInit /\ [][MCNext]_all
=============================================================================
