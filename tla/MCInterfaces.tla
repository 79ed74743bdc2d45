----------------------------- MODULE MCInterfaces -----------------------------
(* What lies between the group and an application: the C ABI, the bindings,    *)
(* the payload codecs, saved state, capabilities and attachments.  As in       *)
(* MCTraffic a behaviour chooses one part and stays in it.                     *)
EXTENDS FfiCalls, Attachment, Bindings, Capabilities, Codecs, TLC

VARIABLES part, v1, v2, v3, v4

slots == <<v1, v2, v3, v4>>
mcvars == <<part, vars, filevars, eventvars, advertised, codecvars, slots>>

Threads == Permutations(Thread)
AllExports == DOMAIN Exports

-------------------------------------------------------------------------------
\* Two keys, the empty one among them; six values fit a digit of a length
Saved == INSTANCE StateBlob WITH
    Base <- 6, PrefixLen <- 2, Key <- {<<>>, <<1>>},
    Value <- {<<>>, <<1>>, <<0, 1>>}, MaxSteps <- 4,
    storage <- v1, disk <- v2, whole <- v3, steps <- v4

-------------------------------------------------------------------------------
\* The parts that are not chosen stay as they are
NoFiles ==
    /\ payload = [a \in Attachment |-> << >>] /\ size = [a \in Attachment |-> 0]
    /\ received = [a \in Attachment |-> << >>] /\ result = [a \in Attachment |-> {}]
    /\ misfed = 0
NoEvents == EventsInit /\ binding = "c"
NoCodecs == CodecsInit /\ ~ foreign
NoSlots == v1 = 0 /\ v2 = 0 /\ v3 = 0 /\ v4 = 0

MCInit ==
    /\ Init /\ NegotiateInit
    /\ part \in {"calls", "capabilities", "events", "codecs", "files", "state"}
    /\ IF part = "events" THEN EventsInit ELSE NoEvents
    /\ IF part = "codecs" THEN CodecsInit ELSE NoCodecs
    /\ IF part = "files" THEN FilesInit ELSE NoFiles
    /\ IF part = "state" THEN Saved!Init ELSE NoSlots

SameCalls == UNCHANGED <<part, vars>>
SameData == UNCHANGED <<filevars, eventvars, advertised, codecvars>>

CallsNext == part = "calls" /\ Next /\ SameData /\ UNCHANGED <<part, slots>>
FilesStep ==
    /\ part = "files" /\ FilesNext /\ SameCalls
    /\ UNCHANGED <<eventvars, advertised, codecvars, slots>>
EventsStep ==
    /\ part = "events" /\ EventsNext /\ SameCalls
    /\ UNCHANGED <<filevars, advertised, codecvars, slots>>
CapabilitiesStep ==
    /\ part = "capabilities" /\ NegotiateNext /\ SameCalls
    /\ UNCHANGED <<filevars, eventvars, codecvars, slots>>
CodecsStep ==
    /\ part = "codecs" /\ CodecsNext /\ SameCalls
    /\ UNCHANGED <<filevars, eventvars, advertised, slots>>
StateNext == part = "state" /\ Saved!Next /\ SameCalls /\ SameData

MCNext ==
    \/ CallsNext \/ FilesStep \/ EventsStep \/ CapabilitiesStep \/ CodecsStep
    \/ StateNext

MCSpec == MCInit /\ [][MCNext]_mcvars

-------------------------------------------------------------------------------
(* The property of the instance; those of the other modules are checked as they *)
(* stand                                                                       *)

\* restore_state gives back the whole saved store or refuses the blob.
RestoreIsAllOrNothing == part = "state" => Saved!RestoreIsAllOrNothing

===============================================================================
