---------------------------- MODULE FlowProtocol ----------------------------
(***************************************************************************)
(* What the orchestrator promises the client of one session, himmelblaud:  *)
(* one request at a time, and for each request at most one answer: a        *)
(* non-empty set of inputs to ask the user for, completion, or an error.   *)
(* A request may wait for its answer for ever; the client may stop         *)
(* listening, but never reuses the session afterwards.                     *)
(***************************************************************************)
CONSTANT Names          \* names of inputs a definition may ask for

VARIABLES chan,         \* "new", "busy", "asked", "complete", "error", "left"
          need          \* the inputs of the last NextStep response

protocol == <<chan, need>>

ProtocolInit == chan = "new" /\ need = {}

Send ==
    /\ chan \in {"new", "asked"}
    /\ chan' = "busy"
    /\ need' = {}

Ask ==
    /\ chan = "busy"
    /\ chan' = "asked"
    /\ need' \in (SUBSET Names) \ {{}}

Finish ==
    /\ chan = "busy"
    /\ chan' \in {"complete", "error"}
    /\ UNCHANGED need

Leave ==
    /\ chan \in {"busy", "asked"}
    /\ chan' = "left"
    /\ need' = {}

ProtocolNext == Send \/ Ask \/ Finish \/ Leave

Protocol == ProtocolInit /\ [][ProtocolNext]_protocol
=============================================================================
