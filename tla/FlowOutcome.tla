---------------------------- MODULE FlowOutcome ----------------------------
(***************************************************************************)
(* What a presentation flow promises the application that asked for it: it *)
(* ends once, submitted or cancelled, the end never changes, and the       *)
(* application's callback is invoked with that end and no other.           *)
(***************************************************************************)
VARIABLES
  outcome,   \* "open" until the flow ends
  told       \* the outcomes the callback was invoked with

Init == outcome = "open" /\ told = {}

End ==
  /\ outcome = "open"
  /\ outcome' \in {"submitted", "cancelled"}
  /\ UNCHANGED told

Tell ==
  /\ outcome # "open"
  /\ told' = {outcome}
  /\ UNCHANGED outcome

Next == End \/ Tell

Safe == Init /\ [][Next]_<<outcome, told>>

Spec == Safe /\ WF_<<outcome, told>>(Tell)
=============================================================================
