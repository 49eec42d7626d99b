----------------------------- MODULE MCAimControl -----------------------------
(***************************************************************************)
(* The aim thread and, beside it, the TargetSelector it calls with each    *)
(* frame: AimControl takes the selector's answer as an input, so the two   *)
(* share nothing and are explored from one initial state, each as long as  *)
(* the other has not started to move.                                      *)
(***************************************************************************)
EXTENDS AimControl, TargetSelector

SelectorIdle == tracks = <<>> /\ nextId = 1 /\ held.age = 0
AimIdle == AimInit /\ cfg.triggers = {"one"}

MCInit == AimInit /\ SelectorInit
MCNext == \/ SelectorIdle /\ AimNext /\ UNCHANGED selectorVars
          \/ AimIdle /\ SelectorNext /\ UNCHANGED aimVars
MCSpec == MCInit /\ [][MCNext]_<<aimVars, selectorVars>>
-----------------------------------------------------------------------------
(* A configuration for each trigger, and one that calibrates.              *)
Base == [enabled |-> TRUE, calibrating |-> FALSE, guard |-> TRUE, triggers |-> {}, found |-> FALSE]
MCConfigs ==
  {[Base EXCEPT !.triggers = {"one"}], [Base EXCEPT !.triggers = {"two"}, !.guard = FALSE],
   [Base EXCEPT !.calibrating = TRUE, !.enabled = FALSE, !.found = TRUE]}

(* Five places in reach and one beyond it; frames with up to three boxes   *)
(* that pass, a head beside a body, and a body that the filters reject.    *)
BodyAt(p) == [at |-> p, class |-> "body", fits |-> TRUE]
HeadAt(p) == [at |-> p, class |-> "head", fits |-> TRUE]
FaintAt(p) == [at |-> p, class |-> "body", fits |-> FALSE]

MCPlaces == {-8, 0, 1, 4, 8, 20}
MCInputs ==
  {{}} \cup {{BodyAt(p), BodyAt(q)} : p, q \in MCPlaces}
  \cup {{HeadAt(4), BodyAt(8)}, {HeadAt(0), FaintAt(4)}, {BodyAt(0), BodyAt(4), BodyAt(8)}}
=============================================================================
