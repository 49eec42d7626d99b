--------------------------- MODULE AtomicRegister ---------------------------
(***************************************************************************)
(* What LicenseStore promises of one of its files: it holds the last       *)
(* document put, whole; a put becomes stable some time later; power loss   *)
(* goes back to the last stable document, never to anything else.          *)
(***************************************************************************)
CONSTANTS Docs, NoDoc

VARIABLES value,    \* what a reader sees
          stable    \* what survives power loss

vars == <<value, stable>>

Init == value \in Docs \cup {NoDoc} /\ stable = value

Put == /\ value' \in Docs
       /\ UNCHANGED stable

Settle == stable' = value /\ UNCHANGED value

PowerLoss == value' = stable /\ UNCHANGED stable

Next == Put \/ Settle \/ PowerLoss

Spec == Init /\ [][Next]_vars
=============================================================================
