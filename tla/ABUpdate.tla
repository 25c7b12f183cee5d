----------------------------- MODULE ABUpdate -----------------------------
(***************************************************************************)
(* What an A/B update promises: a package is tried only while the one it    *)
(* replaces is kept whole as the fallback, and the trial ends with the new  *)
(* package confirmed or with the fallback running again.  Nothing is tried  *)
(* on top of a trial.                                                       *)
(***************************************************************************)
CONSTANTS Packages, None

VARIABLES
  running,    \* the package in the active slot
  fallback    \* the package to return to while the running one is on trial

Init == running \in Packages /\ fallback = None

Try(p) ==
  /\ fallback = None
  /\ running' = p
  /\ fallback' = running

Confirm ==
  /\ fallback # None
  /\ fallback' = None
  /\ UNCHANGED running

Revert ==
  /\ fallback # None
  /\ running' = fallback
  /\ fallback' = None

Next == (\E p \in Packages : Try(p)) \/ Confirm \/ Revert

Spec == Init /\ [][Next]_<<running, fallback>>
=============================================================================
