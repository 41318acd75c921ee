-------------------------- MODULE MCBackgroundJobs --------------------------
(***************************************************************************)
(* Instances of BackgroundJobs for TLC: a job with two attempts that is    *)
(* called once (like invokePresentationFlowCallback with its eighteen), a  *)
(* deduplicated one without the option (initialiseOidcKeys).               *)
(***************************************************************************)
EXTENDS BackgroundJobs, TLC

CONSTANTS c1, c2, callback, oidcKeys

Symmetry == Permutations({c1, c2})

TwoAttempts == [j \in Jobs |-> IF j = callback THEN 2 ELSE 0]
=============================================================================
