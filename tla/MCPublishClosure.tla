--------------------------- MODULE MCPublishClosure ---------------------------
(* Three invocations: one to crash, one to publish over the leftovers, one  *)
(* to meet the stale backups that remain.                                   *)
EXTENDS PublishClosure
=============================================================================
