-------------------------- MODULE MCTranscriptSync --------------------------
(* Instances of TranscriptSync: machine a is where the agent works, b and  *)
(* c are other workstations; da and db are the daemons of a and b, and on  *)
(* c somebody runs the pull command cc by hand.                            *)
EXTENDS TranscriptSync, TLC

CONSTANTS a, b, c, da, db, cc

DaemonHost == da :> a @@ db :> b
DaemonsAndCommand == DaemonHost @@ cc :> c
=============================================================================
