---------------------------- MODULE MCRemoteClear ----------------------------
(* An instance of RemoteClear: the agent and the daemon da on machine a,   *)
(* the command cb on machine b.                                            *)
EXTENDS RemoteClear, TLC

CONSTANTS a, b, da, cb

DaemonAndCommandHost == da :> a @@ cb :> b
=============================================================================
