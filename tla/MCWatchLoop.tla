----------------------------- MODULE MCWatchLoop -----------------------------
(* An instance of WatchLoop: the conversation's directory and, below it,   *)
(* the one of the logs; an artifact in the first, the transcript in the    *)
(* second.                                                                 *)
EXTENDS WatchLoop, TLC

CONSTANTS conversation, logs, artifact, transcript

Tree == conversation :> Root @@ logs :> conversation
Places == artifact :> conversation @@ transcript :> logs
=============================================================================
