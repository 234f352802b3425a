---------------------------- MODULE MCTransport ----------------------------
(* The instances of Transport that TLC checks: the shuttle buttons with     *)
(* everything that may interfere, and the lights with buttons and tabs.     *)
EXTENDS Transport

MCLightButtons == {"fast_forward", "loop", "tab1", "tab2"}
MCShuttleButtons == {"fast_rewind", "fast_forward", "roll", "goto_start", "marker", "goto_end", "encoder", "mode"}
=============================================================================
