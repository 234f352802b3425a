----------------------------- MODULE MCFeedback -----------------------------
(* The instance of CSOFeedback that TLC checks: the two default addresses, *)
(* a third peer, and one signal hook (they are all called alike).          *)
EXTENDS CSOFeedback

MCHosts == {"localhost:9000", "localhost:9001", "tablet"}
MCSurfaceHost == "localhost:9000"
MCPrintHost == "localhost:9001"
MCSignalHooks == {"cso_timer1"}
=============================================================================
