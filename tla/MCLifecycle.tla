---------------------------- MODULE MCLifecycle -----------------------------
(* The instances of CSOLifecycle that TLC checks; the .cfg files set bounds *)
(* and choose whether Quit requests and socket errors occur.                *)
EXTENDS CSOLifecycle
=============================================================================
