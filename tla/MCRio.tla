------------------------------- MODULE MCRio -------------------------------
(* The instance of Rio that TLC checks: newlines and two other bytes.      *)
EXTENDS Rio

CONSTANTS x, y

MCByte == {Newline, x, y}
=============================================================================
