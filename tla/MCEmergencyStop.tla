--------------------------- MODULE MCEmergencyStop ---------------------------
(* Small instances of EmergencyStop: two operators, one of whom may be loaded *)
(* while the other's controller is being stopped or released.                 *)
EXTENDS EmergencyStop

CONSTANTS a, b
=============================================================================
