---------------------------- MODULE MCEventQueue ----------------------------
(***************************************************************************)
(* Small instances of EventQueue: two drainer identities (one more than    *)
(* the code should ever need), a message, a disconnect and a connect.      *)
(***************************************************************************)
EXTENDS EventQueue

MCKinds == {"connect", "message", "disconnect"}
=============================================================================
