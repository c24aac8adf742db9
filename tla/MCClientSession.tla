--------------------------- MODULE MCClientSession ---------------------------
(***************************************************************************)
(* Small instances of ClientSession: a facade that connects and reconnects *)
(* a few times, in and out of the documented order.                        *)
(***************************************************************************)
EXTENDS ClientSession

NoLiberties == {}
ReconnectLive == {"reconnect live"}
AllLiberties == {"connect again", "reconnect live", "reconnect first"}
=============================================================================
