----------------------------- MODULE MCSessionV1 -----------------------------
(***************************************************************************)
(* Small instances of SessionV1.  Each leaves one source of interleavings  *)
(* out and keeps the others: all of them at once are millions of states.   *)
(***************************************************************************)
EXTENDS SessionV1

AServer(p, i) ==
    [client |-> FALSE, emits |-> 1, pongs |-> p, incoming |-> i, sets |-> 1, sessions |-> 0]

AClient(p, i, s) ==
    [client |-> TRUE, emits |-> 1, pongs |-> p, incoming |-> i, sets |-> s, sessions |-> 2]

SmallInstances ==
    {AServer(1, 0), AServer(0, 1), AClient(1, 0, 0), AClient(0, 1, 0), AClient(0, 0, 1)}
=============================================================================
