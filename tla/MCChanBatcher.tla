---------------------------- MODULE MCChanBatcher ----------------------------
(***************************************************************************)
(* Small instances of ChanBatcher: more items than the queue holds, and    *)
(* batches of at most two.                                                 *)
(***************************************************************************)
EXTENDS ChanBatcher
=============================================================================
