---------------------------- MODULE MCServerFork ----------------------------
(***************************************************************************)
(* Small instances of ServerFork: what successive generations are          *)
(* configured to serve.                                                    *)
(***************************************************************************)
EXTENDS ServerFork

SameConfig == {Addresses}
AnyConfig == SUBSET Addresses \ {{}}
=============================================================================
