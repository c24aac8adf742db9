---------------------------- MODULE MCSessionPool ----------------------------
(***************************************************************************)
(* A small instance of SessionPool: two facades with UUIDs of their own,   *)
(* and two transports each.  One is named before it connects and waits for *)
(* OnDisconnected; the other may be renamed at any moment, to the first    *)
(* one's name too, and reconnects at any moment.                           *)
(***************************************************************************)
EXTENDS SessionPool, TLC

CONSTANTS f1, f2, s1, s2, t1, t2, r1, r2, a

TwoFacades == {f1, f2}
FourTransports == {s1, s2, t1, t2}
MCOf == s1 :> f1 @@ s2 :> f1 @@ t1 :> f2 @@ t2 :> f2
MCIds == {r1, r2, a}
MCInitialId == f1 :> r1 @@ f2 :> r2
MCWanted == f1 :> {a} @@ f2 :> {a}

\* The transports of one facade are alike.
Alike ==
    {p @@ q : p \in Permutations({s1, s2}), q \in Permutations({t1, t2})}
=============================================================================
