------------------------------ MODULE CertCache ------------------------------
(***************************************************************************)
(* The certificate cache of ftlserver (ftlserver/util/utils.go):           *)
(* GenerateCertificate, called by every TLS handshake, and the sweep of    *)
(* ClearExpiredCertificates.                                               *)
(*                                                                         *)
(* The store is a concurrent map: Get, Set and Delete are single steps,    *)
(* and nothing holds it between them.  A certificate is known here by the  *)
(* moment it expires at, a key by the host name and IPs it was made for.   *)
(* Time is a number; it passes between any two steps.                      *)
(***************************************************************************)
EXTENDS Naturals

CONSTANTS
    Callers,    \* handshakes in progress
    Keys,
    NoCert,
    Validity,   \* lifetime of a new certificate (398 days less 5 minutes)
    Margin,     \* a certificate is renewed this long before it expires (30 minutes)
    CAEnds,     \* NotAfter of the CA certificate
    MaxTime,    \* bound on the time
    MaySweep    \* whether ClearExpiredCertificates is called

ASSUME CertAssumption ==
    /\ {Validity, Margin, CAEnds, MaxTime} \subseteq Nat
    /\ Margin < Validity
    /\ NoCert \notin Nat
    /\ MaySweep \in BOOLEAN

VARIABLES
    now,
    cache,      \* expiry of the certificate stored for each key
    pc,         \* where each caller is
    key,        \* the key it looks for
    started,    \* when its call began
    made,       \* expiry of the certificate it has generated
    served,     \* expiry of the certificate its last call returned
    sweeping,   \* whether a sweep is going on
    sweepTime,  \* the time it began
    todo,       \* keys its Range has yet to visit
    found       \* keys it is about to delete

call == <<key, started, made>>
sweep == <<sweeping, sweepTime, todo, found>>
certVars == <<now, cache, pc, call, served, sweep>>

CertInit ==
    /\ now = 0
    /\ cache = [k \in Keys |-> NoCert]
    /\ pc = [p \in Callers |-> "idle"]
    /\ key \in [Callers -> Keys]
    /\ started = [p \in Callers |-> 0]
    /\ made = [p \in Callers |-> 0]
    /\ served = [p \in Callers |-> NoCert]
    /\ sweeping = FALSE
    /\ sweepTime = 0
    /\ todo = {}
    /\ found = {}

At(p, from, to) ==
    /\ pc[p] = from
    /\ pc' = [pc EXCEPT ![p] = to]

-----------------------------------------------------------------------------
(***************************************************************************)
(* GenerateCertificate.                                                    *)
(***************************************************************************)
\* Mutant: a certificate is returned until the very end.
FreshUntilEnd(k) == cache[k] # NoCert /\ now < cache[k]

Fresh(k) == cache[k] # NoCert /\ now + Margin < cache[k]

Hit(p, k) ==
    /\ At(p, "idle", "idle")
    /\ Fresh(k)
    /\ key' = [key EXCEPT ![p] = k]
    /\ started' = [started EXCEPT ![p] = now]
    /\ served' = [served EXCEPT ![p] = cache[k]]
    /\ UNCHANGED <<now, cache, made, sweep>>

Miss(p, k) ==
    /\ At(p, "idle", IF cache[k] = NoCert THEN "generate" ELSE "delete")
    /\ ~Fresh(k)
    /\ key' = [key EXCEPT ![p] = k]
    /\ started' = [started EXCEPT ![p] = now]
    /\ served' = [served EXCEPT ![p] = NoCert]
    /\ UNCHANGED <<now, cache, made, sweep>>

DeleteStale(p) ==
    /\ At(p, "delete", "generate")
    /\ cache' = [cache EXCEPT ![key[p]] = NoCert]
    /\ UNCHANGED <<now, call, served, sweep>>

NotAfter == IF CAEnds < now + Validity THEN CAEnds ELSE now + Validity

Generate(p) ==
    /\ At(p, "generate", "store")
    /\ made' = [made EXCEPT ![p] = NotAfter]
    /\ UNCHANGED <<now, cache, key, started, served, sweep>>

\* A CA key of an unsupported type, or no randomness: the call returns an error.
GenerateFails(p) ==
    /\ At(p, "generate", "idle")
    /\ UNCHANGED <<now, cache, call, served, sweep>>

Store(p) ==
    /\ At(p, "store", "idle")
    /\ cache' = [cache EXCEPT ![key[p]] = made[p]]
    /\ served' = [served EXCEPT ![p] = made[p]]
    /\ UNCHANGED <<now, call, sweep>>

-----------------------------------------------------------------------------
(***************************************************************************)
(* ClearExpiredCertificates.                                               *)
(***************************************************************************)
BeginSweep ==
    /\ MaySweep
    /\ ~sweeping
    /\ sweeping' = TRUE
    /\ sweepTime' = now
    /\ todo' = Keys
    /\ UNCHANGED <<now, cache, pc, call, served, found>>

SweepVisits(k) ==
    /\ k \in todo
    /\ found = {}
    /\ todo' = todo \ {k}
    /\ found' = IF cache[k] # NoCert /\ sweepTime > cache[k] THEN {k} ELSE {}
    /\ UNCHANGED <<now, cache, pc, call, served, sweeping, sweepTime>>

SweepDeletes(k) ==
    /\ k \in found
    /\ cache' = [cache EXCEPT ![k] = NoCert]
    /\ found' = {}
    /\ UNCHANGED <<now, pc, call, served, sweeping, sweepTime, todo>>

EndSweep ==
    /\ sweeping
    /\ todo = {}
    /\ found = {}
    /\ sweeping' = FALSE
    /\ UNCHANGED <<now, cache, pc, call, served, sweepTime, todo, found>>

Tick ==
    /\ now < MaxTime
    /\ now' = now + 1
    /\ UNCHANGED <<cache, pc, call, served, sweep>>

CertNext ==
    \/ \E p \in Callers :
         \/ \E k \in Keys : Hit(p, k) \/ Miss(p, k)
         \/ DeleteStale(p)
         \/ Generate(p)
         \/ GenerateFails(p)
         \/ Store(p)
    \/ BeginSweep
    \/ \E k \in Keys : SweepVisits(k) \/ SweepDeletes(k)
    \/ EndSweep
    \/ Tick

CertSpec == CertInit /\ [][CertNext]_certVars

-----------------------------------------------------------------------------
(* The values the variables range over: no certificate outlives the CA's. *)
TypeOK ==
    /\ now \in Nat
    /\ cache \in [Keys -> 0..CAEnds \cup {NoCert}]
    /\ pc \in [Callers -> {"idle", "delete", "generate", "store"}]
    /\ key \in [Callers -> Keys]
    /\ started \in [Callers -> Nat]
    /\ made \in [Callers -> 0..CAEnds]
    /\ served \in [Callers -> 0..CAEnds \cup {NoCert}]
    /\ sweeping \in BOOLEAN
    /\ sweepTime \in Nat
    /\ todo \subseteq Keys
    /\ found \subseteq Keys

(* Whatever others store and delete meanwhile, and however long the call takes, the
   certificate a call returns lasts for more than the margin beyond the moment the
   call began, unless the CA ends first. *)
UsableWhenServed ==
    \A p \in Callers :
        served[p] # NoCert => served[p] > started[p] + Margin \/ served[p] = CAEnds
=============================================================================
