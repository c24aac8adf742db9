----------------------------- MODULE ServerFork -----------------------------
(***************************************************************************)
(* Restart without a gap (ftlserver/endless.go): on SIGHUP a process forks *)
(* a child, hands it the sockets of all its servers, and ends when the     *)
(* child has taken them over and says so with SIGTERM.                     *)
(*                                                                         *)
(* A process runs one server per address, each with a goroutine that       *)
(* registers it (NewServer), gets its listener and serves, and a goroutine *)
(* that handles signals.  fork, NewServer and the child's getListener take *)
(* runningServerReg; fork keeps it until the child has been started.       *)
(*                                                                         *)
(* Every server has a signal channel of its own, without a buffer: a       *)
(* signal goes to all handlers of the process and is lost on those that    *)
(* are busy.  What a server does between SIGTERM and its end is the        *)
(* subject of EndlessServer; here it only closes its listener.             *)
(*                                                                         *)
(* External: descriptors beyond those passed on are no sockets; a process  *)
(* exits when all its servers have ended; the operator sends SIGHUP to a   *)
(* process whose servers all serve.                                        *)
(***************************************************************************)
EXTENDS Naturals, Sequences, FiniteSets

CONSTANTS
    Addresses,
    MaxProcesses,   \* bound on processes; after that os/exec cannot start one
    Configs,        \* the sets of addresses a generation may be configured with
    NoSocket,       \* nil, or a descriptor that is no socket
    CrashLate       \* whether a child may die once it has taken over a socket

ASSUME ServerForkAssumption ==
    /\ IsFiniteSet(Addresses)
    /\ MaxProcesses \in Nat \ {0}
    /\ Configs \subseteq SUBSET Addresses
    /\ NoSocket \notin Addresses
    /\ CrashLate \in BOOLEAN

Processes == 1..MaxProcesses

VARIABLES
    status,     \* "unborn", "running", "exited", "reaped" or "panicked"
    parent,     \* the process that started each, 0 for the first
    config,     \* the addresses each is configured to serve
    env,        \* ENDLESS_SOCKET_ORDER in each process's environment
    files,      \* the descriptors each was started with, from 3 on
    offset,     \* socketPtrOffsetMap
    forked,     \* runningServersForked
    server,     \* where each server's goroutine is
    listener,   \* the socket of each server, named by the address it is bound to
    handler,    \* where each server's signal handler is
    missed      \* history: <<p, a, b>> when server a of p was busy at the SIGTERM of
                \* server b of its child

family == <<parent, config, env, files>>
servers == <<server, listener>>
vars == <<status, family, offset, forked, servers, handler, missed>>

Registered(p) == {a \in config[p] : server[p][a] # "none"}

\* A handler that has started a child still holds runningServerReg.
Locked(p) == \E a \in Addresses : handler[p][a] = "started"

Set(f, p, a, value) == [f EXCEPT ![p][a] = value]

Each(value) == [p \in Processes |-> value]

Init ==
    /\ status = [Each("unborn") EXCEPT ![1] = "running"]
    /\ parent = Each(0)
    /\ \E c \in Configs : config = [Each({}) EXCEPT ![1] = c]
    /\ env = Each(<<>>)
    /\ files = Each(<<>>)
    /\ offset = Each(<<>>)
    /\ forked = Each(FALSE)
    /\ server = Each([a \in Addresses |-> "none"])
    /\ listener = Each([a \in Addresses |-> NoSocket])
    /\ handler = Each([a \in Addresses |-> "idle"])
    /\ missed = {}

ParentRuns(p) == parent[p] # 0 /\ status[parent[p]] = "running"

ServerGoes(p, a, from, to) ==
    /\ status[p] = "running"
    /\ server[p][a] = from
    /\ server' = Set(server, p, a, to)

HandlerGoes(p, a, from, to) ==
    /\ status[p] = "running"
    /\ handler[p][a] = from
    /\ handler' = Set(handler, p, a, to)

-----------------------------------------------------------------------------
(***************************************************************************)
(* The goroutine of a server.                                              *)
(***************************************************************************)
\* The offsets that ENDLESS_SOCKET_ORDER stands for.
OffsetsOf(order) ==
    [a \in {order[i] : i \in 1..Len(order)} |->
       (CHOOSE i \in 1..Len(order) : order[i] = a) - 1]

\* The map f once f[a] has been assigned.
Put(f, a, value) == [b \in DOMAIN f \cup {a} |-> IF b = a THEN value ELSE f[b]]

\* Mutant: the child numbers its servers as they register.
RegisterInTurn(p, a) ==
    /\ a \in config[p]
    /\ ~Locked(p)
    /\ ServerGoes(p, a, "none", "registered")
    /\ offset' = [offset EXCEPT ![p] = Put(@, a, Cardinality(Registered(p)))]
    /\ UNCHANGED <<status, family, forked, listener, handler, missed>>

\* NewServer.  The goroutines of a process get here in any order.
NewServer(p, a) ==
    /\ a \in config[p]
    /\ ~Locked(p)
    /\ ServerGoes(p, a, "none", "registered")
    /\ offset' = [offset EXCEPT ![p] =
                    IF env[p] # <<>>
                      THEN OffsetsOf(env[p])
                      ELSE Put(@, a, Cardinality(Registered(p)))]
    /\ UNCHANGED <<status, family, forked, listener, handler, missed>>

\* What is found at the descriptor of address a.
Inherited(p, a) ==
    IF a \in DOMAIN offset[p] /\ offset[p][a] < Len(files[p])
      THEN files[p][offset[p][a] + 1]
      ELSE NoSocket

\* handleSignals is started just before; a signal in between finds nothing to stop.
GetListener(p, a) ==
    LET socket == IF parent[p] = 0 THEN a ELSE Inherited(p, a)
    IN /\ parent[p] # 0 => ~Locked(p)
       /\ ServerGoes(p, a, "registered", IF socket = NoSocket THEN "failed" ELSE "bound")
       /\ listener' = Set(listener, p, a, socket)
       /\ UNCHANGED <<status, family, offset, forked, handler, missed>>

\* The handlers of process p that wait for a signal take it.
Signal(p, label) ==
    handler' = [handler EXCEPT ![p] =
                  [a \in Addresses |->
                     IF a \in config[p] /\ @[a] = "idle" THEN label ELSE @[a]]]

\* Nobody looks at the state between the signal and Serve, which sets it to running.
\* The SIGTERM goes to init when the parent is gone.
KillParent(p, a) ==
    LET pp == parent[p]
    IN /\ pp # 0
       /\ ServerGoes(p, a, "bound", "serving")
       /\ IF ParentRuns(p)
            THEN /\ Signal(pp, "shutdown")
                 /\ missed' = missed \cup
                      {<<pp, b, a>> : b \in {b \in config[pp] : handler[pp][b] # "idle"}}
            ELSE UNCHANGED <<handler, missed>>
       /\ UNCHANGED <<status, family, offset, forked, listener>>

Serve(p, a) ==
    /\ parent[p] = 0
    /\ ServerGoes(p, a, "bound", "serving")
    /\ UNCHANGED <<status, family, offset, forked, listener, handler, missed>>

ServerStep(p, a) ==
    NewServer(p, a) \/ GetListener(p, a) \/ KillParent(p, a) \/ Serve(p, a)

-----------------------------------------------------------------------------
(***************************************************************************)
(* The handler of a server.                                                *)
(***************************************************************************)
Hangup(p) ==
    /\ status[p] = "running"
    /\ \A a \in config[p] : server[p][a] = "serving"
    /\ Signal(p, "fork")
    /\ UNCHANGED <<status, family, offset, forked, servers, missed>>

\* The offset fork uses for server a: zero if the map has none.
OffsetOf(p, a) == IF a \in DOMAIN offset[p] THEN offset[p][a] ELSE 0

\* fork fills tables as long as there are servers, at the servers' offsets, and
\* wants the listener of each.
ForkPanics(p) ==
    \E a \in Registered(p) :
        \/ OffsetOf(p, a) >= Cardinality(Registered(p))
        \/ server[p][a] \in {"registered", "failed"}

\* What the tables hold at index i: dup of a listener that is closed yields nil.
ServerAt(p, i) == {a \in Registered(p) : OffsetOf(p, a) = i - 1}

FileAt(p, i) ==
    LET open == {a \in ServerAt(p, i) : server[p][a] # "stopping"}
    IN IF open = {} THEN NoSocket ELSE listener[p][CHOOSE a \in open : TRUE]

Descriptors(p) == [i \in 1..Cardinality(Registered(p)) |-> FileAt(p, i)]

OrderArgs(p) ==
    [i \in 1..Cardinality(Registered(p)) |-> CHOOSE a \in ServerAt(p, i) : TRUE]

\* The child inherits the environment; a single server has no order to tell.
ChildEnv(p) == IF Cardinality(Registered(p)) > 1 THEN OrderArgs(p) ELSE env[p]

Start(p, q, c) ==
    /\ status' = [status EXCEPT ![q] = "running"]
    /\ parent' = [parent EXCEPT ![q] = p]
    /\ config' = [config EXCEPT ![q] = c]
    /\ env' = [env EXCEPT ![q] = ChildEnv(p)]
    /\ files' = [files EXCEPT ![q] = Descriptors(p)]

StartChild(p, a) ==
    /\ ~Locked(p)
    /\ ~forked[p]
    /\ HandlerGoes(p, a, "fork", "started")
    /\ forked' = [forked EXCEPT ![p] = TRUE]
    /\ \E q \in Processes, c \in Configs :
          /\ status[q] = "unborn" /\ \A r \in 1..(q - 1) : status[r] # "unborn"
          /\ IF ForkPanics(p)
               THEN status' = [status EXCEPT ![p] = "panicked"] /\ UNCHANGED family
               ELSE Start(p, q, c)
    /\ UNCHANGED <<offset, servers, missed>>

\* fork returns an error: a child runs already, or it could not be started.
ForkFails(p, a) ==
    /\ ~Locked(p)
    /\ forked[p] \/ ~ForkPanics(p)
    /\ HandlerGoes(p, a, "fork", "idle")
    /\ UNCHANGED <<status, family, offset, forked, servers, missed>>

\* Mutant: the parent stops when it has started the child.
ForkThenStop(p, a) ==
    /\ HandlerGoes(p, a, "started", "shutdown")
    /\ UNCHANGED <<status, family, offset, forked, servers, missed>>

ForkReturns(p, a) ==
    /\ HandlerGoes(p, a, "started", "idle")
    /\ UNCHANGED <<status, family, offset, forked, servers, missed>>

\* Mutant: the listener is left open.
ShutdownLeavingListener(p, a) ==
    /\ HandlerGoes(p, a, "shutdown", "idle")
    /\ UNCHANGED <<status, family, offset, forked, servers, missed>>

\* shutdown closes the listener of a server that runs.
Shutdown(p, a) ==
    /\ HandlerGoes(p, a, "shutdown", "idle")
    /\ server' = Set(server, p, a, IF server[p][a] = "serving" THEN "stopping" ELSE server[p][a])
    /\ UNCHANGED <<status, family, offset, forked, listener, missed>>

Fork(p, a) == StartChild(p, a) \/ ForkFails(p, a) \/ ForkReturns(p, a)

-----------------------------------------------------------------------------
(***************************************************************************)
(* Processes.                                                              *)
(***************************************************************************)
Exits(p) ==
    /\ status[p] = "running"
    /\ \A a \in config[p] : server[p][a] \in {"stopping", "failed"}
    /\ status' = [status EXCEPT ![p] = "exited"]
    /\ UNCHANGED <<family, offset, forked, servers, handler, missed>>

\* A child that fails, say because its new binary is broken.
Dies(p) ==
    /\ status[p] = "running"
    /\ parent[p] # 0
    /\ CrashLate \/ \A a \in Addresses : server[p][a] \in {"none", "registered"}
    /\ status' = [status EXCEPT ![p] = "exited"]
    /\ UNCHANGED <<family, offset, forked, servers, handler, missed>>

\* Mutant: fork starts the child and does not wait for it.
ReapAtOnce(p) ==
    /\ status[p] \in {"running", "exited"}
    /\ ParentRuns(p)
    /\ status' = [status EXCEPT ![p] = IF @ = "exited" THEN "reaped" ELSE @]
    /\ forked' = [forked EXCEPT ![parent[p]] = FALSE]
    /\ UNCHANGED <<family, offset, servers, handler, missed>>

\* cmd.Wait returns in a goroutine of the parent, which does not take the lock.
Reap(p) ==
    /\ status[p] \in {"exited", "panicked"}
    /\ ParentRuns(p)
    /\ status' = [status EXCEPT ![p] = "reaped"]
    /\ forked' = [forked EXCEPT ![parent[p]] = FALSE]
    /\ UNCHANGED <<family, offset, servers, handler, missed>>

Next ==
    \E p \in Processes :
        \/ Hangup(p)
        \/ Exits(p)
        \/ Dies(p)
        \/ Reap(p)
        \/ \E a \in Addresses : ServerStep(p, a) \/ Fork(p, a) \/ Shutdown(p, a)

(***************************************************************************)
(* Servers and handlers go on and processes whose servers have ended exit: *)
(* as long as one can, one does.  Nobody need send SIGHUP, no fork need    *)
(* return and no child fail.                                               *)
(***************************************************************************)
Work ==
    \E p \in Processes :
        Exits(p) \/ \E a \in Addresses : ServerStep(p, a) \/ Shutdown(p, a)

Spec == Init /\ [][Next]_vars /\ WF_vars(Work)

-----------------------------------------------------------------------------
(* Whoever serves an address does it on the socket bound to that address, however the
   servers of successive generations were registered. *)
InheritsOwnSocket ==
    \A p \in Processes, a \in Addresses : listener[p][a] \in {a, NoSocket}

\* Process p serves address a, or is about to.
Holds(p, a) ==
    /\ status[p] = "running"
    /\ \/ server[p][a] \in {"bound", "serving"}
       \/ server[p][a] \in {"none", "registered"} /\ \E i \in 1..Len(files[p]) : files[p][i] = a

(* An address that has been served is served from then on, or will be by a process that
   has its socket, although the first SIGTERM of a child stops all servers of its
   parent and a child may fail before it has taken over a socket. *)
NoGap ==
    \A a \in Addresses :
        (\E p \in Processes : server[p][a] \in {"serving", "stopping"})
          => \E p \in Processes : Holds(p, a)

(* A process has one child at a time (the comment in fork: only one server instance
   should fork), although all its handlers receive the SIGHUP and the flag is lowered
   without the lock. *)
OneChild ==
    \A q, r \in Processes :
        /\ status[q] = "running" /\ status[r] = "running"
        /\ parent[q] = parent[r] /\ ParentRuns(q)
        => q = r

\* Server a of p was busy at each SIGTERM of its child q.
MissedAll(p, q, a) == \A b \in config[q] : <<p, a, b>> \in missed

(* When a child has taken over every socket its parent exits, unless a handler was busy,
   in fork or in shutdown, each time the child sent it SIGTERM. *)
RestartCompletes ==
    \A q \in Processes :
        []<>(ParentRuns(q) /\ (\A a \in config[q] : server[q][a] \in {"serving", "stopping"}) =>
               \E a \in config[parent[q]] : MissedAll(parent[q], q, a))
=============================================================================
