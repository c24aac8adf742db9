--------------------------- MODULE FtlserverProofs ---------------------------
(***************************************************************************)
(* Proofs of ftlserver: restarts (ServerFork), for any number of processes *)
(* and addresses, and the certificate cache (CertCache), for any number of *)
(* handshakes, keys and moments.  The two share no variable.               *)
(*                                                                         *)
(* One child at a time needs nothing but the order of births: the flag of  *)
(* a process is up as long as it has a child it has not waited for.        *)
(*                                                                         *)
(* That each server gets the socket of its own address rests on the tables *)
(* of fork and NewServer describing one numbering, of the first generation *)
(* made by the servers' turns, and later read from the environment.  It    *)
(* holds when all generations are configured alike.                        *)
(*                                                                         *)
(* That no address is lost rests on a child that has taken over one socket *)
(* living until its own servers are stopped, which takes another child.    *)
(***************************************************************************)
EXTENDS ServerFork, CertCache, TLAPS, FiniteSetTheorems

-----------------------------------------------------------------------------
(***************************************************************************)
(* One child at a time.                                                    *)
(***************************************************************************)
\* Process q has a parent that runs and has not waited for it yet.
Unwaited(st, par, q) ==
    par[q] # 0 /\ st[par[q]] = "running" /\ st[q] \in {"running", "exited", "panicked"}

\* Processes are born in the order of their numbers, each from an earlier one.
Family(st, par) ==
    /\ st \in [Processes -> {"unborn", "running", "exited", "reaped", "panicked"}]
    /\ par \in [Processes -> 0..MaxProcesses]
    /\ \A q \in Processes :
          /\ par[q] < q
          /\ st[q] = "unborn" =>
                par[q] = 0 /\ \A r \in Processes : q <= r => st[r] = "unborn"

\* While a child is not waited for the flag is up, and there is only one.
ForkedOnce(st, par, fk) ==
    /\ fk \in [Processes -> BOOLEAN]
    /\ \A q \in Processes : Unwaited(st, par, q) => fk[par[q]]
    /\ \A q, r \in Processes :
          Unwaited(st, par, q) /\ Unwaited(st, par, r) /\ par[q] = par[r] => q = r

FamilyInv == Family(status, parent) /\ ForkedOnce(status, parent, forked)

\* The first process that is unborn is born to one that runs.
LEMMA Birth ==
    ASSUME NEW st, NEW par, NEW p \in Processes, NEW q \in Processes,
           Family(st, par), st[p] = "running", st[q] = "unborn",
           \A r \in 1..(q - 1) : st[r] # "unborn"
    PROVE  /\ Family([st EXCEPT ![q] = "running"], [par EXCEPT ![q] = p])
           /\ p < q /\ \A r \in Processes : par[r] # q
<1>1. p < q /\ p # 0
    BY ServerForkAssumption DEF Family, Processes
<1>2. \A r \in Processes : par[r] # q
    BY ServerForkAssumption DEF Family, Processes
<1> DEFINE st2 == [st EXCEPT ![q] = "running"]
           par2 == [par EXCEPT ![q] = p]
<1>3. /\ st2 \in [Processes -> {"unborn", "running", "exited", "reaped", "panicked"}]
      /\ par2 \in [Processes -> 0..MaxProcesses]
      /\ st2[q] = "running" /\ par2[q] = p
      /\ \A r \in Processes : r # q => st2[r] = st[r] /\ par2[r] = par[r]
    BY ServerForkAssumption DEF Family, Processes
<1> HIDE DEF st2, par2
<1>4. ASSUME NEW r \in Processes PROVE par2[r] < r
    BY <1>1, <1>3 DEF Family
<1>5. ASSUME NEW r \in Processes, st2[r] = "unborn"
      PROVE  par2[r] = 0 /\ \A s \in Processes : r <= s => st2[s] = "unborn"
    <2>1. r # q /\ st[r] = "unborn"
        BY <1>3, <1>5
    <2>2. q < r
        BY <2>1, ServerForkAssumption DEF Processes
    <2> QED
        BY <1>3, <2>1, <2>2, ServerForkAssumption DEF Family, Processes
<1>6. Family(st2, par2)
    BY <1>3, <1>4, <1>5 DEF Family
<1> QED
    BY <1>1, <1>2, <1>6 DEF st2, par2

\* The child of a process whose flag was down is the only one it has not waited for.
LEMMA BirthForkedOnce ==
    ASSUME NEW st, NEW par, NEW fk, NEW p \in Processes, NEW q \in Processes,
           Family(st, par), ForkedOnce(st, par, fk), st[p] = "running", ~fk[p],
           st[q] = "unborn", \A r \in Processes : par[r] # q
    PROVE  ForkedOnce([st EXCEPT ![q] = "running"], [par EXCEPT ![q] = p],
                      [fk EXCEPT ![p] = TRUE])
<1> DEFINE st2 == [st EXCEPT ![q] = "running"]
           par2 == [par EXCEPT ![q] = p]
           fk2 == [fk EXCEPT ![p] = TRUE]
<1>1. /\ fk2 \in [Processes -> BOOLEAN]
      /\ par2[q] = p /\ fk2[p]
      /\ \A r \in Processes : r # q => st2[r] = st[r] /\ par2[r] = par[r]
      /\ \A r \in Processes : fk[r] => fk2[r]
      /\ \A r \in Processes : par[r] # 0 => par[r] \in Processes
    BY ServerForkAssumption DEF Family, ForkedOnce, Processes
<1>2. \A r \in Processes : Unwaited(st, par, r) => par[r] # p /\ fk[par[r]]
    BY DEF ForkedOnce, Unwaited
<1> HIDE DEF st2, par2, fk2
<1>3. \A r \in Processes : r # q /\ Unwaited(st2, par2, r) => Unwaited(st, par, r)
    BY <1>1 DEF Unwaited
<1>4. \A r \in Processes : Unwaited(st2, par2, r) => fk2[par2[r]]
    BY <1>1, <1>2, <1>3 DEF Unwaited
<1>5. ASSUME NEW r \in Processes, NEW s \in Processes, Unwaited(st2, par2, r),
             Unwaited(st2, par2, s), par2[r] = par2[s]
      PROVE  r = s
    BY <1>1, <1>2, <1>3, <1>5 DEF ForkedOnce
<1>6. ForkedOnce(st2, par2, fk2)
    BY <1>1, <1>4, <1>5 DEF ForkedOnce
<1> QED
    BY <1>6 DEF st2, par2, fk2

\* A process that runs panics, with its flag up, or exits.
LEMMA DeathInFamily ==
    ASSUME NEW st, NEW par, NEW fk, NEW fk2, NEW p \in Processes,
           NEW end \in {"exited", "panicked"},
           Family(st, par), ForkedOnce(st, par, fk), st[p] = "running",
           fk2 \in {fk, [fk EXCEPT ![p] = TRUE]}
    PROVE  /\ Family([st EXCEPT ![p] = end], par)
           /\ ForkedOnce([st EXCEPT ![p] = end], par, fk2)
<1> DEFINE st2 == [st EXCEPT ![p] = end]
<1>1. /\ st2 \in [Processes -> {"unborn", "running", "exited", "reaped", "panicked"}]
      /\ st2[p] = end /\ \A r \in Processes : r # p => st2[r] = st[r]
    BY DEF Family
<1>2. /\ fk2 \in [Processes -> BOOLEAN]
      /\ \A r \in Processes : fk[r] => fk2[r]
    BY DEF ForkedOnce
<1>3. \A r \in Processes : par[r] # 0 => par[r] \in Processes
    BY ServerForkAssumption DEF Family, Processes
<1> HIDE DEF st2
<1>4. Family(st2, par)
    BY <1>1 DEF Family
<1>5. \A r \in Processes : Unwaited(st2, par, r) => Unwaited(st, par, r)
    BY <1>1, <1>3 DEF Unwaited
<1>6. ForkedOnce(st2, par, fk2)
    BY <1>2, <1>3, <1>5 DEF ForkedOnce, Unwaited
<1> QED
    BY <1>4, <1>6 DEF st2

\* A parent that runs waits for its child and lowers the flag.
LEMMA WaitInFamily ==
    ASSUME NEW st, NEW par, NEW fk, NEW q \in Processes, Family(st, par),
           ForkedOnce(st, par, fk), Unwaited(st, par, q), st[q] # "running"
    PROVE  /\ Family([st EXCEPT ![q] = "reaped"], par)
           /\ ForkedOnce([st EXCEPT ![q] = "reaped"], par, [fk EXCEPT ![par[q]] = FALSE])
<1> DEFINE st2 == [st EXCEPT ![q] = "reaped"]
           fk2 == [fk EXCEPT ![par[q]] = FALSE]
<1>1. /\ st2 \in [Processes -> {"unborn", "running", "exited", "reaped", "panicked"}]
      /\ st2[q] = "reaped" /\ \A r \in Processes : r # q => st2[r] = st[r]
    BY DEF Family
<1>2. \A r \in Processes : par[r] # 0 => par[r] \in Processes
    BY ServerForkAssumption DEF Family, Processes
<1>3. /\ fk2 \in [Processes -> BOOLEAN]
      /\ \A r \in Processes : r # par[q] => fk2[r] = fk[r]
    BY DEF ForkedOnce
<1> HIDE DEF st2, fk2
<1>4. Family(st2, par)
    BY <1>1 DEF Family, Unwaited
<1>5. \A r \in Processes :
        Unwaited(st2, par, r) => Unwaited(st, par, r) /\ r # q
    BY <1>1, <1>2 DEF Unwaited
<1>6. \A r \in Processes : Unwaited(st2, par, r) => par[r] # par[q]
    BY <1>5 DEF ForkedOnce
<1>7. ForkedOnce(st2, par, fk2)
    BY <1>2, <1>3, <1>5, <1>6 DEF ForkedOnce, Unwaited
<1> QED
    BY <1>4, <1>7 DEF st2, fk2

\* The steps that leave the processes and the flags alone.
Quiet == UNCHANGED <<status, family, forked>>

\* What fork does to processes: it panics or a child is born.
LEMMA StartsChild ==
    ASSUME NEW p \in Processes, NEW a \in Addresses, StartChild(p, a)
    PROVE  /\ status[p] = "running" /\ ~forked[p] /\ forked' = [forked EXCEPT ![p] = TRUE]
           /\ \/ status' = [status EXCEPT ![p] = "panicked"] /\ UNCHANGED family
              \/ \E q \in Processes, c \in Configs :
                    /\ status[q] = "unborn" /\ \A r \in 1..(q - 1) : status[r] # "unborn"
                    /\ ~ForkPanics(p)
                    /\ Start(p, q, c)
BY DEF StartChild, HandlerGoes

\* The other steps of handlers and servers do nothing to them.
LEMMA QuietSteps ==
    ASSUME NEW p \in Processes, NEW a \in Addresses,
           \/ Hangup(p) \/ ServerStep(p, a) \/ ForkFails(p, a) \/ ForkReturns(p, a)
           \/ Shutdown(p, a) \/ UNCHANGED vars
    PROVE  Quiet
<1>1. ServerStep(p, a) => Quiet
    BY DEF Quiet, ServerStep, NewServer, GetListener, KillParent, Serve
<1> QED
    BY <1>1 DEF Quiet, Hangup, ForkFails, ForkReturns, Shutdown, vars

\* At first there is one process and no child.
LEMMA FamilyInit == Init => FamilyInv
<1> SUFFICES ASSUME Init PROVE FamilyInv
    OBVIOUS
<1>1. Family(status, parent)
    BY ServerForkAssumption DEF Init, Family, Each, Processes
<1>2. ForkedOnce(status, parent, forked)
    BY DEF Init, ForkedOnce, Unwaited, Each
<1> QED
    BY <1>1, <1>2 DEF FamilyInv

\* Every step keeps the family in order.
LEMMA FamilyStep == FamilyInv /\ [Next]_vars => FamilyInv'
<1> SUFFICES ASSUME FamilyInv, [Next]_vars PROVE FamilyInv'
    OBVIOUS
<1>1. ASSUME Quiet PROVE FamilyInv'
    BY <1>1 DEF FamilyInv, Quiet, family
<1>2. ASSUME NEW p \in Processes, NEW a \in Addresses, StartChild(p, a) PROVE FamilyInv'
    <2>1. CASE status' = [status EXCEPT ![p] = "panicked"] /\ UNCHANGED family
        BY <1>2, <2>1, StartsChild, DeathInFamily DEF FamilyInv, family
    <2>2. ASSUME NEW q \in Processes, NEW c \in Configs, status[q] = "unborn",
                 \A r \in 1..(q - 1) : status[r] # "unborn", Start(p, q, c)
          PROVE  FamilyInv'
        <3>1. /\ status' = [status EXCEPT ![q] = "running"]
              /\ parent' = [parent EXCEPT ![q] = p]
              /\ status[p] = "running" /\ ~forked[p] /\ forked' = [forked EXCEPT ![p] = TRUE]
            BY <1>2, <2>2, StartsChild DEF Start
        <3>2. /\ Family(status', parent')
              /\ \A r \in Processes : parent[r] # q
            BY <2>2, <3>1, Birth DEF FamilyInv
        <3>3. ForkedOnce(status', parent', forked')
            BY <2>2, <3>1, <3>2, BirthForkedOnce DEF FamilyInv
        <3> QED
            BY <3>2, <3>3 DEF FamilyInv
    <2> QED
        BY <1>2, <2>1, <2>2, StartsChild
<1>3. ASSUME NEW p \in Processes, Exits(p) \/ Dies(p) PROVE FamilyInv'
    <2>1. /\ status[p] = "running" /\ status' = [status EXCEPT ![p] = "exited"]
          /\ forked' = forked /\ parent' = parent
        BY <1>3 DEF Exits, Dies, family
    <2> QED
        BY <2>1, DeathInFamily DEF FamilyInv
<1>4. ASSUME NEW p \in Processes, Reap(p) PROVE FamilyInv'
    <2>1. /\ Unwaited(status, parent, p) /\ status[p] # "running"
          /\ status' = [status EXCEPT ![p] = "reaped"] /\ parent' = parent
          /\ forked' = [forked EXCEPT ![parent[p]] = FALSE]
        BY <1>4 DEF Reap, ParentRuns, Unwaited, family
    <2> QED
        BY <2>1, WaitInFamily DEF FamilyInv
<1>5. ASSUME NEW p \in Processes, NEW a \in Addresses,
             ServerStep(p, a) \/ ForkFails(p, a) \/ ForkReturns(p, a) \/ Shutdown(p, a)
      PROVE  FamilyInv'
    BY <1>1, <1>5, QuietSteps
<1>6. ASSUME NEW p \in Processes, Hangup(p) PROVE FamilyInv'
    BY <1>1, <1>6 DEF Hangup, Quiet
<1>7. CASE UNCHANGED vars
    BY <1>1, <1>7 DEF vars, Quiet
<1> QED
    BY <1>2, <1>3, <1>4, <1>5, <1>6, <1>7 DEF Next, Fork

\* The family is in order in every reachable state.
THEOREM FamilyInvariance == Spec => []FamilyInv
BY FamilyInit, FamilyStep, PTL DEF Spec

\* However many processes, addresses and configurations there are and whenever children
\* die, a process has at most one child that runs (fork, runningServersForked).
THEOREM OneChildAtATime == Spec => []OneChild
<1>1. FamilyInv => OneChild
    BY DEF FamilyInv, ForkedOnce, Unwaited, OneChild, ParentRuns
<1> QED
    BY FamilyInvariance, <1>1, PTL

-----------------------------------------------------------------------------
(***************************************************************************)
(* Numberings and orders.                                                  *)
(***************************************************************************)
\* All generations are configured to serve the same addresses.
OneConfig == \E c \in Configs : Configs = {c}

Served == CHOOSE c \in Configs : TRUE

Number == Cardinality(Served)

\* f numbers the members of S from 0 on.
IsNumbering(f, S) ==
    /\ DOMAIN f = S
    /\ \A a \in S : f[a] \in 0..(Cardinality(S) - 1)
    /\ \A a, b \in S : f[a] = f[b] => a = b
    /\ \A i \in 0..(Cardinality(S) - 1) : \E a \in S : f[a] = i

\* s lists the addresses served, each once.
IsOrder(s) ==
    /\ s \in Seq(Addresses)
    /\ Len(s) = Number
    /\ \A i \in 1..Number : s[i] \in Served
    /\ \A i, j \in 1..Number : s[i] = s[j] => i = j
    /\ \A a \in Served : \E i \in 1..Number : s[i] = a

\* What OneConfig says of the addresses served.
LEMMA ServedFacts ==
    ASSUME OneConfig
    PROVE  /\ Configs = {Served} /\ Served \subseteq Addresses
           /\ IsFiniteSet(Served) /\ Number \in Nat
           /\ \A a \in Served : Number >= 1 /\ (Number = 1 => Served = {a})
<1>1. Configs = {Served}
    BY DEF OneConfig, Served
<1>2. Served \subseteq Addresses
    BY <1>1, ServerForkAssumption
<1>3. IsFiniteSet(Served) /\ Number \in Nat
    BY <1>2, ServerForkAssumption, FS_Subset, FS_CardinalityType DEF Number
<1>4. ASSUME NEW a \in Served PROVE Number >= 1 /\ (Number = 1 => Served = {a})
    <2>1. Number # 0
        BY <1>3, <1>4, FS_EmptySet DEF Number
    <2>2. ASSUME Number = 1 PROVE Served = {a}
        <3>1. \E x : Served = {x}
            BY <1>3, <2>2, FS_Singleton DEF Number
        <3> QED
            BY <3>1
    <2> QED
        BY <1>3, <2>1, <2>2
<1> QED
    BY <1>1, <1>2, <1>3, <1>4

\* A server that registers takes the next number.
LEMMA PutNumbers ==
    ASSUME NEW S, IsFiniteSet(S), NEW a, a \notin S, NEW f, IsNumbering(f, S)
    PROVE  IsNumbering(Put(f, a, Cardinality(S)), S \cup {a})
<1> DEFINE n == Cardinality(S)
           g == Put(f, a, n)
<1>1. n \in Nat /\ Cardinality(S \cup {a}) = n + 1
    BY FS_AddElement, FS_CardinalityType
<1>2. /\ DOMAIN g = S \cup {a} /\ g[a] = n
      /\ \A b \in S : g[b] = f[b]
    BY DEF IsNumbering, Put
<1>3. \A b \in S : f[b] \in 0..(n - 1)
    BY DEF IsNumbering
<1>4. \A b, c \in S : f[b] = f[c] => b = c
    BY DEF IsNumbering
<1>5. \A i \in 0..(n - 1) : \E b \in S : f[b] = i
    BY DEF IsNumbering
<1> HIDE DEF n, g
<1>6. \A b \in S \cup {a} : g[b] \in 0..n
    BY <1>1, <1>2, <1>3
<1>7. \A b, c \in S \cup {a} : g[b] = g[c] => b = c
    BY <1>1, <1>2, <1>3, <1>4
<1>8. \A i \in 0..n : \E b \in S \cup {a} : g[b] = i
    BY <1>1, <1>2, <1>5
<1>9. (n + 1) - 1 = n
    BY <1>1
<1> QED
    BY <1>1, <1>2, <1>6, <1>7, <1>8, <1>9 DEF IsNumbering, g, n

\* The offsets that an order stands for number the addresses served.
LEMMA OffsetsNumber ==
    ASSUME OneConfig, NEW s, IsOrder(s)
    PROVE  /\ IsNumbering(OffsetsOf(s), Served)
           /\ \A i \in 1..Number : OffsetsOf(s)[s[i]] = i - 1
<1> DEFINE f == OffsetsOf(s)
<1>1. Number \in Nat /\ Len(s) = Number
    BY ServedFacts DEF IsOrder
<1>2. {s[i] : i \in 1..Len(s)} = Served
    BY <1>1 DEF IsOrder
<1>3. DOMAIN f = Served
    BY <1>2 DEF OffsetsOf
<1>4. ASSUME NEW i \in 1..Number PROVE f[s[i]] = i - 1
    <2>1. s[i] \in Served
        BY DEF IsOrder
    <2>2. (CHOOSE j \in 1..Len(s) : s[j] = s[i]) = i
        BY <1>1 DEF IsOrder
    <2> QED
        BY <1>2, <2>1, <2>2 DEF OffsetsOf
<1>5. \A a \in Served : \E i \in 1..Number : s[i] = a
    BY DEF IsOrder
<1>6. \A i \in 1..Number : s[i] \in Served
    BY DEF IsOrder
<1> HIDE DEF f
<1>7. \A a \in Served : f[a] \in 0..(Number - 1)
    BY <1>1, <1>4, <1>5
<1>8. \A a, b \in Served : f[a] = f[b] => a = b
    BY <1>1, <1>4, <1>5
<1>9. ASSUME NEW i \in 0..(Number - 1) PROVE \E a \in Served : f[a] = i
    <2>1. i + 1 \in 1..Number /\ (i + 1) - 1 = i
        BY <1>1
    <2> QED
        BY <1>4, <1>6, <2>1
<1> QED
    BY <1>3, <1>4, <1>7, <1>8, <1>9 DEF IsNumbering, Number, f

\* A list that has at each place the server of that number is an order.
LEMMA NumberingOrders ==
    ASSUME OneConfig, NEW f, IsNumbering(f, Served), NEW s \in [1..Number -> Served],
           \A i \in 1..Number : f[s[i]] = i - 1
    PROVE  /\ IsOrder(s)
           /\ \A i \in 1..Number : {a \in Served : f[a] = i - 1} = {s[i]}
<1>1. Number \in Nat /\ Served \subseteq Addresses
    BY ServedFacts
<1>2. s \in Seq(Addresses) /\ Len(s) = Number
    BY <1>1
<1>3. \A i, j \in 1..Number : s[i] = s[j] => i = j
    BY <1>1
<1>4. ASSUME NEW a \in Served PROVE \E i \in 1..Number : s[i] = a
    <2>1. f[a] \in 0..(Number - 1)
        BY DEF IsNumbering, Number
    <2>2. f[a] + 1 \in 1..Number /\ (f[a] + 1) - 1 = f[a]
        BY <1>1, <2>1
    <2> QED
        BY <2>2 DEF IsNumbering
<1>5. \A i \in 1..Number : {a \in Served : f[a] = i - 1} = {s[i]}
    BY DEF IsNumbering
<1> QED
    BY <1>2, <1>3, <1>4, <1>5 DEF IsOrder

-----------------------------------------------------------------------------
(***************************************************************************)
(* Sockets on their way from a process to its child.                       *)
(***************************************************************************)
Places == {"none", "registered", "bound", "failed", "serving", "stopping"}

\* Server a of p has, or had, its listener.
Listened(p, a) == server[p][a] \in {"bound", "serving", "stopping"}

\* Process p was started with the socket of a.
HasFile(p, a) == \E i \in 1..Len(files[p]) : files[p][i] = a

Types ==
    /\ config \in [Processes -> SUBSET Addresses]
    /\ env \in [Processes -> Seq(Addresses)]
    /\ files \in [Processes -> Seq(Addresses \cup {NoSocket})]
    /\ DOMAIN offset = Processes
    /\ server \in [Processes -> [Addresses -> Places]]
    /\ listener \in [Processes -> [Addresses -> Addresses \cup {NoSocket}]]
    /\ handler \in [Processes -> [Addresses -> {"idle", "fork", "started", "shutdown"}]]

\* A process that is born is configured with what all are, and only then has servers.
Configured ==
    \A p \in Processes :
        /\ config[p] = IF status[p] = "unborn" THEN {} ELSE Served
        /\ \A a \in Addresses :
              server[p][a] # "none" \/ handler[p][a] # "idle" => a \in config[p]

\* A server listens on its own socket; only a process whose servers all serve, or did,
\* forks.
Sockets ==
    /\ InheritsOwnSocket
    /\ \A p \in Processes, a \in Addresses :
          /\ Listened(p, a) => listener[p][a] = a
          /\ handler[p][a] \in {"fork", "started"} =>
                \A b \in config[p] : server[p][b] \in {"serving", "stopping"}

\* The map of p numbers its servers, in the order of its environment if it has one.
Numbered(p) ==
    IF env[p] = <<>>
      THEN IsNumbering(offset[p], Registered(p))
      ELSE /\ IsOrder(env[p])
           /\ Number > 1
           /\ Registered(p) # {} => offset[p] = OffsetsOf(env[p])

\* Each descriptor given to p is the socket of the address it stands for, or none.
Passed(p) ==
    /\ Len(files[p]) = Number
    /\ IF env[p] = <<>>
         THEN Number = 1 /\ files[p][1] \in Served \cup {NoSocket}
         ELSE \A i \in 1..Number : files[p][i] \in {env[p][i], NoSocket}

Tables ==
    \A p \in Processes :
        /\ status[p] = "unborn" => env[p] = <<>>
        /\ Numbered(p)
        /\ parent[p] # 0 => Passed(p)

\* A server fails only in a child that has not been given its socket.
Failures ==
    \A p \in Processes, a \in Addresses :
        server[p][a] = "failed" => parent[p] # 0 /\ ~HasFile(p, a)

SocketInv == Types /\ Configured /\ Sockets /\ Tables /\ Failures

\* What a server that looks for its socket finds is its socket, if the process has it.
LEMMA FindsOwnSocket ==
    ASSUME OneConfig, SocketInv, NEW p \in Processes, NEW a \in Addresses,
           parent[p] # 0, server[p][a] = "registered"
    PROVE  /\ Inherited(p, a) \in {a, NoSocket}
           /\ Inherited(p, a) = NoSocket => ~HasFile(p, a)
<1>1. /\ config[p] = Served /\ a \in Served
      /\ a \in Registered(p) /\ Registered(p) \subseteq Served
    BY DEF SocketInv, Types, Configured, Registered
<1>2. Numbered(p) /\ Passed(p) /\ NoSocket # a
    BY ServerForkAssumption DEF SocketInv, Tables
<1>3. Number \in Nat /\ Number >= 1 /\ (Number = 1 => Served = {a})
    BY <1>1, ServedFacts
<1>4. CASE env[p] = <<>>
    <2>1. Number = 1 /\ Registered(p) = {a} /\ Len(files[p]) = 1
        BY <1>1, <1>2, <1>3, <1>4 DEF Passed
    <2>2. Cardinality(Registered(p)) = 1
        BY <2>1, FS_Singleton
    <2>3. a \in DOMAIN offset[p] /\ offset[p][a] = 0
        BY <1>1, <1>2, <1>4, <2>2 DEF Numbered, IsNumbering
    <2>4. Inherited(p, a) = files[p][1] /\ files[p][1] \in {a, NoSocket}
        BY <1>2, <1>3, <1>4, <2>1, <2>3 DEF Inherited, Passed
    <2> QED
        BY <1>2, <2>1, <2>4 DEF HasFile
<1>5. CASE env[p] # <<>>
    <2>1. /\ IsOrder(env[p]) /\ offset[p] = OffsetsOf(env[p]) /\ Len(files[p]) = Number
          /\ \A i \in 1..Number : files[p][i] \in {env[p][i], NoSocket}
        BY <1>1, <1>2, <1>5 DEF Numbered, Passed
    <2>2. PICK i \in 1..Number : env[p][i] = a
        BY <1>1, <2>1 DEF IsOrder
    <2>3. DOMAIN offset[p] = Served /\ offset[p][a] = i - 1
        BY <2>1, <2>2, OffsetsNumber DEF IsNumbering
    <2>4. i - 1 < Number /\ (i - 1) + 1 = i
        BY <1>3
    <2>5. Inherited(p, a) = files[p][i]
        BY <1>1, <2>1, <2>3, <2>4 DEF Inherited
    <2>6. \A j \in 1..Number : env[p][j] = a => j = i
        BY <2>1, <2>2 DEF IsOrder
    <2>7. files[p][i] = NoSocket => ~HasFile(p, a)
        BY <1>2, <2>1, <2>6 DEF HasFile
    <2> QED
        BY <2>1, <2>2, <2>5, <2>7
<1> QED
    BY <1>4, <1>5

\* What fork makes of the tables of a process whose servers all serve, or did.
LEMMA ForkTables ==
    ASSUME OneConfig, SocketInv, NEW p \in Processes, NEW a \in Addresses,
           handler[p][a] = "fork"
    PROVE  /\ config[p] = Served /\ a \in Served /\ Number >= 1
           /\ Cardinality(Registered(p)) = Number
           /\ ~ForkPanics(p)
           /\ IsOrder(OrderArgs(p))
           /\ Len(Descriptors(p)) = Number
           /\ Descriptors(p) \in Seq(Addresses \cup {NoSocket})
           /\ \A i \in 1..Number :
                 LET b == OrderArgs(p)[i]
                 IN  Descriptors(p)[i] = IF server[p][b] = "stopping" THEN NoSocket ELSE b
<1>1. config[p] = Served /\ a \in Served
    <2>1. handler[p][a] # "idle"
        OBVIOUS
    <2>2. a \in config[p] /\ config[p] = IF status[p] = "unborn" THEN {} ELSE Served
        BY <2>1 DEF SocketInv, Configured
    <2> QED
        BY <2>2
<1>2. Number \in Nat /\ Number >= 1 /\ Served \subseteq Addresses
    BY <1>1, ServedFacts
<1>3. \A b \in Served : server[p][b] \in {"serving", "stopping"} /\ listener[p][b] = b
    BY <1>1, <1>2 DEF SocketInv, Sockets, Listened
<1>4. Registered(p) = Served
    BY <1>1, <1>3 DEF Registered
<1>5. IsNumbering(offset[p], Served)
    BY <1>1, <1>4, OffsetsNumber DEF SocketInv, Tables, Numbered
<1>6. \A b \in Served : OffsetOf(p, b) = offset[p][b] /\ offset[p][b] \in 0..(Number - 1)
    BY <1>5 DEF OffsetOf, IsNumbering, Number
<1>7. \A i : ServerAt(p, i) = {b \in Served : offset[p][b] = i - 1}
    BY <1>4, <1>6 DEF ServerAt
<1>8. ASSUME NEW i \in 1..Number
      PROVE  (CHOOSE b \in ServerAt(p, i) : TRUE) \in ServerAt(p, i)
    <2>1. i - 1 \in 0..(Number - 1)
        BY <1>2
    <2>2. \E b : b \in ServerAt(p, i)
        BY <1>5, <1>7, <2>1 DEF IsNumbering, Number
    <2> QED
        BY <2>2
<1>9. /\ IsOrder(OrderArgs(p))
      /\ \A i \in 1..Number : ServerAt(p, i) = {OrderArgs(p)[i]}
    <2> DEFINE s == OrderArgs(p)
    <2>1. s = [i \in 1..Number |-> CHOOSE b \in ServerAt(p, i) : TRUE]
        BY <1>4 DEF OrderArgs, Number
    <2>2. \A i \in 1..Number : s[i] \in ServerAt(p, i)
        BY <1>8, <2>1
    <2>3. s \in [1..Number -> Served] /\ \A i \in 1..Number : offset[p][s[i]] = i - 1
        BY <1>7, <2>1, <2>2
    <2> HIDE DEF s
    <2>4. IsOrder(s) /\ \A i \in 1..Number : {b \in Served : offset[p][b] = i - 1} = {s[i]}
        BY <1>5, <2>3, NumberingOrders
    <2> QED
        BY <1>7, <2>4 DEF s
<1>10. ~ForkPanics(p)
    BY <1>2, <1>3, <1>4, <1>6 DEF ForkPanics, Number
<1>11. ASSUME NEW i \in 1..Number
       PROVE  FileAt(p, i) = IF server[p][OrderArgs(p)[i]] = "stopping"
                               THEN NoSocket ELSE OrderArgs(p)[i]
    <2> DEFINE b == OrderArgs(p)[i]
    <2>1. b \in Served /\ ServerAt(p, i) = {b}
        BY <1>9 DEF IsOrder
    <2> HIDE DEF b
    <2>2. listener[p][b] = b
        BY <1>3, <2>1
    <2>3. FileAt(p, i) = IF server[p][b] = "stopping" THEN NoSocket ELSE b
        BY <2>1, <2>2 DEF FileAt
    <2> QED
        BY <2>3 DEF b
<1>12. /\ Descriptors(p) = [i \in 1..Number |-> FileAt(p, i)]
       /\ \A i \in 1..Number : FileAt(p, i) \in Addresses \cup {NoSocket}
    BY <1>2, <1>4, <1>9, <1>11 DEF Descriptors, Number, IsOrder
<1>13. /\ Len(Descriptors(p)) = Number
       /\ Descriptors(p) \in Seq(Addresses \cup {NoSocket})
       /\ \A i \in 1..Number : Descriptors(p)[i] = FileAt(p, i)
    BY <1>2, <1>12
<1> QED
    BY <1>1, <1>2, <1>4, <1>9, <1>10, <1>11, <1>13 DEF Number

\* At first one process is born, without servers.
LEMMA SocketInit == OneConfig /\ Init => SocketInv
<1> SUFFICES ASSUME OneConfig, Init PROVE SocketInv
    OBVIOUS
<1>1. Configs = {Served} /\ Served \subseteq Addresses
    BY ServedFacts
<1>2. /\ \A p \in Processes : config[p] = IF status[p] = "unborn" THEN {} ELSE Served
      /\ config \in [Processes -> SUBSET Addresses]
    BY <1>1, ServerForkAssumption DEF Init, Each, Processes
<1>3. /\ \A p \in Processes : parent[p] = 0 /\ env[p] = <<>> /\ offset[p] = <<>>
      /\ \A p \in Processes, a \in Addresses :
            server[p][a] = "none" /\ listener[p][a] = NoSocket /\ handler[p][a] = "idle"
    BY DEF Init, Each
<1>4. Types
    <2>1. /\ env \in [Processes -> Seq(Addresses)]
          /\ files \in [Processes -> Seq(Addresses \cup {NoSocket})]
          /\ DOMAIN offset = Processes
        BY DEF Init, Each
    <2>2. /\ server \in [Processes -> [Addresses -> Places]]
          /\ listener \in [Processes -> [Addresses -> Addresses \cup {NoSocket}]]
          /\ handler \in [Processes -> [Addresses -> {"idle", "fork", "started", "shutdown"}]]
        BY DEF Init, Each, Places
    <2> QED
        BY <1>2, <2>1, <2>2 DEF Types
<1>5. \A p \in Processes : Numbered(p)
    <2>1. \A p \in Processes : Registered(p) = {}
        BY <1>1, <1>2, <1>3 DEF Registered
    <2>2. IsNumbering(<<>>, {})
        BY FS_EmptySet DEF IsNumbering
    <2> QED
        BY <1>3, <2>1, <2>2 DEF Numbered
<1> QED
    BY <1>2, <1>3, <1>4, <1>5
    DEF SocketInv, Configured, Sockets, InheritsOwnSocket, Listened, Tables, Failures

\* The tables stay as they are when nobody is born and no server registers.
LEMMA TablesStay ==
    ASSUME Tables, UNCHANGED <<family, offset>>,
           \A p \in Processes : status'[p] = "unborn" => status[p] = "unborn",
           \A p \in Processes, a \in Addresses :
              (server'[p][a] = "none") <=> (server[p][a] = "none"),
           \A p \in Processes : config[p] \subseteq Addresses
    PROVE  Tables'
<1>1. \A p \in Processes : Registered(p)' = Registered(p)
    BY DEF Registered, family
<1>2. \A p \in Processes : Numbered(p)' = Numbered(p)
    BY <1>1 DEF Numbered, family
<1> QED
    BY <1>2 DEF Tables, Passed, family

Handlers == {"idle", "fork", "started", "shutdown"}

\* A signal reaches the handlers of one process that are idle.
LEMMA SignalFacts ==
    ASSUME Types, NEW p \in Processes, NEW label \in Handlers, Signal(p, label)
    PROVE  /\ handler' \in [Processes -> [Addresses -> Handlers]]
           /\ \A q \in Processes, b \in Addresses :
                 \/ handler'[q][b] = handler[q][b]
                 \/ q = p /\ b \in config[q] /\ handler'[q][b] = label
BY DEF Types, Signal, Handlers

\* Handlers move, and none has started a child or is about to but for one of a process
\* whose servers all serve, or did; processes end.
LEMMA HandlersMove ==
    ASSUME SocketInv, UNCHANGED <<family, offset, servers>>,
           \A q \in Processes : (status'[q] = "unborn") <=> (status[q] = "unborn"),
           handler' \in [Processes -> [Addresses -> Handlers]],
           \A q \in Processes, b \in Addresses :
              \/ handler'[q][b] = handler[q][b]
              \/ /\ b \in config[q]
                 /\ \/ handler'[q][b] \in {"idle", "shutdown"}
                    \/ \A c \in config[q] : server[q][c] \in {"serving", "stopping"}
    PROVE  SocketInv'
<1>1. Types'
    BY DEF SocketInv, Types, family, servers, Handlers
<1>2. Configured'
    BY DEF SocketInv, Configured, family, servers
<1>3. Sockets'
    BY DEF SocketInv, Sockets, InheritsOwnSocket, Listened, family, servers
<1>4. Tables'
    <2>1. \A q \in Processes : config[q] \subseteq Addresses
        BY DEF SocketInv, Types
    <2> QED
        BY <2>1, TablesStay DEF SocketInv, servers
<1>5. Failures'
    BY DEF SocketInv, Failures, HasFile, family, servers
<1> QED
    BY <1>1, <1>2, <1>3, <1>4, <1>5 DEF SocketInv

\* Server a of p, which has registered, moves on; handlers end what they do or stop.
LEMMA ServerMoves ==
    ASSUME SocketInv, NEW p \in Processes, NEW a \in Addresses,
           NEW to \in Places \ {"none"}, NEW socket \in {a, NoSocket},
           UNCHANGED <<status, family, offset>>,
           server' = Set(server, p, a, to), listener' = Set(listener, p, a, socket),
           server[p][a] # "none",
           to \in {"bound", "serving", "stopping"} => socket = a,
           to = "failed" => parent[p] # 0 /\ ~HasFile(p, a),
           server[p][a] \in {"serving", "stopping"} => to \in {"serving", "stopping"},
           handler' \in [Processes -> [Addresses -> Handlers]],
           \A q \in Processes, b \in Addresses :
              \/ handler'[q][b] = handler[q][b]
              \/ b \in config[q] /\ handler'[q][b] \in {"idle", "shutdown"}
    PROVE  SocketInv'
<1>1. /\ server' \in [Processes -> [Addresses -> Places]] /\ server'[p][a] = to
      /\ \A q \in Processes, b \in Addresses : q # p \/ b # a => server'[q][b] = server[q][b]
    <2>1. server \in [Processes -> [Addresses -> Places]]
        BY DEF SocketInv, Types
    <2> QED
        BY <2>1 DEF Set
<1>2. /\ listener' \in [Processes -> [Addresses -> Addresses \cup {NoSocket}]]
      /\ listener'[p][a] = socket
      /\ \A q \in Processes, b \in Addresses :
            q # p \/ b # a => listener'[q][b] = listener[q][b]
    <2>1. socket \in Addresses \cup {NoSocket}
        OBVIOUS
    <2>2. listener \in [Processes -> [Addresses -> Addresses \cup {NoSocket}]]
        BY DEF SocketInv, Types
    <2> QED
        BY <2>1, <2>2 DEF Set
<1>3. Types'
    BY <1>1, <1>2 DEF SocketInv, Types, family, Handlers
<1>4. Configured'
    BY <1>1 DEF SocketInv, Configured, family
<1>5. Sockets'
    <2>1. InheritsOwnSocket'
        BY <1>2 DEF SocketInv, Sockets, InheritsOwnSocket
    <2>2. ASSUME NEW q \in Processes, NEW b \in Addresses, Listened(q, b)'
          PROVE  listener'[q][b] = b
        <3>1. CASE q = p /\ b = a
            BY <1>1, <1>2, <2>2, <3>1 DEF Listened
        <3>2. CASE ~(q = p /\ b = a)
            <4>1. Listened(q, b) /\ listener'[q][b] = listener[q][b]
                BY <1>1, <1>2, <2>2, <3>2 DEF Listened
            <4> QED
                BY <4>1 DEF SocketInv, Sockets
        <3> QED
            BY <3>1, <3>2
    <2>3. ASSUME NEW q \in Processes, NEW b \in Addresses,
                 handler'[q][b] \in {"fork", "started"}, NEW c \in config'[q]
          PROVE  server'[q][c] \in {"serving", "stopping"}
        <3>1. handler[q][b] \in {"fork", "started"} /\ c \in config[q]
            BY <2>3 DEF family
        <3>2. server[q][c] \in {"serving", "stopping"}
            BY <3>1 DEF SocketInv, Sockets
        <3>3. c \in Addresses
            BY <3>1 DEF SocketInv, Types
        <3> QED
            BY <1>1, <3>2, <3>3
    <2> QED
        BY <2>1, <2>2, <2>3 DEF Sockets
<1>6. Tables'
    <2>1. \A q \in Processes, b \in Addresses :
             (server'[q][b] = "none") <=> (server[q][b] = "none")
        BY <1>1
    <2>2. \A q \in Processes : config[q] \subseteq Addresses
        BY DEF SocketInv, Types
    <2> QED
        BY <2>1, <2>2, TablesStay DEF SocketInv
<1>7. Failures'
    <2>1. ASSUME NEW q \in Processes, NEW b \in Addresses, server'[q][b] = "failed"
          PROVE  parent[q] # 0 /\ ~HasFile(q, b)
        BY <1>1, <2>1 DEF SocketInv, Failures
    <2> QED
        BY <2>1 DEF Failures, HasFile, family
<1> QED
    BY <1>3, <1>4, <1>5, <1>6, <1>7 DEF SocketInv

\* A server that registers numbers itself, or takes the numbers of the environment.
LEMMA NewServerKeeps ==
    ASSUME OneConfig, SocketInv, NEW p \in Processes, NEW a \in Addresses, NewServer(p, a)
    PROVE  SocketInv'
<1>1. /\ server \in [Processes -> [Addresses -> Places]] /\ DOMAIN offset = Processes
      /\ a \in config[p] /\ server[p][a] = "none"
      /\ server' = Set(server, p, a, "registered")
      /\ UNCHANGED <<status, family, listener, handler>>
    BY DEF NewServer, ServerGoes, SocketInv, Types
<1>2. /\ server' \in [Processes -> [Addresses -> Places]] /\ server'[p][a] = "registered"
      /\ \A q \in Processes, b \in Addresses : q # p \/ b # a => server'[q][b] = server[q][b]
    BY <1>1 DEF Set, Places
<1>3. /\ DOMAIN offset' = Processes
      /\ offset'[p] = IF env[p] # <<>> THEN OffsetsOf(env[p])
                        ELSE Put(offset[p], a, Cardinality(Registered(p)))
      /\ \A q \in Processes : q # p => offset'[q] = offset[q]
    BY <1>1 DEF NewServer
<1>4. Types'
    BY <1>1, <1>2, <1>3 DEF SocketInv, Types, family
<1>5. Configured'
    BY <1>1, <1>2 DEF SocketInv, Configured, family
<1>6. Sockets'
    <2>1. InheritsOwnSocket'
        BY <1>1 DEF SocketInv, Sockets, InheritsOwnSocket
    <2>2. ASSUME NEW q \in Processes, NEW b \in Addresses, Listened(q, b)'
          PROVE  listener'[q][b] = b
        <3>1. CASE q = p /\ b = a
            BY <1>1, <1>2, <2>2, <3>1 DEF Listened
        <3>2. CASE ~(q = p /\ b = a)
            <4>1. Listened(q, b) /\ listener'[q][b] = listener[q][b]
                BY <1>1, <1>2, <2>2, <3>2 DEF Listened
            <4> QED
                BY <4>1 DEF SocketInv, Sockets
        <3> QED
            BY <3>1, <3>2
    <2>3. ASSUME NEW q \in Processes, NEW b \in Addresses,
                 handler'[q][b] \in {"fork", "started"}, NEW c \in config'[q]
          PROVE  server'[q][c] \in {"serving", "stopping"}
        <3>1. handler[q][b] \in {"fork", "started"} /\ c \in config[q]
            BY <1>1, <2>3 DEF family
        <3>2. server[q][c] \in {"serving", "stopping"}
            BY <3>1 DEF SocketInv, Sockets
        <3>3. c \in Addresses
            BY <3>1 DEF SocketInv, Types
        <3> QED
            BY <1>1, <1>2, <3>2, <3>3
    <2> QED
        BY <2>1, <2>2, <2>3 DEF Sockets
<1>7. Tables'
    <2>1. \A q \in Processes : config[q] \subseteq Addresses
        BY DEF SocketInv, Types
    <2>2. Registered(p)' = Registered(p) \cup {a} /\ a \notin Registered(p)
        BY <1>1, <1>2, <2>1 DEF Registered, family
    <2>3. \A q \in Processes : q # p => Registered(q)' = Registered(q)
        BY <1>1, <1>2, <2>1 DEF Registered, family
    <2>4. IsFiniteSet(Registered(p))
        <3>1. Registered(p) \subseteq Addresses
            BY <2>1 DEF Registered
        <3> QED
            BY <3>1, ServerForkAssumption, FS_Subset
    <2>5. Numbered(p)
        BY DEF SocketInv, Tables
    <2>6. CASE env[p] = <<>>
        <3>1. IsNumbering(offset[p], Registered(p))
            BY <2>5, <2>6 DEF Numbered
        <3>2. offset'[p] = Put(offset[p], a, Cardinality(Registered(p)))
            BY <1>3, <2>6
        <3>3. IsNumbering(offset'[p], Registered(p) \cup {a})
            BY <2>2, <2>4, <3>1, <3>2, PutNumbers
        <3> QED
            BY <1>1, <1>3, <2>2, <2>3, <2>6, <3>3 DEF SocketInv, Tables, Numbered,
               Passed, family
    <2>7. CASE env[p] # <<>>
        <3>1. offset'[p] = OffsetsOf(env[p])
            BY <1>3, <2>7
        <3> QED
            BY <1>1, <1>3, <2>3, <2>5, <2>7, <3>1 DEF SocketInv, Tables, Numbered,
               Passed, family
    <2> QED
        BY <2>6, <2>7
<1>8. Failures'
    <2>1. ASSUME NEW q \in Processes, NEW b \in Addresses, server'[q][b] = "failed"
          PROVE  parent[q] # 0 /\ ~HasFile(q, b)
        BY <1>2, <2>1 DEF SocketInv, Failures
    <2> QED
        BY <1>1, <2>1 DEF Failures, HasFile, family
<1> QED
    BY <1>4, <1>5, <1>6, <1>7, <1>8 DEF SocketInv

\* The first process listens itself, a child on what it finds.
LEMMA GetListenerKeeps ==
    ASSUME OneConfig, SocketInv, NEW p \in Processes, NEW a \in Addresses, GetListener(p, a)
    PROVE  SocketInv'
<1> DEFINE socket == IF parent[p] = 0 THEN a ELSE Inherited(p, a)
           to == IF socket = NoSocket THEN "failed" ELSE "bound"
<1>1. /\ server[p][a] = "registered"
      /\ server' = Set(server, p, a, to) /\ listener' = Set(listener, p, a, socket)
      /\ UNCHANGED <<status, family, offset, handler>>
    BY DEF GetListener, ServerGoes
<1>2. /\ socket \in {a, NoSocket}
      /\ socket = NoSocket => parent[p] # 0 /\ ~HasFile(p, a)
    BY <1>1, FindsOwnSocket, ServerForkAssumption
<1>3. /\ to \in {"failed", "bound"} /\ (to = "bound" => socket = a)
      /\ (to = "failed" => socket = NoSocket)
    BY <1>2
<1>4. handler' \in [Processes -> [Addresses -> Handlers]]
    BY <1>1 DEF SocketInv, Types, Handlers
<1> HIDE DEF socket, to
<1>5. to \in Places \ {"none"}
    BY <1>3 DEF Places
<1> QED
    BY <1>1, <1>2, <1>3, <1>4, <1>5, ServerMoves

\* A server that is bound serves; the parent's handlers may hear of it.
LEMMA ServingKeeps ==
    ASSUME FamilyInv, SocketInv, NEW p \in Processes, NEW a \in Addresses,
           KillParent(p, a) \/ Serve(p, a)
    PROVE  SocketInv'
<1>1. /\ server[p][a] = "bound" /\ server' = Set(server, p, a, "serving")
      /\ UNCHANGED <<status, family, offset>>
    BY DEF KillParent, Serve, ServerGoes
<1>2. listener[p][a] = a /\ listener' = Set(listener, p, a, a)
    <2>1. listener[p][a] = a /\ listener' = listener
        BY <1>1 DEF SocketInv, Sockets, Listened, KillParent, Serve
    <2>2. listener \in [Processes -> [Addresses -> Addresses \cup {NoSocket}]]
        BY DEF SocketInv, Types
    <2> QED
        BY <2>1, <2>2 DEF Set
<1>3. /\ handler' \in [Processes -> [Addresses -> Handlers]]
      /\ \A q \in Processes, b \in Addresses :
            \/ handler'[q][b] = handler[q][b]
            \/ b \in config[q] /\ handler'[q][b] \in {"idle", "shutdown"}
    <2>1. CASE handler' = handler
        BY <2>1 DEF SocketInv, Types, Handlers
    <2>2. CASE parent[p] \in Processes /\ Signal(parent[p], "shutdown")
        <3>1. "shutdown" \in Handlers
            BY DEF Handlers
        <3> QED
            BY <2>2, <3>1, SignalFacts DEF SocketInv
    <2>3. parent[p] # 0 => parent[p] \in Processes
        BY ServerForkAssumption DEF FamilyInv, Family, Processes
    <2> QED
        BY <2>1, <2>2, <2>3 DEF KillParent, Serve, ParentRuns
<1>4. "serving" \in Places \ {"none"}
    BY DEF Places
<1> QED
    BY <1>1, <1>2, <1>3, <1>4, ServerMoves

\* A handler closes the listener of a server that serves.
LEMMA ShutdownKeeps ==
    ASSUME SocketInv, NEW p \in Processes, NEW a \in Addresses, Shutdown(p, a)
    PROVE  SocketInv'
<1>1. /\ handler[p][a] = "shutdown" /\ handler' = Set(handler, p, a, "idle")
      /\ UNCHANGED <<status, family, offset, listener>>
      /\ server' = Set(server, p, a,
                       IF server[p][a] = "serving" THEN "stopping" ELSE server[p][a])
    BY DEF Shutdown, HandlerGoes
<1>2. /\ handler' \in [Processes -> [Addresses -> Handlers]]
      /\ \A q \in Processes, b \in Addresses :
            \/ handler'[q][b] = handler[q][b]
            \/ b \in config[q] /\ handler'[q][b] \in {"idle", "shutdown"}
    <2>1. handler \in [Processes -> [Addresses -> Handlers]] /\ a \in config[p]
        BY <1>1 DEF SocketInv, Types, Configured, Handlers
    <2> QED
        BY <1>1, <2>1 DEF Set, Handlers
<1>3. CASE server[p][a] = "serving"
    <2>1. listener[p][a] = a /\ listener' = Set(listener, p, a, a)
        <3>1. listener[p][a] = a /\ listener' = listener
            BY <1>1, <1>3 DEF SocketInv, Sockets, Listened
        <3>2. listener \in [Processes -> [Addresses -> Addresses \cup {NoSocket}]]
            BY DEF SocketInv, Types
        <3> QED
            BY <3>1, <3>2 DEF Set
    <2>2. "stopping" \in Places \ {"none"}
        BY DEF Places
    <2> QED
        BY <1>1, <1>2, <1>3, <2>1, <2>2, ServerMoves
<1>4. CASE server[p][a] # "serving"
    <2>1. server' = server
        <3>1. server \in [Processes -> [Addresses -> Places]]
            BY DEF SocketInv, Types
        <3> QED
            BY <1>1, <1>4, <3>1 DEF Set
    <2> QED
        BY <1>1, <1>2, <2>1, HandlersMove DEF servers
<1> QED
    BY <1>3, <1>4

\* What a child is started with.
LEMMA ChildTables ==
    ASSUME OneConfig, SocketInv, NEW p \in Processes, NEW a \in Addresses,
           handler[p][a] = "fork"
    PROVE  /\ ChildEnv(p) = IF Number > 1 THEN OrderArgs(p) ELSE <<>>
           /\ ChildEnv(p) \in Seq(Addresses)
           /\ ChildEnv(p) # <<>> => IsOrder(ChildEnv(p)) /\ Number > 1
           /\ Descriptors(p) \in Seq(Addresses \cup {NoSocket})
           /\ Len(Descriptors(p)) = Number
           /\ IF ChildEnv(p) = <<>>
                THEN Number = 1 /\ Descriptors(p)[1] \in Served \cup {NoSocket}
                ELSE \A i \in 1..Number : Descriptors(p)[i] \in {ChildEnv(p)[i], NoSocket}
<1>1. Number \in Nat /\ Number >= 1
    BY ForkTables, ServedFacts
<1>2. Numbered(p)
    BY DEF SocketInv, Tables
<1>3. Cardinality(Registered(p)) = Number /\ IsOrder(OrderArgs(p))
    BY ForkTables
<1>4. ChildEnv(p) = IF Number > 1 THEN OrderArgs(p) ELSE <<>>
    BY <1>2, <1>3 DEF ChildEnv, Numbered
<1>5. OrderArgs(p) \in Seq(Addresses) /\ OrderArgs(p) # <<>>
    BY <1>1, <1>3 DEF IsOrder
<1>6. \A i \in 1..Number :
         /\ Descriptors(p)[i] \in {OrderArgs(p)[i], NoSocket}
         /\ OrderArgs(p)[i] \in Served
    BY <1>3, ForkTables DEF IsOrder
<1>7. Number > 1 \/ Number = 1
    BY <1>1
<1> QED
    BY <1>1, <1>3, <1>4, <1>5, <1>6, <1>7, ForkTables

\* A child is born without servers and with the tables of its parent.
LEMMA StartChildKeeps ==
    ASSUME OneConfig, FamilyInv, SocketInv, NEW p \in Processes, NEW a \in Addresses,
           StartChild(p, a)
    PROVE  SocketInv'
<1>1. handler[p][a] = "fork"
    BY DEF StartChild, HandlerGoes
<1>2. PICK q \in Processes : \E c \in Configs : status[q] = "unborn" /\ Start(p, q, c)
    BY <1>1, StartsChild, ForkTables DEF StartChild
<1>3. /\ status' = [status EXCEPT ![q] = "running"]
      /\ parent' = [parent EXCEPT ![q] = p]
      /\ config' = [config EXCEPT ![q] = Served]
      /\ env' = [env EXCEPT ![q] = ChildEnv(p)]
      /\ files' = [files EXCEPT ![q] = Descriptors(p)]
    BY <1>2, ServedFacts DEF Start
<1>4. /\ handler' = Set(handler, p, a, "started")
      /\ UNCHANGED <<offset, servers>>
    BY DEF StartChild, HandlerGoes
<1>5. /\ status'[q] = "running" /\ parent'[q] = p /\ config'[q] = Served
      /\ env'[q] = ChildEnv(p) /\ files'[q] = Descriptors(p)
      /\ \A r \in Processes : r # q =>
            /\ status'[r] = status[r] /\ parent'[r] = parent[r] /\ config'[r] = config[r]
            /\ env'[r] = env[r] /\ files'[r] = files[r]
    BY <1>3 DEF FamilyInv, Family, SocketInv, Types
<1>6. /\ handler' \in [Processes -> [Addresses -> Handlers]]
      /\ handler'[p][a] = "started"
      /\ \A r \in Processes, b \in Addresses :
            r # p \/ b # a => handler'[r][b] = handler[r][b]
    <2>1. handler \in [Processes -> [Addresses -> Handlers]]
        BY DEF SocketInv, Types, Handlers
    <2> QED
        BY <1>4, <2>1 DEF Set, Handlers
<1>7. /\ config[q] = {} /\ env[q] = <<>>
      /\ \A b \in Addresses : server[q][b] = "none" /\ handler[q][b] = "idle"
    BY <1>2 DEF SocketInv, Configured, Tables
<1>8. config[p] = Served /\ a \in Served /\ p # q
    BY <1>1, <1>7, ForkTables
<1>9. Types'
    <2>1. config' \in [Processes -> SUBSET Addresses]
        BY <1>3, ServedFacts DEF SocketInv, Types
    <2>2. /\ env' \in [Processes -> Seq(Addresses)]
          /\ files' \in [Processes -> Seq(Addresses \cup {NoSocket})]
        BY <1>1, <1>3, ChildTables DEF SocketInv, Types
    <2> QED
        BY <1>4, <1>6, <2>1, <2>2 DEF SocketInv, Types, servers, Handlers
<1>10. Configured'
    BY <1>4, <1>5, <1>6, <1>7, <1>8 DEF SocketInv, Configured, servers
<1>11. Sockets'
    <2>1. /\ InheritsOwnSocket'
          /\ \A r \in Processes, b \in Addresses : Listened(r, b)' => listener'[r][b] = b
        BY <1>4 DEF SocketInv, Sockets, InheritsOwnSocket, Listened, servers
    <2>2. ASSUME NEW r \in Processes, NEW b \in Addresses,
                 handler'[r][b] \in {"fork", "started"}, NEW c \in config'[r]
          PROVE  server'[r][c] \in {"serving", "stopping"}
        <3>1. r # q
            BY <1>6, <1>7, <1>8, <2>2
        <3>2. c \in config[r] /\ \E d \in Addresses : handler[r][d] \in {"fork", "started"}
            BY <1>1, <1>5, <1>6, <2>2, <3>1
        <3> QED
            BY <1>4, <3>2 DEF SocketInv, Sockets, servers
    <2> QED
        BY <2>1, <2>2 DEF Sockets
<1>12. Tables'
    <2>1. \A r \in Processes : config[r] \subseteq Addresses
        BY DEF SocketInv, Types
    <2>2. \A r \in Processes : r # q => Registered(r)' = Registered(r)
        BY <1>4, <1>5 DEF Registered, servers
    <2>3. Registered(q) = {} /\ Registered(q)' = {}
        <3>1. Served \subseteq Addresses
            BY ServedFacts
        <3> QED
            BY <1>4, <1>5, <1>7, <3>1 DEF Registered, servers
    <2>4. ASSUME NEW r \in Processes, r # q
          PROVE  /\ status'[r] = "unborn" => env'[r] = <<>>
                 /\ Numbered(r)'
                 /\ parent'[r] # 0 => Passed(r)'
        BY <1>4, <1>5, <2>2, <2>4 DEF SocketInv, Tables, Numbered, Passed
    <2>5. Numbered(q)'
        <3>1. IsNumbering(offset[q], {})
            BY <1>7, <2>3 DEF SocketInv, Tables, Numbered
        <3> QED
            BY <1>1, <1>4, <1>5, <2>3, <3>1, ChildTables DEF Numbered
    <2>6. Passed(q)'
        BY <1>1, <1>5, ChildTables DEF Passed
    <2> QED
        BY <1>5, <2>4, <2>5, <2>6 DEF Tables
<1>13. Failures'
    <2>1. ASSUME NEW r \in Processes, NEW b \in Addresses, server'[r][b] = "failed"
          PROVE  parent'[r] # 0 /\ ~HasFile(r, b)'
        <3>1. r # q /\ server[r][b] = "failed"
            BY <1>4, <1>7, <2>1 DEF servers
        <3> QED
            BY <1>5, <3>1 DEF SocketInv, Failures, HasFile
    <2> QED
        BY <2>1 DEF Failures
<1> QED
    BY <1>9, <1>10, <1>11, <1>12, <1>13 DEF SocketInv

\* Every step keeps the sockets with their addresses.
LEMMA SocketStep == OneConfig /\ FamilyInv /\ SocketInv /\ [Next]_vars => SocketInv'
<1> SUFFICES ASSUME OneConfig, FamilyInv, SocketInv, [Next]_vars PROVE SocketInv'
    OBVIOUS
<1>1. handler \in [Processes -> [Addresses -> Handlers]]
    BY DEF SocketInv, Types, Handlers
<1>2. ASSUME NEW p \in Processes, NEW a \in Addresses, ServerStep(p, a) PROVE SocketInv'
    BY <1>2, NewServerKeeps, GetListenerKeeps, ServingKeeps DEF ServerStep
<1>3. ASSUME NEW p \in Processes, NEW a \in Addresses, ForkFails(p, a) \/ ForkReturns(p, a)
      PROVE  SocketInv'
    <2>1. /\ handler[p][a] # "idle" /\ handler' = Set(handler, p, a, "idle")
          /\ UNCHANGED <<status, family, offset, servers>>
        BY <1>3 DEF ForkFails, ForkReturns, HandlerGoes
    <2>2. a \in config[p]
        BY <2>1 DEF SocketInv, Configured
    <2>3. /\ handler' \in [Processes -> [Addresses -> Handlers]]
          /\ handler'[p][a] = "idle"
          /\ \A q \in Processes, b \in Addresses :
                q # p \/ b # a => handler'[q][b] = handler[q][b]
        BY <1>1, <2>1 DEF Set, Handlers
    <2> QED
        BY <2>1, <2>2, <2>3, HandlersMove
<1>4. ASSUME NEW p \in Processes, Hangup(p) PROVE SocketInv'
    <2>1. "fork" \in Handlers
        BY DEF Handlers
    <2>2. /\ handler' \in [Processes -> [Addresses -> Handlers]]
          /\ \A q \in Processes, b \in Addresses :
                \/ handler'[q][b] = handler[q][b]
                \/ q = p /\ b \in config[q]
        BY <1>4, <2>1, SignalFacts DEF Hangup, SocketInv
    <2>3. \A c \in config[p] : server[p][c] = "serving"
        BY <1>4 DEF Hangup
    <2>4. UNCHANGED <<status, family, offset, servers>>
        BY <1>4 DEF Hangup
    <2> QED
        BY <2>2, <2>3, <2>4, HandlersMove
<1>5. ASSUME NEW p \in Processes, Exits(p) \/ Dies(p) \/ Reap(p) PROVE SocketInv'
    <2>1. /\ UNCHANGED <<family, offset, servers, handler>>
          /\ status[p] # "unborn"
          /\ \E end \in {"exited", "reaped"} : status' = [status EXCEPT ![p] = end]
        BY <1>5 DEF Exits, Dies, Reap
    <2>2. \A q \in Processes : (status'[q] = "unborn") <=> (status[q] = "unborn")
        BY <2>1 DEF FamilyInv, Family
    <2> QED
        BY <1>1, <2>1, <2>2, HandlersMove
<1>6. CASE UNCHANGED vars
    BY <1>1, <1>6, HandlersMove DEF vars
<1> QED
    BY <1>2, <1>3, <1>4, <1>5, <1>6, ShutdownKeeps, StartChildKeeps DEF Next, Fork

\* The sockets stay with their addresses in every reachable state.
THEOREM SocketInvariance ==
    ASSUME OneConfig
    PROVE  Spec => [](FamilyInv /\ SocketInv)
<1>1. Init => SocketInv
    BY SocketInit
<1>2. FamilyInv /\ SocketInv /\ [Next]_vars => SocketInv'
    BY SocketStep
<1> QED
    BY <1>1, <1>2, FamilyInvariance, PTL DEF Spec

\* When all generations are configured alike, every server of every one of them, in
\* whatever order they registered, gets the socket of its own address or none (fork,
\* NewServer and getListener with socketPtrOffsetMap and ENDLESS_SOCKET_ORDER).
THEOREM OwnSocketInherited ==
    ASSUME OneConfig
    PROVE  Spec => []InheritsOwnSocket
<1>1. SocketInv => InheritsOwnSocket
    BY DEF SocketInv, Sockets
<1> QED
    BY SocketInvariance, <1>1, PTL

-----------------------------------------------------------------------------
(***************************************************************************)
(* No gap.  A child that has taken over one socket neither fails nor ends  *)
(* before its servers have been told to, and they are told by a child.     *)
(***************************************************************************)
\* Process r will not lose a without a successor: a socket taken over keeps it alive.
Firm(r, a) == Holds(r, a) /\ \E b \in Addresses : Listened(r, b)

\* A server that is bound or serves is one of a process that runs.
Lives ==
    \A p \in Processes, a \in Addresses :
        server[p][a] \in {"bound", "serving"} => status[p] = "running"

\* A child has the socket of every address, but for those its parent was stopping.
Bequest ==
    \A q \in Processes, a \in Served :
        parent[q] # 0 => HasFile(q, a) \/ server[parent[q]][a] = "stopping"

\* The server of a that stops, or whose handler is about to stop it, has a successor.
Covered ==
    \A p \in Processes, a \in Served :
        server[p][a] = "stopping" \/ handler[p][a] = "shutdown" =>
            \E r \in Processes : p < r /\ Firm(r, a)

GapInv == Lives /\ Bequest /\ Covered

\* What a step may do to a server, a process, a handler and what a process is given.
ServerMove(p, a) ==
    \/ server'[p][a] = server[p][a]
    \/ /\ status[p] = "running" /\ status' = status
       /\ \/ server[p][a] = "none" /\ server'[p][a] = "registered"
          \/ server[p][a] = "registered" /\ server'[p][a] = "bound"
          \/ server[p][a] = "registered" /\ server'[p][a] = "failed" /\ ~HasFile(p, a)
          \/ server[p][a] = "bound" /\ server'[p][a] = "serving"
          \/ /\ server[p][a] = "serving" /\ server'[p][a] = "stopping"
             /\ handler[p][a] = "shutdown" /\ files' = files
             /\ \A q \in Processes : q # p => server'[q] = server[q]

StatusMove(p) ==
    \/ status'[p] = status[p]
    \/ status[p] = "unborn" /\ status'[p] = "running"
    \/ /\ status[p] = "running" /\ server' = server
       /\ \/ \A a \in config[p] : server[p][a] \in {"stopping", "failed"}
          \/ \A a \in Addresses : server[p][a] \in {"none", "registered"}
    \/ status[p] \in {"exited", "panicked"} /\ status'[p] = "reaped"

HandlerMove(p, a) ==
    handler'[p][a] = "shutdown" =>
        \/ handler[p][a] = "shutdown"
        \/ \E q \in Processes, b \in Addresses :
              /\ parent[q] = p /\ p # 0 /\ a \in config[p]
              /\ status[q] = "running" /\ server'[q][b] = "serving"
              /\ status' = status

FamilyMove(q) ==
    IF status[q] # "unborn"
      THEN parent'[q] = parent[q] /\ files'[q] = files[q]
      ELSE parent'[q] # 0 =>
             \A a \in Served : HasFile(q, a)' \/ server'[parent'[q]][a] = "stopping"

Moves ==
    /\ \A p \in Processes : StatusMove(p) /\ FamilyMove(p)
    /\ \A p \in Processes, a \in Addresses : ServerMove(p, a) /\ HandlerMove(p, a)

\* A step of a server.
LEMMA ServerStepMoves ==
    ASSUME OneConfig, FamilyInv, SocketInv, NEW p \in Processes, NEW a \in Addresses,
           ServerStep(p, a)
    PROVE  Moves
<1>1. /\ server \in [Processes -> [Addresses -> Places]]
      /\ UNCHANGED <<status, family>> /\ status[p] = "running"
    BY DEF SocketInv, Types, ServerStep, NewServer, GetListener, KillParent, Serve,
       ServerGoes
<1>2. \A q \in Processes : StatusMove(q) /\ FamilyMove(q)
    BY <1>1 DEF StatusMove, FamilyMove, family, FamilyInv, Family
<1>3. ASSUME NEW from, NEW to \in Places, ServerGoes(p, a, from, to)
      PROVE  /\ server[p][a] = from /\ server'[p][a] = to
             /\ \A q \in Processes, b \in Addresses :
                   q # p \/ b # a => server'[q][b] = server[q][b]
    BY <1>1, <1>3 DEF ServerGoes, Set
<1>4. {"registered", "bound", "failed", "serving"} \subseteq Places
    BY DEF Places
<1>5. CASE NewServer(p, a) \/ Serve(p, a)
    BY <1>1, <1>2, <1>3, <1>4, <1>5 DEF Moves, ServerMove, HandlerMove, NewServer, Serve
<1>6. CASE GetListener(p, a)
    <2> DEFINE socket == IF parent[p] = 0 THEN a ELSE Inherited(p, a)
               to == IF socket = NoSocket THEN "failed" ELSE "bound"
    <2>1. ServerGoes(p, a, "registered", to) /\ handler' = handler
        BY <1>6 DEF GetListener
    <2>2. to \in {"bound", "failed"} /\ (to = "failed" => ~HasFile(p, a))
        BY <2>1, FindsOwnSocket, ServerForkAssumption DEF ServerGoes
    <2> HIDE DEF socket, to
    <2> QED
        BY <1>1, <1>2, <1>3, <1>4, <2>1, <2>2 DEF Moves, ServerMove, HandlerMove
<1>7. CASE KillParent(p, a)
    <2>1. ServerGoes(p, a, "bound", "serving")
        BY <1>7 DEF KillParent
    <2>2. \A q \in Processes, b \in Addresses : ServerMove(q, b)
        BY <1>1, <1>3, <1>4, <2>1 DEF ServerMove
    <2>3. CASE handler' = handler
        BY <1>2, <2>2, <2>3 DEF Moves, HandlerMove
    <2>4. CASE ParentRuns(p) /\ Signal(parent[p], "shutdown")
        <3>1. parent[p] \in Processes /\ parent[p] # 0
            BY <2>4, ServerForkAssumption DEF ParentRuns, FamilyInv, Family, Processes
        <3>2. \A q \in Processes, b \in Addresses :
                 \/ handler'[q][b] = handler[q][b]
                 \/ q = parent[p] /\ b \in config[q]
            <4>1. "shutdown" \in Handlers
                BY DEF Handlers
            <4> QED
                BY <2>4, <3>1, <4>1, SignalFacts DEF SocketInv
        <3>3. server'[p][a] = "serving"
            BY <1>3, <1>4, <2>1
        <3>4. \A q \in Processes, b \in Addresses : HandlerMove(q, b)
            BY <1>1, <3>1, <3>2, <3>3 DEF HandlerMove
        <3> QED
            BY <1>2, <2>2, <3>4 DEF Moves
    <2> QED
        BY <1>7, <2>3, <2>4 DEF KillParent
<1> QED
    BY <1>5, <1>6, <1>7 DEF ServerStep

\* A step that starts a child.
LEMMA StartChildMoves ==
    ASSUME OneConfig, FamilyInv, SocketInv, NEW p \in Processes, NEW a \in Addresses,
           StartChild(p, a)
    PROVE  Moves
<1>1. handler[p][a] = "fork" /\ handler' = Set(handler, p, a, "started") /\ server' = server
    BY DEF StartChild, HandlerGoes, servers
<1>2. PICK q \in Processes : \E c \in Configs : status[q] = "unborn" /\ Start(p, q, c)
    BY <1>1, StartsChild, ForkTables DEF StartChild
<1>3. /\ status'[q] = "running" /\ parent'[q] = p /\ files'[q] = Descriptors(p)
      /\ \A r \in Processes : r # q =>
            status'[r] = status[r] /\ parent'[r] = parent[r] /\ files'[r] = files[r]
      /\ status[q] = "unborn" /\ parent[q] = 0
    BY <1>2 DEF Start, FamilyInv, Family, SocketInv, Types
<1>4. ASSUME NEW b \in Served PROVE HasFile(q, b)' \/ server'[p][b] = "stopping"
    <2>1. PICK i \in 1..Number : OrderArgs(p)[i] = b
        BY <1>1, ForkTables DEF IsOrder
    <2>2. Descriptors(p)[i] = (IF server[p][b] = "stopping" THEN NoSocket ELSE b)
        BY <1>1, <2>1, ForkTables
    <2>3. i \in 1..Len(Descriptors(p))
        BY <1>1, ForkTables
    <2> QED
        BY <1>1, <1>3, <2>2, <2>3 DEF HasFile
<1>5. \A r \in Processes : StatusMove(r) /\ FamilyMove(r)
    BY <1>3, <1>4 DEF StatusMove, FamilyMove, FamilyInv, Family
<1>6. \A r \in Processes, b \in Addresses :
         handler'[r][b] = "shutdown" => handler[r][b] = "shutdown"
    BY <1>1 DEF Set, SocketInv, Types
<1> QED
    BY <1>1, <1>5, <1>6 DEF Moves, ServerMove, HandlerMove

\* What a step may do, when no child fails that has taken over a socket.
LEMMA StepMoves ==
    ASSUME OneConfig, ~CrashLate, FamilyInv, SocketInv, [Next]_vars
    PROVE  Moves
<1>1. ASSUME UNCHANGED <<status, family, server>>,
             \A p \in Processes, a \in Addresses :
                handler'[p][a] = "shutdown" => handler[p][a] = "shutdown"
      PROVE  Moves
    BY <1>1 DEF Moves, StatusMove, FamilyMove, ServerMove, HandlerMove, family,
                FamilyInv, Family
<1>2. ASSUME NEW p \in Processes, NEW a \in Addresses, ForkFails(p, a) \/ ForkReturns(p, a)
      PROVE  Moves
    <2>1. handler' = Set(handler, p, a, "idle") /\ UNCHANGED <<status, family, server>>
        BY <1>2 DEF ForkFails, ForkReturns, HandlerGoes, servers
    <2>2. \A q \in Processes, b \in Addresses :
             handler'[q][b] = "shutdown" => handler[q][b] = "shutdown"
        BY <2>1 DEF Set, SocketInv, Types
    <2> QED
        BY <1>1, <2>1, <2>2
<1>3. ASSUME NEW p \in Processes, Hangup(p) PROVE Moves
    <2>1. \A q \in Processes, b \in Addresses :
             handler'[q][b] = "shutdown" => handler[q][b] = "shutdown"
        <3>1. "fork" \in Handlers
            BY DEF Handlers
        <3> QED
            BY <1>3, <3>1, SignalFacts DEF Hangup, SocketInv
    <2> QED
        BY <1>1, <1>3, <2>1 DEF Hangup, servers
<1>4. ASSUME NEW p \in Processes, Exits(p) \/ Dies(p) \/ Reap(p) PROVE Moves
    <2>1. /\ UNCHANGED <<family, server, handler>>
          /\ \/ /\ status[p] = "running"
                /\ \/ \A a \in config[p] : server[p][a] \in {"stopping", "failed"}
                   \/ \A a \in Addresses : server[p][a] \in {"none", "registered"}
             \/ status[p] \in {"exited", "panicked"} /\ status'[p] = "reaped"
          /\ \A q \in Processes : q # p => status'[q] = status[q]
        BY <1>4 DEF Exits, Dies, Reap, servers, FamilyInv, Family
    <2> QED
        BY <2>1 DEF Moves, StatusMove, FamilyMove, ServerMove, HandlerMove, family,
                    FamilyInv, Family
<1>5. ASSUME NEW p \in Processes, NEW a \in Addresses, Shutdown(p, a) PROVE Moves
    <2>1. /\ status[p] = "running" /\ handler[p][a] = "shutdown"
          /\ handler' = Set(handler, p, a, "idle") /\ UNCHANGED <<status, family>>
          /\ server' = Set(server, p, a,
                           IF server[p][a] = "serving" THEN "stopping" ELSE server[p][a])
        BY <1>5 DEF Shutdown, HandlerGoes
    <2>2. \A q \in Processes, b \in Addresses :
             handler'[q][b] = "shutdown" => handler[q][b] = "shutdown"
        BY <2>1 DEF Set, SocketInv, Types
    <2>3. \A q \in Processes, b \in Addresses : ServerMove(q, b)
        BY <2>1 DEF Set, SocketInv, Types, ServerMove, family
    <2> QED
        BY <2>1, <2>2, <2>3 DEF Moves, StatusMove, FamilyMove, HandlerMove, family,
                                  FamilyInv, Family
<1>6. CASE UNCHANGED vars
    BY <1>1, <1>6 DEF vars, servers
<1> QED
    BY <1>2, <1>3, <1>4, <1>5, <1>6, ServerStepMoves, StartChildMoves DEF Next, Fork

\* What process r keeps, or hands on, from one state to the next.
LEMMA FirmStep ==
    ASSUME OneConfig, FamilyInv, SocketInv, SocketInv', Lives, Covered, Moves,
           NEW r \in Processes, NEW a \in Served, Firm(r, a)
    PROVE  \E s \in Processes : r <= s /\ Firm(s, a)'
<1>1. a \in Addresses /\ status[r] = "running" /\ config[r] = Served
    BY ServedFacts DEF Firm, Holds, SocketInv, Configured
<1>2. PICK b \in Addresses : Listened(r, b)
    BY DEF Firm
<1>3. Listened(r, b)'
    BY <1>2 DEF Listened, Moves, ServerMove
<1>4. b \in Served
    BY <1>1, <1>2 DEF Listened, SocketInv, Configured
<1>5. status'[r] = "running"
    <2>1. ~ \A c \in Addresses : server[r][c] \in {"none", "registered"}
        BY <1>2 DEF Listened
    <2>2. server[r][a] \notin {"stopping", "failed"}
        BY DEF Firm, Holds
    <2> QED
        BY <1>1, <2>1, <2>2 DEF Moves, StatusMove
<1>6. HasFile(r, a)' <=> HasFile(r, a)
    BY <1>1 DEF Moves, FamilyMove, HasFile
<1>7. CASE server'[r][a] = "stopping"
    <2>1. handler[r][a] = "shutdown" \/ server[r][a] = "stopping"
        BY <1>1, <1>7 DEF Moves, ServerMove
    <2>2. PICK s \in Processes : r < s /\ Firm(s, a)
        BY <2>1 DEF Covered
    <2>3. /\ status' = status /\ files' = files
          /\ \A q \in Processes : q # r => server'[q] = server[q]
        BY <1>1, <1>7 DEF Moves, ServerMove, Firm, Holds
    <2>4. s # r
        BY <2>2, ServerForkAssumption DEF Processes
    <2>5. Firm(s, a)'
        BY <2>2, <2>3, <2>4 DEF Firm, Holds, Listened
    <2> QED
        BY <2>2, <2>5, ServerForkAssumption DEF Processes
<1>8. CASE server'[r][a] # "stopping"
    <2>1. Holds(r, a)'
        BY <1>1, <1>5, <1>6, <1>8 DEF Firm, Holds, Moves, ServerMove, HasFile
    <2> QED
        BY <1>3, <2>1, ServerForkAssumption DEF Firm, Processes
<1> QED
    BY <1>7, <1>8

\* A process does not end on a server that is bound or serves.
LEMMA LivesStep ==
    ASSUME OneConfig, FamilyInv, SocketInv, Lives, Moves
    PROVE  Lives'
<1> SUFFICES ASSUME NEW p \in Processes, NEW a \in Addresses,
                    server'[p][a] \in {"bound", "serving"}
             PROVE  status'[p] = "running"
    BY DEF Lives
<1>1. server'[p][a] = server[p][a] \/ (status[p] = "running" /\ status' = status)
    BY DEF Moves, ServerMove
<1>2. ASSUME server'[p][a] = server[p][a] PROVE status'[p] = "running"
    <2>1. status[p] = "running" /\ a \in config[p]
        BY <1>2 DEF Lives, SocketInv, Configured
    <2> QED
        BY <1>2, <2>1 DEF Moves, StatusMove
<1> QED
    BY <1>1, <1>2

\* What a child was left it keeps, and a new one is left everything.
LEMMA BequestStep ==
    ASSUME OneConfig, FamilyInv, SocketInv, Bequest, Moves
    PROVE  Bequest'
<1> SUFFICES ASSUME NEW q \in Processes, NEW a \in Served, parent'[q] # 0
             PROVE  HasFile(q, a)' \/ server'[parent'[q]][a] = "stopping"
    BY DEF Bequest
<1>1. CASE status[q] = "unborn"
    BY <1>1 DEF Moves, FamilyMove
<1>2. CASE status[q] # "unborn"
    <2>1. parent'[q] = parent[q] /\ (HasFile(q, a)' <=> HasFile(q, a))
        BY <1>2 DEF Moves, FamilyMove, HasFile
    <2>2. parent[q] \in Processes /\ a \in Addresses
        BY <2>1, ServerForkAssumption, ServedFacts DEF FamilyInv, Family, Processes
    <2>3. server[parent[q]][a] = "stopping" => server'[parent[q]][a] = "stopping"
        BY <2>2 DEF Moves, ServerMove
    <2> QED
        BY <2>1, <2>3 DEF Bequest
<1> QED
    BY <1>1, <1>2

\* Whoever is told to stop is told by a child that holds the socket, or has a successor.
LEMMA CoveredStep ==
    ASSUME OneConfig, FamilyInv, SocketInv, SocketInv', Lives, Bequest, Covered, Moves
    PROVE  Covered'
<1> SUFFICES ASSUME NEW p \in Processes, NEW a \in Served,
                    server'[p][a] = "stopping" \/ handler'[p][a] = "shutdown"
             PROVE  \E r \in Processes : p < r /\ Firm(r, a)'
    BY DEF Covered
<1>1. a \in Addresses
    BY ServedFacts
<1>2. ASSUME NEW q \in Processes, p <= q, NEW r \in Processes, q < r, Firm(r, a)
      PROVE  \E s \in Processes : p < s /\ Firm(s, a)'
    <2>1. PICK s \in Processes : r <= s /\ Firm(s, a)'
        BY <1>2, FirmStep
    <2> QED
        BY <1>2, <2>1, ServerForkAssumption DEF Processes
<1>3. p <= p
    BY ServerForkAssumption DEF Processes
<1>4. CASE server[p][a] = "stopping" \/ handler[p][a] = "shutdown"
    BY <1>2, <1>3, <1>4 DEF Covered
<1>5. CASE ~(server[p][a] = "stopping" \/ handler[p][a] = "shutdown")
    <2>1. PICK q \in Processes, b \in Addresses :
             /\ parent[q] = p /\ p # 0
             /\ status[q] = "running" /\ server'[q][b] = "serving"
             /\ status' = status
        BY <1>1, <1>5 DEF Moves, ServerMove, HandlerMove
    <2>2. p < q /\ p <= q
        BY <2>1, ServerForkAssumption DEF FamilyInv, Family, Processes
    <2>3. HasFile(q, a)
        BY <1>5, <2>1 DEF Bequest
    <2>4. CASE server[q][a] = "stopping"
        BY <1>2, <2>2, <2>4 DEF Covered
    <2>5. CASE server[q][a] # "stopping"
        <3>1. server'[q][a] # "stopping" \/ handler[q][a] = "shutdown"
            BY <1>1, <2>5 DEF Moves, ServerMove
        <3>2. HasFile(q, a)'
            BY <2>1, <2>3 DEF Moves, FamilyMove, HasFile
        <3>3. server'[q][a] # "failed"
            BY <1>1, <3>2 DEF SocketInv, Failures
        <3>4. ASSUME server'[q][a] # "stopping" PROVE Firm(q, a)'
            <4>1. server'[q][a] \in {"none", "registered", "bound", "serving"}
                BY <1>1, <3>3, <3>4 DEF SocketInv, Types, Places
            <4> QED
                BY <2>1, <3>2, <4>1 DEF Firm, Holds, HasFile, Listened
        <3> QED
            BY <1>2, <2>2, <3>1, <3>4 DEF Covered
    <2> QED
        BY <2>4, <2>5
<1> QED
    BY <1>4, <1>5

\* When all generations are configured alike and no child fails that has taken over a
\* socket, an address that has been served is served or about to be, through any number
\* of restarts (fork, KillParent and shutdown of ftlserver/endless.go).
THEOREM ServedWithoutGap ==
    ASSUME OneConfig, ~CrashLate
    PROVE  Spec => []NoGap
<1>1. Init => GapInv
    <2> SUFFICES ASSUME Init PROVE GapInv
        OBVIOUS
    <2>1. /\ \A p \in Processes : parent[p] = 0
          /\ \A p \in Processes, a \in Addresses :
                server[p][a] = "none" /\ handler[p][a] = "idle"
        BY DEF Init, Each
    <2>2. Served \subseteq Addresses
        BY ServedFacts
    <2> QED
        BY <2>1, <2>2 DEF GapInv, Lives, Bequest, Covered
<1>2. FamilyInv /\ SocketInv /\ SocketInv' /\ GapInv /\ [Next]_vars => GapInv'
    BY StepMoves, LivesStep, BequestStep, CoveredStep DEF GapInv
<1>3. SocketInv /\ GapInv => NoGap
    <2> SUFFICES ASSUME SocketInv, GapInv, NEW p \in Processes, NEW a \in Addresses,
                        server[p][a] \in {"serving", "stopping"}
                 PROVE  \E r \in Processes : Holds(r, a)
        BY DEF NoGap
    <2>1. server[p][a] = "serving" => Holds(p, a)
        BY DEF GapInv, Lives, Holds
    <2>2. a \in Served
        BY DEF SocketInv, Configured
    <2>3. server[p][a] = "stopping" => \E r \in Processes : Firm(r, a)
        BY <2>2 DEF GapInv, Covered
    <2> QED
        BY <2>1, <2>3 DEF Firm
<1> QED
    BY <1>1, <1>2, <1>3, SocketInvariance, PTL DEF Spec

-----------------------------------------------------------------------------
(***************************************************************************)
(* The safety part of RestartCompletes.                                    *)
(***************************************************************************)
\* Server a of p has stopped, is about to, or missed the SIGTERM of its child's server b.
Told(p, a, b) ==
    server[p][a] = "stopping" \/ handler[p][a] = "shutdown" \/ <<p, a, b>> \in missed

\* The servers of a process that has started a child all serve, or did.
Forked ==
    \A q \in Processes, a \in Served :
        parent[q] # 0 => server[parent[q]][a] \in {"serving", "stopping"}

\* A server of a child that has taken over its socket has told the parent's.
Announced ==
    \A q \in Processes, a \in Served, b \in Served :
        ParentRuns(q) /\ server[q][b] \in {"serving", "stopping"} => Told(parent[q], a, b)

\* When a child has taken over every socket, each server of its parent stops, or its
\* handler was busy each time.
ParentTold ==
    \A q \in Processes :
        ParentRuns(q) /\ (\A b \in config[q] : server[q][b] \in {"serving", "stopping"}) =>
            \A a \in config[parent[q]] :
                \/ server[parent[q]][a] = "stopping"
                \/ handler[parent[q]][a] = "shutdown"
                \/ MissedAll(parent[q], q, a)

NeverPanics == \A p \in Processes : status[p] # "panicked"

\* The process that forks is a parent whose servers all serve, or did.
LEMMA ForkedStep ==
    ASSUME OneConfig, FamilyInv, SocketInv, Forked, [Next]_vars
    PROVE  Forked'
<1>1. ASSUME UNCHANGED parent,
             \A p \in Processes, a \in Addresses :
                server[p][a] \in {"serving", "stopping"} =>
                    server'[p][a] \in {"serving", "stopping"}
      PROVE  Forked'
    <2> SUFFICES ASSUME NEW q \in Processes, NEW a \in Served, parent[q] # 0
                 PROVE  server'[parent[q]][a] \in {"serving", "stopping"}
        BY <1>1 DEF Forked
    <2>1. parent[q] \in Processes /\ a \in Addresses
        BY ServerForkAssumption, ServedFacts DEF FamilyInv, Family, Processes
    <2> QED
        BY <1>1, <2>1 DEF Forked
<1>2. ASSUME UNCHANGED <<parent, server>> PROVE Forked'
    BY <1>1, <1>2
<1>3. ASSUME NEW p \in Processes, NEW a \in Addresses,
             NEW from \in Places \ {"serving", "stopping"}, NEW to,
             ServerGoes(p, a, from, to), UNCHANGED parent
      PROVE  Forked'
    <2>1. \A q \in Processes, b \in Addresses :
             server[q][b] \in {"serving", "stopping"} => server'[q][b] = server[q][b]
        BY <1>3 DEF ServerGoes, Set, SocketInv, Types
    <2> QED
        BY <1>1, <1>3, <2>1
<1>4. ASSUME NEW p \in Processes, NEW a \in Addresses, ServerStep(p, a) PROVE Forked'
    <2>1. {"none", "registered", "bound"} \subseteq Places \ {"serving", "stopping"}
        BY DEF Places
    <2> QED
        BY <1>3, <1>4, <2>1 DEF ServerStep, NewServer, GetListener, KillParent, Serve,
           family
<1>5. ASSUME NEW p \in Processes, NEW a \in Addresses, Shutdown(p, a) PROVE Forked'
    <2>1. \A q \in Processes, b \in Addresses :
             server[q][b] \in {"serving", "stopping"} =>
                 server'[q][b] \in {"serving", "stopping"}
        BY <1>5 DEF Shutdown, Set, SocketInv, Types
    <2> QED
        BY <1>1, <1>5, <2>1 DEF Shutdown, family
<1>6. ASSUME NEW p \in Processes, NEW a \in Addresses, StartChild(p, a) PROVE Forked'
    <2>1. handler[p][a] = "fork" /\ server' = server
        BY <1>6 DEF StartChild, HandlerGoes, servers
    <2>2. PICK q \in Processes : \E c \in Configs : status[q] = "unborn" /\ Start(p, q, c)
        BY <1>6, <2>1, StartsChild, ForkTables DEF StartChild
    <2>3. \A b \in Served : server[p][b] \in {"serving", "stopping"}
        BY <2>1, ForkTables DEF SocketInv, Sockets
    <2> QED
        BY <2>1, <2>2, <2>3 DEF Start, Forked, FamilyInv, Family
<1>7. ASSUME NEW p \in Processes, NEW a \in Addresses, ForkFails(p, a) \/ ForkReturns(p, a)
      PROVE  Forked'
    BY <1>2, <1>7 DEF ForkFails, ForkReturns, servers, family
<1>8. ASSUME NEW p \in Processes, Hangup(p) \/ Exits(p) \/ Dies(p) \/ Reap(p) PROVE Forked'
    BY <1>2, <1>8 DEF Hangup, Exits, Dies, Reap, servers, family
<1>9. CASE UNCHANGED vars
    BY <1>2, <1>9 DEF vars, servers, family
<1> QED
    BY <1>4, <1>5, <1>6, <1>7, <1>8, <1>9 DEF Next, Fork

\* Telling lasts, and a server that takes over its socket tells.
LEMMA AnnouncedStep ==
    ASSUME OneConfig, FamilyInv, SocketInv, Forked, Announced, [Next]_vars
    PROVE  Announced'
<1>1. \A q \in Processes : parent[q] # 0 => parent[q] \in Processes
    BY ServerForkAssumption DEF FamilyInv, Family, Processes
<1>2. Served \subseteq Addresses
    BY ServedFacts
<1>3. ASSUME \A q \in Processes :
                \/ ParentRuns(q)' => ParentRuns(q) /\ parent'[q] = parent[q]
                \/ \A b \in Served : server'[q][b] \notin {"serving", "stopping"},
             \A q \in Processes, b \in Served :
                server'[q][b] \in {"serving", "stopping"} =>
                    server[q][b] \in {"serving", "stopping"},
             \A p \in Processes, a, b \in Served :
                server[p][a] \in {"serving", "stopping"} /\ Told(p, a, b) => Told(p, a, b)'
      PROVE  Announced'
    <2> SUFFICES ASSUME NEW q \in Processes, NEW a \in Served, NEW b \in Served,
                        ParentRuns(q)', server'[q][b] \in {"serving", "stopping"}
                 PROVE  Told(parent[q], a, b)'
        BY DEF Announced
    <2>1. PICK p \in Processes : ParentRuns(q) /\ p = parent[q] /\ p = parent'[q]
        BY <1>1, <1>3 DEF ParentRuns
    <2>2. Told(p, a, b) /\ server[p][a] \in {"serving", "stopping"}
        BY <1>3, <2>1 DEF Announced, Forked, ParentRuns
    <2>3. Told(p, a, b)'
        BY <1>3, <2>2
    <2> QED
        BY <2>1, <2>3 DEF Told
<1>4. ASSUME UNCHANGED <<status, parent, missed>>,
             \A q \in Processes, b \in Served :
                /\ server'[q][b] \in {"serving", "stopping"} =>
                      server[q][b] \in {"serving", "stopping"}
                /\ server[q][b] = "stopping" => server'[q][b] = "stopping"
                /\ handler[q][b] = "shutdown" =>
                      \/ handler'[q][b] = "shutdown"
                      \/ server[q][b] = "serving" => server'[q][b] = "stopping"
      PROVE  Announced'
    <2>1. \A q \in Processes : ParentRuns(q)' => ParentRuns(q) /\ parent'[q] = parent[q]
        BY <1>4 DEF ParentRuns
    <2>2. \A p \in Processes, a, b \in Served :
             server[p][a] \in {"serving", "stopping"} /\ Told(p, a, b) => Told(p, a, b)'
        BY <1>4 DEF Told
    <2> QED
        BY <1>3, <1>4, <2>1, <2>2
<1>5. ASSUME NEW p \in Processes, NEW a \in Addresses, NewServer(p, a) \/ GetListener(p, a)
      PROVE  Announced'
    <2>1. /\ UNCHANGED <<status, parent, missed, handler>>
          /\ \E to \in {"registered", "failed", "bound"} : server' = Set(server, p, a, to)
          /\ server[p][a] \notin {"serving", "stopping"}
        BY <1>5 DEF NewServer, GetListener, ServerGoes, family
    <2> QED
        BY <1>2, <1>4, <2>1 DEF Set, SocketInv, Types
<1>6. ASSUME NEW p \in Processes, NEW a \in Addresses, KillParent(p, a) \/ Serve(p, a)
      PROVE  Announced'
    <2>1. /\ UNCHANGED <<status, parent, config>>
          /\ server[p][a] = "bound" /\ server' = Set(server, p, a, "serving")
        BY <1>6 DEF KillParent, Serve, ServerGoes, family
    <2>2. \A q \in Processes, b \in Addresses :
             q # p \/ b # a => server'[q][b] = server[q][b]
        BY <2>1 DEF Set, SocketInv, Types
    <2>3. \A q \in Processes, b \in Addresses :
             handler[q][b] = "shutdown" => handler'[q][b] = "shutdown"
        <3>1. CASE handler' = handler
            BY <3>1
        <3>2. CASE Signal(parent[p], "shutdown")
            BY <3>2 DEF Signal, SocketInv, Types
        <3> QED
            BY <1>6, <3>1, <3>2 DEF KillParent, Serve
    <2>4. missed \subseteq missed'
        BY <1>6 DEF KillParent, Serve
    <2>5. \A q \in Processes, b, c \in Served : Told(q, b, c) => Told(q, b, c)'
        BY <1>2, <2>1, <2>2, <2>3, <2>4 DEF Told
    <2>6. ASSUME ParentRuns(p), NEW pp \in Processes, pp = parent[p], NEW b \in Served
          PROVE  Told(pp, b, a)'
        <3>1. pp # 0 /\ config[pp] = Served
            BY <2>6 DEF ParentRuns, SocketInv, Configured
        <3>2. /\ Signal(pp, "shutdown")
              /\ missed' = missed \cup
                    {<<pp, c, a>> : c \in {c \in config[pp] : handler[pp][c] # "idle"}}
            BY <1>6, <2>6, <3>1 DEF KillParent, Serve
        <3>3. CASE handler[pp][b] = "idle"
            <4>1. handler'[pp][b] = "shutdown"
                BY <1>2, <3>1, <3>2, <3>3 DEF Signal, SocketInv, Types
            <4> QED
                BY <4>1 DEF Told
        <3>4. CASE handler[pp][b] # "idle"
            BY <3>1, <3>2, <3>4 DEF Told
        <3> QED
            BY <3>3, <3>4
    <2> SUFFICES ASSUME NEW q \in Processes, NEW b \in Served, NEW c \in Served,
                        ParentRuns(q)', server'[q][c] \in {"serving", "stopping"}
                 PROVE  Told(parent[q], b, c)'
        BY DEF Announced
    <2>7. PICK pp \in Processes : ParentRuns(q) /\ pp = parent[q] /\ pp = parent'[q]
        BY <1>1, <2>1 DEF ParentRuns
    <2>8. Told(pp, b, c)'
        <3>1. CASE q = p /\ c = a
            BY <2>6, <2>7, <3>1
        <3>2. CASE q # p \/ c # a
            BY <1>2, <2>2, <2>5, <2>7, <3>2 DEF Announced
        <3> QED
            BY <3>1, <3>2
    <2> QED
        BY <2>7, <2>8 DEF Told
<1>7. ASSUME NEW p \in Processes, NEW a \in Addresses, Shutdown(p, a) PROVE Announced'
    <2>1. /\ UNCHANGED <<status, parent, missed>>
          /\ handler' = Set(handler, p, a, "idle")
          /\ server' = Set(server, p, a,
                           IF server[p][a] = "serving" THEN "stopping" ELSE server[p][a])
        BY <1>7 DEF Shutdown, HandlerGoes, family
    <2>2. \A q \in Processes, b \in Addresses :
             IF q = p /\ b = a
               THEN server'[q][b] = IF server[q][b] = "serving"
                                      THEN "stopping" ELSE server[q][b]
               ELSE server'[q][b] = server[q][b] /\ handler'[q][b] = handler[q][b]
        BY <2>1 DEF Set, SocketInv, Types
    <2> QED
        BY <1>2, <1>4, <2>1, <2>2
<1>8. ASSUME NEW p \in Processes, NEW a \in Addresses, StartChild(p, a) PROVE Announced'
    <2>1. /\ handler[p][a] = "fork" /\ handler' = Set(handler, p, a, "started")
          /\ UNCHANGED <<server, missed>>
        BY <1>8 DEF StartChild, HandlerGoes, servers
    <2>2. PICK q \in Processes : \E c \in Configs : status[q] = "unborn" /\ Start(p, q, c)
        BY <1>8, <2>1, StartsChild, ForkTables DEF StartChild
    <2>3. \A b \in Addresses : server[q][b] = "none"
        BY <2>2 DEF SocketInv, Configured
    <2>4. \A r \in Processes : parent[r] # q
        BY <2>2, ServerForkAssumption DEF FamilyInv, Family, Processes
    <2>5. \A r \in Processes : r # q =>
             (ParentRuns(r)' => ParentRuns(r) /\ parent'[r] = parent[r])
        BY <1>1, <2>2, <2>4 DEF ParentRuns, Start, FamilyInv, Family
    <2>6. \A r \in Processes, b \in Addresses :
             handler[r][b] = "shutdown" => handler'[r][b] = "shutdown"
        BY <2>1 DEF Set, SocketInv, Types
    <2>7. \A r \in Processes, b, c \in Served : Told(r, b, c) => Told(r, b, c)'
        BY <1>2, <2>1, <2>6 DEF Told
    <2> QED
        BY <1>2, <1>3, <2>1, <2>3, <2>5, <2>7
<1>9. ASSUME NEW p \in Processes, NEW a \in Addresses, ForkFails(p, a) \/ ForkReturns(p, a)
      PROVE  Announced'
    <2>1. /\ UNCHANGED <<status, parent, missed, server>>
          /\ handler[p][a] # "shutdown" /\ handler' = Set(handler, p, a, "idle")
        BY <1>9 DEF ForkFails, ForkReturns, HandlerGoes, servers, family
    <2>2. \A q \in Processes, b \in Addresses :
             handler[q][b] = "shutdown" => handler'[q][b] = "shutdown"
        BY <2>1 DEF Set, SocketInv, Types
    <2> QED
        BY <1>2, <1>4, <2>1, <2>2
<1>10. ASSUME NEW p \in Processes, Hangup(p) PROVE Announced'
    <2>1. UNCHANGED <<status, parent, missed, server>> /\ Signal(p, "fork")
        BY <1>10 DEF Hangup, servers, family
    <2>2. \A q \in Processes, b \in Addresses :
             handler[q][b] = "shutdown" => handler'[q][b] = "shutdown"
        BY <2>1 DEF Signal, SocketInv, Types
    <2> QED
        BY <1>2, <1>4, <2>1, <2>2
<1>11. ASSUME NEW p \in Processes, Exits(p) \/ Dies(p) \/ Reap(p) PROVE Announced'
    <2>1. /\ UNCHANGED <<parent, server, handler, missed>>
          /\ \E end \in {"exited", "reaped"} : status' = [status EXCEPT ![p] = end]
        BY <1>11 DEF Exits, Dies, Reap, servers, family
    <2>2. \A q \in Processes : ParentRuns(q)' => ParentRuns(q) /\ parent'[q] = parent[q]
        BY <1>1, <2>1 DEF ParentRuns, FamilyInv, Family
    <2>3. \A q \in Processes, b, c \in Served : Told(q, b, c) => Told(q, b, c)'
        BY <2>1 DEF Told
    <2> QED
        BY <1>3, <2>1, <2>2, <2>3
<1>12. CASE UNCHANGED vars
    BY <1>4, <1>12 DEF vars, servers, family
<1> QED
    BY <1>5, <1>6, <1>7, <1>8, <1>9, <1>10, <1>11, <1>12 DEF Next, Fork, ServerStep

\* When all generations are configured alike, a parent hears of the sockets its child has
\* taken over unless it is busy (KillParent, handleSignals): what RestartCompletes then
\* asks of the scheduler is only that handlers and exits go on.
THEOREM ParentHears ==
    ASSUME OneConfig
    PROVE  Spec => []ParentTold
<1>1. Init => Forked /\ Announced
    BY DEF Init, Each, Forked, Announced, ParentRuns
<1>2. FamilyInv /\ SocketInv /\ Forked /\ Announced /\ [Next]_vars => Forked' /\ Announced'
    BY ForkedStep, AnnouncedStep
<1>3. FamilyInv /\ SocketInv /\ Announced => ParentTold
    <2> SUFFICES ASSUME FamilyInv, SocketInv, Announced, NEW q \in Processes, ParentRuns(q),
                        \A b \in config[q] : server[q][b] \in {"serving", "stopping"},
                        NEW a \in config[parent[q]]
                 PROVE  \/ server[parent[q]][a] = "stopping"
                        \/ handler[parent[q]][a] = "shutdown"
                        \/ MissedAll(parent[q], q, a)
        BY DEF ParentTold
    <2>1. config[q] \in {{}, Served} /\ config[parent[q]] = Served
        <3>1. parent[q] \in Processes
            BY ServerForkAssumption DEF ParentRuns, FamilyInv, Family, Processes
        <3> QED
            BY <3>1 DEF ParentRuns, SocketInv, Configured
    <2>2. \A b \in config[q] : Told(parent[q], a, b)
        BY <2>1 DEF Announced
    <2> QED
        BY <2>2 DEF Told, MissedAll
<1> QED
    BY <1>1, <1>2, <1>3, SocketInvariance, PTL DEF Spec

\* When all generations are configured alike, fork never finds a hole or an index out of
\* range in the tables it fills, nor a server without a listener.
THEOREM ForkNeverPanics ==
    ASSUME OneConfig
    PROVE  Spec => []NeverPanics
<1>1. Init => NeverPanics
    BY DEF Init, Each, NeverPanics
<1>2. FamilyInv /\ SocketInv /\ NeverPanics /\ [Next]_vars => NeverPanics'
    <2> SUFFICES ASSUME FamilyInv, SocketInv, NeverPanics, [Next]_vars PROVE NeverPanics'
        OBVIOUS
    <2>1. ASSUME status' = status PROVE NeverPanics'
        BY <2>1 DEF NeverPanics
    <2>2. ASSUME NEW p \in Processes, NEW end \in {"running", "exited", "reaped"},
                 status' = [status EXCEPT ![p] = end]
          PROVE  NeverPanics'
        BY <2>2 DEF NeverPanics, FamilyInv, Family
    <2>3. ASSUME NEW p \in Processes, NEW a \in Addresses, StartChild(p, a)
          PROVE  NeverPanics'
        <3>1. handler[p][a] = "fork"
            BY <2>3 DEF StartChild, HandlerGoes
        <3>2. PICK q \in Processes : \E c \in Configs : Start(p, q, c)
            BY <2>3, <3>1, ForkTables DEF StartChild
        <3> QED
            BY <2>2, <3>2 DEF Start
    <2>4. ASSUME NEW p \in Processes, Exits(p) \/ Dies(p) \/ Reap(p) PROVE NeverPanics'
        BY <2>2, <2>4 DEF Exits, Dies, Reap
    <2>5. ASSUME NEW p \in Processes, NEW a \in Addresses,
                 ServerStep(p, a) \/ ForkFails(p, a) \/ ForkReturns(p, a) \/ Shutdown(p, a)
          PROVE  NeverPanics'
        BY <2>1, <2>5, QuietSteps DEF Quiet
    <2>6. ASSUME NEW p \in Processes, Hangup(p) PROVE NeverPanics'
        BY <2>1, <2>6 DEF Hangup
    <2> QED
        BY <2>1, <2>3, <2>4, <2>5, <2>6 DEF Next, Fork, vars
<1> QED
    BY <1>1, <1>2, SocketInvariance, PTL DEF Spec

-----------------------------------------------------------------------------
(***************************************************************************)
(* The certificate cache.  What makes UsableWhenServed inductive is that a *)
(* certificate on its way to the cache already meets it.                   *)
(***************************************************************************)
\* A certificate that expires at e is good for a call that began at s.
Good(e, s) == e > s + Margin \/ e = CAEnds

\* What is made during a call is good for it, and so is what has been served.
CertInv ==
    /\ TypeOK
    /\ \A p \in Callers : started[p] <= now
    /\ \A p \in Callers : pc[p] = "store" => Good(made[p], started[p])
    /\ UsableWhenServed

\* The initial states satisfy the invariant: nothing has been served.
LEMMA CertInitHolds == CertInit => CertInv
<1> SUFFICES ASSUME CertInit PROVE CertInv
    OBVIOUS
<1>1. 0 \in Nat /\ 0 \in 0..CAEnds
    BY CertAssumption
<1>2. TypeOK
    <2>1. now \in Nat /\ sweepTime \in Nat /\ sweeping \in BOOLEAN
        BY <1>1 DEF CertInit
    <2>2. todo \subseteq Keys /\ found \subseteq Keys
        BY DEF CertInit
    <2>3. /\ cache \in [Keys -> 0..CAEnds \cup {NoCert}]
          /\ served \in [Callers -> 0..CAEnds \cup {NoCert}]
        BY DEF CertInit
    <2>4. started \in [Callers -> Nat] /\ made \in [Callers -> 0..CAEnds]
        BY <1>1 DEF CertInit
    <2>5. /\ pc \in [Callers -> {"idle", "delete", "generate", "store"}]
          /\ key \in [Callers -> Keys]
        BY DEF CertInit
    <2> QED
        BY <2>1, <2>2, <2>3, <2>4, <2>5 DEF TypeOK
<1>3. \A p \in Callers : started[p] <= now
    <2>1. \A p \in Callers : started[p] = 0 /\ now = 0
        BY DEF CertInit
    <2>2. 0 <= 0
        OBVIOUS
    <2> QED
        BY <2>1, <2>2, Zenon
<1>4. \A p \in Callers : pc[p] = "store" => Good(made[p], started[p])
    BY DEF CertInit
<1>5. UsableWhenServed
    BY DEF CertInit, UsableWhenServed
<1> QED
    BY <1>2, <1>3, <1>4, <1>5 DEF CertInv

\* A certificate made during a call is good for it, and the CA's end bounds it.
LEMMA MadeIsGood ==
    ASSUME CertInv, NEW p \in Callers
    PROVE  NotAfter \in 0..CAEnds /\ Good(NotAfter, started[p])
BY CertAssumption DEF CertInv, TypeOK, NotAfter, Good

\* Every step keeps the invariant.
LEMMA CertStepHolds == CertInv /\ [CertNext]_certVars => CertInv'
<1> SUFFICES ASSUME CertInv, [CertNext]_certVars PROVE CertInv'
    OBVIOUS
<1> USE CertAssumption
<1>1. ASSUME NEW p \in Callers, NEW k \in Keys, Hit(p, k) PROVE CertInv'
    BY <1>1 DEF CertInv, TypeOK, UsableWhenServed, Good, Hit, At, Fresh, sweep
<1>2. ASSUME NEW p \in Callers, NEW k \in Keys, Miss(p, k) PROVE CertInv'
    BY <1>2 DEF CertInv, TypeOK, UsableWhenServed, Good, Miss, At, sweep
<1>3. ASSUME NEW p \in Callers, DeleteStale(p) PROVE CertInv'
    BY <1>3 DEF CertInv, TypeOK, UsableWhenServed, Good, DeleteStale, At, call, sweep
<1>4. ASSUME NEW p \in Callers, Generate(p) PROVE CertInv'
    <2> DEFINE e == NotAfter
    <2>1. e \in 0..CAEnds /\ Good(e, started[p])
        BY MadeIsGood
    <2>2. made' = [made EXCEPT ![p] = e]
        BY <1>4 DEF Generate
    <2> HIDE DEF e
    <2> QED
        BY <1>4, <2>1, <2>2 DEF CertInv, TypeOK, UsableWhenServed, Good, Generate, At, sweep
<1>5. ASSUME NEW p \in Callers, GenerateFails(p) PROVE CertInv'
    BY <1>5 DEF CertInv, TypeOK, UsableWhenServed, Good, GenerateFails, At, call, sweep
<1>6. ASSUME NEW p \in Callers, Store(p) PROVE CertInv'
    BY <1>6 DEF CertInv, TypeOK, UsableWhenServed, Good, Store, At, call, sweep
<1>7. CASE BeginSweep
    BY <1>7 DEF CertInv, TypeOK, UsableWhenServed, Good, BeginSweep, call
<1>8. ASSUME NEW k \in Keys, SweepVisits(k) \/ SweepDeletes(k) PROVE CertInv'
    BY <1>8 DEF CertInv, TypeOK, UsableWhenServed, Good, SweepVisits, SweepDeletes, call
<1>9. CASE EndSweep
    BY <1>9 DEF CertInv, TypeOK, UsableWhenServed, Good, EndSweep, call
<1>10. CASE Tick
    BY <1>10 DEF CertInv, TypeOK, UsableWhenServed, Good, Tick, call, sweep
<1>11. CASE UNCHANGED certVars
    BY <1>11 DEF CertInv, TypeOK, UsableWhenServed, Good, certVars, call, sweep
<1> QED
    BY <1>1, <1>2, <1>3, <1>4, <1>5, <1>6, <1>7, <1>8, <1>9, <1>10, <1>11 DEF CertNext

\* The inductive invariant holds in every reachable state.
THEOREM CertInvariance == CertSpec => []CertInv
BY CertInitHolds, CertStepHolds, PTL DEF CertSpec

\* Every certificate that GenerateCertificate returns outlasts the margin, counted
\* from the beginning of the call, unless the CA itself ends.
THEOREM ServedIsUsable == CertSpec => []UsableWhenServed
<1>1. CertInv => UsableWhenServed
    BY DEF CertInv
<1> QED
    BY CertInvariance, <1>1, PTL
=============================================================================
