--------------------------- MODULE DeploymentProofs ---------------------------
(***************************************************************************)
(* However the environment variables wire the processes, a simulation no   *)
(* two restarts of which overlap is run once at a time; where they fit     *)
(* together, no command misses its row and no simulation is stranded.  By  *)
(* induction, one simulation at a time: it has one row in one table at     *)
(* most, it is ignited, waits or is run once, and what waits or is run is  *)
(* RUNNING.                                                                *)
(***************************************************************************)
EXTENDS Deployments, TLAPS, FiniteSetTheorems

(* The topics in which a command for s waits. *)
Waits(s) == {f \in Profiles : \E i \in DOMAIN jobs[f] : jobs[f][i] = s}

(* No two commands for s wait. *)
Once(s) == \A c, d \in Commands(s) : c = d

Running(f) == [profile |-> f, state |-> "RUNNING"]

(* s is ignited once, or waits once, or is run by one process, or none. *)
Single(s) ==
    /\ \A c, d \in Igniting(s) : c = d
    /\ \A p, q \in Drivers(s) : p = q
    /\ Once(s)
    /\ Drivers(s) = {} \/ Waits(s) = {}
    /\ Igniting(s) = {} \/ (Drivers(s) = {} /\ Waits(s) = {})

(* No two tables have a row of s. *)
OneRow(s) ==
    \A t, u \in Stores : rows[t][s] # NoRow /\ rows[u][s] # NoRow => t = u

(* Who ignites s has its only row in his table, which says what the        *)
(* request made of it so far.                                              *)
Ignited(s) ==
    \A c \in Igniting(s) :
        /\ req[c].at \in Orchestrators
        /\ \A t \in Stores : rows[t][s] # NoRow => t = Store(req[c].at)
        /\ rows[Store(req[c].at)][s] =
             [profile |-> req[c].profile,
              state |-> IF req[c].pc = "save" THEN "FINISHED" ELSE "RUNNING"]

DriversHaveRows(s) ==
    \A p \in Drivers(s) : State(Store(p), s) = "RUNNING"

(* Whatever row of s exists while a command waits is the one it is for. *)
WaitingIsRunning(s) ==
    \A f \in Waits(s), t \in Stores : rows[t][s] # NoRow => rows[t][s] = Running(f)

(* CommandsFindRows, for the commands for s. *)
WaitingHasRow(s) ==
    Coherent /\ (Durable \/ crashes = 0) =>
        \A f \in Waits(s), p \in Processes : Bus(p) = "redis" => rows[Store(p)][s] # NoRow

(* NothingStranded, for s. *)
Cared(s) ==
    Coherent /\ crashes = 0 =>
        \A t \in Stores :
            State(t, s) = "RUNNING" /\ Serves(t, rows[t][s].profile) =>
                \/ Igniting(s) # {}
                \/ rows[t][s].profile \in Waits(s)
                \/ \E p \in Drivers(s) :
                    /\ Store(p) = t
                    /\ config[p].SIMULATION_PROFILE = rows[t][s].profile

SimInv(s) ==
    /\ Single(s)
    /\ OneRow(s)
    /\ Ignited(s)
    /\ DriversHaveRows(s)
    /\ WaitingIsRunning(s)
    /\ WaitingHasRow(s)
    /\ Cared(s)

IInv == TypeOK /\ \A s \in Sims : SimInv(s)

-----------------------------------------------------------------------------
(* The wiring does not change. *)

LEMMA StoreIsStore == \A p \in Processes : Store(p) \in Stores
BY DEF Store, Stores

LEMMA WiringStays ==
    ASSUME config' = config
    PROVE  /\ Orchestrators' = Orchestrators
           /\ Stores' = Stores
           /\ \A p : Store(p)' = Store(p)
           /\ \A p : Bus(p)' = Bus(p)
           /\ Coherent' = Coherent
           /\ Durable' = Durable
           /\ \A t, f : Serves(t, f)' = Serves(t, f)
<1>1. Orchestrators' = Orchestrators
  BY DEF Orchestrators
<1>2. \A p : Store(p)' = Store(p)
  BY DEF Store
<1>3. \A p : Bus(p)' = Bus(p)
  BY <1>1 DEF Bus
<1>4. Coherent' = Coherent
  BY <1>2, <1>3 DEF Coherent
<1>5. Durable' = Durable
  BY <1>2, <1>3 DEF Durable
<1>6. \A t, f : Serves(t, f)' = Serves(t, f)
  BY <1>2 DEF Serves
<1>7. Stores' = Stores
  BY DEF Stores
<1> QED
  BY <1>1, <1>2, <1>3, <1>4, <1>5, <1>6, <1>7

LEMMA RunningType == \A f \in Profiles : Running(f) \in Row /\ Running(f) # NoRow
BY DeploymentAssumption DEF Running, Row

(* What a type-correct table says of s. *)
LEMMA StateOfRow ==
    ASSUME TypeOK, NEW t \in Stores, NEW s \in Sims
    PROVE  /\ State(t, s) \in {NoRow, "RUNNING", "FINISHED"}
           /\ State(t, s) = NoRow <=> rows[t][s] = NoRow
           /\ rows[t][s] # NoRow => rows[t][s] \in Row /\ State(t, s) = rows[t][s].state
           /\ State(t, s) = "RUNNING" => rows[t][s] = Running(rows[t][s].profile)
<1>1. rows[t][s] \in Row \cup {NoRow}
  BY DEF TypeOK
<1>2. \A r \in Row : r.state \in {"RUNNING", "FINISHED"}
                     /\ (r.state = "RUNNING" => r = Running(r.profile))
  BY DEF Row, Running
<1>3. NoRow \notin {"RUNNING", "FINISHED"}
  BY DeploymentAssumption
<1> QED
  BY <1>1, <1>2, <1>3 DEF State

-----------------------------------------------------------------------------
(* What queues do to the commands. *)

LEMMA Emptied ==
    ASSUME NEW s \in Sims
    PROVE  Commands(s) = {} <=> Waits(s) = {}
<1>1. ASSUME NEW f \in Waits(s)
      PROVE  \E c : c \in Commands(s)
  <2>1. PICK i \in DOMAIN jobs[f] : jobs[f][i] = s
    BY <1>1 DEF Waits
  <2>2. <<f, i>> \in Commands(s)
    BY <1>1, <2>1 DEF Commands, Waits
  <2> QED
    BY <2>2
<1>2. ASSUME NEW c \in Commands(s)
      PROVE  \E f : f \in Waits(s)
  BY <1>2 DEF Commands, Waits
<1> QED
  BY <1>1, <1>2

LEMMA AppendRead ==
    ASSUME NEW q \in Seq(Sims), NEW x \in Sims
    PROVE  \A i, s : i \in DOMAIN Append(q, x) /\ Append(q, x)[i] = s
                 <=> (i \in DOMAIN q /\ q[i] = s) \/ (i = Len(q) + 1 /\ s = x)
<1>1. /\ DOMAIN q = 1 .. Len(q)
      /\ DOMAIN Append(q, x) = 1 .. Len(q) + 1
      /\ Len(q) \in Nat
      /\ \A i \in 1 .. Len(q) : Append(q, x)[i] = q[i]
      /\ Append(q, x)[Len(q) + 1] = x
  OBVIOUS
<1>2. 1 .. Len(q) + 1 = 1 .. Len(q) \cup {Len(q) + 1} /\ Len(q) + 1 \notin 1 .. Len(q)
  BY <1>1
<1> QED
  BY <1>1, <1>2

LEMMA TailRead ==
    ASSUME NEW q \in Seq(Sims), q # << >>
    PROVE  /\ Tail(q) \in Seq(Sims)
           /\ Head(q) \in Sims
           /\ 1 \in DOMAIN q /\ q[1] = Head(q)
           /\ \A i \in DOMAIN Tail(q) : i \in Nat /\ i + 1 \in DOMAIN q /\ Tail(q)[i] = q[i + 1]
           /\ \A i \in DOMAIN q : i # 1 => /\ i \in Nat /\ i - 1 \in DOMAIN Tail(q)
                                           /\ Tail(q)[i - 1] = q[i]
<1>1. /\ DOMAIN q = 1 .. Len(q)
      /\ Len(q) \in Nat /\ Len(q) # 0
      /\ Head(q) = q[1]
      /\ Tail(q) \in Seq(Sims)
      /\ DOMAIN Tail(q) = 1 .. Len(q) - 1
      /\ \A i \in 1 .. Len(q) - 1 : Tail(q)[i] = q[i + 1]
  OBVIOUS
<1>2. 1 \in 1 .. Len(q)
  BY <1>1
<1>3. \A i \in 1 .. Len(q) - 1 : i \in Nat /\ i + 1 \in 1 .. Len(q)
  BY <1>1
<1>4. \A i \in 1 .. Len(q) : i # 1 => i \in Nat /\ i - 1 \in 1 .. Len(q) - 1 /\ (i - 1) + 1 = i
  BY <1>1
<1>5. q[1] \in Sims
  BY <1>1, <1>2
<1> QED
  BY <1>1, <1>2, <1>3, <1>4, <1>5

(* A command joins a topic. *)
LEMMA Enqueue ==
    ASSUME TypeOK, NEW f \in Profiles, NEW x \in Sims,
           jobs' = [jobs EXCEPT ![f] = Append(@, x)]
    PROVE  /\ \A s \in Sims \ {x} : Waits(s)' = Waits(s) /\ Once(s)' = Once(s)
           /\ Waits(x) = {} => Waits(x)' = {f} /\ Once(x)'
<1> DEFINE q == jobs[f]
<1>1. q \in Seq(Sims) /\ jobs \in [Profiles -> Seq(Sims)]
  BY DEF TypeOK
<1>2. \A g \in Profiles : jobs'[g] = IF g = f THEN Append(q, x) ELSE jobs[g]
  BY <1>1
<1>3. \A g \in Profiles : \A i, s :
        i \in DOMAIN jobs'[g] /\ jobs'[g][i] = s
            <=> (i \in DOMAIN jobs[g] /\ jobs[g][i] = s) \/ (g = f /\ i = Len(q) + 1 /\ s = x)
  BY <1>1, <1>2, AppendRead
<1> HIDE DEF q
<1>4. ASSUME NEW s \in Sims \ {x}
      PROVE  Waits(s)' = Waits(s) /\ Once(s)' = Once(s)
  <2>1. \A g \in Profiles : \A i :
          i \in DOMAIN jobs'[g] /\ jobs'[g][i] = s <=> i \in DOMAIN jobs[g] /\ jobs[g][i] = s
    BY <1>3, <1>4
  <2>2. Waits(s)' = Waits(s)
    BY <2>1 DEF Waits
  <2>3. Commands(s)' = Commands(s)
    BY <2>1 DEF Commands
  <2> QED
    BY <2>2, <2>3 DEF Once
<1>5. ASSUME Waits(x) = {}
      PROVE  Waits(x)' = {f} /\ Once(x)'
  <2>1. \A g \in Profiles : \A i : ~(i \in DOMAIN jobs[g] /\ jobs[g][i] = x)
    BY <1>5 DEF Waits
  <2>2. \A g \in Profiles : \A i :
          i \in DOMAIN jobs'[g] /\ jobs'[g][i] = x <=> g = f /\ i = Len(q) + 1
    <3> SUFFICES ASSUME NEW g \in Profiles, NEW i
                 PROVE  i \in DOMAIN jobs'[g] /\ jobs'[g][i] = x <=> g = f /\ i = Len(q) + 1
      OBVIOUS
    <3>1. i \in DOMAIN jobs'[g] /\ jobs'[g][i] = x
             <=> (i \in DOMAIN jobs[g] /\ jobs[g][i] = x) \/ (g = f /\ i = Len(q) + 1 /\ x = x)
      BY <1>3
    <3> QED
      BY <2>1, <3>1
  <2>3. Waits(x)' = {f}
    BY <2>2 DEF Waits
  <2>4. \A c \in Commands(x)' : c = <<f, Len(q) + 1>>
    BY <2>2 DEF Commands
  <2> QED
    BY <2>3, <2>4 DEF Once
<1> QED
  BY <1>4, <1>5

(* A command leaves a topic. *)
LEMMA Dequeue ==
    ASSUME TypeOK, NEW f \in Profiles, NEW q \in Seq(Sims), NEW x \in Sims,
           q = jobs[f], q # << >>, x = Head(q),
           jobs' = [jobs EXCEPT ![f] = Tail(@)]
    PROVE  /\ f \in Waits(x)
           /\ \A s \in Sims \ {x} : Waits(s)' = Waits(s) /\ (Once(s) => Once(s)')
           /\ Once(x) => Waits(x)' = {} /\ Once(x)'
<1>1. q \in Seq(Sims) /\ jobs \in [Profiles -> Seq(Sims)] /\ q # << >>
  BY DEF TypeOK
<1>2. \A g \in Profiles : jobs'[g] = IF g = f THEN Tail(q) ELSE jobs[g]
  BY <1>1
<1>3. /\ x \in Sims
      /\ 1 \in DOMAIN q /\ q[1] = x
      /\ \A i \in DOMAIN Tail(q) : i \in Nat /\ i + 1 \in DOMAIN q /\ Tail(q)[i] = q[i + 1]
      /\ \A i \in DOMAIN q : i # 1 => /\ i \in Nat /\ i - 1 \in DOMAIN Tail(q)
                                      /\ Tail(q)[i - 1] = q[i]
  BY <1>1, TailRead
<1>4. f \in Waits(x)
  BY <1>3 DEF Waits
<1> DEFINE Old(g, i) == IF g = f THEN i + 1 ELSE i
<1>5. ASSUME NEW g \in Profiles, NEW i \in DOMAIN jobs'[g]
      PROVE  /\ Old(g, i) \in DOMAIN jobs[g]
             /\ jobs[g][Old(g, i)] = jobs'[g][i]
             /\ g = f => i \in Nat \ {0}
  <2>1. CASE g = f
    <3>1. i \in DOMAIN Tail(q)
      BY <1>2, <1>5, <2>1
    <3>2. i \in Nat \ {0}
      BY <1>1, <3>1
    <3>3. Old(g, i) = i + 1 /\ jobs'[g] = Tail(q) /\ jobs[g] = q
      BY <1>2, <2>1
    <3>4. i + 1 \in DOMAIN q /\ Tail(q)[i] = q[i + 1]
      BY <1>3, <3>1
    <3> QED
      BY <3>2, <3>3, <3>4
  <2>2. CASE g # f
    BY <1>2, <1>5, <2>2
  <2> QED
    BY <2>1, <2>2
<1>6. \A s, g, i : g \in Profiles /\ i \in DOMAIN jobs[g] /\ jobs[g][i] = s
                     <=> g \in Profiles /\ i \in DOMAIN jobs[g] /\ jobs[g][i] = s /\ <<g, i>> \in Commands(s)
  BY DEF Commands
<1>7. ASSUME NEW s \in Sims, Once(s)
      PROVE  \A c, d \in Commands(s)' : c = d
  <2>1. ASSUME NEW g \in Profiles, NEW i \in DOMAIN jobs'[g], jobs'[g][i] = s,
               NEW h \in Profiles, NEW j \in DOMAIN jobs'[h], jobs'[h][j] = s
        PROVE  <<g, i>> = <<h, j>>
    <3>1. <<g, Old(g, i)>> \in Commands(s) /\ <<h, Old(h, j)>> \in Commands(s)
      <4> HIDE DEF Old
      <4> QED
        BY <1>5, <1>6, <2>1
    <3>2. <<g, Old(g, i)>> = <<h, Old(h, j)>>
      BY <1>7, <3>1 DEF Once
    <3>3. CASE g = f
      <4>1. i \in Nat /\ j \in Nat
        BY <1>5, <2>1, <3>2, <3>3
      <4>2. i + 1 = j + 1
        BY <3>2, <3>3
      <4> QED
        BY <4>1, <4>2, <3>2
    <3>4. CASE g # f
      BY <3>2, <3>4
    <3> QED
      BY <3>3, <3>4
  <2>2. \A c \in Commands(s)' : \E g \in Profiles : \E i \in DOMAIN jobs'[g] :
           jobs'[g][i] = s /\ c = <<g, i>>
    BY DEF Commands
  <2> QED
    BY <2>1, <2>2
<1>8. ASSUME NEW s \in Sims \ {x}
      PROVE  Waits(s)' = Waits(s)
  <2>1. ASSUME NEW g \in Profiles, NEW i \in DOMAIN jobs'[g], jobs'[g][i] = s
        PROVE  \E j \in DOMAIN jobs[g] : jobs[g][j] = s
    BY <1>2, <1>3, <2>1
  <2>2. ASSUME NEW g \in Profiles, NEW i \in DOMAIN jobs[g], jobs[g][i] = s
        PROVE  \E j \in DOMAIN jobs'[g] : jobs'[g][j] = s
    <3>1. CASE g = f
      <4>1. i # 1
        BY <1>3, <1>8, <2>2, <3>1
      <4>2. jobs'[g] = Tail(q) /\ i \in DOMAIN q /\ q[i] = s
        BY <1>2, <2>2, <3>1
      <4>3. i - 1 \in DOMAIN jobs'[g] /\ jobs'[g][i - 1] = s
        BY <1>3, <4>1, <4>2
      <4> QED
        BY <4>3
    <3>2. CASE g # f
      BY <1>2, <2>2, <3>2
    <3> QED
      BY <3>1, <3>2
  <2> QED
    BY <2>1, <2>2 DEF Waits
<1>9. ASSUME Once(x)
      PROVE  Waits(x)' = {}
  <2>1. ASSUME NEW g \in Profiles, NEW i \in DOMAIN jobs'[g], jobs'[g][i] = x
        PROVE  FALSE
    <3>1. <<g, Old(g, i)>> \in Commands(x)
      <4> HIDE DEF Old
      <4> QED
        BY <1>5, <1>6, <2>1
    <3>2. <<f, 1>> \in Commands(x)
      BY <1>3, <1>6
    <3>3. <<g, Old(g, i)>> = <<f, 1>>
      BY <1>9, <3>1, <3>2 DEF Once
    <3>4. i \in Nat \ {0}
      BY <1>5, <2>1, <3>3
    <3> QED
      BY <3>3, <3>4
  <2> QED
    BY <2>1 DEF Waits
<1>10. Once(x) => Once(x)'
  BY <1>3, <1>7 DEF Once
<1>11. \A s \in Sims \ {x} : Once(s) => Once(s)'
  BY <1>7 DEF Once
<1> QED
  BY <1>3, <1>4, <1>8, <1>9, <1>10, <1>11

-----------------------------------------------------------------------------
(* What a step leaves alone keeps its invariant. *)

LEMMA UntouchedStep ==
    ASSUME config' = config, crashes' = crashes, NEW s \in Sims, SimInv(s),
           \A t \in Stores : rows'[t][s] = rows[t][s],
           \A p \in Processes : s \in driving'[p] <=> s \in driving[p],
           Waits(s)' = Waits(s), Once(s) => Once(s)',
           Igniting(s)' = Igniting(s), \A c \in Igniting(s) : req'[c] = req[c]
    PROVE  SimInv(s)'
<1> USE WiringStays, StoreIsStore
<1>1. Drivers(s)' = Drivers(s)
  BY DEF Drivers
<1>2. \A t \in Stores : State(t, s)' = State(t, s)
  BY DEF State
<1>3. Single(s)'
  BY <1>1 DEF SimInv, Single
<1>4. OneRow(s)'
  BY DEF SimInv, OneRow
<1>4a. Ignited(s)'
  <2>1. \A c \in Igniting(s) : req[c].at \in Orchestrators /\ req[c].at \in Processes
    BY DEF SimInv, Ignited, Orchestrators
  <2> QED
    BY <2>1 DEF SimInv, Ignited
<1>5. DriversHaveRows(s)'
  <2>1. \A p \in Drivers(s) : p \in Processes /\ State(Store(p), s) = "RUNNING"
    BY DEF SimInv, DriversHaveRows, Drivers
  <2>2. \A p \in Drivers(s) : State(Store(p), s)' = "RUNNING"
    BY <2>1 DEF State
  <2> QED
    BY <1>1, <2>2 DEF DriversHaveRows
<1>6. WaitingIsRunning(s)'
  BY DEF SimInv, WaitingIsRunning, Running
<1>7. WaitingHasRow(s)'
  BY DEF SimInv, WaitingHasRow
<1>8. Cared(s)'
  BY <1>1, <1>2 DEF SimInv, Cared
<1> QED
  BY <1>3, <1>4, <1>4a, <1>5, <1>6, <1>7, <1>8 DEF SimInv

LEMMA IdleIsNone == \A r \in Ignition : r # Idle
BY DEF Ignition, Idle

(* A request of client c for s begins or goes on. *)
LEMMA Asks ==
    ASSUME TypeOK, NEW c \in Clients, NEW s \in Sims, NEW r \in Ignition, r.sim = s,
           req[c] # Idle => req[c].sim = s,
           req' = [req EXCEPT ![c] = r]
    PROVE  /\ req' \in [Clients -> {Idle} \cup Ignition]
           /\ req'[c] = r
           /\ \A x \in Sims \ {s} :
                  Igniting(x)' = Igniting(x) /\ \A d \in Igniting(x) : req'[d] = req[d]
           /\ Igniting(s)' = Igniting(s) \cup {c}
<1>1. req \in [Clients -> {Idle} \cup Ignition] /\ r # Idle
  BY IdleIsNone DEF TypeOK
<1>2. /\ req' \in [Clients -> {Idle} \cup Ignition]
      /\ \A d \in Clients : req'[d] = IF d = c THEN r ELSE req[d]
  BY <1>1
<1>3. ASSUME NEW x \in Sims \ {s}
      PROVE  Igniting(x)' = Igniting(x) /\ \A d \in Igniting(x) : req'[d] = req[d]
  <2>1. c \notin Igniting(x)
    BY <1>3 DEF Igniting
  <2> QED
    BY <1>2, <1>3, <2>1 DEF Igniting
<1>4. Igniting(s)' = Igniting(s) \cup {c}
  BY <1>1, <1>2 DEF Igniting
<1> QED
  BY <1>2, <1>3, <1>4

(* It is answered. *)
LEMMA Answered ==
    ASSUME TypeOK, NEW c \in Clients, NEW s \in Sims, req[c].sim = s,
           req' = [req EXCEPT ![c] = Idle]
    PROVE  /\ req' \in [Clients -> {Idle} \cup Ignition]
           /\ \A x \in Sims \ {s} :
                  Igniting(x)' = Igniting(x) /\ \A d \in Igniting(x) : req'[d] = req[d]
           /\ Igniting(s)' = Igniting(s) \ {c}
<1>1. req \in [Clients -> {Idle} \cup Ignition]
  BY DEF TypeOK
<1>2. /\ req' \in [Clients -> {Idle} \cup Ignition]
      /\ \A d \in Clients : req'[d] = IF d = c THEN Idle ELSE req[d]
  BY <1>1
<1>3. ASSUME NEW x \in Sims \ {s}
      PROVE  Igniting(x)' = Igniting(x) /\ \A d \in Igniting(x) : req'[d] = req[d]
  <2>1. c \notin Igniting(x)
    BY <1>3 DEF Igniting
  <2> QED
    BY <1>2, <1>3, <2>1 DEF Igniting
<1>4. Igniting(s)' = Igniting(s) \ {c}
  BY <1>2 DEF Igniting
<1> QED
  BY <1>2, <1>3, <1>4

(* What the open request of a client says. *)
Asked(c, o, s, f, e) ==
    /\ req[c].at = o /\ req[c].sim = s /\ req[c].profile = f /\ req[c].event = e
    /\ \A n \in {"save", "publish", "dispatch"} :
          [req[c] EXCEPT !.pc = n] = [pc |-> n, at |-> o, sim |-> s, profile |-> f, event |-> e]
    /\ Igniting(s) = {c}
    /\ Drivers(s) = {} /\ Waits(s) = {}
    /\ \A t \in Stores : rows[t][s] # NoRow => t = Store(o)
    /\ req[c].pc # "save" => rows[Store(o)][s] = Running(f)

LEMMA RequestRead ==
    ASSUME IInv, NEW c \in Clients, req[c] # Idle
    PROVE  \E o \in Orchestrators, s \in Sims, f \in Profiles, e \in {"started", "restarted"} :
              Asked(c, o, s, f, e)
<1>1. req[c] \in Ignition
  BY DEF IInv, TypeOK
<1>2. PICK s \in Sims : s = req[c].sim
  BY <1>1 DEF Ignition
<1>3. c \in Igniting(s) /\ SimInv(s)
  BY <1>2 DEF Igniting, IInv
<1>4. Igniting(s) = {c} /\ Drivers(s) = {} /\ Waits(s) = {}
  BY <1>3 DEF SimInv, Single
<1>5. /\ req[c].at \in Orchestrators
      /\ \A t \in Stores : rows[t][s] # NoRow => t = Store(req[c].at)
      /\ rows[Store(req[c].at)][s] =
           [profile |-> req[c].profile,
            state |-> IF req[c].pc = "save" THEN "FINISHED" ELSE "RUNNING"]
  BY <1>3 DEF SimInv, Ignited
<1>6. \A n \in {"save", "publish", "dispatch"} :
        [req[c] EXCEPT !.pc = n] =
            [pc |-> n, at |-> req[c].at, sim |-> s, profile |-> req[c].profile,
             event |-> req[c].event]
  BY <1>1, <1>2 DEF Ignition
<1>7. req[c].profile \in Profiles /\ req[c].event \in {"started", "restarted"}
  BY <1>1 DEF Ignition
<1>8. Asked(c, req[c].at, s, req[c].profile, req[c].event)
  BY <1>2, <1>4, <1>5, <1>6 DEF Asked, Running
<1> QED
  BY <1>5, <1>7, <1>8

(* What Save makes of the tables. *)
LEMMA SaveRead ==
    ASSUME TypeOK, NEW p \in Processes, NEW s \in Sims, NEW row \in Row, Save(p, s, row)
    PROVE  /\ rows' \in [Stores -> [Sims -> Row \cup {NoRow}]]
           /\ \A t \in Stores, x \in Sims :
                  rows'[t][x] = IF t = Store(p) /\ x = s THEN row ELSE rows[t][x]
<1>1. rows \in [Stores -> [Sims -> Row \cup {NoRow}]] /\ Store(p) \in Stores
  BY StoreIsStore DEF TypeOK
<1>2. rows' = [rows EXCEPT ![Store(p)] = [rows[Store(p)] EXCEPT ![s] = row]]
  BY DEF Save
<1>3. [rows[Store(p)] EXCEPT ![s] = row] \in [Sims -> Row \cup {NoRow}]
  BY <1>1
<1>4. rows' \in [Stores -> [Sims -> Row \cup {NoRow}]]
  BY <1>1, <1>2, <1>3
<1>5. \A t \in Stores :
        rows'[t] = IF t = Store(p) THEN [rows[Store(p)] EXCEPT ![s] = row] ELSE rows[t]
  BY <1>1, <1>2
<1> QED
  BY <1>1, <1>4, <1>5

(* What a dispatched RUN command does. *)
LEMMA DispatchRead ==
    ASSUME TypeOK, NEW o \in Orchestrators, NEW s \in Sims, NEW f \in Profiles,
           DispatchRun(o, s, f)
    PROVE  /\ jobs' \in [Profiles -> Seq(Sims)]
           /\ driving' \in [Processes -> SUBSET Sims]
           /\ \A x \in Sims \ {s} :
                  /\ Waits(x)' = Waits(x) /\ Once(x)' = Once(x)
                  /\ \A p \in Processes : x \in driving'[p] <=> x \in driving[p]
           /\ Waits(s) = {} /\ Drivers(s) = {} =>
                  /\ Once(s)'
                  /\ \/ Bus(o) = "redis" /\ Waits(s)' = {f} /\ Drivers(s)' = {}
                     \/ /\ Bus(o) # "redis" /\ Waits(s)' = {}
                        /\ Drivers(s)' = IF f = config[o].SIMULATION_PROFILE THEN {o} ELSE {}
<1> USE DEF TypeOK
<1>1. o \in Processes
  BY DEF Orchestrators
<1>2. CASE Bus(o) = "redis"
  <2>1. jobs' = [jobs EXCEPT ![f] = Append(@, s)] /\ driving' = driving
    BY <1>2 DEF DispatchRun
  <2>2. jobs' \in [Profiles -> Seq(Sims)]
    BY <2>1
  <2>3. Drivers(s)' = Drivers(s)
    BY <2>1 DEF Drivers
  <2> QED
    BY <1>2, <2>1, <2>2, <2>3, Enqueue
<1>3. CASE Bus(o) # "redis"
  <2>1. jobs' = jobs /\ \A p \in Processes : driving'[p] =
            IF p = o /\ f = config[o].SIMULATION_PROFILE THEN driving[p] \cup {s} ELSE driving[p]
    BY <1>1, <1>3 DEF DispatchRun
  <2>2. driving' \in [Processes -> SUBSET Sims]
    <3>1. driving[o] \cup {s} \in SUBSET Sims
      BY <1>1
    <3> QED
      BY <1>1, <1>3, <3>1 DEF DispatchRun
  <2>3. \A x : Waits(x)' = Waits(x) /\ Commands(x)' = Commands(x)
    BY <2>1 DEF Waits, Commands
  <2>4. \A x : Once(x)' = Once(x)
    BY <2>3 DEF Once
  <2>5. Waits(s) = {} => Once(s)
    BY Emptied DEF Once
  <2>6. Drivers(s) = {} => Drivers(s)' = IF f = config[o].SIMULATION_PROFILE THEN {o} ELSE {}
    BY <1>1, <2>1 DEF Drivers
  <2> QED
    BY <1>3, <2>1, <2>2, <2>3, <2>4, <2>5, <2>6
<1> QED
  BY <1>2, <1>3

-----------------------------------------------------------------------------
(* What the steps do to the simulation they are about. *)

(* An ignition saves: s has no row, or the one of its own table, and       *)
(* neither waits nor is run, nor is another request igniting it.           *)
LEMMA IgniteStep ==
    ASSUME IInv, NEW c \in Clients, NEW o \in Orchestrators, NEW s \in Sims, NEW f \in Profiles,
           NEW r \in Ignition,
           r.pc = "publish", r.at = o, r.sim = s, r.profile = f,
           req[c] # Idle => req[c].sim = s, Igniting(s) \subseteq {c},
           req' = [req EXCEPT ![c] = r],
           \A t \in Stores : rows[t][s] # NoRow => t = Store(o),
           Drivers(s) = {}, Waits(s) = {},
           Save(o, s, Running(f)), UNCHANGED <<config, jobs, driving, crashes>>
    PROVE  /\ rows' \in [Stores -> [Sims -> Row \cup {NoRow}]]
           /\ req' \in [Clients -> {Idle} \cup Ignition]
           /\ \A x \in Sims : SimInv(x)'
<1> USE WiringStays
<1>1. TypeOK /\ o \in Processes /\ Store(o) \in Stores
  BY StoreIsStore DEF IInv, Orchestrators
<1>2. Running(f) \in Row /\ Running(f) # NoRow
  BY RunningType
<1>3. /\ rows' \in [Stores -> [Sims -> Row \cup {NoRow}]]
      /\ \A t \in Stores, x \in Sims :
             rows'[t][x] = IF t = Store(o) /\ x = s THEN Running(f) ELSE rows[t][x]
  BY <1>1, <1>2, SaveRead
<1>4. /\ req' \in [Clients -> {Idle} \cup Ignition]
      /\ req'[c] = r
      /\ \A x \in Sims \ {s} :
             Igniting(x)' = Igniting(x) /\ \A d \in Igniting(x) : req'[d] = req[d]
      /\ Igniting(s)' = {c}
  <2>1. /\ req' \in [Clients -> {Idle} \cup Ignition]
        /\ req'[c] = r
        /\ \A x \in Sims \ {s} :
               Igniting(x)' = Igniting(x) /\ \A d \in Igniting(x) : req'[d] = req[d]
        /\ Igniting(s)' = Igniting(s) \cup {c}
    BY <1>1, Asks
  <2> QED
    BY <2>1
<1>5. /\ \A x : Waits(x)' = Waits(x) /\ Commands(x)' = Commands(x)
      /\ \A x : Drivers(x)' = Drivers(x)
  BY DEF Waits, Commands, Drivers
<1>6. \A x : Once(x)' = Once(x)
  BY <1>5 DEF Once
<1>7. ASSUME NEW x \in Sims \ {s}
      PROVE  SimInv(x)'
  BY <1>3, <1>4, <1>5, <1>6, <1>7, UntouchedStep DEF IInv
<1>8. /\ rows'[Store(o)][s] = Running(f)
      /\ \A t \in Stores : t # Store(o) => rows'[t][s] = NoRow
  BY <1>1, <1>3
<1>9. Single(s)'
  BY <1>4, <1>5, <1>6 DEF Single, IInv, SimInv
<1>10. OneRow(s)'
  BY <1>8 DEF OneRow
<1>11. Ignited(s)'
  BY <1>4, <1>8 DEF Ignited, Running
<1>12. DriversHaveRows(s)' /\ WaitingIsRunning(s)' /\ WaitingHasRow(s)'
  BY <1>5 DEF DriversHaveRows, WaitingIsRunning, WaitingHasRow
<1>13. Cared(s)'
  BY <1>4 DEF Cared
<1>14. SimInv(s)'
  BY <1>9, <1>10, <1>11, <1>12, <1>13 DEF SimInv
<1> QED
  BY <1>3, <1>4, <1>7, <1>14

(* An ignition sends its command. *)
LEMMA SendStep ==
    ASSUME IInv, NEW c \in Clients, NEW o \in Orchestrators, NEW s \in Sims, NEW f \in Profiles,
           req[c].sim = s, Igniting(s) = {c}, req' = [req EXCEPT ![c] = Idle],
           \A t \in Stores : rows[t][s] # NoRow => t = Store(o),
           rows[Store(o)][s] = Running(f),
           Drivers(s) = {}, Waits(s) = {},
           DispatchRun(o, s, f), UNCHANGED <<config, rows, crashes>>
    PROVE  /\ jobs' \in [Profiles -> Seq(Sims)]
           /\ driving' \in [Processes -> SUBSET Sims]
           /\ req' \in [Clients -> {Idle} \cup Ignition]
           /\ \A x \in Sims : SimInv(x)'
<1>0. config' = config /\ crashes' = crashes /\ rows' = rows
  OBVIOUS
<1> USE <1>0, WiringStays
<1>1. TypeOK /\ o \in Processes /\ Store(o) \in Stores
  BY StoreIsStore DEF IInv, Orchestrators
<1>2. Running(f) \in Row /\ Running(f) # NoRow
      /\ Running(f).state = "RUNNING" /\ Running(f).profile = f
  BY RunningType DEF Running
<1>3. /\ req' \in [Clients -> {Idle} \cup Ignition]
      /\ \A x \in Sims \ {s} :
             Igniting(x)' = Igniting(x) /\ \A d \in Igniting(x) : req'[d] = req[d]
      /\ Igniting(s)' = {}
  <2>1. /\ req' \in [Clients -> {Idle} \cup Ignition]
        /\ \A x \in Sims \ {s} :
               Igniting(x)' = Igniting(x) /\ \A d \in Igniting(x) : req'[d] = req[d]
        /\ Igniting(s)' = Igniting(s) \ {c}
    BY <1>1, Answered
  <2> QED
    BY <2>1
<1>4. /\ jobs' \in [Profiles -> Seq(Sims)]
      /\ driving' \in [Processes -> SUBSET Sims]
      /\ \A x \in Sims \ {s} :
             /\ Waits(x)' = Waits(x) /\ Once(x)' = Once(x)
             /\ \A p \in Processes : x \in driving'[p] <=> x \in driving[p]
      /\ Once(s)'
      /\ \/ Bus(o) = "redis" /\ Waits(s)' = {f} /\ Drivers(s)' = {}
         \/ /\ Bus(o) # "redis" /\ Waits(s)' = {}
            /\ Drivers(s)' = IF f = config[o].SIMULATION_PROFILE THEN {o} ELSE {}
  BY <1>1, DispatchRead
<1>5. ASSUME NEW x \in Sims \ {s}
      PROVE  SimInv(x)'
  BY <1>3, <1>4, <1>5, UntouchedStep DEF IInv
<1>6. /\ rows'[Store(o)][s] = Running(f)
      /\ \A t \in Stores : t # Store(o) => rows'[t][s] = NoRow
  BY <1>1
<1>7. Single(s)'
  BY <1>3, <1>4 DEF Single
<1>8. OneRow(s)' /\ Ignited(s)'
  BY <1>3, <1>6 DEF OneRow, Ignited
<1>9. State(Store(o), s)' = "RUNNING"
  BY <1>2, <1>6 DEF State
<1>10. DriversHaveRows(s)'
  <2>1. \A p \in Drivers(s)' : p = o
    BY <1>4
  <2> QED
    BY <1>9, <2>1 DEF DriversHaveRows
<1>11. WaitingIsRunning(s)'
  <2>1. \A g \in Waits(s)' : g = f
    BY <1>4
  <2> QED
    BY <1>6, <2>1 DEF WaitingIsRunning, Running
<1>12. WaitingHasRow(s)'
  <2> SUFFICES ASSUME Coherent, Waits(s)' # {}, NEW p \in Processes, Bus(p) = "redis"
               PROVE  rows'[Store(p)][s] # NoRow
    BY DEF WaitingHasRow
  <2>1. Bus(o) = "redis"
    BY <1>4
  <2>2. Store(p) = Store(o)
    BY <1>1, <2>1 DEF Coherent
  <2> QED
    BY <1>2, <1>6, <2>2
<1>13. Cared(s)'
  <2> SUFFICES ASSUME Coherent, NEW t \in Stores, State(t, s)' = "RUNNING",
                      Serves(t, rows[t][s].profile)'
               PROVE  \/ rows'[t][s].profile \in Waits(s)'
                      \/ \E p \in Drivers(s)' :
                           /\ Store(p) = t
                           /\ config[p].SIMULATION_PROFILE = rows'[t][s].profile
    BY DEF Cared
  <2>1. t = Store(o)
    BY <1>6, DeploymentAssumption DEF State
  <2>2. rows'[t][s].profile = f
    BY <1>2, <1>6, <2>1
  <2>3. CASE Bus(o) = "redis"
    BY <1>4, <2>2, <2>3
  <2>4. CASE Bus(o) # "redis"
    <3>1. PICK p \in Processes : Store(p) = Store(o) /\ config[p].SIMULATION_PROFILE = f
      BY <2>1, <2>2 DEF Serves, Store
    <3>2. Bus(p) = Bus(o)
      BY <1>1, <3>1 DEF Coherent
    <3>3. p = o
      BY <2>4, <3>2 DEF Bus
    <3>4. o \in Drivers(s)'
      BY <1>4, <2>4, <3>1, <3>3
    <3> QED
      BY <2>1, <2>2, <3>1, <3>3, <3>4
  <2> QED
    BY <2>3, <2>4
<1>14. SimInv(s)'
  BY <1>7, <1>8, <1>10, <1>11, <1>12, <1>13 DEF SimInv
<1> QED
  BY <1>3, <1>4, <1>5, <1>14

(* The end of a run. *)
LEMMA EndStep ==
    ASSUME IInv, NEW p \in Processes, NEW s \in driving[p], Ends(p, s),
           UNCHANGED <<config, req, jobs, crashes>>
    PROVE  /\ rows' \in [Stores -> [Sims -> Row \cup {NoRow}]]
           /\ driving' \in [Processes -> SUBSET Sims]
           /\ \A x \in Sims : SimInv(x)'
<1> USE WiringStays
<1>1. TypeOK /\ s \in Sims /\ Store(p) \in Stores /\ SimInv(s) /\ p \in Drivers(s)
  BY StoreIsStore DEF IInv, TypeOK, Drivers
<1> DEFINE row == [rows[Store(p)][s] EXCEPT !.state = "FINISHED"]
<1>2. State(Store(p), s) = "RUNNING"
  BY <1>1 DEF SimInv, DriversHaveRows
<1>3. rows[Store(p)][s] \in Row /\ rows[Store(p)][s] # NoRow
  BY <1>1, <1>2, StateOfRow, DeploymentAssumption
<1>4. row \in Row /\ row.state = "FINISHED"
  BY <1>3 DEF Row
<1>5. Save(p, s, row)
  BY DEF Ends
<1> HIDE DEF row
<1>6. /\ rows' \in [Stores -> [Sims -> Row \cup {NoRow}]]
      /\ \A t \in Stores, x \in Sims :
             rows'[t][x] = IF t = Store(p) /\ x = s THEN row ELSE rows[t][x]
  BY <1>1, <1>4, <1>5, SaveRead
<1>7. /\ driving' \in [Processes -> SUBSET Sims]
      /\ \A q \in Processes : \A x : x \in driving'[q] <=> x \in driving[q] /\ ~(q = p /\ x = s)
  <2>1. driving' = [driving EXCEPT ![p] = @ \ {s}] /\ driving \in [Processes -> SUBSET Sims]
    BY <1>1 DEF Ends, TypeOK
  <2> QED
    BY <2>1
<1>8. \A x : Waits(x)' = Waits(x) /\ Commands(x)' = Commands(x) /\ Igniting(x)' = Igniting(x)
  BY DEF Waits, Commands, Igniting
<1>9. \A x : Once(x)' = Once(x)
  BY <1>8 DEF Once
<1>10. ASSUME NEW x \in Sims \ {s}
       PROVE  SimInv(x)'
  BY <1>6, <1>7, <1>8, <1>9, <1>10, UntouchedStep DEF IInv
<1>11. Drivers(s)' = {} /\ Waits(s)' = {} /\ Igniting(s)' = {}
  <2>1. \A q \in Drivers(s) : q = p
    BY <1>1 DEF SimInv, Single
  <2>2. Waits(s) = {} /\ Igniting(s) = {}
    BY <1>1 DEF SimInv, Single
  <2> QED
    BY <1>7, <1>8, <2>1, <2>2 DEF Drivers
<1>12. \A t \in Stores : t # Store(p) => rows'[t][s] = NoRow
  BY <1>1, <1>3, <1>6 DEF SimInv, OneRow
<1>13. rows'[Store(p)][s] = row /\ row # NoRow
  BY <1>1, <1>4, <1>6, DeploymentAssumption DEF Row
<1>14. \A t \in Stores : State(t, s)' # "RUNNING"
  BY <1>4, <1>12, <1>13, DeploymentAssumption DEF State
<1>15. Single(s)'
  BY <1>1, <1>9, <1>11 DEF SimInv, Single
<1>16. OneRow(s)' /\ Ignited(s)'
  BY <1>11, <1>12 DEF OneRow, Ignited
<1>17. DriversHaveRows(s)' /\ WaitingIsRunning(s)' /\ WaitingHasRow(s)'
  BY <1>11 DEF DriversHaveRows, WaitingIsRunning, WaitingHasRow
<1>18. Cared(s)'
  BY <1>14 DEF Cared
<1>19. SimInv(s)'
  BY <1>15, <1>16, <1>17, <1>18 DEF SimInv
<1> QED
  BY <1>6, <1>7, <1>10, <1>19

(* A RUN consumer takes a command. *)
LEMMA TakeStep ==
    ASSUME IInv, NEW p \in Processes, TakeRun(p)
    PROVE  /\ jobs' \in [Profiles -> Seq(Sims)]
           /\ driving' \in [Processes -> SUBSET Sims]
           /\ \A x \in Sims : SimInv(x)'
<1>1. /\ TypeOK /\ Store(p) \in Stores
      /\ config[p].SIMULATION_PROFILE \in Profiles
  BY StoreIsStore DEF IInv, TypeOK, Config
<1>2. PICK f \in Profiles : f = config[p].SIMULATION_PROFILE
  BY <1>1
<1>3. PICK q, s : q = jobs[f] /\ s = Head(q)
  OBVIOUS
<1>4. /\ Bus(p) = "redis" /\ q # << >>
      /\ jobs' = [jobs EXCEPT ![f] = Tail(@)]
      /\ driving' = IF rows[Store(p)][s] = NoRow THEN driving
                    ELSE [driving EXCEPT ![p] = @ \cup {s}]
      /\ UNCHANGED <<config, req, rows, crashes>>
  BY <1>2, <1>3 DEF TakeRun
<1>5. /\ s \in Sims
      /\ f \in Waits(s)
      /\ \A x \in Sims \ {s} : Waits(x)' = Waits(x) /\ (Once(x) => Once(x)')
      /\ Once(s) => Waits(s)' = {} /\ Once(s)'
  <2>1. q \in Seq(Sims) /\ s \in Sims
    BY <1>1, <1>3, <1>4, TailRead DEF TypeOK
  <2> QED
    BY <1>1, <1>3, <1>4, <2>1, Dequeue
<1>6. SimInv(s) /\ Once(s) /\ Drivers(s) = {} /\ Waits(s)' = {} /\ Once(s)' /\ Igniting(s) = {}
  BY <1>5 DEF IInv, SimInv, Single
<1>6a. \A x : Igniting(x)' = Igniting(x)
  BY <1>4 DEF Igniting
<1>7. jobs' \in [Profiles -> Seq(Sims)]
  <2>1. Tail(q) \in Seq(Sims)
    BY <1>1, <1>3, <1>4, TailRead DEF TypeOK
  <2> QED
    BY <1>1, <1>3, <1>4, <2>1 DEF TypeOK
<1>8. /\ driving' \in [Processes -> SUBSET Sims]
      /\ \A r \in Processes : \A x :
             x \in driving'[r] <=>
                 x \in driving[r] \/ (r = p /\ x = s /\ rows[Store(p)][s] # NoRow)
  <2>1. driving \in [Processes -> SUBSET Sims]
    BY <1>1 DEF TypeOK
  <2> QED
    BY <1>4, <1>5, <2>1
<1>9. ASSUME NEW x \in Sims \ {s}
      PROVE  SimInv(x)'
  BY <1>4, <1>5, <1>6a, <1>8, <1>9, UntouchedStep DEF IInv
<1>10. Drivers(s)' = IF rows[Store(p)][s] = NoRow THEN {} ELSE {p}
  BY <1>6, <1>8 DEF Drivers
<1> USE <1>4, WiringStays
<1>11. Single(s)'
  BY <1>6, <1>6a, <1>10 DEF Single
<1>12. OneRow(s)' /\ Ignited(s)'
  BY <1>6, <1>6a DEF SimInv, OneRow, Ignited
<1>13. ASSUME rows[Store(p)][s] # NoRow
       PROVE  rows[Store(p)][s] = Running(f) /\ State(Store(p), s)' = "RUNNING"
  <2>1. rows[Store(p)][s] = Running(f)
    BY <1>1, <1>5, <1>6, <1>13 DEF SimInv, WaitingIsRunning
  <2> QED
    BY <1>13, <2>1 DEF State, Running
<1>14. DriversHaveRows(s)'
  BY <1>10, <1>13 DEF DriversHaveRows
<1>15. WaitingIsRunning(s)' /\ WaitingHasRow(s)'
  BY <1>6 DEF WaitingIsRunning, WaitingHasRow
<1>16. Cared(s)'
  <2> SUFFICES ASSUME Coherent, crashes = 0, NEW t \in Stores, State(t, s)' = "RUNNING"
               PROVE  \E r \in Drivers(s)' :
                           /\ Store(r) = t
                           /\ config[r].SIMULATION_PROFILE = rows'[t][s].profile
    BY DEF Cared
  <2>1. rows[Store(p)][s] # NoRow
    BY <1>5, <1>6 DEF SimInv, WaitingHasRow
  <2>2. rows[t][s] # NoRow
    BY DeploymentAssumption DEF State
  <2>3. t = Store(p)
    BY <1>1, <1>6, <2>1, <2>2 DEF SimInv, OneRow
  <2>4. rows[t][s].profile = f
    BY <1>13, <2>1, <2>3 DEF Running
  <2> QED
    BY <1>2, <1>10, <2>1, <2>3, <2>4
<1>17. SimInv(s)'
  BY <1>11, <1>12, <1>14, <1>15, <1>16 DEF SimInv
<1> QED
  BY <1>7, <1>8, <1>9, <1>17

(* A process dies and is started again. *)
LEMMA CrashStep ==
    ASSUME IInv, NEW p \in Processes, Crash(p)
    PROVE  /\ TypeOK'
           /\ \A s \in Sims : SimInv(s)'
<1>1. TypeOK
  BY DEF IInv
<1>2. /\ UNCHANGED <<config, jobs, aborts, news>>
      /\ crashes' = crashes + 1
      /\ req' = [c \in Clients |-> IF req[c] # Idle /\ req[c].at = p THEN Idle ELSE req[c]]
      /\ rows' = [rows EXCEPT ![p] = [s \in Sims |-> NoRow]]
      /\ driving' = [driving EXCEPT ![p] = {}]
      /\ told' = [told EXCEPT ![p] = [s \in Sims |-> Silence]]
  BY DEF Crash
<1>3. p \in Stores /\ p # "postgres"
  BY DeploymentAssumption DEF Stores
<1>4. TypeOK'
  <2>1. [s \in Sims |-> NoRow] \in [Sims -> Row \cup {NoRow}]
    OBVIOUS
  <2>2. rows' \in [Stores -> [Sims -> Row \cup {NoRow}]]
    BY <1>1, <1>2, <2>1 DEF TypeOK
  <2>3. driving' \in [Processes -> SUBSET Sims]
    BY <1>1, <1>2 DEF TypeOK
  <2>4. told' \in [Processes -> [Sims -> {"started", "restarted", "finished", Silence}]]
    BY <1>1, <1>2 DEF TypeOK
  <2>5. crashes' \in Nat
    BY <1>1, <1>2 DEF TypeOK
  <2>6. req' \in [Clients -> {Idle} \cup Ignition]
    BY <1>1, <1>2 DEF TypeOK
  <2> QED
    BY <1>1, <1>2, <2>2, <2>3, <2>4, <2>5, <2>6, WiringStays DEF TypeOK
<1>5. ASSUME NEW s \in Sims
      PROVE  SimInv(s)'
  <2> USE WiringStays
  <2>1. SimInv(s)
    BY DEF IInv
  <2>2. \A t \in Stores : rows'[t][s] = IF t = p THEN NoRow ELSE rows[t][s]
    BY <1>1, <1>2, <1>3 DEF TypeOK
  <2>3. Drivers(s)' = Drivers(s) \ {p}
    BY <1>1, <1>2 DEF Drivers, TypeOK
  <2>4. Waits(s)' = Waits(s) /\ Commands(s)' = Commands(s)
    BY <1>2 DEF Waits, Commands
  <2>4a. \A c \in Igniting(s)' : c \in Igniting(s) /\ req'[c] = req[c] /\ req[c].at # p
    BY <1>2 DEF Igniting
  <2>5. Single(s)'
    BY <2>1, <2>3, <2>4, <2>4a DEF SimInv, Single, Once
  <2>6. OneRow(s)'
    BY <1>2, <2>1, <2>2 DEF SimInv, OneRow
  <2>6a. Ignited(s)'
    <3>1. ASSUME NEW c \in Igniting(s)'
          PROVE  /\ req'[c] = req[c] /\ req[c].at \in Orchestrators
                 /\ \A t \in Stores : rows'[t][s] # NoRow => t = Store(req[c].at)
                 /\ rows'[Store(req[c].at)][s] =
                      [profile |-> req[c].profile,
                       state |-> IF req[c].pc = "save" THEN "FINISHED" ELSE "RUNNING"]
      <4>1. c \in Igniting(s) /\ req'[c] = req[c] /\ req[c].at # p
        BY <2>4a, <3>1
      <4> PICK q \in Orchestrators : q = req[c].at
        BY <2>1, <4>1 DEF SimInv, Ignited
      <4>2. q \in Processes /\ Store(q) # p /\ Store(q) \in Stores
        BY <1>3, <4>1 DEF Store, Stores, Orchestrators
      <4>3. /\ \A t \in Stores : rows[t][s] # NoRow => t = Store(q)
            /\ rows[Store(q)][s] =
                 [profile |-> req[c].profile,
                  state |-> IF req[c].pc = "save" THEN "FINISHED" ELSE "RUNNING"]
        BY <2>1, <4>1 DEF SimInv, Ignited
      <4> QED
        BY <2>2, <4>1, <4>2, <4>3
    <3>2. Orchestrators' = Orchestrators /\ Stores' = Stores /\ \A q : Store(q)' = Store(q)
      BY <1>2
    <3> QED
      BY <3>1, <3>2 DEF Ignited
  <2>7. DriversHaveRows(s)'
    <3>1. ASSUME NEW q \in Drivers(s) \ {p}
          PROVE  State(Store(q), s)' = "RUNNING"
      <4>1. q \in Processes /\ State(Store(q), s) = "RUNNING"
        BY <2>1 DEF SimInv, DriversHaveRows, Drivers
      <4>2. Store(q) # p /\ Store(q) \in Stores /\ Store(q)' = Store(q)
        BY <1>2, <1>3, <4>1, StoreIsStore DEF Store
      <4> QED
        BY <2>2, <4>1, <4>2 DEF State
    <3> QED
      BY <1>2, <2>3, <3>1 DEF DriversHaveRows
  <2>8. WaitingIsRunning(s)'
    <3>1. ASSUME NEW f \in Waits(s), NEW t \in Stores, rows'[t][s] # NoRow
          PROVE  rows'[t][s] = Running(f)
      BY <2>1, <2>2, <3>1 DEF SimInv, WaitingIsRunning
    <3> QED
      BY <1>2, <2>4, <3>1 DEF WaitingIsRunning, Running
  <2>9. WaitingHasRow(s)'
    <3> SUFFICES ASSUME Coherent, Durable, NEW f \in Waits(s),
                        NEW q \in Processes, Bus(q) = "redis"
                 PROVE  rows'[Store(q)][s] # NoRow
      <4>1. crashes' # 0
        BY <1>1, <1>2 DEF TypeOK
      <4> QED
        BY <1>2, <2>4, <4>1 DEF WaitingHasRow
    <3>1. Store(q) = "postgres"
      BY DEF Durable
    <3>2. rows[Store(q)][s] # NoRow
      BY <2>1 DEF SimInv, WaitingHasRow
    <3> QED
      BY <1>3, <2>2, <3>1, <3>2, StoreIsStore
  <2>10. Cared(s)'
    BY <1>1, <1>2 DEF Cared, TypeOK
  <2> QED
    BY <2>5, <2>6, <2>6a, <2>7, <2>8, <2>9, <2>10 DEF SimInv
<1> QED
  BY <1>4, <1>5

-----------------------------------------------------------------------------
(* The invariant, step by step. *)

Events == {"started", "restarted", "finished"}

LEMMA AppendType ==
    ASSUME NEW S, NEW q \in Seq(S), NEW e \in S
    PROVE  Append(q, e) \in Seq(S)
OBVIOUS

LEMMA TailType ==
    ASSUME NEW S, NEW q \in Seq(S), q # << >>
    PROVE  Head(q) \in S /\ Tail(q) \in Seq(S)
OBVIOUS

LEMMA PublishType ==
    ASSUME TypeOK, NEW p \in Processes, NEW s \in Sims, NEW event \in Events,
           Publish(p, s, event)
    PROVE  /\ news' \in Seq([sim: Sims, event: Events])
           /\ told' \in [Processes -> [Sims -> Events \cup {Silence}]]
<1>1. /\ news \in Seq([sim: Sims, event: Events])
      /\ told \in [Processes -> [Sims -> Events \cup {Silence}]]
  BY DEF TypeOK, Events
<1>2. [sim |-> s, event |-> event] \in [sim: Sims, event: Events]
  OBVIOUS
<1>3. CASE Bus(p) = "redis"
  <2>1. Append(news, [sim |-> s, event |-> event]) \in Seq([sim: Sims, event: Events])
    BY <1>1, <1>2, AppendType
  <2> QED
    BY <1>1, <1>3, <2>1 DEF Publish
<1>4. CASE Bus(p) # "redis"
  <2>1. [told[p] EXCEPT ![s] = event] \in [Sims -> Events \cup {Silence}]
    BY <1>1
  <2> QED
    BY <1>1, <1>4, <2>1 DEF Publish
<1> QED
  BY <1>3, <1>4

LEMMA QuietStep ==
    ASSUME IInv, UNCHANGED <<config, req, rows, jobs, driving, crashes>>
    PROVE  \A x \in Sims : SimInv(x)'
<1>1. \A x : Waits(x)' = Waits(x) /\ Commands(x)' = Commands(x) /\ Igniting(x)' = Igniting(x)
  BY DEF Waits, Commands, Igniting
<1>2. \A x : Once(x)' = Once(x)
  BY <1>1 DEF Once
<1> QED
  BY <1>1, <1>2, UntouchedStep DEF IInv

(* A run ends, or nothing happens. *)
LEMMA AbortStep ==
    ASSUME IInv, NEW p \in Processes, NEW s \in Sims, HandleAbort(p, s),
           UNCHANGED <<config, req, jobs, crashes>>
    PROVE  /\ rows' \in [Stores -> [Sims -> Row \cup {NoRow}]]
           /\ driving' \in [Processes -> SUBSET Sims]
           /\ news' \in Seq([sim: Sims, event: Events])
           /\ told' \in [Processes -> [Sims -> Events \cup {Silence}]]
           /\ \A x \in Sims : SimInv(x)'
<1>1. CASE s \in driving[p]
  <2>1. Ends(p, s)
    BY <1>1 DEF HandleAbort
  <2>2. Publish(p, s, "finished") /\ TypeOK
    BY <2>1 DEF Ends, IInv
  <2> QED
    BY <1>1, <2>1, <2>2, EndStep, PublishType DEF Events
<1>2. CASE s \notin driving[p]
  BY <1>2, QuietStep DEF HandleAbort, IInv, TypeOK, Events
<1> QED
  BY <1>1, <1>2

LEMMA FreshIsFree ==
    ASSUME IInv, NEW s \in Sims, Fresh(s)
    PROVE  Waits(s) = {} /\ Drivers(s) = {} /\ Igniting(s) = {}
<1>1. Waits(s) = {} /\ Igniting(s) = {}
  BY DEF Fresh, Waits
<1>2. ASSUME NEW p \in Drivers(s)
      PROVE  FALSE
  <2>1. p \in Processes /\ State(Store(p), s) = "RUNNING"
    BY DEF IInv, SimInv, DriversHaveRows, Drivers
  <2>2. rows[Store(p)][s] = NoRow
    BY <2>1, StoreIsStore DEF Fresh
  <2> QED
    BY <2>1, <2>2, DeploymentAssumption DEF State
<1> QED
  BY <1>1, <1>2

LEMMA StartStep ==
    ASSUME IInv, NEW c \in Clients, NEW o \in Orchestrators, NEW s \in Sims, NEW f \in Profiles,
           Start(c, o, s, f)
    PROVE  IInv'
<1> USE DEF Start
<1>1. TypeOK /\ o \in Processes
  BY DEF IInv, Orchestrators
<1>2. \A t \in Stores : rows[t][s] = NoRow
  BY DEF Fresh
<1>3. Save(o, s, Running(f))
  BY DEF Running
<1> PICK r : r = [pc |-> "publish", at |-> o, sim |-> s, profile |-> f, event |-> "started"]
  OBVIOUS
<1>4. r \in Ignition /\ r.pc = "publish" /\ r.at = o /\ r.sim = s /\ r.profile = f
  BY <1>1 DEF Ignition
<1>5. Waits(s) = {} /\ Drivers(s) = {} /\ Igniting(s) = {}
  BY FreshIsFree
<1>6. /\ rows' \in [Stores -> [Sims -> Row \cup {NoRow}]]
      /\ req' \in [Clients -> {Idle} \cup Ignition]
      /\ \A x \in Sims : SimInv(x)'
  BY <1>2, <1>3, <1>4, <1>5, IgniteStep
<1>7. TypeOK'
  BY <1>1, <1>6, WiringStays DEF TypeOK
<1> QED
  BY <1>6, <1>7 DEF IInv

(* A FINISHED simulation neither waits nor is run. *)
LEMMA FinishedIsFree ==
    ASSUME IInv, NEW o \in Orchestrators, NEW s \in Sims, State(Store(o), s) = "FINISHED"
    PROVE  /\ Waits(s) = {} /\ Drivers(s) = {}
           /\ rows[Store(o)][s].profile \in Profiles
           /\ rows[Store(o)][s] = [profile |-> rows[Store(o)][s].profile, state |-> "FINISHED"]
           /\ \A t \in Stores : rows[t][s] # NoRow => t = Store(o)
<1>1. TypeOK /\ o \in Processes /\ Store(o) \in Stores /\ SimInv(s)
  BY StoreIsStore DEF IInv, Orchestrators
<1>2. rows[Store(o)][s] \in Row /\ rows[Store(o)][s] # NoRow
      /\ rows[Store(o)][s].state = "FINISHED"
  BY <1>1, StateOfRow, DeploymentAssumption
<1>3. \A t \in Stores : rows[t][s] # NoRow => t = Store(o)
  BY <1>1, <1>2 DEF SimInv, OneRow
<1>4. ASSUME NEW g \in Waits(s)
      PROVE  FALSE
  <2>1. rows[Store(o)][s] = Running(g)
    BY <1>1, <1>2 DEF SimInv, WaitingIsRunning
  <2> QED
    BY <1>2, <2>1 DEF Running
<1>5. ASSUME NEW p \in Drivers(s)
      PROVE  FALSE
  <2>1. p \in Processes /\ State(Store(p), s) = "RUNNING"
    BY <1>1 DEF SimInv, DriversHaveRows, Drivers
  <2>2. rows[Store(p)][s] # NoRow
    BY <2>1, DeploymentAssumption DEF State
  <2>3. Store(p) = Store(o)
    BY <1>3, <2>1, <2>2, StoreIsStore
  <2> QED
    BY <2>1, <2>3
<1>6. rows[Store(o)][s].profile \in Profiles
      /\ rows[Store(o)][s] = [profile |-> rows[Store(o)][s].profile, state |-> "FINISHED"]
  BY <1>2 DEF Row
<1> QED
  BY <1>3, <1>4, <1>5, <1>6

LEMMA RestartStep ==
    ASSUME Patient, IInv, NEW c \in Clients, NEW o \in Orchestrators, NEW s \in Sims,
           RestartRequest(c, o, s)
    PROVE  IInv'
<1> USE DEF RestartRequest
<1>1. TypeOK /\ o \in Processes /\ SimInv(s) /\ Igniting(s) = {}
  BY DEF IInv, Orchestrators
<1>2. PICK f \in Profiles : f = rows[Store(o)][s].profile
  BY FinishedIsFree
<1>3. /\ Waits(s) = {} /\ Drivers(s) = {}
      /\ rows[Store(o)][s] = [profile |-> f, state |-> "FINISHED"]
      /\ \A t \in Stores : rows[t][s] # NoRow => t = Store(o)
  BY <1>2, FinishedIsFree
<1> PICK r : r = [pc |-> "save", at |-> o, sim |-> s, profile |-> f, event |-> "restarted"]
  OBVIOUS
<1>4. r \in Ignition /\ r.pc = "save" /\ r.at = o /\ r.sim = s /\ r.profile = f
  BY <1>1 DEF Ignition
<1>5. UNCHANGED <<config, rows, jobs, aborts, news, driving, told, crashes>>
  OBVIOUS
<1>6. /\ req' \in [Clients -> {Idle} \cup Ignition]
      /\ req'[c] = r
      /\ \A x \in Sims \ {s} :
             Igniting(x)' = Igniting(x) /\ \A d \in Igniting(x) : req'[d] = req[d]
      /\ Igniting(s)' = {c}
  <2>1. /\ req' \in [Clients -> {Idle} \cup Ignition]
        /\ req'[c] = r
        /\ \A x \in Sims \ {s} :
               Igniting(x)' = Igniting(x) /\ \A d \in Igniting(x) : req'[d] = req[d]
        /\ Igniting(s)' = Igniting(s) \cup {c}
    BY <1>1, <1>2, <1>4, Asks
  <2> QED
    BY <2>1, <1>1, <1>2, <1>4
<1>7. /\ \A x : Waits(x)' = Waits(x) /\ Commands(x)' = Commands(x)
      /\ \A x : Drivers(x)' = Drivers(x)
  BY <1>5 DEF Waits, Commands, Drivers
<1>8. \A x : Once(x)' = Once(x)
  BY <1>7 DEF Once
<1>9. ASSUME NEW x \in Sims \ {s}
      PROVE  SimInv(x)'
  BY <1>5, <1>6, <1>7, <1>8, <1>9, UntouchedStep DEF IInv
<1>10. SimInv(s)'
  <2>1. Single(s)'
    BY <1>1, <1>3, <1>6, <1>7, <1>8 DEF Single, SimInv
  <2>2. OneRow(s)'
    BY <1>1, <1>5, WiringStays DEF SimInv, OneRow
  <2>3. Ignited(s)'
    BY <1>3, <1>4, <1>5, <1>6, WiringStays DEF Ignited
  <2>4. DriversHaveRows(s)' /\ WaitingIsRunning(s)' /\ WaitingHasRow(s)'
    BY <1>3, <1>7 DEF DriversHaveRows, WaitingIsRunning, WaitingHasRow
  <2>5. Cared(s)'
    BY <1>6 DEF Cared
  <2> QED
    BY <2>1, <2>2, <2>3, <2>4, <2>5 DEF SimInv
<1>11. TypeOK'
  BY <1>1, <1>5, <1>6, WiringStays DEF TypeOK
<1> QED
  BY <1>9, <1>10, <1>11 DEF IInv

LEMMA SaveStep ==
    ASSUME IInv, NEW c \in Clients, SaveIgnition(c)
    PROVE  IInv'
<1> USE DEF SaveIgnition
<1>1. TypeOK /\ req[c] # Idle
  BY DEF IInv, Idle
<1>2. PICK o \in Orchestrators, s \in Sims, f \in Profiles, e \in {"started", "restarted"} :
         Asked(c, o, s, f, e)
  BY <1>1, RequestRead
<1>2a. /\ req[c].at = o /\ req[c].sim = s /\ req[c].profile = f /\ req[c].event = e
       /\ \A n \in {"save", "publish", "dispatch"} :
             [req[c] EXCEPT !.pc = n] =
                 [pc |-> n, at |-> o, sim |-> s, profile |-> f, event |-> e]
       /\ Igniting(s) = {c}
       /\ Drivers(s) = {} /\ Waits(s) = {}
       /\ \A t \in Stores : rows[t][s] # NoRow => t = Store(o)
  BY <1>2 DEF Asked
<1>2b. req[c].sim = s /\ Igniting(s) = {c} /\ Drivers(s) = {} /\ Waits(s) = {}
       /\ \A t \in Stores : rows[t][s] # NoRow => t = Store(o)
  BY <1>2 DEF Asked
<1>3. o \in Processes
  BY DEF Orchestrators
<1> PICK r : r = [pc |-> "publish", at |-> o, sim |-> s, profile |-> f, event |-> e]
  OBVIOUS
<1>4. r \in Ignition /\ r.pc = "publish" /\ r.at = o /\ r.sim = s /\ r.profile = f
  BY <1>3 DEF Ignition
<1>5. req' = [req EXCEPT ![c] = r]
  BY <1>1, <1>2a DEF TypeOK
<1>6. Save(o, s, Running(f)) /\ UNCHANGED <<config, jobs, aborts, news, driving, told, crashes>>
  BY <1>2a DEF Running
<1> HIDE DEF SaveIgnition
<1>6a. UNCHANGED <<config, jobs, driving, crashes>>
  BY <1>6
<1>6b. Igniting(s) \subseteq {c} /\ (req[c] # Idle => req[c].sim = s)
  BY <1>2b
<1>7. /\ rows' \in [Stores -> [Sims -> Row \cup {NoRow}]]
      /\ req' \in [Clients -> {Idle} \cup Ignition]
      /\ \A x \in Sims : SimInv(x)'
  BY <1>2b, <1>4, <1>5, <1>6, <1>6a, <1>6b, IgniteStep
<1>8. TypeOK'
  BY <1>1, <1>6, <1>7, WiringStays DEF TypeOK
<1> QED
  BY <1>7, <1>8 DEF IInv

LEMMA PublishStep ==
    ASSUME IInv, NEW c \in Clients, PublishIgnition(c)
    PROVE  IInv'
<1> USE DEF PublishIgnition
<1>1. TypeOK /\ req[c] # Idle
  BY DEF IInv, Idle
<1>2. PICK o \in Orchestrators, s \in Sims, f \in Profiles, e \in {"started", "restarted"} :
         Asked(c, o, s, f, e)
  BY <1>1, RequestRead
<1>2a. /\ req[c].at = o /\ req[c].sim = s /\ req[c].profile = f /\ req[c].event = e
       /\ \A n \in {"save", "publish", "dispatch"} :
             [req[c] EXCEPT !.pc = n] =
                 [pc |-> n, at |-> o, sim |-> s, profile |-> f, event |-> e]
       /\ Igniting(s) = {c}
       /\ Drivers(s) = {} /\ Waits(s) = {}
       /\ \A t \in Stores : rows[t][s] # NoRow => t = Store(o)
       /\ rows[Store(o)][s] = Running(f)
  BY <1>2 DEF Asked
<1>2b. req[c].sim = s /\ Igniting(s) = {c} /\ Drivers(s) = {} /\ Waits(s) = {}
       /\ \A t \in Stores : rows[t][s] # NoRow => t = Store(o)
  BY <1>2 DEF Asked
<1>3. o \in Processes
  BY DEF Orchestrators
<1> PICK r : r = [pc |-> "dispatch", at |-> o, sim |-> s, profile |-> f, event |-> e]
  OBVIOUS
<1>4. r \in Ignition /\ r.pc = "dispatch" /\ r.at = o /\ r.sim = s /\ r.profile = f
  BY <1>3 DEF Ignition
<1>5. req' = [req EXCEPT ![c] = r]
  BY <1>1, <1>2a DEF TypeOK
<1>6. UNCHANGED <<config, rows, jobs, aborts, driving, crashes>> /\ Publish(o, s, e)
  BY <1>2a
<1>7. /\ req' \in [Clients -> {Idle} \cup Ignition]
      /\ req'[c] = r
      /\ \A x \in Sims \ {s} :
             Igniting(x)' = Igniting(x) /\ \A d \in Igniting(x) : req'[d] = req[d]
      /\ Igniting(s)' = {c}
  <2>1. /\ req' \in [Clients -> {Idle} \cup Ignition]
        /\ req'[c] = r
        /\ \A x \in Sims \ {s} :
               Igniting(x)' = Igniting(x) /\ \A d \in Igniting(x) : req'[d] = req[d]
        /\ Igniting(s)' = Igniting(s) \cup {c}
    BY <1>1, <1>2b, <1>4, <1>5, Asks
  <2> QED
    BY <2>1, <1>1, <1>2a, <1>4, <1>5
<1>8. /\ \A x : Waits(x)' = Waits(x) /\ Commands(x)' = Commands(x)
      /\ \A x : Drivers(x)' = Drivers(x)
  BY <1>6 DEF Waits, Commands, Drivers
<1>9. \A x : Once(x)' = Once(x)
  BY <1>8 DEF Once
<1>10. ASSUME NEW x \in Sims \ {s}
       PROVE  SimInv(x)'
  BY <1>6, <1>7, <1>8, <1>9, <1>10, UntouchedStep DEF IInv
<1>11. SimInv(s)'
  <2>1. SimInv(s)
    BY DEF IInv
  <2>2. Single(s)'
    BY <1>2a, <1>7, <1>8, <1>9, <2>1 DEF Single, SimInv
  <2>3. OneRow(s)'
    BY <1>6, <2>1, WiringStays DEF SimInv, OneRow
  <2>4. Ignited(s)'
    BY <1>2a, <1>4, <1>6, <1>7, WiringStays DEF Ignited, Running
  <2>5. DriversHaveRows(s)' /\ WaitingIsRunning(s)' /\ WaitingHasRow(s)'
    BY <1>2a, <1>8 DEF DriversHaveRows, WaitingIsRunning, WaitingHasRow
  <2>6. Cared(s)'
    BY <1>7 DEF Cared
  <2> QED
    BY <2>2, <2>3, <2>4, <2>5, <2>6 DEF SimInv
<1>12. /\ news' \in Seq([sim: Sims, event: Events])
       /\ told' \in [Processes -> [Sims -> Events \cup {Silence}]]
  BY <1>1, <1>3, <1>6, PublishType DEF Events
<1>13. TypeOK'
  BY <1>1, <1>6, <1>7, <1>12, WiringStays DEF TypeOK, Events
<1> QED
  BY <1>10, <1>11, <1>13 DEF IInv

LEMMA DispatchStep ==
    ASSUME IInv, NEW c \in Clients, DispatchIgnition(c)
    PROVE  IInv'
<1> USE DEF DispatchIgnition
<1>1. TypeOK /\ req[c] # Idle
  BY DEF IInv, Idle
<1>2. PICK o \in Orchestrators, s \in Sims, f \in Profiles, e \in {"started", "restarted"} :
         Asked(c, o, s, f, e)
  BY <1>1, RequestRead
<1>2a. /\ req[c].at = o /\ req[c].sim = s /\ req[c].profile = f /\ req[c].event = e
       /\ Igniting(s) = {c}
       /\ Drivers(s) = {} /\ Waits(s) = {}
       /\ \A t \in Stores : rows[t][s] # NoRow => t = Store(o)
       /\ rows[Store(o)][s] = Running(f)
  BY <1>2 DEF Asked
<1>3. DispatchRun(o, s, f) /\ UNCHANGED <<config, rows, aborts, news, told, crashes>>
      /\ req' = [req EXCEPT ![c] = Idle]
  BY <1>2a
<1>4. /\ jobs' \in [Profiles -> Seq(Sims)]
      /\ driving' \in [Processes -> SUBSET Sims]
      /\ req' \in [Clients -> {Idle} \cup Ignition]
      /\ \A x \in Sims : SimInv(x)'
  BY <1>2a, <1>3, SendStep
<1>5. TypeOK'
  BY <1>1, <1>3, <1>4, WiringStays DEF TypeOK
<1> QED
  BY <1>4, <1>5 DEF IInv

LEMMA FinishStep ==
    ASSUME IInv, NEW o \in Orchestrators, NEW s \in Sims, Finish(o, s)
    PROVE  IInv'
<1> USE DEF Finish
<1>1. TypeOK /\ o \in Processes
  BY DEF IInv, Orchestrators
<1>2. CASE Bus(o) = "redis"
  <2>1. aborts' \in Seq(Sims)
    <3>1. aborts \in Seq(Sims) /\ aborts' = Append(aborts, s)
      BY <1>1, <1>2 DEF TypeOK
    <3> QED
      BY <3>1, AppendType
  <2>2. TypeOK'
    BY <1>1, <1>2, <2>1, WiringStays DEF TypeOK
  <2>3. \A x \in Sims : SimInv(x)'
    BY <1>2, QuietStep
  <2> QED
    BY <2>2, <2>3 DEF IInv
<1>3. CASE Bus(o) # "redis"
  <2>1. /\ rows' \in [Stores -> [Sims -> Row \cup {NoRow}]]
        /\ driving' \in [Processes -> SUBSET Sims]
        /\ news' \in Seq([sim: Sims, event: Events])
        /\ told' \in [Processes -> [Sims -> Events \cup {Silence}]]
        /\ \A x \in Sims : SimInv(x)'
    BY <1>1, <1>3, AbortStep
  <2>2. TypeOK'
    BY <1>1, <1>3, <2>1, WiringStays DEF TypeOK, Events
  <2> QED
    BY <2>1, <2>2 DEF IInv
<1> QED
  BY <1>2, <1>3

LEMMA ForwardStep ==
    ASSUME IInv, NEW o \in Orchestrators, Forward(o)
    PROVE  IInv'
<1> USE DEF Forward
<1>1. TypeOK /\ o \in Processes
  BY DEF IInv, Orchestrators
<1>2. news \in Seq([sim: Sims, event: Events]) /\ news # << >>
  BY <1>1 DEF TypeOK, Events
<1>3. Head(news) \in [sim: Sims, event: Events] /\ Tail(news) \in Seq([sim: Sims, event: Events])
  BY <1>2, TailType
<1>4. [told[o] EXCEPT ![Head(news).sim] = Head(news).event] \in [Sims -> Events \cup {Silence}]
  BY <1>1, <1>3 DEF TypeOK, Events
<1>5. told' \in [Processes -> [Sims -> Events \cup {Silence}]]
  BY <1>1, <1>4 DEF TypeOK, Events
<1>6. TypeOK'
  BY <1>1, <1>3, <1>5, WiringStays DEF TypeOK, Events
<1>7. \A x \in Sims : SimInv(x)'
  BY QuietStep
<1> QED
  BY <1>6, <1>7 DEF IInv

LEMMA HandlerStep ==
    ASSUME IInv, NEW p \in Processes, Handler(p)
    PROVE  IInv'
<1>1. TypeOK
  BY DEF IInv
<1>2. CASE TakeRun(p)
  <2>1. /\ jobs' \in [Profiles -> Seq(Sims)]
        /\ driving' \in [Processes -> SUBSET Sims]
        /\ \A x \in Sims : SimInv(x)'
    BY <1>2, TakeStep
  <2>2. UNCHANGED <<config, req, rows, aborts, news, told, crashes>>
    BY <1>2 DEF TakeRun
  <2>3. TypeOK'
    BY <1>1, <2>1, <2>2, WiringStays DEF TypeOK
  <2> QED
    BY <2>1, <2>3 DEF IInv
<1>3. CASE TakeAbort(p)
  <2>1. Head(aborts) \in Sims /\ Tail(aborts) \in Seq(Sims)
    BY <1>1, <1>3 DEF TakeAbort, TypeOK
  <2>2. PICK s \in Sims : s = Head(aborts)
    BY <2>1
  <2>3. HandleAbort(p, s) /\ aborts' = Tail(aborts)
        /\ UNCHANGED <<config, req, jobs, crashes>>
    BY <1>3, <2>2 DEF TakeAbort
  <2>4. /\ rows' \in [Stores -> [Sims -> Row \cup {NoRow}]]
        /\ driving' \in [Processes -> SUBSET Sims]
        /\ news' \in Seq([sim: Sims, event: Events])
        /\ told' \in [Processes -> [Sims -> Events \cup {Silence}]]
        /\ \A x \in Sims : SimInv(x)'
    BY <2>3, AbortStep
  <2>5. TypeOK'
    BY <1>1, <2>1, <2>3, <2>4, WiringStays DEF TypeOK, Events
  <2> QED
    BY <2>4, <2>5 DEF IInv
<1>4. ASSUME NEW s \in Sims, AutoFinish(p, s)
      PROVE  IInv'
  <2>1. HandleAbort(p, s) /\ UNCHANGED <<config, req, jobs, aborts, crashes>>
    BY <1>4 DEF AutoFinish, HandleAbort
  <2>2. /\ rows' \in [Stores -> [Sims -> Row \cup {NoRow}]]
        /\ driving' \in [Processes -> SUBSET Sims]
        /\ news' \in Seq([sim: Sims, event: Events])
        /\ told' \in [Processes -> [Sims -> Events \cup {Silence}]]
        /\ \A x \in Sims : SimInv(x)'
    BY <2>1, AbortStep
  <2>3. TypeOK'
    BY <1>1, <2>1, <2>2, WiringStays DEF TypeOK, Events
  <2> QED
    BY <2>2, <2>3 DEF IInv
<1> QED
  BY <1>2, <1>3, <1>4 DEF Handler

LEMMA InitEstablishes == Init => IInv
<1> SUFFICES ASSUME Init
             PROVE  IInv
  OBVIOUS
<1> USE DEF Init
<1>1. TypeOK
  BY DEF TypeOK
<1>2. ASSUME NEW s \in Sims
      PROVE  SimInv(s)
  <2>1. Drivers(s) = {} /\ Igniting(s) = {}
    BY DEF Drivers, Igniting
  <2>2. Waits(s) = {}
    BY DEF Waits
  <2>3. Once(s)
    BY <2>2, Emptied DEF Once
  <2>4. \A t \in Stores : rows[t][s] = NoRow
    OBVIOUS
  <2>5. Single(s)
    BY <2>1, <2>2, <2>3 DEF Single
  <2>6. OneRow(s) /\ Ignited(s)
    BY <2>1, <2>4 DEF OneRow, Ignited
  <2>7. DriversHaveRows(s) /\ WaitingIsRunning(s) /\ WaitingHasRow(s)
    BY <2>1, <2>2 DEF DriversHaveRows, WaitingIsRunning, WaitingHasRow
  <2>8. Cared(s)
    BY <2>4, DeploymentAssumption DEF Cared, State
  <2> QED
    BY <2>5, <2>6, <2>7, <2>8 DEF SimInv
<1> QED
  BY <1>1, <1>2 DEF IInv

LEMMA NextPreserves ==
    ASSUME Patient
    PROVE  IInv /\ [Next]_vars => IInv'
<1> SUFFICES ASSUME IInv, [Next]_vars
             PROVE  IInv'
  OBVIOUS
<1>1. ASSUME NEW o \in Orchestrators, Api(o)
      PROVE  IInv'
  BY <1>1, StartStep, RestartStep, FinishStep, ForwardStep DEF Api
<1>1a. ASSUME NEW c \in Clients, Serve(c)
       PROVE  IInv'
  BY <1>1a, SaveStep, PublishStep, DispatchStep DEF Serve
<1>2. ASSUME NEW p \in Processes, Handler(p)
      PROVE  IInv'
  BY <1>2, HandlerStep
<1>3. ASSUME NEW p \in Processes, Crash(p)
      PROVE  IInv'
  BY <1>3, CrashStep DEF IInv
<1>4. CASE UNCHANGED vars
  <2>1. \A s \in Sims : SimInv(s)'
    BY <1>4, QuietStep DEF vars
  <2>2. TypeOK'
    BY <1>4, WiringStays DEF vars, IInv, TypeOK
  <2> QED
    BY <2>1, <2>2 DEF IInv
<1> QED
  BY <1>1, <1>1a, <1>2, <1>3, <1>4 DEF Next

LEMMA Invariance ==
    ASSUME Patient
    PROVE  Spec => []IInv
<1>1. IInv /\ [Next]_vars => IInv'
  BY NextPreserves
<1> QED
  BY <1>1, InitEstablishes, PTL DEF Spec

(* A set without two different elements has one at most. *)
LEMMA FewElements ==
    ASSUME NEW S, \A a, b \in S : a = b
    PROVE  Cardinality(S) \in {0, 1} /\ (S = {} => Cardinality(S) = 0)
<1>1. CASE S = {}
  BY <1>1, FS_EmptySet
<1>2. CASE S # {}
  <2>1. PICK a \in S : S = {a}
    BY <1>2
  <2> QED
    BY <1>2, <2>1, FS_Singleton
<1> QED
  BY <1>1, <1>2

LEMMA CountsDrivers == IInv => OneDriver
<1> SUFFICES ASSUME IInv, NEW s \in Sims
             PROVE  /\ Cardinality(Igniting(s)) + Cardinality(Drivers(s))
                         + Cardinality(Commands(s)) <= 1
                    /\ \A p \in Drivers(s) : State(Store(p), s) = "RUNNING"
  BY DEF OneDriver
<1>1. SimInv(s)
  BY DEF IInv
<1>2. Cardinality(Drivers(s)) \in {0, 1} /\ (Drivers(s) = {} => Cardinality(Drivers(s)) = 0)
  BY <1>1, FewElements DEF SimInv, Single
<1>3. Cardinality(Commands(s)) \in {0, 1} /\ (Commands(s) = {} => Cardinality(Commands(s)) = 0)
  BY <1>1, FewElements DEF SimInv, Single, Once
<1>3a. Cardinality(Igniting(s)) \in {0, 1} /\ (Igniting(s) = {} => Cardinality(Igniting(s)) = 0)
  BY <1>1, FewElements DEF SimInv, Single
<1>4. \/ Igniting(s) = {} /\ (Drivers(s) = {} \/ Commands(s) = {})
      \/ Drivers(s) = {} /\ Commands(s) = {}
  BY <1>1, Emptied DEF SimInv, Single
<1>5. Cardinality(Igniting(s)) + Cardinality(Drivers(s)) + Cardinality(Commands(s)) <= 1
  BY <1>2, <1>3, <1>3a, <1>4
<1> QED
  BY <1>1, <1>5 DEF SimInv, DriversHaveRows

LEMMA FindsRows == IInv => CommandsFindRows
<1> SUFFICES ASSUME IInv, Coherent, Durable \/ crashes = 0,
                    NEW f \in Profiles, NEW i \in DOMAIN jobs[f],
                    NEW p \in Processes, Bus(p) = "redis"
             PROVE  State(Store(p), jobs[f][i]) = "RUNNING"
  BY DEF CommandsFindRows
<1>1. PICK s \in Sims : s = jobs[f][i]
  BY DEF IInv, TypeOK
<1>2. f \in Waits(s) /\ SimInv(s)
  BY <1>1 DEF Waits, IInv
<1>3. rows[Store(p)][s] # NoRow
  BY <1>2 DEF SimInv, WaitingHasRow
<1>4. rows[Store(p)][s] = Running(f)
  BY <1>2, <1>3, StoreIsStore DEF SimInv, WaitingIsRunning
<1> QED
  BY <1>1, <1>3, <1>4 DEF State, Running

LEMMA CaresForAll == IInv => NothingStranded
<1> SUFFICES ASSUME IInv, Coherent, crashes = 0, NEW t \in Stores, NEW s \in Sims,
                    State(t, s) = "RUNNING", Serves(t, rows[t][s].profile)
             PROVE  \/ Igniting(s) # {}
                    \/ \E i \in DOMAIN jobs[rows[t][s].profile] :
                           jobs[rows[t][s].profile][i] = s
                    \/ \E p \in Drivers(s) :
                        /\ Store(p) = t
                        /\ config[p].SIMULATION_PROFILE = rows[t][s].profile
  BY DEF NothingStranded
<1>1. Cared(s)
  BY DEF IInv, SimInv
<1>2. \/ Igniting(s) # {}
      \/ rows[t][s].profile \in Waits(s)
      \/ \E p \in Drivers(s) :
          /\ Store(p) = t
          /\ config[p].SIMULATION_PROFILE = rows[t][s].profile
  BY <1>1 DEF Cared
<1> QED
  BY <1>2 DEF Waits

-----------------------------------------------------------------------------
(* What the rooms of an orchestrator were told, or will be: the last event *)
(* of s on its way, or the last its room was told if none is, says what    *)
(* its table says, unless an ignition of s there was saved and is still to *)
(* be published.                                                           *)

Alone(o) == \A p \in Orchestrators : Store(p) = Store(o) => p = o

Says(state, word) ==
    CASE state = "RUNNING" -> word \in {"started", "restarted"}
      [] state = "FINISHED" -> word = "finished"
      [] OTHER -> word = Silence

NewsOf(s) == {i \in DOMAIN news : news[i].sim = s}

LastNews(s, i) == i \in NewsOf(s) /\ \A j \in NewsOf(s) : j <= i

Hears(o, s) ==
    IF Bus(o) = "redis" /\ NewsOf(s) # {}
    THEN \A i \in DOMAIN news : LastNews(s, i) => Says(State(Store(o), s), news[i].event)
    ELSE Says(State(Store(o), s), told[o][s])

(* No ignition of s in the table of o is still to be published. *)
Published(o, s) ==
    \A c \in Igniting(s) : req[c].pc = "publish" => Store(req[c].at) # Store(o)

RoomsHear ==
    Coherent /\ crashes = 0 =>
        \A o \in Orchestrators, s \in Sims : Alone(o) /\ Published(o, s) => Hears(o, s)

LEMMA PublishedStays ==
    ASSUME UNCHANGED <<config, req>>
    PROVE  \A o, x : Published(o, x)' = Published(o, x)
BY WiringStays DEF Published, Igniting

LEMMA PublishedElsewhere ==
    ASSUME config' = config, NEW x,
           Igniting(x)' = Igniting(x), \A d \in Igniting(x) : req'[d] = req[d]
    PROVE  \A o : Published(o, x)' = Published(o, x)
BY WiringStays DEF Published

(* The news of s at i, once event is behind it or the head is gone. *)
LEMMA NewsJoin ==
    ASSUME NEW S, NEW q \in Seq(S), NEW e \in S
    PROVE  /\ Append(q, e) # << >>
           /\ Len(q) + 1 \in DOMAIN Append(q, e) /\ Append(q, e)[Len(q) + 1] = e
           /\ \A i \in DOMAIN q : i \in DOMAIN Append(q, e) /\ Append(q, e)[i] = q[i]
           /\ \A i \in DOMAIN Append(q, e) : i \in Nat /\ (i \in DOMAIN q \/ i = Len(q) + 1)
           /\ Len(q) \in Nat /\ \A i \in DOMAIN q : i \in Nat /\ i < Len(q) + 1
OBVIOUS

LEMMA NewsLeave ==
    ASSUME NEW S, NEW q \in Seq(S), q # << >>
    PROVE  /\ 1 \in DOMAIN q /\ q[1] = Head(q) /\ Head(q) \in S
           /\ \A i \in DOMAIN q : i \in Nat /\ i >= 1
           /\ \A i \in DOMAIN Tail(q) : i \in Nat /\ i + 1 \in DOMAIN q /\ Tail(q)[i] = q[i + 1]
           /\ \A i \in DOMAIN q : i # 1 => i - 1 \in DOMAIN Tail(q) /\ Tail(q)[i - 1] = q[i]
OBVIOUS

(* The row, the news and the room of s stay. *)
LEMMA HearsStill ==
    ASSUME NEW o \in Orchestrators, NEW s \in Sims, Hears(o, s), config' = config,
           rows'[Store(o)][s] = rows[Store(o)][s],
           Bus(o) = "redis" => UNCHANGED news,
           told'[o][s] = told[o][s]
    PROVE  Hears(o, s)'
<1>1. Bus(o)' = Bus(o) /\ Store(o)' = Store(o)
  BY WiringStays
<1>2. State(Store(o), s)' = State(Store(o), s)
  BY <1>1 DEF State
<1>3. CASE Bus(o) = "redis"
  BY <1>1, <1>2, <1>3 DEF Hears, NewsOf, LastNews
<1>4. CASE Bus(o) # "redis"
  BY <1>1, <1>2, <1>4 DEF Hears
<1> QED
  BY <1>3, <1>4

(* A process with the same table and another queue is none, in a coherent  *)
(* deployment; an in-memory bus belongs to one process.                    *)
LEMMA SameBus ==
    ASSUME Coherent, NEW o \in Orchestrators, NEW p \in Processes
    PROVE  /\ o \in Processes
           /\ Store(p) = Store(o) <=> Bus(p) = Bus(o)
           /\ Bus(o) # "redis" /\ Bus(p) = Bus(o) => p = o
           /\ Bus(p) \in {p, "redis"} /\ p # "redis"
<1>1. o \in Processes
  BY DEF Orchestrators
<1>2. \A q \in Processes : Bus(q) \in {q, "redis"} /\ q # "redis"
  BY DeploymentAssumption DEF Bus
<1> QED
  BY <1>1, <1>2 DEF Coherent

(* A step that leaves the wiring alone has only to keep what is heard. *)
LEMMA HearingStays ==
    ASSUME config' = config, crashes' = crashes,
           ASSUME Coherent, crashes = 0, NEW o \in Orchestrators, NEW x \in Sims, Alone(o),
                  Published(o, x)'
           PROVE  Hears(o, x)'
    PROVE  RoomsHear'
<1>1. Orchestrators' = Orchestrators /\ Coherent' = Coherent /\ \A p : Store(p)' = Store(p)
  BY WiringStays
<1>2. ASSUME NEW o \in Orchestrators, Alone(o)'
      PROVE  Alone(o)
  BY <1>1, <1>2 DEF Alone
<1> SUFFICES ASSUME (Coherent /\ crashes = 0)'
             PROVE  \A o \in Orchestrators, x \in Sims :
                        Alone(o)' /\ Published(o, x)' => Hears(o, x)'
  BY <1>1 DEF RoomsHear
<1> QED
  BY <1>1, <1>2

(* A row is saved, and then or now an event published that says the same.  *)
LEMMA TellingRooms ==
    ASSUME IInv, RoomsHear, NEW p \in Processes, NEW s \in Sims, NEW row \in Row,
           NEW event \in Events,
           \A t \in Stores, y \in Sims :
               rows'[t][y] = IF t = Store(p) /\ y = s THEN row ELSE rows[t][y],
           Publish(p, s, event), Says(row.state, event),
           UNCHANGED <<config, crashes>>,
           \A o \in Orchestrators, y \in Sims :
               (y # s \/ Store(o) # Store(p)) /\ Published(o, y)' => Published(o, y)
    PROVE  RoomsHear'
<1> SUFFICES ASSUME Coherent, crashes = 0, NEW o \in Orchestrators, NEW x \in Sims, Alone(o),
                    Published(o, x)'
             PROVE  Hears(o, x)'
  BY HearingStays
<1>1. TypeOK /\ o \in Processes /\ (x # s \/ Store(o) # Store(p) => Hears(o, x))
  BY SameBus DEF RoomsHear, IInv
<1>2. \A t \in Stores, y \in Sims :
        rows'[t][y] = IF t = Store(p) /\ y = s THEN row ELSE rows[t][y]
  OBVIOUS
<1>3. Store(o) \in Stores /\ Store(o)' = Store(o) /\ Bus(o)' = Bus(o)
  BY <1>1, StoreIsStore, WiringStays
<1>4. /\ Store(p) = Store(o) <=> Bus(p) = Bus(o)
      /\ Bus(o) # "redis" /\ Bus(p) = Bus(o) => p = o
  BY SameBus
<1>5. told \in [Processes -> [Sims -> Events \cup {Silence}]] /\ news \in Seq([sim: Sims, event: Events])
  BY <1>1 DEF TypeOK, Events
<1> PICK e \in [sim: Sims, event: Events] : e = [sim |-> s, event |-> event]
  OBVIOUS
<1>6. e.sim = s /\ e.event = event
  OBVIOUS
<1>7. /\ Bus(p) = "redis" => news' = Append(news, e) /\ UNCHANGED told
      /\ Bus(p) # "redis" =>
           told' = [told EXCEPT ![p] = [told[p] EXCEPT ![s] = event]] /\ UNCHANGED news
  BY DEF Publish
<1>8. CASE Bus(p) # Bus(o)
  <2>1. rows'[Store(o)][x] = rows[Store(o)][x]
    BY <1>2, <1>3, <1>4, <1>8
  <2>2. Bus(o) = "redis" => UNCHANGED news
    BY <1>7, <1>8
  <2>3. told'[o][x] = told[o][x]
    <3>1. p # o
      BY <1>8
    <3> QED
      BY <1>1, <1>5, <1>7, <3>1
  <2>4. Hears(o, x)
    BY <1>1, <1>4, <1>8
  <2> QED
    BY <2>1, <2>2, <2>3, <2>4, HearsStill
<1>9. CASE Bus(p) = Bus(o) /\ Bus(o) # "redis"
  <2>1. p = o
    BY <1>4, <1>9
  <2>2. told'[o][x] = IF x = s THEN event ELSE told[o][x]
    BY <1>1, <1>5, <1>7, <1>9, <2>1
  <2>3. CASE x = s
    <3>1. State(Store(o), s)' = row.state
      BY <1>2, <1>3, <2>1, DeploymentAssumption DEF State, Row
    <3> QED
      BY <1>3, <1>9, <2>2, <2>3, <3>1 DEF Hears
  <2>4. CASE x # s
    BY <1>1, <1>2, <1>3, <1>9, <2>2, <2>4, HearsStill
  <2> QED
    BY <2>3, <2>4
<1>10. CASE Bus(p) = Bus(o) /\ Bus(o) = "redis"
  <2>1. news' = Append(news, e) /\ UNCHANGED told
    BY <1>7, <1>10
  <2> PICK n : n = Len(news) + 1
    OBVIOUS
  <2>2. /\ n \in Nat /\ n \in DOMAIN news' /\ news'[n] = e
        /\ \A i \in DOMAIN news : i \in DOMAIN news' /\ news'[i] = news[i] /\ i \in Nat /\ i < n
        /\ \A i \in DOMAIN news' : i \in Nat /\ (i \in DOMAIN news \/ i = n)
    BY <1>5, <2>1, NewsJoin
  <2>3. CASE x = s
    <3>1. State(Store(o), s)' = row.state
      BY <1>2, <1>3, <1>4, <1>10, DeploymentAssumption DEF State, Row
    <3>2. \A i : LastNews(s, i)' => i = n
      BY <1>6, <2>2 DEF LastNews, NewsOf
    <3>3. NewsOf(s)' # {}
      BY <1>6, <2>2 DEF NewsOf
    <3> QED
      BY <1>3, <1>6, <1>10, <2>2, <2>3, <3>1, <3>2, <3>3 DEF Hears
  <2>4. CASE x # s
    <3>1. NewsOf(x)' = NewsOf(x)
      BY <1>6, <2>2, <2>4 DEF NewsOf
    <3>2. \A i \in DOMAIN news' : LastNews(x, i)' =>
            i \in DOMAIN news /\ LastNews(x, i) /\ news'[i] = news[i]
      BY <1>6, <2>2, <2>4, <3>1 DEF LastNews, NewsOf
    <3>3. State(Store(o), x)' = State(Store(o), x)
      BY <1>2, <1>3, <2>4 DEF State
    <3>4. Hears(o, x)
      BY <1>1, <2>4
    <3> QED
      BY <1>3, <1>10, <2>1, <3>1, <3>2, <3>3, <3>4 DEF Hears
  <2> QED
    BY <2>3, <2>4
<1> QED
  BY <1>8, <1>9, <1>10

(* A row is saved whose event is still to be published.                    *)
LEMMA SavingRooms ==
    ASSUME IInv, RoomsHear, NEW p \in Processes, NEW s \in Sims, NEW row \in Row,
           Save(p, s, row), UNCHANGED <<config, news, told, crashes>>,
           \A o \in Orchestrators, y \in Sims :
               Published(o, y)' => Published(o, y) /\ (y # s \/ Store(o) # Store(p))
    PROVE  RoomsHear'
<1> SUFFICES ASSUME Coherent, crashes = 0, NEW o \in Orchestrators, NEW x \in Sims, Alone(o),
                    Published(o, x)'
             PROVE  Hears(o, x)'
  BY HearingStays
<1>1. TypeOK /\ o \in Processes /\ Hears(o, x) /\ (x # s \/ Store(o) # Store(p))
  BY SameBus DEF RoomsHear, IInv
<1>2. rows'[Store(o)][x] = rows[Store(o)][x]
  BY <1>1, SaveRead, StoreIsStore
<1> QED
  BY <1>1, <1>2, HearsStill

(* The forwarder: in a coherent deployment an orchestrator alone with its  *)
(* table takes all there is in its queue.                                  *)
LEMMA ForwardRooms ==
    ASSUME IInv, RoomsHear, NEW f \in Orchestrators, Forward(f)
    PROVE  RoomsHear'
<1>0. UNCHANGED <<config, req, rows, crashes>> /\ Bus(f) = "redis" /\ news # << >>
  BY DEF Forward
<1> SUFFICES ASSUME Coherent, crashes = 0, NEW o \in Orchestrators, NEW x \in Sims, Alone(o),
                    Published(o, x)'
             PROVE  Hears(o, x)'
  BY <1>0, HearingStays
<1>1. TypeOK /\ Hears(o, x) /\ o \in Processes /\ f \in Processes
  BY <1>0, PublishedStays DEF RoomsHear, IInv, Orchestrators
<1>2. told \in [Processes -> [Sims -> Events \cup {Silence}]] /\ news \in Seq([sim: Sims, event: Events])
  BY <1>1 DEF TypeOK, Events
<1>3a. Head(news) \in [sim: Sims, event: Events]
  <2>1. news # << >> /\ news \in Seq([sim: Sims, event: Events])
    BY <1>0, <1>2
  <2> QED
    BY <2>1, NewsLeave
<1> PICK e \in [sim: Sims, event: Events] : e = Head(news)
  BY <1>3a
<1>3. /\ told' = [told EXCEPT ![f] = [told[f] EXCEPT ![e.sim] = e.event]]
      /\ news' = Tail(news)
  BY DEF Forward
<1>4. CASE f # o
  <2>1. Bus(o) # "redis"
    BY <1>0, <1>1, <1>4, SameBus DEF Alone
  <2>2. told'[o][x] = told[o][x]
    BY <1>1, <1>2, <1>3, <1>4
  <2> QED
    BY <1>0, <1>1, <2>1, <2>2, HearsStill
<1>5. CASE f = o
  <2>1. /\ 1 \in DOMAIN news /\ news[1] = e
        /\ \A i \in DOMAIN news : i \in Nat /\ i >= 1
        /\ \A i \in DOMAIN news' : i \in Nat /\ i + 1 \in DOMAIN news /\ news'[i] = news[i + 1]
        /\ \A i \in DOMAIN news : i # 1 => i - 1 \in DOMAIN news' /\ news'[i - 1] = news[i]
    BY <1>0, <1>2, <1>3, NewsLeave
  <2>2. /\ State(Store(o), x)' = State(Store(o), x)
        /\ Bus(o)' = "redis" /\ Bus(o) = "redis" /\ Store(o)' = Store(o)
    BY <1>0, <1>5, WiringStays DEF State
  <2>3. told'[o][x] = IF x = e.sim THEN e.event ELSE told[o][x]
    BY <1>1, <1>2, <1>3, <1>5
  <2>4. \A i \in NewsOf(x)' : i + 1 \in NewsOf(x)
    BY <2>1 DEF NewsOf
  <2>5. \A i \in NewsOf(x) : i # 1 => i - 1 \in NewsOf(x)'
    BY <2>1 DEF NewsOf
  <2>6. CASE NewsOf(x)' # {}
    <3>1. NewsOf(x) # {}
      BY <2>4, <2>6
    <3>2. ASSUME NEW i \in DOMAIN news', LastNews(x, i)'
          PROVE  Says(State(Store(o), x)', news'[i].event)
      <4>1. i \in NewsOf(x)' /\ i \in Nat /\ \A j \in NewsOf(x)' : j <= i
        BY <2>1, <3>2 DEF LastNews
      <4>2. i + 1 \in NewsOf(x) /\ i + 1 \in DOMAIN news
        BY <2>1, <2>4, <4>1
      <4>3. ASSUME NEW j \in NewsOf(x) PROVE j <= i + 1
        <5>1. j \in Nat
          BY <2>1 DEF NewsOf
        <5>2. CASE j = 1
          BY <4>1, <5>2
        <5>3. CASE j # 1
          <6>1. j - 1 <= i
            BY <2>5, <4>1, <5>3
          <6> QED
            BY <4>1, <5>1, <6>1
        <5> QED
          BY <5>2, <5>3
      <4>4. LastNews(x, i + 1)
        BY <4>2, <4>3 DEF LastNews
      <4>5. Says(State(Store(o), x), news[i + 1].event)
        BY <1>1, <2>2, <3>1, <4>2, <4>4 DEF Hears
      <4> QED
        BY <2>1, <2>2, <3>2, <4>5
    <3> QED
      BY <2>2, <2>6, <3>2 DEF Hears
  <2>7. CASE NewsOf(x)' = {}
    <3>1. \A i \in NewsOf(x) : i = 1
      BY <2>5, <2>7
    <3>2. CASE x = e.sim
      <4>1. 1 \in NewsOf(x)
        BY <2>1, <3>2 DEF NewsOf
      <4>2. LastNews(x, 1)
        BY <3>1, <4>1 DEF LastNews
      <4>3. Says(State(Store(o), x), e.event)
        BY <1>1, <2>1, <2>2, <4>1, <4>2 DEF Hears
      <4> QED
        BY <2>2, <2>3, <2>7, <3>2, <4>3 DEF Hears
    <3>3. CASE x # e.sim
      <4>1. NewsOf(x) = {}
        BY <2>1, <3>1, <3>3 DEF NewsOf
      <4> QED
        BY <1>1, <2>2, <2>3, <2>7, <3>3, <4>1 DEF Hears
    <3> QED
      BY <3>2, <3>3
  <2> QED
    BY <2>6, <2>7
<1> QED
  BY <1>4, <1>5

LEMMA QuietRooms ==
    ASSUME RoomsHear, UNCHANGED <<config, rows, news, told, crashes>>,
           \A o \in Orchestrators, y \in Sims : Published(o, y)' => Published(o, y)
    PROVE  RoomsHear'
<1> SUFFICES ASSUME Coherent, crashes = 0, NEW o \in Orchestrators, NEW x \in Sims, Alone(o),
                    Published(o, x)'
             PROVE  Hears(o, x)'
  BY HearingStays
<1>1. Hears(o, x)
  BY DEF RoomsHear
<1> QED
  BY <1>1, HearsStill

LEMMA EndRooms ==
    ASSUME IInv, RoomsHear, NEW p \in Processes, NEW s \in Sims, HandleAbort(p, s),
           UNCHANGED <<config, req, crashes>>
    PROVE  RoomsHear'
<1>1. CASE s \in driving[p]
  <2>1. Save(p, s, [rows[Store(p)][s] EXCEPT !.state = "FINISHED"]) /\ Publish(p, s, "finished")
    BY <1>1 DEF HandleAbort, Ends
  <2>2. State(Store(p), s) = "RUNNING" /\ TypeOK
    BY <1>1 DEF IInv, SimInv, DriversHaveRows, Drivers
  <2>3. rows[Store(p)][s] \in Row
    BY <2>2, StoreIsStore, StateOfRow, DeploymentAssumption
  <2> PICK row : row = [rows[Store(p)][s] EXCEPT !.state = "FINISHED"]
    OBVIOUS
  <2>4. row \in Row /\ row.state = "FINISHED"
    BY <2>3 DEF Row
  <2>5. Says(row.state, "finished") /\ "finished" \in Events
    BY <2>4 DEF Says, Events
  <2>6. \A t \in Stores, y \in Sims :
          rows'[t][y] = IF t = Store(p) /\ y = s THEN row ELSE rows[t][y]
    BY <2>1, <2>2, <2>4, SaveRead
  <2>7. \A o \in Orchestrators, y \in Sims :
          (y # s \/ Store(o) # Store(p)) /\ Published(o, y)' => Published(o, y)
    BY PublishedStays
  <2>8. UNCHANGED <<config, crashes>>
    OBVIOUS
  <2> QED
    BY <2>1, <2>4, <2>5, <2>6, <2>7, <2>8, TellingRooms
<1>2. CASE s \notin driving[p]
  BY <1>2, QuietRooms, PublishedStays DEF HandleAbort
<1> QED
  BY <1>1, <1>2

LEMMA StartRooms ==
    ASSUME IInv, RoomsHear, NEW c \in Clients, NEW o \in Orchestrators, NEW s \in Sims,
           NEW f \in Profiles, Start(c, o, s, f)
    PROVE  RoomsHear'
<1> USE DEF Start
<1>1. o \in Processes /\ TypeOK /\ Igniting(s) = {}
  BY DEF Orchestrators, IInv, Fresh
<1>2. Running(f) \in Row /\ Save(o, s, Running(f))
  BY RunningType DEF Running
<1> PICK r : r = [pc |-> "publish", at |-> o, sim |-> s, profile |-> f, event |-> "started"]
  OBVIOUS
<1>3. r \in Ignition /\ r.pc = "publish" /\ r.at = o /\ r.sim = s
  BY <1>1 DEF Ignition
<1>4. /\ req'[c] = r
      /\ \A x \in Sims \ {s} :
             Igniting(x)' = Igniting(x) /\ \A d \in Igniting(x) : req'[d] = req[d]
      /\ Igniting(s)' = {c}
  <2>1. /\ req' \in [Clients -> {Idle} \cup Ignition]
        /\ req'[c] = r
        /\ \A x \in Sims \ {s} :
               Igniting(x)' = Igniting(x) /\ \A d \in Igniting(x) : req'[d] = req[d]
        /\ Igniting(s)' = Igniting(s) \cup {c}
    BY <1>1, <1>3, Asks
  <2> QED
    BY <2>1, <1>1, <1>3
<1>5. ASSUME NEW q \in Orchestrators, NEW y \in Sims, Published(q, y)'
      PROVE  Published(q, y) /\ (y # s \/ Store(q) # Store(o))
  <2>1. CASE y = s
    BY <1>1, <1>3, <1>4, <1>5, <2>1, WiringStays DEF Published
  <2>2. CASE y # s
    BY <1>4, <1>5, <2>2, PublishedElsewhere
  <2> QED
    BY <2>1, <2>2
<1> QED
  BY <1>1, <1>2, <1>5, SavingRooms

LEMMA RestartRooms ==
    ASSUME Patient, IInv, RoomsHear, NEW c \in Clients, NEW o \in Orchestrators, NEW s \in Sims,
           RestartRequest(c, o, s)
    PROVE  RoomsHear'
<1> USE DEF RestartRequest
<1>1. o \in Processes /\ TypeOK /\ Igniting(s) = {}
  BY DEF Orchestrators, IInv
<1>2. PICK f \in Profiles : f = rows[Store(o)][s].profile
  BY FinishedIsFree
<1> PICK r : r = [pc |-> "save", at |-> o, sim |-> s, profile |-> f, event |-> "restarted"]
  OBVIOUS
<1>3. r \in Ignition /\ r.sim = s
  BY <1>1 DEF Ignition
<1>4. /\ req' \in [Clients -> {Idle} \cup Ignition]
      /\ req'[c] = r
      /\ \A x \in Sims \ {s} :
             Igniting(x)' = Igniting(x) /\ \A d \in Igniting(x) : req'[d] = req[d]
      /\ Igniting(s)' = Igniting(s) \cup {c}
  <2>1. req' = [req EXCEPT ![c] = r]
    BY <1>2
  <2>2. req[c] # Idle => req[c].sim = s
    OBVIOUS
  <2> HIDE DEF RestartRequest
  <2> QED
    BY <1>1, <1>3, <2>1, <2>2, Asks
<1>5. ASSUME NEW q \in Orchestrators, NEW y \in Sims, Published(q, y)'
      PROVE  Published(q, y)
  <2>1. CASE y = s
    BY <1>1, <2>1 DEF Published
  <2>2. CASE y # s
    BY <1>4, <1>5, <2>2, PublishedElsewhere
  <2> QED
    BY <2>1, <2>2
<1> QED
  BY <1>5, QuietRooms

(* The calls of an open request. *)
LEMMA ServeRooms ==
    ASSUME IInv, RoomsHear, NEW c \in Clients, Serve(c)
    PROVE  RoomsHear'
<1>1. TypeOK /\ req[c] # Idle
  BY DEF IInv, Idle, Serve, SaveIgnition, PublishIgnition, DispatchIgnition
<1>2. PICK o \in Orchestrators, s \in Sims, f \in Profiles, e \in {"started", "restarted"} :
         Asked(c, o, s, f, e)
  BY <1>1, RequestRead
<1>2a. /\ req[c].at = o /\ req[c].sim = s /\ req[c].profile = f /\ req[c].event = e
       /\ \A n \in {"save", "publish", "dispatch"} :
             [req[c] EXCEPT !.pc = n] =
                 [pc |-> n, at |-> o, sim |-> s, profile |-> f, event |-> e]
       /\ Igniting(s) = {c}
       /\ req[c].pc # "save" => rows[Store(o)][s] = Running(f)
  BY <1>2 DEF Asked
<1>2b. req[c].sim = s /\ Igniting(s) = {c}
  BY <1>2 DEF Asked
<1>3. o \in Processes
  BY DEF Orchestrators
<1>4. Running(f) \in Row /\ Running(f).state = "RUNNING"
  BY RunningType DEF Running
<1>5. ASSUME NEW n \in {"publish", "dispatch"}, req' = [req EXCEPT ![c].pc = n]
      PROVE  /\ req'[c].pc = n /\ req'[c].at = o
             /\ Igniting(s)' = {c}
             /\ \A x \in Sims \ {s} :
                    Igniting(x)' = Igniting(x) /\ \A d \in Igniting(x) : req'[d] = req[d]
  <2> PICK r : r = [pc |-> n, at |-> o, sim |-> s, profile |-> f, event |-> e]
    OBVIOUS
  <2>1. r \in Ignition /\ r.pc = n /\ r.at = o /\ r.sim = s
    BY <1>3 DEF Ignition
  <2>2. req' = [req EXCEPT ![c] = r]
    BY <1>1, <1>2a, <1>5 DEF TypeOK
  <2>3. /\ req' \in [Clients -> {Idle} \cup Ignition]
        /\ req'[c] = r
        /\ \A x \in Sims \ {s} :
               Igniting(x)' = Igniting(x) /\ \A d \in Igniting(x) : req'[d] = req[d]
        /\ Igniting(s)' = Igniting(s) \cup {c}
    BY <1>1, <1>2b, <2>1, <2>2, Asks
  <2> QED
    BY <1>2b, <2>1, <2>3
<1>6. CASE SaveIgnition(c)
  <2>1. /\ req[c].pc = "save" /\ Save(o, s, Running(f))
        /\ UNCHANGED <<config, news, told, crashes>>
        /\ req'[c].pc = "publish" /\ req'[c].at = o
        /\ Igniting(s)' = {c}
        /\ \A x \in Sims \ {s} :
               Igniting(x)' = Igniting(x) /\ \A d \in Igniting(x) : req'[d] = req[d]
    BY <1>2a, <1>5, <1>6 DEF SaveIgnition, Running
  <2>2. ASSUME NEW q \in Orchestrators, NEW y \in Sims, Published(q, y)'
        PROVE  Published(q, y) /\ (y # s \/ Store(q) # Store(o))
    <3>1. CASE y = s
      BY <1>2a, <2>1, <2>2, <3>1, WiringStays DEF Published
    <3>2. CASE y # s
      BY <2>1, <2>2, <3>2, PublishedElsewhere
    <3> QED
      BY <3>1, <3>2
  <2> QED
    BY <1>3, <1>4, <2>1, <2>2, SavingRooms
<1>7. CASE PublishIgnition(c)
  <2>1. /\ req[c].pc = "publish" /\ Publish(o, s, e)
        /\ UNCHANGED <<config, rows, crashes>>
        /\ \A x \in Sims \ {s} :
               Igniting(x)' = Igniting(x) /\ \A d \in Igniting(x) : req'[d] = req[d]
    BY <1>2a, <1>5, <1>7 DEF PublishIgnition
  <2>2. ASSUME NEW q \in Orchestrators, NEW y \in Sims, Published(q, y)',
               y # s \/ Store(q) # Store(o)
        PROVE  Published(q, y)
    <3>1. CASE y = s
      BY <1>2a, <2>2, <3>1 DEF Published
    <3>2. CASE y # s
      BY <2>1, <2>2, <3>2, PublishedElsewhere
    <3> QED
      BY <3>1, <3>2
  <2>3. \A t \in Stores, y \in Sims :
          rows'[t][y] = IF t = Store(o) /\ y = s THEN Running(f) ELSE rows[t][y]
    BY <1>2a, <2>1
  <2>4. Says(Running(f).state, e) /\ e \in Events
    BY <1>4 DEF Says, Events
  <2> QED
    BY <1>3, <1>4, <2>1, <2>2, <2>3, <2>4, TellingRooms
<1>8. CASE DispatchIgnition(c)
  <2>1. /\ req[c].pc = "dispatch" /\ req' = [req EXCEPT ![c] = Idle]
        /\ UNCHANGED <<config, rows, news, told, crashes>>
    BY <1>8 DEF DispatchIgnition
  <2>2. \A x \in Sims \ {s} :
            Igniting(x)' = Igniting(x) /\ \A d \in Igniting(x) : req'[d] = req[d]
    BY <1>1, <1>2a, <2>1, Answered
  <2>3. ASSUME NEW q \in Orchestrators, NEW y \in Sims, Published(q, y)'
        PROVE  Published(q, y)
    <3>1. CASE y = s
      BY <1>2a, <2>1, <3>1 DEF Published
    <3>2. CASE y # s
      BY <2>1, <2>2, <2>3, <3>2, PublishedElsewhere
    <3> QED
      BY <3>1, <3>2
  <2> QED
    BY <2>1, <2>3, QuietRooms
<1> QED
  BY <1>6, <1>7, <1>8 DEF Serve

LEMMA RoomsHearInit == Init => RoomsHear
<1> SUFFICES ASSUME Init, NEW o \in Orchestrators, NEW s \in Sims
             PROVE  Hears(o, s)
  BY DEF RoomsHear
<1>1. o \in Processes
  BY DEF Orchestrators
<1>2. State(Store(o), s) = NoRow /\ told[o][s] = Silence /\ NewsOf(s) = {}
  BY <1>1, StoreIsStore DEF Init, State, NewsOf
<1> QED
  BY <1>2, DeploymentAssumption DEF Hears, Says

LEMMA RoomsHearStep ==
    ASSUME Patient, IInv, RoomsHear, [Next]_vars
    PROVE  RoomsHear'
<1>1. ASSUME NEW o \in Orchestrators, Api(o)
      PROVE  RoomsHear'
  <2>1. o \in Processes
    BY DEF Orchestrators
  <2>2. ASSUME NEW s \in Sims, Finish(o, s)
        PROVE  RoomsHear'
    <3>1. UNCHANGED <<config, req, crashes>>
      BY <2>2 DEF Finish
    <3>2. HandleAbort(o, s) \/ UNCHANGED <<rows, news, told>>
      BY <2>2 DEF Finish
    <3> QED
      BY <2>1, <3>1, <3>2, EndRooms, QuietRooms, PublishedStays
  <2> QED
    BY <1>1, <2>2, StartRooms, RestartRooms, ForwardRooms DEF Api
<1>2. ASSUME NEW p \in Processes, Handler(p)
      PROVE  RoomsHear'
  <2>1. CASE TakeRun(p)
    BY <2>1, QuietRooms, PublishedStays DEF TakeRun
  <2>2. CASE TakeAbort(p)
    <3> PICK s \in Sims : s = Head(aborts)
      BY <2>2 DEF TakeAbort, IInv, TypeOK
    <3> QED
      BY <2>2, EndRooms DEF TakeAbort
  <2>3. CASE \E s \in Sims : AutoFinish(p, s)
    BY <2>3, EndRooms DEF AutoFinish, HandleAbort
  <2> QED
    BY <1>2, <2>1, <2>2, <2>3 DEF Handler
<1>3. ASSUME NEW p \in Processes, Crash(p)
      PROVE  RoomsHear'
  BY <1>3 DEF Crash, RoomsHear, IInv, TypeOK
<1>4. CASE UNCHANGED vars
  BY <1>4, QuietRooms, PublishedStays DEF vars
<1>5. ASSUME NEW c \in Clients, Serve(c)
      PROVE  RoomsHear'
  BY <1>5, ServeRooms
<1> QED
  BY <1>1, <1>2, <1>3, <1>4, <1>5 DEF Next

LEMMA HearingIsTelling == RoomsHear => RoomsAreTold
<1> SUFFICES ASSUME RoomsHear, Coherent, crashes = 0, NEW o \in Orchestrators, NEW s \in Sims,
                    Alone(o), NewsOf(s) = {}, \A c \in Igniting(s) : req[c].pc # "publish"
             PROVE  Says(State(Store(o), s), told[o][s])
  BY DEF RoomsAreTold, NewsOf, Says, Alone
<1>1. Hears(o, s)
  BY DEF RoomsHear, Published
<1> QED
  BY <1>1 DEF Hears

-----------------------------------------------------------------------------

(* The wiring of any deployment keeps its types: in particular no end of a *)
(* run is written to a table that has no row for it.                       *)
THEOREM DeploymentTypes ==
    ASSUME Patient
    PROVE  Spec => []TypeOK
<1>1. IInv => TypeOK
  BY DEF IInv
<1> QED
  BY <1>1, Invariance, PTL

(* Whatever the environment variables of however many processes, and       *)
(* whichever call of a request or consumer a crash falls on: as long as no *)
(* two restarts of a simulation overlap, it is ignited by one request, or  *)
(* waits once, or is run by one process, which has it RUNNING in its own   *)
(* table.  The wiring adds no second run; two restarts that overlap do     *)
(* (SimulationSystem, the run revival).                                    *)
THEOREM OneDriverEverywhere ==
    ASSUME Patient
    PROVE  Spec => []OneDriver
BY Invariance, CountsDrivers, PTL

(* In a coherent deployment that keeps its rows, a RUN command finds the   *)
(* row it is for, and, no two restarts overlapping, finds it RUNNING,      *)
(* whoever takes it.                                                       *)
THEOREM NoCommandWithoutRow ==
    ASSUME Patient
    PROVE  Spec => []CommandsFindRows
BY Invariance, FindsRows, PTL

(* In a coherent deployment that does not crash, every RUNNING simulation  *)
(* of a served profile is about to be sent, waits in its topic or is run   *)
(* by a process of its profile that has it in its table.                   *)
THEOREM NobodyIsStranded ==
    ASSUME Patient
    PROVE  Spec => []NothingStranded
BY Invariance, CaresForAll, PTL

(* In a coherent deployment that does not crash, an orchestrator alone     *)
(* with its table has told its rooms, once its queue holds nothing more of *)
(* a simulation and no ignition is still to be published, what the table   *)
(* says of it: Redis hands each event to one consumer only                 *)
(* (bullmq-event-bus.ts:24), and it is the only one.                       *)
THEOREM RoomsLearnTheRow ==
    ASSUME Patient
    PROVE  Spec => []RoomsAreTold
<1>1. IInv /\ RoomsHear /\ [Next]_vars => RoomsHear'
  BY RoomsHearStep
<1> QED
  BY <1>1, Invariance, RoomsHearInit, HearingIsTelling, PTL DEF Spec

=============================================================================
