--------------------------- MODULE ObserversProofs ---------------------------
(***************************************************************************)
(* What the members of a room learn.  Whatever the clients do and whatever *)
(* fails, a member misses no event that is published while it is there     *)
(* (the queue and the rooms alone, by induction over the queue); and where *)
(* every change of a row is told, who subscribed first and asked then      *)
(* knows the row as soon as nothing is on its way.                         *)
(***************************************************************************)
EXTENDS Observers, DriverProofs

-----------------------------------------------------------------------------
(* The system that is watched is the system. *)

LEMMA ObserversRefineSpec == ObserversSpec => Spec
<1>1. ObserversInit => Init
  BY DEF ObserversInit
<1>2. [ObserversNext]_allVars => [Next]_vars
  BY DEF ObserversNext, SystemStep, ForwardEvent, ObserverStep, Subscribe, Unsubscribe,
         Disconnect, Get, allVars
<1> QED
  BY <1>1, <1>2, PTL DEF ObserversSpec, Spec

(* A step tells one room one event, or none. *)
LEMMA OneRoomIsTold ==
    ASSUME TypeOK, [Next]_vars
    PROVE  UNCHANGED feed \/ \E s \in Sims, event \in Event : Publish(s, event)
<1>1. ASSUME NEW c \in Clients, PublishIgnition(c)
      PROVE  \E s \in Sims, event \in Event : Publish(s, event)
  <2>1. req[c] \in Ignition
    BY <1>1, RequestShape DEF PublishIgnition, Igniting, TypeOK
  <2>2. req[c].sim \in Sims /\ req[c].event \in Event
    BY <2>1, IgnitionEvents DEF Ignition
  <2> QED
    BY <1>1, <2>2 DEF PublishIgnition
<1>2. ASSUME NEW r \in Runs, runs[r].pc = "publish", Publish(runs[r].sim, RunEvent(r))
      PROVE  \E s \in Sims, event \in Event : Publish(s, event)
  <2>1. runs[r] \in Run
    BY <1>2, RunShape DEF TypeOK
  <2>2. runs[r].sim \in Sims /\ RunEvent(r) \in Event
    BY <2>1, EventTypes DEF Run, RunEvent
  <2> QED
    BY <1>2, <2>2
<1>3. ASSUME NEW w \in Workers, AbortPublish(w)
      PROVE  \E s \in Sims, event \in Event : Publish(s, event)
  <2>1. abortHandler[w] \in Finishing
    BY <1>3, HandlerShape DEF AbortPublish, TypeOK, WorkerTypeOK
  <2>2. /\ abortHandler[w].sim \in Sims
        /\ SimulationFinished("manual", abortHandler[w].copy) \in Event
    BY <2>1, EventTypes DEF Finishing
  <2> QED
    BY <1>3, <2>2 DEF AbortPublish
<1>4. CASE OrchestratorNext
  BY <1>1, <1>4, RequestsTell
<1>5. CASE WorkerNext
  BY <1>2, <1>3, <1>5, WorkersTell
<1>6. CASE Tick \/ UNCHANGED vars
  BY <1>6 DEF Tick, vars, serviceVars
<1> QED
  BY <1>4, <1>5, <1>6 DEF Next

(* What a publication puts in the queue. *)
LEMMA PublishedIs ==
    ASSUME TypeOK, NEW s \in Sims, NEW event \in Event, Publish(s, event), NEW m \in Published
    PROVE  m = [sim |-> s, event |-> event]
<1>1. /\ feed'[s] # << >> /\ feed'[s][Len(feed'[s])] = event
      /\ \A x \in Sims \ {s} : feed'[x] = feed[x]
  BY PublishRead DEF TypeOK
<1>2. PICK x \in Sims : feed'[x] # feed[x] /\ m = [sim |-> x, event |-> Last(feed'[x])]
  BY DEF Published
<1>3. x = s
  BY <1>1, <1>2
<1> QED
  BY <1>1, <1>2, <1>3 DEF Last

(* The queue after a step of the system: the event that was published, if  *)
(* any, is at its end.                                                     *)
Publishes(s, event) ==
    /\ feed'[s] = Forward(feed[s], event)
    /\ \A x \in Sims \ {s} : feed'[x] = feed[x]
    /\ events' = Append(events, [sim |-> s, event |-> event])

LEMMA SystemTells ==
    ASSUME TypeOK, SystemStep
    PROVE  \/ UNCHANGED <<feed, events>>
           \/ \E s \in Sims, event \in Event : Publishes(s, event)
<1>1. Next /\ [Next]_vars
  BY DEF SystemStep
<1>2. CASE UNCHANGED feed
  BY <1>2 DEF SystemStep, Published
<1>3. ASSUME NEW s \in Sims, NEW event \in Event, Publish(s, event), ~UNCHANGED <<feed, events>>
      PROVE  Publishes(s, event)
  <2>1. /\ feed'[s] = Forward(feed[s], event)
        /\ \A x \in Sims \ {s} : feed'[x] = feed[x]
    BY <1>3, PublishRead DEF TypeOK
  <2>2. Published # {}
    <3> SUFFICES ASSUME Published = {} PROVE UNCHANGED <<feed, events>>
      BY <1>3
    <3>1. UNCHANGED events
      BY DEF SystemStep
    <3>2. \A x \in Sims : feed'[x] = feed[x]
      BY DEF Published
    <3>3. feed \in [Sims -> Seq(Event)] /\ feed' = [feed EXCEPT ![s] = Forward(feed[s], event)]
      BY <1>3 DEF TypeOK, ServicesTypeOK, Publish
    <3>4. feed' = feed
      BY <3>2, <3>3
    <3> QED
      BY <3>1, <3>4
  <2>3. PICK m \in Published : events' = Append(events, m)
    BY <2>2 DEF SystemStep
  <2> QED
    BY <1>3, <2>1, <2>3, PublishedIs DEF Publishes
<1> QED
  BY <1>1, <1>2, <1>3, OneRoomIsTold

-----------------------------------------------------------------------------
(* A queue of messages: where those of s are, how many are behind i, and   *)
(* what becomes of that when one joins at the end or the head is taken.    *)

At(q, s) == {i \in DOMAIN q : q[i].sim = s}

After(q, s, i) == {j \in At(q, s) : j > i}

Rest(q, s, i) == Cardinality(After(q, s, i))

Joined(q, m) == Append(q, m)

Taken(q) == Tail(q)

LEMMA QueueRead ==
    ASSUME NEW q \in Seq(Message), NEW s
    PROVE  /\ At(q, s) \subseteq 1 .. Len(q) /\ Len(q) \in Nat
           /\ \A i \in At(q, s) : i \in Nat /\ i >= 1 /\ i <= Len(q) /\ q[i] \in Message
           /\ \A i : IsFiniteSet(After(q, s, i)) /\ Rest(q, s, i) \in Nat
<1>1. At(q, s) \subseteq 1 .. Len(q) /\ Len(q) \in Nat
  BY DEF At
<1>2. ASSUME NEW i
      PROVE  IsFiniteSet(After(q, s, i)) /\ Rest(q, s, i) \in Nat
  <2>1. IsFiniteSet(1 .. Len(q))
    BY <1>1, FS_Interval
  <2>2. After(q, s, i) \in SUBSET (1 .. Len(q))
    BY <1>1 DEF After
  <2> QED
    BY <2>1, <2>2, FS_Subset, FS_CardinalityType DEF Rest
<1> QED
  BY <1>1, <1>2 DEF At

LEMMA HeadRead ==
    ASSUME NEW q \in Seq(Message), q # << >>
    PROVE  Taken(q) \in Seq(Message) /\ Head(q) \in Message /\ Head(q) = q[1] /\ 1 \in DOMAIN q
BY DEF Taken

LEMMA TakenRead ==
    ASSUME NEW q \in Seq(Message), q # << >>
    PROVE  /\ \A i \in DOMAIN Taken(q) :
                i \in Nat /\ i >= 1 /\ i + 1 \in DOMAIN q /\ Taken(q)[i] = q[i + 1]
           /\ \A i \in DOMAIN q :
                i \in Nat /\ i >= 1 /\ (i # 1 => i - 1 \in DOMAIN Taken(q) /\ Taken(q)[i - 1] = q[i])
BY DEF Taken

LEMMA RestOfTaken ==
    ASSUME NEW q \in Seq(Message), q # << >>, NEW s, NEW i \in Nat
    PROVE  Rest(Taken(q), s, i) = Rest(q, s, i + 1)
<1> PICK p : p = Taken(q)
  OBVIOUS
<1>1. /\ p \in Seq(Message)
      /\ \A j \in DOMAIN p : j \in Nat /\ j >= 1 /\ j + 1 \in DOMAIN q /\ p[j] = q[j + 1]
      /\ \A j \in DOMAIN q : j \in Nat /\ j >= 1 /\ (j # 1 => j - 1 \in DOMAIN p /\ p[j - 1] = q[j])
  BY DEF Taken
<1> DEFINE f == [j \in After(p, s, i) |-> j + 1]
<1>2. \A j \in After(p, s, i) : j \in Nat /\ f[j] = j + 1 /\ j + 1 \in After(q, s, i + 1)
  BY <1>1 DEF After, At
<1>3. \A j \in After(q, s, i + 1) : j \in Nat /\ j - 1 \in After(p, s, i) /\ f[j - 1] = j
  BY <1>1 DEF After, At
<1>4. f \in Bijection(After(p, s, i), After(q, s, i + 1))
  <2> PICK S, T : S = After(p, s, i) /\ T = After(q, s, i + 1)
    OBVIOUS
  <2>1. f \in [S -> T]
    BY <1>2
  <2>2. \A j, k \in S : f[j] = f[k] => j = k
    BY <1>2
  <2>3. \A k \in T : \E j \in S : f[j] = k
    BY <1>3
  <2> HIDE DEF f
  <2> QED
    BY <2>1, <2>2, <2>3 DEF Bijection, Injection, Surjection, IsInjective
<1>5. ExistsBijection(After(p, s, i), After(q, s, i + 1))
  BY <1>4 DEF ExistsBijection
<1>6. IsFiniteSet(After(p, s, i))
  BY <1>1, QueueRead
<1> QED
  BY <1>5, <1>6, FS_Bijection DEF Rest

LEMMA RestOfAll ==
    ASSUME NEW q \in Seq(Message), q # << >>, NEW s
    PROVE  Rest(q, s, 0) = Rest(q, s, 1) + (IF Head(q).sim = s THEN 1 ELSE 0)
<1>1. /\ Head(q) = q[1] /\ Head(q) \in Message /\ 1 \in DOMAIN q
      /\ \A i \in DOMAIN q : i \in Nat /\ i >= 1
  OBVIOUS
<1>2. CASE Head(q).sim = s
  <2>1. After(q, s, 0) = After(q, s, 1) \cup {1} /\ 1 \notin After(q, s, 1)
    BY <1>1, <1>2 DEF After, At
  <2> QED
    BY <1>2, <2>1, QueueRead, FS_AddElement DEF Rest
<1>3. CASE Head(q).sim # s
  <2>1. After(q, s, 0) = After(q, s, 1)
    BY <1>1, <1>3 DEF After, At
  <2>2. Rest(q, s, 1) \in Nat
    BY QueueRead
  <2> QED
    BY <1>3, <2>1, <2>2 DEF Rest
<1> QED
  BY <1>2, <1>3

LEMMA QueueIsRead ==
    /\ \A s : Coming(s) = At(events, s) /\ Coming(s)' = At(events', s)
    /\ \A s, i : Behind(s, i) = Rest(events, s, i) /\ Behind(s, i)' = Rest(events', s, i)
BY DEF Coming, Behind, At, After, Rest

-----------------------------------------------------------------------------
(* Types; who is not in a room knows nothing of it, who is knows that the  *)
(* simulation exists.                                                      *)

Answer == [state: {"RUNNING", "FINISHED"}, goals: Nat]

WatchInv ==
    /\ ObserversTypeOK
    /\ \A s \in Sims : room[s] # {} => rows[s] # NoRow
    /\ \A s \in Sims : \A o \in Sockets \ room[s] :
          heard[o][s] = << >> /\ answer[o][s] = Unasked

(* What ForwardEvent tells to whom. *)
LEMMA EmitRead ==
    ASSUME ObserversTypeOK, NEW m \in Message, Emit(m)
    PROVE  /\ heard' \in [Sockets -> [Sims -> Seq(Event)]]
           /\ \A o \in Sockets, s \in Sims :
                heard'[o][s] = IF o \in room[s] /\ s = m.sim
                               THEN Forward(heard[o][s], m.event) ELSE heard[o][s]
<1> USE DEF ObserversTypeOK
<1>1. m.sim \in Sims /\ m.event \in Event
  BY DEF Message
<1>2. \A o \in Sockets : Forward(heard[o][m.sim], m.event) \in Seq(Event)
  BY <1>1 DEF Forward
<1>3. \A o \in Sockets :
        heard'[o] = IF o \in room[m.sim]
                    THEN [heard[o] EXCEPT ![m.sim] = Forward(heard[o][m.sim], m.event)]
                    ELSE heard[o]
  BY DEF Emit
<1>4. ASSUME NEW o \in Sockets
      PROVE  heard'[o] \in [Sims -> Seq(Event)]
  <2>1. heard[o] \in [Sims -> Seq(Event)] /\ Forward(heard[o][m.sim], m.event) \in Seq(Event)
    BY <1>2
  <2>2. [heard[o] EXCEPT ![m.sim] = Forward(heard[o][m.sim], m.event)] \in [Sims -> Seq(Event)]
    BY <2>1
  <2> QED
    BY <1>3, <2>1, <2>2
<1>5. heard' \in [Sockets -> [Sims -> Seq(Event)]]
  BY <1>4 DEF Emit
<1>6. ASSUME NEW o \in Sockets, NEW s \in Sims
      PROVE  heard'[o][s] = IF o \in room[s] /\ s = m.sim
                            THEN Forward(heard[o][s], m.event) ELSE heard[o][s]
  BY <1>1, <1>3
<1> QED
  BY <1>5, <1>6

LEMMA ForgetRead ==
    ASSUME ObserversTypeOK, NEW o \in Sockets, NEW S \in SUBSET Sims, Forget(o, S)
    PROVE  /\ heard' \in [Sockets -> [Sims -> Seq(Event)]]
           /\ answer' \in [Sockets -> [Sims -> Answer \cup {Unasked}]]
           /\ \A p \in Sockets, s \in Sims :
                IF p = o /\ s \in S
                THEN heard'[p][s] = << >> /\ answer'[p][s] = Unasked
                ELSE heard'[p][s] = heard[p][s] /\ answer'[p][s] = answer[p][s]
<1> USE DEF ObserversTypeOK, Answer
<1> DEFINE h == [s \in Sims |-> IF s \in S THEN << >> ELSE heard[o][s]]
           a == [s \in Sims |-> IF s \in S THEN Unasked ELSE answer[o][s]]
<1>1. heard' = [heard EXCEPT ![o] = h] /\ answer' = [answer EXCEPT ![o] = a]
  BY DEF Forget
<1>2. h \in [Sims -> Seq(Event)]
  OBVIOUS
<1>3. a \in [Sims -> Answer \cup {Unasked}]
  OBVIOUS
<1>4. \A s \in Sims : IF s \in S THEN h[s] = << >> /\ a[s] = Unasked
                      ELSE h[s] = heard[o][s] /\ a[s] = answer[o][s]
  OBVIOUS
<1> HIDE DEF h, a
<1> QED
  BY <1>1, <1>2, <1>3, <1>4

LEMMA SystemKeepsWatch ==
    ASSUME TypeOK, WatchInv, RowsStay, SystemStep
    PROVE  WatchInv'
<1>1. UNCHANGED <<room, heard, answer>>
  BY DEF SystemStep
<1>2. ASSUME NEW s \in Sims, NEW event \in Event, Publishes(s, event)
      PROVE  events' \in Seq(Message)
  <2>1. [sim |-> s, event |-> event] \in Message
    BY DEF Message
  <2> QED
    BY <1>2, <2>1 DEF Publishes, WatchInv, ObserversTypeOK
<1>3. events' \in Seq(Message)
  BY <1>2, SystemTells DEF WatchInv, ObserversTypeOK
<1> QED
  BY <1>1, <1>3 DEF WatchInv, ObserversTypeOK, RowsStay

LEMMA ForwardingKeepsWatch ==
    ASSUME WatchInv, ForwardEvent
    PROVE  WatchInv'
<1>1. /\ events \in Seq(Message) /\ events # << >>
      /\ events' = Tail(events) /\ Emit(Head(events)) /\ UNCHANGED <<rows, room, answer>>
  BY DEF ForwardEvent, WatchInv, ObserversTypeOK, vars, serviceVars
<1>2. Head(events) \in Message /\ events' \in Seq(Message)
  BY <1>1, HeadRead DEF Taken
<1>3. /\ heard' \in [Sockets -> [Sims -> Seq(Event)]]
      /\ \A o \in Sockets, s \in Sims : o \notin room[s] => heard'[o][s] = heard[o][s]
  BY <1>1, <1>2, EmitRead DEF WatchInv
<1> QED
  BY <1>1, <1>2, <1>3 DEF WatchInv, ObserversTypeOK

(* The observers. *)
LEMMA ObserverKeepsWatch ==
    ASSUME TypeOK, WatchInv, NEW o \in Sockets, ObserverStep(o)
    PROVE  /\ WatchInv'
           /\ \A p \in Sockets, s \in Sims : p \in room'[s] =>
                \/ p \in room[s] /\ heard'[p][s] = heard[p][s]
                \/ p \notin room[s] /\ heard'[p][s] = << >>
<1> USE DEF WatchInv
<1>0. UNCHANGED <<rows, events>>
  BY DEF ObserverStep, Subscribe, Unsubscribe, Disconnect, Get, vars, serviceVars
<1>1. ASSUME NEW s \in Sims, Subscribe(o, s)
      PROVE  /\ WatchInv'
             /\ \A p \in Sockets, x \in Sims : p \in room'[x] =>
                  \/ p \in room[x] /\ heard'[p][x] = heard[p][x]
                  \/ p \notin room[x] /\ heard'[p][x] = << >>
  <2>1. rows[s] # NoRow /\ room' = [room EXCEPT ![s] = room[s] \cup {o}] /\ UNCHANGED <<heard, answer>>
    BY <1>1 DEF Subscribe
  <2>2. /\ \A x \in Sims : room'[x] = IF x = s THEN room[s] \cup {o} ELSE room[x]
        /\ room' \in [Sims -> SUBSET Sockets]
    BY <2>1 DEF ObserversTypeOK
  <2> QED
    BY <1>0, <2>1, <2>2 DEF ObserversTypeOK
<1>2. ASSUME NEW s \in Sims, Unsubscribe(o, s)
      PROVE  /\ WatchInv'
             /\ \A p \in Sockets, x \in Sims : p \in room'[x] =>
                  p \in room[x] /\ heard'[p][x] = heard[p][x]
  <2>1. room' = [room EXCEPT ![s] = room[s] \ {o}] /\ Forget(o, {s})
    BY <1>2 DEF Unsubscribe
  <2>2. /\ \A x \in Sims : room'[x] = IF x = s THEN room[s] \ {o} ELSE room[x]
        /\ room' \in [Sims -> SUBSET Sockets]
    BY <2>1 DEF ObserversTypeOK
  <2>3. /\ heard' \in [Sockets -> [Sims -> Seq(Event)]]
        /\ answer' \in [Sockets -> [Sims -> Answer \cup {Unasked}]]
        /\ \A p \in Sockets, x \in Sims :
             IF p = o /\ x = s
             THEN heard'[p][x] = << >> /\ answer'[p][x] = Unasked
             ELSE heard'[p][x] = heard[p][x] /\ answer'[p][x] = answer[p][x]
    BY <2>1, ForgetRead
  <2>4. ObserversTypeOK'
    BY <1>0, <2>2, <2>3 DEF ObserversTypeOK, Answer
  <2>5. \A x \in Sims : room'[x] # {} => rows'[x] # NoRow
    BY <1>0, <2>2
  <2>6. ASSUME NEW x \in Sims, NEW p \in Sockets
        PROVE  /\ p \notin room'[x] => heard'[p][x] = << >> /\ answer'[p][x] = Unasked
               /\ p \in room'[x] => p \in room[x] /\ heard'[p][x] = heard[p][x]
    <3>1. CASE p = o /\ x = s
      BY <2>2, <2>3, <3>1 DEF ObserversTypeOK
    <3>2. CASE ~(p = o /\ x = s)
      BY <2>2, <2>3, <3>2
    <3> QED
      BY <3>1, <3>2
  <2>7. room'[s] \subseteq Sockets /\ \A x \in Sims : room'[x] \subseteq Sockets
    BY <2>2
  <2> QED
    BY <2>4, <2>5, <2>6, <2>7
<1>3. ASSUME Disconnect(o)
      PROVE  /\ WatchInv'
             /\ \A p \in Sockets, x \in Sims : p \in room'[x] =>
                  p \in room[x] /\ heard'[p][x] = heard[p][x]
  <2>1. room' = [s \in Sims |-> room[s] \ {o}] /\ Forget(o, Sims)
    BY <1>3 DEF Disconnect
  <2>2. /\ \A x \in Sims : room'[x] = room[x] \ {o}
        /\ room' \in [Sims -> SUBSET Sockets]
    BY <2>1 DEF ObserversTypeOK
  <2>3. /\ heard' \in [Sockets -> [Sims -> Seq(Event)]]
        /\ answer' \in [Sockets -> [Sims -> Answer \cup {Unasked}]]
        /\ \A p \in Sockets, x \in Sims :
             IF p = o THEN heard'[p][x] = << >> /\ answer'[p][x] = Unasked
             ELSE heard'[p][x] = heard[p][x] /\ answer'[p][x] = answer[p][x]
    BY <2>1, ForgetRead
  <2> QED
    BY <1>0, <2>2, <2>3 DEF ObserversTypeOK, Answer
<1>4. ASSUME NEW s \in Sims, Get(o, s)
      PROVE  /\ WatchInv'
             /\ \A p \in Sockets, x \in Sims : p \in room'[x] =>
                  p \in room[x] /\ heard'[p][x] = heard[p][x]
  <2>1. /\ o \in room[s] /\ UNCHANGED <<room, heard>>
        /\ answer' = [answer EXCEPT ![o][s] = Seen(rows[s].state, rows[s].totalGoals)]
    BY <1>4 DEF Get
  <2>2. rows[s] \in Aggregate
    BY <2>1 DEF TypeOK, ServicesTypeOK
  <2>3. Seen(rows[s].state, rows[s].totalGoals) \in Answer
    BY <2>2 DEF Aggregate, Seen, Answer
  <2>4. /\ answer' \in [Sockets -> [Sims -> Answer \cup {Unasked}]]
        /\ \A p \in Sockets, x \in Sims : p # o \/ x # s => answer'[p][x] = answer[p][x]
    <3> PICK seen \in Answer : seen = Seen(rows[s].state, rows[s].totalGoals)
      BY <2>3
    <3>1. answer \in [Sockets -> [Sims -> Answer \cup {Unasked}]]
      BY DEF ObserversTypeOK, Answer
    <3>2. answer' = [answer EXCEPT ![o][s] = seen]
      BY <2>1
    <3> QED
      BY <3>1, <3>2
  <2> QED
    BY <1>0, <2>1, <2>4 DEF ObserversTypeOK, Answer
<1> QED
  BY <1>1, <1>2, <1>3, <1>4 DEF ObserverStep

LEMMA WatchInvInit == ObserversInit => WatchInv
BY DEF ObserversInit, WatchInv, ObserversTypeOK

LEMMA WatchInvStep == TypeOK /\ RowsStay /\ WatchInv /\ [ObserversNext]_allVars => WatchInv'
<1> SUFFICES ASSUME TypeOK, RowsStay, WatchInv, [ObserversNext]_allVars PROVE WatchInv'
  OBVIOUS
<1>1. CASE UNCHANGED allVars
  BY <1>1 DEF allVars, vars, serviceVars, observerVars, WatchInv, ObserversTypeOK
<1> QED
  BY <1>1, SystemKeepsWatch, ForwardingKeepsWatch, ObserverKeepsWatch DEF ObserversNext

LEMMA WatchInvariance == ObserversSpec => [](TypeOK /\ WatchInv)
<1>1. TypeOK /\ [ObserversNext]_allVars => RowsStay
  BY StepKeepsRows DEF ObserversNext, SystemStep, ForwardEvent, ObserverStep, Subscribe,
     Unsubscribe, Disconnect, Get, allVars
<1> QED
  BY <1>1, ObserversRefineSpec, TypeCorrect, WatchInvInit, WatchInvStep, PTL DEF ObserversSpec

-----------------------------------------------------------------------------
(* NothingMissed, of any queue q, published events f and heard events h. *)

Undivided(q, s, i) == \A j \in After(q, s, i) : q[j].event \notin Ignitions

QueueFits(q, f, s) ==
    /\ \A i \in At(q, s) : Undivided(q, s, i) =>
          Rest(q, s, i) < Len(f) /\ q[i].event = f[Len(f) - Rest(q, s, i)]
    /\ Undivided(q, s, 0) => Rest(q, s, 0) <= Len(f)

MemberFits(q, f, h, s) ==
    Undivided(q, s, 0) =>
        /\ Len(f) - Rest(q, s, 0) - Len(h) >= 0
        /\ \A k \in DOMAIN h : h[k] = f[Len(f) - Rest(q, s, 0) - Len(h) + k]

LEMMA ForwardRead ==
    ASSUME NEW f \in Seq(Event), NEW e \in Event
    PROVE  \E g \in Seq(Event) :
              /\ g = Forward(f, e)
              /\ Len(f) \in Nat /\ Len(g) \in Nat /\ Len(g) > 0
              /\ g[Len(g)] = e
              /\ e \in Ignitions => Len(g) = 1
              /\ e \notin Ignitions =>
                   Len(g) = Len(f) + 1 /\ \A k \in 1 .. Len(f) : g[k] = f[k]
              /\ DOMAIN f = 1 .. Len(f) /\ DOMAIN g = 1 .. Len(g)
<1> PICK g : g = Forward(f, e)
  OBVIOUS
<1>1. CASE e \in Ignitions
  <2>1. g = <<e>>
    BY <1>1 DEF Forward
  <2> QED
    BY <1>1, <2>1
<1>2. CASE e \notin Ignitions
  <2>1. g = Append(f, e)
    BY <1>2 DEF Forward
  <2> QED
    BY <1>2, <2>1
<1> QED
  BY <1>1, <1>2

(* An event of another simulation joins the queue. *)
LEMMA StrangerJoins ==
    ASSUME NEW q \in Seq(Message), NEW m \in Message, NEW s, m.sim # s, NEW f, NEW h
    PROVE  /\ QueueFits(q, f, s) => QueueFits(Joined(q, m), f, s)
           /\ MemberFits(q, f, h, s) => MemberFits(Joined(q, m), f, h, s)
<1> PICK p, n : p = Joined(q, m) /\ n = Len(q) + 1
  OBVIOUS
<1>0. /\ n \in Nat /\ p[n] = m
      /\ DOMAIN p = 1 .. n /\ DOMAIN q = 1 .. (n - 1)
      /\ \A i \in DOMAIN q : p[i] = q[i] /\ i \in Nat /\ i < n
  BY DEF Joined
<1>1. /\ At(p, s) = At(q, s)
      /\ \A i \in At(q, s) : p[i] = q[i]
      /\ \A i : After(p, s, i) = After(q, s, i)
  <2>1. At(p, s) = At(q, s)
    BY <1>0 DEF At
  <2> QED
    BY <1>0, <2>1 DEF After, At
<1>2. \A i : (Undivided(p, s, i) <=> Undivided(q, s, i)) /\ Rest(p, s, i) = Rest(q, s, i)
  BY <1>1 DEF Undivided, Rest, After
<1> QED
  BY <1>1, <1>2 DEF QueueFits, MemberFits

(* The next event of s joins it. *)
LEMMA NextJoins ==
    ASSUME NEW q \in Seq(Message), NEW m \in Message, NEW s, m.sim = s,
           NEW f \in Seq(Event), NEW h \in Seq(Event)
    PROVE  /\ QueueFits(q, f, s) => QueueFits(Joined(q, m), Forward(f, m.event), s)
           /\ MemberFits(q, f, h, s) => MemberFits(Joined(q, m), Forward(f, m.event), h, s)
<1> PICK p, n : p = Joined(q, m) /\ n = Len(q) + 1
  OBVIOUS
<1>0. Len(q) \in Nat
  OBVIOUS
<1> PICK e \in Event : e = m.event
  BY DEF Message
<1>1. /\ n \in Nat /\ n # 0 /\ p[n] = m
      /\ At(p, s) = At(q, s) \cup {n}
      /\ \A i \in At(q, s) : p[i] = q[i] /\ i < n /\ i \in 0 .. Len(q)
      /\ \A i \in 0 .. Len(q) : Rest(p, s, i) = Rest(q, s, i) + 1
      /\ Rest(p, s, n) = 0
      /\ \A i : Rest(q, s, i) \in Nat
  <2>1. /\ n \in Nat /\ n # 0 /\ p[n] = m /\ Len(q) < n
        /\ DOMAIN p = 1 .. n /\ DOMAIN q = 1 .. (n - 1)
        /\ \A i \in DOMAIN q : p[i] = q[i] /\ i \in Nat /\ i < n /\ i \in 0 .. Len(q)
    BY DEF Joined
  <2>2. At(p, s) = At(q, s) \cup {n}
    BY <2>1 DEF At
  <2>3. \A i \in At(q, s) : p[i] = q[i] /\ i < n /\ i \in 0 .. Len(q)
    BY <2>1 DEF At
  <2>4. \A i : IsFiniteSet(After(q, s, i)) /\ Rest(q, s, i) \in Nat
    BY QueueRead
  <2>5. ASSUME NEW i \in 0 .. Len(q)
        PROVE  Rest(p, s, i) = Rest(q, s, i) + 1
    <3>1. After(p, s, i) = After(q, s, i) \cup {n} /\ n \notin After(q, s, i)
      BY <2>1, <2>2 DEF After, At
    <3>2. IsFiniteSet(After(q, s, i))
      BY <2>4
    <3> PICK S : S = After(q, s, i)
      OBVIOUS
    <3>3. Cardinality(S \cup {n}) = Cardinality(S) + 1
      BY <3>1, <3>2, FS_AddElement
    <3> QED
      BY <3>1, <3>3 DEF Rest
  <2>6. Rest(p, s, n) = 0
    <3>1. After(p, s, n) = {}
      BY <2>1, <2>2 DEF After, At
    <3> QED
      BY <3>1, FS_EmptySet DEF Rest
  <2> QED
    BY <2>1, <2>2, <2>3, <2>4, <2>5, <2>6
<1>2. PICK g \in Seq(Event) :
        /\ g = Forward(f, e)
        /\ Len(f) \in Nat /\ Len(g) \in Nat /\ Len(g) > 0 /\ g[Len(g)] = e
        /\ e \in Ignitions => Len(g) = 1
        /\ e \notin Ignitions => Len(g) = Len(f) + 1 /\ \A k \in 1 .. Len(f) : g[k] = f[k]
  BY ForwardRead
<1>3. \A i \in 0 .. Len(q) : n \in After(p, s, i)
  BY <1>1 DEF After
<1>4. \A i \in 0 .. Len(q) :
        Undivided(p, s, i) => e \notin Ignitions /\ Undivided(q, s, i)
  BY <1>1, <1>3 DEF Undivided, After
<1>5. ASSUME QueueFits(q, f, s)
      PROVE  QueueFits(p, g, s)
  <2>1. ASSUME NEW i \in At(p, s), Undivided(p, s, i)
        PROVE  Rest(p, s, i) < Len(g) /\ p[i].event = g[Len(g) - Rest(p, s, i)]
    <3>1. CASE i = n
      BY <1>1, <1>2, <3>1
    <3>2. CASE i \in At(q, s)
      <4>1. e \notin Ignitions /\ Undivided(q, s, i) /\ i \in 0 .. Len(q)
        BY <1>1, <1>4, <2>1, <3>2
      <4>2. Rest(q, s, i) < Len(f) /\ q[i].event = f[Len(f) - Rest(q, s, i)]
        BY <1>5, <3>2, <4>1 DEF QueueFits
      <4>3. Rest(p, s, i) = Rest(q, s, i) + 1 /\ Rest(q, s, i) \in Nat /\ p[i] = q[i]
        BY <1>1, <3>2, <4>1
      <4>4. Len(g) - Rest(p, s, i) = Len(f) - Rest(q, s, i) /\ Len(f) - Rest(q, s, i) \in 1 .. Len(f)
        BY <1>2, <4>1, <4>2, <4>3
      <4>5. g[Len(g) - Rest(p, s, i)] = f[Len(f) - Rest(q, s, i)]
        BY <1>2, <4>1, <4>4
      <4> QED
        BY <1>2, <4>1, <4>2, <4>3, <4>5
    <3> QED
      BY <1>1, <3>1, <3>2
  <2>2. ASSUME Undivided(p, s, 0)
        PROVE  Rest(p, s, 0) <= Len(g)
    <3>1. e \notin Ignitions /\ Undivided(q, s, 0) /\ Rest(p, s, 0) = Rest(q, s, 0) + 1
      BY <1>1, <1>4, <2>2
    <3> QED
      BY <1>1, <1>2, <1>5, <3>1 DEF QueueFits
  <2> QED
    BY <2>1, <2>2 DEF QueueFits
<1>6. ASSUME MemberFits(q, f, h, s), Undivided(p, s, 0)
      PROVE  /\ Len(g) - Rest(p, s, 0) - Len(h) >= 0
             /\ \A k \in DOMAIN h : h[k] = g[Len(g) - Rest(p, s, 0) - Len(h) + k]
  <2>1. e \notin Ignitions /\ Undivided(q, s, 0) /\ Rest(p, s, 0) = Rest(q, s, 0) + 1
    BY <1>1, <1>4, <1>6
  <2> PICK x : x = Len(f) - Rest(q, s, 0) - Len(h)
    OBVIOUS
  <2>2. x >= 0 /\ \A k \in DOMAIN h : h[k] = f[x + k]
    BY <1>6, <2>1 DEF MemberFits
  <2>3. Len(g) - Rest(p, s, 0) - Len(h) = x /\ x \in Nat /\ Rest(q, s, 0) \in Nat
    BY <1>1, <1>2, <2>1, <2>2
  <2>4. ASSUME NEW k \in DOMAIN h
        PROVE  h[k] = g[x + k]
    <3>1. k \in 1 .. Len(h) /\ Len(h) \in Nat
      OBVIOUS
    <3>2. x + k \in 1 .. Len(f)
      BY <1>2, <2>3, <3>1
    <3> QED
      BY <1>2, <2>1, <2>2, <3>2
  <2> QED
    BY <2>2, <2>3, <2>4
<1>7. MemberFits(q, f, h, s) => MemberFits(p, g, h, s)
  BY <1>6 DEF MemberFits
<1> QED
  BY <1>2, <1>5, <1>7

(* The head of the queue goes out. *)
LEMMA HeadLeaves ==
    ASSUME NEW q \in Seq(Message), q # << >>, NEW s, NEW f \in Seq(Event), QueueFits(q, f, s)
    PROVE  QueueFits(Taken(q), f, s)
<1> PICK p : p = Taken(q)
  OBVIOUS
<1>1. /\ p \in Seq(Message)
      /\ \A i \in At(p, s) : i \in Nat /\ i + 1 \in At(q, s) /\ p[i] = q[i + 1]
      /\ \A i \in At(q, s) : i # 1 => i - 1 \in At(p, s) /\ p[i - 1] = q[i]
      /\ \A i \in Nat : Rest(p, s, i) = Rest(q, s, i + 1)
      /\ Rest(q, s, 0) = Rest(q, s, 1) + (IF Head(q).sim = s THEN 1 ELSE 0)
      /\ 1 \in At(q, s) <=> Head(q).sim = s
      /\ \A i \in At(q, s) : i \in Nat /\ i >= 1
      /\ \A i : Rest(q, s, i) \in Nat
      /\ Len(f) \in Nat
  <2>1. p \in Seq(Message) /\ Head(q) = q[1] /\ 1 \in DOMAIN q /\ Len(f) \in Nat
    BY HeadRead
  <2>2. /\ \A i \in At(p, s) : i \in Nat /\ i + 1 \in At(q, s) /\ p[i] = q[i + 1]
        /\ \A i \in At(q, s) :
             i \in Nat /\ i >= 1 /\ (i # 1 => i - 1 \in At(p, s) /\ p[i - 1] = q[i])
    BY TakenRead DEF At
  <2>3. \A i \in Nat : Rest(p, s, i) = Rest(q, s, i + 1)
    BY RestOfTaken
  <2>4. Rest(q, s, 0) = Rest(q, s, 1) + (IF Head(q).sim = s THEN 1 ELSE 0)
    BY RestOfAll
  <2>5. \A i : Rest(q, s, i) \in Nat
    BY QueueRead
  <2>6. 1 \in At(q, s) <=> Head(q).sim = s
    BY <2>1 DEF At
  <2> QED
    BY <2>1, <2>2, <2>3, <2>4, <2>5, <2>6
<1>2. ASSUME NEW i \in Nat, Undivided(p, s, i)
      PROVE  Undivided(q, s, i + 1)
  <2> SUFFICES ASSUME NEW j \in After(q, s, i + 1)
               PROVE  q[j].event \notin Ignitions
    BY DEF Undivided
  <2>1. j \in At(q, s) /\ j > i + 1 /\ j \in Nat /\ j # 1
    BY <1>1 DEF After
  <2>2. j - 1 \in At(p, s) /\ j - 1 > i /\ p[j - 1] = q[j]
    BY <1>1, <2>1
  <2> QED
    BY <1>2, <2>2 DEF Undivided, After
<1>3. ASSUME NEW i \in At(p, s), Undivided(p, s, i)
      PROVE  Rest(p, s, i) < Len(f) /\ p[i].event = f[Len(f) - Rest(p, s, i)]
  <2>1. i + 1 \in At(q, s) /\ p[i] = q[i + 1] /\ Rest(p, s, i) = Rest(q, s, i + 1)
        /\ Undivided(q, s, i + 1)
    BY <1>1, <1>2, <1>3
  <2> QED
    BY <2>1 DEF QueueFits
<1>4. ASSUME Undivided(p, s, 0)
      PROVE  Rest(p, s, 0) <= Len(f)
  <2>1. Undivided(q, s, 1) /\ Rest(p, s, 0) = Rest(q, s, 1)
    BY <1>1, <1>2, <1>4
  <2>2. CASE Head(q).sim = s
    BY <1>1, <2>1, <2>2 DEF QueueFits
  <2>3. CASE Head(q).sim # s
    <3>1. Undivided(q, s, 0)
      <4> SUFFICES ASSUME NEW j \in After(q, s, 0) PROVE j \in After(q, s, 1)
        BY <2>1 DEF Undivided
      <4>1. j \in At(q, s) /\ j # 1 /\ j \in Nat /\ j >= 1
        BY <1>1, <2>3 DEF After
      <4> QED
        BY <4>1 DEF After
    <3> QED
      BY <1>1, <2>1, <2>3, <3>1 DEF QueueFits
  <2> QED
    BY <2>2, <2>3
<1> QED
  BY <1>3, <1>4 DEF QueueFits

(* A member is told what leaves. *)
LEMMA MemberIsTold ==
    ASSUME NEW q \in Seq(Message), q # << >>, NEW s,
           NEW f \in Seq(Event), NEW h \in Seq(Event), QueueFits(q, f, s), MemberFits(q, f, h, s)
    PROVE  MemberFits(Taken(q), f, IF Head(q).sim = s THEN Forward(h, Head(q).event) ELSE h, s)
<1> PICK p : p = Taken(q)
  OBVIOUS
<1> PICK m \in Message : m = Head(q) /\ m = q[1] /\ 1 \in DOMAIN q
  BY HeadRead
<1> PICK e \in Event : e = m.event
  BY DEF Message
<1>1. /\ \A i \in At(q, s) : i \in Nat /\ i >= 1 /\ (i # 1 => i - 1 \in At(p, s) /\ p[i - 1] = q[i])
      /\ Rest(p, s, 0) = Rest(q, s, 1)
      /\ Rest(q, s, 0) = Rest(q, s, 1) + (IF m.sim = s THEN 1 ELSE 0)
      /\ 1 \in At(q, s) <=> m.sim = s
      /\ Rest(q, s, 0) \in Nat /\ Rest(q, s, 1) \in Nat
      /\ Len(f) \in Nat /\ Len(h) \in Nat
  <2>1. \A i \in At(q, s) :
          i \in Nat /\ i >= 1 /\ (i # 1 => i - 1 \in At(p, s) /\ p[i - 1] = q[i])
    BY TakenRead DEF At
  <2>2. Rest(p, s, 0) = Rest(q, s, 1)
    <3>1. Rest(p, s, 0) = Rest(q, s, 0 + 1)
      BY RestOfTaken
    <3> QED
      BY <3>1
  <2>3. Rest(q, s, 0) = Rest(q, s, 1) + (IF m.sim = s THEN 1 ELSE 0)
    BY RestOfAll
  <2>4. \A i : Rest(q, s, i) \in Nat
    BY QueueRead
  <2>5. 1 \in At(q, s) <=> m.sim = s
    BY DEF At
  <2>6. Len(f) \in Nat /\ Len(h) \in Nat
    OBVIOUS
  <2> QED
    BY <2>1, <2>2, <2>3, <2>4, <2>5, <2>6
<1> SUFFICES ASSUME Undivided(p, s, 0), NEW g, g = IF m.sim = s THEN Forward(h, e) ELSE h
             PROVE  /\ Len(f) - Rest(p, s, 0) - Len(g) >= 0
                    /\ \A k \in DOMAIN g : g[k] = f[Len(f) - Rest(p, s, 0) - Len(g) + k]
  BY DEF MemberFits
<1>2. Undivided(q, s, 1)
  <2> SUFFICES ASSUME NEW j \in After(q, s, 1)
               PROVE  q[j].event \notin Ignitions
    BY DEF Undivided
  <2>1. j \in At(q, s) /\ j > 1 /\ j \in Nat /\ j # 1
    BY <1>1 DEF After
  <2>2. j - 1 \in At(p, s) /\ j - 1 > 0 /\ p[j - 1] = q[j]
    BY <1>1, <2>1
  <2> QED
    BY <2>2 DEF Undivided, After
<1>3. CASE m.sim # s
  <2>1. Undivided(q, s, 0)
    <3> SUFFICES ASSUME NEW j \in After(q, s, 0) PROVE j \in After(q, s, 1)
      BY <1>2 DEF Undivided
    <3>1. j \in At(q, s) /\ j # 1 /\ j \in Nat /\ j >= 1
      BY <1>1, <1>3 DEF After
    <3> QED
      BY <3>1 DEF After
  <2> QED
    BY <1>1, <1>3, <2>1 DEF MemberFits
<1>4. CASE m.sim = s
  <2>1. Rest(q, s, 1) < Len(f) /\ e = f[Len(f) - Rest(q, s, 1)]
    BY <1>1, <1>2, <1>4 DEF QueueFits
  <2>2. /\ g \in Seq(Event) /\ Len(g) \in Nat /\ Len(g) > 0 /\ g[Len(g)] = e
        /\ DOMAIN g = 1 .. Len(g)
        /\ e \in Ignitions => Len(g) = 1
        /\ e \notin Ignitions => Len(g) = Len(h) + 1 /\ \A k \in 1 .. Len(h) : g[k] = h[k]
        /\ DOMAIN h = 1 .. Len(h)
    <3> PICK y \in Seq(Event) :
          /\ y = Forward(h, e)
          /\ Len(h) \in Nat /\ Len(y) \in Nat /\ Len(y) > 0
          /\ y[Len(y)] = e
          /\ e \in Ignitions => Len(y) = 1
          /\ e \notin Ignitions => Len(y) = Len(h) + 1 /\ \A k \in 1 .. Len(h) : y[k] = h[k]
      BY ForwardRead
    <3>1. y = g
      BY <1>4
    <3>2. DOMAIN h = 1 .. Len(h) /\ DOMAIN y = 1 .. Len(y)
      OBVIOUS
    <3> QED
      BY <3>1, <3>2
  <2> PICK x : x = Len(f) - Rest(q, s, 1) - Len(g)
    OBVIOUS
  <2>3. x + Len(g) = Len(f) - Rest(q, s, 1) /\ x \in Int
    BY <1>1, <2>2
  <2>4. CASE e \in Ignitions
    <3>1. Len(g) = 1 /\ g[1] = e /\ DOMAIN g = 1 .. 1
      BY <2>2, <2>4
    <3> PICK a \in Nat : a = Len(f)
      BY <1>1
    <3> PICK b \in Nat : b = Rest(q, s, 1)
      BY <1>1
    <3>2. b < a /\ e = f[a - b] /\ x = a - b - 1
      BY <2>1, <3>1
    <3>3. x >= 0 /\ x + 1 = a - b
      BY <3>2
    <3>4. g[1] = f[x + 1]
      BY <3>1, <3>2, <3>3
    <3>5. ASSUME NEW k \in DOMAIN g PROVE g[k] = f[x + k]
      <4>1. k = 1
        BY <3>1
      <4> QED
        BY <3>4, <4>1
    <3> QED
      BY <1>1, <3>3, <3>5
  <2>5. CASE e \notin Ignitions
    <3>1. Undivided(q, s, 0)
      <4> SUFFICES ASSUME NEW j \in After(q, s, 0), j # 1 PROVE j \in After(q, s, 1)
        BY <1>2, <2>5 DEF Undivided
      <4>1. j \in At(q, s) /\ j \in Nat /\ j >= 1
        BY <1>1 DEF After
      <4> QED
        BY <4>1 DEF After
    <3>2. Len(f) - Rest(q, s, 0) - Len(h) = x
      <4>1. Len(f) \in Nat /\ Len(h) \in Nat /\ Rest(q, s, 1) \in Nat
        BY <1>1
      <4>2. Rest(q, s, 0) = Rest(q, s, 1) + 1 /\ Len(g) = Len(h) + 1
        BY <1>1, <1>4, <2>2, <2>5
      <4> QED
        BY <4>1, <4>2
    <3>3. x >= 0 /\ \A k \in DOMAIN h : h[k] = f[x + k]
      BY <3>1, <3>2 DEF MemberFits
    <3>4. ASSUME NEW k \in DOMAIN g
          PROVE  g[k] = f[x + k]
      <4>1. CASE k = Len(g)
        BY <2>1, <2>2, <2>3, <4>1
      <4>2. CASE k # Len(g)
        <5>1. k \in 1 .. Len(h)
          BY <2>2, <2>5, <4>2
        <5> QED
          BY <2>2, <2>5, <3>3, <5>1
      <4> QED
        BY <4>1, <4>2
    <3> QED
      BY <1>1, <3>3, <3>4
  <2> QED
    BY <2>4, <2>5
<1> QED
  BY <1>3, <1>4

(* Who joins was told nothing. *)
LEMMA JoinsAfresh ==
    ASSUME NEW q \in Seq(Message), NEW s, NEW f \in Seq(Event), QueueFits(q, f, s)
    PROVE  MemberFits(q, f, << >>, s)
<1>1. Rest(q, s, 0) \in Nat
  BY QueueRead
<1> QED
  BY <1>1 DEF QueueFits, MemberFits

-----------------------------------------------------------------------------
(* The queue and the rooms, step by step. *)

HeardInv ==
    \A s \in Sims :
        /\ QueueFits(events, feed[s], s)
        /\ \A o \in room[s] : MemberFits(events, feed[s], heard[o][s], s)

LEMMA HeardInvInit == ObserversInit => HeardInv
<1> SUFFICES ASSUME ObserversInit, NEW s \in Sims
             PROVE  QueueFits(events, feed[s], s) /\ room[s] = {}
  BY DEF HeardInv
<1>1. events = << >> /\ feed[s] = << >> /\ room[s] = {}
  BY DEF ObserversInit, Init, ServicesInit
<1>2. At(events, s) = {} /\ After(events, s, 0) = {}
  BY <1>1 DEF At, After
<1>3. Rest(events, s, 0) = 0
  BY <1>2, FS_EmptySet DEF Rest
<1> QED
  BY <1>1, <1>2, <1>3 DEF QueueFits

LEMMA SystemKeepsHeard ==
    ASSUME TypeOK, WatchInv, HeardInv, SystemStep
    PROVE  HeardInv'
<1>0. UNCHANGED <<room, heard>>
  BY DEF SystemStep
<1>1. CASE UNCHANGED <<feed, events>>
  BY <1>0, <1>1 DEF HeardInv
<1>2. ASSUME NEW s \in Sims, NEW event \in Event, Publishes(s, event), NEW x \in Sims
      PROVE  /\ QueueFits(events', feed'[x], x)
             /\ \A o \in room'[x] : MemberFits(events', feed'[x], heard'[o][x], x)
  <2> PICK m \in Message : m = [sim |-> s, event |-> event]
    BY DEF Message
  <2>1. m.sim = s /\ m.event = event
    OBVIOUS
  <2>2. events \in Seq(Message) /\ feed[x] \in Seq(Event)
    BY DEF TypeOK, ServicesTypeOK, WatchInv, ObserversTypeOK
  <2>3. events' = Joined(events, m)
    BY <1>2 DEF Publishes, Joined
  <2>4. QueueFits(events, feed[x], x)
    BY DEF HeardInv
  <2>5. ASSUME NEW o \in room[x]
        PROVE  MemberFits(events, feed[x], heard[o][x], x) /\ heard[o][x] \in Seq(Event)
    <3>1. o \in Sockets
      BY DEF WatchInv, ObserversTypeOK
    <3> QED
      BY <3>1 DEF HeardInv, WatchInv, ObserversTypeOK
  <2>6. CASE x # s
    <3>1. feed'[x] = feed[x] /\ m.sim # x
      BY <1>2, <2>1, <2>6 DEF Publishes
    <3>2. QueueFits(Joined(events, m), feed[x], x)
      BY <2>2, <2>4, <3>1, StrangerJoins
    <3>3. \A o \in room[x] : MemberFits(Joined(events, m), feed[x], heard[o][x], x)
      BY <2>2, <2>5, <3>1, StrangerJoins
    <3> QED
      BY <1>0, <2>3, <3>1, <3>2, <3>3
  <2>7. CASE x = s
    <3>1. feed'[x] = Forward(feed[x], m.event) /\ m.sim = x
      BY <1>2, <2>1, <2>7 DEF Publishes
    <3>2. QueueFits(Joined(events, m), Forward(feed[x], m.event), x)
      BY <2>2, <2>4, <3>1, NextJoins
    <3>3. ASSUME NEW o \in room[x]
          PROVE  MemberFits(Joined(events, m), Forward(feed[x], m.event), heard[o][x], x)
      BY <2>2, <2>5, <3>1, NextJoins
    <3> QED
      BY <1>0, <2>3, <3>1, <3>2, <3>3
  <2> QED
    BY <2>6, <2>7
<1> QED
  BY <1>1, <1>2, SystemTells DEF HeardInv

LEMMA ForwardingKeepsHeard ==
    ASSUME TypeOK, WatchInv, HeardInv, ForwardEvent
    PROVE  HeardInv'
<1> SUFFICES ASSUME NEW s \in Sims
             PROVE  /\ QueueFits(events', feed'[s], s)
                    /\ \A o \in room'[s] : MemberFits(events', feed'[s], heard'[o][s], s)
  BY DEF HeardInv
<1>1. /\ events \in Seq(Message) /\ events # << >> /\ feed[s] \in Seq(Event)
      /\ events' = Taken(events) /\ Emit(Head(events)) /\ UNCHANGED <<feed, room>>
  BY DEF ForwardEvent, WatchInv, ObserversTypeOK, vars, serviceVars, Taken, TypeOK, ServicesTypeOK
<1>2. QueueFits(events, feed[s], s)
  BY DEF HeardInv
<1>3. QueueFits(Taken(events), feed[s], s)
  BY <1>1, <1>2, HeadLeaves
<1>4. ASSUME NEW o \in room[s]
      PROVE  MemberFits(Taken(events), feed[s], heard'[o][s], s)
  <2>1. o \in Sockets /\ heard[o][s] \in Seq(Event) /\ MemberFits(events, feed[s], heard[o][s], s)
    <3>1. o \in Sockets
      BY DEF WatchInv, ObserversTypeOK
    <3> QED
      BY <3>1 DEF HeardInv, WatchInv, ObserversTypeOK
  <2>2. Head(events) \in Message
    BY <1>1, HeadRead
  <2>3. heard'[o][s] = IF Head(events).sim = s
                       THEN Forward(heard[o][s], Head(events).event) ELSE heard[o][s]
    <3>1. heard'[o][s] = IF o \in room[s] /\ s = Head(events).sim
                         THEN Forward(heard[o][s], Head(events).event) ELSE heard[o][s]
      BY <1>1, <2>1, <2>2, EmitRead DEF WatchInv
    <3> QED
      BY <3>1
  <2>4. MemberFits(Taken(events), feed[s],
                   IF Head(events).sim = s THEN Forward(heard[o][s], Head(events).event)
                   ELSE heard[o][s], s)
    BY <1>1, <1>2, <2>1, MemberIsTold
  <2> QED
    BY <2>3, <2>4
<1> QED
  BY <1>1, <1>3, <1>4

LEMMA ObserverKeepsHeard ==
    ASSUME TypeOK, WatchInv, HeardInv, NEW o \in Sockets, ObserverStep(o)
    PROVE  HeardInv'
<1> SUFFICES ASSUME NEW s \in Sims
             PROVE  /\ QueueFits(events', feed'[s], s)
                    /\ \A p \in room'[s] : MemberFits(events', feed'[s], heard'[p][s], s)
  BY DEF HeardInv
<1>1. UNCHANGED <<feed, events>>
  BY DEF ObserverStep, Subscribe, Unsubscribe, Disconnect, Get, vars, serviceVars
<1>2. QueueFits(events, feed[s], s) /\ events \in Seq(Message) /\ feed[s] \in Seq(Event)
  BY DEF HeardInv, WatchInv, ObserversTypeOK, TypeOK, ServicesTypeOK
<1>3. ASSUME NEW p \in room'[s]
      PROVE  MemberFits(events, feed[s], heard'[p][s], s)
  <2>1. WatchInv'
    BY ObserverKeepsWatch
  <2>2. p \in Sockets
    BY <2>1 DEF WatchInv, ObserversTypeOK
  <2>3. CASE p \in room[s] /\ heard'[p][s] = heard[p][s]
    BY <2>3 DEF HeardInv
  <2>4. CASE heard'[p][s] = << >>
    BY <1>2, <2>4, JoinsAfresh
  <2> QED
    BY <2>2, <2>3, <2>4, ObserverKeepsWatch
<1> QED
  BY <1>1, <1>2, <1>3

LEMMA HeardInvStep ==
    TypeOK /\ WatchInv /\ HeardInv /\ [ObserversNext]_allVars => HeardInv'
<1> SUFFICES ASSUME TypeOK, WatchInv, HeardInv, [ObserversNext]_allVars PROVE HeardInv'
  OBVIOUS
<1>1. CASE UNCHANGED allVars
  BY <1>1 DEF allVars, vars, serviceVars, observerVars, HeardInv
<1> QED
  BY <1>1, SystemKeepsHeard, ForwardingKeepsHeard, ObserverKeepsHeard DEF ObserversNext

LEMMA HeardInvariance == ObserversSpec => []HeardInv
<1> QED
  BY WatchInvariance, HeardInvInit, HeardInvStep, PTL DEF ObserversSpec

LEMMA HeardSuffices == TypeOK /\ WatchInv /\ HeardInv => NothingMissed
<1> SUFFICES ASSUME TypeOK, WatchInv, HeardInv, NEW s \in Sims
             PROVE  /\ \A i \in Coming(s) : SameLife(s, i) =>
                         /\ Behind(s, i) < Len(feed[s])
                         /\ events[i].event = feed[s][Len(feed[s]) - Behind(s, i)]
                    /\ \A o \in room[s] : SameLife(s, 0) =>
                         LET missing == Len(feed[s]) - Behind(s, 0) - Len(heard[o][s]) IN
                         /\ missing >= 0
                         /\ \A k \in DOMAIN heard[o][s] : heard[o][s][k] = feed[s][missing + k]
  BY DEF NothingMissed
<1>1. /\ Coming(s) = At(events, s)
      /\ \A i : Behind(s, i) = Rest(events, s, i)
      /\ \A i : SameLife(s, i) <=> Undivided(events, s, i)
  BY DEF Coming, Behind, At, After, Rest, SameLife, Undivided
<1> QED
  BY <1>1 DEF HeardInv, QueueFits, MemberFits

(***************************************************************************)
(* What the variables of the queue and the rooms hold is of its type.      *)
(***************************************************************************)
THEOREM ObserversTypes == ObserversSpec => []ObserversTypeOK
<1>1. WatchInv => ObserversTypeOK
  BY DEF WatchInv
<1> QED
  BY <1>1, WatchInvariance, PTL

(***************************************************************************)
(* Whatever the clients, the workers and the observers do and whatever     *)
(* fails, the queue and the rooms lose nothing: what waits for the         *)
(* forwarder is the end of what was published since the last ignition, and *)
(* what a member was told since it joined ends where that begins, without  *)
(* gap, duplicate or strange event (simulation.gateway.ts and the          *)
(* forwarder behind the durable queue).                                    *)
(***************************************************************************)
THEOREM NobodyMissesAnything == ObserversSpec => []NothingMissed
<1> QED
  BY WatchInvariance, HeardInvariance, HeardSuffices, PTL

-----------------------------------------------------------------------------
(* What is saved is told, where no call fails and no process ends: of each *)
(* simulation, a step changes neither row nor room, or saves something     *)
(* whose event is still to come, or tells what the row holds.              *)

RequestTelling(c, s) == req[c].pc = "publish" /\ req[c].sim = s

RunTelling(r, s) == runs[r].pc = "publish" /\ runs[r].sim = s

HandlerTelling(w, s) == abortHandler[w].pc = "publish" /\ abortHandler[w].sim = s

(* Before an ignition is told, the room is new or heard the end. *)
OpensAnew(s) == \A c \in Clients : RequestTelling(c, s) => feed[s] = << >> \/ SeenFinished(s)

NewsInv(s) ==
    /\ rows[s] = NoRow => feed[s] = << >>
    /\ rows[s] # NoRow /\ ~Unpublished(s) =>
         feed[s] # << >> /\ Agrees(feed[s][Len(feed[s])], rows[s])
    /\ OpensAnew(s)

AllNews == \A s \in Sims : NewsInv(s)

Quiet(s) ==
    /\ rows'[s] = rows[s] /\ feed'[s] = feed[s]
    /\ Unpublished(s) => Unpublished(s)'
    /\ \A c \in Clients : RequestTelling(c, s)' => RequestTelling(c, s)

Saves(s) ==
    /\ feed'[s] = feed[s]
    /\ rows'[s] # NoRow
    /\ Unpublished(s)'
    /\ OpensAnew(s)'

Tells(s) ==
    /\ rows'[s] = rows[s] /\ rows[s] # NoRow
    /\ feed'[s] # feed[s] /\ feed'[s] # << >>
    /\ Agrees(feed'[s][Len(feed'[s])], rows[s])
    /\ \A c \in Clients : ~RequestTelling(c, s)'

NewsStep(s) == Quiet(s) \/ Saves(s) \/ Tells(s)

LEMMA NewsKept ==
    ASSUME NEW s \in Sims, NewsInv(s), NewsStep(s)
    PROVE  NewsInv(s)'
<1>1. CASE Quiet(s)
  BY <1>1 DEF NewsInv, Quiet, OpensAnew, SeenFinished
<1>2. CASE Saves(s)
  BY <1>2 DEF NewsInv, Saves
<1>3. CASE Tells(s)
  BY <1>3 DEF NewsInv, Tells, OpensAnew
<1> QED
  BY <1>1, <1>2, <1>3 DEF NewsStep

LEMMA UnpublishedIs ==
    ASSUME NEW s
    PROVE  /\ Unpublished(s) <=>
                \/ \E c \in Clients : RequestTelling(c, s)
                \/ \E r \in Runs : RunTelling(r, s)
                \/ \E w \in Workers : HandlerTelling(w, s)
           /\ Unpublished(s)' <=>
                \/ \E c \in Clients : RequestTelling(c, s)'
                \/ \E r \in Runs : RunTelling(r, s)'
                \/ \E w \in Workers : HandlerTelling(w, s)'
BY DEF Unpublished, RequestTelling, RunTelling, HandlerTelling

(* Nobody who is to tell something of s goes, and no request comes. *)
LEMMA StaysQuiet ==
    ASSUME NEW s, rows'[s] = rows[s], feed'[s] = feed[s],
           \A c \in Clients : RequestTelling(c, s)' <=> RequestTelling(c, s),
           \A r \in Runs : RunTelling(r, s) => RunTelling(r, s)',
           \A w \in Workers : HandlerTelling(w, s) => HandlerTelling(w, s)'
    PROVE  NewsStep(s)
BY UnpublishedIs DEF NewsStep, Quiet

-----------------------------------------------------------------------------
(* The requests. *)

LEMMA RequestQuiet ==
    ASSUME FullInv, NEW c \in Clients, req[c].pc # "publish", NEW next, next.pc # "publish",
           req' = [req EXCEPT ![c] = next], UNCHANGED <<rows, feed, workerVars>>,
           NEW s \in Sims
    PROVE  NewsStep(s)
<1>1. req'[c] = next /\ \A d \in Clients \ {c} : req'[d] = req[d]
  BY DEF FullInv, TypeOK, OrchestratorTypeOK
<1>2. \A d \in Clients : RequestTelling(d, s)' <=> RequestTelling(d, s)
  BY <1>1 DEF RequestTelling
<1>3. /\ \A r \in Runs : RunTelling(r, s) => RunTelling(r, s)'
      /\ \A w \in Workers : HandlerTelling(w, s) => HandlerTelling(w, s)'
  BY DEF RunTelling, HandlerTelling, workerVars
<1> QED
  BY <1>2, <1>3, StaysQuiet

(* A simulation that may be ignited has nothing left to tell. *)
LEMMA IgnitedAnew ==
    ASSUME FullInv, NEW s \in Sims, NEW c \in Clients, Asking(c, s), NewsInv(s)
    PROVE  feed[s] = << >> \/ SeenFinished(s)
<1>1. MayIgnite(req[c].copy, s) /\ SimInv(s)
  BY DEF FullInv, PInv, AskersWait, AskInv
<1>2. CASE rows[s] = NoRow
  BY <1>2 DEF NewsInv
<1>3. CASE rows[s] # NoRow
  <2>1. rows[s].state = "FINISHED" /\ NoFinish(s) /\ NoDriver(s)
    BY <1>1, <1>3 DEF MayIgnite, Restartable
  <2>2. \A d \in Clients : ~RequestTelling(d, s)
    BY <1>1, <2>1 DEF SimInv, WriteInv, Writing, RequestTelling
  <2>3. \A r \in Runs : ~RunTelling(r, s)
    BY <2>1, RunShape DEF NoDriver, Driving, RunTelling, FullInv, TypeOK
  <2>4. ASSUME NEW w \in Workers PROVE ~HandlerTelling(w, s)
    <3> SUFFICES ASSUME HandlerTelling(w, s) PROVE FALSE
      OBVIOUS
    <3>1. abortHandler[w] # Resting
      BY DEF HandlerTelling, Resting
    <3>2. abortHandler[w].finishedAt \in Nat
      BY <3>1, HandlerShape DEF FullInv, TypeOK, WorkerTypeOK
    <3>3. FinishAsked(s, abortHandler[w].finishedAt)
      BY <3>1 DEF HandlerTelling, FinishAsked, Handling
    <3> QED
      BY <2>1, <3>2, <3>3 DEF NoFinish
  <2>5. ~Unpublished(s)
    BY <2>2, <2>3, <2>4, UnpublishedIs
  <2> PICK word : word = feed[s][Len(feed[s])]
    OBVIOUS
  <2>6. feed[s] # << >> /\ Agrees(word, rows[s])
    BY <1>3, <2>5 DEF NewsInv
  <2>7. feed[s] \in Seq(Event)
    BY DEF FullInv, TypeOK, ServicesTypeOK
  <2>8. word \in Event
    BY <2>6, <2>7
  <2>9. word.type = "SimulationFinished"
    BY <2>1, <2>6, <2>8 DEF Agrees, Event, Ignitions
  <2> QED
    BY <2>6, <2>9 DEF SeenFinished
<1> QED
  BY <1>2, <1>3

LEMMA SaveIgnitionNews ==
    ASSUME FullInv, AllNews, NEW c \in Clients, SaveIgnition(c), UNCHANGED workerVars,
           NEW s \in Sims
    PROVE  NewsStep(s)
<1>0. req[c] \in Ignition /\ req[c].pc = "save"
  BY RequestShape DEF SaveIgnition, Igniting, FullInv, TypeOK
<1> PICK x \in Sims : x = req[c].sim
  BY <1>0 DEF Ignition
<1>1. req'[c].pc = "publish" /\ req'[c].sim = x /\ \A d \in Clients \ {c} : req'[d] = req[d]
  BY <1>0 DEF SaveIgnition, Goto, FullInv, TypeOK, OrchestratorTypeOK, Ignition
<1>2. /\ \A y \in Sims \ {x} : rows'[y] = rows[y]
      /\ feed' = feed
  BY DEF SaveIgnition, Save, FullInv, TypeOK, ServicesTypeOK
<1>3. CASE s # x
  <2>1. \A d \in Clients : RequestTelling(d, s)' <=> RequestTelling(d, s)
    BY <1>0, <1>1, <1>3 DEF RequestTelling
  <2>2. /\ \A r \in Runs : RunTelling(r, s) => RunTelling(r, s)'
        /\ \A w \in Workers : HandlerTelling(w, s) => HandlerTelling(w, s)'
    BY DEF RunTelling, HandlerTelling, workerVars
  <2> QED
    BY <1>2, <1>3, <2>1, <2>2, StaysQuiet
<1>4. CASE s = x
  <2>1. rows'[s] \in Aggregate
    BY <1>4, IgnitionSaves
  <2>2. RequestTelling(c, s)'
    BY <1>1, <1>4 DEF RequestTelling
  <2>3. feed[s] = << >> \/ SeenFinished(s)
    BY <1>0, <1>4, IgnitedAnew DEF Asking, AllNews
  <2> QED
    BY <1>2, <2>1, <2>2, <2>3, UnpublishedIs, RowAssumption
    DEF NewsStep, Saves, OpensAnew, SeenFinished
<1> QED
  BY <1>3, <1>4

LEMMA PublishIgnitionNews ==
    ASSUME FullInv, AllNews, NEW c \in Clients, PublishIgnition(c), UNCHANGED workerVars,
           NEW s \in Sims
    PROVE  NewsStep(s)
<1>0. req[c] \in Ignition /\ req[c].pc = "publish"
  BY RequestShape DEF PublishIgnition, Igniting, FullInv, TypeOK
<1> PICK x \in Sims : x = req[c].sim
  BY <1>0 DEF Ignition
<1> PICK event \in Ignitions : event = req[c].event
  BY <1>0 DEF Ignition
<1>1. req'[c].pc = "dispatch" /\ \A d \in Clients \ {c} : req'[d] = req[d]
  BY <1>0 DEF PublishIgnition, Goto, FullInv, TypeOK, OrchestratorTypeOK, Ignition
<1>2. rows' = rows /\ Publish(x, event)
  BY DEF PublishIgnition
<1>3. /\ feed'[x] # << >> /\ feed'[x][Len(feed'[x])] = event
      /\ \A y \in Sims \ {x} : feed'[y] = feed[y]
  BY <1>2, PublishRead, IgnitionEvents DEF FullInv, TypeOK
<1>4. CASE s # x
  <2>1. \A d \in Clients : RequestTelling(d, s)' <=> RequestTelling(d, s)
    BY <1>0, <1>1, <1>4 DEF RequestTelling
  <2>2. /\ \A r \in Runs : RunTelling(r, s) => RunTelling(r, s)'
        /\ \A w \in Workers : HandlerTelling(w, s) => HandlerTelling(w, s)'
    BY DEF RunTelling, HandlerTelling, workerVars
  <2> QED
    BY <1>2, <1>3, <1>4, <2>1, <2>2, StaysQuiet
<1>5. CASE s = x
  <2>1. RequestTelling(c, s) /\ Writing(c, s)
    BY <1>0, <1>5 DEF RequestTelling, Writing
  <2>2. feed[s] = << >> \/ SeenFinished(s)
    BY <2>1 DEF AllNews, NewsInv, OpensAnew
  <2>3. event.type # "SimulationFinished"
    BY DEF Ignitions, SimulationStarted, SimulationRestarted
  <2>4. feed'[s] # feed[s]
    BY <1>3, <1>5, <2>2, <2>3 DEF SeenFinished
  <2>5. Agrees(feed'[s][Len(feed'[s])], rows[s])
    BY <2>4, RequestTellsRow
  <2>6. rows[s] # NoRow
    BY <1>0, <2>1, RowAssumption DEF FullInv, PInv, SimInv, WriteInv, Ignition
  <2>7. \A d \in Clients \ {c} : ~Writing(d, s)
    BY <2>1, WriterAlone DEF FullInv, PInv
  <2>8. \A d \in Clients : ~RequestTelling(d, s)'
    BY <1>1, <2>7 DEF RequestTelling, Writing
  <2> QED
    BY <1>2, <1>3, <1>5, <2>4, <2>5, <2>6, <2>8 DEF NewsStep, Tells
<1> QED
  BY <1>4, <1>5

LEMMA RequestsNews ==
    ASSUME FullInv, AllNews, FaultKinds = {}, OrchestratorNext, NEW s \in Sims
    PROVE  NewsStep(s)
<1> PICK c \in Clients :
      StartRequest(c) \/ ClientRestarts(c) \/ FinishRequest(c) \/ Serve(c) \/ RequestFails(c)
  BY DEF OrchestratorNext
<1>1. UNCHANGED workerVars
  BY DEF OrchestratorNext
<1>2. ~RequestFails(c)
  BY DEF RequestFails, Fault
<1>3. ASSUME NEW next, req[c].pc # "publish", next.pc # "publish",
             req' = [req EXCEPT ![c] = next], UNCHANGED <<rows, feed>>
      PROVE  NewsStep(s)
  <2>1. UNCHANGED <<rows, feed, workerVars>>
    BY <1>1, <1>3
  <2> QED
    BY <1>3, <2>1, RequestQuiet
<1>4. CASE StartRequest(c) \/ ClientRestarts(c)
  <2>1. req[c] = Idle /\ UNCHANGED <<rows, feed>>
    BY <1>4 DEF StartRequest, ClientRestarts, RestartRequest, serviceVars
  <2>2. \E x \in Sims : \E copy, event :
          req' = [req EXCEPT ![c] = [pc |-> "query", sim |-> x, copy |-> copy, event |-> event]]
    BY <1>4 DEF StartRequest, ClientRestarts, RestartRequest
  <2> PICK x \in Sims : \E copy, event :
          req' = [req EXCEPT ![c] = [pc |-> "query", sim |-> x, copy |-> copy, event |-> event]]
    BY <2>2
  <2> PICK copy, event :
          req' = [req EXCEPT ![c] = [pc |-> "query", sim |-> x, copy |-> copy, event |-> event]]
    OBVIOUS
  <2> PICK next : next = [pc |-> "query", sim |-> x, copy |-> copy, event |-> event]
    OBVIOUS
  <2>3. next.pc = "query" /\ Idle.pc = "idle"
    BY DEF Idle
  <2> QED
    BY <1>3, <2>1, <2>3
<1>6. CASE FinishRequest(c)
  <2>1. req[c] = Idle /\ UNCHANGED <<rows, feed>>
    BY <1>6 DEF FinishRequest, serviceVars
  <2> PICK x \in Sims : req' = [req EXCEPT ![c] = [pc |-> "abort", sim |-> x, finishedAt |-> now]]
    BY <1>6 DEF FinishRequest
  <2> PICK next : next = [pc |-> "abort", sim |-> x, finishedAt |-> now]
    OBVIOUS
  <2>2. next.pc = "abort" /\ Idle.pc = "idle"
    BY DEF Idle
  <2> QED
    BY <1>3, <2>1, <2>2
<1>7. CASE EnsureCanIgnite(c)
  <2>1. req[c].pc = "query" /\ UNCHANGED <<rows, feed>>
    BY <1>7 DEF EnsureCanIgnite, serviceVars
  <2>2. req[c] \in Ignition
    BY <2>1, RequestShape DEF Igniting, FullInv, TypeOK
  <2>3. \/ req' = [req EXCEPT ![c] = Idle]
        \/ req' = [req EXCEPT ![c] = [req[c] EXCEPT !.pc = "save"]]
    BY <1>7 DEF EnsureCanIgnite, Goto
  <2> PICK next : next = [req[c] EXCEPT !.pc = "save"]
    OBVIOUS
  <2>4. next.pc = "save" /\ Idle.pc = "idle"
    BY <2>2 DEF Ignition, Idle
  <2> QED
    BY <1>3, <2>1, <2>3, <2>4
<1>8. CASE DispatchFinish(c)
  BY <1>3, <1>8 DEF DispatchFinish, Idle
<1>9. CASE DispatchIgnition(c)
  BY <1>3, <1>9 DEF DispatchIgnition, Idle
<1> QED
  BY <1>1, <1>2, <1>4, <1>6, <1>7, <1>8, <1>9, SaveIgnitionNews, PublishIgnitionNews
  DEF Serve

-----------------------------------------------------------------------------
(* The workers. *)

LEMMA WorkerQuiet ==
    ASSUME UNCHANGED <<rows, feed, req>>, NEW s \in Sims,
           \A r \in Runs : runs[r].pc = "publish" =>
               runs'[r].pc = "publish" /\ runs'[r].sim = runs[r].sim,
           \A w \in Workers : abortHandler[w].pc = "publish" => abortHandler'[w] = abortHandler[w]
    PROVE  NewsStep(s)
<1>1. \A c \in Clients : RequestTelling(c, s)' <=> RequestTelling(c, s)
  BY DEF RequestTelling
<1> QED
  BY <1>1, StaysQuiet DEF RunTelling, HandlerTelling

LEMMA TakeRunNews ==
    ASSUME NEW w \in Workers, TakeRun(w) \/ DropAbort(w), UNCHANGED req, NEW s \in Sims
    PROVE  NewsStep(s)
BY WorkerQuiet DEF TakeRun, DropAbort, workerVars

LEMMA BeginNews ==
    ASSUME FullInv, NEW w \in Workers, BeginRun(w) \/ BeginEmptyRun(w), UNCHANGED req, NEW s \in Sims
    PROVE  NewsStep(s)
<1>1. UNCHANGED <<rows, feed, req, abortHandler>>
  BY DEF BeginRun, BeginEmptyRun, Launch, serviceVars
<1>2. ASSUME NEW r \in Runs, runs[r].pc = "publish"
      PROVE  runs'[r] = runs[r]
  <2>1. Live(r)
    BY <1>2, RunShape DEF FullInv, TypeOK
  <2>2. UNCHANGED runs \/ \E q \in Runs : ~Live(q) /\ \E run : runs' = [runs EXCEPT ![q] = run]
    BY DEF BeginRun, BeginEmptyRun, Launch
  <2> QED
    BY <2>1, <2>2 DEF FullInv, TypeOK, WorkerTypeOK
<1> QED
  BY <1>1, <1>2, WorkerQuiet

LEMMA TakeAbortNews ==
    ASSUME FullInv, NEW w \in Workers, TakeAbort(w), UNCHANGED req, NEW s \in Sims
    PROVE  NewsStep(s)
<1>1. /\ UNCHANGED <<rows, feed, req>> /\ abortHandler[w] = Resting
      /\ \A v \in Workers \ {w} : abortHandler'[v] = abortHandler[v]
  BY DEF TakeAbort, CanTakeAbort, FullInv, TypeOK, WorkerTypeOK
<1>2. \A v \in Workers : abortHandler[v].pc = "publish" => abortHandler'[v] = abortHandler[v]
  BY <1>1 DEF Resting
<1>3. ASSUME NEW r \in Runs, runs[r].pc = "publish"
      PROVE  runs'[r].pc = "publish" /\ runs'[r].sim = runs[r].sim
  <2>1. runs[r] \in Run
    BY <1>3, RunShape DEF FullInv, TypeOK
  <2> PICK run : run = [runs[r] EXCEPT !.aborted = TRUE]
    OBVIOUS
  <2>2. run.pc = runs[r].pc /\ run.sim = runs[r].sim
    BY <2>1 DEF Run
  <2> PICK q : q = Target(w)
    OBVIOUS
  <2>3. CASE q # r
    <3>1. runs'[r] = runs[r]
      BY <2>3 DEF TakeAbort, FullInv, TypeOK, WorkerTypeOK
    <3> QED
      BY <1>3, <3>1
  <2>4. CASE q = r
    <3>1. runs' = [runs EXCEPT ![r] = run]
      BY <1>3, <2>4 DEF TakeAbort
    <3>2. runs'[r] = run
      BY <3>1 DEF FullInv, TypeOK, WorkerTypeOK
    <3> QED
      BY <1>3, <2>2, <3>2
  <2> QED
    BY <2>3, <2>4
<1> QED
  BY <1>1, <1>2, <1>3, WorkerQuiet

LEMMA AbortFindNews ==
    ASSUME FullInv, NEW w \in Workers, AbortFind(w), UNCHANGED req, NEW s \in Sims
    PROVE  NewsStep(s)
<1>1. /\ UNCHANGED <<rows, feed, req, runs>> /\ abortHandler[w].pc = "find"
      /\ \A v \in Workers \ {w} : abortHandler'[v] = abortHandler[v]
  BY DEF AbortFind, serviceVars, FullInv, TypeOK, WorkerTypeOK
<1> QED
  BY <1>1, WorkerQuiet

LEMMA WakeNews ==
    ASSUME FullInv, NEW r \in Runs, Wake(r), UNCHANGED req, NEW s \in Sims
    PROVE  NewsStep(s)
<1>1. /\ UNCHANGED <<rows, feed, req, abortHandler>> /\ runs[r].pc = "sleep"
      /\ \A q \in Runs \ {r} : runs'[q] = runs[q]
  BY DEF Wake, serviceVars, FullInv, TypeOK, WorkerTypeOK
<1> QED
  BY <1>1, WorkerQuiet

LEMMA SaveRunNews ==
    ASSUME FullInv, AllNews, NEW r \in Runs, SaveRun(r), UNCHANGED req, NEW s \in Sims
    PROVE  NewsStep(s)
<1>1. runs[r].pc = "save" /\ runs[r] \in Run /\ Live(r)
  BY RunShape DEF SaveRun, FullInv, TypeOK
<1> PICK x \in Sims, copy \in Aggregate : x = runs[r].sim /\ copy = runs[r].copy
  BY <1>1 DEF Run
<1> PICK run : run = [runs[r] EXCEPT !.pc = "publish"]
  OBVIOUS
<1>2. run.pc = "publish" /\ run.sim = x
  BY <1>1 DEF Run
<1>3. runs' = [runs EXCEPT ![r] = run] /\ rows' = [rows EXCEPT ![x] = copy]
      /\ UNCHANGED <<feed, req, abortHandler>>
  BY DEF SaveRun, Save
<1>4. runs'[r] = run /\ \A q \in Runs \ {r} : runs'[q] = runs[q]
  BY <1>3 DEF FullInv, TypeOK, WorkerTypeOK
<1>5. rows'[x] = copy /\ \A y \in Sims \ {x} : rows'[y] = rows[y]
  BY <1>3 DEF FullInv, TypeOK, ServicesTypeOK
<1>6. \A c \in Clients : RequestTelling(c, s)' <=> RequestTelling(c, s)
  BY <1>3 DEF RequestTelling
<1>7. CASE s # x
  <2>1. \A q \in Runs : RunTelling(q, s) => RunTelling(q, s)'
    BY <1>1, <1>4 DEF RunTelling
  <2>2. \A w \in Workers : HandlerTelling(w, s) => HandlerTelling(w, s)'
    BY <1>3 DEF HandlerTelling
  <2> QED
    BY <1>3, <1>5, <1>6, <1>7, <2>1, <2>2, StaysQuiet
<1>8. CASE s = x
  <2>1. RunTelling(r, s)'
    BY <1>2, <1>4, <1>8 DEF RunTelling
  <2>2. OpensAnew(s)'
    BY <1>3, <1>6 DEF AllNews, NewsInv, OpensAnew, SeenFinished
  <2> QED
    BY <1>3, <1>5, <1>8, <2>1, <2>2, UnpublishedIs, RowAssumption DEF NewsStep, Saves
<1> QED
  BY <1>7, <1>8

LEMMA AbortSaveNews ==
    ASSUME FullInv, AllNews, NEW w \in Workers, AbortSave(w), UNCHANGED req, NEW s \in Sims
    PROVE  NewsStep(s)
<1>1. abortHandler[w].pc = "save" /\ abortHandler[w] \in Finishing
  BY HandlerShape DEF AbortSave, FullInv, TypeOK, WorkerTypeOK
<1> PICK x \in Sims, copy \in Aggregate : x = abortHandler[w].sim /\ copy = abortHandler[w].copy
  BY <1>1 DEF Finishing
<1> PICK h : h = [abortHandler[w] EXCEPT !.pc = "publish"]
  OBVIOUS
<1>2. h.pc = "publish" /\ h.sim = x
  BY <1>1 DEF Finishing
<1>3. abortHandler' = [abortHandler EXCEPT ![w] = h] /\ rows' = [rows EXCEPT ![x] = copy]
      /\ UNCHANGED <<feed, req, runs>>
  BY DEF AbortSave, Save
<1>4. abortHandler'[w] = h /\ \A v \in Workers \ {w} : abortHandler'[v] = abortHandler[v]
  BY <1>3 DEF FullInv, TypeOK, WorkerTypeOK
<1>5. rows'[x] = copy /\ \A y \in Sims \ {x} : rows'[y] = rows[y]
  BY <1>3 DEF FullInv, TypeOK, ServicesTypeOK
<1>6. \A c \in Clients : RequestTelling(c, s)' <=> RequestTelling(c, s)
  BY <1>3 DEF RequestTelling
<1>7. CASE s # x
  <2>1. \A v \in Workers : HandlerTelling(v, s) => HandlerTelling(v, s)'
    BY <1>1, <1>4 DEF HandlerTelling
  <2>2. \A r \in Runs : RunTelling(r, s) => RunTelling(r, s)'
    BY <1>3 DEF RunTelling
  <2> QED
    BY <1>3, <1>5, <1>6, <1>7, <2>1, <2>2, StaysQuiet
<1>8. CASE s = x
  <2>1. HandlerTelling(w, s)'
    BY <1>2, <1>4, <1>8 DEF HandlerTelling
  <2>2. OpensAnew(s)'
    BY <1>3, <1>6 DEF AllNews, NewsInv, OpensAnew, SeenFinished
  <2> QED
    BY <1>3, <1>5, <1>8, <2>1, <2>2, UnpublishedIs, RowAssumption DEF NewsStep, Saves
<1> QED
  BY <1>7, <1>8

(* An event that is not an ignition lengthens the feed. *)
LEMMA ToldIsHeard ==
    ASSUME FullInv, NEW x \in Sims, NEW event \in Event, event \notin Ignitions, Publish(x, event)
    PROVE  /\ feed'[x] # feed[x] /\ feed'[x] # << >>
           /\ \A y \in Sims \ {x} : feed'[y] = feed[y]
<1>1. feed[x] \in Seq(Event) /\ Len(feed[x]) \in Nat
  BY DEF FullInv, TypeOK, ServicesTypeOK
<1>2. Len(feed'[x]) = Len(feed[x]) + 1
  BY PublishRead DEF FullInv, TypeOK
<1>3. feed'[x] # feed[x]
  BY <1>1, <1>2
<1> QED
  BY <1>3, PublishRead DEF FullInv, TypeOK

LEMMA RunPublishNews ==
    ASSUME FullInv, NEW r \in Runs,
           PublishAndExit(r) \/ PublishAndSleep(r) \/ PublishAndFinish(r),
           UNCHANGED req, NEW s \in Sims
    PROVE  NewsStep(s)
<1>1. /\ runs[r].pc = "publish" /\ Publish(runs[r].sim, RunEvent(r))
      /\ UNCHANGED rows
  BY DEF PublishAndExit, PublishAndSleep, PublishAndFinish, PublishAndGoOn
<1>2. Live(r) /\ runs[r] \in Run
  BY <1>1, RunShape DEF FullInv, TypeOK
<1> PICK x \in Sims : x = runs[r].sim
  BY <1>2 DEF Run
<1>3. Driving(r, x)
  BY <1>2 DEF Driving
<1>4. rows[x] # NoRow /\ runs[r].copy \in Aggregate
  BY <1>3, RowOfRun, RowAssumption
<1> PICK event : event = RunEvent(r)
  OBVIOUS
<1>5. event \in Event /\ event \notin Ignitions
  BY <1>4, EventTypes
  DEF RunEvent, GoalScored, SimulationFinished, Ignitions, SimulationStarted, SimulationRestarted
<1>6. /\ feed'[x] # feed[x] /\ feed'[x] # << >>
      /\ \A y \in Sims \ {x} : feed'[y] = feed[y]
  BY <1>1, <1>5, ToldIsHeard
<1>7. \A q \in Runs \ {r} : runs'[q] = runs[q]
  BY DEF PublishAndExit, Exit, PublishAndSleep, PublishAndFinish, FullInv, TypeOK, WorkerTypeOK
<1>8. ASSUME NEW w \in Workers, abortHandler[w].pc = "publish"
      PROVE  abortHandler'[w] = abortHandler[w]
  <2>1. CASE UNCHANGED abortHandler
    BY <2>1
  <2>2. CASE Exit(r)
    <3> PICK v : v = runs[r].worker
      OBVIOUS
    <3>1. abortHandler' = [abortHandler EXCEPT ![v] = Resumed(abortHandler[v], r)]
      BY <2>2 DEF Exit
    <3>2. abortHandler'[w] = IF v = w THEN Resumed(abortHandler[w], r) ELSE abortHandler[w]
      BY <3>1 DEF FullInv, TypeOK, WorkerTypeOK
    <3> QED
      BY <1>8, <3>2 DEF Resumed
  <2> QED
    BY <2>1, <2>2 DEF PublishAndExit, PublishAndSleep, PublishAndFinish
<1>9. \A c \in Clients : RequestTelling(c, s)' <=> RequestTelling(c, s)
  BY DEF RequestTelling
<1>10. CASE s # x
  <2>1. \A q \in Runs : RunTelling(q, s) => RunTelling(q, s)'
    BY <1>7, <1>10 DEF RunTelling
  <2>2. \A w \in Workers : HandlerTelling(w, s) => HandlerTelling(w, s)'
    BY <1>8 DEF HandlerTelling
  <2> QED
    BY <1>1, <1>6, <1>9, <1>10, <2>1, <2>2, StaysQuiet
<1>11. CASE s = x
  <2>1. NoWriter(s)
    BY <1>3, <1>11, DriverAlone DEF FullInv, PInv
  <2>2. \A c \in Clients : ~RequestTelling(c, s)'
    BY <1>9, <2>1 DEF NoWriter, Writing, RequestTelling
  <2>3. Agrees(feed'[s][Len(feed'[s])], rows[s])
    BY <1>1, <1>6, <1>11, RunTellsRow
  <2> QED
    BY <1>1, <1>4, <1>6, <1>11, <2>2, <2>3 DEF NewsStep, Tells
<1> QED
  BY <1>10, <1>11

LEMMA AbortPublishNews ==
    ASSUME FullInv, NEW w \in Workers, AbortPublish(w), UNCHANGED req, NEW s \in Sims
    PROVE  NewsStep(s)
<1>1. abortHandler[w].pc = "publish" /\ abortHandler[w] \in Finishing
  BY HandlerShape DEF AbortPublish, FullInv, TypeOK, WorkerTypeOK
<1> PICK x \in Sims, copy \in Aggregate : x = abortHandler[w].sim /\ copy = abortHandler[w].copy
  BY <1>1 DEF Finishing
<1>2. Ending(w, x)
  BY <1>1 DEF Ending
<1>3. rows[x] # NoRow
  BY <1>2, ActedOn
<1> PICK event : event = SimulationFinished("manual", copy)
  OBVIOUS
<1>4. event \in Event /\ event \notin Ignitions
  BY EventTypes DEF SimulationFinished, Ignitions, SimulationStarted, SimulationRestarted
<1>5. Publish(x, event) /\ UNCHANGED <<rows, runs>>
  BY DEF AbortPublish
<1>6. /\ feed'[x] # feed[x] /\ feed'[x] # << >>
      /\ \A y \in Sims \ {x} : feed'[y] = feed[y]
  BY <1>4, <1>5, ToldIsHeard
<1>7. \A v \in Workers \ {w} : abortHandler'[v] = abortHandler[v]
  BY DEF AbortPublish, FullInv, TypeOK, WorkerTypeOK
<1>8. \A c \in Clients : RequestTelling(c, s)' <=> RequestTelling(c, s)
  BY DEF RequestTelling
<1>9. CASE s # x
  <2>1. \A v \in Workers : HandlerTelling(v, s) => HandlerTelling(v, s)'
    BY <1>7, <1>9 DEF HandlerTelling
  <2>2. \A r \in Runs : RunTelling(r, s) => RunTelling(r, s)'
    BY <1>5 DEF RunTelling
  <2> QED
    BY <1>5, <1>6, <1>8, <1>9, <2>1, <2>2, StaysQuiet
<1>10. CASE s = x
  <2>1. NoWriter(s)
    BY <1>2, <1>10, EnderAlone DEF FullInv, PInv
  <2>2. \A c \in Clients : ~RequestTelling(c, s)'
    BY <1>8, <2>1 DEF NoWriter, Writing, RequestTelling
  <2>3. Agrees(feed'[s][Len(feed'[s])], rows[s])
    BY <1>6, <1>10, HandlerTellsRow
  <2> QED
    BY <1>3, <1>5, <1>6, <1>10, <2>2, <2>3 DEF NewsStep, Tells
<1> QED
  BY <1>9, <1>10

LEMMA WorkersNews ==
    ASSUME FullInv, AllNews, FaultKinds = {}, AllUp, WorkerNext, NEW s \in Sims
    PROVE  NewsStep(s)
<1>1. OnlyRequestsFail
  BY DEF OnlyRequestsFail
<1> QED
  BY <1>1, QuietWorkers, TakeRunNews, BeginNews, TakeAbortNews, AbortFindNews, AbortSaveNews,
     AbortPublishNews, WakeNews, SaveRunNews, RunPublishNews

LEMMA StepIsNews ==
    ASSUME FullInv, AllNews, FaultKinds = {}, AllUp, [Next]_vars, NEW s \in Sims
    PROVE  NewsStep(s)
<1>1. CASE (Tick /\ UNCHANGED <<req, workerVars>>) \/ UNCHANGED vars
  <2>1. UNCHANGED <<rows, feed, req, runs, abortHandler>>
    BY <1>1 DEF Tick, vars, serviceVars, workerVars
  <2> QED
    BY <2>1, WorkerQuiet
<1> QED
  BY <1>1, RequestsNews, WorkersNews DEF Next

-----------------------------------------------------------------------------
(* What a member knows that was answered and has heard nothing since. *)

Row(s) == Seen(rows[s].state, rows[s].totalGoals)

KnowInv ==
    \A s \in Sims : \A o \in room[s] :
        /\ answer[o][s] # Unasked /\ heard[o][s] = << >>
        /\ At(events, s) = {} /\ ~Unpublished(s)
        => answer[o][s] = Row(s)

LEMMA SystemKeepsKnow ==
    ASSUME FullInv, AllNews, FaultKinds = {}, AllUp, WatchInv, KnowInv, SystemStep
    PROVE  KnowInv'
<1>1. UNCHANGED <<room, heard, answer>> /\ [Next]_vars
  BY DEF SystemStep
<1> SUFFICES ASSUME NEW s \in Sims, NEW o \in room'[s],
                    answer'[o][s] # Unasked, heard'[o][s] = << >>,
                    At(events', s) = {}, ~Unpublished(s)'
             PROVE  answer'[o][s] = Row(s)'
  BY DEF KnowInv
<1>2. NewsStep(s)
  BY <1>1, StepIsNews
<1>3. events \in Seq(Message)
  BY DEF WatchInv, ObserversTypeOK
<1>4. UNCHANGED <<feed, events>> \/ \E x \in Sims, event \in Event : Publishes(x, event)
  BY SystemTells DEF FullInv
<1>5. ASSUME NEW x \in Sims, NEW event \in Event, Publishes(x, event)
      PROVE  x # s /\ feed'[s] = feed[s] /\ At(events, s) = {}
  <2> PICK m \in Message : m = [sim |-> x, event |-> event]
    BY DEF Message
  <2>1. events' = Append(events, m) /\ m.sim = x
    BY <1>5 DEF Publishes
  <2>2. /\ events'[Len(events) + 1] = m /\ Len(events) + 1 \in DOMAIN events'
        /\ \A i \in DOMAIN events : i \in DOMAIN events' /\ events'[i] = events[i]
    BY <1>3, <2>1
  <2>3. x # s
    BY <2>1, <2>2 DEF At
  <2>4. At(events, s) = {}
    BY <2>2 DEF At
  <2> QED
    BY <1>5, <2>3, <2>4 DEF Publishes
<1>6. feed'[s] = feed[s] /\ At(events, s) = {}
  BY <1>4, <1>5
<1>7. Quiet(s)
  BY <1>2, <1>6 DEF NewsStep, Saves, Tells
<1>8. answer[o][s] = Row(s)
  BY <1>1, <1>6, <1>7 DEF KnowInv, Quiet
<1> QED
  BY <1>1, <1>7, <1>8 DEF Quiet, Row

LEMMA ForwardingKeepsKnow ==
    ASSUME WatchInv, KnowInv, ForwardEvent
    PROVE  KnowInv'
<1>1. /\ events \in Seq(Message) /\ events # << >>
      /\ events' = Taken(events) /\ Emit(Head(events)) /\ UNCHANGED <<room, answer>>
      /\ UNCHANGED <<rows, req, runs, abortHandler>>
  BY DEF ForwardEvent, WatchInv, ObserversTypeOK, vars, serviceVars, workerVars, Taken
<1> SUFFICES ASSUME NEW s \in Sims, NEW o \in room[s],
                    answer[o][s] # Unasked, heard'[o][s] = << >>,
                    At(events', s) = {}, ~Unpublished(s)
             PROVE  answer[o][s] = Row(s)
  BY <1>1 DEF KnowInv, Row, Unpublished
<1> PICK m \in Message : m = Head(events) /\ m = events[1]
  BY <1>1, HeadRead
<1> PICK e \in Event : e = m.event
  BY DEF Message
<1>2. o \in Sockets /\ heard[o][s] \in Seq(Event)
  BY DEF WatchInv, ObserversTypeOK
<1>3. heard'[o][s] = IF s = m.sim THEN Forward(heard[o][s], e) ELSE heard[o][s]
  <2>1. heard'[o][s] = IF o \in room[s] /\ s = m.sim
                       THEN Forward(heard[o][s], m.event) ELSE heard[o][s]
    BY <1>1, <1>2, EmitRead DEF WatchInv
  <2> QED
    BY <2>1
<1>4. Forward(heard[o][s], e) # << >>
  <2> PICK h \in Seq(Event) : h = heard[o][s]
    BY <1>2
  <2> PICK g \in Seq(Event) : g = Forward(h, e) /\ Len(g) > 0
    BY ForwardRead
  <2>1. g # << >>
    OBVIOUS
  <2> QED
    BY <2>1
<1>5. m.sim # s /\ heard[o][s] = << >>
  BY <1>3, <1>4
<1>6. At(events, s) = {}
  <2> SUFFICES ASSUME NEW i \in At(events, s) PROVE FALSE
    OBVIOUS
  <2>1. i \in DOMAIN events /\ events[i].sim = s /\ i # 1
    BY <1>5 DEF At
  <2>2. i - 1 \in DOMAIN Taken(events) /\ Taken(events)[i - 1] = events[i]
    BY <1>1, <2>1, TakenRead
  <2> QED
    BY <1>1, <2>1, <2>2 DEF At
<1> QED
  BY <1>5, <1>6 DEF KnowInv

LEMMA ObserverKeepsKnow ==
    ASSUME TypeOK, WatchInv, KnowInv, NEW o \in Sockets, ObserverStep(o)
    PROVE  KnowInv'
<1>1. UNCHANGED <<rows, events, req, runs, abortHandler>>
  BY DEF ObserverStep, Subscribe, Unsubscribe, Disconnect, Get, vars, serviceVars, workerVars
<1> SUFFICES ASSUME NEW s \in Sims, NEW p \in room'[s],
                    answer'[p][s] # Unasked, heard'[p][s] = << >>,
                    At(events, s) = {}, ~Unpublished(s)
             PROVE  answer'[p][s] = Row(s)
  BY <1>1 DEF KnowInv, Row, Unpublished
<1>2. p \in Sockets
  <2>1. WatchInv'
    BY ObserverKeepsWatch
  <2> QED
    BY <2>1 DEF WatchInv, ObserversTypeOK
<1>3. (p \in room[s] /\ heard'[p][s] = heard[p][s]) \/ p \notin room[s]
  BY <1>2, ObserverKeepsWatch
<1>4. ASSUME answer'[p][s] = answer[p][s]
      PROVE  answer'[p][s] = Row(s)
  <2>1. p \in room[s] /\ heard[p][s] = << >>
    BY <1>2, <1>3, <1>4 DEF WatchInv
  <2> QED
    BY <1>4, <2>1 DEF KnowInv
<1>5. CASE UNCHANGED answer
  BY <1>4, <1>5
<1>6. ASSUME NEW x \in Sims, Unsubscribe(o, x)
      PROVE  answer'[p][s] = answer[p][s]
  <2>1. {x} \in SUBSET Sims /\ Forget(o, {x}) /\ ObserversTypeOK
    BY <1>6 DEF Unsubscribe, WatchInv
  <2> QED
    BY <1>2, <2>1, ForgetRead
<1>7. ASSUME Disconnect(o)
      PROVE  answer'[p][s] = answer[p][s]
  <2>1. Sims \in SUBSET Sims /\ Forget(o, Sims) /\ ObserversTypeOK
    BY <1>7 DEF Disconnect, WatchInv
  <2> QED
    BY <1>2, <2>1, ForgetRead
<1>8. ASSUME NEW x \in Sims, Get(o, x)
      PROVE  answer'[p][s] = Row(s)
  <2> PICK seen : seen = Seen(rows[x].state, rows[x].totalGoals)
    OBVIOUS
  <2>1. answer' = [answer EXCEPT ![o][x] = seen] /\ UNCHANGED room
    BY <1>8 DEF Get
  <2>2. answer'[p][s] = IF p = o /\ s = x THEN seen ELSE answer[p][s]
    <3> PICK A : A = [state: {"RUNNING", "FINISHED"}, goals: Nat] \cup {Unasked}
      OBVIOUS
    <3>1. answer \in [Sockets -> [Sims -> A]]
      BY DEF WatchInv, ObserversTypeOK
    <3> QED
      BY <1>2, <2>1, <3>1
  <2>3. CASE p = o /\ s = x
    BY <2>2, <2>3 DEF Row
  <2>4. CASE ~(p = o /\ s = x)
    BY <1>4, <2>2, <2>4
  <2> QED
    BY <2>3, <2>4
<1>9. ASSUME NEW x \in Sims, Subscribe(o, x)
      PROVE  UNCHANGED answer
  BY <1>9 DEF Subscribe
<1> QED
  BY <1>4, <1>5, <1>6, <1>7, <1>8, <1>9 DEF ObserverStep

CatchInv == FullInv /\ AllUp /\ AllNews /\ WatchInv /\ KnowInv

LEMMA CatchInit == ASSUME ObserversInit PROVE AllUp /\ AllNews /\ KnowInv
<1> USE DEF ObserversInit, Init, ServicesInit, OrchestratorInit, WorkerInit
<1>1. AllUp
  BY DEF AllUp
<1>2. AllNews
  BY DEF AllNews, NewsInv, OpensAnew, RequestTelling, Idle
<1>3. KnowInv
  BY DEF KnowInv
<1> QED
  BY <1>1, <1>2, <1>3

LEMMA CatchStep ==
    ASSUME FullInv, AllUp, AllNews, WatchInv, KnowInv, FaultKinds = {}, [ObserversNext]_allVars
    PROVE  AllUp' /\ AllNews' /\ KnowInv'
<1>1. [Next]_vars
  BY DEF ObserversNext, SystemStep, ForwardEvent, ObserverStep, Subscribe, Unsubscribe,
         Disconnect, Get, allVars
<1>2. AllUp'
  BY <1>1, ProcessesStay DEF OnlyRequestsFail
<1>3. ASSUME NEW s \in Sims PROVE NewsInv(s)'
  BY <1>1, StepIsNews, NewsKept DEF AllNews
<1>4. AllNews'
  BY <1>3 DEF AllNews
<1>5. CASE UNCHANGED allVars
  BY <1>2, <1>4, <1>5
  DEF allVars, vars, serviceVars, workerVars, observerVars, KnowInv, Row, Unpublished
<1> QED
  BY <1>2, <1>4, <1>5, SystemKeepsKnow, ForwardingKeepsKnow, ObserverKeepsKnow
  DEF ObserversNext, FullInv

LEMMA CatchInvariance ==
    ASSUME Patient, OneClientEach, FaultKinds = {}
    PROVE  ObserversSpec => [](CatchInv /\ HeardInv)
<1>1. ObserversSpec => []FullInv
  BY ObserversRefineSpec, FullInvariance, PTL
<1>2. ObserversInit => AllUp /\ AllNews /\ KnowInv
  BY CatchInit
<1>3. FullInv /\ AllUp /\ AllNews /\ WatchInv /\ KnowInv /\ [ObserversNext]_allVars
        => AllUp' /\ AllNews' /\ KnowInv'
  BY CatchStep
<1>4. ObserversSpec => [](FullInv /\ AllUp /\ AllNews /\ WatchInv /\ KnowInv)
  BY <1>1, <1>2, <1>3, WatchInvariance, PTL DEF ObserversSpec
<1> QED
  BY <1>4, HeardInvariance, PTL DEF CatchInv

(* What an event shows is what GET answers while the row agrees with it. *)
LEMMA ShownIsSeen ==
    ASSUME NEW event \in Event, NEW row, Agrees(event, row)
    PROVE  Shown(event) = Seen(row.state, row.totalGoals)
<1>1. CASE event \in Ignitions
  <2>1. event.type # "GoalScored" /\ event.type # "SimulationFinished"
    BY <1>1 DEF Ignitions, SimulationStarted, SimulationRestarted
  <2>2. row.state = "RUNNING" /\ row.totalGoals = 0
    BY <1>1, <2>1 DEF Agrees
  <2>3. Shown(event) = Seen("RUNNING", 0)
    BY <1>1, <2>1 DEF Shown
  <2> QED
    BY <2>2, <2>3
<1>2. CASE event \in [type: {"GoalScored"}, totalGoals: Nat]
  <2>1. event.type = "GoalScored" /\ event \notin Ignitions
    BY <1>2 DEF Ignitions, SimulationStarted, SimulationRestarted
  <2> QED
    BY <2>1 DEF Agrees, Shown
<1>3. CASE event \in [type: {"SimulationFinished"}, reason: {"manual", "auto"}, totalGoals: Nat]
  <2>1. event.type = "SimulationFinished" /\ event \notin Ignitions
    BY <1>3 DEF Ignitions, SimulationStarted, SimulationRestarted
  <2> QED
    BY <2>1 DEF Agrees, Shown
<1> QED
  BY <1>1, <1>2, <1>3 DEF Event

LEMMA CatchSuffices == CatchInv /\ HeardInv => CaughtUp
<1> SUFFICES ASSUME CatchInv, HeardInv, NEW s \in Sims, NEW o \in room[s],
                    answer[o][s] # Unasked, Coming(s) = {}, ~Unpublished(s)
             PROVE  View(o, s) = Seen(rows[s].state, rows[s].totalGoals)
  BY DEF CaughtUp
<1>1. o \in Sockets /\ heard[o][s] \in Seq(Event) /\ rows[s] # NoRow
  BY DEF CatchInv, WatchInv, ObserversTypeOK
<1>2. feed[s] \in Seq(Event)
  BY DEF CatchInv, FullInv, TypeOK, ServicesTypeOK
<1>3. At(events, s) = {} /\ After(events, s, 0) = {}
  BY DEF Coming, At, After
<1>4. CASE heard[o][s] = << >>
  BY <1>3, <1>4 DEF CatchInv, KnowInv, Row, View
<1>5. CASE heard[o][s] # << >>
  <2> PICK f \in Seq(Event) : f = feed[s]
    BY <1>2
  <2> PICK h \in Seq(Event) : h = heard[o][s]
    BY <1>1
  <2>1. Rest(events, s, 0) = 0 /\ Undivided(events, s, 0)
    BY <1>3, FS_EmptySet DEF Rest, Undivided
  <2>2. MemberFits(events, f, h, s)
    BY DEF HeardInv
  <2>3. /\ Len(f) - 0 - Len(h) >= 0
        /\ \A k \in DOMAIN h : h[k] = f[Len(f) - 0 - Len(h) + k]
    BY <2>1, <2>2 DEF MemberFits
  <2>4. Len(h) \in DOMAIN h /\ Len(h) \in Nat /\ Len(f) \in Nat
    BY <1>5
  <2>5. Len(f) - 0 - Len(h) + Len(h) = Len(f)
    BY <2>4
  <2>6. h[Len(h)] = f[Len(f)]
    BY <2>3, <2>4, <2>5
  <2>7. f # << >> /\ Agrees(f[Len(f)], rows[s])
    BY <1>1 DEF CatchInv, AllNews, NewsInv
  <2>8. f[Len(f)] \in Event
    BY <2>7
  <2>9. Last(h) = f[Len(f)]
    BY <2>6 DEF Last
  <2> QED
    BY <1>5, <2>7, <2>8, <2>9, ShownIsSeen DEF View
<1> QED
  BY <1>4, <1>5

(***************************************************************************)
(* Who subscribed and then asked GET /simulations/:id knows the row as     *)
(* soon as nothing of the simulation waits for the forwarder and nobody    *)
(* has something left to publish, however many runs, aborts and restarts   *)
(* lay between: every save is followed by its publish, the abort's too     *)
(* (simulation-worker.handler.ts:114), and a member misses none.  Of       *)
(* patient clients, one for each user, where nothing fails: a failure      *)
(* between a save and its publish leaves a row nobody is told about.       *)
(***************************************************************************)
THEOREM ObserversCatchUp ==
    ASSUME Patient, OneClientEach, FaultKinds = {}
    PROVE  ObserversSpec => []CaughtUp
BY CatchInvariance, CatchSuffices, PTL

=============================================================================
