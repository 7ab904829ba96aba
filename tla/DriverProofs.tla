---------------------------- MODULE DriverProofs ----------------------------
(***************************************************************************)
(* What holds of clients that wait for the end of a simulation before they *)
(* restart it, one for each user, whatever fails: nobody writes a row      *)
(* behind another's back, an event is told after it is stored, and the     *)
(* table implements SimulationLifecycle.  By induction, one simulation at  *)
(* a time: whoever is about to change its row is alone, and what it is     *)
(* about to write follows from the row that is there.                      *)
(***************************************************************************)
EXTENDS RowProofs, InFlightProofs, FiniteSetTheorems

(* Each owner sends one request at a time. *)
OneClientEach == \A c, d \in Clients : UserOf[c] = UserOf[d] => c = d

-----------------------------------------------------------------------------
(* Who acts on s. *)

Writing(c, s) == req[c].pc \in {"publish", "dispatch"} /\ req[c].sim = s

Asking(c, s) == req[c].pc \in {"query", "save"} /\ req[c].sim = s

Waiting(s) == \E p \in Profiles : \E i \in DOMAIN runQueue[p] : runQueue[p][i] = s

(* No two RUN commands for s wait. *)
Once(s) ==
    \A p, q \in Profiles : \A i \in DOMAIN runQueue[p], j \in DOMAIN runQueue[q] :
        runQueue[p][i] = s /\ runQueue[q][j] = s => p = q /\ i = j

Driving(r, s) == Live(r) /\ runs[r].sim = s

Handling(w, s) == abortHandler[w] # Resting /\ abortHandler[w].sim = s

Ending(w, s) ==
    /\ abortHandler[w].pc \in {"find", "save", "publish"}
    /\ abortHandler[w].sim = s
    /\ abortHandler[w].pc = "find" => rows[s].state = "RUNNING"

(* A finish of s asked for at t is under way. *)
FinishAsked(s, t) ==
    \/ \E c \in Clients : req[c].pc = "abort" /\ req[c].sim = s /\ req[c].finishedAt = t
    \/ \E i \in DOMAIN abortQueue : abortQueue[i].sim = s /\ abortQueue[i].finishedAt = t
    \/ \E w \in Workers : Handling(w, s) /\ abortHandler[w].finishedAt = t

(* Whoever acts on s is a. *)
Sole(s, a) ==
    /\ \A c \in Clients : Writing(c, s) => a = <<"request", c>>
    /\ Waiting(s) => a = <<"command", s>>
    /\ \A w \in Workers : runHandler[w] = s => a = <<"runHandler", w>>
    /\ \A r \in Runs : Driving(r, s) => a = <<"run", r>>
    /\ \A w \in Workers : Ending(w, s) => a = <<"abortHandler", w>>

NoWriter(s) == \A c \in Clients : ~Writing(c, s)

NoTaker(s) == \A w \in Workers : runHandler[w] # s

NoDriver(s) == \A r \in Runs : ~Driving(r, s)

NoEnder(s) == \A w \in Workers : ~Ending(w, s)

NoFinish(s) == \A t \in Nat : ~FinishAsked(s, t)

-----------------------------------------------------------------------------
(* What they know of its row. *)

Untold(s) == ~SeenFinished(s)

(* Unless an awaited call of a worker failed, the room heard n events. *)
Heard(s, n) == "call" \notin FaultKinds => feed[s] # << >> /\ Len(feed[s]) = n

(* s can be ignited again, and nothing is left of its last run. *)
Restartable(s) == rows[s].state = "FINISHED" /\ NoFinish(s) /\ NoDriver(s)

(* A run may begin. *)
Ready(s) ==
    /\ rows[s].state = "RUNNING"
    /\ rows[s].totalGoals = 0
    /\ Untold(s)
    /\ Heard(s, 1)

(* What a request may save, once the throttle lets it. *)
MayIgnite(copy, s) ==
    /\ copy.state = "RUNNING"
    /\ copy.totalGoals = 0
    /\ copy.startedAt <= now
    /\ rows[s] # NoRow => Restartable(s) /\ rows[s].finishedAt <= copy.startedAt

AskInv(c, s) == MayIgnite(req[c].copy, s)

WriteInv(c, s) ==
    /\ rows[s] = req[c].copy
    /\ rows[s].state = "RUNNING"
    /\ rows[s].totalGoals = 0
    /\ req[c].pc = "dispatch" => Untold(s) /\ Heard(s, 1)

(* What a run is about to save. *)
Progress(run, s) ==
    \/ run.copy = ApplyGoal(rows[s])
    \/ \E t \in rows[s].startedAt .. now : run.copy = Finish(rows[s], t)

(* The goal that is saved and not yet told. *)
Pending(run) == IF run.pc = "publish" /\ run.copy.state = "RUNNING" THEN 1 ELSE 0

DriveInv(r, s) ==
    LET run == runs[r] IN
    /\ Untold(s)
    /\ Heard(s, rows[s].totalGoals + 1 - Pending(run))
    /\ run.copy.totalGoals = run.tick
    /\ run.tick <= GoalCount
    /\ run.pc = "sleep" =>
         rows[s] = run.copy /\ run.copy.state = "RUNNING" /\ run.tick < GoalCount
    /\ run.pc = "save" => rows[s].state = "RUNNING" /\ Progress(run, s)
    /\ run.pc = "publish" => rows[s] = run.copy
    /\ run.copy.state = "FINISHED" => NoMoreGoals(run.worker, run.tick)

EndInv(w, s) ==
    LET h == abortHandler[w] IN
    /\ Untold(s)
    /\ Heard(s, rows[s].totalGoals + 1)
    /\ h.pc = "save" => rows[s].state = "RUNNING" /\ h.copy = Finish(rows[s], h.finishedAt)
    /\ h.pc = "publish" => rows[s].state = "FINISHED" /\ rows[s] = h.copy

(* The instants of the row, and of the finishes asked for, are in order. *)
Dated(s) ==
    /\ \A t \in Nat : FinishAsked(s, t) => t \in rows[s].startedAt .. now
    /\ rows[s] # NoRow =>
         /\ rows[s].startedAt <= now
         /\ rows[s].state = "FINISHED" => rows[s].finishedAt \in rows[s].startedAt .. now

SimInv(s) ==
    /\ \E a : Sole(s, a)
    /\ Once(s)
    /\ \A c \in Clients : Writing(c, s) => WriteInv(c, s)
    /\ Waiting(s) => Ready(s)
    /\ \A w \in Workers : runHandler[w] = s => Ready(s)
    /\ \A r \in Runs : Driving(r, s) => DriveInv(r, s)
    /\ \A w \in Workers : Ending(w, s) => EndInv(w, s)
    /\ Dated(s)

(* A client acts for its user. *)
OwnRequests ==
    \A c \in Clients :
        /\ Igniting(c) => req[c].copy.owner = UserOf[c]
        /\ req[c].pc = "abort" => rows[req[c].sim].owner = UserOf[c]

(* A request past the throttle keeps its distance. *)
Throttled ==
    \A c \in Clients : req[c].pc = "save" =>
        \A t \in Sims : rows[t] # NoRow /\ rows[t].owner = UserOf[c] =>
            req[c].copy.startedAt - rows[t].startedAt >= Cooldown

AskersWait == \A s \in Sims, c \in Clients : Asking(c, s) => AskInv(c, s)

(* A handler of ABORT waits for a run of its simulation. *)
DrainsItsOwn ==
    \A w \in Workers : abortHandler[w].pc = "draining" =>
        runs[abortHandler[w].run].sim = abortHandler[w].sim

PInv ==
    /\ OwnRequests
    /\ Throttled
    /\ AskersWait
    /\ DrainsItsOwn
    /\ \A s \in Sims : SimInv(s)

FullInv == TypeOK /\ RowsInv /\ IdInv /\ MapInv /\ PInv

-----------------------------------------------------------------------------
(* A step that leaves the row and the room of s alone, and brings nobody   *)
(* new to s.                                                               *)

RequestsCalm(s) == \A c \in Clients : Writing(c, s)' => Writing(c, s) /\ req'[c] = req[c]

QueueCalm(s) == (Waiting(s)' => Waiting(s)) /\ (Once(s) => Once(s)')

TakersCalm(s) == \A w \in Workers : runHandler'[w] = s => runHandler[w] = s

SameRun(r) ==
    /\ runs'[r].pc = runs[r].pc
    /\ runs'[r].worker = runs[r].worker
    /\ runs'[r].copy = runs[r].copy
    /\ runs'[r].tick = runs[r].tick

RunsCalm(s) == \A r \in Runs : Driving(r, s)' => Driving(r, s) /\ SameRun(r)

EndersCalm(s) ==
    \A w \in Workers : Ending(w, s)' => Ending(w, s) /\ abortHandler'[w] = abortHandler[w]

FinishesCalm(s) == \A t \in Nat : FinishAsked(s, t)' => FinishAsked(s, t)

RowCalm(s) == rows'[s] = rows[s] /\ feed'[s] = feed[s] /\ now' >= now

Still(s) ==
    /\ RowCalm(s)
    /\ RequestsCalm(s)
    /\ QueueCalm(s)
    /\ TakersCalm(s)
    /\ RunsCalm(s)
    /\ EndersCalm(s)

Calm(s) == Still(s) /\ FinishesCalm(s)

LEMMA StillKeeps ==
    ASSUME TypeOK, TypeOK', NEW s \in Sims, SimInv(s), Still(s), Dated(s)'
    PROVE  SimInv(s)'
<1> USE DEF SimInv, Still, RowCalm
<1>1. (\E a : Sole(s, a))'
  <2>1. PICK a : Sole(s, a)
    OBVIOUS
  <2>2. Sole(s, a)'
    BY <2>1 DEF Sole, RequestsCalm, QueueCalm, TakersCalm, RunsCalm, EndersCalm
  <2> QED
    BY <2>2
<1>2. Once(s)'
  BY DEF QueueCalm
<1>3. \A c \in Clients : Writing(c, s)' => WriteInv(c, s)'
  BY DEF RequestsCalm, WriteInv, Untold, SeenFinished, Heard
<1>4. (Waiting(s)' => Ready(s)') /\ \A w \in Workers : runHandler'[w] = s => Ready(s)'
  BY DEF QueueCalm, TakersCalm, Ready, Untold, SeenFinished, Heard
<1>5. ASSUME NEW r \in Runs, Driving(r, s)'
      PROVE  DriveInv(r, s)'
  <2>1. DriveInv(r, s) /\ SameRun(r)
    BY <1>5 DEF RunsCalm
  <2>2. Untold(s)'
    BY <2>1 DEF DriveInv, Untold, SeenFinished
  <2>3. Progress(runs[r], s) => Progress(runs[r], s)'
    <3> HAVE Progress(runs[r], s)
    <3>1. CASE runs[r].copy = ApplyGoal(rows[s])
      BY <2>1, <3>1 DEF Progress, SameRun
    <3>2. CASE \E t \in rows[s].startedAt .. now : runs[r].copy = Finish(rows[s], t)
      <4>1. PICK t \in rows[s].startedAt .. now : runs[r].copy = Finish(rows[s], t)
        BY <3>2
      <4>2. t \in rows'[s].startedAt .. now'
        BY <4>1 DEF TypeOK, ServicesTypeOK
      <4> QED
        BY <2>1, <4>1, <4>2 DEF Progress, SameRun
    <3> QED
      BY <3>1, <3>2 DEF Progress
  <2>4. Pending(runs[r])' = Pending(runs[r])
    BY <2>1 DEF Pending, SameRun
  <2>5. Heard(s, rows[s].totalGoals + 1 - Pending(runs[r]))'
    BY <2>1, <2>4 DEF DriveInv, Heard
  <2> QED
    BY <2>1, <2>2, <2>3, <2>5 DEF DriveInv, SameRun
<1>6. \A w \in Workers : Ending(w, s)' => EndInv(w, s)'
  BY DEF EndersCalm, EndInv, Untold, SeenFinished, Heard
<1> QED
  BY <1>1, <1>2, <1>3, <1>4, <1>5, <1>6

(* No finish is asked for that was not asked for before. *)
LEMMA StillDated ==
    ASSUME TypeOK, TypeOK', NEW s \in Sims, Dated(s), FinishesCalm(s), now' >= now,
           rows'[s] = rows[s]
    PROVE  Dated(s)'
BY DEF Dated, FinishesCalm, TypeOK, ServicesTypeOK, Aggregate

LEMMA SavedDated ==
    ASSUME NEW s \in Sims, Dated(s), FinishesCalm(s), UNCHANGED now, rows[s] # NoRow,
           rows'[s].startedAt = rows[s].startedAt,
           rows'[s].state = "FINISHED" => rows'[s].finishedAt \in rows[s].startedAt .. now
    PROVE  Dated(s)'
BY DEF Dated, FinishesCalm

LEMMA CalmKeeps ==
    ASSUME TypeOK, TypeOK', NEW s \in Sims, SimInv(s), Calm(s)
    PROVE  SimInv(s)'
<1>1. Dated(s)'
  BY StillDated DEF Calm, Still, RowCalm, SimInv
<1> QED
  BY <1>1, StillKeeps DEF Calm

(* What is calm when its variables stay. *)
LEMMA Unmoved ==
    ASSUME NEW s \in Sims
    PROVE  /\ UNCHANGED <<rows, feed, now>> /\ now \in Nat => RowCalm(s)
           /\ UNCHANGED req => RequestsCalm(s)
           /\ UNCHANGED runQueue => QueueCalm(s)
           /\ UNCHANGED runHandler => TakersCalm(s)
           /\ UNCHANGED runs => RunsCalm(s)
           /\ UNCHANGED abortHandler /\ rows'[s] = rows[s] => EndersCalm(s)
           /\ UNCHANGED <<req, abortQueue, abortHandler>> => FinishesCalm(s)
BY DEF RowCalm, RequestsCalm, QueueCalm, TakersCalm, RunsCalm, EndersCalm, FinishesCalm,
       Writing, Waiting, Once, Driving, Live, SameRun, Ending, FinishAsked, Handling

-----------------------------------------------------------------------------
(* Whoever is about to change the row of s is alone, and afterwards, if    *)
(* nobody else came, somebody is alone again.                              *)

LEMMA WriterAlone ==
    ASSUME NEW s \in Sims, SimInv(s), NEW c \in Clients, Writing(c, s)
    PROVE  /\ \A d \in Clients \ {c} : ~Writing(d, s)
           /\ ~Waiting(s) /\ NoTaker(s) /\ NoDriver(s) /\ NoEnder(s)
BY DEF SimInv, Sole, NoTaker, NoDriver, NoEnder

LEMMA CommandAlone ==
    ASSUME NEW s \in Sims, SimInv(s), Waiting(s)
    PROVE  NoWriter(s) /\ NoTaker(s) /\ NoDriver(s) /\ NoEnder(s)
BY DEF SimInv, Sole, NoWriter, NoTaker, NoDriver, NoEnder

LEMMA TakerAlone ==
    ASSUME NEW s \in Sims, SimInv(s), NEW w \in Workers, runHandler[w] = s
    PROVE  /\ NoWriter(s) /\ ~Waiting(s)
           /\ \A v \in Workers \ {w} : runHandler[v] # s
           /\ NoDriver(s) /\ NoEnder(s)
BY DEF SimInv, Sole, NoWriter, NoDriver, NoEnder

LEMMA DriverAlone ==
    ASSUME NEW s \in Sims, SimInv(s), NEW r \in Runs, Driving(r, s)
    PROVE  /\ NoWriter(s) /\ ~Waiting(s) /\ NoTaker(s)
           /\ \A q \in Runs \ {r} : ~Driving(q, s)
           /\ NoEnder(s)
BY DEF SimInv, Sole, NoWriter, NoTaker, NoEnder

LEMMA EnderAlone ==
    ASSUME NEW s \in Sims, SimInv(s), NEW w \in Workers, Ending(w, s)
    PROVE  /\ NoWriter(s) /\ ~Waiting(s) /\ NoTaker(s) /\ NoDriver(s)
           /\ \A v \in Workers \ {w} : ~Ending(v, s)
BY DEF SimInv, Sole, NoWriter, NoTaker, NoDriver

LEMMA OnlyWriter ==
    ASSUME NEW s \in Sims, NEW c \in Clients,
           \A d \in Clients \ {c} : ~Writing(d, s)',
           Writing(c, s)' => WriteInv(c, s)',
           ~Waiting(s)', NoTaker(s)', NoDriver(s)', NoEnder(s)', Dated(s)'
    PROVE  SimInv(s)'
<1>1. Sole(s, <<"request", c>>)'
  BY DEF Sole, NoTaker, NoDriver, NoEnder
<1> QED
  BY <1>1 DEF SimInv, Once, Waiting, NoTaker, NoDriver, NoEnder

LEMMA OnlyCommand ==
    ASSUME NEW s \in Sims, NoWriter(s)', Once(s)', Waiting(s)' => Ready(s)',
           NoTaker(s)', NoDriver(s)', NoEnder(s)', Dated(s)'
    PROVE  SimInv(s)'
<1>1. Sole(s, <<"command", s>>)'
  BY DEF Sole, NoWriter, NoTaker, NoDriver, NoEnder
<1> QED
  BY <1>1 DEF SimInv, NoWriter, NoTaker, NoDriver, NoEnder

LEMMA OnlyTaker ==
    ASSUME NEW s \in Sims, NEW w \in Workers, NoWriter(s)', ~Waiting(s)',
           \A v \in Workers \ {w} : runHandler'[v] # s,
           runHandler'[w] = s => Ready(s)',
           NoDriver(s)', NoEnder(s)', Dated(s)'
    PROVE  SimInv(s)'
<1>1. Sole(s, <<"runHandler", w>>)'
  BY DEF Sole, NoWriter, NoDriver, NoEnder
<1> QED
  BY <1>1 DEF SimInv, Once, Waiting, NoWriter, NoDriver, NoEnder

LEMMA OnlyDriver ==
    ASSUME NEW s \in Sims, NEW r \in Runs, NoWriter(s)', ~Waiting(s)', NoTaker(s)',
           \A q \in Runs \ {r} : ~Driving(q, s)',
           Driving(r, s)' => DriveInv(r, s)',
           NoEnder(s)', Dated(s)'
    PROVE  SimInv(s)'
<1>1. Sole(s, <<"run", r>>)'
  BY DEF Sole, NoWriter, NoTaker, NoEnder
<1> QED
  BY <1>1 DEF SimInv, Once, Waiting, NoWriter, NoTaker, NoEnder

LEMMA OnlyEnder ==
    ASSUME NEW s \in Sims, NEW w \in Workers, NoWriter(s)', ~Waiting(s)', NoTaker(s)', NoDriver(s)',
           \A v \in Workers \ {w} : ~Ending(v, s)',
           Ending(w, s)' => EndInv(w, s)',
           Dated(s)'
    PROVE  SimInv(s)'
<1>1. Sole(s, <<"abortHandler", w>>)'
  BY DEF Sole, NoWriter, NoTaker, NoDriver
<1> QED
  BY <1>1 DEF SimInv, Once, Waiting, NoWriter, NoTaker, NoDriver

-----------------------------------------------------------------------------
(* The queues. *)

LEMMA EndsRead ==
    ASSUME NEW S, NEW q \in Seq(S), NEW x \in S
    PROVE  /\ \A i \in DOMAIN Append(q, x) :
                \/ i \in DOMAIN q /\ Append(q, x)[i] = q[i]
                \/ i = Len(q) + 1 /\ Append(q, x)[i] = x
           /\ \A i \in DOMAIN (<<x>> \o q) :
                \/ i \in Nat /\ i # 1 /\ i - 1 \in DOMAIN q /\ (<<x>> \o q)[i] = q[i - 1]
                \/ i = 1 /\ (<<x>> \o q)[i] = x
<1>1. ASSUME NEW i \in DOMAIN Append(q, x)
      PROVE  \/ i \in DOMAIN q /\ Append(q, x)[i] = q[i]
             \/ i = Len(q) + 1 /\ Append(q, x)[i] = x
  OBVIOUS
<1>2. ASSUME NEW i \in DOMAIN (<<x>> \o q)
      PROVE  \/ i \in Nat /\ i # 1 /\ i - 1 \in DOMAIN q /\ (<<x>> \o q)[i] = q[i - 1]
             \/ i = 1 /\ (<<x>> \o q)[i] = x
  OBVIOUS
<1> QED
  BY <1>1, <1>2

LEMMA RestRead ==
    ASSUME NEW S, NEW q \in Seq(S), q # << >>
    PROVE  /\ Head(q) \in S
           /\ 1 \in DOMAIN q /\ q[1] = Head(q)
           /\ \A i \in DOMAIN Tail(q) : i \in Nat \ {0} /\ i + 1 \in DOMAIN q /\ Tail(q)[i] = q[i + 1]
<1>1. /\ DOMAIN q = 1 .. Len(q)
      /\ Len(q) \in Nat /\ Len(q) # 0
      /\ Head(q) = q[1]
      /\ DOMAIN Tail(q) = 1 .. Len(q) - 1
      /\ \A i \in 1 .. Len(q) - 1 : Tail(q)[i] = q[i + 1]
  OBVIOUS
<1> QED
  BY <1>1

(* A command joins a topic at its end, or returns to its head. *)
LEMMA Joins ==
    ASSUME TypeOK, NEW p \in Profiles, NEW x \in Sims, NEW q \in Seq(Sims), q = runQueue[p],
           NEW end \in BOOLEAN,
           runQueue' = [runQueue EXCEPT ![p] = IF end THEN Append(q, x) ELSE <<x>> \o q]
    PROVE  /\ \A s \in Sims \ {x} : QueueCalm(s)
           /\ ~Waiting(x) => Once(x)'
<1>2. /\ runQueue'[p] = IF end THEN Append(q, x) ELSE <<x>> \o q
      /\ \A o \in Profiles \ {p} : runQueue'[o] = runQueue[o]
  BY DEF TypeOK, ServicesTypeOK
<1>3. \A i \in DOMAIN Append(q, x) :
        \/ i \in DOMAIN q /\ Append(q, x)[i] = q[i]
        \/ i = Len(q) + 1 /\ Append(q, x)[i] = x
  BY EndsRead
<1>4. \A i \in DOMAIN (<<x>> \o q) :
        \/ i \in Nat /\ i # 1 /\ i - 1 \in DOMAIN q /\ (<<x>> \o q)[i] = q[i - 1]
        \/ i = 1 /\ (<<x>> \o q)[i] = x
  BY EndsRead
<1>5. DOMAIN q \subseteq Nat
  OBVIOUS
<1> DEFINE Joined(o, i) == o = p /\ i = (IF end THEN Len(q) + 1 ELSE 1)
           Old(o, i) == IF o = p /\ ~end THEN i - 1 ELSE i
<1>6. ASSUME NEW o \in Profiles, NEW i \in DOMAIN runQueue'[o]
      PROVE  \/ /\ Old(o, i) \in DOMAIN runQueue[o]
                /\ runQueue'[o][i] = runQueue[o][Old(o, i)]
                /\ o = p => i \in Nat
             \/ Joined(o, i) /\ runQueue'[o][i] = x
  <2>1. CASE o # p
    BY <1>2, <1>6, <2>1
  <2>2. CASE o = p /\ end
    <3>1. i \in DOMAIN Append(q, x) /\ runQueue'[o] = Append(q, x)
      BY <1>2, <1>6, <2>2
    <3> QED
      BY <1>3, <1>5, <2>2, <3>1
  <2>3. CASE o = p /\ ~end
    <3>1. i \in DOMAIN (<<x>> \o q) /\ runQueue'[o] = <<x>> \o q
      BY <1>2, <1>6, <2>3
    <3> QED
      BY <1>4, <2>3, <3>1
  <2> QED
    BY <2>1, <2>2, <2>3
<1>7. \A o \in Profiles, i, j \in Nat : Old(o, i) = Old(o, j) => i = j
  OBVIOUS
<1>8. \A o \in Profiles \ {p} : \A i : Old(o, i) = i
  OBVIOUS
<1> HIDE DEF Joined, Old
<1>9. ASSUME NEW s \in Sims \ {x}
      PROVE  QueueCalm(s)
  <2>1. ASSUME NEW o \in Profiles, NEW i \in DOMAIN runQueue'[o], runQueue'[o][i] = s
        PROVE  /\ Old(o, i) \in DOMAIN runQueue[o]
               /\ runQueue[o][Old(o, i)] = s
               /\ o = p => i \in Nat
    BY <1>6, <1>9, <2>1
  <2>2. Waiting(s)' => Waiting(s)
    BY <2>1 DEF Waiting
  <2>3. Once(s) => Once(s)'
    BY <1>7, <1>8, <2>1 DEF Once
  <2> QED
    BY <2>2, <2>3 DEF QueueCalm
<1>10. ASSUME ~Waiting(x)
       PROVE  Once(x)'
  <2>1. ASSUME NEW o \in Profiles, NEW i \in DOMAIN runQueue'[o], runQueue'[o][i] = x
        PROVE  Joined(o, i)
    BY <1>6, <1>10, <2>1 DEF Waiting
  <2> QED
    BY <2>1 DEF Once, Joined
<1> QED
  BY <1>9, <1>10

(* A command leaves a topic. *)
LEMMA Leaves ==
    ASSUME TypeOK, NEW p \in Profiles, NEW q \in Seq(Sims), q = runQueue[p], q # << >>,
           NEW x, x = Head(q),
           runQueue' = [runQueue EXCEPT ![p] = Tail(q)]
    PROVE  /\ x \in Sims
           /\ Waiting(x)
           /\ Once(x) => ~Waiting(x)'
           /\ \A s \in Sims : QueueCalm(s)
<1>1. runQueue'[p] = Tail(q) /\ \A o \in Profiles \ {p} : runQueue'[o] = runQueue[o]
  BY DEF TypeOK, ServicesTypeOK
<1>2. /\ x \in Sims
      /\ 1 \in DOMAIN q /\ q[1] = x
      /\ \A i \in DOMAIN Tail(q) : i \in Nat \ {0} /\ i + 1 \in DOMAIN q /\ Tail(q)[i] = q[i + 1]
  BY RestRead
<1> DEFINE Old(o, i) == IF o = p THEN i + 1 ELSE i
<1>3. ASSUME NEW o \in Profiles, NEW i \in DOMAIN runQueue'[o]
      PROVE  /\ Old(o, i) \in DOMAIN runQueue[o]
             /\ runQueue'[o][i] = runQueue[o][Old(o, i)]
             /\ o = p => i \in Nat /\ Old(o, i) # 1
  <2>1. CASE o # p
    BY <1>1, <1>3, <2>1
  <2>2. CASE o = p
    <3>1. i \in DOMAIN Tail(q) /\ runQueue'[o] = Tail(q)
      BY <1>1, <1>3, <2>2
    <3>2. i \in Nat \ {0} /\ i + 1 \in DOMAIN q /\ Tail(q)[i] = q[i + 1]
      BY <1>2, <3>1
    <3>3. i + 1 # 1 /\ Old(o, i) = i + 1
      BY <2>2, <3>2
    <3> HIDE DEF Old
    <3> QED
      BY <2>2, <3>1, <3>2, <3>3
  <2> QED
    BY <2>1, <2>2
<1>4. \A o \in Profiles, i, j \in Nat : Old(o, i) = Old(o, j) => i = j
  OBVIOUS
<1>5. \A o \in Profiles \ {p} : \A i : Old(o, i) = i
  OBVIOUS
<1> HIDE DEF Old
<1>6. 1 \in DOMAIN runQueue[p] /\ runQueue[p][1] = x
  BY <1>2
<1>7. Waiting(x)
  BY <1>6 DEF Waiting
<1>8. ASSUME Once(x), NEW o \in Profiles, NEW i \in DOMAIN runQueue'[o], runQueue'[o][i] = x
      PROVE  FALSE
  <2>1. o = p /\ Old(o, i) = 1
    BY <1>3, <1>6, <1>8 DEF Once
  <2> QED
    BY <1>3, <1>8, <2>1
<1>9. Once(x) => ~Waiting(x)'
  BY <1>8 DEF Waiting
<1>10. ASSUME NEW s \in Sims PROVE QueueCalm(s)
  <2>1. Waiting(s)' => Waiting(s)
    BY <1>3 DEF Waiting
  <2>2. Once(s) => Once(s)'
    BY <1>3, <1>4, <1>5 DEF Once
  <2> QED
    BY <2>1, <2>2 DEF QueueCalm
<1> QED
  BY <1>2, <1>7, <1>9, <1>10

LEMMA AbortJoins ==
    ASSUME NEW q \in Seq(AbortCommand), NEW x \in AbortCommand,
           NEW after \in {Append(q, x), <<x>> \o q}
    PROVE  \A i \in DOMAIN after : after[i] = x \/ \E j \in DOMAIN q : after[i] = q[j]
<1>1. CASE after = Append(q, x)
  BY <1>1, EndsRead
<1>2. CASE after = <<x>> \o q
  BY <1>2, EndsRead
<1> QED
  BY <1>1, <1>2

LEMMA AbortLeaves ==
    ASSUME NEW q \in Seq(AbortCommand), q # << >>
    PROVE  /\ Head(q) \in AbortCommand
           /\ \E j \in DOMAIN q : q[j] = Head(q)
           /\ \A i \in DOMAIN Tail(q) : \E j \in DOMAIN q : Tail(q)[i] = q[j]
BY RestRead

(* A client's finish request, once it waits in the queue, asks for the     *)
(* same finish.                                                            *)
LEMMA FinishQueued ==
    ASSUME TypeOK, NEW c \in Clients, DispatchFinish(c), UNCHANGED abortHandler, NEW s \in Sims
    PROVE  FinishesCalm(s)
<1>1. req[c] \in Abortion /\ req'[c] = Idle /\ \A d \in Clients \ {c} : req'[d] = req[d]
  BY RequestShape DEF DispatchFinish, TypeOK, OrchestratorTypeOK
<1> DEFINE cmd == [sim |-> req[c].sim, finishedAt |-> req[c].finishedAt]
<1>2. cmd \in AbortCommand /\ cmd.sim = req[c].sim /\ cmd.finishedAt = req[c].finishedAt
  BY <1>1 DEF Abortion, AbortCommand
<1>3. abortQueue \in Seq(AbortCommand) /\ abortQueue' = Append(abortQueue, cmd)
  BY DEF DispatchFinish, DispatchAbort, TypeOK, ServicesTypeOK
<1> HIDE DEF cmd
<1>4. \A i \in DOMAIN abortQueue' :
        abortQueue'[i] = cmd \/ \E j \in DOMAIN abortQueue : abortQueue'[i] = abortQueue[j]
  BY <1>2, <1>3, AbortJoins
<1>5. req[c].pc = "abort"
  BY DEF DispatchFinish
<1> QED
  BY <1>1, <1>2, <1>4, <1>5 DEF FinishesCalm, FinishAsked, Handling, Idle

-----------------------------------------------------------------------------
(* The requests. *)

(* A step of the request of c which neither saved a row nor asks for a     *)
(* finish concerns no simulation.                                          *)
LEMMA RequestIsCalm ==
    ASSUME TypeOK, NEW c \in Clients, NEW next, req' = [req EXCEPT ![c] = next],
           next.pc \notin {"publish", "dispatch", "abort"},
           UNCHANGED <<now, rows, runQueue, abortQueue, feed, workerVars>>,
           NEW s \in Sims
    PROVE  Calm(s)
<1>1. req'[c] = next /\ \A d \in Clients \ {c} : req'[d] = req[d]
  BY DEF TypeOK, OrchestratorTypeOK
<1>2. RequestsCalm(s)
  BY <1>1 DEF RequestsCalm, Writing
<1>3. FinishesCalm(s)
  BY <1>1 DEF FinishesCalm, FinishAsked, Handling, workerVars
<1>4. now \in Nat
  BY DEF TypeOK, ServicesTypeOK
<1> QED
  BY <1>2, <1>3, <1>4, Unmoved DEF Calm, Still, workerVars

LEMMA RestartableStays ==
    ASSUME NEW s \in Sims, Calm(s), Restartable(s)
    PROVE  Restartable(s)'
BY DEF Calm, Still, RowCalm, Restartable, FinishesCalm, NoFinish, RunsCalm, NoDriver

LEMMA AskerStays ==
    ASSUME TypeOK, TypeOK', NEW s \in Sims, Calm(s), NEW c \in Clients,
           req'[c].copy = req[c].copy, req[c].copy \in Aggregate, AskInv(c, s)
    PROVE  AskInv(c, s)'
BY RestartableStays DEF Calm, Still, RowCalm, AskInv, MayIgnite, TypeOK, ServicesTypeOK, Aggregate

LEMMA AskersAreTyped ==
    ASSUME TypeOK, NEW c \in Clients, NEW s, Asking(c, s)
    PROVE  Igniting(c) /\ s \in Sims /\ req[c].copy \in Aggregate
BY RequestShape DEF Asking, Igniting, TypeOK, Ignition

(* The requests of the others, and the distance they keep, when no row     *)
(* changes.                                                                *)
LEMMA CalmRequest ==
    ASSUME FullInv, TypeOK', NEW c \in Clients, NEW next, req' = [req EXCEPT ![c] = next],
           next.pc \notin {"publish", "dispatch", "abort"},
           UNCHANGED <<now, rows, runQueue, abortQueue, feed, workerVars>>,
           next.pc \in {"query", "save"} =>
               next.copy.owner = UserOf[c] /\ MayIgnite(next.copy, next.sim),
           next.pc = "save" =>
               \A t \in Sims : rows[t] # NoRow /\ rows[t].owner = UserOf[c] =>
                   next.copy.startedAt - rows[t].startedAt >= Cooldown
    PROVE  PInv'
<1> USE DEF FullInv
<1>1. req'[c] = next /\ \A d \in Clients \ {c} : req'[d] = req[d]
  BY DEF TypeOK, OrchestratorTypeOK
<1>2. \A s \in Sims : Calm(s)
  BY RequestIsCalm
<1>3. \A s \in Sims : SimInv(s)'
  BY <1>2, CalmKeeps DEF PInv
<1>4. OwnRequests'
  BY <1>1 DEF PInv, OwnRequests, Igniting
<1>5. Throttled'
  BY <1>1 DEF PInv, Throttled
<1>6. ASSUME NEW s \in Sims, NEW d \in Clients, Asking(d, s)'
      PROVE  AskInv(d, s)'
  <2>1. MayIgnite(req'[d].copy, s)
    BY <1>1, <1>6 DEF PInv, AskersWait, Asking, AskInv
  <2>2. rows[s] # NoRow => Restartable(s)'
    BY <1>2, <2>1, RestartableStays DEF MayIgnite
  <2> QED
    BY <2>1, <2>2 DEF AskInv, MayIgnite
<1>7. DrainsItsOwn'
  BY DEF PInv, DrainsItsOwn, workerVars
<1> QED
  BY <1>3, <1>4, <1>5, <1>6, <1>7 DEF PInv, AskersWait

LEMMA StartKeeps ==
    ASSUME FullInv, TypeOK', NEW c \in Clients, StartRequest(c), UNCHANGED workerVars
    PROVE  PInv'
<1>1. PICK s \in Sims, p \in Profiles :
        /\ Fresh(s)
        /\ req' = [req EXCEPT ![c] =
             [pc |-> "query", sim |-> s, copy |-> Create(UserOf[c], p, now),
              event |-> SimulationStarted]]
  BY DEF StartRequest
<1> DEFINE next == [pc |-> "query", sim |-> s, copy |-> Create(UserOf[c], p, now),
                    event |-> SimulationStarted]
<1>2. next.pc = "query" /\ next.sim = s /\ next.copy = Create(UserOf[c], p, now)
  OBVIOUS
<1>3. req' = [req EXCEPT ![c] = next]
  BY <1>1
<1>4. /\ next.copy.owner = UserOf[c]
      /\ next.copy.state = "RUNNING"
      /\ next.copy.totalGoals = 0
      /\ next.copy.startedAt = now
  BY <1>2 DEF Create
<1> HIDE DEF next
<1>5. MayIgnite(next.copy, next.sim)
  BY <1>1, <1>2, <1>4 DEF MayIgnite, Fresh, FullInv, TypeOK, ServicesTypeOK
<1>6. UNCHANGED <<now, rows, runQueue, abortQueue, feed>>
  BY DEF StartRequest, serviceVars
<1> QED
  BY <1>2, <1>3, <1>4, <1>5, <1>6, CalmRequest

(* Patience: the room of s was told of the end, so nobody drives it; and   *)
(* no finish is under way.                                                 *)
LEMMA PatientRestarts ==
    ASSUME FullInv, NEW s \in Sims, rows[s] # NoRow, rows[s].state = "FINISHED",
           SeenFinished(s), ~FinishPending(s)
    PROVE  Restartable(s) /\ rows[s].finishedAt <= now
<1>1. NoDriver(s)
  BY DEF NoDriver, FullInv, PInv, SimInv, DriveInv, Untold
<1>2. NoFinish(s)
  BY DEF NoFinish, FinishAsked, FinishPending, Handling
<1>3. rows[s].finishedAt \in rows[s].startedAt .. now
  BY DEF FullInv, PInv, SimInv, Dated
<1> QED
  BY <1>1, <1>2, <1>3 DEF Restartable

LEMMA RestartOperator ==
    ASSUME NEW sim \in Aggregate, NEW t \in Nat
    PROVE  /\ Restart(sim, t).owner = sim.owner
           /\ Restart(sim, t).state = "RUNNING"
           /\ Restart(sim, t).totalGoals = 0
           /\ Restart(sim, t).startedAt = t
BY DEF Aggregate, Restart

LEMMA RestartKeeps ==
    ASSUME FullInv, TypeOK', Patient, NEW c \in Clients, ClientRestarts(c), UNCHANGED workerVars
    PROVE  PInv'
<1>1. RestartRequest(c)
  BY DEF ClientRestarts
<1>2. PICK s \in Sims :
        /\ rows[s] # NoRow
        /\ rows[s].owner = UserOf[c]
        /\ rows[s].state = "FINISHED"
        /\ req' = [req EXCEPT ![c] =
             [pc |-> "query", sim |-> s, copy |-> Restart(rows[s], now),
              event |-> SimulationRestarted]]
  BY <1>1 DEF RestartRequest
<1> DEFINE next == [pc |-> "query", sim |-> s, copy |-> Restart(rows[s], now),
                    event |-> SimulationRestarted]
<1>3. next.pc = "query" /\ next.sim = s /\ next.copy = Restart(rows[s], now)
  OBVIOUS
<1>4. req' = [req EXCEPT ![c] = next]
  BY <1>2
<1> HIDE DEF next
<1>5. rows[s] \in Aggregate /\ now \in Nat /\ c \in DOMAIN req
  BY <1>2 DEF FullInv, TypeOK, ServicesTypeOK, OrchestratorTypeOK
<1>6. req'[c].sim = s
  BY <1>3, <1>4, <1>5
<1>7. SeenFinished(s) /\ ~FinishPending(s)
  BY <1>6 DEF ClientRestarts
<1>8. Restartable(s) /\ rows[s].finishedAt <= now
  BY <1>2, <1>7, PatientRestarts
<1>9. /\ next.copy.owner = UserOf[c]
      /\ next.copy.state = "RUNNING"
      /\ next.copy.totalGoals = 0
      /\ next.copy.startedAt = now
  BY <1>2, <1>3, <1>5, RestartOperator
<1>10. MayIgnite(next.copy, next.sim)
  BY <1>3, <1>5, <1>8, <1>9 DEF MayIgnite
<1>11. UNCHANGED <<now, rows, runQueue, abortQueue, feed>>
  BY <1>1 DEF RestartRequest, serviceVars
<1> QED
  BY <1>3, <1>4, <1>9, <1>10, <1>11, CalmRequest

LEMMA EnsureKeeps ==
    ASSUME FullInv, TypeOK', NEW c \in Clients, EnsureCanIgnite(c), UNCHANGED workerVars
    PROVE  PInv'
<1>1. UNCHANGED <<now, rows, runQueue, abortQueue, feed>>
  BY DEF EnsureCanIgnite, serviceVars
<1>2. CASE req' = [req EXCEPT ![c] = Idle]
  BY <1>1, <1>2, CalmRequest DEF Idle
<1>3. CASE CanIgnite(UserOf[c], req[c].copy.startedAt) /\ Goto(c, "save")
  <2> DEFINE next == [req[c] EXCEPT !.pc = "save"]
  <2>1. req[c] \in Ignition /\ Igniting(c) /\ req[c].pc = "query"
    BY RequestShape DEF EnsureCanIgnite, Igniting, FullInv, TypeOK
  <2>2. next.pc = "save" /\ next.sim = req[c].sim /\ next.copy = req[c].copy /\ next.sim \in Sims
    BY <2>1 DEF Ignition
  <2>3. req' = [req EXCEPT ![c] = next]
    BY <1>3 DEF Goto
  <2> HIDE DEF next
  <2>4. next.copy.owner = UserOf[c]
    BY <2>1, <2>2 DEF FullInv, PInv, OwnRequests
  <2>5. AskInv(c, next.sim)
    BY <2>1, <2>2 DEF FullInv, PInv, AskersWait, Asking
  <2>6. MayIgnite(next.copy, next.sim)
    BY <2>2, <2>5 DEF AskInv
  <2>7. \A t \in Sims : rows[t] # NoRow /\ rows[t].owner = UserOf[c] =>
            next.copy.startedAt - rows[t].startedAt >= Cooldown
    BY <1>3, <2>2 DEF CanIgnite
  <2> QED
    BY <1>1, <2>2, <2>3, <2>4, <2>6, <2>7, CalmRequest
<1> QED
  BY <1>2, <1>3 DEF EnsureCanIgnite

LEMMA RequestFailureKeeps ==
    ASSUME FullInv, TypeOK', NEW c \in Clients, RequestFails(c), UNCHANGED workerVars
    PROVE  PInv'
BY CalmRequest DEF RequestFails, Idle

(* Two requests about one simulation come from one client. *)
LEMMA OneAsker ==
    ASSUME FullInv, OneClientEach, NEW s \in Sims, rows[s] # NoRow, NEW c \in Clients,
           rows[s].owner = UserOf[c],
           NEW d \in Clients, Igniting(d), req[d].sim = s
    PROVE  d = c
<1>1. req[d].copy.owner = UserOf[d]
  BY DEF FullInv, PInv, OwnRequests
<1>2. req[d].copy.owner = rows[s].owner
  BY DEF FullInv, IdInv, RequestsKnow, SameIdentity
<1> QED
  BY <1>1, <1>2 DEF OneClientEach

(* Whoever waits for the throttle goes on waiting, if nothing happened to  *)
(* the simulation or it could not be ignited anyway.                       *)
LEMMA AskersKeep ==
    ASSUME FullInv, TypeOK',
           \A s \in Sims : Calm(s) \/ (rows[s] # NoRow /\ ~Restartable(s)),
           \A d \in Clients, s \in Sims : Asking(d, s)' =>
               Asking(d, s) /\ req'[d].copy = req[d].copy
    PROVE  AskersWait'
<1> SUFFICES ASSUME NEW s \in Sims, NEW d \in Clients, Asking(d, s)'
             PROVE  AskInv(d, s)'
  BY DEF AskersWait
<1>1. Asking(d, s) /\ req'[d].copy = req[d].copy
  OBVIOUS
<1>2. AskInv(d, s)
  BY <1>1 DEF FullInv, PInv, AskersWait
<1>3. Calm(s)
  BY <1>2 DEF AskInv, MayIgnite
<1>4. req[d].copy \in Aggregate
  BY <1>1, AskersAreTyped DEF FullInv
<1> QED
  BY <1>1, <1>2, <1>3, <1>4, AskerStays DEF FullInv

(* The rest of the invariant when the request of c is past the throttle.   *)
LEMMA RequestGoesOn ==
    ASSUME FullInv, NEW c \in Clients, NEW next, req' = [req EXCEPT ![c] = next],
           next.pc \in {"publish", "dispatch", "abort", "idle"},
           next.pc \in {"publish", "dispatch"} => next.copy.owner = UserOf[c],
           next.pc = "abort" => rows[next.sim].owner = UserOf[c],
           UNCHANGED <<rows, workerVars>>
    PROVE  /\ OwnRequests' /\ Throttled' /\ DrainsItsOwn'
           /\ \A d \in Clients, s \in Sims : Asking(d, s)' => d # c /\ Asking(d, s) /\ req'[d] = req[d]
<1>1. req'[c] = next /\ \A d \in Clients \ {c} : req'[d] = req[d]
  BY DEF FullInv, TypeOK, OrchestratorTypeOK
<1>2. OwnRequests'
  BY <1>1 DEF FullInv, PInv, OwnRequests, Igniting
<1>3. Throttled'
  BY <1>1 DEF FullInv, PInv, Throttled
<1>4. DrainsItsOwn'
  BY DEF FullInv, PInv, DrainsItsOwn, workerVars
<1> QED
  BY <1>1, <1>2, <1>3, <1>4 DEF Asking

LEMMA DispatchFinishKeeps ==
    ASSUME FullInv, TypeOK', NEW c \in Clients, DispatchFinish(c), UNCHANGED workerVars
    PROVE  PInv'
<1>1. UNCHANGED <<now, rows, runQueue, feed, workerVars>> /\ req' = [req EXCEPT ![c] = Idle]
  BY DEF DispatchFinish
<1>2. req'[c] = Idle /\ \A d \in Clients \ {c} : req'[d] = req[d]
  BY <1>1 DEF FullInv, TypeOK, OrchestratorTypeOK
<1>3. ASSUME NEW s \in Sims PROVE Calm(s)
  <2>1. RequestsCalm(s)
    BY <1>2 DEF RequestsCalm, Writing, Idle
  <2>2. FinishesCalm(s)
    BY <1>1, FinishQueued DEF FullInv, workerVars
  <2>3. now \in Nat
    BY DEF FullInv, TypeOK, ServicesTypeOK
  <2> QED
    BY <1>1, <2>1, <2>2, <2>3, Unmoved DEF Calm, Still, workerVars
<1>4. \A s \in Sims : SimInv(s)'
  BY <1>3, CalmKeeps DEF FullInv, PInv
<1>5. /\ OwnRequests' /\ Throttled' /\ DrainsItsOwn'
      /\ \A d \in Clients, s \in Sims : Asking(d, s)' => d # c /\ Asking(d, s) /\ req'[d] = req[d]
  BY <1>1, RequestGoesOn DEF Idle
<1>6. AskersWait'
  BY <1>3, <1>5, AskersKeep
<1> QED
  BY <1>4, <1>5, <1>6 DEF PInv

LEMMA FinishRequestKeeps ==
    ASSUME FullInv, TypeOK', OneClientEach, NEW c \in Clients, FinishRequest(c), UNCHANGED workerVars
    PROVE  PInv'
<1>1. PICK s \in Sims :
        /\ rows[s] # NoRow
        /\ rows[s].owner = UserOf[c]
        /\ req' = [req EXCEPT ![c] = [pc |-> "abort", sim |-> s, finishedAt |-> now]]
  BY DEF FinishRequest
<1> DEFINE next == [pc |-> "abort", sim |-> s, finishedAt |-> now]
<1>2. next.pc = "abort" /\ next.sim = s /\ next.finishedAt = now
  OBVIOUS
<1>3. req' = [req EXCEPT ![c] = next]
  BY <1>1
<1> HIDE DEF next
<1>4. req'[c] = next /\ \A d \in Clients \ {c} : req'[d] = req[d]
  BY <1>3 DEF FullInv, TypeOK, OrchestratorTypeOK
<1>5. UNCHANGED <<now, rows, runQueue, abortQueue, feed, workerVars>> /\ now \in Nat
  BY DEF FinishRequest, serviceVars, FullInv, TypeOK, ServicesTypeOK
<1>6. ASSUME NEW x \in Sims PROVE Still(x)
  <2>1. RequestsCalm(x)
    BY <1>2, <1>4 DEF RequestsCalm, Writing
  <2> QED
    BY <1>5, <2>1, Unmoved DEF Still, workerVars
<1>7. ASSUME NEW x \in Sims, NEW t \in Nat, FinishAsked(x, t)'
      PROVE  FinishAsked(x, t) \/ (x = s /\ t = now)
  BY <1>2, <1>4, <1>5, <1>7 DEF FinishAsked, Handling, workerVars
<1>8. ASSUME NEW x \in Sims PROVE SimInv(x)'
  <2>1. Dated(x)
    BY DEF FullInv, PInv, SimInv
  <2>2. Dated(x)'
    <3>1. ASSUME NEW t \in Nat, FinishAsked(x, t)'
          PROVE  t \in rows'[x].startedAt .. now'
      <4>1. CASE FinishAsked(x, t)
        BY <1>5, <2>1, <4>1 DEF Dated
      <4>2. CASE x = s /\ t = now
        BY <1>1, <1>5, <2>1, <4>2 DEF Dated, FullInv, TypeOK, ServicesTypeOK, Aggregate
      <4> QED
        BY <1>7, <3>1, <4>1, <4>2
    <3> QED
      BY <1>5, <2>1, <3>1 DEF Dated
  <2> QED
    BY <1>6, <2>2, StillKeeps DEF FullInv, PInv
<1>9. /\ OwnRequests' /\ Throttled' /\ DrainsItsOwn'
      /\ \A d \in Clients, x \in Sims : Asking(d, x)' => d # c /\ Asking(d, x) /\ req'[d] = req[d]
  BY <1>1, <1>2, <1>3, <1>5, RequestGoesOn
<1>10. ASSUME NEW x \in Sims, NEW d \in Clients, Asking(d, x)'
       PROVE  AskInv(d, x)'
  <2>1. d # c /\ Asking(d, x) /\ req'[d] = req[d]
    BY <1>9, <1>10
  <2>2. x # s
    BY <1>1, <2>1, OneAsker, AskersAreTyped DEF Asking, FullInv
  <2>3. Calm(x)
    BY <1>6, <1>7, <2>2 DEF Calm, FinishesCalm
  <2>4. AskInv(d, x)
    BY <2>1 DEF FullInv, PInv, AskersWait
  <2> QED
    BY <2>1, <2>3, <2>4, AskersAreTyped, AskerStays DEF FullInv
<1> QED
  BY <1>8, <1>9, <1>10 DEF PInv, AskersWait

(* Nobody acts on a simulation that waits to be ignited. *)
LEMMA NobodyYet ==
    ASSUME FullInv, NEW c \in Clients, NEW s \in Sims, Asking(c, s)
    PROVE  /\ NoWriter(s) /\ ~Waiting(s) /\ NoTaker(s) /\ NoDriver(s)
           /\ \A w \in Workers : ~(Handling(w, s) /\ abortHandler[w].pc \in {"find", "save", "publish"})
           /\ NoFinish(s)
<1> USE DEF FullInv
<1>1. AskInv(c, s) /\ Igniting(c) /\ req[c].sim = s
  BY AskersAreTyped DEF PInv, AskersWait, Asking
<1>2. CASE rows[s] = NoRow
  <2>1. NoWriter(s)
    BY <1>2 DEF NoWriter, Writing, RowsInv, RequestsHaveRows
  <2>2. ~Waiting(s)
    BY <1>2 DEF Waiting, RowsInv, RunQueueHasRows
  <2>3. NoTaker(s)
    BY <1>2, WorkerAssumption DEF NoTaker, RowsInv, RunHandlersHaveRows
  <2>4. NoDriver(s)
    BY <1>2 DEF NoDriver, Driving, RowsInv, RunsHaveRows
  <2>5. \A w \in Workers : ~Handling(w, s)
    BY <1>2 DEF Handling, RowsInv, AbortHandlersHaveRows
  <2>6. NoFinish(s)
    BY <1>2, <2>5 DEF NoFinish, FinishAsked, RowsInv, RequestsHaveRows, AbortQueueHasRows
  <2> QED
    BY <2>1, <2>2, <2>3, <2>4, <2>5, <2>6
<1>3. CASE rows[s] # NoRow
  <2>1. Restartable(s) /\ SimInv(s)
    BY <1>1, <1>3 DEF AskInv, MayIgnite, PInv
  <2>2. rows[s].state # "RUNNING" /\ NoFinish(s) /\ NoDriver(s)
    BY <2>1 DEF Restartable
  <2>3. NoWriter(s) /\ ~Waiting(s) /\ NoTaker(s)
    BY <2>1, <2>2 DEF SimInv, NoWriter, NoTaker, WriteInv, Ready
  <2>4. \A w \in Workers : ~Handling(w, s)
    <3> SUFFICES ASSUME NEW w \in Workers, Handling(w, s) PROVE FALSE
      OBVIOUS
    <3>1. abortHandler[w].finishedAt \in Nat
      BY HandlerShape DEF Handling, TypeOK, WorkerTypeOK
    <3> QED
      BY <2>2, <3>1 DEF NoFinish, FinishAsked
  <2> QED
    BY <2>2, <2>3, <2>4
<1> QED
  BY <1>2, <1>3

(* save: from here on the simulation is RUNNING, and the request alone     *)
(* acts on it.                                                             *)
LEMMA SaveIgnitionKeeps ==
    ASSUME FullInv, TypeOK', OneClientEach, NEW c \in Clients, SaveIgnition(c), UNCHANGED workerVars
    PROVE  PInv'
<1>0. /\ req[c] \in Ignition /\ Igniting(c) /\ req[c].pc = "save"
      /\ req[c].sim \in Sims /\ req[c].copy \in Aggregate
  BY RequestShape DEF SaveIgnition, Igniting, FullInv, TypeOK, Ignition
<1> PICK s \in Sims, copy \in Aggregate : s = req[c].sim /\ copy = req[c].copy
  BY <1>0
<1>1. req[c] \in Ignition /\ Igniting(c) /\ req[c].pc = "save" /\ Asking(c, s)
  BY <1>0 DEF Asking
<1> DEFINE next == [req[c] EXCEPT !.pc = "publish"]
<1>2. next.pc = "publish" /\ next.sim = s /\ next.copy = copy
  BY <1>1 DEF Ignition
<1>3. req' = [req EXCEPT ![c] = next]
  BY DEF SaveIgnition, Goto
<1>4. /\ rows'[s] = copy /\ \A x \in Sims \ {s} : rows'[x] = rows[x]
      /\ rows[s] # NoRow => rows[s].owner = copy.owner
  BY <1>1, SaveKeepsIdentity DEF SaveIgnition, Save, FullInv, IdInv, RequestsKnow, SameIdentity,
     TypeOK, ServicesTypeOK
<1>5. AskInv(c, s) /\ copy.owner = UserOf[c]
  BY <1>1 DEF FullInv, PInv, AskersWait, OwnRequests
<1> HIDE DEF next
<1>6. req'[c] = next /\ \A d \in Clients \ {c} : req'[d] = req[d]
  BY <1>3 DEF FullInv, TypeOK, OrchestratorTypeOK
<1>7. UNCHANGED <<now, runQueue, abortQueue, feed, workerVars>> /\ now \in Nat
  BY DEF SaveIgnition, FullInv, TypeOK, ServicesTypeOK
<1>8. \A x \in Sims : FinishesCalm(x)
  BY <1>2, <1>6, <1>7 DEF FinishesCalm, FinishAsked, Handling, workerVars
<1>9. ASSUME NEW x \in Sims \ {s} PROVE Calm(x)
  <2>1. RequestsCalm(x)
    BY <1>2, <1>6, <1>9 DEF RequestsCalm, Writing
  <2> QED
    BY <1>4, <1>7, <1>8, <2>1, Unmoved DEF Calm, Still, RowCalm, workerVars
<1>10. /\ NoWriter(s) /\ ~Waiting(s) /\ NoTaker(s) /\ NoDriver(s) /\ NoFinish(s)
       /\ \A w \in Workers : ~(Handling(w, s) /\ abortHandler[w].pc \in {"find", "save", "publish"})
  BY <1>1, NobodyYet
<1>11. SimInv(s)'
  <2>1. \A d \in Clients \ {c} : ~Writing(d, s)'
    BY <1>6, <1>10 DEF NoWriter, Writing
  <2>2. WriteInv(c, s)'
    BY <1>2, <1>4, <1>5, <1>6 DEF WriteInv, AskInv, MayIgnite
  <2>3. ~Waiting(s)' /\ NoTaker(s)' /\ NoDriver(s)'
    BY <1>7, <1>10 DEF Waiting, NoTaker, NoDriver, Driving, Live, workerVars
  <2>4. NoEnder(s)'
    BY <1>7, <1>10 DEF NoEnder, Ending, Handling, Resting, workerVars
  <2>5. Dated(s)'
    <3>1. \A t \in Nat : ~FinishAsked(s, t)'
      BY <1>8, <1>10, <1>1 DEF FinishesCalm, NoFinish
    <3> QED
      BY <1>4, <1>5, <1>7, <3>1 DEF Dated, AskInv, MayIgnite
  <2> QED
    BY <1>1, <2>1, <2>2, <2>3, <2>4, <2>5, OnlyWriter
<1>12. \A x \in Sims : SimInv(x)'
  BY <1>9, <1>11, CalmKeeps DEF FullInv, PInv
<1>13. ASSUME NEW d \in Clients \ {c}, Igniting(d), req[d].copy.owner = copy.owner
       PROVE  FALSE
  <2>1. req[d].copy.owner = UserOf[d]
    BY <1>13 DEF FullInv, PInv, OwnRequests
  <2> QED
    BY <1>5, <1>13, <2>1 DEF OneClientEach
<1>14. OwnRequests'
  <2>1. ASSUME NEW d \in Clients, req'[d].pc = "abort"
        PROVE  rows'[req'[d].sim].owner = UserOf[d]
    <3>1. d # c /\ req'[d] = req[d] /\ rows[req[d].sim].owner = UserOf[d]
      BY <1>2, <1>6, <2>1 DEF FullInv, PInv, OwnRequests
    <3>2. rows[req[d].sim] # NoRow /\ req[d].sim \in Sims
      BY <2>1, <3>1, RequestShape DEF FullInv, RowsInv, RequestsHaveRows, TypeOK, Abortion
    <3> QED
      BY <1>4, <3>1, <3>2
  <2> QED
    BY <1>2, <1>5, <1>6, <2>1 DEF OwnRequests, Igniting, FullInv, PInv
<1>15. Throttled'
  <2> SUFFICES ASSUME NEW d \in Clients, req'[d].pc = "save", NEW x \in Sims,
                      rows'[x] # NoRow, rows'[x].owner = UserOf[d]
               PROVE  req'[d].copy.startedAt - rows'[x].startedAt >= Cooldown
    BY DEF Throttled
  <2>1. d # c /\ req'[d] = req[d] /\ Igniting(d)
    BY <1>2, <1>6 DEF Igniting
  <2>2. x # s
    BY <1>4, <1>13, <2>1 DEF FullInv, PInv, OwnRequests
  <2> QED
    BY <1>4, <2>1, <2>2 DEF FullInv, PInv, Throttled
<1>16. ASSUME NEW x \in Sims, NEW d \in Clients, Asking(d, x)'
       PROVE  AskInv(d, x)'
  <2>1. d # c /\ req'[d] = req[d] /\ Asking(d, x) /\ Igniting(d) /\ req[d].sim = x
    BY <1>2, <1>6, <1>16 DEF Asking, Igniting
  <2>2. x # s
    <3> SUFFICES ASSUME x = s PROVE FALSE
      OBVIOUS
    <3>1. rows[s] # NoRow
      BY <1>1, <2>1 DEF FullInv, IdInv, IdsAreFresh
    <3> QED
      BY <1>1, <1>4, <1>5, <2>1, <3>1, OneAsker
  <2>3. AskInv(d, x)
    BY <2>1 DEF FullInv, PInv, AskersWait
  <2> QED
    BY <1>9, <2>1, <2>2, <2>3, AskersAreTyped, AskerStays DEF FullInv
<1>17. DrainsItsOwn'
  BY <1>7 DEF FullInv, PInv, DrainsItsOwn, workerVars
<1> QED
  BY <1>12, <1>14, <1>15, <1>16, <1>17 DEF PInv, AskersWait

(* The last word of a room. *)
LEMMA PublishRead ==
    ASSUME ServicesTypeOK, NEW s \in Sims, NEW event \in Event, Publish(s, event)
    PROVE  /\ feed'[s] = Forward(feed[s], event)
           /\ feed'[s] # << >>
           /\ Len(feed'[s]) = IF event \in Ignitions THEN 1 ELSE Len(feed[s]) + 1
           /\ feed'[s][Len(feed'[s])] = event
           /\ Untold(s)' <=> event.type # "SimulationFinished"
           /\ \A x \in Sims \ {s} : feed'[x] = feed[x]
<1> DEFINE told == Forward(feed[s], event)
<1>1. feed[s] \in Seq(Event)
  BY DEF ServicesTypeOK
<1>2. /\ told # << >> /\ told[Len(told)] = event
      /\ Len(told) = IF event \in Ignitions THEN 1 ELSE Len(feed[s]) + 1
  <2>1. CASE event \in Ignitions
    BY <2>1 DEF Forward
  <2>2. CASE event \notin Ignitions
    <3>1. told = Append(feed[s], event)
      BY <2>2 DEF Forward
    <3> QED
      BY <1>1, <2>2, <3>1
  <2> QED
    BY <2>1, <2>2
<1> HIDE DEF told
<1>3. feed'[s] = told /\ told = Forward(feed[s], event) /\ \A x \in Sims \ {s} : feed'[x] = feed[x]
  BY DEF Publish, ServicesTypeOK, told
<1> QED
  BY <1>2, <1>3 DEF Untold, SeenFinished

LEMMA WordsOfRun ==
    ASSUME NEW sim \in Aggregate, NEW reason
    PROVE  /\ GoalScored(sim).type = "GoalScored"
           /\ SimulationFinished(reason, sim).type = "SimulationFinished"
           /\ \A event \in Ignitions :
                event.type # "SimulationFinished" /\ event.type # "GoalScored"
BY DEF GoalScored, SimulationFinished, Ignitions, SimulationStarted, SimulationRestarted

(* publish: the room of the simulation opens anew. *)
LEMMA PublishIgnitionKeeps ==
    ASSUME FullInv, TypeOK', NEW c \in Clients, PublishIgnition(c), UNCHANGED workerVars
    PROVE  PInv'
<1>0. /\ req[c] \in Ignition /\ Igniting(c) /\ req[c].pc = "publish"
      /\ req[c].sim \in Sims
  BY RequestShape DEF PublishIgnition, Igniting, FullInv, TypeOK, Ignition
<1> PICK s \in Sims : s = req[c].sim
  BY <1>0
<1> DEFINE next == [req[c] EXCEPT !.pc = "dispatch"]
<1>1. next.pc = "dispatch" /\ next.sim = s /\ next.copy = req[c].copy
  BY <1>0 DEF Ignition
<1>2. req' = [req EXCEPT ![c] = next]
  BY DEF PublishIgnition, Goto
<1>3. Writing(c, s)
  BY <1>0 DEF Writing
<1>4. WriteInv(c, s) /\ SimInv(s) /\ req[c].copy.owner = UserOf[c]
  BY <1>0, <1>3 DEF FullInv, PInv, SimInv, OwnRequests
<1> HIDE DEF next
<1>5. req'[c] = next /\ \A d \in Clients \ {c} : req'[d] = req[d]
  BY <1>2 DEF FullInv, TypeOK, OrchestratorTypeOK
<1>6. UNCHANGED <<now, rows, runQueue, abortQueue, workerVars>> /\ now \in Nat
  BY DEF PublishIgnition, FullInv, TypeOK, ServicesTypeOK
<1>7. Untold(s)' /\ Heard(s, 1)' /\ \A x \in Sims \ {s} : feed'[x] = feed[x]
  BY <1>0, WordsOfRun, PublishRead, IgnitionEvents
  DEF Heard, PublishIgnition, FullInv, TypeOK, Ignition, Ignitions, SimulationStarted, SimulationRestarted
<1>8. \A x \in Sims : FinishesCalm(x)
  BY <1>1, <1>5, <1>6 DEF FinishesCalm, FinishAsked, Handling, workerVars
<1>9. ASSUME NEW x \in Sims \ {s} PROVE Calm(x)
  <2>1. RequestsCalm(x)
    BY <1>1, <1>5, <1>9 DEF RequestsCalm, Writing
  <2> QED
    BY <1>6, <1>7, <1>8, <2>1, Unmoved DEF Calm, Still, RowCalm, workerVars
<1>10. SimInv(s)'
  <2>1. /\ \A d \in Clients \ {c} : ~Writing(d, s)
        /\ ~Waiting(s) /\ NoTaker(s) /\ NoDriver(s) /\ NoEnder(s)
    BY <1>3, <1>4, WriterAlone
  <2>2. \A d \in Clients \ {c} : ~Writing(d, s)'
    BY <1>5, <2>1 DEF Writing
  <2>3. WriteInv(c, s)'
    BY <1>1, <1>4, <1>5, <1>6, <1>7 DEF WriteInv
  <2>4. ~Waiting(s)' /\ NoTaker(s)' /\ NoDriver(s)' /\ NoEnder(s)'
    BY <1>6, <2>1 DEF Waiting, NoTaker, NoDriver, Driving, Live, NoEnder, Ending, workerVars
  <2>5. Dated(s)'
    BY <1>4, <1>6, <1>8, StillDated DEF SimInv, FullInv
  <2> QED
    BY <2>2, <2>3, <2>4, <2>5, OnlyWriter
<1>11. \A x \in Sims : SimInv(x)'
  BY <1>9, <1>10, CalmKeeps DEF FullInv, PInv
<1>12. /\ OwnRequests' /\ Throttled' /\ DrainsItsOwn'
       /\ \A d \in Clients, x \in Sims : Asking(d, x)' => d # c /\ Asking(d, x) /\ req'[d] = req[d]
  BY <1>1, <1>2, <1>4, <1>6, RequestGoesOn
<1>13. rows[s] # NoRow /\ ~Restartable(s)
  BY <1>0, <1>4 DEF WriteInv, Restartable, FullInv, RowsInv, RequestsHaveRows
<1>14. AskersWait'
  BY <1>9, <1>12, <1>13, AskersKeep
<1> QED
  BY <1>11, <1>12, <1>14 DEF PInv

(* dispatch: the RUN command is on its way. *)
LEMMA DispatchIgnitionKeeps ==
    ASSUME FullInv, TypeOK', NEW c \in Clients, DispatchIgnition(c), UNCHANGED workerVars
    PROVE  PInv'
<1>0. /\ req[c] \in Ignition /\ Igniting(c) /\ req[c].pc = "dispatch"
      /\ req[c].sim \in Sims /\ req[c].copy.profile \in Profiles
  BY RequestShape DEF DispatchIgnition, Igniting, FullInv, TypeOK, Ignition, Aggregate
<1> PICK s \in Sims, p \in Profiles, q \in Seq(Sims) :
      s = req[c].sim /\ p = req[c].copy.profile /\ q = runQueue[p]
  BY <1>0 DEF FullInv, TypeOK, ServicesTypeOK
<1>1. req' = [req EXCEPT ![c] = Idle] /\ Writing(c, s)
  BY <1>0 DEF DispatchIgnition, Writing
<1>2. WriteInv(c, s) /\ SimInv(s)
  BY <1>1 DEF FullInv, PInv, SimInv
<1>3. req'[c] = Idle /\ \A d \in Clients \ {c} : req'[d] = req[d]
  BY <1>1 DEF FullInv, TypeOK, OrchestratorTypeOK
<1>4. UNCHANGED <<now, rows, abortQueue, feed, workerVars>> /\ now \in Nat
  BY DEF DispatchIgnition, FullInv, TypeOK, ServicesTypeOK
<1>5. runQueue' = [runQueue EXCEPT ![p] = IF TRUE THEN Append(q, s) ELSE <<s>> \o q]
  BY DEF DispatchIgnition, DispatchRun
<1>6. /\ \A x \in Sims \ {s} : QueueCalm(x)
      /\ ~Waiting(s) => Once(s)'
  BY <1>5, Joins DEF FullInv
<1>7. \A x \in Sims : FinishesCalm(x) /\ RequestsCalm(x)
  BY <1>3, <1>4 DEF FinishesCalm, FinishAsked, Handling, Idle, RequestsCalm, Writing, workerVars
<1>8. ASSUME NEW x \in Sims \ {s} PROVE Calm(x)
  BY <1>4, <1>6, <1>7, Unmoved DEF Calm, Still, workerVars
<1>9. SimInv(s)'
  <2>1. /\ \A d \in Clients \ {c} : ~Writing(d, s)
        /\ ~Waiting(s) /\ NoTaker(s) /\ NoDriver(s) /\ NoEnder(s)
    BY <1>1, <1>2, WriterAlone
  <2>2. NoWriter(s)'
    BY <1>3, <2>1 DEF NoWriter, Writing, Idle
  <2>3. NoTaker(s)' /\ NoDriver(s)' /\ NoEnder(s)'
    BY <1>4, <2>1 DEF NoTaker, NoDriver, Driving, Live, NoEnder, Ending, workerVars
  <2>4. Ready(s)'
    BY <1>0, <1>2, <1>4 DEF WriteInv, Ready, Untold, SeenFinished, Heard
  <2>5. Dated(s)'
    BY <1>2, <1>4, <1>7, StillDated DEF SimInv, FullInv
  <2> QED
    BY <1>6, <2>1, <2>2, <2>3, <2>4, <2>5, OnlyCommand
<1>10. \A x \in Sims : SimInv(x)'
  BY <1>8, <1>9, CalmKeeps DEF FullInv, PInv
<1>11. /\ OwnRequests' /\ Throttled' /\ DrainsItsOwn'
       /\ \A d \in Clients, x \in Sims : Asking(d, x)' => d # c /\ Asking(d, x) /\ req'[d] = req[d]
  BY <1>1, <1>4, RequestGoesOn DEF Idle
<1>12. rows[s] # NoRow /\ ~Restartable(s)
  BY <1>0, <1>2 DEF WriteInv, Restartable, FullInv, RowsInv, RequestsHaveRows
<1>13. AskersWait'
  BY <1>8, <1>11, <1>12, AskersKeep
<1> QED
  BY <1>10, <1>11, <1>13 DEF PInv

LEMMA RequestsKeepDrivers ==
    ASSUME FullInv, TypeOK', Patient, OneClientEach, OrchestratorNext
    PROVE  PInv'
BY StartKeeps, RestartKeeps, EnsureKeeps, RequestFailureKeeps, DispatchFinishKeeps,
   FinishRequestKeeps, SaveIgnitionKeeps, PublishIgnitionKeeps, DispatchIgnitionKeeps
DEF OrchestratorNext, Serve

-----------------------------------------------------------------------------
(* The workers. *)

(* Whoever acts on s, it has a row and cannot be ignited. *)
LEMMA ActedOn ==
    ASSUME FullInv, NEW s \in Sims,
           \/ Waiting(s)
           \/ \E w \in Workers : runHandler[w] = s
           \/ \E r \in Runs : Driving(r, s)
           \/ \E w \in Workers : Ending(w, s)
    PROVE  rows[s] # NoRow /\ ~Restartable(s) /\ SimInv(s)
<1> USE DEF FullInv
<1>1. SimInv(s)
  BY DEF PInv
<1>2. CASE Waiting(s) \/ \E w \in Workers : runHandler[w] = s
  <2>1. rows[s] # NoRow
    BY <1>2, WorkerAssumption DEF Waiting, RowsInv, RunQueueHasRows, RunHandlersHaveRows
  <2> QED
    BY <1>1, <1>2, <2>1 DEF SimInv, Ready, Restartable
<1>3. CASE \E r \in Runs : Driving(r, s)
  BY <1>1, <1>3 DEF Driving, RowsInv, RunsHaveRows, Restartable, NoDriver
<1>4. ASSUME NEW w \in Workers, Ending(w, s)
      PROVE  rows[s] # NoRow /\ ~Restartable(s)
  <2>1. Handling(w, s)
    BY <1>4 DEF Ending, Handling, Resting
  <2>2. abortHandler[w].finishedAt \in Nat
    BY <2>1, HandlerShape DEF Handling, TypeOK, WorkerTypeOK
  <2>3. ~NoFinish(s)
    BY <2>1, <2>2 DEF NoFinish, FinishAsked
  <2>4. rows[s] # NoRow
    BY <2>1 DEF Handling, RowsInv, AbortHandlersHaveRows
  <2> QED
    BY <2>3, <2>4 DEF Restartable
<1> QED
  BY <1>1, <1>2, <1>3, <1>4

(* A step of somebody who acts on s. *)
Handled(s) ==
    /\ rows[s] # NoRow
    /\ ~Restartable(s)
    /\ rows'[s].startedAt = rows[s].startedAt
    /\ SimInv(s)'

LEMMA WorkerConcludes ==
    ASSUME FullInv, TypeOK', UNCHANGED req, IdentityStays, NoNewRow,
           \A s \in Sims : Calm(s) \/ Handled(s), DrainsItsOwn'
    PROVE  PInv'
<1> USE DEF FullInv
<1>1. \A s \in Sims : SimInv(s)'
  BY CalmKeeps DEF PInv, Handled
<1>2. OwnRequests'
  <2>1. ASSUME NEW c \in Clients, req[c].pc = "abort"
        PROVE  rows'[req[c].sim].owner = UserOf[c]
    <3>1. req[c].sim \in Sims /\ rows[req[c].sim] # NoRow
      BY <2>1, RequestShape DEF TypeOK, Abortion, RowsInv, RequestsHaveRows
    <3> QED
      BY <2>1, <3>1 DEF PInv, OwnRequests, IdentityStays, Stays
  <2> QED
    BY <2>1 DEF PInv, OwnRequests, Igniting
<1>3. Throttled'
  <2> SUFFICES ASSUME NEW c \in Clients, req[c].pc = "save", NEW t \in Sims,
                      rows'[t] # NoRow, rows'[t].owner = UserOf[c]
               PROVE  req[c].copy.startedAt - rows'[t].startedAt >= Cooldown
    BY DEF Throttled
  <2>1. rows[t] # NoRow /\ rows[t].owner = UserOf[c]
    BY DEF NoNewRow, IdentityStays, Stays
  <2>2. rows'[t].startedAt = rows[t].startedAt
    BY DEF Calm, Still, RowCalm, Handled
  <2> QED
    BY <2>1, <2>2 DEF PInv, Throttled
<1>4. AskersWait'
  BY AskersKeep DEF Asking, Handled
<1> QED
  BY <1>1, <1>2, <1>3, <1>4 DEF PInv

(* Handlers go on waiting for the runs they waited for. *)
LEMMA DrainsKeep ==
    ASSUME FullInv, MapInv',
           \A w \in Workers : abortHandler'[w].pc = "draining" => abortHandler'[w] = abortHandler[w],
           \A r \in Runs : Live(r)' /\ Live(r) => runs'[r].sim = runs[r].sim
    PROVE  DrainsItsOwn'
<1> SUFFICES ASSUME NEW w \in Workers, abortHandler'[w].pc = "draining"
             PROVE  runs'[abortHandler'[w].run].sim = abortHandler'[w].sim
  BY DEF DrainsItsOwn
<1>1. abortHandler'[w] = abortHandler[w]
  OBVIOUS
<1>2. abortHandler[w].run \in Runs
  BY <1>1, HandlerShape DEF FullInv, TypeOK, WorkerTypeOK, Draining
<1>3. Live(abortHandler[w].run) /\ Live(abortHandler[w].run)'
  BY <1>1 DEF FullInv, MapInv, DrainIsPrompt
<1> QED
  BY <1>1, <1>2, <1>3 DEF FullInv, PInv, DrainsItsOwn

(* Steps that change neither the handlers of ABORT nor the runs, nor what  *)
(* anybody wants of a simulation.                                          *)
LEMMA CalmWorker ==
    ASSUME FullInv, TypeOK', MapInv', UNCHANGED <<req, now, rows, feed>>,
           \A s \in Sims : QueueCalm(s) /\ TakersCalm(s) /\ RunsCalm(s) /\ EndersCalm(s)
                           /\ FinishesCalm(s),
           \A w \in Workers : abortHandler'[w].pc = "draining" => abortHandler'[w] = abortHandler[w],
           \A r \in Runs : Live(r)' /\ Live(r) => runs'[r].sim = runs[r].sim
    PROVE  PInv'
<1>1. now \in Nat
  BY DEF FullInv, TypeOK, ServicesTypeOK
<1>2. \A s \in Sims : Calm(s)
  BY <1>1, Unmoved DEF Calm, Still
<1> QED
  BY <1>2, DrainsKeep, WorkerConcludes, SameRows

LEMMA TakeRunKeeps ==
    ASSUME FullInv, TypeOK', MapInv', NEW w \in Workers, TakeRun(w), UNCHANGED req
    PROVE  PInv'
<1> PICK p \in Profiles, q \in Seq(Sims) : p = ProfileOf[w] /\ q = runQueue[p]
  BY WorkerAssumption DEF FullInv, TypeOK, ServicesTypeOK
<1> PICK x : x = Head(q)
  OBVIOUS
<1>1. /\ q # << >>
      /\ runQueue' = [runQueue EXCEPT ![p] = Tail(q)]
      /\ runHandler' = [runHandler EXCEPT ![w] = x]
      /\ UNCHANGED <<now, rows, abortQueue, feed, abortHandler, runs>>
  BY DEF TakeRun
<1>2. /\ x \in Sims
      /\ Waiting(x)
      /\ Once(x) => ~Waiting(x)'
      /\ \A s \in Sims : QueueCalm(s)
  BY <1>1, Leaves DEF FullInv
<1>3. runHandler'[w] = x /\ \A v \in Workers \ {w} : runHandler'[v] = runHandler[v]
  BY <1>1 DEF FullInv, TypeOK, WorkerTypeOK
<1>4. ASSUME NEW s \in Sims PROVE FinishesCalm(s)
  BY <1>1, Unmoved
<1>5. now \in Nat
  BY DEF FullInv, TypeOK, ServicesTypeOK
<1>6. ASSUME NEW s \in Sims \ {x} PROVE Calm(s)
  <2>1. TakersCalm(s)
    BY <1>3, <1>6 DEF TakersCalm
  <2> QED
    BY <1>1, <1>2, <1>4, <1>5, <2>1, Unmoved DEF Calm, Still
<1>7. rows[x] # NoRow /\ ~Restartable(x) /\ SimInv(x)
  BY <1>2, ActedOn
<1>8. NoWriter(x) /\ NoTaker(x) /\ NoDriver(x) /\ NoEnder(x) /\ Once(x) /\ Ready(x)
  BY <1>2, <1>7, CommandAlone DEF SimInv
<1>9. SimInv(x)'
  <2>1. NoWriter(x)' /\ NoDriver(x)' /\ NoEnder(x)'
    BY <1>1, <1>8 DEF NoWriter, Writing, NoDriver, Driving, Live, NoEnder, Ending
  <2>2. \A v \in Workers \ {w} : runHandler'[v] # x
    BY <1>3, <1>8 DEF NoTaker
  <2>3. Ready(x)'
    BY <1>1, <1>8 DEF Ready, Untold, SeenFinished, Heard
  <2>4. Dated(x)'
    BY <1>1, <1>2, <1>4, <1>5, <1>7, StillDated DEF SimInv, FullInv
  <2> QED
    BY <1>2, <1>8, <2>1, <2>2, <2>3, <2>4, OnlyTaker
<1>10. DrainsItsOwn'
  BY <1>1 DEF FullInv, PInv, DrainsItsOwn
<1>11. \A s \in Sims : Calm(s) \/ Handled(s)
  BY <1>1, <1>6, <1>7, <1>9 DEF Handled
<1> QED
  BY <1>1, <1>10, <1>11, WorkerConcludes, SameRows

(* A run begins. *)
LEMMA LaunchKeeps ==
    ASSUME FullInv, TypeOK', MapInv', NEW w \in Workers, NEW s \in Sims, runHandler[w] = s,
           NEW r \in Runs, ~Live(r), NEW pc, NEW copy, Launch(w, s, r, NewRun(w, s, pc, copy)),
           \/ pc = "sleep" /\ copy = rows[s] /\ MoreGoals(w, 0)
           \/ pc = "save" /\ copy = Finish(rows[s], now) /\ NoMoreGoals(w, 0),
           UNCHANGED req
    PROVE  PInv'
<1> PICK run : run = NewRun(w, s, pc, copy)
  OBVIOUS
<1>1. /\ run.pc = pc /\ run.worker = w /\ run.sim = s /\ run.copy = copy /\ run.tick = 0
      /\ run # Free
  BY DEF NewRun, Free
<1>2. /\ runs' = [runs EXCEPT ![r] = run]
      /\ runHandler' = [runHandler EXCEPT ![w] = NoSim]
      /\ UNCHANGED <<now, rows, runQueue, abortQueue, feed, abortHandler>>
  BY DEF Launch
<1>3. runs'[r] = run /\ \A q \in Runs \ {r} : runs'[q] = runs[q]
  BY <1>2 DEF FullInv, TypeOK, WorkerTypeOK
<1>4. runHandler'[w] = NoSim /\ \A v \in Workers \ {w} : runHandler'[v] = runHandler[v]
  BY <1>2 DEF FullInv, TypeOK, WorkerTypeOK
<1>5. now \in Nat
  BY DEF FullInv, TypeOK, ServicesTypeOK
<1>6. \A x \in Sims : FinishesCalm(x)
  BY <1>2, Unmoved
<1>7. ASSUME NEW x \in Sims \ {s} PROVE Calm(x)
  <2>1. TakersCalm(x)
    BY <1>4, <1>7, WorkerAssumption DEF TakersCalm
  <2>2. RunsCalm(x)
    BY <1>1, <1>3, <1>7 DEF RunsCalm, Driving, Live, SameRun
  <2> QED
    BY <1>2, <1>5, <1>6, <2>1, <2>2, Unmoved DEF Calm, Still
<1>8. rows[s] # NoRow /\ ~Restartable(s) /\ SimInv(s)
  BY ActedOn
<1>9. /\ NoWriter(s) /\ ~Waiting(s) /\ NoDriver(s) /\ NoEnder(s)
      /\ \A v \in Workers \ {w} : runHandler[v] # s
      /\ Ready(s) /\ Dated(s)
  BY <1>8, TakerAlone DEF SimInv
<1>10. DriveInv(r, s)'
  <2>1. rows[s].state = "RUNNING" /\ rows[s].totalGoals = 0 /\ Untold(s)' /\ Heard(s, 1)'
    BY <1>2, <1>9 DEF Ready, Untold, SeenFinished, Heard
  <2>0. Heard(s, rows[s].totalGoals + 1 - Pending(runs[r]))'
    <3>1. Pending(runs[r])' = 0
      BY <1>1, <1>3 DEF Pending
    <3>2. rows'[s].totalGoals + 1 - Pending(runs[r])' = 1
      BY <1>2, <2>1, <3>1
    <3> QED
      BY <2>1, <3>2
  <2>2. rows[s] \in Aggregate
    BY <1>8 DEF FullInv, TypeOK, ServicesTypeOK
  <2>3. Finish(rows[s], now).totalGoals = 0
    BY <2>1, <2>2 DEF Finish, Aggregate
  <2>4. now \in rows[s].startedAt .. now
    BY <1>5, <1>8, <1>9, <2>2 DEF Dated, Aggregate
  <2>5. CASE pc = "sleep"
    BY <1>1, <1>2, <1>3, <2>0, <2>1, <2>5, WorkerAssumption DEF DriveInv, MoreGoals
  <2>6. CASE pc = "save"
    <3>1. copy = Finish(rows[s], now) /\ NoMoreGoals(w, 0)
      BY <2>6
    <3>2. Progress(runs[r], s)'
      BY <1>1, <1>2, <1>3, <2>4, <3>1 DEF Progress
    <3> QED
      BY <1>1, <1>2, <1>3, <2>0, <2>1, <2>3, <2>6, <3>1, <3>2, WorkerAssumption DEF DriveInv
  <2> QED
    BY <2>5, <2>6
<1>11. SimInv(s)'
  <2>1. NoWriter(s)' /\ ~Waiting(s)' /\ NoEnder(s)'
    BY <1>2, <1>9 DEF NoWriter, Writing, Waiting, NoEnder, Ending
  <2>2. NoTaker(s)'
    BY <1>4, <1>9, WorkerAssumption DEF NoTaker
  <2>3. \A q \in Runs \ {r} : ~Driving(q, s)'
    BY <1>3, <1>9 DEF NoDriver, Driving, Live
  <2>4. Dated(s)'
    BY <1>2, <1>5, <1>6, <1>9, StillDated DEF FullInv
  <2> QED
    BY <1>10, <2>1, <2>2, <2>3, <2>4, OnlyDriver
<1>12. DrainsItsOwn'
  BY <1>2, <1>3, DrainsKeep DEF Live
<1>13. \A x \in Sims : Calm(x) \/ Handled(x)
  BY <1>2, <1>7, <1>8, <1>11 DEF Handled
<1> QED
  BY <1>2, <1>12, <1>13, WorkerConcludes, SameRows

LEMMA HandleRunKeeps ==
    ASSUME FullInv, TypeOK', MapInv', NEW w \in Workers, HandleRun(w), UNCHANGED req
    PROVE  PInv'
<1> PICK s \in Sims : s = runHandler[w]
  BY DEF HandleRun, BeginRun, BeginEmptyRun, BeginThrows, FullInv, TypeOK, WorkerTypeOK
<1>1. rows[s] # NoRow /\ SimInv(s)
  BY ActedOn
<1>2. CASE BeginRun(w)
  BY <1>1, <1>2, LaunchKeeps DEF BeginRun
<1>3. CASE BeginEmptyRun(w)
  BY <1>3, LaunchKeeps DEF BeginEmptyRun
<1>4. ~BeginThrows(w)
  BY <1>1 DEF BeginThrows, SimInv, Ready
<1> QED
  BY <1>2, <1>3, <1>4 DEF HandleRun

LEMMA TakenFinish ==
    ASSUME TypeOK, NEW w \in Workers, NEW h, abortQueue # << >>, abortQueue' = Tail(abortQueue),
           abortHandler' = [abortHandler EXCEPT ![w] = h],
           h = Resting \/ (h.sim = Head(abortQueue).sim /\ h.finishedAt = Head(abortQueue).finishedAt),
           UNCHANGED req, NEW s \in Sims
    PROVE  FinishesCalm(s)
<1>1. abortQueue \in Seq(AbortCommand)
  BY DEF TypeOK, ServicesTypeOK
<1>2. /\ \E j \in DOMAIN abortQueue : abortQueue[j] = Head(abortQueue)
      /\ \A i \in DOMAIN Tail(abortQueue) :
           \E j \in DOMAIN abortQueue : Tail(abortQueue)[i] = abortQueue[j]
  BY <1>1, AbortLeaves
<1>3. abortHandler'[w] = h /\ \A v \in Workers \ {w} : abortHandler'[v] = abortHandler[v]
  BY DEF TypeOK, WorkerTypeOK
<1>4. ASSUME NEW t \in Nat, FinishAsked(s, t)'
      PROVE  FinishAsked(s, t)
  <2>1. CASE \E c \in Clients : req'[c].pc = "abort" /\ req'[c].sim = s /\ req'[c].finishedAt = t
    BY <2>1 DEF FinishAsked
  <2>2. CASE \E i \in DOMAIN abortQueue' : abortQueue'[i].sim = s /\ abortQueue'[i].finishedAt = t
    BY <1>2, <2>2 DEF FinishAsked
  <2>3. CASE Handling(w, s)' /\ abortHandler'[w].finishedAt = t
    <3>1. h # Resting /\ h.sim = s /\ h.finishedAt = t
      BY <1>3, <2>3 DEF Handling
    <3>2. Head(abortQueue).sim = s /\ Head(abortQueue).finishedAt = t
      BY <3>1
    <3> QED
      BY <1>2, <3>2 DEF FinishAsked
  <2>4. CASE \E v \in Workers \ {w} : Handling(v, s)' /\ abortHandler'[v].finishedAt = t
    BY <1>3, <2>4 DEF FinishAsked, Handling
  <2> QED
    BY <1>4, <2>1, <2>2, <2>3, <2>4 DEF FinishAsked
<1> QED
  BY <1>4 DEF FinishesCalm

LEMMA DropAbortKeeps ==
    ASSUME FullInv, TypeOK', MapInv', NEW w \in Workers, DropAbort(w), UNCHANGED req
    PROVE  PInv'
<1>1. /\ UNCHANGED <<now, rows, runQueue, feed, workerVars>>
      /\ abortQueue # << >> /\ abortQueue' = Tail(abortQueue)
  BY DEF DropAbort, CanTakeAbort
<1>2. \A i \in DOMAIN Tail(abortQueue) :
         \E j \in DOMAIN abortQueue : Tail(abortQueue)[i] = abortQueue[j]
  BY <1>1, AbortLeaves DEF FullInv, TypeOK, ServicesTypeOK
<1>3. ASSUME NEW s \in Sims PROVE FinishesCalm(s)
  BY <1>1, <1>2 DEF FinishesCalm, FinishAsked, Handling, workerVars
<1> QED
  BY <1>1, <1>3, Unmoved, CalmWorker DEF workerVars, Live

LEMMA TakeAbortKeeps ==
    ASSUME FullInv, TypeOK', MapInv', NEW w \in Workers, TakeAbort(w), UNCHANGED req
    PROVE  PInv'
<1>0. /\ abortQueue # << >> /\ abortQueue' = Tail(abortQueue)
      /\ UNCHANGED <<now, rows, runQueue, feed, runHandler>>
      /\ Target(w) # NoRun /\ abortHandler[w] = Resting
  BY DEF TakeAbort, CanTakeAbort
<1>1. Head(abortQueue) \in AbortCommand
  BY <1>0, AbortLeaves DEF FullInv, TypeOK, ServicesTypeOK
<1> PICK s \in Sims, t \in Nat : s = Head(abortQueue).sim /\ t = Head(abortQueue).finishedAt
  BY <1>1 DEF AbortCommand
<1> PICK r \in Runs : r = Target(w)
  BY <1>0 DEF Target, FullInv, TypeOK, WorkerTypeOK
<1>2. Live(r) /\ runs[r].worker = w /\ runs[r].sim = s /\ Driving(r, s)
  BY <1>0 DEF Target, FullInv, MapInv, InFlightIsLive, Driving
<1>3. rows[s] # NoRow /\ ~Restartable(s) /\ SimInv(s) /\ DriveInv(r, s)
  BY <1>2, ActedOn DEF SimInv
<1>4. now \in Nat
  BY DEF FullInv, TypeOK, ServicesTypeOK
<1>5. CASE runs[r].pc = "sleep"
  <2> PICK h : h = [pc |-> "find", sim |-> s, finishedAt |-> t]
    OBVIOUS
  <2>1. h.pc = "find" /\ h.sim = s /\ h.finishedAt = t
    OBVIOUS
  <2>2. /\ runs' = [runs EXCEPT ![r] = Free]
        /\ abortHandler' = [abortHandler EXCEPT ![w] = h]
    BY <1>5 DEF TakeAbort
  <2>3. runs'[r] = Free /\ \A q \in Runs \ {r} : runs'[q] = runs[q]
    BY <2>2 DEF FullInv, TypeOK, WorkerTypeOK
  <2>4. abortHandler'[w] = h /\ \A v \in Workers \ {w} : abortHandler'[v] = abortHandler[v]
    BY <2>2 DEF FullInv, TypeOK, WorkerTypeOK
  <2>5. ASSUME NEW x \in Sims PROVE FinishesCalm(x)
    BY <1>0, <2>1, <2>2, TakenFinish DEF FullInv
  <2>6. ASSUME NEW x \in Sims \ {s} PROVE Calm(x)
    <3>1. RunsCalm(x)
      BY <2>3 DEF RunsCalm, Driving, Live, SameRun
    <3>2. EndersCalm(x)
      BY <1>0, <2>1, <2>4, <2>6 DEF EndersCalm, Ending
    <3> QED
      BY <1>0, <1>4, <2>5, <3>1, <3>2, Unmoved DEF Calm, Still
  <2>7. /\ NoWriter(s) /\ ~Waiting(s) /\ NoTaker(s)
        /\ \A q \in Runs \ {r} : ~Driving(q, s)
        /\ NoEnder(s) /\ Untold(s)
    BY <1>2, <1>3, DriverAlone DEF DriveInv
  <2>11. Heard(s, rows[s].totalGoals + 1)
    <3>1. rows[s].totalGoals \in Nat /\ Pending(runs[r]) = 0
      BY <1>3, <1>5 DEF Pending, FullInv, TypeOK, ServicesTypeOK, Aggregate
    <3>2. rows[s].totalGoals + 1 - Pending(runs[r]) = rows[s].totalGoals + 1
      BY <3>1
    <3> QED
      BY <1>3, <3>2 DEF DriveInv
  <2>8. SimInv(s)'
    <3>1. NoWriter(s)' /\ ~Waiting(s)' /\ NoTaker(s)'
      BY <1>0, <2>7 DEF NoWriter, Writing, Waiting, NoTaker
    <3>2. NoDriver(s)'
      BY <2>3, <2>7 DEF NoDriver, Driving, Live
    <3>3. \A v \in Workers \ {w} : ~Ending(v, s)'
      BY <1>0, <2>4, <2>7 DEF NoEnder, Ending
    <3>4. EndInv(w, s)'
      BY <1>0, <2>1, <2>4, <2>7, <2>11 DEF EndInv, Untold, SeenFinished, Heard
    <3>5. Dated(s)'
      BY <1>0, <1>3, <1>4, <2>5, StillDated DEF SimInv, FullInv
    <3> QED
      BY <3>1, <3>2, <3>3, <3>4, <3>5, OnlyEnder
  <2>9. DrainsItsOwn'
    BY <2>1, <2>3, <2>4, DrainsKeep DEF Live
  <2>10. \A x \in Sims : Calm(x) \/ Handled(x)
    BY <1>0, <1>3, <2>6, <2>8 DEF Handled
  <2> QED
    BY <1>0, <2>9, <2>10, WorkerConcludes, SameRows
<1>6. CASE runs[r].pc # "sleep"
  <2> PICK h : h = [pc |-> "draining", sim |-> s, finishedAt |-> t, run |-> r]
    OBVIOUS
  <2>1. h.pc = "draining" /\ h.sim = s /\ h.finishedAt = t /\ h.run = r
    OBVIOUS
  <2>2. /\ runs' = [runs EXCEPT ![r].aborted = TRUE]
        /\ abortHandler' = [abortHandler EXCEPT ![w] = h]
    BY <1>6 DEF TakeAbort
  <2>3. runs[r] \in Run
    BY <1>2, RunShape DEF FullInv, TypeOK
  <2>4. /\ SameRun(r) /\ runs'[r].sim = s
        /\ \A q \in Runs \ {r} : runs'[q] = runs[q]
    BY <1>2, <2>2, <2>3 DEF FullInv, TypeOK, WorkerTypeOK, SameRun, Run
  <2>5. abortHandler'[w] = h /\ \A v \in Workers \ {w} : abortHandler'[v] = abortHandler[v]
    BY <2>2 DEF FullInv, TypeOK, WorkerTypeOK
  <2>6. ASSUME NEW x \in Sims PROVE Calm(x)
    <3>1. RunsCalm(x)
      BY <1>2, <2>4 DEF RunsCalm, Driving, Live, SameRun
    <3>2. EndersCalm(x)
      BY <1>0, <2>1, <2>5, <2>6 DEF EndersCalm, Ending
    <3>3. FinishesCalm(x)
      BY <1>0, <2>1, <2>2, TakenFinish DEF FullInv
    <3> QED
      BY <1>0, <1>4, <3>1, <3>2, <3>3, Unmoved DEF Calm, Still
  <2>7. DrainsItsOwn'
    <3> SUFFICES ASSUME NEW v \in Workers, abortHandler'[v].pc = "draining"
                 PROVE  runs'[abortHandler'[v].run].sim = abortHandler'[v].sim
      BY DEF DrainsItsOwn
    <3>1. CASE v = w
      BY <2>1, <2>4, <2>5, <3>1
    <3>2. CASE v # w
      <4>1. abortHandler'[v] = abortHandler[v]
        BY <2>5, <3>2
      <4>2. abortHandler[v].run \in Runs
        BY <4>1, HandlerShape DEF FullInv, TypeOK, WorkerTypeOK, Draining
      <4>3. runs[abortHandler[v].run].sim = abortHandler[v].sim
        BY <4>1 DEF FullInv, PInv, DrainsItsOwn
      <4> QED
        BY <1>2, <2>4, <4>1, <4>2, <4>3
    <3> QED
      BY <3>1, <3>2
  <2> QED
    BY <1>0, <2>6, <2>7, WorkerConcludes, SameRows
<1> QED
  BY <1>5, <1>6

(* findById: a row that is RUNNING will be finished. *)
LEMMA AbortFindKeeps ==
    ASSUME FullInv, TypeOK', MapInv', NEW w \in Workers, AbortFind(w), UNCHANGED req
    PROVE  PInv'
<1>0. abortHandler[w] \in Finding /\ abortHandler[w].pc = "find"
  BY HandlerShape DEF AbortFind, FullInv, TypeOK, WorkerTypeOK
<1> PICK s \in Sims, t \in Nat : s = abortHandler[w].sim /\ t = abortHandler[w].finishedAt
  BY <1>0 DEF Finding
<1> PICK h : h = IF rows[s] # NoRow /\ rows[s].state = "RUNNING"
                 THEN [pc |-> "save", sim |-> s, finishedAt |-> t, copy |-> Finish(rows[s], t)]
                 ELSE Resting
  OBVIOUS
<1>1. /\ abortHandler' = [abortHandler EXCEPT ![w] = h]
      /\ UNCHANGED <<now, rows, runQueue, abortQueue, feed, runHandler, runs>>
  BY DEF AbortFind, serviceVars
<1>2. abortHandler'[w] = h /\ \A v \in Workers \ {w} : abortHandler'[v] = abortHandler[v]
  BY <1>1 DEF FullInv, TypeOK, WorkerTypeOK
<1>3. \/ /\ rows[s] # NoRow /\ rows[s].state = "RUNNING"
         /\ h.pc = "save" /\ h.sim = s /\ h.finishedAt = t /\ h.copy = Finish(rows[s], t)
      \/ h = Resting
  OBVIOUS
<1>4. h.pc # "draining" /\ h.pc # "publish" /\ h.pc # "find"
  BY DEF Resting
<1>5. Handling(w, s) /\ now \in Nat
  BY <1>0 DEF Handling, Resting, FullInv, TypeOK, ServicesTypeOK
<1>6. ASSUME NEW x \in Sims PROVE FinishesCalm(x)
  BY <1>1, <1>2, <1>3, <1>5 DEF FinishesCalm, FinishAsked, Handling
<1>7. DrainsItsOwn'
  BY <1>1, <1>2, <1>4, DrainsKeep DEF Live
<1>8. CASE h = Resting
  <2>1. ASSUME NEW x \in Sims PROVE EndersCalm(x)
    BY <1>1, <1>2, <1>8 DEF EndersCalm, Ending, Resting
  <2> QED
    BY <1>1, <1>2, <1>4, <1>6, <2>1, Unmoved, CalmWorker DEF Live
<1>9. CASE h # Resting
  <2>1. /\ rows[s] # NoRow /\ rows[s].state = "RUNNING"
        /\ h.pc = "save" /\ h.sim = s /\ h.finishedAt = t /\ h.copy = Finish(rows[s], t)
    BY <1>3, <1>9
  <2>2. Ending(w, s)
    BY <1>0, <2>1 DEF Ending
  <2>3. rows[s] # NoRow /\ ~Restartable(s) /\ SimInv(s)
    BY <2>2, ActedOn
  <2>4. /\ NoWriter(s) /\ ~Waiting(s) /\ NoTaker(s) /\ NoDriver(s)
        /\ \A v \in Workers \ {w} : ~Ending(v, s)
        /\ Untold(s) /\ Heard(s, rows[s].totalGoals + 1)
    BY <2>2, <2>3, EnderAlone DEF SimInv, EndInv
  <2>5. ASSUME NEW x \in Sims \ {s} PROVE Calm(x)
    <3>1. EndersCalm(x)
      BY <1>1, <1>2, <2>1, <2>5 DEF EndersCalm, Ending
    <3> QED
      BY <1>1, <1>5, <1>6, <3>1, Unmoved DEF Calm, Still
  <2>6. SimInv(s)'
    <3>1. NoWriter(s)' /\ ~Waiting(s)' /\ NoTaker(s)' /\ NoDriver(s)'
      BY <1>1, <2>4 DEF NoWriter, Writing, Waiting, NoTaker, NoDriver, Driving, Live
    <3>2. \A v \in Workers \ {w} : ~Ending(v, s)'
      BY <1>1, <1>2, <2>4 DEF Ending
    <3>3. EndInv(w, s)'
      BY <1>1, <1>2, <2>1, <2>4 DEF EndInv, Untold, SeenFinished, Heard
    <3>4. Dated(s)'
      BY <1>1, <1>5, <1>6, <2>3, StillDated DEF SimInv, FullInv
    <3> QED
      BY <3>1, <3>2, <3>3, <3>4, OnlyEnder
  <2>7. \A x \in Sims : Calm(x) \/ Handled(x)
    BY <1>1, <2>3, <2>5, <2>6 DEF Handled
  <2> QED
    BY <1>1, <1>7, <2>7, WorkerConcludes, SameRows
<1> QED
  BY <1>8, <1>9

(* save: nothing is left to do but to tell it. *)
LEMMA AbortSaveKeeps ==
    ASSUME FullInv, TypeOK', MapInv', NEW w \in Workers, AbortSave(w), IdentityStays, NoNewRow,
           UNCHANGED req
    PROVE  PInv'
<1>0. abortHandler[w] \in Finishing /\ abortHandler[w].pc = "save"
  BY HandlerShape DEF AbortSave, FullInv, TypeOK, WorkerTypeOK
<1> PICK s \in Sims, t \in Nat, copy \in Aggregate :
      s = abortHandler[w].sim /\ t = abortHandler[w].finishedAt /\ copy = abortHandler[w].copy
  BY <1>0 DEF Finishing
<1> PICK h : h = [abortHandler[w] EXCEPT !.pc = "publish"]
  OBVIOUS
<1>1. h.pc = "publish" /\ h.sim = s /\ h.finishedAt = t /\ h.copy = copy
  BY <1>0 DEF Finishing
<1>2. /\ abortHandler' = [abortHandler EXCEPT ![w] = h]
      /\ rows' = [rows EXCEPT ![s] = copy]
      /\ UNCHANGED <<now, runQueue, abortQueue, feed, runHandler, runs>>
  BY DEF AbortSave, Save
<1>3. abortHandler'[w] = h /\ \A v \in Workers \ {w} : abortHandler'[v] = abortHandler[v]
  BY <1>2 DEF FullInv, TypeOK, WorkerTypeOK
<1>4. rows'[s] = copy /\ \A x \in Sims \ {s} : rows'[x] = rows[x]
  BY <1>2 DEF FullInv, TypeOK, ServicesTypeOK
<1>5. Handling(w, s) /\ Ending(w, s) /\ now \in Nat
  BY <1>0 DEF Handling, Ending, Resting, FullInv, TypeOK, ServicesTypeOK
<1>6. rows[s] # NoRow /\ ~Restartable(s) /\ SimInv(s)
  BY <1>5, ActedOn
<1>7. /\ NoWriter(s) /\ ~Waiting(s) /\ NoTaker(s) /\ NoDriver(s)
      /\ \A v \in Workers \ {w} : ~Ending(v, s)
      /\ Untold(s) /\ rows[s].state = "RUNNING" /\ copy = Finish(rows[s], t)
      /\ Heard(s, rows[s].totalGoals + 1)
  BY <1>0, <1>5, <1>6, EnderAlone DEF SimInv, EndInv
<1>8. rows[s] \in Aggregate
  BY <1>6 DEF FullInv, TypeOK, ServicesTypeOK
<1>9. /\ copy.startedAt = rows[s].startedAt /\ copy.state = "FINISHED" /\ copy.finishedAt = t
      /\ copy.totalGoals = rows[s].totalGoals
  BY <1>7, <1>8 DEF Finish, Aggregate
<1>10. t \in rows[s].startedAt .. now
  BY <1>5, <1>6 DEF SimInv, Dated, FinishAsked
<1>11. ASSUME NEW x \in Sims PROVE FinishesCalm(x)
  BY <1>1, <1>2, <1>3, <1>5 DEF FinishesCalm, FinishAsked, Handling
<1>12. ASSUME NEW x \in Sims \ {s} PROVE Calm(x)
  <2>1. EndersCalm(x)
    BY <1>1, <1>3, <1>4, <1>12 DEF EndersCalm, Ending
  <2> QED
    BY <1>2, <1>4, <1>5, <1>11, <2>1, Unmoved DEF Calm, Still, RowCalm
<1>13. SimInv(s)'
  <2>1. NoWriter(s)' /\ ~Waiting(s)' /\ NoTaker(s)' /\ NoDriver(s)'
    BY <1>2, <1>7 DEF NoWriter, Writing, Waiting, NoTaker, NoDriver, Driving, Live
  <2>2. \A v \in Workers \ {w} : ~Ending(v, s)'
    BY <1>3, <1>4, <1>7, <1>9 DEF Ending
  <2>3. EndInv(w, s)'
    BY <1>1, <1>2, <1>3, <1>4, <1>7, <1>9 DEF EndInv, Untold, SeenFinished, Heard
  <2>4. Dated(s)'
    BY <1>2, <1>4, <1>6, <1>9, <1>10, <1>11, SavedDated DEF SimInv
  <2> QED
    BY <2>1, <2>2, <2>3, <2>4, OnlyEnder
<1>14. DrainsItsOwn'
  BY <1>1, <1>2, <1>3, DrainsKeep DEF Live
<1>15. \A x \in Sims : Calm(x) \/ Handled(x)
  BY <1>4, <1>6, <1>9, <1>12, <1>13 DEF Handled
<1> QED
  BY <1>14, <1>15, WorkerConcludes

(* publish: the handler is done. *)
LEMMA AbortPublishKeeps ==
    ASSUME FullInv, TypeOK', MapInv', NEW w \in Workers, AbortPublish(w), UNCHANGED req
    PROVE  PInv'
<1>0. abortHandler[w] \in Finishing /\ abortHandler[w].pc = "publish"
  BY HandlerShape DEF AbortPublish, FullInv, TypeOK, WorkerTypeOK
<1> PICK s \in Sims : s = abortHandler[w].sim
  BY <1>0 DEF Finishing
<1>1. /\ abortHandler' = [abortHandler EXCEPT ![w] = Resting]
      /\ UNCHANGED <<now, rows, runQueue, abortQueue, runHandler, runs>>
      /\ Publish(s, SimulationFinished("manual", abortHandler[w].copy))
  BY DEF AbortPublish
<1>2. abortHandler'[w] = Resting /\ \A v \in Workers \ {w} : abortHandler'[v] = abortHandler[v]
  BY <1>1 DEF FullInv, TypeOK, WorkerTypeOK
<1>3. \A x \in Sims \ {s} : feed'[x] = feed[x]
  BY <1>1 DEF Publish, FullInv, TypeOK, ServicesTypeOK
<1>4. Ending(w, s) /\ now \in Nat
  BY <1>0 DEF Ending, FullInv, TypeOK, ServicesTypeOK
<1>5. rows[s] # NoRow /\ ~Restartable(s) /\ SimInv(s)
  BY <1>4, ActedOn
<1>6. /\ NoWriter(s) /\ ~Waiting(s) /\ NoTaker(s) /\ NoDriver(s)
      /\ \A v \in Workers \ {w} : ~Ending(v, s)
  BY <1>4, <1>5, EnderAlone
<1>7. ASSUME NEW x \in Sims PROVE FinishesCalm(x)
  BY <1>1, <1>2 DEF FinishesCalm, FinishAsked, Handling
<1>8. ASSUME NEW x \in Sims \ {s} PROVE Calm(x)
  <2>1. EndersCalm(x)
    BY <1>1, <1>2 DEF EndersCalm, Ending, Resting
  <2> QED
    BY <1>1, <1>3, <1>4, <1>7, <2>1, Unmoved DEF Calm, Still, RowCalm
<1>9. SimInv(s)'
  <2>1. NoWriter(s)' /\ ~Waiting(s)' /\ NoTaker(s)' /\ NoDriver(s)'
    BY <1>1, <1>6 DEF NoWriter, Writing, Waiting, NoTaker, NoDriver, Driving, Live
  <2>2. \A v \in Workers : ~Ending(v, s)'
    BY <1>1, <1>2, <1>6 DEF Ending, Resting
  <2>3. Dated(s)'
    BY <1>1, <1>4, <1>5, <1>7, StillDated DEF SimInv, FullInv
  <2> QED
    BY <2>1, <2>2, <2>3, OnlyEnder
<1>10. DrainsItsOwn'
  BY <1>1, <1>2, DrainsKeep DEF Live, Resting
<1>11. \A x \in Sims : Calm(x) \/ Handled(x)
  BY <1>1, <1>5, <1>8, <1>9 DEF Handled
<1> QED
  BY <1>1, <1>10, <1>11, WorkerConcludes, SameRows

(* An abort handler rests again, or its call fails. *)
LEMMA HandlerFailsKeeps ==
    ASSUME FullInv, TypeOK', MapInv', NEW w \in Workers, RunHandlerFails(w) \/ AbortHandlerFails(w),
           UNCHANGED req
    PROVE  PInv'
<1>1. CASE RunHandlerFails(w)
  <2>1. UNCHANGED <<now, rows, feed, runQueue, abortQueue, abortHandler, runs>>
    BY <1>1 DEF RunHandlerFails
  <2>2. runHandler'[w] = NoSim /\ \A v \in Workers \ {w} : runHandler'[v] = runHandler[v]
    BY <1>1 DEF RunHandlerFails, FullInv, TypeOK, WorkerTypeOK
  <2>3. ASSUME NEW s \in Sims PROVE TakersCalm(s)
    BY <2>2, WorkerAssumption DEF TakersCalm
  <2> QED
    BY <2>1, <2>3, Unmoved, CalmWorker DEF Live
<1>2. CASE AbortHandlerFails(w)
  <2>1. UNCHANGED <<now, rows, feed, runQueue, abortQueue, runHandler, runs>>
    BY <1>2 DEF AbortHandlerFails
  <2>2. abortHandler'[w] = Resting /\ \A v \in Workers \ {w} : abortHandler'[v] = abortHandler[v]
    BY <1>2 DEF AbortHandlerFails, FullInv, TypeOK, WorkerTypeOK
  <2>3. ASSUME NEW s \in Sims PROVE EndersCalm(s) /\ FinishesCalm(s)
    BY <2>1, <2>2 DEF EndersCalm, Ending, FinishesCalm, FinishAsked, Handling, Resting
  <2> QED
    BY <2>1, <2>2, <2>3, Unmoved, CalmWorker DEF Live, Resting
<1> QED
  BY <1>1, <1>2

LEMMA PhaseKeeps ==
    ASSUME FullInv, TypeOK', MapInv', NEW w \in Workers, Shutdown(w) \/ CloseAborts(w) \/ Boot(w),
           UNCHANGED req
    PROVE  PInv'
<1>1. UNCHANGED <<now, rows, feed, runQueue, abortQueue, runHandler, abortHandler, runs>>
  BY DEF Shutdown, CloseAborts, Boot, serviceVars
<1> QED
  BY <1>1, Unmoved, CalmWorker DEF Live

LEMMA AbortInFlightKeeps ==
    ASSUME FullInv, TypeOK', MapInv', NEW w \in Workers, AbortInFlight(w), UNCHANGED req
    PROVE  PInv'
<1>1. UNCHANGED <<now, rows, feed, runQueue, abortQueue, runHandler, abortHandler>>
  BY DEF AbortInFlight, serviceVars
<1> DEFINE registered == {inFlight[w][s] : s \in Sims} \ {NoRun}
           asleep == {r \in registered : runs[r].pc = "sleep"}
<1>2. runs' = [r \in Runs |-> IF r \in asleep THEN Free
                              ELSE IF r \in registered THEN [runs[r] EXCEPT !.aborted = TRUE]
                              ELSE runs[r]]
  BY DEF AbortInFlight
<1>3. \A r \in registered : Live(r)
  BY DEF FullInv, MapInv, InFlightIsLive
<1> HIDE DEF registered, asleep
<1>4. ASSUME NEW r \in Runs, Live(r)'
      PROVE  Live(r) /\ SameRun(r) /\ runs'[r].sim = runs[r].sim
  <2>1. CASE r \in registered
    <3>1. Live(r) /\ runs[r] \in Run
      BY <1>3, <2>1, RunShape DEF FullInv, TypeOK
    <3>2. runs'[r] = [runs[r] EXCEPT !.aborted = TRUE]
      BY <1>2, <1>4, <2>1 DEF Live
    <3> QED
      BY <3>1, <3>2 DEF SameRun, Run
  <2>2. CASE r \notin registered
    <3>1. runs'[r] = runs[r]
      BY <1>2, <1>4, <2>2 DEF Live
    <3> QED
      BY <1>4, <3>1 DEF Live, SameRun
  <2> QED
    BY <2>1, <2>2
<1>5. ASSUME NEW s \in Sims PROVE RunsCalm(s)
  BY <1>4 DEF RunsCalm, Driving
<1> QED
  BY <1>1, <1>4, <1>5, Unmoved, CalmWorker

-----------------------------------------------------------------------------
(* The engine. *)

LEMMA GoalOperator ==
    ASSUME NEW sim \in Aggregate
    PROVE  /\ ApplyGoal(sim).totalGoals = sim.totalGoals + 1
           /\ ApplyGoal(sim).state = sim.state
           /\ ApplyGoal(sim).startedAt = sim.startedAt
BY DEF ApplyGoal, Aggregate

LEMMA FinishOperator ==
    ASSUME NEW sim \in Aggregate, NEW t
    PROVE  /\ Finish(sim, t).totalGoals = sim.totalGoals
           /\ Finish(sim, t).state = "FINISHED"
           /\ Finish(sim, t).startedAt = sim.startedAt
           /\ Finish(sim, t).finishedAt = t
BY DEF Finish, Aggregate

(* A run that goes on, whatever it does to its own simulation. *)
LEMMA RunGoesOnAlone ==
    ASSUME FullInv, TypeOK', MapInv', NEW r \in Runs, NEW s \in Sims, Driving(r, s), NEW run,
           runs' = [runs EXCEPT ![r] = run], run.sim = s,
           UNCHANGED <<now, runQueue, abortQueue, runHandler, abortHandler, req>>,
           \A x \in Sims \ {s} : rows'[x] = rows[x] /\ feed'[x] = feed[x],
           rows'[s].state = "RUNNING" => rows[s].state = "RUNNING",
           rows'[s].startedAt = rows[s].startedAt,
           rows'[s].state = "FINISHED" => rows'[s].finishedAt \in rows[s].startedAt .. now,
           DriveInv(r, s)',
           IdentityStays, NoNewRow
    PROVE  PInv'
<1>1. runs'[r] = run /\ \A q \in Runs \ {r} : runs'[q] = runs[q]
  BY DEF FullInv, TypeOK, WorkerTypeOK
<1>2. rows[s] # NoRow /\ ~Restartable(s) /\ SimInv(s) /\ now \in Nat
  BY ActedOn DEF FullInv, TypeOK, ServicesTypeOK
<1>3. ASSUME NEW x \in Sims PROVE FinishesCalm(x)
  BY Unmoved
<1>4. ASSUME NEW x \in Sims \ {s} PROVE Calm(x)
  <2>1. RunsCalm(x)
    BY <1>1, <1>4 DEF RunsCalm, Driving, Live, SameRun
  <2> QED
    BY <1>2, <1>3, <2>1, Unmoved DEF Calm, Still, RowCalm
<1>5. /\ NoWriter(s) /\ ~Waiting(s) /\ NoTaker(s)
      /\ \A q \in Runs \ {r} : ~Driving(q, s)
      /\ NoEnder(s)
  BY <1>2, DriverAlone
<1>6. SimInv(s)'
  <2>1. NoWriter(s)' /\ ~Waiting(s)' /\ NoTaker(s)'
    BY <1>5 DEF NoWriter, Writing, Waiting, NoTaker
  <2>2. \A q \in Runs \ {r} : ~Driving(q, s)'
    BY <1>1, <1>5 DEF Driving, Live
  <2>3. NoEnder(s)'
    BY <1>5 DEF NoEnder, Ending
  <2>4. Dated(s)'
    BY <1>2, <1>3, SavedDated DEF SimInv
  <2> QED
    BY <2>1, <2>2, <2>3, <2>4, OnlyDriver
<1>7. DrainsItsOwn'
  BY <1>1, DrainsKeep DEF Driving
<1>8. \A x \in Sims : Calm(x) \/ Handled(x)
  BY <1>2, <1>4, <1>6 DEF Handled
<1> QED
  BY <1>7, <1>8, WorkerConcludes

(* The row of a run's simulation, as Dated has it. *)
LEMMA RowOfRun ==
    ASSUME FullInv, NEW r \in Runs, NEW s \in Sims, Driving(r, s)
    PROVE  /\ runs[r] \in Run /\ runs[r].copy \in Aggregate /\ runs[r].tick \in Nat
           /\ rows[s] \in Aggregate /\ DriveInv(r, s)
           /\ now \in Nat
           /\ rows[s].startedAt <= now
           /\ rows[s].state = "FINISHED" => rows[s].finishedAt \in rows[s].startedAt .. now
<1>1. rows[s] # NoRow /\ SimInv(s)
  BY ActedOn
<1>2. runs[r] \in Run
  BY RunShape DEF Driving, FullInv, TypeOK
<1>3. DriveInv(r, s)
  BY <1>1 DEF SimInv
<1> QED
  BY <1>1, <1>2, <1>3 DEF SimInv, Dated, Run, FullInv, TypeOK, ServicesTypeOK

LEMMA WakeKeeps ==
    ASSUME FullInv, TypeOK', MapInv', NEW r \in Runs, Wake(r), UNCHANGED req
    PROVE  PInv'
<1>1. Live(r) /\ runs[r] \in Run /\ runs[r].pc = "sleep"
  BY RunShape DEF Wake, FullInv, TypeOK
<1> PICK s \in Sims : s = runs[r].sim
  BY <1>1 DEF Run
<1>2. Driving(r, s)
  BY <1>1 DEF Driving
<1>3. /\ runs[r].copy \in Aggregate /\ runs[r].tick \in Nat
      /\ rows[s] \in Aggregate /\ DriveInv(r, s)
      /\ rows[s].state = "FINISHED" => rows[s].finishedAt \in rows[s].startedAt .. now
  BY <1>2, RowOfRun
<1> PICK copy \in Aggregate, tick \in Nat : copy = runs[r].copy /\ tick = runs[r].tick
  BY <1>3
<1> PICK run : run = [runs[r] EXCEPT !.copy = ApplyGoal(copy), !.tick = tick + 1, !.pc = "save"]
  OBVIOUS
<1>4. /\ run.pc = "save" /\ run.copy = ApplyGoal(copy) /\ run.tick = tick + 1
      /\ run.worker = runs[r].worker /\ run.sim = s
  BY <1>1 DEF Run
<1>5. runs' = [runs EXCEPT ![r] = run]
  BY DEF Wake
<1>6. UNCHANGED <<now, rows, feed, runQueue, abortQueue, runHandler, abortHandler>>
  BY DEF Wake, serviceVars
<1>7. runs'[r] = run
  BY <1>5 DEF FullInv, TypeOK, WorkerTypeOK
<1>8. /\ copy.totalGoals = tick /\ rows[s] = copy /\ copy.state = "RUNNING" /\ tick < GoalCount
      /\ Untold(s)
  BY <1>1, <1>3 DEF DriveInv
<1>9. DriveInv(r, s)'
  <2>1. ApplyGoal(copy).totalGoals = tick + 1 /\ ApplyGoal(copy).state = "RUNNING"
    BY <1>8, GoalOperator
  <2>2. tick + 1 <= GoalCount
    BY <1>8, WorkerAssumption
  <2>3. Progress(runs[r], s)'
    BY <1>4, <1>6, <1>7, <1>8 DEF Progress
  <2>4. Pending(runs[r]) = 0 /\ Pending(runs[r])' = 0
    BY <1>1, <1>4, <1>7 DEF Pending
  <2>5. Heard(s, rows[s].totalGoals + 1 - Pending(runs[r]))'
    BY <1>3, <1>6, <2>4 DEF DriveInv, Heard
  <2> QED
    BY <1>4, <1>6, <1>7, <1>8, <2>1, <2>2, <2>3, <2>5 DEF DriveInv, Untold, SeenFinished
<1>10. IdentityStays /\ NoNewRow
  BY <1>6, SameRows
<1> QED
  BY <1>2, <1>3, <1>4, <1>5, <1>6, <1>9, <1>10, RunGoesOnAlone

LEMMA SaveRunKeeps ==
    ASSUME FullInv, TypeOK', MapInv', NEW r \in Runs, SaveRun(r), IdentityStays, NoNewRow,
           UNCHANGED req
    PROVE  PInv'
<1>1. Live(r) /\ runs[r] \in Run /\ runs[r].pc = "save"
  BY RunShape DEF SaveRun, FullInv, TypeOK
<1> PICK s \in Sims : s = runs[r].sim
  BY <1>1 DEF Run
<1>2. Driving(r, s)
  BY <1>1 DEF Driving
<1>3. /\ runs[r].copy \in Aggregate
      /\ rows[s] \in Aggregate /\ DriveInv(r, s)
      /\ now \in Nat
  BY <1>2, RowOfRun
<1> PICK copy \in Aggregate : copy = runs[r].copy
  BY <1>3
<1> PICK run : run = [runs[r] EXCEPT !.pc = "publish"]
  OBVIOUS
<1>4. /\ run.pc = "publish" /\ run.copy = copy /\ run.tick = runs[r].tick
      /\ run.worker = runs[r].worker /\ run.sim = s
  BY <1>1 DEF Run
<1>5. runs' = [runs EXCEPT ![r] = run]
  BY DEF SaveRun
<1>6. UNCHANGED <<now, feed, runQueue, abortQueue, runHandler, abortHandler>>
  BY DEF SaveRun
<1>7. runs'[r] = run
  BY <1>5 DEF FullInv, TypeOK, WorkerTypeOK
<1>8. rows'[s] = copy /\ \A x \in Sims \ {s} : rows'[x] = rows[x]
  BY DEF SaveRun, Save, FullInv, TypeOK, ServicesTypeOK
<1>9. rows[s].state = "RUNNING" /\ Progress(runs[r], s)
  BY <1>1, <1>3 DEF DriveInv
<1>10. /\ copy.startedAt = rows[s].startedAt
       /\ rows[s].totalGoals = copy.totalGoals - (IF copy.state = "RUNNING" THEN 1 ELSE 0)
       /\ copy.state = "FINISHED" => copy.finishedAt \in rows[s].startedAt .. now
  <2>1. CASE copy = ApplyGoal(rows[s])
    <3>1. rows[s].totalGoals \in Nat
      BY <1>3 DEF Aggregate
    <3> QED
      BY <1>3, <1>9, <2>1, <3>1, GoalOperator
  <2>2. CASE \E t \in rows[s].startedAt .. now : copy = Finish(rows[s], t)
    <3>1. rows[s].totalGoals \in Nat
      BY <1>3 DEF Aggregate
    <3> QED
      BY <1>3, <2>2, <3>1, FinishOperator
  <2> QED
    BY <1>9, <2>1, <2>2 DEF Progress
<1>11. DriveInv(r, s)'
  <2>1. Pending(runs[r]) = 0
    BY <1>1 DEF Pending
  <2>2. Pending(runs[r])' = IF copy.state = "RUNNING" THEN 1 ELSE 0
    BY <1>4, <1>7 DEF Pending
  <2>3. rows[s].totalGoals \in Nat /\ copy.totalGoals \in Nat
    BY <1>3 DEF Aggregate
  <2>4. rows'[s].totalGoals + 1 - Pending(runs[r])' = rows[s].totalGoals + 1 - Pending(runs[r])
    BY <1>8, <1>10, <2>1, <2>2, <2>3
  <2>5. Heard(s, rows[s].totalGoals + 1 - Pending(runs[r]))'
    BY <1>3, <1>6, <2>4 DEF DriveInv, Heard
  <2> QED
    BY <1>3, <1>4, <1>6, <1>7, <1>8, <2>5 DEF DriveInv, Untold, SeenFinished
<1> QED
  BY <1>2, <1>4, <1>5, <1>6, <1>8, <1>9, <1>10, <1>11, RunGoesOnAlone

LEMMA RunTells ==
    ASSUME FullInv, NEW r \in Runs, NEW s \in Sims, Driving(r, s), Publish(s, RunEvent(r)),
           UNCHANGED rows
    PROVE  /\ \A x \in Sims \ {s} : feed'[x] = feed[x]
           /\ runs[r].copy.state = "RUNNING" => Untold(s)'
           /\ runs[r].copy.state = "RUNNING" /\ runs[r].pc = "publish" =>
                Heard(s, rows[s].totalGoals + 1)'
<1>1. runs[r].copy \in Aggregate /\ rows[s] \in Aggregate /\ DriveInv(r, s)
  BY RowOfRun
<1>2. /\ RunEvent(r) \in Event
      /\ runs[r].copy.state = "RUNNING" =>
           RunEvent(r).type # "SimulationFinished" /\ RunEvent(r) \notin Ignitions
  BY <1>1, EventTypes, WordsOfRun DEF RunEvent
<1>3. /\ \A x \in Sims \ {s} : feed'[x] = feed[x]
      /\ feed'[s] = Forward(feed[s], RunEvent(r))
      /\ runs[r].copy.state = "RUNNING" => Untold(s)'
  BY <1>2, PublishRead DEF FullInv, TypeOK
<1>4. ASSUME runs[r].copy.state = "RUNNING", runs[r].pc = "publish", "call" \notin FaultKinds
      PROVE  feed'[s] # << >> /\ Len(feed'[s]) = rows[s].totalGoals + 1
  <2>1. rows[s].totalGoals \in Nat /\ Pending(runs[r]) = 1
    BY <1>1, <1>4 DEF Aggregate, Pending
  <2>2. Len(feed[s]) = rows[s].totalGoals
    BY <1>1, <1>4, <2>1 DEF DriveInv, Heard
  <2>3. feed'[s] = Append(feed[s], RunEvent(r)) /\ feed[s] \in Seq(Event)
    BY <1>2, <1>3, <1>4 DEF Forward, FullInv, TypeOK, ServicesTypeOK
  <2> QED
    BY <1>2, <2>1, <2>2, <2>3
<1> QED
  BY <1>3, <1>4 DEF Heard

LEMMA PublishAndGoOnKeeps ==
    ASSUME FullInv, TypeOK', MapInv', NEW r \in Runs, PublishAndSleep(r) \/ PublishAndFinish(r),
           UNCHANGED req
    PROVE  PInv'
<1>1. Live(r) /\ runs[r] \in Run /\ runs[r].pc = "publish"
  BY RunShape DEF PublishAndSleep, PublishAndFinish, PublishAndGoOn, FullInv, TypeOK
<1> PICK s \in Sims : s = runs[r].sim
  BY <1>1 DEF Run
<1>2. Driving(r, s)
  BY <1>1 DEF Driving
<1>3. /\ runs[r].copy \in Aggregate /\ runs[r].tick \in Nat
      /\ rows[s] \in Aggregate /\ DriveInv(r, s)
      /\ now \in Nat
      /\ rows[s].startedAt <= now
      /\ rows[s].state = "FINISHED" => rows[s].finishedAt \in rows[s].startedAt .. now
  BY <1>2, RowOfRun
<1> PICK copy \in Aggregate : copy = runs[r].copy
  BY <1>3
<1>4. copy.state = "RUNNING" /\ Publish(s, RunEvent(r))
  BY DEF PublishAndSleep, PublishAndFinish, PublishAndGoOn
<1>5. rows[s] = copy /\ copy.totalGoals = runs[r].tick /\ runs[r].tick <= GoalCount
  BY <1>1, <1>3 DEF DriveInv
<1>7. UNCHANGED <<now, rows, runQueue, abortQueue, runHandler, abortHandler>>
  BY DEF PublishAndSleep, PublishAndFinish
<1>6. /\ Untold(s)' /\ \A x \in Sims \ {s} : feed'[x] = feed[x]
      /\ Heard(s, rows[s].totalGoals + 1)'
  BY <1>1, <1>2, <1>4, <1>7, RunTells
<1>11. ASSUME Pending(runs[r])' = 0
       PROVE  Heard(s, rows[s].totalGoals + 1 - Pending(runs[r]))'
  <2>1. rows'[s].totalGoals \in Nat
    BY <1>3, <1>7 DEF Aggregate
  <2>2. rows'[s].totalGoals + 1 - Pending(runs[r])' = rows'[s].totalGoals + 1
    BY <1>11, <2>1
  <2> QED
    BY <1>6, <2>2 DEF Heard
<1>8. IdentityStays /\ NoNewRow
  BY <1>7, SameRows
<1>9. CASE PublishAndSleep(r)
  <2> PICK run : run = [runs[r] EXCEPT !.pc = "sleep"]
    OBVIOUS
  <2>1. /\ run.pc = "sleep" /\ run.copy = copy /\ run.tick = runs[r].tick
        /\ run.worker = runs[r].worker /\ run.sim = s
    BY <1>1 DEF Run
  <2>2. runs' = [runs EXCEPT ![r] = run] /\ runs[r].tick < GoalCount
    BY <1>9 DEF PublishAndSleep, MoreGoals
  <2>3. runs'[r] = run
    BY <2>2 DEF FullInv, TypeOK, WorkerTypeOK
  <2>5. Heard(s, rows[s].totalGoals + 1 - Pending(runs[r]))'
    BY <1>11, <2>1, <2>3 DEF Pending
  <2>4. DriveInv(r, s)'
    BY <1>4, <1>5, <1>6, <1>7, <2>1, <2>2, <2>3, <2>5 DEF DriveInv
  <2> QED
    BY <1>2, <1>3, <1>6, <1>7, <1>8, <2>1, <2>2, <2>4, RunGoesOnAlone
<1>10. CASE PublishAndFinish(r)
  <2> PICK run : run = [runs[r] EXCEPT !.copy = Finish(copy, now), !.pc = "save"]
    OBVIOUS
  <2>1. /\ run.pc = "save" /\ run.copy = Finish(copy, now) /\ run.tick = runs[r].tick
        /\ run.worker = runs[r].worker /\ run.sim = s
    BY <1>1 DEF Run
  <2>2. runs' = [runs EXCEPT ![r] = run] /\ NoMoreGoals(runs[r].worker, runs[r].tick)
    BY <1>10 DEF PublishAndFinish
  <2>3. runs'[r] = run
    BY <2>2 DEF FullInv, TypeOK, WorkerTypeOK
  <2>4. now \in rows[s].startedAt .. now
    BY <1>3 DEF Aggregate
  <2>5. Progress(runs[r], s)'
    BY <1>5, <1>7, <2>1, <2>3, <2>4 DEF Progress
  <2>6. Finish(copy, now).totalGoals = copy.totalGoals
    BY FinishOperator
  <2>8. Heard(s, rows[s].totalGoals + 1 - Pending(runs[r]))'
    BY <1>11, <2>1, <2>3 DEF Pending
  <2>7. DriveInv(r, s)'
    BY <1>4, <1>5, <1>6, <1>7, <2>1, <2>2, <2>3, <2>5, <2>6, <2>8 DEF DriveInv
  <2> QED
    BY <1>2, <1>3, <1>6, <1>7, <1>8, <2>1, <2>2, <2>7, RunGoesOnAlone
<1> QED
  BY <1>9, <1>10

(* The run returns, and the handler of ABORT that waited for it, if there  *)
(* is one, takes over.                                                     *)
LEMMA ExitKeeps ==
    ASSUME FullInv, TypeOK', MapInv', NEW r \in Runs, NEW s \in Sims, Driving(r, s), Exit(r),
           UNCHANGED <<now, rows, runQueue, abortQueue, req>>,
           \A x \in Sims \ {s} : feed'[x] = feed[x],
           rows[s].state = "RUNNING" => Untold(s)' /\ Heard(s, rows[s].totalGoals + 1)'
    PROVE  PInv'
<1>1. runs[r] \in Run /\ now \in Nat /\ runs[r].sim = s
  BY RowOfRun DEF Driving
<1> PICK w \in Workers : w = runs[r].worker
  BY <1>1 DEF Run
<1> PICK h : h = Resumed(abortHandler[w], r)
  OBVIOUS
<1>2. runs'[r] = Free /\ \A q \in Runs \ {r} : runs'[q] = runs[q]
  BY DEF Exit, FullInv, TypeOK, WorkerTypeOK
<1>3. /\ abortHandler'[w] = h /\ \A v \in Workers \ {w} : abortHandler'[v] = abortHandler[v]
      /\ UNCHANGED runHandler
  BY DEF Exit, FullInv, TypeOK, WorkerTypeOK
<1>4. \/ h = abortHandler[w]
      \/ /\ abortHandler[w].pc = "draining" /\ abortHandler[w].run = r
         /\ h.pc = "find" /\ h.sim = abortHandler[w].sim
         /\ h.finishedAt = abortHandler[w].finishedAt
         /\ h.sim = s
  BY <1>1 DEF Resumed, FullInv, PInv, DrainsItsOwn
<1>5. ASSUME NEW x \in Sims PROVE FinishesCalm(x)
  <2>1. \A v \in Workers : Handling(v, x)' =>
          Handling(v, x) /\ abortHandler'[v].finishedAt = abortHandler[v].finishedAt
    BY <1>3, <1>4 DEF Handling, Resting
  <2> QED
    BY <2>1 DEF FinishesCalm, FinishAsked
<1>6. ASSUME NEW x \in Sims \ {s} PROVE Calm(x)
  <2>1. RunsCalm(x)
    BY <1>2 DEF RunsCalm, Driving, Live, SameRun
  <2>2. EndersCalm(x)
    BY <1>3, <1>4, <1>6 DEF EndersCalm, Ending
  <2> QED
    BY <1>1, <1>3, <1>5, <2>1, <2>2, Unmoved DEF Calm, Still, RowCalm
<1>7. rows[s] # NoRow /\ ~Restartable(s) /\ SimInv(s)
  BY ActedOn
<1>8. /\ NoWriter(s) /\ ~Waiting(s) /\ NoTaker(s)
      /\ \A q \in Runs \ {r} : ~Driving(q, s)
      /\ NoEnder(s)
  BY <1>7, DriverAlone
<1>9. SimInv(s)'
  <2>1. NoWriter(s)' /\ ~Waiting(s)' /\ NoTaker(s)'
    BY <1>3, <1>8 DEF NoWriter, Writing, Waiting, NoTaker
  <2>2. NoDriver(s)'
    BY <1>2, <1>8 DEF NoDriver, Driving, Live
  <2>3. \A v \in Workers \ {w} : ~Ending(v, s)'
    BY <1>3, <1>8 DEF NoEnder, Ending
  <2>4. Ending(w, s)' => EndInv(w, s)'
    <3> HAVE Ending(w, s)'
    <3>1. h # abortHandler[w]
      BY <1>3, <1>8 DEF NoEnder, Ending
    <3>2. h.pc = "find"
      BY <1>4, <3>1
    <3>3. rows[s].state = "RUNNING"
      BY <1>3, <3>2 DEF Ending
    <3> QED
      BY <1>3, <3>2, <3>3 DEF EndInv
  <2>5. Dated(s)'
    BY <1>1, <1>5, <1>7, StillDated DEF SimInv, FullInv
  <2> QED
    BY <2>1, <2>2, <2>3, <2>4, <2>5, OnlyEnder
<1>10. DrainsItsOwn'
  BY <1>2, <1>3, <1>4, DrainsKeep DEF Live
<1>11. \A x \in Sims : Calm(x) \/ Handled(x)
  BY <1>6, <1>7, <1>9 DEF Handled
<1> QED
  BY <1>10, <1>11, WorkerConcludes, SameRows

LEMMA PublishAndExitKeeps ==
    ASSUME FullInv, TypeOK', MapInv', NEW r \in Runs, PublishAndExit(r), UNCHANGED req
    PROVE  PInv'
<1>1. Live(r) /\ runs[r] \in Run /\ runs[r].pc = "publish"
  BY RunShape DEF PublishAndExit, FullInv, TypeOK
<1> PICK s \in Sims : s = runs[r].sim
  BY <1>1 DEF Run
<1>2. Driving(r, s)
  BY <1>1 DEF Driving
<1>3. rows[s] = runs[r].copy
  BY <1>1, <1>2, RowOfRun DEF DriveInv
<1>4. Publish(s, RunEvent(r)) /\ Exit(r) /\ UNCHANGED <<now, rows, runQueue, abortQueue>>
  BY DEF PublishAndExit
<1>5. /\ \A x \in Sims \ {s} : feed'[x] = feed[x]
      /\ rows[s].state = "RUNNING" => Untold(s)' /\ Heard(s, rows[s].totalGoals + 1)'
  BY <1>1, <1>2, <1>3, <1>4, RunTells
<1> QED
  BY <1>2, <1>4, <1>5, ExitKeeps

LEMMA AwaitedRunFailsKeeps ==
    ASSUME FullInv, TypeOK', MapInv', NEW r \in Runs, AwaitedRunFails(r), UNCHANGED req
    PROVE  PInv'
<1>1. Live(r) /\ runs[r] \in Run
  BY RunShape DEF AwaitedRunFails, FullInv, TypeOK
<1> PICK s \in Sims : s = runs[r].sim
  BY <1>1 DEF Run
<1>2. Driving(r, s)
  BY <1>1 DEF Driving
<1>3. Untold(s)
  BY <1>2, RowOfRun DEF DriveInv
<1>4. Exit(r) /\ UNCHANGED <<now, rows, runQueue, abortQueue, feed>> /\ "call" \in FaultKinds
  BY DEF AwaitedRunFails, Fault
<1>5. Untold(s)' /\ Heard(s, rows[s].totalGoals + 1)'
  BY <1>3, <1>4 DEF Untold, SeenFinished, Heard
<1> QED
  BY <1>2, <1>4, <1>5, ExitKeeps

(* A process dies: its RUN command, if it had one in hand, waits again.    *)
LEMMA DeathKeeps ==
    ASSUME FullInv, TypeOK', MapInv', NEW w \in Workers, NEW job \in {runHandler[w], NoSim},
           Dies(w, job), UNCHANGED <<now, rows, feed, req>>
    PROVE  PInv'
<1>1. runHandler'[w] = NoSim /\ \A v \in Workers \ {w} : runHandler'[v] = runHandler[v]
  BY DEF Dies, FullInv, TypeOK, WorkerTypeOK
<1>2. abortHandler'[w] = Resting /\ \A v \in Workers \ {w} : abortHandler'[v] = abortHandler[v]
  BY DEF Dies, FullInv, TypeOK, WorkerTypeOK
<1>3. \A r \in Runs : Live(r)' => Live(r) /\ runs'[r] = runs[r]
  BY DEF Dies, Live
<1>4. ASSUME NEW s \in Sims PROVE TakersCalm(s) /\ RunsCalm(s) /\ EndersCalm(s)
  <2>1. TakersCalm(s)
    BY <1>1, WorkerAssumption DEF TakersCalm
  <2>2. RunsCalm(s)
    BY <1>3 DEF RunsCalm, Driving, SameRun
  <2>3. EndersCalm(s)
    BY <1>2 DEF EndersCalm, Ending, Resting
  <2> QED
    BY <2>1, <2>2, <2>3
<1>5. ASSUME NEW s \in Sims PROVE FinishesCalm(s)
  <2>1. CASE abortHandler[w] = Resting
    <3>1. abortQueue' = abortQueue
      BY <2>1 DEF Dies
    <3> QED
      BY <1>2, <3>1 DEF FinishesCalm, FinishAsked, Handling
  <2>2. CASE abortHandler[w] # Resting
    <3> PICK cmd : cmd = [sim |-> abortHandler[w].sim, finishedAt |-> abortHandler[w].finishedAt]
      OBVIOUS
    <3>1. cmd \in AbortCommand
      BY <2>2, HandlerShape DEF FullInv, TypeOK, WorkerTypeOK, AbortCommand
    <3>2. abortQueue' = <<cmd>> \o abortQueue
      BY <2>2 DEF Dies
    <3>3. \A i \in DOMAIN abortQueue' :
            abortQueue'[i] = cmd \/ \E j \in DOMAIN abortQueue : abortQueue'[i] = abortQueue[j]
      BY <3>1, <3>2, AbortJoins DEF FullInv, TypeOK, ServicesTypeOK
    <3>4. cmd.sim = abortHandler[w].sim /\ cmd.finishedAt = abortHandler[w].finishedAt
      OBVIOUS
    <3>5. ASSUME NEW t \in Nat, FinishAsked(s, t)'
          PROVE  FinishAsked(s, t)
      <4>1. CASE \E c \in Clients : req'[c].pc = "abort" /\ req'[c].sim = s /\ req'[c].finishedAt = t
        BY <4>1 DEF FinishAsked
      <4>2. CASE \E i \in DOMAIN abortQueue' : abortQueue'[i].sim = s /\ abortQueue'[i].finishedAt = t
        BY <2>2, <3>3, <3>4, <4>2 DEF FinishAsked, Handling
      <4>3. CASE \E v \in Workers : Handling(v, s)' /\ abortHandler'[v].finishedAt = t
        BY <1>2, <4>3 DEF FinishAsked, Handling
      <4> QED
        BY <3>5, <4>1, <4>2, <4>3 DEF FinishAsked
    <3> QED
      BY <3>5 DEF FinishesCalm
  <2> QED
    BY <2>1, <2>2
<1>6. now \in Nat
  BY DEF FullInv, TypeOK, ServicesTypeOK
<1>7. CASE job = NoSim
  <2>1. UNCHANGED runQueue
    BY <1>7 DEF Dies
  <2> QED
    BY <1>2, <1>3, <1>4, <1>5, <2>1, Unmoved, CalmWorker DEF Resting
<1>8. CASE job # NoSim
  <2> PICK s \in Sims : s = job /\ runHandler[w] = s
    BY <1>8 DEF FullInv, TypeOK, WorkerTypeOK
  <2> PICK p \in Profiles, q \in Seq(Sims) : p = ProfileOf[w] /\ q = runQueue[p]
    BY WorkerAssumption DEF FullInv, TypeOK, ServicesTypeOK
  <2>1. runQueue' = [runQueue EXCEPT ![p] = IF FALSE THEN Append(q, s) ELSE <<s>> \o q]
    BY <1>8 DEF Dies
  <2>2. /\ \A x \in Sims \ {s} : QueueCalm(x)
        /\ ~Waiting(s) => Once(s)'
    BY <2>1, Joins DEF FullInv
  <2>3. ASSUME NEW x \in Sims \ {s} PROVE Calm(x)
    BY <1>4, <1>5, <1>6, <2>2, Unmoved DEF Calm, Still
  <2>4. rows[s] # NoRow /\ ~Restartable(s) /\ SimInv(s)
    BY ActedOn
  <2>5. /\ NoWriter(s) /\ ~Waiting(s) /\ NoDriver(s) /\ NoEnder(s)
        /\ \A v \in Workers \ {w} : runHandler[v] # s
        /\ Ready(s)
    BY <2>4, TakerAlone DEF SimInv
  <2>6. SimInv(s)'
    <3>1. NoWriter(s)' /\ NoDriver(s)' /\ NoEnder(s)'
      BY <1>4, <2>5 DEF NoWriter, Writing, NoDriver, RunsCalm, NoEnder, EndersCalm
    <3>2. NoTaker(s)'
      BY <1>1, <2>5, WorkerAssumption DEF NoTaker
    <3>3. Ready(s)'
      BY <2>5 DEF Ready, Untold, SeenFinished, Heard
    <3>4. Dated(s)'
      BY <1>5, <1>6, <2>4, StillDated DEF SimInv, FullInv
    <3> QED
      BY <2>2, <2>5, <3>1, <3>2, <3>3, <3>4, OnlyCommand
  <2>7. DrainsItsOwn'
    BY <1>2, <1>3, DrainsKeep DEF Resting
  <2>8. \A x \in Sims : Calm(x) \/ Handled(x)
    BY <2>3, <2>4, <2>6 DEF Handled
  <2> QED
    BY <2>7, <2>8, WorkerConcludes, SameRows
<1> QED
  BY <1>7, <1>8

LEMMA EngineKeeps ==
    ASSUME FullInv, TypeOK', MapInv', IdentityStays, NoNewRow, NEW r \in Runs,
           Engine(r) \/ AwaitedRunFails(r) \/ UnawaitedRunFails(r),
           UNCHANGED req
    PROVE  PInv'
<1>1. ~WakeThrows(r)
  <2> SUFFICES ASSUME WakeThrows(r) PROVE FALSE
    OBVIOUS
  <2>1. Live(r) /\ runs[r] \in Run /\ runs[r].pc = "sleep" /\ runs[r].copy.state = "FINISHED"
    BY RunShape DEF WakeThrows, FullInv, TypeOK
  <2> PICK s \in Sims : Driving(r, s)
    BY <2>1 DEF Run, Driving
  <2> QED
    BY <2>1, RowOfRun DEF DriveInv
<1>2. CASE UnawaitedRunFails(r)
  <2>1. runs[r] \in Run
    BY <1>2, RunShape DEF UnawaitedRunFails, FullInv, TypeOK
  <2> PICK w \in Workers : w = runs[r].worker
    BY <2>1 DEF Run
  <2>2. Dies(w, runHandler[w]) /\ UNCHANGED <<now, rows, feed>>
    BY <1>2 DEF UnawaitedRunFails
  <2> QED
    BY <2>2, DeathKeeps
<1> QED
  BY <1>1, <1>2, WakeKeeps, SaveRunKeeps, PublishAndExitKeeps, PublishAndGoOnKeeps,
     AwaitedRunFailsKeeps DEF Engine

LEMMA WorkersKeepDrivers ==
    ASSUME FullInv, TypeOK', MapInv', WorkerNext
    PROVE  PInv'
<1>1. IdentityStays /\ NoNewRow /\ UNCHANGED req
  BY WorkersKeepIdentity DEF FullInv, WorkerNext
<1>2. ASSUME NEW w \in Workers, Drained(w) \/ Crash(w)
      PROVE  PInv'
  <2>1. \E job \in {runHandler[w], NoSim} : Dies(w, job)
    BY <1>2 DEF Drained, Crash
  <2>2. UNCHANGED <<now, rows, feed>>
    BY <1>2 DEF Drained, Crash
  <2> QED
    BY <1>1, <2>1, <2>2, DeathKeeps
<1>3. ASSUME NEW w \in Workers,
             \/ TakeRun(w) \/ HandleRun(w) \/ DropAbort(w) \/ TakeAbort(w) \/ HandleAbort(w)
             \/ RunHandlerFails(w) \/ AbortHandlerFails(w)
      PROVE  PInv'
  BY <1>1, <1>3, TakeRunKeeps, HandleRunKeeps, DropAbortKeeps, TakeAbortKeeps, AbortFindKeeps,
     AbortSaveKeeps, AbortPublishKeeps, HandlerFailsKeeps DEF HandleAbort
<1>4. ASSUME NEW w \in Workers, Shutdown(w) \/ Stop(w) \/ Boot(w)
      PROVE  PInv'
  BY <1>1, <1>2, <1>4, PhaseKeeps, AbortInFlightKeeps DEF Stop
<1>5. ASSUME NEW r \in Runs, Engine(r) \/ AwaitedRunFails(r) \/ UnawaitedRunFails(r)
      PROVE  PInv'
  BY <1>1, <1>5, EngineKeeps
<1> QED
  BY <1>2, <1>3, <1>4, <1>5 DEF WorkerNext

LEMMA PInvInit == ASSUME Init PROVE PInv
<1> USE DEF Init, ServicesInit, OrchestratorInit, WorkerInit
<1>1. OwnRequests /\ Throttled /\ AskersWait /\ DrainsItsOwn
  BY DEF OwnRequests, Throttled, AskersWait, DrainsItsOwn, Igniting, Asking, Idle, Resting
<1>2. ASSUME NEW s \in Sims PROVE SimInv(s)
  <2>1. /\ NoWriter(s) /\ NoTaker(s) /\ NoDriver(s) /\ NoEnder(s)
        /\ \A t \in Nat : ~FinishAsked(s, t)
    BY WorkerAssumption
    DEF NoWriter, Writing, NoTaker, NoDriver, Driving, Live, NoEnder, Ending, FinishAsked,
        Handling, Idle, Resting
  <2>2. ~Waiting(s)
    BY DEF Waiting
  <2>3. Sole(s, 0)
    BY <2>1, <2>2 DEF Sole, NoWriter, NoTaker, NoDriver, NoEnder
  <2> QED
    BY <2>1, <2>2, <2>3 DEF SimInv, Once, Waiting, Dated, NoWriter, NoTaker, NoDriver, NoEnder
<1> QED
  BY <1>1, <1>2 DEF PInv

LEMMA PInvStep ==
    ASSUME FullInv, TypeOK', MapInv', Patient, OneClientEach, [Next]_vars
    PROVE  PInv'
<1>1. CASE OrchestratorNext
  BY <1>1, RequestsKeepDrivers
<1>2. CASE WorkerNext
  BY <1>2, WorkersKeepDrivers
<1>3. CASE (Tick /\ UNCHANGED <<req, workerVars>>) \/ UNCHANGED vars
  <2>1. /\ UNCHANGED <<rows, runQueue, abortQueue, feed, req, workerVars>>
        /\ now' \in Nat /\ now' >= now
    BY <1>3 DEF Tick, vars, serviceVars, FullInv, TypeOK, ServicesTypeOK
  <2>2. ASSUME NEW s \in Sims PROVE Calm(s)
    BY <2>1, Unmoved DEF Calm, Still, RowCalm, workerVars
  <2>3. DrainsItsOwn'
    BY <2>1 DEF FullInv, PInv, DrainsItsOwn, workerVars
  <2> QED
    BY <2>1, <2>2, <2>3, WorkerConcludes, SameRows
<1> QED
  BY <1>1, <1>2, <1>3 DEF Next

(* One client for each user, and only patient ones: the invariant holds.   *)
LEMMA FullInvariance ==
    ASSUME Patient, OneClientEach
    PROVE  Spec => []FullInv
<1>1. Spec => [](TypeOK /\ RowsInv /\ IdInv)
  BY IdentityInvariance
<1>2. Spec => []MapInv
  BY TypeCorrect, MapInvInit, MapInvStep, PTL DEF Spec
<1>3. TypeOK /\ RowsInv /\ IdInv /\ MapInv /\ PInv /\ TypeOK' /\ MapInv' /\ [Next]_vars => PInv'
  BY PInvStep DEF FullInv
<1>4. Spec => [](TypeOK /\ RowsInv /\ IdInv /\ MapInv /\ PInv)
  BY <1>1, <1>2, <1>3, PInvInit, PTL DEF Spec
<1> QED
  BY <1>4 DEF FullInv

-----------------------------------------------------------------------------
(* The theorems. *)

(* A driver is one of those who act, and the row it drives is RUNNING. *)
LEMMA DriverForms ==
    ASSUME FullInv, NEW s \in Sims, NEW d \in Drivers(s)
    PROVE  /\ rows[s].state = "RUNNING"
           /\ \/ \E c \in Clients : d = <<"request", c>> /\ Writing(c, s)
              \/ \E p \in Profiles : \E i \in DOMAIN runQueue[p] :
                   d = <<"command", p, i>> /\ runQueue[p][i] = s
              \/ \E w \in Workers : d = <<"runHandler", w>> /\ runHandler[w] = s
              \/ \E r \in Runs : d = <<"run", r>> /\ Driving(r, s)
              \/ \E w \in Workers : d = <<"abortHandler", w>> /\ Ending(w, s)
<1>1. SimInv(s)
  BY DEF FullInv, PInv
<1>2. CASE \E c \in Clients : d = <<"request", c>> /\ Writing(c, s)
  BY <1>1, <1>2 DEF SimInv, WriteInv
<1>3. CASE \E p \in Profiles : \E i \in DOMAIN runQueue[p] :
             d = <<"command", p, i>> /\ runQueue[p][i] = s
  BY <1>1, <1>3 DEF SimInv, Waiting, Ready
<1>4. CASE \E w \in Workers : d = <<"runHandler", w>> /\ runHandler[w] = s
  BY <1>1, <1>4 DEF SimInv, Ready
<1>5. CASE \E r \in Runs : /\ d = <<"run", r>> /\ Driving(r, s)
                           /\ runs[r].pc = "publish" => runs[r].copy.state = "RUNNING"
  <2> PICK r \in Runs : /\ d = <<"run", r>> /\ Driving(r, s)
                        /\ runs[r].pc = "publish" => runs[r].copy.state = "RUNNING"
    BY <1>5
  <2>1. runs[r].pc \in {"sleep", "save", "publish"} /\ DriveInv(r, s)
    BY <1>1, RunShape DEF SimInv, Driving, FullInv, TypeOK, Run
  <2> QED
    BY <2>1 DEF DriveInv
<1>6. CASE \E w \in Workers : d = <<"abortHandler", w>> /\ Ending(w, s)
                              /\ abortHandler[w].pc \in {"find", "save"}
  BY <1>1, <1>6 DEF SimInv, Ending, EndInv
<1> DEFINE
      Requests == {"request"} \X {c \in Clients : req[c].pc \in {"publish", "dispatch"} /\ req[c].sim = s}
      Commands == UNION {{<<"command", p, i>> : i \in {j \in DOMAIN runQueue[p] : runQueue[p][j] = s}}
                         : p \in Profiles}
      Takers == {"runHandler"} \X {w \in Workers : runHandler[w] = s}
      Engines == {"run"} \X {r \in Runs :
                   /\ Live(r)
                   /\ runs[r].sim = s
                   /\ runs[r].pc = "publish" => runs[r].copy.state = "RUNNING"}
      Enders == {"abortHandler"} \X {w \in Workers :
                   /\ abortHandler[w].pc \in {"find", "save"}
                   /\ abortHandler[w].sim = s
                   /\ abortHandler[w].pc = "find" => rows[s].state = "RUNNING"}
<1>7. Drivers(s) = Requests \cup Commands \cup Takers \cup Engines \cup Enders
  BY DEF Drivers
<1>8. d \in Requests => \E c \in Clients : d = <<"request", c>> /\ Writing(c, s)
  BY DEF Writing
<1>9. d \in Commands => \E p \in Profiles : \E i \in DOMAIN runQueue[p] :
        d = <<"command", p, i>> /\ runQueue[p][i] = s
  OBVIOUS
<1>10. d \in Takers => \E w \in Workers : d = <<"runHandler", w>> /\ runHandler[w] = s
  OBVIOUS
<1>11. d \in Engines => \E r \in Runs : /\ d = <<"run", r>> /\ Driving(r, s)
                                        /\ runs[r].pc = "publish" => runs[r].copy.state = "RUNNING"
  BY DEF Driving
<1>12. d \in Enders => \E w \in Workers : d = <<"abortHandler", w>> /\ Ending(w, s)
                                           /\ abortHandler[w].pc \in {"find", "save"}
  BY DEF Ending
<1> HIDE DEF Requests, Commands, Takers, Engines, Enders
<1> QED
  BY <1>2, <1>3, <1>4, <1>5, <1>6, <1>7, <1>8, <1>9, <1>10, <1>11, <1>12

LEMMA OneDriver ==
    ASSUME FullInv, NEW s \in Sims, NEW d \in Drivers(s), NEW e \in Drivers(s)
    PROVE  d = e
<1>1. PICK a : Sole(s, a)
  BY DEF FullInv, PInv, SimInv
<1>2. Once(s)
  BY DEF FullInv, PInv, SimInv
<1>3. ASSUME NEW f \in Drivers(s)
      PROVE  \/ f = a /\ a[1] # "command"
             \/ /\ a = <<"command", s>>
                /\ \E p \in Profiles : \E i \in DOMAIN runQueue[p] :
                     f = <<"command", p, i>> /\ runQueue[p][i] = s
  BY <1>1, DriverForms DEF Sole, Waiting
<1>4. CASE a[1] # "command"
  BY <1>3, <1>4
<1>5. CASE a = <<"command", s>>
  BY <1>2, <1>3, <1>5 DEF Once
<1> QED
  BY <1>3, <1>4, <1>5

LEMMA AloneAtMost ==
    ASSUME NEW S, \A d, e \in S : d = e
    PROVE  Cardinality(S) <= 1
<1>1. CASE S = {}
  BY <1>1, FS_EmptySet
<1>2. CASE S # {}
  <2> PICK d : d \in S
    BY <1>2
  <2>1. S = {d}
    OBVIOUS
  <2>2. Cardinality({d}) = 1
    BY FS_Singleton
  <2> QED
    BY <2>1, <2>2
<1> QED
  BY <1>1, <1>2

(* Between the save of an ignition and the last save of its run there is   *)
(* one request, one RUN command, one run or one handler of ABORT, and      *)
(* nobody else, that may write the row: whatever fails, no upsert of all   *)
(* columns (postgres-simulation.repository.ts:26) undoes another.          *)
THEOREM NobodyWritesBehind ==
    ASSUME Patient, OneClientEach
    PROVE  Spec => []AtMostOneDriver
<1>1. FullInv => AtMostOneDriver
  <2> SUFFICES ASSUME FullInv, NEW s \in Sims
               PROVE  Cardinality(Drivers(s)) <= (IF rows[s].state = "RUNNING" THEN 1 ELSE 0)
    BY DEF AtMostOneDriver
  <2>1. Cardinality(Drivers(s)) <= 1
    BY OneDriver, AloneAtMost
  <2>2. CASE Drivers(s) = {}
    BY <2>2, FS_EmptySet
  <2>3. CASE Drivers(s) # {}
    BY <2>1, <2>3, DriverForms
  <2> QED
    BY <2>2, <2>3
<1> QED
  BY <1>1, FullInvariance, PTL

-----------------------------------------------------------------------------
(* What a room is told. *)

LEMMA WordsAgree ==
    ASSUME NEW sim \in Aggregate, NEW reason, NEW event \in Event, NEW row,
           \/ event \in Ignitions /\ row.state = "RUNNING" /\ row.totalGoals = 0
           \/ event = GoalScored(sim) /\ row = sim /\ sim.state = "RUNNING"
           \/ event = SimulationFinished(reason, sim) /\ row = sim /\ sim.state = "FINISHED"
    PROVE  Agrees(event, row)
<1>1. /\ GoalScored(sim).type = "GoalScored" /\ GoalScored(sim).totalGoals = sim.totalGoals
      /\ SimulationFinished(reason, sim).type = "SimulationFinished"
      /\ SimulationFinished(reason, sim).totalGoals = sim.totalGoals
      /\ \A word \in Ignitions : word.type \notin {"GoalScored", "SimulationFinished"}
  BY DEF GoalScored, SimulationFinished, Ignitions, SimulationStarted, SimulationRestarted
<1> QED
  BY <1>1 DEF Agrees

(* A room that hears something hears what its row is by now. *)
LEMMA HeardAgrees ==
    ASSUME FullInv, NEW x \in Sims, NEW event \in Event, Publish(x, event), Agrees(event, rows[x]),
           NEW s \in Sims, feed'[s] # feed[s]
    PROVE  Agrees(feed'[s][Len(feed'[s])], rows[s])
<1>1. /\ feed'[x][Len(feed'[x])] = event
      /\ \A y \in Sims \ {x} : feed'[y] = feed[y]
  BY PublishRead DEF FullInv, TypeOK
<1>2. s = x
  BY <1>1
<1> QED
  BY <1>1, <1>2

LEMMA RequestTellsRow ==
    ASSUME FullInv, NEW c \in Clients, PublishIgnition(c), NEW s \in Sims, feed'[s] # feed[s]
    PROVE  Agrees(feed'[s][Len(feed'[s])], rows[s])
<1>1. /\ req[c] \in Ignition /\ req[c].pc = "publish"
      /\ req[c].sim \in Sims /\ req[c].event \in Ignitions /\ req[c].copy \in Aggregate
  BY RequestShape DEF PublishIgnition, Igniting, FullInv, TypeOK, Ignition
<1> PICK x \in Sims : x = req[c].sim
  BY <1>1
<1>2. WriteInv(c, x)
  BY <1>1 DEF FullInv, PInv, SimInv, Writing
<1>3. Agrees(req[c].event, rows[x])
  BY <1>1, <1>2, WordsAgree, IgnitionEvents DEF WriteInv
<1>4. Publish(x, req[c].event) /\ req[c].event \in Event
  BY <1>1, IgnitionEvents DEF PublishIgnition
<1> QED
  BY <1>3, <1>4, HeardAgrees

LEMMA RunTellsRow ==
    ASSUME FullInv, NEW r \in Runs, runs[r].pc = "publish", Publish(runs[r].sim, RunEvent(r)),
           NEW s \in Sims, feed'[s] # feed[s]
    PROVE  Agrees(feed'[s][Len(feed'[s])], rows[s])
<1>1. Live(r) /\ runs[r] \in Run
  BY RunShape DEF FullInv, TypeOK
<1> PICK x \in Sims : x = runs[r].sim
  BY <1>1 DEF Run
<1>2. Driving(r, x)
  BY <1>1 DEF Driving
<1>3. rows[x] = runs[r].copy /\ runs[r].copy \in Aggregate
  BY <1>2, RowOfRun DEF DriveInv
<1> PICK copy \in Aggregate : copy = runs[r].copy
  BY <1>3
<1>4. copy.state \in {"RUNNING", "FINISHED"}
  BY DEF Aggregate
<1>5. RunEvent(r) \in Event
  BY EventTypes DEF RunEvent
<1>6. Agrees(RunEvent(r), rows[x])
  BY <1>3, <1>4, <1>5, WordsAgree DEF RunEvent
<1> QED
  BY <1>5, <1>6, HeardAgrees

LEMMA HandlerTellsRow ==
    ASSUME FullInv, NEW w \in Workers, AbortPublish(w), NEW s \in Sims, feed'[s] # feed[s]
    PROVE  Agrees(feed'[s][Len(feed'[s])], rows[s])
<1>1. abortHandler[w] \in Finishing /\ abortHandler[w].pc = "publish"
  BY HandlerShape DEF AbortPublish, FullInv, TypeOK, WorkerTypeOK
<1> PICK x \in Sims, copy \in Aggregate : x = abortHandler[w].sim /\ copy = abortHandler[w].copy
  BY <1>1 DEF Finishing
<1>2. EndInv(w, x)
  BY <1>1 DEF FullInv, PInv, SimInv, Ending
<1>3. SimulationFinished("manual", copy) \in Event
  BY EventTypes
<1>4. Agrees(SimulationFinished("manual", copy), rows[x])
  BY <1>1, <1>2, <1>3, WordsAgree DEF EndInv
<1> QED
  BY <1>3, <1>4, HeardAgrees DEF AbortPublish

(* The other steps of the workers tell nothing. *)
LEMMA WorkersTell ==
    ASSUME WorkerNext
    PROVE  \/ UNCHANGED feed
           \/ \E r \in Runs : runs[r].pc = "publish" /\ Publish(runs[r].sim, RunEvent(r))
           \/ \E w \in Workers : AbortPublish(w)
<1> USE DEF serviceVars, workerVars
<1>1. ASSUME NEW w \in Workers, TakeRun(w) \/ HandleRun(w)
      PROVE  UNCHANGED feed
  BY <1>1 DEF TakeRun, HandleRun, BeginRun, BeginEmptyRun, BeginThrows, Launch
<1>2. ASSUME NEW w \in Workers, DropAbort(w) \/ TakeAbort(w) \/ AbortFind(w) \/ AbortSave(w)
      PROVE  UNCHANGED feed
  BY <1>2 DEF DropAbort, TakeAbort, AbortFind, AbortSave
<1>3. ASSUME NEW w \in Workers,
             \/ Shutdown(w) \/ Stop(w) \/ Boot(w) \/ Crash(w)
             \/ RunHandlerFails(w) \/ AbortHandlerFails(w)
      PROVE  UNCHANGED feed
  BY <1>3 DEF Shutdown, Stop, CloseAborts, AbortInFlight, Drained, Boot, Crash,
              RunHandlerFails, AbortHandlerFails
<1>4. ASSUME NEW r \in Runs,
             \/ Wake(r) \/ WakeThrows(r) \/ SaveRun(r)
             \/ AwaitedRunFails(r) \/ UnawaitedRunFails(r)
      PROVE  UNCHANGED feed
  BY <1>4 DEF Wake, WakeThrows, SaveRun, AwaitedRunFails, UnawaitedRunFails
<1>5. ASSUME NEW r \in Runs, PublishAndExit(r) \/ PublishAndSleep(r) \/ PublishAndFinish(r)
      PROVE  runs[r].pc = "publish" /\ Publish(runs[r].sim, RunEvent(r))
  BY <1>5 DEF PublishAndExit, PublishAndSleep, PublishAndFinish, PublishAndGoOn
<1> QED
  BY <1>1, <1>2, <1>3, <1>4, <1>5 DEF WorkerNext, HandleAbort, Engine

LEMMA RequestsTell ==
    ASSUME OrchestratorNext
    PROVE  UNCHANGED feed \/ \E c \in Clients : PublishIgnition(c)
BY DEF OrchestratorNext, Serve, StartRequest, ClientRestarts, RestartRequest, FinishRequest,
       EnsureCanIgnite, SaveIgnition, DispatchIgnition, DispatchFinish, RequestFails, serviceVars

(* At the moment a room hears of a goal, a start or an end, the row says   *)
(* the same, whatever failed before: every publish follows the save of the *)
(* copy it reports (simulation-worker.handler.ts:82), and nobody has       *)
(* saved another in between.                                               *)
THEOREM TellingFollowsStoring ==
    ASSUME Patient, OneClientEach
    PROVE  Spec => ToldIsStored
<1> DEFINE A == \A s \in Sims : feed'[s] # feed[s] => Agrees(feed'[s][Len(feed'[s])], rows[s])
<1>1. FullInv /\ [Next]_vars => [A]_vars
  <2> SUFFICES ASSUME FullInv, Next, NEW s \in Sims, feed'[s] # feed[s]
               PROVE  Agrees(feed'[s][Len(feed'[s])], rows[s])
    OBVIOUS
  <2>1. CASE OrchestratorNext
    BY <2>1, RequestsTell, RequestTellsRow
  <2>2. CASE WorkerNext
    BY <2>2, WorkersTell, RunTellsRow, HandlerTellsRow
  <2>3. ~Tick
    BY DEF Tick
  <2> QED
    BY <2>1, <2>2, <2>3 DEF Next
<1>2. Spec => [][A]_vars
  BY <1>1, FullInvariance, PTL DEF Spec
<1> QED
  BY <1>2 DEF ToldIsStored

-----------------------------------------------------------------------------
(* The order in which a room is told. *)

(* The events f, told of a simulation of profile p, are in order. *)
InOrder(f, p) ==
    \A i \in DOMAIN f :
        CASE i = 1 -> f[i] \in Ignitions
          [] i > 1 /\ f[i].type = "GoalScored" -> f[i].totalGoals = i - 1
          [] i > 1 /\ f[i].type = "SimulationFinished" ->
               /\ i = Len(f)
               /\ f[i].totalGoals = i - 2
               /\ f[i].reason = "auto" /\ p \in FixedLength => f[i].totalGoals = GoalCount
          [] OTHER -> FALSE

TellInv(s) ==
    /\ InOrder(feed[s], rows[s].profile)
    /\ feed[s] # << >> => rows[s] # NoRow

(* What may be told next. *)
Follows(event, f, p) ==
    \/ event \in Ignitions
    \/ /\ f # << >> /\ f[Len(f)].type # "SimulationFinished"
       /\ \/ event.type = "GoalScored" /\ event.totalGoals = Len(f)
          \/ /\ event.type = "SimulationFinished"
             /\ event.totalGoals = Len(f) - 1
             /\ event.reason = "auto" /\ p \in FixedLength => event.totalGoals = GoalCount

LEMMA OrderKept ==
    ASSUME NEW f \in Seq(Event), NEW p, InOrder(f, p), NEW event \in Event, Follows(event, f, p)
    PROVE  InOrder(Forward(f, event), p)
<1>1. CASE event \in Ignitions
  <2>1. Forward(f, event) = <<event>>
    BY <1>1 DEF Forward
  <2> QED
    BY <1>1, <2>1 DEF InOrder
<1>2. CASE event \notin Ignitions
  <2> PICK g : g = Append(f, event)
    OBVIOUS
  <2>1. /\ DOMAIN g = 1 .. (Len(f) + 1) /\ Len(g) = Len(f) + 1 /\ Len(f) \in Nat
        /\ g[Len(f) + 1] = event
        /\ \A i \in DOMAIN f : g[i] = f[i]
        /\ DOMAIN f = 1 .. Len(f) /\ Len(f) > 0
    BY <1>2 DEF Follows
  <2>2. \A i \in DOMAIN f : i > 1 => f[i].type = "GoalScored" /\ f[i].totalGoals = i - 1
    <3> SUFFICES ASSUME NEW i \in DOMAIN f, i > 1
                 PROVE  f[i].type = "GoalScored" /\ f[i].totalGoals = i - 1
      OBVIOUS
    <3>1. \/ f[i].type = "GoalScored" /\ f[i].totalGoals = i - 1
          \/ f[i].type = "SimulationFinished" /\ i = Len(f)
      BY <2>1 DEF InOrder
    <3> QED
      BY <1>2, <3>1 DEF Follows
  <2>3. f[1] \in Ignitions
    BY <2>1 DEF InOrder
  <2>4. InOrder(g, p)
    <3> SUFFICES ASSUME NEW i \in DOMAIN g
                 PROVE  CASE i = 1 -> g[i] \in Ignitions
                          [] i > 1 /\ g[i].type = "GoalScored" -> g[i].totalGoals = i - 1
                          [] i > 1 /\ g[i].type = "SimulationFinished" ->
                               /\ i = Len(g)
                               /\ g[i].totalGoals = i - 2
                               /\ g[i].reason = "auto" /\ p \in FixedLength =>
                                    g[i].totalGoals = GoalCount
                          [] OTHER -> FALSE
      BY DEF InOrder
    <3>1. CASE i \in DOMAIN f
      BY <2>1, <2>2, <2>3, <3>1
    <3>2. CASE i = Len(f) + 1
      BY <1>2, <2>1, <3>2 DEF Follows
    <3> QED
      BY <2>1, <3>1, <3>2
  <2> QED
    BY <1>2, <2>4 DEF Forward
<1> QED
  BY <1>1, <1>2

(* The room of x hears event, the other rooms nothing. *)
LEMMA OrderKeeps ==
    ASSUME FullInv, IdentityStays, NEW x \in Sims, NEW event \in Event, Publish(x, event),
           rows[x] # NoRow, Follows(event, feed[x], rows[x].profile),
           NEW s \in Sims, TellInv(s)
    PROVE  TellInv(s)'
<1>1. /\ feed'[x] = Forward(feed[x], event)
      /\ \A y \in Sims \ {x} : feed'[y] = feed[y]
  BY PublishRead DEF FullInv, TypeOK
<1>2. rows[s] # NoRow => rows'[s] # NoRow /\ rows'[s].profile = rows[s].profile
  BY DEF IdentityStays, Stays
<1>3. CASE s = x
  <2>1. feed[x] \in Seq(Event) /\ InOrder(feed[x], rows[x].profile)
    BY <1>3 DEF TellInv, FullInv, TypeOK, ServicesTypeOK
  <2>2. InOrder(feed'[x], rows[x].profile)
    BY <1>1, <2>1, OrderKept
  <2> QED
    BY <1>2, <1>3, <2>2 DEF TellInv
<1>4. CASE s # x
  BY <1>1, <1>2, <1>4 DEF TellInv, InOrder
<1> QED
  BY <1>3, <1>4

LEMMA IgnitionInOrder ==
    ASSUME FullInv, IdentityStays, NEW c \in Clients, PublishIgnition(c),
           NEW s \in Sims, TellInv(s)
    PROVE  TellInv(s)'
<1>1. /\ req[c] \in Ignition /\ req[c].pc = "publish"
      /\ req[c].sim \in Sims /\ req[c].event \in Ignitions /\ req[c].copy \in Aggregate
  BY RequestShape DEF PublishIgnition, Igniting, FullInv, TypeOK, Ignition
<1> PICK x \in Sims : x = req[c].sim
  BY <1>1
<1>2. rows[x] # NoRow
  BY <1>1, RowAssumption DEF FullInv, PInv, SimInv, Writing, WriteInv
<1>3. Publish(x, req[c].event) /\ req[c].event \in Event
  BY <1>1, IgnitionEvents DEF PublishIgnition
<1>4. Follows(req[c].event, feed[x], rows[x].profile)
  BY <1>1 DEF Follows
<1> QED
  BY <1>2, <1>3, <1>4, OrderKeeps

LEMMA RunInOrder ==
    ASSUME FullInv, IdentityStays, "call" \notin FaultKinds,
           NEW r \in Runs, runs[r].pc = "publish", Publish(runs[r].sim, RunEvent(r)),
           NEW s \in Sims, TellInv(s)
    PROVE  TellInv(s)'
<1>1. Live(r) /\ runs[r] \in Run
  BY RunShape DEF FullInv, TypeOK
<1> PICK x \in Sims : x = runs[r].sim
  BY <1>1 DEF Run
<1>2. Driving(r, x)
  BY <1>1 DEF Driving
<1>3. /\ runs[r].copy \in Aggregate /\ DriveInv(r, x) /\ rows[x] \in Aggregate
      /\ rows[x] # NoRow
  BY <1>2, RowOfRun, RowAssumption
<1> PICK copy \in Aggregate : copy = runs[r].copy
  BY <1>3
<1>4. /\ copy.state \in {"RUNNING", "FINISHED"} /\ rows[x] = copy
      /\ copy.totalGoals = runs[r].tick /\ copy.totalGoals \in Nat
      /\ runs[r].tick <= GoalCount
      /\ copy.state = "FINISHED" => NoMoreGoals(runs[r].worker, runs[r].tick)
  BY <1>3 DEF DriveInv, Aggregate
<1>5. RunEvent(r) \in Event
  BY EventTypes DEF RunEvent
<1>6. feed[x] # << >> /\ feed[x][Len(feed[x])].type # "SimulationFinished"
  BY <1>3 DEF DriveInv, Heard, Untold, SeenFinished
<1>7. Len(feed[x]) = copy.totalGoals + 1 - Pending(runs[r])
  BY <1>3, <1>4 DEF DriveInv, Heard
<1>8. copy.profile = ProfileOf[runs[r].worker]
  BY <1>1 DEF FullInv, IdInv, RunsKnow
<1>9. CASE copy.state = "RUNNING"
  <2>1. RunEvent(r).type = "GoalScored" /\ RunEvent(r).totalGoals = copy.totalGoals
    BY <1>9 DEF RunEvent, GoalScored
  <2>2. Len(feed[x]) = copy.totalGoals
    BY <1>4, <1>7, <1>9 DEF Pending
  <2> QED
    BY <1>3, <1>5, <1>6, <2>1, <2>2, OrderKeeps DEF Follows
<1>10. CASE copy.state = "FINISHED"
  <2>1. RunEvent(r).type = "SimulationFinished" /\ RunEvent(r).totalGoals = copy.totalGoals
    BY <1>10 DEF RunEvent, SimulationFinished
  <2>2. copy.totalGoals = Len(feed[x]) - 1
    BY <1>4, <1>7, <1>10 DEF Pending
  <2>3. rows[x].profile \in FixedLength => copy.totalGoals = GoalCount
    BY <1>4, <1>8, <1>10, WorkerAssumption DEF NoMoreGoals
  <2> QED
    BY <1>3, <1>5, <1>6, <2>1, <2>2, <2>3, OrderKeeps DEF Follows
<1> QED
  BY <1>4, <1>9, <1>10

LEMMA HandlerInOrder ==
    ASSUME FullInv, IdentityStays, "call" \notin FaultKinds, NEW w \in Workers, AbortPublish(w),
           NEW s \in Sims, TellInv(s)
    PROVE  TellInv(s)'
<1>1. abortHandler[w] \in Finishing /\ abortHandler[w].pc = "publish"
  BY HandlerShape DEF AbortPublish, FullInv, TypeOK, WorkerTypeOK
<1> PICK x \in Sims, copy \in Aggregate : x = abortHandler[w].sim /\ copy = abortHandler[w].copy
  BY <1>1 DEF Finishing
<1> PICK event \in Event : event = SimulationFinished("manual", copy)
  BY EventTypes
<1>2. /\ event.type = "SimulationFinished" /\ event.reason = "manual"
      /\ event.totalGoals = copy.totalGoals
  BY DEF SimulationFinished
<1>3. EndInv(w, x)
  BY <1>1 DEF FullInv, PInv, SimInv, Ending
<1>4. rows[x] = copy /\ rows[x] # NoRow /\ copy.totalGoals \in Nat
  BY <1>1, <1>3, RowAssumption DEF EndInv, Aggregate
<1>5. /\ feed[x] # << >> /\ feed[x][Len(feed[x])].type # "SimulationFinished"
      /\ Len(feed[x]) = copy.totalGoals + 1
  BY <1>3, <1>4 DEF EndInv, Heard, Untold, SeenFinished
<1>6. Follows(event, feed[x], rows[x].profile)
  BY <1>2, <1>4, <1>5 DEF Follows
<1> QED
  BY <1>4, <1>6, OrderKeeps DEF AbortPublish

(* What an observer of patient clients hears of a simulation: its start,   *)
(* the goals 1, 2, ... without a gap or a repetition, and at most once the *)
(* end, with the goals that were told; a simulation of fixed length that   *)
(* ends by itself had all its goals (uniform-random-goal-dynamics.ts:24).  *)
(* Requests may fail, processes may crash or be asked to stop; an awaited  *)
(* call of a worker that fails leaves a gap, and no call is retried.       *)
THEOREM RoomsHearInOrder ==
    ASSUME Patient, OneClientEach, "call" \notin FaultKinds
    PROVE  Spec => []FeedInOrder
<1> DEFINE A == \A s \in Sims : TellInv(s)
<1>1. Init => A
  BY DEF Init, ServicesInit, TellInv, InOrder
<1>2. FullInv /\ IdentityStays /\ A /\ [Next]_vars => A'
  <2> SUFFICES ASSUME FullInv, IdentityStays, A, [Next]_vars, NEW s \in Sims
               PROVE  TellInv(s)'
    OBVIOUS
  <2>1. CASE UNCHANGED feed
    <3>1. rows[s] # NoRow => rows'[s] # NoRow /\ rows'[s].profile = rows[s].profile
      BY DEF IdentityStays, Stays
    <3>2. TellInv(s)
      OBVIOUS
    <3> QED
      BY <2>1, <3>1, <3>2 DEF TellInv, InOrder
  <2>2. CASE OrchestratorNext
    BY <2>1, <2>2, RequestsTell, IgnitionInOrder
  <2>3. CASE WorkerNext
    BY <2>1, <2>3, WorkersTell, RunInOrder, HandlerInOrder
  <2>4. CASE Tick \/ UNCHANGED vars
    BY <2>1, <2>4 DEF Tick, vars, serviceVars
  <2> QED
    BY <2>2, <2>3, <2>4 DEF Next
<1>3. FullInv /\ [Next]_vars => IdentityStays
  BY StepKeepsIdentity DEF FullInv
<1>4. A => FeedInOrder
  BY DEF TellInv, InOrder, FeedInOrder
<1> HIDE DEF A
<1> QED
  BY <1>1, <1>2, <1>3, <1>4, FullInvariance, PTL DEF Spec

-----------------------------------------------------------------------------
(* Nothing throws: no process ends by itself. *)

(* What the code's two throws would take: applyGoal() on a FINISHED copy,  *)
(* finish() on a row that is not RUNNING.                                  *)
NothingThrows ==
    /\ \A r \in Runs : runs[r].pc = "sleep" => runs[r].copy.state = "RUNNING"
    /\ \A w \in Workers : runHandler[w] # NoSim => rows[runHandler[w]].state = "RUNNING"

LEMMA NoThrow == FullInv => NothingThrows
<1> SUFFICES ASSUME FullInv PROVE NothingThrows
  OBVIOUS
<1>1. ASSUME NEW r \in Runs, runs[r].pc = "sleep"
      PROVE  runs[r].copy.state = "RUNNING"
  <2>1. Live(r) /\ runs[r] \in Run
    BY <1>1, RunShape DEF FullInv, TypeOK
  <2> PICK s \in Sims : Driving(r, s)
    BY <2>1 DEF Run, Driving
  <2> QED
    BY <1>1, RowOfRun DEF DriveInv
<1>2. ASSUME NEW w \in Workers, runHandler[w] # NoSim
      PROVE  rows[runHandler[w]].state = "RUNNING"
  <2> PICK s \in Sims : s = runHandler[w]
    BY <1>2 DEF FullInv, TypeOK, WorkerTypeOK
  <2> QED
    BY DEF FullInv, PInv, SimInv, Ready
<1> QED
  BY <1>1, <1>2 DEF NothingThrows

(* Whatever fails around them, the engine never calls applyGoal() and the  *)
(* handler of RUN never finish() on a simulation that is not RUNNING: the  *)
(* InvalidStateError of simulation.ts, which nobody catches and which ends *)
(* the process with every run in it, is never raised.                      *)
THEOREM RunsNeverThrow ==
    ASSUME Patient, OneClientEach
    PROVE  Spec => []NothingThrows
BY FullInvariance, NoThrow, PTL

AllUp == \A w \in Workers : phase[w] = "up"

OnlyRequestsFail == FaultKinds \subseteq {"request"}

(* What the workers may do, then. *)
LEMMA QuietWorkers ==
    ASSUME FullInv, OnlyRequestsFail, AllUp, WorkerNext
    PROVE  /\ \/ \E w \in Workers :
                    \/ TakeRun(w) \/ BeginRun(w) \/ BeginEmptyRun(w)
                    \/ DropAbort(w) \/ TakeAbort(w)
                    \/ AbortFind(w) \/ AbortSave(w) \/ AbortPublish(w)
              \/ \E r \in Runs :
                    \/ Wake(r) \/ SaveRun(r)
                    \/ PublishAndExit(r) \/ PublishAndSleep(r) \/ PublishAndFinish(r)
           /\ UNCHANGED req
<1>1. \A w \in Workers : ~Shutdown(w) /\ ~Crash(w) /\ ~RunHandlerFails(w) /\ ~AbortHandlerFails(w)
  BY DEF OnlyRequestsFail, Shutdown, Crash, RunHandlerFails, AbortHandlerFails, Fault
<1>2. \A r \in Runs : ~AwaitedRunFails(r) /\ ~UnawaitedRunFails(r)
  BY DEF OnlyRequestsFail, AwaitedRunFails, UnawaitedRunFails, Fault
<1>3. \A w \in Workers : ~Stop(w) /\ ~Boot(w)
  BY DEF AllUp, Stop, CloseAborts, AbortInFlight, Drained, Boot
<1>4. \A r \in Runs : ~WakeThrows(r)
  BY NoThrow DEF NothingThrows, WakeThrows
<1>5. \A w \in Workers : ~BeginThrows(w)
  BY NoThrow DEF NothingThrows, BeginThrows
<1> QED
  BY <1>1, <1>2, <1>3, <1>4, <1>5 DEF WorkerNext, HandleRun, HandleAbort, Engine

LEMMA ProcessesStay ==
    ASSUME FullInv, OnlyRequestsFail, AllUp, [Next]_vars
    PROVE  AllUp'
<1>1. CASE WorkerNext
  <2>1. UNCHANGED phase
    BY <1>1, QuietWorkers
    DEF TakeRun, BeginRun, BeginEmptyRun, Launch, DropAbort, TakeAbort, AbortFind, AbortSave,
        AbortPublish, Wake, SaveRun, PublishAndExit, Exit, PublishAndSleep, PublishAndFinish,
        workerVars
  <2> QED
    BY <2>1 DEF AllUp
<1>2. CASE OrchestratorNext \/ (Tick /\ UNCHANGED <<req, workerVars>>) \/ UNCHANGED vars
  BY <1>2 DEF OrchestratorNext, AllUp, workerVars, vars
<1> QED
  BY <1>1, <1>2 DEF Next

(* Unless it is killed, asked to stop, or an awaited call of it fails, no  *)
(* worker goes down: requests that fail or break off between two of their  *)
(* calls leave no row, command or run behind that throws in a worker.      *)
THEOREM NoWorkerEnds ==
    ASSUME Patient, OneClientEach, OnlyRequestsFail
    PROVE  Spec => []WorkersSurvive
<1>1. Init => AllUp
  BY DEF Init, WorkerInit, AllUp
<1>2. FullInv /\ AllUp /\ [Next]_vars => AllUp'
  BY ProcessesStay
<1>3. AllUp => WorkersSurvive
  BY DEF AllUp, WorkersSurvive
<1> QED
  BY <1>1, <1>2, <1>3, FullInvariance, PTL DEF Spec

-----------------------------------------------------------------------------
(* Somebody acts on every simulation that is RUNNING, if nothing fails. *)

Acting(s) ==
    \/ \E c \in Clients : Writing(c, s)
    \/ Waiting(s)
    \/ \E w \in Workers : runHandler[w] = s
    \/ \E r \in Runs : Driving(r, s)
    \/ \E w \in Workers : Ending(w, s)

RowIsRunning(s) == rows[s] # NoRow /\ rows[s].state = "RUNNING"

Driven == \A s \in Sims : RowIsRunning(s) => Acting(s)

(* The handler of ABORT that told a run to stop waits for it. *)
AbortedIsAwaited ==
    \A r \in Runs : Live(r) /\ runs[r].aborted =>
        /\ abortHandler[runs[r].worker].pc = "draining"
        /\ abortHandler[runs[r].worker].run = r

(* Who acted on s still does. *)
WritersStay(s) == \A c \in Clients : Writing(c, s) => Writing(c, s)'

CommandsStay(s) == Waiting(s) => Waiting(s)'

TakersStay(s) == \A w \in Workers : runHandler[w] = s => runHandler'[w] = s

DriversStay(s) == \A r \in Runs : Driving(r, s) => Driving(r, s)'

EndersStay(s) == \A w \in Workers : Ending(w, s) => Ending(w, s)'

ActorsStay(s) ==
    /\ RowIsRunning(s)' => RowIsRunning(s)
    /\ WritersStay(s)
    /\ CommandsStay(s)
    /\ TakersStay(s)
    /\ DriversStay(s)
    /\ EndersStay(s)

LEMMA StillDriven ==
    ASSUME Driven, \A s \in Sims : ActorsStay(s) \/ ~RowIsRunning(s)' \/ Acting(s)'
    PROVE  Driven'
<1> SUFFICES ASSUME NEW s \in Sims, RowIsRunning(s)'
             PROVE  Acting(s)'
  BY DEF Driven
<1>1. CASE ActorsStay(s)
  <2>1. Acting(s)
    BY <1>1 DEF Driven, ActorsStay
  <2> QED
    BY <1>1, <2>1
    DEF Acting, ActorsStay, WritersStay, CommandsStay, TakersStay, DriversStay, EndersStay
<1> QED
  BY <1>1

LEMMA Unhurried ==
    ASSUME NEW s \in Sims
    PROVE  /\ UNCHANGED req => WritersStay(s)
           /\ UNCHANGED runQueue => CommandsStay(s)
           /\ UNCHANGED runHandler => TakersStay(s)
           /\ UNCHANGED runs => DriversStay(s)
           /\ UNCHANGED abortHandler /\ rows'[s] = rows[s] => EndersStay(s)
           /\ rows'[s] = rows[s] => (RowIsRunning(s)' <=> RowIsRunning(s))
BY DEF WritersStay, CommandsStay, TakersStay, DriversStay, EndersStay, Writing, Waiting, Driving,
       Live, Ending, RowIsRunning

LEMMA CommandsKept ==
    ASSUME TypeOK, NEW p \in Profiles, NEW q \in Seq(Sims), q = runQueue[p], NEW x \in Sims
    PROVE  /\ runQueue' = [runQueue EXCEPT ![p] = Append(q, x)] =>
                Waiting(x)' /\ \A s \in Sims : CommandsStay(s)
           /\ q # << >> /\ x = Head(q) /\ runQueue' = [runQueue EXCEPT ![p] = Tail(q)] =>
                \A s \in Sims \ {x} : CommandsStay(s)
<1>0. runQueue \in [Profiles -> Seq(Sims)]
  BY DEF TypeOK, ServicesTypeOK
<1>1. ASSUME runQueue' = [runQueue EXCEPT ![p] = Append(q, x)]
      PROVE  Waiting(x)' /\ \A s \in Sims : CommandsStay(s)
  <2> PICK next : next = Append(q, x)
    OBVIOUS
  <2>1. /\ Len(q) + 1 \in DOMAIN next /\ next[Len(q) + 1] = x
        /\ \A i \in DOMAIN q : i \in DOMAIN next /\ next[i] = q[i]
    OBVIOUS
  <2>2. runQueue'[p] = next /\ \A o \in Profiles \ {p} : runQueue'[o] = runQueue[o]
    BY <1>0, <1>1
  <2> QED
    BY <2>1, <2>2 DEF Waiting, CommandsStay
<1>2. ASSUME q # << >>, x = Head(q), runQueue' = [runQueue EXCEPT ![p] = Tail(q)],
             NEW s \in Sims \ {x}
      PROVE  CommandsStay(s)
  <2> PICK next : next = Tail(q)
    OBVIOUS
  <2>1. \A i \in DOMAIN q : q[i] # x => i - 1 \in DOMAIN next /\ next[i - 1] = q[i]
    BY <1>2
  <2>2. runQueue'[p] = next /\ \A o \in Profiles \ {p} : runQueue'[o] = runQueue[o]
    BY <1>0, <1>2
  <2> SUFFICES ASSUME NEW o \in Profiles, NEW i \in DOMAIN runQueue[o], runQueue[o][i] = s
               PROVE  Waiting(s)'
    BY DEF Waiting, CommandsStay
  <2>3. CASE o = p
    <3>1. i - 1 \in DOMAIN next /\ next[i - 1] = s
      BY <1>2, <2>1, <2>3
    <3> QED
      BY <2>2, <3>1 DEF Waiting
  <2>4. CASE o # p
    BY <2>2, <2>4 DEF Waiting
  <2> QED
    BY <2>3, <2>4
<1> QED
  BY <1>1, <1>2

(* A request that writes nothing gives nobody up. *)
LEMMA AskersGiveNobodyUp ==
    ASSUME FullInv, NEW c \in Clients, req[c].pc \notin {"publish", "dispatch"},
           NEW next, req' = [req EXCEPT ![c] = next],
           UNCHANGED <<rows, runQueue, workerVars>>, Driven
    PROVE  Driven'
<1>1. \A d \in Clients \ {c} : req'[d] = req[d]
  BY DEF FullInv, TypeOK, OrchestratorTypeOK
<1>2. ASSUME NEW s \in Sims PROVE ActorsStay(s)
  <2>1. WritersStay(s)
    BY <1>1 DEF WritersStay, Writing
  <2> QED
    BY <2>1, Unhurried DEF ActorsStay, workerVars
<1> QED
  BY <1>2, StillDriven

LEMMA SaveIgnitionDrives ==
    ASSUME FullInv, NEW c \in Clients, SaveIgnition(c), UNCHANGED workerVars, Driven
    PROVE  Driven'
<1>0. req[c] \in Ignition /\ req[c].pc = "save"
  BY RequestShape DEF SaveIgnition, Igniting, FullInv, TypeOK
<1> PICK s \in Sims : s = req[c].sim
  BY <1>0 DEF Ignition
<1>1. req'[c].pc = "publish" /\ req'[c].sim = s /\ \A d \in Clients \ {c} : req'[d] = req[d]
  BY <1>0 DEF SaveIgnition, Goto, FullInv, TypeOK, OrchestratorTypeOK, Ignition
<1>2. /\ \A x \in Sims \ {s} : rows'[x] = rows[x]
      /\ UNCHANGED <<runQueue, runHandler, abortHandler, runs>>
  BY DEF SaveIgnition, Save, workerVars, FullInv, TypeOK, ServicesTypeOK
<1>3. Acting(s)'
  BY <1>1 DEF Acting, Writing
<1>4. ASSUME NEW x \in Sims \ {s} PROVE ActorsStay(x)
  <2>1. WritersStay(x)
    BY <1>0, <1>1 DEF WritersStay, Writing
  <2> QED
    BY <1>2, <2>1, Unhurried DEF ActorsStay
<1> QED
  BY <1>3, <1>4, StillDriven

LEMMA PublishIgnitionDrives ==
    ASSUME FullInv, NEW c \in Clients, PublishIgnition(c), UNCHANGED workerVars, Driven
    PROVE  Driven'
<1>0. req[c] \in Ignition /\ req[c].pc = "publish"
  BY RequestShape DEF PublishIgnition, Igniting, FullInv, TypeOK
<1>1. /\ req'[c].pc = "dispatch" /\ req'[c].sim = req[c].sim
      /\ \A d \in Clients \ {c} : req'[d] = req[d]
  BY <1>0 DEF PublishIgnition, Goto, FullInv, TypeOK, OrchestratorTypeOK, Ignition
<1>2. ASSUME NEW s \in Sims PROVE ActorsStay(s)
  <2>1. WritersStay(s)
    BY <1>1 DEF WritersStay, Writing
  <2> QED
    BY <2>1, Unhurried DEF ActorsStay, PublishIgnition, workerVars
<1> QED
  BY <1>2, StillDriven

LEMMA DispatchIgnitionDrives ==
    ASSUME FullInv, NEW c \in Clients, DispatchIgnition(c), UNCHANGED workerVars, Driven
    PROVE  Driven'
<1>0. /\ req[c] \in Ignition /\ req[c].pc = "dispatch"
      /\ req[c].sim \in Sims /\ req[c].copy.profile \in Profiles
  BY RequestShape DEF DispatchIgnition, Igniting, FullInv, TypeOK, Ignition, Aggregate
<1> PICK s \in Sims, p \in Profiles, q \in Seq(Sims) :
      s = req[c].sim /\ p = req[c].copy.profile /\ q = runQueue[p]
  BY <1>0 DEF FullInv, TypeOK, ServicesTypeOK
<1>1. runQueue' = [runQueue EXCEPT ![p] = Append(q, s)] /\ req' = [req EXCEPT ![c] = Idle]
  BY DEF DispatchIgnition, DispatchRun
<1>2. \A d \in Clients \ {c} : req'[d] = req[d]
  BY <1>1 DEF FullInv, TypeOK, OrchestratorTypeOK
<1>3. Waiting(s)' /\ \A x \in Sims : CommandsStay(x)
  BY <1>1, CommandsKept DEF FullInv
<1>4. ASSUME NEW x \in Sims \ {s} PROVE ActorsStay(x)
  <2>1. WritersStay(x)
    BY <1>2, <1>4 DEF WritersStay, Writing
  <2> QED
    BY <1>3, <2>1, Unhurried DEF ActorsStay, DispatchIgnition, workerVars
<1> QED
  BY <1>3, <1>4, StillDriven DEF Acting

LEMMA RequestsDrive ==
    ASSUME FullInv, FaultKinds = {}, OrchestratorNext, Driven
    PROVE  Driven'
<1> PICK c \in Clients :
      StartRequest(c) \/ ClientRestarts(c) \/ FinishRequest(c) \/ Serve(c) \/ RequestFails(c)
  BY DEF OrchestratorNext
<1>1. UNCHANGED workerVars
  BY DEF OrchestratorNext
<1>2. ~RequestFails(c)
  BY DEF RequestFails, Fault
<1>3. CASE StartRequest(c) \/ ClientRestarts(c) \/ FinishRequest(c)
  <2>1. /\ req[c] = Idle /\ UNCHANGED <<rows, runQueue>>
        /\ \E next : req' = [req EXCEPT ![c] = next]
    BY <1>3 DEF StartRequest, ClientRestarts, RestartRequest, FinishRequest, serviceVars
  <2>2. req[c].pc = "idle"
    BY <2>1 DEF Idle
  <2> QED
    BY <1>1, <2>1, <2>2, AskersGiveNobodyUp
<1>4. CASE EnsureCanIgnite(c) \/ DispatchFinish(c)
  <2>1. /\ req[c].pc \in {"query", "abort"} /\ UNCHANGED <<rows, runQueue>>
        /\ \E next : req' = [req EXCEPT ![c] = next]
    BY <1>4 DEF EnsureCanIgnite, Goto, DispatchFinish, serviceVars
  <2> QED
    BY <1>1, <2>1, AskersGiveNobodyUp
<1> QED
  BY <1>1, <1>2, <1>3, <1>4, SaveIgnitionDrives, PublishIgnitionDrives, DispatchIgnitionDrives
  DEF Serve

LEMMA TakeRunDrives ==
    ASSUME FullInv, NEW w \in Workers, TakeRun(w), UNCHANGED req, Driven
    PROVE  Driven'
<1> PICK p \in Profiles, q \in Seq(Sims) : p = ProfileOf[w] /\ q = runQueue[p]
  BY WorkerAssumption DEF FullInv, TypeOK, ServicesTypeOK
<1> PICK x : x = Head(q)
  OBVIOUS
<1>1. /\ q # << >>
      /\ runQueue' = [runQueue EXCEPT ![p] = Tail(q)]
      /\ runHandler' = [runHandler EXCEPT ![w] = x]
      /\ runHandler[w] = NoSim
      /\ UNCHANGED <<rows, abortHandler, runs>>
  BY DEF TakeRun
<1>2. x \in Sims
  BY <1>1
<1>3. runHandler'[w] = x /\ \A v \in Workers \ {w} : runHandler'[v] = runHandler[v]
  BY <1>1 DEF FullInv, TypeOK, WorkerTypeOK
<1>4. Acting(x)'
  BY <1>3 DEF Acting
<1>5. \A s \in Sims \ {x} : CommandsStay(s)
  BY <1>1, <1>2, CommandsKept DEF FullInv
<1>6. ASSUME NEW s \in Sims \ {x} PROVE ActorsStay(s)
  <2>1. TakersStay(s)
    BY <1>1, <1>3, WorkerAssumption DEF TakersStay
  <2> QED
    BY <1>1, <1>5, <2>1, Unhurried DEF ActorsStay
<1> QED
  BY <1>4, <1>6, StillDriven

LEMMA LaunchDrives ==
    ASSUME FullInv, NEW w \in Workers, NEW s \in Sims, runHandler[w] = s,
           NEW r \in Runs, ~Live(r), NEW pc, NEW copy, Launch(w, s, r, NewRun(w, s, pc, copy)),
           UNCHANGED req, Driven
    PROVE  Driven'
<1> PICK run : run = NewRun(w, s, pc, copy)
  OBVIOUS
<1>1. run.sim = s /\ run # Free
  BY DEF NewRun, Free
<1>2. /\ runs' = [runs EXCEPT ![r] = run]
      /\ runHandler' = [runHandler EXCEPT ![w] = NoSim]
      /\ UNCHANGED <<rows, runQueue, abortHandler>>
  BY DEF Launch
<1>3. runs'[r] = run /\ \A q \in Runs \ {r} : runs'[q] = runs[q]
  BY <1>2 DEF FullInv, TypeOK, WorkerTypeOK
<1>4. \A v \in Workers \ {w} : runHandler'[v] = runHandler[v]
  BY <1>2 DEF FullInv, TypeOK, WorkerTypeOK
<1>5. Acting(s)'
  BY <1>1, <1>3 DEF Acting, Driving, Live
<1>6. ASSUME NEW x \in Sims \ {s} PROVE ActorsStay(x)
  <2>1. TakersStay(x)
    BY <1>4, <1>6 DEF TakersStay
  <2>2. DriversStay(x)
    BY <1>3 DEF DriversStay, Driving, Live
  <2> QED
    BY <1>2, <2>1, <2>2, Unhurried DEF ActorsStay
<1> QED
  BY <1>5, <1>6, StillDriven

LEMMA BeginDrives ==
    ASSUME FullInv, NEW w \in Workers, BeginRun(w) \/ BeginEmptyRun(w), UNCHANGED req, Driven
    PROVE  Driven'
<1> PICK s \in Sims : s = runHandler[w]
  BY DEF BeginRun, BeginEmptyRun, FullInv, TypeOK, WorkerTypeOK
<1>1. rows[s] # NoRow
  BY WorkerAssumption DEF FullInv, RowsInv, RunHandlersHaveRows
<1> QED
  BY <1>1, LaunchDrives DEF BeginRun, BeginEmptyRun

(* A run that goes on drives its simulation; it may have saved its row. *)
LEMMA RunGoesOnDriving ==
    ASSUME FullInv, NEW r \in Runs, NEW s \in Sims, Driving(r, s),
           NEW run, runs' = [runs EXCEPT ![r] = run], run # Free, run.sim = s,
           \A x \in Sims \ {s} : rows'[x] = rows[x],
           UNCHANGED <<runQueue, runHandler, abortHandler, req>>, Driven
    PROVE  Driven'
<1>1. runs'[r] = run /\ \A q \in Runs \ {r} : runs'[q] = runs[q]
  BY DEF FullInv, TypeOK, WorkerTypeOK
<1>2. Acting(s)'
  BY <1>1 DEF Acting, Driving, Live
<1>3. ASSUME NEW x \in Sims \ {s} PROVE ActorsStay(x)
  <2>1. DriversStay(x)
    BY <1>1, <1>3 DEF DriversStay, Driving, Live
  <2> QED
    BY <2>1, Unhurried DEF ActorsStay
<1> QED
  BY <1>2, <1>3, StillDriven

LEMMA EngineDrives ==
    ASSUME FullInv, NEW r \in Runs,
           Wake(r) \/ SaveRun(r) \/ PublishAndSleep(r) \/ PublishAndFinish(r),
           UNCHANGED req, Driven
    PROVE  Driven'
<1>1. Live(r) /\ runs[r] \in Run
  BY RunShape DEF Wake, SaveRun, PublishAndSleep, PublishAndFinish, PublishAndGoOn, FullInv, TypeOK
<1> PICK s \in Sims : s = runs[r].sim
  BY <1>1 DEF Run
<1>2. Driving(r, s)
  BY <1>1 DEF Driving
<1>3. /\ \A x \in Sims \ {s} : rows'[x] = rows[x]
      /\ UNCHANGED <<runQueue, runHandler, abortHandler>>
  BY DEF Wake, SaveRun, Save, PublishAndSleep, PublishAndFinish, serviceVars,
         FullInv, TypeOK, ServicesTypeOK
<1>4. \E run : runs' = [runs EXCEPT ![r] = run] /\ run # Free /\ run.sim = s
  <2>1. CASE Wake(r)
    <3> PICK run : run = [runs[r] EXCEPT !.copy = ApplyGoal(runs[r].copy),
                                         !.tick = runs[r].tick + 1, !.pc = "save"]
      OBVIOUS
    <3>1. run.pc = "save" /\ run.sim = s
      BY <1>1 DEF Run
    <3>2. runs' = [runs EXCEPT ![r] = run]
      BY <2>1 DEF Wake
    <3>3. run # Free
      BY <3>1 DEF Free
    <3> QED
      BY <3>1, <3>2, <3>3
  <2>2. CASE SaveRun(r)
    <3> PICK run : run = [runs[r] EXCEPT !.pc = "publish"]
      OBVIOUS
    <3>1. run.pc = "publish" /\ run.sim = s
      BY <1>1 DEF Run
    <3> QED
      BY <2>2, <3>1 DEF SaveRun, Free
  <2>3. CASE PublishAndSleep(r)
    <3> PICK run : run = [runs[r] EXCEPT !.pc = "sleep"]
      OBVIOUS
    <3>1. run.pc = "sleep" /\ run.sim = s
      BY <1>1 DEF Run
    <3> QED
      BY <2>3, <3>1 DEF PublishAndSleep, Free
  <2>4. CASE PublishAndFinish(r)
    <3> PICK run : run = [runs[r] EXCEPT !.copy = Finish(runs[r].copy, now), !.pc = "save"]
      OBVIOUS
    <3>1. run.pc = "save" /\ run.sim = s
      BY <1>1 DEF Run
    <3> QED
      BY <2>4, <3>1 DEF PublishAndFinish, Free
  <2> QED
    BY <2>1, <2>2, <2>3, <2>4
<1> QED
  BY <1>2, <1>3, <1>4, RunGoesOnDriving

(* The run returns; if somebody waited for it, he goes on to findById. *)
LEMMA ReturnDrives ==
    ASSUME FullInv, AbortedIsAwaited, NEW r \in Runs, PublishAndExit(r), UNCHANGED req, Driven
    PROVE  Driven'
<1>1. Live(r) /\ runs[r] \in Run /\ runs[r].pc = "publish"
  BY RunShape DEF PublishAndExit, FullInv, TypeOK
<1> PICK s \in Sims, w \in Workers : s = runs[r].sim /\ w = runs[r].worker
  BY <1>1 DEF Run
<1>2. Driving(r, s)
  BY <1>1 DEF Driving
<1>3. rows[s] = runs[r].copy
  BY <1>1, <1>2, RowOfRun DEF DriveInv
<1>4. /\ Exit(r) /\ UNCHANGED <<rows, runQueue, runHandler>>
      /\ runs[r].copy.state = "FINISHED" \/ runs[r].aborted
  BY DEF PublishAndExit, Exit
<1> PICK h : h = Resumed(abortHandler[w], r)
  OBVIOUS
<1>5. /\ \A q \in Runs \ {r} : runs'[q] = runs[q]
      /\ abortHandler'[w] = h /\ \A v \in Workers \ {w} : abortHandler'[v] = abortHandler[v]
  BY <1>4 DEF Exit, FullInv, TypeOK, WorkerTypeOK
<1>6. RowIsRunning(s)' => Acting(s)'
  <2> HAVE RowIsRunning(s)'
  <2>1. runs[r].aborted /\ rows'[s].state = "RUNNING"
    BY <1>3, <1>4 DEF RowIsRunning
  <2>2. abortHandler[w].pc = "draining" /\ abortHandler[w].run = r
    BY <1>1, <2>1 DEF AbortedIsAwaited
  <2>3. abortHandler[w].sim = s
    BY <2>2 DEF FullInv, PInv, DrainsItsOwn
  <2>4. h.pc = "find" /\ h.sim = s
    BY <2>2, <2>3 DEF Resumed
  <2> QED
    BY <1>5, <2>1, <2>4 DEF Acting, Ending
<1>7. ASSUME NEW x \in Sims \ {s} PROVE ActorsStay(x)
  <2>1. DriversStay(x)
    BY <1>5 DEF DriversStay, Driving, Live
  <2>2. EndersStay(x)
    BY <1>4, <1>5 DEF EndersStay, Ending, Resumed
  <2> QED
    BY <1>4, <2>1, <2>2, Unhurried DEF ActorsStay
<1> QED
  BY <1>6, <1>7, StillDriven

LEMMA TakeAbortDrives ==
    ASSUME FullInv, NEW w \in Workers, TakeAbort(w), UNCHANGED req, Driven
    PROVE  Driven'
<1>0. /\ abortQueue # << >> /\ Target(w) # NoRun /\ abortHandler[w] = Resting
      /\ UNCHANGED <<rows, runQueue, runHandler>>
  BY DEF TakeAbort, CanTakeAbort
<1>1. Head(abortQueue) \in AbortCommand
  BY <1>0, AbortLeaves DEF FullInv, TypeOK, ServicesTypeOK
<1> PICK s \in Sims : s = Head(abortQueue).sim
  BY <1>1 DEF AbortCommand
<1> PICK r \in Runs : r = Target(w)
  BY <1>0 DEF Target, FullInv, TypeOK, WorkerTypeOK
<1>2. Live(r) /\ runs[r].sim = s
  BY <1>0 DEF Target, FullInv, MapInv, InFlightIsLive
<1>3. \A v \in Workers \ {w} : abortHandler'[v] = abortHandler[v]
  BY DEF TakeAbort, FullInv, TypeOK, WorkerTypeOK
<1>4. \A x \in Sims : EndersStay(x)
  BY <1>0, <1>3 DEF EndersStay, Ending, Resting
<1>5. CASE runs[r].pc = "sleep"
  <2> PICK h : h = [pc |-> "find", sim |-> s, finishedAt |-> Head(abortQueue).finishedAt]
    OBVIOUS
  <2>1. h.pc = "find" /\ h.sim = s
    OBVIOUS
  <2>2. runs' = [runs EXCEPT ![r] = Free] /\ abortHandler' = [abortHandler EXCEPT ![w] = h]
    BY <1>5 DEF TakeAbort
  <2>3. /\ abortHandler'[w] = h
        /\ \A q \in Runs \ {r} : runs'[q] = runs[q]
    BY <2>2 DEF FullInv, TypeOK, WorkerTypeOK
  <2>4. RowIsRunning(s)' => Acting(s)'
    BY <2>1, <2>3 DEF Acting, Ending, RowIsRunning
  <2>5. ASSUME NEW x \in Sims \ {s} PROVE ActorsStay(x)
    <3>1. DriversStay(x)
      BY <1>2, <2>3 DEF DriversStay, Driving, Live
    <3> QED
      BY <1>0, <1>4, <3>1, Unhurried DEF ActorsStay
  <2> QED
    BY <2>4, <2>5, StillDriven
<1>6. CASE runs[r].pc # "sleep"
  <2> PICK run : run = [runs[r] EXCEPT !.aborted = TRUE]
    OBVIOUS
  <2>1. runs[r] \in Run
    BY <1>2, RunShape DEF FullInv, TypeOK
  <2>2. run.pc = runs[r].pc /\ run.sim = s /\ run # Free
    BY <1>2, <2>1 DEF Run, Free
  <2>3. runs' = [runs EXCEPT ![r] = run]
    BY <1>6 DEF TakeAbort
  <2>4. runs'[r] = run /\ \A q \in Runs \ {r} : runs'[q] = runs[q]
    BY <2>3 DEF FullInv, TypeOK, WorkerTypeOK
  <2>5. ASSUME NEW x \in Sims PROVE ActorsStay(x)
    <3>1. DriversStay(x)
      BY <1>2, <2>2, <2>4 DEF DriversStay, Driving, Live
    <3> QED
      BY <1>0, <1>4, <3>1, Unhurried DEF ActorsStay
  <2> QED
    BY <2>5, StillDriven
<1> QED
  BY <1>5, <1>6

LEMMA HandlerDrives ==
    ASSUME FullInv, NEW w \in Workers, AbortFind(w) \/ AbortSave(w) \/ AbortPublish(w),
           UNCHANGED req, Driven
    PROVE  Driven'
<1>1. abortHandler[w] \in Finding \cup Finishing
  BY HandlerShape DEF AbortFind, AbortSave, AbortPublish, FullInv, TypeOK, WorkerTypeOK
<1> PICK s \in Sims : s = abortHandler[w].sim
  BY <1>1 DEF Finding, Finishing
<1>2. /\ \A v \in Workers \ {w} : abortHandler'[v] = abortHandler[v]
      /\ \A x \in Sims \ {s} : rows'[x] = rows[x]
      /\ UNCHANGED <<runQueue, runHandler, runs>>
  BY DEF AbortFind, AbortSave, Save, AbortPublish, serviceVars,
         FullInv, TypeOK, ServicesTypeOK, WorkerTypeOK
<1>3. ASSUME NEW x \in Sims \ {s} PROVE ActorsStay(x)
  <2>1. EndersStay(x)
    BY <1>2, <1>3 DEF EndersStay, Ending
  <2> QED
    BY <1>2, <2>1, Unhurried DEF ActorsStay
<1>4. CASE AbortFind(w)
  <2> PICK h : h = [pc |-> "save", sim |-> s, finishedAt |-> abortHandler[w].finishedAt,
                    copy |-> Finish(rows[s], abortHandler[w].finishedAt)]
    OBVIOUS
  <2>1. h.pc = "save" /\ h.sim = s
    OBVIOUS
  <2>2. rows' = rows /\ (RowIsRunning(s) => abortHandler' = [abortHandler EXCEPT ![w] = h])
    BY <1>4 DEF AbortFind, RowIsRunning, serviceVars
  <2>3. RowIsRunning(s) => abortHandler'[w] = h
    BY <2>2 DEF FullInv, TypeOK, WorkerTypeOK
  <2>4. RowIsRunning(s)' => Acting(s)'
    BY <2>1, <2>2, <2>3 DEF RowIsRunning, Acting, Ending
  <2> QED
    BY <1>3, <2>4, StillDriven
<1>5. CASE AbortSave(w)
  <2>1. abortHandler[w].pc = "save" /\ Ending(w, s)
    BY <1>5 DEF AbortSave, Ending
  <2>2. abortHandler[w].copy = Finish(rows[s], abortHandler[w].finishedAt) /\ rows[s] # NoRow
    BY <2>1, ActedOn DEF SimInv, EndInv
  <2>3. rows'[s].state = "FINISHED"
    BY <1>5, <2>2 DEF AbortSave, Save, Finish, FullInv, TypeOK, ServicesTypeOK, Aggregate
  <2> QED
    BY <1>3, <2>3, StillDriven DEF RowIsRunning
<1>6. CASE AbortPublish(w)
  <2>1. abortHandler[w].pc = "publish" /\ Ending(w, s)
    BY <1>6 DEF AbortPublish, Ending
  <2>2. rows'[s].state = "FINISHED"
    BY <1>6, <2>1, ActedOn DEF SimInv, EndInv, AbortPublish
  <2> QED
    BY <1>3, <2>2, StillDriven DEF RowIsRunning
<1> QED
  BY <1>4, <1>5, <1>6

LEMMA DropAbortDrives ==
    ASSUME NEW w \in Workers, DropAbort(w), UNCHANGED req, Driven
    PROVE  Driven'
<1>1. ASSUME NEW s \in Sims PROVE ActorsStay(s)
  BY Unhurried DEF ActorsStay, DropAbort, workerVars
<1> QED
  BY <1>1, StillDriven

LEMMA WorkersDrive ==
    ASSUME FullInv, FaultKinds = {}, AllUp, AbortedIsAwaited, WorkerNext, Driven
    PROVE  Driven'
<1>1. OnlyRequestsFail
  BY DEF OnlyRequestsFail
<1> QED
  BY <1>1, QuietWorkers, TakeRunDrives, BeginDrives, DropAbortDrives, TakeAbortDrives,
     HandlerDrives, EngineDrives, ReturnDrives

LEMMA AwaitedStays ==
    ASSUME AbortedIsAwaited,
           \A r \in Runs : Live(r)' /\ runs'[r].aborted =>
               /\ Live(r) /\ runs[r].aborted /\ runs'[r].worker = runs[r].worker
               /\ abortHandler'[runs[r].worker] = abortHandler[runs[r].worker]
    PROVE  AbortedIsAwaited'
BY DEF AbortedIsAwaited

LEMMA EngineAwaited ==
    ASSUME FullInv, NEW r \in Runs,
           Wake(r) \/ SaveRun(r) \/ PublishAndSleep(r) \/ PublishAndFinish(r), AbortedIsAwaited
    PROVE  AbortedIsAwaited'
<1>1. Live(r) /\ runs[r] \in Run
  BY RunShape DEF Wake, SaveRun, PublishAndSleep, PublishAndFinish, PublishAndGoOn, FullInv, TypeOK
<1>2. runs'[r].aborted = runs[r].aborted /\ runs'[r].worker = runs[r].worker
  BY <1>1 DEF Wake, SaveRun, PublishAndSleep, PublishAndFinish, FullInv, TypeOK, WorkerTypeOK, Run
<1>3. /\ \A q \in Runs \ {r} : runs'[q] = runs[q]
      /\ UNCHANGED abortHandler
  BY DEF Wake, SaveRun, PublishAndSleep, PublishAndFinish, FullInv, TypeOK, WorkerTypeOK
<1>4. \A q \in Runs : Live(q)' /\ runs'[q].aborted =>
        Live(q) /\ runs[q].aborted /\ runs'[q].worker = runs[q].worker
  BY <1>1, <1>2, <1>3 DEF Live
<1> QED
  BY <1>3, <1>4, AwaitedStays

LEMMA ReturnAwaited ==
    ASSUME FullInv, NEW r \in Runs, PublishAndExit(r), AbortedIsAwaited
    PROVE  AbortedIsAwaited'
<1>1. runs[r] \in Run
  BY RunShape DEF PublishAndExit, FullInv, TypeOK
<1> PICK w \in Workers : w = runs[r].worker
  BY <1>1 DEF Run
<1>2. /\ runs'[r] = Free /\ \A q \in Runs \ {r} : runs'[q] = runs[q]
      /\ abortHandler'[w] = Resumed(abortHandler[w], r)
      /\ \A v \in Workers \ {w} : abortHandler'[v] = abortHandler[v]
  BY DEF PublishAndExit, Exit, FullInv, TypeOK, WorkerTypeOK
<1>3. ASSUME NEW q \in Runs, Live(q)', runs'[q].aborted
      PROVE  /\ Live(q) /\ runs[q].aborted /\ runs'[q].worker = runs[q].worker
             /\ abortHandler'[runs[q].worker] = abortHandler[runs[q].worker]
  <2>1. q # r /\ runs'[q] = runs[q] /\ Live(q)
    BY <1>2, <1>3 DEF Live
  <2>2. abortHandler[runs[q].worker].run = q
    BY <1>3, <2>1 DEF AbortedIsAwaited
  <2>3. runs[q].worker \in Workers
    BY <2>1, RunShape DEF FullInv, TypeOK, Run
  <2> QED
    BY <1>2, <1>3, <2>1, <2>2, <2>3 DEF Resumed
<1> QED
  BY <1>3, AwaitedStays

(* The handler of ABORT does one thing at a time: no run of its worker is  *)
(* aborted while it rests, or is through with its run.                     *)
LEMMA HandlerAwaited ==
    ASSUME FullInv, NEW w \in Workers,
           \/ TakeAbort(w) /\ runs[Target(w)].pc = "sleep"
           \/ AbortFind(w) \/ AbortSave(w) \/ AbortPublish(w),
           AbortedIsAwaited
    PROVE  AbortedIsAwaited'
<1>1. abortHandler[w].pc # "draining"
  BY DEF TakeAbort, CanTakeAbort, AbortFind, AbortSave, AbortPublish, Resting
<1>2. \A v \in Workers \ {w} : abortHandler'[v] = abortHandler[v]
  BY DEF TakeAbort, AbortFind, AbortSave, AbortPublish, FullInv, TypeOK, WorkerTypeOK
<1>3. \A q \in Runs : Live(q)' => runs'[q] = runs[q]
  BY DEF TakeAbort, AbortFind, AbortSave, AbortPublish, Live, FullInv, TypeOK, WorkerTypeOK
<1>4. ASSUME NEW q \in Runs, Live(q)', runs'[q].aborted
      PROVE  /\ Live(q) /\ runs[q].aborted /\ runs'[q].worker = runs[q].worker
             /\ abortHandler'[runs[q].worker] = abortHandler[runs[q].worker]
  <2>1. Live(q) /\ runs'[q] = runs[q]
    BY <1>3, <1>4 DEF Live
  <2>2. runs[q].worker \in Workers
    BY <2>1, RunShape DEF FullInv, TypeOK, Run
  <2>3. runs[q].worker # w
    BY <1>1, <1>4, <2>1 DEF AbortedIsAwaited
  <2> QED
    BY <1>2, <1>4, <2>1, <2>2, <2>3
<1> QED
  BY <1>4, AwaitedStays

LEMMA TakeAbortAwaited ==
    ASSUME FullInv, NEW w \in Workers, TakeAbort(w), runs[Target(w)].pc # "sleep",
           AbortedIsAwaited
    PROVE  AbortedIsAwaited'
<1>0. abortQueue # << >> /\ Target(w) # NoRun /\ abortHandler[w].pc # "draining"
  BY DEF TakeAbort, CanTakeAbort, Resting
<1>1. Head(abortQueue) \in AbortCommand
  BY <1>0, AbortLeaves DEF FullInv, TypeOK, ServicesTypeOK
<1> PICK s \in Sims : s = Head(abortQueue).sim
  BY <1>1 DEF AbortCommand
<1> PICK r \in Runs : r = Target(w)
  BY <1>0 DEF Target, FullInv, TypeOK, WorkerTypeOK
<1>2. Live(r) /\ runs[r].worker = w /\ runs[r] \in Run
  BY <1>0, RunShape DEF Target, FullInv, MapInv, InFlightIsLive, TypeOK
<1>3. /\ runs' = [runs EXCEPT ![r].aborted = TRUE]
      /\ abortHandler'[w].pc = "draining" /\ abortHandler'[w].run = r
      /\ \A v \in Workers \ {w} : abortHandler'[v] = abortHandler[v]
  BY DEF TakeAbort, FullInv, TypeOK, WorkerTypeOK
<1>4. runs'[r].worker = w /\ \A q \in Runs \ {r} : runs'[q] = runs[q]
  BY <1>2, <1>3 DEF FullInv, TypeOK, WorkerTypeOK, Run
<1> SUFFICES ASSUME NEW q \in Runs, Live(q)', runs'[q].aborted
             PROVE  /\ abortHandler'[runs'[q].worker].pc = "draining"
                    /\ abortHandler'[runs'[q].worker].run = q
  BY DEF AbortedIsAwaited
<1>5. CASE q = r
  BY <1>3, <1>4, <1>5
<1>6. CASE q # r
  <2>1. Live(q) /\ runs'[q] = runs[q]
    BY <1>4, <1>6 DEF Live
  <2>2. runs[q].worker \in Workers
    BY <2>1, RunShape DEF FullInv, TypeOK, Run
  <2>3. /\ abortHandler[runs[q].worker].pc = "draining"
        /\ abortHandler[runs[q].worker].run = q
    BY <2>1 DEF AbortedIsAwaited
  <2> QED
    BY <1>0, <1>3, <2>1, <2>2, <2>3
<1> QED
  BY <1>5, <1>6

LEMMA BeginAwaited ==
    ASSUME FullInv, NEW w \in Workers, BeginRun(w) \/ BeginEmptyRun(w), AbortedIsAwaited
    PROVE  AbortedIsAwaited'
<1>1. UNCHANGED abortHandler
  BY DEF BeginRun, BeginEmptyRun, Launch
<1>2. CASE UNCHANGED runs
  BY <1>1, <1>2, AwaitedStays DEF Live
<1>3. CASE \E r \in Runs : \E run : runs' = [runs EXCEPT ![r] = run] /\ ~run.aborted
  <2> PICK r \in Runs : \E run : runs' = [runs EXCEPT ![r] = run] /\ ~run.aborted
    BY <1>3
  <2> PICK run : runs' = [runs EXCEPT ![r] = run] /\ ~run.aborted
    OBVIOUS
  <2>1. runs'[r] = run /\ \A q \in Runs \ {r} : runs'[q] = runs[q]
    BY DEF FullInv, TypeOK, WorkerTypeOK
  <2> QED
    BY <1>1, <2>1, AwaitedStays DEF Live
<1>4. \A s, pc, copy : ~NewRun(w, s, pc, copy).aborted
  BY DEF NewRun
<1> QED
  BY <1>2, <1>3, <1>4 DEF BeginRun, BeginEmptyRun, Launch

LEMMA StepsAwaited ==
    ASSUME FullInv, OnlyRequestsFail, AllUp, [Next]_vars, AbortedIsAwaited
    PROVE  AbortedIsAwaited'
<1>1. CASE UNCHANGED <<runs, abortHandler>>
  BY <1>1, AwaitedStays DEF Live
<1>2. CASE WorkerNext
  <2>1. \A w \in Workers : TakeRun(w) \/ DropAbort(w) => UNCHANGED <<runs, abortHandler>>
    BY DEF TakeRun, DropAbort, workerVars
  <2> QED
    BY <1>1, <1>2, <2>1, QuietWorkers, EngineAwaited, ReturnAwaited, HandlerAwaited,
       TakeAbortAwaited, BeginAwaited
<1>3. CASE OrchestratorNext \/ (Tick /\ UNCHANGED <<req, workerVars>>) \/ UNCHANGED vars
  BY <1>1, <1>3 DEF OrchestratorNext, workerVars, vars
<1> QED
  BY <1>2, <1>3 DEF Next

LEMMA ActorsDrive ==
    ASSUME FullInv, NEW s \in Sims, RowIsRunning(s), Acting(s)
    PROVE  Drivers(s) # {}
<1>1. CASE \E c \in Clients : Writing(c, s)
  <2>1. PICK c \in Clients : Writing(c, s)
    BY <1>1
  <2>2. <<"request", c>> \in Drivers(s)
    BY <2>1 DEF Writing, Drivers
  <2> QED
    BY <2>2
<1>2. CASE Waiting(s)
  <2>1. PICK p \in Profiles : \E i \in DOMAIN runQueue[p] : runQueue[p][i] = s
    BY <1>2 DEF Waiting
  <2>2. PICK i \in DOMAIN runQueue[p] : runQueue[p][i] = s
    BY <2>1
  <2>3. <<"command", p, i>> \in Drivers(s)
    BY <2>2 DEF Drivers
  <2> QED
    BY <2>3
<1>3. CASE \E w \in Workers : runHandler[w] = s
  <2>1. PICK w \in Workers : runHandler[w] = s
    BY <1>3
  <2>2. <<"runHandler", w>> \in Drivers(s)
    BY <2>1 DEF Drivers
  <2> QED
    BY <2>2
<1>4. CASE \E r \in Runs : Driving(r, s)
  <2>1. PICK r \in Runs : Driving(r, s)
    BY <1>4
  <2>2. runs[r].pc = "publish" => runs[r].copy.state = "RUNNING"
    BY <2>1, RowOfRun DEF DriveInv, RowIsRunning
  <2>3. <<"run", r>> \in Drivers(s)
    BY <2>1, <2>2 DEF Driving, Drivers
  <2> QED
    BY <2>3
<1>5. CASE \E w \in Workers : Ending(w, s)
  <2>1. PICK w \in Workers : Ending(w, s)
    BY <1>5
  <2>2. abortHandler[w].pc # "publish"
    BY <2>1, ActedOn DEF SimInv, EndInv, RowIsRunning
  <2>3. <<"abortHandler", w>> \in Drivers(s)
    BY <2>1, <2>2 DEF Ending, Drivers
  <2> QED
    BY <2>3
<1> QED
  BY <1>1, <1>2, <1>3, <1>4, <1>5 DEF Acting

(* As long as nothing fails, a simulation that is RUNNING has somebody who *)
(* will finish it: a request on its way to dispatch, a RUN command, its    *)
(* handler, a run, or the handler of ABORT that stopped the run and goes   *)
(* on to findById.  No hand-over between them loses the simulation.        *)
THEOREM RunningHasDriver ==
    ASSUME Patient, OneClientEach, FaultKinds = {}
    PROVE  Spec => []RunningIsDriven
<1>1. OnlyRequestsFail
  BY DEF OnlyRequestsFail
<1>2. Init => AllUp /\ AbortedIsAwaited /\ Driven
  BY DEF Init, ServicesInit, WorkerInit, AllUp, AbortedIsAwaited, Driven, RowIsRunning, Live
<1>3. FullInv /\ AllUp /\ AbortedIsAwaited /\ Driven /\ [Next]_vars =>
        (AllUp /\ AbortedIsAwaited /\ Driven)'
  <2> SUFFICES ASSUME FullInv, AllUp, AbortedIsAwaited, Driven, [Next]_vars
               PROVE  AllUp' /\ AbortedIsAwaited' /\ Driven'
    OBVIOUS
  <2>1. AllUp' /\ AbortedIsAwaited'
    BY <1>1, ProcessesStay, StepsAwaited
  <2>2. Driven'
    <3>1. CASE (Tick /\ UNCHANGED <<req, workerVars>>) \/ UNCHANGED vars
      <4>1. \A s \in Sims : ActorsStay(s)
        BY <3>1, Unhurried DEF ActorsStay, Tick, vars, serviceVars, workerVars
      <4> QED
        BY <4>1, StillDriven
    <3> QED
      BY <3>1, RequestsDrive, WorkersDrive DEF Next
  <2> QED
    BY <2>1, <2>2
<1>4. FullInv /\ Driven => RunningIsDriven
  BY ActorsDrive DEF Driven, RowIsRunning, RunningIsDriven
<1> QED
  BY <1>2, <1>3, <1>4, FullInvariance, PTL DEF Spec

-----------------------------------------------------------------------------
(* The throttle. *)

(* Only save takes a request from the throttle to its publish. *)
LEMMA OnlySaveIgnites ==
    ASSUME FullInv, Next, NEW c \in Clients, req[c].pc = "save", req'[c].pc = "publish"
    PROVE  SaveIgnition(c)
<1>1. req[c] # Idle
  BY DEF Idle
<1>2. ASSUME NEW d \in Clients, NEW next, req' = [req EXCEPT ![d] = next],
             d # c \/ next.pc \in {"idle", "query", "save", "abort", "dispatch"}
      PROVE  FALSE
  <2>1. req'[d] = next /\ \A e \in Clients \ {d} : req'[e] = req[e]
    BY <1>2 DEF FullInv, TypeOK, OrchestratorTypeOK
  <2> QED
    BY <1>2, <2>1
<1>3. PICK d \in Clients :
        \/ StartRequest(d) \/ RestartRequest(d) \/ FinishRequest(d)
        \/ Serve(d) \/ RequestFails(d)
  <2>1. req' # req
    OBVIOUS
  <2> QED
    BY <2>1 DEF Next, OrchestratorNext, WorkerNext, ClientRestarts
<1>4. CASE StartRequest(d)
  <2>1. d # c
    BY <1>1, <1>4 DEF StartRequest
  <2> QED
    BY <1>2, <1>4, <2>1 DEF StartRequest
<1>5. CASE RestartRequest(d)
  <2>1. d # c
    BY <1>1, <1>5 DEF RestartRequest
  <2> QED
    BY <1>2, <1>5, <2>1 DEF RestartRequest
<1>6. CASE FinishRequest(d)
  <2>1. d # c
    BY <1>1, <1>6 DEF FinishRequest
  <2> QED
    BY <1>2, <1>6, <2>1 DEF FinishRequest
<1>7. CASE RequestFails(d) \/ DispatchFinish(d) \/ DispatchIgnition(d)
  BY <1>2, <1>7 DEF RequestFails, DispatchFinish, DispatchIgnition, Idle
<1>8. CASE EnsureCanIgnite(d)
  <2>1. d # c
    BY <1>8 DEF EnsureCanIgnite
  <2> QED
    BY <1>2, <1>8, <2>1 DEF EnsureCanIgnite, Goto
<1>9. CASE PublishIgnition(d)
  <2>1. d # c
    BY <1>9 DEF PublishIgnition
  <2> QED
    BY <1>2, <1>9, <2>1 DEF PublishIgnition, Goto
<1>10. CASE SaveIgnition(d)
  <2>1. d = c
    BY <1>2, <1>10 DEF SaveIgnition, Goto
  <2> QED
    BY <1>10, <2>1
<1> QED
  BY <1>3, <1>4, <1>5, <1>6, <1>7, <1>8, <1>9, <1>10 DEF Serve

(* What an ignition writes. *)
LEMMA IgnitionSaves ==
    ASSUME FullInv, NEW c \in Clients, SaveIgnition(c)
    PROVE  \E s \in Sims, copy \in Aggregate :
              /\ s = req[c].sim /\ copy = req[c].copy
              /\ rows' = [rows EXCEPT ![s] = copy]
              /\ rows'[s] = copy
              /\ MayIgnite(copy, s)
              /\ copy.owner = UserOf[c]
              /\ rows[s] # NoRow => rows[s].owner = UserOf[c]
              /\ \A t \in Sims : rows[t] # NoRow /\ rows[t].owner = UserOf[c] =>
                    copy.startedAt - rows[t].startedAt >= Cooldown
<1>1. /\ Igniting(c) /\ req[c].pc = "save"
      /\ req[c].sim \in Sims /\ req[c].copy \in Aggregate
  BY RequestShape DEF SaveIgnition, Igniting, FullInv, TypeOK, Ignition
<1> PICK s \in Sims, copy \in Aggregate : s = req[c].sim /\ copy = req[c].copy
  BY <1>1
<1>2. rows' = [rows EXCEPT ![s] = copy] /\ rows'[s] = copy
  BY DEF SaveIgnition, Save, FullInv, TypeOK, ServicesTypeOK
<1>3. AskInv(c, s) /\ copy.owner = UserOf[c]
  BY <1>1 DEF FullInv, PInv, AskersWait, Asking, OwnRequests
<1>4. rows[s] # NoRow => rows[s].owner = copy.owner
  BY <1>1 DEF FullInv, IdInv, RequestsKnow, SameIdentity
<1>5. \A t \in Sims : rows[t] # NoRow /\ rows[t].owner = UserOf[c] =>
         copy.startedAt - rows[t].startedAt >= Cooldown
  BY <1>1 DEF FullInv, PInv, Throttled
<1> QED
  BY <1>2, <1>3, <1>4, <1>5 DEF AskInv

(* The ignitions of an owner who sends one request at a time are a         *)
(* cooldown apart, although the lookup of the last start and the save      *)
(* (simulation-orchestrator.ts:131) are two calls, and workers save the    *)
(* rows of that owner in between.                                          *)
THEOREM ThrottleKeepsApart ==
    ASSUME Patient, OneClientEach
    PROVE  Spec => IgnitionsAreApart
<1> DEFINE A == \A s, t \in Sims :
          Ignites(s) /\ rows[t] # NoRow /\ rows'[s].owner = rows[t].owner =>
              rows'[s].startedAt - rows[t].startedAt >= Cooldown
<1>1. FullInv /\ [Next]_vars => [A]_vars
  <2> SUFFICES ASSUME FullInv, Next, NEW s \in Sims, NEW t \in Sims,
                      Ignites(s), rows[t] # NoRow, rows'[s].owner = rows[t].owner
               PROVE  rows'[s].startedAt - rows[t].startedAt >= Cooldown
    OBVIOUS
  <2>1. PICK c \in Clients : req[c].pc = "save" /\ req'[c].pc = "publish" /\ req[c].sim = s
    BY DEF Ignites
  <2>2. SaveIgnition(c)
    BY <2>1, OnlySaveIgnites
  <2> QED
    BY <2>1, <2>2, IgnitionSaves
<1>2. Spec => [][A]_vars
  BY <1>1, FullInvariance, PTL DEF Spec
<1> QED
  BY <1>2 DEF IgnitionsAreApart

-----------------------------------------------------------------------------
(* The table implements SimulationLifecycle. *)

lives == [s \in Sims |-> LifeOf(s)]

RunningLife(goals, startedAt) ==
    [state |-> "RUNNING", goals |-> goals, startedAt |-> startedAt]

FinishedLife(goals, startedAt, finishedAt) ==
    [state |-> "FINISHED", goals |-> goals, startedAt |-> startedAt, finishedAt |-> finishedAt]

(* What a reader sees of the row of s. *)
LEMMA LifeOfRow ==
    ASSUME FullInv, NEW s \in Sims, rows[s] # NoRow
    PROVE  /\ rows[s] \in Aggregate
           /\ LifeOf(s) # NoRow
           /\ rows[s].state = "RUNNING" =>
                LifeOf(s) = RunningLife(rows[s].totalGoals, rows[s].startedAt)
           /\ rows[s].state = "FINISHED" =>
                LifeOf(s) = FinishedLife(rows[s].totalGoals, rows[s].startedAt, rows[s].finishedAt)
<1>1. rows[s] \in Aggregate /\ now \in Nat
  BY DEF FullInv, TypeOK, ServicesTypeOK
<1>2. /\ rows[s].totalGoals \in Nat /\ rows[s].startedAt \in Nat
      /\ rows[s].state \in {"RUNNING", "FINISHED"}
  BY <1>1 DEF Aggregate
<1>3. CASE rows[s].state = "RUNNING"
  <2>1. LifeOf(s) = RunningLife(rows[s].totalGoals, rows[s].startedAt)
    BY <1>3 DEF LifeOf, RunningLife
  <2>2. LifeOf(s) \in Lifecycle!Lives
    BY <1>2, <2>1 DEF Lifecycle!Lives, RunningLife
  <2> QED
    BY <1>1, <1>3, <2>1, <2>2, LifeAssumption
<1>4. CASE rows[s].state = "FINISHED"
  <2>1. LifeOf(s) = FinishedLife(rows[s].totalGoals, rows[s].startedAt, rows[s].finishedAt)
    BY <1>4 DEF LifeOf, FinishedLife
  <2>2. rows[s].finishedAt \in rows[s].startedAt .. now
    BY <1>4 DEF FullInv, PInv, SimInv, Dated
  <2>3. rows[s].finishedAt \in Nat
    BY <1>1, <1>2, <2>2
  <2>4. LifeOf(s) \in Lifecycle!Lives
    BY <1>2, <2>1, <2>3 DEF Lifecycle!Lives, FinishedLife
  <2> QED
    BY <1>1, <1>4, <2>1, <2>4, LifeAssumption
<1> QED
  BY <1>2, <1>3, <1>4

(* One row is saved. *)
LEMMA OneLife ==
    ASSUME ServicesTypeOK, NEW s \in Sims, NEW row \in Aggregate, rows' = [rows EXCEPT ![s] = row]
    PROVE  /\ row.state = "RUNNING" =>
                lives' = [lives EXCEPT ![s] = RunningLife(row.totalGoals, row.startedAt)]
           /\ row.state = "FINISHED" =>
                lives' = [lives EXCEPT ![s] =
                            FinishedLife(row.totalGoals, row.startedAt, row.finishedAt)]
<1>1. /\ rows'[s] = row /\ row # NoRow
      /\ \A t \in Sims \ {s} : rows'[t] = rows[t]
  BY RowAssumption DEF ServicesTypeOK
<1>2. \A t \in Sims \ {s} : LifeOf(t)' = LifeOf(t)
  BY <1>1 DEF LifeOf
<1>3. row.state = "RUNNING" => LifeOf(s)' = RunningLife(row.totalGoals, row.startedAt)
  BY <1>1 DEF LifeOf, RunningLife
<1>4. row.state = "FINISHED" =>
        LifeOf(s)' = FinishedLife(row.totalGoals, row.startedAt, row.finishedAt)
  BY <1>1 DEF LifeOf, FinishedLife
<1> QED
  BY <1>2, <1>3, <1>4 DEF lives

(* The end of a run, by itself or as its owner asked. *)
LEMMA EndingFinishes ==
    ASSUME FullInv, NEW s \in Sims, rows[s] # NoRow, rows[s].state = "RUNNING",
           NEW t \in rows[s].startedAt .. now,
           rows' = [rows EXCEPT ![s] = Finish(rows[s], t)], UNCHANGED now
    PROVE  Lifecycle!Finish(s)
<1>1. /\ rows[s] \in Aggregate /\ now \in Nat
      /\ lives[s] = RunningLife(rows[s].totalGoals, rows[s].startedAt)
      /\ lives[s] # NoRow
  BY LifeOfRow DEF lives, FullInv, TypeOK, ServicesTypeOK
<1> PICK row : row = Finish(rows[s], t)
  OBVIOUS
<1>2. /\ row.state = "FINISHED" /\ row.totalGoals = rows[s].totalGoals
      /\ row.startedAt = rows[s].startedAt /\ row.finishedAt = t
  BY <1>1, FinishOperator
<1>3. t \in Nat
  BY <1>1 DEF Aggregate
<1>4. row \in Aggregate
  BY <1>1, <1>3, AggregateOperators
<1>5. lives[s].state = "RUNNING" /\ lives[s].goals = rows[s].totalGoals
      /\ lives[s].startedAt = rows[s].startedAt
  BY <1>1 DEF RunningLife
<1>6. lives' = [lives EXCEPT ![s] = FinishedLife(lives[s].goals, lives[s].startedAt, t)]
  <2>1. rows' = [rows EXCEPT ![s] = row] /\ ServicesTypeOK
    BY DEF FullInv, TypeOK
  <2>2. lives' = [lives EXCEPT ![s] = FinishedLife(row.totalGoals, row.startedAt, row.finishedAt)]
    BY <1>2, <1>4, <2>1, OneLife
  <2> QED
    BY <1>2, <1>5, <2>2
<1> QED
  BY <1>1, <1>5, <1>6 DEF Lifecycle!Finish, Lifecycle!Is, FinishedLife, lives

LEMMA IgnitionStartsOrRestarts ==
    ASSUME FullInv, NEW c \in Clients, SaveIgnition(c)
    PROVE  \E s \in Sims : Lifecycle!Start(s) \/ Lifecycle!Restart(s)
<1>1. PICK s \in Sims, copy \in Aggregate :
        /\ rows' = [rows EXCEPT ![s] = copy]
        /\ MayIgnite(copy, s)
        /\ rows[s] # NoRow => copy.startedAt - rows[s].startedAt >= Cooldown
  BY IgnitionSaves
<1>2. now' = now /\ now \in Nat
  BY DEF SaveIgnition, FullInv, TypeOK, ServicesTypeOK
<1>3. copy.startedAt \in Nat /\ copy.startedAt <= now
  BY <1>1 DEF Aggregate, MayIgnite
<1> PICK t \in 0 .. now : t = copy.startedAt
  BY <1>2, <1>3
<1>4. lives' = [lives EXCEPT ![s] = RunningLife(0, t)]
  BY <1>1, OneLife DEF MayIgnite, FullInv, TypeOK
<1>5. CASE rows[s] = NoRow
  <2>1. lives[s] = NoRow
    BY <1>5 DEF lives, LifeOf
  <2>2. Lifecycle!Start(s)
    BY <1>2, <1>4, <2>1 DEF Lifecycle!Start, Lifecycle!Running, RunningLife, lives
  <2> QED
    BY <2>2
<1>6. CASE rows[s] # NoRow
  <2>1. rows[s].state = "FINISHED" /\ rows[s].finishedAt <= t /\ t - rows[s].startedAt >= Cooldown
    BY <1>1, <1>6 DEF MayIgnite, Restartable
  <2>2. /\ lives[s] = FinishedLife(rows[s].totalGoals, rows[s].startedAt, rows[s].finishedAt)
        /\ lives[s] # NoRow
    BY <1>6, <2>1, LifeOfRow DEF lives
  <2>3. lives[s].state = "FINISHED" /\ lives[s].startedAt = rows[s].startedAt
        /\ lives[s].finishedAt = rows[s].finishedAt
    BY <2>2 DEF FinishedLife
  <2>4. rows[s].finishedAt \in rows[s].startedAt .. now /\ rows[s].startedAt \in Nat
    BY <1>6, <2>1, LifeOfRow DEF FullInv, PInv, SimInv, Dated, Aggregate
  <2>5. t \in lives[s].finishedAt .. now
    BY <1>2, <2>1, <2>3, <2>4
  <2>6. Lifecycle!Restart(s)
    BY <1>2, <1>4, <2>1, <2>2, <2>3, <2>5
    DEF Lifecycle!Restart, Lifecycle!Is, Lifecycle!Running, RunningLife, lives
  <2> QED
    BY <2>6
<1> QED
  BY <1>5, <1>6

LEMMA RunScoresOrFinishes ==
    ASSUME FullInv, NEW r \in Runs, SaveRun(r)
    PROVE  \E s \in Sims : Lifecycle!Goal(s) \/ Lifecycle!Finish(s)
<1>1. Live(r) /\ runs[r] \in Run /\ runs[r].pc = "save"
  BY RunShape DEF SaveRun, FullInv, TypeOK
<1> PICK s \in Sims : s = runs[r].sim
  BY <1>1 DEF Run
<1>2. Driving(r, s)
  BY <1>1 DEF Driving
<1>3. /\ runs[r].copy \in Aggregate /\ runs[r].tick \in Nat
      /\ rows[s] \in Aggregate /\ DriveInv(r, s)
  BY <1>2, RowOfRun
<1>4. rows[s].state = "RUNNING" /\ Progress(runs[r], s) /\ rows[s] # NoRow
  BY <1>1, <1>2, <1>3, ActedOn DEF DriveInv
<1>5. rows' = [rows EXCEPT ![s] = runs[r].copy] /\ UNCHANGED now
  BY DEF SaveRun, Save
<1>6. CASE \E t \in rows[s].startedAt .. now : runs[r].copy = Finish(rows[s], t)
  BY <1>4, <1>5, <1>6, EndingFinishes
<1>7. CASE runs[r].copy = ApplyGoal(rows[s])
  <2> PICK copy \in Aggregate : copy = ApplyGoal(rows[s]) /\ copy = runs[r].copy
    BY <1>3, <1>7
  <2>1. /\ copy.totalGoals = rows[s].totalGoals + 1 /\ copy.state = "RUNNING"
        /\ copy.startedAt = rows[s].startedAt
    BY <1>3, <1>4, GoalOperator
  <2>2. rows[s].totalGoals < GoalCount
    BY <1>3, <2>1, WorkerAssumption DEF DriveInv, Aggregate
  <2>3. lives[s] = RunningLife(rows[s].totalGoals, rows[s].startedAt) /\ lives[s] # NoRow
    BY <1>4, LifeOfRow DEF lives
  <2>4. lives' = [lives EXCEPT ![s] = RunningLife(rows[s].totalGoals + 1, rows[s].startedAt)]
    <3>1. rows' = [rows EXCEPT ![s] = copy] /\ ServicesTypeOK
      BY <1>5 DEF FullInv, TypeOK
    <3>2. lives' = [lives EXCEPT ![s] = RunningLife(copy.totalGoals, copy.startedAt)]
      BY <2>1, <3>1, OneLife
    <3> QED
      BY <2>1, <3>2
  <2>5. [lives[s] EXCEPT !.goals = lives[s].goals + 1] =
          RunningLife(rows[s].totalGoals + 1, rows[s].startedAt)
    BY <2>3 DEF RunningLife
  <2>6. lives' = [lives EXCEPT ![s].goals = @ + 1]
    BY <2>4, <2>5
  <2>7. lives[s].state = "RUNNING" /\ lives[s].goals < GoalCount
    BY <2>2, <2>3 DEF RunningLife
  <2>8. Lifecycle!Goal(s)
    BY <1>5, <2>3, <2>6, <2>7 DEF Lifecycle!Goal, Lifecycle!Is, lives
  <2> QED
    BY <2>8
<1> QED
  BY <1>4, <1>6, <1>7 DEF Progress

LEMMA HandlerFinishes ==
    ASSUME FullInv, NEW w \in Workers, AbortSave(w)
    PROVE  \E s \in Sims : Lifecycle!Finish(s)
<1>1. abortHandler[w] \in Finishing /\ abortHandler[w].pc = "save"
  BY HandlerShape DEF AbortSave, FullInv, TypeOK, WorkerTypeOK
<1> PICK s \in Sims, t \in Nat : s = abortHandler[w].sim /\ t = abortHandler[w].finishedAt
  BY <1>1 DEF Finishing
<1>2. Ending(w, s) /\ Handling(w, s)
  BY <1>1 DEF Ending, Handling, Resting
<1>3. rows[s] # NoRow /\ SimInv(s)
  BY <1>2, ActedOn
<1>4. rows[s].state = "RUNNING" /\ abortHandler[w].copy = Finish(rows[s], t)
  BY <1>1, <1>2, <1>3 DEF SimInv, EndInv
<1>5. t \in rows[s].startedAt .. now
  BY <1>2, <1>3 DEF SimInv, Dated, FinishAsked
<1>6. rows' = [rows EXCEPT ![s] = Finish(rows[s], t)] /\ UNCHANGED now
  BY <1>4 DEF AbortSave, Save
<1> QED
  BY <1>3, <1>4, <1>5, <1>6, EndingFinishes

(* Who saves a row. *)
LEMMA RequestsSave ==
    ASSUME OrchestratorNext
    PROVE  UNCHANGED <<rows, now>> \/ \E c \in Clients : SaveIgnition(c)
BY DEF OrchestratorNext, Serve, StartRequest, ClientRestarts, RestartRequest, FinishRequest,
       EnsureCanIgnite, PublishIgnition, DispatchIgnition, DispatchFinish, RequestFails, serviceVars

LEMMA WorkersSave ==
    ASSUME WorkerNext
    PROVE  \/ UNCHANGED <<rows, now>>
           \/ \E r \in Runs : SaveRun(r)
           \/ \E w \in Workers : AbortSave(w)
<1> USE DEF serviceVars, workerVars
<1>1. ASSUME NEW w \in Workers, TakeRun(w) \/ HandleRun(w)
      PROVE  UNCHANGED <<rows, now>>
  BY <1>1 DEF TakeRun, HandleRun, BeginRun, BeginEmptyRun, BeginThrows, Launch
<1>2. ASSUME NEW w \in Workers, DropAbort(w) \/ TakeAbort(w) \/ AbortFind(w) \/ AbortPublish(w)
      PROVE  UNCHANGED <<rows, now>>
  BY <1>2 DEF DropAbort, TakeAbort, AbortFind, AbortPublish
<1>3. ASSUME NEW w \in Workers,
             \/ Shutdown(w) \/ Stop(w) \/ Boot(w) \/ Crash(w)
             \/ RunHandlerFails(w) \/ AbortHandlerFails(w)
      PROVE  UNCHANGED <<rows, now>>
  BY <1>3 DEF Shutdown, Stop, CloseAborts, AbortInFlight, Drained, Boot, Crash,
              RunHandlerFails, AbortHandlerFails
<1>4. ASSUME NEW r \in Runs,
             \/ Wake(r) \/ WakeThrows(r) \/ AwaitedRunFails(r) \/ UnawaitedRunFails(r)
             \/ PublishAndExit(r) \/ PublishAndSleep(r) \/ PublishAndFinish(r)
      PROVE  UNCHANGED <<rows, now>>
  BY <1>4 DEF Wake, WakeThrows, AwaitedRunFails, UnawaitedRunFails,
              PublishAndExit, PublishAndSleep, PublishAndFinish, PublishAndGoOn
<1> QED
  BY <1>1, <1>2, <1>3, <1>4 DEF WorkerNext, HandleAbort, Engine

LEMMA StepIsLifecycle ==
    ASSUME FullInv, [Next]_vars
    PROVE  [Lifecycle!Next]_(Lifecycle!vars)
<1>1. UNCHANGED rows => UNCHANGED lives
  BY DEF lives, LifeOf
<1>2. CASE UNCHANGED <<rows, now>>
  BY <1>1, <1>2 DEF Lifecycle!vars, lives
<1>3. CASE \E c \in Clients : SaveIgnition(c)
  BY <1>3, IgnitionStartsOrRestarts DEF Lifecycle!Next
<1>4. CASE \E r \in Runs : SaveRun(r)
  BY <1>4, RunScoresOrFinishes DEF Lifecycle!Next
<1>5. CASE \E w \in Workers : AbortSave(w)
  BY <1>5, HandlerFinishes DEF Lifecycle!Next
<1>6. CASE Tick
  <2>1. now' = now + 1 /\ UNCHANGED lives
    BY <1>1, <1>6 DEF Tick
  <2> QED
    BY <2>1 DEF Lifecycle!Next, Lifecycle!Tick, lives
<1>7. CASE UNCHANGED vars
  BY <1>2, <1>7 DEF vars, serviceVars
<1> QED
  BY <1>2, <1>3, <1>4, <1>5, <1>6, <1>7, RequestsSave, WorkersSave DEF Next

(* The simulations table, written by requests, runs and handlers on any    *)
(* number of workers, with whatever faults, implements the life cycle:     *)
(* goals are counted one by one and at most GoalCount of them, a row       *)
(* finishes once and not before it started, and stays as it finished until *)
(* a restart a cooldown after its last start.                              *)
THEOREM TableKeepsPromise ==
    ASSUME Patient, OneClientEach
    PROVE  Spec => LifecycleSteps
<1>1. Init => Lifecycle!Init
  BY DEF Init, ServicesInit, Lifecycle!Init, LifeOf
<1> QED
  BY <1>1, StepIsLifecycle, FullInvariance, PTL DEF Spec, LifecycleSteps

-----------------------------------------------------------------------------
(* A simulation that lost whoever drove it.                                *)

Deserted(s) ==
    /\ RowIsRunning(s)
    /\ NoWriter(s) /\ ~Waiting(s) /\ NoTaker(s) /\ NoDriver(s) /\ NoEnder(s)

LEMMA NobodyComes ==
    ASSUME NEW s \in Sims, Deserted(s), rows'[s] = rows[s],
           RequestsCalm(s), QueueCalm(s), TakersCalm(s), RunsCalm(s), EndersCalm(s)
    PROVE  Deserted(s)'
BY DEF Deserted, RowIsRunning, NoWriter, NoTaker, NoDriver, NoEnder, RequestsCalm, QueueCalm,
       TakersCalm, RunsCalm, EndersCalm

(* Only an actor of s saves its row. *)
LEMMA DesertedRow ==
    ASSUME FullInv, [Next]_vars, NEW s \in Sims, Deserted(s)
    PROVE  rows'[s] = rows[s]
<1>1. CASE \E c \in Clients : SaveIgnition(c)
  <2> PICK c \in Clients : SaveIgnition(c)
    BY <1>1
  <2> PICK x \in Sims, copy \in Aggregate :
        rows' = [rows EXCEPT ![x] = copy] /\ MayIgnite(copy, x)
    BY IgnitionSaves
  <2>1. x # s
    BY DEF Deserted, RowIsRunning, MayIgnite, Restartable
  <2> QED
    BY <2>1
<1>2. CASE \E r \in Runs : SaveRun(r)
  <2> PICK r \in Runs : SaveRun(r)
    BY <1>2
  <2>1. Live(r)
    BY RunShape DEF SaveRun, FullInv, TypeOK
  <2>2. runs[r].sim # s
    BY <2>1 DEF Deserted, NoDriver, Driving
  <2> QED
    BY <2>2 DEF SaveRun, Save
<1>3. CASE \E w \in Workers : AbortSave(w)
  <2> PICK w \in Workers : AbortSave(w)
    BY <1>3
  <2>1. abortHandler[w].sim # s
    BY DEF Deserted, NoEnder, Ending, AbortSave
  <2> QED
    BY <2>1 DEF AbortSave, Save
<1> QED
  BY <1>1, <1>2, <1>3, RequestsSave, WorkersSave DEF Next, Tick, vars, serviceVars

LEMMA RequestsLeaveDeserted ==
    ASSUME FullInv, OrchestratorNext, NEW s \in Sims, Deserted(s), rows'[s] = rows[s]
    PROVE  Deserted(s)'
<1> PICK c \in Clients :
      StartRequest(c) \/ ClientRestarts(c) \/ FinishRequest(c) \/ Serve(c) \/ RequestFails(c)
  BY DEF OrchestratorNext
<1>1. /\ UNCHANGED workerVars
      /\ TakersCalm(s) /\ RunsCalm(s) /\ EndersCalm(s)
  BY Unmoved DEF OrchestratorNext, workerVars
<1>2. ASSUME NEW next, req' = [req EXCEPT ![c] = next],
             next.pc \in {"publish", "dispatch"} => next.sim # s, QueueCalm(s)
      PROVE  Deserted(s)'
  <2>1. req'[c] = next /\ \A d \in Clients \ {c} : req'[d] = req[d]
    BY <1>2 DEF FullInv, TypeOK, OrchestratorTypeOK
  <2>2. RequestsCalm(s)
    BY <1>2, <2>1 DEF RequestsCalm, Writing
  <2> QED
    BY <1>1, <1>2, <2>2, NobodyComes
<1>3. UNCHANGED runQueue => QueueCalm(s)
  BY Unmoved
<1>4. CASE StartRequest(c) \/ ClientRestarts(c) \/ FinishRequest(c) \/ RequestFails(c)
  <2>1. /\ UNCHANGED runQueue
        /\ \E next : req' = [req EXCEPT ![c] = next] /\ next.pc \in {"query", "abort", "idle"}
    BY <1>4
    DEF StartRequest, ClientRestarts, RestartRequest, FinishRequest, RequestFails, Idle, serviceVars
  <2> QED
    BY <1>2, <1>3, <2>1
<1>5. CASE EnsureCanIgnite(c) \/ DispatchFinish(c)
  <2>1. /\ UNCHANGED runQueue
        /\ \/ req' = [req EXCEPT ![c] = Idle]
           \/ req[c].pc = "query" /\ req' = [req EXCEPT ![c].pc = "save"]
    BY <1>5 DEF EnsureCanIgnite, DispatchFinish, Goto, serviceVars
  <2>2. CASE req' = [req EXCEPT ![c] = Idle]
    BY <1>2, <1>3, <2>1, <2>2 DEF Idle
  <2>3. CASE req[c].pc = "query" /\ req' = [req EXCEPT ![c].pc = "save"]
    <3> PICK next : next = [req[c] EXCEPT !.pc = "save"]
      OBVIOUS
    <3>1. req[c] \in Ignition
      BY <2>3, RequestShape DEF FullInv, TypeOK, Igniting
    <3>2. next.pc = "save" /\ req' = [req EXCEPT ![c] = next]
      BY <2>3, <3>1 DEF Ignition
    <3> QED
      BY <1>2, <1>3, <2>1, <3>2
  <2> QED
    BY <2>1, <2>2, <2>3
<1>6. CASE SaveIgnition(c) \/ PublishIgnition(c)
  <2> PICK pc \in {"publish", "dispatch"} : req' = [req EXCEPT ![c].pc = pc]
    BY <1>6 DEF SaveIgnition, PublishIgnition, Goto
  <2>1. req[c] \in Ignition /\ UNCHANGED runQueue
    BY <1>6, RequestShape DEF SaveIgnition, PublishIgnition, FullInv, TypeOK, Igniting
  <2> PICK next : next = [req[c] EXCEPT !.pc = pc]
    OBVIOUS
  <2>2. next.sim = req[c].sim /\ req' = [req EXCEPT ![c] = next]
    BY <2>1 DEF Ignition
  <2>3. req[c].sim # s
    <3>1. CASE SaveIgnition(c)
      BY <3>1, IgnitionSaves DEF MayIgnite, Restartable, Deserted, RowIsRunning
    <3>2. CASE PublishIgnition(c)
      BY <3>2 DEF PublishIgnition, Deserted, NoWriter, Writing
    <3> QED
      BY <1>6, <3>1, <3>2
  <2> QED
    BY <1>2, <1>3, <2>1, <2>2, <2>3
<1>7. CASE DispatchIgnition(c)
  <2>1. /\ req[c] \in Ignition /\ req[c].pc = "dispatch"
        /\ req[c].sim \in Sims /\ req[c].copy.profile \in Profiles
    BY <1>7, RequestShape DEF DispatchIgnition, Igniting, FullInv, TypeOK, Ignition, Aggregate
  <2> PICK x \in Sims, p \in Profiles, q \in Seq(Sims) :
        x = req[c].sim /\ p = req[c].copy.profile /\ q = runQueue[p]
    BY <2>1 DEF FullInv, TypeOK, ServicesTypeOK
  <2>2. runQueue' = [runQueue EXCEPT ![p] = IF TRUE THEN Append(q, x) ELSE <<x>> \o q]
    BY <1>7 DEF DispatchIgnition, DispatchRun
  <2>3. x # s
    BY <2>1 DEF Deserted, NoWriter, Writing
  <2>4. QueueCalm(s)
    BY <2>2, <2>3, Joins DEF FullInv
  <2>5. req' = [req EXCEPT ![c] = Idle] /\ Idle.pc = "idle"
    BY <1>7 DEF DispatchIgnition, Idle
  <2> QED
    BY <1>2, <2>4, <2>5
<1> QED
  BY <1>4, <1>5, <1>6, <1>7 DEF Serve

(* The command a process gives back is not of s. *)
LEMMA DeathLeavesDeserted ==
    ASSUME FullInv, NEW w \in Workers, NEW job \in {runHandler[w], NoSim}, Dies(w, job),
           UNCHANGED req, NEW s \in Sims, Deserted(s), rows'[s] = rows[s]
    PROVE  Deserted(s)'
<1>1. TakersCalm(s)
  <2>1. runHandler'[w] = NoSim /\ \A v \in Workers \ {w} : runHandler'[v] = runHandler[v]
    BY DEF Dies, FullInv, TypeOK, WorkerTypeOK
  <2> QED
    BY <2>1, WorkerAssumption DEF TakersCalm
<1>2. RunsCalm(s)
  <2>1. \A r \in Runs : Live(r)' => Live(r) /\ runs'[r] = runs[r]
    BY DEF Dies, Live
  <2> QED
    BY <2>1 DEF RunsCalm, Driving, SameRun
<1>3. EndersCalm(s)
  <2>1. abortHandler'[w] = Resting /\ \A v \in Workers \ {w} : abortHandler'[v] = abortHandler[v]
    BY DEF Dies, FullInv, TypeOK, WorkerTypeOK
  <2> QED
    BY <2>1 DEF EndersCalm, Ending, Resting
<1>4. QueueCalm(s)
  <2>1. CASE job = NoSim
    BY <2>1, Unmoved DEF Dies
  <2>2. CASE job # NoSim
    <3> PICK x \in Sims : x = job /\ runHandler[w] = x
      BY <2>2 DEF FullInv, TypeOK, WorkerTypeOK
    <3> PICK p \in Profiles, q \in Seq(Sims) : p = ProfileOf[w] /\ q = runQueue[p]
      BY WorkerAssumption DEF FullInv, TypeOK, ServicesTypeOK
    <3>1. runQueue' = [runQueue EXCEPT ![p] = IF FALSE THEN Append(q, x) ELSE <<x>> \o q]
      BY <2>2 DEF Dies
    <3>2. x # s
      BY DEF Deserted, NoTaker
    <3> QED
      BY <3>1, <3>2, Joins DEF FullInv
  <2> QED
    BY <2>1, <2>2
<1>5. RequestsCalm(s)
  BY Unmoved
<1> QED
  BY <1>1, <1>2, <1>3, <1>4, <1>5, NobodyComes

(* A run that goes on or returns, and a handler that goes on, are not of s.*)
LEMMA RunLeavesDeserted ==
    ASSUME FullInv, NEW r \in Runs, Live(r), NEW run, runs' = [runs EXCEPT ![r] = run],
           run = Free \/ run.sim = runs[r].sim,
           UNCHANGED <<req, runQueue, runHandler>>,
           NEW s \in Sims, Deserted(s), rows'[s] = rows[s], EndersCalm(s)
    PROVE  Deserted(s)'
<1>1. runs'[r] = run /\ \A q \in Runs \ {r} : runs'[q] = runs[q]
  BY DEF FullInv, TypeOK, WorkerTypeOK
<1>2. runs[r].sim # s
  BY DEF Deserted, NoDriver, Driving
<1>3. RunsCalm(s)
  BY <1>1, <1>2 DEF RunsCalm, Driving, Live, SameRun
<1> QED
  BY <1>3, Unmoved, NobodyComes

LEMMA ExitLeavesDeserted ==
    ASSUME FullInv, NEW r \in Runs, Live(r), Exit(r), UNCHANGED <<req, runQueue>>,
           NEW s \in Sims, Deserted(s), rows'[s] = rows[s]
    PROVE  Deserted(s)'
<1>1. runs[r] \in Run /\ runs[r].sim # s
  BY RunShape DEF FullInv, TypeOK, Deserted, NoDriver, Driving
<1> PICK w \in Workers : w = runs[r].worker
  BY <1>1 DEF Run
<1> PICK h : h = Resumed(abortHandler[w], r)
  OBVIOUS
<1>2. abortHandler'[w] = h /\ \A v \in Workers \ {w} : abortHandler'[v] = abortHandler[v]
  BY DEF Exit, FullInv, TypeOK, WorkerTypeOK
<1>3. h = abortHandler[w] \/ h.sim # s
  BY <1>1 DEF Resumed, FullInv, PInv, DrainsItsOwn
<1>4. EndersCalm(s)
  BY <1>2, <1>3 DEF EndersCalm, Ending
<1> QED
  BY <1>4, RunLeavesDeserted DEF Exit

LEMMA EngineLeavesDeserted ==
    ASSUME FullInv, NEW r \in Runs, Engine(r) \/ AwaitedRunFails(r) \/ UnawaitedRunFails(r),
           UNCHANGED req, NEW s \in Sims, Deserted(s), rows'[s] = rows[s]
    PROVE  Deserted(s)'
<1>1. Live(r) /\ runs[r] \in Run
  BY RunShape
  DEF Engine, Wake, WakeThrows, SaveRun, PublishAndExit, PublishAndSleep, PublishAndFinish,
      PublishAndGoOn, AwaitedRunFails, UnawaitedRunFails, FullInv, TypeOK
<1>2. CASE Wake(r)
  <2> PICK run : run = [runs[r] EXCEPT !.copy = ApplyGoal(runs[r].copy),
                                       !.tick = runs[r].tick + 1, !.pc = "save"]
    OBVIOUS
  <2>1. run.sim = runs[r].sim
    BY <1>1 DEF Run
  <2>2. /\ runs' = [runs EXCEPT ![r] = run]
        /\ UNCHANGED <<runQueue, runHandler>> /\ EndersCalm(s)
    BY <1>2, Unmoved DEF Wake, serviceVars
  <2> QED
    BY <1>1, <2>1, <2>2, RunLeavesDeserted
<1>3. CASE SaveRun(r)
  <2> PICK run : run = [runs[r] EXCEPT !.pc = "publish"]
    OBVIOUS
  <2>1. run.sim = runs[r].sim
    BY <1>1 DEF Run
  <2>2. /\ runs' = [runs EXCEPT ![r] = run]
        /\ UNCHANGED <<runQueue, runHandler>> /\ EndersCalm(s)
    BY <1>3, Unmoved DEF SaveRun
  <2> QED
    BY <1>1, <2>1, <2>2, RunLeavesDeserted
<1>4. CASE PublishAndSleep(r)
  <2> PICK run : run = [runs[r] EXCEPT !.pc = "sleep"]
    OBVIOUS
  <2>1. run.sim = runs[r].sim
    BY <1>1 DEF Run
  <2>2. /\ runs' = [runs EXCEPT ![r] = run]
        /\ UNCHANGED <<runQueue, runHandler>> /\ EndersCalm(s)
    BY <1>4, Unmoved DEF PublishAndSleep
  <2> QED
    BY <1>1, <2>1, <2>2, RunLeavesDeserted
<1>5. CASE PublishAndFinish(r)
  <2> PICK run : run = [runs[r] EXCEPT !.copy = Finish(runs[r].copy, now), !.pc = "save"]
    OBVIOUS
  <2>1. run.sim = runs[r].sim
    BY <1>1 DEF Run
  <2>2. /\ runs' = [runs EXCEPT ![r] = run]
        /\ UNCHANGED <<runQueue, runHandler>> /\ EndersCalm(s)
    BY <1>5, Unmoved DEF PublishAndFinish
  <2> QED
    BY <1>1, <2>1, <2>2, RunLeavesDeserted
<1>6. CASE PublishAndExit(r) \/ AwaitedRunFails(r)
  <2>1. Exit(r) /\ UNCHANGED runQueue
    BY <1>6 DEF PublishAndExit, AwaitedRunFails
  <2> QED
    BY <1>1, <2>1, ExitLeavesDeserted
<1>7. CASE WakeThrows(r) \/ UnawaitedRunFails(r)
  <2> PICK w \in Workers : w = runs[r].worker
    BY <1>1 DEF Run
  <2>1. Dies(w, runHandler[w])
    BY <1>7 DEF WakeThrows, UnawaitedRunFails
  <2> QED
    BY <2>1, DeathLeavesDeserted
<1> QED
  BY <1>2, <1>3, <1>4, <1>5, <1>6, <1>7 DEF Engine

LEMMA RunHandlersLeaveDeserted ==
    ASSUME FullInv, NEW w \in Workers, TakeRun(w) \/ HandleRun(w) \/ RunHandlerFails(w),
           UNCHANGED req, NEW s \in Sims, Deserted(s), rows'[s] = rows[s]
    PROVE  Deserted(s)'
<1>1. RequestsCalm(s)
  BY Unmoved
<1>2. ASSUME NEW x, runHandler' = [runHandler EXCEPT ![w] = x], x # s
      PROVE  TakersCalm(s)
  <2>1. runHandler'[w] = x /\ \A v \in Workers \ {w} : runHandler'[v] = runHandler[v]
    BY <1>2 DEF FullInv, TypeOK, WorkerTypeOK
  <2> QED
    BY <1>2, <2>1 DEF TakersCalm
<1>3. CASE TakeRun(w)
  <2> PICK p \in Profiles, q \in Seq(Sims) : p = ProfileOf[w] /\ q = runQueue[p]
    BY WorkerAssumption DEF FullInv, TypeOK, ServicesTypeOK
  <2> PICK x : x = Head(q)
    OBVIOUS
  <2>1. /\ q # << >>
        /\ runQueue' = [runQueue EXCEPT ![p] = Tail(q)]
        /\ runHandler' = [runHandler EXCEPT ![w] = x]
        /\ UNCHANGED <<abortHandler, runs>>
    BY <1>3 DEF TakeRun
  <2>2. Waiting(x) /\ QueueCalm(s)
    BY <2>1, Leaves DEF FullInv
  <2>3. x # s
    BY <2>2 DEF Deserted
  <2> QED
    BY <1>1, <1>2, <2>1, <2>2, <2>3, Unmoved, NobodyComes
<1>4. ASSUME NEW r \in Runs, ~Live(r), NEW pc, NEW copy,
             Launch(w, runHandler[w], r, NewRun(w, runHandler[w], pc, copy))
      PROVE  Deserted(s)'
  <2> PICK run : run = NewRun(w, runHandler[w], pc, copy)
    OBVIOUS
  <2>1. run.sim # s
    BY DEF NewRun, Deserted, NoTaker
  <2>2. /\ runs' = [runs EXCEPT ![r] = run]
        /\ runHandler' = [runHandler EXCEPT ![w] = NoSim]
        /\ UNCHANGED <<runQueue, abortHandler>>
    BY <1>4 DEF Launch
  <2>3. runs'[r] = run /\ \A q \in Runs \ {r} : runs'[q] = runs[q]
    BY <2>2 DEF FullInv, TypeOK, WorkerTypeOK
  <2>4. RunsCalm(s)
    BY <2>1, <2>3 DEF RunsCalm, Driving, Live, SameRun
  <2>5. TakersCalm(s)
    BY <1>2, <2>2, WorkerAssumption
  <2> QED
    BY <1>1, <2>2, <2>4, <2>5, Unmoved, NobodyComes
<1>5. CASE BeginRun(w)
  <2>1. CASE rows[runHandler[w]] = NoRow
    <3>1. /\ runHandler' = [runHandler EXCEPT ![w] = NoSim]
          /\ UNCHANGED <<runQueue, abortHandler, runs>>
      BY <1>5, <2>1 DEF BeginRun, serviceVars
    <3>2. TakersCalm(s)
      BY <1>2, <3>1, WorkerAssumption
    <3> QED
      BY <1>1, <3>1, <3>2, Unmoved, NobodyComes
  <2>2. CASE rows[runHandler[w]] # NoRow
    BY <1>4, <1>5, <2>2 DEF BeginRun
  <2> QED
    BY <2>1, <2>2
<1>6. CASE BeginEmptyRun(w)
  BY <1>4, <1>6 DEF BeginEmptyRun
<1>7. CASE BeginThrows(w)
  <2>1. \E job \in {runHandler[w], NoSim} : Dies(w, job)
    BY <1>7 DEF BeginThrows
  <2> QED
    BY <2>1, DeathLeavesDeserted
<1>8. CASE RunHandlerFails(w)
  <2>1. /\ runHandler' = [runHandler EXCEPT ![w] = NoSim]
        /\ UNCHANGED <<runQueue, abortHandler, runs>>
    BY <1>8 DEF RunHandlerFails
  <2>2. TakersCalm(s)
    BY <1>2, <2>1, WorkerAssumption
  <2> QED
    BY <1>1, <2>1, <2>2, Unmoved, NobodyComes
<1> QED
  BY <1>3, <1>5, <1>6, <1>7, <1>8 DEF HandleRun

LEMMA AbortHandlersLeaveDeserted ==
    ASSUME FullInv, NEW w \in Workers,
           DropAbort(w) \/ TakeAbort(w) \/ HandleAbort(w) \/ AbortHandlerFails(w),
           UNCHANGED req, NEW s \in Sims, Deserted(s), rows'[s] = rows[s]
    PROVE  Deserted(s)'
<1>1. UNCHANGED <<runQueue, runHandler>>
  BY DEF DropAbort, TakeAbort, HandleAbort, AbortFind, AbortSave, AbortPublish, AbortHandlerFails,
         serviceVars, workerVars
<1>2. /\ RequestsCalm(s) /\ QueueCalm(s) /\ TakersCalm(s)
      /\ UNCHANGED runs => RunsCalm(s)
      /\ UNCHANGED abortHandler => EndersCalm(s)
  BY <1>1, Unmoved
<1>3. ASSUME NEW h, abortHandler' = [abortHandler EXCEPT ![w] = h],
             \/ h.pc \notin {"find", "save", "publish"}
             \/ h.sim # s
             \/ Ending(w, s)
      PROVE  EndersCalm(s)
  <2>1. abortHandler'[w] = h /\ \A v \in Workers \ {w} : abortHandler'[v] = abortHandler[v]
    BY <1>3 DEF FullInv, TypeOK, WorkerTypeOK
  <2>2. ~Ending(w, s)
    BY DEF Deserted, NoEnder
  <2> QED
    BY <1>3, <2>1, <2>2 DEF EndersCalm, Ending
<1>4. CASE DropAbort(w)
  BY <1>2, <1>4, NobodyComes DEF DropAbort, workerVars
<1>5. CASE TakeAbort(w)
  <2>1. abortQueue # << >> /\ Target(w) # NoRun
    BY <1>5 DEF TakeAbort, CanTakeAbort
  <2>2. Head(abortQueue) \in AbortCommand
    BY <2>1, AbortLeaves DEF FullInv, TypeOK, ServicesTypeOK
  <2> PICK x \in Sims : x = Head(abortQueue).sim
    BY <2>2 DEF AbortCommand
  <2> PICK r \in Runs : r = Target(w)
    BY <2>1 DEF Target, FullInv, TypeOK, WorkerTypeOK
  <2>3. Live(r) /\ runs[r].sim = x /\ runs[r] \in Run
    BY <2>1, RunShape DEF Target, FullInv, MapInv, InFlightIsLive, TypeOK
  <2>4. x # s
    BY <2>3 DEF Deserted, NoDriver, Driving
  <2> PICK run : run = IF runs[r].pc = "sleep" THEN Free ELSE [runs[r] EXCEPT !.aborted = TRUE]
    OBVIOUS
  <2>5. run = Free \/ run.sim = runs[r].sim
    BY <2>3 DEF Run
  <2>6. runs' = [runs EXCEPT ![r] = run]
    BY <1>5 DEF TakeAbort
  <2> PICK h : h = IF runs[r].pc = "sleep"
                   THEN [pc |-> "find", sim |-> x, finishedAt |-> Head(abortQueue).finishedAt]
                   ELSE [pc |-> "draining", sim |-> x,
                         finishedAt |-> Head(abortQueue).finishedAt, run |-> r]
    OBVIOUS
  <2>7. h.sim # s /\ abortHandler' = [abortHandler EXCEPT ![w] = h]
    BY <1>5, <2>4 DEF TakeAbort
  <2>8. EndersCalm(s)
    BY <1>3, <2>7
  <2> QED
    BY <1>1, <2>3, <2>5, <2>6, <2>8, RunLeavesDeserted
<1>6. CASE AbortFind(w)
  <2> PICK h : h = IF rows[abortHandler[w].sim] # NoRow
                      /\ rows[abortHandler[w].sim].state = "RUNNING"
                   THEN [pc |-> "save", sim |-> abortHandler[w].sim,
                         finishedAt |-> abortHandler[w].finishedAt,
                         copy |-> Finish(rows[abortHandler[w].sim], abortHandler[w].finishedAt)]
                   ELSE Resting
    OBVIOUS
  <2>1. abortHandler' = [abortHandler EXCEPT ![w] = h] /\ abortHandler[w].pc = "find"
        /\ UNCHANGED runs
    BY <1>6 DEF AbortFind
  <2>2. h.pc = "idle" \/ h.sim # s \/ Ending(w, s)
    BY <2>1 DEF Resting, Ending
  <2>3. EndersCalm(s)
    BY <1>3, <2>1, <2>2
  <2> QED
    BY <1>2, <2>1, <2>3, NobodyComes
<1>7. CASE AbortSave(w)
  <2> PICK h : h = [abortHandler[w] EXCEPT !.pc = "publish"]
    OBVIOUS
  <2>1. abortHandler' = [abortHandler EXCEPT ![w] = h] /\ abortHandler[w].pc = "save"
        /\ UNCHANGED runs
    BY <1>7 DEF AbortSave
  <2>2. abortHandler[w] \in Finishing
    BY <2>1, HandlerShape DEF FullInv, TypeOK, WorkerTypeOK
  <2>3. h.sim # s \/ Ending(w, s)
    BY <2>1, <2>2 DEF Ending, Finishing
  <2>4. EndersCalm(s)
    BY <1>3, <2>1, <2>3
  <2> QED
    BY <1>2, <2>1, <2>4, NobodyComes
<1>8. CASE AbortPublish(w) \/ AbortHandlerFails(w)
  <2>1. abortHandler' = [abortHandler EXCEPT ![w] = Resting] /\ Resting.pc = "idle"
        /\ UNCHANGED runs
    BY <1>8 DEF AbortPublish, AbortHandlerFails, Resting
  <2>2. EndersCalm(s)
    BY <1>3, <2>1
  <2> QED
    BY <1>2, <2>1, <2>2, NobodyComes
<1> QED
  BY <1>4, <1>5, <1>6, <1>7, <1>8 DEF HandleAbort

LEMMA ProcessesLeaveDeserted ==
    ASSUME FullInv, NEW w \in Workers, Shutdown(w) \/ Stop(w) \/ Boot(w) \/ Crash(w),
           UNCHANGED req, NEW s \in Sims, Deserted(s), rows'[s] = rows[s]
    PROVE  Deserted(s)'
<1>1. CASE Shutdown(w) \/ CloseAborts(w) \/ Boot(w)
  <2>1. UNCHANGED <<runQueue, runHandler, abortHandler, runs>>
    BY <1>1 DEF Shutdown, CloseAborts, Boot, serviceVars
  <2> QED
    BY <2>1, Unmoved, NobodyComes
<1>2. CASE Drained(w) \/ Crash(w)
  <2>1. \E job \in {runHandler[w], NoSim} : Dies(w, job)
    BY <1>2 DEF Drained, Crash
  <2> QED
    BY <2>1, DeathLeavesDeserted
<1>3. CASE AbortInFlight(w)
  <2>1. UNCHANGED <<runQueue, runHandler, abortHandler>>
    BY <1>3 DEF AbortInFlight, serviceVars
  <2> DEFINE registered == {inFlight[w][x] : x \in Sims} \ {NoRun}
             asleep == {r \in registered : runs[r].pc = "sleep"}
  <2>2. runs' = [r \in Runs |-> IF r \in asleep THEN Free
                                ELSE IF r \in registered THEN [runs[r] EXCEPT !.aborted = TRUE]
                                ELSE runs[r]]
    BY <1>3 DEF AbortInFlight
  <2>3. \A r \in registered : Live(r)
    BY DEF FullInv, MapInv, InFlightIsLive
  <2> HIDE DEF registered, asleep
  <2>4. ASSUME NEW r \in Runs, Driving(r, s)'
        PROVE  FALSE
    <3>1. runs'[r] # Free /\ runs'[r].sim = s
      BY <2>4 DEF Driving, Live
    <3>2. CASE r \in registered
      <4>1. Live(r) /\ runs[r] \in Run
        BY <2>3, <3>2, RunShape DEF FullInv, TypeOK
      <4>2. runs'[r] = [runs[r] EXCEPT !.aborted = TRUE]
        BY <2>2, <3>1, <3>2
      <4> QED
        BY <3>1, <4>1, <4>2 DEF Run, Deserted, NoDriver, Driving
    <3>3. CASE r \notin registered
      <4>1. runs'[r] = runs[r]
        BY <2>2, <3>1, <3>3
      <4> QED
        BY <3>1, <4>1 DEF Deserted, NoDriver, Driving, Live
    <3> QED
      BY <3>2, <3>3
  <2>5. RunsCalm(s)
    BY <2>4 DEF RunsCalm
  <2> QED
    BY <2>1, <2>5, Unmoved, NobodyComes
<1> QED
  BY <1>1, <1>2, <1>3 DEF Stop

LEMMA DesertedStays ==
    ASSUME FullInv, [Next]_vars, NEW s \in Sims, Deserted(s)
    PROVE  rows'[s] = rows[s] /\ Deserted(s)'
<1>1. rows'[s] = rows[s]
  BY DesertedRow
<1>2. CASE (Tick /\ UNCHANGED <<req, workerVars>>) \/ UNCHANGED vars
  <2>1. UNCHANGED <<req, runQueue, runHandler, abortHandler, runs>>
    BY <1>2 DEF Tick, vars, serviceVars, workerVars
  <2> QED
    BY <1>1, <2>1, Unmoved, NobodyComes
<1>3. CASE OrchestratorNext
  BY <1>1, <1>3, RequestsLeaveDeserted
<1>4. CASE WorkerNext
  <2>1. UNCHANGED req
    BY <1>4 DEF WorkerNext
  <2> QED
    BY <1>1, <1>4, <2>1, RunHandlersLeaveDeserted, AbortHandlersLeaveDeserted,
       ProcessesLeaveDeserted, EngineLeavesDeserted DEF WorkerNext
<1> QED
  BY <1>1, <1>2, <1>3, <1>4 DEF Next

(* What has lost its driver while it was RUNNING is left alone by all that *)
(* is still under way: a RUN or ABORT command given back by a process that *)
(* died, a finish request, a handler that goes on after its await.         *)
THEOREM NobodyReturns ==
    ASSUME Patient, OneClientEach
    PROVE  Spec => StrandedStays
<1> DEFINE Undriven == \A s \in Sims : Deserted(s) => Drivers(s) = {}
           A == \A s \in Sims :
                   rows[s] # NoRow /\ rows[s].state = "RUNNING" /\ Drivers(s) = {} =>
                       rows'[s] = rows[s] /\ Drivers(s)' = {}
<1>1. FullInv => Undriven
  <2> SUFFICES ASSUME FullInv, NEW s \in Sims, Deserted(s), NEW d \in Drivers(s)
               PROVE  FALSE
    OBVIOUS
  <2> QED
    BY DriverForms DEF Deserted, NoWriter, Waiting, NoTaker, NoDriver, NoEnder
<1>2. FullInv /\ Undriven' /\ [Next]_vars => [A]_vars
  <2> SUFFICES ASSUME FullInv, Undriven', [Next]_vars, NEW s \in Sims,
                      rows[s] # NoRow, rows[s].state = "RUNNING", Drivers(s) = {}
               PROVE  rows'[s] = rows[s] /\ Drivers(s)' = {}
    OBVIOUS
  <2>1. ~Acting(s)
    BY ActorsDrive DEF RowIsRunning
  <2>2. Deserted(s)
    BY <2>1 DEF Acting, Deserted, RowIsRunning, NoWriter, NoTaker, NoDriver, NoEnder
  <2>3. rows'[s] = rows[s] /\ Deserted(s)'
    BY <2>2, DesertedStays
  <2> QED
    BY <2>3
<1>3. Spec => []FullInv
  BY FullInvariance
<1> HIDE DEF Undriven, A
<1>4. Spec => [][A]_vars
  BY <1>1, <1>2, <1>3, PTL DEF Spec
<1> QED
  BY <1>4 DEF A, StrandedStays

-----------------------------------------------------------------------------
(* How far the room lags behind the row.                                   *)

(* A run with the next goal, or the end, before it. *)
OnItsWay(r, s) == Driving(r, s) /\ runs[r].pc \in {"sleep", "save"}

(* What is before it was told up to the row. *)
CloseInv(s) ==
    rows[s] # NoRow =>
        /\ rows[s].totalGoals <= ToldGoals(s) + 1
        /\ \A r \in Runs : OnItsWay(r, s) => rows[s].totalGoals <= ToldGoals(s)

LEMMA ToldGoalsType ==
    ASSUME ServicesTypeOK, NEW s \in Sims
    PROVE  ToldGoals(s) \in Nat
<1>1. feed[s] \in Seq(Event)
  BY DEF ServicesTypeOK
<1>2. CASE feed[s] = << >> \/ feed[s][Len(feed[s])] \in Ignitions
  BY <1>2 DEF ToldGoals
<1>3. CASE feed[s] # << >> /\ feed[s][Len(feed[s])] \notin Ignitions
  <2>1. feed[s][Len(feed[s])] \in Event
    BY <1>1, <1>3
  <2>2. feed[s][Len(feed[s])].totalGoals \in Nat
    BY <1>3, <2>1 DEF Event
  <2> QED
    BY <1>3, <2>2 DEF ToldGoals
<1> QED
  BY <1>2, <1>3

(* A room that is told what its row says knows its goals. *)
LEMMA ToldAgrees ==
    ASSUME NEW s \in Sims, feed'[s] # << >>, NEW event \in Event, event = feed'[s][Len(feed'[s])],
           NEW row, row = rows'[s], Agrees(event, row)
    PROVE  ToldGoals(s)' = row.totalGoals
<1>1. CASE event \in Ignitions
  <2>1. \A word \in Ignitions : word.type \notin {"GoalScored", "SimulationFinished"}
    BY DEF Ignitions, SimulationStarted, SimulationRestarted
  <2>2. row.totalGoals = 0
    BY <1>1, <2>1 DEF Agrees
  <2> QED
    BY <1>1, <2>2 DEF ToldGoals
<1>2. CASE event \notin Ignitions
  <2>1. ToldGoals(s)' = event.totalGoals
    BY <1>2 DEF ToldGoals
  <2>2. event.type \in {"GoalScored", "SimulationFinished"}
    BY <1>2 DEF Event
  <2>3. row.totalGoals = event.totalGoals
    BY <1>2, <2>2 DEF Agrees
  <2> QED
    BY <2>1, <2>3
<1> QED
  BY <1>1, <1>2

(* The step that tells the room of s something. *)
LEMMA StepTellsRow ==
    ASSUME FullInv, [Next]_vars, NEW s \in Sims, feed'[s] # feed[s]
    PROVE  UNCHANGED rows /\ Agrees(feed'[s][Len(feed'[s])], rows[s])
<1>1. Next
  BY DEF vars, serviceVars
<1>2. UNCHANGED rows
  <2>1. CASE OrchestratorNext
    <3>1. ~\E c \in Clients : SaveIgnition(c)
      BY DEF SaveIgnition
    <3> QED
      BY <2>1, <3>1, RequestsSave
  <2>2. CASE WorkerNext
    <3>1. ~(\E r \in Runs : SaveRun(r)) /\ ~(\E w \in Workers : AbortSave(w))
      BY DEF SaveRun, AbortSave
    <3> QED
      BY <2>2, <3>1, WorkersSave
  <2> QED
    BY <1>1, <2>1, <2>2 DEF Next, Tick
<1> SUFFICES Agrees(feed'[s][Len(feed'[s])], rows[s])
  BY <1>2
<1>3. CASE OrchestratorNext
  <2>1. \E c \in Clients : PublishIgnition(c)
    BY <1>3, RequestsTell
  <2> QED
    BY <2>1, RequestTellsRow
<1>4. CASE WorkerNext
  BY <1>4, WorkersTell, RunTellsRow, HandlerTellsRow
<1>5. ~Tick
  BY DEF Tick
<1> QED
  BY <1>1, <1>2, <1>3, <1>4, <1>5 DEF Next

LEMMA RoomHears ==
    ASSUME FullInv, NEW x \in Sims, NEW event, Publish(x, event), NEW s \in Sims, feed'[s] # feed[s]
    PROVE  feed'[s] # << >>
<1> DEFINE Words == Event \cup {event}
<1>1. feed[x] \in Seq(Words) /\ event \in Words
  BY DEF FullInv, TypeOK, ServicesTypeOK
<1>2. Append(feed[x], event) # << >> /\ <<event>> # << >>
  BY <1>1
<1>3. feed'[x] = Forward(feed[x], event) /\ \A y \in Sims \ {x} : feed'[y] = feed[y]
  BY DEF Publish, FullInv, TypeOK, ServicesTypeOK
<1>4. s = x
  BY <1>3
<1> QED
  BY <1>2, <1>3, <1>4 DEF Forward

LEMMA StepTellsRoom ==
    ASSUME FullInv, [Next]_vars, NEW s \in Sims, feed'[s] # feed[s]
    PROVE  feed'[s] # << >>
<1>1. Next
  BY DEF vars, serviceVars
<1>2. CASE OrchestratorNext
  <2> PICK c \in Clients : PublishIgnition(c)
    BY <1>2, RequestsTell
  <2>1. req[c].sim \in Sims
    BY RequestShape DEF PublishIgnition, Igniting, FullInv, TypeOK, Ignition
  <2> QED
    BY <2>1, RoomHears DEF PublishIgnition
<1>3. CASE WorkerNext
  <2>1. ASSUME NEW r \in Runs, runs[r].pc = "publish", Publish(runs[r].sim, RunEvent(r))
        PROVE  feed'[s] # << >>
    <3>1. runs[r].sim \in Sims
      BY <2>1, RunShape DEF FullInv, TypeOK, Run
    <3> QED
      BY <2>1, <3>1, RoomHears
  <2>2. ASSUME NEW w \in Workers, AbortPublish(w)
        PROVE  feed'[s] # << >>
    <3>1. abortHandler[w].sim \in Sims
      BY <2>2, HandlerShape DEF AbortPublish, FullInv, TypeOK, WorkerTypeOK, Finishing
    <3> QED
      BY <2>2, <3>1, RoomHears DEF AbortPublish
  <2> QED
    BY <1>3, <2>1, <2>2, WorkersTell
<1>4. ~Tick
  BY DEF Tick
<1> QED
  BY <1>1, <1>2, <1>3, <1>4 DEF Next

(* Where the runs on their way come from. *)
LEMMA LaunchComes ==
    ASSUME FullInv, NEW w \in Workers, HandleRun(w), NEW s \in Sims, NEW r \in Runs,
           OnItsWay(r, s)', ~OnItsWay(r, s)
    PROVE  rows[s].totalGoals = 0
<1> PICK x \in Sims : x = runHandler[w]
  BY DEF HandleRun, BeginRun, BeginEmptyRun, BeginThrows, FullInv, TypeOK, WorkerTypeOK
<1>1. rows[x] # NoRow /\ Ready(x)
  BY ActedOn DEF SimInv
<1>2. ~BeginThrows(w)
  BY <1>1 DEF BeginThrows, Ready
<1>3. PICK q \in Runs : \E pc, copy : Launch(w, x, q, NewRun(w, x, pc, copy))
  BY <1>1, <1>2 DEF HandleRun, BeginRun, BeginEmptyRun
<1> PICK pc, copy : Launch(w, x, q, NewRun(w, x, pc, copy))
  BY <1>3
<1> PICK run : run = NewRun(w, x, pc, copy)
  OBVIOUS
<1>4. run.sim = x
  BY DEF NewRun
<1>5. runs'[q] = run /\ \A o \in Runs \ {q} : runs'[o] = runs[o]
  BY DEF Launch, FullInv, TypeOK, WorkerTypeOK
<1>6. r = q
  BY <1>5 DEF OnItsWay, Driving, Live
<1>7. x = s
  BY <1>4, <1>5, <1>6 DEF OnItsWay, Driving
<1> QED
  BY <1>1, <1>7 DEF Ready

LEMMA EngineComes ==
    ASSUME FullInv, NEW q \in Runs, Engine(q) \/ AwaitedRunFails(q) \/ UnawaitedRunFails(q),
           NEW s \in Sims, NEW r \in Runs, OnItsWay(r, s)', ~OnItsWay(r, s)
    PROVE  Driving(r, s) /\ runs[r].pc = "publish" /\ Publish(s, RunEvent(r))
<1>1. Live(q) /\ runs[q] \in Run
  BY RunShape
  DEF Engine, Wake, WakeThrows, SaveRun, PublishAndExit, PublishAndSleep, PublishAndFinish,
      PublishAndGoOn, AwaitedRunFails, UnawaitedRunFails, FullInv, TypeOK
<1>2. ASSUME NEW run, runs' = [runs EXCEPT ![q] = run]
      PROVE  r = q /\ runs'[q] = run
  <2>1. runs'[q] = run /\ \A o \in Runs \ {q} : runs'[o] = runs[o]
    BY <1>2 DEF FullInv, TypeOK, WorkerTypeOK
  <2> QED
    BY <2>1 DEF OnItsWay, Driving, Live
<1>3. ~Wake(q)
  <2> SUFFICES ASSUME Wake(q) PROVE FALSE
    OBVIOUS
  <2> PICK run : run = [runs[q] EXCEPT !.copy = ApplyGoal(runs[q].copy),
                                       !.tick = runs[q].tick + 1, !.pc = "save"]
    OBVIOUS
  <2>1. run.sim = runs[q].sim /\ runs' = [runs EXCEPT ![q] = run] /\ runs[q].pc = "sleep"
    BY <1>1 DEF Run, Wake
  <2>2. r = q /\ runs'[q] = run
    BY <1>2, <2>1
  <2> QED
    BY <1>1, <2>1, <2>2 DEF OnItsWay, Driving
<1>4. ~SaveRun(q)
  <2> SUFFICES ASSUME SaveRun(q) PROVE FALSE
    OBVIOUS
  <2> PICK run : run = [runs[q] EXCEPT !.pc = "publish"]
    OBVIOUS
  <2>1. run.pc = "publish" /\ runs' = [runs EXCEPT ![q] = run]
    BY <1>1 DEF Run, SaveRun
  <2>2. r = q /\ runs'[q] = run
    BY <1>2, <2>1
  <2> QED
    BY <2>1, <2>2 DEF OnItsWay
<1>5. ~Exit(q)
  <2> SUFFICES ASSUME Exit(q) PROVE FALSE
    OBVIOUS
  <2>1. r = q /\ runs'[q] = Free
    BY <1>2 DEF Exit
  <2> QED
    BY <2>1 DEF OnItsWay, Driving, Live
<1>6. \A w \in Workers : \A job : ~Dies(w, job)
  BY DEF Dies, OnItsWay, Driving, Live
<1>7. PublishAndSleep(q) \/ PublishAndFinish(q)
  <2>1. runs[q].worker \in Workers
    BY <1>1 DEF Run
  <2> QED
    BY <1>3, <1>4, <1>5, <1>6, <2>1
    DEF Engine, WakeThrows, PublishAndExit, AwaitedRunFails, UnawaitedRunFails
<1>8. runs[q].pc = "publish" /\ Publish(runs[q].sim, RunEvent(q))
  BY <1>7 DEF PublishAndSleep, PublishAndFinish, PublishAndGoOn
<1>9. r = q /\ runs'[q].sim = runs[q].sim
  <2>1. CASE PublishAndSleep(q)
    <3> PICK run : run = [runs[q] EXCEPT !.pc = "sleep"]
      OBVIOUS
    <3>1. run.sim = runs[q].sim /\ runs' = [runs EXCEPT ![q] = run]
      BY <1>1, <2>1 DEF Run, PublishAndSleep
    <3> QED
      BY <1>2, <3>1
  <2>2. CASE PublishAndFinish(q)
    <3> PICK run : run = [runs[q] EXCEPT !.copy = Finish(runs[q].copy, now), !.pc = "save"]
      OBVIOUS
    <3>1. run.sim = runs[q].sim /\ runs' = [runs EXCEPT ![q] = run]
      BY <1>1, <2>2 DEF Run, PublishAndFinish
    <3> QED
      BY <1>2, <3>1
  <2> QED
    BY <1>7, <2>1, <2>2
<1> QED
  BY <1>1, <1>8, <1>9 DEF OnItsWay, Driving

LEMMA OthersBringNoRun ==
    ASSUME FullInv, NEW w \in Workers,
           \/ TakeRun(w) \/ RunHandlerFails(w) \/ DropAbort(w) \/ TakeAbort(w) \/ HandleAbort(w)
           \/ AbortHandlerFails(w) \/ Shutdown(w) \/ Stop(w) \/ Boot(w) \/ Crash(w),
           NEW s \in Sims, NEW r \in Runs, OnItsWay(r, s)'
    PROVE  OnItsWay(r, s)
<1>1. CASE UNCHANGED runs
  BY <1>1 DEF OnItsWay, Driving, Live
<1>2. CASE TakeAbort(w)
  <2>1. abortQueue # << >> /\ Target(w) # NoRun
    BY <1>2 DEF TakeAbort, CanTakeAbort
  <2>2. Head(abortQueue) \in AbortCommand
    BY <2>1, AbortLeaves DEF FullInv, TypeOK, ServicesTypeOK
  <2> PICK x \in Sims : x = Head(abortQueue).sim
    BY <2>2 DEF AbortCommand
  <2> PICK q \in Runs : q = Target(w)
    BY <2>1 DEF Target, FullInv, TypeOK, WorkerTypeOK
  <2>3. Live(q) /\ runs[q] \in Run
    BY <2>1, RunShape DEF Target, FullInv, MapInv, InFlightIsLive, TypeOK
  <2> PICK run : run = IF runs[q].pc = "sleep" THEN Free ELSE [runs[q] EXCEPT !.aborted = TRUE]
    OBVIOUS
  <2>4. runs' = [runs EXCEPT ![q] = run]
    <3>1. CASE runs[q].pc = "sleep"
      BY <1>2, <3>1 DEF TakeAbort
    <3>2. CASE runs[q].pc # "sleep"
      BY <1>2, <3>2 DEF TakeAbort
    <3> QED
      BY <3>1, <3>2
  <2>5. run = Free \/ (run.pc = runs[q].pc /\ run.sim = runs[q].sim)
    BY <2>3 DEF Run
  <2>6. runs'[q] = run /\ \A o \in Runs \ {q} : runs'[o] = runs[o]
    BY <2>4 DEF FullInv, TypeOK, WorkerTypeOK
  <2> QED
    BY <2>3, <2>5, <2>6 DEF OnItsWay, Driving, Live
<1>3. CASE AbortInFlight(w)
  <2> DEFINE registered == {inFlight[w][x] : x \in Sims} \ {NoRun}
             asleep == {q \in registered : runs[q].pc = "sleep"}
  <2>1. runs' = [q \in Runs |-> IF q \in asleep THEN Free
                                ELSE IF q \in registered THEN [runs[q] EXCEPT !.aborted = TRUE]
                                ELSE runs[q]]
    BY <1>3 DEF AbortInFlight
  <2>2. \A q \in registered : Live(q)
    BY DEF FullInv, MapInv, InFlightIsLive
  <2> HIDE DEF registered, asleep
  <2>3. CASE r \in registered
    <3>1. Live(r) /\ runs[r] \in Run
      BY <2>2, <2>3, RunShape DEF FullInv, TypeOK
    <3>2. runs'[r] = [runs[r] EXCEPT !.aborted = TRUE]
      BY <2>1, <2>3 DEF OnItsWay, Driving, Live
    <3> QED
      BY <3>1, <3>2 DEF OnItsWay, Driving, Run
  <2>4. CASE r \notin registered
    <3>1. runs'[r] = runs[r]
      BY <2>1, <2>4 DEF OnItsWay, Driving, Live
    <3> QED
      BY <3>1 DEF OnItsWay, Driving, Live
  <2> QED
    BY <2>3, <2>4
<1>4. CASE Drained(w) \/ Crash(w)
  <2>1. \E job : Dies(w, job)
    BY <1>4 DEF Drained, Crash
  <2> QED
    BY <2>1 DEF Dies, OnItsWay, Driving, Live
<1> QED
  BY <1>1, <1>2, <1>3, <1>4
  DEF TakeRun, RunHandlerFails, DropAbort, HandleAbort, AbortFind, AbortSave, AbortPublish,
      AbortHandlerFails, Shutdown, Stop, CloseAborts, Boot, workerVars

(* A save brings the row one goal on at most, and only of a room that was  *)
(* told of all those before.                                               *)
LEMMA RunSavesOne ==
    ASSUME FullInv, NEW q \in Runs, SaveRun(q), NEW s \in Sims, CloseInv(s)
    PROVE  CloseInv(s)'
<1>1. Live(q) /\ runs[q] \in Run /\ runs[q].pc = "save"
  BY RunShape DEF SaveRun, FullInv, TypeOK
<1> PICK x \in Sims : x = runs[q].sim
  BY <1>1 DEF Run
<1>2. Driving(q, x)
  BY <1>1 DEF Driving
<1>3. /\ rows[x] \in Aggregate /\ runs[q].copy \in Aggregate /\ DriveInv(q, x)
      /\ rows[x] # NoRow /\ SimInv(x)
  BY <1>2, RowOfRun, ActedOn
<1> PICK copy \in Aggregate : copy = runs[q].copy
  BY <1>3
<1> PICK run : run = [runs[q] EXCEPT !.pc = "publish"]
  OBVIOUS
<1>4. run.pc = "publish" /\ runs'[q] = run /\ \A o \in Runs \ {q} : runs'[o] = runs[o]
  BY <1>1 DEF SaveRun, Run, FullInv, TypeOK, WorkerTypeOK
<1>5. rows'[x] = copy /\ (\A y \in Sims \ {x} : rows'[y] = rows[y]) /\ feed' = feed
  BY DEF SaveRun, Save, FullInv, TypeOK, ServicesTypeOK
<1>6. ToldGoals(s)' = ToldGoals(s) /\ ToldGoals(s) \in Nat
  BY <1>5, ToldGoalsType DEF ToldGoals, FullInv, TypeOK
<1>7. \A r \in Runs : OnItsWay(r, s)' => r # q /\ OnItsWay(r, s)
  BY <1>4 DEF OnItsWay, Driving, Live
<1>8. CASE s # x
  BY <1>5, <1>6, <1>7, <1>8 DEF CloseInv
<1>9. CASE s = x
  <2>1. rows[s].totalGoals <= ToldGoals(s) /\ rows[s].totalGoals \in Nat
    BY <1>1, <1>2, <1>3, <1>9 DEF CloseInv, OnItsWay, Aggregate
  <2>2. copy.totalGoals <= rows[s].totalGoals + 1
    <3>1. CASE copy = ApplyGoal(rows[s])
      BY <1>3, <1>9, <2>1, <3>1, GoalOperator
    <3>2. CASE \E t \in rows[s].startedAt .. now : copy = Finish(rows[s], t)
      BY <1>3, <1>9, <2>1, <3>2, FinishOperator
    <3> QED
      BY <1>1, <1>3, <1>9, <3>1, <3>2 DEF DriveInv, Progress
  <2>3. copy.totalGoals <= ToldGoals(s) + 1
    BY <1>6, <2>1, <2>2 DEF Aggregate
  <2>4. \A r \in Runs : ~OnItsWay(r, s)'
    BY <1>2, <1>3, <1>7, <1>9, DriverAlone DEF OnItsWay
  <2> QED
    BY <1>5, <1>6, <1>9, <2>3, <2>4 DEF CloseInv
<1> QED
  BY <1>8, <1>9

LEMMA IgnitionSavesNone ==
    ASSUME FullInv, NEW c \in Clients, SaveIgnition(c), UNCHANGED workerVars,
           NEW s \in Sims, CloseInv(s)
    PROVE  CloseInv(s)'
<1> PICK x \in Sims, copy \in Aggregate :
      rows' = [rows EXCEPT ![x] = copy] /\ rows'[x] = copy /\ MayIgnite(copy, x)
  BY IgnitionSaves
<1>1. \A y \in Sims \ {x} : rows'[y] = rows[y]
  BY DEF FullInv, TypeOK, ServicesTypeOK
<1>2. ToldGoals(s)' = ToldGoals(s) /\ ToldGoals(s) \in Nat
  BY ToldGoalsType DEF SaveIgnition, ToldGoals, FullInv, TypeOK
<1>3. \A r \in Runs : OnItsWay(r, s)' => OnItsWay(r, s)
  BY DEF OnItsWay, Driving, Live, workerVars
<1>4. CASE s # x
  BY <1>1, <1>2, <1>3, <1>4 DEF CloseInv
<1>5. CASE s = x
  BY <1>2, <1>5 DEF CloseInv, MayIgnite
<1> QED
  BY <1>4, <1>5

LEMMA HandlerSavesNone ==
    ASSUME FullInv, NEW w \in Workers, AbortSave(w), NEW s \in Sims, CloseInv(s)
    PROVE  CloseInv(s)'
<1>1. abortHandler[w] \in Finishing /\ abortHandler[w].pc = "save"
  BY HandlerShape DEF AbortSave, FullInv, TypeOK, WorkerTypeOK
<1> PICK x \in Sims, t \in Nat : x = abortHandler[w].sim /\ t = abortHandler[w].finishedAt
  BY <1>1 DEF Finishing
<1> PICK copy : copy = abortHandler[w].copy
  OBVIOUS
<1>2. Ending(w, x) /\ Handling(w, x)
  BY <1>1 DEF Ending, Handling, Resting
<1>3. rows[x] # NoRow /\ SimInv(x)
  BY <1>2, ActedOn
<1>4. rows[x] \in Aggregate /\ copy = Finish(rows[x], t)
  BY <1>1, <1>2, <1>3 DEF SimInv, EndInv, FullInv, TypeOK, ServicesTypeOK
<1>5. rows'[x] = copy /\ (\A y \in Sims \ {x} : rows'[y] = rows[y]) /\ UNCHANGED <<feed, runs>>
  BY DEF AbortSave, Save, FullInv, TypeOK, ServicesTypeOK
<1>6. ToldGoals(s)' = ToldGoals(s)
  BY <1>5 DEF ToldGoals
<1>7. \A r \in Runs : OnItsWay(r, s)' <=> OnItsWay(r, s)
  BY <1>5 DEF OnItsWay, Driving, Live
<1>8. rows'[s] = rows[s] \/ (rows[s] # NoRow /\ rows'[s].totalGoals = rows[s].totalGoals)
  BY <1>3, <1>4, <1>5, FinishOperator
<1> QED
  BY <1>6, <1>7, <1>8 DEF CloseInv

(* A step that neither saves the row of s nor tells its room. *)
LEMMA NobodySaves ==
    ASSUME FullInv, [Next]_vars, NEW s \in Sims, CloseInv(s),
           rows'[s] = rows[s], feed'[s] = feed[s],
           ~\E r \in Runs : SaveRun(r)
    PROVE  CloseInv(s)'
<1>1. ToldGoals(s)' = ToldGoals(s) /\ ToldGoals(s) \in Nat
  BY ToldGoalsType DEF ToldGoals, FullInv, TypeOK
<1> SUFFICES ASSUME rows[s] # NoRow, NEW r \in Runs, OnItsWay(r, s)', ~OnItsWay(r, s)
             PROVE  rows[s].totalGoals <= ToldGoals(s)
  BY <1>1 DEF CloseInv
<1>2. ~UNCHANGED runs
  BY DEF OnItsWay, Driving, Live
<1>3. WorkerNext
  BY <1>2 DEF Next, OrchestratorNext, Tick, vars, workerVars
<1>4. ASSUME NEW w \in Workers, HandleRun(w)
      PROVE  rows[s].totalGoals <= ToldGoals(s)
  <2>1. rows[s].totalGoals = 0
    BY <1>4, LaunchComes
  <2> QED
    BY <1>1, <2>1
<1>5. ASSUME NEW q \in Runs, Engine(q) \/ AwaitedRunFails(q) \/ UnawaitedRunFails(q)
      PROVE  FALSE
  <2>1. Driving(r, s) /\ runs[r].pc = "publish" /\ Publish(s, RunEvent(r))
    BY <1>5, EngineComes
  <2>2. runs[r].copy \in Aggregate
    BY <2>1, RowOfRun
  <2>3. RunEvent(r) \in Event /\ RunEvent(r) \notin Ignitions
    BY <2>2, EventTypes, WordsOfRun DEF RunEvent
  <2>4. Len(feed'[s]) = Len(feed[s]) + 1 /\ Len(feed[s]) \in Nat
    <3>1. ServicesTypeOK
      BY DEF FullInv, TypeOK
    <3> QED
      BY <2>1, <2>3, <3>1, PublishRead DEF ServicesTypeOK
  <2> QED
    BY <2>4
<1> QED
  BY <1>3, <1>4, <1>5, OthersBringNoRun DEF WorkerNext

LEMMA CloseKept ==
    ASSUME FullInv, TypeOK', [Next]_vars, NEW s \in Sims, CloseInv(s)
    PROVE  CloseInv(s)'
<1>1. CASE feed'[s] # feed[s]
  <2>1. UNCHANGED rows /\ Agrees(feed'[s][Len(feed'[s])], rows[s])
    BY <1>1, StepTellsRow
  <2>2. feed'[s] \in Seq(Event) /\ feed'[s] # << >>
    BY <1>1, StepTellsRoom DEF TypeOK, ServicesTypeOK
  <2> PICK event \in Event : event = feed'[s][Len(feed'[s])]
    BY <2>2
  <2> PICK row : row = rows'[s]
    OBVIOUS
  <2>3. Agrees(event, row)
    BY <2>1
  <2>5. ToldGoals(s)' = row.totalGoals
    BY <2>2, <2>3, ToldAgrees
  <2>6. rows'[s] # NoRow => rows'[s].totalGoals \in Nat
    BY DEF TypeOK, ServicesTypeOK, Aggregate
  <2> QED
    BY <2>5, <2>6 DEF CloseInv
<1>2. CASE feed'[s] = feed[s] /\ \E r \in Runs : SaveRun(r)
  BY <1>2, RunSavesOne
<1>3. CASE feed'[s] = feed[s] /\ ~\E r \in Runs : SaveRun(r)
  <2>1. CASE rows'[s] = rows[s]
    BY <1>3, <2>1, NobodySaves
  <2>2. CASE rows'[s] # rows[s]
    <3>1. Next
      BY <2>2 DEF vars, serviceVars
    <3>2. CASE OrchestratorNext
      <4>1. UNCHANGED workerVars /\ \E c \in Clients : SaveIgnition(c)
        BY <2>2, <3>2, RequestsSave DEF OrchestratorNext
      <4> QED
        BY <4>1, IgnitionSavesNone
    <3>3. CASE WorkerNext
      <4>1. \E w \in Workers : AbortSave(w)
        BY <1>3, <2>2, <3>3, WorkersSave
      <4> QED
        BY <4>1, HandlerSavesNone
    <3> QED
      BY <2>2, <3>1, <3>2, <3>3 DEF Next, Tick
  <2> QED
    BY <2>1, <2>2
<1> QED
  BY <1>1, <1>2, <1>3

(* A room is never told of fewer goals than one below its row, whichever   *)
(* calls are rejected and whichever processes end between the save and the *)
(* publish of a goal (simulation-worker.handler.ts:82): nobody goes on     *)
(* from a save whose publish did not come.                                 *)
THEOREM RoomsLagOneGoal ==
    ASSUME Patient, OneClientEach
    PROVE  Spec => []RoomsAreClose
<1> DEFINE Close == \A s \in Sims : CloseInv(s)
           Types == TypeOK
<1>1. Init => Close
  BY DEF Init, ServicesInit, CloseInv
<1>2. FullInv => Types
  BY DEF FullInv
<1>3. FullInv /\ Types' /\ Close /\ [Next]_vars => Close'
  BY CloseKept
<1>4. Close => RoomsAreClose
  BY DEF CloseInv, RoomsAreClose
<1>5. Spec => []FullInv
  BY FullInvariance
<1> HIDE DEF Close, Types
<1> QED
  BY <1>1, <1>2, <1>3, <1>4, <1>5, PTL DEF Spec

=============================================================================
