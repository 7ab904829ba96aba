----------------------------- MODULE Observers -----------------------------
(***************************************************************************)
(* Who watches: WebSocket clients of the gateway, the rooms they join and  *)
(* the event queue between a publication and the room, on top of           *)
(* SimulationSystem, whose feed is what was published.  A subscription     *)
(* replays nothing, so an observer that wants the whole picture subscribes *)
(* and then asks GET /simulations/:id.                                     *)
(***************************************************************************)
EXTENDS SimulationSystem, SequencesExt

CONSTANTS
    Sockets,   \* connected WebSocket clients
    Unasked,   \* the observer has no answer of GET yet
    MaxLag     \* bound: events waiting for the forwarder at once

ASSUME LagAssumption == MaxLag \in Nat \ {0}

VARIABLES
    events,    \* queue simulation.events, oldest first
    room,      \* the members of each room
    heard,     \* per room, what each member was told since it joined or, if later, the last ignition
    answer     \* per room, what GET answered each member after it had joined

observerVars == <<events, room, heard, answer>>

allVars == <<vars, observerVars>>

Message == [sim: Sims, event: Event]

ObserversInit ==
    /\ Init
    /\ events = << >>
    /\ room = [s \in Sims |-> {}]
    /\ heard = [o \in Sockets |-> [s \in Sims |-> << >>]]
    /\ answer = [o \in Sockets |-> [s \in Sims |-> Unasked]]

-----------------------------------------------------------------------------

(* What a step of the system publishes. *)
Published ==
    {[sim |-> s, event |-> Last(feed'[s])] : s \in {t \in Sims : feed'[t] # feed[t]}}

(* publish: the event goes to the end of the queue with its simulation's   *)
(* id.  Bound: nobody publishes while MaxLag events wait.                  *)
SystemStep ==
    /\ Next
    /\ \/ Published = {} /\ UNCHANGED events
       \/ /\ Len(events) < MaxLag
          /\ \E m \in Published : events' = Append(events, m)
    /\ UNCHANGED <<room, heard, answer>>

(* Mutant: the envelope is emitted instead of the event. *)
EmitEnvelope(m) ==
    heard' = [o \in Sockets |->
        IF o \in room[m.sim] THEN [heard[o] EXCEPT ![m.sim] = Append(@, m)] ELSE heard[o]]

(* Mutant: the table of event names lacks simulation-restarted. *)
EmitAllButRestarts(m) ==
    heard' = [o \in Sockets |->
        IF o \in room[m.sim] /\ m.event # SimulationRestarted
        THEN [heard[o] EXCEPT ![m.sim] = Forward(@, m.event)] ELSE heard[o]]

(* Mutant: the table of event names lacks simulation-finished. *)
EmitAllButEnds(m) ==
    heard' = [o \in Sockets |->
        IF o \in room[m.sim] /\ m.event.type # "SimulationFinished"
        THEN [heard[o] EXCEPT ![m.sim] = Forward(@, m.event)] ELSE heard[o]]

(* The room of the event's simulation is told.                             *)
Emit(m) ==
    heard' = [o \in Sockets |->
        IF o \in room[m.sim] THEN [heard[o] EXCEPT ![m.sim] = Forward(@, m.event)] ELSE heard[o]]

(* The forwarder handles the next event: whoever is in the room by now is  *)
(* told.                                                                   *)
ForwardEvent ==
    /\ events # << >>
    /\ Emit(Head(events))
    /\ events' = Tail(events)
    /\ UNCHANGED <<vars, room, answer>>

(* handleSubscribe: the socket joins and the client has its ack.  Clients  *)
(* know the ids of simulations that exist.                                 *)
Subscribe(o, s) ==
    /\ rows[s] # NoRow
    /\ o \notin room[s]
    /\ room' = [room EXCEPT ![s] = @ \cup {o}]
    /\ UNCHANGED <<vars, events, heard, answer>>

(* The observer forgets what it knew of the simulations S. *)
Forget(o, S) ==
    /\ heard' = [heard EXCEPT ![o] = [s \in Sims |-> IF s \in S THEN << >> ELSE @[s]]]
    /\ answer' = [answer EXCEPT ![o] = [s \in Sims |-> IF s \in S THEN Unasked ELSE @[s]]]

(* handleUnsubscribe *)
Unsubscribe(o, s) ==
    /\ o \in room[s]
    /\ room' = [room EXCEPT ![s] = @ \ {o}]
    /\ Forget(o, {s})
    /\ UNCHANGED <<vars, events>>

(* The connection is lost, or the API process with all its rooms: the      *)
(* queue survives, the membership does not.                                *)
Disconnect(o) ==
    /\ \E s \in Sims : o \in room[s]
    /\ room' = [s \in Sims |-> room[s] \ {o}]
    /\ Forget(o, Sims)
    /\ UNCHANGED <<vars, events>>

Seen(state, goals) == [state |-> state, goals |-> goals]

(* GET /simulations/:id by a member. *)
Get(o, s) ==
    /\ o \in room[s]
    /\ answer[o][s] = Unasked
    /\ answer' = [answer EXCEPT ![o][s] = Seen(rows[s].state, rows[s].totalGoals)]
    /\ UNCHANGED <<vars, events, room, heard>>

ObserverStep(o) ==
    \/ \E s \in Sims : Subscribe(o, s) \/ Unsubscribe(o, s) \/ Get(o, s)
    \/ Disconnect(o)

ObserversNext ==
    \/ SystemStep
    \/ ForwardEvent
    \/ \E o \in Sockets : ObserverStep(o)

ObserversSpec == ObserversInit /\ [][ObserversNext]_allVars

(* The forwarder is a consumer like the workers; observers need do nothing.*)
FairObserversSpec == ObserversSpec /\ Fairness /\ WF_allVars(ForwardEvent)

-----------------------------------------------------------------------------

(* The variables hold values of their types. *)
ObserversTypeOK ==
    /\ events \in Seq(Message)
    /\ room \in [Sims -> SUBSET Sockets]
    /\ heard \in [Sockets -> [Sims -> Seq(Event)]]
    /\ answer \in [Sockets -> [Sims ->
           [state: {"RUNNING", "FINISHED"}, goals: Nat] \cup {Unasked}]]

(* Where the events of s are that still wait. *)
Coming(s) == {i \in DOMAIN events : events[i].sim = s}

(* How many of them wait behind i. *)
Behind(s, i) == Cardinality({j \in Coming(s) : j > i})

(* None of those is an ignition: what is at i, or went before, is of the   *)
(* same life.                                                              *)
SameLife(s, i) == \A j \in Coming(s) : j > i => events[j].event \notin Ignitions

(* No gap, no duplicate, no strange event, however late somebody joins:    *)
(* what waits in the queue is the end of what was published since the last *)
(* ignition, and what a member was told ends where that begins.            *)
NothingMissed ==
    \A s \in Sims :
        /\ \A i \in Coming(s) : SameLife(s, i) =>
              /\ Behind(s, i) < Len(feed[s])
              /\ events[i].event = feed[s][Len(feed[s]) - Behind(s, i)]
        /\ \A o \in room[s] : SameLife(s, 0) =>
              LET missing == Len(feed[s]) - Behind(s, 0) - Len(heard[o][s]) IN
              /\ missing >= 0
              /\ \A k \in DOMAIN heard[o][s] : heard[o][s][k] = feed[s][missing + k]

(* Something was saved and its event is not published yet. *)
Unpublished(s) ==
    \/ \E c \in Clients : req[c].pc = "publish" /\ req[c].sim = s
    \/ \E r \in Runs : runs[r].pc = "publish" /\ runs[r].sim = s
    \/ \E w \in Workers : abortHandler[w].pc = "publish" /\ abortHandler[w].sim = s

Shown(event) ==
    CASE event \in Ignitions -> Seen("RUNNING", 0)
      [] event.type = "GoalScored" -> Seen("RUNNING", event.totalGoals)
      [] event.type = "SimulationFinished" -> Seen("FINISHED", event.totalGoals)

(* What a member believes: the last event it heard, GET's answer before. *)
View(o, s) ==
    IF heard[o][s] # << >> THEN Shown(Last(heard[o][s])) ELSE answer[o][s]

(* An observer that subscribed first and asked then knows the row as soon  *)
(* as nothing is on its way, whatever happened between the two and how far *)
(* the queue lagged behind: nothing that changes a row fails to tell it    *)
(* (simulation-worker.handler.ts:114).                                     *)
CaughtUp ==
    \A s \in Sims : \A o \in room[s] :
        answer[o][s] # Unasked /\ Coming(s) = {} /\ ~Unpublished(s) =>
            View(o, s) = Seen(rows[s].state, rows[s].totalGoals)

(* Who was shown a RUNNING simulation and stays hears its end.             *)
EndIsHeard ==
    \A o \in Sockets, s \in Sims :
        (o \in room[s] /\ answer[o][s] # Unasked)
            ~> (o \notin room[s] \/ \E n \in 0..GoalCount : View(o, s) = Seen("FINISHED", n))

=============================================================================
