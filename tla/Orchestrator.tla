---------------------------- MODULE Orchestrator ----------------------------
(***************************************************************************)
(* SimulationOrchestrator: the start, finish and restart handlers.  A      *)
(* client has at most one request open.  A request advances one awaited    *)
(* call at a time, and between two calls anything else may happen.  A      *)
(* request the code answers with an error before its first write (unknown  *)
(* id, other owner, not FINISHED, throttled) changes nothing.              *)
(***************************************************************************)
EXTENDS Services, FiniteSets

CONSTANTS
    Clients,   \* HTTP clients
    UserOf     \* the user each client is logged in as

ASSUME ClientAssumption == UserOf \in [Clients -> Users]

VARIABLE req   \* the request each client has open

Idle == [pc |-> "idle"]

Ignition == [pc: {"query", "save", "publish", "dispatch"},
             sim: Sims, copy: Aggregate, event: Ignitions]

Abortion == [pc: {"abort"}, sim: Sims, finishedAt: Nat]

OrchestratorTypeOK == req \in [Clients -> {Idle} \cup Ignition \cup Abortion]

OrchestratorInit == req = [c \in Clients |-> Idle]

Igniting(c) == req[c].pc \in {"query", "save", "publish", "dispatch"}

(* Mutant: an id that may be taken. *)
AnyId(s) == TRUE

(* randomUUID(): an id no row and no other request has. *)
Fresh(s) ==
    /\ rows[s] = NoRow
    /\ \A c \in Clients : Igniting(c) => req[c].sim # s

Goto(c, pc) == req' = [req EXCEPT ![c].pc = pc]

(* POST /simulations up to its first await.  The id is picked here: nobody *)
(* can see it before the row is saved.                                     *)
StartRequest(c) ==
    /\ req[c] = Idle
    /\ \E s \in Sims, p \in Profiles :
        /\ Fresh(s)
        /\ req' = [req EXCEPT ![c] =
             [pc |-> "query", sim |-> s, copy |-> Create(UserOf[c], p, now),
              event |-> SimulationStarted]]
    /\ UNCHANGED serviceVars

(* POST /simulations/:id/restart up to the throttle's query.  The copy is  *)
(* private to the request, so restart() is applied to it here, with the    *)
(* instant the code reads before the query.                                *)
RestartRequest(c) ==
    /\ req[c] = Idle
    /\ \E s \in Sims :
        /\ rows[s] # NoRow
        /\ rows[s].owner = UserOf[c]
        /\ rows[s].state = "FINISHED"
        /\ req' = [req EXCEPT ![c] =
             [pc |-> "query", sim |-> s, copy |-> Restart(rows[s], now),
              event |-> SimulationRestarted]]
    /\ UNCHANGED serviceVars

(* Mutant: dispatch comes before save. *)
EnsureCanIgniteThenDispatch(c) ==
    /\ req[c].pc = "query"
    /\ IF CanIgnite(UserOf[c], req[c].copy.startedAt)
       THEN Goto(c, "dispatch")
       ELSE req' = [req EXCEPT ![c] = Idle]
    /\ UNCHANGED serviceVars

(* The throttle lets the request through, or it ends with THROTTLED (429). *)
EnsureCanIgnite(c) ==
    /\ req[c].pc = "query"
    /\ IF CanIgnite(UserOf[c], req[c].copy.startedAt)
       THEN Goto(c, "save")
       ELSE req' = [req EXCEPT ![c] = Idle]
    /\ UNCHANGED serviceVars

SaveIgnition(c) ==
    /\ req[c].pc = "save"
    /\ Save(req[c].sim, req[c].copy)
    /\ Goto(c, "publish")
    /\ UNCHANGED <<now, runQueue, abortQueue, feed, faults>>

PublishIgnition(c) ==
    /\ req[c].pc = "publish"
    /\ Publish(req[c].sim, req[c].event)
    /\ Goto(c, "dispatch")
    /\ UNCHANGED <<now, rows, runQueue, abortQueue, faults>>

(* Mutant: the command is sent again after it was delivered. *)
DispatchIgnitionTwice(c) ==
    /\ req[c].pc = "dispatch"
    /\ LET p == req[c].copy.profile IN
        runQueue' = [runQueue EXCEPT ![p] = @ \o <<req[c].sim, req[c].sim>>]
    /\ req' = [req EXCEPT ![c] = Idle]
    /\ UNCHANGED <<now, rows, abortQueue, feed, faults>>

DispatchIgnition(c) ==
    /\ req[c].pc = "dispatch"
    /\ DispatchRun(req[c].sim, req[c].copy.profile)
    /\ req' = [req EXCEPT ![c] = Idle]
    /\ UNCHANGED <<now, rows, abortQueue, feed, faults>>

FinishesWaiting ==
    Len(abortQueue) + Cardinality({c \in Clients : req[c].pc = "abort"})

(* POST /simulations/:id/finish up to the dispatch: the owner is checked,  *)
(* the state is not.  Bound: MaxAborts finish requests wait at once.       *)
FinishRequest(c) ==
    /\ req[c] = Idle
    /\ FinishesWaiting < MaxAborts
    /\ \E s \in Sims :
        /\ rows[s] # NoRow
        /\ rows[s].owner = UserOf[c]
        /\ req' = [req EXCEPT ![c] = [pc |-> "abort", sim |-> s, finishedAt |-> now]]
    /\ UNCHANGED serviceVars

DispatchFinish(c) ==
    /\ req[c].pc = "abort"
    /\ DispatchAbort(req[c].sim, req[c].finishedAt)
    /\ req' = [req EXCEPT ![c] = Idle]
    /\ UNCHANGED <<now, rows, runQueue, feed, faults>>

(* The awaited call of a request rejects, or its process is lost: the      *)
(* client gets an error and the remaining calls never happen.              *)
RequestFails(c) ==
    /\ Fault("request")
    /\ req[c] # Idle
    /\ req' = [req EXCEPT ![c] = Idle]
    /\ UNCHANGED <<now, rows, runQueue, abortQueue, feed>>

=============================================================================
