----------------------------- MODULE RowProofs -----------------------------
(***************************************************************************)
(* The simulations table and whatever refers to its rows: a row is never   *)
(* deleted, and save comes before dispatch, so every command, handler and  *)
(* run names a row that is there, whatever fails.  Every copy of a row is  *)
(* a copy of that row, so a save of all columns changes neither owner nor  *)
(* profile.                                                                *)
(***************************************************************************)
EXTENDS SimulationSystemProofs

USE WorkerAssumption

RowsStay == \A s \in Sims : rows[s] # NoRow => rows'[s] # NoRow

(* CommandsHaveRows part by part, and the requests that will dispatch. *)
RunQueueHasRows ==
    \A p \in Profiles : \A i \in DOMAIN runQueue[p] : rows[runQueue[p][i]] # NoRow

AbortQueueHasRows == \A i \in DOMAIN abortQueue : rows[abortQueue[i].sim] # NoRow

RunHandlersHaveRows ==
    \A w \in Workers : runHandler[w] # NoSim => rows[runHandler[w]] # NoRow

AbortHandlersHaveRows ==
    \A w \in Workers : abortHandler[w] # Resting => rows[abortHandler[w].sim] # NoRow

RunsHaveRows == \A r \in Runs : Live(r) => rows[runs[r].sim] # NoRow

RequestsHaveRows ==
    \A c \in Clients :
        req[c].pc \in {"publish", "dispatch", "abort"} => rows[req[c].sim] # NoRow

RowsInv ==
    /\ RunQueueHasRows
    /\ AbortQueueHasRows
    /\ RunHandlersHaveRows
    /\ AbortHandlersHaveRows
    /\ RunsHaveRows
    /\ RequestsHaveRows

-----------------------------------------------------------------------------

LEMMA SaveKeepsRows ==
    ASSUME ServicesTypeOK, NEW s \in Sims, NEW sim \in Aggregate, Save(s, sim)
    PROVE  RowsStay /\ rows'[s] # NoRow
BY RowAssumption DEF ServicesTypeOK, Save, RowsStay

LEMMA RequestsKeepRows ==
    ASSUME TypeOK, OrchestratorNext
    PROVE  RowsStay
<1> PICK c \in Clients : StartRequest(c) \/ ClientRestarts(c) \/ FinishRequest(c) \/ Serve(c)
                         \/ RequestFails(c)
  BY DEF OrchestratorNext
<1>1. CASE SaveIgnition(c)
  <2>1. req[c] \in Ignition
    BY <1>1, RequestShape DEF SaveIgnition, Igniting, TypeOK
  <2> QED
    BY <1>1, <2>1, SaveKeepsRows DEF SaveIgnition, Ignition, TypeOK
<1>2. CASE ~SaveIgnition(c)
  BY <1>2 DEF StartRequest, ClientRestarts, RestartRequest, FinishRequest, Serve, EnsureCanIgnite,
              PublishIgnition, DispatchIgnition, DispatchFinish, RequestFails, serviceVars, RowsStay
<1> QED
  BY <1>1, <1>2

LEMMA WorkersKeepRows ==
    ASSUME TypeOK, WorkerNext
    PROVE  RowsStay
<1>1. CASE \E r \in Runs : SaveRun(r)
  <2>1. PICK r \in Runs : SaveRun(r)
    BY <1>1
  <2>2. runs[r] \in Run
    BY <2>1, RunShape DEF SaveRun, TypeOK
  <2> QED
    BY <2>1, <2>2, SaveKeepsRows DEF SaveRun, Run, TypeOK
<1>2. CASE \E w \in Workers : AbortSave(w)
  <2>1. PICK w \in Workers : AbortSave(w)
    BY <1>2
  <2>2. abortHandler[w] \in Finishing
    BY <2>1, HandlerShape DEF AbortSave, TypeOK, WorkerTypeOK
  <2> QED
    BY <2>1, <2>2, SaveKeepsRows DEF AbortSave, Finishing, TypeOK
<1>3. CASE \E r \in Runs : ~SaveRun(r) /\ (Engine(r) \/ AwaitedRunFails(r) \/ UnawaitedRunFails(r))
  BY <1>3 DEF Engine, Wake, WakeThrows, PublishAndExit, PublishAndSleep, PublishAndFinish,
              AwaitedRunFails, UnawaitedRunFails, serviceVars, RowsStay
<1>4. CASE \E w \in Workers :
             /\ ~AbortSave(w)
             /\ \/ TakeRun(w)
                \/ HandleRun(w)
                \/ DropAbort(w)
                \/ TakeAbort(w)
                \/ HandleAbort(w)
                \/ RunHandlerFails(w)
                \/ AbortHandlerFails(w)
  BY <1>4 DEF TakeRun, HandleRun, BeginRun, BeginEmptyRun, BeginThrows, Launch, DropAbort,
              TakeAbort, HandleAbort, AbortFind, AbortPublish, RunHandlerFails, AbortHandlerFails,
              serviceVars, RowsStay
<1>5. CASE \E w \in Workers : Shutdown(w) \/ Stop(w) \/ Boot(w) \/ Crash(w)
  BY <1>5 DEF Shutdown, Stop, CloseAborts, AbortInFlight, Drained, Boot, Crash, serviceVars, RowsStay
<1> QED
  BY <1>1, <1>2, <1>3, <1>4, <1>5 DEF WorkerNext

(* No step deletes a row. *)
LEMMA StepKeepsRows == TypeOK /\ [Next]_vars => RowsStay
<1> SUFFICES ASSUME TypeOK, [Next]_vars PROVE RowsStay
  OBVIOUS
<1>1. CASE (Tick /\ UNCHANGED <<req, workerVars>>) \/ UNCHANGED vars
  BY <1>1 DEF Tick, vars, serviceVars, RowsStay
<1> QED
  BY <1>1, RequestsKeepRows, WorkersKeepRows DEF Next

-----------------------------------------------------------------------------
(* What a part needs when its variable stays. *)

LEMMA PartsUnmoved ==
    ASSUME TypeOK, RowsInv, RowsStay
    PROVE  /\ UNCHANGED runQueue => RunQueueHasRows'
           /\ UNCHANGED abortQueue => AbortQueueHasRows'
           /\ UNCHANGED runHandler => RunHandlersHaveRows'
           /\ UNCHANGED abortHandler => AbortHandlersHaveRows'
           /\ UNCHANGED runs => RunsHaveRows'
           /\ UNCHANGED req => RequestsHaveRows'
<1> USE DEF TypeOK, RowsInv, RowsStay
<1>1. UNCHANGED runQueue => RunQueueHasRows'
  BY DEF RunQueueHasRows, ServicesTypeOK
<1>2. UNCHANGED abortQueue => AbortQueueHasRows'
  <2>1. \A i \in DOMAIN abortQueue : abortQueue[i].sim \in Sims
    <3>1. \A i \in DOMAIN abortQueue : abortQueue[i] \in AbortCommand
      BY DEF ServicesTypeOK
    <3> QED
      BY <3>1 DEF AbortCommand
  <2> QED
    BY <2>1 DEF AbortQueueHasRows
<1>3. UNCHANGED runHandler => RunHandlersHaveRows'
  BY DEF RunHandlersHaveRows, WorkerTypeOK
<1>4. UNCHANGED abortHandler => AbortHandlersHaveRows'
  BY HandlerShape DEF AbortHandlersHaveRows, WorkerTypeOK
<1>5. UNCHANGED runs => RunsHaveRows'
  BY RunShape DEF RunsHaveRows, Live, Run
<1>6. UNCHANGED req => RequestsHaveRows'
  BY RequestShape DEF RequestsHaveRows, Igniting, Ignition, Abortion
<1> QED
  BY <1>1, <1>2, <1>3, <1>4, <1>5, <1>6

LEMMA RequestsKeepInv ==
    ASSUME TypeOK, RowsInv, OrchestratorNext
    PROVE  RowsInv'
<1> USE DEF TypeOK
<1>1. RowsStay
  BY RequestsKeepRows
<1>2. UNCHANGED workerVars
  BY DEF OrchestratorNext
<1>3. RunHandlersHaveRows' /\ AbortHandlersHaveRows' /\ RunsHaveRows'
  BY <1>1, <1>2, PartsUnmoved DEF workerVars
<1>4. RunQueueHasRows' /\ AbortQueueHasRows' /\ RequestsHaveRows'
  <2> PICK c \in Clients :
        StartRequest(c) \/ ClientRestarts(c) \/ FinishRequest(c) \/ Serve(c) \/ RequestFails(c)
    BY DEF OrchestratorNext
  (* A request that changes only to one that needs no row. *)
  <2>1. ASSUME NEW next, req' = [req EXCEPT ![c] = next],
               next.pc \in {"publish", "dispatch", "abort"} => rows'[next.sim] # NoRow
        PROVE  RequestsHaveRows'
    <3>1. ASSUME NEW d \in Clients \ {c}, req[d].pc \in {"publish", "dispatch", "abort"}
          PROVE  rows'[req[d].sim] # NoRow
      <4>1. req[d].sim \in Sims
        BY <3>1, RequestShape DEF Igniting, Ignition, Abortion
      <4>2. rows[req[d].sim] # NoRow
        BY <3>1 DEF RowsInv, RequestsHaveRows
      <4> QED
        BY <1>1, <4>1, <4>2 DEF RowsStay
    <3> QED
      BY <2>1, <3>1 DEF RequestsHaveRows, OrchestratorTypeOK
  <2>2. CASE StartRequest(c)
    <3>1. PICK s \in Sims, p \in Profiles :
            req' = [req EXCEPT ![c] =
              [pc |-> "query", sim |-> s, copy |-> Create(UserOf[c], p, now),
               event |-> SimulationStarted]]
      BY <2>2 DEF StartRequest
    <3>2. RequestsHaveRows'
      BY <2>1, <3>1
    <3> QED
      BY <1>1, <2>2, <3>2, PartsUnmoved DEF StartRequest, serviceVars
  <2>3. CASE ClientRestarts(c)
    <3>1. RestartRequest(c)
      BY <2>3 DEF ClientRestarts
    <3>2. PICK s \in Sims :
            req' = [req EXCEPT ![c] =
              [pc |-> "query", sim |-> s, copy |-> Restart(rows[s], now),
               event |-> SimulationRestarted]]
      BY <3>1 DEF RestartRequest
    <3>3. RequestsHaveRows'
      BY <2>1, <3>2
    <3> QED
      BY <1>1, <3>1, <3>3, PartsUnmoved DEF RestartRequest, serviceVars
  <2>4. CASE FinishRequest(c)
    <3>1. PICK s \in Sims :
            /\ rows[s] # NoRow
            /\ req' = [req EXCEPT ![c] = [pc |-> "abort", sim |-> s, finishedAt |-> now]]
      BY <2>4 DEF FinishRequest
    <3>2. RequestsHaveRows'
      BY <1>1, <2>1, <3>1 DEF RowsStay
    <3> QED
      BY <1>1, <2>4, <3>2, PartsUnmoved DEF FinishRequest, serviceVars
  <2>5. CASE EnsureCanIgnite(c)
    <3>1. req' = [req EXCEPT ![c].pc = "save"] \/ req' = [req EXCEPT ![c] = Idle]
      BY <2>5 DEF EnsureCanIgnite, Goto
    <3>2. [req[c] EXCEPT !.pc = "save"].pc = "save"
      BY <2>5, RequestShape DEF EnsureCanIgnite, Igniting, Ignition
    <3>3. RequestsHaveRows'
      BY <2>1, <3>1, <3>2 DEF Idle
    <3> QED
      BY <1>1, <2>5, <3>3, PartsUnmoved DEF EnsureCanIgnite, serviceVars
  <2>6. CASE SaveIgnition(c)
    <3>1. req[c] \in Ignition
      BY <2>6, RequestShape DEF SaveIgnition, Igniting
    <3>2. rows'[req[c].sim] # NoRow
      BY <2>6, <3>1, SaveKeepsRows DEF SaveIgnition, Ignition
    <3> DEFINE next == [req[c] EXCEPT !.pc = "publish"]
    <3>3. next.sim = req[c].sim
      BY <3>1 DEF Ignition
    <3>4. req' = [req EXCEPT ![c] = next]
      BY <2>6 DEF SaveIgnition, Goto
    <3> HIDE DEF next
    <3>5. RequestsHaveRows'
      BY <2>1, <3>2, <3>3, <3>4
    <3> QED
      BY <1>1, <2>6, <3>5, PartsUnmoved DEF SaveIgnition
  <2>7. CASE PublishIgnition(c)
    <3>1. req[c] \in Ignition
      BY <2>7, RequestShape DEF PublishIgnition, Igniting
    <3>2. rows'[req[c].sim] # NoRow
      BY <2>7 DEF PublishIgnition, RowsInv, RequestsHaveRows
    <3> DEFINE next == [req[c] EXCEPT !.pc = "dispatch"]
    <3>3. next.sim = req[c].sim
      BY <3>1 DEF Ignition
    <3>4. req' = [req EXCEPT ![c] = next]
      BY <2>7 DEF PublishIgnition, Goto
    <3> HIDE DEF next
    <3>5. RequestsHaveRows'
      BY <2>1, <3>2, <3>3, <3>4
    <3> QED
      BY <1>1, <2>7, <3>5, PartsUnmoved DEF PublishIgnition
  <2>8. CASE DispatchIgnition(c)
    <3> DEFINE s == req[c].sim
               p == req[c].copy.profile
    <3>1. s \in Sims /\ p \in Profiles
      BY <2>8, RequestShape DEF DispatchIgnition, Igniting, Ignition, Aggregate
    <3>2. rows'[s] # NoRow /\ UNCHANGED <<rows, abortQueue>>
      BY <2>8 DEF DispatchIgnition, RowsInv, RequestsHaveRows
    <3>3. runQueue' = [runQueue EXCEPT ![p] = Append(@, s)]
      BY <2>8 DEF DispatchIgnition, DispatchRun
    <3> HIDE DEF s, p
    <3>4. RunQueueHasRows'
      BY <3>1, <3>2, <3>3 DEF RowsInv, RunQueueHasRows, ServicesTypeOK
    <3>5. RequestsHaveRows'
      BY <2>1, <2>8 DEF DispatchIgnition, Idle
    <3> QED
      BY <1>1, <3>2, <3>4, <3>5, PartsUnmoved
  <2>9. CASE DispatchFinish(c)
    <3> DEFINE cmd == [sim |-> req[c].sim, finishedAt |-> req[c].finishedAt]
    <3>1. rows[cmd.sim] # NoRow /\ UNCHANGED <<rows, runQueue>>
      BY <2>9 DEF DispatchFinish, RowsInv, RequestsHaveRows
    <3>2. abortQueue' = Append(abortQueue, cmd)
      BY <2>9 DEF DispatchFinish, DispatchAbort
    <3>3. cmd \in AbortCommand
      BY <2>9, RequestShape DEF DispatchFinish, Abortion, AbortCommand
    <3> HIDE DEF cmd
    <3>4. AbortQueueHasRows'
      BY <3>1, <3>2, <3>3 DEF RowsInv, AbortQueueHasRows, ServicesTypeOK
    <3>5. RequestsHaveRows'
      BY <2>1, <2>9 DEF DispatchFinish, Idle
    <3> QED
      BY <1>1, <3>1, <3>4, <3>5, PartsUnmoved
  <2>10. CASE RequestFails(c)
    <3>1. RequestsHaveRows'
      BY <2>1, <2>10 DEF RequestFails, Idle
    <3> QED
      BY <1>1, <2>10, <3>1, PartsUnmoved DEF RequestFails
  <2> QED
    BY <2>2, <2>3, <2>4, <2>5, <2>6, <2>7, <2>8, <2>9, <2>10 DEF Serve
<1> QED
  BY <1>3, <1>4 DEF RowsInv

(* The process of w ends; job is what its RUN consumer gives back. *)
LEMMA DeathKeepsInv ==
    ASSUME TypeOK, RowsInv, NEW w \in Workers, NEW job \in {runHandler[w], NoSim}, Dies(w, job),
           UNCHANGED <<rows, req>>
    PROVE  RowsInv'
<1> USE DEF TypeOK
<1>1. RowsStay
  BY DEF RowsStay
<1>2. RunQueueHasRows'
  <2>1. CASE job = NoSim
    BY <1>1, <2>1, PartsUnmoved DEF Dies
  <2>2. CASE job # NoSim
    <3>1. job \in Sims /\ rows[job] # NoRow
      BY <2>2 DEF WorkerTypeOK, RowsInv, RunHandlersHaveRows
    <3>2. runQueue' = [runQueue EXCEPT ![ProfileOf[w]] = <<job>> \o @]
      BY <2>2 DEF Dies
    <3> SUFFICES ASSUME NEW p \in Profiles, NEW i \in DOMAIN runQueue'[p]
                 PROVE  rows[runQueue'[p][i]] # NoRow
      BY DEF RunQueueHasRows
    <3>3. CASE p = ProfileOf[w]
      <4>1. runQueue'[p] = <<job>> \o runQueue[p] /\ runQueue[p] \in Seq(Sims)
        BY <3>2, <3>3 DEF ServicesTypeOK
      <4>2. CASE i = 1
        BY <3>1, <4>1, <4>2
      <4>3. CASE i # 1
        <5>1. i - 1 \in DOMAIN runQueue[p] /\ runQueue'[p][i] = runQueue[p][i - 1]
          BY <3>1, <4>1, <4>3
        <5> QED
          BY <5>1 DEF RowsInv, RunQueueHasRows
      <4> QED
        BY <4>2, <4>3
    <3>4. CASE p # ProfileOf[w]
      BY <3>2, <3>4 DEF RowsInv, RunQueueHasRows, ServicesTypeOK
    <3> QED
      BY <3>3, <3>4
  <2> QED
    BY <2>1, <2>2
<1>3. AbortQueueHasRows'
  <2>1. CASE abortHandler[w] = Resting
    BY <1>1, <2>1, PartsUnmoved DEF Dies
  <2>2. CASE abortHandler[w] # Resting
    <3> DEFINE cmd == [sim |-> abortHandler[w].sim, finishedAt |-> abortHandler[w].finishedAt]
    <3>1. rows[cmd.sim] # NoRow
      BY <2>2 DEF RowsInv, AbortHandlersHaveRows
    <3>2. abortQueue' = <<cmd>> \o abortQueue /\ abortQueue \in Seq(AbortCommand)
      BY <2>2 DEF Dies, ServicesTypeOK
    <3>3. cmd \in AbortCommand
      BY <2>2, HandlerShape DEF WorkerTypeOK, AbortCommand
    <3> HIDE DEF cmd
    <3> SUFFICES ASSUME NEW i \in DOMAIN abortQueue' PROVE rows[abortQueue'[i].sim] # NoRow
      BY DEF AbortQueueHasRows
    <3>4. CASE i = 1
      BY <3>1, <3>2, <3>3, <3>4
    <3>5. CASE i # 1
      <4>1. i - 1 \in DOMAIN abortQueue /\ abortQueue'[i] = abortQueue[i - 1]
        BY <3>2, <3>3, <3>5
      <4> QED
        BY <4>1 DEF RowsInv, AbortQueueHasRows
    <3> QED
      BY <3>4, <3>5
  <2> QED
    BY <2>1, <2>2
<1>4. RunHandlersHaveRows' /\ AbortHandlersHaveRows' /\ RunsHaveRows'
  BY DEF Dies, RowsInv, RunHandlersHaveRows, AbortHandlersHaveRows, RunsHaveRows, Live,
         WorkerTypeOK
<1> QED
  BY <1>1, <1>2, <1>3, <1>4, PartsUnmoved DEF RowsInv

LEMMA RunHandlingKeepsInv ==
    ASSUME TypeOK, RowsInv, NEW w \in Workers, TakeRun(w) \/ HandleRun(w) \/ RunHandlerFails(w),
           UNCHANGED req
    PROVE  RowsInv'
<1> USE DEF TypeOK
<1>1. RowsStay
  BY DEF TakeRun, HandleRun, BeginRun, BeginEmptyRun, BeginThrows, RunHandlerFails, Launch,
         serviceVars, RowsStay
<1>2. CASE TakeRun(w)
  <2> DEFINE queue == runQueue[ProfileOf[w]]
  <2>1. /\ queue \in Seq(Sims)
        /\ queue # << >>
        /\ runHandler' = [runHandler EXCEPT ![w] = Head(queue)]
        /\ runQueue' = [runQueue EXCEPT ![ProfileOf[w]] = Tail(queue)]
        /\ rows' = rows
    BY <1>2 DEF TakeRun, ServicesTypeOK
  <2>2. \A i \in DOMAIN queue : rows[queue[i]] # NoRow
    BY DEF RowsInv, RunQueueHasRows
  <2>3. ProfileOf[w] \in Profiles
    OBVIOUS
  <2> HIDE DEF queue
  <2>4. rows[Head(queue)] # NoRow
    BY <2>1, <2>2
  <2>5. \A i \in DOMAIN Tail(queue) : rows[Tail(queue)[i]] # NoRow
    BY <2>1, <2>2
  <2>6. RunHandlersHaveRows'
    BY <2>1, <2>4 DEF RowsInv, RunHandlersHaveRows, WorkerTypeOK
  <2>7. RunQueueHasRows'
    BY <2>1, <2>3, <2>5 DEF RowsInv, RunQueueHasRows, ServicesTypeOK
  <2> QED
    BY <1>1, <1>2, <2>6, <2>7, PartsUnmoved DEF TakeRun, RowsInv
<1>3. ASSUME NEW s \in Sims, rows[s] # NoRow, NEW r \in Runs, NEW pc, NEW copy,
             Launch(w, s, r, NewRun(w, s, pc, copy))
      PROVE  RowsInv'
  <2>1. NewRun(w, s, pc, copy).sim = s
    BY DEF NewRun
  <2>2. RunsHaveRows'
    BY <1>3, <2>1 DEF Launch, RowsInv, RunsHaveRows, Live, WorkerTypeOK
  <2>3. RunHandlersHaveRows'
    BY <1>3 DEF Launch, RowsInv, RunHandlersHaveRows, WorkerTypeOK
  <2> QED
    BY <1>1, <1>3, <2>2, <2>3, PartsUnmoved DEF Launch, RowsInv
<1>4. CASE UNCHANGED rows /\ runHandler' = [runHandler EXCEPT ![w] = NoSim]
           /\ UNCHANGED <<runQueue, abortQueue, abortHandler, runs>>
  <2>1. RunHandlersHaveRows'
    BY <1>4 DEF RowsInv, RunHandlersHaveRows, WorkerTypeOK
  <2> QED
    BY <1>1, <1>4, <2>1, PartsUnmoved DEF RowsInv
<1>5. CASE BeginRun(w)
  <2>1. runHandler[w] \in Sims
    BY <1>5 DEF BeginRun, WorkerTypeOK
  <2>2. CASE rows[runHandler[w]] = NoRow
    BY <1>4, <1>5, <2>2 DEF BeginRun, serviceVars
  <2>3. CASE rows[runHandler[w]] # NoRow
    BY <1>3, <1>5, <2>1, <2>3 DEF BeginRun
  <2> QED
    BY <2>2, <2>3
<1>6. CASE BeginEmptyRun(w)
  <2>1. runHandler[w] \in Sims
    BY <1>6 DEF BeginEmptyRun, WorkerTypeOK
  <2> QED
    BY <1>3, <1>6, <2>1 DEF BeginEmptyRun
<1>7. CASE BeginThrows(w)
  BY <1>7, DeathKeepsInv DEF BeginThrows
<1>8. CASE RunHandlerFails(w)
  BY <1>4, <1>8 DEF RunHandlerFails
<1> QED
  BY <1>2, <1>5, <1>6, <1>7, <1>8 DEF HandleRun

LEMMA AbortHandlingKeepsInv ==
    ASSUME TypeOK, RowsInv, NEW w \in Workers,
           DropAbort(w) \/ TakeAbort(w) \/ HandleAbort(w) \/ AbortHandlerFails(w),
           WorkerNext
    PROVE  RowsInv'
<1> USE DEF TypeOK
<1>1. RowsStay /\ UNCHANGED req
  BY WorkersKeepRows DEF WorkerNext
<1>2. ASSUME abortQueue # << >>, abortQueue' = Tail(abortQueue), UNCHANGED rows
      PROVE  AbortQueueHasRows' /\ rows[Head(abortQueue).sim] # NoRow
  <2>1. \A i \in DOMAIN abortQueue : rows[abortQueue[i].sim] # NoRow
    BY DEF RowsInv, AbortQueueHasRows
  <2>2. abortQueue \in Seq(AbortCommand)
    BY DEF ServicesTypeOK
  <2> QED
    BY <1>2, <2>1, <2>2 DEF AbortQueueHasRows
<1>3. CASE DropAbort(w)
  BY <1>1, <1>2, <1>3, PartsUnmoved DEF DropAbort, CanTakeAbort, workerVars, RowsInv
<1>4. CASE TakeAbort(w)
  <2>1. /\ AbortQueueHasRows'
        /\ rows[Head(abortQueue).sim] # NoRow
        /\ UNCHANGED <<rows, runQueue, runHandler>>
    BY <1>2, <1>4 DEF TakeAbort, CanTakeAbort
  <2>2. \A v \in Workers \ {w} : abortHandler'[v] = abortHandler[v]
    BY <1>4 DEF TakeAbort, WorkerTypeOK
  <2>3. abortHandler'[w].sim = Head(abortQueue).sim
    BY <1>4 DEF TakeAbort, WorkerTypeOK
  <2>4. AbortHandlersHaveRows'
    BY <2>1, <2>2, <2>3 DEF RowsInv, AbortHandlersHaveRows
  <2>5. RunsHaveRows'
    <3>1. ASSUME NEW r \in Runs, Live(r)'
          PROVE  Live(r) /\ runs'[r].sim = runs[r].sim
      <4>1. CASE runs'[r] = runs[r]
        BY <3>1, <4>1 DEF Live
      <4>2. CASE runs'[r] # runs[r]
        <5>1. runs'[r] = [runs[r] EXCEPT !.aborted = TRUE]
          BY <1>4, <3>1, <4>2 DEF TakeAbort, WorkerTypeOK, Live
        <5>2. Live(r)
          BY <4>2, <5>1 DEF Live, Free
        <5> QED
          BY <5>1, <5>2, RunShape DEF Run
      <4> QED
        BY <4>1, <4>2
    <3> QED
      BY <2>1, <3>1 DEF RowsInv, RunsHaveRows
  <2> QED
    BY <1>1, <2>1, <2>4, <2>5, PartsUnmoved DEF RowsInv
<1>5. CASE HandleAbort(w) \/ AbortHandlerFails(w)
  <2>1. /\ UNCHANGED <<runQueue, abortQueue, runHandler, runs>>
        /\ \A v \in Workers \ {w} : abortHandler'[v] = abortHandler[v]
        /\ abortHandler'[w] # Resting =>
              abortHandler[w] # Resting /\ abortHandler'[w].sim = abortHandler[w].sim
    <3>1. CASE AbortFind(w)
      BY <3>1 DEF AbortFind, WorkerTypeOK, serviceVars, Resting
    <3>2. CASE AbortSave(w)
      <4>1. abortHandler[w] \in Finishing
        BY <3>2, HandlerShape DEF AbortSave, WorkerTypeOK
      <4> QED
        BY <3>2, <4>1 DEF AbortSave, WorkerTypeOK, Finishing, Resting
    <3>3. CASE AbortPublish(w) \/ AbortHandlerFails(w)
      BY <3>3 DEF AbortPublish, AbortHandlerFails, WorkerTypeOK
    <3> QED
      BY <1>5, <3>1, <3>2, <3>3 DEF HandleAbort
  <2>2. ASSUME NEW v \in Workers, abortHandler'[v] # Resting
        PROVE  rows'[abortHandler'[v].sim] # NoRow
    <3>1. abortHandler[v] # Resting /\ abortHandler'[v].sim = abortHandler[v].sim
      BY <2>1, <2>2
    <3>2. abortHandler[v].sim \in Sims
      BY <3>1, HandlerShape DEF WorkerTypeOK
    <3> QED
      BY <1>1, <3>1, <3>2 DEF RowsInv, AbortHandlersHaveRows, RowsStay
  <2> QED
    BY <1>1, <2>1, <2>2, PartsUnmoved DEF RowsInv, AbortHandlersHaveRows
<1> QED
  BY <1>3, <1>4, <1>5

LEMMA ProcessKeepsInv ==
    ASSUME TypeOK, RowsInv, NEW w \in Workers,
           Shutdown(w) \/ Stop(w) \/ Boot(w) \/ Crash(w),
           UNCHANGED req
    PROVE  RowsInv'
<1> USE DEF TypeOK
<1>1. RowsStay
  BY DEF Shutdown, Stop, CloseAborts, AbortInFlight, Drained, Boot, Crash, serviceVars, RowsStay
<1>2. CASE Shutdown(w) \/ CloseAborts(w) \/ Boot(w)
  BY <1>1, <1>2, PartsUnmoved DEF Shutdown, CloseAborts, Boot, serviceVars, RowsInv
<1>3. CASE AbortInFlight(w)
  <2>1. ASSUME NEW r \in Runs, Live(r)'
        PROVE  Live(r) /\ runs'[r].sim = runs[r].sim
    <3>1. runs'[r] \in {runs[r], [runs[r] EXCEPT !.aborted = TRUE]}
      BY <1>3, <2>1 DEF AbortInFlight, Live
    <3>2. Live(r)
      BY <2>1, <3>1 DEF Live, Free
    <3> QED
      BY <3>1, <3>2, RunShape DEF Run
  <2>2. UNCHANGED <<rows, runQueue, abortQueue, runHandler, abortHandler>>
    BY <1>3 DEF AbortInFlight, serviceVars
  <2>3. RunsHaveRows'
    BY <2>1, <2>2 DEF RowsInv, RunsHaveRows
  <2> QED
    BY <1>1, <2>2, <2>3, PartsUnmoved DEF RowsInv
<1>4. CASE Drained(w) \/ Crash(w)
  BY <1>4, DeathKeepsInv DEF Drained, Crash
<1> QED
  BY <1>2, <1>3, <1>4 DEF Stop

LEMMA EngineKeepsInv ==
    ASSUME TypeOK, RowsInv, WorkerNext, NEW r \in Runs,
           Engine(r) \/ AwaitedRunFails(r) \/ UnawaitedRunFails(r)
    PROVE  RowsInv'
<1> USE DEF TypeOK
<1>1. RowsStay /\ UNCHANGED req
  BY WorkersKeepRows DEF WorkerNext
<1>2. Live(r) /\ runs[r] \in Run /\ runs[r].worker \in Workers
  <2>1. Live(r)
    BY RunShape DEF Engine, Wake, WakeThrows, SaveRun, PublishAndExit, PublishAndSleep,
                    PublishAndFinish, PublishAndGoOn, AwaitedRunFails, UnawaitedRunFails
  <2> QED
    BY <2>1, RunShape DEF Run
(* The run goes on. *)
<1>3. CASE Wake(r) \/ SaveRun(r) \/ PublishAndSleep(r) \/ PublishAndFinish(r)
  <2>1. UNCHANGED <<runQueue, abortQueue, runHandler, abortHandler>>
    BY <1>3 DEF Wake, SaveRun, PublishAndSleep, PublishAndFinish, serviceVars
  <2>2. runs'[r].sim = runs[r].sim
    BY <1>2, <1>3 DEF Wake, SaveRun, PublishAndSleep, PublishAndFinish, WorkerTypeOK, Run
  <2>3. \A q \in Runs \ {r} : runs'[q] = runs[q]
    BY <1>3 DEF Wake, SaveRun, PublishAndSleep, PublishAndFinish, WorkerTypeOK
  <2>4. \A q \in Runs : Live(q) => rows'[runs[q].sim] # NoRow
    BY <1>1, RunShape DEF RowsInv, RunsHaveRows, RowsStay, Run
  <2>5. RunsHaveRows'
    BY <1>2, <2>2, <2>3, <2>4 DEF RunsHaveRows, Live
  <2> QED
    BY <1>1, <2>1, <2>5, PartsUnmoved DEF RowsInv
(* The run returns. *)
<1>4. CASE PublishAndExit(r) \/ AwaitedRunFails(r)
  <2>1. Exit(r) /\ UNCHANGED <<rows, runQueue, abortQueue, runHandler>>
    BY <1>4 DEF PublishAndExit, AwaitedRunFails, Exit
  <2>2. RunsHaveRows'
    BY <2>1 DEF Exit, RowsInv, RunsHaveRows, Live, WorkerTypeOK
  <2>3. ASSUME NEW w \in Workers, abortHandler'[w] # Resting
        PROVE  abortHandler[w] # Resting /\ abortHandler'[w].sim = abortHandler[w].sim
    <3>1. abortHandler'[w] \in {abortHandler[w], Resumed(abortHandler[w], r)}
      BY <2>1 DEF Exit, WorkerTypeOK
    <3> QED
      BY <2>3, <3>1 DEF Resumed, Resting
  <2>4. AbortHandlersHaveRows'
    BY <2>1, <2>3 DEF RowsInv, AbortHandlersHaveRows
  <2> QED
    BY <1>1, <2>1, <2>2, <2>4, PartsUnmoved DEF RowsInv
<1>5. CASE WakeThrows(r) \/ UnawaitedRunFails(r)
  BY <1>1, <1>2, <1>5, DeathKeepsInv DEF WakeThrows, UnawaitedRunFails
<1> QED
  BY <1>3, <1>4, <1>5 DEF Engine

-----------------------------------------------------------------------------

LEMMA RowsInvInit == Init => RowsInv
BY DEF Init, ServicesInit, OrchestratorInit, WorkerInit, RowsInv, RunQueueHasRows,
       AbortQueueHasRows, RunHandlersHaveRows, AbortHandlersHaveRows, RunsHaveRows,
       RequestsHaveRows, Live, Idle

LEMMA RowsInvStep == TypeOK /\ RowsInv /\ [Next]_vars => RowsInv'
<1> SUFFICES ASSUME TypeOK, RowsInv, [Next]_vars PROVE RowsInv'
  OBVIOUS
<1>1. CASE (Tick /\ UNCHANGED <<req, workerVars>>) \/ UNCHANGED vars
  BY <1>1, StepKeepsRows, PartsUnmoved DEF Tick, vars, serviceVars, workerVars, RowsInv
<1>2. CASE OrchestratorNext
  BY <1>2, RequestsKeepInv
<1>3. CASE WorkerNext
  BY <1>3, RunHandlingKeepsInv, AbortHandlingKeepsInv, ProcessKeepsInv, EngineKeepsInv
     DEF WorkerNext
<1> QED
  BY <1>1, <1>2, <1>3 DEF Next

(* Every command, handler and run names a row that is there: the handlers  *)
(* never drop a command for want of its simulation.                        *)
THEOREM CommandsFindRows == Spec => []CommandsHaveRows
<1>1. RowsInv => CommandsHaveRows
  BY DEF RowsInv, RunQueueHasRows, AbortQueueHasRows, RunHandlersHaveRows,
         AbortHandlersHaveRows, RunsHaveRows, CommandsHaveRows
<1> QED
  BY <1>1, TypeCorrect, RowsInvInit, RowsInvStep, PTL DEF Spec

-----------------------------------------------------------------------------
(* Who a simulation belongs to and which profile it has.  Every save       *)
(* writes all the columns from a copy read long before; owner and profile  *)
(* survive because every copy of a row agrees with it on both, and because *)
(* an id that is not yet saved is known to one request only.               *)

RequestsKnow == \A c \in Clients : Igniting(c) => SameIdentity(req[c].copy, req[c].sim)

HandlersKnow ==
    \A w \in Workers : abortHandler[w].pc \in {"save", "publish"} =>
        SameIdentity(abortHandler[w].copy, abortHandler[w].sim)

RunsKnow ==
    \A r \in Runs : Live(r) =>
        /\ SameIdentity(runs[r].copy, runs[r].sim)
        /\ runs[r].copy.profile = ProfileOf[runs[r].worker]

(* A RUN command, and the handler of one, is with a worker of its profile. *)
QueuesKnow ==
    \A p \in Profiles : \A i \in DOMAIN runQueue[p] : rows[runQueue[p][i]].profile = p

RunHandlersKnow ==
    \A w \in Workers : runHandler[w] # NoSim => rows[runHandler[w]].profile = ProfileOf[w]

(* An id without a row is known to one request. *)
IdsAreFresh ==
    \A c, d \in Clients :
        Igniting(c) /\ Igniting(d) /\ req[c].sim = req[d].sim /\ rows[req[c].sim] = NoRow =>
            c = d

IdInv ==
    /\ RequestsKnow
    /\ HandlersKnow
    /\ RunsKnow
    /\ QueuesKnow
    /\ RunHandlersKnow
    /\ IdsAreFresh

(* The step changes no identity; it saves no new row. *)
Stays(s) ==
    rows[s] # NoRow =>
        /\ rows'[s] # NoRow
        /\ rows'[s].owner = rows[s].owner
        /\ rows'[s].profile = rows[s].profile

IdentityStays == \A s \in Sims : Stays(s)

NoNewRow == \A s \in Sims : rows[s] = NoRow => rows'[s] = NoRow

-----------------------------------------------------------------------------

LEMMA SaveKeepsIdentity ==
    ASSUME ServicesTypeOK, NEW s \in Sims, NEW sim \in Aggregate, SameIdentity(sim, s), Save(s, sim)
    PROVE  /\ IdentityStays
           /\ rows'[s] = sim /\ sim # NoRow
           /\ \A t \in Sims \ {s} : rows'[t] = rows[t]
BY RowAssumption DEF ServicesTypeOK, Save, SameIdentity, IdentityStays, Stays

LEMMA SameRows == UNCHANGED rows => IdentityStays /\ NoNewRow
BY DEF IdentityStays, Stays, NoNewRow

LEMMA RequestsKeepIdentity ==
    ASSUME TypeOK, IdInv, OrchestratorNext
    PROVE  IdentityStays
<1> PICK c \in Clients : StartRequest(c) \/ ClientRestarts(c) \/ FinishRequest(c) \/ Serve(c)
                         \/ RequestFails(c)
  BY DEF OrchestratorNext
<1>1. CASE SaveIgnition(c)
  <2>1. req[c] \in Ignition /\ Igniting(c)
    BY <1>1, RequestShape DEF SaveIgnition, Igniting, TypeOK
  <2>2. SameIdentity(req[c].copy, req[c].sim)
    BY <2>1 DEF IdInv, RequestsKnow
  <2> QED
    BY <1>1, <2>1, <2>2, SaveKeepsIdentity DEF SaveIgnition, Ignition, TypeOK
<1>2. CASE ~SaveIgnition(c)
  <2>1. UNCHANGED rows
    BY <1>2 DEF StartRequest, ClientRestarts, RestartRequest, FinishRequest, Serve,
                EnsureCanIgnite, PublishIgnition, DispatchIgnition, DispatchFinish, RequestFails,
                serviceVars
  <2> QED
    BY <2>1, SameRows
<1> QED
  BY <1>1, <1>2

LEMMA WorkersKeepIdentity ==
    ASSUME TypeOK, RowsInv, IdInv, WorkerNext
    PROVE  IdentityStays /\ NoNewRow
<1>1. CASE \E r \in Runs : SaveRun(r)
  <2>1. PICK r \in Runs : SaveRun(r)
    BY <1>1
  <2>2. runs[r] \in Run /\ Live(r)
    BY <2>1, RunShape DEF SaveRun, TypeOK
  <2>3. SameIdentity(runs[r].copy, runs[r].sim) /\ rows[runs[r].sim] # NoRow
    BY <2>2 DEF IdInv, RunsKnow, RowsInv, RunsHaveRows
  <2>4. Save(runs[r].sim, runs[r].copy)
    BY <2>1 DEF SaveRun
  <2> QED
    BY <2>2, <2>3, <2>4, SaveKeepsIdentity DEF Run, TypeOK, NoNewRow
<1>2. CASE \E w \in Workers : AbortSave(w)
  <2>1. PICK w \in Workers : AbortSave(w)
    BY <1>2
  <2>2. abortHandler[w] \in Finishing /\ abortHandler[w].pc = "save"
    BY <2>1, HandlerShape DEF AbortSave, TypeOK, WorkerTypeOK
  <2>3. SameIdentity(abortHandler[w].copy, abortHandler[w].sim)
    BY <2>2 DEF IdInv, HandlersKnow
  <2>4. rows[abortHandler[w].sim] # NoRow
    BY <2>2 DEF RowsInv, AbortHandlersHaveRows, Resting
  <2>5. Save(abortHandler[w].sim, abortHandler[w].copy)
    BY <2>1 DEF AbortSave
  <2> QED
    BY <2>2, <2>3, <2>4, <2>5, SaveKeepsIdentity DEF Finishing, TypeOK, NoNewRow
<1>3. CASE UNCHANGED rows
  BY <1>3, SameRows
<1>4. CASE \E r \in Runs : ~SaveRun(r) /\ (Engine(r) \/ AwaitedRunFails(r) \/ UnawaitedRunFails(r))
  BY <1>3, <1>4 DEF Engine, Wake, WakeThrows, PublishAndExit, PublishAndSleep, PublishAndFinish,
              AwaitedRunFails, UnawaitedRunFails, serviceVars
<1>5. CASE \E w \in Workers :
             /\ ~AbortSave(w)
             /\ \/ TakeRun(w)
                \/ HandleRun(w)
                \/ DropAbort(w)
                \/ TakeAbort(w)
                \/ HandleAbort(w)
                \/ RunHandlerFails(w)
                \/ AbortHandlerFails(w)
  BY <1>3, <1>5 DEF TakeRun, HandleRun, BeginRun, BeginEmptyRun, BeginThrows, Launch, DropAbort,
              TakeAbort, HandleAbort, AbortFind, AbortPublish, RunHandlerFails, AbortHandlerFails,
              serviceVars
<1>6. CASE \E w \in Workers : Shutdown(w) \/ Stop(w) \/ Boot(w) \/ Crash(w)
  BY <1>3, <1>6 DEF Shutdown, Stop, CloseAborts, AbortInFlight, Drained, Boot, Crash, serviceVars
<1> QED
  BY <1>1, <1>2, <1>4, <1>5, <1>6 DEF WorkerNext

(* No step changes an identity. *)
LEMMA StepKeepsIdentity == TypeOK /\ RowsInv /\ IdInv /\ [Next]_vars => IdentityStays
<1> SUFFICES ASSUME TypeOK, RowsInv, IdInv, [Next]_vars PROVE IdentityStays
  OBVIOUS
<1>1. CASE (Tick /\ UNCHANGED <<req, workerVars>>) \/ UNCHANGED vars
  BY <1>1, SameRows DEF Tick, vars, serviceVars
<1> QED
  BY <1>1, RequestsKeepIdentity, WorkersKeepIdentity DEF Next

-----------------------------------------------------------------------------
(* What a part needs when its variable stays. *)

LEMMA StaysSame ==
    ASSUME NEW s \in Sims, Stays(s), rows[s] # NoRow, NEW copy, SameIdentity(copy, s)
    PROVE  SameIdentity(copy, s)'
BY DEF Stays, SameIdentity

LEMMA KnowledgeUnmoved ==
    ASSUME TypeOK, RowsInv, IdInv, IdentityStays
    PROVE  /\ UNCHANGED runQueue => QueuesKnow'
           /\ UNCHANGED runHandler => RunHandlersKnow'
           /\ UNCHANGED abortHandler => HandlersKnow'
           /\ UNCHANGED runs => RunsKnow'
           /\ UNCHANGED req /\ NoNewRow => RequestsKnow' /\ IdsAreFresh'
<1> USE DEF TypeOK, RowsInv, IdInv, IdentityStays, Stays
<1>1. UNCHANGED runQueue => QueuesKnow'
  <2>1. \A p \in Profiles : \A i \in DOMAIN runQueue[p] :
          /\ runQueue[p][i] \in Sims /\ rows[runQueue[p][i]] # NoRow
          /\ rows[runQueue[p][i]].profile = p
    BY DEF ServicesTypeOK, RunQueueHasRows, QueuesKnow
  <2> QED
    BY <2>1 DEF QueuesKnow
<1>2. UNCHANGED runHandler => RunHandlersKnow'
  BY DEF RunHandlersKnow, RunHandlersHaveRows, WorkerTypeOK
<1>3. ASSUME UNCHANGED abortHandler, NEW w \in Workers, abortHandler[w].pc \in {"save", "publish"}
      PROVE  SameIdentity(abortHandler[w].copy, abortHandler[w].sim)'
  <2>1. abortHandler[w].sim \in Sims /\ abortHandler[w] # Resting
    BY <1>3, HandlerShape DEF WorkerTypeOK, Resting
  <2>2. rows[abortHandler[w].sim] # NoRow
    BY <2>1 DEF AbortHandlersHaveRows
  <2>3. SameIdentity(abortHandler[w].copy, abortHandler[w].sim)
    BY <1>3 DEF HandlersKnow
  <2> QED
    BY <1>3, <2>1, <2>2, <2>3 DEF SameIdentity
<1>4. UNCHANGED abortHandler => HandlersKnow'
  BY <1>3 DEF HandlersKnow
<1>5. ASSUME UNCHANGED runs, NEW r \in Runs, Live(r)
      PROVE  SameIdentity(runs[r].copy, runs[r].sim)'
  <2>1. runs[r].sim \in Sims /\ rows[runs[r].sim] # NoRow
    BY <1>5, RunShape DEF Run, RunsHaveRows
  <2>2. SameIdentity(runs[r].copy, runs[r].sim)
    BY <1>5 DEF RunsKnow
  <2> QED
    BY <1>5, <2>1, <2>2 DEF SameIdentity
<1>6. UNCHANGED runs => RunsKnow'
  BY <1>5 DEF RunsKnow, Live
<1>7. ASSUME UNCHANGED req, NoNewRow
      PROVE  RequestsKnow' /\ IdsAreFresh'
  <2>1. \A c \in Clients : Igniting(c) => req[c].sim \in Sims
    BY RequestShape DEF Ignition
  <2>2. ASSUME NEW c \in Clients, Igniting(c)
        PROVE  SameIdentity(req[c].copy, req[c].sim)'
    <3>1. SameIdentity(req[c].copy, req[c].sim)
      BY <2>2 DEF RequestsKnow
    <3> QED
      BY <1>7, <2>1, <2>2, <3>1 DEF SameIdentity, NoNewRow
  <2>3. IdsAreFresh'
    BY <1>7, <2>1 DEF IdsAreFresh, Igniting
  <2> QED
    BY <1>7, <2>2, <2>3 DEF RequestsKnow, Igniting
<1> QED
  BY <1>1, <1>2, <1>4, <1>6, <1>7

-----------------------------------------------------------------------------
(* The requests. *)

(* Only the request of c changes, and no row. *)
LEMMA RequestMoves ==
    ASSUME TypeOK, IdInv, UNCHANGED rows, NEW c \in Clients, NEW next,
           req' = [req EXCEPT ![c] = next],
           next.pc \in {"query", "save", "publish", "dispatch"} =>
               /\ SameIdentity(next.copy, next.sim)
               /\ rows[next.sim] = NoRow =>
                    \A d \in Clients \ {c} : Igniting(d) => req[d].sim # next.sim
    PROVE  RequestsKnow' /\ IdsAreFresh'
<1>1. req'[c] = next /\ \A d \in Clients \ {c} : req'[d] = req[d]
  BY DEF TypeOK, OrchestratorTypeOK
<1>2. RequestsKnow'
  BY <1>1 DEF IdInv, RequestsKnow, Igniting, SameIdentity
<1>3. IdsAreFresh'
  BY <1>1 DEF IdInv, IdsAreFresh, Igniting
<1> QED
  BY <1>2, <1>3

(* The same when a request proceeds. *)
LEMMA RequestProceeds ==
    ASSUME TypeOK, IdInv, UNCHANGED rows, NEW c \in Clients, Igniting(c), NEW pc, Goto(c, pc)
    PROVE  RequestsKnow' /\ IdsAreFresh'
<1> DEFINE next == [req[c] EXCEPT !.pc = pc]
<1>1. req[c] \in Ignition
  BY RequestShape DEF TypeOK
<1>2. next.sim = req[c].sim /\ next.copy = req[c].copy
  BY <1>1 DEF Ignition
<1>3. req' = [req EXCEPT ![c] = next]
  BY DEF Goto
<1> HIDE DEF next
<1>4. SameIdentity(next.copy, next.sim)
  BY <1>2 DEF IdInv, RequestsKnow
<1>5. rows[next.sim] = NoRow => \A d \in Clients \ {c} : Igniting(d) => req[d].sim # next.sim
  BY <1>2 DEF IdInv, IdsAreFresh
<1> QED
  BY <1>3, <1>4, <1>5, RequestMoves

LEMMA IgnitionIdentity ==
    /\ \A u \in Users, p \in Profiles, t \in Nat : Create(u, p, t).profile = p
    /\ \A sim \in Aggregate, t \in Nat :
         Restart(sim, t).owner = sim.owner /\ Restart(sim, t).profile = sim.profile
    /\ \A sim \in Aggregate, t \in Nat :
         Finish(sim, t).owner = sim.owner /\ Finish(sim, t).profile = sim.profile
    /\ \A sim \in Aggregate :
         ApplyGoal(sim).owner = sim.owner /\ ApplyGoal(sim).profile = sim.profile
BY DEF Create, Restart, Finish, ApplyGoal, Aggregate

LEMMA RequestsKnowStep ==
    ASSUME TypeOK, RowsInv, IdInv, OrchestratorNext
    PROVE  RequestsKnow' /\ IdsAreFresh'
<1> USE DEF TypeOK
<1> PICK c \in Clients :
      StartRequest(c) \/ ClientRestarts(c) \/ FinishRequest(c) \/ Serve(c) \/ RequestFails(c)
  BY DEF OrchestratorNext
<1>1. CASE StartRequest(c)
  <2>1. PICK s \in Sims, p \in Profiles :
          /\ Fresh(s)
          /\ req' = [req EXCEPT ![c] =
               [pc |-> "query", sim |-> s, copy |-> Create(UserOf[c], p, now),
                event |-> SimulationStarted]]
    BY <1>1 DEF StartRequest
  <2>2. SameIdentity(Create(UserOf[c], p, now), s)
    BY <2>1 DEF Fresh, SameIdentity
  <2>3. \A d \in Clients : Igniting(d) => req[d].sim # s
    BY <2>1 DEF Fresh
  <2>4. UNCHANGED rows
    BY <1>1 DEF StartRequest, serviceVars
  <2> QED
    BY <2>1, <2>2, <2>3, <2>4, RequestMoves
<1>2. CASE ClientRestarts(c)
  <2>1. RestartRequest(c)
    BY <1>2 DEF ClientRestarts
  <2>2. PICK s \in Sims :
          /\ rows[s] # NoRow
          /\ req' = [req EXCEPT ![c] =
               [pc |-> "query", sim |-> s, copy |-> Restart(rows[s], now),
                event |-> SimulationRestarted]]
    BY <2>1 DEF RestartRequest
  <2>3. rows[s] \in Aggregate /\ now \in Nat
    BY <2>2 DEF ServicesTypeOK
  <2>4. SameIdentity(Restart(rows[s], now), s)
    BY <2>3, IgnitionIdentity DEF SameIdentity
  <2>5. UNCHANGED rows
    BY <2>1 DEF RestartRequest, serviceVars
  <2> QED
    BY <2>2, <2>4, <2>5, RequestMoves
<1>3. CASE FinishRequest(c)
  <2>1. PICK s \in Sims :
          req' = [req EXCEPT ![c] = [pc |-> "abort", sim |-> s, finishedAt |-> now]]
    BY <1>3 DEF FinishRequest
  <2>2. UNCHANGED rows
    BY <1>3 DEF FinishRequest, serviceVars
  <2> QED
    BY <2>1, <2>2, RequestMoves
<1>4. CASE UNCHANGED rows /\ req' = [req EXCEPT ![c] = Idle]
  BY <1>4, RequestMoves DEF Idle
<1>5. CASE EnsureCanIgnite(c)
  <2>1. Igniting(c) /\ UNCHANGED rows
    BY <1>5 DEF EnsureCanIgnite, Igniting, serviceVars
  <2> QED
    BY <1>4, <1>5, <2>1, RequestProceeds DEF EnsureCanIgnite
<1>6. CASE PublishIgnition(c)
  <2>1. Igniting(c) /\ UNCHANGED rows /\ Goto(c, "dispatch")
    BY <1>6 DEF PublishIgnition, Igniting
  <2> QED
    BY <2>1, RequestProceeds
<1>7. CASE DispatchIgnition(c) \/ DispatchFinish(c) \/ RequestFails(c)
  BY <1>4, <1>7 DEF DispatchIgnition, DispatchFinish, RequestFails
<1>8. CASE SaveIgnition(c)
  <2>1. Igniting(c) /\ req[c] \in Ignition
    BY <1>8, RequestShape DEF SaveIgnition, Igniting
  <2> DEFINE s == req[c].sim
             copy == req[c].copy
  <2>2. /\ s \in Sims /\ copy \in Aggregate /\ SameIdentity(copy, s)
        /\ Save(s, copy) /\ Goto(c, "publish")
    BY <1>8, <2>1 DEF SaveIgnition, Ignition, IdInv, RequestsKnow
  <2>3. /\ IdentityStays /\ rows'[s] = copy /\ copy # NoRow
        /\ \A t \in Sims \ {s} : rows'[t] = rows[t]
    BY <2>2, SaveKeepsIdentity
  <2>4. req' = [req EXCEPT ![c].pc = "publish"]
    BY <2>2 DEF Goto
  <2>5. /\ req'[c].sim = s /\ req'[c].copy = copy
        /\ \A d \in Clients \ {c} : req'[d] = req[d]
    BY <2>1, <2>4 DEF OrchestratorTypeOK, Ignition
  <2> HIDE DEF s, copy
  <2>6. \A d \in Clients : Igniting(d) => req[d].sim \in Sims /\ SameIdentity(req[d].copy, req[d].sim)
    BY RequestShape DEF Ignition, IdInv, RequestsKnow
  (* Another request for s has a row to go by. *)
  <2>7. ASSUME NEW d \in Clients \ {c}, Igniting(d)
        PROVE  SameIdentity(req[d].copy, req[d].sim)'
    <3>1. CASE req[d].sim = s
      <4>1. rows[s] # NoRow
        BY <2>1, <2>7, <3>1 DEF IdInv, IdsAreFresh, s
      <4>2. SameIdentity(req[d].copy, s)
        BY <2>6, <2>7, <3>1
      <4>3. rows'[s].owner = rows[s].owner /\ rows'[s].profile = rows[s].profile
        BY <2>2, <2>3, <4>1 DEF IdentityStays, Stays
      <4> QED
        BY <2>5, <3>1, <4>1, <4>2, <4>3 DEF SameIdentity
    <3>2. CASE req[d].sim # s
      BY <2>3, <2>5, <2>6, <2>7, <3>2 DEF SameIdentity
    <3> QED
      BY <3>1, <3>2
  <2>8. SameIdentity(req[c].copy, req[c].sim)'
    BY <2>3, <2>5 DEF SameIdentity
  <2>9. RequestsKnow'
    BY <2>5, <2>7, <2>8 DEF RequestsKnow, Igniting
  <2>10. IdsAreFresh'
    <3> SUFFICES ASSUME NEW d \in Clients, NEW e \in Clients, Igniting(d)', Igniting(e)',
                        req'[d].sim = req'[e].sim, rows'[req'[d].sim] = NoRow
                 PROVE  d = e
      BY DEF IdsAreFresh
    <3>1. d # c /\ e # c
      BY <2>3, <2>5
    <3>2. Igniting(d) /\ Igniting(e) /\ req[d].sim = req[e].sim /\ req[d].sim # s
      BY <2>3, <2>5, <3>1 DEF Igniting
    <3>3. rows[req[d].sim] = NoRow
      BY <2>3, <2>5, <2>6, <3>1, <3>2
    <3> QED
      BY <3>2, <3>3 DEF IdInv, IdsAreFresh
  <2> QED
    BY <2>9, <2>10
<1> QED
  BY <1>1, <1>2, <1>3, <1>5, <1>6, <1>7, <1>8 DEF Serve

LEMMA RequestsKeepIdInv ==
    ASSUME TypeOK, RowsInv, IdInv, OrchestratorNext
    PROVE  IdInv'
<1> USE DEF TypeOK
<1>1. IdentityStays /\ RequestsKnow' /\ IdsAreFresh'
  BY RequestsKeepIdentity, RequestsKnowStep
<1>2. UNCHANGED workerVars
  BY DEF OrchestratorNext
<1>3. HandlersKnow' /\ RunsKnow' /\ RunHandlersKnow'
  BY <1>1, <1>2, KnowledgeUnmoved DEF workerVars
<1>4. QueuesKnow'
  <2>1. CASE UNCHANGED runQueue
    BY <1>1, <2>1, KnowledgeUnmoved
  <2>2. CASE \E c \in Clients : DispatchIgnition(c)
    <3>1. PICK c \in Clients : DispatchIgnition(c)
      BY <2>2
    <3> DEFINE s == req[c].sim
               p == req[c].copy.profile
    <3>2. Igniting(c) /\ req[c] \in Ignition
      BY <3>1, RequestShape DEF DispatchIgnition, Igniting
    <3>3. s \in Sims /\ p \in Profiles /\ rows[s] # NoRow /\ SameIdentity(req[c].copy, s)
      BY <3>1, <3>2 DEF DispatchIgnition, Ignition, Aggregate, RowsInv, RequestsHaveRows,
                        IdInv, RequestsKnow
    <3>4. rows[s].profile = p
      BY <3>3 DEF SameIdentity
    <3>5. runQueue' = [runQueue EXCEPT ![p] = Append(@, s)] /\ UNCHANGED rows
      BY <3>1 DEF DispatchIgnition, DispatchRun
    <3> HIDE DEF s, p
    <3> QED
      BY <3>3, <3>4, <3>5 DEF IdInv, QueuesKnow, ServicesTypeOK
  <2>3. CASE ~(\E c \in Clients : DispatchIgnition(c))
    <3>1. UNCHANGED runQueue
      BY <2>3 DEF OrchestratorNext, StartRequest, ClientRestarts, RestartRequest, FinishRequest,
                  Serve, EnsureCanIgnite, SaveIgnition, PublishIgnition, DispatchFinish,
                  RequestFails, serviceVars
    <3> QED
      BY <2>1, <3>1
  <2> QED
    BY <2>2, <2>3
<1> QED
  BY <1>1, <1>3, <1>4 DEF IdInv

-----------------------------------------------------------------------------
(* The workers. *)

(* The process of w ends; job is what its RUN consumer gives back. *)
LEMMA DeathKeepsIdInv ==
    ASSUME TypeOK, RowsInv, IdInv, NEW w \in Workers, NEW job \in {runHandler[w], NoSim},
           Dies(w, job), UNCHANGED <<rows, req>>
    PROVE  IdInv'
<1> USE DEF TypeOK
<1>1. IdentityStays /\ NoNewRow
  BY SameRows
<1>2. QueuesKnow'
  <2>1. CASE job = NoSim
    BY <1>1, <2>1, KnowledgeUnmoved DEF Dies
  <2>2. CASE job # NoSim
    <3>1. job \in Sims /\ rows[job].profile = ProfileOf[w]
      BY <2>2 DEF WorkerTypeOK, IdInv, RunHandlersKnow
    <3>2. runQueue' = [runQueue EXCEPT ![ProfileOf[w]] = <<job>> \o @]
      BY <2>2 DEF Dies
    <3> SUFFICES ASSUME NEW p \in Profiles, NEW i \in DOMAIN runQueue'[p]
                 PROVE  rows[runQueue'[p][i]].profile = p
      BY DEF QueuesKnow
    <3>3. CASE p = ProfileOf[w]
      <4>1. runQueue'[p] = <<job>> \o runQueue[p] /\ runQueue[p] \in Seq(Sims)
        BY <3>2, <3>3 DEF ServicesTypeOK
      <4>2. CASE i = 1
        BY <3>1, <3>3, <4>1, <4>2
      <4>3. CASE i # 1
        <5>1. i - 1 \in DOMAIN runQueue[p] /\ runQueue'[p][i] = runQueue[p][i - 1]
          BY <3>1, <4>1, <4>3
        <5> QED
          BY <5>1 DEF IdInv, QueuesKnow
      <4> QED
        BY <4>2, <4>3
    <3>4. CASE p # ProfileOf[w]
      BY <3>2, <3>4 DEF IdInv, QueuesKnow, ServicesTypeOK
    <3> QED
      BY <3>3, <3>4
  <2> QED
    BY <2>1, <2>2
<1>3. RunHandlersKnow'
  BY DEF Dies, IdInv, RunHandlersKnow, WorkerTypeOK
<1>4. HandlersKnow'
  BY DEF Dies, IdInv, HandlersKnow, WorkerTypeOK, SameIdentity, Resting
<1>5. RunsKnow'
  BY DEF Dies, IdInv, RunsKnow, WorkerTypeOK, SameIdentity, Live
<1> QED
  BY <1>1, <1>2, <1>3, <1>4, <1>5, KnowledgeUnmoved DEF IdInv

LEMMA RunHandlingKeepsIdInv ==
    ASSUME TypeOK, RowsInv, IdInv, NEW w \in Workers,
           TakeRun(w) \/ HandleRun(w) \/ RunHandlerFails(w), UNCHANGED req
    PROVE  IdInv'
<1> USE DEF TypeOK
<1>1. UNCHANGED rows
  BY DEF TakeRun, HandleRun, BeginRun, BeginEmptyRun, BeginThrows, RunHandlerFails, Launch,
         serviceVars
<1>2. IdentityStays /\ NoNewRow
  BY <1>1, SameRows
<1>3. CASE TakeRun(w)
  <2> DEFINE queue == runQueue[ProfileOf[w]]
  <2>1. /\ queue \in Seq(Sims) /\ queue # << >>
        /\ runHandler' = [runHandler EXCEPT ![w] = Head(queue)]
        /\ runQueue' = [runQueue EXCEPT ![ProfileOf[w]] = Tail(queue)]
    BY <1>3 DEF TakeRun, ServicesTypeOK
  <2>2. \A i \in DOMAIN queue : rows[queue[i]].profile = ProfileOf[w]
    BY DEF IdInv, QueuesKnow
  <2>3. ProfileOf[w] \in Profiles
    OBVIOUS
  <2> HIDE DEF queue
  <2>4. rows[Head(queue)].profile = ProfileOf[w]
    BY <2>1, <2>2
  <2>5. \A i \in DOMAIN Tail(queue) : rows[Tail(queue)[i]].profile = ProfileOf[w]
    BY <2>1, <2>2
  <2>6. RunHandlersKnow'
    BY <1>1, <2>1, <2>4 DEF IdInv, RunHandlersKnow, WorkerTypeOK
  <2>7. QueuesKnow'
    BY <1>1, <2>1, <2>3, <2>5 DEF IdInv, QueuesKnow, ServicesTypeOK
  <2> QED
    BY <1>2, <1>3, <2>6, <2>7, KnowledgeUnmoved DEF TakeRun, IdInv
<1>4. ASSUME NEW s \in Sims, NEW r \in Runs, NEW pc, NEW copy, SameIdentity(copy, s),
             copy.profile = ProfileOf[w], Launch(w, s, r, NewRun(w, s, pc, copy))
      PROVE  IdInv'
  <2> DEFINE run == NewRun(w, s, pc, copy)
  <2>1. run.sim = s /\ run.copy = copy /\ run.worker = w
    BY DEF NewRun
  <2>2. runs' = [runs EXCEPT ![r] = run]
    BY <1>4 DEF Launch
  <2> HIDE DEF run
  <2>3. RunsKnow'
    BY <1>1, <1>4, <2>1, <2>2 DEF IdInv, RunsKnow, Live, WorkerTypeOK, SameIdentity
  <2>4. RunHandlersKnow'
    BY <1>1, <1>4 DEF Launch, IdInv, RunHandlersKnow, WorkerTypeOK
  <2> QED
    BY <1>2, <1>4, <2>3, <2>4, KnowledgeUnmoved DEF Launch, IdInv
<1>5. CASE runHandler' = [runHandler EXCEPT ![w] = NoSim]
           /\ UNCHANGED <<runQueue, abortQueue, abortHandler, runs>>
  <2>1. RunHandlersKnow'
    BY <1>1, <1>5 DEF IdInv, RunHandlersKnow, WorkerTypeOK
  <2> QED
    BY <1>2, <1>5, <2>1, KnowledgeUnmoved DEF IdInv
<1>6. CASE BeginRun(w)
  <2> DEFINE s == runHandler[w]
  <2>1. s \in Sims /\ rows[s].profile = ProfileOf[w] /\ SameIdentity(rows[s], s)
    BY <1>6 DEF BeginRun, WorkerTypeOK, IdInv, RunHandlersKnow, SameIdentity
  <2>2. CASE rows[s] = NoRow
    BY <1>5, <1>6, <2>2 DEF BeginRun, serviceVars
  <2>3. CASE rows[s] # NoRow
    <3>1. PICK r \in Runs : Launch(w, s, r, NewRun(w, s, "sleep", rows[s]))
      BY <1>6, <2>3 DEF BeginRun
    <3> QED
      BY <1>4, <2>1, <3>1
  <2> QED
    BY <2>2, <2>3
<1>7. CASE BeginEmptyRun(w)
  <2> DEFINE s == runHandler[w]
  <2>1. s \in Sims /\ rows[s] # NoRow /\ rows[s].profile = ProfileOf[w]
    BY <1>7 DEF BeginEmptyRun, WorkerTypeOK, IdInv, RunHandlersKnow
  <2>2. rows[s] \in Aggregate /\ now \in Nat
    BY <2>1 DEF ServicesTypeOK
  <2>3. PICK r \in Runs : Launch(w, s, r, NewRun(w, s, "save", Finish(rows[s], now)))
    BY <1>7 DEF BeginEmptyRun
  <2>4. SameIdentity(Finish(rows[s], now), s) /\ Finish(rows[s], now).profile = ProfileOf[w]
    BY <2>1, <2>2, IgnitionIdentity DEF SameIdentity
  <2> QED
    BY <1>4, <2>1, <2>3, <2>4
<1>8. CASE BeginThrows(w)
  BY <1>8, DeathKeepsIdInv DEF BeginThrows
<1>9. CASE RunHandlerFails(w)
  BY <1>5, <1>9 DEF RunHandlerFails
<1> QED
  BY <1>3, <1>6, <1>7, <1>8, <1>9 DEF HandleRun

(* Runs are freed or told to stop; no copy changes. *)
LEMMA RunsStop ==
    ASSUME TypeOK, RowsInv, IdInv, UNCHANGED rows,
           \A r \in Runs : runs'[r] \in {runs[r], Free, [runs[r] EXCEPT !.aborted = TRUE]}
    PROVE  RunsKnow'
<1> SUFFICES ASSUME NEW r \in Runs, Live(r)'
             PROVE  /\ SameIdentity(runs[r].copy, runs[r].sim)'
                    /\ runs'[r].copy.profile = ProfileOf[runs'[r].worker]
  BY DEF RunsKnow
<1>1. runs'[r] \in {runs[r], [runs[r] EXCEPT !.aborted = TRUE]}
  BY DEF Live
<1>2. Live(r)
  BY <1>1 DEF Live, Free
<1>3. /\ runs'[r].copy = runs[r].copy /\ runs'[r].sim = runs[r].sim
      /\ runs'[r].worker = runs[r].worker
  BY <1>1, <1>2, RunShape DEF Run, TypeOK
<1> QED
  BY <1>2, <1>3 DEF IdInv, RunsKnow, SameIdentity

LEMMA AbortHandlingKeepsIdInv ==
    ASSUME TypeOK, RowsInv, IdInv, WorkerNext, NEW w \in Workers,
           DropAbort(w) \/ TakeAbort(w) \/ HandleAbort(w) \/ AbortHandlerFails(w)
    PROVE  IdInv'
<1> USE DEF TypeOK
<1>1. IdentityStays /\ NoNewRow /\ UNCHANGED req
  BY WorkersKeepIdentity DEF WorkerNext
<1>2. CASE DropAbort(w)
  BY <1>1, <1>2, KnowledgeUnmoved DEF DropAbort, workerVars, IdInv
<1>3. CASE TakeAbort(w)
  <2>1. UNCHANGED <<rows, runQueue, runHandler>>
    BY <1>3 DEF TakeAbort
  <2>2. HandlersKnow'
    <3>1. /\ abortHandler'[w].pc \in {"find", "draining"}
          /\ \A v \in Workers \ {w} : abortHandler'[v] = abortHandler[v]
      BY <1>3 DEF TakeAbort, WorkerTypeOK
    <3>2. \A v \in Workers : abortHandler'[v].pc \in {"save", "publish"} =>
            v # w /\ abortHandler'[v] = abortHandler[v]
      BY <3>1
    <3> QED
      BY <2>1, <3>2 DEF IdInv, HandlersKnow, SameIdentity
  <2>3. \A r \in Runs : runs'[r] \in {runs[r], Free, [runs[r] EXCEPT !.aborted = TRUE]}
    BY <1>3 DEF TakeAbort, WorkerTypeOK
  <2>4. RunsKnow'
    BY <2>1, <2>3, RunsStop
  <2> QED
    BY <1>1, <2>1, <2>2, <2>4, KnowledgeUnmoved DEF IdInv
<1>4. CASE HandleAbort(w) \/ AbortHandlerFails(w)
  <2>1. /\ UNCHANGED <<runQueue, runHandler, runs>>
        /\ \A v \in Workers \ {w} : abortHandler'[v] = abortHandler[v]
    BY <1>4 DEF HandleAbort, AbortFind, AbortSave, AbortPublish, AbortHandlerFails, WorkerTypeOK,
                serviceVars
  <2>2. ASSUME NEW v \in Workers, abortHandler[v].pc \in {"save", "publish"},
               abortHandler'[v].copy = abortHandler[v].copy,
               abortHandler'[v].sim = abortHandler[v].sim
        PROVE  SameIdentity(abortHandler[v].copy, abortHandler[v].sim)'
    <3>1. abortHandler[v].sim \in Sims /\ abortHandler[v] # Resting
      BY <2>2, HandlerShape DEF WorkerTypeOK, Resting
    <3>2. rows[abortHandler[v].sim] # NoRow /\ SameIdentity(abortHandler[v].copy, abortHandler[v].sim)
      BY <2>2, <3>1 DEF RowsInv, AbortHandlersHaveRows, IdInv, HandlersKnow
    <3> QED
      BY <1>1, <2>2, <3>1, <3>2 DEF SameIdentity, IdentityStays, Stays
  <2>3. ASSUME abortHandler'[w].pc \in {"save", "publish"}
        PROVE  SameIdentity(abortHandler[w].copy, abortHandler[w].sim)'
    <3>1. CASE AbortFind(w)
      <4> DEFINE h == abortHandler[w]
      <4>1. /\ abortHandler'[w] = [pc |-> "save", sim |-> h.sim, finishedAt |-> h.finishedAt,
                                  copy |-> Finish(rows[h.sim], h.finishedAt)]
            /\ rows[h.sim] # NoRow /\ UNCHANGED rows /\ h.pc = "find"
        BY <2>3, <3>1 DEF AbortFind, WorkerTypeOK, Resting, serviceVars
      <4>2. h \in Finding
        BY <4>1, HandlerShape DEF WorkerTypeOK
      <4>3. rows[h.sim] \in Aggregate /\ h.finishedAt \in Nat
        BY <4>1, <4>2 DEF ServicesTypeOK, Finding
      <4>4. SameIdentity(Finish(rows[h.sim], h.finishedAt), h.sim)
        BY <4>3, IgnitionIdentity DEF SameIdentity
      <4> QED
        BY <4>1, <4>4 DEF SameIdentity
    <3>2. CASE AbortSave(w)
      <4>1. abortHandler[w] \in Finishing /\ abortHandler[w].pc = "save"
        BY <3>2, HandlerShape DEF AbortSave, WorkerTypeOK
      <4>2. /\ abortHandler'[w].copy = abortHandler[w].copy
            /\ abortHandler'[w].sim = abortHandler[w].sim
        BY <3>2, <4>1 DEF AbortSave, WorkerTypeOK, Finishing
      <4> QED
        BY <2>2, <4>1, <4>2
    <3>3. CASE AbortPublish(w) \/ AbortHandlerFails(w)
      BY <2>3, <3>3 DEF AbortPublish, AbortHandlerFails, WorkerTypeOK, Resting
    <3> QED
      BY <1>4, <3>1, <3>2, <3>3 DEF HandleAbort
  <2>4. HandlersKnow'
    BY <2>1, <2>2, <2>3 DEF HandlersKnow
  <2> QED
    BY <1>1, <2>1, <2>4, KnowledgeUnmoved DEF IdInv
<1> QED
  BY <1>2, <1>3, <1>4

LEMMA ProcessKeepsIdInv ==
    ASSUME TypeOK, RowsInv, IdInv, NEW w \in Workers,
           Shutdown(w) \/ Stop(w) \/ Boot(w) \/ Crash(w), UNCHANGED req
    PROVE  IdInv'
<1>1. CASE Shutdown(w) \/ CloseAborts(w) \/ Boot(w)
  BY <1>1, SameRows, KnowledgeUnmoved DEF Shutdown, CloseAborts, Boot, serviceVars, IdInv
<1>2. CASE AbortInFlight(w)
  <2>1. UNCHANGED <<rows, runQueue, runHandler, abortHandler>>
    BY <1>2 DEF AbortInFlight, serviceVars
  <2>2. \A r \in Runs : runs'[r] \in {runs[r], Free, [runs[r] EXCEPT !.aborted = TRUE]}
    BY <1>2 DEF AbortInFlight
  <2>3. RunsKnow'
    BY <2>1, <2>2, RunsStop
  <2> QED
    BY <2>1, <2>3, SameRows, KnowledgeUnmoved DEF IdInv
<1>3. CASE Drained(w) \/ Crash(w)
  BY <1>3, DeathKeepsIdInv DEF Drained, Crash
<1> QED
  BY <1>1, <1>2, <1>3 DEF Stop

LEMMA EngineKeepsIdInv ==
    ASSUME TypeOK, RowsInv, IdInv, WorkerNext, NEW r \in Runs,
           Engine(r) \/ AwaitedRunFails(r) \/ UnawaitedRunFails(r)
    PROVE  IdInv'
<1> USE DEF TypeOK
<1>1. IdentityStays /\ NoNewRow /\ UNCHANGED req
  BY WorkersKeepIdentity DEF WorkerNext
<1>2. Live(r) /\ runs[r] \in Run /\ runs[r].worker \in Workers
  <2>1. Live(r)
    BY RunShape DEF Engine, Wake, WakeThrows, SaveRun, PublishAndExit, PublishAndSleep,
                    PublishAndFinish, PublishAndGoOn, AwaitedRunFails, UnawaitedRunFails
  <2> QED
    BY <2>1, RunShape DEF Run
(* The run goes on. *)
<1>3. CASE Wake(r) \/ SaveRun(r) \/ PublishAndSleep(r) \/ PublishAndFinish(r)
  <2>1. UNCHANGED <<runQueue, runHandler, abortHandler>>
    BY <1>3 DEF Wake, SaveRun, PublishAndSleep, PublishAndFinish, serviceVars
  <2>2. /\ runs'[r].sim = runs[r].sim /\ runs'[r].worker = runs[r].worker
        /\ runs'[r].copy.owner = runs[r].copy.owner
        /\ runs'[r].copy.profile = runs[r].copy.profile
    <3>1. runs[r].copy \in Aggregate /\ now \in Nat
      BY <1>2 DEF Run, ServicesTypeOK
    <3>2. CASE Wake(r)
      <4>1. /\ runs'[r].sim = runs[r].sim /\ runs'[r].worker = runs[r].worker
            /\ runs'[r].copy = ApplyGoal(runs[r].copy)
        BY <1>2, <3>2 DEF Wake, WorkerTypeOK, Run
      <4> QED
        BY <3>1, <4>1, IgnitionIdentity
    <3>3. CASE PublishAndFinish(r)
      <4>1. /\ runs'[r].sim = runs[r].sim /\ runs'[r].worker = runs[r].worker
            /\ runs'[r].copy = Finish(runs[r].copy, now)
        BY <1>2, <3>3 DEF PublishAndFinish, WorkerTypeOK, Run
      <4> QED
        BY <3>1, <4>1, IgnitionIdentity
    <3>4. CASE SaveRun(r)
      <4>1. /\ runs'[r].sim = runs[r].sim /\ runs'[r].worker = runs[r].worker
            /\ runs'[r].copy = runs[r].copy
        BY <1>2, <3>4 DEF SaveRun, WorkerTypeOK, Run
      <4> QED
        BY <4>1
    <3>5. CASE PublishAndSleep(r)
      <4>1. /\ runs'[r].sim = runs[r].sim /\ runs'[r].worker = runs[r].worker
            /\ runs'[r].copy = runs[r].copy
        BY <1>2, <3>5 DEF PublishAndSleep, WorkerTypeOK, Run
      <4> QED
        BY <4>1
    <3> QED
      BY <1>3, <3>2, <3>3, <3>4, <3>5
  <2>3. \A q \in Runs \ {r} : runs'[q] = runs[q]
    BY <1>3 DEF Wake, SaveRun, PublishAndSleep, PublishAndFinish, WorkerTypeOK
  <2>4. ASSUME NEW q \in Runs, Live(q)
        PROVE  /\ rows'[runs[q].sim] # NoRow
               /\ rows'[runs[q].sim].owner = runs[q].copy.owner
               /\ rows'[runs[q].sim].profile = runs[q].copy.profile
               /\ runs[q].copy.profile = ProfileOf[runs[q].worker]
    <3>1. runs[q].sim \in Sims /\ rows[runs[q].sim] # NoRow
      BY <2>4, RunShape DEF Run, RowsInv, RunsHaveRows
    <3>2. SameIdentity(runs[q].copy, runs[q].sim) /\ runs[q].copy.profile = ProfileOf[runs[q].worker]
      BY <2>4 DEF IdInv, RunsKnow
    <3> QED
      BY <1>1, <3>1, <3>2 DEF IdentityStays, Stays, SameIdentity
  <2>5. RunsKnow'
    <3> SUFFICES ASSUME NEW q \in Runs, Live(q)'
                 PROVE  /\ SameIdentity(runs[q].copy, runs[q].sim)'
                        /\ runs'[q].copy.profile = ProfileOf[runs'[q].worker]
      BY DEF RunsKnow
    <3>1. CASE q = r
      BY <1>2, <2>2, <2>4, <3>1 DEF SameIdentity
    <3>2. CASE q # r
      BY <2>3, <2>4, <3>2 DEF SameIdentity, Live
    <3> QED
      BY <3>1, <3>2
  <2> QED
    BY <1>1, <2>1, <2>5, KnowledgeUnmoved DEF IdInv
(* The run returns. *)
<1>4. CASE PublishAndExit(r) \/ AwaitedRunFails(r)
  <2>1. Exit(r) /\ UNCHANGED <<rows, runQueue, runHandler>>
    BY <1>4 DEF PublishAndExit, AwaitedRunFails, Exit
  <2>2. \A q \in Runs : runs'[q] \in {runs[q], Free}
    BY <2>1 DEF Exit, WorkerTypeOK
  <2>3. RunsKnow'
    BY <2>1, <2>2, RunsStop
  <2>4. ASSUME NEW w \in Workers, abortHandler'[w].pc \in {"save", "publish"}
        PROVE  abortHandler'[w] = abortHandler[w]
    <3>1. abortHandler'[w] \in {abortHandler[w], Resumed(abortHandler[w], r)}
      BY <2>1 DEF Exit, WorkerTypeOK
    <3> QED
      BY <2>4, <3>1 DEF Resumed
  <2>5. HandlersKnow'
    BY <2>1, <2>4 DEF IdInv, HandlersKnow, SameIdentity
  <2> QED
    BY <1>1, <2>1, <2>3, <2>5, KnowledgeUnmoved DEF IdInv
<1>5. CASE WakeThrows(r) \/ UnawaitedRunFails(r)
  BY <1>1, <1>2, <1>5, DeathKeepsIdInv DEF WakeThrows, UnawaitedRunFails
<1> QED
  BY <1>3, <1>4, <1>5 DEF Engine

-----------------------------------------------------------------------------

LEMMA IdInvInit == Init => IdInv
BY DEF Init, ServicesInit, OrchestratorInit, WorkerInit, IdInv, RequestsKnow, HandlersKnow,
       RunsKnow, QueuesKnow, RunHandlersKnow, IdsAreFresh, Igniting, Live, Idle, Resting

LEMMA IdInvStep == TypeOK /\ RowsInv /\ IdInv /\ [Next]_vars => IdInv'
<1> SUFFICES ASSUME TypeOK, RowsInv, IdInv, [Next]_vars PROVE IdInv'
  OBVIOUS
<1>1. CASE (Tick /\ UNCHANGED <<req, workerVars>>) \/ UNCHANGED vars
  BY <1>1, SameRows, KnowledgeUnmoved DEF Tick, vars, serviceVars, workerVars, IdInv
<1>2. CASE OrchestratorNext
  BY <1>2, RequestsKeepIdInv
<1>3. CASE WorkerNext
  BY <1>3, RunHandlingKeepsIdInv, AbortHandlingKeepsIdInv, ProcessKeepsIdInv, EngineKeepsIdInv
     DEF WorkerNext
<1> QED
  BY <1>1, <1>2, <1>3 DEF Next

LEMMA IdentityInvariance == Spec => [](TypeOK /\ RowsInv /\ IdInv)
<1>1. Spec => []TypeOK
  BY TypeCorrect
<1>2. Spec => []RowsInv
  BY <1>1, RowsInvInit, RowsInvStep, PTL DEF Spec
<1> QED
  BY <1>1, <1>2, IdInvInit, IdInvStep, PTL DEF Spec

(* Every copy of a row, in a request, a run or a handler of ABORT, has the *)
(* owner and the profile of the row, and a run is on a worker of its       *)
(* profile: a save (postgres-simulation.repository.ts:26) writes back the  *)
(* owner and the profile that are there.                                   *)
THEOREM CopiesAgree == Spec => []CopiesKeepIdentity
<1>1. IdInv => CopiesKeepIdentity
  BY DEF IdInv, RequestsKnow, HandlersKnow, RunsKnow, CopiesKeepIdentity
<1> QED
  BY <1>1, IdentityInvariance, PTL

(* No interleaving of requests, runs and handlers, no crash and no failed  *)
(* call gives a simulation to another owner, changes its profile or        *)
(* deletes it.                                                             *)
THEOREM OwnersKeepTheirs == Spec => IdentityIsStable
<1>1. TypeOK /\ RowsInv /\ IdInv /\ [Next]_vars =>
        [\A s \in Sims : rows[s] # NoRow =>
            /\ rows'[s] # NoRow
            /\ rows'[s].owner = rows[s].owner
            /\ rows'[s].profile = rows[s].profile]_vars
  BY StepKeepsIdentity DEF IdentityStays, Stays
<1> QED
  BY <1>1, IdentityInvariance, PTL DEF Spec, IdentityIsStable

=============================================================================
