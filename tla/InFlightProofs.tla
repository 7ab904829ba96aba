--------------------------- MODULE InFlightProofs ---------------------------
(***************************************************************************)
(* The inFlight map and the handlers that abort runs through it, for every *)
(* number of workers, runs and simulations, whatever fails: an entry names *)
(* a live run, a handler of ABORT never waits for a run that will not      *)
(* return, and an aborted run changes its copy no more.                    *)
(***************************************************************************)
EXTENDS SimulationSystemProofs

(* Inductive together with TypeOK. *)
MapInv == InFlightIsLive /\ DrainIsPrompt

LEMMA MapUnmoved ==
    ASSUME MapInv, UNCHANGED <<runs, inFlight, abortHandler>>
    PROVE  MapInv'
BY DEF MapInv, InFlightIsLive, DrainIsPrompt, Live

(* A step of a run that keeps its identity and, once aborted, stays awake. *)
LEMMA RunGoesOn ==
    ASSUME WorkerTypeOK, MapInv, NEW r \in Runs, Live(r), NEW run,
           runs' = [runs EXCEPT ![r] = run],
           run # Free,
           run.worker = runs[r].worker,
           run.sim = runs[r].sim,
           run.aborted = runs[r].aborted,
           run.aborted => run.pc # "sleep",
           UNCHANGED <<inFlight, abortHandler>>
    PROVE  MapInv'
<1>1. InFlightIsLive'
  BY DEF MapInv, InFlightIsLive, Live, WorkerTypeOK
<1>2. DrainIsPrompt'
  <2>1. runs'[r] = run /\ \A q \in Runs \ {r} : runs'[q] = runs[q]
    BY DEF WorkerTypeOK
  <2>2. ASSUME NEW w \in Workers, abortHandler[w].pc = "draining"
        PROVE  abortHandler[w].run \in Runs
    BY <2>2, HandlerShape DEF WorkerTypeOK, Draining
  <2> QED
    BY <2>1, <2>2 DEF MapInv, DrainIsPrompt, Live
<1> QED
  BY <1>1, <1>2 DEF MapInv

(* A run's promise settles. *)
LEMMA RunReturns ==
    ASSUME WorkerTypeOK, MapInv, NEW r \in Runs, Live(r), Exit(r)
    PROVE  MapInv'
<1>1. runs[r].worker \in Workers /\ runs[r].sim \in Sims
  BY RunShape DEF Run
<1>2. runs'[r] = Free /\ \A q \in Runs \ {r} : runs'[q] = runs[q]
  BY DEF Exit, WorkerTypeOK
<1>3. InFlightIsLive'
  <2> SUFFICES ASSUME NEW w \in Workers, NEW s \in Sims, inFlight'[w][s] # NoRun
               PROVE  /\ inFlight'[w][s] \in Runs \ {r}
                      /\ inFlight'[w][s] = inFlight[w][s]
    BY <1>2 DEF MapInv, InFlightIsLive, Live
  <2>1. inFlight'[w][s] = inFlight[w][s]
    BY <1>1 DEF Exit, WorkerTypeOK
  <2>2. inFlight[w][s] # r
    <3> SUFFICES ASSUME inFlight[w][s] = r PROVE FALSE
      OBVIOUS
    <3>1. runs[r].worker = w /\ runs[r].sim = s
      BY <2>1 DEF MapInv, InFlightIsLive
    <3>2. inFlight'[w][s] = NoRun
      BY <1>1, <3>1 DEF Exit, WorkerTypeOK
    <3> QED
      BY <3>2
  <2> QED
    BY <2>1, <2>2 DEF WorkerTypeOK
<1>4. DrainIsPrompt'
  <2>1. ASSUME NEW w \in Workers, abortHandler'[w].pc = "draining"
        PROVE  abortHandler'[w] = abortHandler[w] /\ abortHandler[w].run \in Runs \ {r}
    <3>1. CASE w = runs[r].worker
      <4>1. abortHandler'[w] = Resumed(abortHandler[w], r)
        BY <1>1, <3>1 DEF Exit, WorkerTypeOK
      <4>2. /\ abortHandler'[w] = abortHandler[w]
            /\ abortHandler[w].run # r
        BY <2>1, <4>1 DEF Resumed
      <4> QED
        BY <2>1, <4>2, HandlerShape DEF WorkerTypeOK, Draining
    <3>2. CASE w # runs[r].worker
      <4>1. abortHandler'[w] = abortHandler[w]
        BY <1>1, <3>2 DEF Exit, WorkerTypeOK
      <4>2. abortHandler[w].run \in Runs
        BY <2>1, <4>1, HandlerShape DEF WorkerTypeOK, Draining
      <4>3. runs[abortHandler[w].run].worker = w
        BY <2>1, <4>1 DEF MapInv, DrainIsPrompt
      <4> QED
        BY <3>2, <4>1, <4>2, <4>3
    <3> QED
      BY <3>1, <3>2
  <2> QED
    BY <1>2, <2>1 DEF MapInv, DrainIsPrompt, Live
<1> QED
  BY <1>3, <1>4 DEF MapInv

(* A run begins under an id nobody uses. *)
LEMMA RunBegins ==
    ASSUME WorkerTypeOK, MapInv, NEW w \in Workers, NEW s \in Sims, NEW r \in Runs, ~Live(r),
           NEW pc, NEW copy, Launch(w, s, r, NewRun(w, s, pc, copy))
    PROVE  MapInv'
<1> DEFINE run == NewRun(w, s, pc, copy)
<1>1. run.worker = w /\ run.sim = s /\ run.aborted = FALSE /\ run # Free
  BY DEF NewRun, Free
<1> HIDE DEF run
<1>2. runs'[r] = run /\ \A q \in Runs \ {r} : runs'[q] = runs[q]
  BY DEF Launch, WorkerTypeOK, run
<1>3. ASSUME NEW v \in Workers, NEW q \in Sims
      PROVE  inFlight'[v][q] = IF v = w /\ q = s THEN r ELSE inFlight[v][q]
  BY DEF Launch, WorkerTypeOK
<1>4. InFlightIsLive'
  <2> SUFFICES ASSUME NEW v \in Workers, NEW q \in Sims, inFlight'[v][q] # NoRun
               PROVE  /\ runs'[inFlight'[v][q]] # Free
                      /\ runs'[inFlight'[v][q]].worker = v
                      /\ runs'[inFlight'[v][q]].sim = q
    BY DEF InFlightIsLive, Live
  <2>1. CASE v = w /\ q = s
    BY <1>1, <1>2, <1>3, <2>1
  <2>2. CASE ~(v = w /\ q = s)
    <3>1. inFlight'[v][q] = inFlight[v][q] /\ inFlight[v][q] \in Runs
      BY <1>3, <2>2 DEF WorkerTypeOK
    <3>2. inFlight[v][q] # r
      BY <3>1 DEF MapInv, InFlightIsLive
    <3> QED
      BY <1>2, <3>1, <3>2 DEF MapInv, InFlightIsLive, Live
  <2> QED
    BY <2>1, <2>2
<1>5. DrainIsPrompt'
  <2>1. ASSUME NEW v \in Workers, abortHandler[v].pc = "draining"
        PROVE  abortHandler[v].run \in Runs \ {r}
    <3>1. abortHandler[v].run \in Runs
      BY <2>1, HandlerShape DEF WorkerTypeOK, Draining
    <3> QED
      BY <2>1, <3>1 DEF MapInv, DrainIsPrompt
  <2>2. abortHandler' = abortHandler
    BY DEF Launch
  <2> QED
    BY <1>1, <1>2, <2>1, <2>2 DEF MapInv, DrainIsPrompt, Live
<1> QED
  BY <1>4, <1>5 DEF MapInv

(* A process ends. *)
LEMMA WorkerDies ==
    ASSUME WorkerTypeOK, MapInv, NEW w \in Workers, NEW job, Dies(w, job)
    PROVE  MapInv'
<1>1. \A r \in Runs : runs'[r] = IF Live(r) /\ runs[r].worker = w THEN Free ELSE runs[r]
  BY DEF Dies
<1>2. \A s \in Sims : inFlight'[w][s] = NoRun
  BY DEF Dies, WorkerTypeOK
<1>3. \A v \in Workers \ {w} : inFlight'[v] = inFlight[v] /\ abortHandler'[v] = abortHandler[v]
  BY DEF Dies, WorkerTypeOK
<1>4. abortHandler'[w] = Resting
  BY DEF Dies, WorkerTypeOK
<1>5. InFlightIsLive'
  <2> SUFFICES ASSUME NEW v \in Workers \ {w}, NEW s \in Sims, inFlight[v][s] # NoRun
               PROVE  runs'[inFlight[v][s]] = runs[inFlight[v][s]]
    BY <1>2, <1>3 DEF MapInv, InFlightIsLive, Live
  <2>1. inFlight[v][s] \in Runs
    BY DEF WorkerTypeOK
  <2>2. runs[inFlight[v][s]].worker = v
    BY DEF MapInv, InFlightIsLive
  <2> QED
    BY <1>1, <2>1, <2>2
<1>6. DrainIsPrompt'
  <2>1. ASSUME NEW v \in Workers, abortHandler'[v].pc = "draining"
        PROVE  v # w
    BY <1>4, <2>1 DEF Resting
  <2>2. ASSUME NEW v \in Workers \ {w}, abortHandler[v].pc = "draining"
        PROVE  runs'[abortHandler[v].run] = runs[abortHandler[v].run]
    <3>1. abortHandler[v].run \in Runs
      BY <2>2, HandlerShape DEF WorkerTypeOK, Draining
    <3>2. runs[abortHandler[v].run].worker = v
      BY <2>2 DEF MapInv, DrainIsPrompt
    <3> QED
      BY <1>1, <3>1, <3>2
  <2>3. ASSUME NEW r \in Runs, runs'[r] # Free
        PROVE  runs'[r] = runs[r]
    BY <1>1, <2>3
  <2> QED
    BY <1>3, <2>1, <2>2, <2>3 DEF MapInv, DrainIsPrompt, Live
<1> QED
  BY <1>5, <1>6 DEF MapInv

LEMMA AbortIsHeard ==
    ASSUME TypeOK, MapInv, NEW w \in Workers, TakeAbort(w)
    PROVE  MapInv'
<1> DEFINE s == Head(abortQueue).sim
           t == Head(abortQueue).finishedAt
           r == Target(w)
<1> USE DEF TypeOK
<1>1. s \in Sims
  <2>1. Head(abortQueue) \in AbortCommand
    BY DEF TakeAbort, CanTakeAbort, ServicesTypeOK
  <2> QED
    BY <2>1 DEF AbortCommand
<1>2. /\ r \in Runs
      /\ r = inFlight[w][s]
      /\ Live(r)
      /\ runs[r].worker = w
      /\ runs[r].sim = s
  BY <1>1 DEF TakeAbort, Target, WorkerTypeOK, MapInv, InFlightIsLive
<1>3. \A v \in Workers \ {w} : abortHandler'[v] = abortHandler[v]
  BY DEF TakeAbort, WorkerTypeOK
<1>4. ASSUME NEW v \in Workers, abortHandler[v].pc = "draining"
      PROVE  abortHandler[v].run \in Runs
  BY <1>4, HandlerShape DEF WorkerTypeOK, Draining
<1>5. CASE runs[r].pc = "sleep"
  <2>1. /\ runs' = [runs EXCEPT ![r] = Free]
        /\ inFlight' = [inFlight EXCEPT ![w][s] = NoRun]
        /\ abortHandler' = [abortHandler EXCEPT ![w] =
             [pc |-> "find", sim |-> s, finishedAt |-> t]]
    BY <1>5 DEF TakeAbort
  <2> HIDE DEF r, s, t
  <2>2. runs'[r] = Free /\ \A q \in Runs \ {r} : runs'[q] = runs[q]
    BY <1>2, <2>1 DEF WorkerTypeOK
  <2>3. InFlightIsLive'
    <3> SUFFICES ASSUME NEW v \in Workers, NEW q \in Sims, inFlight'[v][q] # NoRun
                 PROVE  inFlight'[v][q] = inFlight[v][q] /\ inFlight[v][q] \in Runs \ {r}
      BY <2>2 DEF MapInv, InFlightIsLive, Live
    <3>1. ~(v = w /\ q = s) /\ inFlight'[v][q] = inFlight[v][q]
      BY <1>1, <2>1 DEF WorkerTypeOK
    <3>2. inFlight[v][q] \in Runs
      BY <3>1 DEF WorkerTypeOK
    <3>3. inFlight[v][q] # r
      BY <1>2, <3>1 DEF MapInv, InFlightIsLive
    <3> QED
      BY <3>1, <3>2, <3>3
  <2>4. DrainIsPrompt'
    <3>1. ASSUME NEW v \in Workers, abortHandler'[v].pc = "draining"
          PROVE  v # w
      BY <2>1, <3>1 DEF WorkerTypeOK
    <3>2. ASSUME NEW v \in Workers, abortHandler[v].pc = "draining"
          PROVE  abortHandler[v].run # r
      BY <1>2, <1>5, <3>2 DEF MapInv, DrainIsPrompt
    <3> QED
      BY <1>3, <1>4, <2>2, <3>1, <3>2 DEF MapInv, DrainIsPrompt, Live
  <2> QED
    BY <2>3, <2>4 DEF MapInv
<1>6. CASE runs[r].pc # "sleep"
  <2>1. /\ runs' = [runs EXCEPT ![r].aborted = TRUE]
        /\ inFlight' = inFlight
        /\ abortHandler' = [abortHandler EXCEPT ![w] =
             [pc |-> "draining", sim |-> s, finishedAt |-> t, run |-> r]]
    BY <1>6 DEF TakeAbort
  <2> HIDE DEF r, s, t
  <2>2. /\ runs'[r] # Free
        /\ runs'[r].worker = w
        /\ runs'[r].sim = s
        /\ runs'[r].aborted
        /\ runs'[r].pc = runs[r].pc
        /\ \A q \in Runs \ {r} : runs'[q] = runs[q]
    BY <1>2, <2>1, RunShape DEF WorkerTypeOK, Run, Free
  <2>3. InFlightIsLive'
    BY <1>2, <2>1, <2>2 DEF MapInv, InFlightIsLive, Live, WorkerTypeOK
  <2>4. abortHandler'[w].run = r
    BY <2>1 DEF WorkerTypeOK
  <2>5. DrainIsPrompt'
    BY <1>2, <1>3, <1>4, <1>6, <2>2, <2>4 DEF MapInv, DrainIsPrompt, Live
  <2> QED
    BY <2>3, <2>5 DEF MapInv
<1> QED
  BY <1>5, <1>6

LEMMA AbortsAllInFlight ==
    ASSUME WorkerTypeOK, MapInv, NEW w \in Workers, AbortInFlight(w)
    PROVE  MapInv'
<1> DEFINE registered == {inFlight[w][s] : s \in Sims} \ {NoRun}
           asleep == {r \in registered : runs[r].pc = "sleep"}
<1>1. /\ runs' = [r \in Runs |-> IF r \in asleep THEN Free
                                 ELSE IF r \in registered THEN [runs[r] EXCEPT !.aborted = TRUE]
                                 ELSE runs[r]]
      /\ inFlight' = [inFlight EXCEPT ![w] =
           [s \in Sims |-> IF inFlight[w][s] \in asleep THEN NoRun ELSE inFlight[w][s]]]
      /\ abortHandler' = abortHandler
      /\ abortHandler[w] = Resting
  BY DEF AbortInFlight
<1>2. \A r \in registered : r \in Runs /\ Live(r) /\ runs[r].worker = w
  BY DEF MapInv, InFlightIsLive, WorkerTypeOK
<1>3. ASSUME NEW r \in Runs \ asleep
      PROVE  /\ Live(r) <=> Live(r)'
             /\ runs'[r].pc = runs[r].pc
             /\ runs'[r].worker = runs[r].worker
             /\ runs'[r].sim = runs[r].sim
             /\ runs[r].aborted => runs'[r].aborted
             /\ Live(r) /\ r \notin registered => runs'[r].aborted = runs[r].aborted
  <2>1. CASE r \in registered
    <3>1. runs[r] \in Run
      BY <1>2, <2>1, RunShape
    <3>2. runs'[r] = [runs[r] EXCEPT !.aborted = TRUE]
      BY <1>1, <2>1
    <3> QED
      BY <2>1, <3>1, <3>2 DEF Live, Run, Free
  <2>2. CASE r \notin registered
    BY <1>1, <2>2 DEF Live
  <2> QED
    BY <2>1, <2>2
<1>4. InFlightIsLive'
  <2> SUFFICES ASSUME NEW v \in Workers, NEW s \in Sims, inFlight'[v][s] # NoRun
               PROVE  inFlight'[v][s] = inFlight[v][s] /\ inFlight[v][s] \in Runs \ asleep
    BY <1>3 DEF MapInv, InFlightIsLive, Live
  <2>1. CASE v = w
    BY <1>1, <2>1 DEF WorkerTypeOK
  <2>2. CASE v # w
    <3>1. inFlight'[v][s] = inFlight[v][s] /\ inFlight[v][s] \in Runs
      BY <1>1, <2>2 DEF WorkerTypeOK
    <3>2. runs[inFlight[v][s]].worker = v
      BY <3>1 DEF MapInv, InFlightIsLive
    <3> QED
      BY <1>2, <2>2, <3>1, <3>2
  <2> QED
    BY <2>1, <2>2
<1>5. DrainIsPrompt'
  <2>1. ASSUME NEW r \in Runs, Live(r)', runs'[r].aborted
        PROVE  runs'[r].pc # "sleep"
    <3>1. r \notin asleep
      BY <1>1, <2>1 DEF Live
    <3>2. CASE r \in registered
      BY <1>3, <3>1, <3>2
    <3>3. CASE r \notin registered
      BY <1>3, <2>1, <3>1, <3>3 DEF MapInv, DrainIsPrompt
    <3> QED
      BY <3>2, <3>3
  <2>2. ASSUME NEW v \in Workers, abortHandler[v].pc = "draining"
        PROVE  abortHandler[v].run \in Runs \ asleep
    <3>1. abortHandler[v].run \in Runs
      BY <2>2, HandlerShape DEF WorkerTypeOK, Draining
    <3>2. runs[abortHandler[v].run].pc # "sleep"
      BY <2>2, <3>1 DEF MapInv, DrainIsPrompt
    <3> QED
      BY <3>1, <3>2
  <2> QED
    BY <1>1, <1>3, <2>1, <2>2 DEF MapInv, DrainIsPrompt, Live
<1> QED
  BY <1>4, <1>5 DEF MapInv

-----------------------------------------------------------------------------
(* Every step. *)

LEMMA MapInvInit == Init => MapInv
BY DEF Init, WorkerInit, MapInv, InFlightIsLive, DrainIsPrompt, Live, Resting

LEMMA EngineKeepsMap ==
    ASSUME TypeOK, MapInv, NEW r \in Runs,
           Engine(r) \/ AwaitedRunFails(r) \/ UnawaitedRunFails(r)
    PROVE  MapInv'
<1> USE DEF TypeOK
<1>1. Live(r) /\ runs[r] \in Run /\ runs[r].worker \in Workers
  <2>1. Live(r)
    BY RunShape DEF Engine, Wake, WakeThrows, SaveRun, PublishAndExit, PublishAndSleep,
                    PublishAndFinish, PublishAndGoOn, AwaitedRunFails, UnawaitedRunFails
  <2> QED
    BY <2>1, RunShape DEF Run
<1>2. CASE Wake(r)
  <2> DEFINE run == [runs[r] EXCEPT !.copy = ApplyGoal(@), !.tick = @ + 1, !.pc = "save"]
  <2>1. /\ run # Free
        /\ run.worker = runs[r].worker
        /\ run.sim = runs[r].sim
        /\ run.aborted = runs[r].aborted
        /\ run.pc = "save"
    BY <1>1 DEF Run, Free
  <2>2. runs' = [runs EXCEPT ![r] = run] /\ UNCHANGED <<inFlight, abortHandler>>
    BY <1>2 DEF Wake
  <2> HIDE DEF run
  <2> QED
    BY <1>1, <2>1, <2>2, RunGoesOn
<1>3. CASE SaveRun(r)
  <2> DEFINE run == [runs[r] EXCEPT !.pc = "publish"]
  <2>1. /\ run # Free
        /\ run.worker = runs[r].worker
        /\ run.sim = runs[r].sim
        /\ run.aborted = runs[r].aborted
        /\ run.pc = "publish"
    BY <1>1 DEF Run, Free
  <2>2. runs' = [runs EXCEPT ![r] = run] /\ UNCHANGED <<inFlight, abortHandler>>
    BY <1>3 DEF SaveRun
  <2> HIDE DEF run
  <2> QED
    BY <1>1, <2>1, <2>2, RunGoesOn
<1>4. CASE PublishAndSleep(r)
  <2> DEFINE run == [runs[r] EXCEPT !.pc = "sleep"]
  <2>1. /\ run # Free
        /\ run.worker = runs[r].worker
        /\ run.sim = runs[r].sim
        /\ run.aborted = runs[r].aborted
    BY <1>1 DEF Run, Free
  <2>2. ~run.aborted
    BY <1>4, <2>1 DEF PublishAndSleep, PublishAndGoOn
  <2>3. runs' = [runs EXCEPT ![r] = run] /\ UNCHANGED <<inFlight, abortHandler>>
    BY <1>4 DEF PublishAndSleep
  <2> HIDE DEF run
  <2> QED
    BY <1>1, <2>1, <2>2, <2>3, RunGoesOn
<1>5. CASE PublishAndFinish(r)
  <2> DEFINE run == [runs[r] EXCEPT !.copy = Finish(@, now), !.pc = "save"]
  <2>1. /\ run # Free
        /\ run.worker = runs[r].worker
        /\ run.sim = runs[r].sim
        /\ run.aborted = runs[r].aborted
        /\ run.pc = "save"
    BY <1>1 DEF Run, Free
  <2>2. runs' = [runs EXCEPT ![r] = run] /\ UNCHANGED <<inFlight, abortHandler>>
    BY <1>5 DEF PublishAndFinish
  <2> HIDE DEF run
  <2> QED
    BY <1>1, <2>1, <2>2, RunGoesOn
<1>6. CASE PublishAndExit(r) \/ AwaitedRunFails(r)
  BY <1>1, <1>6, RunReturns DEF PublishAndExit, AwaitedRunFails
<1>7. CASE WakeThrows(r) \/ UnawaitedRunFails(r)
  BY <1>1, <1>7, WorkerDies DEF WakeThrows, UnawaitedRunFails
<1> QED
  BY <1>2, <1>3, <1>4, <1>5, <1>6, <1>7 DEF Engine

LEMMA HandlersKeepMap ==
    ASSUME TypeOK, MapInv, NEW w \in Workers,
           \/ TakeRun(w) \/ HandleRun(w) \/ DropAbort(w) \/ TakeAbort(w) \/ HandleAbort(w)
           \/ RunHandlerFails(w) \/ AbortHandlerFails(w)
    PROVE  MapInv'
<1> USE DEF TypeOK
<1>1. CASE TakeRun(w) \/ DropAbort(w) \/ RunHandlerFails(w)
  BY <1>1, MapUnmoved DEF TakeRun, DropAbort, RunHandlerFails, workerVars
<1>2. CASE BeginRun(w)
  <2>1. runHandler[w] \in Sims
    BY <1>2 DEF BeginRun, WorkerTypeOK
  <2>2. CASE rows[runHandler[w]] = NoRow
    BY <1>2, <2>2, MapUnmoved DEF BeginRun
  <2>3. CASE rows[runHandler[w]] # NoRow
    BY <1>2, <2>1, <2>3, RunBegins DEF BeginRun
  <2> QED
    BY <2>2, <2>3
<1>3. CASE BeginEmptyRun(w)
  <2>1. runHandler[w] \in Sims
    BY <1>3 DEF BeginEmptyRun, WorkerTypeOK
  <2> QED
    BY <1>3, <2>1, RunBegins DEF BeginEmptyRun
<1>4. CASE BeginThrows(w)
  BY <1>4, WorkerDies DEF BeginThrows
<1>5. CASE TakeAbort(w)
  BY <1>5, AbortIsHeard
<1>6. CASE HandleAbort(w) \/ AbortHandlerFails(w)
  <2>1. /\ UNCHANGED <<runs, inFlight>>
        /\ \A v \in Workers \ {w} : abortHandler'[v] = abortHandler[v]
        /\ abortHandler'[w].pc # "draining"
    <3>1. CASE AbortFind(w)
      BY <3>1 DEF AbortFind, WorkerTypeOK, Resting
    <3>2. CASE AbortSave(w)
      <4>1. abortHandler[w] \in Finishing
        BY <3>2, HandlerShape DEF AbortSave, WorkerTypeOK
      <4> QED
        BY <3>2, <4>1 DEF AbortSave, WorkerTypeOK, Finishing
    <3>3. CASE AbortPublish(w) \/ AbortHandlerFails(w)
      BY <3>3 DEF AbortPublish, AbortHandlerFails, WorkerTypeOK, Resting
    <3> QED
      BY <1>6, <3>1, <3>2, <3>3 DEF HandleAbort
  <2> QED
    BY <2>1 DEF MapInv, InFlightIsLive, DrainIsPrompt, Live
<1> QED
  BY <1>1, <1>2, <1>3, <1>4, <1>5, <1>6 DEF HandleRun

LEMMA ProcessesKeepMap ==
    ASSUME TypeOK, MapInv, NEW w \in Workers,
           Shutdown(w) \/ Stop(w) \/ Boot(w) \/ Crash(w)
    PROVE  MapInv'
<1> USE DEF TypeOK
<1>1. CASE Shutdown(w) \/ CloseAborts(w) \/ Boot(w)
  BY <1>1, MapUnmoved DEF Shutdown, CloseAborts, Boot
<1>2. CASE AbortInFlight(w)
  BY <1>2, AbortsAllInFlight
<1>3. CASE Drained(w) \/ Crash(w)
  BY <1>3, WorkerDies DEF Drained, Crash
<1> QED
  BY <1>1, <1>2, <1>3 DEF Stop

LEMMA MapInvStep == TypeOK /\ MapInv /\ [Next]_vars => MapInv'
<1> SUFFICES ASSUME TypeOK, MapInv, [Next]_vars PROVE MapInv'
  OBVIOUS
<1>1. CASE Tick /\ UNCHANGED <<req, workerVars>>
  BY <1>1, MapUnmoved DEF workerVars
<1>2. CASE OrchestratorNext
  BY <1>2, MapUnmoved DEF OrchestratorNext, workerVars
<1>3. CASE WorkerNext
  BY <1>3, EngineKeepsMap, HandlersKeepMap, ProcessesKeepMap DEF WorkerNext
<1>4. CASE UNCHANGED vars
  BY <1>4, MapUnmoved DEF vars, workerVars
<1> QED
  BY <1>1, <1>2, <1>3, <1>4 DEF Next

(* Whatever the clients do and whatever fails, an entry of an inFlight map *)
(* names a live run of that worker and simulation.                         *)
THEOREM MapCorrect == Spec => []InFlightIsLive
<1>1. MapInv => InFlightIsLive
  BY DEF MapInv
<1> QED
  BY <1>1, TypeCorrect, MapInvInit, MapInvStep, PTL DEF Spec

(* A handler of ABORT never waits for a run that is gone or asleep.        *)
THEOREM DrainCorrect == Spec => []DrainIsPrompt
<1>1. MapInv => DrainIsPrompt
  BY DEF MapInv
<1> QED
  BY <1>1, TypeCorrect, MapInvInit, MapInvStep, PTL DEF Spec

-----------------------------------------------------------------------------
(* Aborted runs. *)

(* r returns, or stays aborted and keeps its copy. *)
Over(r) ==
    \/ runs'[r] = Free
    \/ runs'[r].aborted /\ runs'[r].copy = runs[r].copy

LEMMA EngineRespectsAbort ==
    ASSUME TypeOK, DrainIsPrompt, NEW r \in Runs, Live(r), runs[r].aborted,
           NEW q \in Runs, Engine(q) \/ AwaitedRunFails(q) \/ UnawaitedRunFails(q)
    PROVE  Over(r)
<1> USE DEF TypeOK, WorkerTypeOK
<1>1. runs[r] \in Run /\ runs[r].pc # "sleep"
  BY RunShape DEF DrainIsPrompt
<1>2. CASE Wake(q) \/ PublishAndSleep(q) \/ PublishAndFinish(q)
  <2>1. q # r
    BY <1>1, <1>2 DEF Wake, PublishAndSleep, PublishAndFinish, PublishAndGoOn
  <2>2. runs'[r] = runs[r]
    BY <1>2, <2>1 DEF Wake, PublishAndSleep, PublishAndFinish
  <2> QED
    BY <2>2 DEF Over
<1>3. CASE SaveRun(q)
  <2>1. CASE q = r
    BY <1>1, <1>3, <2>1 DEF SaveRun, Over, Run
  <2>2. CASE q # r
    BY <1>3, <2>2 DEF SaveRun, Over
  <2> QED
    BY <2>1, <2>2
<1>4. CASE PublishAndExit(q) \/ AwaitedRunFails(q)
  BY <1>4 DEF PublishAndExit, AwaitedRunFails, Exit, Over
<1>5. CASE WakeThrows(q) \/ UnawaitedRunFails(q)
  BY <1>5 DEF WakeThrows, UnawaitedRunFails, Dies, Over
<1> QED
  BY <1>2, <1>3, <1>4, <1>5 DEF Engine

LEMMA WorkerRespectsAbort ==
    ASSUME TypeOK, InFlightIsLive, NEW r \in Runs, Live(r), runs[r].aborted, WorkerNext,
           \A q \in Runs : ~(Engine(q) \/ AwaitedRunFails(q) \/ UnawaitedRunFails(q))
    PROVE  Over(r)
<1> USE DEF TypeOK, WorkerTypeOK
<1>1. runs[r] \in Run
  BY RunShape
<1>2. ASSUME NEW w \in Workers, NEW s, NEW q \in Runs, NEW run, ~Live(q), Launch(w, s, q, run)
      PROVE  Over(r)
  BY <1>2 DEF Launch, Over
<1>3. ASSUME NEW w \in Workers, NEW job, Dies(w, job)
      PROVE  Over(r)
  BY <1>3 DEF Dies, Over
<1>4. PICK w \in Workers :
        \/ TakeRun(w) \/ HandleRun(w) \/ DropAbort(w) \/ TakeAbort(w) \/ HandleAbort(w)
        \/ Shutdown(w) \/ Stop(w) \/ Boot(w) \/ Crash(w)
        \/ RunHandlerFails(w) \/ AbortHandlerFails(w)
  BY DEF WorkerNext
<1>5. CASE UNCHANGED runs
  BY <1>5 DEF Over
<1>6. CASE TakeRun(w) \/ DropAbort(w) \/ HandleAbort(w) \/ Shutdown(w) \/ CloseAborts(w)
           \/ Boot(w) \/ RunHandlerFails(w) \/ AbortHandlerFails(w)
  BY <1>5, <1>6 DEF TakeRun, DropAbort, HandleAbort, AbortFind, AbortSave, AbortPublish,
                    Shutdown, CloseAborts, Boot, RunHandlerFails, AbortHandlerFails, workerVars
<1>7. CASE HandleRun(w)
  BY <1>2, <1>3, <1>5, <1>7 DEF HandleRun, BeginRun, BeginEmptyRun, BeginThrows
<1>8. CASE TakeAbort(w)
  <2> DEFINE q == Target(w)
  <2>1. CASE runs[q].pc = "sleep"
    <3>1. runs' = [runs EXCEPT ![q] = Free]
      BY <1>8, <2>1 DEF TakeAbort
    <3> QED
      BY <3>1 DEF Over
  <2>2. CASE runs[q].pc # "sleep"
    <3>1. runs' = [runs EXCEPT ![q].aborted = TRUE]
      BY <1>8, <2>2 DEF TakeAbort
    <3> QED
      BY <1>1, <3>1 DEF Over, Run
  <2> QED
    BY <2>1, <2>2
<1>9. CASE AbortInFlight(w)
  <2>1. runs'[r] \in {Free, runs[r], [runs[r] EXCEPT !.aborted = TRUE]}
    BY <1>9 DEF AbortInFlight
  <2> QED
    BY <1>1, <2>1 DEF Over, Run
<1>10. CASE Drained(w) \/ Crash(w)
  BY <1>3, <1>10 DEF Drained, Crash
<1> QED
  BY <1>4, <1>6, <1>7, <1>8, <1>9, <1>10 DEF Stop

(* A run that was aborted scores no goal and finishes nothing any more.    *)
THEOREM AbortIsFinal == Spec => AbortedRunsAreOver
<1> DEFINE A == \A r \in Runs : Live(r) /\ runs[r].aborted => Over(r)
<1>1. TypeOK /\ MapInv /\ [Next]_vars => [A]_vars
  <2> SUFFICES ASSUME TypeOK, MapInv, Next,
                      NEW r \in Runs, Live(r), runs[r].aborted
               PROVE  Over(r)
    OBVIOUS
  <2>1. CASE WorkerNext
    <3>1. CASE \E q \in Runs : Engine(q) \/ AwaitedRunFails(q) \/ UnawaitedRunFails(q)
      BY <3>1, EngineRespectsAbort DEF MapInv
    <3>2. CASE \A q \in Runs : ~(Engine(q) \/ AwaitedRunFails(q) \/ UnawaitedRunFails(q))
      BY <2>1, <3>2, WorkerRespectsAbort DEF MapInv
    <3> QED
      BY <3>1, <3>2
  <2>2. CASE ~WorkerNext
    BY <2>2 DEF Next, OrchestratorNext, workerVars, Over
  <2> QED
    BY <2>1, <2>2
<1>2. Spec => [][A]_vars
  BY <1>1, TypeCorrect, MapInvInit, MapInvStep, PTL DEF Spec
<1> QED
  BY <1>2 DEF AbortedRunsAreOver, Over

=============================================================================
