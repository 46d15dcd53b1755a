--------------------------- MODULE UpsdAgentProofs --------------------------
(***************************************************************************)
(* The supervisor gives up futile plugins, the composed system is one of   *)
(* its behaviours, and a crash or a refused line ends the last process.    *)
(***************************************************************************)
EXTENDS UpsdAgent, TLAPS

\* A plugin that is about to run, or running, and has never collected anything
\* still has a run left.
WorkerInv ==
    /\ WorkerTypeOK
    /\ FutileGivenUp

\* The supervisor starts with the invariant.
LEMMA WorkerInvInit == WorkerInit => WorkerInv
<1> SUFFICES ASSUME WorkerInit PROVE WorkerInv
  OBVIOUS
<1>1. serial_failures \in 0..SERIAL_FAILURES_THRESHOLD + 1
      /\ ~(serial_failures > SERIAL_FAILURES_THRESHOLD)
  BY ThresholdAssumption DEF WorkerInit
<1>2. enabled \in BOOLEAN /\ collected \in BOOLEAN /\ successful \in BOOLEAN
  BY Zenon DEF WorkerInit
<1> QED BY <1>1, <1>2, Zenon DEF WorkerInit, WorkerInv, WorkerTypeOK, FutileGivenUp

\* Each step of the supervisor keeps it: only ProcessEnds counts, and it leads to
\* "reap"; only Reap leads back to "spawn", and there both handlers compare.
LEMMA WorkerInvStep == WorkerInv /\ [WorkerNext]_workerVars => WorkerInv'
<1> SUFFICES ASSUME WorkerInv, [WorkerNext]_workerVars PROVE WorkerInv'
  OBVIOUS
<1> USE ThresholdAssumption DEF WorkerInv, WorkerTypeOK, FutileGivenUp
<1>1. CASE spawn_popen_run
  BY <1>1 DEF spawn_popen_run
<1>2. CASE SpawnFails
  BY <1>2 DEF SpawnFails
<1>3. CASE CountCollection
  BY <1>3 DEF CountCollection
<1>4. ASSUME NEW accepted \in BOOLEAN, ProcessEnds(accepted) PROVE WorkerInv'
  <2>1. thread' = "reap" /\ enabled' \in BOOLEAN /\ collected' \in BOOLEAN
    BY <1>4 DEF ProcessEnds
  <2>2. successful' \in BOOLEAN
    BY <1>4, Zenon DEF ProcessEnds
  <2>3. CASE collected
    BY <1>4, <2>1, <2>2, <2>3 DEF ProcessEnds
  <2>4. CASE ~collected /\ serial_failures > SERIAL_FAILURES_THRESHOLD
    BY <1>4, <2>1, <2>2, <2>4 DEF ProcessEnds
  <2>5. CASE ~collected /\ ~(serial_failures > SERIAL_FAILURES_THRESHOLD)
    BY <1>4, <2>1, <2>2, <2>5 DEF ProcessEnds
  <2> QED BY <2>3, <2>4, <2>5
<1>5. ASSUME NEW ret \in Status, Reap(ret) PROVE WorkerInv'
  <2>1. UNCHANGED <<collected, successful, serial_failures>>
    BY <1>5 DEF Reap
  <2>2. enabled' \in BOOLEAN
    BY <1>5, Zenon DEF Reap, HandleSuccess, HandleError
  <2>3. CASE enabled'
    <3>1. thread' = "spawn"
      BY <1>5, <2>3 DEF Reap
    <3>2. HandleSuccess \/ HandleError(ret)
      BY <1>5, <2>3, Zenon DEF Reap
    <3>3. successful \/ serial_failures =< SERIAL_FAILURES_THRESHOLD
      BY <3>2 DEF HandleSuccess, HandleError
    <3> QED BY <2>1, <2>2, <3>1, <3>3
  <2>4. CASE ~enabled'
    <3>1. thread' = "gone"
      BY <1>5, <2>4 DEF Reap
    <3> QED BY <2>1, <2>2, <3>1
  <2> QED BY <2>3, <2>4
<1>6. CASE UNCHANGED workerVars
  BY <1>6 DEF workerVars
<1> QED BY <1>1, <1>2, <1>3, <1>4, <1>5, <1>6 DEF WorkerNext

\* The supervisor's variables have their types.
THEOREM WorkerTypeCorrect == WorkerSpec => []WorkerTypeOK
<1>1. WorkerInv => WorkerTypeOK BY DEF WorkerInv
<1> QED BY WorkerInvInit, WorkerInvStep, <1>1, PTL DEF WorkerSpec

\* For every threshold, a plugin that never collected anything is not run more
\* than SERIAL_FAILURES_THRESHOLD + 1 times (handle_success, handle_error).
THEOREM FutileAlwaysGivenUp == WorkerSpec => []FutileGivenUp
<1>1. WorkerInv => FutileGivenUp BY DEF WorkerInv
<1> QED BY WorkerInvInit, WorkerInvStep, <1>1, PTL DEF WorkerSpec

-----------------------------------------------------------------------------
\* A process runs only between spawn and reap, one that ended has a status, and
\* the statuses and lines that end the plugin for good have done so.
SystemInv ==
    /\ exit \in ExitCodes \cup {"SIGTERM"}
    /\ thread \in {"spawn", "gone"} => pc = "exit"
    /\ thread \in {"reading", "reap"} /\ pc = "exit" => exit # "none"
    /\ exit = "SIGSEGV" => pc = "exit" /\ thread # "spawn"
    /\ rejected # NoLine => thread \in {"reap", "gone"} /\ ~enabled

\* No process and no refused line at the start.
LEMMA SystemInvInit == SystemInit => SystemInv
BY Zenon DEF SystemInit, SystemInv, WorkerInit, ExitCodes

\* A step of the plugin's process: it was running, and when it ends it has a
\* status of its own.
LEMMA PluginStepExit ==
    PluginStep => /\ pc # "exit" /\ UNCHANGED agentVars
                  /\ \/ UNCHANGED exit /\ pc' # "exit"
                     \/ pc' = "exit" /\ exit' \in ExitCodes \ {"none"}
<1> SUFFICES ASSUME PluginStep
             PROVE  /\ pc # "exit" /\ UNCHANGED agentVars
                    /\ \/ UNCHANGED exit /\ pc' # "exit"
                       \/ pc' = "exit" /\ exit' \in ExitCodes \ {"none"}
  OBVIOUS
<1>0. UNCHANGED agentVars
  BY Zenon DEF PluginStep
<1>1. CASE QueryFails \/ FlushFails \/ Teardown
  BY <1>0, <1>1 DEF QueryFails, FlushFails, Teardown, Exit, ExitCodes
<1>2. CASE ListStart \/ ListEnd \/ RegisterEnd \/ SendEnd \/ SweepEnd \/ Flush
  BY <1>0, <1>2 DEF ListStart, ListEnd, RegisterEnd, SendEnd, SweepEnd, Flush, control
<1>3. CASE SendStatus
  BY <1>0, <1>3 DEF SendStatus, Exit, ExitCodes
<1>4. CASE SendRealpower
  BY <1>0, <1>4 DEF SendRealpower
<1>5. ASSUME NEW n \in UPS, ListNext(n) \/ Sweep(n)
      PROVE  pc # "exit" /\ UNCHANGED exit /\ pc' # "exit"
  <2>1. CASE ListNext(n)
    BY <2>1 DEF ListNext, RegisterBegin
  <2>2. CASE Sweep(n)
    BY <2>2 DEF Sweep, control
  <2> QED BY <1>5, <2>1, <2>2
<1>6. ASSUME NEW v \in Charts, RegisterChart(v)
      PROVE  pc # "exit" /\ UNCHANGED exit /\ pc' # "exit"
  BY <1>6 DEF RegisterChart, control
<1>7. ASSUME NEW v \in Charts, SendVar(v)
      PROVE  /\ pc # "exit"
             /\ \/ UNCHANGED exit /\ pc' # "exit"
                \/ pc' = "exit" /\ exit' \in ExitCodes \ {"none"}
  BY <1>7 DEF SendVar, Exit, ExitCodes
<1> QED BY <1>0, <1>1, <1>2, <1>3, <1>4, <1>5, <1>6, <1>7, Zenon DEF PluginStep, FlushReturns

\* Each step of the whole keeps the invariant.  In HandleExit a crash has the
\* status -1, which handle_error always disables; a refused line has cleared
\* enabled already.
LEMMA SystemInvStep == SystemInv /\ [SystemNext]_systemVars => SystemInv'
<1> SUFFICES ASSUME SystemInv, [SystemNext]_systemVars PROVE SystemInv'
  OBVIOUS
<1> USE DEF SystemInv
<1>1. CASE Spawn
  BY <1>1 DEF Spawn, spawn_popen_run, ExitCodes
<1>2. CASE NoSpawn
  BY <1>2 DEF NoSpawn, SpawnFails, vars, control
<1>3. CASE PluginStep
  <2>1. UNCHANGED <<thread, enabled, rejected>> /\ pc # "exit"
    BY <1>3, PluginStepExit DEF agentVars, workerVars
  <2>2. CASE UNCHANGED exit /\ pc' # "exit"
    BY <2>1, <2>2
  <2>3. CASE pc' = "exit" /\ exit' \in ExitCodes \ {"none"}
    BY <2>1, <2>3 DEF ExitCodes
  <2> QED BY <1>3, <2>2, <2>3, PluginStepExit
<1>4. CASE Write
  BY <1>4 DEF Write, vars, control, agentVars, workerVars
<1>5. CASE ReadLine
  <2>1. UNCHANGED <<pc, exit>> /\ thread = "reading"
    BY <1>5 DEF ReadLine, vars, control
  <2>2. \/ CountCollection /\ UNCHANGED rejected
        \/ UNCHANGED workerVars /\ UNCHANGED rejected
        \/ ProcessEnds(FALSE)
    BY <1>5, Zenon DEF ReadLine
  <2>3. CASE ProcessEnds(FALSE)
    BY <2>1, <2>3 DEF ProcessEnds
  <2>4. CASE UNCHANGED <<thread, enabled, rejected>>
    BY <2>1, <2>4
  <2> QED BY <2>2, <2>3, <2>4 DEF CountCollection, workerVars
<1>6. CASE EndOfFile \/ ReadTimeout
  BY <1>6 DEF EndOfFile, ReadTimeout, ReadEnds, ProcessEnds, vars, control
<1>7. CASE Terminate
  BY <1>7 DEF Terminate, agentVars, workerVars
<1>8. CASE HandleExit
  <2>1. UNCHANGED <<pc, exit, rejected>> /\ pc = "exit" /\ thread = "reap"
    BY <1>8 DEF HandleExit, Reap, vars, control
  <2>2. exit = "SIGSEGV" => ~enabled'
    <3>1. SUFFICES ASSUME exit = "SIGSEGV" PROVE ~enabled'
      OBVIOUS
    <3>2. spawn_popen_status_rc = -1
      BY <3>1 DEF spawn_popen_status_rc
    <3>3. spawn_popen_status_rc # 0
      BY <3>2
    <3>4. ~HandleError(spawn_popen_status_rc)
      BY <3>2, Zenon DEF HandleError
    <3>5. enabled' = (enabled /\ HandleError(spawn_popen_status_rc))
      BY <1>8, <3>3, Zenon DEF HandleExit, Reap
    <3> QED BY <3>4, <3>5, Zenon
  <2>3. ~enabled => ~enabled'
    BY <1>8, Zenon DEF HandleExit, Reap
  <2>4. thread' = IF enabled' THEN "spawn" ELSE "gone"
    BY <1>8, Zenon DEF HandleExit, Reap
  <2> QED BY <2>1, <2>2, <2>3, <2>4
<1>9. CASE UNCHANGED systemVars
  BY <1>9 DEF systemVars, vars, control, agentVars, workerVars
<1>10. CASE DeleteChart
  BY <1>10 DEF DeleteChart, vars, control, workerVars
<1> QED BY <1>1, <1>2, <1>3, <1>4, <1>5, <1>6, <1>7, <1>8, <1>9, <1>10 DEF SystemNext

\* For every upsd and every pipe, a process that crashed or whose output was
\* refused is the last one (spawn_popen_status_rc, handle_error,
\* PLUGINSD_DISABLE_PLUGIN).
THEOREM LastProcessFinal == SystemSpec => LastProcess
<1>1. SystemInv => [exit = "SIGSEGV" \/ rejected # NoLine => ~RunsAgain]_systemVars
  BY DEF SystemInv, RunsAgain
<1> QED BY <1>1, SystemInvInit, SystemInvStep, PTL DEF SystemSpec, LastProcess

-----------------------------------------------------------------------------
\* Each step of the whole is a step of the supervisor or leaves it alone.
LEMMA SystemStepIsWorkerStep ==
    SystemInv /\ [SystemNext]_systemVars => [WorkerNext]_workerVars
<1> SUFFICES ASSUME SystemInv, [SystemNext]_systemVars PROVE [WorkerNext]_workerVars
  OBVIOUS
<1>1. CASE Spawn
  BY <1>1 DEF Spawn, WorkerNext
<1>2. CASE NoSpawn
  BY <1>2 DEF NoSpawn, WorkerNext
<1>3. CASE PluginStep
  <2>1. UNCHANGED agentVars
    BY <1>3, Zenon DEF PluginStep
  <2> QED BY <2>1 DEF agentVars
<1>4. CASE Write
  <2>1. UNCHANGED agentVars
    BY <1>4, Zenon DEF Write
  <2> QED BY <2>1 DEF agentVars
<1>5. CASE ReadLine
  <2>1. CountCollection \/ UNCHANGED workerVars \/ ProcessEnds(FALSE)
    BY <1>5, Zenon DEF ReadLine
  <2> QED BY <2>1 DEF WorkerNext
<1>6. CASE EndOfFile \/ ReadTimeout
  <2>1. ProcessEnds(TRUE)
    BY <1>6, Zenon DEF EndOfFile, ReadTimeout, ReadEnds
  <2> QED BY <2>1 DEF WorkerNext
<1>7. CASE Terminate
  <2>1. UNCHANGED agentVars
    BY <1>7, Zenon DEF Terminate
  <2> QED BY <2>1 DEF agentVars
<1>8. CASE HandleExit
  <2>1. Reap(spawn_popen_status_rc) /\ pc = "exit"
    BY <1>8, Zenon DEF HandleExit
  <2>2. exit \in {"EXIT_AND_RESTART", "SIGTERM", "EXIT_AND_DISABLE", "SIGSEGV"}
    BY <2>1 DEF SystemInv, ExitCodes, Reap
  <2>3. spawn_popen_status_rc \in Status
    BY <2>2 DEF spawn_popen_status_rc, Status
  <2> QED BY <2>1, <2>3 DEF WorkerNext
<1>9. CASE UNCHANGED systemVars
  BY <1>9 DEF systemVars, agentVars
<1>10. CASE DeleteChart
  BY <1>10, Zenon DEF DeleteChart
<1> QED BY <1>1, <1>2, <1>3, <1>4, <1>5, <1>6, <1>7, <1>8, <1>9, <1>10 DEF SystemNext

\* Seen through the supervisor's variables the whole is a run of the supervisor:
\* the plugin, the pipe and the parser make it do nothing else.
THEOREM SystemIsWorker == SystemSpec => WorkerSpec
<1>1. SystemInit => WorkerInit BY DEF SystemInit
<1> QED BY <1>1, SystemInvInit, SystemInvStep, SystemStepIsWorkerStep, PTL
        DEF SystemSpec, WorkerSpec

\* So the whole gives futile plugins up, for every upsd, pipe and threshold.
THEOREM SystemGivesUp == SystemSpec => []FutileGivenUp
BY SystemIsWorker, FutileAlwaysGivenUp, PTL
=============================================================================
