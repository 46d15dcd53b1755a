-------------------------- MODULE PluginSupervisor --------------------------
(***************************************************************************)
(* The agent's worker thread for one external plugin (plugins_d.c): it     *)
(* runs the plugin, reads it until it stops, and decides from the exit     *)
(* status and from what was collected whether to run it again.             *)
(*                                                                         *)
(* Names begin with Worker where UpsdPlugin has the plain ones, because    *)
(* module UpsdAgent extends both.  The agent itself keeps running.         *)
(***************************************************************************)
EXTENDS Integers

CONSTANT SERIAL_FAILURES_THRESHOLD   \* 10 in plugins_d.c

ASSUME ThresholdAssumption == SERIAL_FAILURES_THRESHOLD \in Nat

VARIABLES
    thread,          \* "spawn", "reading", "reap" (waiting for the exit status) or "gone"
    enabled,         \* cd->unsafe.enabled
    collected,       \* data_collections_count of this run is not 0
    successful,      \* cd->successful_collections is not 0
    serial_failures  \* runs in a row that collected nothing

workerVars == <<thread, enabled, collected, successful, serial_failures>>

\* Exit statuses as spawn_popen_status_rc returns them: the code of a process
\* that exited (any but 0 is treated alike), 0 for SIGTERM, -1 for other signals.
Status == {0, 1, -1}

WorkerInit ==
    /\ thread = "spawn" /\ enabled = TRUE
    /\ collected = FALSE /\ successful = FALSE /\ serial_failures = 0

spawn_popen_run ==
    /\ thread = "spawn"
    /\ thread' = "reading"
    /\ collected' = FALSE
    /\ UNCHANGED <<enabled, successful, serial_failures>>

\* The thread ends; the directory scan finds the plugin's entry and leaves it.
SpawnFails ==
    /\ thread = "spawn"
    /\ thread' = "gone"
    /\ UNCHANGED <<enabled, collected, successful, serial_failures>>

\* pluginsd_end counts a collection.
CountCollection ==
    /\ thread = "reading"
    /\ collected' = TRUE
    /\ UNCHANGED <<thread, enabled, successful, serial_failures>>

\* The end of pluginsd_process: end of file, a read timeout, or a line the parser
\* does not accept, after which the plugin is disabled.  serial_failures is only
\* compared with the threshold, so counting stops above it.
ProcessEnds(accepted) ==
    /\ thread = "reading"
    /\ thread' = "reap"
    /\ enabled' = accepted
    /\ successful' = (successful \/ collected)
    /\ serial_failures' = IF collected THEN 0
                          ELSE IF serial_failures > SERIAL_FAILURES_THRESHOLD THEN serial_failures
                          ELSE serial_failures + 1
    /\ UNCHANGED collected

\* Slips: no limit for a plugin that reports success; success ends it.
HandleSuccess_NoLimit == TRUE
HandleSuccess_Ends == FALSE

\* pluginsd_worker_thread_handle_success leaves the plugin enabled.
HandleSuccess == successful \/ serial_failures =< SERIAL_FAILURES_THRESHOLD

\* pluginsd_worker_thread_handle_error leaves the plugin enabled.
HandleError(ret) ==
    ret # -1 /\ successful /\ serial_failures =< SERIAL_FAILURES_THRESHOLD

\* Slip: the handlers forget that the parser has disabled the plugin.
Reap_Forgets(ret) ==
    /\ thread = "reap"
    /\ enabled' = IF ret = 0 THEN HandleSuccess ELSE HandleError(ret)
    /\ thread' = IF enabled' THEN "spawn" ELSE "gone"
    /\ UNCHANGED <<collected, successful, serial_failures>>

\* The status is there: the handlers, and the test that leaves the loop.
Reap(ret) ==
    /\ thread = "reap"
    /\ enabled' = (enabled /\ IF ret = 0 THEN HandleSuccess ELSE HandleError(ret))
    /\ thread' = IF enabled' THEN "spawn" ELSE "gone"
    /\ UNCHANGED <<collected, successful, serial_failures>>

WorkerNext ==
    \/ spawn_popen_run \/ SpawnFails \/ CountCollection
    \/ \E accepted \in BOOLEAN : ProcessEnds(accepted)
    \/ \E ret \in Status : Reap(ret)

WorkerSpec == WorkerInit /\ [][WorkerNext]_workerVars

-----------------------------------------------------------------------------
\* Types of the variables, and that serial_failures counts runs that ended.
WorkerTypeOK ==
    /\ thread \in {"spawn", "reading", "reap", "gone"}
    /\ enabled \in BOOLEAN /\ collected \in BOOLEAN /\ successful \in BOOLEAN
    /\ serial_failures \in 0..SERIAL_FAILURES_THRESHOLD + 1

\* A plugin that never collected anything is given up after at most
\* SERIAL_FAILURES_THRESHOLD + 1 runs; it is not run once more, whatever it
\* returns (handle_success and handle_error).
FutileGivenUp ==
    serial_failures > SERIAL_FAILURES_THRESHOLD /\ ~successful
      => thread \in {"reap", "gone"}
=============================================================================
