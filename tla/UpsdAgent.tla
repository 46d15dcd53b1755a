----------------------------- MODULE UpsdAgent ------------------------------
(***************************************************************************)
(* The plugin under the agent: processes of UpsdPlugin, one after the      *)
(* other, whose standard output is a block-buffered pipe read by           *)
(* PluginsdParser in the thread of PluginSupervisor.                       *)
(*                                                                         *)
(* The agent ignores SIGPIPE before it makes its spawn server, and a       *)
(* program it runs inherits that, so the plugin sees a closed pipe as      *)
(* EPIPE.  Where SIGPIPE kills the plugin instead, the supervisor counts   *)
(* that as it counts SIGTERM, and Terminate covers it.                     *)
(***************************************************************************)
EXTENDS UpsdPlugin, PluginSupervisor, PluginsdParser

CONSTANT PipeSize     \* lines the pipe holds

ASSUME PipeAssumption == PipeSize \in Nat \ {0}

ASSUME NoChartAssumption == NoChart \notin ChartIds

VARIABLES
    out,        \* lines printed and not read yet
    written,    \* how many of them are in the pipe; the others are in stdout's buffer
    rejected    \* the line the parser stopped at

pipe       == <<out, written>>
agentVars  == <<workerVars, parserVars, rejected>>
systemVars == <<vars, pipe, agentVars>>

Line(keyword, chart) == [keyword |-> keyword, chart |-> chart]
NoLine == Line("none", NoChart)

\* What register_ups prints for a chart, and the block that updates it.
ChartLines(chart)  == <<Line("CHART", chart), Line("DIMENSION", chart)>>
MetricLines(chart) == <<Line("BEGIN", chart), Line("SET", chart), Line("END", chart)>>

Prints(lines) == out' = out \o lines /\ UNCHANGED written

\* The lines of a step that registers a chart, if it does.
PrintsChart(chart, registers) == Prints(IF registers THEN ChartLines(chart) ELSE <<>>)

\* The lines of a step that sends a metric.  A process killed by SIGSEGV loses
\* what is in its buffer.
PrintsMetric(chart) ==
    IF exit' = "SIGSEGV"
    THEN out' = SubSeq(out, 1, written) /\ UNCHANGED written
    ELSE Prints(IF begun' = begun THEN <<>> ELSE MetricLines(chart))

-----------------------------------------------------------------------------
\* No process yet.
SystemInit ==
    /\ pc = "exit" /\ exit = "none" /\ started = FALSE
    /\ listing = {} /\ pending = {} /\ ups_name = <<>>
    /\ nd_ups_name = Empty /\ nd_ups_vars = Empty /\ nd_ups_seen = Empty
    /\ ups_vars = {} /\ todo = {} /\ sweep = {}
    /\ defined = {} /\ begun = [c \in ChartIds |-> 0]
    /\ WorkerInit /\ ParserInit
    /\ out = <<>> /\ written = 0 /\ rejected = NoLine

\* The supervisor runs the plugin: a new process, a new parser.  The charts are
\* those the processes before have left.
Spawn ==
    /\ spawn_popen_run
    /\ pc' = "start" /\ exit' = "none" /\ started' = FALSE
    /\ listing' = {} /\ pending' = {} /\ ups_name' = <<>>
    /\ nd_ups_name' = Empty /\ nd_ups_vars' = Empty /\ nd_ups_seen' = Empty
    /\ ups_vars' = {} /\ todo' = {} /\ sweep' = {}
    /\ defined' = {} /\ begun' = [c \in ChartIds |-> 0]
    /\ out' = <<>> /\ written' = 0
    /\ UNCHANGED <<parserVars, rejected>>

NoSpawn == SpawnFails /\ UNCHANGED <<vars, pipe, parserVars, rejected>>

\* Slip: the cycle ends without an fflush.
FlushReturns_Early == (Flush \/ (pc = "flush" /\ Teardown)) /\ UNCHANGED pipe

\* fflush returns when all is written.
FlushReturns ==
    /\ written = Len(out)
    /\ Flush \/ (pc = "flush" /\ Teardown)
    /\ UNCHANGED pipe

\* The steps of the plugin with what they print.  fflush fails when the agent has
\* closed the pipe.
PluginStep ==
    /\ \/ (QueryFails \/ ListStart \/ ListEnd \/ RegisterEnd \/ SendEnd) /\ UNCHANGED pipe
       \/ (SweepEnd \/ \E n \in UPS : Sweep(n)) /\ UNCHANGED pipe
       \/ pc = "wait" /\ Teardown /\ UNCHANGED pipe
       \/ \E n \in UPS :
            ListNext(n) /\ PrintsChart(<<clean_name(n), "status">>, pc' = "register")
       \/ \E v \in Charts :
            \/ RegisterChart(v)
               /\ PrintsChart(<<nd_ups_name[ups_name], v>>, ups_vars' # ups_vars)
            \/ SendVar(v) /\ PrintsMetric(<<nd_ups_name[ups_name], v>>)
       \/ SendStatus /\ PrintsMetric(<<nd_ups_name[ups_name], "status">>)
       \/ SendRealpower /\ PrintsMetric(<<nd_ups_name[ups_name], "ups.realpower">>)
       \/ thread = "reap" /\ FlushFails /\ UNCHANGED pipe
       \/ FlushReturns
    /\ UNCHANGED agentVars

\* write(2) of stdout's buffer: when it is full, in fflush, in exit().
Write ==
    /\ thread = "reading"
    /\ written < Len(out) /\ written < PipeSize
    /\ written' = written + 1
    /\ UNCHANGED <<vars, out, agentVars>>

\* Slip: only exit() empties the buffer for sure.
MustWrite_AtExit == pc = "exit" /\ Write

MustWrite == pc \in {"flush", "exit"} /\ Write

\* The parser takes the next line: it is accepted, or it is the last one.
ReadLine ==
    /\ thread = "reading"
    /\ written > 0
    /\ out' = Tail(out) /\ written' = written - 1
    /\ LET line == Head(out) IN
       \/ /\ Accepts(line)
          /\ parser_action(line)
          /\ IF line.keyword = "END" THEN CountCollection ELSE UNCHANGED workerVars
          /\ UNCHANGED rejected
       \/ /\ ~Accepts(line)
          /\ ProcessEnds(FALSE)
          /\ rejected' = line
          /\ MarkObsolete
    /\ UNCHANGED vars

\* End of file, or nothing to read for two minutes.
ReadEnds ==
    /\ written = 0
    /\ pc = "exit" => out = <<>>
    /\ ProcessEnds(TRUE)
    /\ MarkObsolete
    /\ UNCHANGED <<vars, pipe, rejected>>

EndOfFile == pc = "exit" /\ ReadEnds
ReadTimeout == pc # "exit" /\ ReadEnds

\* Slip: the supervisor waits for a process that does not end.
Terminate_Waits == FALSE /\ UNCHANGED systemVars

\* The pipe is closed and a process that does not end in three seconds is
\* terminated.
Terminate ==
    /\ thread = "reap" /\ pc # "exit"
    /\ pc' = "exit" /\ exit' = "SIGTERM"
    /\ UNCHANGED <<started, query, registry, loops, sweep, stdout, pipe, agentVars>>

spawn_popen_status_rc ==
    CASE exit \in {"EXIT_AND_RESTART", "SIGTERM"} -> 0
      [] exit = "EXIT_AND_DISABLE" -> 1
      [] exit = "SIGSEGV" -> -1

HandleExit ==
    /\ pc = "exit"
    /\ Reap(spawn_popen_status_rc)
    /\ UNCHANGED <<vars, pipe, parserVars, rejected>>

\* The agent's service thread deletes an old chart.
DeleteChart ==
    /\ \E c \in ChartIds : svc_rrdhost_cleanup_charts_marked_obsolete(c)
    /\ UNCHANGED <<vars, pipe, workerVars, rejected>>

SystemNext ==
    \/ Spawn \/ NoSpawn \/ PluginStep \/ Write \/ ReadLine
    \/ EndOfFile \/ ReadTimeout \/ Terminate \/ HandleExit \/ DeleteChart

SystemSpec == SystemInit /\ [][SystemNext]_systemVars

\* The plugin's thread and the agent's run; a write is only certain in fflush
\* and in exit(); nobody has to time out.
SystemFairSpec ==
    /\ SystemSpec
    /\ WF_systemVars(PluginStep)
    /\ WF_systemVars(MustWrite)
    /\ WF_systemVars(Spawn \/ NoSpawn \/ ReadLine \/ EndOfFile \/ Terminate \/ HandleExit)

-----------------------------------------------------------------------------
\* Whatever upsd answers and wherever an earlier process was cut off, the agent
\* refuses no line but one of load_usage, the one chart that is sent without a
\* look at what was registered (send_metric_ups_realpower): its BEGIN, or its SET
\* when the process before ended between CHART and DIMENSION.  No other SET falls
\* outside its chart and no other chart is updated before the agent has it.
RejectsOnlyLoadUsage ==
    rejected # NoLine =>
      rejected.keyword \in {"BEGIN", "SET"} /\ rejected.chart[2] = "ups.realpower"

RunsAgain == thread = "spawn" /\ thread' = "reading"

\* A process that crashed or whose output was refused is the last one, whatever
\* it had collected (spawn_popen_status_rc, handle_error, PLUGINSD_DISABLE_PLUGIN).
LastProcess ==
    [][exit = "SIGSEGV" \/ rejected # NoLine => ~RunsAgain]_systemVars

\* A plugin that exits with 1 is not run again.
DisableExitFinal == [][exit = "EXIT_AND_DISABLE" => ~RunsAgain]_systemVars

\* A plugin that ends, or that is not read any more, is noticed, ended if need
\* be, and decided upon (pluginsd_worker_thread).
EndNoticed ==
    (pc = "exit" \/ thread = "reap") ~> thread \in {"spawn", "gone"}

\* A plugin that leaves with EXIT_AND_RESTART (each 14400 seconds) after it
\* collected something runs again, unless the rest of its output is refused or
\* no process can be made.
Restarted ==
    (exit = "EXIT_AND_RESTART" /\ (collected \/ successful))
      ~> (pc = "start" \/ rejected # NoLine \/ (thread = "gone" /\ enabled))
=============================================================================
