-------------------------- MODULE UpsdCycleProofs ---------------------------
(***************************************************************************)
(* A cycle that was flushed is not lost, however the process ends.         *)
(***************************************************************************)
EXTENDS UpsdAgentCycles, UpsdPipeProofs

\* The lines that are due are printed, and in the pipe once fflush has returned.
DueInv ==
    /\ due \in Nat
    /\ thread # "reading" => due = 0
    /\ thread = "reading" => due =< Len(out) /\ (pc # "flush" => due =< written)

\* The history variable adds no step.
LEMMA CycleStepIsSystemStep == [CycleNext]_cycleVars => [SystemNext]_systemVars
<1> SUFFICES ASSUME [CycleNext]_cycleVars PROVE [SystemNext]_systemVars
    OBVIOUS
<1>1. CASE UNCHANGED cycleVars
    BY <1>1 DEF cycleVars
<1>2. CASE CycleNext
    BY <1>2, Zenon DEF CycleNext, SpawnC, NoSpawnC, PluginStepC, WriteC, ReadLineC, EndOfFileC,
                       ReadTimeoutC, TerminateC, HandleExitC, DeleteChartC, SystemNext
<1> QED
    BY <1>1, <1>2

\* So what is proved of UpsdAgent holds here.
LEMMA CyclesAreOfSystem == CycleSpec => SystemSpec
<1>1. CycleInit => SystemInit
    BY DEF CycleInit
<1> QED
    BY <1>1, CycleStepIsSystemStep, PTL DEF CycleSpec, SystemSpec

-----------------------------------------------------------------------------
\* Lines are added and never taken back, except that a process that is killed in
\* a cycle loses what it had not written; fflush returns when all is written.
LEMMA OutputStep ==
    ASSUME PipeInv, thread = "reading", PluginStep
    PROVE  /\ Len(out) \in Nat /\ written \in 0..Len(out)
           /\ Len(out') \in Nat /\ written' = written
           /\ \/ pc = "flush" /\ written = Len(out) /\ out' = out
              \/ pc # "flush" /\ Len(out) =< Len(out')
              \/ pc # "flush" /\ pc' # "flush" /\ Len(out') = written
<1>1. out \in Seq(Lines) /\ written \in 0..Len(out) /\ Len(out) \in Nat
    BY LenProperties DEF PipeInv
<1>2. CASE pc # "flush" /\ UNCHANGED pipe
    BY <1>1, <1>2 DEF pipe
<1>3. ASSUME NEW lines, NEW S, lines \in Seq(S), out' = out \o lines
      PROVE  Len(out') \in Nat /\ Len(out) =< Len(out')
  <2>1. out \in Seq(Lines \cup S) /\ lines \in Seq(Lines \cup S)
      BY <1>1, <1>3
  <2>2. Len(out') = Len(out) + Len(lines) /\ Len(lines) \in Nat
      BY <1>3, <2>1, ConcatProperties, LenProperties
  <2> QED
      BY <1>1, <2>2
<1>4. ASSUME NEW c, NEW registers, PrintsChart(c, registers)
      PROVE  Len(out') \in Nat /\ Len(out) =< Len(out') /\ written' = written
  <2> DEFINE S == {Line("CHART", c), Line("DIMENSION", c)}
             lines == IF registers THEN ChartLines(c) ELSE <<>>
  <2>1. lines \in Seq(S)
    <3>1. ChartLines(c) \in Seq(S)
        BY DEF ChartLines
    <3>2. <<>> \in Seq(S)
        BY EmptySeq
    <3> QED
        BY <3>1, <3>2, Zenon
  <2>2. out' = out \o lines /\ written' = written
      BY <1>4, Zenon DEF PrintsChart, Prints
  <2> HIDE DEF S, lines
  <2> QED
      BY <1>3, <2>1, <2>2, Zenon
<1>5. ASSUME NEW c, PrintsMetric(c)
      PROVE  /\ Len(out') \in Nat /\ written' = written
             /\ Len(out) =< Len(out') \/ (exit' = "SIGSEGV" /\ Len(out') = written)
  <2>1. CASE exit' = "SIGSEGV"
    <3>1. out' = SubSeq(out, 1, written) /\ written' = written
        BY <2>1, <1>5 DEF PrintsMetric
    <3>2. Len(SubSeq(out, 1, written)) = written
      <4>1. Framed(out, scope) /\ Introduced(out, current, dims)
          BY DEF PipeInv
      <4> QED
          BY <1>1, <4>1, CutLines
    <3> QED
        BY <1>1, <2>1, <3>1, <3>2
  <2>2. CASE exit' # "SIGSEGV"
    <3> DEFINE S == {Line("BEGIN", c), Line("SET", c), Line("END", c)}
               lines == IF begun' = begun THEN <<>> ELSE MetricLines(c)
    <3>1. lines \in Seq(S)
      <4>1. MetricLines(c) \in Seq(S)
          BY DEF MetricLines
      <4>2. <<>> \in Seq(S)
          BY EmptySeq
      <4> QED
          BY <4>1, <4>2, Zenon
    <3>2. out' = out \o lines /\ written' = written
        BY <1>5, <2>2, Zenon DEF PrintsMetric, Prints
    <3> HIDE DEF S, lines
    <3> QED
        BY <1>3, <3>1, <3>2, Zenon
  <2> QED
      BY <2>1, <2>2
<1>6. CASE \/ (QueryFails \/ ListStart \/ ListEnd \/ RegisterEnd \/ SendEnd) /\ UNCHANGED pipe
           \/ (SweepEnd \/ \E n \in UPS : Sweep(n)) /\ UNCHANGED pipe
           \/ pc = "wait" /\ Teardown /\ UNCHANGED pipe
  <2>1. pc # "flush"
      BY <1>6 DEF QueryFails, ListStart, ListEnd, RegisterEnd, SendEnd, SweepEnd, Sweep
  <2> QED
      BY <1>2, <1>6, <2>1
<1>7. ASSUME NEW n \in UPS, ListNext(n),
             PrintsChart(<<clean_name(n), "status">>, pc' = "register")
      PROVE  pc # "flush" /\ Len(out') \in Nat /\ Len(out) =< Len(out') /\ written' = written
  <2>1. pc # "flush"
      BY <1>7 DEF ListNext
  <2> QED
      BY <1>4, <1>7, <2>1
<1>8. ASSUME NEW v \in Charts, RegisterChart(v),
             PrintsChart(<<nd_ups_name[ups_name], v>>, ups_vars' # ups_vars)
      PROVE  pc # "flush" /\ Len(out') \in Nat /\ Len(out) =< Len(out') /\ written' = written
  <2>1. pc # "flush"
      BY <1>8 DEF RegisterChart
  <2> QED
      BY <1>4, <1>8, <2>1
<1>9. ASSUME NEW c, PrintsMetric(c),
             SendStatus \/ SendRealpower \/ \E v \in Charts : SendVar(v)
      PROVE  /\ pc # "flush" /\ Len(out') \in Nat /\ written' = written
             /\ Len(out) =< Len(out') \/ (pc' # "flush" /\ Len(out') = written)
  <2>1. pc # "flush" /\ pc' # "flush"
      BY <1>9 DEF SendStatus, SendRealpower, SendVar, Exit
  <2> QED
      BY <1>5, <1>9, <2>1, Zenon
<1>10. CASE FlushReturns
    BY <1>1, <1>10 DEF FlushReturns, Flush, Teardown, pipe
<1> QED
    BY <1>1, <1>6, <1>7, <1>8, <1>9, <1>10, Zenon DEF PluginStep

\* A step of the process keeps what is due in its output, and in the pipe after
\* fflush.
LEMMA PluginDue ==
    ASSUME PipeInv, DueInv, PluginStepC
    PROVE  DueInv'
<1>1. PluginStep /\ thread' = thread /\ due \in Nat
    BY PluginStepExit DEF PluginStepC, agentVars, workerVars, DueInv
<1>2. CASE thread # "reading"
    BY <1>1, <1>2 DEF PluginStepC, ReachesFlush, DueInv
<1>3. CASE thread = "reading"
  <2>1. /\ Len(out) \in Nat /\ written \in 0..Len(out) /\ Len(out') \in Nat /\ written' = written
        /\ \/ pc = "flush" /\ written = Len(out) /\ out' = out
           \/ pc # "flush" /\ Len(out) =< Len(out')
           \/ pc # "flush" /\ pc' # "flush" /\ Len(out') = written
      BY <1>1, <1>3, OutputStep
  <2>2. due =< Len(out) /\ (pc # "flush" => due =< written)
      BY <1>3 DEF DueInv
  <2>3. CASE ReachesFlush /\ due' = Len(out')
      BY <1>1, <1>3, <2>1, <2>3 DEF ReachesFlush, DueInv
  <2>4. CASE due' = due
      BY <1>1, <1>3, <2>1, <2>2, <2>4 DEF DueInv
  <2> QED
      BY <2>3, <2>4 DEF PluginStepC
<1> QED
    BY <1>2, <1>3

\* Each step keeps what is due.  At the end of the file nothing is left in the pipe,
\* so nothing is due.
LEMMA DueStep == PipeInv /\ DueInv /\ [CycleNext]_cycleVars => DueInv'
<1> SUFFICES ASSUME PipeInv, DueInv, [CycleNext]_cycleVars PROVE DueInv'
    OBVIOUS
<1>1. CASE PluginStepC
    BY <1>1, PluginDue
<1>2. CASE ReadLineC
  <2>1. /\ thread = "reading" /\ written > 0 /\ out' = Tail(out) /\ written' = written - 1
        /\ pc' = pc /\ due' = IF thread' = "reading" /\ due > 0 THEN due - 1 ELSE 0
      BY <1>2 DEF ReadLineC, ReadLine, vars, control
  <2>2. out \in Seq(Lines) /\ written \in 0..Len(out) /\ Len(out) \in Nat
      BY <2>1, LenProperties DEF PipeInv
  <2>3. Len(out') = Len(out) - 1 /\ Len(out) > 0
    <3>1. out # <<>>
        BY <2>1, <2>2
    <3> QED
        BY <2>1, <2>2, <3>1, HeadTailProperties
  <2>4. due \in Nat /\ due =< Len(out) /\ (pc # "flush" => due =< written)
      BY <2>1 DEF DueInv
  <2>5. CASE thread' = "reading" /\ due > 0
      BY <2>1, <2>2, <2>3, <2>4, <2>5 DEF DueInv
  <2>6. CASE ~(thread' = "reading" /\ due > 0)
      BY <2>1, <2>2, <2>3, <2>6 DEF DueInv
  <2> QED
      BY <2>5, <2>6
<1>3. CASE WriteC
  <2>1. /\ thread = "reading" /\ written' = written + 1 /\ UNCHANGED <<pc, out, thread, due>>
      BY <1>3 DEF WriteC, Write, vars, control, agentVars, workerVars
  <2>2. written \in 0..Len(out) /\ Len(out) \in Nat
      BY <2>1, LenProperties DEF PipeInv
  <2> QED
      BY <2>1, <2>2 DEF DueInv
<1>4. CASE EndOfFileC
  <2>1. /\ thread = "reading" /\ thread' = "reap" /\ pc = "exit" /\ written = 0 /\ due' = due
      BY <1>4 DEF EndOfFileC, EndOfFile, ReadEnds, ProcessEnds
  <2> QED
      BY <2>1 DEF DueInv
<1>5. CASE ReadTimeoutC
    BY <1>5 DEF ReadTimeoutC, ReadTimeout, ReadEnds, ProcessEnds, DueInv
<1>6. CASE SpawnC
  <2>1. thread = "spawn" /\ out' = <<>> /\ written' = 0 /\ due' = due
      BY <1>6 DEF SpawnC, Spawn, spawn_popen_run
  <2> QED
      BY <2>1 DEF DueInv
<1>7. CASE NoSpawnC \/ TerminateC \/ HandleExitC
  <2>1. thread # "reading" /\ thread' # "reading" /\ due' = due
    <3>1. CASE NoSpawnC
        BY <3>1 DEF NoSpawnC, NoSpawn, SpawnFails
    <3>2. CASE TerminateC
        BY <3>2 DEF TerminateC, Terminate, agentVars, workerVars
    <3>3. CASE HandleExitC
        BY <3>3 DEF HandleExitC, HandleExit, Reap
    <3> QED
        BY <1>7, <3>1, <3>2, <3>3
  <2> QED
      BY <2>1 DEF DueInv
<1>8. CASE DeleteChartC \/ UNCHANGED cycleVars
  <2>1. UNCHANGED <<thread, pc, out, written, due>>
      BY <1>8 DEF DeleteChartC, DeleteChart, cycleVars, systemVars, vars, control, pipe,
                  agentVars, workerVars
  <2> QED
      BY <2>1 DEF DueInv
<1> QED
    BY <1>1, <1>2, <1>3, <1>4, <1>5, <1>6, <1>7, <1>8, Zenon DEF CycleNext

\* For every upsd, every pipe and every way a process ends, a cycle that was flushed
\* is read to its last line before the agent sees the end of the output.
THEOREM FlushedNeverLost == CycleSpec => []FlushedNotLost
<1>1. CycleInit => DueInv
    BY DEF CycleInit, SystemInit, WorkerInit, DueInv
<1>2. DueInv => FlushedNotLost
    BY DEF DueInv, FlushedNotLost
<1> QED
    BY <1>1, <1>2, CyclesAreOfSystem, PipeInvariant, DueStep, PTL DEF CycleSpec
=============================================================================
