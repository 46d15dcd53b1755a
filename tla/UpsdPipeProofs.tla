--------------------------- MODULE UpsdPipeProofs ---------------------------
(***************************************************************************)
(* Proofs about the lines between the plugin and the parser: what the      *)
(* agent refuses, wherever in its output a process has got and whatever    *)
(* became of the one before.                                               *)
(***************************************************************************)
EXTENDS UpsdAgentProofs, UpsdOutputProofs, SequenceTheorems

\* A running process is one that UpsdPlugin describes.
ProcessInv == pc # "exit" => Invariants /\ Charted /\ Sent /\ Counted /\ Matched

Keywords == {"CHART", "DIMENSION", "BEGIN", "SET", "END"}
Lines    == [keyword : Keywords, chart : ChartIds]

\* Charts that may be updated although they were not defined: load_usage of a
\* UPS whose variables come and go.
Excused(c) == c[2] = "ups.realpower" /\ \E n \in UPS : clean_name(n) = c[1] /\ ~Steady(n)

\* Line i of s comes after such a line.
After(s, i, line) == \E j \in 1..i - 1 : s[j] = line

\* The chart is among those the parser knows, or is defined before line i of s; and
\* the same for its dimensions.
HasChart(c, charts, s, i) == c \in charts \/ After(s, i, Line("CHART", c))
HasDims(c, charts, s, i)  == c \in charts \/ After(s, i, Line("DIMENSION", c))

\* A line about a dimension, and an END, follow a line of their chart that leaves
\* it in scope, which the parser may have read already.
Framed(s, chart) ==
    \A i \in 1..Len(s) : s[i].keyword \in {"DIMENSION", "SET", "END"} =>
      \/ i = 1 /\ s[i].chart = chart
      \/ i # 1 /\ s[i - 1].chart = s[i].chart /\ s[i - 1].keyword # "END"

\* A block follows the definition of its chart.
Introduced(s, charts, dimensioned) ==
    \A i \in 1..Len(s) :
      /\ s[i].keyword = "BEGIN" => HasChart(s[i].chart, charts, s, i) \/ Excused(s[i].chart)
      /\ s[i].keyword = "SET" => HasDims(s[i].chart, dimensioned, s, i) \/ Excused(s[i].chart)

\* The charts that stay: those marked obsolete may be deleted at any time.
current == known \ obsolete

\* What a running process has defined is on its way to the parser, or there.
Delivered(c) == HasChart(c, current, out, Len(out) + 1) /\ HasDims(c, dims, out, Len(out) + 1)

PipeInv ==
    thread = "reading" =>
      /\ out \in Seq(Lines) /\ written \in 0..Len(out)
      /\ Framed(out, scope) /\ Introduced(out, current, dims)
      /\ pc # "exit" => \A c \in defined : Delivered(c)

\* The agent refuses no line but the BEGIN or the SET of an excused chart.
Refused ==
    rejected # NoLine => rejected.keyword \in {"BEGIN", "SET"} /\ Excused(rejected.chart)

-----------------------------------------------------------------------------
(* Lines that are added, cut off and taken. *)

\* Lines after the printed ones: those keep their place, and the whole is in order
\* if the new ones are framed among themselves and about charts introduced before.
LEMMA AddLines ==
    ASSUME NEW s \in Seq(Lines), NEW chart, NEW charts, NEW dimensioned,
           Framed(s, chart), Introduced(s, charts, dimensioned),
           NEW lines \in Seq(Lines),
           \A i \in 1..Len(lines) : lines[i].keyword \in {"DIMENSION", "SET", "END"} =>
             i # 1 /\ lines[i - 1].chart = lines[i].chart /\ lines[i - 1].keyword # "END",
           \A i \in 1..Len(lines) :
             /\ lines[i].keyword = "BEGIN" =>
                  HasChart(lines[i].chart, charts, s, Len(s) + 1) \/ Excused(lines[i].chart)
             /\ lines[i].keyword = "SET" =>
                  HasDims(lines[i].chart, dimensioned, s, Len(s) + 1) \/ Excused(lines[i].chart)
    PROVE  /\ s \o lines \in Seq(Lines) /\ Len(s \o lines) = Len(s) + Len(lines)
           /\ Framed(s \o lines, chart) /\ Introduced(s \o lines, charts, dimensioned)
           /\ \A line : After(s, Len(s) + 1, line) => After(s \o lines, Len(s \o lines) + 1, line)
           /\ \A i \in 1..Len(lines) : After(s \o lines, Len(s \o lines) + 1, lines[i])
<1> DEFINE n == Len(s)
           k == Len(lines)
           t == s \o lines
<1>1. /\ n \in Nat /\ k \in Nat /\ t \in Seq(Lines) /\ Len(t) = n + k
      /\ \A i \in 1..n + k : t[i] = IF i <= n THEN s[i] ELSE lines[i - n]
    BY ConcatProperties, LenProperties
<1> HIDE DEF t
<1>2. \A i \in 1..n : i \in 1..n + k /\ t[i] = s[i]
  <2> HIDE DEF n, k
  <2> QED
      BY <1>1
<1>3. \A i \in 1..k : n + i \in 1..n + k /\ t[n + i] = lines[i]
  <2> HIDE DEF n, k
  <2> QED
      BY <1>1
<1>4. \A i \in 1..n + k : i \in 1..n \/ \E j \in 1..k : i = n + j
  <2> HIDE DEF n, k
  <2> SUFFICES ASSUME NEW i \in 1..n + k, i \notin 1..n PROVE i - n \in 1..k /\ i = n + (i - n)
      OBVIOUS
  <2> QED
      BY <1>1
<1>5. ASSUME NEW line, NEW i \in 1..n + 1, NEW j \in 1..n + k + 1, i =< j, After(s, i, line)
      PROVE  After(t, j, line)
  <2>1. PICK m \in 1..i - 1 : s[m] = line
      BY <1>5 DEF After
  <2>2. m \in 1..n /\ m \in 1..j - 1
    <3> HIDE DEF n, k
    <3> QED
        BY <1>1, <1>5, <2>1
  <2> QED
      BY <1>2, <2>1, <2>2, Zenon DEF After
<1>6. Framed(t, chart)
  <2> SUFFICES ASSUME NEW i \in 1..n + k, t[i].keyword \in {"DIMENSION", "SET", "END"}
               PROVE  \/ i = 1 /\ t[i].chart = chart
                      \/ i # 1 /\ t[i - 1].chart = t[i].chart /\ t[i - 1].keyword # "END"
      BY <1>1, Zenon DEF Framed
  <2>1. CASE i \in 1..n
    <3>1. i # 1 => i - 1 \in 1..n
      <4> HIDE DEF n
      <4> QED BY <1>1, <2>1
    <3> QED
        BY <1>2, <2>1, <3>1, Zenon DEF Framed
  <2>2. ASSUME NEW j \in 1..k, i = n + j
        PROVE  i # 1 /\ t[i - 1].chart = t[i].chart /\ t[i - 1].keyword # "END"
    <3>1. t[i] = lines[j]
        BY <1>3, <2>2
    <3>2. j # 1 /\ lines[j - 1].chart = lines[j].chart /\ lines[j - 1].keyword # "END"
        BY <3>1, Zenon
    <3>3. j - 1 \in 1..k /\ i - 1 = n + (j - 1) /\ i # 1
      <4> HIDE DEF n, k
      <4> QED BY <1>1, <2>2, <3>2
    <3> QED
        BY <1>3, <3>1, <3>2, <3>3, Zenon
  <2> QED
      BY <1>4, <2>1, <2>2, Zenon
<1>7. Introduced(t, charts, dimensioned)
  <2> SUFFICES ASSUME NEW i \in 1..n + k
               PROVE  /\ t[i].keyword = "BEGIN" =>
                           HasChart(t[i].chart, charts, t, i) \/ Excused(t[i].chart)
                      /\ t[i].keyword = "SET" =>
                           HasDims(t[i].chart, dimensioned, t, i) \/ Excused(t[i].chart)
      BY <1>1, Zenon DEF Introduced
  <2>1. CASE i \in 1..n
    <3>1. i \in 1..n + 1 /\ i \in 1..n + k + 1 /\ i =< i
      <4> HIDE DEF n, k
      <4> QED BY <1>1, <2>1
    <3>2. \A line : After(s, i, line) => After(t, i, line)
        BY <1>5, <3>1, Zenon
    <3> QED
        BY <1>2, <2>1, <3>2, Zenon DEF Introduced, HasChart, HasDims
  <2>2. ASSUME NEW j \in 1..k, i = n + j
        PROVE  /\ t[i].keyword = "BEGIN" =>
                    HasChart(t[i].chart, charts, t, i) \/ Excused(t[i].chart)
               /\ t[i].keyword = "SET" =>
                    HasDims(t[i].chart, dimensioned, t, i) \/ Excused(t[i].chart)
    <3>1. t[i] = lines[j]
        BY <1>3, <2>2
    <3>2. n + 1 \in 1..n + 1 /\ i \in 1..n + k + 1 /\ n + 1 =< i
      <4> HIDE DEF n, k
      <4> QED BY <1>1, <2>2
    <3>3. \A line : After(s, n + 1, line) => After(t, i, line)
        BY <1>5, <3>2, Zenon
    <3> QED
        BY <3>1, <3>3, Zenon DEF HasChart, HasDims
  <2> QED
      BY <1>4, <2>1, <2>2, Zenon
<1>8. \A line : After(s, n + 1, line) => After(t, Len(t) + 1, line)
  <2>1. n + 1 \in 1..n + 1 /\ n + k + 1 \in 1..n + k + 1 /\ n + 1 =< n + k + 1
    <3> HIDE DEF n, k
    <3> QED BY <1>1
  <2> QED
      BY <1>1, <1>5, <2>1, Zenon
<1>9. \A i \in 1..k : After(t, Len(t) + 1, lines[i])
  <2>1. (n + k + 1) - 1 = n + k
    <3> HIDE DEF n, k
    <3> QED BY <1>1
  <2> QED
      BY <1>1, <1>3, <2>1, Zenon DEF After
<1> QED
    BY <1>1, <1>6, <1>7, <1>8, <1>9 DEF t

\* The first w lines of lines in order are in order.
LEMMA CutLines ==
    ASSUME NEW s \in Seq(Lines), NEW chart, NEW charts, NEW dimensioned,
           Framed(s, chart), Introduced(s, charts, dimensioned), NEW w \in 0..Len(s)
    PROVE  /\ SubSeq(s, 1, w) \in Seq(Lines) /\ Len(SubSeq(s, 1, w)) = w
           /\ Framed(SubSeq(s, 1, w), chart) /\ Introduced(SubSeq(s, 1, w), charts, dimensioned)
<1> DEFINE n == Len(s)
           t == SubSeq(s, 1, w)
<1>1. n \in Nat /\ \A i \in 1..n : s[i] \in Lines
    BY LenProperties, ElementOfSeq
<1>2. w \in Nat /\ w \in Int /\ 1 \in Int /\ w =< n /\ \A i \in 1..w : i \in 1..n
  <2> HIDE DEF n
  <2> QED BY <1>1 DEF n
<1>3. /\ t \in Seq(Lines) /\ Len(t) = (IF 1 <= w THEN w - 1 + 1 ELSE 0)
      /\ \A i \in 1..w - 1 + 1 : t[i] = s[1 + i - 1]
    BY <1>1, <1>2, SubSeqProperties
<1>4. Len(t) = w /\ \A i \in 1..w : i \in 1..n /\ t[i] = s[i] /\ (i # 1 => i - 1 \in 1..w)
  <2> HIDE DEF n, t
  <2>1. w - 1 + 1 = w /\ (w # 0 => 1 <= w) /\ \A i \in 1..w : 1 + i - 1 = i /\ (i # 1 => i - 1 \in 1..w)
      BY <1>2
  <2>2. Len(t) = w
      BY <1>2, <1>3, <2>1
  <2> QED
      BY <1>2, <1>3, <2>1, <2>2, Zenon
<1> HIDE DEF t
<1>5. Framed(t, chart)
    BY <1>4, Zenon DEF Framed
<1>6. \A i \in 1..w : \A line : After(s, i, line) => After(t, i, line)
  <2> SUFFICES ASSUME NEW i \in 1..w, NEW line, NEW j \in 1..i - 1, s[j] = line
               PROVE  j \in 1..w /\ t[j] = line
      BY Zenon DEF After
  <2>1. j \in 1..w
      BY <1>2
  <2> QED
      BY <1>4, <2>1, Zenon
<1>7. Introduced(t, charts, dimensioned)
    BY <1>4, <1>6, Zenon DEF Introduced, HasChart, HasDims
<1> QED
    BY <1>3, <1>4, <1>5, <1>7 DEF t

\* The first line is taken: the rest is in order for a parser that has done what
\* the line says, and what was introduced before still is.
LEMMA TakeLine ==
    ASSUME NEW s \in Seq(Lines), s # <<>>, NEW chart, NEW charts, NEW dimensioned,
           Framed(s, chart), Introduced(s, charts, dimensioned),
           NEW chart2, NEW charts2, NEW dimensioned2,
           charts \subseteq charts2, dimensioned \subseteq dimensioned2,
           s[1].keyword # "END" => chart2 = s[1].chart,
           s[1].keyword = "CHART" => s[1].chart \in charts2,
           s[1].keyword = "DIMENSION" => s[1].chart \in dimensioned2
    PROVE  /\ Tail(s) \in Seq(Lines) /\ Len(Tail(s)) = Len(s) - 1
           /\ Framed(Tail(s), chart2) /\ Introduced(Tail(s), charts2, dimensioned2)
           /\ \A c : HasChart(c, charts, s, Len(s) + 1)
                       => HasChart(c, charts2, Tail(s), Len(Tail(s)) + 1)
           /\ \A c : HasDims(c, dimensioned, s, Len(s) + 1)
                       => HasDims(c, dimensioned2, Tail(s), Len(Tail(s)) + 1)
<1> DEFINE n == Len(s)
           t == Tail(s)
<1>1. n \in Nat \ {0}
    BY EmptySeq
<1>2. t \in Seq(Lines) /\ Len(t) = n - 1 /\ \A i \in 1..Len(t) : t[i] = s[i + 1]
    BY HeadTailProperties
<1> HIDE DEF n, t
<1>3. \A i \in 1..n - 1 : /\ i + 1 \in 1..n /\ t[i] = s[i + 1] /\ i + 1 # 1 /\ (i + 1) - 1 = i
                          /\ i # 1 => i - 1 \in 1..n - 1 /\ (i - 1) + 1 = i
  <2> SUFFICES ASSUME NEW i \in 1..n - 1
               PROVE  /\ i + 1 \in 1..n /\ t[i] = s[i + 1] /\ i + 1 # 1 /\ (i + 1) - 1 = i
                      /\ i # 1 => i - 1 \in 1..n - 1 /\ (i - 1) + 1 = i
      BY Zenon
  <2>1. t[i] = s[i + 1]
      BY <1>2, Zenon
  <2>2. i + 1 \in 1..n /\ i + 1 # 1 /\ (i + 1) - 1 = i /\ (i # 1 => i - 1 \in 1..n - 1 /\ (i - 1) + 1 = i)
      BY <1>1
  <2> QED
      BY <2>1, <2>2, Zenon
<1>4. Framed(t, chart2)
  <2> SUFFICES ASSUME NEW i \in 1..n - 1, t[i].keyword \in {"DIMENSION", "SET", "END"}
               PROVE  \/ i = 1 /\ t[i].chart = chart2
                      \/ i # 1 /\ t[i - 1].chart = t[i].chart /\ t[i - 1].keyword # "END"
      BY <1>2, Zenon DEF Framed
  <2>0. i + 1 \in 1..n /\ t[i] = s[i + 1] /\ i + 1 # 1 /\ (i + 1) - 1 = i
      BY <1>3, Zenon
  <2>1. s[i].chart = s[i + 1].chart /\ s[i].keyword # "END" /\ t[i] = s[i + 1]
    <3>1. \A k \in 1..n : s[k].keyword \in {"DIMENSION", "SET", "END"} /\ k # 1 =>
            s[k - 1].chart = s[k].chart /\ s[k - 1].keyword # "END"
        BY Zenon DEF Framed, n
    <3>2. s[(i + 1) - 1].chart = s[i + 1].chart /\ s[(i + 1) - 1].keyword # "END"
        BY <2>0, <3>1, Zenon
    <3> QED
        BY <2>0, <3>2
  <2>2. CASE i = 1
      BY <2>1, <2>2, Zenon
  <2>3. CASE i # 1
      BY <1>3, <2>1, <2>3, Zenon
  <2> QED
      BY <2>2, <2>3
<1>5. \A i \in 1..n : \A line : After(s, i + 1, line) => s[1] = line \/ After(t, i, line)
  <2> SUFFICES ASSUME NEW i \in 1..n, NEW line, NEW j \in 1..(i + 1) - 1, s[j] = line, j # 1
               PROVE  j - 1 \in 1..i - 1 /\ t[j - 1] = line
      BY DEF After
  <2>1. j - 1 \in 1..i - 1 /\ j - 1 \in 1..n - 1 /\ (j - 1) + 1 = j
      BY <1>1
  <2> QED
      BY <1>3, <2>1, Zenon
<1>6. \A c : /\ s[1] = Line("CHART", c) => c \in charts2
             /\ s[1] = Line("DIMENSION", c) => c \in dimensioned2
    BY DEF Line
<1>7. \A i \in 1..n : \A c :
        /\ HasChart(c, charts, s, i + 1) => HasChart(c, charts2, t, i)
        /\ HasDims(c, dimensioned, s, i + 1) => HasDims(c, dimensioned2, t, i)
    BY <1>5, <1>6, Zenon DEF HasChart, HasDims
<1>8. Introduced(t, charts2, dimensioned2)
  <2> SUFFICES ASSUME NEW i \in 1..n - 1
               PROVE  /\ t[i].keyword = "BEGIN" =>
                           HasChart(t[i].chart, charts2, t, i) \/ Excused(t[i].chart)
                      /\ t[i].keyword = "SET" =>
                           HasDims(t[i].chart, dimensioned2, t, i) \/ Excused(t[i].chart)
      BY <1>2, Zenon DEF Introduced
  <2>1. i \in 1..n /\ i + 1 \in 1..n /\ t[i] = s[i + 1]
      BY <1>1, <1>3
  <2>2. /\ t[i].keyword = "BEGIN" => HasChart(t[i].chart, charts, s, i + 1) \/ Excused(t[i].chart)
        /\ t[i].keyword = "SET" => HasDims(t[i].chart, dimensioned, s, i + 1) \/ Excused(t[i].chart)
    <3>1. i + 1 \in 1..Len(s)
        BY <2>1 DEF n
    <3> QED
        BY <2>1, <3>1, Zenon DEF Introduced
  <2> QED
      BY <1>7, <2>1, <2>2, Zenon
<1>9. n \in 1..n /\ (n - 1) + 1 = n
    BY <1>1
<1> QED
    BY <1>2, <1>4, <1>7, <1>8, <1>9, Zenon DEF t, n

-----------------------------------------------------------------------------
(* The process. *)

\* A step of the process is a step of UpsdPlugin.
LEMMA PluginStepIsNext == PluginStep => Next
BY Zenon DEF PluginStep, FlushReturns, Next

\* What UpsdPlugin starts with holds for a process that starts in this step.
LEMMA ProcessStarts == Init' => (Invariants /\ Charted /\ Sent /\ Counted /\ Matched)'
<1>1. Init => Invariants /\ Charted /\ Sent /\ Counted /\ Matched
    BY TypeInit, RegistryInit, ChartedInit, SentInit, CountedInit, MatchedInit, Zenon DEF Invariants
<1> QED
    BY <1>1, PTL

\* A process starts as UpsdPlugin says, and runs so until it ends or is ended.
LEMMA ProcessStep == ProcessInv /\ [SystemNext]_systemVars => ProcessInv'
<1> SUFFICES ASSUME ProcessInv, [SystemNext]_systemVars PROVE ProcessInv'
    OBVIOUS
<1>1. CASE Spawn
  <2>1. Init'
      BY <1>1, Zenon DEF Spawn, Init
  <2> QED
      BY <2>1, ProcessStarts, Zenon DEF ProcessInv
<1>2. CASE PluginStep
  <2>1. pc # "exit" /\ Next
      BY <1>2, PluginStepExit, PluginStepIsNext, Zenon
  <2>2. Invariants /\ Charted /\ Sent /\ Counted /\ Matched /\ [Next]_vars
      BY <2>1, Zenon DEF ProcessInv
  <2>3. Invariants'
      BY <2>2, TypeStep, RegistryStep, Zenon DEF Invariants
  <2>4. Charted' /\ Sent' /\ Counted' /\ Matched'
      BY <2>2, ChartedStep, SentStep, CountedStep, MatchedStep, Zenon
  <2> QED
      BY <2>3, <2>4, Zenon DEF ProcessInv
<1>3. CASE UNCHANGED vars
  <2>1. pc' = pc
      BY <1>3 DEF vars, control
  <2>2. ASSUME pc # "exit" PROVE (Invariants /\ Charted /\ Sent /\ Counted /\ Matched)'
    <3>1. Invariants /\ Charted /\ Sent /\ Counted /\ Matched /\ [Next]_vars
        BY <1>3, <2>2, Zenon DEF ProcessInv
    <3>2. Invariants'
        BY <3>1, TypeStep, RegistryStep, Zenon DEF Invariants
    <3> QED
        BY <3>1, <3>2, ChartedStep, SentStep, CountedStep, MatchedStep, Zenon
  <2> QED
      BY <2>1, <2>2, Zenon DEF ProcessInv
<1>4. CASE Terminate
    BY <1>4, Zenon DEF Terminate, ProcessInv
<1>5. CASE NoSpawn \/ Write \/ ReadLine \/ EndOfFile \/ ReadTimeout \/ HandleExit \/ DeleteChart
  <2>1. UNCHANGED vars
    <3>1. CASE NoSpawn
        BY <3>1, Zenon DEF NoSpawn
    <3>2. CASE Write
        BY <3>2, Zenon DEF Write
    <3>3. CASE ReadLine
        BY <3>3, Zenon DEF ReadLine
    <3>4. CASE EndOfFile \/ ReadTimeout
        BY <3>4, Zenon DEF EndOfFile, ReadTimeout, ReadEnds
    <3>5. CASE HandleExit
        BY <3>5, Zenon DEF HandleExit
    <3>6. CASE DeleteChart
        BY <3>6, Zenon DEF DeleteChart
    <3> QED
        BY <1>5, <3>1, <3>2, <3>3, <3>4, <3>5, <3>6, Zenon
  <2> QED
      BY <1>3, <2>1
<1>6. CASE UNCHANGED systemVars
    BY <1>3, <1>6 DEF systemVars
<1> QED
    BY <1>1, <1>2, <1>4, <1>5, <1>6, Zenon DEF SystemNext

\* So it is at all times.
LEMMA ProcessInvariant == SystemSpec => []ProcessInv
<1>1. SystemInit => ProcessInv
    BY Zenon DEF SystemInit, ProcessInv
<1> QED
    BY <1>1, ProcessStep, PTL DEF SystemSpec

-----------------------------------------------------------------------------
(* What a step of the process adds to its output. *)

\* The lines of a chart, and of a block, are framed among themselves.
LEMMA LinesOfChart ==
    ASSUME NEW c \in ChartIds
    PROVE  /\ ChartLines(c) \in Seq(Lines) /\ Len(ChartLines(c)) = 2
           /\ ChartLines(c)[1] = Line("CHART", c) /\ ChartLines(c)[2] = Line("DIMENSION", c)
           /\ MetricLines(c) \in Seq(Lines) /\ Len(MetricLines(c)) = 3
           /\ MetricLines(c)[1] = Line("BEGIN", c) /\ MetricLines(c)[2] = Line("SET", c)
           /\ MetricLines(c)[3] = Line("END", c)
<1>1. \A k \in Keywords : Line(k, c) \in Lines
    BY DEF Line, Lines
<1>2. /\ Line("CHART", c) \in Lines /\ Line("DIMENSION", c) \in Lines
      /\ Line("BEGIN", c) \in Lines /\ Line("SET", c) \in Lines /\ Line("END", c) \in Lines
    BY <1>1 DEF Keywords
<1> QED
    BY <1>2 DEF ChartLines, MetricLines

\* Nothing is printed.
LEMMA PipeSame ==
    ASSUME PipeInv, UNCHANGED pipe, UNCHANGED agentVars, UNCHANGED defined, pc # "exit"
    PROVE  PipeInv'
BY DEF PipeInv, pipe, agentVars, workerVars, parserVars, Delivered, current

\* A chart is printed, if it is registered.
LEMMA PipeChart ==
    ASSUME PipeInv, pc # "exit", NEW c \in ChartIds, NEW registers \in BOOLEAN,
           PrintsChart(c, registers), UNCHANGED agentVars,
           defined' \subseteq defined \cup (IF registers THEN {c} ELSE {})
    PROVE  PipeInv'
<1> SUFFICES ASSUME thread = "reading"
             PROVE  /\ out' \in Seq(Lines) /\ written' \in 0..Len(out')
                    /\ Framed(out', scope) /\ Introduced(out', current, dims)
                    /\ \A x \in defined' : HasChart(x, current, out', Len(out') + 1)
                                           /\ HasDims(x, dims, out', Len(out') + 1)
    BY DEF PipeInv, agentVars, workerVars, parserVars, Delivered, current
<1>1. /\ out \in Seq(Lines) /\ written \in 0..Len(out)
      /\ Framed(out, scope) /\ Introduced(out, current, dims) /\ \A x \in defined : Delivered(x)
    BY DEF PipeInv
<1>2. CASE registers
  <2>1. out' = out \o ChartLines(c) /\ written' = written
      BY <1>2 DEF PrintsChart, Prints
  <2> DEFINE lines == ChartLines(c)
  <2>2. /\ lines \in Seq(Lines) /\ Len(lines) = 2
        /\ lines[1] = Line("CHART", c) /\ lines[2] = Line("DIMENSION", c)
      BY LinesOfChart
  <2> HIDE DEF lines
  <2>3. /\ lines[1].keyword = "CHART" /\ lines[1].chart = c
        /\ lines[2].keyword = "DIMENSION" /\ lines[2].chart = c
      BY <2>2 DEF Line
  <2>4. \A i \in 1..Len(lines) : lines[i].keyword \in {"DIMENSION", "SET", "END"} =>
          i # 1 /\ lines[i - 1].chart = lines[i].chart /\ lines[i - 1].keyword # "END"
      BY <2>2, <2>3
  <2>5. \A i \in 1..Len(lines) :
          /\ lines[i].keyword = "BEGIN" =>
               HasChart(lines[i].chart, current, out, Len(out) + 1) \/ Excused(lines[i].chart)
          /\ lines[i].keyword = "SET" =>
               HasDims(lines[i].chart, dims, out, Len(out) + 1) \/ Excused(lines[i].chart)
      BY <2>2, <2>3
  <2>6. /\ out' \in Seq(Lines) /\ Len(out') = Len(out) + Len(lines)
        /\ Framed(out', scope) /\ Introduced(out', current, dims)
        /\ \A line : After(out, Len(out) + 1, line) => After(out', Len(out') + 1, line)
        /\ \A i \in 1..Len(lines) : After(out', Len(out') + 1, lines[i])
    <3>1. out' = out \o lines
        BY <2>1 DEF lines
    <3>2. /\ out \o lines \in Seq(Lines) /\ Len(out \o lines) = Len(out) + Len(lines)
          /\ Framed(out \o lines, scope) /\ Introduced(out \o lines, current, dims)
          /\ \A line : After(out, Len(out) + 1, line) => After(out \o lines, Len(out \o lines) + 1, line)
          /\ \A i \in 1..Len(lines) : After(out \o lines, Len(out \o lines) + 1, lines[i])
        BY <1>1, <2>2, <2>4, <2>5, AddLines, Zenon
    <3> QED
        BY <3>1, <3>2, Zenon
  <2>7. written' \in 0..Len(out')
    <3>1. Len(out) \in Nat
        BY <1>1, LenProperties
    <3> QED
        BY <1>1, <2>1, <2>2, <2>6, <3>1
  <2>8. HasChart(c, current, out', Len(out') + 1) /\ HasDims(c, dims, out', Len(out') + 1)
    <3>1. 1 \in 1..Len(lines) /\ 2 \in 1..Len(lines)
        BY <2>2
    <3> QED
        BY <2>2, <2>6, <3>1, Zenon DEF HasChart, HasDims
  <2>9. \A x \in defined : HasChart(x, current, out', Len(out') + 1)
                           /\ HasDims(x, dims, out', Len(out') + 1)
      BY <1>1, <2>6, Zenon DEF Delivered, HasChart, HasDims
  <2> QED
      BY <1>2, <2>6, <2>7, <2>8, <2>9
<1>3. CASE ~registers
  <2>1. out' = out /\ written' = written
    <3>1. out' = out \o <<>> /\ written' = written
        BY <1>3 DEF PrintsChart, Prints
    <3> QED
        BY <1>1, <3>1, ConcatEmptySeq
  <2> QED
      BY <1>1, <1>3, <2>1 DEF Delivered
<1> QED
    BY <1>2, <1>3

\* A block is printed, or the process is killed and loses what it had not written.
LEMMA PipeMetric ==
    ASSUME PipeInv, pc # "exit", NEW c \in ChartIds,
           PrintsMetric(c), UNCHANGED agentVars, UNCHANGED defined,
           exit' = "SIGSEGV" => pc' = "exit",
           begun' # begun => c \in defined \/ Excused(c)
    PROVE  PipeInv'
<1> SUFFICES ASSUME thread = "reading"
             PROVE  /\ out' \in Seq(Lines) /\ written' \in 0..Len(out')
                    /\ Framed(out', scope) /\ Introduced(out', current, dims)
                    /\ pc' # "exit" => \A x \in defined : HasChart(x, current, out', Len(out') + 1)
                                                          /\ HasDims(x, dims, out', Len(out') + 1)
    BY DEF PipeInv, agentVars, workerVars, parserVars, Delivered, current
<1>1. /\ out \in Seq(Lines) /\ written \in 0..Len(out)
      /\ Framed(out, scope) /\ Introduced(out, current, dims) /\ \A x \in defined : Delivered(x)
    BY DEF PipeInv
<1>2. CASE exit' = "SIGSEGV"
  <2>1. out' = SubSeq(out, 1, written) /\ written' = written
      BY <1>2 DEF PrintsMetric
  <2>2. /\ SubSeq(out, 1, written) \in Seq(Lines) /\ Len(SubSeq(out, 1, written)) = written
        /\ Framed(SubSeq(out, 1, written), scope) /\ Introduced(SubSeq(out, 1, written), current, dims)
      BY <1>1, CutLines, Zenon
  <2>3. written \in 0..written
    <3>1. Len(out) \in Nat
        BY <1>1, LenProperties
    <3> QED
        BY <1>1, <3>1
  <2> QED
      BY <1>2, <2>1, <2>2, <2>3, Zenon
<1>3. CASE exit' # "SIGSEGV" /\ begun' # begun
  <2>1. out' = out \o MetricLines(c) /\ written' = written
      BY <1>3, Zenon DEF PrintsMetric, Prints
  <2> DEFINE lines == MetricLines(c)
  <2>2. /\ lines \in Seq(Lines) /\ Len(lines) = 3 /\ lines[1] = Line("BEGIN", c)
        /\ lines[2] = Line("SET", c) /\ lines[3] = Line("END", c)
      BY LinesOfChart
  <2>0. out' = out \o lines
      BY <2>1
  <2> HIDE DEF lines
  <2>3. /\ lines[1].keyword = "BEGIN" /\ lines[1].chart = c
        /\ lines[2].keyword = "SET" /\ lines[2].chart = c
        /\ lines[3].keyword = "END" /\ lines[3].chart = c
      BY <2>2 DEF Line
  <2>4. \A i \in 1..Len(lines) : lines[i].keyword \in {"DIMENSION", "SET", "END"} =>
          i # 1 /\ lines[i - 1].chart = lines[i].chart /\ lines[i - 1].keyword # "END"
      BY <2>2, <2>3
  <2>5. \A i \in 1..Len(lines) :
          /\ lines[i].keyword = "BEGIN" =>
               HasChart(lines[i].chart, current, out, Len(out) + 1) \/ Excused(lines[i].chart)
          /\ lines[i].keyword = "SET" =>
               HasDims(lines[i].chart, dims, out, Len(out) + 1) \/ Excused(lines[i].chart)
    <3>1. \/ Excused(c)
          \/ HasChart(c, current, out, Len(out) + 1) /\ HasDims(c, dims, out, Len(out) + 1)
        BY <1>1, <1>3, Zenon DEF Delivered
    <3>2. \A i \in 1..Len(lines) : lines[i].chart = c
        BY <2>2, <2>3
    <3> QED
        BY <3>1, <3>2, Zenon
  <2>6. /\ out \o lines \in Seq(Lines) /\ Len(out \o lines) = Len(out) + Len(lines)
        /\ Framed(out \o lines, scope) /\ Introduced(out \o lines, current, dims)
        /\ \A line : After(out, Len(out) + 1, line) => After(out \o lines, Len(out \o lines) + 1, line)
        /\ \A i \in 1..Len(lines) : After(out \o lines, Len(out \o lines) + 1, lines[i])
      BY <1>1, <2>2, <2>4, <2>5, AddLines, Zenon
  <2>7. written \in 0..Len(out) + Len(lines)
    <3>1. Len(out) \in Nat
        BY <1>1, LenProperties
    <3> QED
        BY <1>1, <2>2, <3>1
  <2>8. \A x \in defined : HasChart(x, current, out', Len(out') + 1)
                           /\ HasDims(x, dims, out', Len(out') + 1)
      BY <1>1, <2>0, <2>6, Zenon DEF Delivered, HasChart, HasDims
  <2> QED
      BY <2>0, <2>1, <2>6, <2>7, <2>8, Zenon
<1>4. CASE exit' # "SIGSEGV" /\ begun' = begun
  <2>1. out' = out /\ written' = written
    <3>1. out' = out \o <<>> /\ written' = written
        BY <1>4, Zenon DEF PrintsMetric, Prints
    <3> QED
        BY <1>1, <3>1, ConcatEmptySeq
  <2> QED
      BY <1>1, <2>1 DEF Delivered
<1> QED
    BY <1>2, <1>3, <1>4, Zenon

\* The charts of the entry in use.
LEMMA BlocksOfEntry ==
    ASSUME Invariants, Charted, Matched, pc \in {"status", "realpower", "vars"}
    PROVE  /\ ups_name \in UPS /\ nd_ups_name[ups_name] = clean_name(ups_name)
           /\ \A v \in nd_ups_vars[ups_name] \cup {"status"} : <<clean_name(ups_name), v>> \in defined
           /\ \A v \in nd_ups_vars[ups_name] \cup {"status", "ups.realpower"} :
                <<clean_name(ups_name), v>> \in ChartIds
           /\ Steady(ups_name) /\ HasLoadUsage(ups_name) => "ups.realpower" \in nd_ups_vars[ups_name]
<1>1. ups_name \in DOMAIN nd_ups_vars /\ DictionariesAgree /\ TypeInv
    BY EntryInUse DEF Invariants, RegistryInv
<1>2. /\ ups_name \in UPS /\ ups_name \in DOMAIN nd_ups_name
      /\ nd_ups_name[ups_name] = clean_name(ups_name)
      /\ \A v \in nd_ups_vars[ups_name] \cup {"status", "ups.realpower"} :
           <<clean_name(ups_name), v>> \in ChartIds
    BY <1>1, ChartsOfEntry
<1>3. Steady(ups_name) /\ HasLoadUsage(ups_name) => "ups.realpower" \in nd_ups_vars[ups_name]
    BY <1>1, Zenon DEF Matched, Matches
<1> QED
    BY <1>1, <1>2, <1>3 DEF Charted

\* Every step of a process keeps its output in order.
LEMMA PluginPipe ==
    ASSUME SystemInv, ProcessInv, PipeInv, PluginStep
    PROVE  PipeInv'
<1>1. pc # "exit" /\ UNCHANGED agentVars /\ (exit' = "SIGSEGV" => pc' = "exit")
  <2>1. exit # "SIGSEGV" \/ pc = "exit"
      BY Zenon DEF SystemInv
  <2> QED
      BY <2>1, PluginStepExit
<1>2. Invariants /\ Charted /\ Matched /\ TypeOK /\ Loops
    BY <1>1, Zenon DEF ProcessInv, Invariants, TypeInv
<1> USE DEF control, query, registry, loops, stdout
<1>3. CASE (QueryFails \/ ListStart \/ ListEnd \/ RegisterEnd \/ SendEnd) /\ UNCHANGED pipe
  <2>1. UNCHANGED defined
      BY <1>3 DEF QueryFails, ListStart, ListEnd, RegisterEnd, SendEnd
  <2> QED
      BY <1>1, <1>3, <2>1, PipeSame
<1>4. CASE (SweepEnd \/ \E n \in UPS : Sweep(n)) /\ UNCHANGED pipe
  <2>1. UNCHANGED defined
      BY <1>4 DEF SweepEnd, Sweep
  <2> QED
      BY <1>1, <1>4, <2>1, PipeSame
<1>5. CASE (Teardown \/ FlushFails \/ Flush) /\ UNCHANGED pipe
  <2>1. UNCHANGED defined
      BY <1>5 DEF Teardown, FlushFails, Flush
  <2> QED
      BY <1>1, <1>5, <2>1, PipeSame
<1>6. ASSUME NEW n \in UPS, ListNext(n),
             PrintsChart(<<clean_name(n), "status">>, pc' = "register")
      PROVE  PipeInv'
  <2>1. <<clean_name(n), "status">> \in ChartIds /\ (pc' = "register") \in BOOLEAN
      BY ChartIdsOfUPS
  <2>2. defined' \subseteq defined \cup (IF pc' = "register" THEN {<<clean_name(n), "status">>} ELSE {})
      BY <1>6 DEF ListNext, RegisterBegin
  <2> QED
      BY <1>1, <1>6, <2>1, <2>2, PipeChart
<1>7. ASSUME NEW v \in Charts, RegisterChart(v),
             PrintsChart(<<nd_ups_name[ups_name], v>>, ups_vars' # ups_vars)
      PROVE  PipeInv'
  <2>1. <<nd_ups_name[ups_name], v>> \in ChartIds /\ (ups_vars' # ups_vars) \in BOOLEAN
    <3>1. ups_name \in DOMAIN nd_ups_name
        BY <1>2, <1>7 DEF RegisterChart, Loops, HasEntry
    <3> QED
        BY <1>2, <3>1, CleanedName, ChartIdsOfUPS
  <2>2. defined' \subseteq defined
                   \cup (IF ups_vars' # ups_vars THEN {<<nd_ups_name[ups_name], v>>} ELSE {})
    <3>1. v \in ups_vars => <<nd_ups_name[ups_name], v>> \in defined
      <4>1. ups_name \in DOMAIN nd_ups_name /\ pc = "register"
          BY <1>2, <1>7 DEF RegisterChart, Loops, HasEntry
      <4> QED
          BY <1>2, <4>1, CleanedName DEF Charted
    <3> QED
        BY <1>7, <3>1 DEF RegisterChart
  <2> QED
      BY <1>1, <1>7, <2>1, <2>2, PipeChart
<1>8. ASSUME NEW v \in Charts, SendVar(v), PrintsMetric(<<nd_ups_name[ups_name], v>>)
      PROVE  PipeInv'
  <2>1. pc = "vars" /\ v \in nd_ups_vars[ups_name] /\ UNCHANGED defined
      BY <1>2, <1>8 DEF SendVar, Charted
  <2>2. /\ <<nd_ups_name[ups_name], v>> \in ChartIds
        /\ <<nd_ups_name[ups_name], v>> \in defined
      BY <1>2, <2>1, BlocksOfEntry
  <2> QED
      BY <1>1, <1>8, <2>1, <2>2, PipeMetric
<1>9. CASE SendStatus /\ PrintsMetric(<<nd_ups_name[ups_name], "status">>)
  <2>1. pc = "status" /\ UNCHANGED defined
      BY <1>9 DEF SendStatus
  <2>2. /\ <<nd_ups_name[ups_name], "status">> \in ChartIds
        /\ <<nd_ups_name[ups_name], "status">> \in defined
      BY <1>2, <2>1, BlocksOfEntry
  <2> QED
      BY <1>1, <1>9, <2>1, <2>2, PipeMetric
<1>10. CASE SendRealpower /\ PrintsMetric(<<nd_ups_name[ups_name], "ups.realpower">>)
  <2> DEFINE c == <<clean_name(ups_name), "ups.realpower">>
  <2>1. pc = "realpower" /\ UNCHANGED defined
      BY <1>10 DEF SendRealpower
  <2>2. /\ c \in ChartIds /\ nd_ups_name[ups_name] = clean_name(ups_name) /\ ups_name \in UPS
        /\ Steady(ups_name) /\ HasLoadUsage(ups_name) => c \in defined
      BY <1>2, <2>1, BlocksOfEntry
  <2>3. begun' # begun => HasLoadUsage(ups_name)
      BY <1>10 DEF SendRealpower, HasLoadUsage, Serves, GetsValue, FallbackWorks
  <2>4. Steady(ups_name) \/ Excused(c)
      BY <2>2 DEF Excused
  <2>5. begun' # begun => c \in defined \/ Excused(c)
      BY <2>2, <2>3, <2>4, Zenon
  <2>6. PrintsMetric(c)
      BY <1>10, <2>2
  <2> HIDE DEF c
  <2> QED
      BY <1>1, <2>1, <2>2, <2>5, <2>6, PipeMetric
<1> QED
    BY <1>3, <1>4, <1>5, <1>6, <1>7, <1>8, <1>9, <1>10, Zenon DEF PluginStep, FlushReturns

-----------------------------------------------------------------------------
(* What the parser makes of it. *)

\* The line at the head of lines in order: it is about a chart, and what it asks of
\* the parser holds unless the chart is excused.
LEMMA FirstLine ==
    ASSUME NEW s \in Seq(Lines), s # <<>>, NEW chart, NEW charts, NEW dimensioned,
           Framed(s, chart), Introduced(s, charts, dimensioned)
    PROVE  /\ Head(s) = s[1] /\ s[1].keyword \in Keywords /\ s[1].chart \in ChartIds
           /\ s[1].keyword \in {"DIMENSION", "SET", "END"} => s[1].chart = chart
           /\ s[1].keyword = "BEGIN" => s[1].chart \in charts \/ Excused(s[1].chart)
           /\ s[1].keyword = "SET" => s[1].chart \in dimensioned \/ Excused(s[1].chart)
<1>1. Len(s) \in Nat \ {0} /\ Head(s) = s[1]
    BY EmptySeq
<1>2. 1 \in 1..Len(s)
    BY <1>1
<1>3. s[1] \in Lines
    BY <1>2, ElementOfSeq
<1>4. \A line : ~After(s, 1, line)
    BY DEF After
<1>5. s[1].keyword \in {"DIMENSION", "SET", "END"} => s[1].chart = chart
    BY <1>2, Zenon DEF Framed
<1>6. /\ s[1].keyword = "BEGIN" => s[1].chart \in charts \/ Excused(s[1].chart)
      /\ s[1].keyword = "SET" => s[1].chart \in dimensioned \/ Excused(s[1].chart)
    BY <1>2, <1>4, Zenon DEF Introduced, HasChart, HasDims
<1> QED
    BY <1>1, <1>3, <1>5, <1>6 DEF Lines

\* The parser takes a line: what remains is in order, or the line was excused.
LEMMA ReadStep ==
    ASSUME PipeInv, Refused, ReadLine
    PROVE  PipeInv' /\ Refused'
<1> DEFINE line == out[1]
<1>1. /\ thread = "reading" /\ written > 0 /\ out' = Tail(out) /\ written' = written - 1
      /\ UNCHANGED vars
    BY DEF ReadLine
<1>2. /\ out \in Seq(Lines) /\ written \in 0..Len(out)
      /\ Framed(out, scope) /\ Introduced(out, current, dims)
      /\ pc # "exit" => \A c \in defined : Delivered(c)
    BY <1>1 DEF PipeInv
<1>3. Len(out) \in Nat /\ written \in 1..Len(out)
  <2>1. Len(out) \in Nat
      BY <1>2, LenProperties
  <2> QED
      BY <1>1, <1>2, <2>1
<1>4. out # <<>>
    BY <1>3
<1>5. /\ Head(out) = line /\ line.keyword \in Keywords /\ line.chart \in ChartIds
      /\ line.keyword \in {"DIMENSION", "SET", "END"} => line.chart = scope
      /\ line.keyword = "BEGIN" => line.chart \in current \/ Excused(line.chart)
      /\ line.keyword = "SET" => line.chart \in dims \/ Excused(line.chart)
    BY <1>2, <1>4, FirstLine
<1> HIDE DEF line
<1>6. CASE Accepts(line) /\ parser_action(line) /\ UNCHANGED rejected
           /\ (CountCollection \/ UNCHANGED workerVars)
  <2>1. thread' = thread /\ pc' = pc /\ defined' = defined /\ rejected' = rejected
      BY <1>1, <1>6 DEF CountCollection, workerVars, vars, control, stdout
  <2>2. /\ current \subseteq current' /\ dims \subseteq dims'
        /\ line.keyword # "END" => scope' = line.chart
        /\ line.keyword = "CHART" => line.chart \in current'
        /\ line.keyword = "DIMENSION" => line.chart \in dims'
      BY <1>5, <1>6 DEF parser_action, pluginsd_chart, pluginsd_dimension, pluginsd_begin,
                        pluginsd_set, pluginsd_end, parserVars, current
  <2>3. /\ Tail(out) \in Seq(Lines) /\ Len(Tail(out)) = Len(out) - 1
        /\ Framed(Tail(out), scope') /\ Introduced(Tail(out), current', dims')
        /\ \A c : HasChart(c, current, out, Len(out) + 1)
                    => HasChart(c, current', Tail(out), Len(Tail(out)) + 1)
        /\ \A c : HasDims(c, dims, out, Len(out) + 1)
                    => HasDims(c, dims', Tail(out), Len(Tail(out)) + 1)
      BY <1>2, <1>4, <2>2, TakeLine DEF line
  <2>4. written - 1 \in 0..Len(out) - 1
      BY <1>3
  <2>5. /\ out' \in Seq(Lines) /\ written' \in 0..Len(out')
        /\ Framed(out', scope') /\ Introduced(out', current', dims')
        /\ pc' # "exit" => \A c \in defined' : Delivered(c)'
      BY <1>1, <1>2, <2>1, <2>3, <2>4, Zenon DEF Delivered
  <2> QED
      BY <2>1, <2>5, Zenon DEF PipeInv, Refused
<1>7. CASE ~Accepts(line) /\ ProcessEnds(FALSE) /\ rejected' = line
  <2>1. thread' = "reap"
      BY <1>7 DEF ProcessEnds
  <2>2. line.chart # NoChart
      BY <1>5, NoChartAssumption
  <2>3. line.keyword \in {"BEGIN", "SET"} /\ Excused(line.chart)
      BY <1>5, <1>7, <2>2 DEF Accepts, Keywords, current
  <2> QED
      BY <1>7, <2>1, <2>3 DEF PipeInv, Refused
<1> QED
    BY <1>5, <1>6, <1>7, Zenon DEF ReadLine

\* Every step keeps the order of the lines.
LEMMA PipeStep ==
    SystemInv /\ ProcessInv /\ PipeInv /\ Refused /\ [SystemNext]_systemVars => PipeInv' /\ Refused'
<1> SUFFICES ASSUME SystemInv, ProcessInv, PipeInv, Refused, [SystemNext]_systemVars
             PROVE  PipeInv' /\ Refused'
    OBVIOUS
<1>1. CASE Spawn
  <2>1. /\ out' = <<>> /\ written' = 0 /\ defined' = {} /\ rejected' = rejected
      BY <1>1 DEF Spawn
  <2>2. out' \in Seq(Lines) /\ Len(out') = 0
      BY <2>1, EmptySeq
  <2>3. Framed(out', scope') /\ Introduced(out', current', dims')
      BY <2>2 DEF Framed, Introduced
  <2>4. written' \in 0..Len(out')
      BY <2>1, <2>2
  <2> QED
      BY <2>1, <2>2, <2>3, <2>4 DEF PipeInv, Refused
<1>2. CASE PluginStep
  <2>1. UNCHANGED rejected
      BY <1>2, PluginStepExit DEF agentVars
  <2> QED
      BY <1>2, <2>1, PluginPipe DEF Refused
<1>3. CASE Write
  <2>1. /\ thread = "reading" /\ written < Len(out) /\ written' = written + 1
        /\ UNCHANGED <<out, pc, defined, thread, known, dims, obsolete, scope, rejected>>
      BY <1>3 DEF Write, vars, control, stdout, agentVars, workerVars, parserVars
  <2>2. out \in Seq(Lines) /\ written \in 0..Len(out)
      BY <2>1 DEF PipeInv
  <2>3. written' \in 0..Len(out)
    <3>1. Len(out) \in Nat
        BY <2>2, LenProperties
    <3> QED
        BY <2>1, <2>2, <3>1
  <2> QED
      BY <2>1, <2>3, Zenon DEF PipeInv, Refused, Delivered, current
<1>4. CASE ReadLine
    BY <1>4, ReadStep
<1>5. CASE NoSpawn \/ EndOfFile \/ ReadTimeout \/ Terminate \/ HandleExit
  <2>1. thread' # "reading" /\ rejected' = rejected
    <3>1. CASE NoSpawn
        BY <3>1 DEF NoSpawn, SpawnFails
    <3>2. CASE EndOfFile \/ ReadTimeout
        BY <3>2 DEF EndOfFile, ReadTimeout, ReadEnds, ProcessEnds
    <3>3. CASE Terminate
        BY <3>3 DEF Terminate, agentVars, workerVars
    <3>4. CASE HandleExit
        BY <3>4 DEF HandleExit, Reap
    <3> QED
        BY <1>5, <3>1, <3>2, <3>3, <3>4
  <2> QED
      BY <2>1 DEF PipeInv, Refused
<1>6. CASE UNCHANGED systemVars
  <2>1. UNCHANGED <<out, written, pc, defined, thread, known, dims, obsolete, scope, rejected>>
      BY <1>6 DEF systemVars, pipe, vars, control, stdout, agentVars, workerVars, parserVars
  <2> QED
      BY <2>1, Zenon DEF PipeInv, Refused, Delivered, current
<1>7. CASE DeleteChart
  <2>1. UNCHANGED <<out, written, pc, defined, thread, dims, scope, rejected>>
      BY <1>7 DEF DeleteChart, svc_rrdhost_cleanup_charts_marked_obsolete,
                  pipe, vars, control, stdout, workerVars
  <2>2. current' = current
      BY <1>7 DEF DeleteChart, svc_rrdhost_cleanup_charts_marked_obsolete, current
  <2> QED
      BY <2>1, <2>2, Zenon DEF PipeInv, Refused, Delivered
<1> QED
    BY <1>1, <1>2, <1>3, <1>4, <1>5, <1>6, <1>7, Zenon DEF SystemNext

\* The order of the lines and what is refused hold throughout.
LEMMA PipeInvariant == SystemSpec => [](PipeInv /\ Refused)
<1>1. SystemInit => PipeInv /\ Refused
    BY DEF SystemInit, WorkerInit, PipeInv, Refused
<1> QED
    BY <1>1, SystemInvInit, SystemInvStep, ProcessInvariant, PipeStep, PTL DEF SystemSpec

\* For every upsd, every pipe and every point at which a process ends, the agent
\* refuses no line but a BEGIN or SET of load_usage.
THEOREM OnlyLoadUsageRejected == SystemSpec => []RejectsOnlyLoadUsage
<1>1. Refused => RejectsOnlyLoadUsage
    BY DEF Refused, RejectsOnlyLoadUsage, Excused
<1> QED
    BY <1>1, PipeInvariant, PTL

\* Moreover it is load_usage of a UPS whose variables come and go: an agent whose
\* UPSes all serve the same variables all the time refuses nothing.
THEOREM SteadyNeverRejected ==
    (\A n \in UPS : Steady(n)) => (SystemSpec => [](rejected = NoLine))
<1> SUFFICES ASSUME \A n \in UPS : Steady(n) PROVE SystemSpec => [](rejected = NoLine)
    OBVIOUS
<1>1. Refused => rejected = NoLine
    BY DEF Refused, Excused
<1> QED
    BY <1>1, PipeInvariant, PTL

\* Under the agent, with its restarts and kills, a running process has its registry
\* in step with upsd and its cycles complete, as UpsdPlugin has on its own.
THEOREM RunningProcessInOrder ==
    SystemSpec => [](pc # "exit" => /\ DictionariesAgree /\ SeenTracksListing
                                    /\ RegistryMatchesListing /\ RegisteredChartsDefined
                                    /\ CycleComplete /\ BlocksPerCycle)
<1>1. ProcessInv => (pc # "exit" => /\ DictionariesAgree /\ SeenTracksListing
                                    /\ RegistryMatchesListing /\ RegisteredChartsDefined
                                    /\ CycleComplete /\ BlocksPerCycle)
    BY ChartedDefined, SentComplete, CountedBound, Zenon DEF ProcessInv, Invariants, RegistryInv
<1> QED
    BY <1>1, ProcessInvariant, PTL
=============================================================================
