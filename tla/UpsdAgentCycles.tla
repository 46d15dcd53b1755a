--------------------------- MODULE UpsdAgentCycles --------------------------
(***************************************************************************)
(* UpsdAgent with a history variable that follows the output of one cycle  *)
(* from the fflush that ends it to the parser.                             *)
(*                                                                         *)
(* A cycle to follow is chosen when the process comes to its fflush; which *)
(* one is left open, so what holds for the cycle that is followed holds    *)
(* for all.  The variable changes nothing in UpsdAgent.                    *)
(***************************************************************************)
EXTENDS UpsdAgent

VARIABLE due    \* lines to read to the end of the cycle that is followed; 0 for none

cycleVars == <<systemVars, due>>

CycleInit == SystemInit /\ due = 0

ReachesFlush == thread = "reading" /\ pc # "flush" /\ pc' = "flush"

PluginStepC ==
    /\ PluginStep
    /\ \/ ReachesFlush /\ due = 0 /\ due' = Len(out')
       \/ UNCHANGED due

\* A line that is refused ends the reading, and nothing is due any more.
ReadLineC ==
    /\ ReadLine
    /\ due' = IF thread' = "reading" /\ due > 0 THEN due - 1 ELSE 0

\* The agent gives the process up.
ReadTimeoutC == ReadTimeout /\ due' = 0

SpawnC       == Spawn /\ UNCHANGED due
NoSpawnC     == NoSpawn /\ UNCHANGED due
WriteC       == Write /\ UNCHANGED due
EndOfFileC   == EndOfFile /\ UNCHANGED due
TerminateC   == Terminate /\ UNCHANGED due
HandleExitC  == HandleExit /\ UNCHANGED due
DeleteChartC == DeleteChart /\ UNCHANGED due

CycleNext ==
    \/ SpawnC \/ NoSpawnC \/ PluginStepC \/ WriteC \/ ReadLineC
    \/ EndOfFileC \/ ReadTimeoutC \/ TerminateC \/ HandleExitC \/ DeleteChartC

CycleSpec == CycleInit /\ [][CycleNext]_cycleVars

\* As in SystemFairSpec.
CycleFairSpec ==
    /\ CycleSpec
    /\ WF_cycleVars(PluginStepC)
    /\ WF_cycleVars(MustWrite /\ UNCHANGED due)
    /\ WF_cycleVars(SpawnC \/ NoSpawnC \/ ReadLineC \/ EndOfFileC \/ TerminateC \/ HandleExitC)

-----------------------------------------------------------------------------
\* The agent does not come to the end of a process's output before it has read a
\* cycle that was flushed to its last line, whatever ends the process afterwards: a
\* crash in a later cycle loses lines of that cycle only (fflush in main).
FlushedNotLost == thread # "reading" => due = 0

\* Every cycle that comes to its fflush is read to its last line, unless the agent
\* refuses a line or gives the process up: nothing of it stays in the buffer, and a
\* full pipe blocks neither side for ever.
CycleRead == due > 0 ~> due = 0
=============================================================================
