-------------------------- MODULE CollectionTiming --------------------------
(***************************************************************************)
(* How often the plugin collects: the command line, the heartbeat, and the *)
(* time the agent waits for something to read.                             *)
(*                                                                         *)
(* Time is counted in units of 1/Second seconds and kept relative: the     *)
(* real-time clock modulo the heartbeat's step, the time since the last    *)
(* beat and the time since the agent last read something.  The clock is    *)
(* not set while the plugin runs.                                          *)
(***************************************************************************)
EXTENDS Integers, Sequences

CONSTANTS
    Arguments,   \* command lines: <<>>, or the characters of COLLECTION_FREQUENCY
    NotDigit,    \* any character that is no digit; digits are the numbers 0 to 9
    Modulus,     \* 2^32: unsigned int
    Limit,       \* 86400 seconds
    Second,      \* units per second
    Randomness,  \* hb->randomness, less than a second
    Timeout,     \* two minutes, in units
    MaxBusy,     \* longest time the queries of one cycle take
    MaxLate      \* longest time the plugin sleeps too long

ASSUME TimingAssumption ==
    /\ Modulus \in Nat \ {0} /\ Limit \in 2..Modulus \div 2
    /\ Second \in Nat \ {0} /\ Timeout \in Nat \ {0}
    /\ Randomness \in 0..Second - 1
    /\ MaxBusy \in Nat /\ MaxLate \in Nat

ASSUME ArgumentsAssumption ==
    /\ NotDigit \notin 0..9
    /\ Arguments \subseteq Seq(0..9 \cup {NotDigit})

VARIABLES
    pc,            \* "parse", "start", "sleep", "collect", "refused" or "killed"
    argument,      \* argv[1]
    update_every,  \* netdata_update_every, in seconds
    phase,         \* now % tick
    since,         \* now - hb->realtime
    beaten,        \* hb->realtime is not 0
    dt,            \* what heartbeat_next returned
    silence,       \* time since the agent read something
    idle,          \* cycles without a line since then
    cycles         \* cycles flushed so far, 2 for more

vars == <<pc, argument, update_every, phase, since, beaten, dt, silence, idle, cycles>>

tick == update_every * Second

-----------------------------------------------------------------------------
\* How many digits s begins with.
LeadingDigits(s) ==
    CHOOSE n \in 0..Len(s) :
      /\ \A i \in 1..n : s[i] # NotDigit
      /\ n = Len(s) \/ s[n + 1] = NotDigit

\* str2u: the leading digits one by one, in unsigned arithmetic.
str2u(s) ==
    LET n[i \in 0..LeadingDigits(s)] ==
          IF i = 0 THEN 0 ELSE (n[i - 1] * 10 + s[i]) % Modulus
    IN  n[LeadingDigits(s)]

\* The conversion to int; a sign does not come this far.
str2i(s) == IF str2u(s) >= Modulus \div 2 THEN str2u(s) - Modulus ELSE str2u(s)

\* Slips: the upper bound is not tested, or is one too low.
Accepted_NoLimit(s) == s[1] # NotDigit /\ str2i(s) > 0
Accepted_BelowLimit(s) == s[1] # NotDigit /\ str2i(s) \in 1..Limit - 2

\* A negative number becomes a huge unsigned long.
Accepted(s) == s[1] # NotDigit /\ str2i(s) \in 1..Limit - 1

Init ==
    /\ pc = "parse" /\ argument \in Arguments
    /\ update_every = 1 /\ phase = 0 /\ since = 0 /\ beaten = FALSE
    /\ dt = 0 /\ silence = 0 /\ idle = 0 /\ cycles = 0

\* The process starts at any time of the clock.
parse_command_line ==
    /\ pc = "parse"
    /\ IF argument = <<>> \/ Accepted(argument)
       THEN /\ pc' = "start"
            /\ update_every' = IF argument = <<>> THEN 1 ELSE str2i(argument)
            /\ phase' \in 0..update_every' * Second - 1
       ELSE pc' = "refused" /\ UNCHANGED <<update_every, phase>>
    /\ UNCHANGED <<argument, since, beaten, dt, silence, idle, cycles>>

\* In a stretch of d units at most the longest of the pauses between two writes
\* counts: stdout's buffer may be full, and written, at any time e on the way.
Quiet(d) == {silence + d} \cup {d - e : e \in {e \in 0..d : silence + e < Timeout}}

Elapse(d) ==
    /\ phase' = (phase + d) % tick
    /\ since' = since + d

\* main() up to the heartbeat: connections, registration.
Start(d) ==
    /\ pc = "start"
    /\ silence' \in {q \in Quiet(d) : q < Timeout}
    /\ Elapse(d)
    /\ pc' = "sleep"
    /\ UNCHANGED <<argument, update_every, beaten, dt, idle, cycles>>

\* Slips: a whole step and the randomness from now on; a step of one second
\* whatever the frequency; a beat is skipped.
NextBeat_Drifts == tick + Randomness
NextBeat_Seconds == Second - (phase % Second) + Randomness
NextBeat_Skips == 2 * tick - phase + Randomness

\* next - now of heartbeat_next: a beat is Randomness after a multiple of tick.
NextBeat == tick - phase + Randomness

\* heartbeat_next sleeps, perhaps longer than asked.
heartbeat_next(late) ==
    LET d == NextBeat + late IN
    /\ pc = "sleep"
    /\ silence + d < Timeout
    /\ silence' = silence + d
    /\ phase' = (phase + d) % tick
    /\ dt' = IF beaten THEN since + d ELSE 0
    /\ since' = 0 /\ beaten' = TRUE
    /\ pc' = "collect"
    /\ UNCHANGED <<argument, update_every, idle, cycles>>

\* A cycle takes d units and is over.
Cycle(d) ==
    /\ pc = "collect"
    /\ Elapse(d)
    /\ cycles' = IF cycles = 2 THEN 2 ELSE cycles + 1
    /\ pc' = "sleep"
    /\ UNCHANGED <<argument, update_every, beaten, dt>>

\* A cycle in which a UPS is listed prints at least its status, and fflush writes it;
\* the first fflush also writes what is left of the registration.
Collect(d) ==
    /\ Cycle(d)
    /\ \E q \in Quiet(d) : q < Timeout
    /\ silence' = 0 /\ idle' = 0

\* A cycle whose LIST UPS is empty prints nothing, and fflush has nothing to write.
CollectNothing(d) ==
    /\ Cycle(d)
    /\ silence + d < Timeout
    /\ silence' = silence + d /\ idle' = idle + 1

\* buffered_reader_read_timeout: nothing to read for so long that the agent
\* stops reading and terminates the plugin.
TimesOut(d) ==
    /\ silence + d >= Timeout
    /\ pc' = "killed"
    /\ UNCHANGED <<argument, update_every, phase, since, beaten, dt, silence, idle, cycles>>

Next ==
    \/ parse_command_line
    \/ \E d \in 0..MaxBusy : Start(d) \/ Collect(d) \/ CollectNothing(d)
    \/ \E late \in 0..MaxLate : heartbeat_next(late)
    \/ pc \in {"start", "collect"} /\ TimesOut(MaxBusy)
    \/ pc = "sleep" /\ TimesOut(NextBeat + MaxLate)

Spec == Init /\ [][Next]_vars

-----------------------------------------------------------------------------
\* Types of the variables: the frequency a process runs with is one that was
\* accepted, and the agent's wait is over when its time is (parse_command_line,
\* buffered_reader_read_timeout).
TypeOK ==
    /\ pc \in {"parse", "start", "sleep", "collect", "refused", "killed"}
    /\ argument \in Arguments /\ update_every \in 1..Limit - 1
    /\ phase \in 0..tick - 1 /\ since \in Nat /\ beaten \in BOOLEAN
    /\ dt \in Nat /\ silence \in 0..Timeout - 1 /\ idle \in Nat /\ cycles \in 0..2

\* The number an argument is written as.
Value(s) ==
    LET n[i \in 0..Len(s)] == IF i = 0 THEN 0 ELSE n[i - 1] * 10 + s[i]
    IN  n[Len(s)]

\* argv[1] is a number.
IsNumber(s) == s # <<>> /\ \A i \in DOMAIN s : s[i] # NotDigit

\* A number that an unsigned int holds is accepted exactly if it is in [1, 86400),
\* leading zeros, negative ints and the bounds included, and the plugin runs with
\* the very frequency asked for (parse_command_line, str2i).
FrequencyExact ==
    IsNumber(argument) /\ Value(argument) < Modulus =>
      /\ pc = "refused" => Value(argument) \notin 1..Limit - 1
      /\ pc \notin {"parse", "refused"} =>
           Value(argument) \in 1..Limit - 1 /\ update_every = Value(argument)

\* "COLLECTION_FREQUENCY argument must be between [1,86400)": the plugin does not
\* run with a number outside this range (the message of parse_command_line).
FrequencyInRange ==
    IsNumber(argument) /\ pc \notin {"parse", "refused"} => Value(argument) \in 1..Limit - 1

\* The agent gives up a plugin only if it had nothing to print in so many cycles in a
\* row, or its cycles take so long, that this fills the two minutes.  A plugin that
\* prints in each cycle (idle = 0) is safe if registration, a beat and a cycle fit.
NoFalseTimeout ==
    pc = "killed" =>
      (idle + 1) * (tick + Randomness + MaxLate + MaxBusy) + MaxBusy >= Timeout

\* A plugin whose upsd lists no UPS is given up, though nothing is wrong with it: from
\* the first to the last of any cycles in a row that print nothing it is less than the
\* two minutes.
IdleGivenUp == idle > 0 => (idle - 1) * tick < Timeout

\* An accepted frequency above the agent's two minutes, by more than a cycle takes
\* and the first beat was late, collects at most once in the life of a process: the
\* first beat may come soon, the second never.
SlowCollectsOnce == tick >= Timeout + MaxBusy + MaxLate => cycles =< 1

\* The dt of a BEGIN line is a multiple of the frequency but for the time the
\* plugin overslept, and one step when the cycle is shorter than that: beats do
\* not drift, none comes twice, none is skipped without need (heartbeat_next).
BeatsAligned ==
    dt # 0 =>
      /\ \E k \in 1..2 + (MaxBusy + MaxLate) \div tick :
           dt \in k * tick - MaxLate..k * tick + MaxLate
      /\ Randomness + MaxLate + MaxBusy < tick => dt =< tick + MaxLate
=============================================================================
