# upsd.plugin: specification

TLA+ modules for `upsd_plugin.c`, a Netdata plugin that reads UPSes from a NUT
`upsd` through libupsclient and prints charts in the plugins.d protocol, and for
the parts of Netdata it stands on: the dictionary it keeps its registry in, the
heartbeat, and the agent that reads and supervises it. The modules are
translated from the code; where a doc or a comment says something else, a run
shows the difference.

## The system

| part | state | operations | what is hard about it |
| --- | --- | --- | --- |
| main loop and registry (`main`, `register_ups`) | `nd_ups_name`, `nd_ups_vars`, `nd_ups_seen`, the list being read, the entry in use | register, collect, flush, delete unseen, exit | upsd changes between any two queries; the three dictionaries must stay in step over any sequence of listings; two kinds of keys (raw and cleaned names) |
| `ups.status` scanner (`send_metric_ups_status`) | pointer, status bits | one case per first letter | fixed skips, `strchr` on the last word, the NUL |
| load_usage (`send_metric_ups_realpower`) | none | read, or compute from two other variables | registered under one variable, sent from others |
| command line, heartbeat | frequency, last beat | parse once; sleep | `str2i` wraps; the agent's timeout runs meanwhile, also through cycles with nothing to print |
| libnetdata dictionary | index, list, reference counts, counters | set, get, del, traverse, destroy | deletion inside a traversal |
| agent: parser | charts, dimensions, obsolete charts, chart in scope | CHART, DIMENSION, BEGIN, SET, END, deletion of obsolete charts | a refused line disables the plugin; charts outlive a process |
| agent: supervisor (`plugins_d.c`) | failures in a row, successful collections | spawn, read, time out, terminate, restart, disable | exit codes against history |
| upsd, libupsclient | external | LIST UPS, GET VAR | anything may fail at any time |

The plugin is one thread. It asks `upsd` on two connections (`ups1` for the
list, `ups2` for variables), prints to a block-buffered pipe and flushes once
per cycle. One thread of the agent reads the pipe and supervises the process.

## Modules

| module | models | kind |
| --- | --- | --- |
| `UpsdPlugin` | main loop, registry, what is printed | specification |
| `UpsStatus` | the scanner | specification |
| `DictionaryMap` | what the plugin relies on when it uses a dictionary | abstract specification |
| `Dictionary` | the list of reference counted items | specification, implements `DictionaryMap` |
| `CollectionTiming` | command line, heartbeat, the agent's read timeout | specification |
| `PluginSupervisor` | `pluginsd_worker_thread` | specification |
| `PluginsdParser` | the handlers of the keywords the plugin prints | component of `UpsdAgent` |
| `UpsdAgent` | plugin, pipe, parser and supervisor together | composition |
| `UpsdAgentCycles` | `UpsdAgent` with a history variable that follows one cycle's output | specification |
| `UpsdPluginProofs` | types and registry | proofs |
| `UpsdOutputProofs` | CHART lines, blocks, crashes | proofs |
| `DictionaryProofs` | `Dictionary` and its refinement | proofs |
| `UpsdAgentProofs` | supervisor and composition | proofs |
| `UpsdPipeProofs` | the plugin under the agent, the lines between them | proofs |
| `UpsdCycleProofs` | what a flushed cycle's lines come to | proofs |
| `UpsStatusProofs` | the scanner | proofs |
| `CollectionTimingProofs` | command line, heartbeat, read timeout | proofs |
| `MCUpsdPlugin`, `MCUpsStatus`, `MCDictionary`, `MCCollectionTiming`, `MCUpsdAgent` | | instances for TLC |

A definition whose name has a suffix (`RegisterEnd_SkipsEmpty`) is the
definition without the suffix with a slip in it. It is used by no
specification; it stands beside the original to say which mistake which
property is there for, and PROJECT.json pairs them.

### UpsdPlugin

`pc` is the place in `main()`: `start`, `wait` (heartbeat), `list` (before a
`upscli_list_next`), `register`, `status`, `realpower`, `vars`, `flush`,
`sweep` (the deletion loop), `exit`. An action is the code between two answers
of upsd, because between two answers upsd may change; a GET and the GETs of its
fallback are one action whose outcomes are independent.

| action | code |
| --- | --- |
| `QueryFails` | every `return NETDATA_PLUGIN_EXIT_AND_DISABLE` after a libupsclient call |
| `ListStart`, `ListNext`, `ListEnd` | the registration loop (702-725) and the loop of the main cycle (737-755); `started` tells which |
| `RegisterChart`, `RegisterEnd` | `register_ups`; its head is `RegisterBegin`, part of `ListNext` |
| `SendStatus`, `SendRealpower`, `SendVar`, `SendEnd` | 764-783 and the functions called there |
| `FlushFails`, `Flush` | 786-800 |
| `Sweep`, `SweepEnd` | 802-814 |
| `Teardown` | 817-834, from each of the tests that leave the loop |

The constant `upsd` gives, for each name and variable, the set of results a GET
may have: `{"value"}` or `{"NULL"}` for a UPS that always or never serves it,
both for one that comes and goes, and `"unscannable"` for a status the scanner
runs off. `listing` is chosen anew at each `ListStart`.

Printed text is reduced to two facts: which charts a CHART line gave (`defined`)
and how many blocks each chart got in this cycle (`begun`). Metric values,
labels and dimensions decide nothing in this code. The order of traversals is
left open, so the results hold for the code's order too.

`exit_initiated_get()` may return true at each of its two tests. The 14400
second limit may be reached at any flush.

### UpsStatus

One action per iteration of the scanner's loop. The two tables are the two
levels of `switch`: first character, second character, status, skip.
`Reported(s, p)` is the reference: it splits the value into words and compares
whole words. Past the NUL the next byte may happen to be 0 (the call sends) or
not (nothing is known any more); both are allowed. When `strchr` finds no space
the pointer becomes 0 (NULL), and the loop's `c++` and `*c` are the action
`Fault`. `TypeOK` bounds the pointer: it is NULL or at most six bytes past the
NUL, where the longest case takes it. A word is *good* if it is a known status other than OFF,
or one the default cases take for OTHER that is not the last one.

### Dictionary

The plugin creates its dictionaries with `DICT_OPTION_SINGLE_THREADED`, where
the locks do nothing, so a call is an action. Items are numbered in the order
they are appended, which makes the linked list a set of numbers. `Garbage` is
what `garbage_collect_pending_deletes` frees; it is called when an item is
linked or unlinked. A deletion of the item a traversal stands on only marks it
(`MarkDeleted`); it is freed by a later call.

The guards are how the plugin uses the dictionary: entries are set outside
traversals of that dictionary only, deleted inside and outside, a loop runs to
its end (none has a `break`), a dictionary is destroyed outside traversals of
it. `dictionary_get` acquires and releases in one call and changes nothing. The
branch of `dictionary_destroy` for a dictionary with referenced items cannot be
taken (`DestroyedAtOnce`) and is not modelled. `dictionary.h` (line 260) forbids
altering a dictionary inside `dfe_start_read`, because the read lock is held and
the deletion would wait for it; the plugin's deletion loop does just that. It
does not wait, because a single-threaded dictionary takes no locks; that nothing
else goes wrong is what `CursorAlive` and `ImplementsMap` show.

`DictionaryMap` is the view `UpsdPlugin` has of it: `map` is `nd_ups_name` there
and `remaining` is `sweep`. `ImplementsMap` connects the two.

### CollectionTiming

Time is an integer, kept relative: the clock modulo the step, the time since
the last beat and the time since the agent last read something. Digits,
modulus, limit, length of a second and timeout are constants; the instance has
five-bit numbers in place of 32, 12 seconds in place of 86400, and 6 in place of
120, which keeps their order. Cycles take any time up to `MaxBusy` and sleeps
may be late by up to `MaxLate`. Output may be written before the flush at any
moment (a full stdout buffer), which `Quiet` says. A cycle lists a UPS and prints
(`Collect`), or lists none and leaves the agent without a line
(`CollectNothing`); `idle` counts the latter. The clock is not set while the
plugin runs.

### UpsdAgent

`PluginSupervisor` is the worker thread: `spawn`, `reading`, `reap`, `gone`, and
the two handlers as predicates that say whether the plugin stays enabled.
Numbers of collections are kept as "some" or "none"; the code asks nothing else
of them. `PluginsdParser` has what the handlers change: the charts the agent
has (`known`), those with dimensions (`dims`), those marked obsolete (`obsolete`)
and the chart in scope. `UpsdAgent` puts them around `UpsdPlugin`:

- each step of the plugin appends the lines it prints to `out`; the first
  `written` of them are in the pipe, the others in stdout's buffer, which may be
  written at any time and must be in `fflush` and `exit`;
- the pipe holds `PipeSize` lines; a plugin that flushes waits for room;
- a crash loses the buffer; an exit does not;
- the agent reads a line, accepts or refuses it, sees the end, or times out;
  then it closes the pipe (the plugin's next flush fails) and terminates what
  does not end;
- the next process starts with new dictionaries, while the agent's charts stay,
  marked obsolete; a CHART line or a collection takes the mark off;
- the service thread may delete a marked chart at any time, one at a time
  (`DeleteChart`). `svc_rrddim_obsolete_to_archive` frees only dimensions that are
  marked themselves, and those of this plugin never are, so only a chart cut off
  before its first DIMENSION goes. The hour it waits is not modelled, except that
  a chart in scope, which was looked for just now, is not deleted.

`UpsdAgentCycles` adds `due`: when a process reaches its `fflush`, the cycle may be
chosen to be followed, and `due` is how many lines are left to read to its last one.
It is set to 0 when the agent refuses a line or gives the process up.

## What the runs check

| run | instance | shows |
| --- | --- | --- |
| `flaky` | a plain name and a dotted one whose every GET may fail, and a steady one with the name the dotted one is cleaned to; three charts | the dictionaries agree with each other (`DictionariesAgree`), with the list (`SeenTracksListing`, `RegistryMatchesListing`) and with the CHART lines (`RegisteredChartsDefined`), a flushed cycle is complete (`CycleComplete`) and no chart gets more blocks than the code has for it, one, and two for load_usage (`BlocksPerCycle`); `SteadyBegins` and `SoundNoCrash` hold UPS by UPS; cycles end (`CycleEnds`); a plain UPS that left is forgotten (`UnlistedForgotten`) |
| `scan` | values with known words, OFF and unknown words in any place | right up to the first bad word (`RightUpToBadWord`); only bad words leave the string (`OnlyBadWordsOverrun`); without one the call sends (`ScannableSends`) |
| `dictionary` | three keys, two values, five items | nothing in use is freed (`CursorAlive`), counters are exact, nothing waits for destruction, one item per name (`OneItemPerName`), the map is implemented (`ImplementsMap`), loops end (`TraversalEnds`) |
| `timing` | all arguments of up to two digits and a hundred of three | a number below 2^32 is accepted exactly if it is in the range, and is the frequency (`FrequencyExact`); beats do not drift (`BeatsAligned`); the timeout hits nobody who prints and is fast enough (`NoFalseTimeout`), it always hits who has nothing to print (`IdleGivenUp`), and who is slower than the timeout, a cycle and the lateness of a beat together never reaches a second cycle (`SlowCollectsOnce`) |
| `agent` | one UPS with two charts and flaky GETs, a pipe of two lines, threshold 1 | a plugin that never collects is given up (`FutileGivenUp`); only load_usage is ever refused (`RejectsOnlyLoadUsage`); a crashed or refused process is the last (`LastProcess`); a flushed cycle is not lost in a later crash (`FlushedNotLost`) and is read to its last line (`CycleRead`); ends are noticed (`EndNoticed`); the four-hour restart works (`Restarted`) |

Bounds. Two names are enough to have one in use, one listed and one gone at the
same time; a third is needed only for two that are cleaned to the same. Three
charts are the one with the fallback, one the fallback reads and one that is
neither; in `agent` the last two are one. The number of cycles, of processes and
of changes of upsd's mind is not bounded. In `dictionary` five items let a name
be set, deleted in a traversal and set again while others are there. In `agent`
a pipe of two lines is shorter than a block, so that the plugin blocks in the
middle of one, and a threshold of one is the smallest with a failure that is
forgiven.

`SeenTracksListing`, `RegistryMatchesListing` and `UnlistedForgotten` are about
*plain* names: names cleaning leaves alone and no other name is cleaned to.
`Plain` is part of those properties because the deletion loop uses cleaned names
as keys; the run `unseen` shows what happens to the others. `BlocksPerCycle` is about
the wider set of names that share their cleaned form with no other (`Alone`), for two
that share it add up their blocks.

A UPS is *steady* if each of its variables is always or never served, and
*sound* if moreover load_usage need not be computed and its status can be
scanned. `SteadyBegins` and `SoundNoCrash` say that the trouble the runs
`undefined`, `fallback` and `alarm` show is caused by no other UPS.

Deadlock is not checked where the process, or the worker thread, may end.

Seven runs are expected to find a violation. Each states what a comment or a doc
says.

| run | property | what happens |
| --- | --- | --- |
| `fallback` | `NoCrash` | a UPS with `ups.load` and `ups.realpower.nominal` but no `ups.realpower`: line 777 gets NULL, line 778 dereferences it, in the first cycle |
| `undefined` | `BeginsDefinedCharts` | `ups.realpower` becomes available after registration: BEGIN without CHART |
| `unseen` | `UnseenDeleted` | a dotted name is looked up and deleted under its cleaned form, so it stays |
| `off` | `ReportsEveryStatus` | OFF also reports FSD |
| `alarm` | `EveryCallSends` | `OL ALARM` makes the scanner follow NULL |
| `exitcode` | `DisableExitFinal` | upsd is lost after a collection, the plugin exits with 1, and the agent runs it again; plugins.d/README.md says it is disabled |
| `wrap` | `FrequencyInRange` | a frequency of 2^32 + 1 (here 33 with five-bit numbers) runs as 1; the message at line 370 says it must be in [1,86400) |

More differences need no run: load_usage is sent at line 773 and again at line
779, both times with the `dt` of the heartbeat; `b.c` and `b_c` are cleaned to
one name and share their charts (line 556); entries are added to the
dictionaries in the main loop (lines 760 and 764), which README.md says does not
happen; a frequency above two minutes is accepted though the agent ends such a
plugin after its first collection.

What the `agent` run says to an operator: a plugin that starts while upsd is
down exits with 1 before it collected anything and is not run again; one that
loses upsd later is. What the `timing` run says: a plugin whose upsd lists no UPS
prints nothing and is ended after two minutes; by `FutileGivenUp` it is given up
for good after some runs if it never had a UPS.

## Fairness

In `UpsdPlugin` and `UpsStatus` fairness is weak fairness of the whole next-state
relation: the plugin is a single thread and its loops wait for nothing but the
heartbeat and the calls of libupsclient. That those calls return, with an error
if need be, is assumed of the library; a `upsd` that accepts a query and never
answers is outside the liveness results. Every answer may be a failure.

In `Dictionary` the loop over a dictionary goes on, because each loop body ends.
In `UpsdAgent` the plugin's thread and the agent's thread are each weakly fair; a
write is only certain where the code makes one (`MustWrite`), and a read timeout
is possible at any moment at which there is nothing to read and never certain.

## What is proved

The proofs hold for every value of the constants that satisfies the named
assumptions of the modules, which TLC evaluates in the runs.

`UpsdPluginProofs` and `UpsdOutputProofs`, for every finite set of names, every
table with a row for `ups.realpower` and every `upsd`:

| theorem | states |
| --- | --- |
| `TypeCorrect` | `Spec => []TypeOK` |
| `DictionariesAlwaysAgree` | `Spec => []DictionariesAgree` |
| `SeenAlwaysTracksListing` | `Spec => []SeenTracksListing` |
| `RegistryAlwaysMatchesListing` | `Spec => []RegistryMatchesListing` |
| `RegisteredChartsAlwaysDefined` | `Spec => []RegisteredChartsDefined` |
| `CycleAlwaysComplete` | `Spec => []CycleComplete` |
| `BlocksAlwaysBounded` | `Spec => []BlocksPerCycle` |
| `SteadyBeginsDefined` | `Spec => SteadyBegins` |
| `SoundNeverCrashes` | `Spec => []SoundNoCrash` |

The argument is a tower of invariants, each inductive relative to those below.

1. `TypeInv` adds `Loops` to the types: the entry in use was taken from the list
   and is registered. Without it `RegisterChart` could define a chart of a name
   that is in no dictionary.
2. `RegistryInv` adds `Registered` (while a list is read, what was returned is
   registered; the registration loop registers nothing else) and `Swept`. `Swept`
   describes the middle of the deletion loop, where neither `SeenTracksListing`
   nor `RegistryMatchesListing` says anything: an entry not visited yet is
   flagged exactly if listed, a visited one is unflagged and kept exactly if
   listed.
3. `Charted`: each entry, also the one being filled, has its CHART lines.
4. `Sent`: everything of the entries done, and of the entry in use the status
   block and the charts visited.
5. `Counted`: the blocks sent and those the rest of the cycle may still send
   (`Left`) are together no more than the code has for the chart. The bound on what
   is sent is not inductive without what is left.
6. `Matched`: for each steady name, load_usage is registered if and only if it
   can be sent. `Blamed` keeps the entry in use after the process has ended, so
   that a crash can be charged to it.

`DictionaryProofs`, for every set of keys and values and every number of items:

| theorem | states |
| --- | --- |
| `TypeCorrect`, `CursorAlwaysAlive`, `CountersAlwaysExact`, `AlwaysDestroyedAtOnce`, `AlwaysOneItemPerName` | `Spec => []TypeOK`, `[]CursorAlive`, `[]CountersExact`, `[]DestroyedAtOnce`, `[]OneItemPerName` |
| `DictionaryImplementsMap` | `Spec => ImplementsMap` |

The invariant `Inv` fixes the reference counts (1 for the cursor, 0 for the
others), the index (exactly the unmarked items, under their names) and which
items may be marked: the cursor, and those whose reference is gone and which
`pending_deletion_items` counts. From the last one `GarbageAll` follows: the
collector, which stops after `pending_deletion_items` items, frees all it could.
Then an item appended later never meets a dead one of its name. The refinement
has one lemma per call; `MapYield` is the step that needs the list order.

`UpsdAgentProofs`, for every threshold and pipe size:

| theorem | states |
| --- | --- |
| `FutileAlwaysGivenUp`, `SystemGivesUp` | `WorkerSpec => []FutileGivenUp`, `SystemSpec => []FutileGivenUp` |
| `SystemIsWorker` | `SystemSpec => WorkerSpec`: the composition uses the supervisor as specified |
| `LastProcessFinal` | `SystemSpec => LastProcess` |

`SystemInv` says where a crash or a refused line is remembered: a refused line
in `enabled`, from the moment the parser stops; a crash in the exit status,
which stays until the handler has disabled the plugin.

`UpsdPipeProofs`, for every `upsd`, pipe size and threshold (`NoChart` is no chart,
`NoChartAssumption`):

| theorem | states |
| --- | --- |
| `OnlyLoadUsageRejected` | `SystemSpec => []RejectsOnlyLoadUsage` |
| `SteadyNeverRejected` | if every UPS is steady, `SystemSpec => [](rejected = NoLine)` |
| `RunningProcessInOrder` | under the agent, while a process runs, `DictionariesAgree`, `SeenTracksListing`, `RegistryMatchesListing`, `RegisteredChartsDefined`, `CycleComplete` and `BlocksPerCycle` hold |

`ProcessInv` carries the invariants of the plugin over to the composition: a step of
the composition is a step of `UpsdPlugin`, leaves it alone, ends it or starts it anew,
and a process that was killed promises nothing. What the parser will do with a line
depends on the lines before it, some already read, so `PipeInv` describes `out` as
a whole: each line about a dimension and each END follows a line of its chart that
leaves it in scope (`Framed`), a block follows the CHART and DIMENSION lines of its
chart or finds them with the parser (`Introduced`), unless it is load_usage of a UPS that is
not steady (`Excused`), and what a process has defined is on its way or has arrived
(`Delivered`). `AddLines`, `CutLines` and `TakeLine` say that printing, a crash that
loses the buffer and reading a line keep this; a process that ends between CHART
and DIMENSION is the case that makes charts and dimensions two sets. The charts
an earlier process left are never needed, for a new one defines its own again:
`PipeInv` counts on those that are not marked obsolete only (`current`), which a
deletion leaves alone.

`UpsdCycleProofs`, for every `upsd`, pipe size and threshold:

| theorem | states |
| --- | --- |
| `FlushedNeverLost` | `CycleSpec => []FlushedNotLost` |

`CycleSpec` implements `SystemSpec` (`CyclesAreOfSystem`), so `PipeInv` is there to use.
`DueInv` adds that the lines due are in `out`, and in the pipe once `fflush` has
returned: a crash cuts `out` to what is in the pipe, and the end of the file is seen
when that is empty.

`UpsStatusProofs`, for every set of values, of any length:

| theorem | states |
| --- | --- |
| `StatusTypeCorrect` | `Spec => []TypeOK` |
| `AlwaysRightUpToBadWord` | `Spec => []RightUpToBadWord` |
| `OnlyBadWordsEverOverrun` | `Spec => []OnlyBadWordsOverrun` |
| `ScannableReported` | at the SETs, a value made of good words has been reported exactly |

`RightUpToBadWord` alone is not inductive: a pointer in the middle of a word would
recognise the rest of it. `TypeOK` rests on the loop stopping at the NUL and on no case
moving the pointer by more than seven. `StatusInv` adds `Boundary`: over good words the pointer
is on a blank, at the beginning of a word or at the NUL. `FirstCharacter` and
`FirstTwoCharacters` go through the tables: a known word with the characters of a
case is the word of that case, and the case skips as many characters as the word
has. OFF is the exception, and this is why it is not a good word.
`KnownStep`, `OtherStep` and `ReportedGap` say how `Reported` grows with the
pointer.

`CollectionTimingProofs`, for every modulus, limit, length of a second, timeout,
lateness and duration of cycles (`TimingAssumption`), and every set of arguments of any
length (`ArgumentsAssumption`):

| theorem | states |
| --- | --- |
| `TypeCorrect` | `Spec => []TypeOK` |
| `FrequencyIsExact` | `Spec => []FrequencyExact` |
| `NoTimeoutIsFalse` | `Spec => []NoFalseTimeout` |
| `IdlePluginsGivenUp` | `Spec => []IdleGivenUp` |
| `SlowPluginsCollectOnce` | `Spec => []SlowCollectsOnce` |
| `BeatsStayAligned` | `Spec => []BeatsAligned` |

`str2u` wraps after each digit and `Value` never does; that they agree modulo 2^32
(`str2uValue`) is an induction over the digits. The library's induction theorems
take an operator as a parameter, so the induction is done on sets: `Least` gets a least
number from the well-founded order, `UpTo` is induction up to a bound, and
`Recursion` shows that a function defined by recursion on `0..n` exists. The
invariant `TimingInv` adds that the plugin runs with the argument modulo 2^32
(`FrequencyWraps`), how long the agent has waited at each place and in how many
cycles without a line (`Waiting`), where between two beats the plugin is (`Between`: the clock is
the lateness of the last beat and the time since after a beat) and that a plugin too slow
for the agent is in its first cycle when it collects (`Once`). `BeatDistance` then gives the
time to the next beat as a multiple of the step.

Only model-checked are the liveness properties (`CycleEnds`, `UnlistedForgotten`,
`ScannableSends`, `TraversalEnds`, `CycleRead`, `EndNoticed`, `Restarted`): the
prover has no rule for fairness and ENABLED. Every invariant, action property and
refinement that a run finds to hold is also proved.

## Not modelled

The repository carries a copy of Netdata 2.6.0, nearly all of which is not part
of this plugin: it links libnetdata and is run by the agent's plugins.d. Of
those, modelled is what the plugin calls and what reads and supervises it. Left
out:

- the arithmetic of `str2ndd` and load_usage, which is floating point;
- help and version text, labels (CLABEL, which like DIMENSION needs a chart in
  scope and changes nothing else), chart presentation, logging, packaging:
  nothing branches on them;
- the connections of libupsclient, whose source is not in the repository. The
  name in use lies in the answer buffer of `ups1`, and only `ups2` is queried
  until the next entry is asked for; buffers belong to a connection;
- a clock that is set while the plugin sleeps;
- the agent's shutdown, and what it stores of the metrics;
- of the dictionary: views, callbacks, walkthroughs, the multi-threaded mode and
  the queue of dictionaries waiting for destruction, which the plugin does not
  use.
