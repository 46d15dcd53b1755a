----------------------------- MODULE UpsdPlugin -----------------------------
(***************************************************************************)
(* upsd.plugin: the main loop of upsd_plugin.c and the three dictionaries  *)
(* it keeps (nd_ups_name, nd_ups_vars, nd_ups_seen).                       *)
(*                                                                         *)
(* The plugin is one thread.  What it cannot control is upsd: between any  *)
(* two calls of libupsclient a UPS may appear, disappear, or start or stop *)
(* answering for a variable.  An action therefore covers the code between  *)
(* two such calls (or a GET and its fallback GETs).                        *)
(*                                                                         *)
(* What is printed is kept as the two facts the agent depends on: which    *)
(* charts were given in a CHART line, and how many BEGIN .. END blocks a   *)
(* chart got since the last heartbeat.  The traversal orders (table of     *)
(* charts, LIST UPS, dictionaries) are left open; the code's order is one  *)
(* of those allowed here.                                                  *)
(***************************************************************************)
EXTENDS Naturals, Sequences, FiniteSets

CONSTANTS
    UPS,      \* the UPS names upsd may list, each a sequence of characters
    Charts,   \* the .nut_variable column of nd_charts
    upsd      \* upsd[n][v]: the results GET VAR n v may have while we run

VARIABLES
    pc,           \* where main() is
    exit,         \* how the process ended
    started,      \* FALSE in the registration loop that precedes the heartbeat
    listing,      \* names in the answer to the current (or last) LIST UPS
    pending,      \* those that upscli_list_next has not returned yet
    ups_name,     \* answer[0][1]: the entry of ups1's answer buffer in use
    nd_ups_name,  \* UPS name -> cleaned name
    nd_ups_vars,  \* UPS name -> NUT variables with a chart
    nd_ups_seen,  \* UPS name -> listed in the most recent LIST UPS?
    ups_vars,     \* register_ups: the dictionary being filled; main: the one traversed
    todo,         \* charts the running loop has still to visit
    sweep,        \* names the deletion loop has still to visit
    defined,      \* charts given in a CHART line
    begun         \* BEGIN .. END blocks of each chart in this cycle

control  == <<pc, exit, started>>
query    == <<listing, pending, ups_name>>
registry == <<nd_ups_name, nd_ups_vars, nd_ups_seen>>
loops    == <<ups_vars, todo>>
stdout   == <<defined, begun>>
vars     == <<control, query, registry, loops, sweep, stdout>>

-----------------------------------------------------------------------------
\* The results of a GET: an error (nut_get_var returns NULL), a value, or, for
\* ups.status only, a value on which the scanner of send_metric_ups_status
\* runs off the string (module UpsStatus says which those are).
Results == {"NULL", "value", "unscannable"}

Numbers == Charts \cup {"ups.load", "ups.realpower", "ups.realpower.nominal"}

ASSUME UPSAssumption == UPS \subseteq Seq(STRING) /\ IsFiniteSet(UPS)

\* The table has a row for ups.realpower and none for ups.status.
ASSUME ChartsAssumption ==
    /\ Charts \subseteq STRING
    /\ IsFiniteSet(Charts)
    /\ "ups.realpower" \in Charts
    /\ "ups.status" \notin Numbers
    /\ "status" \notin Charts

ASSUME upsdAssumption ==
    /\ upsd \in [UPS -> [Numbers \cup {"ups.status"} -> (SUBSET Results) \ {{}}]]
    /\ \A n \in UPS, v \in Numbers : "unscannable" \notin upsd[n][v]

-----------------------------------------------------------------------------
\* ' ' and '.' become '_'.
clean_name(name) ==
    [i \in DOMAIN name |-> IF name[i] \in {" ", "."} THEN "_" ELSE name[i]]

\* The dictionary of libnetdata, as a function.
dictionary_set(d, k, v) ==
    [x \in DOMAIN d \cup {k} |-> IF x = k THEN v ELSE d[x]]

\* Slip: the deletion does not find its key.
dictionary_del_Ignored(d, k) == d

dictionary_del(d, k) == [x \in DOMAIN d \ {k} |-> d[x]]

Empty == [x \in {} |-> {}]

\* Slip: nd_ups_seen is created with DICT_OPTION_DONT_OVERWRITE_VALUE.
set_seen_KeepsOld(n, b) ==
    nd_ups_seen' = IF n \in DOMAIN nd_ups_seen THEN nd_ups_seen
                                               ELSE dictionary_set(nd_ups_seen, n, b)

set_seen(n, b) == nd_ups_seen' = dictionary_set(nd_ups_seen, n, b)

was_seen(n) == n \in DOMAIN nd_ups_seen /\ nd_ups_seen[n]

ChartIds == {clean_name(n) : n \in UPS} \X (Charts \cup {"status"})

\* BEGIN, the SETs and END of one chart.
SendMetric(chart) == begun' = [begun EXCEPT ![chart] = @ + 1]

\* nut_get_var of the entry in use may return a value, may return NULL.
GetsValue(v) == "value" \in upsd[ups_name][v]
GetsNull(v)  == "NULL" \in upsd[ups_name][v]

\* ups.realpower is missing but load_usage can be computed, or not even that.
FallbackWorks == GetsValue("ups.load") /\ GetsValue("ups.realpower.nominal")
FallbackFails == GetsNull("ups.load") \/ GetsNull("ups.realpower.nominal")

Exit(code) == pc' = "exit" /\ exit' = code

-----------------------------------------------------------------------------
Init ==
    /\ pc = "start" /\ exit = "none" /\ started = FALSE
    /\ listing = {} /\ pending = {} /\ ups_name = <<>>
    /\ nd_ups_name = Empty /\ nd_ups_vars = Empty /\ nd_ups_seen = Empty
    /\ ups_vars = {} /\ todo = {} /\ sweep = {}
    /\ defined = {}
    /\ begun = [c \in ChartIds |-> 0]

\* A call of libupsclient that main() does not survive: upscli_init,
\* upscli_connect, upscli_list_start or upscli_list_next returned -1.
QueryFails ==
    /\ pc \in {"start", "wait", "list"}
    /\ Exit("EXIT_AND_DISABLE")
    /\ UNCHANGED <<started, query, registry, loops, sweep, stdout>>

\* upscli_list_start, before the registration loop and after each heartbeat:
\* upsd answers with the UPSes it has at this moment.
ListStart ==
    /\ pc \in {"start", "wait"}
    /\ pc' = "list"
    /\ listing' \in SUBSET UPS
    /\ pending' = listing'
    /\ begun' = [c \in ChartIds |-> 0]
    /\ UNCHANGED <<exit, started, ups_name, registry, loops, sweep, defined>>

\* Slip: the cleaned name is a copy, the dictionary keeps the raw one.
RegisterBegin_CleansCopy(n) ==
    /\ pc' = "register"
    /\ nd_ups_name' = dictionary_set(nd_ups_name, n, n)
    /\ defined' = defined \cup {<<clean_name(n), "status">>}
    /\ ups_vars' = {}
    /\ todo' = Charts

\* The head of register_ups: the name is stored and then cleaned in place, the
\* status chart is printed, an empty ups_vars is created.
RegisterBegin(n) ==
    /\ pc' = "register"
    /\ nd_ups_name' = dictionary_set(nd_ups_name, n, clean_name(n))
    /\ defined' = defined \cup {<<clean_name(n), "status">>}
    /\ ups_vars' = {}
    /\ todo' = Charts

\* upscli_list_next returns an entry.  The registration loop registers every
\* entry; the main loop those that are not in nd_ups_name.
ListNext(n) ==
    /\ pc = "list"
    /\ n \in pending
    /\ ups_name' = n
    /\ pending' = pending \ {n}
    /\ \/ /\ started /\ n \in DOMAIN nd_ups_name
          /\ pc' = "status"
          /\ UNCHANGED <<nd_ups_name, loops, defined>>
       \/ /\ ~started \/ n \notin DOMAIN nd_ups_name
          /\ RegisterBegin(n)
    /\ UNCHANGED <<exit, started, listing, nd_ups_vars, nd_ups_seen, sweep, begun>>

\* upscli_list_next returns {"END", "LIST", "UPS"}.
ListEnd ==
    /\ pc = "list"
    /\ pending = {}
    /\ pc' = IF started THEN "flush" ELSE "wait"
    /\ started' = TRUE
    /\ UNCHANGED <<exit, query, registry, loops, sweep, stdout>>

\* Slip: a variable is put in ups_vars before it is known to be served.
RegisterChart_KeepsAll(v) ==
    /\ pc = "register"
    /\ v \in todo
    /\ todo' = todo \ {v}
    /\ ups_vars' = ups_vars \cup {v}
    /\ \/ /\ GetsValue(v)
          /\ defined' = defined \cup {<<nd_ups_name[ups_name], v>>}
       \/ /\ GetsNull(v)
          /\ UNCHANGED defined
    /\ UNCHANGED <<control, query, registry, sweep, begun>>

\* One row of the table in register_ups: a chart for each variable the UPS
\* serves, and one for load_usage when it can be computed.
RegisterChart(v) ==
    /\ pc = "register"
    /\ v \in todo
    /\ todo' = todo \ {v}
    /\ \/ /\ GetsValue(v) \/ (v = "ups.realpower" /\ GetsNull(v) /\ FallbackWorks)
          /\ defined' = defined \cup {<<nd_ups_name[ups_name], v>>}
          /\ ups_vars' = ups_vars \cup {v}
       \/ /\ GetsNull(v) /\ (v = "ups.realpower" => FallbackFails)
          /\ UNCHANGED <<defined, ups_vars>>
    /\ UNCHANGED <<control, query, registry, sweep, begun>>

\* Slips: a UPS found during a cycle starts the list over; an empty ups_vars is not
\* stored.
RegisterEnd_ListsAgain ==
    /\ pc = "register"
    /\ todo = {}
    /\ nd_ups_vars' = dictionary_set(nd_ups_vars, ups_name, ups_vars)
    /\ pc' = "list"
    /\ pending' = IF started THEN listing ELSE pending
    /\ UNCHANGED <<exit, started, listing, ups_name, nd_ups_name, nd_ups_seen, loops, sweep,
                   stdout>>

RegisterEnd_SkipsEmpty ==
    /\ pc = "register"
    /\ todo = {}
    /\ nd_ups_vars' = IF ups_vars = {} THEN nd_ups_vars
                                       ELSE dictionary_set(nd_ups_vars, ups_name, ups_vars)
    /\ pc' = IF started THEN "status" ELSE "list"
    /\ UNCHANGED <<exit, started, query, nd_ups_name, nd_ups_seen, loops, sweep, stdout>>

\* The end of register_ups: its dictionary of charts is stored.
RegisterEnd ==
    /\ pc = "register"
    /\ todo = {}
    /\ nd_ups_vars' = dictionary_set(nd_ups_vars, ups_name, ups_vars)
    /\ pc' = IF started THEN "status" ELSE "list"
    /\ UNCHANGED <<exit, started, query, nd_ups_name, nd_ups_seen, loops, sweep, stdout>>

\* Slip: send_metric_ups_status returns early when the GET fails.
SendStatus_ReturnsEarly ==
    /\ pc = "status"
    /\ set_seen(ups_name, TRUE)
    /\ pc' = "realpower"
    /\ \/ /\ GetsValue("ups.status")
          /\ SendMetric(<<nd_ups_name[ups_name], "status">>)
       \/ /\ GetsNull("ups.status")
          /\ UNCHANGED begun
    /\ UNCHANGED <<exit, started, query, nd_ups_name, nd_ups_vars, loops, sweep, defined>>

\* set_seen, then send_metric_ups_status.  A failed GET still sends the
\* block, every status 0; a status the scanner runs off is a NULL dereference.
SendStatus ==
    /\ pc = "status"
    /\ set_seen(ups_name, TRUE)
    /\ \/ /\ upsd[ups_name]["ups.status"] \cap {"NULL", "value"} # {}
          /\ SendMetric(<<nd_ups_name[ups_name], "status">>)
          /\ pc' = "realpower"
          /\ UNCHANGED exit
       \/ /\ "unscannable" \in upsd[ups_name]["ups.status"]
          /\ Exit("SIGSEGV")
          /\ UNCHANGED begun
    /\ UNCHANGED <<started, query, nd_ups_name, nd_ups_vars, loops, sweep, defined>>

\* Slip: send_metric_ups_realpower does not return when the fallback fails.
SendRealpower_Always ==
    /\ pc = "realpower"
    /\ pc' = "vars"
    /\ SendMetric(<<nd_ups_name[ups_name], "ups.realpower">>)
    /\ ups_vars' = IF ups_name \in DOMAIN nd_ups_vars THEN nd_ups_vars[ups_name] ELSE {}
    /\ todo' = ups_vars'
    /\ UNCHANGED <<exit, started, query, registry, sweep, defined>>

\* send_metric_ups_realpower, and the lookup of the charts to visit next.
SendRealpower ==
    /\ pc = "realpower"
    /\ pc' = "vars"
    /\ \/ /\ GetsValue("ups.realpower") \/ (GetsNull("ups.realpower") /\ FallbackWorks)
          /\ SendMetric(<<nd_ups_name[ups_name], "ups.realpower">>)
       \/ /\ GetsNull("ups.realpower") /\ FallbackFails
          /\ UNCHANGED begun
    /\ ups_vars' = IF ups_name \in DOMAIN nd_ups_vars THEN nd_ups_vars[ups_name] ELSE {}
    /\ todo' = ups_vars'
    /\ UNCHANGED <<exit, started, query, registry, sweep, defined>>

\* One chart of the UPS.  The result of GET is handed to str2ndd unchecked, and
\* str2ndd dereferences it.
SendVar(v) ==
    /\ pc = "vars"
    /\ v \in todo
    /\ todo' = todo \ {v}
    /\ \/ /\ GetsValue(v)
          /\ SendMetric(<<nd_ups_name[ups_name], v>>)
          /\ UNCHANGED <<pc, exit>>
       \/ /\ GetsNull(v)
          /\ Exit("SIGSEGV")
          /\ UNCHANGED begun
    /\ UNCHANGED <<started, query, registry, ups_vars, sweep, defined>>

SendEnd ==
    /\ pc = "vars"
    /\ todo = {}
    /\ pc' = "list"
    /\ UNCHANGED <<exit, started, query, registry, loops, sweep, stdout>>

\* fflush and the three tests after it: EPIPE, then exit_initiated_get() or the
\* 14400 second restart, else the deletion loop begins.
FlushFails ==
    /\ pc = "flush"
    /\ Exit("EXIT_AND_DISABLE")
    /\ UNCHANGED <<started, query, registry, loops, sweep, stdout>>

Flush ==
    /\ pc = "flush"
    /\ pc' = "sweep"
    /\ sweep' = DOMAIN nd_ups_name
    /\ UNCHANGED <<exit, started, query, registry, loops, stdout>>

\* Slip: the traversal starts again after an entry.
Visited_Restarts(n) == sweep' = DOMAIN nd_ups_name'

\* The traversal moves on; an entry that was deleted is not visited any more.
Visited(n) == sweep' = (sweep \ {n}) \cap DOMAIN nd_ups_name'

\* One entry of nd_ups_name in the deletion loop.  The traversal yields the
\* VALUE of the entry, the cleaned name, and every lookup and deletion uses it
\* as the key.
Sweep(n) ==
    LET ups == nd_ups_name[n] IN
    /\ pc = "sweep"
    /\ n \in sweep
    /\ \/ /\ was_seen(ups)
          /\ set_seen(ups, FALSE)
          /\ UNCHANGED <<nd_ups_name, nd_ups_vars>>
       \/ /\ ~was_seen(ups)
          /\ nd_ups_vars' = dictionary_del(nd_ups_vars, ups)
          /\ nd_ups_seen' = dictionary_del(nd_ups_seen, ups)
          /\ nd_ups_name' = dictionary_del(nd_ups_name, ups)
    /\ Visited(n)
    /\ UNCHANGED <<control, query, loops, stdout>>

SweepEnd ==
    /\ pc = "sweep"
    /\ sweep = {}
    /\ pc' = "wait"
    /\ UNCHANGED <<exit, started, query, registry, loops, sweep, stdout>>

\* The loop is left because exit_initiated_get() is true (tested after the
\* heartbeat and after fflush) or the plugin is older than 14400 seconds:
\* every dictionary is destroyed, both connections are closed.
Teardown ==
    /\ pc \in {"wait", "flush"}
    /\ Exit("EXIT_AND_RESTART")
    /\ nd_ups_name' = Empty /\ nd_ups_vars' = Empty /\ nd_ups_seen' = Empty
    /\ UNCHANGED <<started, query, loops, sweep, stdout>>

Next ==
    \/ QueryFails \/ ListStart \/ ListEnd
    \/ RegisterEnd \/ SendStatus \/ SendRealpower \/ SendEnd
    \/ FlushFails \/ Flush \/ SweepEnd \/ Teardown
    \/ \E n \in UPS : ListNext(n) \/ Sweep(n)
    \/ \E v \in Charts : RegisterChart(v) \/ SendVar(v)

Spec == Init /\ [][Next]_vars

\* The plugin is one thread whose calls all return, so it is never idle for
\* ever while it can take a step.
FairSpec == Spec /\ WF_vars(Next)

-----------------------------------------------------------------------------
PCs == {"start", "wait", "list", "register", "status", "realpower", "vars",
        "flush", "sweep", "exit"}

ExitCodes == {"none", "EXIT_AND_RESTART", "EXIT_AND_DISABLE", "SIGSEGV"}

\* Types of the variables.  The dictionaries are keyed by names upsd listed.
TypeOK ==
    /\ pc \in PCs /\ exit \in ExitCodes /\ started \in BOOLEAN
    /\ listing \subseteq UPS /\ pending \subseteq listing
    /\ ups_name \in UPS \cup {<<>>}
    /\ DOMAIN nd_ups_name \subseteq UPS
    /\ nd_ups_name = [n \in DOMAIN nd_ups_name |-> clean_name(n)]
    /\ DOMAIN nd_ups_vars \subseteq UPS
    /\ nd_ups_vars \in [DOMAIN nd_ups_vars -> SUBSET Charts]
    /\ DOMAIN nd_ups_seen \subseteq UPS
    /\ nd_ups_seen \in [DOMAIN nd_ups_seen -> BOOLEAN]
    /\ ups_vars \subseteq Charts /\ todo \subseteq Charts
    /\ sweep \subseteq DOMAIN nd_ups_name
    /\ defined \subseteq ChartIds
    /\ begun \in [ChartIds -> Nat]

-----------------------------------------------------------------------------
\* Names that cleaning leaves alone and that no other name is cleaned to.
Plain == {n \in UPS : \A m \in UPS : clean_name(m) = n <=> m = n}

\* Entries of the current LIST UPS that main() is done with up to set_seen.
Observed ==
    listing \ (pending \cup (IF pc \in {"register", "status"} THEN {ups_name} ELSE {}))

\* The three dictionaries describe the same UPSes: every registered name has
\* its ups_vars except while register_ups fills it, and a seen flag is never
\* kept for a name that is not registered (lines 554-649, 764, 802-814).
DictionariesAgree ==
    /\ DOMAIN nd_ups_vars =
         DOMAIN nd_ups_name \ (IF pc = "register" THEN {ups_name} ELSE {})
    /\ DOMAIN nd_ups_seen \subseteq DOMAIN nd_ups_name

\* nd_ups_seen is what its comment says: from the first heartbeat on, the flag
\* of a (plain) name is TRUE exactly when the entry was observed in the LIST UPS
\* being processed, and no flag of an earlier query survives into the next one.
SeenTracksListing ==
    /\ started /\ pc \in {"list", "register", "status", "realpower", "vars", "flush"} =>
         \A n \in Plain : was_seen(n) <=> n \in Observed
    /\ pc = "wait" => \A n \in Plain : ~was_seen(n)

\* Between two cycles the registered (plain) names are exactly those of the last
\* LIST UPS: the registration loop and the deletion loop (lines 702-725, 802-814)
\* neither forget a listed UPS nor keep one that is gone.
RegistryMatchesListing ==
    pc = "wait" => DOMAIN nd_ups_name \cap Plain = listing \cap Plain

\* The same for every name, as the comment of the deletion loop has it.
UnseenDeleted == pc = "wait" => DOMAIN nd_ups_name \subseteq listing

\* When the cycle is flushed, every chart of every listed UPS got its block.
CycleComplete ==
    pc = "flush" =>
      \A n \in listing : \A v \in nd_ups_vars[n] \cup {"status"} :
        begun[<<clean_name(n), v>>] > 0

\* Names whose charts are theirs alone, and the blocks the code has for a chart:
\* load_usage is sent by send_metric_ups_realpower and again as a row of the table.
Alone == {n \in UPS : \A m \in UPS : clean_name(m) = clean_name(n) => m = n}

Blocks(v) == IF v = "ups.realpower" THEN 2 ELSE 1

\* A cycle sends a chart one block, and load_usage at most the two of
\* lines 773 and 776-782, whichever UPSes are found or gone during that cycle.
BlocksPerCycle ==
    \A n \in Alone, v \in Charts \cup {"status"} : begun[<<clean_name(n), v>>] =< Blocks(v)

\* A chart that a dictionary entry promises to update has been given in a CHART
\* line, under the name its BEGIN lines will use.
RegisteredChartsDefined ==
    \A n \in DOMAIN nd_ups_vars : \A v \in nd_ups_vars[n] \cup {"status"} :
      <<nd_ups_name[n], v>> \in defined

\* BEGIN names a chart that a CHART line gave before.
BeginsDefinedCharts ==
    [][\A c \in ChartIds : begun'[c] > begun[c] => c \in defined]_vars

\* No NULL is dereferenced.
NoCrash == exit # "SIGSEGV"

\* What upsd has for n: the variable is served; load_usage can be sent, read or
\* computed; a GET of a number either always succeeds or always fails.
Serves(n, v) == "value" \in upsd[n][v]

HasLoadUsage(n) ==
    \/ Serves(n, "ups.realpower")
    \/ Serves(n, "ups.load") /\ Serves(n, "ups.realpower.nominal")

Steady(n) == n \in UPS /\ \A v \in Numbers : upsd[n][v] # {"NULL", "value"}

\* Moreover load_usage need not be computed and the status can be scanned.
Sound(n) ==
    /\ Steady(n)
    /\ HasLoadUsage(n) => Serves(n, "ups.realpower")
    /\ "unscannable" \notin upsd[n]["ups.status"]

\* The blocks sent for a UPS that serves the same variables all the time name
\* charts that a CHART line gave, however the other UPSes behave
\* (register_ups against send_metric_ups_realpower and the loop over ups_vars).
SteadyBegins ==
    [][Steady(ups_name) =>
         \A c \in ChartIds : begun'[c] > begun[c] => c \in defined]_vars

\* A crash happens over a UPS whose variables come and go, whose load_usage must
\* be computed or whose status cannot be scanned: no other UPS is able to bring
\* the plugin down, neither by what it serves nor by coming and leaving.
SoundNoCrash == exit = "SIGSEGV" => ~Sound(ups_name)

\* A cycle that was begun comes to its end, or the process does.
CycleEnds == pc = "list" ~> pc \in {"wait", "exit"}

\* A (plain) UPS that is missing from a LIST UPS is forgotten.
UnlistedForgotten ==
    \A n \in Plain :
      (pc = "list" /\ n \notin listing) ~> (n \notin DOMAIN nd_ups_name \/ pc = "exit")
=============================================================================
