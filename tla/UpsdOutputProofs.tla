--------------------------- MODULE UpsdOutputProofs ---------------------------
(***************************************************************************)
(* Proofs about what UpsdPlugin prints: the charts it defines, the blocks  *)
(* of a cycle, and the conditions on upsd under which every block is of a  *)
(* defined chart and no NULL is dereferenced.                              *)
(***************************************************************************)
EXTENDS UpsdPluginProofs

-----------------------------------------------------------------------------
(* CHART lines.                                                            *)

\* Each dictionary entry, finished or being filled, has its CHART lines.
Charted ==
    /\ \A n \in DOMAIN nd_ups_name : <<clean_name(n), "status">> \in defined
    /\ \A n \in DOMAIN nd_ups_vars : \A v \in nd_ups_vars[n] : <<clean_name(n), v>> \in defined
    /\ pc = "register" => \A v \in ups_vars : <<clean_name(ups_name), v>> \in defined
    /\ pc = "vars" => ups_vars = nd_ups_vars[ups_name] /\ todo \subseteq ups_vars

Invariants == TypeInv /\ RegistryInv

\* There is nothing to chart at the start.
LEMMA ChartedInit == Init => Charted
BY DEF Init, Charted, Empty

\* Every step keeps it: a chart enters a dictionary with its CHART line.
LEMMA ChartedStep == Invariants /\ Charted /\ [Next]_vars => Charted'
<1> SUFFICES ASSUME TypeOK, Loops, DictionariesAgree, Charted, [Next]_vars
             PROVE  Charted'
  BY DEF Invariants, TypeInv, RegistryInv
<1> USE DEF control, query, registry, loops, stdout, HasEntry
<1>1. CASE QueryFails
  BY <1>1 DEF QueryFails, Exit, Charted
<1>2. CASE ListStart
  BY <1>2 DEF ListStart, Charted
<1>3. ASSUME NEW n \in UPS, ListNext(n)
      PROVE  Charted'
  <2>1. CASE started /\ n \in DOMAIN nd_ups_name
    BY <1>3, <2>1 DEF ListNext, Charted
  <2>2. CASE RegisterBegin(n)
    <3>1. DOMAIN nd_ups_name' = DOMAIN nd_ups_name \cup {n}
      BY <2>2, DictionarySet DEF RegisterBegin
    <3> QED
      BY <1>3, <2>2, <3>1 DEF ListNext, RegisterBegin, Charted
  <2> QED
    BY <1>3, <2>1, <2>2 DEF ListNext
<1>4. CASE ListEnd
  BY <1>4 DEF ListEnd, Charted
<1>5. ASSUME NEW v \in Charts, RegisterChart(v)
      PROVE  Charted'
  <2>1. nd_ups_name[ups_name] = clean_name(ups_name)
    BY <1>5, CleanedName DEF RegisterChart, Loops
  <2> QED
    BY <1>5, <2>1 DEF RegisterChart, Charted
<1>6. CASE RegisterEnd
  <2>1. /\ DOMAIN nd_ups_vars' = DOMAIN nd_ups_vars \cup {ups_name}
        /\ nd_ups_vars'[ups_name] = ups_vars
        /\ \A n \in DOMAIN nd_ups_vars : n # ups_name => nd_ups_vars'[n] = nd_ups_vars[n]
    <3>1. nd_ups_vars' = dictionary_set(nd_ups_vars, ups_name, ups_vars)
      BY <1>6 DEF RegisterEnd
    <3> QED
      BY <3>1 DEF dictionary_set
  <2> QED
    BY <1>6, <2>1 DEF RegisterEnd, Charted
<1>7. CASE SendStatus
  BY <1>7 DEF SendStatus, Exit, Charted
<1>8. CASE SendRealpower
  <2>1. ups_name \in DOMAIN nd_ups_vars
    BY <1>8 DEF SendRealpower, Loops, DictionariesAgree
  <2> QED
    BY <1>8, <2>1 DEF SendRealpower, Charted
<1>9. ASSUME NEW v \in Charts, SendVar(v)
      PROVE  Charted'
  BY <1>9 DEF SendVar, Exit, Charted
<1>10. CASE SendEnd
  BY <1>10 DEF SendEnd, Charted
<1>11. CASE FlushFails
  BY <1>11 DEF FlushFails, Exit, Charted
<1>12. CASE Flush
  BY <1>12 DEF Flush, Charted
<1>13. ASSUME NEW n \in UPS, Sweep(n)
       PROVE  Charted'
  <2>1. /\ DOMAIN nd_ups_name' \subseteq DOMAIN nd_ups_name
        /\ DOMAIN nd_ups_vars' \subseteq DOMAIN nd_ups_vars
        /\ \A m \in DOMAIN nd_ups_vars' : nd_ups_vars'[m] = nd_ups_vars[m]
    <3>1. CASE UNCHANGED <<nd_ups_name, nd_ups_vars>>
      BY <3>1
    <3>2. CASE /\ nd_ups_vars' = dictionary_del(nd_ups_vars, nd_ups_name[n])
               /\ nd_ups_name' = dictionary_del(nd_ups_name, nd_ups_name[n])
      BY <3>2 DEF dictionary_del
    <3> QED
      BY <1>13, <3>1, <3>2 DEF Sweep
  <2> QED
    BY <1>13, <2>1 DEF Sweep, Charted
<1>14. CASE SweepEnd
  BY <1>14 DEF SweepEnd, Charted
<1>15. CASE Teardown
  BY <1>15 DEF Teardown, Exit, Charted, Empty
<1>16. CASE UNCHANGED vars
  BY <1>16 DEF vars, Charted
<1> QED
  BY <1>1, <1>2, <1>3, <1>4, <1>5, <1>6, <1>7, <1>8, <1>9, <1>10, <1>11, <1>12,
     <1>13, <1>14, <1>15, <1>16 DEF Next

\* It holds throughout.
LEMMA ChartedInvariant == Spec => [](Invariants /\ Charted)
BY RegistryInvariant, ChartedInit, ChartedStep, PTL DEF Spec, Invariants

\* What has its CHART lines was given in them under the name of its BEGIN lines.
LEMMA ChartedDefined == Invariants /\ Charted => RegisteredChartsDefined
<1> SUFFICES ASSUME TypeOK, DictionariesAgree, Charted,
                    NEW n \in DOMAIN nd_ups_vars,
                    NEW v \in nd_ups_vars[n] \cup {"status"}
             PROVE  <<nd_ups_name[n], v>> \in defined
  BY DEF RegisteredChartsDefined, Invariants, TypeInv, RegistryInv
<1>1. n \in DOMAIN nd_ups_name
  BY DEF DictionariesAgree
<1>2. nd_ups_name[n] = clean_name(n)
  BY <1>1, CleanedName
<1> QED
  BY <1>1, <1>2 DEF Charted

\* Every chart a dictionary entry promises to update was given in a CHART line,
\* under the name its BEGIN lines use.
THEOREM RegisteredChartsAlwaysDefined == Spec => []RegisteredChartsDefined
BY ChartedDefined, ChartedInvariant, PTL

-----------------------------------------------------------------------------
(* The blocks of a cycle.                                                  *)

SentAll(n) == \A v \in nd_ups_vars[n] \cup {"status"} : begun[<<clean_name(n), v>>] > 0

\* The entries main() is done with in this cycle.
Done == (listing \ pending) \ (IF pc \in HasEntry THEN {ups_name} ELSE {})

\* What the cycle has sent so far: everything of the entries done, and of the
\* entry in use the status block and the charts already visited.
Sent ==
    started =>
      /\ pc \in Listing => \A n \in Done : SentAll(n)
      /\ pc \in {"realpower", "vars"} => begun[<<clean_name(ups_name), "status">>] > 0
      /\ pc = "vars" => \A v \in ups_vars \ todo : begun[<<clean_name(ups_name), v>>] > 0

\* A block raises the count of its chart and of no other.
LEMMA SendMetricCounts ==
    ASSUME begun \in [ChartIds -> Nat], NEW chart \in ChartIds, SendMetric(chart)
    PROVE  /\ begun'[chart] > 0 /\ begun'[chart] > begun[chart]
           /\ \A c \in ChartIds : c # chart => begun'[c] = begun[c]
BY DEF SendMetric

\* The chart ids the plugin uses for a registered name.
LEMMA ChartsOfEntry ==
    ASSUME TypeInv, DictionariesAgree, NEW n \in DOMAIN nd_ups_vars
    PROVE  /\ n \in UPS /\ n \in DOMAIN nd_ups_name /\ nd_ups_name[n] = clean_name(n)
           /\ nd_ups_vars[n] \subseteq Charts
           /\ \A v \in nd_ups_vars[n] \cup {"status", "ups.realpower"} :
                <<clean_name(n), v>> \in ChartIds
<1>1. n \in DOMAIN nd_ups_name /\ nd_ups_vars[n] \subseteq Charts
  BY DEF DictionariesAgree, TypeInv, TypeOK
<1>2. n \in UPS /\ nd_ups_name[n] = clean_name(n)
  BY <1>1, CleanedName DEF TypeInv
<1> QED
  BY <1>1, <1>2, ChartIdsOfUPS, ChartsAssumption

\* The entry in use, once it is registered.
LEMMA EntryInUse ==
    ASSUME TypeInv, RegistryInv, pc \in {"status", "realpower", "vars"}
    PROVE  ups_name \in DOMAIN nd_ups_vars /\ started
BY DEF TypeInv, Loops, RegistryInv, DictionariesAgree, HasEntry

\* The entries done are registered.
LEMMA DoneRegistered ==
    ASSUME TypeInv, RegistryInv, pc \in Listing
    PROVE  Done \subseteq DOMAIN nd_ups_vars
BY DEF Done, TypeInv, RegistryInv, DictionariesAgree, Registered, HasEntry, Listing

\* Nothing is sent before the first heartbeat.
LEMMA SentInit == Init => Sent
BY DEF Init, Sent

\* Every step keeps it: SendEnd leaves an entry when nothing of it is left to send.
LEMMA SentStep == Invariants /\ Charted /\ Sent /\ [Next]_vars => Sent'
<1> SUFFICES ASSUME TypeInv, RegistryInv, Charted, Sent, [Next]_vars
             PROVE  Sent'
  BY DEF Invariants
<1> USE DEF control, query, registry, loops, stdout, Listing, HasEntry
<1>1. CASE QueryFails
  BY <1>1 DEF QueryFails, Exit, Sent
<1>2. CASE ListStart
  BY <1>2 DEF ListStart, Sent, Done
<1>3. ASSUME NEW n \in UPS, ListNext(n)
      PROVE  Sent'
  <2>1. pc = "list" /\ pc' \in {"register", "status"} /\ started' = started
    BY <1>3 DEF ListNext, RegisterBegin
  <2>2. Done' = Done
    BY <1>3, <2>1 DEF ListNext, Done
  <2>3. \A m : SentAll(m)' <=> SentAll(m)
    BY <1>3 DEF ListNext, SentAll
  <2> QED
    BY <2>1, <2>2, <2>3 DEF Sent
<1>4. CASE ListEnd
  <2>1. pc = "list" /\ pc' \in {"flush", "wait"} /\ (pc' = "flush" => started)
    BY <1>4 DEF ListEnd
  <2>2. Done' = Done /\ \A m : SentAll(m)' <=> SentAll(m)
    BY <1>4, <2>1 DEF ListEnd, Done, SentAll
  <2> QED
    BY <2>1, <2>2 DEF Sent
<1>5. ASSUME NEW v \in Charts, RegisterChart(v)
      PROVE  Sent'
  <2>1. Done' = Done /\ \A m : SentAll(m)' <=> SentAll(m)
    BY <1>5 DEF RegisterChart, Done, SentAll
  <2> QED
    BY <1>5, <2>1 DEF RegisterChart, Sent
<1>6. CASE RegisterEnd
  <2>1. pc = "register" /\ pc' \in {"status", "list"} /\ (pc' = "list" => ~started) /\ started' = started
    BY <1>6 DEF RegisterEnd
  <2>2. started => Done' = Done
    BY <1>6, <2>1 DEF RegisterEnd, Done
  <2>3. \A m \in DOMAIN nd_ups_vars : m # ups_name => nd_ups_vars'[m] = nd_ups_vars[m]
    BY <1>6 DEF RegisterEnd, dictionary_set
  <2>4. \A m \in Done : SentAll(m)' <=> SentAll(m)
    BY <1>6, <2>1, <2>3, DoneRegistered DEF RegisterEnd, Done, SentAll
  <2> QED
    BY <2>1, <2>2, <2>4 DEF Sent
<1>7. CASE SendStatus
  <2>1. CASE pc' = "exit"
    BY <2>1 DEF Sent
  <2>2. CASE SendMetric(<<nd_ups_name[ups_name], "status">>) /\ pc' = "realpower"
    <3>1. /\ ups_name \in DOMAIN nd_ups_vars /\ nd_ups_name[ups_name] = clean_name(ups_name)
          /\ <<clean_name(ups_name), "status">> \in ChartIds
      BY <1>7, EntryInUse, ChartsOfEntry DEF SendStatus, RegistryInv
    <3>2. /\ begun'[<<clean_name(ups_name), "status">>] > 0
          /\ \A c \in ChartIds : begun[c] > 0 => begun'[c] > 0
      BY <2>2, <3>1, SendMetricCounts DEF TypeInv, TypeOK
    <3>3. Done' = Done /\ pc = "status"
      BY <1>7, <2>2 DEF SendStatus, Done
    <3>4. \A m \in Done : SentAll(m) => SentAll(m)'
      BY <1>7, <3>2, <3>3, DoneRegistered, ChartsOfEntry DEF SendStatus, SentAll, RegistryInv
    <3> QED
      BY <1>7, <2>2, <3>2, <3>3, <3>4 DEF SendStatus, Sent
  <2> QED
    BY <1>7, <2>1, <2>2 DEF SendStatus, Exit
<1>8. CASE SendRealpower
  <2>1. /\ ups_name \in DOMAIN nd_ups_vars /\ nd_ups_name[ups_name] = clean_name(ups_name)
        /\ <<clean_name(ups_name), "ups.realpower">> \in ChartIds
        /\ <<clean_name(ups_name), "status">> \in ChartIds
    BY <1>8, EntryInUse, ChartsOfEntry DEF SendRealpower, RegistryInv
  <2>2. \A c \in ChartIds : begun[c] > 0 => begun'[c] > 0
    BY <1>8, <2>1, SendMetricCounts DEF SendRealpower, TypeInv, TypeOK
  <2>3. Done' = Done /\ pc = "realpower" /\ pc' = "vars" /\ started' = started
    BY <1>8 DEF SendRealpower, Done
  <2>4. \A m \in Done : SentAll(m) => SentAll(m)'
    BY <1>8, <2>2, <2>3, DoneRegistered, ChartsOfEntry DEF SendRealpower, SentAll, RegistryInv
  <2> QED
    BY <1>8, <2>1, <2>2, <2>3, <2>4 DEF SendRealpower, Sent
<1>9. ASSUME NEW v \in Charts, SendVar(v)
      PROVE  Sent'
  <2>1. CASE pc' = "exit"
    BY <2>1 DEF Sent
  <2>2. CASE SendMetric(<<nd_ups_name[ups_name], v>>) /\ UNCHANGED pc
    <3>1. /\ ups_name \in DOMAIN nd_ups_vars /\ nd_ups_name[ups_name] = clean_name(ups_name)
          /\ <<clean_name(ups_name), v>> \in ChartIds
          /\ \A w \in ups_vars \cup {"status"} : <<clean_name(ups_name), w>> \in ChartIds
      BY <1>9, EntryInUse, ChartsOfEntry DEF SendVar, RegistryInv, Charted
    <3>2. /\ begun'[<<clean_name(ups_name), v>>] > 0
          /\ \A c \in ChartIds : begun[c] > 0 => begun'[c] > 0
      BY <2>2, <3>1, SendMetricCounts DEF TypeInv, TypeOK
    <3>3. Done' = Done /\ pc = "vars" /\ pc' = "vars" /\ started' = started
      BY <1>9, <2>2 DEF SendVar, Done
    <3>4. \A m \in Done : SentAll(m) => SentAll(m)'
      BY <1>9, <3>2, <3>3, DoneRegistered, ChartsOfEntry DEF SendVar, SentAll, RegistryInv
    <3> QED
      BY <1>9, <3>1, <3>2, <3>3, <3>4 DEF SendVar, Sent
  <2> QED
    BY <1>9, <2>1, <2>2 DEF SendVar, Exit
<1>10. CASE SendEnd
  <2>1. started /\ SentAll(ups_name)
    BY <1>10, EntryInUse DEF SendEnd, Sent, SentAll, Charted
  <2>2. Done' \subseteq Done \cup {ups_name}
    BY <1>10 DEF SendEnd, Done
  <2>3. \A m : SentAll(m)' <=> SentAll(m)
    BY <1>10 DEF SendEnd, SentAll
  <2> QED
    BY <1>10, <2>1, <2>2, <2>3 DEF SendEnd, Sent
<1>11. CASE FlushFails
  BY <1>11 DEF FlushFails, Exit, Sent
<1>12. CASE Flush
  BY <1>12 DEF Flush, Sent
<1>13. ASSUME NEW n \in UPS, Sweep(n)
       PROVE  Sent'
  BY <1>13 DEF Sweep, Sent
<1>14. CASE SweepEnd
  BY <1>14 DEF SweepEnd, Sent
<1>15. CASE Teardown
  BY <1>15 DEF Teardown, Exit, Sent
<1>16. CASE UNCHANGED vars
  <2>1. Done' = Done /\ \A m : SentAll(m)' <=> SentAll(m)
    BY <1>16 DEF vars, Done, SentAll
  <2> QED
    BY <1>16, <2>1 DEF vars, Sent
<1> QED
  BY <1>1, <1>2, <1>3, <1>4, <1>5, <1>6, <1>7, <1>8, <1>9, <1>10, <1>11, <1>12,
     <1>13, <1>14, <1>15, <1>16 DEF Next

\* Before the flush every entry is done.
LEMMA SentComplete == Invariants /\ Sent => CycleComplete
BY DEF Invariants, TypeInv, Loops, RegistryInv, Registered, Sent, SentAll, Done,
       CycleComplete, Listing, HasEntry

\* When a cycle is flushed, every chart of every listed UPS got its block.
THEOREM CycleAlwaysComplete == Spec => []CycleComplete
BY SentComplete, ChartedInvariant, SentInit, SentStep, PTL DEF Spec

-----------------------------------------------------------------------------
(* How many blocks a chart gets.                                           *)

Metrics == Charts \cup {"status"}

\* The blocks that the rest of the cycle may still send for n: all of them before
\* main() is at n, and then one less with each that is sent.
Left(n, v) ==
    IF n \in pending \/ (n = ups_name /\ pc \in {"register", "status"}) THEN Blocks(v)
    ELSE IF n = ups_name /\ pc = "realpower" /\ v # "status" THEN Blocks(v)
    ELSE IF n = ups_name /\ pc = "vars" /\ v \in todo THEN 1
    ELSE 0

\* With what is sent already they are no more than the code has for the chart.
Counted ==
    \A n \in Alone, v \in Metrics : begun[<<clean_name(n), v>>] + Left(n, v) =< Blocks(v)

\* Both are natural numbers.
LEMMA LeftNat ==
    ASSUME NEW n, NEW v
    PROVE  Left(n, v) \in Nat /\ Blocks(v) \in Nat \ {0} /\ Left(n, v) =< Blocks(v)
BY DEF Left, Blocks

\* A step that sends nothing keeps the bound if it does not make more to send.
LEMMA CountedKept ==
    ASSUME begun \in [ChartIds -> Nat], Counted, UNCHANGED begun,
           \A n \in UPS, v \in Metrics : Left(n, v)' =< Left(n, v)
    PROVE  Counted'
<1> SUFFICES ASSUME NEW n \in Alone, NEW v \in Metrics
             PROVE  begun[<<clean_name(n), v>>] + Left(n, v)' =< Blocks(v)
  BY Zenon DEF Counted, Alone, Metrics
<1>1. n \in UPS /\ begun[<<clean_name(n), v>>] \in Nat
  BY ChartIdsOfUPS DEF Alone, Metrics
<1>2. begun[<<clean_name(n), v>>] + Left(n, v) =< Blocks(v) /\ Left(n, v)' =< Left(n, v)
  BY <1>1, Zenon DEF Counted
<1>3. Left(n, v)' \in Nat
  BY DEF Left, Blocks
<1> QED
  BY <1>1, <1>2, <1>3, LeftNat

\* A step that sends a block keeps it if there is one less to send of that chart.
LEMMA CountedSends ==
    ASSUME begun \in [ChartIds -> Nat], Counted, ups_name \in UPS, NEW w \in Metrics,
           SendMetric(<<clean_name(ups_name), w>>),
           \A n \in UPS, v \in Metrics :
             Left(n, v)' + (IF n = ups_name /\ v = w THEN 1 ELSE 0) =< Left(n, v)
    PROVE  Counted'
<1> SUFFICES ASSUME NEW n \in Alone, NEW v \in Metrics
             PROVE  begun'[<<clean_name(n), v>>] + Left(n, v)' =< Blocks(v)
  BY Zenon DEF Counted, Alone, Metrics
<1>1. n \in UPS /\ <<clean_name(n), v>> \in ChartIds /\ <<clean_name(ups_name), w>> \in ChartIds
  BY ChartIdsOfUPS DEF Alone, Metrics
<1>2. begun[<<clean_name(n), v>>] \in Nat
  BY <1>1
<1>3. /\ begun[<<clean_name(n), v>>] + Left(n, v) =< Blocks(v)
      /\ Left(n, v)' + (IF n = ups_name /\ v = w THEN 1 ELSE 0) =< Left(n, v)
  BY <1>1, Zenon DEF Counted
<1>4. Left(n, v)' \in Nat
  BY DEF Left, Blocks
<1>5. CASE n = ups_name /\ v = w
  <2>1. begun'[<<clean_name(n), v>>] = begun[<<clean_name(n), v>>] + 1
    BY <1>1, <1>5 DEF SendMetric
  <2> QED
    BY <1>2, <1>3, <1>4, <1>5, <2>1, LeftNat
<1>6. CASE ~(n = ups_name /\ v = w)
  <2>1. <<clean_name(n), v>> # <<clean_name(ups_name), w>>
    BY <1>6 DEF Alone
  <2>2. begun'[<<clean_name(n), v>>] = begun[<<clean_name(n), v>>]
    BY <1>1, <2>1, SendMetricCounts, Zenon
  <2> QED
    BY <1>2, <1>3, <1>4, <1>6, <2>2, LeftNat
<1> QED
  BY <1>5, <1>6

\* Nothing is sent and nothing is left to send at the start.
LEMMA CountedInit == Init => Counted
<1> SUFFICES ASSUME Init, NEW n \in Alone, NEW v \in Metrics
             PROVE  begun[<<clean_name(n), v>>] + Left(n, v) =< Blocks(v)
  BY DEF Counted
<1>1. begun[<<clean_name(n), v>>] = 0
  BY ChartIdsOfUPS DEF Init, Alone, Metrics
<1> QED
  BY <1>1, LeftNat

\* Every step keeps the bound: a list has an entry once, a table a row once.
LEMMA CountedStep == Invariants /\ Counted /\ [Next]_vars => Counted'
<1> SUFFICES ASSUME TypeInv, RegistryInv, Counted, [Next]_vars
             PROVE  Counted'
  BY DEF Invariants
<1> USE DEF control, query, registry, loops, stdout
<1>0. /\ begun \in [ChartIds -> Nat] /\ pending \subseteq UPS /\ "status" \notin todo
      /\ "ups.realpower" \in Metrics /\ "status" \in Metrics
  BY ChartsAssumption DEF TypeInv, TypeOK, Metrics
<1>E. ASSUME pc \in {"status", "realpower", "vars"}
      PROVE  /\ ups_name \in UPS /\ ups_name \in DOMAIN nd_ups_vars /\ ups_name \notin pending
             /\ nd_ups_name[ups_name] = clean_name(ups_name) /\ nd_ups_vars[ups_name] \subseteq Charts
  BY <1>E, EntryInUse, ChartsOfEntry DEF RegistryInv, TypeInv, Loops, HasEntry
<1>1. CASE ListStart
  <2> SUFFICES ASSUME NEW n \in Alone, NEW v \in Metrics
               PROVE  begun'[<<clean_name(n), v>>] + Left(n, v)' =< Blocks(v)
    BY Zenon DEF Counted, Alone, Metrics
  <2>1. begun'[<<clean_name(n), v>>] = 0
    BY <1>1, ChartIdsOfUPS DEF ListStart, Alone, Metrics
  <2>2. Left(n, v)' \in Nat /\ Left(n, v)' =< Blocks(v)
    BY DEF Left, Blocks
  <2> QED
    BY <2>1, <2>2
<1>2. ASSUME UNCHANGED begun, \A n \in UPS, v \in Metrics : Left(n, v)' =< Left(n, v)
      PROVE  Counted'
  BY <1>0, <1>2, CountedKept, Zenon
<1>3. CASE QueryFails \/ FlushFails \/ Flush \/ SweepEnd \/ Teardown \/ ListEnd \/ SendEnd
  <2>1. UNCHANGED <<begun, pending, ups_name, todo>> /\ pc' \notin {"register", "status", "realpower", "vars"}
    BY <1>3 DEF QueryFails, FlushFails, Flush, SweepEnd, Teardown, Exit, ListEnd, SendEnd
  <2>2. \A n \in UPS, v \in Metrics : Left(n, v)' =< Left(n, v)
    BY <2>1 DEF Left, Blocks
  <2> QED
    BY <1>2, <2>1, <2>2
<1>4. ASSUME NEW m \in UPS, ListNext(m)
      PROVE  Counted'
  <2>1. /\ UNCHANGED begun /\ pending' = pending \ {m} /\ m \in pending /\ ups_name' = m
        /\ pc' \in {"register", "status"}
    BY <1>4 DEF ListNext, RegisterBegin
  <2>2. \A n \in UPS, v \in Metrics : Left(n, v)' =< Left(n, v)
    BY <2>1 DEF Left, Blocks
  <2> QED
    BY <1>2, <2>1, <2>2
<1>5. ASSUME NEW w \in Charts, RegisterChart(w)
      PROVE  Counted'
  <2>1. UNCHANGED <<begun, pending, ups_name, pc>> /\ pc = "register"
    BY <1>5 DEF RegisterChart
  <2>2. \A n \in UPS, v \in Metrics : Left(n, v)' =< Left(n, v)
    BY <2>1 DEF Left, Blocks
  <2> QED
    BY <1>2, <2>1, <2>2
<1>6. CASE RegisterEnd
  <2>1. UNCHANGED <<begun, pending, ups_name>> /\ pc = "register" /\ pc' \in {"status", "list"}
    BY <1>6 DEF RegisterEnd
  <2>2. \A n \in UPS, v \in Metrics : Left(n, v)' =< Left(n, v)
    BY <2>1 DEF Left, Blocks
  <2> QED
    BY <1>2, <2>1, <2>2
<1>7. CASE SendStatus
  <2>0. pc = "status" /\ UNCHANGED <<pending, ups_name, todo>>
    BY <1>7 DEF SendStatus
  <2>1. CASE pc' = "exit" /\ UNCHANGED begun
    <3>1. \A n \in UPS, v \in Metrics : Left(n, v)' =< Left(n, v)
      BY <2>0, <2>1 DEF Left, Blocks
    <3> QED
      BY <1>2, <2>1, <3>1
  <2>2. CASE pc' = "realpower" /\ SendMetric(<<nd_ups_name[ups_name], "status">>)
    <3>1. /\ ups_name \in UPS /\ ups_name \notin pending
          /\ SendMetric(<<clean_name(ups_name), "status">>)
      BY <1>E, <2>0, <2>2
    <3>2. \A n \in UPS, v \in Metrics :
            Left(n, v)' + (IF n = ups_name /\ v = "status" THEN 1 ELSE 0) =< Left(n, v)
      BY <2>0, <2>2, <3>1 DEF Left, Blocks
    <3> QED
      BY <1>0, <3>1, <3>2, CountedSends, Zenon
  <2> QED
    BY <1>7, <2>1, <2>2 DEF SendStatus, Exit
<1>8. CASE SendRealpower
  <2>0. /\ pc = "realpower" /\ pc' = "vars" /\ UNCHANGED <<pending, ups_name>>
        /\ todo' = ups_vars'
        /\ ups_vars' = IF ups_name \in DOMAIN nd_ups_vars THEN nd_ups_vars[ups_name] ELSE {}
    BY <1>8 DEF SendRealpower
  <2>1. /\ ups_name \in UPS /\ ups_name \notin pending /\ nd_ups_name[ups_name] = clean_name(ups_name)
        /\ "status" \notin todo'
    BY <1>E, <2>0, ChartsAssumption
  <2>2. CASE UNCHANGED begun
    <3>1. \A n \in UPS, v \in Metrics : Left(n, v)' =< Left(n, v)
      BY <2>0, <2>1 DEF Left, Blocks
    <3> QED
      BY <1>2, <2>2, <3>1
  <2>3. CASE SendMetric(<<nd_ups_name[ups_name], "ups.realpower">>)
    <3>1. SendMetric(<<clean_name(ups_name), "ups.realpower">>)
      BY <2>1, <2>3
    <3>2. \A n \in UPS, v \in Metrics :
            Left(n, v)' + (IF n = ups_name /\ v = "ups.realpower" THEN 1 ELSE 0) =< Left(n, v)
      BY <2>0, <2>1 DEF Left, Blocks
    <3> QED
      BY <1>0, <2>1, <3>1, <3>2, CountedSends, Zenon
  <2> QED
    BY <1>8, <2>2, <2>3 DEF SendRealpower
<1>9. ASSUME NEW w \in Charts, SendVar(w)
      PROVE  Counted'
  <2>0. pc = "vars" /\ w \in todo /\ todo' = todo \ {w} /\ UNCHANGED <<pending, ups_name>>
    BY <1>9 DEF SendVar
  <2>1. CASE pc' = "exit" /\ UNCHANGED begun
    <3>1. \A n \in UPS, v \in Metrics : Left(n, v)' =< Left(n, v)
      BY <2>0, <2>1 DEF Left, Blocks
    <3> QED
      BY <1>2, <2>1, <3>1
  <2>2. CASE pc' = "vars" /\ SendMetric(<<nd_ups_name[ups_name], w>>)
    <3>1. /\ ups_name \in UPS /\ ups_name \notin pending /\ w \in Metrics
          /\ SendMetric(<<clean_name(ups_name), w>>)
      BY <1>E, <2>0, <2>2 DEF Metrics
    <3>2. \A n \in UPS, v \in Metrics :
            Left(n, v)' + (IF n = ups_name /\ v = w THEN 1 ELSE 0) =< Left(n, v)
      BY <2>0, <2>2, <3>1 DEF Left, Blocks
    <3> QED
      BY <1>0, <3>1, <3>2, CountedSends, Zenon
  <2> QED
    BY <1>9, <2>0, <2>1, <2>2 DEF SendVar, Exit
<1>10. CASE UNCHANGED <<begun, pending, ups_name, todo, pc>>
  <2>1. \A n \in UPS, v \in Metrics : Left(n, v)' =< Left(n, v)
    BY <1>10 DEF Left, Blocks
  <2> QED
    BY <1>2, <1>10, <2>1
<1>11. ASSUME NEW n \in UPS, Sweep(n)
       PROVE  UNCHANGED <<begun, pending, ups_name, todo, pc>>
  BY <1>11 DEF Sweep
<1>12. CASE UNCHANGED vars
  BY <1>10, <1>12 DEF vars
<1> QED
  BY <1>1, <1>3, <1>4, <1>5, <1>6, <1>7, <1>8, <1>9, <1>10, <1>11, <1>12 DEF Next

\* What is sent is within the bound.
LEMMA CountedBound == Invariants /\ Counted => BlocksPerCycle
<1> SUFFICES ASSUME TypeOK, Counted, NEW n \in Alone, NEW v \in Charts \cup {"status"}
             PROVE  begun[<<clean_name(n), v>>] =< Blocks(v)
  BY DEF Invariants, TypeInv, BlocksPerCycle
<1>1. begun[<<clean_name(n), v>>] \in Nat
  BY ChartIdsOfUPS DEF TypeOK, Alone
<1>2. begun[<<clean_name(n), v>>] + Left(n, v) =< Blocks(v)
  BY DEF Counted, Metrics
<1> QED
  BY <1>1, <1>2, LeftNat

\* A cycle sends a chart of a UPS that shares its cleaned name with no other one
\* block, and load_usage at most two, in every cycle and for every upsd.
THEOREM BlocksAlwaysBounded == Spec => []BlocksPerCycle
BY CountedBound, ChartedInvariant, CountedInit, CountedStep, PTL DEF Spec

-----------------------------------------------------------------------------
(* UPSes that serve the same variables all the time.                       *)

\* For a steady UPS a GET has one answer.
LEMMA SteadyAnswer ==
    ASSUME NEW n, Steady(n), NEW v \in Numbers
    PROVE  "NULL" \in upsd[n][v] <=> "value" \notin upsd[n][v]
<1>1. upsd[n][v] \subseteq {"NULL", "value"} /\ upsd[n][v] # {}
  BY upsdAssumption DEF Results, Steady
<1>2. upsd[n][v] # {"NULL", "value"}
  BY DEF Steady
<1> QED
  BY <1>1, <1>2

\* The registered charts of a steady UPS are the ones it serves: load_usage
\* whenever it can be sent, and any other only if its variable is served.
Matches(n, charts, found) ==
    /\ HasLoadUsage(n) => "ups.realpower" \in charts
    /\ \A v \in found : Serves(n, v) \/ (v = "ups.realpower" /\ HasLoadUsage(n))

Matched ==
    /\ \A n \in DOMAIN nd_ups_vars : Steady(n) => Matches(n, nd_ups_vars[n], nd_ups_vars[n])
    /\ pc = "register" /\ Steady(ups_name) => Matches(ups_name, ups_vars \cup todo, ups_vars)

\* There is nothing to match at the start.
LEMMA MatchedInit == Init => Matched
BY DEF Init, Matched, Empty

\* Every step keeps the match; only RegisterChart adds to the charts.
LEMMA MatchedStep == Invariants /\ Matched /\ [Next]_vars => Matched'
<1> SUFFICES ASSUME TypeOK, Loops, DictionariesAgree, Matched, [Next]_vars
             PROVE  Matched'
  BY DEF Invariants, TypeInv, RegistryInv
<1> USE DEF control, query, registry, loops, stdout, HasEntry
<1>1. CASE UNCHANGED nd_ups_vars /\ pc' # "register"
  BY <1>1 DEF Matched
<1>2. ASSUME NEW n \in UPS, ListNext(n)
      PROVE  Matched'
  BY <1>2, ChartsAssumption DEF ListNext, RegisterBegin, Matched, Matches
<1>3. ASSUME NEW v \in Charts, RegisterChart(v)
      PROVE  Matched'
  <2>1. UNCHANGED <<pc, ups_name, nd_ups_vars>> /\ pc = "register" /\ v \in Numbers
    BY <1>3 DEF RegisterChart, Numbers
  <2>2. CASE ~Steady(ups_name)
    BY <2>1, <2>2 DEF Matched
  <2>3. CASE Steady(ups_name)
    <3>1. /\ GetsNull(v) <=> ~Serves(ups_name, v)
          /\ FallbackFails <=> ~(Serves(ups_name, "ups.load") /\ Serves(ups_name, "ups.realpower.nominal"))
          /\ FallbackWorks <=> Serves(ups_name, "ups.load") /\ Serves(ups_name, "ups.realpower.nominal")
          /\ GetsValue(v) <=> Serves(ups_name, v)
      BY <2>1, <2>3, SteadyAnswer
         DEF GetsNull, GetsValue, FallbackFails, FallbackWorks, Serves, Numbers
    <3>2. \/ /\ Serves(ups_name, v) \/ (v = "ups.realpower" /\ HasLoadUsage(ups_name))
             /\ ups_vars' = ups_vars \cup {v}
          \/ /\ v = "ups.realpower" => ~HasLoadUsage(ups_name)
             /\ ups_vars' = ups_vars
      BY <1>3, <3>1 DEF RegisterChart, HasLoadUsage
    <3>3. todo' = todo \ {v}
      BY <1>3 DEF RegisterChart
    <3>4. Matches(ups_name, ups_vars', ups_vars') \/ Matches(ups_name, ups_vars' \cup todo', ups_vars')
      BY <2>1, <2>3, <3>2, <3>3 DEF Matched, Matches
    <3> QED
      BY <2>1, <3>4 DEF Matched, Matches
  <2> QED
    BY <2>2, <2>3
<1>4. CASE RegisterEnd
  <2>1. /\ DOMAIN nd_ups_vars' = DOMAIN nd_ups_vars \cup {ups_name}
        /\ nd_ups_vars'[ups_name] = ups_vars
        /\ \A n \in DOMAIN nd_ups_vars : n # ups_name => nd_ups_vars'[n] = nd_ups_vars[n]
    BY <1>4 DEF RegisterEnd, dictionary_set
  <2> QED
    BY <1>4, <2>1 DEF RegisterEnd, Matched, Matches
<1>5. ASSUME NEW n \in UPS, Sweep(n)
      PROVE  Matched'
  <2>1. /\ DOMAIN nd_ups_vars' \subseteq DOMAIN nd_ups_vars
        /\ \A m \in DOMAIN nd_ups_vars' : nd_ups_vars'[m] = nd_ups_vars[m]
    BY <1>5 DEF Sweep, dictionary_del
  <2> QED
    BY <1>5, <2>1 DEF Sweep, Matched
<1>6. CASE Teardown
  BY <1>6 DEF Teardown, Exit, Matched, Empty
<1>7. CASE UNCHANGED vars
  BY <1>7 DEF vars, Matched
<1>8. ASSUME NEW v \in Charts, SendVar(v)
      PROVE  UNCHANGED nd_ups_vars /\ pc' # "register"
  BY <1>8 DEF SendVar, Exit
<1> QED
  BY <1>1, <1>2, <1>3, <1>4, <1>5, <1>6, <1>7, <1>8
     DEF Next, QueryFails, ListStart, ListEnd, SendStatus, SendRealpower, SendEnd,
         FlushFails, Flush, SweepEnd, Exit

\* For any upsd, the blocks of a UPS that serves the same variables all the time
\* name charts that a CHART line gave.
THEOREM SteadyBeginsDefined == Spec => SteadyBegins
<1>1. ASSUME Invariants, Charted, Matched, Next, Steady(ups_name),
             NEW c \in ChartIds, begun'[c] > begun[c]
      PROVE  c \in defined
  <2> USE <1>1 DEF control, query, registry, loops, stdout
  <2>0. begun[c] \in Nat /\ begun' # begun
    BY DEF Invariants, TypeInv, TypeOK
  <2>1. ASSUME NEW chart \in ChartIds, SendMetric(chart) PROVE c = chart
    BY <2>1, SendMetricCounts DEF Invariants, TypeInv, TypeOK
  <2>2. ASSUME pc \in {"status", "realpower", "vars"}
        PROVE  /\ ups_name \in DOMAIN nd_ups_vars /\ nd_ups_name[ups_name] = clean_name(ups_name)
               /\ \A v \in nd_ups_vars[ups_name] \cup {"status"} : <<clean_name(ups_name), v>> \in defined
               /\ \A v \in nd_ups_vars[ups_name] \cup {"status", "ups.realpower"} :
                     <<clean_name(ups_name), v>> \in ChartIds
    BY <2>2, EntryInUse, ChartsOfEntry DEF Invariants, RegistryInv, Charted
  <2>3. CASE SendStatus
    BY <2>0, <2>1, <2>2, <2>3 DEF SendStatus
  <2>4. CASE SendRealpower
    <3>1. CASE HasLoadUsage(ups_name)
      BY <2>0, <2>1, <2>2, <2>4, <3>1 DEF SendRealpower, Matched, Matches
    <3>2. CASE ~HasLoadUsage(ups_name)
      BY <2>0, <2>4, <3>2 DEF SendRealpower, HasLoadUsage, Serves, GetsValue, FallbackWorks
    <3> QED
      BY <3>1, <3>2
  <2>5. ASSUME NEW v \in Charts, SendVar(v) PROVE c \in defined
    BY <2>0, <2>1, <2>2, <2>5 DEF SendVar, Charted
  <2>6. CASE ListStart
    BY <2>0, <2>6 DEF ListStart
  <2> QED
    BY <2>0, <2>3, <2>4, <2>5, <2>6
       DEF Next, QueryFails, ListNext, ListEnd, RegisterChart, RegisterEnd, SendEnd,
           FlushFails, Flush, Sweep, SweepEnd, Teardown
<1>2. Invariants /\ Charted /\ Matched /\ [Next]_vars
        => [Steady(ups_name) =>
              \A c \in ChartIds : begun'[c] > begun[c] => c \in defined]_vars
  BY <1>1
<1> QED
  BY <1>2, ChartedInvariant, MatchedInit, MatchedStep, PTL DEF Spec, SteadyBegins

\* The crashed process does not go on, so the entry in use stays the one to blame.
Blamed == exit = "SIGSEGV" => pc = "exit" /\ ~Sound(ups_name)

\* For any upsd, the UPS over which the plugin crashes is not a sound one.
THEOREM SoundNeverCrashes == Spec => []SoundNoCrash
<1>1. Init => Blamed
  BY DEF Init, Blamed
<1>2. Invariants /\ Charted /\ Matched /\ Blamed /\ [Next]_vars => Blamed'
  <2> SUFFICES ASSUME Invariants, Charted, Matched, Blamed, [Next]_vars
               PROVE  Blamed'
    OBVIOUS
  <2> USE DEF control, query, registry, loops, stdout
  <2>1. ASSUME pc \in {"status", "realpower", "vars"}
        PROVE  ups_name \in DOMAIN nd_ups_vars /\ ups_name \in UPS
    BY <2>1, EntryInUse, ChartsOfEntry DEF Invariants, RegistryInv
  <2>2. CASE SendStatus
    <3>1. CASE Sound(ups_name)
      BY <2>2, <3>1 DEF SendStatus, Exit, Blamed, Sound
    <3>2. CASE ~Sound(ups_name)
      BY <2>2, <3>2 DEF SendStatus, Exit, Blamed
    <3> QED
      BY <3>1, <3>2
  <2>3. ASSUME NEW v \in Charts, SendVar(v) PROVE Blamed'
    <3>1. UNCHANGED ups_name
      BY <2>3 DEF SendVar
    <3>2. CASE ~Sound(ups_name)
      BY <2>3, <3>1, <3>2 DEF SendVar, Exit, Blamed
    <3>3. CASE Sound(ups_name)
      <4>1. Serves(ups_name, v)
        BY <2>1, <2>3, <3>3 DEF SendVar, Charted, Matched, Matches, Sound
      <4>2. ~GetsNull(v)
        BY <2>3, <3>3, <4>1, SteadyAnswer DEF SendVar, Serves, GetsNull, Numbers, Sound
      <4> QED
        BY <2>3, <3>1, <3>3, <4>2 DEF SendVar, Blamed
    <3> QED
      BY <3>2, <3>3
  <2>4. CASE UNCHANGED vars
    BY <2>4 DEF vars, Blamed
  <2>5. ASSUME NEW n \in UPS, ListNext(n) \/ Sweep(n) PROVE Blamed'
    BY <2>5 DEF ListNext, RegisterBegin, Sweep, Blamed
  <2>6. CASE QueryFails \/ FlushFails \/ Teardown
    BY <2>6 DEF QueryFails, FlushFails, Teardown, Exit, Blamed
  <2> QED
    BY <2>2, <2>3, <2>4, <2>5, <2>6
       DEF Next, Blamed, ListStart, ListEnd, RegisterChart, RegisterEnd, SendRealpower,
           SendEnd, Flush, SweepEnd
<1>3. Blamed => SoundNoCrash
  BY DEF Blamed, SoundNoCrash
<1> QED
  BY <1>1, <1>2, <1>3, ChartedInvariant, MatchedInit, MatchedStep, PTL DEF Spec
=============================================================================
