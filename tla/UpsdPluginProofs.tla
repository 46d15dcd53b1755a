--------------------------- MODULE UpsdPluginProofs ---------------------------
(***************************************************************************)
(* Proofs about UpsdPlugin, for every set of names, every table of charts  *)
(* and every upsd.                                                         *)
(***************************************************************************)
EXTENDS UpsdPlugin, TLAPS

-----------------------------------------------------------------------------
(* Dictionaries and chart ids.                                             *)

\* dictionary_set adds one key and touches no other entry.
LEMMA DictionarySet ==
    ASSUME NEW d, NEW k, NEW v
    PROVE  /\ DOMAIN dictionary_set(d, k, v) = DOMAIN d \cup {k}
           /\ dictionary_set(d, k, v)[k] = v
           /\ \A x \in DOMAIN d : x # k => dictionary_set(d, k, v)[x] = d[x]
BY DEF dictionary_set

\* dictionary_del removes one key and touches no other entry.
LEMMA DictionaryDel ==
    ASSUME NEW d, NEW k
    PROVE  /\ DOMAIN dictionary_del(d, k) = DOMAIN d \ {k}
           /\ \A x \in DOMAIN d : x # k => dictionary_del(d, k)[x] = d[x]
BY DEF dictionary_del

\* What clean_name and the table make of a UPS is a chart id.
LEMMA ChartIdsOfUPS ==
    ASSUME NEW n \in UPS, NEW v \in Charts \cup {"status"}
    PROVE  <<clean_name(n), v>> \in ChartIds
BY DEF ChartIds

-----------------------------------------------------------------------------
(* The types, and what the locals of main() hold at each place.            *)

\* main() is working on an entry of LIST UPS; it is reading LIST UPS.
HasEntry == {"register", "status", "realpower", "vars"}
Listing  == HasEntry \cup {"list", "flush"}

\* Where main() is says what its locals hold: the entry in use was taken from
\* the listing and is registered, the deletion loop's cursor is used in that
\* loop only, and the registration loop precedes everything else.
Loops ==
    /\ pc \in HasEntry => ups_name \in listing \ pending /\ ups_name \in DOMAIN nd_ups_name
    /\ pc \in {"status", "realpower", "vars", "flush", "sweep", "wait"} => started
    /\ pc = "start" => ~started
    /\ pc # "sweep" => sweep = {}

TypeInv == TypeOK /\ Loops

\* A registered name maps to its cleaned form.
LEMMA CleanedName ==
    ASSUME TypeOK, NEW n \in DOMAIN nd_ups_name
    PROVE  n \in UPS /\ nd_ups_name[n] = clean_name(n)
BY DEF TypeOK

\* The types hold at the start.
LEMMA TypeInit == Init => TypeInv
<1> SUFFICES ASSUME Init PROVE TypeOK /\ Loops
  BY DEF TypeInv
<1>1. /\ nd_ups_name = [n \in DOMAIN nd_ups_name |-> clean_name(n)]
      /\ nd_ups_vars \in [DOMAIN nd_ups_vars -> SUBSET Charts]
      /\ nd_ups_seen \in [DOMAIN nd_ups_seen -> BOOLEAN]
      /\ DOMAIN nd_ups_name = {} /\ DOMAIN nd_ups_vars = {} /\ DOMAIN nd_ups_seen = {}
  BY DEF Init, Empty
<1>2. begun \in [ChartIds -> Nat]
  BY DEF Init
<1> QED
  BY <1>1, <1>2 DEF Init, TypeOK, Loops, PCs, ExitCodes, HasEntry

\* Counting a block keeps the type of the counters.
LEMMA SendMetricType ==
  ASSUME NEW chart, begun \in [ChartIds -> Nat], SendMetric(chart) \/ UNCHANGED begun
  PROVE  begun' \in [ChartIds -> Nat]
<1>1. CASE SendMetric(chart)
  <2>1. begun' = [c \in ChartIds |-> IF c = chart THEN begun[c] + 1 ELSE begun[c]]
    BY <1>1, Zenon DEF SendMetric
  <2>2. ASSUME NEW c \in ChartIds
        PROVE  (IF c = chart THEN begun[c] + 1 ELSE begun[c]) \in Nat
    <3>1. begun[c] \in Nat
      OBVIOUS
    <3> QED
      BY <3>1
  <2> QED
    BY <2>1, <2>2, Zenon
<1> QED
  BY <1>1

\* Every action keeps the types and the meaning of the locals.
LEMMA TypeStep == TypeInv /\ [Next]_vars => TypeInv'
<1> SUFFICES ASSUME TypeOK, Loops, [Next]_vars
             PROVE  TypeOK' /\ Loops'
  BY DEF TypeInv
<1> USE DEF control, query, registry, loops, stdout, PCs, ExitCodes, HasEntry
<1>1. CASE QueryFails
  BY <1>1 DEF QueryFails, Exit, TypeOK, Loops
<1>2. CASE ListStart
  BY <1>2 DEF ListStart, TypeOK, Loops
<1>3. ASSUME NEW n \in UPS, ListNext(n)
      PROVE  TypeOK' /\ Loops'
  <2>1. CASE started /\ n \in DOMAIN nd_ups_name
    BY <1>3, <2>1 DEF ListNext, TypeOK, Loops
  <2>2. CASE RegisterBegin(n)
    <3>1. /\ DOMAIN nd_ups_name' = DOMAIN nd_ups_name \cup {n}
          /\ nd_ups_name' = [m \in DOMAIN nd_ups_name' |-> clean_name(m)]
      BY <2>2 DEF RegisterBegin, TypeOK, dictionary_set
    <3>2. defined' \subseteq ChartIds
      BY <2>2, ChartIdsOfUPS DEF RegisterBegin, TypeOK
    <3> QED
      BY <1>3, <2>2, <3>1, <3>2 DEF ListNext, RegisterBegin, TypeOK, Loops
  <2> QED
    BY <1>3, <2>1, <2>2 DEF ListNext
<1>4. CASE ListEnd
  BY <1>4 DEF ListEnd, TypeOK, Loops
<1>5. ASSUME NEW v \in Charts, RegisterChart(v)
      PROVE  TypeOK' /\ Loops'
  <2>1. <<nd_ups_name[ups_name], v>> \in ChartIds
    BY <1>5, CleanedName, ChartIdsOfUPS DEF RegisterChart, Loops
  <2> QED
    BY <1>5, <2>1 DEF RegisterChart, TypeOK, Loops
<1>6. CASE RegisterEnd
  <2>1. /\ DOMAIN nd_ups_vars' \subseteq UPS
        /\ nd_ups_vars' \in [DOMAIN nd_ups_vars' -> SUBSET Charts]
    BY <1>6 DEF RegisterEnd, TypeOK, Loops, dictionary_set
  <2> QED
    BY <1>6, <2>1 DEF RegisterEnd, TypeOK, Loops
<1>7. CASE SendStatus
  <2>1. /\ DOMAIN nd_ups_seen' \subseteq UPS
        /\ nd_ups_seen' \in [DOMAIN nd_ups_seen' -> BOOLEAN]
    BY <1>7 DEF SendStatus, set_seen, TypeOK, Loops, dictionary_set
  <2>2. SendMetric(<<nd_ups_name[ups_name], "status">>) \/ UNCHANGED begun
    BY <1>7 DEF SendStatus
  <2>3. begun' \in [ChartIds -> Nat]
    BY <2>2, SendMetricType DEF TypeOK
  <2> QED
    BY <1>7, <2>1, <2>3 DEF SendStatus, Exit, TypeOK, Loops
<1>8. CASE SendRealpower
  <2>1. SendMetric(<<nd_ups_name[ups_name], "ups.realpower">>) \/ UNCHANGED begun
    BY <1>8 DEF SendRealpower
  <2>2. begun' \in [ChartIds -> Nat]
    BY <2>1, SendMetricType DEF TypeOK
  <2>3. ups_vars' \subseteq Charts /\ todo' \subseteq Charts
    BY <1>8 DEF SendRealpower, TypeOK
  <2> QED
    BY <1>8, <2>2, <2>3 DEF SendRealpower, TypeOK, Loops
<1>9. ASSUME NEW v \in Charts, SendVar(v)
      PROVE  TypeOK' /\ Loops'
  <2>1. SendMetric(<<nd_ups_name[ups_name], v>>) \/ UNCHANGED begun
    BY <1>9 DEF SendVar
  <2>2. begun' \in [ChartIds -> Nat]
    BY <2>1, SendMetricType DEF TypeOK
  <2> QED
    BY <1>9, <2>2 DEF SendVar, Exit, TypeOK, Loops
<1>10. CASE SendEnd
  BY <1>10 DEF SendEnd, TypeOK, Loops
<1>11. CASE FlushFails
  BY <1>11 DEF FlushFails, Exit, TypeOK, Loops
<1>12. CASE Flush
  BY <1>12 DEF Flush, TypeOK, Loops
<1>13. ASSUME NEW n \in UPS, Sweep(n)
       PROVE  TypeOK' /\ Loops'
  <2>2. CASE was_seen(nd_ups_name[n]) /\ set_seen(nd_ups_name[n], FALSE)
             /\ UNCHANGED <<nd_ups_name, nd_ups_vars>>
    <3>1. /\ DOMAIN nd_ups_seen' \subseteq UPS
          /\ nd_ups_seen' \in [DOMAIN nd_ups_seen' -> BOOLEAN]
      BY <2>2 DEF was_seen, set_seen, TypeOK, dictionary_set
    <3> QED
      BY <1>13, <2>2, <3>1 DEF Sweep, Visited, TypeOK, Loops
  <2>3. CASE ~was_seen(nd_ups_name[n])
    <3>1. /\ nd_ups_vars' = dictionary_del(nd_ups_vars, nd_ups_name[n])
          /\ nd_ups_seen' = dictionary_del(nd_ups_seen, nd_ups_name[n])
          /\ nd_ups_name' = dictionary_del(nd_ups_name, nd_ups_name[n])
      BY <1>13, <2>3 DEF Sweep
    <3>2. /\ DOMAIN nd_ups_name' \subseteq UPS
          /\ nd_ups_name' = [m \in DOMAIN nd_ups_name' |-> clean_name(m)]
      BY <3>1 DEF dictionary_del, TypeOK
    <3>3. /\ DOMAIN nd_ups_vars' \subseteq UPS
          /\ nd_ups_vars' \in [DOMAIN nd_ups_vars' -> SUBSET Charts]
      BY <3>1 DEF dictionary_del, TypeOK
    <3>4. /\ DOMAIN nd_ups_seen' \subseteq UPS
          /\ nd_ups_seen' \in [DOMAIN nd_ups_seen' -> BOOLEAN]
      BY <3>1 DEF dictionary_del, TypeOK
    <3> QED
      BY <1>13, <3>2, <3>3, <3>4 DEF Sweep, Visited, TypeOK, Loops
  <2> QED
    BY <1>13, <2>2, <2>3 DEF Sweep
<1>14. CASE SweepEnd
  BY <1>14 DEF SweepEnd, TypeOK, Loops
<1>15. CASE Teardown
  BY <1>15 DEF Teardown, Exit, TypeOK, Loops, Empty
<1>16. CASE UNCHANGED vars
  BY <1>16 DEF vars, TypeOK, Loops
<1> QED
  BY <1>1, <1>2, <1>3, <1>4, <1>5, <1>6, <1>7, <1>8, <1>9, <1>10, <1>11, <1>12,
     <1>13, <1>14, <1>15, <1>16 DEF Next

\* The types hold in every reachable state.
THEOREM TypeCorrect == Spec => []TypeOK
<1>1. Spec => []TypeInv
  BY TypeInit, TypeStep, PTL DEF Spec
<1> QED
  BY <1>1, PTL DEF TypeInv

-----------------------------------------------------------------------------
(* The registry: nd_ups_name, nd_ups_vars and nd_ups_seen against LIST UPS. *)

\* While a listing is processed what was returned is registered; the
\* registration loop registers nothing else and sets no flag.
Registered ==
    /\ pc \in Listing => listing \ pending \subseteq DOMAIN nd_ups_name
    /\ ~started => /\ nd_ups_seen = Empty
                   /\ pc # "exit" => DOMAIN nd_ups_name = listing \ pending
    /\ pc = "start" => DOMAIN nd_ups_name = {}
    /\ pc = "flush" => pending = {}

\* In the middle of the deletion loop: an entry not visited yet is flagged if
\* and only if it is listed, a visited one is not flagged and is kept if and
\* only if it is listed.
Swept ==
    pc = "sweep" =>
      \A n \in Plain :
        /\ n \in listing => n \in DOMAIN nd_ups_name
        /\ n \in sweep => (was_seen(n) <=> n \in listing)
        /\ n \notin sweep => ~was_seen(n) /\ (n \in DOMAIN nd_ups_name => n \in listing)

RegistryInv ==
    /\ DictionariesAgree /\ SeenTracksListing /\ RegistryMatchesListing
    /\ Registered /\ Swept

\* A plain name is cleaned to itself, and no other name is cleaned to it.
LEMMA PlainName ==
    ASSUME NEW n \in Plain, NEW m \in UPS
    PROVE  n \in UPS /\ clean_name(n) = n /\ (clean_name(m) = n <=> m = n)
BY DEF Plain

\* The registry starts empty.
LEMMA RegistryInit == Init => RegistryInv
BY DEF Init, RegistryInv, DictionariesAgree, SeenTracksListing, RegistryMatchesListing,
       Registered, Swept, Listing, HasEntry, Empty

\* The flags of the other names survive a dictionary_set of one flag.
LEMMA SetSeen ==
    ASSUME NEW k, NEW b \in BOOLEAN, set_seen(k, b)
    PROVE  /\ DOMAIN nd_ups_seen' = DOMAIN nd_ups_seen \cup {k}
           /\ was_seen(k)' <=> b
           /\ \A n : n # k => (was_seen(n)' <=> was_seen(n))
<1>1. nd_ups_seen' = dictionary_set(nd_ups_seen, k, b)
  BY DEF set_seen
<1>2. DOMAIN nd_ups_seen' = DOMAIN nd_ups_seen \cup {k}
  BY <1>1 DEF dictionary_set
<1>3. nd_ups_seen'[k] = b
  BY <1>1 DEF dictionary_set
<1>4. \A n \in DOMAIN nd_ups_seen : n # k => nd_ups_seen'[n] = nd_ups_seen[n]
  BY <1>1 DEF dictionary_set
<1> QED
  BY <1>2, <1>3, <1>4, Zenon DEF was_seen

\* So they do a dictionary_del.
LEMMA DelSeen ==
    ASSUME NEW k, nd_ups_seen' = dictionary_del(nd_ups_seen, k)
    PROVE  /\ DOMAIN nd_ups_seen' = DOMAIN nd_ups_seen \ {k}
           /\ ~was_seen(k)'
           /\ \A n : n # k => (was_seen(n)' <=> was_seen(n))
<1>1. /\ DOMAIN nd_ups_seen' = DOMAIN nd_ups_seen \ {k}
      /\ \A n \in DOMAIN nd_ups_seen : n # k => nd_ups_seen'[n] = nd_ups_seen[n]
  BY DictionaryDel
<1> QED
  BY <1>1, Zenon DEF was_seen

\* One entry of the deletion loop, seen from any plain name.
LEMMA SweepStep ==
    ASSUME TypeInv, RegistryInv, NEW n \in UPS, Sweep(n)
    PROVE  RegistryInv'
<1> DEFINE ups == clean_name(n)
<1>1. /\ pc = "sweep" /\ pc' = "sweep" /\ started /\ started'
      /\ n \in sweep /\ n \in DOMAIN nd_ups_name /\ nd_ups_name[n] = ups
      /\ sweep' = (sweep \ {n}) \cap DOMAIN nd_ups_name'
      /\ listing' = listing /\ ups_name' = ups_name
  BY CleanedName DEF Sweep, Visited, TypeInv, TypeOK, Loops, control, query
<1>2. ASSUME NEW m \in Plain PROVE ups = m <=> n = m
  BY <1>1, <1>2, PlainName
<1> HIDE DEF ups
<1>3. CASE was_seen(ups) /\ set_seen(ups, FALSE) /\ UNCHANGED <<nd_ups_name, nd_ups_vars>>
  <2>1. /\ DOMAIN nd_ups_seen' = DOMAIN nd_ups_seen
        /\ ~was_seen(ups)'
        /\ \A m : m # ups => (was_seen(m)' <=> was_seen(m))
    BY <1>3, SetSeen DEF was_seen
  <2>2. DictionariesAgree'
    BY <1>1, <1>3, <2>1 DEF RegistryInv, DictionariesAgree
  <2>3. Swept'
    <3> SUFFICES ASSUME NEW m \in Plain
                 PROVE  /\ m \in listing => m \in DOMAIN nd_ups_name'
                        /\ m \in sweep' => (was_seen(m)' <=> m \in listing)
                        /\ m \notin sweep' => ~was_seen(m)' /\ (m \in DOMAIN nd_ups_name' => m \in listing)
      BY <1>1 DEF Swept
    <3>1. CASE m = n
      BY <1>1, <1>2, <1>3, <2>1, <3>1 DEF RegistryInv, Swept
    <3>2. CASE m # n
      BY <1>1, <1>2, <1>3, <2>1, <3>2 DEF RegistryInv, Swept, TypeInv, TypeOK
    <3> QED
      BY <3>1, <3>2
  <2> QED
    BY <1>1, <2>2, <2>3 DEF RegistryInv, SeenTracksListing, RegistryMatchesListing, Registered, Listing, HasEntry
<1>4. CASE ~was_seen(ups)
  <2>1. /\ nd_ups_vars' = dictionary_del(nd_ups_vars, ups)
        /\ nd_ups_seen' = dictionary_del(nd_ups_seen, ups)
        /\ nd_ups_name' = dictionary_del(nd_ups_name, ups)
    BY <1>1, <1>4 DEF Sweep
  <2>2. /\ DOMAIN nd_ups_vars' = DOMAIN nd_ups_vars \ {ups}
        /\ DOMAIN nd_ups_seen' = DOMAIN nd_ups_seen \ {ups}
        /\ DOMAIN nd_ups_name' = DOMAIN nd_ups_name \ {ups}
        /\ ~was_seen(ups)'
        /\ \A m : m # ups => (was_seen(m)' <=> was_seen(m))
    BY <2>1, DictionaryDel, DelSeen
  <2>3. DictionariesAgree'
    BY <1>1, <2>2 DEF RegistryInv, DictionariesAgree
  <2>4. Swept'
    <3> SUFFICES ASSUME NEW m \in Plain
                 PROVE  /\ m \in listing => m \in DOMAIN nd_ups_name'
                        /\ m \in sweep' => (was_seen(m)' <=> m \in listing)
                        /\ m \notin sweep' => ~was_seen(m)' /\ (m \in DOMAIN nd_ups_name' => m \in listing)
      BY <1>1 DEF Swept
    <3>1. CASE m = n
      BY <1>1, <1>2, <1>4, <2>2, <3>1 DEF RegistryInv, Swept
    <3>2. CASE m # n
      BY <1>1, <1>2, <2>2, <3>2 DEF RegistryInv, Swept, TypeInv, TypeOK
    <3> QED
      BY <3>1, <3>2
  <2> QED
    BY <1>1, <2>3, <2>4 DEF RegistryInv, SeenTracksListing, RegistryMatchesListing, Registered, Listing, HasEntry
<1> QED
  BY <1>1, <1>3, <1>4 DEF Sweep

\* Every other action.
LEMMA RegistryStep == TypeInv /\ RegistryInv /\ [Next]_vars => RegistryInv'
<1> SUFFICES ASSUME TypeInv, RegistryInv, [Next]_vars
             PROVE  RegistryInv'
  OBVIOUS
<1> USE DEF control, query, registry, loops, stdout, Listing, HasEntry
<1>1. CASE QueryFails
  BY <1>1 DEF QueryFails, Exit, RegistryInv, DictionariesAgree, SeenTracksListing,
              RegistryMatchesListing, Registered, Swept
<1>2. CASE ListStart
  <2>1. \A n \in Plain : ~was_seen(n)
    BY <1>2 DEF ListStart, RegistryInv, SeenTracksListing, Registered, TypeInv, Loops, was_seen, Empty
  <2>2. \A n : was_seen(n)' <=> was_seen(n)
    BY <1>2 DEF ListStart, was_seen
  <2>3. SeenTracksListing'
    BY <1>2, <2>1, <2>2 DEF ListStart, SeenTracksListing, Observed
  <2> QED
    BY <1>2, <2>3 DEF ListStart, RegistryInv, DictionariesAgree, RegistryMatchesListing,
                      Registered, Swept, TypeInv, TypeOK, Loops
<1>3. ASSUME NEW n \in UPS, ListNext(n)
      PROVE  RegistryInv'
  <2>1. DOMAIN nd_ups_name' = DOMAIN nd_ups_name \cup {n}
    <3>1. CASE started /\ n \in DOMAIN nd_ups_name
      BY <1>3, <3>1 DEF ListNext
    <3>2. CASE nd_ups_name' = dictionary_set(nd_ups_name, n, clean_name(n))
      BY <3>2, DictionarySet
    <3> QED
      BY <1>3, <3>1, <3>2 DEF ListNext, RegisterBegin
  <2>2. pc' = "register" => n \notin DOMAIN nd_ups_name
    BY <1>3 DEF ListNext, RegistryInv, Registered
  <2>3. DictionariesAgree'
    BY <1>3, <2>1, <2>2 DEF ListNext, RegisterBegin, RegistryInv, DictionariesAgree
  <2>4. \A m : was_seen(m)' <=> was_seen(m)
    BY <1>3 DEF ListNext, was_seen
  <2>5. Observed' = Observed
    BY <1>3 DEF ListNext, RegisterBegin, Observed, TypeInv, TypeOK
  <2>6. SeenTracksListing'
    BY <1>3, <2>4, <2>5 DEF ListNext, RegisterBegin, RegistryInv, SeenTracksListing
  <2>7. Registered'
    BY <1>3, <2>1 DEF ListNext, RegisterBegin, RegistryInv, Registered, TypeInv, TypeOK
  <2> QED
    BY <1>3, <2>3, <2>6, <2>7 DEF ListNext, RegisterBegin, RegistryInv, RegistryMatchesListing, Swept
<1>4. CASE ListEnd
  <2>1. \A m : was_seen(m)' <=> was_seen(m)
    BY <1>4 DEF ListEnd, was_seen
  <2>2. ~started => \A m : ~was_seen(m)
    BY DEF RegistryInv, Registered, was_seen, Empty
  <2>3. SeenTracksListing'
    BY <1>4, <2>1, <2>2 DEF ListEnd, RegistryInv, SeenTracksListing, Observed
  <2> QED
    BY <1>4, <2>3 DEF ListEnd, RegistryInv, DictionariesAgree, RegistryMatchesListing,
                      Registered, Swept, TypeInv, TypeOK
<1>5. ASSUME NEW v \in Charts, RegisterChart(v)
      PROVE  RegistryInv'
  BY <1>5 DEF RegisterChart, RegistryInv, DictionariesAgree, SeenTracksListing, Observed,
              RegistryMatchesListing, Registered, Swept, was_seen
<1>6. CASE RegisterEnd
  <2>1. DOMAIN nd_ups_vars' = DOMAIN nd_ups_vars \cup {ups_name}
    BY <1>6, DictionarySet DEF RegisterEnd
  <2>2. DictionariesAgree'
    BY <1>6, <2>1 DEF RegisterEnd, RegistryInv, DictionariesAgree, TypeInv, Loops
  <2>3. \A m : was_seen(m)' <=> was_seen(m)
    BY <1>6 DEF RegisterEnd, was_seen
  <2>4. SeenTracksListing'
    BY <1>6, <2>3 DEF RegisterEnd, RegistryInv, SeenTracksListing, Observed
  <2> QED
    BY <1>6, <2>2, <2>4 DEF RegisterEnd, RegistryInv, RegistryMatchesListing, Registered, Swept
<1>7. CASE SendStatus
  <2>0. ups_name \in listing \ pending /\ ups_name \in DOMAIN nd_ups_name /\ started
    BY <1>7 DEF SendStatus, TypeInv, Loops
  <2>1. PICK n : n = ups_name
    OBVIOUS
  <2>2. /\ DOMAIN nd_ups_seen' = DOMAIN nd_ups_seen \cup {n}
        /\ was_seen(n)'
        /\ \A m : m # n => (was_seen(m)' <=> was_seen(m))
    BY <1>7, <2>1, SetSeen DEF SendStatus
  <2>3. DictionariesAgree'
    BY <1>7, <2>0, <2>1, <2>2 DEF SendStatus, Exit, RegistryInv, DictionariesAgree
  <2>4. pc' = "realpower" => Observed' = Observed \cup {n}
    BY <1>7, <2>0, <2>1 DEF SendStatus, Observed
  <2>5. SeenTracksListing'
    BY <1>7, <2>0, <2>2, <2>4 DEF SendStatus, Exit, RegistryInv, SeenTracksListing
  <2> QED
    BY <1>7, <2>0, <2>3, <2>5 DEF SendStatus, Exit, RegistryInv, RegistryMatchesListing,
                                  Registered, Swept
<1>8. CASE SendRealpower
  BY <1>8 DEF SendRealpower, RegistryInv, DictionariesAgree, SeenTracksListing, Observed,
              RegistryMatchesListing, Registered, Swept, was_seen
<1>9. ASSUME NEW v \in Charts, SendVar(v)
      PROVE  RegistryInv'
  BY <1>9 DEF SendVar, Exit, RegistryInv, DictionariesAgree, SeenTracksListing, Observed,
              RegistryMatchesListing, Registered, Swept, was_seen
<1>10. CASE SendEnd
  BY <1>10 DEF SendEnd, RegistryInv, DictionariesAgree, SeenTracksListing, Observed,
               RegistryMatchesListing, Registered, Swept, was_seen
<1>11. CASE FlushFails
  BY <1>11 DEF FlushFails, Exit, RegistryInv, DictionariesAgree, SeenTracksListing,
               RegistryMatchesListing, Registered, Swept
<1>12. CASE Flush
  <2>1. \A m : was_seen(m)' <=> was_seen(m)
    BY <1>12 DEF Flush, was_seen
  <2>2. \A m \in Plain : was_seen(m) <=> m \in listing
    BY <1>12 DEF Flush, RegistryInv, SeenTracksListing, Registered, Observed, TypeInv, Loops
  <2>3. \A m : was_seen(m) => m \in DOMAIN nd_ups_name
    BY DEF was_seen, RegistryInv, DictionariesAgree
  <2>4. Swept'
    BY <1>12, <2>1, <2>2, <2>3 DEF Flush, RegistryInv, Swept, Registered
  <2> QED
    BY <1>12, <2>4 DEF Flush, RegistryInv, DictionariesAgree, SeenTracksListing,
                       RegistryMatchesListing, Registered, TypeInv, Loops
<1>13. ASSUME NEW n \in UPS, Sweep(n)
       PROVE  RegistryInv'
  BY <1>13, SweepStep
<1>14. CASE SweepEnd
  <2>1. \A m : was_seen(m)' <=> was_seen(m)
    BY <1>14 DEF SweepEnd, was_seen
  <2>2. SeenTracksListing' /\ RegistryMatchesListing'
    BY <1>14, <2>1 DEF SweepEnd, RegistryInv, Swept, SeenTracksListing, RegistryMatchesListing
  <2> QED
    BY <1>14, <2>2 DEF SweepEnd, RegistryInv, DictionariesAgree, Registered, Swept, TypeInv, Loops
<1>15. CASE Teardown
  BY <1>15 DEF Teardown, Exit, RegistryInv, DictionariesAgree, SeenTracksListing,
               RegistryMatchesListing, Registered, Swept, Empty
<1>16. CASE UNCHANGED vars
  BY <1>16 DEF vars, RegistryInv, DictionariesAgree, SeenTracksListing, Observed,
               RegistryMatchesListing, Registered, Swept, was_seen
<1> QED
  BY <1>1, <1>2, <1>3, <1>4, <1>5, <1>6, <1>7, <1>8, <1>9, <1>10, <1>11, <1>12,
     <1>13, <1>14, <1>15, <1>16 DEF Next

\* The registry is in order throughout.
LEMMA RegistryInvariant == Spec => [](TypeInv /\ RegistryInv)
BY TypeInit, TypeStep, RegistryInit, RegistryStep, PTL DEF Spec

\* The three dictionaries always describe the same UPSes.
THEOREM DictionariesAlwaysAgree == Spec => []DictionariesAgree
BY RegistryInvariant, PTL DEF RegistryInv

\* The flag of a plain name always tells whether the entry was observed in the
\* LIST UPS being processed.
THEOREM SeenAlwaysTracksListing == Spec => []SeenTracksListing
BY RegistryInvariant, PTL DEF RegistryInv

\* Between two cycles the registered plain names are those of the last LIST UPS.
THEOREM RegistryAlwaysMatchesListing == Spec => []RegistryMatchesListing
BY RegistryInvariant, PTL DEF RegistryInv
=============================================================================
