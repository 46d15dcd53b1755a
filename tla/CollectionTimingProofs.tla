----------------------- MODULE CollectionTimingProofs -----------------------
(***************************************************************************)
(* Proofs about CollectionTiming for every clock, frequency and argument.  *)
(***************************************************************************)
EXTENDS CollectionTiming, WellFoundedInduction, TLAPS

-----------------------------------------------------------------------------
(* Induction over the naturals, in the form of sets. *)

\* Some numbers have a least one.
LEMMA Least ==
    ASSUME NEW T \in SUBSET Nat, T # {}
    PROVE  \E q \in T : \A r \in T : q =< r
<1> DEFINE Less == {pair \in Nat \X Nat : pair[1] < pair[2]}
<1>1. IsWellFoundedOn(Less, Nat)
    BY NatLessThanWellFounded DEF OpToRel
<1>2. \A i, j \in Nat : <<i, j>> \in Less \/ j =< i
    OBVIOUS
<1> HIDE DEF Less
<1>3. PICK q \in T : \A r \in T : ~(<<r, q>> \in Less)
    BY <1>1, WFMin
<1> QED
    BY <1>2, <1>3, Zenon

\* A set that holds 0 and with every number below n the next holds 0..n.
LEMMA UpTo ==
    ASSUME NEW n \in Nat, NEW S, 0 \in S, \A i \in 0..n - 1 : i \in S => i + 1 \in S
    PROVE  0..n \subseteq S
<1> SUFFICES ASSUME 0..n \ S # {} PROVE FALSE
    BY Zenon
<1> DEFINE T == 0..n \ S
<1>0. T \in SUBSET Nat /\ T # {}
    OBVIOUS
<1>1. PICK q \in T : \A r \in T : q =< r
    BY <1>0, Least, Zenon
<1>2. q \in 1..n /\ q - 1 \in 0..n - 1
    BY <1>1
<1>3. q - 1 \in S
    BY <1>1, <1>2
<1> QED
    BY <1>1, <1>2, <1>3

\* A recursive definition up to n has a solution: its first numbers up to k have
\* one for every k.
LEMMA Recursion ==
    ASSUME NEW n \in Nat, NEW step \in [Nat \X (1..n) -> Nat]
    PROVE  \E f \in [0..n -> Nat] :
             f[0] = 0 /\ \A i \in 1..n : f[i] = step[<<f[i - 1], i>>]
<1> DEFINE Solves(f, k) == f[0] = 0 /\ \A i \in 1..k : f[i] = step[<<f[i - 1], i>>]
<1> DEFINE S == {k \in 0..n : \E f \in [0..k -> Nat] : Solves(f, k)}
<1>1. 0 \in S
  <2> DEFINE f == [i \in 0..0 |-> 0]
  <2>1. f \in [0..0 -> Nat] /\ Solves(f, 0) /\ 0 \in 0..n
      OBVIOUS
  <2> HIDE DEF f, Solves
  <2> QED
      BY <2>1
<1>2. ASSUME NEW k \in 0..n - 1, k \in S
      PROVE  k + 1 \in S
  <2>1. PICK f \in [0..k -> Nat] : Solves(f, k)
      BY <1>2
  <2> DEFINE g == [i \in 0..k + 1 |-> IF i = k + 1 THEN step[<<f[k], k + 1>>] ELSE f[i]]
  <2>2. step[<<f[k], k + 1>>] \in Nat
      BY <2>1
  <2>3. g \in [0..k + 1 -> Nat]
      BY <2>1, <2>2
  <2>4. g[0] = 0
      BY <2>1
  <2>5. ASSUME NEW i \in 1..k + 1
        PROVE  g[i] = step[<<g[i - 1], i>>]
    <3>1. CASE i = k + 1
      <4>1. i - 1 = k /\ g[k] = f[k] /\ g[k + 1] = step[<<f[k], k + 1>>]
          BY <3>1
      <4> QED
          BY <3>1, <4>1, Zenon
    <3>2. CASE i \in 1..k
        BY <2>1, <3>2
    <3> QED
        BY <3>1, <3>2
  <2>6. Solves(g, k + 1)
      BY <2>4, <2>5
  <2> HIDE DEF g, Solves
  <2> QED
      BY <2>3, <2>6
<1> HIDE DEF S
<1>3. n \in S
    BY <1>1, <1>2, UpTo
<1> QED
    BY <1>3 DEF S

-----------------------------------------------------------------------------
(* Division. *)

\* What the quotient and the remainder are.
LEMMA DivMod ==
    ASSUME NEW x \in Nat, NEW m \in Nat \ {0}
    PROVE  /\ x \div m \in Nat /\ x % m \in 0..m - 1
           /\ x = m * (x \div m) + (x % m)
    OBVIOUS

\* The remainder is the only number below m that is a multiple of m away from x.
LEMMA ModUnique ==
    ASSUME NEW m \in Nat \ {0}, NEW q \in Nat, NEW r \in 0..m - 1
    PROVE  (m * q + r) % m = r
<1> DEFINE x == m * q + r
<1>1. x \in Nat
    OBVIOUS
<1> DEFINE Q == x \div m
<1>2. Q \in Nat /\ x % m \in 0..m - 1 /\ x = m * Q + (x % m)
    BY <1>1, DivMod
<1> HIDE DEF Q
<1>3. \A k \in Nat : k >= 1 => m * k >= m
    OBVIOUS
<1>4. CASE Q = q
    BY <1>1, <1>2, <1>4
<1>5. CASE Q < q
  <2>1. q - Q \in Nat /\ m * (q - Q) >= m
      BY <1>2, <1>3, <1>5
  <2>2. m * q = m * Q + m * (q - Q)
      BY <1>2
  <2> QED
      BY <1>1, <1>2, <2>1, <2>2
<1>6. CASE Q > q
  <2>1. Q - q \in Nat /\ m * (Q - q) >= m
      BY <1>2, <1>3, <1>6
  <2>2. m * Q = m * q + m * (Q - q)
      BY <1>2
  <2> QED
      BY <1>1, <1>2, <2>1, <2>2
<1> QED
    BY <1>2, <1>4, <1>5, <1>6

\* Arithmetic modulo m may take the remainder early: with c = 1 when time elapses,
\* with c = 10 when a digit is read.
LEMMA ModEarly ==
    ASSUME NEW m \in Nat \ {0}, NEW a \in Nat, NEW d \in Nat, NEW c \in Nat
    PROVE  ((a % m) * c + d) % m = (a * c + d) % m
<1> DEFINE Q == a \div m
           r == a % m
           y == r * c + d
           P == y \div m
           s == y % m
<1>1. Q \in Nat /\ r \in 0..m - 1 /\ a = m * Q + r
    BY DivMod
<1> HIDE DEF Q, r
<1>2. r * c \in Nat /\ Q * c \in Nat
    BY <1>1
<1>3. y \in Nat
    BY <1>1, <1>2
<1>4. P \in Nat /\ s \in 0..m - 1 /\ y = m * P + s
    BY <1>3, DivMod
<1> HIDE DEF P, s
<1>5. a * c = m * (Q * c) + r * c
    BY <1>1
<1>6. a * c + d = m * (Q * c + P) + s
    BY <1>1, <1>2, <1>3, <1>4, <1>5
<1>7. Q * c + P \in Nat
    BY <1>2, <1>4
<1>8. (m * (Q * c + P) + s) % m = s
    BY <1>4, <1>7, ModUnique, Zenon
<1> QED
    BY <1>6, <1>8 DEF r, s

-----------------------------------------------------------------------------
(* The number on the command line. *)

Characters == 0..9 \cup {NotDigit}

\* The leading digits of an argument of digits are all of it.
LEMMA AllDigits ==
    ASSUME NEW s \in Seq(Characters), \A i \in DOMAIN s : s[i] # NotDigit
    PROVE  LeadingDigits(s) = Len(s) /\ Len(s) \in Nat /\ \A i \in 1..Len(s) : s[i] \in 0..9
<1>1. Len(s) \in Nat /\ DOMAIN s = 1..Len(s) /\ \A i \in 1..Len(s) : s[i] \in Characters
    OBVIOUS
<1>2. \A i \in 1..Len(s) : s[i] \in 0..9
    BY <1>1, Zenon DEF Characters
<1> DEFINE Leads(n) == (\A i \in 1..n : s[i] # NotDigit) /\ (n = Len(s) \/ s[n + 1] = NotDigit)
<1>3. Leads(Len(s)) /\ Len(s) \in 0..Len(s)
    BY <1>1
<1>4. \A n \in 0..Len(s) : Leads(n) => n = Len(s)
  <2> SUFFICES ASSUME NEW n \in 0..Len(s), Leads(n), n # Len(s) PROVE FALSE
      BY Zenon
  <2>1. \A l \in Nat : \A k \in 0..l : k # l => k + 1 \in 1..l
      OBVIOUS
  <2>2. n + 1 \in 1..Len(s)
      BY <1>1, <2>1, Zenon
  <2> QED
      BY <1>1, <2>2, Zenon
<1>5. LeadingDigits(s) = CHOOSE n \in 0..Len(s) : Leads(n)
    BY Zenon DEF LeadingDigits
<1> HIDE DEF Leads
<1> QED
    BY <1>1, <1>2, <1>3, <1>4, <1>5, Zenon

\* For digits, Value reads them one by one.
LEMMA ValueReads ==
    ASSUME NEW s, Len(s) \in Nat, \A i \in 1..Len(s) : s[i] \in 0..9
    PROVE  \E f \in [0..Len(s) -> Nat] :
             /\ f[0] = 0 /\ Value(s) = f[Len(s)]
             /\ \A i \in 1..Len(s) : f[i] = f[i - 1] * 10 + s[i]
<1> DEFINE L == Len(s)
           Reads(g) == [i \in 0..L |-> IF i = 0 THEN 0 ELSE g[i - 1] * 10 + s[i]]
           step == [p \in Nat \X (1..L) |-> p[1] * 10 + s[p[2]]]
           v == CHOOSE g : g = Reads(g)
<1>1. step \in [Nat \X (1..L) -> Nat]
    OBVIOUS
<1>2. PICK f \in [0..L -> Nat] : f[0] = 0 /\ \A i \in 1..L : f[i] = step[<<f[i - 1], i>>]
    BY <1>1, Recursion
<1>3. \A i \in 1..L : f[i - 1] \in Nat /\ f[i] = f[i - 1] * 10 + s[i]
  <2> SUFFICES ASSUME NEW i \in 1..L
               PROVE  f[i - 1] \in Nat /\ f[i] = f[i - 1] * 10 + s[i]
      OBVIOUS
  <2>1. i - 1 \in 0..L
      OBVIOUS
  <2>2. f[i - 1] \in Nat
      BY <2>1
  <2>3. step[<<f[i - 1], i>>] = f[i - 1] * 10 + s[i]
      BY <2>2
  <2> QED
      BY <1>2, <2>2, <2>3
<1>4. f = Reads(f)
    BY <1>2, <1>3
<1>5. Value(s) = v[L]
    BY Zenon DEF Value
<1> HIDE DEF Reads, step
<1>6. v = Reads(v)
    BY <1>4, Zenon
<1> HIDE DEF v
<1>7. v[0] = 0 /\ DOMAIN v = 0..L /\ \A i \in 1..L : v[i] = v[i - 1] * 10 + s[i]
    BY <1>6 DEF Reads
<1> DEFINE S == {i \in 0..L : v[i] \in Nat}
<1>8. 0..L \subseteq S
  <2>1. 0 \in S
      BY <1>7
  <2>2. ASSUME NEW i \in 0..L - 1, i \in S
        PROVE  i + 1 \in S
    <3>1. i + 1 \in 1..L /\ (i + 1) - 1 = i
        OBVIOUS
    <3>2. v[i + 1] = v[i] * 10 + s[i + 1]
        BY <1>7, <3>1, Zenon
    <3>3. v[i] \in Nat /\ s[i + 1] \in 0..9
        BY <2>2, <3>1, Zenon
    <3>4. v[i + 1] \in Nat
        BY <3>2, <3>3
    <3> QED
        BY <3>1, <3>4
  <2> HIDE DEF S
  <2> QED
      BY <2>1, <2>2, UpTo
<1>9. v \in [0..L -> Nat]
    BY <1>6, <1>8 DEF Reads
<1> QED
    BY <1>5, <1>7, <1>9, Zenon

\* str2u reads them one by one as well, in arithmetic modulo 2^32.
LEMMA str2uReads ==
    ASSUME NEW s, Len(s) \in Nat, \A i \in 1..Len(s) : s[i] \in 0..9, LeadingDigits(s) = Len(s)
    PROVE  \E f \in [0..Len(s) -> Nat] :
             /\ f[0] = 0 /\ str2u(s) = f[Len(s)]
             /\ \A i \in 1..Len(s) : f[i] = (f[i - 1] * 10 + s[i]) % Modulus
<1> DEFINE L == Len(s)
           Reads(g) == [i \in 0..L |-> IF i = 0 THEN 0 ELSE (g[i - 1] * 10 + s[i]) % Modulus]
           step == [p \in Nat \X (1..L) |-> (p[1] * 10 + s[p[2]]) % Modulus]
           v == CHOOSE g : g = Reads(g)
<1>0. \A x \in Nat : x % Modulus \in Nat
    BY TimingAssumption
<1>1. step \in [Nat \X (1..L) -> Nat]
  <2>1. \A p \in Nat \X (1..L) : p[1] * 10 + s[p[2]] \in Nat
      OBVIOUS
  <2> QED
      BY <1>0, <2>1
<1>2. PICK f \in [0..L -> Nat] : f[0] = 0 /\ \A i \in 1..L : f[i] = step[<<f[i - 1], i>>]
    BY <1>1, Recursion
<1>3. \A i \in 1..L : f[i - 1] \in Nat /\ f[i] = (f[i - 1] * 10 + s[i]) % Modulus
  <2> SUFFICES ASSUME NEW i \in 1..L
               PROVE  f[i - 1] \in Nat /\ f[i] = (f[i - 1] * 10 + s[i]) % Modulus
      OBVIOUS
  <2>1. i - 1 \in 0..L
      OBVIOUS
  <2>2. f[i - 1] \in Nat
      BY <2>1
  <2>3. step[<<f[i - 1], i>>] = (f[i - 1] * 10 + s[i]) % Modulus
      BY <2>2
  <2> QED
      BY <1>2, <2>2, <2>3
<1>4. f = Reads(f)
    BY <1>2, <1>3
<1>5. str2u(s) = v[L]
    BY Zenon DEF str2u
<1> HIDE DEF Reads, step
<1>6. v = Reads(v)
    BY <1>4, Zenon
<1> HIDE DEF v
<1>7. v[0] = 0 /\ DOMAIN v = 0..L /\ \A i \in 1..L : v[i] = (v[i - 1] * 10 + s[i]) % Modulus
    BY <1>6 DEF Reads
<1> DEFINE S == {i \in 0..L : v[i] \in Nat}
<1>8. 0..L \subseteq S
  <2>1. 0 \in S
      BY <1>7
  <2>2. ASSUME NEW i \in 0..L - 1, i \in S
        PROVE  i + 1 \in S
    <3>1. i + 1 \in 1..L /\ (i + 1) - 1 = i
        OBVIOUS
    <3>2. v[i + 1] = (v[i] * 10 + s[i + 1]) % Modulus
        BY <1>7, <3>1, Zenon
    <3>3. v[i] * 10 + s[i + 1] \in Nat
      <4>1. v[i] \in Nat /\ s[i + 1] \in 0..9
          BY <2>2, <3>1, Zenon
      <4> QED
          BY <4>1
    <3>4. v[i + 1] \in Nat
        BY <1>0, <3>2, <3>3, Zenon
    <3> QED
        BY <3>1, <3>4
  <2> HIDE DEF S
  <2> QED
      BY <2>1, <2>2, UpTo
<1>9. v \in [0..L -> Nat]
    BY <1>6, <1>8 DEF Reads
<1> QED
    BY <1>5, <1>7, <1>9, Zenon

\* str2u computes the number an argument of digits is written as, modulo 2^32.
LEMMA str2uValue ==
    ASSUME NEW s \in Seq(Characters), \A i \in DOMAIN s : s[i] # NotDigit
    PROVE  Value(s) \in Nat /\ str2u(s) = Value(s) % Modulus
<1>1. LeadingDigits(s) = Len(s) /\ Len(s) \in Nat /\ \A i \in 1..Len(s) : s[i] \in 0..9
    BY AllDigits
<1> DEFINE L == Len(s)
<1>2. PICK v \in [0..L -> Nat] :
        v[0] = 0 /\ Value(s) = v[L] /\ \A i \in 1..L : v[i] = v[i - 1] * 10 + s[i]
    BY <1>1, ValueReads
<1>3. PICK u \in [0..L -> Nat] :
        u[0] = 0 /\ str2u(s) = u[L] /\ \A i \in 1..L : u[i] = (u[i - 1] * 10 + s[i]) % Modulus
    BY <1>1, str2uReads
<1> DEFINE S == {i \in 0..L : u[i] = v[i] % Modulus}
<1>4. 0 \in S
    BY <1>1, <1>2, <1>3, TimingAssumption
<1>5. ASSUME NEW i \in 0..L - 1, i \in S
      PROVE  i + 1 \in S
  <2>1. i + 1 \in 1..L /\ i + 1 \in 0..L /\ i \in 0..L /\ (i + 1) - 1 = i
      BY <1>1
  <2>2. v[i] \in Nat /\ s[i + 1] \in 0..9 /\ u[i] = v[i] % Modulus
      BY <1>1, <1>5, <2>1, Zenon
  <2>3. v[i + 1] = v[i] * 10 + s[i + 1] /\ u[i + 1] = (u[i] * 10 + s[i + 1]) % Modulus
      BY <1>2, <1>3, <2>1, Zenon
  <2>4. ((v[i] % Modulus) * 10 + s[i + 1]) % Modulus = (v[i] * 10 + s[i + 1]) % Modulus
    <3>1. s[i + 1] \in Nat /\ 10 \in Nat /\ Modulus \in Nat \ {0}
        BY <2>2, TimingAssumption
    <3> QED
        BY <2>2, <3>1, ModEarly, Zenon
  <2> QED
      BY <2>1, <2>2, <2>3, <2>4, Zenon
<1> HIDE DEF S
<1>6. L \in S
  <2>1. L \in Nat /\ L \in 0..L
      BY <1>1
  <2> QED
      BY <1>4, <1>5, <2>1, UpTo, Zenon
<1>7. L \in 0..L /\ u[L] = v[L] % Modulus
    BY <1>6, Zenon DEF S
<1> QED
    BY <1>2, <1>3, <1>7, Zenon

\* What an argument of digits is accepted as: the bound is less than 2^31, so a
\* number that is negative as an int is refused.
LEMMA AcceptedValue ==
    ASSUME NEW s \in Seq(Characters), s # <<>>, \A i \in DOMAIN s : s[i] # NotDigit
    PROVE  /\ Accepted(s) <=> Value(s) % Modulus \in 1..Limit - 1
           /\ Accepted(s) => str2i(s) = Value(s) % Modulus
<1> DEFINE u == Value(s) % Modulus
<1>1. u \in 0..Modulus - 1 /\ str2u(s) = u
    BY str2uValue, DivMod, TimingAssumption
<1>2. 1 \in DOMAIN s
    OBVIOUS
<1>3. s[1] # NotDigit
    BY <1>2
<1> HIDE DEF u
<1>4. Modulus \div 2 \in Nat /\ Modulus \div 2 =< Modulus /\ Limit =< Modulus \div 2
      /\ Limit \in Nat /\ Modulus \in Nat
    BY TimingAssumption
<1> DEFINE h == Modulus \div 2
<1>5. str2i(s) = IF u >= h THEN u - Modulus ELSE u
    BY <1>1, Zenon DEF str2i
<1> HIDE DEF h
<1>6. str2i(s) \in 1..Limit - 1 <=> u \in 1..Limit - 1
    BY <1>1, <1>4, <1>5 DEF h
<1>7. u \in 1..Limit - 1 => str2i(s) = u
    BY <1>1, <1>4, <1>5 DEF h
<1> QED
    BY <1>3, <1>6, <1>7 DEF Accepted, u

-----------------------------------------------------------------------------
(* The inductive invariant: how long the agent has been waiting, and where *)
(* between two beats the plugin is. *)

\* What an argument of digits is accepted as, whatever its length.
FrequencyWraps ==
    IsNumber(argument) =>
      /\ pc = "refused" => Value(argument) % Modulus \notin 1..Limit - 1
      /\ pc \notin {"parse", "refused"} => update_every = Value(argument) % Modulus

\* The longest time a beat and its cycle take.
Turn == tick + Randomness + MaxLate + MaxBusy

Waiting ==
    /\ pc \in {"parse", "start"} => silence = 0 /\ idle = 0
    /\ pc = "sleep" => silence =< idle * Turn + MaxBusy
    /\ pc = "collect" => silence =< idle * Turn + MaxBusy + tick + Randomness + MaxLate

\* How late the last beat was, how long the cycle took that followed it, and how
\* much of the agent's wait the beats without a line account for.
Between ==
    /\ pc \in {"parse", "start"} => ~beaten /\ dt = 0
    /\ ~beaten => cycles = 0 /\ idle = 0
    /\ pc = "collect" =>
         /\ beaten /\ since = 0
         /\ \E late \in 0..MaxLate :
              phase = (Randomness + late) % tick /\ silence > idle * tick + late
    /\ pc = "sleep" /\ beaten =>
         \E late \in 0..MaxLate :
           /\ since =< MaxBusy /\ phase = (Randomness + late + since) % tick
           /\ idle > 0 => silence > (idle - 1) * tick + late + since

\* A plugin that is too slow collects in its first cycle only.
Once ==
    tick >= Timeout + MaxBusy + MaxLate => cycles =< 1 /\ (pc = "collect" => cycles = 0)

TimingInv ==
    /\ TypeOK /\ FrequencyWraps /\ NoFalseTimeout /\ IdleGivenUp /\ BeatsAligned
    /\ Waiting /\ Between /\ Once

\* A step of the heartbeat is at least a second, more than the randomness.
LEMMA TickPositive ==
    ASSUME NEW u \in 1..Limit - 1
    PROVE  u * Second \in Nat /\ u * Second >= Second /\ Randomness < u * Second /\ u * Second # 0
<1>1. u \in Nat /\ u >= 1 /\ Second \in Nat /\ Second >= 1 /\ Randomness \in 0..Second - 1
    BY TimingAssumption
<1>2. u * Second \in Nat /\ u * Second >= Second
    BY <1>1
<1> QED
    BY <1>1, <1>2

\* The invariant holds when the program is started.
LEMMA TimingInit == Init => TimingInv
<1> SUFFICES ASSUME Init PROVE TimingInv
    OBVIOUS
<1> USE DEF Init
<1>1. update_every \in 1..Limit - 1 /\ tick = Second /\ Second \in Nat /\ Second >= 1
    BY TimingAssumption DEF tick
<1>2. TypeOK
  <2>1. /\ phase \in 0..tick - 1 /\ silence \in 0..Timeout - 1 /\ cycles \in 0..2
        /\ since \in Nat /\ dt \in Nat /\ idle \in Nat
      BY <1>1, TimingAssumption
  <2>2. beaten \in BOOLEAN /\ argument \in Arguments
      BY Zenon
  <2> QED
      BY <1>1, <2>1, <2>2, Zenon DEF TypeOK
<1>3. FrequencyWraps /\ NoFalseTimeout /\ IdleGivenUp /\ BeatsAligned
    BY DEF FrequencyWraps, NoFalseTimeout, IdleGivenUp, BeatsAligned
<1>4. Waiting /\ Between /\ Once
    BY DEF Waiting, Between, Once
<1> QED
    BY <1>2, <1>3, <1>4 DEF TimingInv

\* Once the command line is read, nothing changes the frequency.
LEMMA FrequencyKept ==
    ASSUME FrequencyWraps, UNCHANGED <<argument, update_every>>,
           pc \notin {"parse", "refused"}, pc' # "refused"
    PROVE  FrequencyWraps'
<1>1. argument' = argument /\ update_every' = update_every
    OBVIOUS
<1> SUFFICES ASSUME IsNumber(argument)
             PROVE  update_every = Value(argument) % Modulus
    BY <1>1, Zenon DEF FrequencyWraps
<1> QED
    BY Zenon DEF FrequencyWraps

\* Reading the command line keeps the invariant.
LEMMA ParseStep ==
    ASSUME TimingInv, parse_command_line
    PROVE  TimingInv'
<1> USE DEF parse_command_line
<1>1. TypeOK /\ FrequencyWraps /\ BeatsAligned /\ Waiting /\ Between
    BY DEF TimingInv
<1>2. silence = 0 /\ idle = 0 /\ ~beaten /\ dt = 0 /\ cycles = 0
    BY <1>1 DEF Waiting, Between
<1>3. argument \in Seq(Characters) /\ argument' = argument
    BY <1>1, ArgumentsAssumption DEF TypeOK, Characters
<1>4. update_every' \in 1..Limit - 1 /\ phase' \in 0..tick' - 1 /\ pc' \in {"start", "refused"}
  <2>1. CASE argument = <<>> \/ Accepted(argument)
    <3>1. update_every' \in 1..Limit - 1
        BY <2>1, TimingAssumption DEF Accepted
    <3> QED
        BY <2>1, <3>1 DEF tick
  <2>2. CASE ~(argument = <<>> \/ Accepted(argument))
      BY <1>1, <2>2 DEF TypeOK, tick
  <2> QED
      BY <2>1, <2>2
<1>5. TypeOK'
    BY <1>1, <1>2, <1>3, <1>4 DEF TypeOK
<1>6. FrequencyWraps'
  <2> SUFFICES ASSUME IsNumber(argument)
               PROVE  /\ pc' = "refused" => Value(argument) % Modulus \notin 1..Limit - 1
                      /\ pc' # "refused" => update_every' = Value(argument) % Modulus
      BY <1>3, Zenon DEF FrequencyWraps
  <2>1. /\ Accepted(argument) <=> Value(argument) % Modulus \in 1..Limit - 1
        /\ Accepted(argument) => str2i(argument) = Value(argument) % Modulus
      BY <1>3, AcceptedValue, Zenon DEF IsNumber
  <2>2. IF Accepted(argument) THEN pc' = "start" /\ update_every' = str2i(argument)
        ELSE pc' = "refused"
      BY Zenon DEF IsNumber
  <2> QED
      BY <2>1, <2>2
<1>7. NoFalseTimeout' /\ IdleGivenUp' /\ BeatsAligned'
    BY <1>2, <1>4 DEF NoFalseTimeout, IdleGivenUp, BeatsAligned
<1>8. Waiting' /\ Between' /\ Once'
    BY <1>2, <1>4 DEF Waiting, Between, Once
<1> QED
    BY <1>5, <1>6, <1>7, <1>8 DEF TimingInv

\* The time the agent waited is a number, and no more than it was and has elapsed.
LEMMA QuietBounded ==
    ASSUME silence \in Nat, NEW d \in Nat, NEW q \in Quiet(d)
    PROVE  q \in Nat /\ q =< silence + d
    BY DEF Quiet

\* Connections and registration keep the invariant.
LEMMA StartStep ==
    ASSUME TimingInv, NEW d \in 0..MaxBusy, Start(d)
    PROVE  TimingInv'
<1> USE DEF Start, Elapse
<1>1. TypeOK /\ FrequencyWraps /\ Waiting /\ Between
    BY DEF TimingInv
<1>2. silence = 0 /\ idle = 0 /\ ~beaten /\ dt = 0 /\ cycles = 0
    BY <1>1 DEF Waiting, Between
<1>3. tick' = tick /\ tick \in Nat /\ tick # 0
    BY <1>1, TickPositive DEF TypeOK, tick
<1>4. d \in Nat /\ d =< MaxBusy
    BY TimingAssumption
<1>5. silence' \in Nat /\ silence' =< d /\ silence' < Timeout
    BY <1>2, <1>4, QuietBounded
<1>6. phase' \in 0..tick - 1
  <2>1. phase + d \in Nat
      BY <1>1, <1>4 DEF TypeOK
  <2> QED
      BY <1>3, <2>1, DivMod
<1>7. TypeOK'
    BY <1>1, <1>3, <1>4, <1>5, <1>6, TimingAssumption DEF TypeOK
<1>8. FrequencyWraps'
    BY <1>1, FrequencyKept
<1>9. NoFalseTimeout' /\ IdleGivenUp' /\ BeatsAligned'
    BY <1>2 DEF NoFalseTimeout, IdleGivenUp, BeatsAligned
<1>10. Waiting'
  <2>1. 0 * Turn' = 0
      BY <1>3, TimingAssumption DEF Turn
  <2> QED
      BY <1>2, <1>4, <1>5, <2>1, TimingAssumption DEF Waiting
<1>11. Between' /\ Once'
    BY <1>2 DEF Between, Once
<1> QED
    BY <1>7, <1>8, <1>9, <1>10, <1>11 DEF TimingInv

\* Between two beats lie as many steps as the cycle took, and one: with a beat that
\* was late by l, a cycle of d and a next beat that is late by n.
LEMMA BeatDistance ==
    ASSUME NEW t \in Nat \ {0}, Randomness < t,
           NEW l \in 0..MaxLate, NEW d \in 0..MaxBusy, NEW n \in 0..MaxLate,
           NEW p, p = (Randomness + l + d) % t,
           NEW D, D = d + (t - p + Randomness + n)
    PROVE  /\ \E k \in 1..2 + (MaxBusy + MaxLate) \div t : D \in k * t - MaxLate..k * t + MaxLate
           /\ Randomness + MaxLate + MaxBusy < t => D =< t + MaxLate
           /\ D \in Nat /\ D >= t + n - l
<1>1. /\ Randomness \in Nat /\ MaxLate \in Nat /\ MaxBusy \in Nat
      /\ l \in Nat /\ d \in Nat /\ n \in Nat /\ l =< MaxLate /\ d =< MaxBusy /\ n =< MaxLate
    BY TimingAssumption
<1> DEFINE x == Randomness + l + d
           q == x \div t
           w == (MaxBusy + MaxLate) \div t
           r == (MaxBusy + MaxLate) % t
<1>2. x \in Nat /\ x < t + (MaxBusy + MaxLate) /\ MaxBusy + MaxLate \in Nat
    BY <1>1
<1>3. q \in Nat /\ p \in 0..t - 1 /\ x = t * q + p
    BY <1>2, DivMod
<1>4. w \in Nat /\ r \in 0..t - 1 /\ MaxBusy + MaxLate = t * w + r
    BY <1>2, DivMod
<1>5. D = (q + 1) * t + (n - l)
    BY <1>1, <1>3
<1> HIDE DEF q, w, r
<1>6. q < w + 2
  <2> SUFFICES ASSUME q >= w + 2 PROVE FALSE
      BY <1>3, <1>4
  <2>1. t * q >= t * (w + 2)
      BY <1>3, <1>4
  <2>2. t * (w + 2) = t * w + t + t
      BY <1>4
  <2> QED
      BY <1>2, <1>3, <1>4, <2>1, <2>2
<1>7. q + 1 \in 1..2 + w
    BY <1>3, <1>4, <1>6
<1> DEFINE T == (q + 1) * t
<1>8. T \in Nat
    BY <1>3
<1>9. D \in T - MaxLate..T + MaxLate
  <2> HIDE DEF T
  <2>1. D = T + (n - l)
      BY <1>5 DEF T
  <2> QED
      BY <1>1, <1>8, <2>1
<1>10. ASSUME Randomness + MaxLate + MaxBusy < t
       PROVE  D =< t + MaxLate
  <2>1. x < t
      BY <1>1, <1>10
  <2>2. q = 0
    <3> SUFFICES ASSUME q >= 1 PROVE FALSE
        BY <1>3
    <3>1. t * q >= t
        BY <1>3
    <3> QED
        BY <1>2, <1>3, <2>1, <3>1
  <2> QED
      BY <1>1, <1>5, <2>2
<1>11. D \in Nat /\ D >= t + n - l
  <2>1. D \in Nat
      BY <1>1, <1>3
  <2>2. T >= t
      BY <1>3
  <2> HIDE DEF T
  <2>3. D = T + (n - l)
      BY <1>5 DEF T
  <2> QED
      BY <1>1, <1>8, <2>1, <2>2, <2>3
<1> QED
    BY <1>7, <1>9, <1>10, <1>11 DEF w

\* The heartbeat keeps the invariant.
LEMMA BeatStep ==
    ASSUME TimingInv, NEW late \in 0..MaxLate, heartbeat_next(late)
    PROVE  TimingInv'
<1> DEFINE d == NextBeat + late
<1>1. TypeOK /\ FrequencyWraps /\ IdleGivenUp /\ Waiting /\ Between /\ Once
    BY DEF TimingInv
<1>2. /\ pc = "sleep" /\ silence + d < Timeout /\ silence' = silence + d
      /\ phase' = (phase + d) % tick /\ dt' = (IF beaten THEN since + d ELSE 0)
      /\ since' = 0 /\ beaten' = TRUE /\ pc' = "collect"
      /\ argument' = argument /\ update_every' = update_every
      /\ cycles' = cycles /\ idle' = idle
    BY Zenon DEF heartbeat_next
<1>3. tick' = tick /\ tick \in Nat \ {0} /\ Randomness < tick
    BY <1>1, <1>2, TickPositive DEF TypeOK, tick
<1>4. late \in Nat /\ late =< MaxLate /\ Randomness \in Nat
    BY TimingAssumption
<1>5. phase \in Nat /\ phase < tick /\ silence \in Nat /\ idle \in Nat
    BY <1>1, <1>3, TimingAssumption DEF TypeOK
<1> HIDE DEF d
<1>6. d \in Nat /\ d =< tick + Randomness + MaxLate /\ d = tick - phase + Randomness + late
    BY <1>3, <1>4, <1>5, TimingAssumption DEF d, NextBeat
<1>7. phase + d = tick * 1 + (Randomness + late) /\ Randomness + late \in Nat
    BY <1>3, <1>4, <1>5, <1>6
<1>8. phase' = (Randomness + late) % tick
  <2> DEFINE y == Randomness + late
  <2>1. y \div tick \in Nat /\ y % tick \in 0..tick - 1 /\ y = tick * (y \div tick) + (y % tick)
      BY <1>3, <1>7, DivMod
  <2>2. phase + d = tick * ((y \div tick) + 1) + (y % tick)
      BY <1>3, <1>7, <2>1
  <2>3. (y \div tick) + 1 \in Nat
      BY <2>1
  <2> QED
      BY <1>2, <1>3, <2>1, <2>2, <2>3, ModUnique, Zenon
<1>9. phase' \in 0..tick - 1
    BY <1>3, <1>7, <1>8, DivMod
<1>10. beaten => BeatsAligned' /\ dt' \in Nat
  <2> SUFFICES ASSUME beaten PROVE BeatsAligned' /\ dt' \in Nat
      OBVIOUS
  <2>1. PICK l \in 0..MaxLate : since =< MaxBusy /\ phase = (Randomness + l + since) % tick
      BY <1>1, <1>2, Zenon DEF Between
  <2>2. since \in 0..MaxBusy /\ dt' = since + (tick - phase + Randomness + late)
      BY <1>1, <1>2, <1>6, <2>1, TimingAssumption DEF TypeOK
  <2>3. /\ \E k \in 1..2 + (MaxBusy + MaxLate) \div tick :
             dt' \in k * tick - MaxLate..k * tick + MaxLate
        /\ Randomness + MaxLate + MaxBusy < tick => dt' =< tick + MaxLate
        /\ dt' \in Nat
      BY <1>3, <2>1, <2>2, BeatDistance
  <2> QED
      BY <1>3, <2>3, Zenon DEF BeatsAligned
<1>11. BeatsAligned' /\ dt' \in Nat
    BY <1>2, <1>10 DEF BeatsAligned
<1>12. /\ silence' \in 0..Timeout - 1 /\ Turn' = Turn
       /\ silence' =< idle * Turn + MaxBusy + tick + Randomness + MaxLate
  <2> DEFINE W == idle * Turn
  <2>1. W \in Nat /\ silence =< W + MaxBusy
      BY <1>1, <1>2, <1>3, <1>5, TimingAssumption DEF Waiting, Turn
  <2>2. Turn' = Turn
      BY <1>3 DEF Turn
  <2> HIDE DEF W
  <2>3. silence' \in 0..Timeout - 1 /\ silence' =< W + MaxBusy + tick + Randomness + MaxLate
      BY <1>2, <1>3, <1>4, <1>5, <1>6, <2>1, TimingAssumption
  <2> QED
      BY <2>2, <2>3 DEF W
<1>13. TypeOK'
    BY <1>1, <1>2, <1>3, <1>5, <1>9, <1>11, <1>12 DEF TypeOK
<1>14. FrequencyWraps' /\ NoFalseTimeout' /\ IdleGivenUp'
    BY <1>1, <1>2, <1>3, FrequencyKept DEF NoFalseTimeout, IdleGivenUp
<1>15. Waiting'
    BY <1>2, <1>3, <1>12 DEF Waiting
<1>16. silence' > idle * tick + late
  <2>1. CASE idle = 0
    <3>1. 0 * tick = 0
        BY <1>3
    <3>2. d > late
        BY <1>3, <1>4, <1>5, <1>6, TimingAssumption
    <3> QED
        BY <1>2, <1>4, <1>5, <1>6, <2>1, <3>1, <3>2
  <2>2. CASE idle > 0
    <3>1. beaten
        BY <1>1, <2>2 DEF Between
    <3>2. PICK l \in 0..MaxLate :
            /\ since =< MaxBusy /\ phase = (Randomness + l + since) % tick
            /\ silence > (idle - 1) * tick + l + since
        BY <1>1, <1>2, <2>2, <3>1, Zenon DEF Between
    <3>3. since \in 0..MaxBusy /\ since \in Nat /\ l \in Nat
        BY <1>1, <3>2, TimingAssumption DEF TypeOK
    <3>4. since + d = since + (tick - phase + Randomness + late)
        BY <1>6
    <3>5. since + d >= tick + late - l
        BY <1>3, <3>2, <3>3, <3>4, BeatDistance
    <3> DEFINE B == (idle - 1) * tick
    <3>6. B \in Nat /\ idle * tick = B + tick
        BY <1>3, <1>5, <2>2
    <3> HIDE DEF B
    <3>7. silence > B + l + since
        BY <3>2 DEF B
    <3> QED
        BY <1>2, <1>3, <1>4, <1>5, <1>6, <3>3, <3>5, <3>6, <3>7
  <2> QED
      BY <1>5, <2>1, <2>2
<1>17. Between'
    BY <1>2, <1>3, <1>8, <1>16 DEF Between
<1>18. Once'
  <2> SUFFICES ASSUME tick >= Timeout + MaxBusy + MaxLate PROVE cycles = 0
      BY <1>2, <1>3 DEF Once
  <2>1. CASE ~beaten
      BY <1>1, <2>1 DEF Between
  <2>2. CASE beaten
    <3>1. PICK l \in 0..MaxLate : since =< MaxBusy /\ phase = (Randomness + l + since) % tick
        BY <1>1, <1>2, <2>2, Zenon DEF Between
    <3>2. since \in Nat /\ l \in Nat /\ l =< MaxLate
        BY <1>1, TimingAssumption DEF TypeOK
    <3>3. phase =< Randomness + l + since
      <4> DEFINE x == Randomness + l + since
      <4>1. x \in Nat
          BY <1>4, <3>2
      <4>2. x \div tick \in Nat /\ x % tick \in 0..tick - 1 /\ x = tick * (x \div tick) + (x % tick)
          BY <1>3, <4>1, DivMod
      <4>3. tick * (x \div tick) \in Nat
          BY <1>3, <4>2
      <4> QED
          BY <3>1, <4>1, <4>2, <4>3
    <3>4. d >= Timeout
        BY <1>3, <1>4, <1>5, <1>6, <3>1, <3>2, <3>3, TimingAssumption
    <3> QED
        BY <1>2, <1>5, <1>6, <3>4, TimingAssumption
  <2> QED
      BY <1>1, <2>1, <2>2
<1> QED
    BY <1>11, <1>13, <1>14, <1>15, <1>17, <1>18 DEF TimingInv

\* What the cycles with and without a line have in common.
LEMMA CycleStep ==
    ASSUME TimingInv, NEW d \in 0..MaxBusy, Cycle(d)
    PROVE  /\ d \in Nat /\ d =< MaxBusy /\ since' = d /\ beaten /\ beaten' /\ pc' = "sleep"
           /\ tick' = tick /\ tick \in Nat \ {0} /\ FrequencyWraps' /\ BeatsAligned' /\ Once'
           /\ (silence' \in 0..Timeout - 1 /\ idle' \in Nat => TypeOK')
           /\ \E late \in 0..MaxLate :
                /\ phase' = (Randomness + late + d) % tick
                /\ silence > idle * tick + late
<1> USE DEF Cycle, Elapse
<1>1. TypeOK /\ FrequencyWraps /\ BeatsAligned /\ Between /\ Once
    BY DEF TimingInv
<1>2. tick' = tick /\ tick \in Nat \ {0}
    BY <1>1, TickPositive DEF TypeOK, tick
<1>3. d \in Nat /\ d =< MaxBusy /\ since = 0 /\ since' = d /\ beaten' = beaten /\ beaten
    BY <1>1, TimingAssumption DEF Between
<1>4. PICK l \in 0..MaxLate : phase = (Randomness + l) % tick /\ silence > idle * tick + l
    BY <1>1 DEF Between
<1>5. phase' = (Randomness + l + d) % tick /\ phase' \in 0..tick - 1
  <2> DEFINE a == Randomness + l
  <2>1. a \in Nat /\ 1 \in Nat /\ a * 1 + d = Randomness + l + d /\ a * 1 + d \in Nat
      BY <1>3, TimingAssumption
  <2>2. a % tick \in 0..tick - 1
      BY <1>2, <2>1, DivMod
  <2>3. (a % tick) * 1 + d = phase + d
      BY <1>4, <2>2
  <2>4. ((a % tick) * 1 + d) % tick = (a * 1 + d) % tick
    <3> HIDE DEF a
    <3> QED
        BY <1>2, <1>3, <2>1, ModEarly
  <2>5. (a * 1 + d) % tick \in 0..tick - 1
      BY <1>2, <2>1, DivMod
  <2> QED
      BY <2>1, <2>3, <2>4, <2>5
<1>6. silence' \in 0..Timeout - 1 /\ idle' \in Nat => TypeOK'
    BY <1>1, <1>2, <1>3, <1>5, TimingAssumption DEF TypeOK
<1>7. FrequencyWraps'
    BY <1>1, FrequencyKept
<1>8. BeatsAligned'
    BY <1>1, <1>2, Zenon DEF BeatsAligned
<1>9. Once'
    BY <1>1, <1>2 DEF Once
<1> QED
    BY <1>2, <1>3, <1>4, <1>5, <1>6, <1>7, <1>8, <1>9

\* A cycle that prints keeps the invariant.
LEMMA CollectStep ==
    ASSUME TimingInv, NEW d \in 0..MaxBusy, Collect(d)
    PROVE  TimingInv'
<1>1. Cycle(d) /\ silence' = 0 /\ idle' = 0
    BY DEF Collect
<1>2. /\ d \in Nat /\ d =< MaxBusy /\ since' = d /\ beaten' /\ pc' = "sleep"
      /\ tick' = tick /\ tick \in Nat \ {0} /\ FrequencyWraps' /\ BeatsAligned' /\ Once'
      /\ (silence' \in 0..Timeout - 1 /\ idle' \in Nat => TypeOK')
    BY <1>1, CycleStep
<1>3. PICK l \in 0..MaxLate : phase' = (Randomness + l + d) % tick
    BY <1>1, CycleStep
<1>4. TypeOK' /\ NoFalseTimeout' /\ IdleGivenUp'
    BY <1>1, <1>2, TimingAssumption DEF NoFalseTimeout, IdleGivenUp
<1>5. Waiting'
  <2>1. 0 * Turn' = 0
      BY <1>2, TimingAssumption DEF Turn
  <2> QED
      BY <1>1, <1>2, <2>1, TimingAssumption DEF Waiting
<1>6. Between'
    BY <1>1, <1>2, <1>3 DEF Between
<1> QED
    BY <1>2, <1>4, <1>5, <1>6 DEF TimingInv

\* A cycle that prints nothing keeps the invariant: it adds one beat and its own time
\* to what the agent has waited.
LEMMA CollectNothingStep ==
    ASSUME TimingInv, NEW d \in 0..MaxBusy, CollectNothing(d)
    PROVE  TimingInv'
<1>1. Cycle(d) /\ silence + d < Timeout /\ silence' = silence + d /\ idle' = idle + 1
    BY DEF CollectNothing
<1>2. /\ d \in Nat /\ d =< MaxBusy /\ since' = d /\ beaten' /\ pc' = "sleep"
      /\ tick' = tick /\ tick \in Nat \ {0} /\ FrequencyWraps' /\ BeatsAligned' /\ Once'
      /\ (silence' \in 0..Timeout - 1 /\ idle' \in Nat => TypeOK')
    BY <1>1, CycleStep
<1>3. PICK l \in 0..MaxLate :
        phase' = (Randomness + l + d) % tick /\ silence > idle * tick + l
    BY <1>1, CycleStep
<1>4. idle \in Nat /\ silence \in Nat /\ l \in Nat /\ pc = "collect" /\ Waiting
    BY <1>1, TimingAssumption DEF TimingInv, TypeOK, Cycle
<1>5. TypeOK' /\ NoFalseTimeout'
    BY <1>1, <1>2, <1>4, TimingAssumption DEF NoFalseTimeout
<1>6. idle' \in Nat /\ idle' - 1 = idle /\ idle' > 0
    BY <1>1, <1>4
<1> DEFINE B == idle * tick
<1>7. B \in Nat /\ (idle' - 1) * tick' = B
  <2>1. idle * tick \in Nat
      BY <1>2, <1>4
  <2>2. tick' = tick /\ idle' - 1 = idle
      BY <1>2, <1>6
  <2> QED
      BY <2>1, <2>2, Zenon
<1>8. silence > B + l
    BY <1>3
<1> HIDE DEF B
<1>9. IdleGivenUp'
    BY <1>1, <1>2, <1>4, <1>7, <1>8, TimingAssumption DEF IdleGivenUp
<1>10. Between'
  <2>1. silence' > B + l + since'
      BY <1>1, <1>2, <1>4, <1>7, <1>8
  <2> QED
      BY <1>2, <1>3, <1>6, <1>7, <2>1 DEF Between
<1>11. Waiting'
  <2> DEFINE W == idle * Turn
  <2>1. W \in Nat /\ Turn \in Nat /\ Turn' = Turn /\ (idle + 1) * Turn = W + Turn
      BY <1>2, <1>4, TimingAssumption DEF Turn
  <2>2. silence =< W + MaxBusy + tick + Randomness + MaxLate
      BY <1>4 DEF Waiting
  <2> HIDE DEF W
  <2>3. silence + d =< (W + Turn) + MaxBusy
      BY <1>2, <1>4, <2>1, <2>2, TimingAssumption DEF Turn
  <2>4. idle' * Turn' = W + Turn
      BY <1>1, <2>1
  <2>5. silence' =< idle' * Turn' + MaxBusy
      BY <1>1, <2>3, <2>4
  <2> QED
      BY <1>2, <2>5 DEF Waiting
<1> QED
    BY <1>2, <1>5, <1>9, <1>10, <1>11 DEF TimingInv

\* The agent's giving up keeps the invariant: it has waited for no more than the
\* longest registration or cycle, the longest sleep and the longest cycle, and the
\* cycles that printed nothing.
LEMMA TimesOutStep ==
    ASSUME TimingInv,
           \/ pc \in {"start", "collect"} /\ TimesOut(MaxBusy)
           \/ pc = "sleep" /\ TimesOut(NextBeat + MaxLate)
    PROVE  TimingInv'
<1>1. TypeOK /\ FrequencyWraps /\ IdleGivenUp /\ BeatsAligned /\ Waiting /\ Between /\ Once
    BY DEF TimingInv
<1>2. /\ pc' = "killed" /\ argument' = argument /\ update_every' = update_every
      /\ phase' = phase /\ since' = since /\ beaten' = beaten /\ dt' = dt
      /\ silence' = silence /\ idle' = idle /\ cycles' = cycles
    BY Zenon DEF TimesOut
<1>3. tick' = tick /\ tick \in Nat
    BY <1>1, <1>2, TickPositive DEF TypeOK, tick
<1>4. phase \in Nat /\ silence \in Nat /\ idle \in Nat
    BY <1>1, <1>3, TimingAssumption DEF TypeOK
<1>5. (idle + 1) * (tick + Randomness + MaxLate + MaxBusy) + MaxBusy >= Timeout
  <2> DEFINE W == idle * Turn
  <2>1. /\ W \in Nat /\ Turn \in Nat
        /\ (idle + 1) * (tick + Randomness + MaxLate + MaxBusy) = W + Turn
      BY <1>3, <1>4, TimingAssumption DEF Turn
  <2>2. /\ pc = "start" => silence = 0
        /\ pc = "sleep" => silence =< W + MaxBusy
        /\ pc = "collect" => silence =< W + MaxBusy + tick + Randomness + MaxLate
      BY <1>1 DEF Waiting
  <2> HIDE DEF W
  <2>3. W + Turn + MaxBusy >= Timeout
    <3>1. CASE pc = "start" /\ TimesOut(MaxBusy)
        BY <1>3, <2>1, <2>2, <3>1, TimingAssumption DEF Turn, TimesOut
    <3>2. CASE pc = "collect" /\ TimesOut(MaxBusy)
        BY <1>3, <1>4, <2>1, <2>2, <3>2, TimingAssumption DEF Turn, TimesOut
    <3>3. CASE pc = "sleep" /\ TimesOut(NextBeat + MaxLate)
        BY <1>3, <1>4, <2>1, <2>2, <3>3, TimingAssumption DEF Turn, TimesOut, NextBeat
    <3> QED
        BY <3>1, <3>2, <3>3
  <2> QED
      BY <2>1, <2>3
<1>6. TypeOK'
    BY <1>1, <1>2, <1>3, Zenon DEF TypeOK
<1>7. FrequencyWraps' /\ NoFalseTimeout' /\ IdleGivenUp'
    BY <1>1, <1>2, <1>3, <1>5, FrequencyKept DEF NoFalseTimeout, IdleGivenUp
<1>8. BeatsAligned'
    BY <1>1, <1>2, <1>3, Zenon DEF BeatsAligned
<1>9. Waiting' /\ Between' /\ Once'
    BY <1>1, <1>2, <1>3 DEF Waiting, Between, Once
<1> QED
    BY <1>6, <1>7, <1>8, <1>9 DEF TimingInv

\* Every step keeps the invariant.
LEMMA TimingStep == TimingInv /\ [Next]_vars => TimingInv'
<1> SUFFICES ASSUME TimingInv, [Next]_vars PROVE TimingInv'
    OBVIOUS
<1>1. CASE parse_command_line
    BY <1>1, ParseStep
<1>2. ASSUME NEW d \in 0..MaxBusy, Start(d)
      PROVE  TimingInv'
    BY <1>2, StartStep
<1>3. ASSUME NEW d \in 0..MaxBusy, Collect(d)
      PROVE  TimingInv'
    BY <1>3, CollectStep
<1>4. ASSUME NEW d \in 0..MaxBusy, CollectNothing(d)
      PROVE  TimingInv'
    BY <1>4, CollectNothingStep
<1>5. ASSUME NEW late \in 0..MaxLate, heartbeat_next(late)
      PROVE  TimingInv'
    BY <1>5, BeatStep
<1>6. CASE \/ pc \in {"start", "collect"} /\ TimesOut(MaxBusy)
           \/ pc = "sleep" /\ TimesOut(NextBeat + MaxLate)
    BY <1>6, TimesOutStep
<1>7. CASE UNCHANGED vars
  <2> USE <1>7 DEF vars, TimingInv
  <2>1. tick' = tick
      BY DEF tick
  <2>2. TypeOK' /\ BeatsAligned'
      BY <2>1, Zenon DEF TypeOK, BeatsAligned
  <2>3. FrequencyWraps'
      BY Zenon DEF FrequencyWraps
  <2>4. NoFalseTimeout' /\ IdleGivenUp' /\ Waiting'
      BY <2>1, Zenon DEF NoFalseTimeout, IdleGivenUp, Waiting, Turn
  <2>5. Between' /\ Once'
      BY <2>1, Zenon DEF Between, Once
  <2> QED
      BY <2>2, <2>3, <2>4, <2>5, Zenon
<1> QED
    BY <1>1, <1>2, <1>3, <1>4, <1>5, <1>6, <1>7, Zenon DEF Next

\* The invariant holds throughout.
LEMMA TimingInvariant == Spec => []TimingInv
    BY TimingInit, TimingStep, PTL DEF Spec

-----------------------------------------------------------------------------
\* Whatever the argument, the frequency a process runs with is one that
\* parse_command_line accepts, and the agent has waited for less than its timeout.
THEOREM TypeCorrect == Spec => []TypeOK
    BY TimingInvariant, PTL DEF TimingInv

\* parse_command_line accepts a number that an unsigned int holds, with any number of
\* leading zeros, exactly if it is in [1, 86400), and runs with it: str2u's wrapping
\* arithmetic computes it, and what is negative as an int is refused.
THEOREM FrequencyIsExact == Spec => []FrequencyExact
<1>1. ASSUME TimingInv
      PROVE  FrequencyExact
  <2> SUFFICES ASSUME IsNumber(argument), Value(argument) < Modulus
               PROVE  /\ pc = "refused" => Value(argument) \notin 1..Limit - 1
                      /\ pc \notin {"parse", "refused"} =>
                           Value(argument) \in 1..Limit - 1 /\ update_every = Value(argument)
      BY Zenon DEF FrequencyExact
  <2>1. argument \in Seq(Characters)
      BY <1>1, ArgumentsAssumption DEF TimingInv, TypeOK, Characters
  <2>2. Value(argument) \in Nat
      BY <2>1, str2uValue, Zenon DEF IsNumber
  <2>3. Value(argument) % Modulus = Value(argument)
      BY <2>2, TimingAssumption
  <2>4. FrequencyWraps /\ update_every \in 1..Limit - 1
      BY <1>1 DEF TimingInv, TypeOK
  <2> QED
      BY <2>3, <2>4, Zenon DEF FrequencyWraps
<1> QED
    BY <1>1, TimingInvariant, PTL

\* The agent gives up a plugin that prints in each cycle only if registration, a beat
\* and a cycle do not fit in its timeout, and any other one only if its cycles without
\* a line do not, for every frequency, every lateness and every duration of the cycles.
THEOREM NoTimeoutIsFalse == Spec => []NoFalseTimeout
    BY TimingInvariant, PTL DEF TimingInv

\* No plugin goes on for the agent's timeout with cycles that print nothing, whatever
\* its frequency: one whose upsd lists no UPS is given up.
THEOREM IdlePluginsGivenUp == Spec => []IdleGivenUp
    BY TimingInvariant, PTL DEF TimingInv

\* A frequency longer than the agent's timeout, a cycle and the lateness of a beat
\* never reaches a second cycle.
THEOREM SlowPluginsCollectOnce == Spec => []SlowCollectsOnce
<1>1. TimingInv => SlowCollectsOnce
    BY DEF TimingInv, Once, SlowCollectsOnce
<1> QED
    BY <1>1, TimingInvariant, PTL

\* heartbeat_next keeps to the multiples of the frequency: what a BEGIN line says
\* has elapsed is such a multiple but for the lateness of the two beats.
THEOREM BeatsStayAligned == Spec => []BeatsAligned
    BY TimingInvariant, PTL DEF TimingInv
=============================================================================
