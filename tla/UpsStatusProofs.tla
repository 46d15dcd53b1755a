--------------------------- MODULE UpsStatusProofs ---------------------------
(***************************************************************************)
(* Proofs about UpsStatus, for every set of values ups.status may have.    *)
(*                                                                         *)
(* First the tables: which word each case stands for.  Then the reference: *)
(* how Reported grows over a word and over what is no word.  Then one      *)
(* lemma for each thing an iteration does to the pointer, and the steps.   *)
(***************************************************************************)
EXTENDS UpsStatus, WellFoundedInduction, TLAPS

Letters == {"A", "B", "C", "D", "E", "F", "G", "H", "I", "L", "M", "O", "P", "R", "S", "T", "V", "Y"}

\* The words of the table are spelt with letters.
LEMMA WordsSpelt ==
    ASSUME NEW k \in Known
    PROVE  Len(k.word) \in 2..7 /\ \A i \in 1..Len(k.word) : k.word[i] # Blank
<1>1. Len(k.word) \in {2, 3, 4, 5, 6, 7}
  BY DEF Known
<1>2. k.word[1] \in Letters /\ k.word[2] \in Letters
  BY DEF Known, Letters
<1>3. Len(k.word) # 2 => k.word[3] \in Letters
  BY DEF Known, Letters
<1>4. Len(k.word) \notin {2, 3} => k.word[4] \in Letters
  BY DEF Known, Letters
<1>5. Len(k.word) \in {5, 6, 7} => k.word[5] \in Letters
  BY DEF Known, Letters
<1>6. Len(k.word) \in {6, 7} => k.word[6] \in Letters
  BY DEF Known, Letters
<1>7. Len(k.word) = 7 => k.word[7] \in Letters
  BY DEF Known, Letters
<1>8. ASSUME NEW i \in 1..Len(k.word)
      PROVE  k.word[i] \in Letters
  BY <1>1, <1>2, <1>3, <1>4, <1>5, <1>6, <1>7
<1>9. Blank \notin Letters
  BY Zenon DEF Letters, Blank
<1>10. Len(k.word) \in 2..7
  BY <1>1
<1>11. \A i \in 1..Len(k.word) : k.word[i] # Blank
  BY <1>8, <1>9, Zenon
<1> QED
  BY <1>10, <1>11

\* A word of the table that begins with a character of the outer switch is the
\* one of that case, and as long as the case assumes.
LEMMA FirstCharacter ==
    ASSUME NEW k \in Known, NEW case \in OneCharacter, k.word[1] = case.char
    PROVE  k.status = case.status /\ Len(k.word) = case.skip + 1
<1>1. k.status = case.status
  BY DEF Known, OneCharacter
<1>2. CASE case = [char |-> "L", status |-> "LB", skip |-> 1]
  BY <1>2 DEF Known
<1>3. CASE case = [char |-> "H", status |-> "HB", skip |-> 1]
  BY <1>3 DEF Known
<1>4. CASE case = [char |-> "R", status |-> "RB", skip |-> 1]
  BY <1>4 DEF Known
<1>5. CASE case = [char |-> "D", status |-> "DISCHRG", skip |-> 6]
  BY <1>5 DEF Known
<1>6. CASE case = [char |-> "T", status |-> "TRIM", skip |-> 3]
  BY <1>6 DEF Known
<1>7. CASE case = [char |-> "F", status |-> "FSD", skip |-> 2]
  BY <1>7 DEF Known
<1> QED
  BY <1>1, <1>2, <1>3, <1>4, <1>5, <1>6, <1>7 DEF OneCharacter

\* The same for the inner switches, except that the case for OFF is one short.
LEMMA FirstTwoCharacters ==
    ASSUME NEW k \in Known, NEW case \in TwoCharacters,
           k.word[1] = case.char, k.word[2] = case.next
    PROVE  k.status = case.status /\ (k.status # "OFF" => Len(k.word) = case.skip + 2)
<1>1. k.status = case.status
  BY DEF Known, TwoCharacters
<1>2. CASE case = [char |-> "B", next |-> "O", status |-> "BOOST", skip |-> 3]
  BY <1>1, <1>2 DEF Known
<1>3. CASE case = [char |-> "B", next |-> "Y", status |-> "BYPASS", skip |-> 4]
  BY <1>1, <1>3 DEF Known
<1>4. CASE case = [char |-> "C", next |-> "H", status |-> "CHRG", skip |-> 2]
  BY <1>1, <1>4 DEF Known
<1>5. CASE case = [char |-> "C", next |-> "A", status |-> "CAL", skip |-> 1]
  BY <1>1, <1>5 DEF Known
<1>6. CASE case.status \in {"OB", "OL"} /\ case.skip = 0
  BY <1>1, <1>6 DEF Known
<1>7. CASE case.status = "OFF"
  BY <1>1, <1>7
<1>8. CASE case = [char |-> "O", next |-> "V", status |-> "OVER", skip |-> 2]
  BY <1>1, <1>8 DEF Known
<1> QED
  BY <1>1, <1>2, <1>3, <1>4, <1>5, <1>6, <1>7, <1>8 DEF TwoCharacters

\* Every word of the table has its case.
LEMMA NoDefault ==
    ASSUME NEW k \in Known
    PROVE  \/ \E case \in OneCharacter : k.word[1] = case.char
           \/ \E case \in TwoCharacters : k.word[1] = case.char /\ k.word[2] = case.next
BY DEF Known, OneCharacter, TwoCharacters

\* The two switches share no first character, and none is a space.
LEMMA CasesDistinct ==
    /\ \A case \in OneCharacter :
         case.char \notin {Blank, "B", "C", "O"} /\ case.skip \in 0..6
    /\ \A case \in TwoCharacters :
         case.char \in {"B", "C", "O"} /\ case.skip \in 0..4
<1>1. \A case \in OneCharacter : case.char \in {"L", "H", "R", "D", "T", "F"}
  BY DEF OneCharacter
<1>2. \A case \in TwoCharacters : case.char \in {"B", "C", "O"}
  BY DEF TwoCharacters
<1>3. \A case \in OneCharacter : case.skip \in 0..6
  BY DEF OneCharacter
<1>4. \A case \in TwoCharacters : case.skip \in 0..4
  BY DEF TwoCharacters
<1>5. Blank \notin {"L", "H", "R", "D", "T", "F"}
  BY Zenon DEF Blank
<1> QED
  BY <1>1, <1>2, <1>3, <1>4, <1>5

-----------------------------------------------------------------------------
\* Some word before p is that of status x; some word before p is in no table.
KnownBefore(s, p, x) ==
    \E k \in Known, i \in 1..Len(s) : i < p /\ WordAt(s, i, k.word) /\ x = k.status

OtherBefore(s, p) ==
    \E i \in 1..Len(s) : i < p /\ WordStart(s, i) /\ \A k \in Known : ~WordAt(s, i, k.word)

\* Reported, by its elements.
LEMMA ReportedMember ==
    \A s, p, x : x \in Reported(s, p) <=> KnownBefore(s, p, x) \/ (x = "OTHER" /\ OtherBefore(s, p))
BY Zenon DEF Reported, KnownBefore, OtherBefore

\* A word of the table stands only where a word begins, and fits.
LEMMA WordAtStart ==
    ASSUME NEW s \in Seq(STRING), NEW i \in 1..Len(s), NEW k \in Known, WordAt(s, i, k.word)
    PROVE  /\ WordStart(s, i)
           /\ s[i] = k.word[1] /\ s[i + 1] = k.word[2] /\ i < Len(s)
           /\ i + Len(k.word) =< Len(s) + 1
           /\ \A j \in i..i + Len(k.word) - 1 : s[j] # Blank
           /\ i + Len(k.word) = Len(s) + 1 \/ s[i + Len(k.word)] = Blank
<1>1. Len(k.word) \in 2..7 /\ \A j \in 1..Len(k.word) : k.word[j] # Blank
  BY WordsSpelt
<1>2. \A j \in 1..Len(k.word) : s[i + j - 1] = k.word[j]
  BY DEF WordAt
<1>3. \A j \in i..i + Len(k.word) - 1 : s[j] # Blank
  <2> TAKE j \in i..i + Len(k.word) - 1
  <2>1. j - i + 1 \in 1..Len(k.word) /\ i + (j - i + 1) - 1 = j
    BY <1>1
  <2> QED
    BY <1>1, <1>2, <2>1
<1>4. s[i] = k.word[1] /\ s[i + 1] = k.word[2]
  <2>1. s[i + 1 - 1] = k.word[1] /\ s[i + 2 - 1] = k.word[2]
    BY <1>1, <1>2
  <2>2. i + 1 - 1 = i /\ i + 2 - 1 = i + 1
    OBVIOUS
  <2> QED
    BY <2>1, <2>2
<1>5. i + Len(k.word) =< Len(s) + 1 /\ Len(s) \in Nat
  BY DEF WordAt
<1>6. i < Len(s) /\ i \in i..i + Len(k.word) - 1
  <2>1. Len(k.word) \in 2..7
    BY <1>1
  <2>2. ASSUME NEW n \in 2..7, NEW l \in Nat, i + n =< l + 1
        PROVE  i < l /\ i \in i..i + n - 1
    BY <2>2
  <2> QED
    BY <1>5, <2>1, <2>2
<1>7. WordStart(s, i)
  <2>1. s[i] # Blank
    BY <1>3, <1>6
  <2> QED
    BY <2>1, Zenon DEF WordAt, WordStart
<1>8. i + Len(k.word) = Len(s) + 1 \/ s[i + Len(k.word)] = Blank
  BY Zenon DEF WordAt
<1> QED
  BY <1>3, <1>4, <1>5, <1>6, <1>7, <1>8, Zenon

\* Positions at which no word begins add nothing to the report.
LEMMA ReportedGap ==
    ASSUME NEW s \in Seq(STRING), NEW p \in Nat, NEW q \in Nat, p =< q,
           \A i \in 1..Len(s) : p =< i /\ i < q => ~WordStart(s, i)
    PROVE  Reported(s, q) = Reported(s, p)
<1>1. \A i \in 1..Len(s) : WordStart(s, i) => (i < q <=> i < p)
  OBVIOUS
<1>2. \A i \in 1..Len(s), k \in Known : WordAt(s, i, k.word) => WordStart(s, i)
  BY WordAtStart
<1>3. \A x : KnownBefore(s, q, x) <=> KnownBefore(s, p, x)
  BY <1>1, <1>2, Zenon DEF KnownBefore
<1>4. OtherBefore(s, q) <=> OtherBefore(s, p)
  BY <1>1, Zenon DEF OtherBefore
<1>5. \A x : x \in Reported(s, q) <=> x \in Reported(s, p)
  BY <1>3, <1>4, ReportedMember
<1> QED
  BY <1>5

\* A word of the table adds its status.
LEMMA ReportedKnown ==
    ASSUME NEW s \in Seq(STRING), NEW p \in 1..Len(s), NEW k \in Known, WordAt(s, p, k.word),
           \A j \in Known : WordAt(s, p, j.word) => j.status = k.status
    PROVE  Reported(s, p + 1) = Reported(s, p) \cup {k.status}
<1>1. \A i \in 1..Len(s) : i < p + 1 <=> i < p \/ i = p
  OBVIOUS
<1>2. \A x : KnownBefore(s, p + 1, x) <=> KnownBefore(s, p, x) \/ x = k.status
  BY <1>1, Zenon DEF KnownBefore
<1>3. OtherBefore(s, p + 1) <=> OtherBefore(s, p)
  BY <1>1, Zenon DEF OtherBefore
<1>4. \A x : x \in Reported(s, p + 1) <=> x \in Reported(s, p) \/ x = k.status
  BY <1>2, <1>3, ReportedMember
<1> QED
  BY <1>4

\* A word that is not in the table adds OTHER.
LEMMA ReportedOther ==
    ASSUME NEW s \in Seq(STRING), NEW p \in 1..Len(s), WordStart(s, p),
           \A k \in Known : ~WordAt(s, p, k.word)
    PROVE  Reported(s, p + 1) = Reported(s, p) \cup {"OTHER"}
<1>1. \A i \in 1..Len(s) : i < p + 1 <=> i < p \/ i = p
  OBVIOUS
<1>2. \A x : KnownBefore(s, p + 1, x) <=> KnownBefore(s, p, x)
  BY <1>1, Zenon DEF KnownBefore
<1>3. OtherBefore(s, p + 1)
  BY <1>1, Zenon DEF OtherBefore
<1>4. \A x : x \in Reported(s, p + 1) <=> x \in Reported(s, p) \/ x = "OTHER"
  BY <1>2, <1>3, ReportedMember
<1> QED
  BY <1>4

-----------------------------------------------------------------------------
\* The words before p are all good; p is at the end of a word, on a blank, at the
\* beginning of a word or at the NUL.
GoodBefore(s, p) == \A i \in 1..Len(s) : i < p /\ WordStart(s, i) => GoodWord(s, i)

Boundary(s, p) ==
    p \in 1..Len(s) + 1 /\ (p = 1 \/ p = Len(s) + 1 \/ s[p - 1] = Blank \/ s[p] = Blank)

\* The pointer is moved over a word of the table.
LEMMA KnownStep ==
    ASSUME NEW s \in Seq(STRING), NEW p \in 1..Len(s), NEW k \in Known, WordAt(s, p, k.word),
           \A j \in Known : WordAt(s, p, j.word) => j.status = k.status
    PROVE  /\ Boundary(s, p + Len(k.word))
           /\ Reported(s, p + Len(k.word)) = Reported(s, p) \cup {k.status}
<1> DEFINE q == p + Len(k.word)
<1>1. Len(k.word) \in 2..7
  BY WordsSpelt
<1>2. Len(s) \in Nat /\ q \in Nat /\ p + 1 \in Nat /\ p + 1 =< q /\ 1 =< q
  <2>1. \A l \in 2..7 : p + l \in Nat /\ p + 1 =< p + l /\ 1 =< p + l
    OBVIOUS
  <2>2. Len(s) \in Nat /\ p + 1 \in Nat
    OBVIOUS
  <2> QED
    BY <1>1, <2>1, <2>2, Zenon
<1>3. q =< Len(s) + 1 /\ (q = Len(s) + 1 \/ s[q] = Blank) /\ \A j \in p..q - 1 : s[j] # Blank
  BY WordAtStart
<1>4. \A i \in 1..Len(s) : p + 1 =< i /\ i < q => ~WordStart(s, i)
  <2> SUFFICES ASSUME NEW i \in 1..Len(s), p + 1 =< i, i < q
               PROVE  i # 1 /\ s[i - 1] # Blank
    BY DEF WordStart
  <2> HIDE DEF q
  <2>1. i - 1 \in p..q - 1 /\ i # 1
    BY <1>2
  <2> QED
    BY <1>3, <2>1
<1> HIDE DEF q
<1>5. Reported(s, q) = Reported(s, p + 1)
  BY <1>2, <1>4, ReportedGap
<1>6. Reported(s, p + 1) = Reported(s, p) \cup {k.status}
  BY ReportedKnown
<1>7. Boundary(s, q)
  BY <1>2, <1>3 DEF Boundary
<1> QED
  BY <1>5, <1>6, <1>7 DEF q

\* The pointer is moved past the blank that ends a word of no table.
LEMMA OtherStep ==
    ASSUME NEW s \in Seq(STRING), NEW p \in 1..Len(s), WordStart(s, p),
           \A k \in Known : ~WordAt(s, p, k.word),
           NEW q \in p + 1..Len(s), s[q] = Blank, \A r \in p + 1..q - 1 : s[r] # Blank
    PROVE  Boundary(s, q + 1) /\ Reported(s, q + 1) = Reported(s, p) \cup {"OTHER"}
<1>1. Len(s) \in Nat /\ q + 1 \in Nat /\ p + 1 \in Nat /\ p + 1 =< q + 1 /\ q + 1 - 1 = q
  OBVIOUS
<1>2. \A i \in 1..Len(s) : p + 1 =< i /\ i < q + 1 => ~WordStart(s, i)
  <2> SUFFICES ASSUME NEW i \in 1..Len(s), p + 1 =< i, i < q + 1, WordStart(s, i)
               PROVE  FALSE
    OBVIOUS
  <2>1. i # 1 /\ (i = q \/ i - 1 = p \/ i - 1 \in p + 1..q - 1)
    OBVIOUS
  <2>2. s[p] # Blank /\ s[i] # Blank /\ (i = 1 \/ s[i - 1] = Blank)
    BY Zenon DEF WordStart
  <2> QED
    BY <2>1, <2>2
<1>3. Reported(s, q + 1) = Reported(s, p + 1)
  BY <1>1, <1>2, ReportedGap
<1>4. Reported(s, p + 1) = Reported(s, p) \cup {"OTHER"}
  BY ReportedOther
<1>5. Boundary(s, q + 1)
  BY <1>1 DEF Boundary
<1> QED
  BY <1>3, <1>4, <1>5

\* strchr finds the first blank.
LEMMA FirstBlank ==
    ASSUME NEW p \in Nat, Spaces(p) # {}
    PROVE  LET q == CHOOSE q \in Spaces(p) : \A r \in Spaces(p) : q =< r
           IN  q \in Spaces(p) /\ \A r \in Spaces(p) : q =< r
<1>1. Spaces(p) \subseteq Nat
  BY DEF Spaces
<1> DEFINE Less == {pair \in Nat \X Nat : pair[1] < pair[2]}
<1>2. IsWellFoundedOn(Less, Nat)
  BY NatLessThanWellFounded DEF OpToRel
<1> HIDE DEF Less
<1>3. PICK q \in Spaces(p) : \A r \in Spaces(p) : ~(<<r, q>> \in Less)
  BY <1>1, <1>2, WFMin
<1>4. \A m, n \in Nat : <<m, n>> \in Less \/ n =< m
  BY DEF Less
<1>5. \A r \in Spaces(p) : q =< r
  BY <1>1, <1>3, <1>4
<1> QED
  BY <1>5, Zenon

-----------------------------------------------------------------------------
\* The pointer and the bits set so far are right, if the words before are good.
Right(s, p, x) == GoodBefore(s, p) => Boundary(s, p) /\ x = Reported(s, p)

\* On a character that is not a blank a right scanner is where a word begins; if
\* it gets past that character over good words, the word is good.
LEMMA AtWord ==
    ASSUME NEW s \in Seq(STRING), NEW p \in 1..Len(s), NEW q \in Nat, p < q,
           s[p] # Blank, GoodBefore(s, p) => Boundary(s, p), GoodBefore(s, q)
    PROVE  GoodBefore(s, p) /\ WordStart(s, p) /\ GoodWord(s, p)
<1>1. \A i \in 1..Len(s) : i < p => i < q
  OBVIOUS
<1>2. GoodBefore(s, p)
  BY <1>1, Zenon DEF GoodBefore
<1>3. p = 1 \/ s[p - 1] = Blank
  BY <1>2 DEF Boundary
<1>4. WordStart(s, p)
  BY <1>3, Zenon DEF WordStart
<1>5. GoodWord(s, p)
  BY <1>4, Zenon DEF GoodBefore
<1> QED
  BY <1>2, <1>4, <1>5

\* A case that recognises status y stays right.
LEMMA ScanKnown ==
    ASSUME NEW s \in Seq(STRING), NEW p \in 1..Len(s), NEW q \in Nat, p < q,
           s[p] # Blank, NEW x, Right(s, p, x), NEW y, ~UnknownAt(s, p),
           \A k \in Known : WordAt(s, p, k.word) =>
               k.status = y /\ (k.status # "OFF" => p + Len(k.word) = q)
    PROVE  Right(s, q, x \cup {y})
<1> SUFFICES ASSUME GoodBefore(s, q)
             PROVE  Boundary(s, q) /\ x \cup {y} = Reported(s, q)
  BY DEF Right
<1>1. GoodBefore(s, p) /\ GoodWord(s, p)
  BY AtWord DEF Right
<1>2. PICK k \in Known : k.status # "OFF" /\ WordAt(s, p, k.word)
  BY <1>1, Zenon DEF GoodWord
<1>3. k.status = y /\ p + Len(k.word) = q /\ \A j \in Known : WordAt(s, p, j.word) => j.status = k.status
  BY <1>2, Zenon
<1>4. Boundary(s, q) /\ Reported(s, q) = Reported(s, p) \cup {y}
  BY <1>2, <1>3, KnownStep
<1> QED
  BY <1>1, <1>4 DEF Right

\* A default case that finds a blank stays right.
LEMMA ScanOther ==
    ASSUME NEW s \in Seq(STRING), NEW p \in 1..Len(s), s[p] # Blank,
           NEW x, Right(s, p, x), \A k \in Known : ~WordAt(s, p, k.word),
           NEW q \in p + 1..Len(s), s[q] = Blank, \A r \in p + 1..q - 1 : s[r] # Blank
    PROVE  Right(s, q + 1, x \cup {"OTHER"})
<1> SUFFICES ASSUME GoodBefore(s, q + 1)
             PROVE  Boundary(s, q + 1) /\ x \cup {"OTHER"} = Reported(s, q + 1)
  BY DEF Right
<1>1. q + 1 \in Nat /\ p < q + 1
  OBVIOUS
<1>2. GoodBefore(s, p) /\ WordStart(s, p)
  BY <1>1, AtWord DEF Right
<1>3. Boundary(s, q + 1) /\ Reported(s, q + 1) = Reported(s, p) \cup {"OTHER"}
  BY <1>2, OtherStep
<1> QED
  BY <1>2, <1>3 DEF Right

\* A default case finds no blank only in a value with a bad word.
LEMMA ScanNull ==
    ASSUME NEW s \in Seq(STRING), NEW p \in 1..Len(s), s[p] # Blank,
           NEW x, Right(s, p, x), \A k \in Known : ~WordAt(s, p, k.word),
           \A r \in p + 1..Len(s) : s[r] # Blank
    PROVE  ~Scannable(s)
<1> SUFFICES ASSUME Scannable(s)
             PROVE  FALSE
  OBVIOUS
<1>1. GoodBefore(s, p) /\ GoodBefore(s, p + 1) /\ p + 1 \in Nat /\ p < p + 1
  BY DEF Scannable, GoodBefore
<1>2. GoodWord(s, p)
  BY <1>1, AtWord DEF Right
<1> QED
  BY <1>2, Zenon DEF GoodWord, UnknownAt

\* A blank is skipped.
LEMMA ScanBlank ==
    ASSUME NEW s \in Seq(STRING), NEW p \in 1..Len(s), s[p] = Blank, NEW x, Right(s, p, x)
    PROVE  Right(s, p + 1, x)
<1>1. p + 1 \in Nat /\ p =< p + 1 /\ \A i \in 1..Len(s) : p =< i /\ i < p + 1 => i = p
  OBVIOUS
<1>2. \A i \in 1..Len(s) : p =< i /\ i < p + 1 => ~WordStart(s, i)
  BY <1>1 DEF WordStart
<1>3. Reported(s, p + 1) = Reported(s, p)
  BY <1>1, <1>2, ReportedGap
<1>4. Boundary(s, p + 1)
  BY DEF Boundary
<1>5. GoodBefore(s, p + 1) => GoodBefore(s, p)
  BY DEF GoodBefore
<1> QED
  BY <1>3, <1>4, <1>5 DEF Right

-----------------------------------------------------------------------------
\* The inductive invariant: in the loop and at the SETs the scanner is right, it
\* leaves the loop only at or past the NUL, and the process is lost, or about to be,
\* only on a value with a bad word.
StatusInv ==
    /\ TypeOK
    /\ pc = "get" => c = 1 /\ str = <<>>
    /\ pc \in {"scan", "send"} /\ c # 0 => Right(str, c, status)
    /\ pc = "send" => c > Len(str)
    /\ pc \in {"crash", "undefined"} \/ c = 0 => ~Scannable(str)

Statuses == {k.status : k \in Known} \cup {"OTHER"}

\* The cases set bits of the structure.
LEMMA CaseStatuses ==
    /\ \A case \in OneCharacter : case.status \in Statuses
    /\ \A case \in TwoCharacters : case.status \in Statuses
    /\ "OTHER" \in Statuses
<1>1. \A case \in OneCharacter : \E k \in Known : case.status = k.status
  BY DEF OneCharacter, Known
<1>2. \A case \in TwoCharacters : \E k \in Known : case.status = k.status
  BY DEF TwoCharacters, Known
<1> QED
  BY <1>1, <1>2, Zenon DEF Statuses

\* A call begins with nothing behind the pointer.
LEMMA RightAtFirst ==
    ASSUME NEW s \in Seq(STRING)
    PROVE  Right(s, 1, {})
<1>1. \A i \in 1..Len(s) : ~(i < 1)
  OBVIOUS
<1>2. \A x : ~KnownBefore(s, 1, x) /\ ~OtherBefore(s, 1)
  BY <1>1, Zenon DEF KnownBefore, OtherBefore
<1>3. \A x : x \notin Reported(s, 1)
  BY <1>2, ReportedMember, Zenon
<1>4. Boundary(s, 1)
  BY DEF Boundary
<1> QED
  BY <1>3, <1>4 DEF Right

\* A new value, or none, is right at its first character.
LEMMA GetRight ==
    ASSUME StatusInv, Get
    PROVE  StatusInv'
<1>1. <<>> \in Seq(STRING) /\ (str' \in Strings => str' \in Seq(STRING))
  BY StringsAssumption
<1>2. str' \in Seq(STRING) /\ c' = 1 /\ status' = {} /\ pc' \in {"scan", "send"}
  BY <1>1 DEF Get
<1>3. Right(str', c', status')
  BY <1>2, RightAtFirst
<1>4. TypeOK'
  BY <1>2 DEF TypeOK
<1>5. pc' = "send" => c' > Len(str')
  BY DEF Get
<1> QED
  BY <1>2, <1>3, <1>4, <1>5 DEF StatusInv

\* What all cases of the scan have in common.
LEMMA InString ==
    ASSUME StatusInv, Scanning
    PROVE  /\ str \in Seq(STRING) /\ c \in 1..Len(str) /\ At(c) = str[c]
           /\ Right(str, c, status) /\ status \subseteq Statuses
<1>1. str \in Seq(STRING) /\ c \in 1..Len(str) /\ c # 0 /\ pc = "scan"
  BY DEF StatusInv, TypeOK, Scanning
<1>2. c \in 1..Len(str) /\ At(c) = str[c]
  BY <1>1 DEF At
<1>3. status \subseteq Statuses
  BY DEF StatusInv, TypeOK, Statuses
<1>4. Right(str, c, status)
  BY <1>1 DEF StatusInv
<1> QED
  BY <1>1, <1>2, <1>3, <1>4

\* A step that leaves the scan running is right if the new pointer and bits are.
LEMMA StillScanning ==
    ASSUME StatusInv, Scanning, pc' = pc, str' = str, c' \in 1..Len(str) + 7,
           status' \subseteq Statuses, Right(str, c', status')
    PROVE  StatusInv'
<1>1. pc = "scan"
  BY DEF Scanning
<1>2. TypeOK'
  BY <1>1 DEF StatusInv, TypeOK, Statuses
<1>3. Right(str', c', status')
  OBVIOUS
<1> QED
  BY <1>1, <1>2, <1>3 DEF StatusInv

\* The invariant over a blank.
LEMMA SpaceRight ==
    ASSUME StatusInv, Space
    PROVE  StatusInv'
<1>1. Scanning /\ At(c) = Blank /\ c' = c + 1 /\ pc' = pc /\ str' = str /\ status' = status
  BY DEF Space
<1>2. str \in Seq(STRING) /\ c \in 1..Len(str) /\ str[c] = Blank
      /\ Right(str, c, status) /\ status \subseteq Statuses
  BY <1>1, InString
<1>3. Right(str, c + 1, status)
  BY <1>2, ScanBlank
<1>4. c' \in 1..Len(str) + 7
  BY <1>1, <1>2
<1> QED
  BY <1>1, <1>2, <1>3, <1>4, StillScanning

\* The invariant over a case of the outer switch: a good word there is the one of the
\* case, and the case skips exactly that word.
LEMMA ScanOneRight ==
    ASSUME StatusInv, ScanOne
    PROVE  StatusInv'
<1>1. PICK case \in OneCharacter : Scanning /\ At(c) = case.char /\ Recognise(case, c)
  BY DEF ScanOne
<1>2. /\ pc' = pc /\ str' = str
      /\ c' = c + case.skip + 1 /\ status' = status \cup {case.status}
  BY <1>1 DEF Recognise
<1>3. /\ str \in Seq(STRING) /\ c \in 1..Len(str) /\ str[c] = case.char
      /\ Right(str, c, status) /\ status \subseteq Statuses
  BY <1>1, InString
<1>4. str[c] # Blank /\ case.skip \in 0..6
  BY <1>3, CasesDistinct
<1>5. c' \in Nat /\ c' \in 1..Len(str) + 7 /\ c < c'
  BY <1>2, <1>3, <1>4
<1>6. \A k \in Known : WordAt(str, c, k.word) => k.status = case.status /\ c + Len(k.word) = c'
  <2> SUFFICES ASSUME NEW k \in Known, WordAt(str, c, k.word)
               PROVE  k.status = case.status /\ c + Len(k.word) = c'
    OBVIOUS
  <2>1. k.word[1] = case.char
    BY <1>3, WordAtStart
  <2>2. k.status = case.status /\ Len(k.word) = case.skip + 1
    BY <2>1, FirstCharacter
  <2>3. c + (case.skip + 1) = c'
    BY <1>2, <1>3, <1>4
  <2> QED
    BY <2>2, <2>3
<1>7. ~UnknownAt(str, c)
  BY <1>3, Zenon DEF UnknownAt
<1>8. Right(str, c', status')
  BY <1>2, <1>3, <1>4, <1>5, <1>6, <1>7, ScanKnown
<1>9. status' \subseteq Statuses
  BY <1>2, <1>3, CaseStatuses
<1> QED
  BY <1>1, <1>2, <1>5, <1>8, <1>9, <1>3, StillScanning

\* The invariant over a case of an inner switch; the word OFF, whose case is one short,
\* is not good.
LEMMA ScanTwoRight ==
    ASSUME StatusInv, ScanTwo
    PROVE  StatusInv'
<1>1. PICK case \in TwoCharacters :
        Scanning /\ At(c) = case.char /\ At(c + 1) = case.next /\ Recognise(case, c + 1)
  BY DEF ScanTwo
<1>2. /\ pc' = pc /\ str' = str
      /\ c' = c + 1 + case.skip + 1 /\ status' = status \cup {case.status}
  BY <1>1 DEF Recognise
<1>3. /\ str \in Seq(STRING) /\ c \in 1..Len(str) /\ str[c] = case.char
      /\ Right(str, c, status) /\ status \subseteq Statuses
  BY <1>1, InString
<1>4. case.char \in {"B", "C", "O"} /\ case.skip \in 0..4
  BY CasesDistinct
<1>5. str[c] # Blank
  <2>1. Blank \notin {"B", "C", "O"}
    BY Zenon DEF Blank
  <2> QED
    BY <1>3, <1>4, <2>1
<1>6. c' \in Nat /\ c' \in 1..Len(str) + 7 /\ c < c'
  BY <1>2, <1>3, <1>4
<1>7. c < Len(str) /\ str[c + 1] = case.next
  <2>1. case.next # "NUL"
    BY DEF TwoCharacters
  <2> QED
    BY <1>1, <1>3, <2>1 DEF At
<1>8. \A k \in Known : WordAt(str, c, k.word) =>
          k.status = case.status /\ (k.status # "OFF" => c + Len(k.word) = c')
  <2> SUFFICES ASSUME NEW k \in Known, WordAt(str, c, k.word)
               PROVE  k.status = case.status /\ (k.status # "OFF" => c + Len(k.word) = c')
    OBVIOUS
  <2>1. k.word[1] = case.char /\ k.word[2] = case.next
    BY <1>3, <1>7, WordAtStart
  <2>2. k.status = case.status /\ (k.status # "OFF" => Len(k.word) = case.skip + 2)
    BY <2>1, FirstTwoCharacters
  <2>3. c + (case.skip + 2) = c'
    BY <1>2, <1>3, <1>4
  <2> QED
    BY <2>2, <2>3
<1>9. ~UnknownAt(str, c)
  BY <1>3, <1>7, Zenon DEF UnknownAt
<1>10. Right(str, c', status')
  BY <1>2, <1>3, <1>5, <1>6, <1>8, <1>9, ScanKnown
<1>11. status' \subseteq Statuses
  BY <1>2, <1>3, CaseStatuses
<1> QED
  BY <1>1, <1>2, <1>3, <1>6, <1>10, <1>11, StillScanning

\* A default case at p, the first or the second character of the word at c.
LEMMA OtherRight ==
    ASSUME StatusInv, Scanning, NEW p \in {c, c + 1}, Other(p), str[c] # Blank,
           \A k \in Known : ~WordAt(str, c, k.word)
    PROVE  StatusInv'
<1>1. /\ str \in Seq(STRING) /\ c \in 1..Len(str)
      /\ Right(str, c, status) /\ status \subseteq Statuses /\ pc = "scan"
  BY InString DEF Scanning
<1>2. status' = status \cup {"OTHER"} /\ str' = str
  BY DEF Other
<1>3. status' \subseteq Statuses
  BY <1>1, <1>2, CaseStatuses
<1>4. \A q : q \in Spaces(p) <=> q \in c + 1..Len(str) /\ str[q] = Blank
  BY <1>1 DEF Spaces
<1>5. CASE Spaces(p) # {}
  <2> DEFINE q == CHOOSE q \in Spaces(p) : \A r \in Spaces(p) : q =< r
  <2>1. p \in Nat
    BY <1>1
  <2>2. q \in Spaces(p) /\ \A r \in Spaces(p) : q =< r
    BY <1>5, <2>1, FirstBlank
  <2>3. c' = 1 + q /\ pc' = pc
    BY <1>5 DEF Other
  <2> HIDE DEF q
  <2>4. q \in c + 1..Len(str) /\ str[q] = Blank
    BY <1>4, <2>2
  <2>5. \A r \in c + 1..q - 1 : str[r] # Blank
    <3> SUFFICES ASSUME NEW r \in c + 1..q - 1, str[r] = Blank
                 PROVE  FALSE
      OBVIOUS
    <3>1. r \in c + 1..Len(str) /\ ~(q =< r)
      BY <1>1, <2>4
    <3> QED
      BY <1>4, <2>2, <3>1
  <2>6. Right(str, q + 1, status \cup {"OTHER"})
    BY <1>1, <2>4, <2>5, ScanOther
  <2>7. c' = q + 1 /\ c' \in 1..Len(str) + 7
    BY <1>1, <2>3, <2>4
  <2> QED
    BY <1>2, <1>3, <2>3, <2>6, <2>7, StillScanning
<1>6. CASE Spaces(p) = {}
  <2>1. pc' = pc /\ c' = 0
    BY <1>6 DEF Other
  <2>2. ~Scannable(str)
    BY <1>1, <1>4, <1>6, ScanNull
  <2>3. TypeOK'
    BY <1>1, <1>2, <1>3, <2>1 DEF TypeOK, Statuses
  <2> QED
    BY <1>1, <1>2, <2>1, <2>2, <2>3 DEF StatusInv
<1> QED
  BY <1>5, <1>6

\* The invariant over the default case of an inner switch.
LEMMA OtherTwoRight ==
    ASSUME StatusInv, OtherTwo
    PROVE  StatusInv'
<1>1. /\ Scanning /\ At(c) \in {"B", "C", "O"} /\ Other(c + 1)
      /\ \A case \in TwoCharacters : ~(At(c) = case.char /\ At(c + 1) = case.next)
  BY DEF OtherTwo
<1>2. str \in Seq(STRING) /\ c \in 1..Len(str) /\ str[c] = At(c)
  BY <1>1, InString
<1>3. Blank \notin {"B", "C", "O"}
  BY Zenon DEF Blank
<1>4. ASSUME NEW k \in Known, WordAt(str, c, k.word)
      PROVE  FALSE
  <2>1. str[c] = k.word[1] /\ str[c + 1] = k.word[2] /\ c < Len(str)
    BY <1>2, <1>4, WordAtStart
  <2>2. At(c + 1) = str[c + 1]
    BY <1>2, <2>1 DEF At
  <2>3. \A case \in OneCharacter : k.word[1] # case.char
    BY <1>1, <1>2, <2>1, CasesDistinct
  <2>4. \A case \in TwoCharacters : ~(k.word[1] = case.char /\ k.word[2] = case.next)
    BY <1>1, <1>2, <2>1, <2>2
  <2> QED
    BY <2>3, <2>4, NoDefault
<1> QED
  BY <1>1, <1>2, <1>3, <1>4, OtherRight

\* The invariant over the default case of the outer switch.
LEMMA OtherOneRight ==
    ASSUME StatusInv, OtherOne
    PROVE  StatusInv'
<1>1. /\ Scanning /\ Other(c) /\ At(c) # Blank /\ At(c) \notin {"B", "C", "O"}
      /\ \A case \in OneCharacter : At(c) # case.char
  BY Zenon DEF OtherOne
<1>2. str \in Seq(STRING) /\ c \in 1..Len(str) /\ str[c] = At(c)
  BY <1>1, InString
<1>3. ASSUME NEW k \in Known, WordAt(str, c, k.word)
      PROVE  FALSE
  <2>1. str[c] = k.word[1]
    BY <1>2, <1>3, WordAtStart
  <2>2. \A case \in TwoCharacters : k.word[1] # case.char
    BY <1>1, <1>2, <2>1, CasesDistinct
  <2> QED
    BY <1>1, <1>2, <2>1, <2>2, NoDefault
<1> QED
  BY <1>1, <1>2, <1>3, OtherRight

\* A right scanner of a value without bad words is not past the NUL.
LEMMA PastTheEnd ==
    ASSUME NEW s \in Seq(STRING), NEW p \in Nat, p > Len(s) + 1, NEW x, Right(s, p, x)
    PROVE  ~Scannable(s)
<1>1. Scannable(s) => GoodBefore(s, p)
  BY Zenon DEF Scannable, GoodBefore
<1>2. ~Boundary(s, p)
  BY DEF Boundary
<1> QED
  BY <1>1, <1>2 DEF Right

\* Every step keeps the invariant.
LEMMA NextRight ==
    ASSUME StatusInv, [Next]_vars
    PROVE  StatusInv'
<1>1. CASE Get
  BY <1>1, GetRight
<1>2. CASE Space
  BY <1>2, SpaceRight
<1>3. CASE ScanOne
  BY <1>3, ScanOneRight
<1>4. CASE ScanTwo
  BY <1>4, ScanTwoRight
<1>5. CASE OtherTwo
  BY <1>5, OtherTwoRight
<1>6. CASE OtherOne
  BY <1>6, OtherOneRight
<1>7. CASE ScanEnd
  <2>1. /\ pc = "scan" /\ c = Len(str) + 1 /\ pc' = "send"
        /\ str' = str /\ c' = c /\ status' = status
    BY <1>7 DEF ScanEnd
  <2>2. TypeOK'
    BY <2>1 DEF StatusInv, TypeOK
  <2>3. c' > Len(str')
    BY <2>1 DEF StatusInv, TypeOK
  <2> QED
    BY <2>1, <2>2, <2>3 DEF StatusInv
<1>8. CASE Overrun
  <2>1. /\ pc = "scan" /\ c > Len(str) + 1 /\ pc' \in {"send", "undefined"}
        /\ str' = str /\ c' = c /\ status' = status
    BY <1>8 DEF Overrun
  <2>2. str \in Seq(STRING) /\ c \in Nat /\ Right(str, c, status)
    BY <2>1 DEF StatusInv, TypeOK
  <2>3. ~Scannable(str)
    BY <2>1, <2>2, PastTheEnd
  <2>4. TypeOK'
    BY <2>1 DEF StatusInv, TypeOK
  <2>5. c' > Len(str')
    BY <2>1, <2>2
  <2> QED
    BY <2>1, <2>2, <2>3, <2>4, <2>5 DEF StatusInv
<1>9. CASE Fault
  <2>1. /\ pc = "scan" /\ c = 0 /\ pc' = "crash"
        /\ str' = str /\ c' = c /\ status' = status
    BY <1>9 DEF Fault
  <2> QED
    BY <2>1 DEF StatusInv, TypeOK
<1>10. CASE Send
  <2>1. pc' = "get" /\ str' = <<>> /\ c' = 1 /\ status' = {}
    BY <1>10 DEF Send
  <2> QED
    BY <2>1 DEF StatusInv, TypeOK
<1>11. CASE UNCHANGED vars
  BY <1>11 DEF vars, StatusInv, TypeOK
<1> QED
  BY <1>1, <1>2, <1>3, <1>4, <1>5, <1>6, <1>7, <1>8, <1>9, <1>10, <1>11 DEF Next

-----------------------------------------------------------------------------
\* The invariant holds of every behaviour.
THEOREM StatusInvariant == Spec => []StatusInv
<1>1. Init => StatusInv
  BY DEF Init, StatusInv, TypeOK
<1> QED
  BY <1>1, NextRight, PTL DEF Spec

\* For every value, the scanner's pointer is at most six bytes past the NUL or is
\* what strchr's NULL left, and it sets no bit that is not in struct nut_ups_status.
THEOREM StatusTypeCorrect == Spec => []TypeOK
<1>1. StatusInv => TypeOK
  BY DEF StatusInv
<1> QED
  BY <1>1, StatusInvariant, PTL

\* For every value, send_metric_ups_status has set exactly the bits of the words
\* behind its pointer, as long as these are words it is right about.
THEOREM AlwaysRightUpToBadWord == Spec => []RightUpToBadWord
<1>1. StatusInv => RightUpToBadWord
  BY DEF StatusInv, Right, GoodBefore, RightUpToBadWord
<1> QED
  BY <1>1, StatusInvariant, PTL

\* For every value made of words it is right about, it reads no byte past the NUL
\* and does not follow a NULL of strchr.
THEOREM OnlyBadWordsEverOverrun == Spec => []OnlyBadWordsOverrun
<1>1. ASSUME StatusInv
      PROVE  OnlyBadWordsOverrun
  <2>1. str \in Seq(STRING) /\ c \in Nat
    BY <1>1 DEF StatusInv, TypeOK
  <2>2. CASE pc \in {"crash", "undefined"}
    BY <1>1, <2>2 DEF StatusInv, OnlyBadWordsOverrun
  <2>3. CASE pc = "get"
    BY <1>1, <2>3 DEF StatusInv, OnlyBadWordsOverrun
  <2>4. CASE pc \in {"scan", "send"}
    <3>1. CASE c = 0
      BY <1>1, <3>1 DEF StatusInv, OnlyBadWordsOverrun
    <3>2. CASE c # 0
      BY <1>1, <2>1, <2>4, <3>2, PastTheEnd DEF StatusInv, OnlyBadWordsOverrun
    <3> QED
      BY <3>1, <3>2
  <2> QED
    BY <1>1, <2>2, <2>3, <2>4 DEF StatusInv, TypeOK
<1> QED
  BY <1>1, StatusInvariant, PTL

\* For every value made of words it is right about, or for no value at all, what
\* the call sends is what the value says.
THEOREM ScannableReported ==
    Spec => [](pc = "send" /\ Scannable(str) => status = Reported(str, Len(str) + 1))
<1>1. ASSUME StatusInv, pc = "send", Scannable(str)
      PROVE  status = Reported(str, Len(str) + 1)
  <2>1. str \in Seq(STRING) /\ c \in Nat /\ c > Len(str) /\ Right(str, c, status)
    BY <1>1 DEF StatusInv, TypeOK
  <2>2. GoodBefore(str, c)
    BY <1>1, Zenon DEF Scannable, GoodBefore
  <2>3. Boundary(str, c) /\ status = Reported(str, c)
    BY <2>1, <2>2 DEF Right
  <2>4. c = Len(str) + 1
    BY <2>1, <2>3 DEF Boundary
  <2> QED
    BY <2>3, <2>4
<1> QED
  BY <1>1, StatusInvariant, PTL
=============================================================================
