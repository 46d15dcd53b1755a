------------------------------ MODULE UpsStatus ------------------------------
(***************************************************************************)
(* send_metric_ups_status: the character scanner that turns the value of   *)
(* ups.status into the set of statuses sent to the agent.                  *)
(*                                                                         *)
(* A value is a sequence of characters.  c is the scanner's pointer as a   *)
(* 1-based index: Len(str) + 1 is the terminating NUL, and 0 the address   *)
(* the loop is left with when strchr returns NULL.  An action is one       *)
(* iteration of the loop.  The scanner identifies a status by its first    *)
(* one or two characters and then skips a fixed number of them.            *)
(***************************************************************************)
EXTENDS Naturals, Sequences, FiniteSets

CONSTANT Strings   \* the values ups.status may have

ASSUME StringsAssumption == Strings \subseteq Seq(STRING)

VARIABLES
    pc,      \* "get", "scan", "send", "crash" or "undefined"
    str,     \* what nut_get_var returned
    c,       \* the pointer
    status   \* the bits of struct nut_ups_status that are set

vars == <<pc, str, c, status>>

-----------------------------------------------------------------------------
\* The statuses as they are written in ups.status: the fields of
\* struct nut_ups_status but OTHER, which stands for any other word.
Known ==
    {[status |-> "OL",      word |-> <<"O", "L">>],
     [status |-> "OB",      word |-> <<"O", "B">>],
     [status |-> "LB",      word |-> <<"L", "B">>],
     [status |-> "HB",      word |-> <<"H", "B">>],
     [status |-> "RB",      word |-> <<"R", "B">>],
     [status |-> "CHRG",    word |-> <<"C", "H", "R", "G">>],
     [status |-> "DISCHRG", word |-> <<"D", "I", "S", "C", "H", "R", "G">>],
     [status |-> "BYPASS",  word |-> <<"B", "Y", "P", "A", "S", "S">>],
     [status |-> "CAL",     word |-> <<"C", "A", "L">>],
     [status |-> "OFF",     word |-> <<"O", "F", "F">>],
     [status |-> "OVER",    word |-> <<"O", "V", "E", "R">>],
     [status |-> "TRIM",    word |-> <<"T", "R", "I", "M">>],
     [status |-> "BOOST",   word |-> <<"B", "O", "O", "S", "T">>],
     [status |-> "FSD",     word |-> <<"F", "S", "D">>]}

\* The outer switch: the character, the status it stands for and how far the
\* pointer is moved (the loop's own c++ not included).
OneCharacter ==
    {[char |-> "L", status |-> "LB",      skip |-> 1],
     [char |-> "H", status |-> "HB",      skip |-> 1],
     [char |-> "R", status |-> "RB",      skip |-> 1],
     [char |-> "D", status |-> "DISCHRG", skip |-> 6],
     [char |-> "T", status |-> "TRIM",    skip |-> 3],
     [char |-> "F", status |-> "FSD",     skip |-> 2]}

\* The inner switches, after *++c; skip is counted from the second character.
TwoCharacters ==
    {[char |-> "B", next |-> "O", status |-> "BOOST",  skip |-> 3],
     [char |-> "B", next |-> "Y", status |-> "BYPASS", skip |-> 4],
     [char |-> "C", next |-> "H", status |-> "CHRG",   skip |-> 2],
     [char |-> "C", next |-> "A", status |-> "CAL",    skip |-> 1],
     [char |-> "O", next |-> "B", status |-> "OB",     skip |-> 0],
     [char |-> "O", next |-> "F", status |-> "OFF",    skip |-> 0],
     [char |-> "O", next |-> "L", status |-> "OL",     skip |-> 0],
     [char |-> "O", next |-> "V", status |-> "OVER",   skip |-> 2]}

\* The character strchr looks for and the outer switch skips.
Blank == " "

\* *p
At(p) == IF p > Len(str) THEN "NUL" ELSE str[p]

Spaces(p) == {q \in p..Len(str) : str[q] = Blank}

\* Slips: the pointer is left on the last character of the word, or moved past
\* the character that follows it.
Recognise_Short(case, p) ==
    status' = status \cup {case.status} /\ c' = p + case.skip /\ UNCHANGED <<pc, str>>

Recognise_Long(case, p) ==
    status' = status \cup {case.status} /\ c' = p + case.skip + 2 /\ UNCHANGED <<pc, str>>

\* A case that recognises a status: set its bit, move on.
Recognise(case, p) ==
    /\ status' = status \cup {case.status}
    /\ c' = p + case.skip + 1
    /\ UNCHANGED <<pc, str>>

\* A default case: set OTHER and continue after strchr(p, ' ').  If there is no
\* space strchr returns NULL, which c++ makes the address 1: no part of the value,
\* and not the NULL the loop's condition stops at.
Other(p) ==
    /\ status' = status \cup {"OTHER"}
    /\ \/ /\ Spaces(p) # {}
          /\ c' = 1 + CHOOSE q \in Spaces(p) : \A r \in Spaces(p) : q =< r
       \/ Spaces(p) = {} /\ c' = 0
    /\ UNCHANGED <<pc, str>>

-----------------------------------------------------------------------------
Init == pc = "get" /\ str = <<>> /\ c = 1 /\ status = {}

\* nut_get_var(&ups2, ups_name, "ups.status") at the start of each call, which
\* clears every bit.  A NULL is sent as no status at all.
Get ==
    /\ pc = "get"
    /\ status' = {}
    /\ c' = 1
    /\ \/ str' \in Strings /\ pc' = "scan"
       \/ str' = <<>> /\ pc' = "send"

Scanning == pc = "scan" /\ c \in 1..Len(str)

\* Slip: the pointer is not moved past a space.
Space_Stays == Scanning /\ At(c) = Blank /\ c' = c /\ UNCHANGED <<pc, str, status>>

Space == Scanning /\ At(c) = Blank /\ c' = c + 1 /\ UNCHANGED <<pc, str, status>>

ScanOne == Scanning /\ \E case \in OneCharacter : At(c) = case.char /\ Recognise(case, c)

ScanTwo ==
    /\ Scanning
    /\ \E case \in TwoCharacters :
         At(c) = case.char /\ At(c + 1) = case.next /\ Recognise(case, c + 1)

\* The default case of an inner switch.
OtherTwo ==
    /\ Scanning
    /\ At(c) \in {"B", "C", "O"}
    /\ \A case \in TwoCharacters : ~(At(c) = case.char /\ At(c + 1) = case.next)
    /\ Other(c + 1)

\* The default case of the outer switch.
OtherOne ==
    /\ Scanning
    /\ At(c) \notin {Blank, "B", "C", "O"} \cup {case.char : case \in OneCharacter}
    /\ Other(c)

\* The loop ends at the NUL.
ScanEnd == pc = "scan" /\ c = Len(str) + 1 /\ pc' = "send" /\ UNCHANGED <<str, c, status>>

\* The pointer is past the NUL.  The byte there may happen to be 0; if it is
\* not, nothing is known of what follows.
Overrun ==
    /\ pc = "scan"
    /\ c > Len(str) + 1
    /\ pc' \in {"send", "undefined"}
    /\ UNCHANGED <<str, c, status>>

\* The loop's condition dereferences the address 1.
Fault == pc = "scan" /\ c = 0 /\ pc' = "crash" /\ UNCHANGED <<str, c, status>>

\* BEGIN, the fifteen SETs and END; the locals are gone when the call returns.
Send == pc = "send" /\ pc' = "get" /\ str' = <<>> /\ c' = 1 /\ status' = {}

Next ==
    \/ Get \/ Space \/ ScanOne \/ ScanTwo \/ OtherTwo \/ OtherOne
    \/ ScanEnd \/ Overrun \/ Fault \/ Send

Spec == Init /\ [][Next]_vars

FairSpec == Spec /\ WF_vars(Next)

-----------------------------------------------------------------------------
\* A word begins at i; the word w stands at i.
WordStart(s, i) == s[i] # Blank /\ (i = 1 \/ s[i - 1] = Blank)

WordAt(s, i, w) ==
    /\ i = 1 \/ s[i - 1] = Blank
    /\ i + Len(w) =< Len(s) + 1
    /\ \A j \in 1..Len(w) : s[i + j - 1] = w[j]
    /\ i + Len(w) = Len(s) + 1 \/ s[i + Len(w)] = Blank

\* The words of s before position p, as statuses: what the comment at the head of
\* the function promises to print 1 for.
Reported(s, p) ==
    {k.status : k \in {k \in Known : \E i \in 1..Len(s) : i < p /\ WordAt(s, i, k.word)}}
    \cup {"OTHER" : i \in {i \in 1..Len(s) : /\ i < p
                                            /\ WordStart(s, i)
                                            /\ \A k \in Known : ~WordAt(s, i, k.word)}}

\* A word the default cases take for OTHER, and which is not the last one.
UnknownAt(s, i) ==
    /\ s[i] \notin {case.char : case \in OneCharacter}
    /\ \A case \in TwoCharacters : ~(s[i] = case.char /\ i < Len(s) /\ s[i + 1] = case.next)
    /\ \E q \in i + 1..Len(s) : s[q] = Blank

\* A word the scanner is right about, and the values made of such words.
GoodWord(s, i) ==
    \/ \E k \in Known : k.status # "OFF" /\ WordAt(s, i, k.word)
    \/ UnknownAt(s, i)

Scannable(s) == \A i \in 1..Len(s) : WordStart(s, i) => GoodWord(s, i)

\* Types of the variables.  No case moves the pointer more than six bytes past the
\* NUL, whatever the value is, and only the bits of struct nut_ups_status are set.
TypeOK ==
    /\ pc \in {"get", "scan", "send", "crash", "undefined"}
    /\ str \in Seq(STRING)
    /\ c \in 0..Len(str) + 7
    /\ status \subseteq {k.status : k \in Known} \cup {"OTHER"}

\* What is sent is what ups.status says: 1 for each status whose word occurs, 0
\* for the others, OTHER for the words that are no known status.
ReportsEveryStatus == pc = "send" => status = Reported(str, Len(str) + 1)

\* Whatever the value is, the scanner is right up to the first word that is OFF,
\* or is unknown and either the last one or spelt like the beginning of a known one.
RightUpToBadWord ==
    /\ pc \in {"scan", "send"} /\ c # 0
    /\ \A i \in 1..Len(str) : i < c /\ WordStart(str, i) => GoodWord(str, i)
    => status = Reported(str, c)

\* Only such a word makes it leave the string: run past the NUL or follow a NULL.
OnlyBadWordsOverrun ==
    pc \in {"crash", "undefined"} \/ c \notin 1..Len(str) + 1 => ~Scannable(str)

\* Every call comes to its SETs.
EveryCallSends == pc = "scan" ~> pc = "send"

\* Every call whose value is made of words the scanner is right about does: the
\* pointer is moved in each iteration and meets the NUL.
ScannableSends == (pc = "scan" /\ Scannable(str)) ~> pc = "send"
=============================================================================
