----------------------------- MODULE MCUpsStatus -----------------------------
(* Values of ups.status: up to three words, with one or two blanks between. *)
EXTENDS UpsStatus

\* The words the scanner is right about.
Words == {k.word : k \in {k \in Known : k.status # "OFF"}}

\* Words no case knows, one for each default case of the switches.
Unknown == {<<"A", "L", "A", "R", "M">>, <<"C", "O", "M", "M">>, <<"O">>, <<"B", "A">>}

Blanks == {<<" ">>, <<" ", " ">>}

Pairs == {v \o b \o w : v \in Words \cup Unknown, b \in Blanks, w \in Words \cup {<<>>}}

ScannableValues == {<<>>} \cup Words \cup Pairs \cup {u \o <<" ">> \o p : u \in Unknown, p \in Pairs}

\* They are made of words the scanner is right about.
ASSUME ValuesAssumption == \A v \in Pairs : Scannable(v)

\* Words it is wrong about: OFF, an unknown word in last place, unknown words
\* that begin like a known one.
Bad == {<<"O", "F", "F">>, <<"T", "E", "S", "T">>, <<"R">>, <<"F">>, <<"D">>} \cup Unknown

AnyValues ==
    ScannableValues \cup Bad
    \cup {v \o <<" ">> \o w : v \in Words \cup Unknown, w \in Bad}
    \cup {v \o <<" ">> \o w : v \in Bad, w \in Words \cup Unknown}

\* OFF alone and among other words.
OffValues == {<<"O", "F", "F">>, <<"O", "F", "F", " ", "O", "L", " ", "C", "H", "R", "G">>}

\* A status of the drivers that the table does not have, at the end.
AlarmValues == {<<"O", "L", " ", "A", "L", "A", "R", "M">>}
=============================================================================
