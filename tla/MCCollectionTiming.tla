------------------------- MODULE MCCollectionTiming -------------------------
(* A scaled instance of CollectionTiming: numbers of five bits, a limit of   *)
(* 12 seconds, a timeout of 6 seconds, half seconds as units.                *)
EXTENDS CollectionTiming

Digits == 0..9

\* No argument, numbers of up to three digits (which wrap up to six times), one
\* with something after it and one with something before it.
MCArguments ==
    {<<>>, <<7, NotDigit>>, <<NotDigit, 7>>}
    \cup {<<d>> : d \in Digits}
    \cup {<<d, e>> : d \in Digits, e \in Digits}
    \cup {<<1, d, e>> : d \in Digits, e \in Digits}
=============================================================================
