---------------------------- MODULE MCUpsdPlugin ----------------------------
(* Small instances of UpsdPlugin. *)
EXTENDS UpsdPlugin, TLC

\* The row with the fallback, one the fallback reads, one that is neither.
MCCharts == {"ups.load", "ups.realpower", "battery.charge"}

Variables == MCCharts \cup {"ups.realpower.nominal", "ups.status"}

PlainNames  == {<<"a">>, <<"b">>}
DottedNames == {<<"a">>, <<"b", ".", "c">>}

\* Any GET may fail, or succeed, at any time.
Flaky(names) ==
    [n \in names |-> [v \in Variables |->
        IF v = "ups.status" THEN Results ELSE {"NULL", "value"}]]

\* Each UPS serves the same variables all the time.
Serving(serves) ==
    [n \in DOMAIN serves |-> [v \in Variables |->
        IF v \in serves[n] THEN {"value"} ELSE {"NULL"}]]

FlakyPlain  == Flaky(PlainNames)

\* A plain UPS and a dotted one whose every variable may come and go, and one without
\* load_usage that never changes and whose name is what the dotted one is cleaned to.
CollidingNames == DottedNames \cup {<<"b", "_", "c">>}
FlakyAndSteady ==
    Serving(<<"b", "_", "c">> :> {"ups.load", "battery.charge", "ups.status"})
    @@ Flaky(DottedNames)

FlakyDotted == Flaky(DottedNames)

\* A UPS for which load_usage is computed.
Fallback == Serving(<<"a">> :> {"ups.load", "ups.realpower.nominal", "ups.status"})
OneName  == {<<"a">>}
=============================================================================
