----------------------------- MODULE MCUpsdAgent ----------------------------
(* Small instances of UpsdAgent, with its history variable. *)
EXTENDS UpsdAgentCycles, TLC

OneName  == {<<"a">>}
MCCharts == {"ups.realpower", "battery.charge"}
MCNoChart == <<>>

Variables == MCCharts \cup {"ups.load", "ups.realpower.nominal", "ups.status"}

\* Any GET may fail, or succeed, at any time; load_usage cannot be computed.
Flaky ==
    [n \in OneName |-> [v \in Variables |->
        CASE v = "ups.status" -> Results
          [] v = "ups.load" -> {"NULL"}
          [] OTHER -> {"NULL", "value"}]]
=============================================================================
