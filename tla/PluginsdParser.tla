--------------------------- MODULE PluginsdParser ---------------------------
(***************************************************************************)
(* The agent's side of the protocol: what the handlers of the keywords the *)
(* plugin prints do to the charts the agent has and to the chart in scope, *)
(* and which lines they refuse.  A refused line stops the parser and       *)
(* disables the plugin (PLUGINSD_DISABLE_PLUGIN).                          *)
(*                                                                         *)
(* A line is a keyword and the chart it is about; SET and DIMENSION name a *)
(* dimension, which belongs to one chart.  CLABEL and CLABEL_COMMIT stand  *)
(* between CHART and DIMENSION, ask for a chart in scope as DIMENSION does *)
(* and change labels only; they are left out.                              *)
(***************************************************************************)
CONSTANT NoChart

VARIABLES
    known,    \* charts rrdset_find finds
    dims,     \* those of them with their dimensions
    obsolete, \* those of them marked RRDSET_FLAG_OBSOLETE
    scope     \* parser->user.st

parserVars == <<known, dims, obsolete, scope>>

ParserInit == known = {} /\ dims = {} /\ obsolete = {} /\ scope = NoChart

\* The end of pluginsd_process: the charts of this thread are marked, and the
\* parser, with its chart in scope, is gone.
MarkObsolete ==
    /\ obsolete' = known
    /\ scope' = NoChart
    /\ UNCHANGED <<known, dims>>

\* The service thread, at any time and one chart at a time, deletes a chart that is
\* marked.  A chart in scope has just been looked for, which puts the deletion off.
\* Only dimensions that are marked themselves are deleted, which those of this
\* plugin never are, and a chart with a dimension left stays.
svc_rrdhost_cleanup_charts_marked_obsolete(chart) ==
    /\ chart \in obsolete \ dims /\ chart # scope
    /\ known' = known \ {chart} /\ obsolete' = obsolete \ {chart}
    /\ UNCHANGED <<dims, scope>>

\* rrdset_create finds the chart, and takes the mark off, or makes it.
pluginsd_chart(chart) ==
    /\ known' = known \cup {chart}
    /\ obsolete' = obsolete \ {chart}
    /\ scope' = chart
    /\ UNCHANGED dims

pluginsd_dimension(chart) ==
    /\ scope # NoChart
    /\ dims' = dims \cup {scope}
    /\ UNCHANGED <<known, obsolete, scope>>

\* Slip: the chart before is kept in scope until an END.
pluginsd_begin_KeepsScope(chart) ==
    /\ chart \in known
    /\ scope' = IF scope = NoChart THEN chart ELSE scope
    /\ UNCHANGED <<known, dims, obsolete>>

\* A chart that is marked is found too.
pluginsd_begin(chart) ==
    /\ chart \in known
    /\ scope' = chart
    /\ UNCHANGED <<known, dims, obsolete>>

\* pluginsd_acquire_dimension looks for the dimension in the chart in scope.
pluginsd_set(chart) ==
    /\ scope # NoChart
    /\ scope = chart /\ chart \in dims
    /\ UNCHANGED parserVars

\* rrdset_timed_done takes the mark off a chart that is collected.
pluginsd_end ==
    /\ scope # NoChart
    /\ obsolete' = obsolete \ {scope}
    /\ scope' = NoChart
    /\ UNCHANGED <<known, dims>>

\* Some handler accepts the line.
Accepts(line) ==
    \/ line.keyword = "CHART"
    \/ line.keyword \in {"DIMENSION", "END"} /\ scope # NoChart
    \/ line.keyword = "BEGIN" /\ line.chart \in known
    \/ line.keyword = "SET" /\ scope = line.chart /\ line.chart \in dims

\* parser_action on a line that is accepted.
parser_action(line) ==
    \/ line.keyword = "CHART" /\ pluginsd_chart(line.chart)
    \/ line.keyword = "DIMENSION" /\ pluginsd_dimension(line.chart)
    \/ line.keyword = "BEGIN" /\ pluginsd_begin(line.chart)
    \/ line.keyword = "SET" /\ pluginsd_set(line.chart)
    \/ line.keyword = "END" /\ pluginsd_end
=============================================================================
