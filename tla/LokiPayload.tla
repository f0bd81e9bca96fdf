---------------------------- MODULE LokiPayload -----------------------------
(***************************************************************************)
(* What is sent to Loki (src/loki.rs) and counted (src/report.rs) for a    *)
(* sequence of reports, each of a repository and a sequence of results.    *)
(* Loki drops an entry that has the labels, the time and the line of       *)
(* another, so the times are part of what the payload promises.            *)
(***************************************************************************)
EXTENDS Totals, FiniteSets

Results == {"pass", "fail", "skip", "error"}

(* The entries of one report, from the time `from` on.                     *)
StreamOf(report, run, from) ==
  [repo |-> report.repo, run |-> run,
   values |-> [k \in DOMAIN report.results |-> [at |-> from + k - 1, line |-> report.results[k]]]]

Reported(reports) == {n \in DOMAIN reports : reports[n].results # <<>>}

(* Mutant: time starts again with every report.                            *)
StreamsAtOnce(reports, now) ==
  [n \in Reported(reports) |-> StreamOf(reports[n], now, now)]

(* build_payload: a stream for each report that has results, a nanosecond   *)
(* for each result.                                                        *)
Streams(reports, now) ==
  LET sizes == [n \in DOMAIN reports |-> Len(reports[n].results)]
  IN  [n \in Reported(reports) |->
         StreamOf(reports[n], now, now + TotalBefore(sizes)[n])]

(* overall_counts                                                          *)
Counts(reports) ==
  [result \in Results |->
     Total([n \in DOMAIN reports |->
              Cardinality({k \in DOMAIN reports[n].results : reports[n].results[k] = result})])]

-----------------------------------------------------------------------------
(* What Loki has stored after one payload.                                 *)
Stored(streams) ==
  UNION {{[repo |-> streams[n].repo, run |-> streams[n].run,
           at |-> streams[n].values[k].at, line |-> streams[n].values[k].line] :
            k \in DOMAIN streams[n].values} : n \in DOMAIN streams}
=============================================================================
