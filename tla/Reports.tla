-------------------------------- MODULE Reports --------------------------------
(***************************************************************************)
(* The three report formats, by what each shows of a block's outcome and of *)
(* the summary; wording and layout are left out.                            *)
(*                                                                         *)
(* An outcome o has canary, verdict, hotKeys (one entry per hot key) and    *)
(* ratio (0 when the probe supplied no statistics).  A summary s has the    *)
(* counters of report.Summary and the sets covered and uncovered.           *)
(***************************************************************************)
EXTENDS Integers, Sequences, SequencesExt

Match == "MATCH"
Divergence == "DIVERGENCE"

\* CLIReporter.Block: the verdict it prints.
CLILine(o) == IF o.canary /\ o.verdict = Match THEN "CANARY MISSED"
              ELSE IF o.verdict = Match THEN "ok" ELSE "DIVERGENCE"

\* CLIReporter.writePerf: the lines below it.
CLIPerf(o) == (IF o.ratio > 0 THEN <<"exec-ratio">> ELSE <<>>)
              \o [n \in DOMAIN o.hotKeys |-> "hot key"]

\* CLIReporter.Footer: is the Perf line printed, and the marked lines of writeCoverage.
CLIShowsPerf(s) == s.hotKeyBlocks > 0 \/ s.maxExecRatio > 0
CLICoverage(s) == {<<" ", k>> : k \in s.covered} \cup {<<"!", k>> : k \in s.uncovered}

\* JSONReporter.Block; omitempty leaves out what is empty or 0, which a reader sees as such.
JSONBlock(o) == [index |-> o.index, is_canary |-> o.canary, verdict |-> o.verdict,
                 hot_keys |-> o.hotKeys, execution_ratio |-> o.ratio]

\* JSONReporter.Footer: the summary.
JSONSummary(s) == [total_blocks |-> s.total, ok |-> s.ok, divergences |-> s.divergences,
                   canary_expected |-> s.canaryExpected, canary_missed |-> s.canaryMissed,
                   hot_key_blocks |-> s.hotKeyBlocks, max_execution_ratio |-> s.maxExecRatio]

\* MarkdownReporter.Footer: the sections an outcome is listed in, and the summary's row.
MarkdownSections(o) ==
  (IF o.canary /\ o.verdict = Match THEN {"Missed Canaries"}
   ELSE IF o.verdict = Divergence THEN {"Divergences"} ELSE {})
  \cup (IF o.hotKeys # <<>> THEN {"Hot Conflict Keys"} ELSE {})
MarkdownShowsRatio(s) == s.maxExecRatio > 0
================================================================================
