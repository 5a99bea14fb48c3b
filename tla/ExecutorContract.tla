---------------------------- MODULE ExecutorContract ----------------------------
(***************************************************************************)
(* What run.Executor promises to RunHarness, abstracting from how a block   *)
(* is run: Init opens a store at the height of some committed state; every  *)
(* RunBlock call names a height and returns a verdict or an error.  The     *)
(* apps accept only the height after the one they committed last, so the    *)
(* verdicts of a store have consecutive heights, and when its calls do too, *)
(* no call returns a verdict after one that failed.                         *)
(* The process may die in any phase, and with it the store.                 *)
(***************************************************************************)
EXTENDS Integers, Sequences

VARIABLES
  phase,    \* "closed", "open", "running" (inside a RunBlock call)
  heights,  \* the height of the state the store was opened with, then those of the calls
  outcomes  \* what the RunBlock calls on the open store returned

cvars == <<phase, heights, outcomes>>

Failed == \E n \in DOMAIN outcomes : outcomes[n] = "error"

\* The heights both apps have a state of.
Reached ==
  {heights[1]} \cup {heights[n + 1] : n \in {m \in DOMAIN outcomes : outcomes[m] # "error"}}

\* The apps may accept the call that is running.
Accepts == LET h == heights[Len(heights)] IN h - 1 \in Reached /\ h \notin Reached

CInit == phase = "closed" /\ heights = <<>> /\ outcomes = <<>>

Open == phase = "closed" /\ phase' = "open" /\ heights' = <<heights'[1]>> /\ outcomes' = <<>>

Shut == phase = "open" /\ phase' = "closed" /\ heights' = <<>> /\ UNCHANGED outcomes

\* Any height may be asked for.
Ask == Len(heights') > Len(heights) /\ heights' = Append(heights, heights'[Len(heights) + 1])

Call == phase = "open" /\ phase' = "running" /\ Ask /\ UNCHANGED outcomes

ReturnVerdict(v) ==
  /\ phase = "running" /\ Accepts
  /\ phase' = "open"
  /\ outcomes' = Append(outcomes, v)
  /\ UNCHANGED heights

ReturnError ==
  /\ phase = "running"
  /\ phase' = "open"
  /\ outcomes' = Append(outcomes, "error")
  /\ UNCHANGED heights

\* A block that cannot be built fails before either app runs.
BuildError ==
  /\ phase = "open" /\ Ask
  /\ outcomes' = Append(outcomes, "error")
  /\ UNCHANGED phase

Die == phase \in {"open", "running"} /\ phase' = "closed" /\ heights' = <<>> /\ UNCHANGED outcomes

CNext ==
  \/ Open \/ Shut \/ Die \/ Call \/ ReturnError \/ BuildError
  \/ \E v \in {"MATCH", "DIVERGENCE"} : ReturnVerdict(v)

CSpec == CInit /\ [][CNext]_cvars
================================================================================
