------------------------------ MODULE CompareOps ------------------------------
(***************************************************************************)
(* The comparison half of compare.Run: from two FinalizeBlock responses and *)
(* what the observers gathered to the list of findings and the verdict.     *)
(*                                                                         *)
(* A response is [appHash, txResults], txResults a sequence of records      *)
(* [code, gas, events].  Transactions are numbered from 0, so the result of *)
(* transaction i is txResults[i+1].  A finding carries in item the values    *)
(* the code renders into its Oracle and Probe strings.  oObs and pObs are   *)
(* the two apps' observers.                                                *)
(***************************************************************************)
EXTENDS Integers, Sequences, SequencesExt, FiniteSetsExt, ObserverOps

Match == "MATCH"
Divergence == "DIVERGENCE"

NewFinding(height, dim, tx, probe, item) ==
  [height |-> height, dim |-> dim, tx |-> tx, probe |-> probe, item |-> item]

(***************************************************************************)
(* An event is [type, attrs], attrs a sequence of <<key, value>>; names and *)
(* values are sequences of tokens, which may themselves be delimiters.      *)
(***************************************************************************)
Join(parts, sep) ==
  FlattenSeq([i \in 1 .. Len(parts) |-> IF i = 1 THEN parts[i] ELSE sep \o parts[i]])

FormatEvent(e) ==
  e.type \o <<":[">>
         \o Join([j \in DOMAIN e.attrs |-> e.attrs[j][1] \o <<"=">> \o e.attrs[j][2]], <<",">>)
         \o <<"]">>

FormatEvents(events) ==
  IF events = <<>> THEN <<"(none)">>
  ELSE Join([i \in DOMAIN events |-> FormatEvent(events[i])], <<";">>)

\* One finding per position, in order, at which the columns os and ps differ.
TxFindings(height, dim, probe, os, ps) ==
  FlattenSeq([i \in DOMAIN os |->
    IF os[i] # ps[i] THEN <<NewFinding(height, dim, i - 1, probe, <<os[i], ps[i]>>)>> ELSE <<>>])

TxCount(o, p) == IF Len(o.txResults) < Len(p.txResults) THEN Len(o.txResults)
                                                         ELSE Len(p.txResults)

AppHashFindings(height, o, p) ==
  IF o.appHash = p.appHash THEN <<>>
  ELSE <<NewFinding(height, "app_hash", -1, 0, <<o.appHash, p.appHash>>)>>

\* A write set is the sorted list of a set of keys: EqualStrSlice is set equality.
ResponseFindings(height, o, p, oObs, pObs) ==
  LET txs == 1 .. TxCount(o, p)
      codes(r) == [i \in txs |-> r.txResults[i].code]
      gas(r) == [i \in txs |-> r.txResults[i].gas]
      events(r) == [i \in txs |-> FormatEvents(r.txResults[i].events)]
      writeSets(obs) == [i \in txs |-> TxWriteSet(obs, i - 1)]
  IN  AppHashFindings(height, o, p)
      \o TxFindings(height, "error_code", 0, codes(o), codes(p))
      \o TxFindings(height, "gas", 0, gas(o), gas(p))
      \o TxFindings(height, "events", 0, events(o), events(p))
      \o TxFindings(height, "write_set", 0, writeSets(oObs), writeSets(pObs))

\* Mutations are read for every submitted transaction, even without a result.
MutationFindings(height, n, nTxs, oObs) ==
  FlattenSeq([i \in 1 .. Max({n, nTxs}) |->
    LET ms == TxMutations(oObs, i - 1)
    IN  [k \in DOMAIN ms |-> NewFinding(height, "out_of_kvstore", i - 1, 0, ms[k])]])

BlockContextFindings(height, muts) ==
  [k \in DOMAIN muts |-> NewFinding(height, "block_context", muts[k].writerTx, 0, muts[k])]

NonDetFindings(height, calls) ==
  [k \in DOMAIN calls |-> NewFinding(height, "non_deterministic", calls[k].txIndex, 0, calls[k])]

\* The findings of compare.Run, in the order it appends them.
RunFindings(height, o, p, nTxs, oObs, pObs, ctxMuts, calls) ==
  ResponseFindings(height, o, p, oObs, pObs)
  \o MutationFindings(height, TxCount(o, p), nTxs, oObs)
  \o BlockContextFindings(height, ctxMuts)
  \o NonDetFindings(height, calls)

\* Mutants: the verdict left unset without a finding; only transaction results counted.
Verdict_Unset(findings) == IF findings # <<>> THEN Divergence ELSE ""
Verdict_TxResults(findings) ==
  IF \E n \in DOMAIN findings : findings[n].dim \in {"error_code", "gas", "events"} THEN Divergence ELSE Match

Verdict(findings) == IF findings # <<>> THEN Divergence ELSE Match
================================================================================
