--------------------------- MODULE MCFixtureExecutor ---------------------------
(***************************************************************************)
(* Blocks for the runs of FixtureExecutor.                                  *)
(***************************************************************************)
EXTENDS FixtureExecutor

Tx(m, s, a) == [msg |-> m, signer |-> s, arg |-> a]
Blk(txs) == [txs |-> txs, endBlock |-> FALSE]

TwoSigners == {1, 2}

\* Contention on one key, an account used twice, the canary pair, block context, calls
\* of the clock, an empty block, an EndBlocker with keeper state.
MixedBlocks ==
  {Blk(<<Tx("take", 1, 0), Tx("take", 2, 0)>>),
   Blk(<<Tx("take", 1, 0), Tx("take", 1, 0)>>),
   Blk(<<Tx("map-set", 1, 7), Tx("map-read-write", 2, 0)>>),
   Blk(<<Tx("ctx-read", 1, 0), Tx("ctx-write", 2, 9), Tx("ctx-read", 1, 0), Tx("ctx-write", 2, 8)>>),
   [txs |-> <<Tx("take", 2, 0)>>, endBlock |-> TRUE],
   Blk(<<Tx("clock", 1, 0), Tx("take", 2, 0), Tx("clock", 1, 0)>>),
   Blk(<<>>)}

\* Three transactions of two accounts on one key, and a race on the keeper's field.
LongBlocks ==
  {Blk(<<Tx("take", 1, 0), Tx("take", 2, 0), Tx("take", 1, 0)>>),
   Blk(<<Tx("map-read-write", 1, 0), Tx("map-set", 2, 7), Tx("map-read-write", 1, 0)>>)}

InlineBlocks == MixedBlocks \cup LongBlocks

\* Blocks that fail to build, before and after the failing transaction took its sequence, and
\* blocks that reach outside the store before they fail.
FaultyBlocks ==
  {Blk(<<Tx("take", 1, 0), Tx("take", 2, 0)>>),
   Blk(<<Tx("take", 1, 0), Tx("bad-msg", 2, 0)>>),
   Blk(<<Tx("bad-sign", 1, 0)>>),
   Blk(<<Tx("map-set", 1, 7)>>),
   Blk(<<Tx("clock", 2, 0)>>)}
================================================================================
