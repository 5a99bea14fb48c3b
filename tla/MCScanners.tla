------------------------------- MODULE MCScanners -------------------------------
(***************************************************************************)
(* Source trees for the runs of Scanners: two modules under x/, a client    *)
(* directory that may be excluded, a vendored, a mock and a test file, one  *)
(* file that does not parse and one that is not part of the build.  The     *)
(* files have sites of every form, those that are overlooked included.      *)
(***************************************************************************)
EXTENDS Scanners

Call(q, path, sel, d, l) ==
  [kind |-> "call", qual |-> q, target |-> path, sel |-> sel, depth |-> d, line |-> l]
Rng(name, type, d, l) == [kind |-> "range", name |-> name, type |-> type, depth |-> d, line |-> l]
Write(base, path, holder, type, d, l) ==
  [kind |-> "write", base |-> base, path |-> path, form |-> "assign", holder |-> holder, type |-> type,
   depth |-> d, line |-> l]
Delete(base, path, holder, l) == [Write(base, path, holder, "", 0, l) EXCEPT !.form = "call"]

Imp(path, last, name) == [path |-> path, last |-> last, name |-> name]
Fn(name, recv, body) == [isFunc |-> TRUE, name |-> name, recv |-> recv, body |-> body]
PackageLevel(body) == [isFunc |-> FALSE, name |-> "", recv |-> "", body |-> body]
File(path, fns) ==
  [path |-> path, test |-> FALSE, inBuild |-> TRUE, parses |-> TRUE, vars |-> {"counter"},
   imports |-> {Imp("time", "time", ""), Imp("crypto/rand", "rand", "crand"),
                Imp("math/rand", "rand", ""), Imp("os", "os", "_")},
   decls |-> fns]

Handler(l) ==
  Fn("Handle", "k",
     <<Call("time", "time", "Now", 0, l), Call("crand", "crypto/rand", "Read", 2, l + 1),
       Call("rand", "math/rand", "Intn", 1, l + 2), Write("k", <<"count">>, "keeper", "", 0, l + 3),
       Write("counter", <<>>, "package", "", 1, l + 4)>>)

Overlooked(l) ==
  Fn("Prune", "k",
     <<Write("counter", <<"[]">>, "package", "", 0, l), Write("other", <<>>, "package", "", 0, l + 1),
       Write("k", <<"stats", "total">>, "keeper", "", 0, l + 2), Delete("k", <<"votes">>, "keeper", l + 3),
       Write("self", <<"count">>, "keeper", "", 0, l + 4), Write("k", <<>>, "keeper", "", 0, l + 5),
       Call("", "time", "Now", 0, l + 6)>>)

BankKeeper ==
  File(<<"x", "bank", "keeper.go">>,
       <<PackageLevel(<<Call("time", "time", "Now", 0, 3), Call("rand", "math/rand", "Int", 1, 4),
                        Write("counter", <<>>, "package", "", 1, 5)>>),
         Fn("NewKeeper", "k", <<Write("k", <<"cache">>, "keeper", "", 0, 1)>>), Handler(10),
         Fn("EndBlocker", "k", <<Call("time", "time", "Now", 0, 20), Rng("cache", "map", 0, 21)>>),
         Fn("Balances", "k", <<Rng("balances", "map", 1, 30), Rng("indexMap", "slice", 0, 31),
                               Rng("cache", "unknown", 0, 32), Write("k", <<"storeKey">>, "keeper", "", 0, 33),
                               Write("k", <<"balances">>, "", "cosmossdk.io/collections", 0, 34),
                               Write("local", <<>>, "", "", 0, 35), Write("counter", <<>>, "", "", 0, 36)>>),
         Overlooked(40)>>)

GovKeeper ==
  File(<<"x", "gov", "keeper.go">>,
       <<Fn("Tally", "k", <<Rng("votes", "map", 0, 1), Write("k", <<"tally">>, "", "cosmossdk.io/store", 0, 2),
                            Write("k", <<"votes", "[]">>, "keeper", "", 1, 5)>>),
         Fn("helper", "", <<Write("counter", <<>>, "package", "", 0, 3), Write("k", <<"x">>, "keeper", "", 0, 4)>>)>>)

Client == File(<<"client", "cli", "tx.go">>, <<Handler(1)>>)
BankTest == [File(<<"x", "bank", "keeper_test.go">>, <<Handler(1)>>)
               EXCEPT !.test = TRUE, !.inBuild = FALSE]
Mock == File(<<"x", "mock", "keeper.go">>, <<Handler(1)>>)
Vendored == [File(<<"vendor", "lib", "lib.go">>, <<Handler(1)>>) EXCEPT !.inBuild = FALSE]
Broken == [File(<<"x", "gov", "types.go">>, <<Handler(1)>>) EXCEPT !.parses = FALSE]
Tagged == [File(<<"x", "gov", "windows.go">>, <<Handler(1)>>) EXCEPT !.inBuild = FALSE]

Tree(fs) == [above |-> {"home", "src"}, root |-> "sdk", files |-> fs]

SomeTrees ==
  {Tree(<<Client, BankKeeper, BankTest, GovKeeper>>),
   Tree(<<Vendored, BankKeeper, GovKeeper, Broken, Tagged, Mock>>),
   Tree(<<GovKeeper>>),
   Tree(<<Vendored, Tagged>>),
   [Tree(<<BankKeeper>>) EXCEPT !.above = {"home", "mock"}]}

SomeExcludes == {{}, {<<"client", "cli">>}, {<<"x", "bank">>, <<"x", "gov", "types.go">>}}
================================================================================
