------------------------------- MODULE Scanners -------------------------------
(***************************************************************************)
(* The static analyses: `detect` (calls of non-deterministic functions and  *)
(* ranges over maps) and `lint` (writes of keeper fields and package        *)
(* variables).  Both load the source tree with go/packages and use its type *)
(* information; packages that do not load are analysed by syntax alone, and *)
(* if the load itself fails the whole tree is walked instead.               *)
(*                                                                         *)
(* A tree is [above, root, files]: the directory names of the absolute path *)
(* above the scan root, the root's own name, and its Go files in lexical    *)
(* order.  A file is a record of its path, of what go/packages makes of it  *)
(* (inBuild, parses) and of its syntax: imports, package variables and      *)
(* declarations with the sites in them.  A declaration is a function (of    *)
(* name and receiver) or, with isFunc FALSE, package-level code:            *)
(* initialisers and the function literals in them.  A site is               *)
(*   - a call qual.sel(), where qual is "" if no identifier is before the   *)
(*     name, and target is the package the call really goes to;             *)
(*   - a range over something of a name and a type;                         *)
(*   - a write of base followed by path, a sequence of field names and "[]" *)
(*     for an index, where form is "assign" for an assignment, ++ or -- and *)
(*     "call" for a builtin or a method, and holder says what it really     *)
(*     changes: the state of a "keeper", of a "package", or "" for neither. *)
(* depth counts the function literals around a site.                        *)
(***************************************************************************)
EXTENDS Integers, Sequences, FiniteSets, SequencesExt

CONSTANTS
  Trees,     \* source trees
  Excludes,  \* values of --exclude-path: sets of path prefixes
  MaxDepth   \* bound: nesting of function literals in the trees

Tools == {"detect", "lint"}

VARIABLES
  pc,        \* "idle", "load", "walk" (AST only), "packages" (typed), "exit"
  tool, tree, excludes,
  filter,    \* --category, --kind: "" for all
  failOn,    \* lint's --fail-on-findings
  load,      \* what go/packages says of each package: "ok", "errors" or "nosyntax"
  skip,      \* the excludePaths in force
  todo,      \* numbers of the files left to visit
  files,     \* result.Files
  findings,  \* result.Findings
  exit       \* of the command: 0, 1; -1 before

args == <<tool, tree, excludes, filter, failOn>>
vars == <<pc, args, load, skip, todo, files, findings, exit>>

-------------------------------------------------------------------------------
(* Syntax: representatives of the names the code lists.                      *)

DefaultRules ==
  {[path |-> "time",        funcs |-> {"Now", "Since"},      cat |-> "time"],
   [path |-> "crypto/rand", funcs |-> {"Read", "Int"},       cat |-> "rand"],
   [path |-> "math/rand",   funcs |-> {"Intn", "Int"},       cat |-> "rand"],
   [path |-> "os",          funcs |-> {"Getenv", "Open"},    cat |-> "io"],
   [path |-> "net",         funcs |-> {"Dial"},              cat |-> "io"],
   [path |-> "net/http",    funcs |-> {"Get"},               cat |-> "io"],
   [path |-> "reflect",     funcs |-> {"ValueOf"},           cat |-> "pointer"],
   [path |-> "runtime",     funcs |-> {"Noescape"},          cat |-> "pointer"]}

Lookup(path, func) == {r.cat : r \in {q \in DefaultRules : q.path = path /\ func \in q.funcs}}

abciHookFunctions == {"BeginBlocker", "EndBlocker", "PreBlocker", "PreBlock", "EndBlock", "BeginBlock"}

isConstructor(name) ==
  name \in {"NewKeeper", "InitGenesis", "SetupRouter", "UnmarshalJSON", "MarshalJSON", "Reset",
            "ProtoMessage", "init"}

isSafeField(name) == name \in {"storeKey", "cdc", "bankKeeper", "router", "config", "authority", "logger"}

isKVStoreBacked(pkg) == pkg \in {"cosmossdk.io/collections", "cosmossdk.io/store"}

mapLikeName(name) == name \in {"cache", "indexMap", "registry", "kvstore"}

\* The import path an identifier stands for in a file.
buildAliasMap(f, ident) ==
  {i.path : i \in {j \in f.imports : /\ j.name \notin {"_", "."}
                                     /\ ident = IF j.name = "" THEN j.last ELSE j.name}}

ModuleFromPath(path) == IF Len(path) >= 2 /\ path[1] = "x" THEN path[2] ELSE path[1]

-------------------------------------------------------------------------------
(* The trees.                                                                *)

IsSequence(s) == Len(s) \in Nat /\ s = [k \in 1 .. Len(s) |-> s[k]]

\* A call of a listed function names its package by the identifier the file imports it under, or
\* by none: the names of the listed packages are the last parts of their paths.
Resolves(f, s) ==
  s.kind = "call" /\ s.qual # "" /\ Lookup(s.target, s.sel) # {} => buildAliasMap(f, s.qual) = {s.target}

\* A report names a line, so sites can be told apart only if no two of a file share one.
WellFormedFile(f) ==
  /\ IsSequence(f.decls)
  /\ \A k \in DOMAIN f.decls :
       /\ IsSequence(f.decls[k].body)
       /\ \A j \in DOMAIN f.decls[k].body :
            LET s == f.decls[k].body[j]
            IN  /\ s.depth \in 0 .. MaxDepth /\ Resolves(f, s) /\ (s.kind = "write" => IsSequence(s.path))
                /\ \A k2 \in DOMAIN f.decls : \A j2 \in DOMAIN f.decls[k2].body :
                     f.decls[k2].body[j2].line = s.line => k2 = k /\ j2 = j

ASSUME ScannersAssumption ==
  /\ MaxDepth \in Nat
  /\ \A t \in Trees : IsSequence(t.files) /\ \A n \in DOMAIN t.files : WellFormedFile(t.files[n])

-------------------------------------------------------------------------------
(* One site.  typed: the package's type information is used.                 *)

isMapRange(s, typed) == IF typed /\ s.type # "unknown" THEN s.type = "map" ELSE mapLikeName(s.name)

DetectSite(f, s, typed) ==
  CASE s.kind = "call" /\ s.qual # "" -> UNION {Lookup(path, s.sel) : path \in buildAliasMap(f, s.qual)}
    [] s.kind = "range" /\ isMapRange(s, typed) -> {"map_iter"}
    [] OTHER -> {}

\* Mutant: an index is not looked through.
receiverField_NoIndex(fn, s) == fn.recv # "" /\ s.base = fn.recv /\ s.path # <<>> /\ Tail(s.path) = <<>>

\* r.field or r.field[...], where r is the method's receiver.
receiverField(fn, s) ==
  /\ fn.recv # "" /\ s.base = fn.recv
  /\ s.path # <<>> /\ s.path[1] # "[]" /\ ToSet(Tail(s.path)) \subseteq {"[]"}

isTypeSafeField(s, typed) == typed /\ isKVStoreBacked(s.type)

\* collectPkgVars sees the variables of the file itself.
pkgVarTarget(f, s) == s.path = <<>> /\ s.base \in f.vars

LintSite(f, fn, s, typed) ==
  {k \in {"keeper_field", "pkg_var"} :
     /\ s.kind = "write" /\ s.form = "assign" /\ ~isConstructor(fn.name)
     /\ IF k = "keeper_field"
          THEN receiverField(fn, s) /\ ~isTypeSafeField(s, typed) /\ ~isSafeField(s.path[1])
          ELSE pkgVarTarget(f, s)}

-------------------------------------------------------------------------------
(* One file.                                                                 *)

\* Mutant: Inspect goes on into the function literals that were scanned by the recursion.
Visits_Again(s, d) == s.depth >= d

\* The call of scanBody for the literals at depth d reports their own sites only.
Visits(s, d) == s.depth = d

Found(n, fn, s, d, cats) ==
  [k \in 1 .. Cardinality(cats) |->
     [cat |-> SetToSeq(cats)[k], file |-> n, line |-> s.line, func |-> <<fn.name, d>>,
      module |-> ModuleFromPath(tree.files[n].path)]]

scanBody(n, fn, typed, d) ==
  FlattenSeq([j \in DOMAIN fn.body |->
    IF Visits(fn.body[j], d) THEN Found(n, fn, fn.body[j], d, DetectSite(tree.files[n], fn.body[j], typed))
                             ELSE <<>>])

detectFunc(n, fn, typed) ==
  IF ~fn.isFunc \/ fn.name \in abciHookFunctions THEN <<>>
  ELSE FlattenSeq([d \in 1 .. MaxDepth + 1 |-> scanBody(n, fn, typed, d - 1)])

detectFile(n, typed) ==
  FlattenSeq([k \in DOMAIN tree.files[n].decls |-> detectFunc(n, tree.files[n].decls[k], typed)])

lintFunc(n, fn, typed) ==
  IF ~fn.isFunc THEN <<>>
  ELSE FlattenSeq([j \in DOMAIN fn.body |->
         Found(n, fn, fn.body[j], 0, LintSite(tree.files[n], fn, fn.body[j], typed))])

lintFile(n, typed) ==
  FlattenSeq([k \in DOMAIN tree.files[n].decls |-> lintFunc(n, tree.files[n].decls[k], typed)])

ScanFile(n, typed) == IF tool = "detect" THEN detectFile(n, typed) ELSE lintFile(n, typed)

-------------------------------------------------------------------------------
(* Which files are looked at.                                                *)

shouldSkipRelPath(n) == \E prefix \in skip : IsPrefix(prefix, tree.files[n].path)

\* WalkDir's skipped directories; the root is one of the directories it is called for.
WalkSkips(n) ==
  \/ tree.files[n].test
  \/ ({tree.root} \cup ToSet(Front(tree.files[n].path)))
       \cap ({"vendor", "testutil"} \cup IF tool = "lint" THEN {"mock"} ELSE {}) # {}

\* shouldSkipFile, shouldSkipLintFile: the directories of the absolute path.
shouldSkipFile(n) ==
  \/ tree.files[n].test
  \/ (tree.above \cup {tree.root} \cup ToSet(Front(tree.files[n].path)))
       \cap {"vendor", "testutil", "mock"} # {}

PkgOf(n) == Front(tree.files[n].path)
Packages == {PkgOf(n) : n \in {m \in DOMAIN tree.files : tree.files[m].inBuild}}

-------------------------------------------------------------------------------
NoTree == [above |-> {}, root |-> "", files |-> <<>>]

Init ==
  /\ pc = "idle" /\ tool = "detect" /\ tree = NoTree /\ excludes = {} /\ filter = "" /\ failOn = FALSE
  /\ load = <<>> /\ skip = {} /\ todo = <<>> /\ files = 0 /\ findings = <<>> /\ exit = -1

Filters(t) == {""} \cup IF t = "detect" THEN {"time", "rand", "io"} ELSE {"keeper_field", "pkg_var"}

Command(t, tr, ex, fl, fo) ==
  /\ pc = "idle"
  /\ tool' = t /\ tree' = tr /\ excludes' = ex /\ filter' = fl /\ failOn' = fo
  /\ pc' = "load"
  /\ UNCHANGED <<load, skip, todo, files, findings, exit>>

\* The AST-only ScanDir is called with the excluded paths by lint, without them by detect.
FallbackExcludes == IF tool = "lint" THEN excludes ELSE {}

\* packages.Load fails, or finds no package.
LoadFails ==
  /\ pc = "load"
  /\ skip' = FallbackExcludes
  /\ todo' = [n \in DOMAIN tree.files |-> n]
  /\ pc' = "walk"
  /\ UNCHANGED <<args, load, files, findings, exit>>

\* packages.Load returns the packages of the build; a file that does not parse is an error.
LoadReturns(l) ==
  /\ pc = "load" /\ Packages # {}
  /\ \A n \in DOMAIN tree.files : tree.files[n].inBuild /\ ~tree.files[n].parses => l[PkgOf(n)] # "ok"
  /\ load' = l
  /\ skip' = excludes
  /\ todo' = FlattenSeq([n \in DOMAIN tree.files |-> IF tree.files[n].inBuild THEN <<n>> ELSE <<>>])
  /\ pc' = "packages"
  /\ UNCHANGED <<args, files, findings, exit>>

\* The next file, scanned if visited and with types if typed.
Visit(visited, typed) ==
  /\ todo # <<>>
  /\ todo' = Tail(todo)
  /\ files' = IF visited THEN files + 1 ELSE files
  /\ findings' = IF visited THEN findings \o ScanFile(Head(todo), typed) ELSE findings
  /\ UNCHANGED <<pc, args, load, skip, exit>>

WalkFile ==
  /\ pc = "walk"
  /\ LET n == Head(todo)
     IN  Visit(~WalkSkips(n) /\ ~shouldSkipRelPath(n) /\ tree.files[n].parses, FALSE)

\* WalkDir meets a directory it cannot read: the command fails without a report.
WalkFails ==
  /\ pc = "walk" /\ todo # <<>>
  /\ pc' = "exit" /\ exit' = 1
  /\ UNCHANGED <<args, load, skip, todo, files, findings>>

\* Mutant: an error in one package turns the types off for all.
UsesTypes_All(n) == \A p \in Packages : load[p] = "ok"

\* The type information of a package with errors is not used.
UsesTypes(n) == load[PkgOf(n)] = "ok"

\* Without syntax trees the files are parsed again, and those that do not parse left out.
HasSyntax(n) == load[PkgOf(n)] # "nosyntax" \/ tree.files[n].parses

PackageFile ==
  /\ pc = "packages"
  /\ LET n == Head(todo)
     IN  Visit(~shouldSkipFile(n) /\ ~shouldSkipRelPath(n) /\ HasSyntax(n), UsesTypes(n))

Kept(x) == filter = "" \/ x.cat = filter

FilterFindings == FlattenSeq([k \in DOMAIN findings |-> IF Kept(findings[k]) THEN <<findings[k]>> ELSE <<>>])

\* By file and line; sort.Slice may order the findings of one line in any way, here they keep theirs.
SortFindings(fs) ==
  LET before(x, y) == x.file < y.file \/ (x.file = y.file /\ x.line < y.line)
      rank(k) == Cardinality({j \in DOMAIN fs : before(fs[j], fs[k]) \/ (j <= k /\ ~before(fs[k], fs[j]))})
  IN  [p \in DOMAIN fs |-> fs[CHOOSE k \in DOMAIN fs : rank(k) = p]]

\* The rest of the command: filter, sort, print, exit.
Report ==
  /\ pc \in {"walk", "packages"} /\ todo = <<>>
  /\ LET shown == SortFindings(FilterFindings)
     IN  /\ findings' = shown
         /\ exit' = IF (tool = "detect" \/ failOn) /\ shown # <<>> THEN 1 ELSE 0
  /\ pc' = "exit"
  /\ UNCHANGED <<args, load, skip, todo, files>>

Done == pc = "exit" /\ UNCHANGED vars

Next ==
  \/ \E t \in Tools, tr \in Trees, ex \in Excludes, fo \in BOOLEAN :
       \E fl \in Filters(t) : Command(t, tr, ex, fl, fo)
  \/ LoadFails
  \/ \E l \in [Packages -> {"ok", "errors", "nosyntax"}] : LoadReturns(l)
  \/ WalkFile \/ WalkFails \/ PackageFile \/ Report \/ Done

Spec == Init /\ [][Next]_vars

-------------------------------------------------------------------------------
Scanned == pc \in {"walk", "packages"} /\ todo = <<>>

Excluded(n) == \E prefix \in excludes : IsPrefix(prefix, tree.files[n].path)

\* A file every way of scanning is meant to look at.
InScope(n) ==
  /\ tree.files[n].inBuild /\ tree.files[n].parses /\ ~tree.files[n].test /\ ~Excluded(n)
  /\ (tree.above \cup {tree.root} \cup ToSet(PkgOf(n))) \cap {"vendor", "testutil", "mock"} = {}

\* detect leaves out package-level code and the block-level callbacks.
DetectScans(fn) == fn.isFunc /\ fn.name \notin abciHookFunctions

\* What detect does not look for: calls in code it leaves out, and calls without a package name,
\* of a dot import.
OverlookedCall(fn, s) == ~DetectScans(fn) \/ s.qual = ""

\* What lint does not look for: delete(k.m, x); package-level code and constructors; a keeper under
\* another name than the receiver's, or as a whole; k.a.b = x; a field whose name or type passes for
\* safe; a variable of another file or an element of one, m[x] = y.
OverlookedWrite(f, fn, s) ==
  \/ s.form # "assign" \/ ~fn.isFunc \/ isConstructor(fn.name)
  \/ /\ s.holder = "keeper"
     /\ \/ fn.recv = "" \/ s.base # fn.recv
        \/ s.path = <<>> \/ s.path[1] = "[]" \/ \E k \in 2 .. Len(s.path) : s.path[k] # "[]"
        \/ isSafeField(s.path[1]) \/ isKVStoreBacked(s.type)
  \/ s.holder = "package" /\ (s.path # <<>> \/ s.base \notin f.vars)

SharedStateOf(s) ==
  (IF s.holder = "keeper" THEN {"keeper_field"} ELSE {}) \cup (IF s.holder = "package" THEN {"pkg_var"} ELSE {})

\* The sites of a file that must be findings whatever is known of their types: calls of a listed
\* function and writes of shared state, except those that are overlooked.
CertainAt(f, fn, s) ==
  CASE tool = "detect" /\ s.kind = "call" /\ ~OverlookedCall(fn, s)      -> Lookup(s.target, s.sel)
    [] tool = "lint" /\ s.kind = "write" /\ ~OverlookedWrite(f, fn, s)   -> SharedStateOf(s)
    [] OTHER                                                             -> {}

Certain(n) ==
  UNION {UNION {{[line |-> s.line, cat |-> c] : c \in CertainAt(tree.files[n], fn, s)}
                  : s \in ToSet(fn.body)}
           : fn \in ToSet(tree.files[n].decls)}

ReportsOf(n, line, cat) ==
  Cardinality({k \in DOMAIN findings : /\ findings[k].file = n /\ findings[k].line = line
                                       /\ findings[k].cat = cat})

\* Whichever packages fail to load, and however far, every forbidden call and every write of
\* shared state in the files in scope is reported exactly once, at any depth of function
\* literals, unless it is of a form that OverlookedCall and OverlookedWrite list; nothing is
\* reported of test files, and lint reports nothing of excluded paths.
EachSiteReportedOnce ==
  Scanned =>
    \A n \in DOMAIN tree.files :
      /\ InScope(n) => \A c \in Certain(n) : ReportsOf(n, c.line, c.cat) = 1
      /\ \/ tree.files[n].test
         \/ tool = "lint" /\ Excluded(n)
         => \A k \in DOMAIN findings : findings[k].file # n

\* "using AST-only for this package": the errors of a package do not cost another one its
\* type information: there a range in a function is reported exactly if it is over a map, and a field
\* that lives in a KVStore never, whatever their names are.
ErrorsStayLocal ==
  Scanned /\ pc = "packages" =>
    \A n \in DOMAIN tree.files : InScope(n) /\ load[PkgOf(n)] = "ok" =>
      \A fn \in ToSet(tree.files[n].decls) : \A s \in ToSet(fn.body) :
        /\ tool = "detect" /\ DetectScans(fn) /\ s.kind = "range" /\ s.type # "unknown"
             => ReportsOf(n, s.line, "map_iter") = IF s.type = "map" THEN 1 ELSE 0
        /\ tool = "lint" /\ s.kind = "write" /\ isKVStoreBacked(s.type)
             => ReportsOf(n, s.line, "keeper_field") = 0

\* A gate that passes is worth something: if detect, or lint with --fail-on-findings, exits
\* with 0, the files in scope have no forbidden call and no write of shared state of the selected
\* category, degraded or not, but those of a form that is overlooked.
CleanExitMeansClean ==
  pc = "exit" /\ exit = 0 /\ (tool = "detect" \/ failOn) =>
    \A n \in DOMAIN tree.files : InScope(n) =>
      \A c \in Certain(n) : filter # "" /\ c.cat # filter

\* "excludePaths is a list of path prefixes (relative to root) to skip entirely"
ExcludePathsSkipped ==
  \A k \in DOMAIN findings : ~Excluded(findings[k].file)
================================================================================
