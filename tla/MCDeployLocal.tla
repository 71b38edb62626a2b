---------------------------- MODULE MCDeployLocal ----------------------------
(* Scripts and directories for DeployLocal. *)
EXTENDS DeployLocal

Stmt(op, name, dest, dir, literal, guarded) ==
  [op |-> op, name |-> name, dest |-> dest, dir |-> dir, literal |-> literal,
   guarded |-> guarded]
P(name, dest) == Stmt("pipeline", name, dest, None, TRUE, FALSE)
In(dir, p) == [p EXCEPT !.dir = dir]
Computed(p) == [p EXCEPT !.literal = FALSE]
Do(op, guarded) == Stmt(op, None, None, None, TRUE, guarded)
Run == Do("run", FALSE)
GuardedRun == Do("run", TRUE)
Load == Do("load", FALSE)
Fails == Do("raise", FALSE)

\* Scripts that run one pipeline, run it in a try, load by themselves, keep its
\* state in a directory of their own, compute its name, fail, make no pipeline,
\* or more than one.
SoleScripts ==
  {<<P("a", "matterbeam"), Run>>, <<P("a", "matterbeam"), GuardedRun, Load>>,
   <<P("b", "matterbeam"), Run>>, <<Load, P("a", "matterbeam")>>,
   <<In("here", P("a", "matterbeam")), Run>>,
   <<In("here", P("b", "matterbeam")), Load, Run>>,
   <<Computed(P("a", "matterbeam")), Run>>,
   <<P("a", "duckdb"), Run>>, <<P("a", None), Run>>, <<P("a", "unknown"), Run>>,
   <<P("a", "matterbeam"), GuardedRun, Fails>>, <<Run>>, <<>>}
PairScripts ==
  {<<P("a", "duckdb"), P("c", "matterbeam"), Run>>,
   <<P("a", "matterbeam"), GuardedRun, P("c", "duckdb"), Run>>,
   <<P("a", "duckdb"), GuardedRun, P("c", "matterbeam"), Run>>}

HaveRunBefore == {<<"a", "user">>, <<"a", "here">>, <<"dlt", "user">>}
AllScripts == SoleScripts \cup PairScripts

Content(v, n) == [version |-> v, size |-> n]
MCContents == {Content(1, 1), Content(2, 2)}
MCFrozen == Content(0, 1)

Tree(files) == [p \in Paths |-> IF p \in files THEN Content(1, 1) ELSE NoFile]
MCParent == [d \in Dirs |-> IF d = "lib/sub" THEN "lib" ELSE Root]
MCTrees ==
  {Tree({<<"", "pipeline.py">>, <<"", "secrets.toml">>, <<"lib", "requirements.txt">>,
         <<"venv", "pipeline.py">>, <<"lib/sub", "pipeline.py">>}),
   Tree({<<"", "pipeline.py">>, <<"", "requirements.txt">>, <<"link", "pipeline.py">>}),
   Tree({})}

Rank == [n \in Names |-> CASE n = "pipeline.py" -> 1 [] n = "requirements.txt" -> 2 [] OTHER -> 3]
DirRank == [d \in {Root} \cup Dirs |->
              CASE d = "lib" -> 1 [] d = "lib/sub" -> 2 [] d = "link" -> 3 [] d = "venv" -> 5
                [] OTHER -> 4]
MCPathLess(p, q) ==
  DirRank[p[1]] < DirRank[q[1]] \/ (p[1] = q[1] /\ Rank[p[2]] < Rank[q[2]])
=============================================================================
