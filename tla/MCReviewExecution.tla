-------------------------- MODULE MCReviewExecution --------------------------
EXTENDS ReviewExecution

CONSTANTS p1, p2

Line(kind, size) == [kind |-> kind, size |-> size]
Hunk(n, lines) == [old |-> n, new |-> n, lines |-> lines]
Block(path, noise, header, hunks) ==
  [path |-> path, noise |-> noise, header |-> header, hunks |-> hunks]

\* Lines 1 and 6 of one file are added, far enough apart for two chunks.
TwoChunks ==
  <<Block("a", FALSE, 4, <<Hunk(1, <<Line("add", 4)>>), Hunk(5, <<Line("ctx", 3), Line("add", 4)>>)>>),
    Block("lock", TRUE, 4, <<Hunk(1, <<Line("add", 1)>>)>>)>>
OneChunk == <<Block("a", FALSE, 4, <<Hunk(1, <<Line("add", 1)>>)>>)>>
Noise == <<Block("lock", TRUE, 4, <<Hunk(1, <<Line("add", 1)>>)>>)>>

\* Every diff of one or two small blocks.
SomeLines == UNION {[1..n -> {Line("add", 1), Line("del", 3), Line("ctx", 2), Line("add", 12)}] : n \in 1..3}
SomeBlocks == {Block(path, FALSE, 2, <<Hunk(1, l)>>) : path \in {"a"}, l \in SomeLines}
Diffs == {<<b>> : b \in SomeBlocks}
  \cup {<<b, Block("b", FALSE, 2, <<Hunk(4, <<Line("add", 1), Line("ctx", 2)>>), Hunk(9, <<Line("add", 3)>>)>>)>> :
          b \in SomeBlocks}

\* Files whose names cannot be read, small and too large for a prompt, beside one
\* whose name can; the second of them is a lock file.
Nameless == Block("", FALSE, 2, <<Hunk(1, <<Line("add", 3), Line("add", 5)>>)>>)
NamelessLock == Block("", TRUE, 9, <<Hunk(1, <<Line("add", 5), Line("add", 9)>>)>>)
NamelessDiffs == {<<Nameless>>, <<NamelessLock>>, <<Nameless, Block("a", FALSE, 2, <<Hunk(1, <<Line("add", 1)>>)>>), NamelessLock>>}

At(line) == [path |-> "a", line |-> line]
InNameless == [path |-> "a b", line |-> 1]
MCSpots == {At(1), At(6), At(11), InNameless}

Policy(override, attested) ==
  LET p == [override |-> override, default |-> "observe", kill |-> FALSE,
            unlocked |-> TRUE, canary |-> FALSE]
  IN [scope |-> p, dedupe |-> p, attested |-> attested]

Setting(on, merge, verify, policy) ==
  [on |-> on, merge |-> merge, verify |-> verify, policy |-> policy, cli |-> 0, basis |-> 0,
   threshold |-> "moderate"]

Both == Setting(Vendor, TRUE, FALSE, Policy("none", {}))
Alone == Setting({"claude"}, FALSE, FALSE, Policy("enforce", {"claude"}))
Debating == Setting(Vendor, FALSE, TRUE, Policy("none", {}))
DebatingAlone == [Alone EXCEPT !.verify = TRUE]

Site(diff, s, spots, ends) ==
  [diff |-> diff, setting |-> s, spots |-> spots, ends |-> ends, named |-> Vendor,
   grades |-> {"complex"}, sources |-> <<>>, changes |-> {}, cleanup |-> FALSE,
   pushes |-> FALSE, moves |-> 0, runs |-> 2]

\* Both vendors review both chunks; chunks fail, and what is missing is retried.
Merging == [Site(TwoChunks, Both, {At(1)}, {"done", "failed"}) EXCEPT
               !.runs = 1]
Chain == Site(TwoChunks, Both, {At(1), At(6), At(11)}, {"done"})
Neighbours == Site(OneChunk, Both, {At(1), At(6)}, {"done", "timeout"})
\* One attested vendor, duplicates and scope enforced.
Enforcing ==
  [Site(TwoChunks, Alone, {At(1), At(11)}, {"done", "failed", "timeout"}) EXCEPT
     !.moves = 2, !.runs = 1]
\* Serious findings are debated, alone and by two; meanwhile a CLI is upgraded or a
\* vendor switched off or on.
DebatedByTwo == [Site(OneChunk, Debating, {At(1)}, {"done", "failed"}) EXCEPT
              !.changes = {[Debating EXCEPT !.cli = 1], [Debating EXCEPT !.on = {"claude"}]},
              !.moves = 1]
DebatedLater == [Site(OneChunk, [Debating EXCEPT !.on = {"claude"}], {At(1)}, {"done"}) EXCEPT
              !.changes = {Debating, [Debating EXCEPT !.on = {"codex"}]}, !.moves = 1, !.runs = 1]
DebatedAlone == Site(OneChunk, DebatingAlone, {At(1)}, {"done", "failed"})
\* A small block that may be kept and two of another source that may not: the first
\* is too large for its source, the second does not fit beside the small one.
Text(source, id, priority, size, secret) ==
  [source |-> source, id |-> id, priority |-> priority, size |-> size, files |-> {}, secret |-> secret]
Rules == <<Text("review_rules", 1, 10, 3, FALSE)>>
Schema == <<Text("db_schema", 2, 30, 9, TRUE), Text("db_schema", 3, 30, 5, TRUE)>>
\* Everything a retry compares changes between the review and the retry.
Changing ==
  [Site(OneChunk, Both, {At(1)}, {"done", "timeout"}) EXCEPT
     !.pushes = TRUE, !.cleanup = TRUE, !.sources = <<Rules, Schema>>,
     !.named = {"claude"}, !.moves = 2, !.runs = 1,
     !.changes = {[Both EXCEPT !.on = {"claude"}], [Both EXCEPT !.on = {}],
                  [Both EXCEPT !.merge = FALSE], [Both EXCEPT !.basis = 1],
                  [Both EXCEPT !.policy = Policy("enforce", {})]}]
\* The prescreen grades, answers nonsense or fails.
Skipped == [Site(OneChunk, Both, {}, {"failed"}) EXCEPT
              !.grades = {"trivial", "complex", "garbage", "error"}]

MCSites ==
  {Merging, Chain, Neighbours, Enforcing, DebatedByTwo, DebatedLater, DebatedAlone, Changing, Skipped,
   Site(<<Nameless, Block("a", FALSE, 2, <<Hunk(1, <<Line("add", 1)>>)>>)>>, Alone, {At(1), InNameless}, {"done"}),
   Site(Noise, Both, {}, {"failed"})}
    \cup {Site(d, Alone, {}, {"failed"}) : d \in Diffs \cup NamelessDiffs}

Symmetry == Permutations(Proc)

=============================================================================
