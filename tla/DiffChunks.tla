----------------------------- MODULE DiffChunks -----------------------------
(***************************************************************************)
(* server/review/diff_filter.py: the files worth reviewing are kept, the   *)
(* rest of the diff is cut into prompts of at most Budget characters, and  *)
(* every added line of a file whose name can be read belongs to exactly    *)
(* one prompt.  A diff is a sequence of file blocks; text is its size, a   *)
(* changed file its path and hunks.                                        *)
(***************************************************************************)
EXTENDS Integers, SequencesExt, Sublist

CONSTANTS
  Budget,     \* MAX_INLINE_DIFF_CHARS
  PrefixSize, \* a synthetic "diff --git" line
  HunkSize    \* a "@@ ... @@" line

ASSUME ChunkAssumption ==
  /\ Budget \in Nat /\ PrefixSize \in Nat \ {0} /\ HunkSize \in Nat
  /\ PrefixSize + HunkSize < Budget

\* A block: [path, noise, header, hunks]; a hunk: [old, new, lines]; a line:
\* [kind, size].  "plus" is an added line that itself begins with "++".  path is
\* what _header_target reads: "" for a header that does not split into four parts,
\* as with a name that has a space or an apostrophe and is not quoted.  noise says
\* whether the real name is that of a lock file, a build product and the like.
SizeWith(n, h) == FoldLeft(LAMBDA k, l : k + l.size, n + HunkSize, h.lines)
SizeOf(block) == FoldLeft(SizeWith, block.header, block.hunks)

\* _is_noise: a file whose name cannot be read is kept, whatever it is.
IsNoise(block) == block.path # "" /\ block.noise

\* filter_reviewable
Reviewable(diff) == Only(diff, {i \in 1..Len(diff) : ~IsNoise(diff[i])})

\* Lines whose number on the new side is counted; the text of a "plus" line
\* looks like a file header and is taken for one.
CountsNew(kind) == kind \in {"add", "ctx"}

\* What git prints: one block per file, with at least a "diff --git" line, whose
\* hunks follow each other on the new side.  No two names that can be read are
\* read alike.
DiffLine == [kind : STRING, size : Nat]
DiffHunk == [old : Nat, new : Nat, lines : Seq(DiffLine)]
DiffBlock == [path : STRING, noise : BOOLEAN, header : Nat \ {0}, hunks : Seq(DiffHunk)]
NewLines(h, n) == Cardinality({k \in 1..n : CountsNew(h.lines[k].kind)})
HunksFollow(hunks) ==
  \A j, k \in 1..Len(hunks) :
    j < k => hunks[j].new + NewLines(hunks[j], Len(hunks[j].lines)) <= hunks[k].new
WellFormed(diff) ==
  /\ diff \in Seq(DiffBlock)
  /\ \A i, j \in 1..Len(diff) : i # j /\ diff[i].path # "" => diff[i].path # diff[j].path
  /\ \A i \in 1..Len(diff) : HunksFollow(diff[i].hunks)

\* One line of a hunk: its numbers, and those of the next line.
Numbered(s, l) ==
  [old |-> s.old + (IF l.kind \in {"del", "ctx"} THEN 1 ELSE 0),
   new |-> s.new + (IF CountsNew(l.kind) THEN 1 ELSE 0),
   out |-> IF l.kind \in {"add", "del", "ctx"}
           THEN Append(s.out, [old |-> s.old, new |-> s.new, kind |-> l.kind, size |-> l.size])
           ELSE s.out]

\* changed_lines and _hunk_line_units number the lines of a hunk alike.
Units(h) == FoldLeft(Numbered, [old |-> h.old, new |-> h.new, out |-> <<>>], h.lines).out

BlockUnits(block) == FlattenSeq([i \in 1..Len(block.hunks) |-> Units(block.hunks[i])])

\* Lines of a file whose name cannot be read belong to nobody.
Owned(path, units) ==
  {<<path, units[i].new>> :
     i \in {j \in 1..Len(units) : path # "" /\ units[j].kind = "add"}}

ChangedLines(block) == Owned(block.path, BlockUnits(block))

Rendered(units) == FoldLeft(LAMBDA n, u : n + u.size, PrefixSize + HunkSize, units)

\* The next line of the same hunk, on both sides.
Contiguous(u, v) ==
  /\ v.old = u.old + (IF u.kind = "add" THEN 0 ELSE 1)
  /\ v.new = u.new + (IF u.kind = "del" THEN 0 ELSE 1)

Truncated(u) ==
  IF Rendered(<<u>>) > Budget THEN [u EXCEPT !.size = Budget - PrefixSize - HunkSize] ELSE u

\* Mutant: the line that does not fit any more goes into both pieces.
CutRepeats(s, u) ==
  IF Rendered(Append(s.cur, u)) <= Budget THEN [s EXCEPT !.cur = Append(@, u)]
  ELSE [done |-> Append(s.done, Append(s.cur, u)), cur |-> <<Truncated(u)>>]

\* _split_oversized_block: a piece ends where the numbering breaks or the budget
\* is reached.
Cut(s, u) ==
  LET breaks == s.cur # <<>> /\ ~Contiguous(Last(s.cur), u)
      t == IF breaks THEN [done |-> Append(s.done, s.cur), cur |-> <<>>] ELSE s
  IN IF Rendered(Append(t.cur, u)) <= Budget THEN [t EXCEPT !.cur = Append(@, u)]
     ELSE [done |-> IF t.cur = <<>> THEN t.done ELSE Append(t.done, t.cur),
           cur |-> <<Truncated(u)>>]

\* A block without lines becomes one piece that owns nothing.
SplitBlock(block) ==
  LET units == BlockUnits(block)
      s == FoldLeft(Cut, [done |-> <<>>, cur |-> <<>>], units)
      pieces == IF s.cur = <<>> THEN s.done ELSE Append(s.done, s.cur)
  IN IF units = <<>> THEN <<[size |-> Budget, owned |-> {}]>>
     ELSE [i \in 1..Len(pieces) |->
             [size |-> Rendered(pieces[i]), owned |-> Owned(block.path, pieces[i])]]

Pieces(block) ==
  IF SizeOf(block) > Budget THEN SplitBlock(block)
  ELSE <<[size |-> SizeOf(block), owned |-> ChangedLines(block)]>>

\* chunk_records_by_budget: pieces are packed in order; a full chunk is closed.
Pack(s, piece) ==
  LET full == s.cur.size > 0 /\ s.cur.size + piece.size > Budget
      base == IF full THEN [size |-> 0, owned |-> {}] ELSE s.cur
      next == [size |-> base.size + piece.size, owned |-> base.owned \cup piece.owned]
      done == IF full THEN Append(s.done, s.cur) ELSE s.done
  IN IF next.size >= Budget
     THEN [done |-> Append(done, next), cur |-> [size |-> 0, owned |-> {}]]
     ELSE [done |-> done, cur |-> next]

Chunks(diff) ==
  LET all == FlattenSeq([i \in 1..Len(diff) |-> Pieces(diff[i])])
      s == FoldLeft(Pack, [done |-> <<>>, cur |-> [size |-> 0, owned |-> {}]], all)
  IN IF s.cur.size = 0 THEN s.done ELSE Append(s.done, s.cur)

\* The two ValueErrors that end a review: a line in two chunks, a line in none.
Refused(cs, diff) ==
  \/ \E i, j \in 1..Len(cs) : i # j /\ cs[i].owned \cap cs[j].owned # {}
  \/ UNION {cs[i].owned : i \in 1..Len(cs)}
       # UNION {ChangedLines(diff[i]) : i \in 1..Len(diff)}

\* The chunk that owns a line, 0 if none does.
OwnerOf(chunks, place) ==
  LET own == {i \in 1..Len(chunks) : place \in chunks[i].owned} IN
  IF own = {} THEN 0 ELSE CHOOSE i \in own : TRUE
=============================================================================
