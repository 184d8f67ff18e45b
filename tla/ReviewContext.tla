--------------------------- MODULE ReviewContext ---------------------------
(***************************************************************************)
(* The external context of a review: server/context/base.py picks, for     *)
(* every chunk of a diff, the blocks of text that fit its budget, and      *)
(* server/pipeline.py keeps the text in the run only if every block of it  *)
(* may be kept; of the others only sizes and names remain.                 *)
(***************************************************************************)
EXTENDS Integers, FiniteSets, SequencesExt

CONSTANTS
  SourceLimit,  \* MAX_CONTEXT_CHARS_PER_SOURCE
  TotalLimit    \* MAX_CONTEXT_CHARS_TOTAL

ASSUME ContextAssumption == SourceLimit \in Nat /\ TotalLimit \in Nat

\* size includes header and separator, priority whether the repository has the text
\* anyway; a block is about some files, or about all if there are none; secret is
\* sensitive or manifest_only.  A source that reports no blocks counts as one block
\* with the policy of its name.
ContextBlock ==
  [source : STRING, id : Nat, priority : Nat, size : Nat, files : SUBSET STRING,
   secret : BOOLEAN]

\* Every prompt of every vendor repeats the context.
ContextBudget(prompts, vendors) == TotalLimit \div (prompts * vendors)

\* A source that fails, is late or answers nonsense contributes nothing.
Gathered(sources, ok) == [i \in 1..Len(sources) |-> IF i \in ok THEN sources[i] ELSE <<>>]

Blocks(results) == FlattenSeq(results)

Beside(b, files) == IF b.files = {} \/ b.files \cap files # {} THEN 0 ELSE 1

Before(a, b, files) ==
  \/ a.priority < b.priority
  \/ /\ a.priority = b.priority
     /\ \/ Beside(a, files) < Beside(b, files)
        \/ Beside(a, files) = Beside(b, files) /\ a.id < b.id

\* sorted is stable: a block goes behind every earlier one it need not precede.
Ordered(blocks, files) ==
  FoldLeft(LAMBDA s, b : InsertAt(s, 1 + Cardinality({i \in 1..Len(s) : ~Before(b, s[i], files)}), b),
           <<>>, blocks)

Size(blocks) == FoldLeft(LAMBDA n, b : n + b.size, 0, blocks)
From(blocks, source) == SelectSeq(blocks, LAMBDA b : b.source = source)

\* Beside what is chosen already, of the same source and in all.
Fits(chosen, b, budget) ==
  /\ Size(From(chosen, b.source)) + b.size <= SourceLimit
  /\ Size(chosen) + b.size <= budget

\* render_context_blocks: a block that does not fit is left out, a later one may fit.
Selected(blocks, files, budget) ==
  FoldLeft(LAMBDA chosen, b : IF Fits(chosen, b, budget) THEN Append(chosen, b) ELSE chosen,
           <<>>, Ordered(blocks, files))

\* Mutant: the first block decides for the text.
MayKeepFirst(blocks) == blocks # <<>> => ~blocks[1].secret

MayKeep(blocks) == \A i \in 1..Len(blocks) : ~blocks[i].secret

Keepable(blocks) == IF MayKeep(blocks) THEN blocks ELSE <<>>
=============================================================================
