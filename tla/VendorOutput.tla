---------------------------- MODULE VendorOutput ----------------------------
(***************************************************************************)
(* When the answer of a vendor CLI counts: server/review/vendors.py runs   *)
(* the process under a timeout and a byte limit, vendor_telemetry.py reads *)
(* its event stream where the CLI version has a reviewed schema, and the   *)
(* findings are parsed out of the final message.                           *)
(***************************************************************************)
EXTENDS Integers, SequencesExt

\* How a process ends: [timeout, exit, cut, schema, structured, events, answer].
\* cut: a stream or the message file is longer than its limit.  schema: the
\* installed CLI version has a reviewed event schema.  structured: stdout begins
\* with an object.  answer: what the final message holds.
Answers == {"none", "garbage", "huge", "items dropped", "all dropped", "findings"}

\* parse_findings skips malformed items, but an answer of nothing else is refused.
Readable(answer) == answer \in {"items dropped", "findings"}

Ended(status, answer) == [status |-> status, answer |-> answer]

\* Mutant: the exit code alone decides.
LegacyExit(e) == Ended(IF e.exit = 0 THEN "done" ELSE "failed", e.answer)

\* _legacy_execution: no events to read.
Legacy(e) == IF e.exit = 0 /\ ~e.cut THEN Ended("done", e.answer) ELSE Ended("failed", "none")

\* parse_claude_json: the last result event decides; without one, the exit code.
ClaudeEvents(e) ==
  LET results == SelectSeq(e.events, LAMBDA t : t \in {"result", "result error"}) IN
  IF ~e.schema
  THEN Ended(IF e.exit = 0 THEN "done" ELSE "failed", "none")
  ELSE Ended(IF /\ e.exit = 0 /\ ~e.cut
                /\ results # <<>> => Last(results) = "result"
             THEN "done" ELSE "failed",
             IF results = <<>> THEN "none" ELSE e.answer)

Claude(e) == IF e.structured THEN ClaudeEvents(e) ELSE Legacy(e)

\* parse_codex_jsonl: some turn must end, and none may fail.
CodexEvents(e) ==
  Ended(IF /\ e.exit = 0 /\ ~e.cut
           /\ "turn.completed" \in ToSet(e.events)
           /\ ToSet(e.events) \cap {"turn.failed", "error"} = {}
        THEN "done" ELSE "failed",
        e.answer)

\* Binaries without the flags print the answer and leave no message file.
Codex(e) ==
  IF e.schema /\ (e.answer # "none" \/ e.structured) THEN CodexEvents(e) ELSE Legacy(e)

\* review: a timeout, a failed process, an oversized or unreadable answer.
ChunkStatus(v, e) ==
  LET x == IF v = "claude" THEN Claude(e) ELSE Codex(e) IN
  IF e.timeout THEN "timeout"
  ELSE IF x.status = "done" /\ Readable(x.answer) THEN "done" ELSE "failed"

\* verify: what the answer to a question about a finding amounts to; parse_verdict
\* refuses an answer without a verdict.
Verdicts == {"garbage", "stands", "falls"}
Said(v, e, verdict) ==
  LET x == IF v = "claude" THEN Claude(e) ELSE Codex(e) IN
  IF e.timeout \/ x.status # "done" \/ x.answer = "none" \/ verdict = "garbage"
  THEN "error" ELSE verdict

ProcessEnds ==
  [timeout : BOOLEAN, exit : {0, 1}, cut : BOOLEAN, schema : BOOLEAN, structured : BOOLEAN,
   events : {<<>>, <<"result">>, <<"result", "result error">>,
             <<"turn.completed">>, <<"turn.completed", "error">>, <<"turn.failed">>},
   answer : Answers]
=============================================================================
