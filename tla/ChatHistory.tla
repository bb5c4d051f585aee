----------------------------- MODULE ChatHistory -----------------------------
(***************************************************************************)
(* The rows of ai_messages of one conversation and the request that is     *)
(* built from them (ai_service.py: _context_rows, history_messages).  A    *)
(* row names the stream it belongs to; the tool calls of a stream are      *)
(* numbered, and an assistant row holds the number of its calls.           *)
(***************************************************************************)
EXTENDS Naturals, FiniteSets, Sequences, SequencesExt

CONSTANT NoStream       \* the stream of a user's message

UserRow == [role |-> "user", stream |-> NoStream, calls |-> 0, call |-> 0,
            status |-> "done", text |-> TRUE]
AssistantRow(s) == [role |-> "assistant", stream |-> s, calls |-> 0, call |-> 0,
                    status |-> "streaming", text |-> FALSE]
ToolRow(s, k) == [role |-> "tool", stream |-> s, calls |-> 0, call |-> k,
                  status |-> "done", text |-> TRUE]

-----------------------------------------------------------------------------
\* Slip: what the limit leaves is sent as it is.
ContextAsCut(rows, limit) ==
    IF Len(rows) > limit THEN SubSeq(rows, Len(rows) - limit + 1, Len(rows)) ELSE rows

\* _context_rows: the last rows, without the tool rows at their head.
ContextRows(rows, limit) ==
    LET last == IF Len(rows) > limit
                THEN SubSeq(rows, Len(rows) - limit + 1, Len(rows)) ELSE rows
        kept == {i \in DOMAIN last : \E j \in 1 .. i : last[j].role # "tool"}
    IN  SubSeq(last, Len(last) - Cardinality(kept) + 1, Len(last))

\* A message of the request: its role, the calls it makes, the call it answers.
Message(role, calls, call) == [role |-> role, calls |-> calls, call |-> call]
CallsOf(row) == {<<row.stream, k>> : k \in 1 .. row.calls}
Answered(rows) == {<<rows[i].stream, rows[i].call>> : i \in {j \in DOMAIN rows : rows[j].role = "tool"}}

\* What one row becomes: a call nobody has answered is answered in its place.
MessagesOf(row, answered) ==
    CASE row.role = "assistant" /\ row.calls > 0 ->
            <<Message("assistant", CallsOf(row), <<>>)>>
            \o SetToSeq({Message("tool", {}, c) : c \in CallsOf(row) \ answered})
      [] row.role = "assistant" /\ row.calls = 0 ->
            IF row.text THEN <<Message("assistant", {}, <<>>)>> ELSE <<>>
      [] row.role = "tool" -> <<Message("tool", {}, <<row.stream, row.call>>)>>
      [] OTHER -> <<Message("user", {}, <<>>)>>

HistoryMessages(rows) ==
    FlattenSeq([i \in DOMAIN rows |-> MessagesOf(rows[i], Answered(rows))])

-----------------------------------------------------------------------------
\* The answers that follow message i without anything in between.
AnswersAfter(m, i) ==
    {m[j].call : j \in {k \in i + 1 .. Len(m) : \A n \in i + 1 .. k : m[n].role = "tool"}}

\* What the model service accepts: every call is answered right after the
\* message that makes it, and every answer belongs to such a call.
WellFormed(m) ==
    /\ \A i \in DOMAIN m : m[i].calls \subseteq AnswersAfter(m, i)
    /\ \A j \in DOMAIN m : m[j].role = "tool" =>
          \E i \in 1 .. j - 1 : /\ m[j].call \in m[i].calls
                                /\ \A n \in i + 1 .. j : m[n].role = "tool"
=============================================================================
