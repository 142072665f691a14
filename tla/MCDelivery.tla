----------------------------- MODULE MCDelivery -----------------------------
EXTENDS Delivery

CONSTANT MCBodies  \* the names, below, of the bodies of a run

Marked(n, marks) == [chars |-> n, wide |-> 0, marks |-> marks]
Plain(n) == Marked(n, {})
Wide(n) == [chars |-> n, wide |-> n, marks |-> {}]

NoAnswer == [shape |-> "null", themes |-> FALSE, texts |-> <<>>]
SaysText(t) == [shape |-> "text", themes |-> FALSE, texts |-> <<t>>]
SaysObject(ts) == [shape |-> "object", themes |-> TRUE, texts |-> ts]
Cites(entries) == [list |-> TRUE, entries |-> entries]
NoError == [shape |-> "null", complete |-> FALSE, code |-> Plain(0), message |-> Plain(0)]
Reports(code, message) ==
  [shape |-> "object", complete |-> TRUE, code |-> code, message |-> message]

MCGoal == [j \in Jobs |-> Plain(60)]

Answered ==
  [identity |-> TRUE, attested |-> TRUE, utc |-> TRUE, completed |-> 0,
   query |-> Plain(60), summary |-> Plain(200), status |-> "ok",
   answer |-> SaysText(Plain(900)), sources |-> Cites(<<<<Plain(40)>>>>),
   error |-> NoError, extra |-> Plain(0)]

Refused ==
  [Answered EXCEPT !.status = "error", !.answer = NoAnswer, !.sources = Cites(<<>>),
                   !.error = Reports(Plain(7), Plain(80))]

\* Bodies that tell the rules apart: one of each outcome, and at each limit.
Named ==
  [answer   |-> Answered,
   dated    |-> [Answered EXCEPT !.completed = 2],
   refusal  |-> Refused,
   cited    |-> [Refused EXCEPT !.sources = Cites(<<<<Plain(40)>>>>)],
   leak     |-> [Answered EXCEPT !.sources =
                   Cites(<<<<Plain(40), Marked(30, {"credential"})>>>>)],
   wide     |-> [Answered EXCEPT !.answer = SaysObject(<<Wide(19000)>>)],
   lone     |-> [Answered EXCEPT !.summary = Marked(9, {"surrogate"})],
   boast    |-> [Answered EXCEPT !.summary = Marked(40, {"claim"})]]

MCContent == [b \in MCBodies |-> Named[b]]
MCKind == [b \in MCBodies |-> KindOf(MCContent[b])]
MCCompletedAt == [b \in MCBodies |-> MCContent[b].completed]

\* Every combination of contents, and every combination of heads, of which a
\* few are valid.
Queries == {Plain(QueryMax), Plain(QueryMax + 1), Marked(9, {"control"}), Marked(9, {"delete"})}
Summaries == {Plain(SummaryMax), Plain(SummaryMax + 1), Marked(9, {"padded"}), Marked(9, {"claim"})}
AnswerSamples ==
  {NoAnswer, [NoAnswer EXCEPT !.shape = "other"],
   [SaysObject(<<Plain(9)>>) EXCEPT !.themes = FALSE]}
  \union {SaysText(t) : t \in {Plain(AnswerStringMax), Plain(AnswerStringMax + 1),
                               Marked(9, {"claim"}), Marked(9, {"control"})}}
  \union {SaysObject(<<Plain(AnswerTotalMax - 9), t>>) :
            t \in {Plain(9), Plain(10), Marked(9, {"padded"}), Marked(9, {"claim"}),
                   Marked(9, {"number"}), Marked(9, {"credential"})}}
SourceSamples ==
  {[Cites(<<>>) EXCEPT !.list = FALSE], Cites(<<>>), Cites(<<<<>>>>),
   Cites([i \in 1 .. SourcesMax |-> <<Plain(SourceMax)>>]),
   Cites([i \in 1 .. SourcesMax + 1 |-> <<Plain(9)>>]),
   Cites(<<<<Plain(9), Plain(SourceMax + 1)>>>>),
   Cites(<<<<Plain(9)>>, <<Marked(9, {"credential"})>>>>), Cites(<<<<Marked(9, {"claim"})>>>>)}
ErrorSamples ==
  {NoError, [NoError EXCEPT !.shape = "other"], [Reports(Plain(9), Plain(9)) EXCEPT !.complete = FALSE],
   Reports(Plain(ErrorTextMax), Plain(ErrorTextMax)), Reports(Plain(9), Plain(ErrorTextMax + 1))}

Contents ==
  {[Answered EXCEPT !.status = st, !.answer = a, !.sources = c, !.error = e] :
      st \in {"ok", "error", "other"}, a \in AnswerSamples, c \in SourceSamples,
      e \in ErrorSamples}
Heads ==
  {[b EXCEPT !.identity = i, !.attested = a, !.utc = u, !.completed = n,
             !.query = q, !.summary = s, !.extra = x] :
      b \in {Answered, Refused}, i, a, u \in BOOLEAN, n \in {0, 2},
      q \in Queries, s \in Summaries, x \in {Plain(0), Marked(9, Unsafe)}}

MCSamples == Contents \union Heads
=============================================================================
