----------------------------- MODULE ResultBody -----------------------------
(***************************************************************************)
(* A worker's result: which bodies validate_result accepts (deliver.py),   *)
(* which of those the journal can record (jobs.py), and which the inbox    *)
(* client can read back (inbox.py).  A text is its length and what the     *)
(* rules look for in it.  Constant level: Delivery puts it in the journal. *)
(***************************************************************************)
EXTENDS Naturals, Sequences, Functions
LOCAL INSTANCE SequencesExt

CallbackBodyLimit == 64 * 1024
QueryMax == 2000
SummaryMax == 500
AnswerStringMax == 4000
AnswerTotalMax == 20000
SourceMax == 512
SourcesMax == 32
ErrorTextMax == 300

\* padded: white space at an end.  control, delete: a control character that
\* is no white space, below U+0020 or from U+007F on.  credential, claim: what
\* the two patterns find.  surrogate: a code point without a UTF-8 form.
\* number: no text at all.
Marks == {"padded", "control", "delete", "credential", "claim", "surrogate", "number"}

\* wide: the characters that take two bytes in UTF-8 and six when escaped.
Text == [chars : Nat, wide : Nat, marks : SUBSET Marks]

(***************************************************************************)
(* A body as json.loads returns it.  identity: schema, job and job type    *)
(* match.  utc: completed_at is a time in UTC.  answer.texts, and each     *)
(* source, are what _strings collects.  extra: what nothing validates, the *)
(* other fields and the keys of objects, as one text.                      *)
(***************************************************************************)
Answer ==
  {a \in [shape : {"null", "text", "object", "other"}, themes : BOOLEAN, texts : Seq(Text)] :
     /\ a.shape = "text" => Len(a.texts) = 1
     /\ a.shape \in {"null", "other"} => a.texts = <<>>}
Sources == [list : BOOLEAN, entries : Seq(Seq(Text))]
Error == [shape : {"null", "object", "other"}, complete : BOOLEAN, code : Text, message : Text]

ResultBody == [identity : BOOLEAN, attested : BOOLEAN, utc : BOOLEAN, completed : Nat,
               query : Text, summary : Text, status : {"ok", "error", "other"},
               answer : Answer, sources : Sources, error : Error, extra : Text]

Entries(sources) == UNION {Range(e) : e \in Range(sources.entries)}

-----------------------------------------------------------------------------
(* deliver.py                                                              *)

SafeText(t, maximum) ==
  t.chars \in 1 .. maximum /\ t.marks \intersect {"number", "padded", "control", "credential"} = {}

\* clean_goal, which strips its ends first.
CleanGoal(t) == t.chars \in 1 .. QueryMax /\ t.marks \intersect {"number", "padded"} = {}

Total(texts) == FoldSeq(LAMBDA t, n : t.chars + n, 0, texts)

ValidAnswer(answer) ==
  \/ /\ answer.shape = "text"
     /\ SafeText(Head(answer.texts), AnswerStringMax)
     /\ "claim" \notin Head(answer.texts).marks
  \/ /\ answer.shape = "object" /\ answer.themes
     /\ Total(answer.texts) <= AnswerTotalMax
     /\ \A t \in Range(answer.texts) :
          t.marks \intersect {"number", "control", "credential", "claim"} = {}

(* A plausible slip: only sources that are texts are checked.              *)
ValidSourcesTextsOnly(sources) ==
  /\ sources.list /\ Len(sources.entries) <= SourcesMax
  /\ \A e \in Range(sources.entries) : Len(e) = 1 => SafeText(Head(e), SourceMax)

\* A source is a text, or an object with at least one.
ValidSources(sources) ==
  /\ sources.list /\ Len(sources.entries) <= SourcesMax
  /\ \A e \in Range(sources.entries) :
       e # <<>> /\ \A t \in Range(e) : SafeText(t, SourceMax)

ValidError(error) ==
  /\ error.shape = "object" /\ error.complete
  /\ SafeText(error.code, ErrorTextMax) /\ SafeText(error.message, ErrorTextMax)

(* A plausible slip: an error body may come with sources.                  *)
AcceptsErrorWithSources(b) ==
  /\ b.identity /\ b.attested /\ b.utc
  /\ SafeText(b.query, QueryMax) /\ SafeText(b.summary, SummaryMax)
  /\ \/ /\ b.status = "ok" /\ b.error.shape = "null"
        /\ ValidAnswer(b.answer) /\ ValidSources(b.sources)
     \/ b.status = "error" /\ b.answer.shape = "null" /\ ValidError(b.error)

\* validate_result, but for the time of completion.
Accepts(b) ==
  /\ b.identity /\ b.attested /\ b.utc
  /\ SafeText(b.query, QueryMax) /\ SafeText(b.summary, SummaryMax)
  /\ \/ /\ b.status = "ok" /\ b.error.shape = "null"
        /\ ValidAnswer(b.answer) /\ ValidSources(b.sources)
     \/ /\ b.status = "error" /\ b.answer.shape = "null"
        /\ b.sources = [list |-> TRUE, entries |-> <<>>]
        /\ ValidError(b.error)

\* validate_result, at a time.
Validated(b, time) == Accepts(b) /\ b.completed <= time

-----------------------------------------------------------------------------
(* inbox.py                                                                *)

\* The length of a compact body, to a few bytes, if a wide character takes w.
Length(b, w) ==
  LET size(t) == t.chars + (w - 1) * t.wide + 3
      add(t, n) == size(t) + n
  IN 227 + size(b.extra) + size(b.query) + size(b.summary)
       + FoldSeq(add, 0, b.answer.texts)
       + FoldSeq(LAMBDA e, n : FoldSeq(add, n, e), 0, b.sources.entries)
       + size(b.error.code) + size(b.error.message)

\* do_POST and submit take a body of CALLBACK_BODY_LIMIT bytes; a longer one
\* is answered 413 and changes nothing.
Stored(b) == Length(b, 2) <= CallbackBodyLimit

\* read wraps the body and _send escapes it; the client takes as many bytes
\* of that, and no more.
Readable(b) == 168 + Length(b, 6) <= CallbackBodyLimit

-----------------------------------------------------------------------------
(* jobs.py                                                                 *)

\* The texts record_result and record_error bind as they are: answer and
\* sources are escaped first.
Bound(b) == IF b.status = "ok" THEN {b.summary} ELSE {b.error.code, b.error.message}

Recordable(b) == \A t \in Bound(b) : "surrogate" \notin t.marks

(* A plausible slip: a body that was cut short is judged as it is.         *)
KindOfTruncated(b) ==
  IF ~Readable(b) \/ ~Accepts(b) THEN "invalid"
  ELSE IF ~Recordable(b) THEN "unwritable"
  ELSE b.status

(* A plausible slip: a body that names its status is not validated.        *)
KindOfUnvalidated(b) ==
  IF ~Readable(b) THEN "opaque"
  ELSE IF b.status = "other" THEN "invalid"
  ELSE IF ~Recordable(b) THEN "unwritable"
  ELSE b.status

\* What a body is to the coordinator.
KindOf(b) ==
  IF ~Readable(b) THEN "opaque"
  ELSE IF ~Accepts(b) THEN "invalid"
  ELSE IF ~Recordable(b) THEN "unwritable"
  ELSE b.status

-----------------------------------------------------------------------------
(***************************************************************************)
(* The documentation's account of a result body (result-delivery.md,       *)
(* "Result body"), against which the rules above are checked.              *)
(***************************************************************************)
TextsOf(b) ==
  {b.query, b.summary} \union Range(b.answer.texts) \union Entries(b.sources)
    \union (IF b.error.shape = "object" THEN {b.error.code, b.error.message} ELSE {})

Everything(b) == TextsOf(b) \union {b.extra}

\* Identity, time, the two shapes, and the bounds the shapes state.
Schema(b, time) ==
  /\ b.identity /\ b.attested /\ b.utc /\ b.completed <= time
  /\ b.query.chars <= QueryMax /\ b.summary.chars <= SummaryMax
  /\ b.status = "ok" =>
       /\ b.answer.shape = "text" \/ (b.answer.shape = "object" /\ b.answer.themes)
       /\ b.sources.list /\ Len(b.sources.entries) <= SourcesMax
       /\ \A t \in Entries(b.sources) : t.chars <= SourceMax
       /\ b.error.shape = "null"
  /\ b.status = "error" =>
       /\ b.answer.shape = "null"
       /\ b.sources.list /\ b.sources.entries = <<>>
       /\ b.error.shape = "object" /\ b.error.complete
       /\ {b.error.code.chars, b.error.message.chars} \subseteq 0 .. ErrorTextMax
  /\ b.status \in {"ok", "error"}

\* "The requestor rejects a body that [...] claims a write action in the first
\* person, contains credential-shaped text, carries a non-whitespace control
\* character": wherever in the body it is.
Unsafe == {"control", "delete", "credential", "claim"}

\* The documentation in full; a source is an entry of so many characters.
Documented(b, time) ==
  /\ Schema(b, time)
  /\ \A e \in Range(b.sources.entries) : Total(e) <= SourceMax
  /\ \A t \in Everything(b) : t.marks \intersect Unsafe = {}

\* What of that validate_result does not look for: control characters beyond
\* ASCII, anything in a field or a key it does not know, and claims of a write
\* anywhere but in the answer.  Nor does it add up the texts of one source.
Overlooked(b, t, mark) ==
  \/ mark = "delete"
  \/ t \notin TextsOf(b)
  \/ mark = "claim" /\ t \notin Range(b.answer.texts)

\* Documented, but for what is overlooked.
Tolerated(b, time) ==
  /\ Schema(b, time)
  /\ \A t \in Everything(b) : \A mark \in t.marks \intersect Unsafe : Overlooked(b, t, mark)

\* What the documentation takes for granted.
Tidy(b) ==
  /\ \A t \in TextsOf(b) : t.marks \intersect {"padded", "number"} = {}
  /\ \A t \in TextsOf(b) : t.chars > 0
  /\ <<>> \notin Range(b.sources.entries)

\* The bounds of an answer, which the documentation does not state.
Brief(b) ==
  /\ b.answer.shape = "text" => b.answer.texts[1].chars <= AnswerStringMax
  /\ b.answer.shape = "object" => Total(b.answer.texts) <= AnswerTotalMax

\* What the requestor cannot turn down and keep to the documentation.
Compliant(b, time) == Tolerated(b, time) /\ Tidy(b) /\ Brief(b)
=============================================================================
