--------------------------- MODULE DeliveryProofs ---------------------------
(***************************************************************************)
(* How far the rules validate_result applies are those the documentation   *)
(* gives (docs/result-delivery.md), for every result body there is; and    *)
(* what the journal says of a job and what is returned for it fit the very *)
(* body its worker posted, for any sessions, jobs and bodies.              *)
(***************************************************************************)
EXTENDS Delivery, CallbackProofs

-----------------------------------------------------------------------------
(* The rules of validate_result, for every body.                           *)

LEMMA SafeTexts ==
  ASSUME NEW t \in Text, NEW n \in Nat, SafeText(t, n)
  PROVE  t.chars <= n /\ t.marks \intersect {"control", "credential"} = {}
<1>1. t.chars \in Nat /\ t.chars \in 1 .. n
  BY DEF SafeText, Text
<1>2. t.chars <= n
  BY <1>1
<1>3. t.marks \intersect {"number", "padded", "control", "credential"} = {}
  BY DEF SafeText
<1> QED
  BY <1>2, <1>3

LEMMA TidyTexts ==
  ASSUME NEW t \in Text, NEW n \in Nat, t.chars > 0, t.chars <= n,
         t.marks \intersect {"padded", "number"} = {},
         t.marks \intersect {"control", "credential"} = {}
  PROVE  SafeText(t, n)
<1>1. t.chars \in 1 .. n
  BY DEF Text
<1>2. t.marks \intersect {"number", "padded", "control", "credential"} = {}
  OBVIOUS
<1> QED
  BY <1>1, <1>2 DEF SafeText

LEMMA Limits ==
  /\ QueryMax \in Nat /\ SummaryMax \in Nat /\ AnswerStringMax \in Nat
  /\ AnswerTotalMax \in Nat /\ SourceMax \in Nat /\ SourcesMax \in Nat /\ ErrorTextMax \in Nat
  BY DEF QueryMax, SummaryMax, AnswerStringMax, AnswerTotalMax, SourceMax, SourcesMax, ErrorTextMax

LEMMA Bodies4 ==
  ASSUME NEW b \in ResultBody
  PROVE  /\ b.query \in Text /\ b.summary \in Text
         /\ b.answer.texts \in Seq(Text)
         /\ b.answer.shape = "text" => Len(b.answer.texts) = 1
         /\ b.answer.shape \in {"null", "other"} => b.answer.texts = <<>>
         /\ b.sources.entries \in Seq(Seq(Text))
         /\ b.error.code \in Text /\ b.error.message \in Text
         /\ b.completed \in Nat
  BY DEF ResultBody, Answer, Sources, Error

LEMMA SeqRange ==
  ASSUME NEW S, NEW s \in Seq(S)
  PROVE  Range(s) \subseteq S
  BY DEF Range

LEMMA OneText ==
  ASSUME NEW s \in Seq(Text), Len(s) = 1
  PROVE  Range(s) = {s[1]} /\ Head(s) = s[1] /\ s[1] \in Text
  BY DEF Range

LEMMA NoTexts == Range(<<>>) = {} /\ Entries([list |-> TRUE, entries |-> <<>>]) = {}
<1>1. Range(<<>>) = {}
  BY DEF Range
<1>2. [list |-> TRUE, entries |-> <<>>].entries = <<>>
  OBVIOUS
<1> QED
  BY <1>1, <1>2 DEF Entries

LEMMA SourceTexts ==
  ASSUME NEW b \in ResultBody
  PROVE  /\ Entries(b.sources) \subseteq Text
         /\ \A e \in Range(b.sources.entries) : Range(e) \subseteq Text
<1>1. Range(b.sources.entries) \subseteq Seq(Text)
  BY Bodies4, SeqRange
<1>2. \A e \in Range(b.sources.entries) : Range(e) \subseteq Text
  BY <1>1, SeqRange
<1> QED
  BY <1>2 DEF Entries

LEMMA AnswersAgree ==
  ASSUME NEW b \in ResultBody
  PROVE  /\ ValidAnswer(b.answer) =>
              /\ b.answer.shape = "text" \/ (b.answer.shape = "object" /\ b.answer.themes)
              /\ Brief(b)
              /\ \A t \in Range(b.answer.texts) :
                   t.marks \intersect {"control", "credential", "claim"} = {}
         /\ /\ b.answer.shape = "text" \/ (b.answer.shape = "object" /\ b.answer.themes)
            /\ Brief(b)
            /\ \A t \in Range(b.answer.texts) :
                 /\ t.marks \intersect {"control", "credential"} = {}
                 /\ t.marks \intersect {"padded", "number"} = {}
                 /\ "claim" \notin t.marks
                 /\ t.chars > 0
            => ValidAnswer(b.answer)
<1> DEFINE ts == b.answer.texts
<1>1. ts \in Seq(Text)
  BY Bodies4
<1>2. CASE b.answer.shape = "text"
  <2>1. Range(ts) = {ts[1]} /\ Head(ts) = ts[1] /\ ts[1] \in Text
    BY <1>1, <1>2, Bodies4, OneText
  <2> DEFINE t == ts[1]
  <2>2. SafeText(t, AnswerStringMax) =>
          t.chars <= AnswerStringMax /\ t.marks \intersect {"control", "credential"} = {}
    BY <2>1, SafeTexts, Limits
  <2>3. /\ t.chars > 0 /\ t.chars <= AnswerStringMax
        /\ t.marks \intersect {"padded", "number"} = {}
        /\ t.marks \intersect {"control", "credential"} = {}
        => SafeText(t, AnswerStringMax)
    BY <2>1, TidyTexts, Limits
  <2>4. ValidAnswer(b.answer) <=> SafeText(t, AnswerStringMax) /\ "claim" \notin t.marks
    BY <1>2, <2>1 DEF ValidAnswer
  <2> HIDE DEF t
  <2>5. t.marks \intersect {"control", "credential", "claim"} = {} <=>
          t.marks \intersect {"control", "credential"} = {} /\ "claim" \notin t.marks
    OBVIOUS
  <2>6. Range(b.answer.texts) = {t} /\ b.answer.texts[1] = t
    BY <2>1 DEF t
  <2> QED
    BY <1>2, <2>2, <2>3, <2>4, <2>5, <2>6 DEF Brief
<1>3. CASE b.answer.shape # "text"
  <2>1. ValidAnswer(b.answer) <=>
          /\ b.answer.shape = "object" /\ b.answer.themes
          /\ Total(b.answer.texts) <= AnswerTotalMax
          /\ \A t \in Range(b.answer.texts) :
               t.marks \intersect {"number", "control", "credential", "claim"} = {}
    BY <1>3 DEF ValidAnswer
  <2>2. ASSUME NEW t \in Range(b.answer.texts)
        PROVE  /\ t.marks \intersect {"number", "control", "credential", "claim"} = {}
                    => t.marks \intersect {"control", "credential", "claim"} = {}
               /\ t.marks \intersect {"control", "credential"} = {}
                    /\ t.marks \intersect {"padded", "number"} = {} /\ "claim" \notin t.marks
                  => t.marks \intersect {"number", "control", "credential", "claim"} = {}
    OBVIOUS
  <2> QED
    BY <1>3, <2>1, <2>2 DEF Brief
<1> QED
  BY <1>2, <1>3

LEMMA SourcesAgree ==
  ASSUME NEW b \in ResultBody
  PROVE  /\ ValidSources(b.sources) =>
              /\ b.sources.list /\ Len(b.sources.entries) <= SourcesMax
              /\ \A t \in Entries(b.sources) :
                   t.chars <= SourceMax /\ t.marks \intersect {"control", "credential"} = {}
         /\ /\ b.sources.list /\ Len(b.sources.entries) <= SourcesMax
            /\ <<>> \notin Range(b.sources.entries)
            /\ \A t \in Entries(b.sources) :
                 /\ t.chars <= SourceMax /\ t.chars > 0
                 /\ t.marks \intersect {"control", "credential"} = {}
                 /\ t.marks \intersect {"padded", "number"} = {}
            => ValidSources(b.sources)
<1>1. ASSUME NEW e \in Range(b.sources.entries), NEW t \in Range(e)
      PROVE  t \in Text /\ t \in Entries(b.sources)
  BY <1>1, SourceTexts DEF Entries
<1>2. ASSUME ValidSources(b.sources), NEW t \in Entries(b.sources)
      PROVE  t.chars <= SourceMax /\ t.marks \intersect {"control", "credential"} = {}
  <2>1. PICK e \in Range(b.sources.entries) : t \in Range(e)
    BY <1>2 DEF Entries
  <2>2. SafeText(t, SourceMax)
    BY <1>2, <2>1 DEF ValidSources
  <2> QED
    BY <1>1, <2>1, <2>2, SafeTexts, Limits
<1>3. ASSUME NEW t \in Text, t.chars <= SourceMax, t.chars > 0,
             t.marks \intersect {"control", "credential"} = {},
             t.marks \intersect {"padded", "number"} = {}
      PROVE  SafeText(t, SourceMax)
  BY <1>3, TidyTexts, Limits
<1>4. ValidSources(b.sources) =>
        b.sources.list /\ Len(b.sources.entries) <= SourcesMax
  BY DEF ValidSources
<1> QED
  BY <1>1, <1>2, <1>3, <1>4 DEF ValidSources

LEMMA ErrorsAgree ==
  ASSUME NEW b \in ResultBody
  PROVE  /\ ValidError(b.error) =>
              /\ b.error.shape = "object" /\ b.error.complete
              /\ {b.error.code.chars, b.error.message.chars} \subseteq 0 .. ErrorTextMax
              /\ \A t \in {b.error.code, b.error.message} :
                   t.marks \intersect {"control", "credential"} = {}
         /\ /\ b.error.shape = "object" /\ b.error.complete
            /\ {b.error.code.chars, b.error.message.chars} \subseteq 0 .. ErrorTextMax
            /\ \A t \in {b.error.code, b.error.message} :
                 /\ t.marks \intersect {"control", "credential"} = {}
                 /\ t.marks \intersect {"padded", "number"} = {}
                 /\ t.chars > 0
            => ValidError(b.error)
<1>1. ASSUME NEW t \in {b.error.code, b.error.message}
      PROVE  /\ SafeText(t, ErrorTextMax) =>
                  t.chars \in 0 .. ErrorTextMax /\ t.marks \intersect {"control", "credential"} = {}
             /\ /\ t.chars \in 0 .. ErrorTextMax /\ t.chars > 0
                /\ t.marks \intersect {"control", "credential"} = {}
                /\ t.marks \intersect {"padded", "number"} = {}
                => SafeText(t, ErrorTextMax)
  <2>1. t \in Text /\ t.chars \in Nat
    BY Bodies4 DEF Text
  <2> QED
    BY <2>1, SafeTexts, TidyTexts, Limits
<1> QED
  BY <1>1 DEF ValidError

LEMMA HeadsAgree ==
  ASSUME NEW b \in ResultBody
  PROVE  /\ SafeText(b.query, QueryMax) /\ SafeText(b.summary, SummaryMax) =>
              /\ b.query.chars <= QueryMax /\ b.summary.chars <= SummaryMax
              /\ \A t \in {b.query, b.summary} :
                   t.marks \intersect {"control", "credential"} = {}
         /\ /\ b.query.chars <= QueryMax /\ b.summary.chars <= SummaryMax
            /\ \A t \in {b.query, b.summary} :
                 /\ t.marks \intersect {"control", "credential"} = {}
                 /\ t.marks \intersect {"padded", "number"} = {}
                 /\ t.chars > 0
            => SafeText(b.query, QueryMax) /\ SafeText(b.summary, SummaryMax)
  BY Bodies4, SafeTexts, TidyTexts, Limits

\* A mark in a text that has none the rules look for is overlooked.
LEMMA Overlooks ==
  ASSUME NEW b,
         \A t \in TextsOf(b) : t.marks \intersect {"control", "credential"} = {},
         \A t \in Range(b.answer.texts) : "claim" \notin t.marks
  PROVE  \A t \in Everything(b) : \A mark \in t.marks \intersect Unsafe : Overlooked(b, t, mark)
<1> SUFFICES ASSUME NEW t \in TextsOf(b), NEW mark \in t.marks \intersect Unsafe, mark # "delete"
             PROVE  mark = "claim" /\ t \notin Range(b.answer.texts)
  BY DEF Overlooked
<1>1. mark = "claim"
  BY DEF Unsafe
<1> QED
  BY <1>1

\* validate_result accepts nothing the documentation rules out, but for what
\* it overlooks ...
LEMMA AcceptedIsTolerated ==
  ASSUME NEW b \in ResultBody, NEW t \in Nat, Validated(b, t)
  PROVE  Tolerated(b, t)
<1>1. Accepts(b) /\ b.completed <= t
  BY DEF Validated
<1>2. /\ b.identity /\ b.attested /\ b.utc
      /\ SafeText(b.query, QueryMax) /\ SafeText(b.summary, SummaryMax)
  BY <1>1 DEF Accepts
<1>3. CASE /\ b.status = "ok" /\ b.error.shape = "null"
           /\ ValidAnswer(b.answer) /\ ValidSources(b.sources)
  <2>1. TextsOf(b) = {b.query, b.summary} \union Range(b.answer.texts) \union Entries(b.sources)
    BY <1>3 DEF TextsOf
  <2>2. \A u \in TextsOf(b) : u.marks \intersect {"control", "credential"} = {}
    BY <1>2, <1>3, <2>1, HeadsAgree, AnswersAgree, SourcesAgree
  <2>3. \A u \in Range(b.answer.texts) : "claim" \notin u.marks
    BY <1>3, AnswersAgree
  <2>4. Schema(b, t)
    BY <1>1, <1>2, <1>3, HeadsAgree, AnswersAgree, SourcesAgree DEF Schema
  <2> QED
    BY <2>2, <2>3, <2>4, Overlooks DEF Tolerated
<1>4. CASE /\ b.status = "error" /\ b.answer.shape = "null"
           /\ b.sources = [list |-> TRUE, entries |-> <<>>]
           /\ ValidError(b.error)
  <2>1. b.answer.texts = <<>> /\ Range(b.answer.texts) = {} /\ Entries(b.sources) = {}
    BY <1>4, Bodies4, NoTexts
  <2>2. b.sources.list /\ b.sources.entries = <<>>
    BY <1>4
  <2>3. TextsOf(b) = {b.query, b.summary} \union {b.error.code, b.error.message}
    BY <1>4, <2>1, ErrorsAgree DEF TextsOf
  <2>4. \A u \in TextsOf(b) : u.marks \intersect {"control", "credential"} = {}
    BY <1>2, <1>4, <2>3, HeadsAgree, ErrorsAgree
  <2>5. Schema(b, t)
    BY <1>1, <1>2, <1>4, <2>2, HeadsAgree, ErrorsAgree DEF Schema
  <2> QED
    BY <2>1, <2>4, <2>5, Overlooks DEF Tolerated
<1> QED
  BY <1>1, <1>3, <1>4 DEF Accepts

\* ... and turns down nothing it allows that is tidy and brief.
LEMMA CompliantIsAccepted ==
  ASSUME NEW b \in ResultBody, NEW t \in Nat, Compliant(b, t)
  PROVE  Validated(b, t)
<1> DEFINE Clean(u) == /\ u.marks \intersect {"control", "credential"} = {}
                       /\ u.marks \intersect {"padded", "number"} = {}
                       /\ u.chars > 0
<1>1. \A u \in TextsOf(b) : Clean(u)
  <2> SUFFICES ASSUME NEW u \in TextsOf(b), NEW mark \in u.marks \intersect {"control", "credential"}
               PROVE  FALSE
    BY DEF Compliant, Tidy
  <2>1. u \in Everything(b) /\ mark \in u.marks \intersect Unsafe
    BY DEF Everything, Unsafe
  <2>2. Overlooked(b, u, mark)
    BY <2>1 DEF Compliant, Tolerated
  <2> QED
    BY <2>2 DEF Overlooked
<1>2. {b.query, b.summary} \union Range(b.answer.texts) \union Entries(b.sources) \subseteq TextsOf(b)
  BY DEF TextsOf
<1>3. ASSUME NEW u \in Range(b.answer.texts) PROVE "claim" \notin u.marks
  <2>1. u \in Everything(b) /\ u \in TextsOf(b)
    BY <1>2 DEF Everything
  <2>2. "claim" \in u.marks => Overlooked(b, u, "claim")
    BY <2>1 DEF Compliant, Tolerated, Unsafe
  <2> QED
    BY <2>1, <2>2 DEF Overlooked
<1>4. Schema(b, t) /\ Tidy(b) /\ Brief(b)
  BY DEF Compliant, Tolerated
<1>5. SafeText(b.query, QueryMax) /\ SafeText(b.summary, SummaryMax)
  BY <1>1, <1>2, <1>4, HeadsAgree DEF Schema
<1>6. CASE b.status = "ok"
  <2>1. ValidAnswer(b.answer)
    BY <1>1, <1>2, <1>3, <1>4, <1>6, AnswersAgree DEF Schema
  <2>2. ValidSources(b.sources)
    BY <1>1, <1>2, <1>4, <1>6, SourcesAgree DEF Schema, Tidy
  <2> QED
    BY <1>4, <1>5, <1>6, <2>1, <2>2 DEF Schema, Validated, Accepts
<1>7. CASE b.status = "error"
  <2>1. {b.error.code, b.error.message} \subseteq TextsOf(b)
    BY <1>4, <1>7 DEF Schema, TextsOf
  <2>2. ValidError(b.error)
    BY <1>1, <1>4, <1>7, <2>1, ErrorsAgree DEF Schema
  <2>3. b.sources = [list |-> TRUE, entries |-> <<>>]
    BY <1>4, <1>7 DEF Schema, ResultBody, Sources
  <2> QED
    BY <1>4, <1>5, <1>7, <2>2, <2>3 DEF Schema, Validated, Accepts
<1> QED
  BY <1>4, <1>6, <1>7 DEF Schema

-----------------------------------------------------------------------------
(* What a body is to the coordinator, and what the documentation says.     *)
LEMMA Delivered ==
  ASSUME NEW b \in Bodies
  PROVE  /\ Content[b] \in ResultBody
         /\ Kind[b] = KindOf(Content[b]) /\ CompletedAt[b] = Content[b].completed
         /\ Content[b].completed \in Nat
<1>1. Content[b] \in ResultBody
  BY DeliveryAssumption
<1>2. CompletedAt[b] \in Nat
  BY CoordinatorAssumption
<1> QED
  BY <1>1, <1>2, DeliveryAssumption

LEMMA AcceptedKind ==
  ASSUME NEW b \in Bodies, NEW t \in Nat, Verdict(b, t) \in {"ok", "error"}
  PROVE  Tolerated(Content[b], t) /\ Content[b].status = Verdict(b, t)
<1>1. Kind[b] = Verdict(b, t) /\ CompletedAt[b] <= t
  BY DEF Verdict
<1>2. Accepts(Content[b]) /\ Content[b].status = Kind[b]
  BY <1>1, Delivered DEF KindOf
<1> QED
  BY <1>1, <1>2, Delivered, AcceptedIsTolerated DEF Validated

LEMMA RejectedKind ==
  ASSUME NEW b \in Bodies, NEW t \in Nat, Verdict(b, t) = "invalid", Kind[b] # "opaque"
  PROVE  ~Compliant(Content[b], t)
<1>1. Kind[b] = "invalid" \/ ~(CompletedAt[b] <= t)
  BY CoordinatorAssumption DEF Verdict, Kinds
<1>2. Kind[b] = "invalid" => ~Accepts(Content[b])
  <2>1. ASSUME Accepts(Content[b]) PROVE Kind[b] # "invalid"
    <3>1. Content[b].status # "invalid"
      BY <2>1 DEF Accepts
    <3> QED
      BY <2>1, <3>1, Delivered DEF KindOf
  <2> QED
    BY <2>1
<1>3. ~Validated(Content[b], t)
  BY <1>1, <1>2, Delivered DEF Validated
<1> QED
  BY <1>3, Delivered, CompliantIsAccepted

-----------------------------------------------------------------------------
LEMMA ClockBounded == Spec => [](now \in 0 .. MaxNow)
<1>1. Init => now \in 0 .. MaxNow
  BY CoordinatorAssumption DEF Init
<1>2. now \in 0 .. MaxNow /\ [Next]_vars => (now \in 0 .. MaxNow)'
  <2> SUFFICES ASSUME now \in 0 .. MaxNow, [Next]_vars PROVE now' \in 0 .. MaxNow
    OBVIOUS
  <2>1. CASE Tick
    BY <2>1, CoordinatorAssumption DEF Tick
  <2>2. CASE UNCHANGED vars
    BY <2>2 DEF vars
  <2>3. ASSUME NEW s \in Sessions, Open(s) \/ Reconcile(s) \/ Crash(s) \/ Shutdown(s)
        PROVE  UNCHANGED now
    BY <2>3 DEF Open, Reconcile, Crash, Shutdown
  <2>4. ASSUME NEW s \in Sessions, NEW j \in Jobs, Start(s, j) \/ ReadResult(s, j)
        PROVE  UNCHANGED now
    BY <2>4 DEF Start, ReadResult
  <2>5. ASSUME NEW c \in Coroutines, Dispatches(c) PROVE UNCHANGED now
    BY <2>5 DEF Dispatches, BeginDispatch, RegisterArrives, RegisterReturns, RegisterFails,
         PostRefused, PostSends, PostReturns, PostUncertain
  <2>6. ASSUME NEW c \in Coroutines, Waits(c) PROVE UNCHANGED now
    BY <2>6 DEF Waits, BeginPoll, CheckDeadline, FetchStored, FetchNothing, SettleInvalid,
         SettleOk, SettleError, SettleUnwritable
  <2>7. ASSUME NEW c \in Coroutines, Advances(c) \/ Answers(c) \/ Disturbs(c)
        PROVE  UNCHANGED now
    BY <2>7 DEF Advances, AdvanceRead, AdvanceWrite, Answers, RefetchReturns, RefetchFails,
         Revalidate, Disturbs, ClientRaises, JournalRaises
  <2>8. ASSUME NEW j \in Jobs, OrphanPosts(j) \/ WebhookAccepts(j) PROVE UNCHANGED now
    BY <2>8 DEF OrphanPosts, WebhookAccepts
  <2>9. ASSUME NEW j \in Jobs, NEW b \in Bodies, WorkerSubmits(j, b) \/ InboxChanges(j, b)
        PROVE  UNCHANGED now
    BY <2>9 DEF WorkerSubmits, InboxChanges
  <2>10. InboxRestarts => UNCHANGED now
    BY DEF InboxRestarts
  <2> QED
    BY <2>1, <2>2, <2>3, <2>4, <2>5, <2>6, <2>7, <2>8, <2>9, <2>10 DEF Next, Steps
<1> QED
  BY <1>1, <1>2, PTL DEF Spec

(* Of any samples, and at any time, validate_result accepts none that      *)
(* breaks the documented contract in more than what it is known to         *)
(* overlook, and all that keep to it, are tidy and brief                   *)
(* (deliver.py:236-361, docs/result-delivery.md, "Result body").           *)
THEOREM RulesDocumented == Spec => []RulesAreDocumented
<1>1. now \in 0 .. MaxNow => RulesAreDocumented
  <2> SUFFICES ASSUME now \in 0 .. MaxNow, NEW b \in Samples
               PROVE  /\ Validated(b, now) => Tolerated(b, now)
                      /\ Compliant(b, now) => Validated(b, now)
    BY DEF RulesAreDocumented, RulesAgree
  <2>1. b \in ResultBody /\ now \in Nat
    BY DeliveryAssumption, CoordinatorAssumption
  <2> QED
    BY <2>1, AcceptedIsTolerated, CompliantIsAccepted
<1> QED
  BY <1>1, ClockBounded, PTL

(* No answer is ever returned that breaks the documented contract in more  *)
(* than what validate_result is known to overlook                          *)
(* (coordinator.py:239-270), whatever the inbox shows.                     *)
THEOREM AnswersTolerated == Spec => []AnswersAreTolerated
<1>1. IInv /\ CInv => AnswersAreTolerated
  <2> SUFFICES ASSUME IInv, CInv, NEW j \in Jobs, NEW b \in answers[j]
               PROVE  Tolerated(Content[b], now) /\ Content[b].status = "ok"
    BY DEF AnswersAreTolerated
  <2>1. /\ b \in Bodies /\ now \in Nat
        /\ b = rows[j].digest
    BY DEF IInv, TypeOK, RowsConsistent, RowConsistent
  <2>2. Verdict(b, now) = "ok"
    BY <2>1, CallbackAssumption DEF CInv, Agrees
  <2> QED
    BY <2>1, <2>2, AcceptedKind
<1> QED
  BY <1>1, Invariance, CallbackKnown, PTL

(* The outcome of a job fits the body the inbox holds for it               *)
(* (docs/mcp-coordinator.md:29-31), if the inbox shows what it stored.     *)
THEOREM OutcomeFits == Faithful => (Spec => []OutcomeFitsBody)
<1> SUFFICES ASSUME Faithful PROVE Spec => []OutcomeFitsBody
  OBVIOUS
<1>1. IInv /\ CInv => OutcomeFitsBody
  <2> SUFFICES ASSUME IInv, CInv, NEW j \in Jobs, slots[j].body # NoBody
               PROVE  LET b == Content[slots[j].body]
                      IN /\ rows[j].state = "ready" => b.status = "ok" /\ Tolerated(b, now)
                         /\ rows[j].state = "failed" => b.status = "error" /\ Tolerated(b, now)
                         /\ rows[j].state = "conflict" => ~Compliant(b, 0)
    BY DEF OutcomeFitsBody
  <2> DEFINE b == slots[j].body
  <2>1. b \in Bodies /\ now \in Nat
    BY DEF IInv, TypeOK, Slot, OptionalBody
  <2>2. Agrees(rows[j], slots[j], j \in accepted, posts[j], now) /\ RowConsistent(j)
    BY DEF IInv, CInv, RowsConsistent
  <2>3. slots[j].registered /\ posts[j] > 0
    BY <2>2 DEF Agrees
  <2>4. rows[j].state = "ready" => Verdict(b, now) = "ok"
    BY <2>2, <2>3 DEF Agrees, RowConsistent
  <2>5. rows[j].state = "failed" => Verdict(b, now) = "error"
    BY <2>2, <2>3 DEF Agrees, RowConsistent
  <2>6. rows[j].state = "conflict" => Verdict(b, 0) = "invalid" /\ Kind[b] # "opaque"
    BY <2>2, <2>3 DEF Agrees, Rejectable
  <2> HIDE DEF b
  <2>7. rows[j].state = "conflict" => ~Compliant(Content[b], 0)
    BY <2>1, <2>6, RejectedKind
  <2>8. /\ rows[j].state = "ready" => Content[b].status = "ok" /\ Tolerated(Content[b], now)
        /\ rows[j].state = "failed" => Content[b].status = "error" /\ Tolerated(Content[b], now)
    BY <2>1, <2>4, <2>5, AcceptedKind
  <2> QED
    BY <2>7, <2>8 DEF b
<1> QED
  BY <1>1, Invariance, CallbackKnown, PTL

(* What is recorded for a job fits the body its worker posted              *)
(* (coordinator.py:208-237), if the inbox shows what it stored.            *)
THEOREM RecordFits == Faithful => (Spec => RecordFitsBody)
<1> SUFFICES ASSUME Faithful PROVE Spec => RecordFitsBody
  OBVIOUS
<1> DEFINE Fitting(j, b) ==
      /\ rows'[j].digest # rows[j].digest => b.status = "ok" /\ Tolerated(b, now)
      /\ rows'[j].error # rows[j].error =>
           IF rows'[j].error = "worker" THEN b.status = "error" /\ Tolerated(b, now)
           ELSE ~Compliant(b, now)
    Recorded == \A j \in Jobs : slots[j].body # NoBody => Fitting(j, Content[slots[j].body])
<1>1. IInv /\ CInv /\ [Next]_vars => Recorded
  <2> SUFFICES ASSUME IInv, CInv, [Next]_vars, NEW j \in Jobs, slots[j].body # NoBody
               PROVE  Fitting(j, Content[slots[j].body])
    OBVIOUS
  <2>1. RowChange(j) /\ rows[j] \in Row
    BY RowsChange DEF IInv, TypeOK
  <2>2. slots[j].registered
    BY DEF CInv, Agrees
  <2>3. ASSUME rows'[j].digest = rows[j].digest, rows'[j].error = rows[j].error
        PROVE  Fitting(j, Content[slots[j].body])
    BY <2>3
  <2>4. CASE rows'[j] = rows[j] \/ rows'[j] = Reconciled(rows[j])
    BY <2>1, <2>3, <2>4 DEF Reconciled, Row
  <2>5. CASE rows[j] = NoRow /\ rows'[j] = NewRow(now + Lifetime)
    BY <2>3, <2>5 DEF NoRow, NewRow
  <2>6. ASSUME NEW c \in Coroutines, JobOf(c) = j,
               Moves(j, c) \/ RecordsOk(j, c) \/ RecordsError(j, c) \/ RecordsInvalid(j, c)
        PROVE  Fitting(j, Content[slots[j].body])
    <3>1. CASE Moves(j, c)
      BY <2>1, <2>3, <3>1 DEF Moves, Row
    <3>2. co[c].pc = "settle" =>
            /\ slots[j].body = co[c].payload /\ slots[j].body \in Bodies /\ now \in Nat
            /\ Kind[slots[j].body] # "opaque"
      BY <2>2, <2>6, Settling
    <3>3. CASE RecordsOk(j, c)
      <4>1. /\ Verdict(slots[j].body, now) = "ok" /\ slots[j].body \in Bodies /\ now \in Nat
            /\ rows'[j].error = rows[j].error
        BY <2>1, <3>2, <3>3 DEF RecordsOk, Row
      <4> QED
        BY <4>1, AcceptedKind
    <3>4. CASE RecordsError(j, c)
      <4>1. /\ Verdict(slots[j].body, now) = "error" /\ slots[j].body \in Bodies /\ now \in Nat
            /\ rows'[j].error = "worker" /\ rows'[j].digest = rows[j].digest
        BY <2>1, <3>2, <3>4 DEF RecordsError, Row
      <4> QED
        BY <4>1, AcceptedKind
    <3>5. CASE RecordsInvalid(j, c)
      <4>1. /\ Verdict(slots[j].body, now) = "invalid" /\ slots[j].body \in Bodies
            /\ now \in Nat /\ Kind[slots[j].body] # "opaque"
            /\ rows'[j].error = "invalid_result" /\ rows'[j].digest = rows[j].digest
        BY <2>1, <3>2, <3>5 DEF RecordsInvalid, Row
      <4> QED
        BY <4>1, RejectedKind
    <3> QED
      BY <2>6, <3>1, <3>3, <3>4, <3>5
  <2> QED
    BY <2>1, <2>4, <2>5, <2>6 DEF RowChange
<1>2. IInv /\ CInv /\ [Next]_vars => [Recorded]_rows
  BY <1>1
<1> QED
  BY <1>2, Invariance, CallbackKnown, PTL DEF Spec, RecordFitsBody

-----------------------------------------------------------------------------
(***************************************************************************)
(* What a recorded rejection says of the body in the inbox, for as long as *)
(* its slot is kept, by however many sessions it is judged.                *)
(***************************************************************************)
Judged(j) ==
  rows[j].error = "invalid_result" =>
    /\ posts[j] > 0
    /\ slots[j].registered => Rejectable(slots[j].body)

\* The slot of a posted job keeps its body, or is lost.
LEMMA SlotKept ==
  ASSUME Faithful, IInv, [Next]_vars, NEW j \in Jobs, posts[j] > 0,
         slots'[j].registered
  PROVE  slots[j].registered /\ (slots[j].body # NoBody => slots'[j].body = slots[j].body)
<1>1. slots[j] \in Slot /\ posts[j] \in Nat
  BY DEF IInv, TypeOK
<1>2. ASSUME NEW c \in Coroutines, RegisterArrives(c) PROVE slots'[j] = slots[j]
  <2>1. posts[JobOf(c)] = 0
    BY <1>2, Sending DEF RegisterArrives
  <2> QED
    BY <1>1, <1>2, <2>1 DEF RegisterArrives, IInv, TypeOK
<1>3. ASSUME NEW k \in Jobs, NEW b \in Bodies, WorkerSubmits(k, b)
      PROVE  slots'[j] = slots[j] \/ (slots[j].registered /\ slots'[j] = Offered(slots[j], b))
  BY <1>3 DEF WorkerSubmits, InTime, IInv, TypeOK
<1>4. ASSUME NEW b \in Bodies, slots[j].body # NoBody PROVE Offered(slots[j], b) = slots[j]
  BY <1>4 DEF Offered
<1>5. ~InboxRestarts
  BY DEF InboxRestarts, NoSlot
<1>6. ASSUME NEW c \in Coroutines, Steps(c) \/ Disturbs(c), ~RegisterArrives(c)
      PROVE  UNCHANGED slots
  BY <1>6 DEF Steps, Disturbs, Dispatches, Waits, Advances, Answers, BeginDispatch,
     RegisterReturns, RegisterFails, PostRefused, PostSends, PostReturns, PostUncertain,
     BeginPoll, CheckDeadline, FetchStored, FetchNothing, SettleInvalid, SettleOk,
     SettleError, SettleUnwritable, AdvanceRead, AdvanceWrite, RefetchReturns,
     RefetchFails, Revalidate, ClientRaises, JournalRaises
<1>7. ASSUME NEW k \in Jobs, NEW b \in Bodies PROVE ~InboxChanges(k, b)
  BY DEF InboxChanges, Faithful
<1>8. slots'[j] = slots[j]
        \/ \E b \in Bodies : slots[j].registered /\ slots'[j] = Offered(slots[j], b)
  BY <1>2, <1>3, <1>5, <1>6, <1>7
     DEF Next, vars, Open, Reconcile, Crash, Shutdown, Start, ReadResult, OrphanPosts,
         WebhookAccepts, Tick
<1> QED
  BY <1>4, <1>8

LEMMA PostsKept ==
  ASSUME IInv, [Next]_vars, NEW j \in Jobs, posts[j] > 0 PROVE posts'[j] > 0
<1>1. posts[j] \in Nat
  BY DEF IInv, TypeOK
<1>2. posts'[j] \in {posts[j], posts[j] + 1}
  BY <1>1, OnlyPostsSend DEF PostSends, OrphanPosts, vars, IInv, TypeOK
<1> QED
  BY <1>1, <1>2

LEMMA NextJudged ==
  ASSUME Faithful, IInv, CInv, [Next]_vars, NEW j \in Jobs, Judged(j) PROVE Judged(j)'
<1> SUFFICES ASSUME rows'[j].error = "invalid_result"
             PROVE  /\ posts'[j] > 0
                    /\ slots'[j].registered => Rejectable(slots'[j].body)
  BY DEF Judged
<1>1. rows[j] \in Row /\ RowChange(j)
  BY RowsChange DEF IInv, TypeOK
<1>2. CASE rows[j].error = "invalid_result"
  <2>1. posts[j] > 0 /\ (slots[j].registered => Rejectable(slots[j].body))
    BY <1>2 DEF Judged
  <2>2. posts'[j] > 0
    BY <2>1, PostsKept
  <2>3. slots'[j].registered => Rejectable(slots'[j].body)
    BY <2>1, SlotKept DEF Rejectable
  <2> QED
    BY <2>2, <2>3
<1>3. CASE rows[j].error # "invalid_result"
  <2>1. PICK c \in Coroutines : JobOf(c) = j /\ RecordsInvalid(j, c)
    <3>1. \A c \in Coroutines :
            Moves(j, c) \/ RecordsOk(j, c) => rows'[j].error = rows[j].error
      BY <1>1 DEF Moves, RecordsOk, Row
    <3>2. \A c \in Coroutines : RecordsError(j, c) => rows'[j].error = "worker"
      BY <1>1 DEF RecordsError, Row
    <3>3. rows'[j] # NewRow(now + Lifetime)
      BY DEF NewRow
    <3>4. Reconciled(rows[j]).error = rows[j].error
      BY <1>1 DEF Reconciled, Row
    <3> QED
      BY <1>1, <1>3, <3>1, <3>2, <3>3, <3>4 DEF RowChange
  <2> DEFINE b == co[c].payload
  <2>2. co[c].pc = "settle" /\ Verdict(b, now) = "invalid"
    BY <2>1 DEF RecordsInvalid
  <2>3. /\ posts[j] > 0 /\ now \in Nat /\ b \in Bodies /\ Kind[b] # "opaque"
        /\ slots[j].registered => slots[j].body = b
    BY <2>1, <2>2, Settling
  <2>4. Rejectable(b)
    BY <2>2, <2>3, VerdictsKeep, CallbackAssumption DEF Rejectable
  <2>5. slots'[j].registered => slots'[j].body = b
    BY <2>3, SlotKept, CallbackAssumption
  <2> HIDE DEF b
  <2> QED
    BY <2>3, <2>4, <2>5, PostsKept
<1> QED
  BY <1>2, <1>3

\* A packet's instructions and what they leave out are the rules.
LEMMA ToldIsCompliant ==
  ASSUME NEW b \in ResultBody, NEW goal \in Text, CleanGoal(goal),
         FollowsPacket(b, goal), b.completed = 0, ~Untold(b)
  PROVE  Compliant(b, 0)
<1>1. b.query.chars <= QueryMax
  <2>1. goal.chars \in Nat /\ goal.chars \in 1 .. QueryMax
    BY DEF CleanGoal, Text
  <2> QED
    BY <2>1 DEF FollowsPacket
<1>2. \A t \in TextsOf(b) : t.marks \intersect {"control", "credential"} = {}
  BY DEF FollowsPacket, Untold, Everything
<1>3. Range(b.answer.texts) = {b.answer.texts[1]} /\ b.answer.texts[1] \in Text
  BY Bodies4, OneText DEF FollowsPacket
<1>4. b.answer.texts[1].chars <= AnswerStringMax
  BY <1>3, Limits DEF Untold, Text
<1>5. ASSUME NEW t \in Entries(b.sources) PROVE t.chars <= SourceMax
  <2>1. PICK e \in DOMAIN b.sources.entries : t \in Range(b.sources.entries[e])
    BY <1>5 DEF Entries, Range
  <2>2. b.sources.entries[e] \in Seq(Text) /\ Len(b.sources.entries[e]) = 1
    BY Bodies4 DEF FollowsPacket
  <2>3. t = b.sources.entries[e][1]
    BY <2>1, <2>2, OneText
  <2> QED
    BY <2>3 DEF FollowsPacket
<1>6. b.status = "ok" /\ b.completed <= 0
  BY DEF FollowsPacket
<1>7. \A t \in Everything(b) : \A mark \in t.marks \intersect Unsafe : Overlooked(b, t, mark)
  BY <1>2, <1>3, Overlooks DEF Untold
<1>8. Schema(b, 0)
  BY <1>1, <1>5, <1>6 DEF Schema, FollowsPacket
<1>9. Tidy(b) /\ Brief(b)
  BY <1>4 DEF FollowsPacket, Brief
<1> QED
  BY <1>7, <1>8, <1>9 DEF Compliant, Tolerated

(* A worker that follows its packet is rejected only for what the packet   *)
(* does not tell it (deliver.py:44-83, 320-360): the length of a text      *)
(* answer, a control character, a claim to have posted.  For any bodies,   *)
(* goals and sessions, if the inbox shows what it stored.                  *)
THEOREM ToldAccepted == Faithful => (Spec => []ToldIsAccepted)
<1> SUFFICES ASSUME Faithful PROVE Spec => []ToldIsAccepted
  OBVIOUS
<1> DEFINE AllJudged == \A j \in Jobs : Judged(j)
<1>1. Init => AllJudged
  BY DEF Init, NoRow, Judged
<1>2. IInv /\ CInv /\ AllJudged /\ [Next]_vars => AllJudged'
  BY NextJudged
<1>3. IInv /\ CInv /\ AllJudged => ToldIsAccepted
  <2> SUFFICES ASSUME IInv, CInv, NEW j \in Jobs, Judged(j),
                      rows[j].error = "invalid_result", slots[j].body # NoBody,
                      FollowsPacket(Content[slots[j].body], Goal[j]),
                      Content[slots[j].body].completed = 0
               PROVE  Untold(Content[slots[j].body])
    BY DEF ToldIsAccepted
  <2> DEFINE b == slots[j].body
  <2>1. b \in Bodies /\ slots[j].registered
    BY DEF IInv, CInv, TypeOK, Agrees, Slot, OptionalBody
  <2>2. Kind[b] # "opaque" /\ Verdict(b, 0) = "invalid"
    BY <2>1 DEF Judged, Rejectable
  <2>3. ~Compliant(Content[b], 0)
    BY <2>1, <2>2, RejectedKind
  <2>4. Content[b] \in ResultBody /\ Goal[j] \in Text /\ CleanGoal(Goal[j])
    BY <2>1, Delivered, DeliveryAssumption
  <2> QED
    BY <2>3, <2>4, ToldIsCompliant
<1> QED
  BY <1>1, <1>2, <1>3, Invariance, CallbackKnown, PTL DEF Spec
=============================================================================
