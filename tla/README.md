# A verification development for codex-grokbot-mcp

TLA+ models of the request coordinator, its journal, its result inbox, the bodies
of results and the start of a server; TLC runs that check them on small instances;
and theorems that TLAPS checks for every value of the constants. File names below
are relative to `src/src/codex_grokbot_mcp/`, those of documents (`docs/`) to `src/`.

- [The system](#the-system)
- [The modules and the code](#the-modules-and-the-code)
- [The runs](#the-runs)
- [Fairness](#fairness)
- [The proofs](#the-proofs)
- [Where code and documentation disagree](#where-code-and-documentation-disagree)
- [What is not modelled](#what-is-not-modelled)
- [Plan](#plan)

## The system

A Codex session starts one MCP server process. It loads its configuration, perhaps
from Vault, and opens the journal. Its tool `request_*` journals a job, POSTs a
packet to a webhook and returns; a worker behind the webhook later POSTs a callback
to a private inbox; a background task polls the inbox, validates the callback, pins
its digest in the journal and marks the job `ready`; the tool `result` reads the
inbox once more and hands out the answer if it is the pinned one. Several sessions
may share one journal and one inbox.

| Component | State | Operations | Meets the others by | What makes it correct |
|---|---|---|---|---|
| Journal (`jobs.py`) | SQLite table of jobs: state, deadline, digest, error; table `schema_version` | `create_request`, `advance`, `record_result`, `record_error`, `reconcile_restart`, `get`, `list_open`, `open`, `close` | the coordinator of each process calls it; processes share the file | a row moves along `NEXT_STATES` only; recorded evidence is never replaced; `ready` has its digest; a journal marked current is kept |
| Coordinator (`coordinator.py`) | background tasks per job, coroutines at their awaits | `start`, `_dispatch`, `_poll`, `_settle`, `result`, `resume_dispatched`, `shutdown` | journal (calls), inbox and webhook (`asyncio.to_thread`) | one POST at most; `failed` only when certain; one pinned answer; every job settles |
| Result inbox (`inbox.py`, `Inbox`) | slots in memory under a lock | `register`, `submit`, `read` by handler threads | HTTP from coordinator and worker | one body per slot; every status it gave stays true |
| Inbox client (`inbox.py`, `InboxClient`) | none | `register`, `fetch` | HTTP to the inbox | fails as `InboxError`, so that polling goes on |
| Webhook transport (`webhook.py`) | none | `dispatch` | HTTP to the webhook | success, refused before sending, or uncertain |
| Packets and validation (`deliver.py`) | none | packet builders, `validate_result` | called by the coordinator | accepts what is documented and nothing else, as far as it looks; a worker can know the rules from its packet |
| Server (`server.py`) | the session's lifespan | `main`, `create_server`, the tools | builds coordinator and journal | reconciles before it serves, shuts down after; every start ends |
| Configuration (`config.py`), TLS (`tls.py`) | none; the credentials of a process | `Config.load`, `verified_context` | the file, the Vault CLI, the trust store | no part of the credentials, and no mixture if the entries are renewed in the right order |
| Hygiene scanner (`src/scripts/check_public_hygiene.py`), package metadata | none | scan the tree | none | run by CI alone |

The hard behaviours:

- A journal operation is not one transaction: `advance` and `reconcile_restart`
  read in one and write in a later one, with another process in between.
- `open` reads the schema version, drops tables and rebuilds them in several
  transactions, while other processes start on, or already serve, the same file.
- A process may die between any two steps of a dispatch or of a start, and a
  `shutdown` cancels a task but not the thread that is sending its packet.
- A webhook or inbox call has three outcomes (yes, no, unknown), and a few
  exceptions that the code does not name.
- Two sessions may poll, settle and read one job at the same time, each acting on
  what it read before its last await.
- The inbox forgets everything at a restart while the journal refers to it.
- Inbox handler threads stamp a request before they wait for the lock.
- Deadlines race late callbacks; polling must end anyway.
- A body within one limit may exceed another: what was stored can be unreadable,
  what is valid can be impossible to record.
- Credentials are read by two runs of a CLI while an operator rotates either entry.

`PROJECT.json` lists each of these as a hazard, at its line, with the properties
aimed at it.

## The modules and the code

```
Callback  bodies and their digests
  |-- Journal ------ JobStore ------ JobStoreProofs
  |-- Slots -------- InboxContract
  |     `-- Inbox (INSTANCE InboxContract) --- InboxProofs
  |-- RequestContract                (with its theorems)
  `-- Coordinator (Journal + Slots; INSTANCE JobStore, RequestContract)
        |-- CoordinatorClaims        statements the code does not keep
        |-- CoordinatorInv --------- CoordinatorProofs
        |                              |-- CallbackProofs (+ CoordinatorClaims)
        |                              `-- Refinements (INSTANCE JobStoreProofs)
        `-- MCCoordinator
ResultBody  what a result holds, and the rules on it
  `-- Delivery (Coordinator + ResultBody) --- MCDelivery
        `-- DeliveryProofs (Delivery + CallbackProofs)
JournalOpen  how processes open the journal
  `-- Startup ---------------------- StartupProofs
```

**Callback, Journal, Slots** are constant-level. A callback body is told from
another only by its SHA-256 digest, so a body stands for its digest. `Journal` has
the rows and, for each SQL statement, its WHERE clause (`CanAdvance`,
`CanRecordResult`, ...) and effect (`NewRow`, `Reconciled`). `Slots` has the
inbox's expectation and the decisions taken on it. The two state machines below and
`Coordinator` put the same operators on their own variables, so a statement is
translated once.

**JobStore** is the journal under arbitrary callers: `rows` is the table, `conn`
what each connection has read and not yet used. `advance` is `AdvanceRead` (the
SELECT and the checks in Python) and `AdvanceWrite` (the UPDATE with
`AND state=?`); `reconcile_restart` is likewise a read and a write. `Close` is
`close()` or the death of the process in between.

**Inbox** is the threading HTTP server: `calls` is what each handler thread brings
to the lock, with the time stamp `do_POST` took before it. `receipts` and `reads`
are histories of what was answered, reset with the process.

**InboxContract** is what the inbox promises to requestors and workers together,
without threads, clock or tokens: a slot expects one callback, takes one body, keeps
it, and shows no other; slots are lost all at once or not at all. `Inbox` implements
it; `Coordinator` assumes of its inbox, whose slots it builds from the same operators
of `Slots`, no more than that.

**Coordinator** is the composition. A coroutine of `co` is identified by session,
role and job (`task`: the entry of `_tasks`; `reader`: a call of `result()`), and
its `pc` names the statement it runs next or the call it awaits:

| Code | Actions |
|---|---|
| `main`, the lifespan, `resume_dispatched` | `Open` (SELECT), `Reconcile` (UPDATE, tasks spawned) |
| `shutdown`, death of the process | `Shutdown`, `Crash` |
| `start`, `_execute_dispatch` | `Start`, `BeginDispatch`, `RegisterArrives`, `RegisterReturns`, `RegisterFails`, `PostRefused`, `PostSends`, `PostReturns`, `PostUncertain` |
| a thread that outlives its task | `OrphanPosts` |
| `_execute_poll` | `BeginPoll`, `CheckDeadline`, `FetchStored`, `FetchNothing` |
| `_settle` | `SettleInvalid`, `SettleOk`, `SettleError`, `SettleUnwritable` |
| `store.advance`, direct or by `_settle_state` | `AdvanceRead`, `AdvanceWrite`, with `AfterAdvance` and `AfterRefusal` for the control flow after it |
| `result`, `_ready_result` | `ReadResult`, `RefetchReturns`, `RefetchFails`, `Revalidate` |
| the `except Exception` clauses | `ClientRaises`, `JournalRaises`, with `handlers` counting the clauses around the statement |
| webhook, worker, inbox, clock | `WebhookAccepts`, `WorkerSubmits`, `InboxRestarts`, `InboxChanges`, `Tick` |

One event loop per process is `HasLoop`: between two awaits no other coroutine of
that session moves. A `to_thread` call has its effect outside the loop (`PostSends`,
`RegisterArrives`, `FetchStored`), and the coroutine sees the outcome later. Between
statements, other sessions move freely. A registration and a callback take effect on
a stamp of any time before now, since the inbox reads its clock before it waits for
its lock (`inbox.py:162` and `274`): a body may be stored after its deadline.

`Disruptions` names what the environment may do: `crash`, `shutdown`, `inbox` (lost
slots and failing fetches), `raw` (an HTTP exception that no clause names),
`journal` (SQLite raises), `redirect` (the webhook redirects the POST) and `swap`
(an inbox that shows another body). Callback bodies have a kind: `ok`, `error`,
`unwritable` (valid, but SQLite refuses its text), `invalid` (rejected by
`validate_result`) and `opaque` (not JSON, or too long to be read back);
`CompletedAt` is compared with the clock at each validation.

**RequestContract** is the abstract promise, without journal, sessions or inbox:
one POST at most, one pinned body, `failed` only if nothing was sent or the worker
refused, and no outcome that is taken back other than by a dispute.

**ResultBody** says what a body holds. A text is its length, how many of its
characters are wide, and what the rules look for in it (`Marks`).

| Code | Operators |
|---|---|
| `validate_result` and its helpers (`deliver.py`) | `SafeText`, `CleanGoal`, `ValidAnswer`, `ValidSources`, `ValidError`, `Accepts`; `Validated` adds the time |
| the limits of `do_POST` and of `InboxClient` (`inbox.py`) | `Stored`, `Readable` |
| the text parameters of `record_result`, `record_error` (`jobs.py`) | `Recordable` |
| which of these a body meets first | `KindOf` |
| `docs/result-delivery.md`, "Result body" | `Documented`: identity, time and shapes (`Schema`), and no claim, credential or control character anywhere in the body |

`Documented` is what the document says and not what the code does. The two differ, so
the rules are compared with it up to named differences: `Overlooked` is what
`validate_result` does not look for (a claim of a write anywhere but in the answer,
control characters from U+007F on, anything in keys and in fields it does not know),
and `Tolerated` is `Documented` but for that, and but for the length of a source that
is an object, whose texts the code bounds one by one. The other way round, the code
rejects some bodies the document does not speak of: empty or padded texts, and values
that are no text (not `Tidy`), and answers beyond bounds of its own (not `Brief`).
`Compliant` is `Tolerated`, `Tidy` and `Brief`: the requestor has no reason to turn
such a body down.

**Delivery** puts these bodies into the coordinator: `Kind` and `CompletedAt` are
what `ResultBody` says of the contents, so `Delivery` states of the journal and of
the answers what is documented of the bodies themselves.

**JournalOpen** is the start of processes on one journal, a statement at a time:

| Code | Actions |
|---|---|
| `_private_path` | `FindDirectory`, `MakeDirectory`, `FindFile`, `CreateFile` |
| `JobStore.open` | `ReadVersion`, `DropJobs`, `DeleteVersions`, `InsertVersion`, `CreateJobs`, `CheckColumns`, `Commit` |
| `create_server`, `create_request`, `close` | `Serve` and `Untrusted`, `Record`, `Close` |
| failures | `TimesOut` (the lock is held for 5 seconds), `DatabaseFails`, `Crash` |

Python's `sqlite3` opens a transaction at a DELETE or INSERT only: `writer` is who
holds the write lock since then, `draft` what its transaction has written. Every
statement before it, the DROP included, takes effect at once. `Init` is a path with no
journal, or one with any rows of `schema_version` up to `MaxRows`, any table and any
requests. `calm` is a history: nothing outside the program has failed yet, and the disk
was none that every start must refuse (`RefusedOnSight`: an unsafe path, or a table
without the columns under the mark of the current version, `jobs.py:171-174`).

**Startup** adds what precedes: `Config.load` is `Begin`, `ReadConfig`,
`ReadSession` and `ReadEntry` of the webhook's and then the inbox's entry, any of
which may end in `LoadFails`; then `OpenJournal` and `CreateServer`. An operator may
`Rotate` either entry between two runs of the Vault CLI. `cred` remembers which version
of each entry a process has, `past` which versions were in Vault together.

## The runs

Deadlock is checked for the journal and the inbox. The other runs say
`CHECK_DEADLOCK FALSE`: there the jobs of an instance and its clock, or the
processes to start, do run out, and a system that has settled everything may stop.

| Run | Instance | Shows |
|---|---|---|
| `MCJobStore` | 1 job, 3 connections, 2 bodies, 2 deadlines | No interleaving of SELECTs and UPDATEs leaves the state graph (`FollowsStateGraph`), replaces evidence (`EvidenceFrozen`) or makes a row ready without its digest. |
| `MCInbox` | 2 keys, tokens, bodies and handlers; clock to 2; 2 receipts | Every answer stays true: 200 means stored (`AcceptedIsStored`), 409 means another body is (`RejectedForAnother`), a stored body came from the slot's worker and in time, all reads agree, a registration is not replaced, and a worker that repeats what it was answered 200 for, stamped by the deadline, is answered 200 again (`ReplayAnswered`). It implements `InboxContract` (`InboxSpec`). |
| `MCSessions` | 1 job, 2 sessions, 4 bodies, one of them postdated; crash, shutdown, inbox, raw | `failed` is certain, `dispatched` was accepted, the pinned digest is the stored body's, no open job lacks a task while every process is up, no packet leaves unjournaled; an answer is withdrawn only after the slot was lost or the body rejected as postdated (`ReadyUntilLost`); a rejection by a poll has its reason (`RejectionHasReason`); the journal is used as `JobStore` allows (`StoreSpec`), and no callback is registered for a packet that was sent or is on its way, even after the inbox forgot the first registration (`RegistersBeforePost`). |
| `MCHostile` | 1 job, 2 sessions, 4 bodies; every disruption | The inductive invariant, one POST, pinned answers, and the refinement of `RequestContract` (`ContractSpec`), with a lying inbox and a failing journal. A task leaves its job open in one case only, the journal refusing the write of its last handler (`TaskOutlivesJob`); each step of a coroutine brings it nearer to its end (`CoroutinesEnd`). |
| `MCDelivery` | 1 job, 2 sessions, 6 named bodies (answer, postdated, refusal, a credential among the sources, wide characters, a lone surrogate); crash, shutdown, inbox, raw | Of all `MCSamples` none is accepted that is not `Tolerated`, and none rejected that is `Compliant` (`RulesAreDocumented`); what is recorded and what is answered fits the body in the same sense (`RecordFitsBody`, `AnswersAreTolerated`); `ready` stands for an answer, `failed` for an error, `conflict` for a body that breaks the contract, unreadable and unrecordable bodies included (`OutcomeFitsBody`); a worker that follows its packet, and keeps the three rules the packet does not tell, is not rejected (`ToldIsAccepted`). Liveness: each job settles, however often processes stop, if from some time on those that ever run stay up (`EveryJobRecovers`). |
| `MCStartup` | 2 processes, 1 request, 2 versions of each Vault entry; any path, mark of up to 2 rows, table and rows | What changes the mark writes the one current row together with the current table (`MarkIsSound`); once marked, and with no earlier reader under way, the journal is kept (`SettledJournalKept`); starts do not all refuse one another unless something failed or the disk is `RefusedOnSight` (`NotAllRefused`); nobody serves with part of the credentials, or with versions of the two entries that were never in Vault together, unless the webhook's was renewed before the inbox's between the two reads (`ServesConfigured`); every start ends (`EveryStartEnds`). |

The other six runs check one statement of the documentation or of a comment each
and find it violated; see [below](#where-code-and-documentation-disagree).

Bounds. A row of the journal and a slot of the inbox meet only their own job or
key, so one job shows the races on it; `MCInbox` has a second key, and what is
proved holds for any number of jobs. Two sessions, and two processes at a start,
are the fewest that race; two `ok` bodies tell the pinned one from another.
`Lifetime` is 2 ticks and `MaxNow` 2 or 3, so that a callback can come before, at
and after a deadline, be completed in the future (`Postdated`, the body `dated`),
and the polling can run past it; `Start` is refused when its deadline would lie
beyond `MaxNow`, so that every deadline can pass. `MaxPosts` bounds only how many
different receipts are remembered, `MaxRotations` how often Vault's entry changes:
once for each is enough to mix, in either order; `MaxRows` how many rows of
`schema_version` lie on the first disk: two already differ from the one the code
writes. `MCSamples` has lengths at and one beyond each limit, and each mark where a
rule looks for it and where none does, in every combination of answers, sources and
errors, and of the other fields; the theorem about it holds for any sample. Sessions, jobs, keys and the like are symmetric: symmetry is used in
safety runs alone.

## Fairness

`FairSpec` (Coordinator) asks for weak fairness of three things: `Tick` (time
passes), `Reconcile` (a process that opened enters its lifespan) and `Steps(c)`,
the steps of each coroutine. An event loop runs a coroutine that is ready, and
every call it awaits ends: `urllib` is called with timeouts, and `asyncio.sleep`
ends by itself. The sleep's length is left out: a coroutine that sleeps is at
`check`, and when it wakes is open. Nothing is asked of the environment: no session
need be opened, no packet accepted, no callback sent. `FetchNothing` and
`CheckDeadline` may go round for ever as far as fairness goes; it is the deadline
and `Tick` that end them. `EveryJobRecovers` assumes that each process is from some
time on up, or never ran: a job whose process stays dead is settled by nobody, as
`MCOrphan` shows.

`FairStartup` asks for weak fairness of `Proceeds(p)`, the steps of a start: a
process runs, `subprocess.run` is given 20 seconds for the Vault CLI, and a
statement waits 5 seconds at most for SQLite's lock (`TimesOut`, without which a
start might wait for ever on another that stays in its transaction). Nobody need
start, serve, crash or rotate.

## The proofs

`tlapm` checks these modules from nothing; no assumption is made other than the
named ones about the constants (`CallbackAssumption`, `DeadlinesAssumption`,
`InboxAssumption`, `CoordinatorAssumption`, `DeliveryAssumption`,
`JournalOpenAssumption`, `StartupAssumption`), which TLC evaluates in the runs, and,
where a theorem says so, that a named disruption does not occur.

- **JobStoreProofs**, for any jobs, connections and deadlines: types, a ready row
  has its digest, the state graph, frozen evidence. What carries them is that a
  pending `advance` was legal for the state it read, that the UPDATE requires that
  state, and that evidence once written is not cleared, so a digest that was there
  at the SELECT is there at the UPDATE.
- **InboxProofs**, for any keys, tokens, bodies and handlers: every property of
  `MCInbox`, `Spec => InboxSpec` among them. The invariant relates each receipt to
  the slot it was given for.
- **RequestContract**, in the module itself: what the contract means, from its
  steps alone: all answers of a job are one body, and a failed job was never sent
  or was refused by its worker.
- **CoordinatorProofs**, for any sessions, jobs, bodies, lifetimes and under any
  disruptions: `IInv` is invariant, and from it types, `AtMostOnePost`,
  `PostIsJournaled`, `RegistersBeforePost`, `FailedIsProven` and `AnswersArePinned`. Then
  `TaskOutlivesJob` and `CoroutinesEnd`, under any disruptions too, and, if no
  statement fails on the journal (`Reliable`), `OpenJobHasTask`.
- **CallbackProofs**: `DispatchedIsAccepted` if the webhook does not redirect
  (`Direct`); `DigestPinsStoredBody` and `ReadyUntilLost` if the inbox shows what it
  stored (`Faithful`); `RejectionHasReason`. And under which conditions two
  statements hold that the runs refute: `PinnedIsNotAbandoned` with one session that
  neither dies nor has a statement fail (`Solo`), `RetriedUntilDeadline` if moreover
  no exception comes but those the code names (`Foreseen`).
- **Refinements**: `Spec => ContractSpec` and `Spec => StoreSpec`, and by them what
  was proved of the contract and of `JobStore` holds of the coordinator
  (`ContractMeans`, `JournalKept`).
- **DeliveryProofs**, for bodies of any contents: the rules accept only what is
  `Tolerated` and all that is `Compliant` (`RulesAreDocumented`);
  `AnswersAreTolerated`; and, if `Faithful`, `RecordFitsBody`, `OutcomeFitsBody` and
  `ToldIsAccepted`: with `Untold` the instructions are complete, so the three rules
  it names are all that a worker has to guess. What `MCClaim` refutes so holds but
  for what is `Overlooked` and for the length of sources that are objects.
- **StartupProofs**, for any processes, requests and rotations: types,
  `MarkIsSound`, `SettledJournalKept`, `NotAllRefused` and `ServesConfigured`. A
  step of `Startup` is one of `JournalOpen` or leaves it alone
  (`StartupImplementsOpen`), so what holds of the journal holds of whole starts.

The argument of `CoordinatorProofs`. `AtMostOnePost` is not inductive: nothing in it
says that the coroutine about to POST is alone. `CoordinatorInv` therefore treats
the permission to send as a token. `MaySend(me)` holds of a coroutine from its
creation to its POST, and also while it settles the job as `failed`, since that
outcome vouches that nothing will be sent. `OneSender` says that one
coroutine of a job at most holds it; an orphaned thread holds it instead of, and
never beside, a coroutine. `Fits` says, per program counter, what a
coroutine knows of its job's row and of what was sent: one that may send has a job
with no POST, one that polls or settles an answer has a job with one; one at `post`
has a row `dispatching`, or made `uncertain` by another session's reconciliation,
and never a `failed` one, because only the holder of the token writes `failed`
before a POST. `RowConsistent` says the same of the row: `dispatched`, `ready` and
`conflict` follow a POST, so a task that resumes polling never sends, and whatever
was answered is the recorded digest. A reader that awaits the inbox knows that its
job is `ready`, or disputed meanwhile, and holds the digest of its row. An absent
job has no coroutine, which is why `Start` may hand out the token. The proof is one
lemma per action; `store.advance`, which every path shares, is settled once
(`JobStep`, `CoroutineStep`).

Four more invariants rest on `IInv`. `TInv` is about being forgotten: it says of
each program counter whether a handler is left that would settle the job, that no
UPDATE of an open row is stale, and that an open job is `Watched`: by a session that
is down, one about to reconcile it, or a task. A failing journal breaks only the
last, since a handler's own write fails too; hence `Reliable` there, and nowhere
else. From the rest of `TInv` follows `TaskOutlivesJob`, whatever fails. `CInv` is
about the callback: for as long as the inbox keeps its slot, every coroutine and the
row speak of the one body in it (`Knows`, `Agrees`), whichever session fetched it and
whatever happened since; a row once rejected as postdated keeps that reason, which is
how `ready` can end in `conflict`. `LoopInv` is about the event loops: one coroutine
of a session at most is between two statements, so a session is one connection of
`JobStore`. `SoloInv` says why one session keeps what two do not: while a job is
`dispatched`, a recorded digest means that its task is about to write `ready`, and a
task about to give up has no digest and, if `Foreseen`, a deadline behind it.

`CoroutinesEnd` is the part of liveness that needs no fairness. `Distance` counts, for
each program counter, the steps that may still follow, every handler left adding the
few by which it may settle the job. No step of anybody else increases it, each of a
coroutine's own decreases it, and the one exception, back from `fetch` to `check`,
is closed by the deadline. `EveryJobRecovers` would follow from it and from `TInv` by
the fairness of `Steps` and `Tick`, an argument that needs ENABLED.

For `ContractSpec` there is one lemma per visible step: `Start` requests, `PostSends` and
`OrphanPosts` post, `SettleOk` pins, `SettleError` refuses, `Revalidate` answers,
`Reconcile` gives up every interrupted job at once, and an `AdvanceWrite` completes,
fails, gives up or disputes.

The argument of `StartupProofs`. Whoever has dropped the table, or holds the lock,
has nothing older on the disk (`DropPrecedes`); whoever holds the lock is within a
rebuild (`WriterInRebuild`), and its draft has no version row until it writes the one
(`DraftSound`). That not all starts are refused is a chain of witnesses
(`SurvivorInv`): who comes too late to make the directory or the file has behind it
the one that made it, and who finds no table has the one that dropped it, which
holds or will take the lock and is not refused. For the credentials, each stage of a
load says what has been read (`LoadedSoFar`), and versions only grow, so a webhook
entry that is still the one read goes with whatever inbox entry is read next.

TLC checks `IInv` in `MCHostile`. The others were found true by TLC before they were
proved: `CInv` and `TInv` on the same kind of instance, `SoloInv` on one session under
every disruption that `Solo` leaves, `SurvivorInv` with three processes.
Only model-checked: liveness (`EveryJobRecovers`,
`EveryStartEnds`), whose proof needs ENABLED.

## Where code and documentation disagree

Each has a run of its own in the smallest environment that shows it.

| Run | The code | The statement |
|---|---|---|
| `MCDeadline` | `_execute_poll` tests the deadline before it fetches: a poll that wakes late gives up an answer that is in the inbox. | `docs/mcp-coordinator.md`: a valid callback makes the job ready; uncertain is for a deadline with no callback. |
| `MCTransient` | Only `InboxError` is retried; another exception of the HTTP client settles the job at once. | The comment in `_execute_poll`: transient failures are retried until the deadline. |
| `MCTwoPollers` | A session that starts polls jobs a live one polls; the loser of `record_result` settles `uncertain` before the winner's `advance`, and a pinned answer is lost. | `docs/result-delivery-plan.md`: the contract holds under concurrent dispatchers. |
| `MCOrphan` | Only the start of a session takes up dispatched jobs: those of a session that died beside a living one stay open past their deadline. | `docs/workers.md`: after 45 minutes the requestor marks it uncertain. |
| `MCClaim` | Claims of a write are looked for in the answer alone (`deliver.py:282` and `289`): a body whose summary, query or source makes one is handed out. | `docs/result-delivery.md:67-68`: the requestor rejects a body that claims a write action in the first person. |
| `MCReplay` | `Inbox.submit` compares the time before the digest (`inbox.py:186`): a worker that repeats a stored body after the deadline is answered 401. | `docs/result-delivery.md:32-33`: an identical replay is accepted with 200. |

Further disagreements, likewise with a statement of the documentation, that no run
shows:

- `urllib` follows a POST that is redirected (301, 302, 303) with a GET, and the 2xx
  of that page counts as accepted (`webhook.py:70`), though
  `docs/mcp-coordinator.md:46-48` says that a dispatched job's POST succeeded.
  `DispatchedIsAccepted` holds without redirection, and is proved under `Direct`.
- A text answer of more than `ANSWER_STRING_MAX` (4000) characters is rejected
  (`deliver.py:288`), and so is an answer that sounds like a post, or a control
  character; the packet's instructions say none of this, though
  `docs/result-delivery.md:4-7` says they carry the complete contract. These are the
  three cases of `Untold`.
- A valid callback can be lost: one that cannot be read back is polled for until the
  deadline, one that SQLite cannot bind is settled at once, and both end `uncertain`
  where `docs/mcp-coordinator.md:29-30` says `ready` or `failed`. A body is stored by
  its own length and read back escaped and wrapped: one of 19,000 two-byte characters
  is stored with 38 KB and needs 114 KB to be read, and plain text within some 170
  bytes of 64 KiB meets the same end. A lone surrogate in a summary or an error text
  passes `validate_result` and not the binding.
- A stored body that is invalid but unreadable, or no JSON object, ends `uncertain` in
  the same way, where line 31 says `conflict`.
- Control characters from U+007F on pass everywhere, and keys of objects and unknown
  fields are neither checked nor counted (`Overlooked`); a source that is an object
  may have several texts of 512 characters each, where
  `docs/result-delivery.md` bounds the source.
- A conflict found by `result()` records no reason, though
  `docs/mcp-coordinator.md:70-71` says that a conflict reports its recorded one.
  `RejectionHasReason` is about the conflicts that a poll finds.

Surprises seen while modelling:

- Two first starts, or an upgrade beside another start (`jobs.py:159`): a start that
  read the version before another committed its own still drops the table, with what
  the other already recorded in it. `SettledJournalKept` says from when on the
  journal is safe.
- The loser of two `mkdir` calls (`jobs.py:95`) gets a `FileExistsError` that `main`
  does not name: a traceback, not the refusal with status 2.
- `clean_goal` lets through a prompt with a control character, or one that looks
  like a credential, which `validate_result` then rejects as the `query` the worker
  was told to repeat: such a request can only end in `conflict` or `uncertain`.
- `reconcile_restart` marks the jobs of live sessions uncertain too, though its
  docstring speaks of interrupted ones.
- A stop between `record_result` and `advance` leaves a dispatched row with a
  digest; the resumed poll cannot record again and settles `uncertain`.
- A ready job is disputed when the inbox has restarted and stores nothing, though
  nothing was changed.
- An operator who renews the webhook's entry and then the inbox's, between the two
  reads of a start (`config.py:156` and `161`), makes it serve with the old webhook and
  the new token.
- If the journal itself fails in a handler, the job stays open until the next
  start.

## What is not modelled

- The packet builders, callback paths, URLs and origins: pure text. Prompts, packet
  text, tokens and hashes in the coordinator, error messages.
- What the patterns of `validate_result` match: whether a text holds a credential or
  a claim is a mark of the text.
- URL, key and credential checks of the configuration, the inbox client and the
  webhook transport: they refuse before anything is sent, which is `LoadFails`,
  `RegisterFails` and `PostRefused`.
- `get` and `list_open` as operations of their own: they only read.
- The public hygiene scanner and the package metadata: no state, no interaction.
- A clock that is set back. A register call that outlives its cancelled task: it
  can only add a slot that nobody was told of.
- A second concurrent `result()` of the same session on the same job: it runs the
  same steps as the reader of another session.
- An inbox that answers with a malformed digest; it settles as `uncertain`, as a
  failed `record_result` does.
- A connection that fails before a byte is sent counts as a POST: `dispatch` cannot
  tell it from a lost answer either.
- Someone who removes or replaces the journal's file while processes run.

## Plan

Done: Callback, Journal, JobStore, Slots, InboxContract, Inbox, RequestContract,
Coordinator, ResultBody, Delivery, JournalOpen and Startup, each with its runs, and
the proof modules above. What could follow:

1. The conditions under which the other refuted statements hold, as for
   `PinnedIsNotAbandoned`: a deadline without a callback needs a poll that never wakes late.
2. For starts what `CoroutinesEnd` is for coroutines, so that of `EveryStartEnds`
   too only the fairness is left to TLC.
3. `Startup` composed with `Coordinator`, so that a table dropped by a racing start
   takes the rows of live coroutines away.
4. Liveness as theorems, once a prover for ENABLED is at hand.
