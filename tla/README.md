# Verification of the Ordivon Harness

TLA+ models of `src/src/ordivon_harness`: the SQLite Journal of a Harness Run
that several processes share, what is built over it, the loop that drives a Run,
and what composes Runs. TLC checks small instances of every module; TLAPS proves
for all of them every invariant and the refinement that the passing runs check.

## Inventory

The Harness executes Agent Runs. Everything durable lives in one *authority
root*: an SQLite database and a directory of content-addressed objects. Any
number of processes may open it; they share nothing else.

| component | state | operations | what is hard |
|---|---|---|---|
| Journal (`sqlite_store.py`, `store.py`) | tables `runs`, `run_events`, `run_leases`, `caller_bindings`, object references; `objects/` | `create_run`, `put_object`, `acquire_run_lease`, `release_run_lease`, `append_events`, `doctor` | racing workers, expired leases, answers lost and repeated, publication before admission, two-statement reads |
| Provider Calls (`sqlite_run_store.py`, `sqlite_agent_bridge.py`, `provider_lifecycle.py`, `loop.py`) | the head Provider record folded from the Events, the Snapshot, each worker's retained record | claim, mark dispatching, complete, fail, retry, replay, pause, resume | a physical call that may or may not have happened; claims that expire; crashes between record and call |
| Tool steps (`sqlite_run_store.py`, `sqlite_runtime_bridge.py`) | head Tool Step, dispatch fence, receipt chain; the external Runtime's jobs | prepare, assert fence, dispatch, record receipt, reconcile | as above, with a fence checked before and not at the dispatch |
| Working Set (`sqlite_run_store.py`, `working_view.py`, `cognition_admission.py`) | chain of Working Set revisions, caller ingress, the view a request was asked on | seed, transition, promote, replay of each | revisions beside open Provider Calls, proposals that race or are repeated |
| Run recorder (`independent_result.py`) | trace segments, recovery assessments, the terminal receipt | record segment, result, assessment | computes from Events read before the lease |
| Backup (`store_ops.py`) | a copied database, copied objects, a manifest | backup, verify, restore | copy of a live store in several reads |
| Agent loop (`loop.py`, `standalone.py`) | the Run state: budgets, counters, messages; the batch or program in hand | run, resume, recover a Tool batch | every budget and early stop, and which of them survive a crash |
| Tool programs (`tool_program*.py`) | a program, the Observations of its steps | admit, derive the next call, recover the cursor | what can be recovered from what Privacy kept |
| Provider adapter (`deepseek.py`, `model.py`) | a thread, its asyncio task, the request; the offer of Tools and controls | start, poll, cancel, parse | a cancel that overtakes the thread; answers that mix choices |
| Deliberation (`deliberation.py`) | one token, deadline and budget for two phases | deliberate, expose Tools, run the loop | what was spent or left on the wire by the first phase |
| Mandate and strategy (`mandate.py`, `strategy_selection.py`, `agent_run.py`) | none: what the caller hands in | derive consumption, select, admit, compile, compose | stale, foreign or repeated evidence |
| Repair bridge (`sqlite_repository_repair_bridge.py`) | Observations of this process and of the Snapshot, the Tool step, the Workspace behind the Runtime | execute, reconcile, resume, validate a conclusion | patches that commit late; a gate over evidence of several processes |
| catalogues, other bridges, CLI, records, telemetry, application scripts | immutable data, I/O | | not modelled: see below and `PROJECT.json` |

The workers call the continuity store, which appends Events to the Journal under
a short lease; every head (Provider record, Tool Step, Snapshot, Working Set) is
a fold over the Events, so each kind of Event that clears a head is part of the
interaction. The Provider and the Runtime are called with no lock held. What makes
each component correct is listed, hazard by hazard, in `PROJECT.json`.

## Modules

* `RunEvents` - Contracts, Events, statuses, what a well-formed batch is. No state.
* `RunLedger` - abstract specification: one ledger per Run, opened once, extended
  by whole batches of new Events, closed by a terminal one.
* `HarnessJournal` - the Journal with its workers. One action per transaction
  (`CreateNew`/`CreateAgain`, `Acquire`/`Reacquire`, `Release`, and
  `SubmitNew`/`SubmitReplay`/`SubmitRefused` for `append_events`) and one per step
  outside any (`PutObject`, `Prepare`). `run`, `log`, `lease` are the tables,
  `hand`, `req`, `reply` what a worker process remembers. The Journal reads no
  clock: callers pass one, so every comparison with a time is against any member
  of `Readings`, and a lease may be late for one worker and live for another. A
  worker that takes no further step has crashed; `Submit` again is the retry
  after a lost answer.
* `JournalDoctor` - `_validate_run_history` as two reads beside the writers.
* `Maintenance` - the doctor and the backup beside the workers of the Journal: a step
  is one of a worker, of the doctor or of the backup. Neither writes to the store.
* `HarnessJournalProofs` - theorems about `HarnessJournal` and `Maintenance`.
* `ProviderCall` - the Provider Call lifecycle of a Run without Tools. `head` is
  the current record as `_heads` folds it; `source` counts Snapshots; `me[w]` is
  the process's place in the loop with the record it retained; `calls` is a
  history variable, the physical invocations. Taking the lease, reading the head
  and appending are one step: `LeasesPinHeads` says that a lease row fences the
  current head, so nothing is admitted between the acquisition and an append
  that succeeds. Losing the lease or not getting it is `Refuse`. Branches no
  worker of this loop reaches are left out: claiming a record one already holds,
  and settling an outcome twice. A worker resumes with the same caller input as
  the others; another input is refused like a state that differs. Request
  content and elapsed time are not modelled: the comparisons on them only refuse
  more, and `Refuse` is always possible.
* `ToolStep` - the Tool calls of one Provider result, each prepared in the
  Journal, dispatched to the Runtime under the fence of its preparation, and
  receipted. An intent is a call and the time its worker created it; the client
  request identity, by which the Runtime's Jobs are looked up, depends on the
  call only. `head` is the current step, which is also the one the Snapshot holds
  open, so that a later worker enters the batch by recovering it. The Runtime is
  external: a request lands, is refused, or stays on its way for ever, whether or
  not its worker still waits. `AssertFence` and `Dispatch` are two steps, as in
  the code. The receipts of the observation bridge are all terminal.
* `ToolStepProofs` - theorems about `ToolStep`.
* `StoreBackup` - a backup taken beside the workers of `HarnessJournal`: the
  database is copied in one read transaction, the references of the live store
  are listed in a later one and their objects copied, and only what is published
  already is verified; a restore needs a verified backup and a full doctor of the
  copy. `backup.before` is a history variable. A doctor that alarms is `Abandon`.
  Lease rows of the copy, and damage to files once published, are not modelled.
* `RunRecorder` - `IndependentRunRecorder`, in the processes that executed or
  examine one Run. Segments, assessments and the receipt are each computed from
  Events read before the lease they are appended under, so reading, leasing and
  appending are separate steps. A Trace, which is a digest, stands for the result
  it belongs to; `covers` is a set because the order of the segments is that of the
  history. `Work` is any other Event. A lease taken over is one that is late. Every
  check on retained objects, times and privacy only refuses, and `Refuse` is always
  possible before an append. `MaxEvents` stops other work and new assessments,
  never a recording under way.
* `RunRecorderProofs` - theorems about `RunRecorder`.
* `WorkingSet` - extends `ProviderCall`: a turn is asked on a view of the current
  committed revision, and its answer may propose the next. `sets` is the chain of
  revisions; a revision is known by its place, which stands for its digest; `bound`
  is the revision the head Provider record was claimed on; `stage`, `view`, `plan`
  are what a worker knows. A proposal is admitted as replan, change and commit in
  one batch, and clears the head record, as the fold does. Documents and caller
  messages are model values; sizes and rendering are left out. `wish` is the proposal
  of the recorded answer; the model may propose anything legal in form. `Revise` is a
  client of the store that revises the Working Set outside any loop.
* `WorkingSetProofs` - theorems about `ProviderCall` and `WorkingSet`.
* `ToolProgram` - pure operators: when a program is well formed, the call its next
  step becomes, and the two recoveries of its cursor, from outcomes and from
  durable evidence with or without contents.
* `AgentLoop` - `OrdivonAgentLoop._run` of one Run, one process after another. `m` is
  the counters of the process, `prov` and `snap` the durable record and Snapshot,
  `steps` the durable Tool steps. Simplified: a process dies before the next starts
  (races are the subject of `ProviderCall`, `ToolStep` and `WorkingSet`); a failed
  call and the claim of its retry are one step; messages are reduced to what the
  loop reads back; a resume that Privacy refuses, and a loop without any Tool
  surface, are left out. Tool programs are admitted although `StandaloneAgentRunner`
  does not offer them by default. `mode` chooses the composition: deliberating,
  projecting its turns from a Working Set, and with the clock in its request.
* `AgentLoopProofs` - theorems about `AgentLoop` and the programs it runs.
* `ProviderHandle` - one physical call: the thread of `_HttpxPostHandle` with its
  task, from construction over connect, send and receive to close; `cancel()` as
  its two steps; the `urllib` transport that blocks instead. `meter` counts what was
  sent and spent in fact. The Provider is external.
* `TurnAnswer` - pure operators: what the adapter offers in a request, and
  `_parse_response` over one raw answer; and `OneChoice`, what an answer may become.
* `Deliberation` - `run_lifecycle_bound` over both: a deliberation call, the
  remainder of the budget, the exposed Tools, and the loop as far as it spends.
  Left out: the `PROVIDER_` prefix of codes, the pooled client's blocking `post`, the
  progress gate of the loop. A call the grant rejects is counted by its name.
  Usage that an answer does not report is not charged by the code, and is counted
  apart (`meter.hidden`).
* `DeliberationProofs` - theorems about `Deliberation` and the parser.
* `Mandate` - attempts under Mandates. The only state is `runs`, all attempts there
  are; contexts, selections and compiled attempts are values the caller holds, so
  they are quantified over each time: what an action is given may be old, foreign or
  from another version. Digests are equality of records. Reported usage may exceed
  a budget by `Overshoot`, as a Run's last answer may.
* `MandateProofs` - theorems about `Mandate`.
* `RepairBridge` - the repository repair bridge and its Workspace: reads, patches or
  edits, checks and diffs, each with answer, lost answer, stop, or crash; late
  patches; the reconciliation of each; resume from the Snapshot with the reconciled
  step; the conclusion gate. `done` is a history variable, what happened in fact. The
  Runtime is external: a patch is persisted, then applied, then committed. Simplified:
  one process at a time, the two files the gate asks for, and the completion
  Artifact reference of a conclusion is a Boolean.
* `RepairBridgeProofs` - theorems about `RepairBridge`.
* `MCHarnessJournal`, `MCMaintenance`, `MCProviderCall`, `MCToolStep`,
  `MCRunRecorder`, `MCWorkingSet`, `MCAgentLoop`, `MCDeliberation`, `MCMandate`,
  `MCRepairBridge` - instances for TLC.

Operators whose comment starts with "Mutant" are plausible bugs; putting one in
the place of its neighbour makes a property of the runs fail.

## Runs

| run | instance | shows |
|---|---|---|
| `journal_race` | one Run, two workers, two clock readings, five batches that clash, overlap in part, pause, fail before their time, end the Run, and go on after its end | row and history agree, leases fence the head, references are published, acknowledgements last, refusals are honest, the ledger is implemented |
| `maintenance` | two Runs, three Contracts competing for Runs and callers, identities and causes reused across Runs, one writer and one clock reading, and the doctor or a backup beside it | identities are admitted once; an alarm of the doctor, or a rejected backup, means that the store was written to since; a verified backup is one moment of the store and restores |
| `provider_call` | three workers, two turns, one retry, unlimited pauses (bounded by the workers) | no blind redispatch, open calls stay visible, records tell the truth, turns follow answers |
| `cognition` | two workers, two turns, no retry, two attempts, one slot, one document, one caller message, three revisions by a client | the view of a call that is out is held, every revision has its evidence, a request is not made twice, every worker ends |
| `tool_step` | two workers, two clock readings, a batch of an exec and a read | a step is dispatched once, receipts are true and unique, the batch goes on in order and as recorded, every worker leaves it |
| `tool_dispatch` | the same | **violated**: one call is prepared and dispatched by two workers, at different clock readings |
| `agent_run` | three processes in turn, a plain composition and one with every option, three model calls, one retry, two Tool calls, one correction of each kind, gates after one observation-only and two idle turns, eleven kinds of answer among them a program of two dependent steps | no effect past a limit whichever process sends it, the Tool budget is global, a Run concludes only over known effects, a program's cursor is durable, every process leaves the loop |
| `run_recorder` | two workers, three Traces of which one only pauses, one assessment | a receipt covers one moment of the Run and its own execution, answers agree with the end of the Run, also repeated ones, segments and assessments count no predecessor that is not there |
| `deliberation` | both transports, with and without an estimator, budgets of one or three calls and one, three or five tokens, answers that cost one or two and report it or not, and mix Tools, controls and a conclusion, whichever controls a turn offers | an answer is one choice or none, "not dispatched" is true, both phases fit the budget, a cancelled thread ends |
| `mandate` | two versions of a Mandate, two profiles, three state roots, three attempts | attempts of a Mandate fit its envelope together unless one was started twice, and build on evidence of that very version |
| `repair` | six Tool calls by patches or by edits, two versions of a file | a repair that completed happened, a rejected patch stays out |
| `repair_gate` | the same | **violated**: a patch that reconciliation observed is not observed by the conclusion gate |

Bounds. Two workers per Run suffice for the Journal: its guards compare a
request with one row, and a third worker adds only another stale handle. Two
readings give live, late, and live-for-one leases. Provider Calls take three: a
stale holder, its successor, and one that starts from what both left. Two turns
give a first and a next turn and a Snapshot after either; one retry gives a
generation that succeeds a failure and a budget that runs out. A Working Set takes
two workers and three revisions: the seed, its commit and one proposal by another
hand while a call is out; retries are already in `provider_call`. Tool steps take two
workers, the dispatcher and the one that reconciles, two readings, so that their
intents may be equal or differ, and two calls, since an exec may be looked up, a
read not, and the batch must go on between them. A loop takes three processes, so
that one recovers what another recovered and left; every counter is small enough to run
out and one larger than what a single step spends. The recorder takes two
workers, one to record between the reading and the lease of the other, and three
Traces: a pause, the result that ends the Run and one that comes too late. A backup
compares moments of the store, and one worker moves it as well as two, with one
reading: late leases are the subject of `journal_race`. Doctor and
backup do not touch what the other reads, so the run leaves out where both are at
work (`OneAtATime`). Six Tool calls
are the fewest that complete a repair by edits, and leave one to spare for patches.
Three attempts give a lineage, its fork and one that comes after. The state space of every other
run is finite without constraints; the workers never restart, a restart
being another worker or, in `AgentLoop` and `RepairBridge`, the next process.

Fairness. Safety needs none. `FairSpec` of `ProviderCall` and `ToolStep` and
`FairSelectionSpec` give each worker weak fairness on its own
steps: a process that is not killed goes on, and each step is one the code takes
without waiting for another worker (lease waits have deadlines, then refuse). It
does not force `Start` or `Enter`, and nothing is assumed of the Runtime.
`FairLoopSpec` is the same for the one process of `AgentLoop`: the Provider's answer and
the Runtime's are part of its steps because both are awaited with a timeout; a
crash remains possible and leaves the loop too. In `Deliberation` the process goes on,
the deadline passes (`RunDeadline` is a clock) and the thread's own steps happen; the Provider may
never answer and no socket timeout need fire, so that the end of a cancelled thread is
due to the cancel. Deadlock checking is off where a run ends with every worker gone,
the Run ended, or all attempts made: the system has stopped, as it should.

## Proofs

Eight modules prove, for every value of the constants that satisfies the named
assumptions, every invariant of the passing runs, that the Journal implements
the ledger, and the types. Each argument has the same form: an inductive invariant of
named parts, its preservation by each action as a lemma, and theorems that read their property off it. Records are compared as wholes, so
`None` is assumed to be none of them (`NoneAssumption`, `NullAssumption`,
`DigestsAssumption`): in the code it is an absent row or a null.

`HarnessJournalProofs`, for every set of Runs, workers, Contracts, batches and
clock readings: `Typing`, `HistoryAlwaysAgrees`, `LeasesPinHeads`,
`RefusalsAreHonest`, `ReferencesAlwaysPublished`, `CallersBindOneRun`,
`EventsAdmittedOnce`, `AcknowledgementsHold`, `JournalIsALedger`. The argument goes
up in layers: the row agrees with the history of its Run (inductive with typing);
then a lease quotes the row's revision; then the log only grows (`HistoryGrows`),
so that what was acknowledged stays, and every admitted identity is either a
creation of its own Contract or of a batch (`Provenance`), which makes identities
unique across Runs and gives the ledger its guard. `ExtendedHistory` and
`SubmitNewEffect` are the central lemmas: what appending a stamped batch does to
each conjunct of `HistoryAgrees`. The assumptions are those of the code: identities
within a batch differ (`append_events` checks), and a creation identity is the
digest of its Contract. The same module has `AlarmsMeanRaces`, `VerifiedAlwaysRestores`
and `RejectionsMeanRaces` about `Maintenance`, whose steps leave the Journal alone
(`MaintainedIsJournal`), so that all of the above holds beside it. `RowWasRead` is
what the doctor needs: the row it read is the current one or has a lower revision.
`OfOneMoment` and `Covered` say of a backup that its copy lies between its beginning and
now in the order of growing logs, and that objects beyond those of the copy are there
only if the log went on. These hold with doctor and backup at work together, which the
run `maintenance` leaves out.

`ToolStepProofs`, for any number of workers, Tool calls and clock readings
(`BatchAssumption`, `TimesAssumption`): `Typing`, `DispatchedOnce`, `OneReceipt`,
`InOrder`, `ToldWhatIsRecorded`, `Truthful`. Each
rests on an invariant of its own over the types. `RightsExclusive`: a prepared
step that was not sent is in the hands of one worker, so it is sent once.
`HeadHasReceipt`: the step that is current without a receipt has none anywhere,
so recording one makes no second. `OrderKept`: a worker reaches a call only when
the one before it is settled. `StatusesTrue`: a status is true already of the
worker that is about to record it, and `NeverRuns` is stable, which is what a
rejection needs: a refused request does not land later.

`RunRecorderProofs`, for any number of workers, Traces and assessments and
histories of any length (`RecorderAssumption`): `Typing`, `ReceiptsCover`,
`AnswersAlwaysHold`, `RecordsAlwaysCount`. `Typed` adds to the types that what a
worker read lies in the past of the history. `Honest` is the invariant behind the
receipt: at most the last Event ends the Run and covers the segments of one moment
(`EndSound`), and what a worker combined or was told is true of the history
(`Memory`), which stays so because prefixes are kept (`CoveredStays`,
`MemoryStays`). `CountGrows` is what keeps a stale number within bounds.

`WorkingSetProofs`, about `ProviderCall` for any number of workers, turns, retries and
Snapshots: `Typing`, `OpenCallsKnown`, `NeverBlindlyRedispatched`,
`RecordedOutcomesHappened`, `TurnsFollow`. `Known` is that a call that is out is the head
record unless the Run moved on (`HeadIsCurrent` is its strengthening). `Exclusive` adds
what the physical calls are: none is beyond the head, those of a head that may be tried
were undelivered, and at most one worker is out on a call. `Accounted` relates
generations: a claim that is open was not invoked yet, and a record only closes with the
answer of its own generation. `TurnsDue` is that a turn is somebody's only when the call
before it asked for it. About `WorkingSet`, for any revisions, documents
and messages: `ViewsHeld`, `RequestsMadeOnce`, `EvidenceAlwaysSound`. A revision clears the
head, so `ProviderCall`'s invariant has to be told again by view: `ViewsCurrent` (the head
is of the current revision, and so is the view of whoever holds it), `Records` (what a
worker retained is in the past), `ExclusiveOn` (`Exclusive` of the calls on one view).
`ProposalsVouched` and `SourcesBacked` are behind the evidence: each proposal at hand was
answered on the view it is of, and each pin is of a caller's document or a committed
promotion.

`AgentLoopProofs`, for any budgets, limits, Tools, answers and number of processes:
`Typing`, `GateHolds`, `BudgetIsHard`, `ConcludedMeansCertain`, `CursorIsDurable`.
The properties speak of what a process sends, but the next process starts from
records, so `IInv` says of the Provider record and the Snapshot what it says of the
memory: it has counted every call that was sent, or (`StepInHand`) all but the one in
hand, which the limits still allow together with all calls ahead of it. Only the last step
may be uncertain. For programs `TurnsFollow` says that turns only go up, so that a batch that
begins has no steps yet, and `ProgramKept` that the steps of its turn are the last of the
Journal, each the call which the outcomes before it make, and at most one outcome, a
rejection, is without a step. From it `EvidenceRecovers` computes what recovery makes of the
steps, with contents or without. `AnswersAssumption` says that the calls of a program are
its steps, which is how `loop.py` makes them; `EndingsAssumption`, that contents of
Observations are not the words for statuses.

`DeliberationProofs`, for any budgets, Tools and answers: `Typing`, `SafeAlwaysUnsent`,
`SpendingFits`, `TurnIsOneChoice`; and `ParsesToOneChoice`, a theorem about the parser alone,
for a sequence of calls of any length under any offer that has the conclusion. The inductive
invariant charges in advance: `CallsCharged` counts a thread that may still send as one
that did, `TokensCharged` an answer that has arrived, and `Afforded` adds the bound of what
is out. `BoundAssumption` is what an estimator promises, a bound on the cost of an answer;
`CatalogueAssumption` is a check of the adapter, `BudgetAssumption` those of `RunBudget`.

`MandateProofs`, for any number of attempts, profiles, notes and amounts
(`MandateAssumption`): `EnvelopeHolds`, `EvidenceIsOwn`. The envelope is a sum over attempts.
An attempt is admitted by what the evidence it was handed used, so the invariant has to
know that the evidence is all there is: `Numbered` says that in front of an attempt there is
an ended one of each number, and where none is forked these are the whole lineage. The sum
is a fold of the community modules, which chooses an order; that it does not depend
on it, and adds up over disjoint sets, is proved from a counterexample that would be
smallest (`SmallestSubset`), since induction over sets takes an operator.

`RepairBridgeProofs`, for Runs of any length and files of any number of versions:
`Typing`, `CompletedMeansDone`, `RejectedStaysOut`. `Real` is that what is retained was
done, that memory is what is retained short of the step at hand, and that an answer on the
wire is of an effect that took place on top of it. `DispatchIsFirst`: nothing is known of a
step before it is sent.

Only model-checked: liveness (`WorkersFinish` twice, `LoopEnds`, `CancelLands`), which rests
on fairness and is out of the prover's reach, and the two violations. `ToolProgram` and
`ProviderHandle` have no properties of their own: theirs are those of the modules that
use them.

## Findings

1. The identity of a Tool step covers the clock reading of the worker that
   prepared it, and the preparation leases on the revision read at its own start:
   a second worker that comes to the same call with another reading prepares and
   dispatches it again, although the protocol promises one physical call
   (`tool_dispatch`).
2. A patch whose answer was lost is reconciled by `workspace.patch.get`, whose payload
   has `changedPaths` and no `relativePath`; the conclusion gate asks for the latter, so it refuses
   every conclusion of a Run whose patch is in place, until the Agent patches
   the file once more (`repair_gate`).

Behaviours of the code that the models have, that a reader may not expect, and that no
run states as a property:

* `create_run` answers a duplicate with the existing Run only while that is at
  revision 1 (`sqlite_store.py:494`).
* The doctor, and every opening of a continuity store, can report corruption of
  a sound Run that is being written to (`sqlite_store.py:1043`). `AlarmMeansRaced`
  is what holds.
* A backup beside a writer may be published and then fail its own verification
  (`store_ops.py:45`). `RejectionMeansRaced` is what holds.
* A worker whose expired claim was taken over fails its admission, and the loop
  turns that into a terminal failure of the whole Run, under the worker that has
  the physical call out (`provider_lifecycle.py:116`).
* Of a projected Run, the next call is refused when its own turns cannot be proven from
  the Journal: after a Tool rejection that the model was told to correct, or on
  a resume without new messages (`sqlite_run_store.py:1309`, `ClaimRefused`).
* The reason of a soft gate, and the position in a Tool program, live in the process: a
  resumed one computes the first anew and ends `HARNESS_FAILED` in the second
  case (`CursorLost`), although both recoveries of a program would give the next call.
* The DeepSeek request digest covers the remaining wall time and retries, which the
  Run's own dispatch digest leaves out, so a recorded answer cannot be replayed by a process with
  another clock; it is not asked again either (`clocked`).
* A revision of the Working Set clears the head Provider record, and with it the
  count of model calls that a restarted initial Run would have taken from it.
* `NO_PROGRESS` leaves a completed record behind and no pause, so it cannot be resumed
  with new messages.
* An answer that is already there when the loop sees a cancel is discarded as
  `CANCEL_UNKNOWN` (`loop.py:1799`).
* Without an adapter's estimator the second phase of a deliberation may overspend, and
  the composition raises `RuntimeError` after the effects (`deliberation.py:414`).
* A control call the turn does not offer can be corrected by the model when its arguments
  are no JSON, and raises when they are.
* The gate of a repair does not ask for the order its message names, knows a patch of
  several files by its first, and a patch found `prepared` is recorded as rejected
  though the Runtime may still apply it.

## Not modelled

* Lowering of Tool calls to Runtime requests, and the research, finance and
  first-look bridges: the observation bridge's protocol with other lowerings.
* Capability catalogue, discovery, Tool surface, contracts and records: immutable values,
  validations and digests. The models use their identities.
* Encoding of messages, rendering of views, byte limits, privacy of what is exported,
  telemetry: data that decides nothing in the protocols, except where a module
  says so (`Kept`, `kept`).
* Command lines, host adapters, application scripts: I/O and composition of other
  programs.
* File-level durability, permissions, SQLite itself, HTTP itself.

## Plan

1. An abstract specification of one external effect (not sent, out, answered or lost, and
   known or not), which `ProviderCall` and `ToolStep` both implement, in place of
   `NoBlindRedispatch` and `StepDispatchedOnce` as separate properties; its refinement
   from `Exclusive` and `RightsExclusive`.
2. `AgentLoop` over that specification, in place of its own short view of calls and steps.
3. Action properties of the loop's budgets: no counter of a Run goes down when a process
   resumes from a record, from `RecordsCount`.
