# Idra: TLA+ models, checks and proofs

Idra is a single Node.js process that runs language-model agents: it takes
messages over HTTP and the A2A protocol, runs each as an agent run over a stored
session, and streams the answer back.  There are no threads, but every `await`,
promise callback and abort listener is a point where other code runs, a write
may fail, and the process may be killed at any time.  Those interleavings are
what this directory is about.

Paths below are relative to `src/` of the repository; modules are in this
directory.

## 1. The system

| Part | Source | State | Operations | Modelled in |
|---|---|---|---|---|
| Run scheduler | `main/agent/agent_scheduler.ts` | queue, active keys, slot counter, bypass counter | `run`, abort, `pump`/`next`, the finally callback | `AgentScheduler`, `AgentSchedulerBypass` |
| Keyed limiter | `main/agent/limiter.ts` | Map of key to counter and waiters | `acquire`, abort, `release` | `KeyedLimiter`, `FifoSemaphore` |
| Agent, run registry | `main/agent/agent.ts`, `state/` | records with status and session | `send`, `process`, `cancel*`, `clearMessages`, `deleteSession`, `editUserMessage`; events for the caller | `AgentRuns`, `AgentEvents` |
| Session files | `main/agent/session/` | `messages.json`, its backup, flat files of old versions | load, persist, clear, delete, edit | `SessionFiles` |
| Run loop, model turn, subagents | `main/agent/runner/`, `subagents/` | budgets, retries, leases of two limiters | `stream`, `runModelTurn`, `runToolCalls`, `runSubagents` | `RunLoop` |
| Model context | `runner/fit_model_context.ts`, `core/adapters/llm/llm_shared.ts` | none | fitting, transcript, three request builders | `ModelContext` |
| Model adapters | `core/adapters/llm/` | calls under way in a stream | three streaming protocols, and without streaming | `ModelStream`, `Conversation` |
| Tools, workspace | `main/agent/tools/`, `workspace/` | files | `write`, `edit`, `patch` | `PatchText`, `Workspace` |
| A2A executor | `main/a2a/executor.ts` | Map of task to active run | `execute`, `cancelTask`, `handleEvent` | `A2aExecutor` |
| A2A task store | `main/a2a/store.ts` | one file per task | `save`, `load`, `list`, recovery, retention | `TaskStore` |
| Configuration, administration, OAuth | `main/config/`, `main/oauth/` | one document in memory and on disk; request times | registration, login, logout, clients, tokens, `consume` | `ConfigurationStore`, `ConfigurationServer`, `RequestLimiter` |
| Mutex, MCP clients, prompts, routes, settings files, pages | the rest of `main/`, `ui/` | little or none | see section 6 | not modelled |

How they interact.  An HTTP or A2A handler calls `Agent.send`, which puts a
record in the registry and an entry in the scheduler.  The scheduler calls
`process` when a slot and the session are free; `process` loads the session,
then streams events of the run loop.  The loop fits the conversation to the
model's budget, takes a lease of the provider limiter for every attempt of a
model call, collects the provider's events into one answer, runs the tool calls
of it, and persists the session after each answer and each round of tools.  The
tool `subagents` runs the same loop for its children, each under a lease of the
subagent limiter.  Events go through a callback to whoever called `send`; the
executor turns them into A2A events, which the A2A library saves in the task
store.  `cancel*` mark records and fire their abort signals, which remove queued
entries of the scheduler and only *tell* running tasks.  Clears and deletes
cancel, then queue behind the session and await the runs they cancelled; edits
just queue.  Beside all this, administrators and clients change one
configuration document, and client tokens decide who may call.

What makes each part correct:

- *Scheduler*: one run per session, at most three in all, no idle slot beside a
  run that could start, order within a session, bounded bypass, and a cancel
  loop that starts nothing.
- *Limiter*: the counter is the number of leases out although leases are handed
  from waiter to waiter and released twice; whoever waits is served in order.
- *Agent*: registry and scheduler, updated in different microtasks, agree; a
  wipe cannot deadlock with the runs it awaits; nothing wiped comes back; no
  task's copy of a session overwrites another's; cancelled runs that have not
  begun never begin; every call ends.
- *Session files*: a reader sees the old or the new conversation after a kill at
  any step; a damaged file costs one write; the backup never brings back what
  was cleared.
- *Run loop*: one end, for the reason that ended it, with every lease given
  back; budgets hold however calls are spread over turns; the model is asked
  again only when every call before has its result; parents and children that
  wait for each other's leases all come to an end.
- *Conversation*: what is stored is what the model said, and what the caller was
  told is what is stored, with no second version of what a failed attempt had
  passed on; whatever state an interrupted run left, the next
  request is one a provider accepts, fits, and keeps the latest turn whole.
- *Tools*: a file changes as asked and nowhere else; a failed patch stops
  between its hunks and loses no file.
- *Executor*: one terminal status, last, as the run ended; the text complete and
  in order.
- *Task store*: a restart settles exactly what it interrupted; a client that
  walks the pages sees every task that stayed as it was, once.
- *Configuration*: one administrator, an assertion buys one token although
  writes fail and the process restarts, what was revoked stays out, sessions
  last as promised, the limiter keeps its window though its table is bounded.

The full list of what is hard to test, each at its line and with the properties
that cover it, is `hazards` in `PROJECT.json`; those with no property say why.

## 2. Modules

```
AgentSchedulerBypass - AgentScheduler       KeyedLimiter --> FifoSemaphore
                       |                                        |
                    AgentRuns   A2aExecutor   SessionFiles   RunLoop

ModelContext - AgentEvents -+                ConfigurationStore -+
               ModelStream -+- Conversation  RequestLimiter     -+- ConfigurationServer

PatchText - Workspace                        TaskStore

Proofs:  AgentRunsProofs (AgentRuns, AgentSchedulerBypass)   SessionFilesProofs
         RunLoopProofs (RunLoop, KeyedLimiter)   ConversationProofs
         A2aProofs (A2aExecutor, TaskStore)   WorkspaceProofs
         ConfigurationServerProofs   SequenceLemmas
```

`-->` is the refinement, the other lines are EXTENDS or INSTANCE.  `Filters` is
`filter()` of an array by membership in a set, `Kept`, used by `AgentRuns`,
`RequestLimiter`, `RunLoop` and `ModelStream`: a recursive function, since the
prover does not expand the library's `SelectSeq`.  For the same reason the loops
that the proofs go through (the sums of `ModelContext`, the collector of
`ModelStream`, the parser of `PatchText`, the hunks of `Workspace`) are recursive
functions over the first elements of an array.  `SequenceLemmas` has what the proofs need
about arrays and such functions.

Each of the twelve runs has an MC module that gives the constants their values.

**AgentScheduler.**  `queue` is the array (sequence numbers are positions),
`activeKeys`, `active` and `higherPriorityDequeues` are the fields, `running` the
runs between `pump()` and their finally callback, `settled` those whose caller
may already go on.  `Submit`, `Abort` and `Release` are `run()`, `onAbort` and the
finally callback, each with the `pump()` it ends in; `Settle` is the task's end.
The loop of `pump()` is one pass: `WorkConserving`, checked and proved, is its
exit condition after one.  A call that ended may be made again, so behaviours
are unbounded.  **AgentSchedulerBypass** adds one history variable, `passed`,
counting the younger runs preferred to a run that could start.

**KeyedLimiter.**  `states` is the key set of the Map, `active` and `waiters` the
fields of each `LimiterState`, `lease` what became of each call.  `Acquire`,
`AbortWait`, `Release` are the three entry points.  **FifoSemaphore** is what it
promises: per key at most `Capacity` holders and a line.  The refinement mapping
takes the holders from the leases and the line from the waiters.

**AgentRuns** extends the scheduler; its calls are sends, wipes (clear or delete)
and edits.  `lifecycle` is `record.lifecycle.status`, `memory` the in-memory
`session.messages` of a task, `outcome` the promise of the call, `captured` the
completions a wipe awaits, `stored` what is on disk.  One action per stretch of
code between two awaits: `Send`, `Begin` (beginRun and init), `Skip` (beginRun
refuses), `Persist`, `Finish`, `Free` (the finally callback), `Complete` (the
registry's cleanup, a microtask later), `Cancel`, `CancelWindow`, `CancelAll`,
`Wipe`, `ApplyWipe`, `Edit`, `ApplyEdit`.  Several `onAbort` callbacks of one cancel
loop are one step; that is sound because none of their pumps starts anything
(`AbortStartsNothing`, proved).

**SessionFiles** opens the file operations that `AgentRuns` takes as atomic.  An
operation is a list `todo` of renames and writes, one `Step` each, and `Crash` may
come between any two; `Damage` is the loss of the main file that the backup is
for.  `files` also has the folder, the flat file of the session's id and the one
of an old name, which `init` reads when the stored session is empty.  It takes
from `AgentRuns` that a wipe or edit meets no running task of its session.

**RunLoop.**  One parent run and the children its tool `subagents` starts, each a
generator whose place is `pc`; the two limiters are `FifoSemaphore`, which
`KeyedLimiter` is proved to implement; `Others` stand for the rest of the
process at the provider.  Actions follow the code from await to await: `Setup`,
the top of the loop, waiting for a lease, an attempt that succeeds, passes on
output or fails with an error of the class `throwProviderError` and
`isTransientModelError` give it, the wait before a retry, each tool call's start
and end, and a child's admission, start and end.  `Abort` may come at any
moment.  Of a message only the kinds and states of its calls are kept.

**ModelContext** has the functions between the stored conversation and the
request: sizes instead of texts, everything else as in the code.  An assistant's
message has the blocks of `addAssistantMessage`, the provider's items before the
text; when a request is over its budget, items, arguments and results that are
too large give way to placeholders (`Slimmed`) before anything else is measured,
then the system prompt, the context messages and whole earlier turns are cut.
**ModelStream** is one attempt: the provider sends the events of an answer, in
the order its protocol allows, and the adapter's state per call and the
collector of `run_model_turn.ts` take them.  **AgentEvents** is the translation
for the caller.  **Conversation** puts them together over several turns with
retries, failures, tool outputs and interruptions.

**PatchText** is the text algorithm of `edit.ts` and `patch.ts`: parsing, the
search for a chunk's lines, splicing.  **Workspace** runs two tool calls over
the same files, a step per await.

**A2aExecutor.**  `activeRuns` is the Map, `state` the `ActiveRun` of each
`execute()` call, `published` the bus of each task.  `Refuse` is an `execute()`
whose message is refused, `Execute` the code up to the await of `send`, `Resume`
the rest.  Three actions come from the run: `Stream`, `Report` (`run_finished`)
and `SettleRun`; `LeaveRegistry` is the agent's cleanup.  The agent is what
`AgentPort` shows of `AgentRuns`.  Of a text only its place in the stream is kept.

**TaskStore.**  A file per task, replaced by a rename; the constructor goes
through the directory file by file and may stop at any of them.  A client walks
through pages with the cursor of the last one while tasks are saved and pruned.

**ConfigurationStore** has `memory` and `disk`, two copies of the document; every
operation changes the first and then writes it to the second, which may fail
before or after the rename.  **RequestLimiter** is `limit.ts` as operators on a
table.  **ConfigurationServer** has the routes: an action before each await and
one after, so that two registrations, logins or token requests overlap.

Definitions called a *wrong variant* in their comments are not used by any
specification: each is the definition after it with a plausible mistake, and
`mutants` in `PROJECT.json` says which property notices it.

## 3. Runs

| Run | What it shows | Bounds, and why they are enough | States |
|---|---|---|---|
| `agent_scheduler` | safety, bounded bypass, no starvation | 5 calls that come back, 4 sessions, 2 slots: one session shared by calls of different priority, all three priorities, more sessions than slots, high calls to exceed the bypass limit of 3 | 5,396 |
| `keyed_limiter` | counters, refinement, service | 5 calls, 2 keys, 2 places: two waiters, so order shows, and a second key | 324 |
| `agent_runs` | safety of cancel, wipe and history | 3 sends and a wipe on one session: one running, one queued, one sent after the wipe; 2 windows; one answer per run | 571,609 |
| `agent_runs_live` | nothing overwritten, every call ends | 2 sends, a wipe and an edit, fair | 57,994 |
| `run_loop` | one end, leases back, budgets, fit history, no deadlock | a parent of 3 turns, 2 children of one, one other run, limiters of one place; one retry; a budget of 3 calls, 1 paid call and one large output; three errors, one per class (retried, a 429 that is not, refused) | 128,024 |
| `conversation` | stored = said = told; requests accepted and fitting | 5 messages, three protocols, answers with every kind of item, provider items, arguments and results over the size that is kept, two calls whose events mix, a budget the conversation exceeds | 73,733 |
| `workspace` | files change as asked; failure between hunks | texts of up to 4 lines over two words, loose blanks, two chunks with and without context or end mark, moves, an empty line or one of a blank after a hunk, a second call on the same file | 182,101 |
| `a2a_executor` | one terminal status, text, end of every task | 3 executions on one task, 2 deltas per run: first, middle held back, last chunk | 131,405 |
| `a2a_shutdown` | expected violation, see findings | same, without fairness | |
| `session_files` | crash atomicity, backup, cleared stays cleared | 3 messages, 1 damage, flat files with one message or none: two writes after a clear, and edits of the main file and of the backup that differ | 268,535 |
| `tasks` | restart, paging | 3 tasks, 2 clients, pages of one, 3 moments, retention 1, a directory that is new, holds a damaged file, or an open record without owner | 698,963 |
| `configuration` | replay, administrator, revocation, sessions, limiter | 2 visitors, 3 sessions of which 2 are kept, 2 clients, 3 assertions of which a client keeps 2, a table of 1 key, 4 requests, 3 ticks, 1 spell of failing writes, 1 restart; a provider that is set with a key, without one and with one of blanks | 1,328,804 |

Two slots stand for the three of `agent.ts`, one place for the three of the
limiters: what matters is that there are fewer than those who want one.
Sessions do not interact in `AgentRuns` but for slots, which `agent_scheduler`
covers, so its runs use one session.  Sizes in `conversation` are small numbers
with the relations of the real ones (an item may exceed its cap, a turn the
budget).  Clocks tick only to the bound, which is longer than every window and
life in the instance.

Deadlock checking is off where the system may really stop: where calls are made
once each (`agent_runs`, `agent_runs_live`, `a2a_executor`, `a2a_shutdown`,
`workspace`), where runs finish (`run_loop`), and where a bound on messages or
on time is reached (`conversation`, `configuration`).

### Findings

`a2a_shutdown`: at a signal, `index.ts` calls `agent.destroy()`, which cancels
every run.  A run still queued settles with an empty text and reports nothing;
`execute()` sees a fulfilled `send` and publishes `TASK_STATE_COMPLETED`, although
`tests/a2a.test.ts` says the executor emits the terminal state of every run
outcome, canceled for a cancelled run.  For the tasks with a single execution,
`EndsAsReported` shows that this is the only way for a task's status to differ
from how its run ended; tasks with a second execution are outside that claim.

### Facts of the code

What the models also show and nothing in the repository contradicts; the
properties are stated so that they leave these out.

- *Sessions.*  A delete is not atomic; cut short it may leave the backup or the
  flat file.  The first run on a session that has only its flat file writes an
  empty `messages.json` before the real one: a kill in between hides the flat
  file for good.  A cleared session called by its old name gets that name's flat
  file back.  A clear of a session with only a flat file fails, since the folder
  for the backup is not there.
- *Run loop.*  A child aborted while it runs ends as "completed" with stop reason
  `cancelled`, one aborted in line as "cancelled".  A cancellation inside a tool
  skips `addToolResults`: the outputs of that turn never reach the disk, and the
  next request answers those calls with an error.  When the output budget is
  exceeded, the last call's end is reported and its result not stored.  A 429
  whose message says "exceeded" counts as a context overflow and is not retried.
  Calls of different runs interleave: the mutex is asked for no keys.
- *Context.*  With a configured output near the whole window the input limit is
  its floor of 256 tokens, and nearly every request is refused as too large.
- *Tools.*  `edit` expands `$&` and `$$` in the new text and does not notice a
  second match that overlaps the first; two overlapping edits of a file lose one.
  A chunk for the end of a file may overlap the chunk before it; one that only
  adds and is followed by a blank line of the patch goes to the first blank line
  or the top; an update drops one blank last line; *Add File* overwrites.  A
  failed patch keeps its earlier hunks.
- *Tasks.*  A record of the version without owners belongs to nobody.  A cursor
  whose task changed or was pruned ends the walk early, silently.
- *Configuration.*  A write that fails leaves memory and file different.  A
  restart then brings back what an unconfirmed logout or delete had removed, and
  its retry is answered 401, or `deleted: false`.  A client whose write failed is
  answered with an error and can still be used until a restart.
  A provider's key of blanks passes when that provider is stored already
  (`config/routes.ts:57`), and the empty text left of it takes the stored key's
  place; `provider()` then refuses the settings, so that this request and every
  later one that reads the provider fail until it is deleted.
- *Scheduler.*  See the end of the next section.

### Fairness

Weak fairness only.  It stands for: the microtask queue is drained (`Release`,
`Free`, `Complete`, `Begin`, `Skip`, `LeaveRegistry`, `Resume`, and every step of a
generator that is not waiting: `Step`, `ChildStep`); a started task ends
(`agent.ts` aborts every run after ten minutes with `AbortSignal.timeout`, and
the loop ends on an aborted signal; requests of a provider and tools end); the
scheduler starts what waits (`Start` of the executor, which `NoStarvation` and
`EveryCallEnds` justify for the priorities of A2A runs).  A holder of a lease
releases it (`finally`); so do the `Others`.  Nobody is obliged to submit, cancel,
stream, or shut down.

Not promised: `NoStarvation` leaves out runs of *normal* priority and the
sessions that have one.  When each fourth dequeue goes to `lower[0]`, the oldest
entry below the best priority, older low runs can take the turn of a normal one
for as long as high and low runs keep coming.

## 4. Proofs

Checked by TLAPS for every value of the constants that satisfies the named
assumptions.  Each is as weak as the code justifies:

- `SchedulerAssumption`: every call has a key and a priority; at least one slot;
  `MaxBypass` at least 1 (the code has 3: with 0 each dequeue would go to the lower
  priorities, and a high run could be passed over for ever).
- `AgentAssumption`: the calls are sends, wipes and edits, a call is one of them;
  wipes and edits have the priority "high" (`agent.ts:275`, `288`, `301`).
- `LimiterAssumption` (both limiters): at least one place, a window and a table
  that are not empty.
- `RunLoopAssumption`: a child is not a parent; every run may take a turn, and
  retries and budgets are numbers; children are never offered `subagents`
  (`parallel.ts:17`).
- `ExecutorAssumption`: an execution belongs to a task.  `TaskStoreAssumption`,
  `FilesAssumption`, `ServerAssumption`, `StoreAssumption`: limits and lives are
  numbers, a document keeps at least one session and one assertion, and the
  directory of tasks the server is started on is finite.
- `ModelContextAssumption`, `ConversationAssumption`, `ProvidersAssumption`: sizes
  and bounds are numbers, the tokens and the step of the cut are positive, the
  messages of the workspace's context and the answers are arrays of their items,
  and a provider speaks one of three protocols.  `CallsAssumption`: the ids of calls
  in the answers to conversations of different lengths differ, and none is the
  "none" that stands for an unset id; the context has no calls.  Within one answer
  nothing is assumed: that its calls differ is what the collector does.
- `WorkspaceAssumption`: a directory has a file or none for each path, an edit is
  one hunk of one file, a patch is an array of lines.

Every invariant and every action property of the runs is a theorem but for those
listed at the end of this section.  The invariants of the runs are seldom
inductive; this is what had to be added, and why.

**`AgentRunsProofs`**, the scheduler.  `SchedulerInv` joins the types, the exactness
of the slot records (`Consistent`) and `WorkConserving`.  The last is needed for the
others to be inductive in the code's form: `pump()` is modelled as one pass, and
a pass leaves nothing eligible only if the operation before it made at most one
entry eligible (`OnePass`).  `PushEligible`, `SpliceEligible`, `FreeEligible` and
`DequeueEligible` say what a push, a splice, a freed key and a dequeue do to
the eligible entries; `PumpLemma` concludes.  Theorems: `TypeCorrect`,
`SlotsAreAccounted`, `WorkIsConserved`, `CancellingStartsNothing`, `SessionsAreFifo`.

*Bypass.*  `BypassInv` ties the history variable to the counter of `next()`: a low
entry that could start was passed over at most `higherPriorityDequeues` times, a
high one not at all, or once by the dequeue that set the counter to 0.  For this
one also needs that an entry that could start stays able to: its session can
only be taken by an entry before it.  Theorem: `BypassIsBounded`.

*The agent.*  `AgentInv` adds what ties queue, registry, copies and files together
at each status of a call: `CallsMatch` and `RecordsMatch` (status, slot and record),
`BeforeSound` (the history variable), `WipesCancel` (the sends a wipe awaits were
made before it and have left the queue), `FilesFollow` (the task that holds a
session's slot has exactly what is on disk), `LineInOrder` (a session's line is in
the order of the calls), `BegunBefore` (a send that has begun was called before
every one of its session that has still to).  Registry and scheduler change in
different microtasks, so every clause has an exception for the steps between.
Theorems: `AgentInvariant`, `RegistryAgrees`, `WipesNeverBlock`,
`WipedNeverReturns`, `HistoriesInOrder`, `CancelledNeverBegins`,
`NothingIsOverwritten`.

**`RunLoopProofs`**, the limiter.  `LimiterInv` is the types and, per key, `PerKey`: counter
and leases agree, the waiting list is exact and free of repetitions, somebody
waits only when full, and a key outside the Map has nothing.  One lemma per
operation shows it preserved *and* maps the step to a step of `FifoSemaphore`.
Theorems: `LeasesAreCounted`, `LimiterRefinesSemaphore`, and two that no run needs
to state since the refinement checks them: `StatesStayAttached`,
`PlacesAreNotLost`.

*The loop.*  `RunInv` says of each run, by the place its generator is at,
what its history looks like (`HistoryOf`), what it has reported of its end (`EndOf`)
and how far its budgets are used (`BudgetOf`); `AtProvider` says who stands at the
provider, `ParentWaits` that children have steps only while their parent stands at
its call of `subagents`, so that its turn does not move under them.  The budgets
are asked when the calls of a turn are recorded, before one is started; the
invariant is therefore that *all* recorded calls of a run that goes on are within
them.  Theorems: `RunInvariant`, `RunEndsAsItWent`, `RunHistorySound`,
`RunBudgetsKept`.

**`SessionFilesProofs`.**  What a kill leaves behind depends on the writes still to
be made.  `FilesInv` says which these can be and what the files hold then, per
operation (`Writing`, `Clearing`, `Deleting`), what the backup may hold when nothing
is written (`Sane`), what the open task has in memory (`TaskKnows`), and that a
message dropped by an edit, a clear or a delete is in no file a reader can reach
and in no write to come (`GoneForGood`).  Theorems: `FilesInvariant`,
`WritesAreAtomic`, `BackupIsOneBehind`, `EditsTouchOne`.

**`A2aProofs`**, the executor.  `BusInv` is what the bus of a task holds, `MapOpen` included:
an execution in the map of active runs has not published its end.  It gives
`NothingAfterTheEnd`.  For the other two theorems, `EndsLikeItsRun` and
`TextArrivesInOrder`, `ExecutorInvariant` says what bus, held-back chunk and state
of an execution are at each status of its run.  It speaks of executions that are
the only one of their task, as the properties do; a second `execute()` on a task
only ever takes tasks out of that claim.

*The task store.*  `StoreInv` says where an open task can be: before the
constructor anywhere; during its loop only in files not looked at yet; afterwards
only among the tasks of this process (`OpenTracked`).  The constructor may stop at
any file and start again.  Theorems: `StoreInvariant`, `RestartsSettle`.

*Paging.*  `ListInv` is about a client on its way through the pages: what it was
shown is not behind its cursor, what it watches and was not shown is.  It holds
because the order is by time and a task that changes gets the time of now: it
moves towards the pages already shown.  Hence the clause that a shown task which
is open was not saved in the future, true since open tasks are those of this
process.  `PageTurned` says what one page does to this; `CanBeListed`, by induction
on the size, that a finite set of records has a listing in that order (`Sorted` is
a choice of one).  Theorem: `PagesAreComplete`.

**`ConfigurationServerProofs`.**  `ServerInv` speaks of both documents, the one in
memory and the one on disk: a promise survives a failed write and a restart only
if both keep it.  Its parts are the shape of the documents (`Formed`), who
registered (`Ruled`), where an owed session is in each list (`SessionsOwed`), clients
and assertions (`ClientsGone`, `AssertionsSpent`), and the table of the request
limiter (`RequestsLimited`: the requests that passed lately are in the table,
although full tables are swept and keys dropped).  Theorems: `ServerInvariant`,
`NoSecondToken`, `FirstRegistrationWins`, `RevocationsHold`, `SessionsLast`,
`LimitHolds`.

**`WorkspaceProofs`.**  What a call does depends on the patch as it was parsed, so
the first part is about `parsePatch()`, line by line: only an update may move its
file (`ParseLineSound`, `ParsePatchSound`).  `StagesStep` says that the files after
each hunk are what the hunk makes of those before it.  `WorkspaceInv` is then, per
call: which hunk it is at; a text that was read is that of the file on disk as
long as nobody has changed it (`fresh`); and, if no other call has changed any
file, the files are as this hunk found them, or in the middle of a move, with the
moved file in both places (`FilesFollow`).  Theorems: `WorkspaceInvariant`,
`FailuresAreBetweenHunks`.

**`ConversationProofs`.**  *What fits* is about `fitModelContext()` alone, for any
list of messages: the sums of sizes of parts and wholes (`PartialSums`,
`TotalOfConcatenation`), what a message is after it was shortened
(`SlimmedMessage`), the two cuts, and the turns before the latest that are
kept, as many as fit (`RequestKeepsLatest`).

*The attempt.*  `ConversationInv` has the form of the messages and `Attempt`, which
says of an attempt under way that the collector has each call once, that the
adapter's state of a call carries that call's id, and that only calls of the
answer were begun.  It holds for each event of each protocol (`OpenAITyped`,
`AnthropicTyped`, `ChatTyped`) and what an adapter makes up at the end of a stream
(`ResponseTyped`, `UnendedTyped`).  With it, the calls of all messages differ
(`WellCalled`, `ConversationDifferent`).  Theorems: `ConversationInvariant`,
`RequestsFit`.

*What is said.*  A protocol is treated as a function from entries of the transcript
to what is said for them, `Protocol(F)`: a reply for a tool's entry, otherwise the
entry's calls behind something that is neither.  The three request builders are
such functions (`InputProtocol`, `AnthropicProtocol`, `ChatProtocol`), so one proof
shows that messages whose calls differ are said with each call answered once,
right behind it (`MessageReplied`, `AnsweredWhenDifferent`).  What is sent is made of
messages of the conversation, shortened, with whole turns cut off
(`MadeOfMessages`), whose calls therefore still differ.  Theorem:
`RequestsAnswered`.

Stating these changed the models where they said less than was meant, or could
not be reasoned about.  In `ModelStream`, guards of two CASE expressions
overlapped, which in TLA+ leaves open the branch that is taken; they now come in
the order of the code.  The first alternative of `FailsBetweenHunks` now also says
that a call that is done is behind its *last* hunk.

**`SequenceLemmas`** has `Append`, `RemoveAt`, `Tail`, prefixes, what `Kept` returns, when a
recursive function over the first numbers exists (`BoundedRecursion`), and what
`FlattenSeq` makes of arrays joined and lengthened.  They need induction, which the
library's theorems offer only for an operator; `NatInductionOnSets` derives it for
a set from the least number of one (`LeastNumber`).

Every invariant of a passing run is a theorem but one, and every action property
but one.  Only model-checked:

- Liveness (`NoStarvation`, `EveryWaiterServed`, `EveryCallEnds`, `EveryTaskEnds`,
  `EveryRunEnds`): fairness and ENABLED are beyond the prover.
- `AnswerReachesAll` of the conversation: it compares two ways to go through an
  answer, the order of the events and the order of the items, and what the
  caller was told with a translation of the whole history; each needs an
  induction over the answer's items and pieces in every protocol.
- `ChangesOnlyWhatAsked` of the workspace: that the search for a chunk's lines and
  the splices agree with the change that was asked for is a statement about
  texts, with an induction for the parser, the search and the splices each.
- `CompletedWasReported`, which is violated.

## 5. Assumptions of the models

- *Providers* keep their protocols: call ids are unique, a call is added before
  its pieces, a stream ends with its completion event or throws.  A stream that
  ends cleanly too early is taken by the code for the end of the turn.
- *Conversation* has one retry per turn, sizes that add up, and neither usage
  nor stop reasons; text of blanks only is not told from none; defaults a tool's
  parser adds are not modelled.
- *Tasks*: a save's temporary file left by a crash is ignored, as the code does;
  filters other than the owner's behave like it; the trimming of histories and
  artifacts is left out; a write that fails in the constructor is a stop.
- *Configuration*: the check of a signature and the consumption of the assertion
  are one moment (nothing is awaited between them that changes the document).
  The limiter is that of the token endpoint; the others are the same code with
  other keys.
- *Workspace*: `atomicWrite` is its rename; a line break at the end of a file is
  not told from its absence.

## 6. Not modelled

- *Keyed mutex*: its only caller passes no keys, so it waits for nothing.
- *MCP client manager*: what a client does that is closed while it connects is
  decided by the MCP library; every state of the manager is such a client.
- *bash*, the check that a path stays in the workspace, and the making of
  directories; the *file access context*, which only narrows the tools offered.
- *System prompt, access keys, provider, MCP and storage settings, routes, card,
  process entry, pages*: text, validation and formatting around single reads and
  writes of files.
- Usage and metrics, attachments, permission and user-input events, the limit of
  fifty messages shown, `info.json`, `run.jsonl`, listings, a run id reused after
  its run ended; cryptography; the A2A library and the network (the library
  appears as the caller of `execute` and `cancelTask`).

## 7. Plan

The model has the parts whose state and order matter.  What is left to prove is
`AnswerReachesAll`, for which `Attempt` would have to say what of each item has
been collected, and `ChangesOnlyWhatAsked`, for which `ParserSound` would have to say
which line of the patch each part of a hunk came from.
