# NoeticBraid in TLA+

NoeticBraid is a personal AI workbench. A backend accepts a user's requests,
splits them into steps, sends the steps to web AI services through an external
hub, lets models review one another's work, and keeps what comes back. Around
it stand a pool of NotebookLM accounts, a registry of AI accounts with quotas, a
scheduler of workflow cards, an Obsidian exporter, a debate runner and a browser
console. Nothing in it uses a database for its core state: state is JSON and
JSON-lines files that several coroutines, threads or processes read and write.
What is hard in it is therefore the order of writes, the copies that are kept
across an `await` or outside a lock, and what is found after a death.

This directory holds TLA+ models of the parts where that matters, the TLC
configurations that check them, and TLAPS proofs for any number of tasks,
sessions, callers, threads and accounts.

Paths are relative to `src/packages/`; `B/` is
`noeticbraid-backend/src/noeticbraid_backend/`, `CORE/` is
`noeticbraid-core/src/noeticbraid_core/`, `NLM/` is
`noeticbraid-notebooklm-rpc/src/noeticbraid/tools/notebooklm_rpc/`, `WSCH/` is
`noeticbraid-workflow-scheduler/src/noeticbraid/tools/workflow_scheduler/`,
`MMA/` is
`noeticbraid-multimodel-alliance/src/noeticbraid/tools/multimodel_alliance/`,
`OBS/` is `noeticbraid-obsidian/src/noeticbraid_obsidian/`.

## How to run

    tlc -config DispatchRuns.cfg MCDispatchRuns
    tlapm TaskDispatch_proofs.tla

`PROJECT.json` lists every run with its module and configuration. The theorems
are in the modules named `*_proofs`. `Alliance_proofs`, `PanelFiles_proofs` and
`UserGrowth_proofs` each hold those of several modules that one run instantiates
together; the three take five to ten minutes each.

## Inventory

### Task platform (`B/platform`)

| part | state | operations | modelled |
|---|---|---|---|
| `tasks/` task store | one `task.json` per task: state, targets | create, change state along a transition table, replay | `TaskStates`, `TaskLedger` |
| `ledger/` event ledger | one JSON-lines file per task and an index over all tasks | append a row, refresh the index, replay the path of states | `TaskLedger` |
| `artifacts/` | one file per artifact and a ledger row | persist, list, download | `TaskLedger` |
| `orchestration/` dispatcher | a coroutine per message, with its own copy of the task | plan, call the hub, poll, write, judge, deliver | `TaskDispatch` |
| `ws/` sessions | a socket, the task it is on, the generator of a run | connect, message, disconnect | `TaskDispatch` |
| `conversation/`, `elicitation/` | requirements file, conversation file | elicit, confirm, show deliverables | `Orchestration` |
| `orchestrate/` | `orchestration.json`, artifacts of each round | run all requirements, critique in rounds, write the final | `Orchestration` |
| `attachments/` | blobs and an index per task | upload, list, download, delete, hand over | `AttachmentStore` |
| `deliverable/` | rendered files and a sidecar of hashes | render, report, download | `DeliverablePack` |
| `workflows/`, `stt/`, settings, seeds | none | choose a workflow, transcribe | no state |

A browser opens a WebSocket on a task and sends a message. The endpoint iterates
over `Dispatcher.run`, an async generator that yields frames; every frame is
sent and awaited before the generator goes on. Any other coroutine of the one
event loop runs at those awaits: a second session on the same task, the
elicitation endpoint, whoever owns the `cancel_event` that a dispatcher is given. The
first two change `task.json` and the ledger through the task store, which keeps no lock.

Hard here: the copy of the task that `run` carries from plan to delivery; two
runs of one task; the three files of a state change (task, ledger, index) and
the two of an artifact; a socket that closes in the middle of a run; a hub that
answers late. Correct means: one dispatcher at a time spends hub calls, a state
follows the transition table, a delivered task has every result, an artifact row
has its file, the ledger reconstructs the state, and every run ends.

### Orchestration of requirements (`B/platform/orchestrate`)

Elicitation gives a task requirements; confirmation stamps them; a run takes
each confirmed one through execution, rounds of review and revision, and either
marks it done with a final artifact or blocks it. Every round is a file and a
row of `orchestration.json`. Hard here: several files per round, a run that is
stopped and repeated, requirements that are elicited again with old files in
place. Correct means: what is done is backed by an artifact of its own current
run, the rows name what they say, the status of the run is true, the run ends.

### Attachments and deliverables (`B/platform/attachments`, `B/platform/deliverable`)

An uploaded file is a blob and a line of the index of its task; the handlers do
not await between their file operations, but each may fail and the process may
die. The deliverable is rendered by a command of its own from Markdown artifacts
that the ledger has rows for, while the server reports and serves the files.
Correct means: what is listed has its bytes, what is deleted stays so, and what
is called delivered or converted comes from a ledgered source.

### Web AI hub and its watchdog (`B/omc_workspace/web_ai_hub_*.py`, `src/scripts/hub_watchdog.py`)

Every operation of the hub goes through a gate, a check of the operation and of
the pinned build, a process, a confinement of the artifact path, a redaction and
the verdict of the adapter, in a world that changes between any two. The
watchdog keeps one issue per capability that does not work, and finds it by a marker in
its text. Correct means: only allowed operations on the pinned build are started, ok is
only what the reply said, no artifact lies outside its directory, and the issues agree
with the state file.

### NotebookLM pool (`NLM/`)

Accounts with a daily quota, a use count, cool-downs and a state file; callers
pick an account, call the service without the lock, and mark the outcome.
`run_with_pool` rotates to other accounts and runs the whole operation again
there, also one that makes an artifact, waits for it, downloads it and reads it
back. Hard here: nothing is reserved
between pick and mark; days change in between; a later, shorter cool-down
replaces a longer one; the state file may fail. Correct means: the overrun of a
quota is bounded, a cool-down is served, a restart forgets nothing that was
written, a typed error is retried elsewhere, every call ends, and the result of
a repeated operation is that of its last attempt.

### Account registry and status (`CORE/account`; an older copy in `B/account_quota`)

Accounts with priorities, limits and capabilities; a state file read, changed
and replaced under a lock; events appended under the same lock. Hard here: an
account is selected before the lock and used after it. Correct means: limits
hold, no update is lost, what bars an account outlasts the usage of others, a
refusal has a cause, no thread keeps the lock.

Beside it the status observer reads what other programs write about their logins
and retries when the file has changed under it. Correct means: what it says was
so from the first look to the second.

### Workflow scheduler (`WSCH/`)

A command line runs a card of steps under a run id: an append-only ledger, a
state file, gates that wait for a human, commands on an allow list. The run id
makes a repeated call answer from the ledger. Hard here: processes that die
between two rows and are started again, two processes with one run id. Correct
means: a command runs at most once per run id, the state file never runs ahead,
an answered end stays, every call returns.

### OMC project workspace (`B/omc_workspace`, with `CORE/ledger` and `CORE/r6_gate`)

A project file of lessons: a task card that is submitted goes through a debate
loop, reuses adopted lessons (each reuse is recorded in the lesson's gate) and
leaves a lesson of its own, which the user adopts through the server or a command
line. Around it an append-only run ledger and adoption artifacts. The server and
the command line read and rewrite the whole file with no lock, through one
temporary name. Hard here: the copy the command line holds while the user is
asked, two writers of one temporary file, deaths between artifact, row and file.
Correct means: what is adopted has its row and artifact, the evidence in a gate
is in the ledger, the two lists of the file agree, an undisturbed save forgets
nothing.

### Run ledger (`CORE/ledger`)

One JSON-lines file of run records. `RunLedger` appends and reads under a
reader-writer lock; the bridge of the alliance appends to the same file without
it; the panel shows records and numbered events of a run. Hard here: rows cut
off by a death or a full disk, in the middle of a character too; the two kinds of
writers; text that a snapshot is divided at. Correct means: an acknowledged row is
read, once and in order, the file can be read, and numbers stay, wherever no fault and
no unlocked writer interfered.

### Multi-model alliance (`MMA/`)

The router picks models for a task card; the provider loop calls three command
lines in turn, reads a round from each, and writes route, debate, convergence,
a candidate line and three ledger rows. The loop reads rounds until a stopping
rule of its own is met; the debate record, the convergence record and the
validators decide again, each in its own words, what is open, answered and
carried on. Hard here: greedy choice from overlapping roles, files shared by
runs of the same second or of the same task and rewritten in place, lines left without
their end, four definitions of one notion. Correct means: nobody
reviews his own work, a lesson rests on three rounds that were read, each file that a
failed write has spoiled is that fault's, the reason given for stopping is true of the debate, no objection is lost, what needs the
user is put to the user.

### User growth and the vault (`CORE/user_growth_llmwiki`, `OBS/`)

The scanner profiles a vault and proposes changes that nobody applies by
itself; the b-1 detector writes notes about projects that are mentioned and not
touched, and takes the user's word about them, with three JSON files and no
lock. The Obsidian hub writes dashboards and records into the same vault,
ingests records in batches, turns files of a dropzone into tasks, and migrates
note types once. Hard here: commands that overlap, files rewritten in place, a
user who writes between a read and a replace, partial batches. Correct means:
notes are warranted and only the user decides, undisturbed saves keep
decisions, the mirror says what was there, and the user's text survives.

`PROJECT.json` lists every component with its files, and every hazard met while
reading with the line where it bites and the property that covers it.

## The modules

### TaskStates, TaskLedger, TaskLifecycle, TaskDispatch

`TaskStates` is the transition table of `tasks/models.py`. `TaskLedger` is the
disk of one task: `[task, ledger, index, files]`. Its operators are the calls of
the task store and the ledger writer, each with its torn forms: the values the
disk can have when the process dies inside the call (`TornCreate`, `TornUpdate`,
`TornAppend`, `TornPersist`). `TaskDispatch` has `disk[t]` for every task and
`sess[s]` for every session, whose `pc`, `cur` (the stale copy) and `step` are the
locals of `Dispatcher.run`. One action is one piece of the coroutine between two
awaits:

| action | code |
|---|---|
| `Create`, `NoteLocalFailure` | `conversation/endpoint.py`: a task is created, a failed elicitation is noted |
| `Connect`, `UserMessage`, `HangUp`, `Disconnect` | `ws/endpoint.py` |
| `Cancel` | the environment: somebody sets the `cancel_event` of `Dispatcher` |
| `Advance`, `Rejected`, `Block` | the transitions of `Dispatcher.run`, the exception of a refused one, `_block` |
| `CallHub`, `HubStarts`, `PollAgain`, `HubAnswers` | `hub_adapter.dispatch` and the polling loop |
| `WriteArtifact`, `AppendVerdict` | the end of a step |
| `Raises` | `except Exception` at the end of `run` |
| `Crash`, `CrashInCreate`, `CrashInNote`, `CrashInRun` | the process dies between calls or inside one |

`TaskLifecycle` is the abstract specification: a task has a state and the state
moves along the table. `TaskDispatch` implements it with the state of `task.json`
(`FollowsLifecycle`), torn writes and all.

`Cancel` has no caller under `src/`: the task routes are read-only, and the WebSocket sets
its event only after the generator was dropped, so that it never ends a run. The
dispatcher looks at the event in four places all the same, and the model lets it be set
whenever a run is suspended, which is more than the program does today.

Left out: a line torn in the middle by a power loss;
`update_task` and `delete_task`, which nothing but tests calls; a second event
loop or process.

### Orchestration

`reqs` is the requirements file, `orch` is `orchestration.json`, `file` the
artifacts by name, `run` the locals of `run_orchestration`. One action is one
durable write: `Start`, `Begin`, `Execute`, `WriteFanoutRow`, the critique loop
(`ReviewEnds`, `Direct`, `Revise`, `Merge`), `WriteFinal`, `WriteFinalRow`,
`MarkDone`, `MarkBlocked`, `Finish`. `Elicit` and `Confirm` are the conversation
endpoints, `Abort` an exception or a death anywhere. `Offered` is the deliverable
view. The conversation text, the review files and the reviewers' words are
abstracted; a reviewer is an environment that may agree, object, fail or answer
something that does not parse. Requirement ids are taken to differ.

### AccountPool

`rs[a]` is an account in memory, `disk` what the state file holds, `call[c]` the
locals of `account_op` or `run_with_pool`, `now` a clock in ticks. `pick` and
`mark_*` hold the lock throughout, so each is one action; the call of the service
between them holds nothing. Dates are ticks; the midnight is a multiple of
`Day`. Timestamps kept only to word a reason are left out. `past` is a history
variable for the properties.

### AccountQuota

`state` is the quota state file, `events` counts the usage events by account,
`lock` is the thread that holds the store's lock and `thread[t]` the locals of its
call. A call
loads under the lock, decides, writes and releases; the event is appended under
the lock taken again. `Select` reads without it. `AfterUsage`, `AfterSignal` and
`AfterCheck` are the three updaters. Left out: timestamps no decision reads,
explicit overrides, the payload of events.

### CardScheduler

`ledger[r]` are the rows of a run, `module` the scheduler's entry of the state
file, `proc[p]` the locals of `run_card`, `ran[r][i]` how often a command was
really executed. Every row is an action, and a process may die before any. Card
parsing is abstracted to the four kinds of steps that matter; the notifier, whose
failures are swallowed, is left out, and so are `retry_once` and
`dry_run_default`, which are parsed and never used.

### LessonLoop

`store` and `tmp` are the project file and its temporary name, each missing,
partly written or whole; `ledger` and `artifacts` are sets of what was appended and
written; `proc[p]` is the call a process is in with the document it has loaded and
the file it has open, `clock` the second that ids and adoptions are stamped with.
The handlers of the server do not await, so the server serves one request at a time,
but each read, append, open, write and rename is an action that the command
line may come between, and at each a process may die (`Die`).

| action | code |
|---|---|
| `Submit`, `Debate`, `Choose`, `Evidence`, `Reuse` | `submit_omc_ingest_task`, the debate loop's row, the choice of lessons and run id, the rows, `record_reuse` |
| `Find`, `Prompt` | `cli_adopt.py`: look the candidate up, ask |
| `Artifact`, `Row` | `adopt_candidate` |
| `LoadDoc`, `Open`, `Write`, `Replace` | `upsert_candidate` and `OMCProjectStore.save` |

Left out: the texts and tags of lessons, the fields of ledger rows that no code
reads, a submission of anything but the one task card the project has. The
document's limit of evidence is a constant (100 in the code, 2 in the run).

### DebateLoop

A run of the debate loop from its input to its decision: `AddRound` and
`AddObjection` make the rounds, `Select` is the loop's selection, `RunDebate` and
`Converge` are the functions of those names with their validators. An objection is an
id, a severity, a status and the id of the one it answers; a manual artifact may
leave each of them out. Summaries, verdicts and evidence references are left
out; the files of the loop are in `ProviderLoop`, the route in `ModelRouting`. Provider
artifacts state every field and answer nothing, so they are some of these inputs.

### ModelRouting, ProviderLoop

`routing` has a card, a pool and what `Route` makes of them: `Chosen` is
`_choose_model` with its `Score`, `Parts` and `Cast` are `_build_selection`,
`Assignable` and `Distinct` the tests before and after it. Models are numbered
in the order of their references. In `ProviderLoop` a process runs
`run_debate_loop`: `Ask` calls a command line with its retries, `BuildRounds`
reads the rounds from the artifacts (named by the second of the start), `Settle` are the
validators between the provider summaries and the other files. An output is rewritten in
place: `Empty` is the opening of `write_text`, `Fill` its end, with a mixture of two texts
where another run has filled the file in between, and `FillFails` what a full disk or a
death leaves. `AppendCandidate` and `AppendLedger` append lines, of which a failure may
leave a line without its end, to which the next one is joined. `LoopDie` comes between
any two. The contents of rounds are `DebateLoop`'s.

### AttachmentStore, DeliverablePack

`attIndex` and `attBlobs` are the files, `attJob` the upload or deletion with the
file operations it has yet to do (`UploadSteps`, `DeleteSteps`); `WriteBlob`,
`WriteIndex` and `Unlink` each succeed or fail, with the clean-up of the
`except` branch, and `AttDie` drops the job. `List`, `Download`, `Send`, `Quote`,
`SendToHub` are the readers.

In `DeliverablePack` `renderers[p]` is a run of the command: `Render` resolves the
sources, `WriteFile` replaces slides or poster, `Record` and `SaveSidecar` hash
and replace the sidecar, `PackDie` ends it anywhere. The server's report goes
modality by modality (`Report`, `Item`) and its download is `Fetch`; both read
files a renderer may be replacing. `Produce`, `Spill`, `Change` are what becomes of
the sources.

### HubAutomation, HubWatchdog

`hubCall` is one call with the snapshot of the gate; `Gate`, `Check`, `RunHub`,
`Confine`, `Adapt` (and `Started`, `Polled` for asynchronous ones) are its stages, and
`Turn` changes the world between them. `hubAnswer` keeps the call beside the
verdict. `HealthCheck` is `capability_registry.py`.

In `HubWatchdog` `watcher[w]` is a probe or a report with its copy of the state
file; `Goes` makes the next call of `gh` (search, file, view, reopen, close) or
writes the temporary file or replaces the state, each `gh` call with success,
failure or failure after its effect; `SomebodyCloses` is a person. The search takes any
open issue whose text holds the marker of the key as a part, so the issue of a longer key
is found for a shorter one that it begins with: `Marked[k]` are the keys whose marker an
issue of `k` holds, and the run has two keys of such a chain.

### RunLedgerFile, StatusObserver

`ledFile` is the file as tokens, three to a row (two halves of the text and the end of
line), `ledLock` who has the write lock. `Acquire`, `WriteSome`, `EndAppend` are
`RunLedger.append`; the bridge's processes begin at the write. A row longer than the
buffer reaches the file in two writes. `Breaks` leaves a part of a write. A wide row has a
character of several bytes where its halves meet: cut there, nothing of the file can be
decoded (`Decodes`), and a question fails. A divided row has a character in its text at
which `splitlines` ends a line: a snapshot skips both parts, the stream of a large file
does not (`Sought`). A call
(`ledProc`) knows the numbers of its rows and how many of their tokens it has written.
`Events` is what a reader makes of the file, a recursive function from token to token;
`ReadRecords` is the answer of the routes, or the failure, or the refusal of an aggregate by
its schema, which any run with an event may meet. Readers are processes apart from the writers: a
server that does both is one of each.

In `StatusObserver` `StatBefore`, `ReadText`, `StatAfter` are the three looks at the
file, at most twice; `FileChanges` happens between any two; `AskVersion` and `AskWeb`
ask the programs.

### SideNoteDetector, VaultMirror

`disk` has the registry, the queue and the opt-out file, each missing, cut or
whole; `proc[p]` is a command with what it has read. `Tell` and `SetStatus` are the
commands about projects and notes, `Sweep` the cleanup, `LoadProjects` to
`AppendNotes` a run of the detector; `Open`, `Write`, `Replace` put a file back and
`Die` comes anywhere. `mentioned`, `touched` and `done` are what the
vault says about a project on each day.

`VaultMirror` goes `ScanVault`, `Suggest`, `Comment`, `Report`, `Compile`, with
`Rewrite`, the user, between them. A note is its attributes: folder, index,
frontmatter, type, owner, name, links.

### NotebookOps, ObsidianVault

An operation of `NotebookOps` is a sequence of service calls (`Calls`); `PickOne`,
`CallService`, `CallRaises` and `CloseClient` are the loop of `run_with_pool` around
it, which begins again on another account (`AccountPool` has the pool itself).

In `ObsidianVault` `page` is the vault, `hub` a call of the hub (dashboard, record,
append, batch, poll) one read or write at a time, `migrant` the migration with its
`backup`, and `UserWrites`, `UserDrops`, `UserTakes` the user.

## What is checked

| run | instance | shows |
|---|---|---|
| `dispatch_runs` | 1 task, 2 sessions, 2 steps (textual, video), 2 messages, 2 deaths, 1 failed elicitation, disconnect and cancel; or undisturbed: 4 tasks (runnable, without target, unroutable, too long), 1 session, 2 polls, cancel | `SingleDispatcher`, `EachStepCalledOnce`, `DeliveredIsComplete`, `LedgerIsBacked`, `FollowsLifecycle`; undisturbed: `PlansReplay` (`LedgerReplays`), `PlansEnd` (`EveryRunEnds`) |
| `dispatch_reconnect` | 1 task, 1 session that reconnects | violated: `LedgerReplays` |
| `orchestrate_runs` | 2 requirements, 2 rounds, 2 runs | `FinalsHold` (types, `DoneIsBacked`, `DoneIsOffered`, `RowsNameTheirFiles`), `RunEnds` |
| `orchestrate_directives` | 2 requirements, 3 rounds | violated: `DirectivesKeepTheirRows` |
| `tool_calls` | the scheduler: 2 processes, each with a run id of its own, 2 runs with a gate, a note, commands and a refused command, 3 calls, 2 deaths; the pool: 2 callers, 2 accounts, quota 1, a midnight, typed and untyped errors, 1 failed write, 1 restart | `CommandsRunOnce`, `StateFollowsLedger`, `CachedEndIsFinal`, `EveryCallReturns`; `UsageBounded`, `DayCountLag`, `RestartLosesNothing`, `CoolDownHonoured`, `EveryCallEnds` |
| `pool_rotation` | 2 callers refused on one account | violated: `RateLimitsRotate` |
| `quota_threads` | 2 threads, a limited and an unlimited account, 3 calls, 1 fault | `UsageWithinLimit`, `UsageCoversEvents`, `RefusalsHaveCause`, `BarsOutlastUsage`, `EveryCallReturns` |
| `user_growth` | the detector: 2 commands at once on 1 project, 1 edit, 1 midnight, 1 death; the mirror: 3 pages of 11 kinds, 4 folders (one below another), 3 settings; the notebooks: 2 callers, 2 accounts, 11 operations; the vault: 4 pages, 2 calls, 3 batches, 1 word, 2 faults | `DetectorHolds`, `SavesKeepDecisions`, `CooldownHolds`; `MirrorHolds`; `OpsHold`; `VaultHolds` |
| `panel_files` | 3 uploads, 1 in trouble; 2 renderers, 2 rows and 1 more, 2 drafts, 2 dates; 5 worlds of the hub, 9 replies; the watchdog with 2 keys of which one begins the other, 1 report, 1 closing, 1 fault; 3 records of 2 kinds (one long, one wide and divided) by 2 appenders and the bridge, 1 fault; the status of 4 capabilities, 2 changes of the file | `AttachmentsHold`; `PackHolds`; `HubFailsClosed`; `IssuesAreAccounted`; `RecordsAreKept`; `StatusIsSettled` |
| `alliance` | pools of up to 3 models of 7 kinds, 35 cards; 2 provider loops, 2 runs, 2 faults; up to 3 rounds with 2 objections; the server and a command line, 2 submissions, 2 adoptions, 1 death | `RoutesAreIndependent`; `LessonsAreBacked`; `DebateHolds`; `StoreHolds`, `NothingForgotten` |
| `route_reviewers` | the routing alone | violated: `DualReviewHasTwoReviewers` |
| `watchdog_markers` | the watchdog with 2 such keys, no fault | violated: `CapabilityHasItsIssue` |

`tool_calls`, `user_growth`, `panel_files` and `alliance` each instantiate several
modules that belong to one part of the system. The modules of such a run share no
state: a variable `part` chooses one at the start, its actions move, and the
others rest in their initial states. So a run is the sum of its parts, each with its
own instance, and no property of one can be satisfied by another's rest: each is
broken by a mutant of the module it is about. `dispatch_runs` does the same with two
instances of `TaskDispatch`. Nothing is claimed of their
interleaving, which the code does not have: they act on different files, or hand
over finished records.

Properties with several named conjuncts (`FinalsHold`, `StoreHolds`, `DebateHolds`,
`VaultHolds` and the like) are listed by their name; the conjuncts are definitions of
their own with a comment each. The types of `TaskDispatch`, `AccountPool` and
`AccountQuota` are proved and not checked again. For every property of a passing run
`PROJECT.json` names a mutant: an operator of the module that changes the code
the way a plausible mistake would, under which the property fails in the same
run.

### The bounds and why they are enough

The interesting interleavings need two actors: two sessions on one task, two
callers on one account, two threads on one file, two processes on one state file, two
renderers of one deliverable, a watchdog's probe and a report. A third repeats one
of them. Two steps make a plan with a step behind the failing one. Two deaths let
a run die while it follows one that died. Two runs of the orchestration let every
file of an old run meet a new one; two rounds are a fan-out and one revision,
after which a third round repeats the second. Quotas of one and two are where
counts meet their limit. Two submissions fill a gate of one run, meet its limit and
may fall into one second. Two objections are one and its answer, in
one round or in two of which the second may be cut off. Clocks need one midnight
and the longest cool-down. A third attachment meets a limit of two. Three rows of the
run ledger are one that is cut off, one that joins its line and one behind both.
The detector starts from every content its files can have between commands, so two
commands reach what a history of commands leads to. Pages, models and cards come
in one kind for each branch of the code that looks at them; pools of three are where
a role has two candidates of which one is taken. Limits (100 notes or runs, 8 KB of buffer, 50 MiB of a streamed file) are constants that the instances make one or two.

One fault (two for the vault and the provider loop, whose files meet in the second run) is
the bound of each composed part: two that are far apart are two runs of one fault over
files that the first has left, and the instances that start from such files (the
detector, the watchdog's lost state, a torn row before the next) have them. Bounds can be small where the same property is proved for all of
them, which is so of most safety properties (see below).

The largest runs, `alliance` (3.0 million distinct states), `panel_files` (2.8) and
`user_growth` (2.4), take up to three minutes on two cores.

### Fairness

* `TaskDispatch`: weak fairness of the run of an undisturbed session. After every frame the
  endpoint awaits `send_json`, so the event loop returns to the generator; the
  hub call is under `wait_for`, and the poll budget bounds a pending answer. No
  fairness for users, disconnects, cancellation or deaths, and none is needed.
* `Orchestration`: weak fairness of the run's next step. Model and hub calls have
  timeouts, and the round bound ends the critique.
* `AccountPool`: weak fairness of each caller. The HTTP client has a timeout and
  the lock is never kept over one.
* `AccountQuota`: weak fairness of each thread's next step. Every thread makes
  finitely many calls, so the lock is free again and again, and every path
  releases it.
* `CardScheduler`: weak fairness of each process that does not die. Commands run
  under a timeout. `tool_calls` has its fairness and that of `AccountPool`.
* None for `alliance`, `panel_files` and `user_growth`: their properties are about
  safety. What the modules behind them do is started by people and ends with its
  own loops.

### Where the code and its words part

* `dispatch_reconnect`: after a lost connection the message on a new one tries
  transitions the task refuses; the store appends an error row for each
  (`B/platform/tasks/store.py:122`) and `replay_path` no longer answers the state
  of the task.
* `orchestrate_directives`: directive files are named by round, so a second
  requirement replaces the file the first one's row refers to.
* `pool_rotation`: an HTTP 429 rotates only the caller whose own mark set the
  cool-down.
* `route_reviewers`: the second reviewer of a `dual_review` may be the first one
  again (`MMA/router.py:296`), where the architecture notes speak of two.
* `watchdog_markers`: an open issue is found by the substring `watchdog-key: <key>`
  (`src/scripts/hub_watchdog.py:195`), so a key that begins another one (`hub.health` and
  `hub.health.gemini`) is given the other capability's issue and never gets one.

Met on the way and left without a run:

* `RunLedger.iter_all` says "corrupted lines are logged and skipped"
  (`CORE/ledger/run_ledger.py:88`), but the file is decoded as a whole: one row that a
  death or a full disk cut inside a character of several bytes makes every reader
  raise. `RecordsAreKept` says on whose account alone that happens.
* `splitlines` divides an intact, acknowledged row at U+2028, U+2029 or U+0085, and a
  snapshot skips both parts; a file large enough to be streamed keeps it (`Sought`).
* The task ledger is described as the record to replay from, yet `task.json` is
  written first; a death in between leaves a state the ledger does not know
  (`LedgerIsBacked` allows just that).
* Two processes with one run id that both look before either has written
  `run_started` both execute the commands of a card
  (`WSCH/scheduler.py:74`); the test of the guarantee runs one after the other.
* A gate holds 100 runs (`CORE/r6_gate/state.py:19`): the next submission that
  matches the lesson fails after its rows are in the ledger and before its
  candidate is stored.
* A lesson submitted again while it is adopted is a candidate again in the list and
  stays adopted in the history, whose entry its next adoption replaces.
* Manual artifacts that leave an objection's id out: the selection skips
  it (`MMA/loop.py:214`) and may stop as if nothing were open; the debate gives it an
  id and lists it as unresolved. `ReasonIsTrue` is stated without such artifacts.
* A raised objection that another one answers is in no section of the convergence,
  where its documentation puts every raised one under unresolved disagreements.
* The router picks models greedily and may fail, or give one model two roles, although
  it has found before that a distinct assignment exists (`MMA/router.py:227`);
  `manual_convergence` has no test of distinctness at all.
* Run ledger: "lines are written one at a time, never interleaved"
  (`CORE/ledger/run_ledger.py`) holds among its own callers; the bridge appends to
  the same file without the lock. A row without its end joins the next row, and both
  are skipped by every reader; a complete row without its newline is shown and goes
  when the next row joins its line, so event numbers shift. Rows of the bridge are
  not validated and may be skipped later. Small ledgers are split with `splitlines`,
  large ones by lines of the file. An aggregate of more than 1000 artifacts, more than 64
  models or a summary over 4096 characters is refused
  (`CORE/schemas/run_record_aggregate.py:29,38,51`).
* Account status: a file truncated in place reads as logged out; a permanently
  malformed one is called racing, and so is a program whose output is no text. A change
  within the same size and nanosecond is not seen (nor modelled).
* Hub: a video reply with no status and no path but with `completion_detected` and a
  text is ok without an artifact; a video that is ok at its asynchronous start is
  reported blocked; an artifact that vanishes before the adapter's second redaction
  leaves an ok answer without path; mock health says "available" unseen.
* Attachments: the context for a local model marks unreadable text `text_extracted`
  with empty text; an index write that fails after its replace leaves a row whose blob
  is then unlinked.
* Deliverable: the provenance names the current source and the first date, also of a
  file rendered from an older source.
* Provider loop: stamps are to the second, so two runs of a card in one second share
  provider files; candidate ids are derived from the card, so runs append duplicate
  lines; two processes may leave debate and convergence files of different runs, and as each
  is rewritten in place with no lock even a mixture of two texts in one file, without any
  fault. A failed write or a death empties or cuts the file that an earlier run had made. The
  candidate of a run that follows a cut one is joined to its line. Nothing under `src/` reads
  the candidate file back.
* Notebooks: `run_with_pool` asks for idempotent operations, and the composite ones
  are not: each rotated attempt leaves an item on its account. On an account without the
  notebook the retry gets "not found", which hides the first error. Updates and
  revisions are read back by the old id; publishing opens the notebook before it sets
  the level, sharing without a level sets none.
* Watchdog: a reported key that is not probed is never resolved; a reported reason that quotes a
  marker makes the issue an answer for that key too (not modelled); a failed search files
  a duplicate; results of close and reopen are not looked at; an unreadable state
  forgets all issues; two runs share one temporary name.
* Detector: mentions have no upper bound in time, so notes dated ahead count; nothing
  under `src/` writes the `user_response` that `no_new_response` reads, from a queue that
  may be another file than the detector's; registry and queue are written in place, and
  a death leaves a registry every command refuses or a queue that forgets cooldowns; a
  partial opt-out file reads as the permissive default; a save from an old copy undoes
  a pause; a note of another type is not held back by the cooldown; an unconfirmed
  project keeps its old expiry.
* Mirror: one relative link with ".." or more than a hundred evidence paths fail the
  whole scan; "report" in a file name makes its folder one the tool may restructure; a
  folder can be in both kinds of zones; a note in the vault's root can make "." a zone, which holds no folder; two suggestions may propose the same file.
* Vault: "create-only" is per path and the path has the month, so one source captured
  in two months is two records; the mode enforcer is called the gate for every vault
  write, and the migration and its backup go past it; what the user writes between a
  read and a replace is lost; a file edited after it was seen never becomes a task
  again, and after a restart every file does; an unreadable file in the dropzone stops
  those behind it; a dashboard body without "## Manual notes" raises where the file has
  one; a dry run counts a duplicated record twice; one file that is not UTF-8 fails the
  migration.
* `status()` of the pool does not apply the midnight reset that `pick()`
  applies; the lock of the pool is held over an fsync although its docstring says it
  is released before any I/O; a streak of three server errors counts other errors too;
  deferred requirements keep the coarse state `in_progress`.

## What is proved

TLAPS proves, for every value of the constants that satisfies the named
assumption of each module:

| theorem | says |
|---|---|
| `TaskDispatch_proofs!TypeCorrect` | the files and sessions keep their types |
| `TaskDispatch_proofs!OneDispatcherPerTask` | `SingleDispatcher`: one session per task spends hub calls |
| `TaskDispatch_proofs!EndedRunsAreTerminal` | a run that ends by itself leaves a terminal task |
| `TaskDispatch_proofs!RefinesLifecycle` | `TaskDispatch` implements `TaskLifecycle` |
| `TaskDispatch_proofs!HubCalledOncePerStep` | `EachStepCalledOnce`: no step of a plan is paid twice |
| `TaskDispatch_proofs!DeliveredTasksAreComplete` | `DeliveredIsComplete`: every result and the verdict are in files and ledger |
| `TaskDispatch_proofs!LedgersAreBacked` | `LedgerIsBacked`: rows have their files, the replay gives a state the task was in |
| `TaskDispatch_proofs!UndisturbedLedgersReplay` | `LedgerReplays`, with one session, no disconnect and no crash |
| `TaskDispatch_proofs!RunsRunOut` | a run has a bounded number of stretches of code to go, and each leaves fewer |
| `Orchestration_proofs!FinalsAreKept` | `FinalsHold`: what is done is backed by its own confirmation and run |
| `Orchestration_proofs!RunsRunOut` | a run takes at most `2 * MaxRounds + 7` steps for each requirement and one more |
| `AccountPool_proofs!TypeCorrect` | the pool, its file and its callers keep their types |
| `AccountPool_proofs!QuotaOverrunBounded` | counted calls and calls in flight exceed the quota by less than the number of callers |
| `AccountPool_proofs!StateFileIsCurrent` | without failed writes the file equals the memory |
| `AccountPool_proofs!CoolDownsAreHonoured` | no account is handed out before the shortest cool-down has passed |
| `AccountPool_proofs!DayCountsLagByCallers` | the count of a day misses at most one call of each caller |
| `AccountPool_proofs!RotationsRunOut` | each step of a call leaves it less to do, whatever its budget of rotations |
| `AccountQuota_proofs!TypeCorrect` | the registry keeps its types |
| `AccountQuota_proofs!LimitsHold` | every account stays within its limit |
| `AccountQuota_proofs!NoUsageIsLost` | the file accounts for every event |
| `AccountQuota_proofs!BarsAreNotLost` | usage never lifts a bar |
| `AccountQuota_proofs!SelectionsAreRefusedForCause` | a selected account is refused only for usage that came after the selection |
| `AccountQuota_proofs!LockComesBack` | the holder of the lock can always go on by itself, and each step of a call leaves fewer |
| `CardScheduler_proofs!NoCommandRunsTwice` | `CommandsRunOnce`, with one process at a time for a run id |
| `CardScheduler_proofs!StateFollows` | `StateFollowsLedger`, with the same |
| `CardScheduler_proofs!AnswersAreFinal` | `CachedEndIsFinal`, with the same: an end once answered stays |
| `CardScheduler_proofs!CardsRunOut` | a card takes at most three steps for each of its own and six more |
| `Alliance_proofs!ProjectFileIsBacked` | `StoreHolds`: adoptions and evidence have their rows, the lists agree |
| `Alliance_proofs!UndisturbedSavesForgetNothing` | `NothingForgotten`: an undisturbed save keeps what the file had |
| `Alliance_proofs!LessonsStayBacked` | `LessonsAreBacked`: a lesson comes from three readable rounds, its files are there and of such runs; a record that is incomplete or cannot be read and a file left empty or cut are one fault each |
| `Alliance_proofs!DebatesHold` | `DebateHolds`: the reason is true, each objection is in one place, the user decides what asks for the user |
| `Alliance_proofs!RoutesStayIndependent` | `RoutesAreIndependent`: whatever the pool and the card, somebody reviews who did not produce |
| `PanelFiles_proofs!IssuesStayAccounted` | `IssuesAreAccounted`: the issue kept for a capability holds its marker, whatever happens; without trouble no two open issues are of one capability, and the state file has each |
| `PanelFiles_proofs!HubStaysClosed` | `HubFailsClosed`: only allowed calls of the pinned build, ok only when the reply says so |
| `PanelFiles_proofs!StatusStaysSettled` | `StatusIsSettled`: what is shown of a login was so throughout the look |
| `PanelFiles_proofs!PackStaysHonest` | `PackHolds`: what is delivered or converted comes from a ledgered draft |
| `PanelFiles_proofs!AttachmentsStay` | `AttachmentsHold`: what is listed has its bytes, what is settled leaves nothing, what was deleted is gone |
| `PanelFiles_proofs!RecordsStayKept` | `RecordsAreKept`: only faults and the unlocked bridge put two rows on a line or make the file unreadable; else each acknowledged record that is not divided is read, once and in order |
| `UserGrowth_proofs!VaultIsKept` | `VaultHolds`: the user's words outlive the hub, tasks are made once, batches are refused or applied |
| `UserGrowth_proofs!DetectorIsWarranted` | `DetectorHolds`: notes rest on approval, mentions and no progress; only the user decides |
| `UserGrowth_proofs!SavesAreKept` | `SavesKeepDecisions`: an undisturbed save takes nothing from the user and leaves a whole file |
| `UserGrowth_proofs!CooldownIsKept` | `CooldownHolds`: an undisturbed run queues no second note within the cooldown |
| `UserGrowth_proofs!CompositesHold` | `OpsHold`: results are real, one item per account and call, no level that nobody chose |
| `UserGrowth_proofs!MirrorIsTrue` | `MirrorHolds`: what is said of the vault was so at the scan, and nothing is lost on the way |

Two hypotheses on the environment beside the constants occur:

* `Undisturbed` (`UndisturbedLedgersReplay`): one session, no disconnect, no crash. It is
  needed: `dispatch_reconnect` shows what a reconnect does to the replay, and a death
  between `task.json` and its row does the same.
* `OneAtATime` (the first three of `CardScheduler_proofs`): a run id is given to one process at a time, any
  number of times and over deaths. The code takes no lock on a run, and two processes that
  look for its end before either has begun both execute the card; the operator
  who starts cards one after the other is what the test of idempotence assumes too.

The arguments.

* **Task platform.** The inductive invariant is `TypeOK`, `Attached` (the task of a
  connected session exists, has left `created` and `planning` once the session
  works on it, and the session's copy is not terminal) and `SingleDispatcher`. The
  last does not follow from the session's own guards: its copy may be stale. What
  saves it is that a state change re-reads `task.json` and that no edge of the table
  leads back to a state from which a second session could enter; the proof goes
  action by action and inside an action by the session that moves.
  On top of it, `FilesInv` says of each task's files that no step is called twice, results
  have their files, and the last row with a state names error or a state the task has gone
  through; and of each working session that the steps before its own have results and
  no later one has been called. Other sessions only append rows that this does not read
  (`Quiet`). For the replay, `AloneInv` lets the one session's copy be the file and the
  last row with a state name it.
* **Orchestration.** What a run has in its locals is on disk under names that carry
  their requirement, files of earlier runs are told apart by the run they were written in
  (`Fresh`), and the requirements before the current one have their final rows
  (`Passed`).
* **Pool.** `TypeOK`, `UsageBounded`, `DiskBounded` (the same of the file, which a
  restart makes the memory), `RestartLosesNothing` and `CoolDownKept` (what the
  account's record says is at least what the history asks). The bound counts the
  callers in flight on an account; the proof uses cardinalities of that set. For
  `DayCountLag`, an account whose reset is due has not been given out since midnight: the
  answers of the day are those of callers that had it then (`DayCounted`).
* **Registry.** Every call in progress is well formed, holds a copy of the file
  that is the file while it has the lock, and has a warrant for what it is about
  to do; and usage is within limits. The events still to be appended are counted
  by the set of threads that owe one.
* **Scheduler.** A ledger is reduced to how it began, how it ended and whether it was
  closed; `CardInv` ties the three to what the process that has the run knows at each
  step: before `run_started` nothing has been executed, before a step no command from it
  on, at the end one end only. A death leaves a ledger that has begun and has no end, and
  every later call is answered from it and executes nothing.
* **Lessons.** Every document, in the store, in the temporary file and in a process, is
  backed by ledger and artifacts, which only grow; a process that adopts has the row and
  the artifact before it loads. For `NothingForgotten` the invariant follows one save from
  its load: as long as it is undisturbed the store is what it loaded.
* **Provider loop.** By the place of a process: behind the reading its run has its
  rounds, behind each write the file is some such run's, behind the candidate its run has a
  line. Run numbers are unique, so a run's rows are all its own process's. The lessons
  without a complete record are counted against the processes that still owe one and
  against the faults; a step that adds such a lesson adds a process that owes its rows. Each
  line without its end is counted against the fault that left it, and a recorded
  candidate that cannot be read is mapped to the unended line before it, one to one. An
  output that is empty or cut and has no process about to fill it was left so by a fault;
  a step that opens or fills a file takes it off this account or puts it there with a
  fault of its own.
* **Debate.** A debate keeps what it was made of (`DebateInv`): the rounds, for which the reason
  holds and each suggestion to act outside has its blocker, and its objections, which are those
  of the rounds in order. That ids differ and that what is addressed is open and came before
  (`DebateOrder`) makes the answers of an objection the later ones that settle it, so the
  four places that decide what is open agree (`Answers`, `SameBlockers`, `Sections`). Rounds
  are joined by a recursive function; that it keeps every objection (`FlattenFacts`) is proved by
  the least length at which it would not.
* **Routing.** A cast is a sequence of choices, each the best of its candidates given the models
  used before (`CastIs`, through a least counterexample, as the code counts with a loop). An unused
  candidate always beats a used one (`ChosenIsBest`: 4 against at most 3), which is why the first
  reviewer of a `dual_review` is not its producer; in the other routes the distinctness
  the router checks afterwards suffices. That the package's own models serve every card is
  computed from their table.
* **Watchdog.** The state file, its temporary file and every run's map name only issues
  whose text holds the capability's marker, whatever overlaps. Without trouble (`Calm`) one run
  at a time is active, its map has every open issue under the key it was filed for, and
  it is what the file will be. That a probe never closes an issue that it still records uses
  `MarkedAssumption`: of the keys that one key begins with at most one is probed.
* **Hub.** By the stage of the call (`HubRules`): behind the gate the settings it took
  allow calls, behind the check the operation is allowed and the build was fresh, behind
  the process the redacted status is that of the reply and of the artifact's confinement.
* **Status.** The Gemini command line is shown only at the end of its own look, between
  whose beginning and end the texts of the file are collected; an unchanged `stat` leaves one
  text, and one text means that what was parsed is what was there.
* **Deliverables.** The ledger of drafts only grows; every file and copy is a rendering
  of a ledgered draft. A renderer alone holds the rendering of the draft it chose,
  from the choice to the report.
* **Attachments.** `JobHolds` says, by the file operation an upload or a deletion is at, what of
  it is there: an upload is nowhere, then a blob with its own bytes, then a row; a
  deletion a row, then no row. Ids are drawn once, so no other attachment is touched
  (`OthersStay`). The rows that remain of an index and the parts that are quoted of it
  (`Remaining`, `Quoted`) are recursive functions; what they compute of every prefix is shown
  through the least length at which it would fail (`RemainingFacts`, `QuotedFacts`).
* **Records.** `LedInv` says of each call that the tokens of its rows which are in the file are
  exactly those it has counted (`Owns`), and of the file that a token is there once and behind
  its predecessor (`GoodFile`), that the pairs of rows which share a line are exactly those on
  record (`Joins`), and that whoever began a row has ended it, was struck, or is writing and
  has the lock if it is an appender (`Attended`). A second row behind an unended one is then
  always the bridge's or the first was struck. A row that is there as a whole and
  shares no line has a line of its own (`WholeRowHasLine`). A wide row whose halves are apart
  is still being written under the lock, or it was struck, is the bridge's or shares a line;
  so with the lock free only these make the file unreadable. What `Events` computes is shown place
  by place through a least counterexample (`ScanReads`, `ScanGrows`): a reader lists each such
  row once, and a file that has grown without a new shared line begins with the events
  it had.
* **Vault.** The text about to be written and the backup together have the words that may
  not be lost (those the user wrote before the page was read); the migration has a copy of
  what it is about to replace; a file that is not among the seen ones was handed over as
  often as there was a reason to; and of a batch, the part that is done is there.
* **Detector.** What the user writes and says only grows (`Grows`), so a document borne out
  when a command computed it (`Backed`) is so when the command writes it, however late. And
  as long as nobody has changed a file the command holds a copy of, the file still is that
  copy (`Undisturbed`): each lemma shows this kept by the command's own step, and
  `OthersStay` by every other's.
* **Notebooks.** While a call goes on, all that it made is on accounts it tried, and none on
  the present one until the one call of the operation that makes an item there (`RunHolds`); the
  item it holds from then on is its own, and in the file from the download (`ItemHolds`).
  Calls have numbers of their own, so no other call's step disturbs this (`OthersHold`).
  A notebook that was let in without a level has a sharing call under way, or one on record
  that broke off (`LevelKept`). What the calls of each operation are is the lemma `CallFacts`.
* **Mirror.** A zone is inferred from the settings or else from the note (`ZoneFacts`), so the
  profile is real when it is made (`ScannedIsReal`), and `MirrorInv` speaks of the profile's own
  copy of the notes, which the user's later writing does not reach. A risk that calls for action
  is determined by its code and its folder (`RiskFacts`, `RiskIsOne`): that is why two
  suggestions cannot stand for one risk and why an orphan cluster, which is noted from
  another list, is noted at all.
* **Progress.** For five components a number is read off the state of a call: how much of the
  list it walks is left (steps of the plan and polls, requirements and rounds, untried
  accounts, steps of the card, the stages behind a choice). Every step of the call makes it
  smaller, and it is a natural number with a bound in the constants; no step of another actor
  makes it larger. What this needs are invariants of a few lines: a call is within its
  list (`RunsInPlan`, `CallsInCard`; the other three have it from the invariants they were
  given before), and whoever has the registry's lock is between load and save
  (`HolderIsAtWork`), so that nobody waits for somebody who waits.

`TypeCorrect` of the three modules is proved and no longer checked in a run. The inductive
invariants of the other modules were model-checked on their instances before they
were proved, all but the three short ones of the progress measures.

Only checked, not proved:

* Liveness: `EveryRunEnds` (`PlansEnd`), `RunEnds`, `EveryCallEnds` and both `EveryCallReturns`. The prover
  handles neither fairness nor ENABLED. The half of each that needs no fairness is proved, in
  `RunsRunOut` (of both modules), `RotationsRunOut`, `LockComesBack` and `CardsRunOut`: a call
  that goes on taking steps has only so many. That it goes on, which is what the
  fairness of the specifications says and ENABLED would have to justify, is checked by TLC.

## Abstractions to know of

Where a module is coarser than the code, in what it can tell apart or in the size of a step.
None of these is what a property is about.

* Health checks: the status `missing` of a web hub, shown as not implemented, is left out.
* Detector: a run's readings of registry, vault and queue are one step (`Scan`); a queue cut
  inside a character, which ends the command with an exception, reads as empty, as other
  broken queues do; the window for file times begins at the time of day and is counted
  in whole days here.
* Mirror: a scan reads file by file and is one step here. The links of a note are those the
  scanner resolves (an exact path or a stem; a stem of several notes counts for one of
  them); folders of the user stand for all spellings of the marked names. A suggestion text
  over 8192 characters raises, which leaves everything as it was.
* Notebooks: opening the client is part of the pick; where it fails, the first call raises
  without effect.
* Vault: the copies of a migration are in a directory named by its second. Two migrations
  of one second share it, and the later copy of a file replaces the earlier one; the
  model takes two runs not to fall into one second.
* Provider loop: a command line's artifact is one write; a line that lacks nothing but its
  end counts as one that cannot be read.
* Run ledger: a character of several bytes is where the two halves of a row meet and nowhere
  else, and of what is left of a row no divider is the last.
* Watchdog: the text of an issue holds the markers of the keys its own key begins with and
  no others.

## Not modelled

* Stateless parts: workflow library, memory recall (floating-point scores), backend
  orchestration schemas, shared schemas, application construction and settings, the
  notifier and redaction of the scheduler. They are straight-line code over one
  input, and what could be wrong in them is wording or arithmetic.
* Parts whose order is not the repository's: tokens (single statements of SQLite),
  speech to text (one external call), the browser and command-line runtime, the console.
* Approval queue and source index: a file appended to and listed. What two unlocked
  appenders do to a line is in `RunLedgerFile`; no decision is ever written to the queue.
* HTTP routes without state of their own, the pool's command line, the repository's
  gates.
* Of modelled parts: conversation text and prompts, Markdown parsing and rendering, the
  SQLite copy of user-growth records, the single calls and the run log of the notebook
  package, the synchronization log and validator of the hub, explicit overrides of the
  account registry. Two processes that write one vault path are not modelled: nothing
  under `src/` runs them.

## Plan

Done: every module of the inventory that is called modelled, its runs, and a theorem for
every safety invariant and action property that a run expects to hold. Left are extensions
of the model, each with its own proofs: the explicit overrides of the account registry, and the
run log of the notebook package.
