# A TLA+ model of AutoCorp CLI

AutoCorp CLI is a local tool that builds, tests and repairs programs and, in its
chat app, drives an external program, CloneCast, through the production of an audio
episode.  This directory holds TLA+ modules translated from its Python source,
the TLC configurations that check them, and theorems about them that TLAPS
checks.  All paths below are relative to the repository.

1. [The system](#1-the-system): components, state, interaction, what is hard
2. [The modules](#2-the-modules): how each corresponds to the code
3. [What is checked](#3-what-is-checked): runs, bounds, fairness, results
4. [Disagreements](#4-disagreements-between-the-code-and-its-documentation)
5. [What is proved](#5-what-is-proved)
6. [Not modelled](#6-not-modelled)
7. [Plan](#7-plan)

`PROJECT.json` lists components, runs, mutants (a plausible bug in a definition
that makes a property fail, for every property of every passing run), the source
lines of every definition, the disagreements found, the hazards and the theorems.

## 1. The system

### Chat app

| Component | State | Operations |
|---|---|---|
| Chat controller (`app/chat_controller.py`, `app/routes.py`) | one JSON file per session (status, pending question, uploads, link to the episode); in memory a registry of handles, each with an answer queue and a cancel flag | start, resume, answer, upload, cancel, unlock; a worker thread that runs the workflow; reconciliation at process start |
| Guided episode workflow (`brains/guided_clonecast_episode.py`) | one JSON file per episode: stage, failed stage, research, script, voice and delivery, audio jobs, approval | `run_guided_episode_build`, `approve_for_publishing`, `reject_after_review`, `regenerate_section` |
| Session store, uploads (`app/session_store.py`, `app/file_service.py`) | files | atomic save, load, list, delete failed |
| Desktop launcher (`app/launcher.py`, `app/desktop_lifecycle.py`, `app/desktop_app.py`) | port, two pid files, processes | launch, focus, wait, give up, close |
| GPU guard (`app/gpu_guard.py`) | a log of reservations | measure, unload models, wait, release |

Route handlers run in a thread pool, so any two of them, and a worker thread,
interleave; `api_upload` is asynchronous, so uploads do not interleave with one
another but do with everything else.  No lock protects a session's file: every
handler loads it, changes its copy and writes the whole copy back.  A handle is
found and registered under a lock, but the check and the registration are
separate.  The workflow blocks in a callback on the handle's queue.  The desktop
processes and the server processes only see each other through the port, pids and
pid files.  CloneCast's commands are separate processes whose effects stay.

What makes this correct: one driver per episode; a status that tells the truth;
answers that reach the question they were given to; a cancellation that stops
the worker; a restart that leaves every session resumable; an approval that
belongs to the audio that was approved; work that is neither lost nor done
twice, whatever step an interruption falls on; one server, and none that is left
behind.

### Engineering side

| Component | State | What is hard, and what makes it correct |
|---|---|---|
| Reliability engine (`reliability_engine/`) | a git worktree for each subtask, tables of subtasks, attempts and known issues, the repository | what a failed attempt leaves for the next one; an exception between attempt, regression run and merge; which worktrees may go.  Only verified work reaches the repository |
| Build loop, self-healing (`core/orchestrator.py`, builder, tester, reviewer, acceptance, `brains/self_healing_orchestrator.py`) | the workspace, counters, the memory | a fix, a refused write or a stopped command between the tests and the record.  What is recorded as passed is what was tested |
| Repair pipeline (`brains/repair_*.py`) | the working tree, a proposal file, prompts and their provenance | the user edits between a command's check, write and rollback; one of several writes fails.  A result says what was left |
| Providers, usage ledger (`brains/provider_policy.py`, `usage_ledger.py`, `context_budget.py`) | the models in the Ollama server's memory, a SQLite file | concurrent callers, clean-up after a failure, first use of the file.  Every use leaves one true row |
| Fast pytest engine (`brains/fast_pytest_engine.py`, `autocorp_testing/`) | history of test results | selection that misses a test, runs that end early.  PASSED means passed |
| Memory (`memory/store.py`), gates (`safety/`) | SQLite; nothing | part of the build loop here |
| Live tests, discovery, manager, command line, templates | none or I/O | not core logic |

Builds, repairs and test commands are processes of their own that share a
repository, a workspace folder, the memory and the ledger.  What is hard in each
component is listed, at its line, under "hazards" in `PROJECT.json`.

## 2. The modules

| Module | Content |
|---|---|
| `ChatController` | one session: HTTP handlers, worker threads, registry, session file, restarts |
| `SessionLifecycle` | abstract: the status the browser sees, and whether somebody works |
| `GuidedEpisode` | one episode: stages, CloneCast's state, interruptions, the owner |
| `PublishingGate` | abstract: audio, the approved audio, eligibility |
| `DesktopLauncher` | desktop processes, server processes, pid files, port |
| `ReliabilityRun` | runs of the reliability engine: subtasks, worktrees, attempts, merge |
| `BuildLoop` | builds: plan, routing, folder, files, review, tests, fixes, criteria, healing, memory |
| `ProviderUse` | calls of language models, the model server, the usage ledger and its report |
| `RepairDesk` | plan, repair, propose-repair and repair-handoff in a repository that is edited |
| `FastTests` | test-plan, test-fast, test-focused and test-full in a repository that is edited |
| `*_proofs` | theorems and proofs about the module of that name |
| `MC_*` | small instances for TLC |

The modules meet at files: `ChatController` has the episode's workflow as a
sequence of prompts whose stages are `GuidedEpisode`; `DesktopLauncher` has one
session of `ChatController` as the job a server drives; `BuildLoop` and `RepairDesk`
have a model's answer as a choice whose bookkeeping is `ProviderUse`.

### ChatController

`disk` is the session's file; a handler of client `c` has a program counter
`cpc[c]`, the copy it loaded `capp[c]` and the handle it looked up `chandle[c]`;
a worker `t` has `wpc[t]`, `wapp[t]`, `whandle[t]` and the number of prompts
answered `wpos[t]`; `registry` is `_HANDLES` for this session; `queue` and
`cancelSet` belong to the handles; `progress` is how far the episode's own record
has come.  One action is the code between two points where another thread can
act on something shared: `resume_session` is `ResumeLoad`, `ResumeCheck` (or
`ResumeRaises`), `ResumeRecover` and `ResumeReload` for research that was pasted
before, `ResumeSave`, `Register` and `Launch`, which starts the thread.  A start saves
"running", then asks CloneCast for the voices, and only then registers a worker; if
that question raises (`StartRaises`), the session keeps its status with nobody to work
on it until the next start of the server.  The history variable `lost` remembers it.
Handles and workers have the same number, because each handle is created for one
thread.  That `thread.start()` itself fails is left out.

The workflow appears as a sequence of prompts (`Prompts`), its output lines and
its outcome: it may fail anywhere.  A prompt whose answer the record already
holds is not asked again.  The fields stand for four kinds of question: a file, a
choice that the first message may answer, a voice that may need confirmation,
and the start of generation, after which the user may save for later.

Left out: titles, texts and progress events.  `_wait_for_update` (a handler that
waits for the worker before it builds its response) changes nothing in the file.

`SessionLifecycle` says what a browser may see happen to a session: its status
moves between running, waiting, failed and completed only as documented.  The
run `MC_Chat_restarts` checks that `ChatController` implements it.

### GuidedEpisode

`disk` is the record in the episode's file, `mem` the run's copy, `pc` the next
stage, `cc` what CloneCast holds.  A step that changes the copy sets `unsaved`,
and the next step of the run is `Save`; so an interruption may fall between a
CloneCast command (whose effect is in `cc` already) and the save.  Stages set or
advance `completed_stage` exactly as the code does: some assign it, which moves it
back in a resumed run, others use `_advance_stage`.  Without "save" in `MayFail`
runs only stop where what they changed has been saved.

Audio is named by the delivery it was rendered with: the idempotency keys of
rendering and assembly contain its fingerprint.  The key of a mastering does not: it
is the session and a retry count (`guided_clonecast_episode.py:1133`), and the
suffixes already used are read off the jobs of the present audio only (`:1099`), so
that after a change of delivery the key of the earlier audio is sent again
(`KeyTakenBy`).  What CloneCast answers then is not in this repository, so it is the
parameter `KeyNames`: a mastering of the audio that was sent ("audio"), or
the job the key first named ("session"), which is what idempotency promises and what
gives the session its earlier audio back.

Assumed of CloneCast (external): commands are idempotent under their key; a
duplicate refers to an item that is not itself a duplicate of the session's own;
an import never goes from accepted to something else.  The commands `--approve`
and `--reject` load and save at once in their own process.

Guests, media, titles, checksums and measurements are data that no property
depends on.  `regenerate_section` always refuses: nothing in the source fills
`failed_sections` or `rejected_sections`.

`PublishingGate` says what whoever may publish relies on: eligibility is lost
whenever the audio is replaced, and gained only for audio that is there.

### DesktopLauncher

`dpc[d]` is where desktop process `d` is in `launch_server`, `start_or_connect` or
`shutdown_desktop`; `srv[s]` the state of server process `s`; `port` who listens.
A pid is the process's number.  `_pid_is_running` uses signal 0, so a dead child
that its parent has not reaped still counts as running (`Unreaped`); which parent
it has is the variable `parent`.  `session` and `job` are one chat session and the
server whose worker drives it, for the reconciliation that every server process
performs before it binds the port.

`pace`, chosen once per behaviour, describes the environment: who clicks, whether
launches and closes overlap, and whether a server may take longer than the launcher
waits.

### ReliabilityRun

A request becomes a plan of subtasks (one, if it names a file: `edit`), worked on
one after the other.  A tree of files is the set of changes that distinguish it
from the commit; a change is the file it is in and the subtask and attempt that
made it (attempt 0 is the builder's).  `repo` is the repository's working tree,
`tree` the one in the current subtask's worktree, `there` the names of the
worktrees that exist, `rows` the tables.  What a model writes, whether a gate or a
suite passes and whether `git worktree`, a reset or a reverse diff fails are choices.

`strategy` is which of three pieces of code makes the attempts: the test loop, or
best-of-n for new programs (`choose`) or edits (`choose_edit`).  They share
`ResetForAttempt`, `Generate`, `Apply`, `Judge` and `Record`, and differ in what
they reset and in when they count an attempt before they record it, which is what
`AttemptsAreRecorded` is about; `choose` counts and records nothing.  It does not look
at whether it could take a candidate back either (`self_consistency.py:76`): `unreversed`
holds the subtasks in whose tree one stayed.  A run may come to wait for ever
(`Hangs`) for the commands that have no time limit.  `Raises` is the except clause of
`ReliabilityOrchestrator.run` and may be reached from any place in `Raising`;
`CreateWorktree` is before the `try`, and its exception ends the run.  `verified` is
a history variable: the changes in trees the regression suite passed on.

Left out: what models are told, repairs of plans and of patch formats, the copy of
the state in `project-state.json`, removal of old worktrees by age, and two runs
at once in one repository.

### BuildLoop

`run[s]` is one build's place in `Session.run` and its local variables, `opts[s]` its
command line.  `exists` and `ws` are the workspace's folders of one project name
(`project`, `project_2`, ...) and their files; `rows` and `lessons` the memory.  Looking
for a free folder (`ChooseDir`) and making it (`MakeDir`) are two steps, so that two
builds may find the same one.  `Decisions` is `ModelRouter.route` with its rules in
their order and its fallback; `Explicit` the authorisation it gives the engine.

One step writes one file, runs the tests once, or is one fix, judgement, healing
request, healing write or verification; after each the gates may refuse, a command
may be stopped, the memory may refuse a row and the process may be interrupted.  A
file holds a program with an entry point, one without, one that does not parse, or
the text of an acceptance criterion, which is what the self-healing writes into the
first file of the build order.  What a command's run gives is a choice, whatever the
files hold.

`prior`, `tested`, `paidFor` and `healed` are history variables: the folders there
when the build began, the files its tests last succeeded on (none, or one set of
files), paid engines that generated for it, and builds that wrote after their tests.

### ProviderUse

`call[c]` is the call a caller makes and what its row will say; the kinds are those
of `provider_policy.invoke`, `build_repair_proposal`, the content generator, the
planner's and tester's `json` calls, deterministic steps that are only recorded, and
`usage-report`.  `loaded` are the models in the Ollama server's memory and `leaving`
those it was asked to drop while in use.  `file` is the ledger: `init_ledger` reads
the schema version (`InitLedger`), creates the table (`CreateTable`) and writes the
version (`StampVersion`) in separate statements.  `Report`, `Savings` and
`SelectedBytes` are the arithmetic of the report and of the bounded context.

Assumed of the Ollama server (external): a request loads its model; `keep_alive: 0`
drops it when the last request that uses it ends.  Assumed of SQLite: a statement is
atomic.  `excused` holds calls that were interrupted, killed or refused by the
ledger, which the properties leave out.  A refused request to unload (`refused`) excuses
nothing: the call still writes its row, and only the model stays.  `holders` are the calls
on whose account the main model is in memory, that is those that used it since it was loaded.

A bundle is a head, which ends with the description of the failure, and items.  Only
the items are held to the limit; the head, and the system prompt and output contract
added afterwards (`FixedBytes`), are not (`context_budget.py:305-328`).  Percentages are
in hundredths.  `round` works on a float, so that a half of a hundredth may go either
way: `Percentages` is the set of values it may give.  That one rounding is all a float can
change holds for baselines below 10^11 tokens.  The report's count of failed clean-ups,
and that `finish` of a proposal also asks for an unload when no engine was available,
are part of the rows; a refused unload is not among the failures it counts.

### RepairDesk

`tree` is the working tree: whether there is a dependency file and whose, what each
Python file holds as far as the scanner, the analyzer and the planner look at it, and
what commands leave behind.  `committed` is the last commit.  `pc` is where the
command is, `cmd` what it has computed.  `PlanActions` is `_plan_actions` on the
tree, `CanExecute` which of its actions a repair can execute.  `SafetyChecks`,
`WriteRepair`, `Validate` and `Rollback` are the steps of `execute_repair_plan`;
`Propose`, `Answer` and `SaveProposal` those of a proposal; `WritePrompt`,
`WriteProvenance`, `RecordHandoff` and `Deliver` those of a handoff, for each agent.

The user is a process of his own: between any two steps he may write or delete a
file, write or remove the dependency file, commit, or clean up.  A prompt's name is
its second, its defect and its agent, so that a second handoff in the same second
meets the first one's file.  `raced` and `undone` record that the user wrote the
dependency file after the checks, and that the rollback could not remove it.

An entry of a proposal may come without a path or without a hash (`NoPath`, `NoHash`);
the code compares neither (`repair_proposal.py:439-455`).  Validation compiles the files
one by one, so that edits fall between them.

### FastTests

`disk`, `index` and `head` are what each file holds in the working tree, in git's index
and in the last commit; what git shows as changed follows from the three, so that a file
which is edited and restored is not shown any more.  A fingerprint is what the commit and
the changed files hold (`Fingerprint`), and comes back when they do.  Contents are classes
(what a file imports, whether it parses, passes or is gone), which are coarser than the
code's hashes: the model takes more trees for the same than the code.  `git status` and the
hashes that follow are one step, a commit is known by what it holds, and renames are left
out.

A command detects changes, plans, checks and runs pytest in separate steps while the
developer edits, restores, stages and commits, and records file by file (`RecordResult`).
`met` in a row says that pytest ran on the tree that was fingerprinted, and `steady` in a
report that nobody edited from the look at git to the end: an edit that is undone while
pytest runs changes no fingerprint (`met` and `steady` are history).  `warned` are the
sources that the plan's warnings name.
`ReasonsFor`, `Category`, `Selection` and `OrderSelected` are the mapping and the plan
as functions of the changes; the layout says which test is linked to which source by
name, import, profile or feature.

pytest is external: `PytestRuns` is its exit status and the lines of its output for
files that pass, fail, cannot be collected, hold no tests or are gone, for a run that
is stopped after its timeout and for an interpreter that dies.

## 3. What is checked

| Run | Instance | Distinct states | Properties |
|---|---|---|---|
| `MC_Chat_restarts` | one window that starts, resumes and answers, 4 prompts, 3 workers, 2 restarts | @CR@ | `SessionIsServed`, `AnswerFitsQuestion`, `RunningSettles`, `ImplementsLifecycle` |
| `MC_Chat_windows` | one window that starts and resumes, one that answers, uploads, cancels and unlocks; 3 prompts, 2 workers, a queue of 3 | 1.39 M | `OneDriver`, `RegistryIsLiveWorker`, `CancelStopsWorker` |
| `MC_Episode_interrupts` | 2 voices, 1 preset, 3 interruptions at any step; research, speech, mastering and a list of jobs may fail | 549 k | `AcceptedIsCanonical`, `AssignmentIsOurs`, `StageHasEvidence`, `EveryEpisodeFinishes` |
| `MC_Episode_delivery` | 2 presets; the studio's default and somebody else's voice appear at any time; 2 failures; keys that name the session's first audio | 679 k | `GateIsCurrentDelivery`, `EligibleAudioWasApproved`, `ImplementsPublishingGate`, `NothingIsLost` |
| `MC_Desktop` | 3 clicks one at a time, or 2 at any pace with slow servers; 2 server deaths, 1 desktop death, a job | @DE@ | `SingleInstance`, `ServerEndsWithWindow`, `LaunchSettles` |
| `MC_Reliability` | 2 runs, 2 subtasks, 2 attempts, 3 files; resets, reverse diffs and worktrees fail, exceptions up to the merge, a suite that hangs, 1 kill | 699 k | `RepoIsVerified`, `OneAttemptIsMerged`, `BlockedLeavesRepo`, `AttemptsAreRecorded`, `WorktreesAreKept`, `RunEnds` |
| `MC_BuildLoop` | one build with each option by itself, and two of one template at once; `MAX_FIX_ATTEMPTS` 2, 3 folders, 1 fault | @BL@ | `PassedWasTested`, `OutcomeIsRecorded`, `PaidIsAuthorised`, `PriorBuildKept`, `BuildEnds` |
| `MC_ProviderUse` | 2 callers, 2 calls of any kind, ledger new, current or of an unknown version, 2 faults; a head over the limit | 1.62 M | `LedgerIsTrue`, `SavingsAreSound`, `FreedAtRest`, `LedgerIsReady` |
| `MC_RepairDesk` | 3 files, 3 contents, 2 commands, 1 edit, 1 kill, 2 seconds; entries without path or hash | 2.34 M | `UserFilesAreKept`, `OutcomeIsTrue`, `ProposalMatchesPrompt`, `HandoffIsProven` |
| `MC_Fast` | 2 sources and 5 tests in two layouts, 2 terminals, 2 commands, 3 edits (break, delete, restore), 1 fault | 2.97 M | `FastRunsTheChange`, `PassedIsSound`, `PassedRowsAreEarned` |

Two more runs expect a violation (section 4).  Each module has a `TypeOK`; the proofs
rest on it or on a part of it, and the runs spend their time on the other properties.

Some properties state what they are conditioned on; section 4 says what happens
otherwise.

- `SessionIsServed` and `RunningSettles` except a session whose start raised before it
  had a worker (`lost`).
- `GateIsCurrentDelivery` is about the episode and its speech without exception, about the
  mastered audio unless CloneCast answered a key used before with earlier audio of the
  session.  `EligibleAudioWasApproved`, `NothingIsLost` and `ImplementsPublishingGate` are
  checked where the delivery changes and no run stops between a change and its save;
  `EveryEpisodeFinishes` where runs stop anywhere and the delivery stays.
- `SingleInstance` and `ServerEndsWithWindow` speak of launches that follow each other and
  servers that answer in time, and in part of machines on which no process died.
- `OneAttemptIsMerged` of the files that a subtask names, unless `choose` could not take a
  candidate back (`unreversed`); `WorktreesAreKept` of files that git tracks;
  `AttemptsAreRecorded` asks for a record of the attempt that passed except of `choose`.
- `PassedWasTested` of builds that do not share a folder and wrote nothing after their tests.
- `LedgerIsTrue` except calls that were interrupted, killed or refused by the ledger.
  `FreedAtRest` looks at the calls that used the model since it was loaded: one of them must
  have been a `json` call, cut short, or refused the unload.
- `UserFilesAreKept` and `OutcomeIsTrue` except a user's write in the window after a
  repair's checks; `ProposalMatchesPrompt` of entries that name a path, and of hashes that are
  claimed, at the moment the answer is validated: an edit between that and the save is not
  looked at.
- `FastRunsTheChange` of sources that are still there.  `PassedIsSound` and
  `PassedRowsAreEarned` of any later tree with the same fingerprint, if pytest ran on the
  tree that was fingerprinted (`steady`, `met`) and no interpreter died in the file.

`RepoIsVerified` is about each change: no suite runs on the sum of what two subtasks merged.

**Bounds.**  A session needs at most three workers to show every order of a run,
its end and a later run: the first, one that resumes it, and one after a restart
or a failure.  A queue of two holds an answer and a sentinel in either order; in the
run with two windows it is three, two answers before the sentinel, with a prompt left for
each of them and one more.  There one window starts and resumes and the other does
everything else, with two workers; that there is one driver is proved for any number of
windows and workers (section 5).
Three interruptions let an interrupted run be resumed, interrupted at another
stage and resumed again, and four prompts are one of each kind.  Two voices and two
presets are one chosen and one other.  Mastering keys name the session's first audio in
the passing runs, the harder case: the instance of `MC_Episode_delivery` passes with keys
that name the audio too.  Four servers and three clicks are for
launches after deaths.  Of two subtasks the second one meets what the first one
merged; two attempts are one that fails and one after it; one of the three files is
new, so that git does not track it, and one is named by no subtask; the second run
meets the worktrees the first one left.

Two builds at once are enough for a shared folder, and three folders for one that was
there before both; two fixes and two healing attempts are one that fails and the last
one; every option of the command line appears in some build, and the routing rules are
those of `config.py` with smaller numbers of files.  Two callers are enough for every
race on the ledger and the model server, since the statements of a third one repeat
those of the second; of the bundles one has an item that does not fit between two that
do, one has items that are secret or gone, and one has a head that is itself too long.  One edit of the user falls between any
two steps of the first or the second command, and the second command meets what the
first one left, in the same second or the next; the contents of Python files are one
that is clean, one that does not parse and one that imports a package.  In the test
repository every reason by which a test is selected occurs, one of the tests is
missing at first, and the commands include a repeated and an invalid path; three edits are
a file that is broken, restored and broken again; the two terminals are interchangeable (`SYMMETRY`), because nothing in the code names them,
and the run checks no liveness.

**Fairness.**  `ChatController!FairSpec`: threads that can go on do (weak
fairness on each handler's and each worker's steps); nothing forces a user to
send a request.  `RunningSettles` therefore says that a running session comes to
wait for the user or to end, not that users answer.
`GuidedEpisode!CooperativeSpec`: the owner resumes a session that is not
finished, the run takes its steps, and whoever imported the canonical research
item has it accepted.  The number of interruptions is bounded, as a liveness
property needs.  `DesktopLauncher!FairSpec`: processes take their steps; the
readiness loop has a deadline by the clock, which is strong fairness on `GivesUp`.
`ReliabilityRun!FairSpec`: a run takes its steps, because the models answer and test
commands have a timeout.  The regression suite (`regression_runner.py:29`), git and the
linters of the static gate have none: they may hang, and `RunEnds` says that a run
ends or waits for one of them.  Nobody has to start a run or commit its result.
`BuildLoop!Spec`: each build takes its steps, because its commands and requests have
timeouts, whatever the others do.  The other modules have no liveness property and assume no fairness.

**Deadlock** is not checked: a session that nobody resumes, an episode that is
finished, a machine with no clicks left, a repository without a further request, a
build that is over and a user who types no further command may stop.

## 4. Disagreements between the code and its documentation

Each is a run that expects a violation; `PROJECT.json` quotes the documentation.

| Run | What happens |
|---|---|
| `MC_Chat_double_resume` | two resume requests pass the check for an active worker; two threads drive one episode |
| `MC_Episode_lost_clear` | a delivery change reaches CloneCast, the clearing of the record does not; the approval stays with other audio |

**Claims that do not hold.**  The modules also state what the code says of itself and does
not keep, as definitions that no run checks.  TLC finds each of them violated when it is
added to the configuration named, as an invariant or (`AllChangesAreReverted`) a property.

| Definition | Add to | The code | The claim |
|---|---|---|---|
| `RunningIsDriven` | `MC_Chat_restarts` | a start that saved "running" and raises has no worker (`chat_controller.py:268`) | "A session's persisted `status` is only ever "running" while a worker is actively driving it" (`chat_controller.py:96-97`) |
| `RunningUnlessLost` | `MC_Chat_windows` | handlers save a copy that is older than the worker's last save (`:365`, `:515`) | the same |
| `FirstThatPassesIsKept` | `MC_Reliability` | whether a rejected candidate could be taken back is not looked at (`self_consistency.py:69`, `:76`) | "Try each candidate diff in turn, keeping the first that passes the static gate and the real test command" (`self_consistency.py:48-49`) |
| `PassedAttemptIsRecorded` | `MC_Reliability` | `choose` records no attempt (`self_consistency.py:47-77`) | "persists subtask/attempt/known-issue history to SQLite" (`AI_ENGINEERING/ARCHITECTURE.md:434-435`) |
| `AllChangesAreReverted` | `MC_RepairDesk` | a removal that fails is ignored (`repair_executor.py:477`) | "All changes have been reverted." (`:455`) |
| `OnlyInContextFiles` | `MC_RepairDesk` | an entry with an empty path is not looked up (`repair_proposal.py:440`) | "Only in-context files may be patched." (`:448`) |
| `EveryHashIsVerified` | `MC_RepairDesk` | a hash that is not given is not compared (`repair_proposal.py:455`) | "Every file must have its current_sha256 verified." (`:312`) |
| `EstimatesWereAttempted` | `MC_ProviderUse` | calls blocked before any engine was asked count as estimated (`providers.py:85`) | "everything else that reached a real attempt falls back to the byte-based "estimated" figure" (`usage_ledger.py:206-208`) |
| `LinkedRunsOrIsWarned` | `MC_Fast` | a deleted source is not in the index: its tests do not run, and no warning names it (`mapping.py:178`) | "When a changed file has zero direct/import matches ... it records an explicit uncertainty warning instead" (`universal_fast_pytest_engine_phase1_report.txt:189-190`) |

Other instances of the same modules, or the same code read beside its documentation,
show more.

Chat app:

- the cancel handler's older copy is saved after the worker ended
  (`app/chat_controller.py:365` against `:96-97`): running, with no worker;
- a second server process fails a session that the first one drives, because it
  reconciles before it binds the port (`app/server.py:25` against
  `chat_controller.py:100-103`);
- with two windows, a second answer to a question is taken for the next one
  (`AnswerFitsQuestion`);
- the upload or unlock handler's older copy overwrites a running session's
  question or status, even with one window (`SessionIsServed`);
- a run that holds an older copy overwrites a decision the owner makes in another
  process (`guided_clonecast_episode.py:786`);
- a failed mastering's key is used once more when the list of jobs cannot be read
  (`guided_clonecast_episode.py:1095`); a later run takes a new one, which is what
  `EveryEpisodeFinishes` needs;
- the stage goes back to the speech preview after a render was issued;
- after a change of delivery the mastering key of the earlier audio is sent again
  (`guided_clonecast_episode.py:1133`): with keys that name a job, the owner listens to
  audio that is not of the delivery he chose (`GateIsCurrentDelivery` excepts it);
- overlapping launches (`app/launcher.py:158`) leave a pid file that names the server
  that lost the port, or start a server although one has begun to listen; after a
  server's death a second window opens, and closing one of two leaves the other one's
  server running;
- "You can resume any time before generation starts"
  (`app/chat_controller.py:1055-1061`) follows a status, completed, that
  `resume_session` refuses (`:285`).

Reliability engine:

- `sandbox.create` is called outside the `try` (`orchestrator.py:236`): if git cannot
  make the worktree the exception escapes, the row stays `in_progress` and no known
  issue is recorded, while `ARCHITECTURE.md` says that the engine "normalizes
  unexpected subtask exceptions" into blocked results "instead of letting the
  exception escape without durable state" (outcome "raised" in the model);
- `git diff` omits files that are not tracked (`worktree_sandbox.py:55`): new files of
  a subtask that is reported done are lost with its worktree, and what was merged is
  not what the suite ran on;
- changes in files that a subtask does not name, or that git does not track, are
  not reset between attempts (`patch_apply.py:274`);
- a regression suite that hangs keeps the run for ever (`regression_runner.py:29` has no
  timeout; "hung" in `RunEnds`), while the test commands before it are stopped;
- if writing the status fails after the merge, the handler reports a subtask whose
  changes are in the repository as blocked (`orchestrator.py:346`; `Raising` with
  "done", `BlockedLeavesRepo`).

Build loop:

- the output of a command that was stopped after it had printed something is bytes
  (`safety/executor.py:49`, `:102`), and `core/orchestrator.py:195` adds a string to it: the
  build ends in a `TypeError` and is not recorded (status "crashed"), although the
  memory has "every request, plan, workspace, and outcome" (`README.md:336`);
- two builds that look for a folder at the same moment share it
  (`core/orchestrator.py:333`; `Shares` in `PassedWasTested`);
- a healing budget of 0 allows one attempt (`retry_controller.py:45`).

Repair pipeline: a repair that was rolled back says that all changes were reverted,
while a temporary or compiled file stays and a removal that fails is not reported
(`repair_executor.py:413`, `:423`); the rollback deletes a dependency file that the user
wrote in between (`raced`).

Fast tests:

- a changed test file is not run because it changed: only sources are matched
  (`mapping.py:178`);
- an edit after the fingerprint that is undone later leaves a row that says "passed" for
  a tree the tests did not run on (`met` in `PassedRowsAreEarned`); nothing in the
  source reads that column to skip a test;
- the plan's note says that GPU tests are deferred (`planning.py:119`), and nothing
  takes them out of a fast run;
- "previously failed" tests are labelled, never added (`planning.py:61` against
  `fast_pytest_engine.py:8`);
- a failed import check does not fail the run (`fast_pytest_engine.py:213`), and a run
  without targets is PASSED (`:222`);
- an interpreter that dies after a file's first tests leaves "passed" in its row
  (`died`).

## 5. What is proved

All theorems hold for every value of the constants that satisfies the named
assumptions of the modules.  Each proof shows an inductive invariant to hold
initially and to be preserved by every action, and combines the two with `PTL`.

What a fold over a sequence computes is proved by induction on its length.  The
library's induction theorems have an operator for a parameter, which the provers do not
instantiate; `NatSetInduction`, stated where it is needed, says the same of a set of
numbers, and follows from the library's least element of a well-founded set (`WFMin`).

### ChatController_proofs

Under `OneStarter` (at most one window starts and resumes runs; the run
`MC_Chat_double_resume` shows that two break the theorem):

- `TypeCorrect`: `Spec => []TypeOK`
- `OneDriverHolds`: `Spec => []OneDriver`
- `RegistryHolds`: `Spec => []RegistryIsLiveWorker`

`OneDriver` is not inductive.  What keeps a second thread out is the registry,
so the invariant `IInv` says that the registered handle is the live thread's
(`RegistryIsLiveWorker`); that a handler past its check still sees an empty
registry and has room for a thread (`SpawningInv`); that no thread exists beyond
the counter (`SpawnedInv`); that no handler is under way before the session
exists (`FreshInv`), which rules out a start that meets a resume; and what the
copies hold (`ClientCopyInv`, `WorkerCopyInv`), which type correctness needs.
`InitInv` and `StepInv` show it inductive, one step per action.

Under `OneWindow(w)` (one window sends all requests, and they are starts, resumes and
answers, the instance of `MC_Chat_restarts`):

- `SessionServed`: `Spec => []SessionIsServed`
- `AnswersFit`: `Spec => []AnswerFitsQuestion`
- `ThreadsFollowLifecycle`: `Spec => Lifecycle!Init /\ [][Lifecycle!Next]_(Lifecycle!vars)`

Uploads, cancellations and unlocking write back a copy of the record that may be older
than what a thread has saved meanwhile, and two windows may both answer a question; with
any of them `SessionIsServed` and the lifecycle fail, and with a second window's answers
`AnswerFitsQuestion` does too.  A start that raises before it has a worker is a step of the
lifecycle (`Lose`): the status stays running and nobody works, until a restart fails the
session; `SessionIsServed` says that this is the only way to be running without a
thread.  `ServedInv` says that without them whoever writes the
record has the copy that is on disk: the window's handler (`WindowInv`), from its load to its
save, because the thread it would race waits for it or is gone; a thread (`ThreadInv`),
because the handler is idle while it runs.  An answer is in the handler's hand or in the
queue, never in both, and nowhere while the question is shown.

### GuidedEpisode_proofs

- `TypeCorrect`: `Spec => []TypeOK`
- `ResearchIsAccepted`: `Spec => []AcceptedIsCanonical`
- `AssignmentSurvives`: `Spec => []AssignmentIsOurs`, if nobody else assigns voices
  (`"voice" \notin Outside`)
- `StagesHaveEvidence`: `Spec => []StageHasEvidence`
- `ApprovedIsWhatIsThere`: `Spec => []EligibleAudioWasApproved`
- `GateIsCurrent`: `Spec => []GateIsCurrentDelivery`
- `VersionsAreRemembered`: `Spec => NothingIsLost`
- `SessionImplementsGate`: `Spec => ImplementsPublishingGate`

`ApprovedIsWhatIsThere`, `VersionsAreRemembered` and `SessionImplementsGate` assume
`DeliveryIsStable`: the studio's default delivery does not change, or no run stops between a
change and its save and mastering keys name the audio they were sent with.
@FALSE@
That the keys name the audio is needed by the proof, not by the instances: the run
`MC_Episode_delivery` checks the same properties where they name the session's first audio.
`KeysInv` says that without a change of delivery all keys belong to one audio, so that the
key that is sent is free (`KeyIsFree`).  `GateIsCurrent` needs no such assumption; what
CloneCast may answer instead is an exception in the property.  The refinement also assumes that the owner
does not decide beside a run (`"owner" \notin Outside`), because a run's next save writes
its own copy over a decision made beside it: the abstract gate sees an eligibility that
comes and goes.

The invariant says of every place a run can be at what its copy of the record holds
there: a run has a record and has saved one before it goes on (`RunInv`); research
that a record names is accepted, and an episode has research (`ResearchInv`); the
delivery, speech or audio that a step works on is there (`AudioInv`, without which
`TypeOK` is not inductive).  `VoiceInv` adds that CloneCast's voice is the
recorded one.  The many stages are instances of a few lemmas, by what a step changes:
`MemStep`, `StageStep`, `PassStep`, `EndStep`, `OutsideStep`, `AcceptsStep`, `FailStep`.

`StageInv` says the evidence of each stage for the record on disk and, with what the
place of the run adds, for the copy: that some stages assign `completed_stage` and others
advance it means that the copy's evidence cannot be read off its stage alone.
`FreshInv` says that a record at the gate, or one with audio that is still to be
mastered, is of the delivery that is assigned now: a delivery only changes where the record
is in neither state, and a run comes to the gate with audio it has made itself or found
unmastered (`FreshAt`).  So a stop may leave a record with audio of an earlier delivery,
but the next run makes it anew before it asks the owner.
`DeliveryInv` is about the rest: all audio of a record is of the delivery that is assigned now
(`AudioFits`), or the copy in which it was cleared is about to be saved (`Replacing`), and
then the history holds it; what is eligible was approved (`Heard`).  `PresetInv` says that
a default that does not change is the only preset anybody assigns.  Most
steps are `Quiet`: they change none of the fields these invariants are about
(`QuietSteps`), so that only the few `AudioStep`s are looked at one by one.  The refinement
goes by what is written to disk: a step that leaves the record is a stutter, and each kind of
write (`DiskWrites`, `Decisions`) is a step of the gate or a stutter (`GateStep`).

### ReliabilityRun_proofs

- `TypeCorrect`: `Spec => []TypeOK`
- `AttemptsRecorded`: `Spec => []AttemptsAreRecorded`
- `MergedIsVerified`: `Spec => []RepoIsVerified`
- `OneAttemptMerged`: `Spec => []OneAttemptIsMerged`
- `BlockedLeavesNothing`: `Spec => []BlockedLeavesRepo`, under `MergedIsSaved` (nothing
  after the merge raises; section 4 says what happens otherwise)
- `WorktreesKept`: `Spec => WorktreesAreKept`

`IInv` relates the counters to the place of the run: subtasks not yet reached are
fresh, the current one's attempts exceed its records by what is `Owed` at that place,
and its number of records tells which attempt it is at, which bounds both.
`VerifiedInv` says that at the merge the tree is verified.  `SourceInv` says that the
worktree holds changes of its own subtask and the repository those of earlier ones;
`BlockedInv` and `AttemptInv` rest on it.  `KeptInv` says that worktrees are those of
runs and subtasks that have begun, so that a new one never meets an old one, and that
where one is removed its changes are in the repository.  `AttemptInv` says at which places nothing
of an earlier attempt may be in the tree, and at which only the current attempt's and
the builder's, unless `choose` failed to take a candidate back (`unreversed`), which the
property excepts.  `AttemptsRecorded` is about every strategy for the counts, and about the
loop and `choose_edit` for the record of the attempt that passed.

### BuildLoop_proofs

- `PriorKept`: `Spec => PriorBuildKept`
- `PaidAuthorised`: `Spec => []PaidIsAuthorised`
- `RecordedWasTested`: `Spec => []PassedWasTested`
- `OutcomesRecorded`: `Spec => []OutcomeIsRecorded`
- `TypeCorrect`: `Spec => []TypeOK`
- `EachFileOnce`: for every plan, `BuildOrder` holds each file of the plan once and nothing
  else, whatever unknown, repeated and forgotten paths the model's order has

`DirInv` says that a build past the choice of its folder has one that was not there
when it began: what a build takes is what was free after `prior` was fixed, and folders
do not go away, so that a race for a folder cannot make it an earlier build's.
`PaidInv` is about what a build may still pay for (`Payable`), not only what it has
paid: an engine that is marked explicit is the command line's before routing, and
authorised after it.  `Shape` and the relation `Keeps`, what the later steps leave of a
build's local state, carry the two through the fix, acceptance and healing steps.

`OutcomeInv` relates, for each build, its place, its status, its row and its lesson
(`Sound`): between a successful test and the row nothing is written into its folder except
by its own healing or a build that shares the folder, and sharing lasts, since a folder
is never given up.

For the types, `RunTyped` says at each place of a build whether it has a plan and a folder
and how much room its counts have: it comes to a fix with an attempt left, to a cycle of
healing with a cycle left (a budget of 0 allows one, `Most`) and with something to write.
`FilesTyped` adds that a folder which was not made holds nothing.  That `next` stays within
the build order needs `EachFileOnce`, whose lemma `FlattenJoins` says where the elements of
a `FlattenSeq` come from, and when they differ from one another.

### ProviderUse_proofs

- `LedgerTold`: `Spec => []LedgerIsTrue`
- `LedgerReady`: `Spec => []LedgerIsReady`
- `ModelFreed`: `Spec => []FreedAtRest`
- `SavingsSound`: `Spec => []SavingsAreSound`
- `ContextIsBounded`: for every bundle, the prompt is within `PromptLimit` and the fixed
  parts added to it, unless its head alone exceeds the limit, and then it is the head's
- `TypeCorrect`: `Spec => []TypeOK`

At most one row per call needs that the numbers of calls at work, and those of rows,
differ from each other and among themselves (`Numbered`); at least one needs that a
generation has its row, its caller or an excuse, and that text was returned only after
the row (`UsedInv`).  `TrueInv` says at each place of a call what of its row is decided
already: nothing was spent before the provider answered (`Unspent`), and what will be
written is the truth about what happened (`True`).  `FreedInv` says who will unload the
main model: a caller that still holds it, or nobody because a `json` call loaded it; a
model that is `leaving` is used by somebody.  It needs `TrueInv` to know what kind of call
generates with which provider, and `holders` to say which calls it is in memory for.
A refused unload neither takes a row away nor excuses one.  `LedgerInv` says that the version is stamped, and rows written,
only when the table is there, since nothing removes it.

`TotalsAreSound` compares the sums of the report row by row: `TotalUnfolds` says what
a sum over one row more is, and `Percent` what a rounded quotient of such sums may be.  It
needs that a row holds numbers, of which the avoided tokens are the savings of that row
(`Counts`, part of `TypeInv`): the savings of a sum are at most the sum of the savings.
`HostInv`, about the models in memory, completes the types.

### RepairDesk_proofs

- `UserFilesKept`: `Spec => UserFilesAreKept`
- `OutcomeTrue`: `Spec => OutcomeIsTrue`
- `ProposalMatches`: `Spec => []ProposalMatchesPrompt`
- `HandoffProven`: `Spec => []HandoffIsProven`
- `TypeCorrect`: `Spec => []TypeOK`

`RepairInv` says whose the dependency file is at each place of a repair as long as the
user has not written it: nobody's before the write, the repair's after it.  That a
completed repair's action is not planned again follows from the planner (`FilePlanned`).
`ProposalInv` carries what an answer was compared with to the save, for entries with a
path; it needs that a made-up hash is no content's (`RepositoryAssumption`).  `HandoffInv` says that the
evidence at work is broken and names a failing test, and that of the prompts of a
command only the last one may be without provenance or ledger entry (`AtWork`).  For the types
a command is at a place of its own kind (`CommandTyped`), since each kind carries other data.

### DesktopLauncher_proofs

- `TypeCorrect`: `Spec => []TypeOK`
- `InstanceIsSingle`: `Spec => []SingleInstance`
- `ServerEnds`: `Spec => []ServerEndsWithWindow`

They have no hypothesis: the conditions (launches that follow each other, servers that
answer in time, deaths) are in the properties, as the code's promises are.  `PortInv` holds
at any pace: who serves has the port, and only he drives a session.  `SteadyInv` says that
one desktop process is at work, that it searches only while there is no server, and awaits
only its own; `SessionInv` that what claims to be running without a driver has been failed
by any server that is about to bind; `WindowInv` and `OwnedInv` that without deaths one
desktop process runs, that both files name it and its server while its window is there,
and that a server always has a desktop process.

### FastTests_proofs

- `PassedMeansPasses`: `Spec => []PassedIsSound`
- `RowsAreEarned`: `Spec => []PassedRowsAreEarned`
- `FastSelects`: `Spec => []FastRunsTheChange`
- `TypeCorrect`: `Spec => []TypeOK`

`RunsAreTrue` is the lemma about pytest: what its exit status and its lines say of a file,
for each way a run may end.  `FingerprintIdentifies`: two trees with one fingerprint hold the
same, in every file, so that what was found of one is true of the other whenever it comes back.
`IInv` carries it: a command `Knows` that files pass only of the tree it ran on, and a report
or a row is true of any tree with its fingerprint, if `steady` or `met`.  Commands leave the
tree alone (`Unwritten`), so that what is known stays true; edits (`Written`) may end the
knowledge of the present tree, not what is remembered of a fingerprint (`Remembered`).

`SelectionIsRight` is about the selection as a function of the changes.  The lists of
reasons are joined, sorted and stripped of repetitions; `Flattened`, by induction on the
number of lists joined, `SortedFiles` and `Mentioned` say what is in the result, and
`Reasons` which category a test gets.  `PlanInv` carries the plan that is right for the changes
a command detected to its run; it needs that the paths it detected are those that git
shows (`ChangesAreShown`).  A deleted source is not among the sources a test is linked to.

### Only model-checked

All liveness (`RunningSettles`, `CancelStopsWorker`, `EveryEpisodeFinishes`,
`LaunchSettles`, `RunEnds`, `BuildEnds`, the fairness part of `ImplementsLifecycle`), because
fairness and `ENABLED` are beyond the prover.  Every other property that a passing run
checks is stated by a theorem.

## 6. Not modelled

- **Session deletion and linking.**  `delete_failed_session` checks the status and
  then deletes files one by one (`session_store.py:187-191`), so a resume in between
  starts a worker whose next save brings the record back without its uploads;
  `delete_all_failed_sessions` stops at the first session that was deleted or resumed
  meanwhile (`:257`); two sessions that start together each see two new episode files
  and are not linked (`chat_controller.py:655`).  All three need several sessions, and
  `ChatController` has one.
- **GPU guard.**  A reservation is a measurement of free memory that nothing holds
  (`gpu_guard.py:165`).  A model would only say so.
- **Live and workflow tests, manager, discovery and the analyses**: sequences of
  read-only checks that end in a report.  The scan, the health and the planned actions
  are operators of `RepairDesk`, because a repair depends on them.
- **CloneCast client, system status, browser front end, templates**: queries, texts and
  generated programs.
- **In the modelled components**: wording, titles, checksums and logs; the focus request
  file; the search of lessons and the scoring of projects in the memory; how the
  watchdog scores a command; HTTP; which files a context holds; parallel pytest and
  repositories without git; what `PROJECT.json` names for each component.  The failure
  of a save of a chat or episode record (a full disk) is an interruption.

## 7. Plan

1. *done* chat controller, its lifecycle, its proofs
2. *done* guided episode and publishing gate, first proofs
3. *done* desktop launcher
4. *done* reliability engine, its proofs
5. *done* build loop with self-healing, routing, gates and memory, first proofs
6. *done* repair pipeline, its proofs
7. *done* provider policy and usage ledger with concurrent callers, first proofs
8. *done* fast pytest engine: selection as operators, runs as a state machine
9. *done* theorems: the publishing gate refinement of `GuidedEpisode`; `PassedWasTested` and
   `OutcomeIsRecorded` of `BuildLoop`; the truth of the ledger; `SingleInstance`;
   `PassedRowsAreEarned`; by induction over sequences, the savings of the report, the bound of
   the context, the selection of a fast run and the build order; the types of all components
10. a module of two sessions for deletion, shared files and linking; the GPU guard with
    two stages

To keep the project small enough to re-check, a new module replaces weaker
properties rather than adding to them: where a theorem covers a safety property for
every instance, its run is a candidate for merging with another one of the same module.
