--------------------------- MODULE ReliabilityRun ---------------------------
(***************************************************************************)
(* The Reliability Engine (reliability_engine/): a request becomes         *)
(* subtasks; each is worked on in a git worktree of its own, in a bounded  *)
(* number of attempts, and merged into the repository when the regression  *)
(* suite passes there.                                                     *)
(*                                                                         *)
(* A tree of files is the set of changes that distinguish it from the      *)
(* commit every run starts from; a change says which file it is in and     *)
(* which attempt of which subtask made it.  What a model writes and        *)
(* whether tests pass is any choice.                                       *)
(***************************************************************************)
EXTENDS Integers, FiniteSets

CONSTANTS
    N,              \* subtasks of a plan
    Paths,          \* files
    NewPaths,       \* those git does not track
    Touched,        \* files_touched of each subtask
    Patches,        \* sets of files that a patch may change
    MaxAttempts,    \* test_loop.max_attempts
    NSamples,       \* self_consistency.n_samples
    Raising,        \* places in the try block of run where an exception may be raised
    MayFail,        \* commands that may fail: "reset", "reverse", "worktree"
    Hanging,        \* steps with a command that may never return
    MaxRuns,        \* bound: runs
    MaxKills        \* bound: runs that are killed

Tracked == Paths \ NewPaths
AllAttempts == IF MaxAttempts >= NSamples THEN MaxAttempts ELSE NSamples
Change == [path : Paths, sub : 1..N, attempt : 0..AllAttempts]
Worktrees == (1..MaxRuns) \X (1..N)
TryPcs == {"build", "attempt", "generate", "apply", "judge", "record", "regress", "merge",
           "done", "cleanup"}

ASSUME PlanAssumption ==
    /\ N \in Nat \ {0} /\ IsFiniteSet(Paths) /\ NewPaths \subseteq Paths
    /\ Touched \in [1..N -> SUBSET Paths] /\ Touched[1] \cap Tracked # {}
    /\ Patches \subseteq SUBSET Paths
ASSUME LimitsAssumption ==
    MaxAttempts \in Nat \ {0} /\ NSamples \in Nat \ {0} /\ MaxRuns \in Nat /\ MaxKills \in Nat
\* Model calls and test commands have a time limit; git, the static gate's linters and the
\* regression suite are run without one.
Unlimited == {"plan", "create", "attempt", "apply", "judge", "record", "regress", "merge",
              "cleanup"}

ASSUME FailAssumption ==
    /\ Raising \subseteq TryPcs /\ MayFail \subseteq {"reset", "reverse", "worktree"}
    /\ Hanging \subseteq Unlimited

VARIABLES
    repo,       \* the repository's working tree
    there,      \* the worktrees that exist, named after run and subtask
    tree,       \* the tree in the worktree of the current subtask
    rows,       \* the subtasks, attempts and known issues tables
    run,        \* the run (run_id)
    edit,       \* whether it edits files (route.is_edit)
    cur,        \* the subtask it is at
    strategy,   \* "loop", "choose" or "choose_edit"
    att,        \* the attempt it is at
    verdict,    \* what record_attempt is about to be told
    pc,         \* the next step
    outcome,    \* what the run returned, "killed" or "raised"
    verified,   \* history: changes in a tree whose regression suite passed
    unreversed, \* history: subtasks with a candidate that reverse_diff left in the tree
    kills

trees == <<repo, there, tree>>
plan == <<run, edit, cur, strategy>>
ends == <<outcome, verified, unreversed, kills>>
vars == <<trees, rows, plan, att, verdict, pc, ends>>

Pcs == {"idle", "plan", "next", "create", "block", "hung"} \cup TryPcs
Strategies == {"loop", "choose", "choose_edit"}
Verdicts == {"none", "passed", "retry", "skip", "blocked"}
Outcomes == {"none", "done", "partial", "killed", "raised"}
Row == [status : {"none", "pending", "in_progress", "done", "blocked"},
        attempts : 0..AllAttempts, records : 0..AllAttempts]
NewRow(s) == [status |-> s, attempts |-> 0, records |-> 0]

TypeOK ==
    /\ repo \subseteq Change /\ tree \subseteq Change /\ verified \subseteq Change
    /\ unreversed \subseteq 1..N
    /\ there \subseteq Worktrees
    /\ rows \in [1..N -> Row]
    /\ run \in 0..MaxRuns /\ edit \in BOOLEAN /\ cur \in 1..N+1
    /\ strategy \in Strategies /\ att \in 1..AllAttempts+1 /\ verdict \in Verdicts
    /\ pc \in Pcs /\ outcome \in Outcomes /\ kills \in 0..MaxKills
    /\ pc # "idle" => run > 0
    /\ pc \in {"create", "block"} \cup TryPcs => cur <= N
    /\ pc \in TryPcs => <<run, cur>> \in there

Init ==
    /\ repo = {} /\ there = {} /\ tree = {} /\ verified = {} /\ unreversed = {}
    /\ rows = [s \in 1..N |-> NewRow("none")]
    /\ run = 0 /\ edit = FALSE /\ cur = 1 /\ strategy = "loop" /\ att = 1
    /\ verdict = "none" /\ pc = "idle" /\ outcome = "none" /\ kills = 0

(***************************************************************************)
(* The plan (orchestrator.run, planner_spec, state_store).                 *)
(***************************************************************************)
\* A request that names a file is one edit of files git tracks.
Subs == IF edit THEN {1} ELSE 1..N
Touches(s) == IF edit THEN Touched[s] \cap Tracked ELSE Touched[s]
\* FIND/REPLACE blocks only fit files that exist.
PatchesHere == IF edit THEN {p \in Patches : p \subseteq Tracked} ELSE Patches

\* The repository must be clean; the tables are emptied.
Begin ==
    /\ pc = "idle" /\ repo = {} /\ run < MaxRuns
    /\ run' = run + 1 /\ edit' \in BOOLEAN /\ cur' = 1
    /\ rows' = [s \in 1..N |-> NewRow("none")] /\ outcome' = "none" /\ pc' = "plan"
    /\ tree' = {} /\ strategy' = "loop" /\ att' = 1 /\ verdict' = "none"
    /\ verified' = {} /\ unreversed' = {}
    /\ UNCHANGED <<repo, there, kills>>

Persist ==
    /\ pc = "plan" /\ pc' = "next"
    /\ rows' = [s \in 1..N |-> IF s \in Subs THEN NewRow("pending") ELSE rows[s]]
    /\ UNCHANGED <<trees, plan, att, verdict, ends>>

TakeSubtask ==
    /\ pc = "next" /\ cur \in Subs /\ pc' = "create"
    /\ rows' = [rows EXCEPT ![cur].status = "in_progress"]
    /\ UNCHANGED <<trees, plan, att, verdict, ends>>

\* The directory is named after the run's own id (WorktreeSandbox.create).  This call
\* is not in the try block.
Name == <<run, cur>>

CreateWorktree ==
    /\ pc = "create" /\ tree' = {}
    /\ \/ there' = there \cup {Name} /\ pc' = "build" /\ UNCHANGED outcome
       \/ /\ "worktree" \in MayFail /\ pc' = "idle" /\ outcome' = "raised"
          /\ UNCHANGED there
    /\ UNCHANGED <<repo, rows, plan, att, verdict, verified, unreversed, kills>>

(***************************************************************************)
(* Attempts.                                                               *)
(***************************************************************************)
Written(places, k) == [path : places, sub : {cur}, attempt : {k}]
\* "choose" keeps no record of its attempts.
Count(yes) ==
    rows' = IF yes /\ strategy # "choose" THEN [rows EXCEPT ![cur].attempts = @ + 1] ELSE rows

\* A new program's builder writes files of the plan first; then the number of
\* files that depend on the subtask's decides how it goes on (should_run).
Build ==
    /\ pc = "build" /\ pc' = "attempt" /\ att' = 1
    /\ \E places \in SUBSET (IF edit THEN {} ELSE Touches(cur)) :
          tree' = tree \cup Written(places, 0)
    /\ strategy' \in {"loop", IF edit THEN "choose_edit" ELSE "choose"}
    /\ UNCHANGED <<repo, there, rows, run, edit, cur, verdict, ends>>

Budget == IF strategy = "loop" THEN MaxAttempts ELSE NSamples

\* reset_paths: git checkout of the files that are tracked.
Reset == {c \in tree : c.path \notin Touches(cur) \cap Tracked}

ResetUnchecked ==
    /\ pc = "attempt" /\ att <= Budget /\ pc' = "generate"
    /\ \/ tree' = IF strategy = "choose" THEN tree ELSE Reset
       \/ "reset" \in MayFail /\ strategy # "choose" /\ UNCHANGED tree
    /\ UNCHANGED <<repo, there, rows, plan, att, verdict, ends>>

ResetForAttempt ==
    /\ pc = "attempt" /\ att <= Budget
    /\ \/ /\ tree' = IF strategy = "choose" THEN tree ELSE Reset
          /\ pc' = "generate" /\ UNCHANGED <<rows, verdict>>
       \/ /\ "reset" \in MayFail /\ strategy # "choose"
          /\ Count(TRUE) /\ verdict' = "skip" /\ pc' = "record" /\ UNCHANGED tree
    /\ UNCHANGED <<repo, there, plan, att, ends>>

GenerateCounted ==
    /\ pc = "generate" /\ Count(TRUE)
    /\ \/ pc' = "apply" /\ UNCHANGED verdict
       \/ pc' = "record" /\ verdict' = "skip"
    /\ UNCHANGED <<trees, plan, att, ends>>

\* A patch, after repairs of its format, grounding and relevance, or none that can
\* be used.  The loop counts the attempt here, choose_edit before it records it.
Generate ==
    /\ pc = "generate"
    /\ \/ pc' = "apply" /\ Count(strategy = "loop") /\ UNCHANGED verdict
       \/ pc' = "record" /\ Count(TRUE) /\ verdict' = "skip"
    /\ UNCHANGED <<trees, plan, att, ends>>

\* Patches may change files that the subtask does not name.
Apply ==
    /\ pc = "apply"
    /\ \/ /\ \E places \in PatchesHere : tree' = tree \cup Written(places, att)
          /\ pc' = "judge" /\ UNCHANGED <<rows, verdict>>
       \/ /\ verdict' = IF strategy = "choose_edit" THEN "retry" ELSE "skip"
          /\ Count(strategy = "choose_edit") /\ pc' = "record" /\ UNCHANGED tree
    /\ UNCHANGED <<repo, there, plan, att, ends>>

\* The static gate, then the tests.  Only the loop tells a test command that was
\* not allowed to run from one that failed.
Judge ==
    /\ pc = "judge" /\ pc' = "record" /\ Count(strategy = "choose_edit")
    /\ verdict' \in {"passed", "retry"} \cup IF strategy = "loop" THEN {"blocked"} ELSE {}
    /\ UNCHANGED <<trees, plan, att, ends>>

\* reset_paths or reverse_diff.  Nobody looks at whether they worked: the next attempt
\* resets again, but the next candidate of "choose" begins with what is there.
Undo ==
    \/ strategy = "choose" /\ tree' = tree \ Written(Paths, att) /\ UNCHANGED unreversed
    \/ /\ strategy = "choose" /\ "reverse" \in MayFail
       /\ unreversed' = unreversed \cup {cur} /\ UNCHANGED tree
    \/ strategy # "choose" /\ tree' = Reset /\ UNCHANGED unreversed
    \/ strategy # "choose" /\ "reset" \in MayFail /\ UNCHANGED <<tree, unreversed>>

RecordAndRepeat ==
    /\ pc = "record"
    /\ rows' = IF strategy = "choose" THEN rows ELSE [rows EXCEPT ![cur].records = @ + 1]
    /\ \/ verdict = "passed" /\ pc' = "regress" /\ UNCHANGED <<tree, att, unreversed>>
       \/ verdict = "skip" /\ pc' = "attempt" /\ UNCHANGED <<tree, att, unreversed>>
       \/ verdict = "retry" /\ pc' = "attempt" /\ att' = att + 1 /\ Undo
       \/ verdict = "blocked" /\ pc' = "block" /\ Undo /\ UNCHANGED att
    /\ UNCHANGED <<repo, there, plan, verdict, outcome, verified, kills>>

Record ==
    /\ pc = "record"
    /\ rows' = IF strategy = "choose" THEN rows ELSE [rows EXCEPT ![cur].records = @ + 1]
    /\ \/ verdict = "passed" /\ pc' = "regress" /\ UNCHANGED <<tree, att, unreversed>>
       \/ verdict = "skip" /\ pc' = "attempt" /\ att' = att + 1 /\ UNCHANGED <<tree, unreversed>>
       \/ verdict = "retry" /\ pc' = "attempt" /\ att' = att + 1 /\ Undo
       \/ verdict = "blocked" /\ pc' = "block" /\ Undo /\ UNCHANGED att
    /\ UNCHANGED <<repo, there, plan, verdict, outcome, verified, kills>>

OutOfAttempts ==
    /\ pc = "attempt" /\ att > Budget /\ pc' = "block"
    /\ IF strategy = "choose" THEN UNCHANGED <<tree, unreversed>> ELSE Undo
    /\ UNCHANGED <<repo, there, rows, plan, att, verdict, outcome, verified, kills>>

(***************************************************************************)
(* The end of a subtask.                                                   *)
(***************************************************************************)
RegressOnlyReported ==
    /\ pc = "regress" /\ pc' = "merge"
    /\ verified' \in {verified, verified \cup tree}
    /\ UNCHANGED <<trees, rows, plan, att, verdict, outcome, unreversed, kills>>

Regress ==
    /\ pc = "regress"
    /\ \/ pc' = "merge" /\ verified' = verified \cup tree
       \/ pc' = "block" /\ UNCHANGED verified
    /\ UNCHANGED <<trees, rows, plan, att, verdict, outcome, unreversed, kills>>

\* git diff leaves out files that are not tracked; git apply changes nothing if any
\* part does not apply, as where an earlier subtask changed the same file.
Diff == {c \in tree : c.path \in Tracked}

MergeWhatApplies ==
    /\ pc = "merge"
    /\ repo' = repo \cup {c \in Diff : \A d \in repo : c.path # d.path}
    /\ pc' = IF \E c \in Diff, d \in repo : c.path = d.path THEN "block" ELSE "done"
    /\ UNCHANGED <<there, tree, rows, plan, att, verdict, ends>>

Merge ==
    /\ pc = "merge"
    /\ \/ repo' = repo \cup Diff /\ pc' = "done"
       \/ /\ \E c \in Diff, d \in repo : c.path = d.path
          /\ pc' = "block" /\ UNCHANGED repo
    /\ UNCHANGED <<there, tree, rows, plan, att, verdict, ends>>

MarkDone ==
    /\ pc = "done" /\ pc' = "cleanup"
    /\ rows' = [rows EXCEPT ![cur].status = "done"]
    /\ UNCHANGED <<trees, plan, att, verdict, ends>>

\* The variables of a subtask are gone when it ends.
Forget == tree' = {} /\ strategy' = "loop" /\ att' = 1 /\ verdict' = "none"

NextSubtask == pc' = "next" /\ cur' = cur + 1 /\ Forget /\ UNCHANGED <<run, edit>>

Cleanup ==
    /\ pc = "cleanup" /\ there' = there \ {Name} /\ NextSubtask
    /\ UNCHANGED <<repo, rows, ends>>

BlockAndRemove ==
    /\ pc = "block" /\ rows' = [rows EXCEPT ![cur].status = "blocked"] /\ NextSubtask
    /\ there' = there \ {Name} /\ UNCHANGED <<repo, ends>>

\* The worktree stays, for whoever wants to know why (rollback with keep).
Block ==
    /\ pc = "block" /\ rows' = [rows EXCEPT ![cur].status = "blocked"] /\ NextSubtask
    /\ UNCHANGED <<repo, there, ends>>

Raises ==
    /\ pc \in Raising /\ pc' = "block"
    /\ UNCHANGED <<trees, rows, plan, att, verdict, ends>>

\* A command that does not return; the run waits until somebody kills it.
Hangs ==
    /\ pc \in Hanging /\ pc' = "hung"
    /\ UNCHANGED <<trees, rows, plan, att, verdict, ends>>

Report ==
    /\ pc = "next" /\ cur \notin Subs /\ pc' = "idle"
    /\ outcome' = IF \A s \in Subs : rows[s].status = "done" THEN "done" ELSE "partial"
    /\ UNCHANGED <<trees, rows, plan, att, verdict, verified, unreversed, kills>>

Killed ==
    /\ pc # "idle" /\ kills < MaxKills /\ kills' = kills + 1
    /\ pc' = "idle" /\ outcome' = "killed" /\ Forget
    /\ UNCHANGED <<repo, there, rows, run, edit, cur, verified, unreversed>>

\* The user commits what was merged, or discards it.
UserCleans ==
    /\ pc = "idle" /\ repo # {} /\ repo' = {}
    /\ UNCHANGED <<there, tree, rows, plan, att, verdict, pc, ends>>

RunStep ==
    \/ Persist \/ TakeSubtask \/ CreateWorktree \/ Build
    \/ ResetForAttempt \/ Generate \/ Apply \/ Judge \/ Record \/ OutOfAttempts
    \/ Regress \/ Merge \/ MarkDone \/ Cleanup \/ Block \/ Raises \/ Report

Next == Begin \/ RunStep \/ Hangs \/ Killed \/ UserCleans

Spec == Init /\ [][Next]_vars

\* A run goes on until it ends or a command hangs.  The models answer and the test commands
\* end, as they have a time limit.
FairSpec == Spec /\ WF_vars(RunStep)

(***************************************************************************)
(* Properties.                                                             *)
(***************************************************************************)
\* "Runs a full regression suite in the worktree before merging back"
\* (ARCHITECTURE.md): whatever attempts, exceptions and conflicts came before, the
\* repository holds no change that was not in a tree whose suite passed.
RepoIsVerified == repo \subseteq verified

\* Changes of two attempts of a subtask in one file that it names.
TwoAttempts(s) ==
    \E c, d \in repo :
        /\ c.path = d.path /\ c.sub = s /\ d.sub = s /\ c.path \in Touched[s]
        /\ c.attempt # 0 /\ d.attempt # 0 /\ c.attempt # d.attempt

\* "failed edit attempt resets target before next attempt" (test_loop, choose_edit,
\* choose): whatever resets fail, no two attempts' changes to a file that a subtask names
\* are merged together, unless reverse_diff left a candidate of choose in the tree.
OneAttemptIsMerged == \A s \in 1..N : TwoAttempts(s) => s \in unreversed

\* "Try each candidate diff in turn, keeping the first that passes the static gate and the
\* real test command" (choose): what is merged is one candidate's.  It does not hold: one
\* that reverse_diff could not take back is merged with the one that passed.
FirstThatPassesIsKept == \A s \in 1..N : ~TwoAttempts(s)

\* A blocked subtask changed nothing in the repository, also one whose merge failed.
BlockedLeavesRepo ==
    \A s \in 1..N : rows[s].status = "blocked" => \A c \in repo : c.sub # s

\* Attempts are counted and recorded one by one in either order, and a subtask that is done
\* has a record of each that was counted.  Nothing makes more attempts than it may, and
\* with the loop and choose_edit what goes to the regression suite has a record of the
\* attempt that passed.  (choose counts and records nothing: PassedAttemptIsRecorded.)
AttemptsAreRecorded ==
    /\ \A s \in 1..N :
          /\ rows[s].attempts \in rows[s].records .. rows[s].records + 1
          /\ rows[s].status = "done" => rows[s].attempts = rows[s].records
    /\ pc \in TryPcs => rows[cur].attempts <= Budget
    /\ pc \in {"regress", "merge", "done"} /\ strategy # "choose" => rows[cur].records > 0

\* "persists subtask/attempt/known-issue history to SQLite" (ARCHITECTURE.md): a subtask
\* that is done has a record of the attempt that passed.  It does not hold with choose.
PassedAttemptIsRecorded == \A s \in 1..N : rows[s].status = "done" => rows[s].records > 0

\* No worktree is lost.  One that is removed holds nothing, of the files that git
\* tracks, that did not reach the repository (merge_to_main before rollback); one
\* "deliberately preserved after a `blocked` result" is not "silently destroyed" by a
\* later run that reuses the subtask's id (worktree_sandbox): a worktree is made where
\* none is.
WorktreesAreKept ==
    [][/\ there \ there' # {} => Diff \subseteq repo
       /\ pc = "create" /\ pc' = "build" => there' # there]_vars

\* Every run ends, since each way through an attempt uses it up, unless it comes to wait for
\* a command that has no time limit.
RunEnds == pc # "idle" ~> pc \in {"idle", "hung"}
=============================================================================
