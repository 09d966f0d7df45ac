----------------------------- MODULE RepairDesk -----------------------------
(***************************************************************************)
(* The commands that look at a repository and repair it, propose a repair  *)
(* or hand one over: `plan-project`, `repair`, `propose-repair` and        *)
(* `repair-handoff` (src/autocorp.py), with the scanner, the analyzer, the *)
(* planner, the repair executor, the proposal engine and the handoff       *)
(* generator of src/brains.  The user works in the same repository: he     *)
(* edits, commits and cleans up between any two steps of a command, and    *)
(* may kill it.                                                            *)
(***************************************************************************)
EXTENDS Integers, SequencesExt

CONSTANTS Files,        \* Python files
          EntryPoints,  \* those whose name and place make them entry points
          TestFiles,    \* those with the name of a test file, and conftest.py
          Generated,    \* those in directories the path policy excludes
          Contents,     \* what a Python file may hold: records, see below
          InitialFiles, \* what the files may hold at first
          Evidence,     \* test reports a handoff may be asked for
          CacheIgnored, \* whether .gitignore names __pycache__
          Absent, NoPath,    \* no file; no path
          NoHash, WrongHash, \* no hash, or one made up
          MaxEdits, MaxCommands, MaxKills, MaxSeconds

Markers == {"todo", "fixme", "pass", "not_implemented"}
Frameworks == {"pytest", "unittest", "nose"}
FailingTests == {"t1", "t2"}

\* An unparsable file shows no imports, but its markers are counted.
Content == [marks : [Markers -> Nat], third : BOOLEAN, parses : BOOLEAN,
            frameworks : SUBSET Frameworks]
\* What test-focused and test-full write: `failing` are the rows that name a
\* failed test, `failed` is the counter, `error` an exit code other than 0.
Report == [collected : Nat, failed : Nat, failing : SUBSET FailingTests,
           blocked : BOOLEAN, error : BOOLEAN]

ASSUME RepositoryAssumption ==
    /\ EntryPoints \subseteq Files /\ TestFiles \subseteq Files /\ Generated \subseteq Files
    /\ InitialFiles \subseteq [Files -> Contents \cup {Absent}]
    /\ Contents \subseteq Content /\ Evidence \subseteq Report
    /\ WrongHash \notin Contents \cup {Absent} /\ NoPath \notin Files
    /\ CacheIgnored \in BOOLEAN
    /\ {MaxEdits, MaxCommands, MaxKills, MaxSeconds} \subseteq Nat

Agents == {"codex", "claude"}
Debris == {"cache", "temp"}
Tree == [dep : {"none", "autocorp", "user"},    \* requirements.txt: none, or whose
         py : [Files -> Contents \cup {Absent}],
         debris : SUBSET Debris]
\* Prompts are named by the second, the defect and the agent.
PromptKeys == (0 .. MaxSeconds) \X FailingTests \X Agents
Statuses == {"clean", "dirty", "unknown"}
ActionIds == {"dirty", "tests", "entry", "not_implemented", "pass", "todo",
              "fixme", "dependencies", "health", "healthy"}

VARIABLES tree,       \* the working tree
          committed,  \* the last commit: a tree and the prompts in it
          pc,         \* the command that runs and how far it is
          cmd,        \* what that command has computed so far
          result,     \* how the last command ended
          saved,      \* the proposal file
          prompts,    \* prompt files: the evidence and the run of each
          provenance, \* provenance files: the digest (run) and VS Code's answer
          ledger,     \* prompts recorded in the usage ledger
          clock,      \* seconds
          raced,      \* the user wrote the dependency file after the checks
          undone,     \* a removal by the rollback failed
          edits, commands, kills
vars == <<tree, committed, pc, cmd, result, saved, prompts, provenance, ledger,
          clock, raced, undone, edits, commands, kills>>
world == <<tree, committed, clock, raced, edits>>
desk == <<saved, prompts, provenance, ledger>>

-----------------------------------------------------------------------------
(* Scanner, analyzer and planner *)

\* classify_path: virtual environments, caches, build output, sessions, reports.
Excluded(f) == f \in Generated

\* iter_python_files
Scanned(t) == {f \in Files : t.py[f] # Absent /\ ~Excluded(f)}

Count(t, mark) == MapThenSumSet(LAMBDA f : t.py[f].marks[mark], Scanned(t))

Visible(t) == [t EXCEPT !.debris = @ \ (IF CacheIgnored THEN {"cache"} ELSE {})]

\* _git_info counts untracked files; git may be absent or too slow.
GitStatus(t) ==
    {"unknown", IF [tree |-> Visible(t), prompts |-> DOMAIN prompts] = committed
                THEN "clean" ELSE "dirty"}

FrameworkSignals(t) ==
    UNION {t.py[f].frameworks : f \in {g \in Scanned(t) \cap TestFiles : t.py[g].parses}}

TestFramework(t) ==
    LET hits == FrameworkSignals(t)
    IN IF hits = {} THEN "unknown"
       ELSE IF Cardinality(hits) > 1 THEN "mixed" ELSE CHOOSE h \in hits : TRUE

OverallHealth(t) ==
    LET n == Cardinality(Scanned(t))
        weighted == Count(t, "todo") + 2 * Count(t, "fixme") + 3 * Count(t, "not_implemented")
    IN CASE n = 0                   -> "Unknown"
         [] 100 * weighted <= 5 * n  -> "Excellent"
         [] 100 * weighted <= 15 * n -> "Good"
         [] 100 * weighted <= 35 * n -> "Fair"
         [] OTHER                   -> "Needs Attention"

\* _plan_actions: an action's id is a hash of its constant title.
PlanActions(t, status) ==
    LET found == {a \in ActionIds \ {"healthy"} :
            \/ a = "dirty" /\ status = "dirty"
            \/ a = "tests" /\ TestFramework(t) = "unknown"
            \/ a = "entry" /\ \A f \in EntryPoints : t.py[f] = Absent
            \/ a \in Markers /\ Count(t, a) > 0
            \/ a = "dependencies" /\ t.dep = "none"
            \/ a = "health" /\ OverallHealth(t) \in {"Fair", "Needs Attention"}}
    IN IF found = {} THEN {"healthy"} ELSE found

ThirdParty(t) == \E f \in Scanned(t) : t.py[f].parses /\ t.py[f].third

\* build_repair_plan resolves an id by planning anew.
Resolves(t, status, action) == action \in PlanActions(t, status)

\* _build_missing_deps_plan: only a missing dependency file can be repaired, and only
\* when no import needs a package.
CanExecute(t, status, action) ==
    /\ action = "dependencies"
    /\ Resolves(t, status, action)
    /\ t.dep = "none"
    /\ ~ThirdParty(t)

-----------------------------------------------------------------------------
NoCommand == [kind |-> "none"]

Init ==
    /\ tree \in [dep : {"none"}, py : InitialFiles, debris : {{}}]
    /\ committed = [tree |-> tree, prompts |-> {}]
    /\ pc = "idle" /\ cmd = NoCommand
    /\ result = "none"
    /\ saved = Absent
    /\ prompts = [k \in {} |-> 0] /\ provenance = [k \in {} |-> 0] /\ ledger = {}
    /\ clock = 0 /\ raced = FALSE /\ undone = FALSE
    /\ edits = 0 /\ commands = 0 /\ kills = 0

EndWith(status) == pc' = "idle" /\ cmd' = NoCommand /\ result' = status

Begin ==
    /\ pc = "idle" /\ commands < MaxCommands
    /\ commands' = commands + 1
    /\ raced' = FALSE /\ undone' = FALSE

-----------------------------------------------------------------------------
(* repair: build the plan, check again, write, validate, roll back *)

\* cmd_repair and build_repair_plan; without approval nothing else happens.
Repair(action, approve) ==
    /\ Begin
    /\ \E status \in GitStatus(tree) :
         IF approve /\ CanExecute(tree, status, action)
         THEN /\ pc' = "planned"
              /\ cmd' = [kind |-> "repair", action |-> action, before |-> tree,
                         compiled |-> [f \in {} |-> Absent]]
              /\ UNCHANGED result
         ELSE EndWith(IF approve THEN "refused" ELSE "dry_run")
    /\ UNCHANGED <<tree, committed, clock, edits, kills, desk>>

\* A mutant that trusts the plan.
SafetyChecksSkipped ==
    /\ pc = "planned" /\ pc' = "checked"
    /\ UNCHANGED <<cmd, result, world, undone, desk, commands, kills>>

\* _run_safety_checks: clean tree, the action is still planned, no such file.
SafetyChecks ==
    /\ pc = "planned"
    /\ \E status \in GitStatus(tree) :
         IF /\ status = "clean"
            /\ cmd.action \in PlanActions(tree, status)
            /\ tree.dep = "none"
         THEN pc' = "checked" /\ UNCHANGED <<cmd, result>>
         ELSE EndWith("refused")
    /\ UNCHANGED <<world, undone, desk, commands, kills>>

\* The content goes to a temporary file that replaces the target.  A failure
\* removes the temporary file, and keeps quiet when it cannot.  If that file
\* cannot be created, its name is unbound in the handler, which raises itself.
WriteRepair ==
    /\ pc = "checked"
    /\ \/ /\ tree' = [tree EXCEPT !.dep = "autocorp"]
          /\ pc' = "written" /\ UNCHANGED <<cmd, result>>
       \/ /\ \E left \in {{}, {"temp"}} : tree' = [tree EXCEPT !.debris = @ \cup left]
          /\ EndWith("rolled_back")
       \/ EndWith("raised") /\ UNCHANGED tree
    /\ UNCHANGED <<committed, clock, raced, edits, undone, desk, commands, kills>>

\* compileall compiles everything below the root, generated files too, one file
\* after the other, and leaves what it compiled.
Compile(f) ==
    /\ pc = "written" /\ f \notin DOMAIN cmd.compiled
    /\ cmd' = [cmd EXCEPT !.compiled = [g \in DOMAIN @ \cup {f} |->
                                          IF g = f THEN tree.py[f] ELSE @[g]]]
    /\ tree' = [tree EXCEPT !.debris = @ \cup {"cache"}]
    /\ UNCHANGED <<pc, result, committed, clock, raced, edits, undone, desk, commands, kills>>

\* A file that does not compile, a command that fails to run and one that takes
\* too long are the same to the repair.
Validate ==
    /\ pc = "written"
    /\ \/ /\ DOMAIN cmd.compiled = Files
          /\ \A f \in Files : cmd.compiled[f] # Absent => cmd.compiled[f].parses
          /\ EndWith("completed")
       \/ pc' = "invalid" /\ UNCHANGED <<cmd, result>>
    /\ UNCHANGED <<world, undone, desk, commands, kills>>

\* A mutant that only says that it rolled back.
RollbackNothing ==
    /\ pc = "invalid" /\ EndWith("rolled_back")
    /\ UNCHANGED <<world, undone, desk, commands, kills>>

\* _rollback_changes removes the file, and keeps quiet when it cannot.
Rollback ==
    /\ pc = "invalid"
    /\ \/ tree' = [tree EXCEPT !.dep = "none"] /\ UNCHANGED undone
       \/ undone' = TRUE /\ UNCHANGED tree
    /\ EndWith("rolled_back")
    /\ UNCHANGED <<committed, clock, raced, edits, desk, commands, kills>>

-----------------------------------------------------------------------------
(* propose-repair: evidence, the provider's answer, validation, one file *)

\* A proposed file: its path, which may be empty, the hash the provider claims
\* for it, and whether the patch holds shell or git commands.  A provider that
\* claims a hash repeats the one it was shown, or makes one up; contents stand
\* for their hashes.
Proposed(shown) ==
    UNION {[path : {p}, forbidden : BOOLEAN,
            hash : {NoHash, WrongHash} \cup {shown[g] : g \in {p} \cap DOMAIN shown}] :
             p \in Files \cup {NoPath}}

\* _collect_evidence: the action must exist; the prompt gets the files that fit
\* its budgets, so that any of them may be missing.
Propose(action) ==
    /\ Begin
    /\ \E status \in GitStatus(tree), context \in SUBSET Scanned(tree) :
         IF action \in PlanActions(tree, status)
         THEN /\ pc' = "asked"
              /\ cmd' = [kind |-> "propose", shown |-> Restrict(tree.py, context)]
              /\ UNCHANGED result
         ELSE EndWith("not_found")
    /\ UNCHANGED <<tree, committed, clock, edits, kills, desk>>

\* A mutant that does not read the file again.
ValidFileByPath(file) ==
    (file.path # NoPath => file.path \in DOMAIN cmd.shown) /\ ~file.forbidden

\* _validate_proposal_json for one file: only a path is looked up, and only the
\* hash of a file that is there is compared, if the answer claims one.
ValidFile(file) ==
    /\ file.path # NoPath =>
         /\ file.path \in DOMAIN cmd.shown
         /\ file.hash = NoHash \/ tree.py[file.path] \in {Absent, file.hash}
    /\ ~file.forbidden

\* A blocked call, an invalid answer and one with blockers end the command; an
\* answer without files is valid.
Answer ==
    /\ pc = "asked"
    /\ \/ EndWith("blocked")
       \/ \E files \in {{}} \cup {{x} : x \in Proposed(cmd.shown)}, safe \in BOOLEAN,
            blockers \in BOOLEAN :
            IF (\A x \in files : ValidFile(x)) /\ ~blockers
            THEN /\ pc' = "proposed"
                 /\ cmd' = [kind |-> "propose", shown |-> cmd.shown, files |-> files,
                            safe |-> safe, seen |-> tree.py]
                 /\ UNCHANGED result
            ELSE EndWith("invalid")
    /\ UNCHANGED <<world, undone, desk, commands, kills>>

\* write_repair_proposal refuses to replace a file unless told to.
SaveProposal(overwrite) ==
    /\ pc = "proposed"
    /\ \/ /\ saved = Absent \/ overwrite
          /\ saved' = cmd
          /\ EndWith("saved")
       \/ /\ saved # Absent /\ ~overwrite
          /\ EndWith("exists") /\ UNCHANGED saved
       \/ EndWith("unwritten") /\ UNCHANGED saved
    /\ UNCHANGED <<world, undone, prompts, provenance, ledger, commands, kills>>

-----------------------------------------------------------------------------
(* repair-handoff *)

\* A mutant that takes a blocked run for evidence.
ClassifyBlocked(report) ==
    IF report.collected = 0 \/ (report.failed > 0 /\ report.failing = {})
    THEN "inconclusive"
    ELSE IF report.failed > 0 THEN "broken" ELSE "passed"

Classify(report) ==
    IF \/ report.collected = 0 \/ report.blocked
       \/ report.failed > 0 /\ report.failing = {}
       \/ report.failed = 0 /\ report.error
    THEN "inconclusive"
    ELSE IF report.failed > 0 THEN "broken" ELSE "passed"

\* The defect is named after the first failing row.
PromptKey(agent) ==
    <<clock, CHOOSE t \in cmd.report.failing : TRUE, agent>>

\* cmd_repair_handoff: "both" agents in this order; only broken evidence.
Handoff(report, agents) ==
    /\ Begin
    /\ IF Classify(report) = "broken"
       THEN /\ pc' = "rendering"
            /\ cmd' = [kind |-> "handoff", report |-> report, run |-> commands,
                       left |-> agents, made |-> <<>>]
            /\ UNCHANGED result
       ELSE EndWith("not_verified")
    /\ UNCHANGED <<tree, committed, clock, edits, kills, desk>>

\* generate_handoff for the next agent, up to the prompt file.
WritePrompt ==
    /\ pc = "rendering" /\ cmd.left # {}
    /\ LET agent == IF "codex" \in cmd.left THEN "codex" ELSE "claude"
           key == PromptKey(agent) IN
       \/ /\ key \notin DOMAIN prompts
          /\ prompts' = [k \in DOMAIN prompts \cup {key} |->
                          IF k = key THEN [report |-> cmd.report, run |-> cmd.run]
                          ELSE prompts[k]]
          /\ pc' = "prompted"
          /\ cmd' = [cmd EXCEPT !.left = @ \ {agent}, !.made = Append(@, key)]
          /\ UNCHANGED result
       \/ key \in DOMAIN prompts /\ EndWith("exists") /\ UNCHANGED prompts
       \/ EndWith("raised") /\ UNCHANGED prompts
    /\ UNCHANGED <<world, undone, saved, provenance, ledger, commands, kills>>

WriteProvenance ==
    /\ pc = "prompted"
    /\ \/ /\ LET key == Last(cmd.made) IN
             provenance' = [k \in DOMAIN provenance \cup {key} |->
                              IF k = key THEN [digest |-> cmd.run, opened |-> ""]
                              ELSE provenance[k]]
          /\ pc' = "proven" /\ UNCHANGED <<cmd, result>>
       \/ EndWith("raised") /\ UNCHANGED provenance
    /\ UNCHANGED <<world, undone, saved, prompts, ledger, commands, kills>>

\* record_deterministic comes last and may raise.
RecordHandoff ==
    /\ pc = "proven"
    /\ \/ ledger' = ledger \cup {Last(cmd.made)} /\ pc' = "rendering" /\ UNCHANGED <<cmd, result>>
       \/ EndWith("raised") /\ UNCHANGED ledger
    /\ UNCHANGED <<world, undone, saved, prompts, provenance, commands, kills>>

\* After the last agent the prompts are opened in VS Code, if asked for, and
\* each provenance is written again with the answer.
Deliver ==
    /\ pc = "rendering" /\ cmd.left = {}
    /\ \E detail \in {"", "opened", "not opened"} :
         provenance' = [k \in DOMAIN provenance |->
                          IF k \in Range(cmd.made) THEN [provenance[k] EXCEPT !.opened = detail]
                          ELSE provenance[k]]
    /\ EndWith("handed_over")
    /\ UNCHANGED <<world, undone, saved, prompts, ledger, commands, kills>>

-----------------------------------------------------------------------------
(* The user and the clock *)

Edit ==
    /\ edits < MaxEdits /\ edits' = edits + 1
    /\ \/ /\ \E f \in Files, c \in Contents \cup {Absent} : tree' = [tree EXCEPT !.py[f] = c]
          /\ UNCHANGED <<committed, raced>>
       \/ /\ \E dep \in {"user", "none"} : tree' = [tree EXCEPT !.dep = dep]
          /\ raced' = (raced \/ pc \in {"checked", "written", "invalid"})
          /\ UNCHANGED committed
       \/ /\ committed' = [tree |-> Visible(tree), prompts |-> DOMAIN prompts]
          /\ UNCHANGED <<tree, raced>>
       \/ /\ tree' = [tree EXCEPT !.debris = {}]
          /\ UNCHANGED <<committed, raced>>
    /\ UNCHANGED <<pc, cmd, result, clock, undone, desk, commands, kills>>

Tick ==
    /\ clock < MaxSeconds /\ clock' = clock + 1
    /\ UNCHANGED <<tree, committed, pc, cmd, result, desk, raced, undone, edits, commands, kills>>

\* Killed while it writes, a repair leaves its temporary file.
Kill ==
    /\ pc # "idle" /\ kills < MaxKills /\ kills' = kills + 1
    /\ EndWith("killed")
    /\ \/ UNCHANGED tree
       \/ pc = "checked" /\ tree' = [tree EXCEPT !.debris = @ \cup {"temp"}]
    /\ UNCHANGED <<committed, clock, raced, edits, undone, desk, commands>>

User ==
    \/ \E action \in ActionIds, approve \in BOOLEAN : Repair(action, approve)
    \/ \E action \in ActionIds : Propose(action)
    \/ \E report \in Evidence, agents \in {{"codex"}, {"claude"}, Agents} :
         Handoff(report, agents)
    \/ Edit

Command ==
    \/ SafetyChecks \/ WriteRepair \/ \E f \in Files : Compile(f)
    \/ Validate \/ Rollback
    \/ Answer \/ \E overwrite \in BOOLEAN : SaveProposal(overwrite)
    \/ WritePrompt \/ WriteProvenance \/ RecordHandoff \/ Deliver

Next == User \/ Command \/ Tick \/ Kill

Spec == Init /\ [][Next]_vars

-----------------------------------------------------------------------------
(* Properties *)

\* Values are in their ranges, and a command has the data its place needs.
TypeOK ==
    /\ tree \in Tree
    /\ committed \in [tree : Tree, prompts : SUBSET PromptKeys]
    /\ pc \in {"idle", "planned", "checked", "written", "invalid", "asked", "proposed",
              "rendering", "prompted", "proven"}
    /\ cmd.kind = CASE pc = "idle" -> "none"
                    [] pc \in {"planned", "checked", "written", "invalid"} -> "repair"
                    [] pc \in {"asked", "proposed"} -> "propose"
                    [] OTHER -> "handoff"
    /\ DOMAIN prompts \subseteq PromptKeys /\ ledger \subseteq PromptKeys
    /\ raced \in BOOLEAN /\ undone \in BOOLEAN /\ clock \in 0 .. MaxSeconds
    /\ edits \in 0 .. MaxEdits /\ commands \in 0 .. MaxCommands /\ kills \in 0 .. MaxKills

\* No command changes a Python file, and the dependency file of the user is
\* overwritten or removed only if he wrote it while the repair was past its
\* checks: the checks are repeated after the plan, and nothing after them.
UserFilesAreKept ==
    [][edits' = edits =>
         /\ tree'.py = tree.py
         /\ tree.dep = "user" /\ tree'.dep # "user" => raced]_vars

\* A repair leaves the repository as its result says: "completed" means that
\* the file is there, that every Python file compiled at its turn and that the
\* action is not planned again; otherwise the file is not there, unless its
\* removal failed.
OutcomeIsTrue ==
    [][(cmd.kind = "repair" /\ pc' = "idle" /\ ~raced) =>
         CASE result' = "completed" ->
                /\ tree'.dep = "autocorp"
                /\ \A f \in Files : cmd.compiled[f] # Absent => cmd.compiled[f].parses
                /\ \A status \in Statuses : "dependencies" \notin PlanActions(tree', status)
           [] result' \in {"refused", "raised"} -> tree' = tree
           [] result' = "rolled_back" -> tree'.dep = cmd.before.dep \/ undone'
           [] OTHER -> TRUE]_vars

\* The message of a repair that was rolled back: "All changes have been reverted."
\* (execute_repair_plan).  It does not hold: a file that cannot be removed stays.
AllChangesAreReverted ==
    [][(cmd.kind = "repair" /\ pc' = "idle" /\ result' = "rolled_back" /\ ~raced) =>
         tree'.dep = cmd.before.dep]_vars

\* A path in a saved proposal is that of a file the prompt showed; if the proposal
\* claims its hash too, the file was still as shown when the answer was
\* validated, although the user may have edited it while the provider
\* worked.  Entries without a path or a hash are not compared, and nothing
\* is compared again when the proposal is saved.
ProposalMatchesPrompt ==
    saved # Absent =>
      \A file \in saved.files : file.path # NoPath =>
         /\ file.path \in DOMAIN saved.shown
         /\ file.hash # NoHash =>
              saved.seen[file.path] \in {Absent, saved.shown[file.path]}

\* The validator's message: "Only in-context files may be patched."  It does not hold: an
\* entry without a path is not looked up.
OnlyInContextFiles ==
    saved # Absent => \A file \in saved.files : file.path \in DOMAIN saved.shown

\* The prompt's rule: "Every file must have its current_sha256 verified."  It does not
\* hold: a hash that is not claimed is not compared.
EveryHashIsVerified ==
    saved # Absent => \A file \in saved.files : file.hash # NoHash

\* Every prompt is about a test that its evidence shows failing; a provenance
\* file and a ledger entry belong to a prompt that is there, and the digest is
\* that prompt's; a command that goes on has recorded every prompt it wrote.
HandoffIsProven ==
    /\ \A k \in DOMAIN prompts : LET report == prompts[k].report IN
         k[2] \in report.failing /\ report.collected > 0 /\ report.failed > 0 /\ ~report.blocked
    /\ \A k \in DOMAIN provenance :
         k \in DOMAIN prompts /\ provenance[k].digest = prompts[k].run
    /\ ledger \subseteq DOMAIN provenance
    /\ pc = "rendering" => Range(cmd.made) \subseteq ledger
=============================================================================
