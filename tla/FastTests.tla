------------------------------ MODULE FastTests ------------------------------
(***************************************************************************)
(* The fast pytest engine (src/brains/fast_pytest_engine.py and            *)
(* src/autocorp_testing): test-plan, test-fast, test-focused and           *)
(* test-full, run by a developer who goes on editing the repository and    *)
(* who may run two of them at once.  They share the history of results,    *)
(* one row for each test file.  What pytest does is modelled from how      *)
(* execution.py reads its exit status and output.                          *)
(***************************************************************************)
EXTENDS Integers, FiniteSets, SequencesExt

CONSTANTS Commands,    \* terminals
          Requests,    \* command lines, see Request
          Layouts,     \* repositories, see Layout
          Files,       \* paths of Python files, in the order of sorted(), as a sequence
          TestFiles,   \* those is_test_file holds of
          Slow,        \* test files whose names have one of _SLOW_HINTS
          Edits,       \* what the developer may write: pairs of a file and its content
          MaxRuns, MaxEdits, MaxFaults,
          Absent

All == ToSet(Files)
Sources == All \ TestFiles

\* What a file holds: it cannot be parsed, raises when it is imported, does the
\* wrong thing (a source) or fails (a test), holds no tests, or is not there.
Content == {"ok", "broken", "raises", "wrong", "empty", "gone"}

\* Where git status, and git diff with --base-branch, show a change, in order.
Groups == <<"index", "worktree", "untracked", "base">>

Request == [mode : {"plan", "fast", "focused", "full"}, feature : BOOLEAN, base : BOOLEAN,
            paths : Seq(All \cup {Absent}),   \* Absent: outside the repository, or blank
            node : All \cup {Absent}]

\* What the command lines of the four commands take.
Takes(r) == /\ r.paths # <<>> \/ r.node # Absent => r.mode = "focused"
            /\ r.feature => r.mode \in {"plan", "focused"}
            /\ r.base => r.mode = "plan"

\* missing: files that are not there at first; named: tests whose names hold the last
\* part of the module's name; imports: what a file imports; mapped: explicit_mappings of
\* the profile; feature: the tests that match the feature, or that import a source which
\* does, or that the profile maps to it; always: always_run_safety_tests; gated: "safety"
\* or "gate" in the name; sensitive: "safety" in the source's name; integration: one of
\* _INTEGRATION_HINTS in the name; strict: the tests the strict command runs;
\* confidence: how sure discovery is of that command.
Layout == [missing : SUBSET All, named : [Sources -> SUBSET TestFiles],
           imports : [All -> SUBSET Sources], mapped : [All -> SUBSET TestFiles],
           feature : SUBSET TestFiles, always : SUBSET TestFiles, gated : SUBSET TestFiles,
           sensitive : SUBSET Sources, integration : SUBSET TestFiles,
           strict : Seq(TestFiles), confidence : {"high", "medium", "none"}]

ASSUME TestsAssumption ==
    /\ Files \in Seq(All)
    /\ TestFiles \subseteq All
    /\ Layouts \subseteq Layout
    /\ Requests \subseteq {r \in Request : Takes(r)} /\ Absent \notin Requests
    /\ Edits \subseteq All \X Content
    /\ {MaxRuns, MaxEdits, MaxFaults} \subseteq Nat

VARIABLES layout,   \* the repository
          disk,     \* the content of each file
          index,    \* what is staged of it
          head,     \* what the last commit holds of it
          edits,    \* the number of edits so far, a bound and a history variable
          history,  \* test_history: the row of each file
          pc, cmd,  \* where each command is, and what it knows
          report,   \* its last report
          died,     \* test files in which an interpreter died, for PassedRowsAreEarned
          runs, faults
vars == <<layout, disk, index, head, edits, history, pc, cmd, report, died, runs, faults>>

Parses(f) == disk[f] \notin {"broken", "gone"}
TestIndex == {t \in TestFiles : disk[t] # "gone"}
SourceIndex == {s \in Sources : disk[s] # "gone"}
Original == [f \in All |-> IF f \in layout.missing THEN "gone" ELSE "ok"]

-----------------------------------------------------------------------------
(* Selection *)

If(condition, x) == IF condition THEN <<x>> ELSE <<>>

\* The files of a set in the order of sorted().
Sorted(files) == FlattenSeq([i \in DOMAIN Files |-> If(Files[i] \in files, Files[i])])

\* What is mentioned, in the order of the first mention.
FirstMentions(s) == FlattenSeq([i \in DOMAIN s |-> If(\A j \in 1 .. i - 1 : s[j] # s[i], s[i])])

\* The base branch is where the developer started.
Shows(group, f) ==
    CASE group = "index" -> index[f] # head[f]
      [] group = "worktree" -> index[f] # "gone" /\ disk[f] # index[f]
      [] group = "untracked" -> index[f] = "gone" /\ disk[f] # "gone"
      [] group = "base" -> head[f] # Original[f]

\* detect_changes, changed_files: the first mention of each file counts.
ChangedFiles(request, accepted) ==
    LET shown(group) == Sorted({f \in All : Shows(group, f)})
        groups == IF request.base THEN Groups ELSE Front(Groups)
    IN  FirstMentions(FlattenSeq([i \in DOMAIN groups |-> shown(groups[i])]) \o accepted)

\* fingerprint: a hash of the commit, which is known by what it holds, and of the
\* changed files with what they hold now.
Fingerprint(request, changed) ==
    [commit |-> head, node |-> request.node, contents |-> [f \in ToSet(changed) |-> disk[f]]]

\* index_test_file, index_source_file: a file that cannot be parsed imports nothing.
Imports(f) == IF Parses(f) THEN layout.imports[f] ELSE {}
Touches(t, s) == t \in layout.named[s] \/ s \in Imports(t)

\* build_reverse_dependency_graph
Dependents(s) == {d \in SourceIndex \ {s} : s \in Imports(d)}

\* MappingResult.add: the category of a reason, and whether its text has "safety" in it.
Reason(category, safety) == [category |-> category, safety |-> safety]

\* The reasons one changed source gives for a test, in the order they are found.
MatchesOf(s, t) ==
    LET via == {d \in Dependents(s) : Touches(t, d)}
    IN  If(t \in layout.named[s], Reason("direct", s \in layout.sensitive))
        \o If(s \in Imports(t), Reason("direct", s \in layout.sensitive))
        \o If(via # {}, Reason("dependency", (via \cup {s}) \cap layout.sensitive # {}))

\* map_changed_files_to_tests: every reason for a test, in the order they are found.
ReasonsFor(t, changed, request) ==
    LET mapping == {f \in ToSet(changed) : t \in layout.mapped[f]}
    IN  (IF t \in TestIndex
         THEN FlattenSeq([i \in DOMAIN changed |-> IF changed[i] \in SourceIndex
                                                  THEN MatchesOf(changed[i], t) ELSE <<>>])
              \o If(request.feature /\ t \in layout.feature, Reason("feature", FALSE))
         ELSE <<>>)
        \o If(mapping # {}, Reason("explicit", mapping \cap layout.sensitive # {}))

\* uncertainty_warnings
Unmatched(changed) ==
    {s \in ToSet(changed) \cap SourceIndex : \A t \in TestIndex : MatchesOf(s, t) = <<>>}

\* mandatory_safety_tests: a test that the profile lists need not exist.
SafetyFor(t) ==
    If(t \in layout.always \/ t \in layout.gated \cap TestIndex, Reason("safety", TRUE))

\* A mutant that lets a later reason change the category.
LastCategory(t, reasons) ==
    IF t \in layout.integration THEN "integration" ELSE Last(reasons).category

\* MappingResult.add and build_plan: the first reason names the category, but a
\* matched test whose name hints at integration is an integration test.
Category(t, reasons) ==
    IF t \in layout.integration THEN "integration" ELSE Head(reasons).category

\* build_plan
Selection(request, changed, accepted) ==
    LET reasons == [t \in TestFiles |-> ReasonsFor(t, changed, request) \o SafetyFor(t)]
        matched == {t \in TestFiles : reasons[t] # <<>>}
        of(categories) == {t \in matched : Category(t, reasons[t]) \in categories}
        fast == of({"direct", "dependency", "safety"})
                \cup {t \in matched : \E i \in DOMAIN reasons[t] : reasons[t][i].safety}
        focused == fast \cup of({"feature", "explicit", "integration"})
                        \cup ({request.node} \ {Absent}) \cup ToSet(accepted)
        category == [f \in fast \cup focused |->
                        IF history[f] # Absent /\ history[f].result = "failed" THEN "previously_failed"
                        ELSE IF f \in matched THEN Category(f, reasons[f]) ELSE "explicit"]
    IN  [fast |-> fast, focused |-> focused, category |-> category,
         deferred |-> TestIndex \ (fast \cup focused), warned |-> Unmatched(changed)]

\* _ORDER, _order_selected
Rank(f, category) ==
    CASE category = "previously_failed" -> 0
      [] category = "safety" -> 4
      [] f \in Slow -> 6
      [] category = "integration" -> 5
      [] category = "dependency" -> 7
      [] OTHER -> 3
OrderSelected(chosen, category) ==
    FlattenSeq([r \in 1 .. 8 |-> Sorted({f \in chosen : Rank(f, category[f]) = r - 1})])

\* test_fast, test_focused: the files that are given to pytest.
Targets(request, selection, accepted) ==
    CASE request.mode = "fast" -> OrderSelected(selection.fast, selection.category)
      [] request.mode = "focused" /\ accepted # <<>> -> accepted
      [] request.mode = "focused" /\ accepted = <<>> ->
            OrderSelected(IF selection.focused # {} THEN selection.focused ELSE selection.fast,
                          selection.category)
      [] OTHER -> <<>>

-----------------------------------------------------------------------------
(* pytest *)

Loaded(f) == layout.imports[f] \cup UNION {layout.imports[s] : s \in layout.imports[f]}

\* The file cannot be collected, or one of its tests fails.
Uncollectable(f) ==
    \/ disk[f] \in {"broken", "raises"}
    \/ \E s \in Loaded(f) : disk[s] \in {"broken", "raises", "gone"}
FailsNow(f) ==
    \/ f \in TestFiles /\ disk[f] = "wrong"
    \/ f \in TestFiles /\ disk[f] # "empty" /\ \E s \in Loaded(f) : disk[s] = "wrong"
HoldsTests(f) == f \in TestFiles /\ disk[f] # "empty"

\* A run that gets to its end: no lines of its items when collection fails.
Finished(targets) ==
    LET files == ToSet(targets)
        collects == {f \in files : disk[f] # "gone" /\ ~Uncollectable(f) /\ HoldsTests(f)}
        stops == {f \in files : disk[f] # "gone" /\ Uncollectable(f)}
        gone == {f \in files : disk[f] = "gone"}
        fails == {f \in collects : FailsNow(f)}
    IN  [returncode |-> CASE gone # {} -> 4
                          [] gone = {} /\ stops # {} -> 2
                          [] gone = {} /\ stops = {} /\ fails # {} -> 1
                          [] gone = {} /\ stops = {} /\ collects = {} -> 5
                          [] OTHER -> 0,
         collected |-> gone = {} /\ collects # {},
         items |-> [f \in files |-> IF gone \cup stops # {} \/ f \notin collects THEN "none"
                                    ELSE IF f \in fails THEN "failed" ELSE "passed"]]

\* run_pytest: the output of a run that is stopped after 1800 seconds is lost.
TimedOut(targets) ==
    [returncode |-> 124, collected |-> FALSE, items |-> [f \in ToSet(targets) |-> "none"]]

\* The interpreter dies in the i-th file, after tests of it that passed or before any.
Died(targets, i) ==
    LET before == {targets[j] : j \in 1 .. i - 1}
        whole == Finished(targets)
    IN  {[returncode |-> 139, collected |-> TRUE,
          items |-> [f \in ToSet(targets) |-> IF f = targets[i] THEN item
                                              ELSE IF f \in before THEN whole.items[f] ELSE "none"]] :
            item \in {"none", "passed"}}

PytestRuns(targets) ==
    {Finished(targets)} \cup
    (IF faults = MaxFaults THEN {}
     ELSE {TimedOut(targets)}
          \cup (IF Finished(targets).collected /\ Finished(targets).returncode \in {0, 1}
                THEN UNION {Died(targets, i) : i \in {j \in DOMAIN targets : HoldsTests(targets[j])}}
                ELSE {}))

-----------------------------------------------------------------------------
(* A command *)

\* The history variables: edits when it looked at git, met (pytest found the tree that it
\* fingerprinted) and, in a report, steady (nothing was edited since it looked).
Idle == [request |-> Absent, accepted |-> <<>>, changed |-> <<>>, tree |-> Absent, edits |-> 0,
         targets |-> <<>>, deferred |-> {}, warned |-> {}, met |-> FALSE, run |-> Absent, next |-> 1, errors |-> {}]
NoReport == [mode |-> Absent, status |-> Absent, exit |-> 0, targets |-> <<>>,
             changed |-> <<>>, tree |-> Absent, steady |-> FALSE, errors |-> {}]

Init ==
    /\ layout \in Layouts
    /\ disk = Original /\ index = Original /\ head = Original /\ edits = 0
    /\ history = [f \in All |-> Absent]
    /\ pc = [c \in Commands |-> "idle"] /\ cmd = [c \in Commands |-> Idle]
    /\ report = [c \in Commands |-> NoReport]
    /\ died = {} /\ runs = 0 /\ faults = 0

Developer == <<layout, disk, index, head, edits>>

\* EngineReport; render_report: what it calls the outcome.
Report(c, status, exit, errors) ==
    report' = [report EXCEPT ![c] =
        [mode |-> cmd[c].request.mode, status |-> status, exit |-> exit,
         targets |-> cmd[c].targets, changed |-> cmd[c].changed,
         tree |-> cmd[c].tree, steady |-> cmd[c].edits = edits, errors |-> errors]]
Status(exit, errors) ==
    CASE "zero" \in errors -> "NOT VERIFIED"
      [] "zero" \notin errors /\ exit = 0 -> "PASSED"
      [] OTHER -> "FAILED"

End(c) == pc' = [pc EXCEPT ![c] = "idle"] /\ cmd' = [cmd EXCEPT ![c] = Idle]

\* The developer writes, deletes or restores a file.
Edit(f, content) ==
    /\ edits < MaxEdits /\ disk[f] # content
    /\ disk' = [disk EXCEPT ![f] = content]
    /\ edits' = edits + 1
    /\ UNCHANGED <<layout, index, head, history, pc, cmd, report, died, runs, faults>>

\* git add of everything.
Add ==
    /\ edits < MaxEdits /\ index # disk
    /\ index' = disk
    /\ edits' = edits + 1
    /\ UNCHANGED <<layout, disk, head, history, pc, cmd, report, died, runs, faults>>

\* git commit of everything, on a branch.
Commit ==
    /\ edits < MaxEdits /\ head # disk
    /\ index' = disk /\ head' = disk
    /\ edits' = edits + 1
    /\ UNCHANGED <<layout, disk, history, pc, cmd, report, died, runs, faults>>

\* _normalize_explicit_paths: without the ones mentioned twice, unless one is rejected.
Rejected(paths) == \E i \in DOMAIN paths : paths[i] = Absent \/ disk[paths[i]] = "gone"
Accepted(paths) == FirstMentions(paths)

\* test_plan, test_fast, test_focused and test_full up to the look at git; the
\* strict command must be known.
Begin(c) ==
    /\ pc[c] = "idle" /\ runs < MaxRuns
    /\ \E request \in Requests :
        LET blocked == \/ request.mode = "focused" /\ Rejected(request.paths)
                       \/ request.mode = "full" /\ layout.confidence = "none"
        IN  IF blocked
            THEN /\ report' = [report EXCEPT ![c] = [NoReport EXCEPT !.mode = request.mode,
                                                        !.status = "BLOCKED", !.exit = 2]]
                 /\ UNCHANGED <<pc, cmd>>
            ELSE /\ pc' = [pc EXCEPT ![c] = "changes"]
                 /\ cmd' = [cmd EXCEPT ![c] = [Idle EXCEPT !.request = request,
                                                  !.accepted = Accepted(request.paths)]]
                 /\ report' = [report EXCEPT ![c] = NoReport]
    /\ runs' = runs + 1
    /\ UNCHANGED <<Developer, history, died, faults>>

\* detect_changes and fingerprint
DetectChanges(c) ==
    /\ pc[c] = "changes"
    /\ LET r == cmd[c].request
           changed == ChangedFiles(r, cmd[c].accepted)
       IN
        /\ cmd' = [cmd EXCEPT ![c].changed = changed, ![c].tree = Fingerprint(r, changed),
                              ![c].edits = edits]
        /\ pc' = [pc EXCEPT ![c] = IF r.mode = "full" THEN "strict" ELSE "select"]
    /\ UNCHANGED <<Developer, history, report, died, runs, faults>>

\* The rest of build_plan: the indexes, the history and the selection.
BuildPlan(c) ==
    /\ pc[c] = "select"
    /\ LET k == cmd[c]
           selection == Selection(k.request, k.changed, k.accepted)
       IN  /\ cmd' = [cmd EXCEPT ![c].targets = Targets(k.request, selection, k.accepted),
                                 ![c].deferred = selection.deferred,
                                 ![c].warned = selection.warned]
           /\ pc' = [pc EXCEPT ![c] = IF k.request.mode = "plan" THEN "planned" ELSE "check"]
    /\ UNCHANGED <<Developer, history, report, died, runs, faults>>

ShowPlan(c) ==
    /\ pc[c] = "planned"
    /\ Report(c, "planned", 0, {})
    /\ End(c)
    /\ UNCHANGED <<Developer, history, died, runs, faults>>

\* run_fast_compile_check of the changed files, or the compile command on all of them,
\* which may also time out.
CompileFails(c) ==
    \E f \in (IF cmd[c].request.mode = "fast" THEN ToSet(cmd[c].changed) ELSE All) : disk[f] = "broken"

\* run_import_checks: its failures are errors of the report and do not end the run.
ImportErrors(c) ==
    IF \E s \in ToSet(cmd[c].changed) \cap SourceIndex :
            \E f \in {s} \cup Loaded(s) : disk[f] \in {"broken", "raises", "gone"}
    THEN {"import"} ELSE {}

\* _run_selected up to the run of pytest.
Check(c) ==
    /\ pc[c] = "check"
    /\ \/ /\ CompileFails(c)
          /\ Report(c, "FAILED", 1, {"compile"})
          /\ End(c)
          /\ UNCHANGED faults
       \/ /\ cmd[c].request.mode = "focused" /\ faults < MaxFaults
          /\ Report(c, "FAILED", 1, {"compile"})
          /\ End(c)
          /\ faults' = faults + 1
       \/ /\ ~CompileFails(c) /\ cmd[c].targets = <<>>
          /\ Report(c, "PASSED", 0, ImportErrors(c))
          /\ End(c)
          /\ UNCHANGED faults
       \/ /\ ~CompileFails(c) /\ cmd[c].targets # <<>>
          /\ pc' = [pc EXCEPT ![c] = "pytest"]
          /\ cmd' = [cmd EXCEPT ![c].errors = ImportErrors(c)]
          /\ UNCHANGED <<report, faults>>
    /\ UNCHANGED <<Developer, history, died, runs>>

\* What a command would identify the tree by now.
Fingerprints ==
    {Fingerprint(r, ChangedFiles(r, Accepted(r.paths))) : r \in {r \in Requests : Absent \notin ToSet(r.paths)}}

\* run_pytest
RunPytest(c) ==
    /\ pc[c] = "pytest"
    /\ \E run \in PytestRuns(cmd[c].targets) :
        /\ cmd' = [cmd EXCEPT ![c].run = run, ![c].met = cmd[c].tree \in Fingerprints,
                    ![c].errors = @ \cup (IF run.collected THEN {} ELSE {"zero"})
                                    \cup (IF run.returncode = 124 THEN {"timeout"} ELSE {})]
        /\ faults' = IF run.returncode \in {124, 139} THEN faults + 1 ELSE faults
        /\ died' = IF run.returncode = 139
                   THEN died \cup {f \in DOMAIN run.items : run.items[f] = "passed"} ELSE died
    /\ pc' = [pc EXCEPT ![c] = "record"]
    /\ UNCHANGED <<Developer, history, report, runs>>

\* A mutant that only looks for failures.
RowOfFailures(run, f) == IF run.items[f] = "failed" THEN "failed" ELSE "passed"

\* _record_file_history: a file without items goes by the exit status.
RowResult(run, f) ==
    CASE run.items[f] = "failed" -> "failed"
      [] run.items[f] = "passed" -> "passed"
      [] run.items[f] = "none" -> IF run.returncode # 0 THEN "failed" ELSE "passed"

\* record_result: one transaction for each target.
RecordResult(c) ==
    /\ pc[c] = "record" /\ cmd[c].next \in DOMAIN cmd[c].targets
    /\ LET f == cmd[c].targets[cmd[c].next] IN
        history' = [history EXCEPT ![f] =
                        [result |-> RowResult(cmd[c].run, f), tree |-> cmd[c].tree, met |-> cmd[c].met]]
    /\ cmd' = [cmd EXCEPT ![c].next = @ + 1]
    /\ UNCHANGED <<Developer, pc, report, died, runs, faults>>

\* A mutant that goes by the items and not by the exit status.
ExitOfItems(run) == IF \E f \in DOMAIN run.items : run.items[f] = "failed" THEN 1 ELSE 0

\* _run_selected: no tests collected is a failure.
ExitCode(run) == IF run.collected THEN run.returncode ELSE 1

Finish(c) ==
    /\ pc[c] = "record" /\ cmd[c].next \notin DOMAIN cmd[c].targets
    /\ LET exit == ExitCode(cmd[c].run) IN Report(c, Status(exit, cmd[c].errors), exit, cmd[c].errors)
    /\ End(c)
    /\ UNCHANGED <<Developer, history, died, runs, faults>>

\* run_strict_full: the status of the command is the status of the report, and
\* nothing is recorded.
RunStrict(c) ==
    /\ pc[c] = "strict"
    /\ \E run \in PytestRuns(layout.strict) :
        LET errors == IF run.returncode = 124 THEN {"timeout"} ELSE {} IN
        /\ Report(c, Status(run.returncode, errors), run.returncode, errors)
        /\ faults' = IF run.returncode \in {124, 139} THEN faults + 1 ELSE faults
    /\ End(c)
    /\ UNCHANGED <<Developer, history, died, runs>>

\* The command is interrupted or killed.
Kill(c) ==
    /\ pc[c] # "idle" /\ faults < MaxFaults
    /\ End(c)
    /\ faults' = faults + 1
    /\ UNCHANGED <<Developer, history, report, died, runs>>

Next ==
    \/ \E e \in Edits : Edit(e[1], e[2])
    \/ Add \/ Commit
    \/ \E c \in Commands :
        \/ Begin(c) \/ DetectChanges(c) \/ BuildPlan(c) \/ ShowPlan(c) \/ Check(c)
        \/ RunPytest(c) \/ RecordResult(c) \/ Finish(c) \/ RunStrict(c) \/ Kill(c)
Spec == Init /\ [][Next]_vars

-----------------------------------------------------------------------------
(* Properties *)

\* The variables have their types.
TypeOK ==
    /\ layout \in Layouts
    /\ disk \in [All -> Content]
    /\ index \in [All -> Content] /\ head \in [All -> Content]
    /\ edits \in 0 .. MaxEdits /\ runs \in 0 .. MaxRuns /\ faults \in 0 .. MaxFaults
    /\ died \subseteq TestFiles
    /\ \A f \in All : history[f] # Absent => history[f].result \in {"passed", "failed"} /\ history[f].met \in BOOLEAN
    /\ pc \in [Commands -> {"idle", "changes", "select", "planned", "check", "pytest", "record", "strict"}]
    /\ \A c \in Commands :
        /\ (pc[c] = "idle") = (cmd[c] = Idle)
        /\ ToSet(cmd[c].targets) \cup ToSet(cmd[c].changed) \subseteq All
        /\ cmd[c].next \in 1 .. Len(cmd[c].targets) + 1
        /\ report[c].exit \in {0, 1, 2, 4, 5, 124, 139}

\* A test is linked to a source by its name or imports, or through one importer of the source.
Linked(t, s) == t \in TestIndex /\ (Touches(t, s) \/ \E d \in Dependents(s) : Touches(t, d))

\* A fast run that has its plan, in a tree that was not edited since it looked at git.
HasPlan(c) ==
    /\ pc[c] \in {"check", "pytest", "record"} /\ cmd[c].request.mode = "fast"
    /\ cmd[c].edits = edits

\* test-fast runs every test file linked to a changed source that is still there but
\* the integration tests, and every safety test; it runs nothing else.  What it leaves
\* out is deferred unless the feature, the profile or its name puts it in focused runs.
\* In the code the first reason names the category for good, whatever the order in
\* which changes are met (planning.py build_plan, mapping.py MappingResult.add).  The
\* tests of a deleted source are the subject of LinkedRunsOrIsWarned.
FastRunsTheChange ==
    \A c \in Commands :
        HasPlan(c) =>
            LET changed == ToSet(cmd[c].changed)
                linked == {t \in TestFiles : \E s \in changed \cap SourceIndex : Linked(t, s)}
                mapped == UNION {layout.mapped[f] : f \in changed}
                safety == layout.always \cup (layout.gated \cap TestIndex)
                targets == ToSet(cmd[c].targets)
            IN  /\ (linked \ layout.integration) \cup safety \subseteq targets
                /\ targets \subseteq linked \cup mapped \cup safety
                /\ TestIndex \ (targets \cup cmd[c].deferred) \subseteq mapped \cup layout.integration

\* What the report of the engine's first phase says: the tests linked to a changed source,
\* also to one that was deleted, run, or a warning names the source.  It does not hold: only
\* sources that are still there are matched or warned about (map_changed_files_to_tests).
LinkedRunsOrIsWarned ==
    \A c \in Commands :
        HasPlan(c) =>
            \A s \in ToSet(cmd[c].changed) \cap Sources : \A t \in TestIndex \ layout.integration :
                Linked(t, s) => t \in ToSet(cmd[c].targets) \/ s \in cmd[c].warned

Passes(f) == disk[f] # "gone" /\ ~Uncollectable(f) /\ ~FailsNow(f)

\* A report of PASSED whose fingerprint is the tree's, from a command during which nobody
\* edited: no file of the run fails or cannot be collected, and in a fast run every
\* changed file parses, also when the tree was edited and restored after it.  For
\* test-full these are the files of the strict command, whose PASSED is the production
\* approval (fast_pytest_engine.py _run_selected, test_full).
PassedIsSound ==
    \A c \in Commands :
        report[c].status = "PASSED" /\ report[c].steady /\ report[c].tree \in Fingerprints =>
            /\ \A f \in ToSet(IF report[c].mode = "full" THEN layout.strict ELSE report[c].targets) : Passes(f)
            /\ report[c].mode = "fast" => \A f \in ToSet(report[c].changed) : disk[f] # "broken"

\* Whenever the tree has the fingerprint of a row that says "passed", the file passes, if
\* pytest met the tree that was fingerprinted and no interpreter died among its tests:
\* two commands that record at once, runs that are killed, time out or end before they
\* reach the file, and edits that are staged, committed and undone never leave a failing
\* test marked as passed (fast_pytest_engine.py _record_file_history).
PassedRowsAreEarned ==
    \A f \in All :
        history[f] # Absent /\ history[f].result = "passed" /\ history[f].met
        /\ history[f].tree \in Fingerprints /\ f \notin died => Passes(f)
=============================================================================
