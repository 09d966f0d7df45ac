------------------------------ MODULE BuildLoop ------------------------------
(***************************************************************************)
(* The build loop of src/core/orchestrator.py (Session.run) with the       *)
(* brains, the router, the gates, the executor and the memory it calls:    *)
(* plan, confirm, route, build, review, test, fix, accept, heal, record.   *)
(* Several builds of the same project name may run at once, in processes   *)
(* of their own; they share the workspace folder and the memory.           *)
(***************************************************************************)
EXTENDS Integers, FiniteSets, FiniteSetsExt, SequencesExt

CONSTANTS Sessions,        \* builds, one process each
          CommandLines,    \* sets of builds that run together: the command line of each,
                           \* or Absent for a build that is not started
          Plans,           \* plans that the planner may return
          Rules,           \* DEEPSEEK_ROUTE_RULES, in their order
          MaxFix,          \* MAX_FIX_ATTEMPTS
          MaxDirs,         \* bound on the folders of one project name
          MaxFaults,       \* interruptions and writes that the memory refuses
          Absent           \* a file that does not exist

Engines == {"local", "claude", "deepseek"}
Paid == {"claude", "deepseek"}
Dirs == 1 .. MaxDirs                       \* project, project_2, ...
Paths == {"main.py", "test_main.py"}
\* What a file holds: a program with an entry point, one without, one that does not
\* parse, or the text of an acceptance criterion.
Contents == {"good", "poor", "broken", "text"}

\* A plan: its files in the model's order, each with the source that a template gives it,
\* the build order the model asked for, and what the routing rules look at.
Entry == [path : Paths, given : Contents \cup {Absent}]

ASSUME BuildAssumption ==
    /\ {MaxFix, MaxDirs, MaxFaults} \subseteq Nat /\ MaxDirs > 0
    /\ Absent \notin Contents
    /\ \A lines \in CommandLines, s \in Sessions :
           lines[s] # Absent => /\ lines[s].plans \subseteq Plans
                                /\ lines[s].engine \in Engines \cup {"auto"}
    /\ \A p \in Plans : p.files \in Seq(Entry) /\ p.files # <<>> /\ p.order \in Seq(Paths)
                        /\ IsFiniteSet(p.criteria)

VARIABLES run,     \* each build: where it is and its local state
          opts,    \* its command line
          exists,  \* folders of the workspace that exist
          ws,      \* their files
          rows,    \* the builds table of the memory
          lessons, \* per build: fix lessons and success lessons
          prior,   \* folders that existed when the build began
          tested,  \* the folder's files when its tests last succeeded, once they have
          paidFor, \* paid engines that generated a file for the build
          healed,  \* builds that wrote files after their tests
          excused, \* builds that were interrupted or that the memory refused
          faults
vars == <<run, opts, exists, ws, rows, lessons, prior, tested, paidFor, healed, excused, faults>>
memory == <<rows, lessons>>
history == <<prior, tested, paidFor, healed, excused>>

-----------------------------------------------------------------------------
(* Plans, routing and gates *)

PathsOf(plan) == {plan.files[i].path : i \in DOMAIN plan.files}

\* ensure_buildable: known paths in the asked order, then the files it forgot; and
\* _resolve_build_order, which places every path once.
BuildOrder(plan) ==
    LET asked == plan.order \o [i \in DOMAIN plan.files |-> plan.files[i].path]
        Placed(i) == asked[i] \in PathsOf(plan) /\ \A j \in 1 .. i - 1 : asked[j] # asked[i]
    IN  FlattenSeq([i \in DOMAIN asked |-> IF Placed(i) THEN <<asked[i]>> ELSE <<>>])

\* by_path: of two entries for one path the last one counts.
GivenFor(plan, path) == plan.files[Max({i \in DOMAIN plan.files : plan.files[i].path = path})].given

\* Rule.matches: the conditions a rule has must all hold.
Matches(rule, plan) ==
    /\ "words" \in DOMAIN rule => plan.words \cap rule.words # {}
    /\ "types" \in DOMAIN rule => plan.type \in rule.types
    /\ "language" \in DOMAIN rule => plan.language = rule.language
    /\ "least" \in DOMAIN rule => Len(plan.files) >= rule.least
    /\ "most" \in DOMAIN rule => Len(plan.files) <= rule.most

\* The places of the rules that match.
Matching(plan, o) == {i \in DOMAIN Rules : o.rules /\ Matches(Rules[i], plan)}

Least(S) == {x \in S : \A y \in S : x <= y}

\* ModelRouter.route: the first matching rule, or the default engine if no rule matches
\* or its engine does not say that it is available.
Decisions(plan, o) ==
    LET matching == Matching(plan, o)
        Chosen(r) == [engine |-> r.engine, rule |-> r.name, fallback |-> FALSE]
        Fallback(r) == [engine |-> o.default, rule |-> r.name, fallback |-> TRUE]
    IN IF matching = {}
       THEN {[engine |-> o.default, rule |-> "fallback", fallback |-> FALSE]}
       ELSE UNION {{Chosen(Rules[i])}
                   \cup (IF Rules[i].engine = "claude" THEN {Fallback(Rules[i])} ELSE {}) :
                      i \in Least(matching)}

\* A mutant that forgets that the default engine is no rule's choice.
ExplicitUnlessFallback(d) == ~d.fallback

\* engine_explicit_selection after routing
Explicit(d) == ~d.fallback /\ d.rule # "fallback"

\* What a gate may answer: AllowAllGate, ConfirmGate with its yes to all, WatchdogGate
\* with its rules, its score and its fallback to confirmation.
Answers(o, always, what) ==
    IF \/ o.gate = "all"
       \/ o.gate = "confirm" /\ always
       \/ o.gate = "watchdog" /\ what = "write"
    THEN {"yes"} ELSE {"yes", "always", "no"}

\* ConfirmGate._allow_all
YesToAll(r, answer) == r.always \/ answer = "always"

-----------------------------------------------------------------------------
(* The start of a build *)

\* cmd_build: an engine that the command line names is explicit.
NewRun(o) == [pc |-> IF o = Absent THEN "done" ELSE "start", plan |-> Absent,
              engine |-> IF o = Absent \/ o.engine = "auto" THEN "local" ELSE o.engine,
              explicit |-> o # Absent /\ o.engine # "auto",
              dir |-> 0, next |-> 1, built |-> {}, always |-> FALSE,
              result |-> "none", attempts |-> 0, heals |-> 0, items |-> <<>>,
              findings |-> FALSE, status |-> "none", exit |-> 1]

Init ==
    /\ opts \in CommandLines
    /\ run = [s \in Sessions |-> NewRun(opts[s])]
    /\ exists \in {{}, {1}}
    /\ ws = [d \in Dirs |-> [p \in Paths |-> IF d \in exists THEN "good" ELSE Absent]]
    /\ rows = {} /\ lessons = [s \in Sessions |-> [fix |-> 0, success |-> 0]]
    /\ prior = [s \in Sessions |-> {}]
    /\ tested = [s \in Sessions |-> {}]
    /\ paidFor = [s \in Sessions |-> {}]
    /\ healed = {} /\ excused = {} /\ faults = 0

At(s, label) == run[s].pc = label
Set(s, new) == run' = [run EXCEPT ![s] = new]
Goto(s, label) == run' = [run EXCEPT ![s].pc = label]
\* A run that stops without reaching the record of its outcome.
Stop(s, status) == run' = [run EXCEPT ![s].pc = "done", ![s].status = status]
Local == UNCHANGED <<opts, exists, ws, memory, history, faults>>

\* An empty request, or no Ollama server, ends before anything else.
Begin(s) ==
    /\ At(s, "start")
    /\ \/ Stop(s, "empty") /\ UNCHANGED prior
       \/ Goto(s, "plan") /\ prior' = [prior EXCEPT ![s] = exists]
    /\ UNCHANGED <<opts, exists, ws, memory, tested, paidFor, healed, excused, faults>>

\* PlannerBrain.plan: OllamaError ends the run, an answer without JSON escapes from it.
MakePlan(s) ==
    /\ At(s, "plan")
    /\ \/ \E plan \in opts[s].plans :
             Set(s, [run[s] EXCEPT !.plan = plan,
                        !.pc = IF opts[s].gate = "all" THEN "route" ELSE "confirm"])
       \/ \E status \in {"error", "crashed"} : Stop(s, status)
    /\ Local

ConfirmPlan(s) ==
    /\ At(s, "confirm")
    /\ Goto(s, "route") \/ Stop(s, "declined")
    /\ Local

\* Creating an engine that is not registered raises; the build keeps the engine it has.
Route(s) ==
    /\ At(s, "route")
    /\ IF opts[s].engine # "auto"
       THEN Goto(s, "choose")
       ELSE \E d \in Decisions(run[s].plan, opts[s]) :
                IF d.engine \in Engines
                THEN Set(s, [run[s] EXCEPT !.pc = "choose", !.engine = d.engine,
                                !.explicit = Explicit(d)])
                ELSE Goto(s, "choose")
    /\ Local

Free == {d \in Dirs : d \notin exists}

\* A mutant that takes the project's own name whatever exists.
ChooseDirFirst(s) ==
    /\ At(s, "choose")
    /\ Set(s, [run[s] EXCEPT !.pc = "make", !.dir = 1])
    /\ Local

\* _make_workspace looks for a name that is not taken ...
ChooseDir(s) ==
    /\ At(s, "choose")
    /\ \E d \in Least(Free) : Set(s, [run[s] EXCEPT !.pc = "make", !.dir = d])
    /\ Local

\* ... and makes the folder, which another build may have made meanwhile.
MakeDir(s) ==
    /\ At(s, "make")
    /\ exists' = exists \cup {run[s].dir}
    /\ Goto(s, "build")
    /\ UNCHANGED <<opts, ws, memory, history, faults>>

-----------------------------------------------------------------------------
(* Writing, testing and fixing *)

\* Executor.write_file: what the gate refuses and what the system cannot write (OSError)
\* leaves the file as it was.
Write(s, path, content, whenWritten, whenNot) ==
    \E answer \in Answers(opts[s], run[s].always, "write") :
        LET sticky == YesToAll(run[s], answer)
        IN \/ /\ answer # "no"
              /\ ws' = [ws EXCEPT ![run[s].dir][path] = content]
              /\ Set(s, [whenWritten EXCEPT !.always = sticky])
           \/ /\ Set(s, [whenNot EXCEPT !.always = sticky])
              /\ UNCHANGED ws

\* BuilderBrain.build, one file: the template's source, or the engine's if the policy lets
\* it answer.  A file without content is left out.
BuildFile(s) ==
    LET r     == run[s]
        order == BuildOrder(r.plan)
        path  == order[r.next]
        given == GivenFor(r.plan, path)
        left  == [r EXCEPT !.next = @ + 1]
        kept  == [left EXCEPT !.built = @ \cup {path}]
    IN /\ At(s, "build") /\ r.next <= Len(order)
       /\ \/ given # Absent /\ Write(s, path, given, kept, left) /\ UNCHANGED paidFor
          \/ /\ given = Absent
             /\ r.engine \in Paid => r.explicit
             /\ \E content \in {"good", "poor", "broken"} : Write(s, path, content, kept, left)
             /\ paidFor' = [paidFor EXCEPT ![s] = @ \cup ({r.engine} \cap Paid)]
          \/ given = Absent /\ Set(s, left) /\ UNCHANGED <<ws, paidFor>>
       /\ UNCHANGED <<opts, exists, memory, prior, tested, healed, excused, faults>>

\* record_build and record_lesson: an error of the memory is swallowed.
Remember(s, newRows, newLessons) ==
    \/ rows' = newRows /\ lessons' = newLessons /\ UNCHANGED <<excused, faults>>
    \/ /\ faults < MaxFaults /\ faults' = faults + 1
       /\ excused' = excused \cup {s}
       /\ UNCHANGED memory

Row(s, status) == [session |-> s, dir |-> run[s].dir, status |-> status]
Ended(s, status) ==
    run' = [run EXCEPT ![s].pc = "done", ![s].status = status,
                       ![s].exit = IF status = "passed" THEN 0 ELSE 1]

\* A mutant that ends without recording that no file was written.
EndBuildSilently(s) ==
    /\ At(s, "build") /\ run[s].next > Len(BuildOrder(run[s].plan))
    /\ IF run[s].built = {}
       THEN Ended(s, "failed") /\ UNCHANGED <<memory, excused, faults>>
       ELSE /\ Goto(s, IF opts[s].review THEN "review" ELSE "test")
            /\ UNCHANGED <<memory, excused, faults>>
    /\ UNCHANGED <<opts, exists, ws, prior, tested, paidFor, healed>>

EndBuild(s) ==
    /\ At(s, "build") /\ run[s].next > Len(BuildOrder(run[s].plan))
    /\ IF run[s].built = {}
       THEN Ended(s, "failed") /\ Remember(s, rows \cup {Row(s, "failed")}, lessons)
       ELSE /\ Goto(s, IF opts[s].review THEN "review" ELSE "test")
            /\ UNCHANGED <<memory, excused, faults>>
    /\ UNCHANGED <<opts, exists, ws, prior, tested, paidFor, healed>>

FilesIn(d) == {p \in Paths : ws[d][p] # Absent}
AllParse(d) == \A p \in FilesIn(d) : ws[d][p] \in {"good", "poor"}

\* ReviewerBrain.review: whether it finds a syntax error or a missing import.  The
\* findings are taken once; a review that raises leaves none.
Review(s) ==
    /\ At(s, "review")
    /\ \E findings \in BOOLEAN :
          run' = [run EXCEPT ![s].pc = "test", ![s].findings = findings]
    /\ Local

\* A mutant that takes a command that was stopped for one that succeeded.
OkUnlessFailed(result) == result \notin {"fail", "blocked"}

\* CommandResult.ok
Ok(result) == result = "ok"

\* Executor.run_command: what the gate refuses does not run.  "noisy": the command was
\* stopped after it had printed something.
CommandResults(answer) ==
    IF answer = "no" THEN {"blocked"} ELSE {"ok", "fail", "timeout", "noisy"}

Test(s) ==
    /\ At(s, "test")
    /\ \E answer \in Answers(opts[s], run[s].always, "command") :
       \E result \in CommandResults(answer) :
          /\ Set(s, [run[s] EXCEPT !.result = result, !.always = YesToAll(run[s], answer),
                !.pc = IF ~Ok(result) /\ result # "blocked" /\ run[s].attempts < MaxFix
                       THEN "fix" ELSE "judge"])
          /\ tested' = [tested EXCEPT ![s] = IF result = "ok" THEN {ws[run[s].dir]} ELSE @]
    /\ UNCHANGED <<opts, exists, ws, memory, prior, paidFor, healed, excused, faults>>

\* pick_file_to_fix reads the output for a name; any file of the plan may be meant.
FileToFix(plan) == PathsOf(plan)

\* suggest_fix: a file that the engine or the model writes anew, or nothing.
Suggestions == {"good", "poor", "broken", Absent}

\* One turn of the fix loop.  The output of a command that was stopped is bytes, and to
\* read it raises TypeError.  The lesson is recorded before the tests are repeated.
Fix(s) ==
    LET counted == [run[s] EXCEPT !.attempts = @ + 1]
        given_up == [counted EXCEPT !.pc = "judge"]
    IN /\ At(s, "fix")
       /\ IF run[s].result = "noisy"
          THEN /\ Set(s, [counted EXCEPT !.pc = "done", !.status = "crashed"])
               /\ UNCHANGED <<ws, memory, excused, faults>>
          ELSE \E path \in FileToFix(run[s].plan), fix \in Suggestions :
               IF fix = Absent
               THEN /\ Set(s, given_up)
                    /\ UNCHANGED <<ws, memory, excused, faults>>
               ELSE /\ Write(s, path, fix, [counted EXCEPT !.pc = "test"], given_up)
                    /\ IF run'[s].pc = "test"
                       THEN Remember(s, rows, [lessons EXCEPT ![s].fix = @ + 1])
                       ELSE UNCHANGED <<memory, excused, faults>>
       /\ UNCHANGED <<opts, exists, prior, tested, paidFor, healed>>

-----------------------------------------------------------------------------
(* Acceptance, healing and the record *)

\* AcceptanceGate.evaluate: the criteria that fail; others are met or unverified.  The
\* tests' result and the review's findings are those of the build.
Failing(s) ==
    LET d == run[s].dir
        Met(c) == CASE c = "tests" -> Ok(run[s].result)
                    [] c = "parse" -> AllParse(d) /\ ~run[s].findings
                    [] c = "entry" -> ws[d]["main.py"] = "good"
                    [] OTHER       -> TRUE
    IN {c \in run[s].plan.criteria : ~Met(c)}

\* to_work_items: an item for every criterion that fails, with the criterion's text.
WorkItems(failed) == [i \in 1 .. Cardinality(failed) |-> "text"]

\* The status after the fix loop; acceptance is asked for only if the tests succeeded and
\* a team profile fits the request.  An error in it is swallowed.
Judge(s) ==
    /\ At(s, "judge")
    /\ LET status == IF Ok(run[s].result) THEN "passed"
                     ELSE IF run[s].result = "blocked" THEN "blocked" ELSE "failed"
           done   == [run[s] EXCEPT !.pc = "record", !.status = status]
           failed == Failing(s)
       IN IF opts[s].accept /\ status = "passed" /\ failed # {}
          THEN \/ Set(s, [done EXCEPT
                        !.status = IF opts[s].strict THEN "accept_failed" ELSE @,
                        !.pc = IF opts[s].heal THEN "heal" ELSE "record",
                        !.items = WorkItems(failed)])
               \/ Set(s, done)
          ELSE Set(s, done)
    /\ Local

\* The tester's content for every item, in which one for which it has no fix keeps its text.
Proposals(items) == [DOMAIN items -> Contents]

\* A mutant that does not record the attempt.
HealUncounted(s) ==
    /\ At(s, "heal")
    /\ \E items \in Proposals(run[s].items) :
          Set(s, [run[s] EXCEPT !.pc = "write", !.items = items, !.next = 1])
    /\ Local

\* One attempt of run_cycle: contents for all items first.
Heal(s) ==
    /\ At(s, "heal")
    /\ \E items \in Proposals(run[s].items) :
          Set(s, [run[s] EXCEPT !.pc = "write", !.heals = @ + 1, !.items = items, !.next = 1])
    /\ Local

\* A criterion names no file, so that every item is for the first of the build order.
HealTarget(plan) == BuildOrder(plan)[1]

\* GatedRepairFixer.execute writes the items one by one.
HealWrite(s) ==
    LET r == run[s]
        later == [r EXCEPT !.next = @ + 1,
                           !.pc = IF r.next = Len(r.items) THEN "verify" ELSE "write"]
    IN /\ At(s, "write")
       /\ Write(s, HealTarget(r.plan), r.items[r.next], later, later)
       /\ healed' = healed \cup {s}
       /\ UNCHANGED <<opts, exists, memory, prior, tested, paidFor, excused, faults>>

\* The budget is exhausted only by an attempt, so that a budget of 0 allows one.
HealVerify(s) ==
    /\ At(s, "verify")
    /\ Goto(s, IF Failing(s) = {} \/ run[s].heals >= MaxFix THEN "record" ELSE "heal")
    /\ Local

Record(s) ==
    /\ At(s, "record")
    /\ Ended(s, run[s].status)
    /\ Remember(s, rows \cup {Row(s, run[s].status)},
                IF Ok(run[s].result) THEN [lessons EXCEPT ![s].success = @ + 1] ELSE lessons)
    /\ UNCHANGED <<opts, exists, ws, prior, tested, paidFor, healed>>

\* Control-C, or the end of the process
Interrupt(s) ==
    /\ run[s].pc \notin {"start", "done"} /\ faults < MaxFaults
    /\ faults' = faults + 1
    /\ excused' = excused \cup {s}
    /\ Stop(s, "interrupted")
    /\ UNCHANGED <<opts, exists, ws, memory, prior, tested, paidFor, healed>>

Step(s) ==
    \/ Begin(s) \/ MakePlan(s) \/ ConfirmPlan(s) \/ Route(s) \/ ChooseDir(s) \/ MakeDir(s)
    \/ BuildFile(s) \/ EndBuild(s) \/ Review(s) \/ Test(s) \/ Fix(s)
    \/ Judge(s) \/ Heal(s) \/ HealWrite(s) \/ HealVerify(s) \/ Record(s)

Next == \E s \in Sessions : Step(s) \/ Interrupt(s)

\* A program that is not stopped goes on.
Spec == Init /\ [][Next]_vars /\ \A s \in Sessions : WF_vars(Step(s))

-----------------------------------------------------------------------------
(* Properties *)

Finished == {"passed", "failed", "blocked", "accept_failed"}
Stopped == {"empty", "error", "declined", "crashed", "interrupted"}

\* Types; a build writes into a folder only after it was made, and every count is bounded.
TypeOK ==
    /\ \A s \in Sessions : LET r == run[s] IN
          /\ r.pc \in {"start", "plan", "confirm", "route", "choose", "make", "build", "review",
                       "test", "fix", "judge", "heal", "write", "verify", "record", "done"}
          /\ r.plan \in Plans \cup {Absent} /\ r.engine \in Engines /\ r.dir \in 0 .. MaxDirs
          /\ r.status \in Finished \cup Stopped \cup {"none"}
          /\ r.attempts <= MaxFix
          /\ r.heals <= Max({MaxFix, 1})
          /\ r.built # {} => r.dir \in exists
    /\ ws \in [Dirs -> [Paths -> Contents \cup {Absent}]]
    /\ \A d \in Dirs \ exists : FilesIn(d) = {}
    /\ lessons \in [Sessions -> [fix : Nat, success : 0 .. 1]]

Shares(s) == \E other \in Sessions \ {s} : run[other].dir = run[s].dir

\* A build recorded as passed holds, file by file, what its tests last succeeded on: no fix,
\* refused write or stopped command lies between.  Only a repair after the tests, or
\* another build that chose the same folder at the same moment, can differ.
PassedWasTested ==
    \A row \in rows : row.status \in {"passed", "accept_failed"} =>
        /\ tested[row.session] # {}
        /\ row.session \in healed \/ Shares(row.session)
           \/ ws[row.dir] \in tested[row.session]

\* A run that is neither stopped nor refused by the memory leaves exactly one row with the
\* status that its exit code reports; it records a success only if its tests succeeded, and
\* no more fixes than it tried.
OutcomeIsRecorded ==
    \A s \in Sessions : LET mine == {row \in rows : row.session = s} IN
        /\ run[s].pc = "done" /\ s \notin excused =>
              mine = IF run[s].status \in Finished THEN {Row(s, run[s].status)} ELSE {}
        /\ run[s].exit = 0 => run[s].status = "passed"
        /\ lessons[s].success = 1 => tested[s] # {}
        /\ lessons[s].fix <= run[s].attempts

\* Somebody chose the engine: the command line, or a rule that fits the plan.
Authorised(s, engine) ==
    \/ opts[s].engine = engine
    \/ /\ opts[s].engine = "auto"
       /\ \E i \in Matching(run[s].plan, opts[s]) : Rules[i].engine = engine

\* A paid engine generates a file only if the command line named it, or if a rule that fits
\* the plan names it: "the safe fallback path can never carry paid authorization".
PaidIsAuthorised == \A s \in Sessions : \A engine \in paidFor[s] : Authorised(s, engine)

\* "never clobber a prior build": no step of a build changes a folder that existed when
\* the build began.
PriorBuildKept ==
    [][\A s \in Sessions, d \in Dirs :
          ws'[d] # ws[d] /\ run'[s] # run[s] => d \notin prior[s]]_vars

\* Every build ends, whatever the tests and the repairs give.
BuildEnds == \A s \in Sessions : <>(run[s].pc = "done")
==============================================================================
