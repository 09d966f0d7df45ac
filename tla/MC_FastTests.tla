------------------------------ MODULE MC_FastTests ------------------------------
(* A small repository: cli.py imports core.py, each has its test, one test is an *)
(* integration test, one is a safety gate and one is only mapped by the profile. *)
EXTENDS FastTests, TLC

CONSTANTS c1, c2
Terminals == Permutations({c1, c2})

MCFiles == <<"cli.py", "core.py", "test_cli.py", "test_core.py", "test_flow_workflow.py",
             "test_gate.py", "test_old_safety.py">>
MCTestFiles == ToSet(MCFiles) \ {"cli.py", "core.py"}
MCSlow == {"test_flow_workflow.py"}

None == [f \in ToSet(MCFiles) |-> {}]
Profiled ==
    [missing |-> {},
     named |-> [s \in {"cli.py", "core.py"} |->
                    IF s = "cli.py" THEN {"test_cli.py"} ELSE {"test_core.py"}],
     imports |-> ("cli.py" :> {"core.py"}) @@ ("test_cli.py" :> {"cli.py"})
                 @@ ("test_core.py" :> {"core.py"}) @@ ("test_flow_workflow.py" :> {"core.py"}) @@ None,
     mapped |-> ("core.py" :> {"test_core.py"}) @@ ("cli.py" :> {"test_flow_workflow.py"}) @@ None,
     feature |-> {"test_gate.py", "test_core.py"}, always |-> {"test_old_safety.py"},
     gated |-> {"test_gate.py", "test_old_safety.py"}, sensitive |-> {"cli.py"},
     integration |-> {"test_flow_workflow.py"},
     strict |-> <<"test_cli.py", "test_core.py", "test_gate.py">>, confidence |-> "high"]
Bare == [Profiled EXCEPT !.missing = {"test_gate.py"}, !.mapped = None, !.always = {},
                         !.strict = <<>>, !.confidence = "none", !.gated = {"test_gate.py"}]
MCLayouts == {Profiled, Bare}

Line(mode) == [mode |-> mode, feature |-> FALSE, base |-> FALSE, paths |-> <<>>, node |-> Absent]
\* One request of every kind: planning may compare with the base branch and name a
\* feature, a focused run may name a path that does not exist, or a test and a path twice.
Lines ==
    {Line("fast"), Line("full"), [Line("plan") EXCEPT !.base = TRUE, !.feature = TRUE],
     [Line("focused") EXCEPT !.paths = <<Absent, "test_gate.py">>],
     [Line("focused") EXCEPT !.paths = <<"test_core.py", "test_core.py">>, !.node = "test_cli.py"]}

\* core.py gets wrong, is deleted and is restored, and cli.py does not parse any more.
Changes ==
    {<<"core.py", "wrong">>, <<"core.py", "gone">>, <<"core.py", "ok">>, <<"cli.py", "broken">>}
=================================================================================
