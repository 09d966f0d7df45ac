----------------------------- MODULE MC_BuildLoop -----------------------------
(* One build with every option by itself, and two of the same template at once. *)
EXTENDS BuildLoop

CONSTANTS s1, s2

File(path, given) == [path |-> path, given |-> given]
Drafted == [files |-> <<File("test_main.py", Absent), File("main.py", Absent)>>,
            order |-> <<"main.py">>, words |-> {"refactor"}, type |-> "library",
            language |-> "python", criteria |-> {"tests", "parse", "entry", "other"}]
Templated == [files |-> <<File("main.py", "poor")>>, order |-> <<>>, words |-> {},
              type |-> "cli", language |-> "other", criteria |-> {}]
MCPlans == {Drafted, Templated}

Line(engine, rules, default, gate, more) ==
    [engine |-> engine, rules |-> rules, default |-> default, gate |-> gate, plans |-> MCPlans,
     review |-> more # "none", accept |-> more \notin {"none", "review"},
     strict |-> more \in {"strict", "heal"}, heal |-> more = "heal"]

Alone == {Line("auto", FALSE, "claude", "all", "none"), Line("auto", TRUE, "local", "all", "review"),
          Line("auto", TRUE, "nobody", "all", "none"), Line("local", FALSE, "local", "all", "heal"),
          Line("claude", FALSE, "local", "confirm", "accept"),
          Line("deepseek", FALSE, "local", "watchdog", "strict")}
Plain == [Line("local", FALSE, "local", "all", "none") EXCEPT !.plans = {Templated}]
MCCommandLines == {(s1 :> o) @@ (s2 :> Absent) : o \in Alone} \cup {(s1 :> Plain) @@ (s2 :> Plain)}

\* config.py's rules; the least and most numbers of files are smaller.
MCRules == <<[name |-> "architecture-to-claude", engine |-> "claude", words |-> {"refactor"}],
             [name |-> "large-build-to-claude", engine |-> "claude", least |-> 3],
             [name |-> "small-python-to-deepseek", engine |-> "deepseek", language |-> "python", most |-> 2],
             [name |-> "simple-types-to-deepseek", engine |-> "deepseek", types |-> {"cli", "script", "sqlite"}]>>
===============================================================================
