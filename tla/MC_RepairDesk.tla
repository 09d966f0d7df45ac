---------------------------- MODULE MC_RepairDesk ----------------------------
(* Three files, three contents: tested; unparsable; one with an import. *)
EXTENDS RepairDesk

MCFiles == {"main", "test", "generated"}
MCEntryPoints == {"main"}
MCTestFiles == {"test"}
MCGenerated == {"generated"}
None == [m \in Markers |-> 0]
Tested == [marks |-> None, third |-> FALSE, parses |-> TRUE, frameworks |-> {"pytest"}]
Broken == [marks |-> [None EXCEPT !["fixme"] = 1, !["pass"] = 2], third |-> FALSE,
           parses |-> FALSE, frameworks |-> {}]
Importing == [marks |-> [None EXCEPT !["todo"] = 1, !["not_implemented"] = 1],
              third |-> TRUE, parses |-> TRUE, frameworks |-> {"unittest"}]
MCContents == {Tested, Broken, Importing}
MCInitialFiles ==
    {[f \in MCFiles |-> IF f = "main" THEN a ELSE IF f = "test" THEN b ELSE c] :
       a \in {Tested, Importing}, b \in {Tested}, c \in {Absent, Broken}}
    \cup {[f \in MCFiles |-> Absent]}
MCEvidence ==
    {[collected |-> 2, failed |-> 1, failing |-> {"t1"}, blocked |-> FALSE, error |-> TRUE],
     [collected |-> 2, failed |-> 2, failing |-> {}, blocked |-> FALSE, error |-> TRUE],
     [collected |-> 2, failed |-> 0, failing |-> {}, blocked |-> FALSE, error |-> FALSE],
     [collected |-> 0, failed |-> 1, failing |-> {"t2"}, blocked |-> FALSE, error |-> TRUE],
     [collected |-> 1, failed |-> 1, failing |-> {"t2"}, blocked |-> TRUE, error |-> TRUE]}
==============================================================================
