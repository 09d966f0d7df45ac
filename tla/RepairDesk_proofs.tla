--------------------------- MODULE RepairDesk_proofs ---------------------------
(***************************************************************************)
(* Proofs about the commands that repair, propose and hand over, for any   *)
(* files, contents, evidence and limits, and whatever the user does        *)
(* between their steps.  RepairInv says what a repair may rely on at each  *)
(* of its places, ProposalInv what a proposal that waits to be saved was   *)
(* compared with, HandoffInv which prompts of a handoff are recorded, and  *)
(* TypeInv what a command has at each place.                               *)
(***************************************************************************)
EXTENDS RepairDesk, TLAPS

Repairing == {"planned", "checked", "written", "invalid"}

(***************************************************************************)
(* Repairs.                                                                *)
(***************************************************************************)
Shape ==
    /\ tree \in Tree
    /\ edits \in Nat

\* Unless the user interferes, the file is not there before the repair writes it, and is
\* the repair's afterwards.
RepairInv ==
    /\ Shape
    /\ "kind" \in DOMAIN cmd
    /\ cmd.kind = "repair" <=> pc \in Repairing
    /\ pc \in Repairing => {"before", "compiled"} \subseteq DOMAIN cmd /\ cmd.before.dep = "none"
    /\ pc = "checked" /\ ~raced => tree.dep = "none"
    /\ pc \in {"written", "invalid"} /\ ~raced => tree.dep = "autocorp"

\* Steps of the two properties.
Keeps ==
    edits' = edits =>
        /\ tree'.py = tree.py
        /\ tree.dep = "user" /\ tree'.dep # "user" => raced
True ==
    (cmd.kind = "repair" /\ pc' = "idle" /\ ~raced) =>
        CASE result' = "completed" ->
               /\ tree'.dep = "autocorp"
               /\ \A f \in Files : cmd.compiled[f] # Absent => cmd.compiled[f].parses
               /\ \A status \in Statuses : "dependencies" \notin PlanActions(tree', status)
          [] result' \in {"refused", "raised"} -> tree' = tree
          [] result' = "rolled_back" -> tree'.dep = cmd.before.dep \/ undone'
          [] OTHER -> TRUE

\* At first no command has begun.
LEMMA RepairInit == Init => RepairInv
BY RepositoryAssumption DEF Init, RepairInv, Shape, Tree, NoCommand, Repairing, Debris

\* The file is planned only where there is none.
LEMMA FilePlanned ==
    ASSUME NEW t, NEW status, "dependencies" \in PlanActions(t, status)
    PROVE  t.dep = "none"
BY DEF PlanActions, Markers, ActionIds

\* What may happen to the tree.
LEMMA TreeSteps ==
    ASSUME tree \in Tree
    PROVE  /\ \A dep \in {"none", "autocorp", "user"} :
                 /\ [tree EXCEPT !.dep = dep] \in Tree
                 /\ [tree EXCEPT !.dep = dep].dep = dep
                 /\ [tree EXCEPT !.dep = dep].py = tree.py
           /\ \A debris \in SUBSET Debris :
                 /\ [tree EXCEPT !.debris = debris] \in Tree
                 /\ [tree EXCEPT !.debris = debris].dep = tree.dep
                 /\ [tree EXCEPT !.debris = debris].py = tree.py
           /\ \A f \in Files, c \in Contents \cup {Absent} :
                 /\ [tree EXCEPT !.py[f] = c] \in Tree
                 /\ [tree EXCEPT !.py[f] = c].dep = tree.dep
BY DEF Tree

\* A command that begins.
LEMMA BeginKeeps ==
    ASSUME RepairInv, pc = "idle", UNCHANGED <<tree, edits>>, "kind" \in DOMAIN cmd',
           \/ pc' = "idle" /\ cmd' = NoCommand
           \/ pc' = "planned" /\ {"before", "compiled"} \subseteq DOMAIN cmd'
              /\ cmd'.kind = "repair" /\ cmd'.before = tree /\ tree.dep = "none"
           \/ pc' \in {"asked", "rendering"} /\ cmd'.kind # "repair"
    PROVE  RepairInv' /\ Keeps /\ True
BY DEF RepairInv, Shape, Repairing, NoCommand, Keeps, True

\* A step of the other commands.
LEMMA OtherKeeps ==
    ASSUME RepairInv, pc \notin Repairing \cup {"idle"}, UNCHANGED <<tree, edits>>,
           "kind" \in DOMAIN cmd', cmd'.kind # "repair", pc' \notin Repairing
    PROVE  RepairInv' /\ Keeps /\ True
BY DEF RepairInv, Shape, Repairing, NoCommand, Keeps, True

\* Every step of a command and every edit keeps the invariant, changes no file of the user, and
\* ends a repair with what it says.
LEMMA RepairStep == RepairInv /\ [Next]_vars => RepairInv' /\ Keeps /\ True
<1>. SUFFICES ASSUME RepairInv, [Next]_vars PROVE RepairInv' /\ Keeps /\ True
  OBVIOUS
<1>1. tree \in Tree /\ edits \in Nat
  BY DEF RepairInv, Shape
<1>. USE DEF world, desk
<1>2. CASE \E action \in ActionIds, approve \in BOOLEAN : Repair(action, approve)
  <2>1. /\ pc = "idle" /\ UNCHANGED <<tree, edits>> /\ "kind" \in DOMAIN cmd'
        /\ \/ pc' = "idle" /\ cmd' = NoCommand
           \/ pc' = "planned" /\ {"before", "compiled"} \subseteq DOMAIN cmd'
              /\ cmd'.kind = "repair" /\ cmd'.before = tree /\ tree.dep = "none"
    BY <1>2 DEF Repair, Begin, EndWith, CanExecute, NoCommand
  <2>. QED BY <2>1, BeginKeeps
<1>3. CASE \E action \in ActionIds : Propose(action)
  <2>1. /\ pc = "idle" /\ UNCHANGED <<tree, edits>> /\ "kind" \in DOMAIN cmd'
        /\ \/ pc' = "idle" /\ cmd' = NoCommand
           \/ pc' = "asked" /\ cmd'.kind # "repair"
    BY <1>3 DEF Propose, Begin, EndWith, NoCommand
  <2>. QED BY <2>1, BeginKeeps
<1>4. CASE \E report \in Evidence, agents \in {{"codex"}, {"claude"}, Agents} : Handoff(report, agents)
  <2>1. /\ pc = "idle" /\ UNCHANGED <<tree, edits>> /\ "kind" \in DOMAIN cmd'
        /\ \/ pc' = "idle" /\ cmd' = NoCommand
           \/ pc' = "rendering" /\ cmd'.kind # "repair"
    BY <1>4 DEF Handoff, Begin, EndWith, NoCommand
  <2>. QED BY <2>1, BeginKeeps
<1>5. CASE Edit
  <2>1. tree' \in Tree /\ edits' \in Nat /\ edits' # edits /\ pc' = pc /\ cmd' = cmd
    <3>1. {} \in SUBSET Debris
      OBVIOUS
    <3>2. edits' = edits + 1 /\ pc' = pc /\ cmd' = cmd
      BY <1>5 DEF Edit
    <3>3. tree' \in Tree
      BY <1>1, <1>5, <3>1, TreeSteps DEF Edit
    <3>. QED BY <1>1, <3>2, <3>3
  <2>2. raced => raced'
    BY <1>5 DEF Edit
  <2>3. pc \in {"checked", "written", "invalid"} /\ ~raced' => tree'.dep = tree.dep
    BY <1>1, <1>5, TreeSteps DEF Edit
  <2>4. pc # "idle" \/ cmd.kind # "repair"
    BY DEF RepairInv, Repairing
  <2>. QED BY <2>1, <2>2, <2>3, <2>4 DEF RepairInv, Shape, Keeps, True, Repairing
<1>6. CASE SafetyChecks
  BY <1>6 DEF SafetyChecks, EndWith, NoCommand, RepairInv, Shape, Repairing, Keeps, True
<1>7. CASE WriteRepair
  <2>1. CASE tree' = [tree EXCEPT !.dep = "autocorp"] /\ pc' = "written" /\ UNCHANGED <<cmd, result>>
    BY <1>1, <1>7, <2>1, TreeSteps DEF WriteRepair, RepairInv, Shape, Repairing, Keeps, True
  <2>2. CASE /\ EndWith("rolled_back")
             /\ \E left \in {{}, {"temp"}} : tree' = [tree EXCEPT !.debris = @ \cup left]
    <3>1. tree' \in Tree /\ tree'.dep = tree.dep /\ tree'.py = tree.py
      BY <1>1, <2>2 DEF Debris, Tree
    <3>. QED BY <1>1, <1>7, <2>2, <3>1
             DEF WriteRepair, EndWith, NoCommand, RepairInv, Shape, Repairing, Keeps, True
  <2>3. CASE EndWith("raised") /\ UNCHANGED tree
    BY <1>7, <2>3 DEF WriteRepair, EndWith, NoCommand, RepairInv, Shape, Repairing, Keeps, True
  <2>. QED BY <1>7, <2>1, <2>2, <2>3 DEF WriteRepair
<1>8. CASE \E f \in Files : Compile(f)
  <2>1. tree' \in Tree /\ tree'.dep = tree.dep /\ tree'.py = tree.py
    BY <1>1, <1>8 DEF Compile, Debris, Tree
  <2>2. PICK new : cmd' = [cmd EXCEPT !.compiled = new]
    BY <1>8 DEF Compile
  <2>3. pc = "written" /\ pc' = "written" /\ UNCHANGED <<raced, edits>>
    BY <1>8 DEF Compile
  <2>4. /\ DOMAIN cmd' = DOMAIN cmd
        /\ cmd'.kind = cmd.kind /\ cmd'.before = cmd.before
    BY <2>2, <2>3 DEF RepairInv, Repairing
  <2>. QED BY <1>1, <2>1, <2>3, <2>4 DEF RepairInv, Shape, Repairing, Keeps, True
<1>9. CASE Validate
  <2>1. CASE /\ \A f \in Files : cmd.compiled[f] # Absent => cmd.compiled[f].parses
             /\ EndWith("completed")
    <3>1. UNCHANGED tree /\ (~raced => tree'.dep = "autocorp")
      BY <1>9 DEF Validate, RepairInv
    <3>2. tree'.dep = "autocorp" => \A status : "dependencies" \notin PlanActions(tree', status)
      BY FilePlanned
    <3>3. True
      BY <2>1, <3>1, <3>2 DEF True, EndWith
    <3>. QED BY <1>1, <1>9, <2>1, <3>1, <3>3
             DEF Validate, EndWith, NoCommand, RepairInv, Shape, Repairing, Keeps
  <2>2. CASE pc' = "invalid" /\ UNCHANGED <<cmd, result>>
    BY <1>1, <1>9, <2>2 DEF Validate, RepairInv, Shape, Repairing, Keeps, True
  <2>. QED BY <1>9, <2>1, <2>2 DEF Validate
<1>10. CASE Rollback
  <2>1. /\ tree' \in Tree /\ tree'.py = tree.py
        /\ tree'.dep = "none" \/ (tree' = tree /\ undone')
    BY <1>1, <1>10, TreeSteps DEF Rollback
  <2>. QED BY <1>1, <1>10, <2>1
           DEF Rollback, EndWith, NoCommand, RepairInv, Shape, Repairing, Keeps, True
<1>11. CASE Answer \/ \E overwrite \in BOOLEAN : SaveProposal(overwrite)
  <2>1. /\ pc \in {"asked", "proposed"} /\ pc' \in {"idle", "proposed"}
        /\ "kind" \in DOMAIN cmd' /\ cmd'.kind # "repair"
        /\ UNCHANGED <<tree, edits>>
    BY <1>11 DEF Answer, SaveProposal, EndWith, NoCommand
  <2>. QED BY <2>1, OtherKeeps DEF Repairing
<1>12. CASE WritePrompt \/ WriteProvenance \/ RecordHandoff \/ Deliver
  <2>1. /\ pc \in {"rendering", "prompted", "proven"}
        /\ pc' \in {"idle", "prompted", "proven", "rendering"}
        /\ UNCHANGED <<tree, edits>>
    BY <1>12 DEF WritePrompt, WriteProvenance, RecordHandoff, Deliver, EndWith
  <2>2. "kind" \in DOMAIN cmd /\ cmd.kind # "repair"
    BY <2>1 DEF RepairInv, Repairing
  <2>3. \A left, made : LET new == [cmd EXCEPT !.left = left, !.made = made]
                        IN "kind" \in DOMAIN new /\ new.kind = cmd.kind
    BY <2>2
  <2>4. \/ cmd' = NoCommand \/ cmd' = cmd
        \/ \E left, made : cmd' = [cmd EXCEPT !.left = left, !.made = made]
    BY <1>12 DEF WritePrompt, WriteProvenance, RecordHandoff, Deliver, EndWith
  <2>5. "kind" \in DOMAIN cmd' /\ cmd'.kind # "repair"
    <3>1. CASE cmd' = NoCommand \/ cmd' = cmd
      BY <2>2, <3>1 DEF NoCommand
    <3>2. ASSUME NEW left, NEW made, cmd' = [cmd EXCEPT !.left = left, !.made = made]
          PROVE  "kind" \in DOMAIN cmd' /\ cmd'.kind # "repair"
      BY <2>2, <3>2
    <3>. QED BY <2>4, <3>1, <3>2
  <2>. QED BY <2>1, <2>5, OtherKeeps DEF Repairing
<1>13. CASE Tick
  BY <1>13 DEF Tick, RepairInv, Shape, Repairing, Keeps, True
<1>14. CASE Kill
  <2>1. tree' \in Tree /\ tree'.dep = tree.dep /\ tree'.py = tree.py
    BY <1>1, <1>14, TreeSteps DEF Kill, Debris, Tree
  <2>. QED BY <1>1, <1>14, <2>1
           DEF Kill, EndWith, NoCommand, RepairInv, Shape, Repairing, Keeps, True
<1>15. CASE UNCHANGED vars
  BY <1>15 DEF vars, RepairInv, Shape, Repairing, Keeps, True
<1>. QED BY <1>2, <1>3, <1>4, <1>5, <1>6, <1>7, <1>8, <1>10, <1>11, <1>12, <1>13, <1>14, <1>15,
         <1>9 DEF Next, User, Command

\* No command changes a Python file, and the user's dependency file goes only if he wrote
\* it past the checks, whatever he edits and wherever the command is killed.
THEOREM UserFilesKept == Spec => UserFilesAreKept
BY RepairInit, RepairStep, PTL DEF Spec, UserFilesAreKept, Keeps

\* What a repair says of the repository it leaves is so, whichever of its steps fails.
THEOREM OutcomeTrue == Spec => OutcomeIsTrue
BY RepairInit, RepairStep, PTL DEF Spec, OutcomeIsTrue, True

(***************************************************************************)
(* Proposals.                                                              *)
(***************************************************************************)
\* The files of a proposal that was validated.
Compared(proposal) ==
    \A file \in proposal.files : file.path # NoPath =>
        /\ file.path \in DOMAIN proposal.shown
        /\ file.hash # NoHash => proposal.seen[file.path] \in {Absent, proposal.shown[file.path]}

ProposalInv ==
    /\ pc = "asked" => DOMAIN cmd.shown \subseteq Files
    /\ pc = "proposed" => Compared(cmd)
    /\ saved # Absent => Compared(saved)

\* At first there is no proposal.
LEMMA ProposalInit == Init => ProposalInv
BY DEF Init, ProposalInv

\* A valid file is compared with what the prompt showed.
LEMMA ValidIsCompared ==
    ASSUME ProposalInv, Shape, pc = "asked", NEW file \in Proposed(cmd.shown), ValidFile(file),
           file.path # NoPath
    PROVE  /\ file.path \in DOMAIN cmd.shown
           /\ file.hash # NoHash => tree.py[file.path] \in {Absent, cmd.shown[file.path]}
<1>1. file.path \in DOMAIN cmd.shown /\ file.path \in Files
  BY DEF ValidFile, ProposalInv
<1>2. file.hash # NoHash => file.hash = WrongHash \/ file.hash = cmd.shown[file.path]
  BY DEF Proposed
<1>3. tree.py[file.path] # WrongHash
  BY <1>1, RepositoryAssumption DEF Shape, Tree
<1>. QED BY <1>1, <1>2, <1>3 DEF ValidFile

\* From the prompt to the save, every step keeps what the answer was compared with.
LEMMA ProposalStep == RepairInv /\ ProposalInv /\ [Next]_vars => ProposalInv'
<1>. SUFFICES ASSUME RepairInv, ProposalInv, [Next]_vars PROVE ProposalInv'
  OBVIOUS
<1>. USE DEF world, desk
<1>1. CASE \E action \in ActionIds : Propose(action)
  <2>1. pc' = "idle" \/ (pc' = "asked" /\ DOMAIN cmd'.shown \subseteq Files)
    BY <1>1 DEF Propose, EndWith, Restrict, Scanned
  <2>. QED BY <1>1, <2>1 DEF Propose, ProposalInv
<1>2. CASE Answer
  <2>1. CASE pc' = "idle"
    BY <1>2, <2>1 DEF Answer, ProposalInv
  <2>2. CASE pc' # "idle"
    <3>1. PICK files \in {{}} \cup {{x} : x \in Proposed(cmd.shown)}, safe \in BOOLEAN :
             /\ \A x \in files : ValidFile(x)
             /\ pc' = "proposed"
             /\ cmd' = [kind |-> "propose", shown |-> cmd.shown, files |-> files,
                        safe |-> safe, seen |-> tree.py]
      BY <1>2, <2>2 DEF Answer, EndWith
    <3>2. pc = "asked" /\ UNCHANGED saved
      BY <1>2 DEF Answer
    <3>3. \A x \in files : x \in Proposed(cmd.shown)
      OBVIOUS
    <3>4. Compared(cmd')
      BY <3>1, <3>2, <3>3, ValidIsCompared DEF Compared, RepairInv
    <3>. QED BY <3>1, <3>2, <3>4 DEF ProposalInv, Compared
  <2>. QED BY <2>1, <2>2
<1>3. CASE \E overwrite \in BOOLEAN : SaveProposal(overwrite)
  BY <1>3 DEF SaveProposal, EndWith, ProposalInv, Compared
<1>4. CASE \E action \in ActionIds, approve \in BOOLEAN : Repair(action, approve)
  BY <1>4 DEF Repair, EndWith, ProposalInv, Compared
<1>5. CASE \E report \in Evidence, agents \in {{"codex"}, {"claude"}, Agents} : Handoff(report, agents)
  BY <1>5 DEF Handoff, EndWith, ProposalInv, Compared
<1>6. CASE SafetyChecks \/ WriteRepair \/ (\E f \in Files : Compile(f)) \/ Validate \/ Rollback
  BY <1>6 DEF SafetyChecks, WriteRepair, Compile, Validate, Rollback, EndWith, ProposalInv, Compared
<1>7. CASE WritePrompt \/ WriteProvenance \/ RecordHandoff \/ Deliver
  BY <1>7 DEF WritePrompt, WriteProvenance, RecordHandoff, Deliver, EndWith, ProposalInv, Compared
<1>8. CASE Edit \/ Tick \/ UNCHANGED vars
  BY <1>8 DEF Edit, Tick, vars, ProposalInv, Compared
<1>9. CASE Kill
  BY <1>9 DEF Kill, EndWith, ProposalInv, Compared
<1>. QED BY <1>1, <1>2, <1>3, <1>4, <1>5, <1>6, <1>7, <1>8, <1>9 DEF Next, User, Command

\* The paths of a saved proposal are those of files the prompt showed, and a hash it claims for
\* one was the file's when the answer was validated, whatever the user writes between prompt
\* and answer.
THEOREM ProposalMatches == Spec => []ProposalMatchesPrompt
<1>1. ProposalInv => ProposalMatchesPrompt
  BY DEF ProposalInv, Compared, ProposalMatchesPrompt
<1>. QED BY <1>1, RepairInit, RepairStep, ProposalInit, ProposalStep, PTL DEF Spec

(***************************************************************************)
(* Handoffs.                                                               *)
(***************************************************************************)
Handing == {"rendering", "prompted", "proven"}

\* What a handoff has computed.
HandingInv ==
    /\ {"kind", "report", "run", "left", "made"} \subseteq DOMAIN cmd
    /\ cmd.report \in Report /\ Classify(cmd.report) = "broken"
    /\ cmd.made \in Seq(PromptKeys)

\* The prompt at work is the last one; the others are recorded.
AtWork ==
    /\ cmd.made # <<>>
    /\ cmd.made[Len(cmd.made)] \in DOMAIN prompts
    /\ prompts[cmd.made[Len(cmd.made)]].run = cmd.run
    /\ \A i \in DOMAIN cmd.made : cmd.made[i] \in ledger \/ i = Len(cmd.made)

HandoffInv ==
    /\ clock \in 0 .. MaxSeconds
    /\ HandoffIsProven
    /\ \A k \in DOMAIN provenance : "digest" \in DOMAIN provenance[k]
    /\ pc \in Handing => HandingInv
    /\ pc \in {"prompted", "proven"} => AtWork
    /\ pc = "proven" => cmd.made[Len(cmd.made)] \in DOMAIN provenance

\* At first there is no prompt.
LEMMA HandoffInit == Init => HandoffInv
BY RepositoryAssumption DEF Init, HandoffInv, HandoffIsProven, Handing

\* Broken evidence names a test that fails.
LEMMA BrokenNames ==
    ASSUME NEW report \in Report, Classify(report) = "broken"
    PROVE  /\ report.collected > 0 /\ report.failed > 0 /\ ~report.blocked
           /\ report.failing \subseteq FailingTests
           /\ (CHOOSE t \in report.failing : TRUE) \in report.failing
BY DEF Classify, Report

\* Every step of a handoff, of another command and of the clock keeps prompts proven.
LEMMA HandoffStep == HandoffInv /\ [Next]_vars => HandoffInv'
<1>. SUFFICES ASSUME HandoffInv, [Next]_vars PROVE HandoffInv'
  OBVIOUS
<1>. USE DEF world, desk
<1>1. ASSUME UNCHANGED <<prompts, provenance, ledger, clock>>, pc' \notin Handing
      PROVE  HandoffInv'
  BY <1>1 DEF HandoffInv, HandoffIsProven, Handing
<1>2. ASSUME UNCHANGED <<prompts, provenance, ledger, pc, cmd>>, clock' \in 0 .. MaxSeconds
      PROVE  HandoffInv'
  BY <1>2 DEF HandoffInv, HandoffIsProven, HandingInv, AtWork
<1>3. CASE WritePrompt
  <2>1. CASE pc' = "idle"
    BY <1>1, <1>3, <2>1 DEF WritePrompt, Handing
  <2>2. CASE pc' # "idle"
    <3>1. PICK agent \in Agents :
            LET key == PromptKey(agent)
            IN  /\ key \notin DOMAIN prompts
                /\ prompts' = [k \in DOMAIN prompts \cup {key} |->
                                IF k = key THEN [report |-> cmd.report, run |-> cmd.run]
                                ELSE prompts[k]]
                /\ pc' = "prompted"
                /\ cmd' = [cmd EXCEPT !.left = @ \ {agent}, !.made = Append(@, key)]
      BY <1>3, <2>2 DEF WritePrompt, EndWith, Agents
    <3>. DEFINE key == PromptKey(agent)
    <3>2. pc = "rendering" /\ UNCHANGED <<provenance, ledger, clock>>
      BY <1>3 DEF WritePrompt
    <3>3. /\ HandingInv /\ clock \in 0 .. MaxSeconds
          /\ Range(cmd.made) \subseteq ledger
      BY <3>2 DEF HandoffInv, HandoffIsProven, Handing
    <3>4. /\ key \in PromptKeys /\ key[2] \in cmd.report.failing
          /\ cmd.report.collected > 0 /\ cmd.report.failed > 0 /\ ~cmd.report.blocked
      BY <3>3, BrokenNames DEF HandingInv, PromptKey, PromptKeys
    <3>. HIDE DEF key
    <3>5. /\ {"kind", "report", "run", "left", "made"} \subseteq DOMAIN cmd'
          /\ cmd'.report = cmd.report /\ cmd'.run = cmd.run
          /\ cmd'.made = Append(cmd.made, key)
      BY <3>1, <3>3 DEF HandingInv, key
    <3>6. /\ cmd'.made \in Seq(PromptKeys) /\ cmd'.made # <<>>
          /\ cmd'.made[Len(cmd'.made)] = key
          /\ \A i \in DOMAIN cmd'.made : cmd'.made[i] \in ledger \/ i = Len(cmd'.made)
      <4>1. cmd.made \in Seq(PromptKeys) /\ cmd'.made = Append(cmd.made, key)
        BY <3>3, <3>5 DEF HandingInv
      <4>2. /\ cmd'.made \in Seq(PromptKeys)
            /\ Len(cmd'.made) = Len(cmd.made) + 1
            /\ cmd'.made[Len(cmd.made) + 1] = key
            /\ \A i \in 1 .. Len(cmd.made) : cmd'.made[i] = cmd.made[i]
            /\ DOMAIN cmd.made = 1 .. Len(cmd.made) /\ Len(cmd.made) \in Nat
            /\ DOMAIN cmd'.made = 1 .. Len(cmd.made) + 1
        BY <3>4, <4>1
      <4>3. \A i \in 1 .. Len(cmd.made) : cmd.made[i] \in ledger
        BY <3>3, <4>2 DEF Range
      <4>4. cmd'.made # <<>>
        BY <4>2
      <4>5. \A i \in 1 .. Len(cmd.made) + 1 : i \in 1 .. Len(cmd.made) \/ i = Len(cmd.made) + 1
        BY <4>2
      <4>. QED BY <4>2, <4>3, <4>4, <4>5
    <3>7. /\ DOMAIN prompts' = DOMAIN prompts \cup {key}
          /\ prompts'[key] = [report |-> cmd.report, run |-> cmd.run]
          /\ \A k \in DOMAIN prompts : prompts'[k] = prompts[k]
          /\ pc' = "prompted"
      BY <3>1 DEF key
    <3>8. HandoffIsProven'
      BY <3>2, <3>4, <3>7 DEF HandoffInv, HandoffIsProven
    <3>9. HandingInv'
      BY <3>3, <3>5, <3>6 DEF HandingInv
    <3>10. AtWork'
      BY <3>2, <3>5, <3>6, <3>7 DEF AtWork
    <3>. QED BY <3>2, <3>7, <3>8, <3>9, <3>10 DEF HandoffInv, Handing
  <2>. QED BY <2>1, <2>2
<1>4. CASE WriteProvenance
  <2>1. CASE pc' = "idle"
    BY <1>1, <1>4, <2>1 DEF WriteProvenance, Handing
  <2>2. CASE pc' # "idle"
    <3>. DEFINE key == cmd.made[Len(cmd.made)]
    <3>1. /\ pc = "prompted" /\ pc' = "proven"
          /\ UNCHANGED <<cmd, prompts, ledger, clock>>
          /\ provenance' = [k \in DOMAIN provenance \cup {key} |->
                              IF k = key THEN [digest |-> cmd.run, opened |-> ""]
                              ELSE provenance[k]]
      BY <1>4, <2>2 DEF WriteProvenance, EndWith, Last
    <3>2. /\ HandingInv /\ AtWork
          /\ key \in DOMAIN prompts /\ prompts[key].run = cmd.run
      BY <3>1 DEF HandoffInv, Handing, AtWork
    <3>. HIDE DEF key
    <3>3. /\ DOMAIN provenance' = DOMAIN provenance \cup {key}
          /\ provenance'[key] = [digest |-> cmd.run, opened |-> ""]
          /\ \A k \in DOMAIN provenance : k # key => provenance'[k] = provenance[k]
      BY <3>1
    <3>4. \A k \in DOMAIN provenance' : /\ "digest" \in DOMAIN provenance'[k]
                                       /\ k \in DOMAIN prompts
                                       /\ provenance'[k].digest = prompts[k].run
      <4>1. /\ "digest" \in DOMAIN provenance'[key]
            /\ provenance'[key].digest = cmd.run
        <5>1. \A d : LET p == [digest |-> d, opened |-> ""]
                     IN  "digest" \in DOMAIN p /\ p.digest = d
          OBVIOUS
        <5>2. provenance'[key] = [digest |-> cmd.run, opened |-> ""]
          BY <3>3
        <5>. QED BY <5>1, <5>2
      <4>2. \A k \in DOMAIN provenance : k # key =>
               /\ "digest" \in DOMAIN provenance'[k]
               /\ k \in DOMAIN prompts
               /\ provenance'[k].digest = prompts[k].run
        BY <3>3 DEF HandoffInv, HandoffIsProven
      <4>. QED BY <3>2, <3>3, <4>1, <4>2
    <3>5. HandoffIsProven'
      BY <3>1, <3>3, <3>4 DEF HandoffInv, HandoffIsProven
    <3>6. HandingInv' /\ AtWork'
      BY <3>1, <3>2 DEF HandingInv, AtWork
    <3>7. cmd'.made[Len(cmd'.made)] \in DOMAIN provenance'
      BY <3>1, <3>3 DEF key
    <3>. QED BY <3>1, <3>4, <3>5, <3>6, <3>7 DEF HandoffInv
  <2>. QED BY <2>1, <2>2
<1>5. CASE RecordHandoff
  <2>1. CASE pc' = "idle"
    BY <1>1, <1>5, <2>1 DEF RecordHandoff, Handing
  <2>2. CASE pc' # "idle"
    <3>1. /\ pc = "proven" /\ pc' = "rendering"
          /\ UNCHANGED <<cmd, prompts, provenance, clock>>
          /\ ledger' = ledger \cup {cmd.made[Len(cmd.made)]}
      BY <1>5, <2>2 DEF RecordHandoff, EndWith, Last
    <3>2. /\ HandingInv /\ AtWork
          /\ cmd.made[Len(cmd.made)] \in DOMAIN provenance
      BY <3>1 DEF HandoffInv, Handing
    <3>3. Range(cmd.made) \subseteq ledger'
      BY <3>1, <3>2 DEF AtWork, Range
    <3>. QED BY <3>1, <3>2, <3>3 DEF HandoffInv, HandoffIsProven, HandingInv
  <2>. QED BY <2>1, <2>2
<1>6. CASE Deliver
  <2>1. PICK detail \in {"", "opened", "not opened"} :
           provenance' = [k \in DOMAIN provenance |->
                          IF k \in Range(cmd.made) THEN [provenance[k] EXCEPT !.opened = detail]
                          ELSE provenance[k]]
    BY <1>6 DEF Deliver
  <2>2. UNCHANGED <<prompts, ledger, clock>> /\ pc' \notin Handing
    BY <1>6 DEF Deliver, EndWith, Handing
  <2>3. DOMAIN provenance' = DOMAIN provenance
    BY <2>1
  <2>4. \A k \in DOMAIN provenance : /\ "digest" \in DOMAIN provenance'[k]
                                    /\ provenance'[k].digest = provenance[k].digest
    BY <2>1 DEF HandoffInv
  <2>. QED BY <2>2, <2>3, <2>4 DEF HandoffInv, HandoffIsProven, Handing
<1>7. CASE \E report \in Evidence, agents \in {{"codex"}, {"claude"}, Agents} : Handoff(report, agents)
  <2>1. CASE pc' \notin Handing
    BY <1>1, <1>7, <2>1 DEF Handoff
  <2>2. CASE pc' \in Handing
    <3>1. PICK report \in Evidence, agents \in {{"codex"}, {"claude"}, Agents} :
            /\ Classify(report) = "broken" /\ pc' = "rendering"
            /\ cmd' = [kind |-> "handoff", report |-> report, run |-> commands,
                       left |-> agents, made |-> <<>>]
      BY <1>7, <2>2 DEF Handoff, EndWith, Handing
    <3>2. UNCHANGED <<prompts, provenance, ledger, clock>>
      BY <1>7 DEF Handoff
    <3>3. HandingInv'
      BY <3>1, RepositoryAssumption DEF HandingInv
    <3>4. Range(cmd'.made) \subseteq ledger'
      BY <3>1 DEF Range
    <3>. QED BY <3>1, <3>2, <3>3, <3>4 DEF HandoffInv, HandoffIsProven
  <2>. QED BY <2>1, <2>2
<1>8. CASE Tick
  <2>1. clock' \in 0 .. MaxSeconds
    BY <1>8, RepositoryAssumption DEF Tick, HandoffInv
  <2>. QED BY <1>2, <1>8, <2>1 DEF Tick
<1>9. CASE Edit \/ UNCHANGED vars
  BY <1>2, <1>9 DEF Edit, vars, HandoffInv
<1>10. CASE \/ \E action \in ActionIds, approve \in BOOLEAN : Repair(action, approve)
            \/ \E action \in ActionIds : Propose(action)
            \/ Kill
  BY <1>1, <1>10 DEF Repair, Propose, Kill, EndWith, Handing
<1>11. CASE \/ SafetyChecks \/ WriteRepair \/ (\E f \in Files : Compile(f)) \/ Validate \/ Rollback
            \/ Answer \/ \E overwrite \in BOOLEAN : SaveProposal(overwrite)
  <2>1. pc' \notin Handing
    BY <1>11 DEF SafetyChecks, WriteRepair, Compile, Validate, Rollback, Answer, SaveProposal, EndWith, Handing
  <2>. QED BY <1>1, <1>11, <2>1 DEF SafetyChecks, WriteRepair, Compile, Validate, Rollback, Answer, SaveProposal
<1>. QED BY <1>3, <1>4, <1>5, <1>6, <1>7, <1>8, <1>9, <1>10, <1>11 DEF Next, User, Command

\* Every prompt is about a test that fails, and what is said of it is said of that prompt,
\* wherever a handoff stops and however many were made before.
THEOREM HandoffProven == Spec => []HandoffIsProven
<1>1. HandoffInv => HandoffIsProven
  BY DEF HandoffInv
<1>. QED BY <1>1, HandoffInit, HandoffStep, PTL DEF Spec

(***************************************************************************)
(* Types.                                                                  *)
(***************************************************************************)
Places == {"idle", "planned", "checked", "written", "invalid", "asked", "proposed",
           "rendering", "prompted", "proven"}
KindAt(place) ==
    CASE place = "idle" -> "none"
      [] place \in {"planned", "checked", "written", "invalid"} -> "repair"
      [] place \in {"asked", "proposed"} -> "propose"
      [] OTHER -> "handoff"

\* The command is where its data says, and the rest of the desk.
CommandTyped == pc \in Places /\ "kind" \in DOMAIN cmd /\ cmd.kind = KindAt(pc)
DeskTyped == DOMAIN prompts \subseteq PromptKeys /\ ledger \subseteq PromptKeys
WorldTyped ==
    /\ committed \in [tree : Tree, prompts : SUBSET PromptKeys]
    /\ raced \in BOOLEAN /\ undone \in BOOLEAN
    /\ edits \in 0 .. MaxEdits /\ commands \in 0 .. MaxCommands /\ kills \in 0 .. MaxKills

TypeInv == RepairInv /\ HandoffInv /\ CommandTyped /\ DeskTyped /\ WorldTyped

\* The types hold at first.
LEMMA TypeInit == Init => TypeInv
<1>. SUFFICES ASSUME Init PROVE TypeInv
  OBVIOUS
<1>1. tree \in Tree
  BY RepairInit DEF RepairInv, Shape
<1>2. CommandTyped /\ DeskTyped
  BY DEF Init, CommandTyped, DeskTyped, Places, KindAt, NoCommand
<1>3. WorldTyped
  <2>1. committed \in [tree : Tree, prompts : SUBSET PromptKeys]
    BY <1>1 DEF Init
  <2>2. /\ raced \in BOOLEAN /\ undone \in BOOLEAN
        /\ edits = 0 /\ commands = 0 /\ kills = 0
    BY DEF Init
  <2>3. 0 \in 0 .. MaxEdits /\ 0 \in 0 .. MaxCommands /\ 0 \in 0 .. MaxKills
    BY RepositoryAssumption
  <2>. QED BY <2>1, <2>2, <2>3 DEF WorldTyped
<1>. QED BY <1>2, <1>3, RepairInit, HandoffInit DEF TypeInv

\* A command ends, or goes on to a place of its kind (src/autocorp.py cmd_repair, cmd_propose_repair,
\* cmd_repair_handoff).
LEMMA CommandStep ==
    ASSUME TypeInv, [Next]_vars
    PROVE  CommandTyped'
<1>1. ASSUME NEW status, EndWith(status) PROVE CommandTyped'
  BY <1>1 DEF EndWith, NoCommand, CommandTyped, Places, KindAt
<1>2. ASSUME UNCHANGED <<pc, cmd>> PROVE CommandTyped'
  BY <1>2 DEF TypeInv, CommandTyped
<1>3. CASE \E action \in ActionIds, approve \in BOOLEAN : Repair(action, approve)
  <2>1. \/ \E status : EndWith(status)
        \/ pc' = "planned" /\ "kind" \in DOMAIN cmd' /\ cmd'.kind = "repair"
    BY <1>3 DEF Repair
  <2>. QED BY <1>1, <2>1 DEF CommandTyped, Places, KindAt
<1>4. CASE \E action \in ActionIds : Propose(action)
  <2>1. \/ \E status : EndWith(status)
        \/ pc' = "asked" /\ "kind" \in DOMAIN cmd' /\ cmd'.kind = "propose"
    BY <1>4 DEF Propose
  <2>. QED BY <1>1, <2>1 DEF CommandTyped, Places, KindAt
<1>5. CASE \E report \in Evidence, agents \in {{"codex"}, {"claude"}, Agents} : Handoff(report, agents)
  <2>1. \/ \E status : EndWith(status)
        \/ pc' = "rendering" /\ "kind" \in DOMAIN cmd' /\ cmd'.kind = "handoff"
    BY <1>5 DEF Handoff
  <2>. QED BY <1>1, <2>1 DEF CommandTyped, Places, KindAt
<1>6. CASE Edit \/ Tick \/ UNCHANGED vars
  BY <1>2, <1>6 DEF Edit, Tick, vars
<1>7. CASE SafetyChecks \/ WriteRepair \/ (\E f \in Files : Compile(f)) \/ Validate \/ Rollback
  <2>1. CASE \E f \in Files : Compile(f)
    <3>1. PICK new : cmd' = [cmd EXCEPT !.compiled = new]
      BY <2>1 DEF Compile
    <3>2. UNCHANGED pc
      BY <2>1 DEF Compile
    <3>. QED BY <3>1, <3>2 DEF TypeInv, CommandTyped
  <2>2. CASE SafetyChecks \/ WriteRepair \/ Validate \/ Rollback
    <3>1. \/ \E status : EndWith(status)
          \/ pc \in Repairing /\ pc' \in Repairing /\ UNCHANGED cmd
      BY <2>2 DEF SafetyChecks, WriteRepair, Validate, Rollback, Repairing
    <3>. QED BY <1>1, <3>1 DEF TypeInv, CommandTyped, Places, KindAt, Repairing
  <2>. QED BY <1>7, <2>1, <2>2
<1>8. CASE Answer \/ \E overwrite \in BOOLEAN : SaveProposal(overwrite)
  <2>1. \/ \E status : EndWith(status)
        \/ pc' = "proposed" /\ "kind" \in DOMAIN cmd' /\ cmd'.kind = "propose"
    BY <1>8 DEF Answer, SaveProposal
  <2>. QED BY <1>1, <2>1 DEF CommandTyped, Places, KindAt
<1>9. CASE WritePrompt \/ WriteProvenance \/ RecordHandoff \/ Deliver
  <2>1. \/ \E status : EndWith(status)
        \/ pc \in Handing /\ pc' \in Handing /\ "kind" \in DOMAIN cmd' /\ cmd'.kind = cmd.kind
    BY <1>9 DEF WritePrompt, WriteProvenance, RecordHandoff, Deliver, Handing, TypeInv, CommandTyped
  <2>. QED BY <1>1, <2>1 DEF TypeInv, CommandTyped, Places, KindAt, Handing
<1>10. CASE Kill
  BY <1>1, <1>10 DEF Kill
<1>. QED BY <1>3, <1>4, <1>5, <1>6, <1>7, <1>8, <1>9, <1>10 DEF Next, User, Command

\* A prompt is named by the second, the defect and the agent (generate_handoff).
LEMMA PromptKeyed ==
    ASSUME TypeInv, pc = "rendering", NEW agent \in Agents
    PROVE  PromptKey(agent) \in PromptKeys
<1>1. clock \in 0 .. MaxSeconds /\ HandingInv
  BY DEF TypeInv, HandoffInv, Handing
<1>2. (CHOOSE t \in cmd.report.failing : TRUE) \in FailingTests
  BY <1>1, BrokenNames DEF HandingInv
<1>. QED BY <1>1, <1>2 DEF PromptKey, PromptKeys

\* What is written at the desk.
LEMMA DeskStep ==
    ASSUME TypeInv, [Next]_vars
    PROVE  DeskTyped'
<1>. USE DEF desk
<1>1. CASE WritePrompt
  <2>1. \/ UNCHANGED prompts
        \/ \E agent \in Agents : DOMAIN prompts' = DOMAIN prompts \cup {PromptKey(agent)}
    BY <1>1 DEF WritePrompt, Agents
  <2>2. pc = "rendering" /\ UNCHANGED ledger
    BY <1>1 DEF WritePrompt
  <2>. QED BY <2>1, <2>2, PromptKeyed DEF TypeInv, DeskTyped
<1>2. CASE RecordHandoff
  <2>1. pc = "proven" /\ UNCHANGED prompts
        /\ (UNCHANGED ledger \/ ledger' = ledger \cup {Last(cmd.made)})
    BY <1>2 DEF RecordHandoff
  <2>2. cmd.made[Len(cmd.made)] \in PromptKeys
    BY <2>1 DEF TypeInv, HandoffInv, AtWork, DeskTyped
  <2>. QED BY <2>1, <2>2 DEF TypeInv, DeskTyped, Last
<1>3. CASE UNCHANGED <<prompts, ledger>>
  BY <1>3 DEF TypeInv, DeskTyped
<1>4. [Next]_vars => WritePrompt \/ RecordHandoff \/ UNCHANGED <<prompts, ledger>>
  BY DEF Next, User, Command, Repair, Propose, Handoff, Edit, Tick, Kill, SafetyChecks, WriteRepair,
         Compile, Validate, Rollback, Answer, SaveProposal, WriteProvenance, Deliver, vars
<1>. QED BY <1>1, <1>2, <1>3, <1>4

\* The last commit and the counters.
LEMMA WorldStep ==
    ASSUME TypeInv, [Next]_vars
    PROVE  WorldTyped'
<1>. USE DEF world
<1>1. {MaxEdits, MaxCommands, MaxKills} \subseteq Nat
  BY RepositoryAssumption
<1>2. CASE Edit
  <2>1. Visible(tree) \in Tree
    BY DEF Visible, TypeInv, RepairInv, Shape, Tree
  <2>2. committed' \in [tree : Tree, prompts : SUBSET PromptKeys]
    BY <1>2, <2>1 DEF Edit, TypeInv, WorldTyped, DeskTyped
  <2>3. edits' \in 0 .. MaxEdits
    BY <1>1, <1>2 DEF Edit, TypeInv, WorldTyped
  <2>4. raced' \in BOOLEAN
    BY <1>2 DEF Edit, TypeInv, WorldTyped
  <2>5. UNCHANGED <<undone, commands, kills>>
    BY <1>2 DEF Edit
  <2>. QED BY <2>2, <2>3, <2>4, <2>5 DEF TypeInv, WorldTyped
<1>3. CASE Begin /\ UNCHANGED <<committed, edits, kills>>
  <2>1. raced' \in BOOLEAN /\ undone' \in BOOLEAN
    BY <1>3 DEF Begin
  <2>2. commands' \in 0 .. MaxCommands
    BY <1>1, <1>3 DEF Begin, TypeInv, WorldTyped
  <2>. QED BY <1>3, <2>1, <2>2 DEF TypeInv, WorldTyped
<1>4. CASE UNCHANGED <<committed, raced, edits, commands, kills>> /\ undone' \in BOOLEAN
  BY <1>4 DEF TypeInv, WorldTyped
<1>5. CASE Kill
  BY <1>1, <1>5 DEF Kill, TypeInv, WorldTyped
<1>6. UNCHANGED undone => undone' \in BOOLEAN
  BY DEF TypeInv, WorldTyped
<1>7. CASE User
  BY <1>2, <1>3, <1>7 DEF User, Repair, Propose, Handoff
<1>8. CASE SafetyChecks \/ WriteRepair \/ (\E f \in Files : Compile(f)) \/ Validate \/ Rollback
  BY <1>4, <1>6, <1>8 DEF SafetyChecks, WriteRepair, Compile, Validate, Rollback
<1>9. CASE Answer \/ \E overwrite \in BOOLEAN : SaveProposal(overwrite)
  BY <1>4, <1>6, <1>9 DEF Answer, SaveProposal
<1>10. CASE WritePrompt \/ WriteProvenance \/ RecordHandoff \/ Deliver
  BY <1>4, <1>6, <1>10 DEF WritePrompt, WriteProvenance, RecordHandoff, Deliver
<1>11. CASE Tick \/ UNCHANGED vars
  BY <1>4, <1>6, <1>11 DEF Tick, vars
<1>. QED BY <1>5, <1>7, <1>8, <1>9, <1>10, <1>11 DEF Next, Command

\* The variables have their types, and a command the data of its place, for every repository and
\* whatever the user does between its steps.
THEOREM TypeCorrect == Spec => []TypeOK
<1>1. TypeInv => TypeOK
  BY DEF TypeInv, RepairInv, Shape, HandoffInv, CommandTyped, DeskTyped, WorldTyped, Places, KindAt,
         TypeOK
<1>2. TypeInv /\ [Next]_vars => TypeInv'
  BY RepairStep, HandoffStep, CommandStep, DeskStep, WorldStep DEF TypeInv
<1>. QED BY <1>1, <1>2, TypeInit, PTL DEF Spec
================================================================================
