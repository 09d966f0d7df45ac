------------------------ MODULE ReliabilityRun_proofs ------------------------
(***************************************************************************)
(* Proofs about a run of the Reliability Engine, for any number of         *)
(* subtasks, attempts, files and runs, whatever the models write and       *)
(* wherever exceptions are raised.  Five inductive invariants, each of     *)
(* which uses the ones before it: of the counters (IInv), of what was      *)
(* tested (VerifiedInv), of whose changes are where (SourceInv), of which  *)
(* attempt they are from (AttemptInv) and of the worktrees (KeptInv).      *)
(***************************************************************************)
EXTENDS ReliabilityRun, TLAPS

(***************************************************************************)
(* The invariants.                                                         *)
(***************************************************************************)
\* Places of an attempt.
AttemptPcs == {"attempt", "generate", "apply", "judge", "record"}

\* A subtask that was not worked on has neither attempts nor records.
Fresh(s) == rows[s].attempts = 0 /\ rows[s].records = 0

FreshInv ==
    \A s \in 1..N :
        \/ pc = "plan"
        \/ pc # "idle" /\ s > cur
        \/ pc \in {"next", "create", "build"} /\ s = cur
        => Fresh(s)

\* The attempt that is counted and not yet recorded.
Owed == IF \/ pc = "record" /\ strategy # "choose"
           \/ pc \in {"apply", "judge"} /\ strategy = "loop"
        THEN 1 ELSE 0

\* The counters of the current subtask say which attempt it is at.
CountInv ==
    /\ pc \in TryPcs => rows[cur].attempts = rows[cur].records + Owed
    /\ pc \in AttemptPcs =>
          /\ strategy = "choose" => rows[cur].records = 0
          /\ strategy # "choose" => rows[cur].records = att - 1
          /\ att <= Budget \/ (pc = "attempt" /\ att = Budget + 1)
    /\ pc = "record" => verdict # "none"

\* A subtask that is worked on is in progress.
StatusInv == pc \in {"create"} \cup (TryPcs \ {"cleanup"}) => rows[cur].status = "in_progress"

IInv == TypeOK /\ FreshInv /\ CountInv /\ StatusInv /\ AttemptsAreRecorded

\* What is merged was in the tree that the regression suite passed on.
VerifiedInv == RepoIsVerified /\ (pc = "merge" => tree \subseteq verified)

\* A worktree holds changes of its subtask, the repository those of earlier ones.
SourceInv ==
    /\ pc = "plan" => repo = {}
    /\ pc \in TryPcs => \A c \in tree : c.sub = cur
    /\ pc \in {"next", "create"} \cup (TryPcs \ {"done", "cleanup"}) => \A c \in repo : c.sub < cur
    /\ pc \in {"done", "cleanup", "block"} => \A c \in repo : c.sub <= cur

\* Those of the current one only from the merge until it is marked as done.
BlockedInv ==
    /\ BlockedLeavesRepo
    /\ pc = "block" => \A c \in repo : c.sub < cur

\* Changes of the current attempt, the builder's, or in a file that is not reset, where
\* reverse_diff left nothing.
FromAttempt(c) ==
    cur \notin unreversed =>
        /\ c.path \in Touched[cur] \cap Tracked => c.attempt \in {0, att}
        /\ strategy = "choose" => c.attempt \in {0, att}

\* Nothing that an earlier attempt left.
NoAttempt(c) ==
    cur \notin unreversed =>
        IF strategy = "choose" THEN c.attempt = 0 ELSE c.path \notin Touched[cur] \cap Tracked

AttemptInv ==
    /\ OneAttemptIsMerged
    /\ \A c \in repo : c.path \in Tracked
    /\ pc = "build" => tree = {}
    /\ \/ pc \in {"generate", "apply"}
       \/ pc = "attempt" /\ strategy = "choose"
       \/ pc = "record" /\ verdict = "skip" /\ strategy = "choose"
       => \A c \in tree : NoAttempt(c)
    /\ \/ pc \in {"judge", "regress", "merge"}
       \/ pc = "record" /\ verdict # "skip"
       => \A c \in tree : FromAttempt(c)
    /\ pc = "record" /\ strategy # "loop" => verdict # "blocked"

(***************************************************************************)
(* The tables.                                                             *)
(***************************************************************************)
\* The limits are numbers, and no strategy's exceeds AllAttempts.
LEMMA Limits == /\ N \in Nat \ {0} /\ MaxAttempts \in Nat \ {0} /\ NSamples \in Nat \ {0}
                /\ MaxRuns \in Nat /\ MaxKills \in Nat
                /\ AllAttempts \in Nat \ {0} /\ Budget \in 1..AllAttempts
  BY PlanAssumption, LimitsAssumption DEF AllAttempts, Budget

\* A row's status, number of attempts or number of records may change alone.
LEMMA RowChanges ==
    ASSUME NEW r \in Row, NEW st \in {"in_progress", "done", "blocked"}
    PROVE  /\ [r EXCEPT !.status = st] \in Row
           /\ r.attempts < AllAttempts => [r EXCEPT !.attempts = @ + 1] \in Row
           /\ r.records < AllAttempts => [r EXCEPT !.records = @ + 1] \in Row
  BY Limits DEF Row

\* The rows after the current one gets the status st.
LEMMA StatusChange ==
    ASSUME TypeOK, cur \in 1..N, NEW st \in {"in_progress", "done", "blocked"},
           rows' = [rows EXCEPT ![cur].status = st]
    PROVE  /\ rows' \in [1..N -> Row]
           /\ rows'[cur].status = st
           /\ rows'[cur].attempts = rows[cur].attempts /\ rows'[cur].records = rows[cur].records
           /\ \A s \in 1..N : s # cur => rows'[s] = rows[s]
<1>1. rows \in [1..N -> Row] /\ rows[cur] \in Row
  BY DEF TypeOK
<1>2. [rows[cur] EXCEPT !.status = st] \in Row
  BY <1>1, RowChanges
<1>. QED BY <1>1, <1>2 DEF Row

\* The rows after an attempt is recorded.
LEMMA Recorded ==
    ASSUME TypeOK, cur \in 1..N,
           strategy # "choose" => rows[cur].records < AllAttempts,
           rows' = IF strategy = "choose" THEN rows
                   ELSE [rows EXCEPT ![cur].records = @ + 1]
    PROVE  /\ rows' \in [1..N -> Row]
           /\ rows'[cur].status = rows[cur].status /\ rows'[cur].attempts = rows[cur].attempts
           /\ rows'[cur].records = rows[cur].records + IF strategy = "choose" THEN 0 ELSE 1
           /\ \A s \in 1..N : s # cur => rows'[s] = rows[s]
<1>1. rows \in [1..N -> Row] /\ rows[cur] \in Row
  BY DEF TypeOK
<1>2. CASE strategy # "choose"
  <2>1. [rows[cur] EXCEPT !.records = @ + 1] \in Row
    BY <1>1, <1>2, RowChanges
  <2>2. rows' = [rows EXCEPT ![cur] = [rows[cur] EXCEPT !.records = @ + 1]]
    BY <1>2
  <2>. QED BY <1>1, <1>2, <2>1, <2>2 DEF Row
<1>3. CASE strategy = "choose"
  BY <1>1, <1>3 DEF Row
<1>. QED BY <1>2, <1>3

\* What a row holds.
LEMMA RowFields == ASSUME TypeOK, NEW s \in 1..N
                   PROVE  /\ rows[s].attempts \in 0..AllAttempts
                          /\ rows[s].records \in 0..AllAttempts
  BY DEF TypeOK, Row

\* A new row is a row, and fresh.
LEMMA NewRowOK == ASSUME NEW st \in {"none", "pending"}
                  PROVE  /\ NewRow(st) \in Row /\ NewRow(st).status = st
                         /\ NewRow(st).attempts = 0 /\ NewRow(st).records = 0
  BY Limits DEF NewRow, Row

\* What attempts write are changes.
LEMMA WrittenOK == ASSUME TypeOK, cur \in 1..N, NEW places \in SUBSET Paths,
                          NEW k \in 0..AllAttempts
                   PROVE  /\ Written(places, k) \subseteq Change
                          /\ \A c \in Written(places, k) :
                                c.path \in places /\ c.sub = cur /\ c.attempt = k
  BY DEF Written, Change

(***************************************************************************)
(* The counters.                                                           *)
(***************************************************************************)
LEMMA InitIInv == Init => IInv
<1>. SUFFICES ASSUME Init PROVE IInv
  OBVIOUS
<1>1. TypeOK
  <2>1. rows \in [1..N -> Row]
    BY NewRowOK DEF Init
  <2>2. run \in 0..MaxRuns /\ kills \in 0..MaxKills /\ cur \in 1..N+1 /\ att \in 1..AllAttempts+1
    BY Limits DEF Init
  <2>3. pc = "idle" /\ pc \notin TryPcs
    BY DEF Init, TryPcs
  <2>. QED BY <2>1, <2>2, <2>3 DEF Init, TypeOK, Pcs, Strategies, Verdicts, Outcomes
<1>2. FreshInv /\ CountInv /\ StatusInv
  BY Limits, NewRowOK DEF Init, FreshInv, CountInv, StatusInv, TryPcs, AttemptPcs, Fresh
<1>3. AttemptsAreRecorded
  BY Limits, NewRowOK DEF Init, AttemptsAreRecorded
<1>. QED BY <1>1, <1>2, <1>3 DEF IInv

\* Where the counters stand in an attempt.
LEMMA AttemptCounters ==
    ASSUME IInv, pc \in AttemptPcs, pc # "attempt" \/ att <= Budget
    PROVE  /\ cur \in 1..N /\ att \in 1..Budget /\ rows[cur].status = "in_progress"
           /\ rows[cur].records \in Nat /\ rows[cur].attempts \in Nat
           /\ strategy # "choose" => rows[cur].records = att - 1 /\ rows[cur].records < AllAttempts
           /\ strategy = "choose" => rows[cur].records = 0
           /\ rows[cur].attempts = rows[cur].records + Owed
<1>1. pc \in TryPcs /\ pc # "cleanup"
  BY DEF AttemptPcs, TryPcs
<1>2. cur \in 1..N /\ att \in 1..AllAttempts + 1
  BY <1>1, Limits DEF IInv, TypeOK
<1>3. rows[cur].records \in Nat /\ rows[cur].attempts \in Nat
  BY <1>2, RowFields DEF IInv
<1>4. att \in 1..Budget
  BY <1>2, Limits DEF IInv, CountInv
<1>5. rows[cur].status = "in_progress"
  BY <1>1 DEF IInv, StatusInv
<1>. QED BY <1>1, <1>2, <1>3, <1>4, <1>5, Limits DEF IInv, CountInv

\* Counting an attempt just when it comes to be owed keeps the counters in step.
LEMMA CountsOwed ==
    ASSUME IInv, pc \in AttemptPcs, pc # "attempt" \/ att <= Budget, Owed' \in {Owed, Owed + 1},
           rows' = IF Owed' = Owed THEN rows ELSE [rows EXCEPT ![cur].attempts = @ + 1]
    PROVE  /\ rows' \in [1..N -> Row]
           /\ rows'[cur].status = "in_progress" /\ rows'[cur].records = rows[cur].records
           /\ rows'[cur].attempts = rows'[cur].records + Owed'
           /\ \A s \in 1..N : s # cur => rows'[s] = rows[s]
<1>1. Owed \in {0, 1} /\ Owed' \in {0, 1} /\ (strategy = "choose" => Owed = 0)
  BY DEF Owed
<1>2. cur \in 1..N /\ rows \in [1..N -> Row] /\ rows[cur] \in Row
  BY AttemptCounters DEF IInv, TypeOK
<1>3. CASE Owed' = Owed
  BY <1>2, <1>3, AttemptCounters
<1>4. CASE Owed' # Owed
  <2>1. Owed = 0 /\ Owed' = 1
    BY <1>1, <1>4
  <2>2. rows[cur].attempts < AllAttempts
    BY <2>1, AttemptCounters, Limits
  <2>3. [rows[cur] EXCEPT !.attempts = @ + 1] \in Row
    BY <1>2, <2>2, RowChanges
  <2>4. rows' = [rows EXCEPT ![cur] = [rows[cur] EXCEPT !.attempts = @ + 1]]
    BY <1>4
  <2>5. rows' \in [1..N -> Row] /\ \A s \in 1..N : s # cur => rows'[s] = rows[s]
    BY <1>2, <2>3, <2>4
  <2>6. rows'[cur] = [rows[cur] EXCEPT !.attempts = @ + 1]
    BY <1>2, <2>4
  <2>7. /\ rows'[cur].status = rows[cur].status /\ rows'[cur].records = rows[cur].records
        /\ rows'[cur].attempts = rows[cur].attempts + 1
    BY <1>2, <2>6 DEF Row
  <2>. QED BY <2>1, <2>5, <2>7, AttemptCounters
<1>. QED BY <1>3, <1>4

\* A step of an attempt that keeps the counters in step keeps the invariants on them.
LEMMA AttemptStep ==
    ASSUME IInv, pc \in AttemptPcs, pc' \in AttemptPcs \cup {"regress", "block"}, cur' = cur,
           rows'[cur].status = "in_progress", \A s \in 1..N : s # cur => rows'[s] = rows[s],
           rows'[cur].records \in Nat, rows'[cur].attempts = rows'[cur].records + Owed',
           rows'[cur].attempts <= Budget',
           pc' = "regress" /\ strategy' # "choose" => rows'[cur].records > 0
    PROVE  FreshInv' /\ StatusInv' /\ AttemptsAreRecorded'
<1>1. StatusInv'
  BY DEF StatusInv
<1>2. FreshInv'
  <2>1. pc \notin {"idle", "plan", "next", "create", "build"}
    BY DEF AttemptPcs
  <2>2. pc' \notin {"idle", "plan", "next", "create", "build"}
    BY DEF AttemptPcs
  <2>3. \A s \in 1..N : s > cur => Fresh(s) /\ s # cur
    BY <2>1, Limits DEF IInv, FreshInv, TypeOK
  <2>. QED BY <2>2, <2>3 DEF FreshInv, Fresh
<1>3. Owed' \in {0, 1}
  BY DEF Owed
<1>4. \A s \in 1..N : /\ rows'[s].attempts \in rows'[s].records .. rows'[s].records + 1
                      /\ rows'[s].status = "done" => rows'[s].attempts = rows'[s].records
  BY <1>3 DEF IInv, AttemptsAreRecorded
<1>5. pc' \in {"regress", "merge", "done"} => pc' = "regress"
  BY DEF AttemptPcs
<1>6. pc' \in TryPcs => rows'[cur'].attempts <= Budget'
  OBVIOUS
<1>7. pc' \in {"regress", "merge", "done"} /\ strategy' # "choose" => rows'[cur'].records > 0
  BY <1>5
<1>8. AttemptsAreRecorded'
  BY <1>4, <1>6, <1>7 DEF AttemptsAreRecorded
<1>. QED BY <1>1, <1>2, <1>8

\* Every step preserves the invariant.
LEMMA StepIInv == IInv /\ [Next]_vars => IInv'
<1>. SUFFICES ASSUME IInv, [Next]_vars PROVE IInv'
  OBVIOUS
<1>0. TypeOK /\ FreshInv /\ CountInv /\ StatusInv /\ AttemptsAreRecorded
  BY DEF IInv
<1>. USE Limits
<1>1. ASSUME Begin PROVE IInv'
  <2>1. TypeOK'
    BY <1>0, <1>1, NewRowOK DEF TypeOK, Begin, trees, plan, ends, Pcs, TryPcs, AttemptPcs, Strategies, Verdicts, Outcomes, CountInv, Owed
  <2>2. FreshInv' /\ StatusInv'
    BY <1>0, <1>1, NewRowOK DEF TypeOK, Begin, trees, plan, ends, TryPcs, AttemptPcs, CountInv, FreshInv, Fresh, StatusInv, Owed
  <2>3. CountInv' /\ AttemptsAreRecorded'
    BY <1>0, <1>1, NewRowOK DEF TypeOK, Begin, trees, plan, ends, TryPcs, AttemptPcs, CountInv, Budget, FreshInv, Fresh, StatusInv, Owed, AttemptsAreRecorded
  <2>. QED BY <2>1, <2>2, <2>3 DEF IInv
<1>2. ASSUME Persist PROVE IInv'
  <2>1. TypeOK'
    BY <1>0, <1>2, NewRowOK DEF TypeOK, Persist, trees, plan, ends, Pcs, TryPcs, AttemptPcs, Strategies, Verdicts, Outcomes, CountInv, Owed, Subs
  <2>2. FreshInv' /\ StatusInv'
    BY <1>0, <1>2, NewRowOK DEF TypeOK, Persist, trees, plan, ends, TryPcs, AttemptPcs, CountInv, FreshInv, Fresh, StatusInv, Owed, Subs
  <2>3. CountInv' /\ AttemptsAreRecorded'
    BY <1>0, <1>2, NewRowOK DEF TypeOK, Persist, trees, plan, ends, TryPcs, AttemptPcs, CountInv, Budget, FreshInv, Fresh, StatusInv, Owed, AttemptsAreRecorded, Subs
  <2>. QED BY <2>1, <2>2, <2>3 DEF IInv
<1>3. ASSUME TakeSubtask PROVE IInv'
  <2>1. /\ cur \in 1..N /\ rows' \in [1..N -> Row]
        /\ rows'[cur].status = "in_progress"
        /\ rows'[cur].attempts = rows[cur].attempts /\ rows'[cur].records = rows[cur].records
        /\ \A s \in 1..N : s # cur => rows'[s] = rows[s]
    BY <1>0, <1>3, StatusChange DEF TakeSubtask, TypeOK, TryPcs, Subs
  <2>2. TypeOK'
    BY <1>0, <1>3, <2>1, RowFields DEF TypeOK, TakeSubtask, trees, plan, ends, Pcs, TryPcs, Strategies, Verdicts, Outcomes
  <2>3. FreshInv' /\ StatusInv'
    BY <1>0, <1>3, <2>1, RowFields DEF TakeSubtask, plan, TryPcs, FreshInv, Fresh, StatusInv, TypeOK
  <2>4. CountInv' /\ AttemptsAreRecorded'
    BY <1>0, <1>3, <2>1, RowFields DEF TakeSubtask, plan, TryPcs, AttemptPcs, CountInv, Owed, Budget, AttemptsAreRecorded, TypeOK
  <2>. QED BY <2>2, <2>3, <2>4 DEF IInv
<1>4. ASSUME CreateWorktree PROVE IInv'
  <2>2. TypeOK'
    BY <1>0, <1>4, RowFields DEF TypeOK, CreateWorktree, trees, plan, ends, Pcs, TryPcs, Strategies, Verdicts, Outcomes, Name, Worktrees
  <2>3. FreshInv' /\ StatusInv'
    BY <1>0, <1>4, RowFields DEF CreateWorktree, plan, TryPcs, FreshInv, Fresh, StatusInv, TypeOK
  <2>4. CountInv' /\ AttemptsAreRecorded'
    <3>1. Fresh(cur) /\ cur \in 1..N
      BY <1>0, <1>4 DEF CreateWorktree, FreshInv, TypeOK
    <3>2. pc' \in {"build", "idle"} /\ cur' = cur /\ rows' = rows /\ strategy' = strategy
      BY <1>4 DEF CreateWorktree, plan
    <3>3. AttemptsAreRecorded'
      BY <1>0, <3>1, <3>2 DEF AttemptsAreRecorded, Fresh, Budget
    <3>. QED BY <3>1, <3>2, <3>3 DEF TryPcs, AttemptPcs, CountInv, Owed, Fresh
  <2>. QED BY <2>2, <2>3, <2>4 DEF IInv
<1>5. ASSUME Build PROVE IInv'
  <2>1. tree' \subseteq Change
    <3>1. cur \in 1..N /\ Touched[cur] \subseteq Paths
      BY <1>0, <1>5, PlanAssumption DEF Build, TypeOK, TryPcs
    <3>2. PICK places \in SUBSET Paths : tree' = tree \cup Written(places, 0)
      BY <1>5, <3>1 DEF Build, Touches
    <3>. QED BY <1>0, <3>1, <3>2, WrittenOK DEF TypeOK
  <2>2. TypeOK'
    BY <1>0, <1>5, <2>1, RowFields DEF TypeOK, Build, trees, plan, ends, Pcs, TryPcs, Strategies, Verdicts, Outcomes
  <2>3. FreshInv' /\ StatusInv'
    BY <1>0, <1>5, <2>1, RowFields DEF Build, plan, TryPcs, FreshInv, Fresh, StatusInv, TypeOK
  <2>4. CountInv' /\ AttemptsAreRecorded'
    BY <1>0, <1>5, <2>1, RowFields DEF Build, plan, TryPcs, AttemptPcs, CountInv, Owed, Budget, AttemptsAreRecorded, FreshInv, Fresh, TypeOK
  <2>. QED BY <2>2, <2>3, <2>4 DEF IInv
<1>6. ASSUME ResetForAttempt PROVE IInv'
  <2>1. /\ pc \in AttemptPcs /\ (pc # "attempt" \/ att <= Budget)
        /\ pc' \in AttemptPcs \cup {"regress", "block"} /\ cur' = cur /\ strategy' = strategy
    BY <1>0, <1>6 DEF ResetForAttempt, AttemptPcs, plan
  <2>2. /\ cur \in 1..N /\ att \in 1..Budget /\ rows[cur].status = "in_progress"
        /\ rows[cur].records \in Nat /\ rows[cur].attempts \in Nat
        /\ strategy # "choose" => rows[cur].records = att - 1 /\ rows[cur].records < AllAttempts
        /\ strategy = "choose" => rows[cur].records = 0
        /\ rows[cur].attempts = rows[cur].records + Owed
    BY <2>1, AttemptCounters
  <2>3. /\ rows' \in [1..N -> Row]
        /\ rows'[cur].status = "in_progress" /\ rows'[cur].records = rows[cur].records
        /\ rows'[cur].attempts = rows'[cur].records + Owed'
        /\ \A s \in 1..N : s # cur => rows'[s] = rows[s]
    <3>1. /\ Owed' \in {Owed, Owed + 1}
          /\ rows' = IF Owed' = Owed THEN rows ELSE [rows EXCEPT ![cur].attempts = @ + 1]
      BY <1>0, <1>6, <2>1 DEF ResetForAttempt, Count, Owed, TypeOK, Strategies
    <3>. QED BY <2>1, <3>1, CountsOwed
  <2>4. tree' \subseteq Change
    BY <1>0, <1>6, <2>2 DEF TypeOK, ResetForAttempt, trees, Reset
  <2>5. TypeOK'
    BY <1>0, <1>6, <2>1, <2>2, <2>3, <2>4 DEF TypeOK, ResetForAttempt, trees, plan, ends, Pcs, TryPcs, AttemptPcs, Verdicts
  <2>6. CountInv'
    BY <1>0, <1>6, <2>1, <2>2, <2>3 DEF ResetForAttempt, CountInv, TryPcs, AttemptPcs, Budget, Strategies, TypeOK, Verdicts
  <2>7. rows'[cur].attempts <= Budget' /\ pc' # "regress"
    BY <1>6, <2>1, <2>2, <2>3 DEF ResetForAttempt, Owed, Budget, AttemptPcs, Count
  <2>. QED BY <2>1, <2>2, <2>3, <2>5, <2>6, <2>7, AttemptStep DEF IInv
<1>7. ASSUME Generate PROVE IInv'
  <2>1. /\ pc \in AttemptPcs /\ (pc # "attempt" \/ att <= Budget)
        /\ pc' \in AttemptPcs \cup {"regress", "block"} /\ cur' = cur /\ strategy' = strategy
    BY <1>0, <1>7 DEF Generate, AttemptPcs, plan
  <2>2. /\ cur \in 1..N /\ att \in 1..Budget /\ rows[cur].status = "in_progress"
        /\ rows[cur].records \in Nat /\ rows[cur].attempts \in Nat
        /\ strategy # "choose" => rows[cur].records = att - 1 /\ rows[cur].records < AllAttempts
        /\ strategy = "choose" => rows[cur].records = 0
        /\ rows[cur].attempts = rows[cur].records + Owed
    BY <2>1, AttemptCounters
  <2>3. /\ rows' \in [1..N -> Row]
        /\ rows'[cur].status = "in_progress" /\ rows'[cur].records = rows[cur].records
        /\ rows'[cur].attempts = rows'[cur].records + Owed'
        /\ \A s \in 1..N : s # cur => rows'[s] = rows[s]
    <3>1. /\ Owed' \in {Owed, Owed + 1}
          /\ rows' = IF Owed' = Owed THEN rows ELSE [rows EXCEPT ![cur].attempts = @ + 1]
      BY <1>0, <1>7, <2>1 DEF Generate, Count, Owed, TypeOK, Strategies
    <3>. QED BY <2>1, <3>1, CountsOwed
  <2>4. tree' \subseteq Change
    BY <1>0, <1>7 DEF TypeOK, Generate, trees
  <2>5. TypeOK'
    BY <1>0, <1>7, <2>1, <2>2, <2>3, <2>4 DEF TypeOK, Generate, trees, plan, ends, Pcs, TryPcs, AttemptPcs, Verdicts
  <2>6. CountInv'
    BY <1>0, <1>7, <2>1, <2>2, <2>3 DEF Generate, CountInv, TryPcs, AttemptPcs, Budget, Strategies, TypeOK, Verdicts
  <2>7. rows'[cur].attempts <= Budget' /\ pc' # "regress"
    BY <1>7, <2>1, <2>2, <2>3 DEF Generate, Owed, Budget, AttemptPcs, Count
  <2>. QED BY <2>1, <2>2, <2>3, <2>5, <2>6, <2>7, AttemptStep DEF IInv
<1>8. ASSUME Apply PROVE IInv'
  <2>1. /\ pc \in AttemptPcs /\ (pc # "attempt" \/ att <= Budget)
        /\ pc' \in AttemptPcs \cup {"regress", "block"} /\ cur' = cur /\ strategy' = strategy
    BY <1>0, <1>8 DEF Apply, AttemptPcs, plan
  <2>2. /\ cur \in 1..N /\ att \in 1..Budget /\ rows[cur].status = "in_progress"
        /\ rows[cur].records \in Nat /\ rows[cur].attempts \in Nat
        /\ strategy # "choose" => rows[cur].records = att - 1 /\ rows[cur].records < AllAttempts
        /\ strategy = "choose" => rows[cur].records = 0
        /\ rows[cur].attempts = rows[cur].records + Owed
    BY <2>1, AttemptCounters
  <2>3. /\ rows' \in [1..N -> Row]
        /\ rows'[cur].status = "in_progress" /\ rows'[cur].records = rows[cur].records
        /\ rows'[cur].attempts = rows'[cur].records + Owed'
        /\ \A s \in 1..N : s # cur => rows'[s] = rows[s]
    <3>1. /\ Owed' \in {Owed, Owed + 1}
          /\ rows' = IF Owed' = Owed THEN rows ELSE [rows EXCEPT ![cur].attempts = @ + 1]
      BY <1>0, <1>8, <2>1 DEF Apply, Count, Owed, TypeOK, Strategies
    <3>. QED BY <2>1, <3>1, CountsOwed
  <2>4. tree' \subseteq Change
    BY <1>0, <1>8, <2>2, WrittenOK, PlanAssumption DEF TypeOK, Apply, trees, PatchesHere
  <2>5. TypeOK'
    BY <1>0, <1>8, <2>1, <2>2, <2>3, <2>4 DEF TypeOK, Apply, trees, plan, ends, Pcs, TryPcs, AttemptPcs, Verdicts
  <2>6. CountInv'
    BY <1>0, <1>8, <2>1, <2>2, <2>3 DEF Apply, CountInv, TryPcs, AttemptPcs, Budget, Strategies, TypeOK, Verdicts
  <2>7. rows'[cur].attempts <= Budget' /\ pc' # "regress"
    BY <1>8, <2>1, <2>2, <2>3 DEF Apply, Owed, Budget
  <2>. QED BY <2>1, <2>2, <2>3, <2>5, <2>6, <2>7, AttemptStep DEF IInv
<1>9. ASSUME Judge PROVE IInv'
  <2>1. /\ pc \in AttemptPcs /\ (pc # "attempt" \/ att <= Budget)
        /\ pc' \in AttemptPcs \cup {"regress", "block"} /\ cur' = cur /\ strategy' = strategy
    BY <1>0, <1>9 DEF Judge, AttemptPcs, plan
  <2>2. /\ cur \in 1..N /\ att \in 1..Budget /\ rows[cur].status = "in_progress"
        /\ rows[cur].records \in Nat /\ rows[cur].attempts \in Nat
        /\ strategy # "choose" => rows[cur].records = att - 1 /\ rows[cur].records < AllAttempts
        /\ strategy = "choose" => rows[cur].records = 0
        /\ rows[cur].attempts = rows[cur].records + Owed
    BY <2>1, AttemptCounters
  <2>3. /\ rows' \in [1..N -> Row]
        /\ rows'[cur].status = "in_progress" /\ rows'[cur].records = rows[cur].records
        /\ rows'[cur].attempts = rows'[cur].records + Owed'
        /\ \A s \in 1..N : s # cur => rows'[s] = rows[s]
    <3>1. /\ Owed' \in {Owed, Owed + 1}
          /\ rows' = IF Owed' = Owed THEN rows ELSE [rows EXCEPT ![cur].attempts = @ + 1]
      BY <1>0, <1>9, <2>1 DEF Judge, Count, Owed, TypeOK, Strategies
    <3>. QED BY <2>1, <3>1, CountsOwed
  <2>4. tree' \subseteq Change
    BY <1>0, <1>9 DEF TypeOK, Judge, trees
  <2>5. TypeOK'
    BY <1>0, <1>9, <2>1, <2>2, <2>3, <2>4 DEF TypeOK, Judge, trees, plan, ends, Pcs, TryPcs, AttemptPcs, Verdicts
  <2>6. CountInv'
    BY <1>0, <1>9, <2>1, <2>2, <2>3 DEF Judge, CountInv, TryPcs, AttemptPcs, Budget, Strategies, TypeOK, Verdicts
  <2>7. rows'[cur].attempts <= Budget' /\ pc' # "regress"
    BY <1>9, <2>1, <2>2, <2>3 DEF Judge, Owed, Budget, AttemptPcs, Count
  <2>. QED BY <2>1, <2>2, <2>3, <2>5, <2>6, <2>7, AttemptStep DEF IInv
<1>10. ASSUME Record PROVE IInv'
  <2>1. /\ pc \in AttemptPcs /\ (pc # "attempt" \/ att <= Budget)
        /\ pc' \in AttemptPcs \cup {"regress", "block"} /\ cur' = cur /\ strategy' = strategy
    BY <1>0, <1>10 DEF Record, AttemptPcs, plan
  <2>2. /\ cur \in 1..N /\ att \in 1..Budget /\ rows[cur].status = "in_progress"
        /\ rows[cur].records \in Nat /\ rows[cur].attempts \in Nat
        /\ strategy # "choose" => rows[cur].records = att - 1 /\ rows[cur].records < AllAttempts
        /\ strategy = "choose" => rows[cur].records = 0
        /\ rows[cur].attempts = rows[cur].records + Owed
    BY <2>1, AttemptCounters
  <2>3. /\ rows' \in [1..N -> Row]
        /\ rows'[cur].status = "in_progress" /\ rows'[cur].attempts = rows[cur].attempts
        /\ rows'[cur].records = rows[cur].records + IF strategy = "choose" THEN 0 ELSE 1
        /\ rows'[cur].attempts = rows'[cur].records + Owed'
        /\ \A s \in 1..N : s # cur => rows'[s] = rows[s]
    <3>1. Owed = (IF strategy = "choose" THEN 0 ELSE 1) /\ Owed' = 0
      BY <1>10 DEF Record, Owed
    <3>. QED BY <1>0, <1>10, <2>2, <3>1, Recorded DEF Record
  <2>4. tree' \subseteq Change
    BY <1>0, <1>10 DEF TypeOK, Record, trees, Undo, Reset
  <2>0. att' \in 1..AllAttempts+1 /\ att' \in {att, att + 1}
    BY <1>10, <2>2 DEF Record
  <2>5. TypeOK'
    BY <1>0, <1>10, <2>0, <2>1, <2>2, <2>3, <2>4 DEF TypeOK, Undo, Record, trees, plan, ends, Pcs, TryPcs, AttemptPcs, Verdicts
  <2>6. CountInv'
    <3>1. pc' \in AttemptPcs => pc' = "attempt" /\ att' = att + 1
      BY <1>10 DEF Record, AttemptPcs
    <3>2. /\ strategy # "choose" => rows'[cur].records = att
          /\ strategy = "choose" => rows'[cur].records = 0
      BY <2>2, <2>3
    <3>3. att <= Budget /\ Budget' = Budget
      BY <2>1, <2>2 DEF Budget
    <3>. QED BY <2>0, <2>1, <2>2, <2>3, <3>1, <3>2, <3>3 DEF CountInv, AttemptPcs
  <2>7. rows'[cur].attempts <= Budget' /\ (strategy' # "choose" => rows'[cur].records > 0)
    BY <2>1, <2>2, <2>3 DEF Owed, Budget
  <2>. QED BY <2>1, <2>2, <2>3, <2>5, <2>6, <2>7, AttemptStep DEF IInv
<1>11. ASSUME OutOfAttempts PROVE IInv'
  <2>1. TypeOK'
    BY <1>0, <1>11, WrittenOK DEF TypeOK, OutOfAttempts, trees, plan, ends, Pcs, TryPcs, AttemptPcs, Strategies, Verdicts, Outcomes, CountInv, Owed, Undo, Reset
  <2>2. FreshInv' /\ StatusInv'
    BY <1>0, <1>11, WrittenOK DEF TypeOK, OutOfAttempts, trees, plan, ends, TryPcs, AttemptPcs, CountInv, FreshInv, Fresh, StatusInv, Owed, Undo, Reset
  <2>3. CountInv' /\ AttemptsAreRecorded'
    BY <1>0, <1>11, WrittenOK DEF TypeOK, OutOfAttempts, trees, plan, ends, TryPcs, AttemptPcs, CountInv, Budget, FreshInv, Fresh, StatusInv, Owed, AttemptsAreRecorded, Undo, Reset
  <2>. QED BY <2>1, <2>2, <2>3 DEF IInv
<1>12. ASSUME Regress PROVE IInv'
  <2>1. TypeOK'
    BY <1>0, <1>12 DEF TypeOK, Regress, trees, plan, ends, Pcs, TryPcs, AttemptPcs, Strategies, Verdicts, Outcomes, CountInv, Owed
  <2>2. FreshInv' /\ StatusInv'
    BY <1>0, <1>12 DEF TypeOK, Regress, trees, plan, ends, TryPcs, AttemptPcs, CountInv, FreshInv, Fresh, StatusInv, Owed
  <2>3. CountInv' /\ AttemptsAreRecorded'
    BY <1>0, <1>12 DEF TypeOK, Regress, trees, plan, ends, TryPcs, AttemptPcs, CountInv, Budget, FreshInv, Fresh, StatusInv, Owed, AttemptsAreRecorded
  <2>. QED BY <2>1, <2>2, <2>3 DEF IInv
<1>13. ASSUME Merge PROVE IInv'
  <2>1. TypeOK'
    BY <1>0, <1>13 DEF TypeOK, Merge, trees, plan, ends, Pcs, TryPcs, AttemptPcs, Strategies, Verdicts, Outcomes, CountInv, Owed, Diff
  <2>2. FreshInv' /\ StatusInv'
    BY <1>0, <1>13 DEF TypeOK, Merge, trees, plan, ends, TryPcs, AttemptPcs, CountInv, FreshInv, Fresh, StatusInv, Owed, Diff
  <2>3. CountInv' /\ AttemptsAreRecorded'
    BY <1>0, <1>13 DEF TypeOK, Merge, trees, plan, ends, TryPcs, AttemptPcs, CountInv, Budget, FreshInv, Fresh, StatusInv, Owed, AttemptsAreRecorded, Diff
  <2>. QED BY <2>1, <2>2, <2>3 DEF IInv
<1>14. ASSUME MarkDone PROVE IInv'
  <2>1. /\ cur \in 1..N /\ rows' \in [1..N -> Row]
        /\ rows'[cur].status = "done"
        /\ rows'[cur].attempts = rows[cur].attempts /\ rows'[cur].records = rows[cur].records
        /\ \A s \in 1..N : s # cur => rows'[s] = rows[s]
    BY <1>0, <1>14, StatusChange DEF MarkDone, TypeOK, TryPcs
  <2>2. TypeOK'
    BY <1>0, <1>14, <2>1, RowFields DEF TypeOK, MarkDone, trees, plan, ends, Pcs, TryPcs, Strategies, Verdicts, Outcomes
  <2>3. FreshInv' /\ StatusInv'
    BY <1>0, <1>14, <2>1, RowFields DEF MarkDone, plan, TryPcs, FreshInv, Fresh, StatusInv, TypeOK
  <2>4. CountInv' /\ AttemptsAreRecorded'
    BY <1>0, <1>14, <2>1, RowFields DEF MarkDone, plan, TryPcs, AttemptPcs, CountInv, Owed, Budget, AttemptsAreRecorded, TypeOK
  <2>. QED BY <2>2, <2>3, <2>4 DEF IInv
<1>15. ASSUME Cleanup PROVE IInv'
  <2>1. TypeOK'
    BY <1>0, <1>15 DEF TypeOK, Cleanup, trees, plan, ends, Pcs, TryPcs, AttemptPcs, Strategies, Verdicts, Outcomes, CountInv, Owed, Name, NextSubtask, Forget
  <2>2. FreshInv' /\ StatusInv'
    BY <1>0, <1>15 DEF TypeOK, Cleanup, trees, plan, ends, TryPcs, AttemptPcs, CountInv, FreshInv, Fresh, StatusInv, Owed, Name, NextSubtask, Forget
  <2>3. CountInv' /\ AttemptsAreRecorded'
    BY <1>0, <1>15 DEF TypeOK, Cleanup, trees, plan, ends, TryPcs, AttemptPcs, CountInv, Budget, FreshInv, Fresh, StatusInv, Owed, AttemptsAreRecorded, Name, NextSubtask, Forget
  <2>. QED BY <2>1, <2>2, <2>3 DEF IInv
<1>16. ASSUME Block PROVE IInv'
  <2>1. /\ cur \in 1..N /\ rows' \in [1..N -> Row]
        /\ rows'[cur].status = "blocked"
        /\ rows'[cur].attempts = rows[cur].attempts /\ rows'[cur].records = rows[cur].records
        /\ \A s \in 1..N : s # cur => rows'[s] = rows[s]
    BY <1>0, <1>16, StatusChange DEF Block, TypeOK, TryPcs
  <2>2. TypeOK'
    BY <1>0, <1>16, <2>1, RowFields DEF TypeOK, Block, trees, plan, ends, Pcs, TryPcs, Strategies, Verdicts, Outcomes, NextSubtask, Forget
  <2>3. FreshInv' /\ StatusInv'
    BY <1>0, <1>16, <2>1, RowFields DEF Block, plan, TryPcs, FreshInv, Fresh, StatusInv, NextSubtask, Forget, TypeOK
  <2>4. CountInv' /\ AttemptsAreRecorded'
    BY <1>0, <1>16, <2>1, RowFields DEF Block, plan, TryPcs, AttemptPcs, CountInv, Owed, Budget, AttemptsAreRecorded, NextSubtask, Forget, TypeOK
  <2>. QED BY <2>2, <2>3, <2>4 DEF IInv
<1>17. ASSUME Raises PROVE IInv'
  <2>2. TypeOK'
    BY <1>0, <1>17, FailAssumption DEF TypeOK, Raises, trees, plan, ends, Pcs, TryPcs, Strategies, Verdicts, Outcomes
  <2>3. FreshInv' /\ StatusInv'
    BY <1>0, <1>17, FailAssumption DEF Raises, plan, TryPcs, FreshInv, Fresh, StatusInv, TypeOK
  <2>4. CountInv' /\ AttemptsAreRecorded'
    BY <1>0, <1>17, FailAssumption DEF Raises, plan, TryPcs, AttemptPcs, CountInv, Owed, Budget, AttemptsAreRecorded, TypeOK
  <2>. QED BY <2>2, <2>3, <2>4 DEF IInv
<1>18. ASSUME Report PROVE IInv'
  <2>1. TypeOK'
    BY <1>0, <1>18 DEF TypeOK, Report, trees, plan, ends, Pcs, TryPcs, AttemptPcs, Strategies, Verdicts, Outcomes, CountInv, Owed, Subs
  <2>2. FreshInv' /\ StatusInv'
    BY <1>0, <1>18 DEF TypeOK, Report, trees, plan, ends, TryPcs, AttemptPcs, CountInv, FreshInv, Fresh, StatusInv, Owed, Subs
  <2>3. CountInv' /\ AttemptsAreRecorded'
    BY <1>0, <1>18 DEF TypeOK, Report, trees, plan, ends, TryPcs, AttemptPcs, CountInv, Budget, FreshInv, Fresh, StatusInv, Owed, AttemptsAreRecorded, Subs
  <2>. QED BY <2>1, <2>2, <2>3 DEF IInv
<1>19. ASSUME Killed PROVE IInv'
  <2>1. TypeOK'
    BY <1>0, <1>19 DEF TypeOK, Killed, Forget, trees, plan, ends, Pcs, TryPcs, AttemptPcs, Strategies, Verdicts, Outcomes, CountInv, Owed
  <2>2. FreshInv' /\ StatusInv'
    BY <1>0, <1>19 DEF TypeOK, Killed, Forget, trees, plan, ends, TryPcs, AttemptPcs, CountInv, FreshInv, Fresh, StatusInv, Owed
  <2>3. CountInv' /\ AttemptsAreRecorded'
    BY <1>0, <1>19 DEF TypeOK, Killed, Forget, trees, plan, ends, TryPcs, AttemptPcs, CountInv, Budget, FreshInv, Fresh, StatusInv, Owed, AttemptsAreRecorded
  <2>. QED BY <2>1, <2>2, <2>3 DEF IInv
<1>20. ASSUME UserCleans PROVE IInv'
  <2>1. TypeOK'
    BY <1>0, <1>20 DEF TypeOK, UserCleans, trees, plan, ends, Pcs, TryPcs, AttemptPcs, Strategies, Verdicts, Outcomes, CountInv, Owed
  <2>2. FreshInv' /\ StatusInv'
    BY <1>0, <1>20 DEF TypeOK, UserCleans, trees, plan, ends, TryPcs, AttemptPcs, CountInv, FreshInv, Fresh, StatusInv, Owed
  <2>3. CountInv' /\ AttemptsAreRecorded'
    BY <1>0, <1>20 DEF TypeOK, UserCleans, trees, plan, ends, TryPcs, AttemptPcs, CountInv, Budget, FreshInv, Fresh, StatusInv, Owed, AttemptsAreRecorded
  <2>. QED BY <2>1, <2>2, <2>3 DEF IInv
<1>21. CASE UNCHANGED vars
  <2>1. TypeOK'
    BY <1>0, <1>21 DEF vars, trees, plan, ends, TypeOK
  <2>2. FreshInv' /\ StatusInv'
    BY <1>0, <1>21 DEF vars, plan, FreshInv, Fresh, StatusInv
  <2>3. CountInv' /\ AttemptsAreRecorded'
    BY <1>0, <1>21 DEF vars, plan, CountInv, Owed, Budget, AttemptsAreRecorded
  <2>. QED BY <2>1, <2>2, <2>3 DEF IInv
<1>22. ASSUME Hangs PROVE IInv'
  <2>1. TypeOK'
    BY <1>0, <1>22, FailAssumption DEF TypeOK, Hangs, trees, plan, ends, Pcs, TryPcs, Unlimited, Strategies, Verdicts, Outcomes
  <2>2. FreshInv' /\ StatusInv'
    BY <1>0, <1>22, FailAssumption DEF TypeOK, Hangs, plan, TryPcs, Unlimited, FreshInv, Fresh, StatusInv
  <2>3. CountInv' /\ AttemptsAreRecorded'
    BY <1>0, <1>22, FailAssumption DEF TypeOK, Hangs, plan, TryPcs, AttemptPcs, Unlimited, CountInv, Budget, Owed, AttemptsAreRecorded
  <2>. QED BY <2>1, <2>2, <2>3 DEF IInv
<1>. QED BY <1>1, <1>2, <1>3, <1>4, <1>5, <1>6, <1>7, <1>8, <1>9, <1>10, <1>11, <1>12, <1>13, <1>14, <1>15, <1>16, <1>17, <1>18, <1>19, <1>20, <1>21, <1>22 DEF Next, RunStep

\* The counters and the tables are what TypeOK says, whatever fails, raises or is killed.
THEOREM TypeCorrect == Spec => []TypeOK
<1>1. IInv => TypeOK
  BY DEF IInv
<1>. QED BY <1>1, InitIInv, StepIInv, PTL DEF Spec

\* Every attempt that is counted is recorded, one by one, and what is done has a record
\* of each (test_loop, choose_edit).
THEOREM AttemptsRecorded == Spec => []AttemptsAreRecorded
<1>1. IInv => AttemptsAreRecorded
  BY DEF IInv
<1>. QED BY <1>1, InitIInv, StepIInv, PTL DEF Spec

(***************************************************************************)
(* What was tested.                                                        *)
(***************************************************************************)
LEMMA StepVerified == TypeOK /\ VerifiedInv /\ [Next]_vars => VerifiedInv'
<1>. SUFFICES ASSUME TypeOK, VerifiedInv, [Next]_vars PROVE VerifiedInv'
  OBVIOUS
<1>. USE DEF VerifiedInv, RepoIsVerified
<1>1. ASSUME Begin PROVE VerifiedInv'
  BY <1>1 DEF Begin
<1>2. ASSUME Regress PROVE VerifiedInv'
  BY <1>2 DEF Regress, trees
<1>3. ASSUME Merge PROVE VerifiedInv'
  BY <1>3 DEF Merge, ends, Diff
<1>4. ASSUME UserCleans PROVE VerifiedInv'
  BY <1>4 DEF UserCleans, ends
<1>5. ASSUME pc' # "merge", repo' = repo, verified' = verified PROVE VerifiedInv'
  BY <1>5
<1>6. ASSUME \/ Persist \/ TakeSubtask \/ CreateWorktree \/ Build
             \/ ResetForAttempt \/ Generate \/ Apply \/ Judge \/ Record \/ OutOfAttempts
      PROVE  pc' # "merge" /\ repo' = repo /\ verified' = verified
  BY <1>6 DEF Persist, TakeSubtask, CreateWorktree, Build, ResetForAttempt, Generate, Apply,
       Judge, Record, OutOfAttempts, trees, ends
<1>7. ASSUME MarkDone \/ Cleanup \/ Block \/ Raises \/ Report \/ Killed \/ Hangs
      PROVE  pc' # "merge" /\ repo' = repo /\ verified' = verified
  BY <1>7 DEF MarkDone, Cleanup, Block, Raises, Report, Killed, Hangs, NextSubtask, Forget, trees, ends
<1>8. CASE UNCHANGED vars
  BY <1>8 DEF vars, trees, ends
<1>. QED BY <1>1, <1>2, <1>3, <1>4, <1>5, <1>6, <1>7, <1>8 DEF Next, RunStep

\* Nothing reaches the repository that was not in a tree on which the regression suite
\* passed, whatever attempts, exceptions, conflicts and kills came before (_run_regression,
\* merge_to_main).
THEOREM MergedIsVerified == Spec => []RepoIsVerified
<1>1. Init => VerifiedInv
  BY DEF Init, VerifiedInv, RepoIsVerified
<1>2. VerifiedInv => RepoIsVerified
  BY DEF VerifiedInv
<1>. QED BY <1>1, <1>2, StepVerified, TypeCorrect, PTL DEF Spec

(***************************************************************************)
(* Whose changes are where.                                                *)
(***************************************************************************)
LEMMA StepSource == TypeOK /\ TypeOK' /\ SourceInv /\ [Next]_vars => SourceInv'
<1>. SUFFICES ASSUME TypeOK, TypeOK', SourceInv, [Next]_vars PROVE SourceInv'
  OBVIOUS
<1>. USE DEF TryPcs
<1>0. /\ cur \in Nat /\ cur' \in Nat /\ tree \subseteq Change /\ repo \subseteq Change
      /\ \A c \in Change : c.sub \in Nat
  BY Limits DEF TypeOK, Change
<1>1. ASSUME Begin PROVE SourceInv'
  BY <1>1 DEF Begin, SourceInv
<1>2. ASSUME Persist \/ TakeSubtask \/ CreateWorktree PROVE SourceInv'
  BY <1>2 DEF Persist, TakeSubtask, CreateWorktree, SourceInv, trees, plan
<1>3. ASSUME Build PROVE SourceInv'
  BY <1>3 DEF Build, SourceInv, Written
<1>4. ASSUME ResetForAttempt \/ Generate \/ Judge PROVE SourceInv'
  <2>1. /\ pc \in {"attempt", "generate", "judge"} /\ pc' \in {"generate", "apply", "record"}
        /\ tree' \subseteq tree /\ repo' = repo /\ cur' = cur
    BY <1>4 DEF ResetForAttempt, Generate, Judge, Reset, trees, plan
  <2>. QED BY <2>1 DEF SourceInv
<1>14. ASSUME Regress PROVE SourceInv'
  BY <1>0, <1>14 DEF Regress, SourceInv, trees, plan
<1>5. ASSUME Apply PROVE SourceInv'
  BY <1>5 DEF Apply, SourceInv, Written, plan
<1>6. ASSUME Record \/ OutOfAttempts PROVE SourceInv'
  BY <1>0, <1>6 DEF Record, OutOfAttempts, Undo, Reset, SourceInv, plan
<1>7. ASSUME Merge PROVE SourceInv'
  BY <1>0, <1>7 DEF Merge, Diff, SourceInv, plan
<1>8. ASSUME MarkDone PROVE SourceInv'
  BY <1>8 DEF MarkDone, SourceInv, trees, plan
<1>9. ASSUME Cleanup PROVE SourceInv'
  BY <1>0, <1>9 DEF Cleanup, NextSubtask, Forget, SourceInv
<1>10. ASSUME Block PROVE SourceInv'
  BY <1>0, <1>10 DEF Block, NextSubtask, Forget, SourceInv, trees
<1>11. ASSUME Raises PROVE SourceInv'
  BY <1>0, <1>11, FailAssumption DEF Raises, SourceInv, trees, plan
<1>12. ASSUME Report \/ Killed \/ Hangs \/ UserCleans PROVE SourceInv'
  BY <1>12 DEF Report, Killed, Hangs, UserCleans, Forget, SourceInv, trees, plan
<1>13. CASE UNCHANGED vars
  BY <1>13 DEF vars, SourceInv, trees, plan
<1>. QED BY <1>1, <1>2, <1>3, <1>4, <1>5, <1>6, <1>7, <1>8, <1>9, <1>10, <1>11, <1>12, <1>13,
         <1>14 DEF Next, RunStep

\* Worktrees hold their own subtask's changes and the repository those of earlier ones, in
\* every behaviour.
LEMMA SourceHolds == Spec => []SourceInv
<1>1. Init => SourceInv
  BY DEF Init, SourceInv, TryPcs
<1>. QED BY <1>1, StepSource, TypeCorrect, PTL DEF Spec

\* No statement after the merge raises: git apply was the last thing that could fail.
MergedIsSaved == Raising \cap {"done", "cleanup"} = {}

\* Where nothing raises after the merge, a blocked subtask has merged nothing.
LEMMA StepBlocked ==
    MergedIsSaved /\ IInv /\ SourceInv /\ BlockedInv /\ [Next]_vars => BlockedInv'
<1>. SUFFICES ASSUME MergedIsSaved, IInv, SourceInv, BlockedInv, [Next]_vars PROVE BlockedInv'
  OBVIOUS
<1>0. TypeOK /\ StatusInv
  BY DEF IInv
<1>1. ASSUME repo' = repo, pc' # "block",
             \A s \in 1..N : rows'[s].status = "blocked" => rows[s].status = "blocked"
      PROVE  BlockedInv'
  BY <1>1 DEF BlockedInv, BlockedLeavesRepo
<1>2. ASSUME repo' = repo, cur' = cur, pc \in TryPcs \ {"done", "cleanup"},
             \A s \in 1..N : rows'[s].status = "blocked" => rows[s].status = "blocked"
      PROVE  BlockedInv'
  BY <1>2 DEF BlockedInv, BlockedLeavesRepo, SourceInv
<1>3. ASSUME Begin \/ Persist PROVE BlockedInv'
  <2>1. repo' = {}
    BY <1>3 DEF Begin, Persist, trees, SourceInv
  <2>. QED BY <2>1 DEF BlockedInv, BlockedLeavesRepo
<1>4. ASSUME TakeSubtask \/ MarkDone PROVE BlockedInv'
  <2>1. cur \in 1..N /\ rows \in [1..N -> Row]
    BY <1>0, <1>4, Limits DEF TakeSubtask, MarkDone, Subs, TypeOK, TryPcs
  <2>2. \A s \in 1..N : rows'[s].status = "blocked" => rows[s].status = "blocked"
    BY <1>4, <2>1 DEF TakeSubtask, MarkDone, Row
  <2>. QED BY <1>1, <1>4, <2>2 DEF TakeSubtask, MarkDone, trees
<1>5. ASSUME CreateWorktree \/ Build \/ Cleanup \/ Report \/ Killed \/ Hangs PROVE BlockedInv'
  BY <1>1, <1>5 DEF Hangs, CreateWorktree, Build, Cleanup, NextSubtask, Forget, Report, Killed, trees
<1>6. ASSUME ResetForAttempt \/ Generate \/ Apply \/ Judge \/ Record PROVE BlockedInv'
  <2>1. /\ repo' = repo /\ cur' = cur /\ pc \in TryPcs \ {"done", "cleanup"}
        /\ \/ rows' = rows
           \/ rows' = [rows EXCEPT ![cur].attempts = @ + 1]
           \/ rows' = [rows EXCEPT ![cur].records = @ + 1]
    BY <1>6 DEF ResetForAttempt, Generate, Apply, Judge, Record, Count, trees, plan, TryPcs
  <2>2. \A s \in 1..N : rows'[s].status = rows[s].status
    <3>1. rows \in [1..N -> Row]
      BY <1>0 DEF TypeOK
    <3>2. CASE rows' = rows
      BY <3>2
    <3>3. CASE rows' = [rows EXCEPT ![cur].attempts = @ + 1]
      BY <3>1, <3>3 DEF Row
    <3>4. CASE rows' = [rows EXCEPT ![cur].records = @ + 1]
      BY <3>1, <3>4 DEF Row
    <3>. QED BY <2>1, <3>2, <3>3, <3>4
  <2>. QED BY <1>2, <2>1, <2>2
<1>7. ASSUME OutOfAttempts \/ Regress \/ Raises PROVE BlockedInv'
  BY <1>2, <1>7, FailAssumption DEF OutOfAttempts, Regress, Raises, MergedIsSaved, trees, plan, TryPcs
<1>8. ASSUME Merge PROVE BlockedInv'
  <2>1. CASE repo' = repo
    BY <1>2, <1>8, <2>1 DEF Merge, plan, TryPcs
  <2>2. CASE repo' # repo
    <3>1. pc = "merge" /\ repo' = repo \cup Diff /\ pc' = "done" /\ rows' = rows
      BY <1>8, <2>2 DEF Merge
    <3>2. rows[cur].status # "blocked" /\ \A c \in Diff : c.sub = cur
      BY <1>0, <3>1 DEF StatusInv, SourceInv, TryPcs, Diff
    <3>. QED BY <3>1, <3>2 DEF BlockedInv, BlockedLeavesRepo
  <2>. QED BY <2>1, <2>2
<1>9. ASSUME Block PROVE BlockedInv'
  <2>1. cur \in 1..N /\ rows \in [1..N -> Row]
    BY <1>0, <1>9 DEF Block, TypeOK
  <2>2. \A s \in 1..N : rows'[s].status = "blocked" => rows[s].status = "blocked" \/ s = cur
    BY <1>9, <2>1 DEF Block, Row
  <2>3. repo' = repo /\ pc' = "next" /\ \A c \in repo : c.sub < cur
    BY <1>9 DEF Block, NextSubtask, Forget, trees, BlockedInv
  <2>. QED BY <2>1, <2>2, <2>3 DEF BlockedInv, BlockedLeavesRepo
<1>10. ASSUME UserCleans PROVE BlockedInv'
  BY <1>10 DEF UserCleans, BlockedInv, BlockedLeavesRepo
<1>11. CASE UNCHANGED vars
  BY <1>11 DEF vars, trees, plan, BlockedInv, BlockedLeavesRepo
<1>. QED BY <1>3, <1>4, <1>5, <1>6, <1>7, <1>8, <1>9, <1>10, <1>11 DEF Next, RunStep

\* A subtask that is reported blocked left nothing in the repository, provided that
\* nothing after the merge raises: attempts, regression and a merge that does not apply
\* may fail anywhere before (_block, merge_to_main).
THEOREM BlockedLeavesNothing == ASSUME MergedIsSaved PROVE Spec => []BlockedLeavesRepo
<1>1. Init => BlockedInv
  BY DEF Init, BlockedInv, BlockedLeavesRepo
<1>2. BlockedInv => BlockedLeavesRepo
  BY DEF BlockedInv
<1>3. IInv /\ SourceInv /\ BlockedInv /\ [Next]_vars => BlockedInv'
  BY StepBlocked
<1>. QED BY <1>1, <1>2, <1>3, InitIInv, StepIInv, SourceHolds, PTL DEF Spec

(***************************************************************************)
(* Which attempt they are from.                                            *)
(***************************************************************************)
LEMMA StepAttempt == TypeOK /\ SourceInv /\ AttemptInv /\ [Next]_vars => AttemptInv'
<1>. SUFFICES ASSUME TypeOK, SourceInv, AttemptInv, [Next]_vars PROVE AttemptInv'
  OBVIOUS
<1>0. strategy \in Strategies /\ tree \subseteq Change
  BY DEF TypeOK
<1>1. ASSUME repo' = {} \/ (repo' = repo /\ unreversed \subseteq unreversed'), pc' \notin AttemptPcs \cup {"regress", "merge"},
             pc' = "build" => tree' = {}
      PROVE  AttemptInv'
  BY <1>1 DEF AttemptInv, OneAttemptIsMerged, TwoAttempts, AttemptPcs
<1>2. ASSUME Begin \/ Persist \/ TakeSubtask \/ CreateWorktree \/ UserCleans PROVE AttemptInv'
  <2>1. CASE Begin \/ Persist \/ TakeSubtask \/ CreateWorktree
    BY <1>1, <2>1 DEF Begin, Persist, TakeSubtask, CreateWorktree, trees, ends, AttemptPcs
  <2>2. CASE UserCleans
    BY <1>1, <2>2 DEF UserCleans, ends, AttemptPcs
  <2>. QED BY <1>2, <2>1, <2>2
<1>3. ASSUME \/ OutOfAttempts \/ MarkDone \/ Cleanup \/ Block \/ Raises \/ Report \/ Killed
      PROVE  AttemptInv'
  BY <1>1, <1>3 DEF OutOfAttempts, MarkDone, Cleanup, Block, Raises, Report, Killed, NextSubtask, Forget,
       trees, ends, Forget, Undo, AttemptPcs
<1>4. ASSUME Build PROVE AttemptInv'
  <2>1. \A c \in tree' : c.attempt = 0
    BY <1>4 DEF Build, ends, AttemptInv, Written
  <2>. QED BY <1>4, <2>1 DEF Build, ends, AttemptInv, OneAttemptIsMerged, TwoAttempts, NoAttempt
<1>5. ASSUME ResetForAttempt PROVE AttemptInv'
  <2>1. Touches(cur) \cap Tracked = Touched[cur] \cap Tracked
    BY DEF Touches
  <2>2. /\ repo' = repo /\ cur' = cur /\ strategy' = strategy /\ unreversed' = unreversed
        /\ \/ /\ pc' = "generate" /\ pc = "attempt"
              /\ tree' = IF strategy = "choose" THEN tree ELSE Reset
           \/ pc' = "record" /\ verdict' = "skip" /\ strategy # "choose"
    BY <1>5 DEF ResetForAttempt, plan, ends
  <2>. QED BY <2>1, <2>2 DEF AttemptInv, OneAttemptIsMerged, TwoAttempts, NoAttempt, Reset
<1>6. ASSUME Generate PROVE AttemptInv'
  BY <1>6 DEF Generate, AttemptInv, OneAttemptIsMerged, TwoAttempts, NoAttempt, trees, plan, ends
<1>7. ASSUME Apply PROVE AttemptInv'
  <2>1. /\ repo' = repo /\ cur' = cur /\ strategy' = strategy /\ att' = att
        /\ unreversed' = unreversed
        /\ \A c \in tree : NoAttempt(c)
    BY <1>7 DEF Apply, plan, ends, AttemptInv
  <2>2. CASE pc' = "judge"
    <3>1. \A c \in tree' : c \in tree \/ c.attempt = att
      BY <1>7, <2>2 DEF Apply, Written
    <3>. QED BY <2>1, <2>2, <3>1 DEF AttemptInv, OneAttemptIsMerged, TwoAttempts, NoAttempt, FromAttempt
  <2>3. CASE pc' = "record"
    <3>1. /\ tree' = tree
          /\ verdict' = IF strategy = "choose_edit" THEN "retry" ELSE "skip"
      BY <1>7, <2>3 DEF Apply
    <3>. QED BY <2>1, <2>3, <3>1 DEF AttemptInv, OneAttemptIsMerged, TwoAttempts, NoAttempt, FromAttempt
  <2>. QED BY <1>7, <2>2, <2>3 DEF Apply
<1>8. ASSUME Judge PROVE AttemptInv'
  BY <1>8 DEF Judge, AttemptInv, OneAttemptIsMerged, TwoAttempts, FromAttempt, trees, plan, ends
<1>9. ASSUME Record PROVE AttemptInv'
  <2>1. /\ repo' = repo /\ cur' = cur /\ strategy' = strategy /\ pc = "record"
        /\ unreversed \subseteq unreversed'
    BY <1>9 DEF Record, Undo, plan
  <2>2. CASE pc' = "regress"
    <3>1. verdict = "passed" /\ tree' = tree /\ att' = att /\ unreversed' = unreversed
      BY <1>9, <2>2 DEF Record
    <3>. QED BY <2>1, <2>2, <3>1 DEF AttemptInv, OneAttemptIsMerged, TwoAttempts, FromAttempt
  <2>3. CASE pc' = "attempt"
    <3>1. ASSUME strategy = "choose", cur \notin unreversed' PROVE \A c \in tree' : c.attempt = 0
      <4>1. CASE verdict = "skip"
        <5>1. tree' = tree
          BY <1>9, <2>3, <4>1 DEF Record
        <5>. QED BY <2>1, <3>1, <4>1, <5>1 DEF AttemptInv, NoAttempt
      <4>2. CASE verdict # "skip"
        <5>1. tree' = tree \ Written(Paths, att)
          BY <1>9, <2>3, <3>1, <4>2 DEF Record, Undo
        <5>2. \A c \in tree : c.attempt \in {0, att} /\ c.sub = cur
          BY <2>1, <3>1, <4>2 DEF AttemptInv, FromAttempt, SourceInv, TryPcs
        <5>3. \A c \in tree : c.attempt = att => c \in Written(Paths, att)
          BY <1>0, <5>2 DEF Change, Written
        <5>. QED BY <5>1, <5>2, <5>3
      <4>. QED BY <4>1, <4>2
    <3>. QED BY <2>1, <2>3, <3>1 DEF AttemptInv, OneAttemptIsMerged, TwoAttempts, NoAttempt
  <2>4. CASE pc' = "block"
    BY <1>1, <2>1, <2>4 DEF AttemptPcs
  <2>. QED BY <1>9, <2>2, <2>3, <2>4 DEF Record
<1>10. ASSUME Regress PROVE AttemptInv'
  BY <1>10 DEF Regress, AttemptInv, OneAttemptIsMerged, TwoAttempts, FromAttempt, trees, plan, ends
<1>11. ASSUME Merge PROVE AttemptInv'
  <2>1. CASE repo' = repo /\ pc' \in {"done", "block"}
    BY <1>1, <1>11, <2>1 DEF Merge, ends, AttemptPcs
  <2>2. CASE repo' = repo \cup Diff /\ pc' = "done"
    <3>1. /\ \A c \in repo : c.path \in Tracked /\ c.sub < cur
          /\ \A c \in tree : FromAttempt(c) /\ c.sub = cur
      BY <1>11 DEF Merge, AttemptInv, SourceInv, TryPcs
    <3>2. \A c \in Diff : c \in tree /\ c.path \in Tracked
      BY DEF Diff
    <3>3. OneAttemptIsMerged'
      <4>1. \A c \in repo, d \in Diff : c.sub # d.sub
        BY <3>1, <3>2, Limits DEF TypeOK
      <4>2. \A c, d \in Diff : /\ c.sub = cur
                               /\ c.path \in Touched[cur] /\ c.path = d.path
                               /\ c.attempt # 0 /\ d.attempt # 0 /\ c.attempt # d.attempt
                               => cur \in unreversed
        BY <3>1, <3>2 DEF FromAttempt
      <4>3. unreversed' = unreversed
        BY <1>11 DEF Merge, ends
      <4>4. ASSUME NEW s \in 1..N, TwoAttempts(s)' PROVE s \in unreversed
        <5>1. PICK c \in repo', d \in repo' :
                 /\ c.path = d.path /\ c.sub = s /\ d.sub = s /\ c.path \in Touched[s]
                 /\ c.attempt # 0 /\ d.attempt # 0 /\ c.attempt # d.attempt
          BY <4>4 DEF TwoAttempts
        <5>2. (c \in repo /\ d \in repo) \/ (c \in Diff /\ d \in Diff)
          BY <2>2, <4>1, <5>1
        <5>3. CASE c \in repo /\ d \in repo
          BY <5>1, <5>3 DEF AttemptInv, OneAttemptIsMerged, TwoAttempts
        <5>4. CASE c \in Diff /\ d \in Diff
          <6>1. c.sub = cur
            BY <4>2, <5>4, <3>1, <3>2
          <6>. QED BY <4>2, <5>1, <5>4, <6>1
        <5>. QED BY <5>2, <5>3, <5>4
      <4>. QED BY <4>3, <4>4 DEF OneAttemptIsMerged
    <3>. QED BY <2>2, <3>1, <3>2, <3>3 DEF AttemptInv
  <2>. QED BY <1>11, <2>1, <2>2 DEF Merge
<1>12. CASE UNCHANGED vars
  BY <1>12 DEF vars, trees, plan, ends, AttemptInv, OneAttemptIsMerged, TwoAttempts, NoAttempt, FromAttempt
<1>13. ASSUME Hangs PROVE AttemptInv'
  BY <1>1, <1>13 DEF Hangs, trees, ends, AttemptPcs
<1>. QED BY <1>2, <1>3, <1>4, <1>5, <1>6, <1>7, <1>8, <1>9, <1>10, <1>11, <1>12, <1>13
         DEF Next, RunStep

\* Changes that two attempts of one subtask made to a file it names, beside the builder's,
\* never reach the repository together, in any strategy and whatever resets fail
\* (reset_paths), unless reverse_diff left a candidate of choose in the tree.
THEOREM OneAttemptMerged == Spec => []OneAttemptIsMerged
<1>1. Init => AttemptInv
  BY DEF Init, AttemptInv, OneAttemptIsMerged, TwoAttempts
<1>2. AttemptInv => OneAttemptIsMerged
  BY DEF AttemptInv
<1>. QED BY <1>1, <1>2, StepAttempt, TypeCorrect, SourceHolds, PTL DEF Spec

(***************************************************************************)
(* Worktrees.                                                              *)
(***************************************************************************)
\* Worktrees are named after runs so far, and after subtasks that this run has begun.
\* What is done was merged.
KeptInv ==
    /\ \A w \in there : w[1] <= run
    /\ pc # "idle" => \A w \in there : w[1] = run => w[2] <= cur
    /\ pc \in {"plan", "next", "create"} => \A w \in there : w[1] = run => w[2] < cur
    /\ pc \in {"done", "cleanup"} => Diff \subseteq repo

\* A step of WorktreesAreKept.
TreesKept ==
    /\ there \ there' # {} => Diff \subseteq repo
    /\ pc = "create" /\ pc' = "build" => there' # there

\* Every step leaves worktrees that still hold something, and makes new ones under new names.
LEMMA StepKept == TypeOK /\ KeptInv /\ [Next]_vars => KeptInv' /\ TreesKept
<1>. SUFFICES ASSUME TypeOK, KeptInv, [Next]_vars PROVE KeptInv' /\ TreesKept
  OBVIOUS
<1>. USE DEF KeptInv, TreesKept
<1>1. run \in Nat /\ cur \in Nat /\ N \in Nat \ {0}
  BY Limits DEF TypeOK
<1>2. \A w \in there : w \in Worktrees /\ w[1] \in Nat /\ w[2] \in Nat
  BY Limits DEF TypeOK, Worktrees
<1>3. ASSUME Begin PROVE KeptInv' /\ TreesKept
  BY <1>1, <1>2, <1>3 DEF Begin
<1>4. ASSUME CreateWorktree PROVE KeptInv' /\ TreesKept
  <2>1. \/ there' = there /\ pc' = "idle"
        \/ there' = there \cup {Name} /\ pc' = "build"
    BY <1>4, Zenon DEF CreateWorktree
  <2>2. Name[1] = run /\ Name[2] = cur /\ Name \notin there
    BY <1>1, <1>2, <1>4 DEF CreateWorktree, Name
  <2>3. run' = run /\ cur' = cur /\ pc = "create"
    BY <1>4 DEF CreateWorktree, plan
  <2>. QED BY <1>1, <1>2, <2>1, <2>2, <2>3
<1>5. ASSUME Merge PROVE KeptInv' /\ TreesKept
  <2>1. /\ UNCHANGED <<there, tree, run, cur>> /\ pc = "merge"
        /\ (pc' = "done" /\ Diff \subseteq repo') \/ pc' = "block"
    BY <1>5 DEF Merge, plan
  <2>2. Diff' = Diff
    BY <2>1 DEF Diff
  <2>. QED BY <2>1, <2>2
<1>6. ASSUME MarkDone PROVE KeptInv' /\ TreesKept
  BY <1>6 DEF MarkDone, trees, plan, Diff
<1>7. ASSUME Cleanup \/ Block PROVE KeptInv' /\ TreesKept
  <2>1. /\ there' \subseteq there /\ run' = run /\ cur' = cur + 1 /\ pc' = "next"
        /\ there' # there => pc = "cleanup"
        /\ pc \in {"cleanup", "block"}
    BY <1>7 DEF Cleanup, Block, NextSubtask, Forget, trees
  <2>. QED BY <1>1, <1>2, <2>1
<1>8. ASSUME UserCleans PROVE KeptInv' /\ TreesKept
  BY <1>8 DEF UserCleans, plan
<1>9. ASSUME UNCHANGED <<there, run, cur>>, pc # "create", pc' \notin {"done", "cleanup", "plan"},
             pc' \in {"next", "create"} => pc \in {"plan", "next"}, pc # "idle"
      PROVE  KeptInv' /\ TreesKept
  BY <1>9
<1>10. ASSUME \/ Persist \/ TakeSubtask \/ Build \/ ResetForAttempt \/ Generate \/ Apply
              \/ Judge \/ Record \/ OutOfAttempts
       PROVE  KeptInv' /\ TreesKept
  BY <1>9, <1>10 DEF Persist, TakeSubtask, Build, ResetForAttempt, Generate, Apply,
       Judge, Record, OutOfAttempts, trees, plan
<1>11. ASSUME Regress \/ Raises \/ Report PROVE KeptInv' /\ TreesKept
  <2>1. UNCHANGED <<there, run, cur>> /\ pc # "create" /\ pc # "idle"
    BY <1>11, FailAssumption DEF Regress, Raises, Report, trees, plan, TryPcs
  <2>. QED BY <1>9, <1>11, <2>1 DEF Regress, Raises, Report
<1>12. ASSUME Killed \/ Hangs PROVE KeptInv' /\ TreesKept
  BY <1>12, FailAssumption DEF Killed, Hangs, Forget, trees, plan, Unlimited
<1>13. CASE UNCHANGED vars
  BY <1>13 DEF vars, trees, plan, Diff
<1>. QED BY <1>3, <1>4, <1>5, <1>6, <1>7, <1>8, <1>10, <1>11, <1>12, <1>13 DEF Next, RunStep

\* A worktree is removed only after everything in it that git tracks has reached the
\* repository, and none is made where an earlier run left one, whatever raises, is killed or
\* blocks (merge_to_main, rollback, WorktreeSandbox.create).
THEOREM WorktreesKept == Spec => WorktreesAreKept
<1>1. Init => KeptInv
  BY DEF Init, KeptInv
<1>. QED BY <1>1, StepKept, TypeCorrect, PTL DEF Spec, WorktreesAreKept, TreesKept
=============================================================================
