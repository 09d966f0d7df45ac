--------------------------- MODULE BuildLoop_proofs ---------------------------
(***************************************************************************)
(* Proofs about the build loop, for any number of builds, plans, rules,    *)
(* folders and limits: no build touches a folder that was there before it  *)
(* (DirInv: from the moment it has made its folder, that folder is none of *)
(* the earlier ones), paid engines are authorised (PaidInv: whoever is     *)
(* explicit was chosen by the command line or by a rule that fits), the    *)
(* memory holds the outcome that the tests gave (OutcomeInv), and state    *)
(* and counts have their types and bounds (TypeInv).                       *)
(***************************************************************************)
EXTENDS BuildLoop, FiniteSetTheorems, WellFoundedInduction, TLAPS

\* The places of a build before it has chosen a folder.
Early == {"start", "plan", "confirm", "route", "choose"}

Fields == {"pc", "plan", "engine", "explicit", "dir", "next", "built", "always", "result",
           "attempts", "heals", "items", "findings", "status", "exit"}

Shape ==
    /\ DOMAIN run = Sessions
    /\ \A s \in Sessions : Fields \subseteq DOMAIN run[s]
    /\ DOMAIN prior = Sessions /\ DOMAIN paidFor = Sessions
    /\ DOMAIN ws = Dirs

DirInv ==
    \A s \in Sessions :
        /\ prior[s] \subseteq exists
        /\ run[s].pc \notin Early \cup {"done"} => run[s].dir \notin prior[s]

\* The engines that the build has paid or may pay.
Payable(s) == paidFor[s] \cup (IF run[s].explicit THEN {run[s].engine} ELSE {})

PaidInv ==
    \A s \in Sessions :
        /\ run[s].pc \in Early => paidFor[s] = {}
        /\ \A engine \in Payable(s) : Authorised(s, engine)
        /\ run[s].pc \in Early \ {"choose"} /\ run[s].explicit => opts[s].engine = run[s].engine

IInv == Shape /\ DirInv /\ PaidInv

\* A step of PriorBuildKept.
Kept ==
    \A s \in Sessions, d \in Dirs : ws'[d] # ws[d] /\ run'[s] # run[s] => d \notin prior[s]

(***************************************************************************)
(* What a step may do to the local state of its build.                     *)
(***************************************************************************)
Keeps(r, new) ==
    /\ DOMAIN new = DOMAIN r
    /\ new.plan = r.plan /\ new.engine = r.engine
    /\ new.explicit = r.explicit /\ new.dir = r.dir

\* A step that writes nothing into a build's state keeps what later steps must keep.
LEMMA KeepsSame == ASSUME NEW r PROVE Keeps(r, r)
BY DEF Keeps

\* So do two steps that each keep it.
LEMMA KeepsChain ==
    ASSUME NEW q, NEW r, NEW s, Keeps(q, r), Keeps(r, s)
    PROVE  Keeps(q, s)
BY DEF Keeps

\* The fields that steps set, and the new place of the build.
LEMMA SetPlace ==
    ASSUME NEW r, Fields \subseteq DOMAIN r, NEW label
    PROVE  Keeps(r, [r EXCEPT !.pc = label]) /\ [r EXCEPT !.pc = label].pc = label
BY DEF Keeps, Fields

\* Counters and marks: the fix loop's attempts, the builder's position (core/orchestrator).
LEMMA SetOne ==
    ASSUME NEW r, Fields \subseteq DOMAIN r, NEW x
    PROVE  /\ Keeps(r, [r EXCEPT !.next = x]) /\ [r EXCEPT !.next = x].pc = r.pc
           /\ Keeps(r, [r EXCEPT !.built = x]) /\ [r EXCEPT !.built = x].pc = r.pc
           /\ Keeps(r, [r EXCEPT !.always = x]) /\ [r EXCEPT !.always = x].pc = r.pc
           /\ Keeps(r, [r EXCEPT !.attempts = x]) /\ [r EXCEPT !.attempts = x].pc = r.pc
BY DEF Keeps, Fields

\* The status of a stopped or ended build.
LEMMA SetStatus ==
    ASSUME NEW r, Fields \subseteq DOMAIN r, NEW label, NEW x
    PROVE  LET new == [r EXCEPT !.pc = label, !.status = x]
           IN Keeps(r, new) /\ new.pc = label
BY DEF Keeps, Fields

\* The findings of the review.
LEMMA SetFindings ==
    ASSUME NEW r, Fields \subseteq DOMAIN r, NEW label, NEW x
    PROVE  LET new == [r EXCEPT !.pc = label, !.findings = x]
           IN Keeps(r, new) /\ new.pc = label
BY DEF Keeps, Fields

\* The exit code that Session.run returns.
LEMMA SetExit ==
    ASSUME NEW r, Fields \subseteq DOMAIN r, NEW label, NEW x, NEW y
    PROVE  LET new == [r EXCEPT !.pc = label, !.status = x, !.exit = y]
           IN Keeps(r, new) /\ new.pc = label
BY DEF Keeps, Fields

\* The build goes on, or ends, with the engine and the folder it has.
Moves(s) == \E new : Set(s, new) /\ Keeps(run[s], new) /\ new.pc \notin Early

\* Nothing but its own folder changes.
Stays(s) == DOMAIN ws' = Dirs /\ \A d \in Dirs : ws'[d] # ws[d] => d = run[s].dir

Works(s) ==
    /\ Moves(s) /\ Stays(s)
    /\ run[s].pc \notin Early \cup {"done"}
    /\ exists \subseteq exists'
    /\ \/ UNCHANGED paidFor
       \/ /\ run[s].engine \in Paid => run[s].explicit
          /\ paidFor' = [paidFor EXCEPT ![s] = @ \cup ({run[s].engine} \cap Paid)]
    /\ UNCHANGED <<opts, prior>>

\* A build that stops where it is.
Ends(s) ==
    /\ \E new : Set(s, new) /\ Keeps(run[s], new) /\ new.pc = "done"
    /\ UNCHANGED <<opts, exists, ws, prior, paidFor>>

\* A build writes its own state only.
LEMMA Others ==
    ASSUME Shape, NEW s \in Sessions, NEW new, Set(s, new)
    PROVE  /\ DOMAIN run' = Sessions /\ run'[s] = new
           /\ \A t \in Sessions \ {s} : run'[t] = run[t]
BY DEF Shape, Set

\* An authorisation depends on the options and the plan alone (model_router).
LEMMA StillAuthorised ==
    ASSUME NEW s, NEW engine, Authorised(s, engine), UNCHANGED opts,
           run'[s].plan = run[s].plan
    PROVE  Authorised(s, engine)'
BY DEF Authorised

\* A build at work inside its folder leaves the folders of others and keeps what was authorised.
LEMMA WorksKeeps ==
    ASSUME IInv, NEW s \in Sessions, Works(s)
    PROVE  IInv' /\ Kept
<1>1. PICK new : Set(s, new) /\ Keeps(run[s], new) /\ new.pc \notin Early
  BY DEF Works, Moves
<1>2. /\ DOMAIN run' = Sessions /\ run'[s] = new
      /\ \A t \in Sessions \ {s} : run'[t] = run[t]
  BY <1>1, Others DEF IInv
<1>3. \A t \in Sessions : Keeps(run[t], run'[t])
  BY <1>1, <1>2, KeepsSame
<1>4. /\ DOMAIN paidFor' = Sessions
      /\ \A t \in Sessions \ {s} : paidFor'[t] = paidFor[t]
      /\ \A engine \in paidFor'[s] : engine \in paidFor[s] \/ (engine = run[s].engine /\ run[s].explicit)
  BY DEF Works, IInv, Shape
<1>5. Shape'
  BY <1>2, <1>3, <1>4 DEF IInv, Shape, Works, Stays, Keeps
<1>6. DirInv'
  BY <1>1, <1>2, <1>3 DEF IInv, DirInv, Works, Keeps
<1>7. ASSUME NEW t \in Sessions, NEW engine, Authorised(t, engine)
      PROVE  Authorised(t, engine)'
  BY <1>3, <1>7, StillAuthorised DEF Works, Keeps
<1>8. PaidInv'
  <2>. SUFFICES ASSUME NEW t \in Sessions
                PROVE  /\ run'[t].pc \in Early => paidFor'[t] = {}
                       /\ \A engine \in Payable(t)' : Authorised(t, engine)'
                       /\ run'[t].pc \in Early \ {"choose"} /\ run'[t].explicit =>
                              opts'[t].engine = run'[t].engine
    BY DEF PaidInv
  <2>1. /\ run'[t].pc \in Early => t # s /\ run'[t] = run[t]
        /\ run'[t].explicit = run[t].explicit /\ run'[t].engine = run[t].engine
        /\ opts' = opts
    BY <1>1, <1>2, <1>3 DEF Keeps, Works
  <2>2. Payable(t)' \subseteq Payable(t)
    BY <1>4, <2>1 DEF Payable
  <2>3. /\ run[t].pc \in Early => paidFor[t] = {}
        /\ \A engine \in Payable(t) : Authorised(t, engine)
        /\ run[t].pc \in Early \ {"choose"} /\ run[t].explicit => opts[t].engine = run[t].engine
    BY DEF IInv, PaidInv
  <2>4. \A engine \in Payable(t)' : Authorised(t, engine)'
    BY <1>7, <2>2, <2>3
  <2>. QED BY <1>4, <2>1, <2>3, <2>4
<1>9. Kept
  BY <1>2 DEF Kept, Works, Stays, IInv, DirInv
<1>. QED BY <1>5, <1>6, <1>8, <1>9 DEF IInv

\* So does a build that ends.
LEMMA EndsKeeps ==
    ASSUME IInv, NEW s \in Sessions, Ends(s)
    PROVE  IInv' /\ Kept
<1>1. PICK new : Set(s, new) /\ Keeps(run[s], new) /\ new.pc = "done"
  BY DEF Ends
<1>2. /\ DOMAIN run' = Sessions /\ run'[s] = new
      /\ \A t \in Sessions \ {s} : run'[t] = run[t]
  BY <1>1, Others DEF IInv
<1>3. \A t \in Sessions : Keeps(run[t], run'[t])
  BY <1>1, <1>2, KeepsSame
<1>4. Shape' /\ DirInv' /\ Kept
  BY <1>1, <1>2, <1>3 DEF Ends, IInv, Shape, DirInv, Keeps, Kept
<1>5. ASSUME NEW t \in Sessions, NEW engine, Authorised(t, engine)
      PROVE  Authorised(t, engine)'
  BY <1>3, <1>5, StillAuthorised DEF Ends, Keeps
<1>6. PaidInv'
  <2>. SUFFICES ASSUME NEW t \in Sessions
                PROVE  /\ run'[t].pc \in Early => paidFor'[t] = {}
                       /\ \A engine \in Payable(t)' : Authorised(t, engine)'
                       /\ run'[t].pc \in Early \ {"choose"} /\ run'[t].explicit =>
                              opts'[t].engine = run'[t].engine
    BY DEF PaidInv
  <2>1. /\ run'[t].pc \in Early => run'[t] = run[t]
        /\ run'[t].explicit = run[t].explicit /\ run'[t].engine = run[t].engine
        /\ opts' = opts /\ paidFor' = paidFor
    BY <1>1, <1>2, <1>3 DEF Keeps, Ends, Early
  <2>2. Payable(t)' = Payable(t)
    BY <2>1 DEF Payable
  <2>3. /\ run[t].pc \in Early => paidFor[t] = {}
        /\ \A engine \in Payable(t) : Authorised(t, engine)
        /\ run[t].pc \in Early \ {"choose"} /\ run[t].explicit => opts[t].engine = run[t].engine
    BY DEF IInv, PaidInv
  <2>4. \A engine \in Payable(t)' : Authorised(t, engine)'
    BY <1>5, <2>2, <2>3
  <2>. QED BY <2>1, <2>3, <2>4
<1>. QED BY <1>4, <1>6 DEF IInv

(***************************************************************************)
(* Every step after the folder is chosen works there.                      *)
(***************************************************************************)
LEMMA WriteWorks ==
    ASSUME Shape, NEW s \in Sessions, NEW path, NEW content, NEW a, NEW b,
           Keeps(run[s], a), Keeps(run[s], b), a.pc \notin Early, b.pc \notin Early,
           Write(s, path, content, a, b)
    PROVE  Moves(s) /\ Stays(s)
<1>1. Fields \subseteq DOMAIN a /\ Fields \subseteq DOMAIN b
  BY DEF Shape, Keeps
<1>2. ASSUME NEW x
      PROVE  /\ Keeps(run[s], [a EXCEPT !.always = x]) /\ [a EXCEPT !.always = x].pc \notin Early
             /\ Keeps(run[s], [b EXCEPT !.always = x]) /\ [b EXCEPT !.always = x].pc \notin Early
  <2>1. Keeps(a, [a EXCEPT !.always = x]) /\ Keeps(b, [b EXCEPT !.always = x])
    BY <1>1, SetOne
  <2>2. [a EXCEPT !.always = x].pc = a.pc /\ [b EXCEPT !.always = x].pc = b.pc
    BY <1>1, SetOne
  <2>. QED BY <2>1, <2>2, KeepsChain
<1>3. PICK sticky : \/ Set(s, [a EXCEPT !.always = sticky])
                       /\ ws' = [ws EXCEPT ![run[s].dir][path] = content]
                    \/ Set(s, [b EXCEPT !.always = sticky]) /\ UNCHANGED ws
  BY DEF Write
<1>4. Moves(s)
  BY <1>2, <1>3 DEF Moves
<1>5. Stays(s)
  BY <1>3 DEF Stays, Shape
<1>. QED BY <1>4, <1>5

\* The build of one file.
LEMMA BuildWorks ==
    ASSUME Shape, NEW s \in Sessions, BuildFile(s)
    PROVE  Works(s)
<1>. DEFINE r == run[s]
            path == BuildOrder(r.plan)[r.next]
            left == [r EXCEPT !.next = @ + 1]
            kept == [left EXCEPT !.built = @ \cup {path}]
<1>1. Fields \subseteq DOMAIN r
  BY DEF Shape
<1>2. Keeps(r, left) /\ left.pc = r.pc
  BY <1>1, SetOne
<1>3. Fields \subseteq DOMAIN left
  BY <1>1, <1>2 DEF Keeps
<1>. HIDE DEF left
<1>4. Keeps(left, kept) /\ kept.pc = left.pc
  BY <1>3, SetOne
<1>. HIDE DEF kept
<1>5. Keeps(r, kept) /\ kept.pc = r.pc
  BY <1>2, <1>4, KeepsChain
<1>6. r.pc \notin Early \cup {"done"}
  BY DEF BuildFile, At, Early
<1>7. /\ \/ \E content : Write(s, path, content, kept, left)
         \/ Set(s, left) /\ UNCHANGED ws
      /\ \/ UNCHANGED paidFor
         \/ /\ r.engine \in Paid => r.explicit
            /\ paidFor' = [paidFor EXCEPT ![s] = @ \cup ({r.engine} \cap Paid)]
      /\ UNCHANGED <<opts, prior, exists>>
  BY DEF BuildFile, left, kept
<1>8. Moves(s) /\ Stays(s)
  <2>1. CASE \E content : Write(s, path, content, kept, left)
    BY <1>2, <1>5, <1>6, <2>1, WriteWorks
  <2>2. CASE Set(s, left) /\ UNCHANGED ws
    BY <1>2, <1>6, <2>2 DEF Moves, Stays, Shape
  <2>. QED BY <1>7, <2>1, <2>2
<1>. QED BY <1>6, <1>7, <1>8 DEF Works

\* Going to a place, with or without an outcome.
LEMMA GotoMoves ==
    ASSUME Shape, NEW s \in Sessions, NEW label, label \notin Early, Goto(s, label)
    PROVE  Moves(s)
<1>1. Set(s, [run[s] EXCEPT !.pc = label])
  BY DEF Goto, Set, Shape
<1>2. Keeps(run[s], [run[s] EXCEPT !.pc = label]) /\ [run[s] EXCEPT !.pc = label].pc = label
  BY SetPlace DEF Shape
<1>. QED BY <1>1, <1>2 DEF Moves

\* Ended, with the status and exit code, is a move.
LEMMA EndedMoves ==
    ASSUME Shape, NEW s \in Sessions, NEW status, Ended(s, status)
    PROVE  Moves(s)
<1>. DEFINE exit == IF status = "passed" THEN 0 ELSE 1
            new == [run[s] EXCEPT !.pc = "done", !.status = status, !.exit = exit]
<1>1. Set(s, new)
  BY DEF Ended, Set, Shape
<1>2. Keeps(run[s], new) /\ new.pc = "done"
  <2>1. Fields \subseteq DOMAIN run[s]
    BY DEF Shape
  <2>. HIDE DEF exit
  <2>. QED BY <2>1, SetExit
<1>. HIDE DEF new
<1>. QED BY <1>1, <1>2 DEF Moves, Early

\* Stop ends a build that was refused, blocked or interrupted.
LEMMA StopEnds ==
    ASSUME Shape, NEW s \in Sessions, NEW status, Stop(s, status)
    PROVE  \E new : Set(s, new) /\ Keeps(run[s], new) /\ new.pc = "done"
<1>. DEFINE new == [run[s] EXCEPT !.pc = "done", !.status = status]
<1>1. Set(s, new)
  BY DEF Stop, Set, Shape
<1>2. Keeps(run[s], new) /\ new.pc = "done"
  BY SetStatus DEF Shape
<1>. HIDE DEF new
<1>. QED BY <1>1, <1>2

\* The review changes findings only (brains/reviewer).
LEMMA ReviewMoves ==
    ASSUME Shape, NEW s \in Sessions, Review(s)
    PROVE  Moves(s)
<1>1. PICK findings : run' = [run EXCEPT ![s].pc = "test", ![s].findings = findings]
  BY DEF Review
<1>. DEFINE new == [run[s] EXCEPT !.pc = "test", !.findings = findings]
<1>2. Set(s, new)
  BY <1>1 DEF Set, Shape
<1>3. Keeps(run[s], new) /\ new.pc = "test"
  BY SetFindings DEF Shape
<1>. HIDE DEF new
<1>. QED BY <1>2, <1>3 DEF Moves, Early

\* Running the tests, and a turn of the fix loop.
LEMMA TestMoves ==
    ASSUME Shape, NEW s \in Sessions, Test(s)
    PROVE  Moves(s)
<1>1. PICK result, always, label :
         /\ Set(s, [run[s] EXCEPT !.result = result, !.always = always, !.pc = label])
         /\ label \in {"fix", "judge"}
  BY DEF Test
<1>. DEFINE new == [run[s] EXCEPT !.result = result, !.always = always, !.pc = label]
<1>2. Keeps(run[s], new) /\ new.pc = label
  <2>1. Fields \subseteq DOMAIN run[s]
    BY DEF Shape
  <2>. QED BY <2>1 DEF Keeps, Fields
<1>. HIDE DEF new
<1>. QED BY <1>1, <1>2 DEF Moves, Early, new

\* An attempt to fix, whether the fixer writes, is refused or gives up (Session.run).
LEMMA FixWorks ==
    ASSUME Shape, NEW s \in Sessions, Fix(s)
    PROVE  Moves(s) /\ Stays(s)
<1>. DEFINE counted == [run[s] EXCEPT !.attempts = @ + 1]
            given_up == [counted EXCEPT !.pc = "judge"]
            again == [counted EXCEPT !.pc = "test"]
            crashed == [counted EXCEPT !.pc = "done", !.status = "crashed"]
<1>1. Keeps(run[s], counted)
  BY SetOne, SetPlace, SetStatus DEF Shape
<1>2. Fields \subseteq DOMAIN counted
  BY <1>1 DEF Shape, Keeps
<1>3. \/ Set(s, crashed) /\ UNCHANGED ws
      \/ Set(s, given_up) /\ UNCHANGED ws
      \/ \E path, fix : Write(s, path, fix, again, given_up)
  BY DEF Fix
<1>. HIDE DEF counted
<1>4. /\ Keeps(counted, given_up) /\ given_up.pc = "judge"
      /\ Keeps(counted, again) /\ again.pc = "test"
      /\ Keeps(counted, crashed) /\ crashed.pc = "done"
  BY <1>2, SetOne, SetPlace, SetStatus
<1>. HIDE DEF given_up, again, crashed
<1>5. Keeps(run[s], given_up) /\ Keeps(run[s], again) /\ Keeps(run[s], crashed)
  BY <1>1, <1>4, KeepsChain
<1>6. CASE \E path, fix : Write(s, path, fix, again, given_up)
  BY <1>4, <1>5, <1>6, WriteWorks DEF Early
<1>7. CASE (Set(s, crashed) \/ Set(s, given_up)) /\ UNCHANGED ws
  BY <1>4, <1>5, <1>7 DEF Moves, Stays, Shape, Early
<1>. QED BY <1>3, <1>6, <1>7

\* Judging the build and repairing it.
LEMMA JudgeMoves ==
    ASSUME Shape, NEW s \in Sessions, Judge(s)
    PROVE  Moves(s)
<1>1. PICK status :
         LET done == [run[s] EXCEPT !.pc = "record", !.status = status]
         IN \/ Set(s, done)
            \/ \E other, items : \E label \in {"heal", "record"} :
                  Set(s, [done EXCEPT !.status = other, !.pc = label, !.items = items])
  BY DEF Judge
<1>. DEFINE done == [run[s] EXCEPT !.pc = "record", !.status = status]
<1>2. Keeps(run[s], done) /\ done.pc = "record"
  BY SetStatus DEF Shape
<1>3. Fields \subseteq DOMAIN done
  BY <1>2 DEF Shape, Keeps
<1>4. \/ Set(s, done)
      \/ \E other, items : \E label \in {"heal", "record"} :
            Set(s, [done EXCEPT !.status = other, !.pc = label, !.items = items])
  BY <1>1
<1>. HIDE DEF done
<1>5. CASE Set(s, done)
  BY <1>2, <1>5 DEF Moves, Early
<1>6. ASSUME NEW other, NEW label \in {"heal", "record"}, NEW items,
             Set(s, [done EXCEPT !.status = other, !.pc = label, !.items = items])
      PROVE  Moves(s)
  <2>. DEFINE new == [done EXCEPT !.status = other, !.pc = label, !.items = items]
  <2>1. Keeps(done, new) /\ new.pc = label
    BY <1>3 DEF Keeps, Fields
  <2>. HIDE DEF new
  <2>2. Keeps(run[s], new)
    BY <1>2, <2>1, KeepsChain
  <2>. QED BY <1>6, <2>1, <2>2 DEF Moves, Early, new
<1>. QED BY <1>4, <1>5, <1>6

\* A cycle of self-healing begins with the work items of the failing criteria (run_cycle).
LEMMA HealMoves ==
    ASSUME Shape, NEW s \in Sessions, Heal(s)
    PROVE  Moves(s)
<1>1. PICK items : Set(s, [run[s] EXCEPT !.pc = "write", !.heals = @ + 1, !.items = items,
                                        !.next = 1])
  BY DEF Heal
<1>. DEFINE new == [run[s] EXCEPT !.pc = "write", !.heals = @ + 1, !.items = items, !.next = 1]
<1>2. Keeps(run[s], new) /\ new.pc = "write"
  <2>1. Fields \subseteq DOMAIN run[s]
    BY DEF Shape
  <2>. QED BY <2>1 DEF Keeps, Fields
<1>. QED BY <1>1, <1>2 DEF Moves, Early

\* It writes one item after the other into the build's own folder.
LEMMA HealWriteWorks ==
    ASSUME Shape, NEW s \in Sessions, HealWrite(s)
    PROVE  Moves(s) /\ Stays(s)
<1>. DEFINE label == IF run[s].next = Len(run[s].items) THEN "verify" ELSE "write"
            later == [run[s] EXCEPT !.next = @ + 1, !.pc = label]
<1>1. Keeps(run[s], later) /\ later.pc = label
  <2>1. Fields \subseteq DOMAIN run[s]
    BY DEF Shape
  <2>. QED BY <2>1 DEF Keeps, Fields
<1>2. \E path, content : Write(s, path, content, later, later)
  BY DEF HealWrite
<1>. HIDE DEF later
<1>. QED BY <1>1, <1>2, WriteWorks DEF Early

\* Every step from the making of the folder to the row keeps the invariant.
LEMMA WorkKeeps ==
    ASSUME IInv, NEW s \in Sessions,
           MakeDir(s) \/ BuildFile(s) \/ EndBuild(s) \/ Review(s) \/ Test(s) \/ Fix(s)
              \/ Judge(s) \/ Heal(s) \/ HealWrite(s) \/ HealVerify(s) \/ Record(s)
    PROVE  IInv' /\ Kept
<1>1. Shape
  BY DEF IInv
<1>2. ASSUME Moves(s), UNCHANGED <<opts, prior, paidFor>>, exists \subseteq exists',
             Stays(s), run[s].pc \notin Early \cup {"done"}
      PROVE  IInv' /\ Kept
  BY <1>2, WorksKeeps DEF Works
<1>3. UNCHANGED ws => Stays(s)
  BY <1>1 DEF Stays, Shape
<1>. USE DEF Local, history, memory
<1>4. CASE MakeDir(s)
  <2>1. Goto(s, "build") /\ exists \subseteq exists' /\ run[s].pc = "make"
    BY <1>4 DEF MakeDir, At
  <2>2. Moves(s)
    BY <1>1, <2>1, GotoMoves DEF Early
  <2>. QED BY <1>2, <1>3, <1>4, <2>1, <2>2 DEF MakeDir, Early
<1>5. CASE BuildFile(s)
  BY <1>1, <1>5, BuildWorks, WorksKeeps
<1>6. CASE EndBuild(s)
  <2>1. /\ run[s].pc = "build"
        /\ Ended(s, "failed") \/ \E label \in {"review", "test"} : Goto(s, label)
    BY <1>6 DEF EndBuild, At
  <2>2. Moves(s)
    BY <1>1, <2>1, GotoMoves, EndedMoves DEF Early
  <2>. QED BY <1>2, <1>3, <1>6, <2>1, <2>2 DEF EndBuild, Early
<1>7. CASE Review(s)
  <2>1. run[s].pc = "review" /\ Moves(s)
    BY <1>1, <1>7, ReviewMoves DEF Review, At
  <2>. QED BY <1>2, <1>3, <1>7, <2>1 DEF Review, Early
<1>8. CASE Test(s)
  <2>1. run[s].pc = "test" /\ Moves(s)
    BY <1>1, <1>8, TestMoves DEF Test, At
  <2>. QED BY <1>2, <1>3, <1>8, <2>1 DEF Test, Early
<1>9. CASE Fix(s)
  <2>1. run[s].pc = "fix" /\ Moves(s) /\ Stays(s)
    BY <1>1, <1>9, FixWorks DEF Fix, At
  <2>. QED BY <1>2, <1>9, <2>1 DEF Fix, Early
<1>10. CASE Judge(s)
  <2>1. run[s].pc = "judge" /\ Moves(s)
    BY <1>1, <1>10, JudgeMoves DEF Judge, At
  <2>. QED BY <1>2, <1>3, <1>10, <2>1 DEF Judge, Early
<1>11. CASE Heal(s)
  <2>1. run[s].pc = "heal" /\ Moves(s)
    BY <1>1, <1>11, HealMoves DEF Heal, At
  <2>. QED BY <1>2, <1>3, <1>11, <2>1 DEF Heal, Early
<1>12. CASE HealWrite(s)
  <2>1. run[s].pc = "write" /\ Moves(s) /\ Stays(s)
    BY <1>1, <1>12, HealWriteWorks DEF HealWrite, At
  <2>. QED BY <1>2, <1>12, <2>1 DEF HealWrite, Early
<1>13. CASE HealVerify(s)
  <2>1. run[s].pc = "verify" /\ \E label \in {"record", "heal"} : Goto(s, label)
    BY <1>13 DEF HealVerify, At
  <2>2. Moves(s)
    BY <1>1, <2>1, GotoMoves DEF Early
  <2>. QED BY <1>2, <1>3, <1>13, <2>1, <2>2 DEF HealVerify, Early
<1>14. CASE Record(s)
  <2>1. run[s].pc = "record" /\ Moves(s)
    BY <1>1, <1>14, EndedMoves DEF Record, At
  <2>. QED BY <1>2, <1>3, <1>14, <2>1 DEF Record, Early
<1>. QED BY <1>4, <1>5, <1>6, <1>7, <1>8, <1>9, <1>10, <1>11, <1>12, <1>13, <1>14

(***************************************************************************)
(* The steps before.                                                       *)
(***************************************************************************)
LEMMA StopKeeps ==
    ASSUME IInv, NEW s \in Sessions, NEW status, Stop(s, status),
           UNCHANGED <<opts, exists, ws, prior, paidFor>>
    PROVE  IInv' /\ Kept
<1>1. Ends(s)
  BY StopEnds DEF Ends, IInv
<1>. QED BY <1>1, EndsKeeps

\* Somebody chose the engine of a local state.
Chosen(o, r) ==
    \/ o.engine = r.engine
    \/ o.engine = "auto" /\ \E i \in Matching(r.plan, o) : Rules[i].engine = r.engine

\* A step that leaves folders and payments alone.
LEMMA PrepareKeeps ==
    ASSUME IInv, NEW s \in Sessions, NEW new, Set(s, new),
           DOMAIN new = DOMAIN run[s], run[s].pc \in Early,
           UNCHANGED <<opts, exists, ws, paidFor>>,
           prior' = prior \/ prior' = [prior EXCEPT ![s] = exists],
           new.pc \notin Early \cup {"done"} => new.dir \notin exists,
           new.explicit => Chosen(opts[s], new),
           new.pc \in Early \ {"choose"} /\ new.explicit => opts[s].engine = new.engine
    PROVE  IInv' /\ Kept
<1>1. /\ DOMAIN run' = Sessions /\ run'[s] = new
      /\ \A t \in Sessions \ {s} : run'[t] = run[t]
  BY Others DEF IInv
<1>2. /\ DOMAIN prior' = Sessions
      /\ prior'[s] \subseteq exists
      /\ \A t \in Sessions \ {s} : prior'[t] = prior[t]
  BY DEF IInv, Shape, DirInv
<1>3. Shape'
  BY <1>1, <1>2 DEF IInv, Shape
<1>4. DirInv'
  BY <1>1, <1>2 DEF IInv, DirInv
<1>5. PaidInv'
  <2>. SUFFICES ASSUME NEW t \in Sessions
                PROVE  /\ run'[t].pc \in Early => paidFor'[t] = {}
                       /\ \A engine \in Payable(t)' : Authorised(t, engine)'
                       /\ run'[t].pc \in Early \ {"choose"} /\ run'[t].explicit =>
                              opts'[t].engine = run'[t].engine
    BY DEF PaidInv
  <2>1. CASE t = s
    <3>1. paidFor'[s] = {}
      BY DEF IInv, PaidInv
    <3>2. ASSUME NEW engine \in Payable(s)' PROVE Authorised(s, engine)'
      BY <1>1, <3>1, <3>2 DEF Payable, Authorised, Chosen
    <3>. QED BY <1>1, <2>1, <3>1, <3>2
  <2>2. CASE t # s
    <3>1. run'[t] = run[t] /\ Payable(t)' = Payable(t)
      BY <1>1, <2>2 DEF Payable
    <3>2. \A engine \in Payable(t) : Authorised(t, engine)'
      BY <3>1, StillAuthorised DEF IInv, PaidInv
    <3>. QED BY <3>1, <3>2 DEF IInv, PaidInv
  <2>. QED BY <2>1, <2>2
<1>. QED BY <1>3, <1>4, <1>5 DEF IInv, Kept

\* Of the chosen engines, only that of a rule that fits is explicit.
LEMMA RuleChose ==
    ASSUME NEW plan, NEW o, o.engine = "auto", NEW d \in Decisions(plan, o), Explicit(d)
    PROVE  \E i \in Matching(plan, o) : Rules[i].engine = d.engine
<1>1. Matching(plan, o) # {}
  BY DEF Decisions, Explicit
<1>2. PICK i \in Least(Matching(plan, o)) :
         \/ d = [engine |-> Rules[i].engine, rule |-> Rules[i].name, fallback |-> FALSE]
         \/ d = [engine |-> o.default, rule |-> Rules[i].name, fallback |-> TRUE]
  BY <1>1 DEF Decisions
<1>. QED BY <1>2 DEF Explicit, Least

\* So does every step before it, where the engine is routed and the folder is chosen among the
\* free ones.
LEMMA EarlyKeeps ==
    ASSUME IInv, NEW s \in Sessions,
           Begin(s) \/ MakePlan(s) \/ ConfirmPlan(s) \/ Route(s) \/ ChooseDir(s)
    PROVE  IInv' /\ Kept
<1>1. Fields \subseteq DOMAIN run[s] /\ Shape
  BY DEF IInv, Shape
<1>2. /\ run[s].pc \in Early \ {"choose"} /\ run[s].explicit => opts[s].engine = run[s].engine
      /\ run[s].explicit => Chosen(opts[s], run[s])
  BY DEF IInv, PaidInv, Payable, Authorised, Chosen
<1>3. ASSUME NEW label \in Early \ {"start"}, Goto(s, label), run[s].pc \in Early \ {"choose"},
             UNCHANGED <<opts, exists, ws, paidFor>>,
             prior' = prior \/ prior' = [prior EXCEPT ![s] = exists]
      PROVE  IInv' /\ Kept
  <2>. DEFINE new == [run[s] EXCEPT !.pc = label]
  <2>1. Set(s, new)
    BY <1>1, <1>3 DEF Goto, Set, Shape
  <2>2. Keeps(run[s], new) /\ new.pc = label
    BY <1>1, SetPlace
  <2>. HIDE DEF new
  <2>3. new.explicit => Chosen(opts[s], new)
    BY <1>2, <2>2 DEF Keeps, Chosen
  <2>. QED BY <1>2, <1>3, <2>1, <2>2, <2>3, PrepareKeeps DEF Keeps
<1>. USE DEF Local, history, memory
<1>4. CASE Begin(s)
  <2>1. CASE Stop(s, "empty") /\ UNCHANGED prior
    BY <1>4, <2>1, StopKeeps DEF Begin
  <2>2. CASE Goto(s, "plan") /\ prior' = [prior EXCEPT ![s] = exists]
    BY <1>3, <1>4, <2>2 DEF Begin, At, Early
  <2>. QED BY <1>4, <2>1, <2>2 DEF Begin
<1>5. CASE MakePlan(s)
  <2>1. ASSUME NEW status, Stop(s, status) PROVE IInv' /\ Kept
    BY <1>5, <2>1, StopKeeps DEF MakePlan
  <2>2. ASSUME NEW plan, NEW label \in {"route", "confirm"},
               Set(s, [run[s] EXCEPT !.plan = plan, !.pc = label])
        PROVE  IInv' /\ Kept
    <3>. DEFINE new == [run[s] EXCEPT !.plan = plan, !.pc = label]
    <3>1. /\ DOMAIN new = DOMAIN run[s] /\ new.pc = label
          /\ new.explicit = run[s].explicit /\ new.engine = run[s].engine
      BY <1>1 DEF Fields
    <3>2. Set(s, new) /\ run[s].pc = "plan" /\ UNCHANGED <<opts, exists, ws, paidFor, prior>>
      BY <1>5, <2>2 DEF MakePlan, At
    <3>. HIDE DEF new
    <3>3. new.explicit => opts[s].engine = new.engine
      BY <1>2, <3>1, <3>2 DEF Early
    <3>. QED BY <3>1, <3>2, <3>3, PrepareKeeps DEF Chosen, Early
  <2>3. \/ \E status : Stop(s, status)
        \/ \E plan : \E label \in {"route", "confirm"} :
              Set(s, [run[s] EXCEPT !.plan = plan, !.pc = label])
    BY <1>5 DEF MakePlan
  <2>. QED BY <2>1, <2>2, <2>3
<1>6. CASE ConfirmPlan(s)
  <2>1. CASE Stop(s, "declined")
    BY <1>6, <2>1, StopKeeps DEF ConfirmPlan
  <2>2. CASE Goto(s, "route")
    BY <1>3, <1>6, <2>2 DEF ConfirmPlan, At, Early
  <2>. QED BY <1>6, <2>1, <2>2 DEF ConfirmPlan
<1>7. CASE Route(s)
  <2>1. CASE Goto(s, "choose")
    BY <1>3, <1>7, <2>1 DEF Route, At, Early
  <2>2. ASSUME opts[s].engine = "auto", NEW d \in Decisions(run[s].plan, opts[s]),
               Set(s, [run[s] EXCEPT !.pc = "choose", !.engine = d.engine, !.explicit = Explicit(d)])
        PROVE  IInv' /\ Kept
    <3>. DEFINE chosen == Explicit(d)
                new == [run[s] EXCEPT !.pc = "choose", !.engine = d.engine, !.explicit = chosen]
    <3>1. chosen => \E i \in Matching(run[s].plan, opts[s]) : Rules[i].engine = d.engine
      BY <2>2, RuleChose
    <3>2. Set(s, new) /\ run[s].pc = "route" /\ UNCHANGED <<opts, exists, ws, paidFor, prior>>
      BY <1>7, <2>2 DEF Route, At
    <3>. HIDE DEF chosen
    <3>3. /\ DOMAIN new = DOMAIN run[s] /\ new.pc = "choose" /\ new.plan = run[s].plan
          /\ new.explicit = chosen /\ new.engine = d.engine
      BY <1>1 DEF Fields
    <3>. HIDE DEF new
    <3>4. new.explicit => Chosen(opts[s], new)
      BY <2>2, <3>1, <3>3 DEF Chosen
    <3>. QED BY <3>2, <3>3, <3>4, PrepareKeeps DEF Early
  <2>3. \/ Goto(s, "choose")
        \/ /\ opts[s].engine = "auto"
           /\ \E d \in Decisions(run[s].plan, opts[s]) :
                 Set(s, [run[s] EXCEPT !.pc = "choose", !.engine = d.engine,
                                       !.explicit = Explicit(d)])
    BY <1>7 DEF Route
  <2>. QED BY <2>1, <2>2, <2>3
<1>8. CASE ChooseDir(s)
  <2>1. PICK d \in Least(Free) : Set(s, [run[s] EXCEPT !.pc = "make", !.dir = d])
    BY <1>8 DEF ChooseDir
  <2>. DEFINE new == [run[s] EXCEPT !.pc = "make", !.dir = d]
  <2>2. /\ DOMAIN new = DOMAIN run[s] /\ new.pc = "make" /\ new.dir = d
        /\ new.explicit = run[s].explicit /\ new.engine = run[s].engine
        /\ new.plan = run[s].plan
    BY <1>1 DEF Fields
  <2>3. Set(s, new) /\ run[s].pc = "choose" /\ UNCHANGED <<opts, exists, ws, paidFor, prior>>
    BY <1>8, <2>1 DEF ChooseDir, At
  <2>. HIDE DEF new
  <2>4. new.explicit => Chosen(opts[s], new)
    BY <1>2, <2>2 DEF Chosen
  <2>5. d \notin exists
    BY <2>1 DEF Least, Free
  <2>. QED BY <2>2, <2>3, <2>4, <2>5, PrepareKeeps DEF Early
<1>. QED BY <1>4, <1>5, <1>6, <1>7, <1>8

(***************************************************************************)
(* The theorems.                                                           *)
(***************************************************************************)
LEMMA InitInv == Init => IInv
<1>. SUFFICES ASSUME Init PROVE IInv
  OBVIOUS
<1>1. \A s \in Sessions : run[s] = NewRun(opts[s])
  BY DEF Init
<1>2. \A o : /\ Fields \subseteq DOMAIN NewRun(o)
             /\ NewRun(o).pc \in {"start", "done"}
             /\ NewRun(o).explicit => NewRun(o).engine = o.engine
  BY DEF NewRun, Fields
<1>3. Shape /\ DirInv
  BY <1>1, <1>2 DEF Init, Shape, DirInv, Early
<1>4. PaidInv
  BY <1>1, <1>2 DEF Init, PaidInv, Payable, Authorised, Early
<1>. QED BY <1>3, <1>4 DEF IInv

\* The invariant is inductive, and no step changes a folder that was there before.
LEMMA StepInv == IInv /\ [Next]_vars => IInv' /\ Kept
<1>. SUFFICES ASSUME IInv, [Next]_vars PROVE IInv' /\ Kept
  OBVIOUS
<1>1. ASSUME NEW s \in Sessions, Step(s) PROVE IInv' /\ Kept
  BY <1>1, EarlyKeeps, WorkKeeps DEF Step
<1>2. ASSUME NEW s \in Sessions, Interrupt(s) PROVE IInv' /\ Kept
  BY <1>2, StopKeeps DEF Interrupt
<1>3. CASE UNCHANGED vars
  BY <1>3 DEF vars, memory, history, IInv, Shape, DirInv, PaidInv, Payable, Authorised, Kept
<1>. QED BY <1>1, <1>2, <1>3 DEF Next

\* "never clobber a prior build": whatever builds run at once, and however they end, none
\* changes a folder that existed when it began.
THEOREM PriorKept == Spec => PriorBuildKept
BY InitInv, StepInv, PTL DEF Spec, PriorBuildKept, Kept

\* A paid engine generates a file only if the command line or a rule that fits chose it,
\* for any rules, plans and defaults, and whether or not that engine is there.
THEOREM PaidAuthorised == Spec => []PaidIsAuthorised
<1>1. IInv => PaidIsAuthorised
  BY DEF IInv, PaidInv, Payable, PaidIsAuthorised
<1>. QED BY <1>1, InitInv, StepInv, PTL DEF Spec

(***************************************************************************)
(* What is recorded.  Sound(s) follows one build: a result is "ok" only    *)
(* from the tests on, and then the folder holds what was tested unless a   *)
(* repair or a build with the same folder wrote since; the build has no    *)
(* row before it is done, and then the row of its status.                  *)
(***************************************************************************)
Before == Early \cup {"make", "build", "review", "test", "fix"}
Judged == {"heal", "write", "verify", "record"}

TestedIsThere(s) == s \in healed \/ Shares(s) \/ ws[run[s].dir] \in tested[s]

Sound(s) ==
    LET r == run[s]
    IN /\ r.pc \in Before \cup Judged \cup {"judge", "done"}
       /\ r.pc \in Early => r.dir = 0
       /\ r.pc = "done" => r.dir \in Dirs \cup {0}
       /\ r.pc \notin Early \cup {"done"} => r.dir \in Dirs
       /\ r.pc \in Before => r.result # "ok"
       /\ r.pc \in Before \cup {"judge"} => r.status = "none"
       /\ r.pc \in Judged => r.status \in Finished
       /\ r.status \in {"passed", "accept_failed"} => r.result = "ok"
       /\ r.result = "ok" => r.dir \in Dirs /\ tested[s] # {} /\ TestedIsThere(s)
       /\ r.pc # "done" => r.exit = 1 /\ lessons[s].success = 0
       /\ r.exit = 0 => r.status = "passed"
       /\ lessons[s].success = 1 => tested[s] # {}
       /\ r.attempts \in Nat /\ lessons[s].fix <= r.attempts
       /\ \A row \in rows : row.session = s =>
             r.pc = "done" /\ r.status \in Finished /\ row = Row(s, r.status)
       /\ r.pc = "done" /\ s \notin excused /\ r.status \in Finished => Row(s, r.status) \in rows

OutcomeInv ==
    /\ \A row \in rows : row.session \in Sessions
    /\ lessons \in [Sessions -> [fix : Nat, success : {0, 1}]]
    /\ DOMAIN tested = Sessions
    /\ \A s \in Sessions : Sound(s)

\* Apart from the place of a build, its plan and its counters, nothing of it changes.
Same(r, new) ==
    /\ DOMAIN new = DOMAIN r /\ new.dir = r.dir /\ new.result = r.result
    /\ new.attempts = r.attempts /\ new.status = r.status /\ new.exit = r.exit

\* Steps that only move a build, one after the other.
LEMMA SameChain ==
    ASSUME NEW q, NEW r, NEW s, Same(q, r), Same(r, s)
    PROVE  Same(q, s)
BY DEF Same

\* Setting its place, position or marks moves a build.
LEMMA SetSame ==
    ASSUME NEW r, Fields \subseteq DOMAIN r, NEW x
    PROVE  /\ Same(r, [r EXCEPT !.pc = x]) /\ [r EXCEPT !.pc = x].pc = x
           /\ Same(r, [r EXCEPT !.next = x]) /\ [r EXCEPT !.next = x].pc = r.pc
           /\ Same(r, [r EXCEPT !.built = x]) /\ [r EXCEPT !.built = x].pc = r.pc
           /\ Same(r, [r EXCEPT !.always = x]) /\ [r EXCEPT !.always = x].pc = r.pc
BY DEF Same, Fields

(***************************************************************************)
(* The other builds.                                                       *)
(***************************************************************************)
Apart(s) ==
    /\ \E new : Set(s, new) /\ (new.dir = run[s].dir \/ run[s].dir = 0)
    /\ Stays(s)
    /\ DOMAIN tested' = Sessions /\ DOMAIN lessons' = Sessions
    /\ \A t \in Sessions \ {s} :
          /\ tested'[t] = tested[t] /\ lessons'[t] = lessons[t]
          /\ t \in healed' <=> t \in healed
          /\ t \in excused' <=> t \in excused
    /\ rows \subseteq rows' /\ \A row \in rows' : row \in rows \/ row.session = s

\* What a build's tests succeeded on is still there after a step of another build, or the two
\* share the folder.
LEMMA OtherTested ==
    ASSUME Shape, NEW s \in Sessions, Apart(s), NEW t \in Sessions \ {s},
           run[t].dir \in Dirs, TestedIsThere(t)
    PROVE  TestedIsThere(t)'
<1>1. PICK new : Set(s, new) /\ (new.dir = run[s].dir \/ run[s].dir = 0)
  BY DEF Apart
<1>2. /\ run'[s] = new /\ \A u \in Sessions \ {s} : run'[u] = run[u]
      /\ 0 \notin Dirs
  BY <1>1, Others DEF Dirs
<1>3. run[s].dir = run[t].dir => Shares(t)'
  BY <1>1, <1>2 DEF Shares
<1>4. ASSUME Shares(t), run[s].dir # run[t].dir PROVE Shares(t)'
  BY <1>2, <1>4 DEF Shares
<1>5. ASSUME ws[run[t].dir] \in tested[t], run[s].dir # run[t].dir
      PROVE  ws'[run'[t].dir] \in tested'[t]
  BY <1>2, <1>5 DEF Apart, Stays
<1>. QED BY <1>3, <1>4, <1>5 DEF TestedIsThere, Apart

\* A step of one build leaves what is true of the others.
LEMMA OtherSound ==
    ASSUME Shape, NEW s \in Sessions, Apart(s), NEW t \in Sessions \ {s}, Sound(t)
    PROVE  Sound(t)'
<1>1. run'[t] = run[t] /\ tested'[t] = tested[t] /\ lessons'[t] = lessons[t]
  BY Others DEF Apart
<1>2. /\ t \in excused' <=> t \in excused
      /\ \A row \in rows' : row.session = t => row \in rows
      /\ rows \subseteq rows'
      /\ \A status : Row(t, status)' = Row(t, status)
  BY <1>1 DEF Apart, Row
<1>3. run[t].dir \in Dirs /\ TestedIsThere(t) => TestedIsThere(t)'
  BY OtherTested
<1>. QED BY <1>1, <1>2, <1>3 DEF Sound

(***************************************************************************)
(* The build that takes the step.                                          *)
(***************************************************************************)
\* A build goes on before its tests, or after they were judged.
LEMMA WalkSound ==
    ASSUME Shape, NEW s \in Sessions, Sound(s), NEW new, Set(s, new), Same(run[s], new),
           \/ run[s].pc \in Early /\ new.pc \in Early
           \/ run[s].pc \in Before \ Early /\ new.pc \in Before \ Early
           \/ run[s].pc \in Judged /\ new.pc \in Judged,
           UNCHANGED <<rows, lessons, tested, excused>>,
           UNCHANGED <<ws, healed>> \/ s \in healed' \/ run[s].pc \in Before
    PROVE  Sound(s)'
<1>1. run'[s] = new /\ \A u \in Sessions \ {s} : run'[u] = run[u]
  BY Others
<1>2. Early \subseteq Before /\ Judged \cap Before = {} /\ "judge" \notin Judged \cup Before
      /\ "done" \notin Judged \cup Before
  BY DEF Early, Before, Judged
<1>3. Shares(s) => Shares(s)'
  BY <1>1 DEF Shares, Same
<1>4. new.result = "ok" => run[s].pc \in Judged /\ TestedIsThere(s)
  BY <1>2 DEF Same, Sound
<1>5. new.result = "ok" => TestedIsThere(s)'
  BY <1>1, <1>2, <1>3, <1>4 DEF TestedIsThere, Same
<1>6. \A row \in rows : row.session # s
  BY <1>2 DEF Sound
<1>. QED BY <1>1, <1>2, <1>5, <1>6 DEF Sound, Same

\* A build stops before its record.
LEMMA StopSound ==
    ASSUME Shape, NEW s \in Sessions, Sound(s), run[s].pc # "done", NEW new, Set(s, new),
           new.pc = "done", new.status \in Stopped, new.dir = run[s].dir, new.exit = run[s].exit,
           new.result = run[s].result, new.attempts \in {run[s].attempts, run[s].attempts + 1},
           lessons[s].fix \in Nat,
           UNCHANGED <<rows, lessons, tested, ws, healed>>
    PROVE  Sound(s)'
<1>1. run'[s] = new /\ \A u \in Sessions \ {s} : run'[u] = run[u]
  BY Others
<1>2. TestedIsThere(s) => TestedIsThere(s)'
  BY <1>1 DEF TestedIsThere, Shares
<1>3. \A row \in rows : row.session # s
  BY DEF Sound
<1>4. new.attempts \in Nat /\ lessons[s].fix <= new.attempts
  BY DEF Sound
<1>5. new.status \notin Finished
  BY DEF Stopped, Finished
<1>6. new.dir \in Dirs \cup {0}
  BY DEF Sound
<1>. QED BY <1>1, <1>2, <1>3, <1>4, <1>5, <1>6 DEF Sound, Before, Early, Judged, Finished

\* A build ends with its outcome, which the memory holds or has refused.
LEMMA EndedSound ==
    ASSUME Shape, NEW s \in Sessions, Sound(s), run[s].pc # "done", NEW status \in Finished, Ended(s, status),
           status \in {"passed", "accept_failed"} => run[s].result = "ok",
           lessons'[s].fix = lessons[s].fix, lessons'[s].success = 1 => run[s].result = "ok",
           rows' = rows \cup {Row(s, status)} \/ (rows' = rows /\ s \in excused'),
           UNCHANGED <<tested, ws, healed>>
    PROVE  Sound(s)'
<1>. DEFINE exit == IF status = "passed" THEN 0 ELSE 1
            new == [run[s] EXCEPT !.pc = "done", !.status = status, !.exit = exit]
<1>1. Set(s, new)
  BY DEF Ended, Set, Shape
<1>2. /\ new.pc = "done" /\ new.status = status /\ new.exit = exit /\ new.dir = run[s].dir
      /\ new.result = run[s].result /\ new.attempts = run[s].attempts
  <2>1. Fields \subseteq DOMAIN run[s]
    BY DEF Shape
  <2>. HIDE DEF exit
  <2>. QED BY <2>1 DEF Fields
<1>. HIDE DEF new
<1>3. run'[s] = new /\ \A u \in Sessions \ {s} : run'[u] = run[u]
  BY <1>1, Others
<1>4. TestedIsThere(s) => TestedIsThere(s)'
  BY <1>2, <1>3 DEF TestedIsThere, Shares
<1>5. \A row \in rows : row.session # s
  BY DEF Sound
<1>6. /\ \A x : Row(s, x)' = Row(s, x)
      /\ Row(s, status).session = s
  BY <1>2, <1>3 DEF Row
<1>7. run[s].dir \in Dirs \cup {0}
  BY DEF Sound
<1>8. \A row \in rows' : row.session = s => row = Row(s, status)'
  BY <1>5, <1>6
<1>9. s \notin excused' => Row(s, status)' \in rows'
  BY <1>6
<1>. QED BY <1>2, <1>3, <1>4, <1>7, <1>8, <1>9
         DEF Sound, Before, Early, Judged, Finished

(***************************************************************************)
(* The steps of a build, by what they do to its outcome.                   *)
(***************************************************************************)
Walks(s) ==
    /\ \E new : /\ Set(s, new) /\ Same(run[s], new)
                /\ \/ run[s].pc \in Early /\ new.pc \in Early
                   \/ run[s].pc \in Before \ Early /\ new.pc \in Before \ Early
                   \/ run[s].pc \in Judged /\ new.pc \in Judged
    /\ Stays(s)
    /\ \/ UNCHANGED <<ws, healed>>
       \/ healed' = healed \cup {s}
       \/ run[s].pc \in Before /\ UNCHANGED healed
    /\ UNCHANGED <<rows, lessons, tested, excused>>

Stops(s) ==
    /\ run[s].pc # "done"
    /\ \E new : /\ Set(s, new) /\ new.pc = "done" /\ new.status \in Stopped
                /\ new.dir = run[s].dir /\ new.exit = run[s].exit /\ new.result = run[s].result
                /\ new.attempts \in {run[s].attempts, run[s].attempts + 1}
    /\ excused' = excused \/ excused' = excused \cup {s}
    /\ UNCHANGED <<rows, lessons, tested, ws, healed>>

\* So only the build that moves is left to show.
LEMMA OutcomeKept ==
    ASSUME Shape, OutcomeInv, NEW s \in Sessions, Apart(s), Sound(s)',
           lessons' \in [Sessions -> [fix : Nat, success : {0, 1}]]
    PROVE  OutcomeInv'
<1>1. \A t \in Sessions : Sound(t)'
  BY OtherSound DEF OutcomeInv
<1>. QED BY <1>1 DEF OutcomeInv, Apart

\* A build that goes on without writing files or rows.
LEMMA WalksKeep ==
    ASSUME Shape, OutcomeInv, NEW s \in Sessions, Walks(s)
    PROVE  OutcomeInv'
<1>1. Apart(s)
  BY DEF Walks, Apart, Same, OutcomeInv
<1>2. Sound(s)'
  BY WalkSound DEF Walks, OutcomeInv
<1>. QED BY <1>1, <1>2, OutcomeKept DEF Walks, OutcomeInv

\* A build that is stopped: no row, and the exit code stays 1.
LEMMA StopsKeep ==
    ASSUME Shape, OutcomeInv, NEW s \in Sessions, Stops(s)
    PROVE  OutcomeInv'
<1>1. Stays(s)
  BY DEF Stops, Stays, Shape
<1>2. Apart(s)
  BY <1>1 DEF Stops, Apart, OutcomeInv
<1>3. lessons[s].fix \in Nat
  BY DEF OutcomeInv
<1>4. Sound(s)'
  BY <1>3, StopSound DEF Stops, OutcomeInv
<1>. QED BY <1>2, <1>4, OutcomeKept DEF Stops, OutcomeInv

\* Going to the next place of Session.run is a move.
LEMMA GotoSame ==
    ASSUME Shape, NEW s \in Sessions, NEW label, Goto(s, label)
    PROVE  \E new : Set(s, new) /\ Same(run[s], new) /\ new.pc = label
<1>. DEFINE new == [run[s] EXCEPT !.pc = label]
<1>1. Set(s, new)
  BY DEF Goto, Set, Shape
<1>2. Same(run[s], new) /\ new.pc = label
  BY SetSame DEF Shape
<1>. HIDE DEF new
<1>. QED BY <1>1, <1>2

\* Stop leaves files, rows and lessons as they are.
LEMMA StopStops ==
    ASSUME Shape, NEW s \in Sessions, NEW status \in Stopped, Stop(s, status),
           run[s].pc # "done",
           excused' = excused \/ excused' = excused \cup {s},
           UNCHANGED <<rows, lessons, tested, ws, healed>>
    PROVE  Stops(s)
<1>. DEFINE new == [run[s] EXCEPT !.pc = "done", !.status = status]
<1>1. Set(s, new)
  BY DEF Stop, Set, Shape
<1>2. /\ new.pc = "done" /\ new.status = status
      /\ new.dir = run[s].dir /\ new.exit = run[s].exit /\ new.result = run[s].result
      /\ new.attempts = run[s].attempts
  <2>1. Fields \subseteq DOMAIN run[s]
    BY DEF Shape
  <2>. QED BY <2>1 DEF Fields
<1>. HIDE DEF new
<1>. QED BY <1>1, <1>2 DEF Stops

\* What a write leaves of the local state.
LEMMA WriteSame ==
    ASSUME Shape, NEW s \in Sessions, NEW path, NEW content, NEW a, NEW b,
           Fields \subseteq DOMAIN a, Fields \subseteq DOMAIN b,
           Write(s, path, content, a, b)
    PROVE  \E new : /\ Set(s, new)
                    /\ \/ Same(a, new) /\ new.pc = a.pc
                       \/ Same(b, new) /\ new.pc = b.pc
<1>1. PICK sticky : Set(s, [a EXCEPT !.always = sticky]) \/ Set(s, [b EXCEPT !.always = sticky])
  BY DEF Write
<1>2. /\ Same(a, [a EXCEPT !.always = sticky]) /\ [a EXCEPT !.always = sticky].pc = a.pc
      /\ Same(b, [b EXCEPT !.always = sticky]) /\ [b EXCEPT !.always = sticky].pc = b.pc
  BY SetSame
<1>. QED BY <1>1, <1>2

\* The steps before the tests.
LEMMA EarlyOutcome ==
    ASSUME Shape, OutcomeInv, NEW s \in Sessions,
           Begin(s) \/ MakePlan(s) \/ ConfirmPlan(s) \/ Route(s)
    PROVE  OutcomeInv'
<1>1. Fields \subseteq DOMAIN run[s]
  BY DEF Shape
<1>2. /\ UNCHANGED <<rows, lessons, tested, excused, ws, healed>>
      /\ run[s].pc \in Early
      /\ \/ \E status \in Stopped : Stop(s, status)
         \/ \E label \in Early : Goto(s, label)
         \/ \E plan : \E label \in Early : Set(s, [run[s] EXCEPT !.plan = plan, !.pc = label])
         \/ \E engine, explicit : Set(s, [run[s] EXCEPT !.pc = "choose", !.engine = engine,
                                                        !.explicit = explicit])
  BY DEF Begin, MakePlan, ConfirmPlan, Route, At, Local, memory, history, Early, Stopped
<1>3. Stays(s) /\ run[s].pc # "done"
  BY <1>2 DEF Stays, Shape, Early
<1>4. ASSUME NEW new, Set(s, new), Same(run[s], new), new.pc \in Early
      PROVE  OutcomeInv'
  BY <1>2, <1>3, <1>4, WalksKeep DEF Walks
<1>5. ASSUME NEW status \in Stopped, Stop(s, status) PROVE OutcomeInv'
  BY <1>2, <1>3, <1>5, StopStops, StopsKeep
<1>6. ASSUME NEW label \in Early, Goto(s, label) PROVE OutcomeInv'
  BY <1>4, <1>6, GotoSame
<1>7. ASSUME NEW plan, NEW label \in Early, Set(s, [run[s] EXCEPT !.plan = plan, !.pc = label])
      PROVE  OutcomeInv'
  <2>1. /\ Same(run[s], [run[s] EXCEPT !.plan = plan, !.pc = label])
        /\ [run[s] EXCEPT !.plan = plan, !.pc = label].pc = label
    BY <1>1 DEF Same, Fields
  <2>. QED BY <1>4, <1>7, <2>1
<1>8. ASSUME NEW engine, NEW explicit,
             Set(s, [run[s] EXCEPT !.pc = "choose", !.engine = engine, !.explicit = explicit])
      PROVE  OutcomeInv'
  <2>. DEFINE new == [run[s] EXCEPT !.pc = "choose", !.engine = engine, !.explicit = explicit]
  <2>1. Same(run[s], new) /\ new.pc = "choose"
    BY <1>1 DEF Same, Fields
  <2>2. Set(s, new)
    BY <1>8
  <2>. HIDE DEF new
  <2>. QED BY <1>4, <2>1, <2>2 DEF Early
<1>. QED BY <1>2, <1>5, <1>6, <1>7, <1>8

\* The choice of a folder: whoever chose it before shares it from now on.
LEMMA ChooseOutcome ==
    ASSUME Shape, OutcomeInv, NEW s \in Sessions, ChooseDir(s)
    PROVE  OutcomeInv'
<1>1. PICK d \in Dirs : Set(s, [run[s] EXCEPT !.pc = "make", !.dir = d])
  BY DEF ChooseDir, Least, Free
<1>. DEFINE new == [run[s] EXCEPT !.pc = "make", !.dir = d]
<1>2. /\ new.pc = "make" /\ new.dir = d /\ new.result = run[s].result
      /\ new.status = run[s].status /\ new.exit = run[s].exit /\ new.attempts = run[s].attempts
  <2>1. Fields \subseteq DOMAIN run[s]
    BY DEF Shape
  <2>. QED BY <2>1 DEF Fields
<1>3. Set(s, new)
  BY <1>1
<1>. HIDE DEF new
<1>4. /\ UNCHANGED <<rows, lessons, tested, excused, ws, healed>>
      /\ run[s].pc = "choose"
  BY DEF ChooseDir, At, Local, memory, history
<1>5. Sound(s) /\ run[s].dir = 0 /\ run[s].result # "ok" /\ run[s].status = "none"
  BY <1>4 DEF OutcomeInv, Sound, Early, Before
<1>6. Apart(s)
  BY <1>3, <1>4, <1>5 DEF Apart, Stays, Shape, OutcomeInv
<1>7. run'[s] = new
  BY <1>3, Others
<1>8. \A row \in rows : row.session # s
  BY <1>4, <1>5 DEF Sound
<1>9. Sound(s)'
  BY <1>2, <1>4, <1>5, <1>7, <1>8 DEF Sound, Early, Before, Judged
<1>. QED BY <1>4, <1>6, <1>9, OutcomeKept DEF OutcomeInv

\* Making the folder, building a file and reviewing come before any test has succeeded.
LEMMA MiddleOutcome ==
    ASSUME Shape, OutcomeInv, NEW s \in Sessions, MakeDir(s) \/ BuildFile(s) \/ Review(s)
    PROVE  OutcomeInv'
<1>1. Fields \subseteq DOMAIN run[s]
  BY DEF Shape
<1>2. /\ UNCHANGED <<rows, lessons, tested, excused, healed>>
      /\ run[s].pc \in Before \ Early
  BY DEF MakeDir, BuildFile, Review, At, Local, memory, history, Early, Before
<1>3. Stays(s)
  <2>1. CASE BuildFile(s)
    BY <2>1, BuildWorks DEF Works
  <2>2. CASE MakeDir(s) \/ Review(s)
    BY <2>2 DEF MakeDir, Review, Local, Stays, Shape
  <2>. QED BY <2>1, <2>2
<1>4. ASSUME NEW new, Set(s, new), Same(run[s], new), new.pc \in Before \ Early
      PROVE  OutcomeInv'
  BY <1>2, <1>3, <1>4, WalksKeep DEF Walks
<1>5. CASE MakeDir(s)
  <2>1. Goto(s, "build")
    BY <1>5 DEF MakeDir
  <2>2. "build" \in Before \ Early
    BY DEF Before, Early
  <2>. QED BY <1>4, <2>1, <2>2, GotoSame
<1>6. CASE Review(s)
  <2>1. PICK findings : run' = [run EXCEPT ![s].pc = "test", ![s].findings = findings]
    BY <1>6 DEF Review
  <2>. DEFINE new == [run[s] EXCEPT !.pc = "test", !.findings = findings]
  <2>2. Set(s, new)
    BY <2>1 DEF Set, Shape
  <2>3. Same(run[s], new) /\ new.pc = "test"
    BY <1>1 DEF Same, Fields
  <2>. HIDE DEF new
  <2>. QED BY <1>4, <2>2, <2>3 DEF Before, Early
<1>7. CASE BuildFile(s)
  <2>. DEFINE r == run[s]
              path == BuildOrder(r.plan)[r.next]
              left == [r EXCEPT !.next = @ + 1]
              kept == [left EXCEPT !.built = @ \cup {path}]
  <2>1. Same(r, left) /\ left.pc = r.pc
    BY <1>1, SetSame
  <2>2. Fields \subseteq DOMAIN left
    BY <1>1, <2>1 DEF Same
  <2>3. (\E content : Write(s, path, content, kept, left)) \/ Set(s, left)
    BY <1>7 DEF BuildFile
  <2>. HIDE DEF left
  <2>4. Same(left, kept) /\ kept.pc = left.pc
    BY <2>2, SetSame
  <2>5. Fields \subseteq DOMAIN kept
    BY <2>2, <2>4 DEF Same
  <2>. HIDE DEF kept
  <2>6. Same(r, kept) /\ kept.pc = r.pc
    BY <2>1, <2>4, SameChain
  <2>7. CASE Set(s, left)
    BY <1>2, <1>4, <2>1, <2>7
  <2>8. ASSUME NEW content, Write(s, path, content, kept, left) PROVE OutcomeInv'
    <3>1. PICK new : /\ Set(s, new)
                     /\ \/ Same(kept, new) /\ new.pc = kept.pc
                        \/ Same(left, new) /\ new.pc = left.pc
      BY <2>2, <2>5, <2>8, WriteSame
    <3>2. Same(r, new) /\ new.pc = r.pc
      BY <2>1, <2>6, <3>1, SameChain
    <3>. QED BY <1>2, <1>4, <3>1, <3>2
  <2>. QED BY <2>3, <2>7, <2>8
<1>. QED BY <1>5, <1>6, <1>7

\* A build whose files could not be written is recorded as failed.
LEMMA EndBuildOutcome ==
    ASSUME Shape, OutcomeInv, NEW s \in Sessions, EndBuild(s)
    PROVE  OutcomeInv'
<1>1. /\ UNCHANGED <<ws, tested, healed>> /\ run[s].pc = "build"
      /\ \/ Ended(s, "failed") /\ Remember(s, rows \cup {Row(s, "failed")}, lessons)
         \/ /\ \E label \in {"review", "test"} : Goto(s, label)
            /\ UNCHANGED <<rows, lessons, excused>>
  BY DEF EndBuild, At, memory
<1>2. Stays(s)
  BY <1>1 DEF Stays, Shape
<1>3. CASE (\E label \in {"review", "test"} : Goto(s, label)) /\ UNCHANGED <<rows, lessons, excused>>
  <2>1. PICK new : Set(s, new) /\ Same(run[s], new) /\ new.pc \in {"review", "test"}
    BY <1>3, GotoSame
  <2>2. Walks(s)
    BY <1>1, <1>2, <1>3, <2>1 DEF Walks, Before, Early
  <2>. QED BY <2>2, WalksKeep
<1>4. CASE Ended(s, "failed") /\ Remember(s, rows \cup {Row(s, "failed")}, lessons)
  <2>1. /\ lessons[s].fix \in Nat /\ lessons[s].success \in {0, 1}
        /\ DOMAIN lessons = Sessions /\ Sound(s)
    BY DEF OutcomeInv
  <2>2. lessons[s].success = 0 /\ run[s].pc # "done"
    BY <1>1, <2>1 DEF Sound
  <2>3. "failed" \in Finished
    BY DEF Finished
  <2>4. /\ lessons' = lessons
        /\ rows' = rows \cup {Row(s, "failed")} \/ (rows' = rows /\ s \in excused')
        /\ excused' = excused \/ excused' = excused \cup {s}
    BY <1>4 DEF Remember, memory
  <2>5. Sound(s)'
    BY <1>1, <1>4, <2>1, <2>2, <2>3, <2>4, EndedSound
  <2>6. PICK new : Set(s, new) /\ new.dir = run[s].dir
    BY <1>4, EndedMoves DEF Moves, Keeps
  <2>7. Apart(s)
    BY <1>1, <1>2, <2>4, <2>6 DEF Apart, OutcomeInv, Row
  <2>. QED BY <2>4, <2>5, <2>7, OutcomeKept DEF OutcomeInv
<1>. QED BY <1>1, <1>3, <1>4

\* A test that succeeds remembers the files it ran on (brains/tester).
LEMMA TestOutcome ==
    ASSUME Shape, OutcomeInv, NEW s \in Sessions, Test(s)
    PROVE  OutcomeInv'
<1>1. PICK result, always, label :
         /\ Set(s, [run[s] EXCEPT !.result = result, !.always = always, !.pc = label])
         /\ tested' = [tested EXCEPT ![s] = IF result = "ok" THEN {ws[run[s].dir]} ELSE @]
         /\ label \in {"fix", "judge"} /\ (result = "ok" => label = "judge")
  BY DEF Test, Ok
<1>2. /\ UNCHANGED <<ws, rows, lessons, excused, healed>> /\ run[s].pc = "test"
  BY DEF Test, At, memory
<1>. DEFINE new == [run[s] EXCEPT !.result = result, !.always = always, !.pc = label]
<1>3. /\ new.pc = label /\ new.dir = run[s].dir /\ new.result = result
      /\ new.status = run[s].status /\ new.exit = run[s].exit /\ new.attempts = run[s].attempts
  <2>1. Fields \subseteq DOMAIN run[s]
    BY DEF Shape
  <2>. QED BY <2>1 DEF Fields
<1>4. Set(s, new)
  BY <1>1
<1>. HIDE DEF new
<1>5. Sound(s) /\ run[s].dir \in Dirs /\ run[s].status = "none"
  BY <1>2 DEF OutcomeInv, Sound, Early, Before
<1>6. Stays(s)
  BY <1>2 DEF Stays, Shape
<1>7. Apart(s)
  BY <1>1, <1>2, <1>3, <1>4, <1>6 DEF Apart, OutcomeInv
<1>8. run'[s] = new
  BY <1>4, Others
<1>9. tested'[s] = IF result = "ok" THEN {ws[run[s].dir]} ELSE tested[s]
  BY <1>1 DEF OutcomeInv
<1>10. result = "ok" => tested'[s] # {} /\ TestedIsThere(s)'
  BY <1>2, <1>3, <1>8, <1>9 DEF TestedIsThere
<1>11. \A row \in rows : row.session # s
  BY <1>2, <1>5 DEF Sound
<1>12. lessons[s].success = 0 /\ run[s].exit = 1
  BY <1>2, <1>5 DEF Sound
<1>13. Sound(s)'
  BY <1>1, <1>2, <1>3, <1>5, <1>8, <1>10, <1>11, <1>12 DEF Sound, Early, Before, Judged
<1>. QED BY <1>2, <1>7, <1>13, OutcomeKept DEF OutcomeInv

\* A turn of the fix loop counts itself, and at most one lesson.
LEMMA FixOutcome ==
    ASSUME Shape, OutcomeInv, NEW s \in Sessions, Fix(s)
    PROVE  OutcomeInv'
<1>. DEFINE counted == [run[s] EXCEPT !.attempts = @ + 1]
            given_up == [counted EXCEPT !.pc = "judge"]
            again == [counted EXCEPT !.pc = "test"]
            crashed == [counted EXCEPT !.pc = "done", !.status = "crashed"]
            learnt == [lessons EXCEPT ![s].fix = @ + 1]
<1>1. Fields \subseteq DOMAIN run[s]
  BY DEF Shape
<1>2. /\ counted.dir = run[s].dir /\ counted.result = run[s].result
      /\ counted.status = run[s].status /\ counted.exit = run[s].exit
      /\ counted.attempts = run[s].attempts + 1
      /\ DOMAIN counted = DOMAIN run[s]
  BY <1>1 DEF Fields
<1>3. /\ UNCHANGED <<tested, healed>> /\ run[s].pc = "fix"
      /\ \/ Set(s, crashed) /\ UNCHANGED <<ws, rows, lessons, excused>>
         \/ Set(s, given_up) /\ UNCHANGED <<rows, lessons, excused>>
         \/ /\ \E path, fix : Write(s, path, fix, again, given_up)
            /\ Remember(s, rows, learnt) \/ UNCHANGED <<rows, lessons, excused>>
  BY DEF Fix, At, memory
<1>. HIDE DEF counted
<1>4. /\ Same(counted, given_up) /\ given_up.pc = "judge"
      /\ Same(counted, again) /\ again.pc = "test"
  BY <1>1, <1>2, SetSame
<1>5. Stays(s)
  BY FixWorks
<1>6. Sound(s) /\ run[s].status = "none" /\ run[s].dir \in Dirs /\ run[s].result # "ok"
  BY <1>3 DEF OutcomeInv, Sound, Early, Before
<1>7. /\ lessons'[s].fix \in {lessons[s].fix, lessons[s].fix + 1}
      /\ lessons'[s].success = lessons[s].success
      /\ \A t \in Sessions \ {s} : lessons'[t] = lessons[t]
      /\ lessons' \in [Sessions -> [fix : Nat, success : {0, 1}]]
      /\ rows' = rows /\ (excused' = excused \/ excused' = excused \cup {s})
  BY <1>3 DEF Remember, memory, OutcomeInv
<1>8. \A row \in rows : row.session # s
  BY <1>3, <1>6 DEF Sound
<1>9. run[s].attempts \in Nat /\ lessons[s].fix \in Nat /\ lessons[s].fix <= run[s].attempts
      /\ lessons[s].success = 0 /\ run[s].exit = 1
  BY <1>3, <1>6 DEF Sound, OutcomeInv
<1>10. /\ counted.attempts \in Nat /\ lessons'[s].fix <= counted.attempts
  BY <1>2, <1>7, <1>9
<1>11. ASSUME NEW new, Set(s, new), Same(counted, new), new.pc \in {"judge", "test"}
       PROVE  OutcomeInv'
  <2>1. Apart(s)
    BY <1>2, <1>3, <1>5, <1>7, <1>11 DEF Apart, Same, OutcomeInv
  <2>2. run'[s] = new
    BY <1>11, Others
  <2>3. Sound(s)'
    BY <1>2, <1>3, <1>6, <1>7, <1>8, <1>9, <1>10, <1>11, <2>2
       DEF Sound, Same, Early, Before, Judged
  <2>. QED BY <1>7, <2>1, <2>3, OutcomeKept
<1>12. CASE Set(s, crashed) /\ UNCHANGED <<ws, rows, lessons, excused>>
  <2>1. /\ crashed.pc = "done" /\ crashed.status = "crashed" /\ crashed.dir = run[s].dir
        /\ crashed.exit = run[s].exit /\ crashed.result = run[s].result
        /\ crashed.attempts = run[s].attempts + 1
    BY <1>1, <1>2 DEF Fields
  <2>. HIDE DEF crashed
  <2>2. Stops(s)
    BY <1>3, <1>12, <2>1 DEF Stops, Stopped
  <2>. QED BY <2>2, StopsKeep
<1>. HIDE DEF given_up, again, crashed
<1>13. CASE Set(s, given_up)
  BY <1>4, <1>11, <1>13
<1>14. ASSUME NEW path, NEW fix, Write(s, path, fix, again, given_up) PROVE OutcomeInv'
  <2>1. Fields \subseteq DOMAIN given_up /\ Fields \subseteq DOMAIN again
    BY <1>1, <1>2, <1>4 DEF Same
  <2>2. PICK new : /\ Set(s, new)
                   /\ \/ Same(again, new) /\ new.pc = again.pc
                      \/ Same(given_up, new) /\ new.pc = given_up.pc
    BY <1>14, <2>1, WriteSame
  <2>3. Same(counted, new) /\ new.pc \in {"judge", "test"}
    BY <1>4, <2>2, SameChain
  <2>. QED BY <1>11, <2>2, <2>3
<1>. QED BY <1>3, <1>12, <1>13, <1>14

\* Only a test that succeeded makes a status of success.
LEMMA JudgeOutcome ==
    ASSUME Shape, OutcomeInv, NEW s \in Sessions, Judge(s)
    PROVE  OutcomeInv'
<1>. DEFINE status == IF Ok(run[s].result) THEN "passed"
                      ELSE IF run[s].result = "blocked" THEN "blocked" ELSE "failed"
            done == [run[s] EXCEPT !.pc = "record", !.status = status]
<1>1. /\ UNCHANGED <<ws, rows, lessons, tested, excused, healed>> /\ run[s].pc = "judge"
      /\ \/ Set(s, done)
         \/ /\ status = "passed"
            /\ \E other \in {"accept_failed", status}, label \in {"heal", "record"} : \E items :
                  Set(s, [done EXCEPT !.status = other, !.pc = label, !.items = items])
  <2>1. Fields \subseteq DOMAIN run[s]
    BY DEF Shape
  <2>2. done.status = status
    BY <2>1 DEF Fields
  <2>. QED BY <2>2 DEF Judge, At, Local, memory, history
<1>2. /\ status \in Finished /\ (status \in {"passed", "accept_failed"} => run[s].result = "ok")
  BY DEF Ok, Finished
<1>. HIDE DEF status
<1>3. Fields \subseteq DOMAIN run[s]
  BY DEF Shape
<1>4. /\ done.pc = "record" /\ done.status = status /\ done.dir = run[s].dir
      /\ done.exit = run[s].exit /\ done.result = run[s].result
      /\ done.attempts = run[s].attempts /\ DOMAIN done = DOMAIN run[s]
  BY <1>3 DEF Fields
<1>5. ASSUME NEW new, Set(s, new), new.pc \in Judged, new.status \in Finished,
             new.status \in {"passed", "accept_failed"} => run[s].result = "ok",
             new.dir = run[s].dir, new.exit = run[s].exit, new.result = run[s].result,
             new.attempts = run[s].attempts
      PROVE  OutcomeInv'
  <2>1. Stays(s)
    BY <1>1 DEF Stays, Shape
  <2>2. Apart(s)
    BY <1>1, <1>5, <2>1 DEF Apart, OutcomeInv
  <2>3. run'[s] = new /\ \A u \in Sessions \ {s} : run'[u] = run[u]
    BY <1>5, Others
  <2>4. Sound(s)
    BY DEF OutcomeInv
  <2>5. TestedIsThere(s) => TestedIsThere(s)'
    BY <1>1, <1>5, <2>3 DEF TestedIsThere, Shares
  <2>6. \A row \in rows : row.session # s
    BY <1>1, <2>4 DEF Sound
  <2>7. Sound(s)'
    BY <1>1, <1>5, <2>3, <2>4, <2>5, <2>6 DEF Sound, Early, Before, Judged
  <2>. QED BY <1>1, <2>2, <2>7, OutcomeKept DEF OutcomeInv
<1>. HIDE DEF done
<1>6. CASE Set(s, done)
  BY <1>2, <1>4, <1>5, <1>6 DEF Judged
<1>7. ASSUME status = "passed", NEW other \in {"accept_failed", status}, NEW items,
             NEW label \in {"heal", "record"},
             Set(s, [done EXCEPT !.status = other, !.pc = label, !.items = items])
      PROVE  OutcomeInv'
  <2>. DEFINE new == [done EXCEPT !.status = other, !.pc = label, !.items = items]
  <2>1. /\ new.pc = label /\ new.status = other /\ new.dir = done.dir /\ new.exit = done.exit
        /\ new.result = done.result /\ new.attempts = done.attempts
    BY <1>3, <1>4 DEF Fields
  <2>2. Set(s, new)
    BY <1>7
  <2>. HIDE DEF new
  <2>3. new.pc \in Judged /\ new.status \in Finished
    BY <1>7, <2>1 DEF Judged, Finished
  <2>. QED BY <1>2, <1>4, <1>5, <1>7, <2>1, <2>2, <2>3
<1>. QED BY <1>1, <1>6, <1>7

\* Healing writes after the tests, and says so.
LEMMA HealOutcome ==
    ASSUME Shape, OutcomeInv, NEW s \in Sessions, Heal(s) \/ HealWrite(s) \/ HealVerify(s)
    PROVE  OutcomeInv'
<1>1. Fields \subseteq DOMAIN run[s]
  BY DEF Shape
<1>2. /\ UNCHANGED <<rows, lessons, tested, excused>> /\ run[s].pc \in Judged
      /\ UNCHANGED <<ws, healed>> \/ healed' = healed \cup {s}
  BY DEF Heal, HealWrite, HealVerify, At, Local, memory, history, Judged
<1>3. Stays(s)
  <2>1. CASE HealWrite(s)
    BY <2>1, HealWriteWorks
  <2>2. CASE Heal(s) \/ HealVerify(s)
    BY <2>2 DEF Heal, HealVerify, Local, Stays, Shape
  <2>. QED BY <2>1, <2>2
<1>4. ASSUME NEW new, Set(s, new), Same(run[s], new), new.pc \in Judged
      PROVE  OutcomeInv'
  BY <1>2, <1>3, <1>4, WalksKeep DEF Walks
<1>5. CASE Heal(s)
  <2>1. PICK items : Set(s, [run[s] EXCEPT !.pc = "write", !.heals = @ + 1, !.items = items,
                                          !.next = 1])
    BY <1>5 DEF Heal
  <2>. DEFINE new == [run[s] EXCEPT !.pc = "write", !.heals = @ + 1, !.items = items, !.next = 1]
  <2>2. Same(run[s], new) /\ new.pc = "write"
    BY <1>1 DEF Same, Fields
  <2>3. Set(s, new)
    BY <2>1
  <2>. HIDE DEF new
  <2>. QED BY <1>4, <2>2, <2>3 DEF Judged
<1>6. CASE HealVerify(s)
  <2>1. PICK label \in Judged : Goto(s, label)
    BY <1>6 DEF HealVerify, Judged
  <2>. QED BY <1>4, <2>1, GotoSame
<1>7. CASE HealWrite(s)
  <2>. DEFINE label == IF run[s].next = Len(run[s].items) THEN "verify" ELSE "write"
              later == [run[s] EXCEPT !.next = @ + 1, !.pc = label]
  <2>1. Same(run[s], later) /\ later.pc = label
    BY <1>1 DEF Same, Fields
  <2>2. PICK path, content : Write(s, path, content, later, later)
    BY <1>7 DEF HealWrite
  <2>3. label \in Judged
    BY DEF Judged
  <2>. HIDE DEF later
  <2>4. Fields \subseteq DOMAIN later
    BY <1>1, <2>1 DEF Same
  <2>5. PICK new : Set(s, new) /\ Same(later, new) /\ new.pc = later.pc
    BY <2>2, <2>4, WriteSame
  <2>6. Same(run[s], new) /\ new.pc \in Judged
    BY <2>1, <2>3, <2>5, SameChain
  <2>. QED BY <1>4, <2>5, <2>6
<1>. QED BY <1>5, <1>6, <1>7

\* The row and the lesson say how the build ended (memory/store).
LEMMA RecordOutcome ==
    ASSUME Shape, OutcomeInv, NEW s \in Sessions, Record(s)
    PROVE  OutcomeInv'
<1>. DEFINE status == run[s].status
<1>1. /\ UNCHANGED <<ws, tested, healed>> /\ run[s].pc = "record"
      /\ Ended(s, status)
      /\ Remember(s, rows \cup {Row(s, status)},
                  IF Ok(run[s].result) THEN [lessons EXCEPT ![s].success = @ + 1] ELSE lessons)
  BY DEF Record, At
<1>2. /\ lessons[s] \in [fix : Nat, success : {0, 1}] /\ DOMAIN lessons = Sessions /\ Sound(s)
  BY DEF OutcomeInv
<1>3. /\ lessons[s].success = 0 /\ run[s].pc # "done" /\ status \in Finished
      /\ status \in {"passed", "accept_failed"} => run[s].result = "ok"
  BY <1>1, <1>2 DEF Sound, Judged
<1>. HIDE DEF status
<1>4. /\ lessons' = lessons \/ (run[s].result = "ok" /\ lessons' = [lessons EXCEPT ![s].success = @ + 1])
      /\ rows' = rows \cup {Row(s, status)} \/ (rows' = rows /\ s \in excused')
      /\ excused' = excused \/ excused' = excused \cup {s}
  BY <1>1 DEF Remember, memory, Ok
<1>5. /\ lessons'[s].fix = lessons[s].fix /\ lessons'[s].success \in {0, 1}
      /\ lessons'[s].success = 1 => run[s].result = "ok"
      /\ lessons' \in [Sessions -> [fix : Nat, success : {0, 1}]]
      /\ \A t \in Sessions \ {s} : lessons'[t] = lessons[t]
  <2>1. CASE lessons' = lessons
    BY <1>2, <1>3, <2>1 DEF OutcomeInv
  <2>2. CASE run[s].result = "ok" /\ lessons' = [lessons EXCEPT ![s].success = @ + 1]
    <3>1. lessons' = [lessons EXCEPT ![s] = [@ EXCEPT !.success = 1]]
      BY <1>2, <1>3, <2>2
    <3>. QED BY <1>2, <2>2, <3>1 DEF OutcomeInv
  <2>. QED BY <1>4, <2>1, <2>2
<1>6. Sound(s)'
  BY <1>1, <1>2, <1>3, <1>4, <1>5, EndedSound
<1>7. PICK new : Set(s, new) /\ new.dir = run[s].dir
  BY <1>1, EndedMoves DEF Moves, Keeps
<1>8. Stays(s)
  BY <1>1 DEF Stays, Shape
<1>9. Apart(s)
  BY <1>1, <1>4, <1>5, <1>7, <1>8 DEF Apart, OutcomeInv, Row
<1>. QED BY <1>5, <1>6, <1>9, OutcomeKept

\* An interrupted build leaves no row of its own.
LEMMA InterruptOutcome ==
    ASSUME Shape, OutcomeInv, NEW s \in Sessions, Interrupt(s)
    PROVE  OutcomeInv'
<1>1. Stops(s)
  BY StopStops DEF Interrupt, memory, Stopped
<1>. QED BY <1>1, StopsKeep

\* Before a build begins nothing is recorded.
LEMMA OutcomeInit == Init => OutcomeInv
<1>. SUFFICES ASSUME Init PROVE OutcomeInv
  OBVIOUS
<1>1. \A s \in Sessions : run[s] = NewRun(opts[s])
  BY DEF Init
<1>2. \A o : LET r == NewRun(o)
             IN /\ r.pc \in {"start", "done"} /\ r.dir = 0 /\ r.result = "none"
                /\ r.status = "none" /\ r.exit = 1 /\ r.attempts = 0
  BY DEF NewRun
<1>3. /\ rows = {} /\ \A s \in Sessions : lessons[s].fix = 0 /\ lessons[s].success = 0
      /\ lessons \in [Sessions -> [fix : Nat, success : {0, 1}]] /\ DOMAIN tested = Sessions
  BY DEF Init
<1>4. ASSUME NEW s \in Sessions PROVE Sound(s)
  <2>. DEFINE r == run[s]
  <2>1. /\ r.pc \in {"start", "done"} /\ r.dir = 0 /\ r.result = "none"
        /\ r.status = "none" /\ r.exit = 1 /\ r.attempts = 0
    BY <1>1, <1>2
  <2>. QED BY <1>3, <2>1 DEF Sound, Early, Before, Judged, Finished
<1>. QED BY <1>3, <1>4 DEF OutcomeInv

\* Every step keeps rows, lessons and statuses true.
LEMMA OutcomeStep == IInv /\ OutcomeInv /\ [Next]_vars => OutcomeInv'
<1>. SUFFICES ASSUME IInv, OutcomeInv, [Next]_vars PROVE OutcomeInv'
  OBVIOUS
<1>1. Shape
  BY DEF IInv
<1>2. ASSUME NEW s \in Sessions, Step(s) PROVE OutcomeInv'
  BY <1>1, <1>2, EarlyOutcome, ChooseOutcome, MiddleOutcome, EndBuildOutcome, TestOutcome,
     FixOutcome, JudgeOutcome, HealOutcome, RecordOutcome DEF Step
<1>3. ASSUME NEW s \in Sessions, Interrupt(s) PROVE OutcomeInv'
  BY <1>1, <1>3, InterruptOutcome
<1>4. CASE UNCHANGED vars
  BY <1>4 DEF vars, memory, history, OutcomeInv, Sound, TestedIsThere, Shares, Row
<1>. QED BY <1>2, <1>3, <1>4 DEF Next

\* What the memory records as passed is, file by file, what the tests last succeeded on,
\* whatever fixes, refused writes and stopped commands came before; only a repair after the
\* tests, or a build that took the same folder at the same moment, may have changed it.
THEOREM RecordedWasTested == Spec => []PassedWasTested
<1>1. OutcomeInv => PassedWasTested
  <2>. SUFFICES ASSUME OutcomeInv, NEW row \in rows, row.status \in {"passed", "accept_failed"}
                PROVE  /\ tested[row.session] # {}
                       /\ row.session \in healed \/ Shares(row.session)
                          \/ ws[row.dir] \in tested[row.session]
    BY DEF PassedWasTested
  <2>1. PICK s \in Sessions : row.session = s /\ Sound(s)
    BY DEF OutcomeInv
  <2>2. run[s].status = row.status /\ run[s].dir = row.dir
    BY <2>1 DEF Sound, Row
  <2>. QED BY <2>1, <2>2 DEF Sound, TestedIsThere
<1>. QED BY <1>1, InitInv, StepInv, OutcomeInit, OutcomeStep, PTL DEF Spec

\* A build that is not stopped leaves one row, of the status that its exit code reports; it
\* learns a success only from tests that succeeded, and no more fixes than it tried.
THEOREM OutcomesRecorded == Spec => []OutcomeIsRecorded
<1>1. OutcomeInv => OutcomeIsRecorded
  <2>. SUFFICES ASSUME OutcomeInv, NEW s \in Sessions
                PROVE  LET mine == {row \in rows : row.session = s} IN
                       /\ run[s].pc = "done" /\ s \notin excused =>
                             mine = IF run[s].status \in Finished THEN {Row(s, run[s].status)} ELSE {}
                       /\ run[s].exit = 0 => run[s].status = "passed"
                       /\ lessons[s].success = 1 => tested[s] # {}
                       /\ lessons[s].fix <= run[s].attempts
    BY DEF OutcomeIsRecorded
  <2>1. Sound(s)
    BY DEF OutcomeInv
  <2>2. Row(s, run[s].status).session = s
    BY DEF Row
  <2>. QED BY <2>1, <2>2 DEF Sound
<1>. QED BY <1>1, InitInv, StepInv, OutcomeInit, OutcomeStep, PTL DEF Spec

(***************************************************************************)
(* The order of a build: sequences of sequences, and the last entry for a  *)
(* path.                                                                   *)
(***************************************************************************)
\* Induction for a set of numbers, by its least missing one.
LEMMA NatSetInduction ==
    ASSUME NEW T, 0 \in T, \A n \in Nat : n \in T => n + 1 \in T
    PROVE  Nat \subseteq T
<1>. SUFFICES ASSUME Nat \ T # {} PROVE FALSE
  OBVIOUS
<1>1. PICK x \in Nat \ T : \A y \in Nat \ T : ~ (<<y, x>> \in OpToRel(<, Nat))
  <2>1. IsWellFoundedOn(OpToRel(<, Nat), Nat)
    BY NatLessThanWellFounded, Zenon
  <2>. QED BY <2>1, WFMin, Zenon
<1>2. x # 0 /\ x - 1 \in Nat /\ x - 1 < x /\ x \in Nat /\ (x - 1) + 1 = x
  OBVIOUS
<1>3. <<x - 1, x>> \in OpToRel(<, Nat)
  BY <1>2, Zenon DEF OpToRel
<1>4. x - 1 \in T
  BY <1>1, <1>2, <1>3, Zenon
<1>. QED BY <1>2, <1>4

\* Every set of positions has a greatest.
LEMMA MaxAmong ==
    ASSUME NEW n \in Nat, NEW s \in SUBSET (1 .. n), s # {}
    PROVE  Max(s) \in s
<1>. DEFINE HasMax(t) == \E x \in t : \A y \in t : x >= y
           T == {m \in Nat : \A t \in SUBSET (1 .. m) : t # {} => HasMax(t)}
<1>1. 0 \in T
  <2>1. 1 .. 0 = {}
    OBVIOUS
  <2>. QED BY <2>1
<1>2. ASSUME NEW m \in Nat, m \in T
      PROVE  m + 1 \in T
  <2>1. ASSUME NEW t \in SUBSET (1 .. m + 1), t # {}
        PROVE  HasMax(t)
    <3>1. CASE m + 1 \in t
      <4>1. \A y \in t : m + 1 >= y
        OBVIOUS
      <4>. QED BY <3>1, <4>1
    <3>2. CASE m + 1 \notin t
      <4>1. t \in SUBSET (1 .. m)
        BY <3>2
      <4>. QED BY <1>2, <2>1, <4>1
    <3>. QED BY <3>1, <3>2
  <2>. QED BY <2>1
<1>. HIDE DEF T
<1>3. n \in T
  BY <1>1, <1>2, NatSetInduction
<1>4. HasMax(s)
  BY <1>3 DEF T
<1>. QED BY <1>4, Zenon DEF Max

\* What FlattenSeq has put together after each of the sequences.
Joins(g, ss, n) ==
    \A i \in 1 .. n : g[i] = IF i = 1 THEN ss[i] ELSE g[i - 1] \o ss[i]

\* There is such a function for every number of sequences.
LEMMA JoinsExist ==
    ASSUME NEW S, NEW ss \in Seq(Seq(S)), NEW n \in Nat, n <= Len(ss)
    PROVE  \E g \in [1 .. n -> Seq(S)] : Joins(g, ss, n)
<1>. DEFINE T == {m \in Nat : m <= Len(ss) => \E g \in [1 .. m -> Seq(S)] : Joins(g, ss, m)}
<1>1. 0 \in T
  <2>1. 1 .. 0 = {} /\ 0 \in Nat
    OBVIOUS
  <2>. DEFINE g == [i \in 1 .. 0 |-> <<>>]
  <2>2. g \in [1 .. 0 -> Seq(S)] /\ Joins(g, ss, 0)
    BY <2>1 DEF Joins
  <2>. QED BY <2>2
<1>2. ASSUME NEW m \in Nat, m \in T
      PROVE  m + 1 \in T
  <2>. SUFFICES ASSUME m + 1 <= Len(ss)
                PROVE  \E g \in [1 .. m + 1 -> Seq(S)] : Joins(g, ss, m + 1)
    OBVIOUS
  <2>1. PICK g \in [1 .. m -> Seq(S)] : Joins(g, ss, m)
    BY <1>2
  <2>. DEFINE h == [i \in 1 .. m + 1 |->
                      IF i <= m THEN g[i] ELSE IF m = 0 THEN ss[i] ELSE g[m] \o ss[i]]
  <2>2. ss[m + 1] \in Seq(S) /\ (m # 0 => m \in 1 .. m /\ g[m] \in Seq(S))
    OBVIOUS
  <2>3. m # 0 => g[m] \o ss[m + 1] \in Seq(S)
    BY <2>2
  <2>4. h \in [1 .. m + 1 -> Seq(S)]
    BY <2>2, <2>3
  <2>5. ASSUME NEW i \in 1 .. m + 1
        PROVE  h[i] = IF i = 1 THEN ss[i] ELSE h[i - 1] \o ss[i]
    <3>1. CASE i <= m
      <4>1. h[i] = g[i] /\ (i # 1 => h[i - 1] = g[i - 1])
        BY <3>1
      <4>2. g[i] = IF i = 1 THEN ss[i] ELSE g[i - 1] \o ss[i]
        <5>1. i \in 1 .. m
          BY <3>1
        <5>. QED BY <2>1, <5>1 DEF Joins
      <4>. QED BY <4>1, <4>2, Zenon
    <3>2. CASE i = m + 1
      <4>1. CASE m = 0
        BY <3>2, <4>1
      <4>2. CASE m # 0
        <5>1. h[m] = g[m] /\ h[m + 1] = g[m] \o ss[m + 1] /\ i # 1 /\ i - 1 = m
          <6>1. m \in 1 .. m + 1 /\ m + 1 \in 1 .. m + 1 /\ m <= m /\ ~(m + 1 <= m)
                /\ i # 1 /\ i - 1 = m
            BY <3>2, <4>2
          <6>. QED BY <4>2, <6>1, Zenon
        <5>. QED BY <3>2, <5>1, Zenon
      <4>. QED BY <4>1, <4>2
    <3>. QED BY <3>1, <3>2
  <2>. HIDE DEF h
  <2>6. Joins(h, ss, m + 1)
    BY <2>5 DEF Joins
  <2>. QED BY <2>4, <2>6
<1>. HIDE DEF T
<1>3. n \in T
  BY <1>1, <1>2, NatSetInduction
<1>. QED BY <1>3 DEF T

\* FlattenSeq puts its sequences together one after the other.
LEMMA FlattenJoins ==
    ASSUME NEW S, NEW ss \in Seq(Seq(S)), Len(ss) # 0
    PROVE  \E g \in [1 .. Len(ss) -> Seq(S)] :
               Joins(g, ss, Len(ss)) /\ FlattenSeq(ss) = g[Len(ss)]
<1>. DEFINE Values(f) == [i \in 1 .. Len(ss) |-> IF i = 1 THEN ss[i] ELSE f[i - 1] \o ss[i]]
            G == CHOOSE flatten : flatten = Values(flatten)
<1>1. PICK g \in [1 .. Len(ss) -> Seq(S)] : Joins(g, ss, Len(ss))
  BY JoinsExist
<1>2. g = Values(g)
  BY <1>1 DEF Joins
<1>3. G = Values(G)
  <2>. HIDE DEF Values
  <2>. QED BY <1>2
<1>4. FlattenSeq(ss) = G[Len(ss)]
  BY Zenon DEF FlattenSeq
<1>. HIDE DEF G
<1>5. \A i \in 1 .. Len(ss) : G[i] = IF i = 1 THEN ss[i] ELSE G[i - 1] \o ss[i]
  BY <1>3
<1>6. G = [i \in 1 .. Len(ss) |-> G[i]]
  BY <1>3
<1>. DEFINE T == {k \in Nat : k + 1 <= Len(ss) => G[k + 1] \in Seq(S)}
<1>7. 0 \in T
  <2>1. 1 <= Len(ss) => G[1] = ss[1] /\ ss[1] \in Seq(S)
    BY <1>5
  <2>. QED BY <2>1
<1>8. ASSUME NEW k \in Nat, k \in T
      PROVE  k + 1 \in T
  <2>. SUFFICES ASSUME (k + 1) + 1 <= Len(ss) PROVE G[(k + 1) + 1] \in Seq(S)
    OBVIOUS
  <2>1. G[k + 1] \in Seq(S) /\ ss[(k + 1) + 1] \in Seq(S)
    BY <1>8
  <2>2. G[(k + 1) + 1] = G[k + 1] \o ss[(k + 1) + 1]
    <3>1. (k + 1) + 1 \in 1 .. Len(ss) /\ (k + 1) + 1 # 1 /\ ((k + 1) + 1) - 1 = k + 1
      OBVIOUS
    <3>. QED BY <1>5, <3>1, Zenon
  <2>. QED BY <2>1, <2>2
<1>. HIDE DEF T
<1>9. Nat \subseteq T
  BY <1>7, <1>8, NatSetInduction
<1>10. ASSUME NEW i \in 1 .. Len(ss) PROVE G[i] \in Seq(S)
  <2>1. i - 1 \in Nat /\ (i - 1) + 1 = i /\ i <= Len(ss)
    OBVIOUS
  <2>. QED BY <1>9, <2>1 DEF T
<1>11. G \in [1 .. Len(ss) -> Seq(S)]
  BY <1>10, <1>6
<1>12. Joins(G, ss, Len(ss))
  BY <1>5, Zenon DEF Joins
<1>. QED BY <1>4, <1>11, <1>12

\* No value stands at two places.
Distinct(seq) == \A i, j \in DOMAIN seq : seq[i] = seq[j] => i = j

\* A value that is not there yet can be added at the end.
LEMMA AddDistinct ==
    ASSUME NEW S, NEW seq \in Seq(S), Distinct(seq), NEW x \in S,
           \A i \in DOMAIN seq : seq[i] # x
    PROVE  Distinct(seq \o <<x>>)
<1>1. /\ DOMAIN (seq \o <<x>>) = 1 .. Len(seq) + 1
      /\ \A i \in 1 .. Len(seq) : (seq \o <<x>>)[i] = seq[i]
      /\ (seq \o <<x>>)[Len(seq) + 1] = x
      /\ DOMAIN seq = 1 .. Len(seq) /\ Len(seq) \in Nat
  OBVIOUS
<1>. DEFINE new == seq \o <<x>>
<1>. HIDE DEF new
<1>2. /\ DOMAIN new = 1 .. Len(seq) + 1 /\ \A i \in 1 .. Len(seq) : new[i] = seq[i]
      /\ new[Len(seq) + 1] = x
  BY <1>1 DEF new
<1>3. ASSUME NEW i \in DOMAIN new, NEW j \in DOMAIN new, new[i] = new[j]
      PROVE  i = j
  <2>1. CASE i \in 1 .. Len(seq) /\ j \in 1 .. Len(seq)
    BY <1>1, <1>2, <1>3, <2>1 DEF Distinct
  <2>2. CASE i = Len(seq) + 1 /\ j = Len(seq) + 1
    BY <2>2
  <2>3. CASE i \in 1 .. Len(seq) /\ j = Len(seq) + 1
    BY <1>1, <1>2, <1>3, <2>3
  <2>4. CASE j \in 1 .. Len(seq) /\ i = Len(seq) + 1
    BY <1>1, <1>2, <1>3, <2>4
  <2>. QED BY <1>1, <1>2, <2>1, <2>2, <2>3, <2>4
<1>. QED BY <1>3 DEF Distinct, new

\* Of a list of wishes, the first mention of each known thing, and nothing else.
Wanted(asked, known) ==
    [i \in DOMAIN asked |->
        IF asked[i] \in known /\ \A j \in 1 .. i - 1 : asked[j] # asked[i]
        THEN <<asked[i]>> ELSE <<>>]

\* What each name asked for is turned into, place by place.
LEMMA WantedIs ==
    ASSUME NEW S, NEW asked \in Seq(S), NEW known
    PROVE  /\ Wanted(asked, known) \in Seq(Seq(S))
           /\ Len(Wanted(asked, known)) = Len(asked)
           /\ \A i \in DOMAIN asked :
                 Wanted(asked, known)[i] =
                    IF asked[i] \in known /\ \A j \in 1 .. i - 1 : asked[j] # asked[i]
                    THEN <<asked[i]>> ELSE <<>>
<1>. DEFINE e(i) == IF asked[i] \in known /\ \A j \in 1 .. i - 1 : asked[j] # asked[i]
                    THEN <<asked[i]>> ELSE <<>>
<1>1. ASSUME NEW i \in DOMAIN asked PROVE e(i) \in Seq(S)
  <2>1. asked[i] \in S
    OBVIOUS
  <2>2. <<asked[i]>> \in Seq(S) /\ <<>> \in Seq(S)
    BY <2>1
  <2>. QED BY <2>2, Zenon
<1>. PICK ss : ss = [i \in DOMAIN asked |-> e(i)]
  OBVIOUS
<1>2. ss = Wanted(asked, known)
  BY Zenon DEF Wanted
<1>3. \A i \in DOMAIN asked : ss[i] = e(i)
  OBVIOUS
<1>4. DOMAIN asked = 1 .. Len(asked) /\ Len(asked) \in Nat
  OBVIOUS
<1>5. ss \in Seq(Seq(S)) /\ Len(ss) = Len(asked)
  <2>. HIDE DEF e
  <2>. QED BY <1>1, <1>4
<1>. QED BY <1>2, <1>3, <1>5, Zenon

\* Each is there once.
LEMMA FirstMentionsOnce ==
    ASSUME NEW S, NEW asked \in Seq(S), NEW known, Len(asked) # 0
    PROVE  LET order == FlattenSeq(Wanted(asked, known))
           IN  /\ order \in Seq(S) /\ Distinct(order)
               /\ ToSet(order) = ToSet(asked) \cap known
<1>. DEFINE ss == Wanted(asked, known)
<1>1. /\ ss \in Seq(Seq(S)) /\ Len(ss) = Len(asked)
       /\ \A i \in DOMAIN asked :
             ss[i] = IF asked[i] \in known /\ \A j \in 1 .. i - 1 : asked[j] # asked[i]
                     THEN <<asked[i]>> ELSE <<>>
  BY WantedIs, Zenon
<1>. HIDE DEF ss
<1>2. PICK g \in [1 .. Len(ss) -> Seq(S)] :
         Joins(g, ss, Len(ss)) /\ FlattenSeq(ss) = g[Len(ss)]
  BY <1>1, FlattenJoins
<1>. DEFINE Values(seq) == {seq[i] : i \in DOMAIN seq}
            Right(n) == /\ Distinct(g[n])
                        /\ Values(g[n]) = {asked[i] : i \in 1 .. n} \cap known
            T == {k \in Nat : k + 1 <= Len(asked) => Right(k + 1)}
<1>3. \A i \in 1 .. Len(asked) : g[i] = IF i = 1 THEN ss[i] ELSE g[i - 1] \o ss[i]
  BY <1>2, <1>1, Zenon DEF Joins
<1>4. /\ \A i \in 1 .. Len(asked) : g[i] \in Seq(S)
      /\ Len(asked) \in Nat /\ DOMAIN asked = 1 .. Len(asked)
      /\ \A i \in 1 .. Len(asked) : asked[i] \in S
  <2>1. \A i \in 1 .. Len(asked) : g[i] \in Seq(S)
    BY <1>1
  <2>2. Len(asked) \in Nat /\ DOMAIN asked = 1 .. Len(asked)
    OBVIOUS
  <2>3. \A i \in 1 .. Len(asked) : asked[i] \in S
    OBVIOUS
  <2>. QED BY <2>1, <2>2, <2>3, Zenon
<1>5. ASSUME NEW x \in S PROVE Distinct(<<x>>) /\ Values(<<x>>) = {x}
  <2>1. DOMAIN <<x>> = {1} /\ <<x>>[1] = x
    OBVIOUS
  <2>. QED BY <2>1 DEF Distinct
<1>6. Distinct(<<>>) /\ Values(<<>>) = {}
  BY DEF Distinct
<1>7. ASSUME NEW seq \in Seq(S), NEW x \in S
      PROVE  Values(seq \o <<x>>) = Values(seq) \cup {x} /\ seq \o <<>> = seq
  <2>1. /\ DOMAIN (seq \o <<x>>) = 1 .. Len(seq) + 1 /\ DOMAIN seq = 1 .. Len(seq)
        /\ \A i \in 1 .. Len(seq) : (seq \o <<x>>)[i] = seq[i]
        /\ (seq \o <<x>>)[Len(seq) + 1] = x /\ Len(seq) \in Nat
    OBVIOUS
  <2>2. 1 .. Len(seq) + 1 = (1 .. Len(seq)) \cup {Len(seq) + 1}
    BY <2>1
  <2>3. seq \o <<>> = seq
    OBVIOUS
  <2>. DEFINE new == seq \o <<x>>
  <2>. HIDE DEF new
  <2>4. /\ DOMAIN new = (1 .. Len(seq)) \cup {Len(seq) + 1}
        /\ \A i \in 1 .. Len(seq) : new[i] = seq[i]
        /\ new[Len(seq) + 1] = x
    BY <2>1, <2>2 DEF new
  <2>5. Values(new) = Values(seq) \cup {x}
    <3>1. \A y \in Values(new) : y \in Values(seq) \cup {x}
      BY <2>1, <2>4
    <3>2. \A y \in Values(seq) \cup {x} : y \in Values(new)
      BY <2>1, <2>4
    <3>. QED BY <3>1, <3>2
  <2>. QED BY <2>3, <2>5 DEF new
<1>8. 0 \in T
  <2>1. 1 \in 1 .. Len(asked) /\ 0 + 1 = 1 /\ 1 .. 1 = {1} /\ 1 .. 1 - 1 = {}
    <3>1. 1 \in 1 .. Len(asked) /\ 0 + 1 = 1
      BY <1>4
    <3>2. 1 .. 1 = {1}
      OBVIOUS
    <3>3. 1 .. 1 - 1 = {}
      OBVIOUS
    <3>. QED BY <3>1, <3>2, <3>3
  <2>2. g[1] = IF asked[1] \in known THEN <<asked[1]>> ELSE <<>>
    <3>1. ss[1] = IF asked[1] \in known THEN <<asked[1]>> ELSE <<>>
      BY <1>4, <1>1, <2>1
    <3>. QED BY <1>3, <2>1, <3>1
  <2>. HIDE DEF Values
  <2>3. Right(1)
    BY <1>4, <1>5, <1>6, <2>1, <2>2
  <2>. QED BY <2>1, <2>3
<1>9. ASSUME NEW k \in Nat, k \in T
      PROVE  k + 1 \in T
  <2>. SUFFICES ASSUME (k + 1) + 1 <= Len(asked) PROVE Right((k + 1) + 1)
    <3>. HIDE DEF Right
    <3>. QED OBVIOUS
  <2>1. k + 1 \in Nat
    BY ONLY k \in Nat
  <2>. PICK m \in Nat : m = k + 1
    BY <2>1, Zenon
  <2>2. Right(m) /\ m \in 1 .. Len(asked) /\ m + 1 \in 1 .. Len(asked) /\ m + 1 # 1
        /\ (m + 1) - 1 = m /\ 1 .. m + 1 = (1 .. m) \cup {m + 1}
    <3>1. m \in 1 .. Len(asked) /\ m + 1 \in 1 .. Len(asked) /\ m + 1 # 1 /\ (m + 1) - 1 = m
          /\ k + 1 <= Len(asked)
      BY <1>4
    <3>2. 1 .. m + 1 = (1 .. m) \cup {m + 1}
      OBVIOUS
    <3>3. Right(m)
      <4>. HIDE DEF Right
      <4>. QED BY <1>9, <3>1
    <3>. HIDE DEF Right
    <3>. QED BY <3>1, <3>2, <3>3
  <2>3. g[m + 1] = g[m] \o ss[m + 1]
    BY <1>3, <2>2
  <2>. DEFINE x == asked[m + 1]
              New == x \in known /\ \A j \in 1 .. m : asked[j] # x
  <2>4. ss[m + 1] = IF New THEN <<x>> ELSE <<>>
    BY <1>4, <1>1, <2>2
  <2>5. g[m] \in Seq(S) /\ x \in S
    BY <1>4, <2>2
  <2>6. {asked[i] : i \in 1 .. m + 1} = {asked[i] : i \in 1 .. m} \cup {x}
    BY <2>2
  <2>. HIDE DEF x
  <2>7. CASE New
    <3>1. \A i \in DOMAIN g[m] : g[m][i] # x
      <4>1. \A i \in DOMAIN g[m] : g[m][i] \in Values(g[m])
        OBVIOUS
      <4>. HIDE DEF Values
      <4>2. \A y \in Values(g[m]) : \E j \in 1 .. m : y = asked[j]
        BY <2>2
      <4>. QED BY <2>7, <4>1, <4>2
    <3>2. Distinct(g[m] \o <<x>>)
      BY <2>2, <2>5, <3>1, AddDistinct
    <3>3. Values(g[m] \o <<x>>) = Values(g[m]) \cup {x}
      BY <1>7, <2>5
    <3>4. g[m + 1] = g[m] \o <<x>>
      BY <2>3, <2>4, <2>7
    <3>5. {asked[i] : i \in 1 .. m + 1} \cap known = ({asked[i] : i \in 1 .. m} \cap known) \cup {x}
      BY <2>6, <2>7
    <3>. HIDE DEF Values, New
    <3>. QED BY <2>2, <3>2, <3>3, <3>4, <3>5
  <2>8. CASE ~New
    <3>1. g[m + 1] = g[m]
      BY <1>7, <2>3, <2>4, <2>5, <2>8
    <3>2. {asked[i] : i \in 1 .. m + 1} \cap known = {asked[i] : i \in 1 .. m} \cap known
      BY <2>6, <2>8
    <3>. HIDE DEF Values
    <3>. QED BY <2>2, <3>1, <3>2
  <2>. QED BY <2>7, <2>8
<1>. HIDE DEF T
<1>10. Nat \subseteq T
  BY <1>8, <1>9, NatSetInduction
<1>11. Right(Len(asked))
  <2>1. Len(asked) - 1 \in Nat /\ (Len(asked) - 1) + 1 = Len(asked) /\ Len(asked) <= Len(asked)
    BY <1>4
  <2>2. Len(asked) - 1 \in T
    BY <1>10, <2>1
  <2>. HIDE DEF Right
  <2>. QED BY <2>1, <2>2 DEF T
<1>12. g[Len(asked)] \in Seq(S)
  BY <1>4
<1>13. {asked[i] : i \in 1 .. Len(asked)} = {asked[i] : i \in DOMAIN asked}
  BY <1>4
<1>14. FlattenSeq(ss) = g[Len(asked)]
  BY <1>2, <1>1
<1>15. /\ FlattenSeq(ss) \in Seq(S) /\ Distinct(FlattenSeq(ss))
       /\ Values(FlattenSeq(ss)) = {asked[i] : i \in DOMAIN asked} \cap known
  <2>1. FlattenSeq(ss) \in Seq(S)
    BY <1>12, <1>14
  <2>2. Distinct(g[Len(asked)])
    BY <1>11
  <2>3. Values(g[Len(asked)]) = {asked[i] : i \in DOMAIN asked} \cap known
    BY <1>11, <1>13, Zenon
  <2>. HIDE DEF Values
  <2>. QED BY <1>14, <2>1, <2>2, <2>3
<1>. QED BY <1>15, Zenon DEF ss, ToSet

\* The wishes come first, then what they forget.
LEMMA WishesThenAll ==
    ASSUME NEW S, NEW wishes \in Seq(S), NEW names \in Seq(S), names # <<>>
    PROVE  LET order == FlattenSeq(Wanted(wishes \o names, ToSet(names)))
           IN  /\ order \in Seq(S) /\ Distinct(order)
               /\ ToSet(order) = ToSet(names)
<1>. PICK asked : asked = wishes \o names
  OBVIOUS
<1>. PICK known : known = ToSet(names)
  OBVIOUS
<1>1. /\ asked \in Seq(S) /\ DOMAIN asked = 1 .. Len(wishes) + Len(names)
      /\ Len(wishes) \in Nat /\ Len(names) \in Nat /\ Len(asked) = Len(wishes) + Len(names)
      /\ \A i \in 1 .. Len(names) : asked[Len(wishes) + i] = names[i]
      /\ Len(names) # 0 /\ DOMAIN names = 1 .. Len(names)
  OBVIOUS
<1>2. known \subseteq ToSet(asked)
  <2>1. ASSUME NEW i \in 1 .. Len(names)
        PROVE  Len(wishes) + i \in DOMAIN asked /\ asked[Len(wishes) + i] = names[i]
    BY <1>1
  <2>. QED BY <1>1, <2>1 DEF ToSet
<1>3. Len(asked) # 0
  BY <1>1
<1>4. LET order == FlattenSeq(Wanted(asked, known))
      IN  /\ order \in Seq(S) /\ Distinct(order)
          /\ ToSet(order) = ToSet(asked) \cap known
  BY <1>1, <1>3, FirstMentionsOnce, Zenon
<1>5. ToSet(asked) \cap known = known
  BY <1>2
<1>. QED BY <1>4, <1>5, Zenon

\* A build writes every file of its plan once, in whatever order the model asked for, with
\* whatever unknown, repeated and forgotten paths (ensure_buildable, _resolve_build_order).
THEOREM EachFileOnce ==
    ASSUME NEW plan \in Plans
    PROVE  LET order == BuildOrder(plan)
           IN  /\ order \in Seq(Paths) /\ Distinct(order)
               /\ ToSet(order) = PathsOf(plan)
<1>. DEFINE name(i) == plan.files[i].path
            names == [i \in DOMAIN plan.files |-> name(i)]
            asked == plan.order \o names
<1>1. plan.files \in Seq(Entry) /\ plan.order \in Seq(Paths) /\ plan.files # <<>>
  BY BuildAssumption
<1>2. DOMAIN plan.files = 1 .. Len(plan.files) /\ Len(plan.files) \in Nat /\ Len(plan.files) # 0
  BY <1>1
<1>3. \A i \in DOMAIN plan.files : name(i) \in Paths
  <2>1. \A i \in DOMAIN plan.files : plan.files[i] \in Entry
    BY <1>1
  <2>. QED BY <2>1 DEF Entry
<1>4. BuildOrder(plan) = FlattenSeq(Wanted(asked, PathsOf(plan)))
  BY Zenon DEF BuildOrder, Wanted
<1>5. PathsOf(plan) = ToSet(names)
  <2>1. \A i \in DOMAIN plan.files : names[i] = name(i)
    OBVIOUS
  <2>2. DOMAIN names = DOMAIN plan.files
    OBVIOUS
  <2>3. PathsOf(plan) = {name(i) : i \in DOMAIN plan.files}
    BY Zenon DEF PathsOf
  <2>. HIDE DEF names, name
  <2>. QED BY <2>1, <2>2, <2>3 DEF ToSet
<1>6. names \in Seq(Paths) /\ names # <<>>
  <2>. HIDE DEF name
  <2>1. names \in Seq(Paths) /\ Len(names) = Len(plan.files)
    BY <1>2, <1>3
  <2>. QED BY <1>2, <2>1
<1>. HIDE DEF names
<1>7. asked = plan.order \o names
  OBVIOUS
<1>. HIDE DEF asked
<1>8. LET order == FlattenSeq(Wanted(asked, PathsOf(plan)))
      IN  /\ order \in Seq(Paths) /\ Distinct(order)
          /\ ToSet(order) = PathsOf(plan)
  <2>1. LET order == FlattenSeq(Wanted(plan.order \o names, ToSet(names)))
        IN  /\ order \in Seq(Paths) /\ Distinct(order)
            /\ ToSet(order) = ToSet(names)
    BY <1>1, <1>6, WishesThenAll
  <2>. QED BY <1>5, <1>7, <2>1, Zenon
<1>. QED BY <1>4, <1>8, Zenon

\* The last entry for a path of the plan gives it a content, or leaves it to the engine.
LEMMA Given ==
    ASSUME NEW plan \in Plans, NEW path \in PathsOf(plan)
    PROVE  GivenFor(plan, path) \in Contents \cup {Absent}
<1>. DEFINE places == {i \in DOMAIN plan.files : plan.files[i].path = path}
<1>1. plan.files \in Seq(Entry)
  BY BuildAssumption
<1>2. places # {} /\ places \in SUBSET (1 .. Len(plan.files)) /\ Len(plan.files) \in Nat
  BY <1>1 DEF PathsOf
<1>3. Max(places) \in places
  <2>. HIDE DEF places
  <2>. QED BY <1>2, MaxAmong
<1>4. plan.files[Max(places)] \in Entry
  <2>1. \A m \in DOMAIN plan.files : plan.files[m] \in Entry
    BY <1>1
  <2>2. Max(places) \in DOMAIN plan.files
    BY <1>3, Zenon
  <2>. QED BY <2>1, <2>2, Zenon
<1>5. GivenFor(plan, path) = plan.files[Max(places)].given
  BY DEF GivenFor
<1>. HIDE DEF places
<1>. QED BY <1>4, <1>5 DEF Entry

(***************************************************************************)
(* Types.  A build is typed by itself, given the folders that exist.       *)
(***************************************************************************)
Working == {"build", "review", "test", "fix", "judge", "heal", "write", "verify", "record"}

\* A budget of 0 allows one cycle of self-healing.
Most == Max({MaxFix, 1})

\* What the places of a build say of its state: where it has a plan and a folder, that the
\* counts have room where they are raised, and that a cycle of healing has items.
RunTyped(r, made) ==
    /\ r.pc \in Early \cup {"make", "done"} \cup Working
    /\ r.plan \in Plans \cup {Absent}
    /\ r.pc \notin {"start", "plan", "done"} => r.plan \in Plans
    /\ r.engine \in Engines
    /\ r.dir \in 0 .. MaxDirs
    /\ r.pc = "make" => r.dir \in Dirs
    /\ r.pc \in Working => r.dir \in Dirs \cap made
    /\ r.built # {} => r.dir \in made
    /\ r.pc \in Early \cup {"make"} => r.built = {}
    /\ r.next \in Nat \ {0}
    /\ r.status \in Finished \cup Stopped \cup {"none"}
    /\ r.pc \in {"heal", "write", "verify", "record"} => r.status \in Finished
    /\ r.attempts \in 0 .. MaxFix
    /\ r.pc = "fix" => r.attempts < MaxFix
    /\ r.heals \in 0 .. Most
    /\ r.pc \notin {"heal", "write", "verify", "record", "done"} => r.heals = 0
    /\ r.pc = "heal" => r.heals < Most
    /\ r.pc \in {"heal", "write", "verify"} => r.items \in Seq(Contents) /\ r.items # <<>>
    /\ r.pc = "write" => r.next \in DOMAIN r.items

\* The files of the folders; a folder that was not made has none.
FilesTyped ==
    /\ ws \in [Dirs -> [Paths -> Contents \cup {Absent}]]
    /\ \A d \in Dirs \ exists : FilesIn(d) = {}

TypeInv ==
    /\ opts \in CommandLines
    /\ \A s \in Sessions : RunTyped(run[s], exists)
    /\ \A s \in Sessions : run[s].pc # "done" => opts[s] # Absent
    /\ FilesTyped

\* The budget of the healing (self_heal): at least one, at least the number of fixes.
LEMMA MostIs == Most \in Nat /\ Most >= 1 /\ Most >= MaxFix
<1>1. MaxFix \in Nat
  BY BuildAssumption
<1>2. \E x \in {MaxFix, 1} : \A y \in {MaxFix, 1} : x >= y
  BY <1>1
<1>3. Max({MaxFix, 1}) \in {MaxFix, 1} /\ \A y \in {MaxFix, 1} : Max({MaxFix, 1}) >= y
  BY <1>2, Zenon DEF Max
<1>. QED BY <1>1, <1>3 DEF Most

\* The command lines name engines and plans of the sets they are taken from (cmd_build).
LEMMA LineTyped ==
    ASSUME TypeInv, NEW s \in Sessions, opts[s] # Absent
    PROVE  opts[s].plans \subseteq Plans /\ opts[s].engine \in Engines \cup {"auto"}
BY BuildAssumption DEF TypeInv

\* The answer to a gate's question does not matter to the types (ConfirmGate._allow_all).
LEMMA AlwaysTyped ==
    ASSUME NEW r, Fields \subseteq DOMAIN r, NEW made, RunTyped(r, made), NEW x
    PROVE  RunTyped([r EXCEPT !.always = x], made)
<1>. PICK new : new = [r EXCEPT !.always = x]
  OBVIOUS
<1>1. /\ new.pc = r.pc /\ new.plan = r.plan /\ new.engine = r.engine /\ new.dir = r.dir
      /\ new.next = r.next /\ new.built = r.built /\ new.attempts = r.attempts
      /\ new.heals = r.heals /\ new.items = r.items /\ new.status = r.status
  BY DEF Fields
<1>. QED BY <1>1, Zenon DEF RunTyped

\* More folders do not disturb a build.
LEMMA MoreFolders ==
    ASSUME NEW r, NEW made, NEW more, made \subseteq more, RunTyped(r, made)
    PROVE  RunTyped(r, more)
<1>1. /\ r.pc \in Working => r.dir \in Dirs \cap more
      /\ r.built # {} => r.dir \in more
  BY DEF RunTyped
<1>. QED BY <1>1, Zenon DEF RunTyped

\* A step of one build keeps the types if its new state has them and the files do.
LEMMA StepTyped ==
    ASSUME TypeInv, Shape, NEW s \in Sessions, NEW new, Set(s, new),
           UNCHANGED opts, exists \subseteq exists', RunTyped(new, exists'),
           run[s].pc # "done", FilesTyped'
    PROVE  TypeInv'
<1>1. /\ DOMAIN run' = Sessions /\ run'[s] = new
      /\ \A t \in Sessions \ {s} : run'[t] = run[t]
  BY Others
<1>2. \A t \in Sessions : RunTyped(run'[t], exists')
  <2>1. \A t \in Sessions \ {s} : RunTyped(run'[t], exists')
    BY <1>1, MoreFolders DEF TypeInv
  <2>. QED BY <1>1, <2>1
<1>3. \A t \in Sessions : run'[t].pc # "done" => opts'[t] # Absent
  BY <1>1 DEF TypeInv
<1>. QED BY <1>2, <1>3 DEF TypeInv

\* A step that writes no file changes no folder's type, and a new folder is empty.
LEMMA FilesStay ==
    ASSUME TypeInv, UNCHANGED ws, exists \subseteq exists'
    PROVE  FilesTyped'
BY DEF TypeInv, FilesTyped, FilesIn

\* A step of a build that only sets its own state.
LEMMA QuietTyped ==
    ASSUME TypeInv, Shape, NEW s \in Sessions, NEW new, Set(s, new), run[s].pc # "done",
           UNCHANGED <<opts, exists, ws>>, RunTyped(new, exists)
    PROVE  TypeInv'
<1>1. FilesTyped'
  BY FilesStay
<1>. QED BY <1>1, StepTyped

\* The files stay typed when a file of a folder that was made gets a content
\* (Executor.write_file).
LEMMA FileWritten ==
    ASSUME TypeInv, NEW d \in Dirs \cap exists, NEW path, NEW content \in Contents,
           ws' = [ws EXCEPT ![d][path] = content], UNCHANGED exists
    PROVE  FilesTyped'
<1>1. ws \in [Dirs -> [Paths -> Contents \cup {Absent}]]
  BY DEF TypeInv, FilesTyped
<1>2. ws' \in [Dirs -> [Paths -> Contents \cup {Absent}]]
  BY <1>1
<1>3. \A e \in Dirs \ exists : ws'[e] = ws[e]
  BY <1>1
<1>. QED BY <1>2, <1>3 DEF TypeInv, FilesTyped, FilesIn

\* A write leaves the build in one of two states, whatever the gate answers.
LEMMA WriteTyped ==
    ASSUME TypeInv, Shape, NEW s \in Sessions, NEW path, NEW content \in Contents,
           NEW whenWritten, NEW whenNot, Write(s, path, content, whenWritten, whenNot),
           Fields \subseteq DOMAIN whenWritten, Fields \subseteq DOMAIN whenNot,
           RunTyped(whenWritten, exists), RunTyped(whenNot, exists),
           run[s].dir \in Dirs \cap exists, run[s].pc # "done",
           UNCHANGED <<opts, exists>>
    PROVE  TypeInv'
<1>1. PICK answer :
         LET sticky == YesToAll(run[s], answer)
         IN \/ /\ ws' = [ws EXCEPT ![run[s].dir][path] = content]
               /\ Set(s, [whenWritten EXCEPT !.always = sticky])
            \/ Set(s, [whenNot EXCEPT !.always = sticky]) /\ UNCHANGED ws
  BY Zenon DEF Write
<1>. DEFINE sticky == YesToAll(run[s], answer)
<1>2. FilesTyped'
  <2>1. CASE ws' = [ws EXCEPT ![run[s].dir][path] = content]
    BY <2>1, FileWritten
  <2>2. CASE UNCHANGED ws
    BY <2>2, FilesStay
  <2>. QED BY <1>1, <2>1, <2>2
<1>3. PICK new \in {whenWritten, whenNot} : Set(s, [new EXCEPT !.always = sticky])
  BY <1>1
<1>4. RunTyped([new EXCEPT !.always = sticky], exists)
  BY AlwaysTyped
<1>. QED BY <1>2, <1>3, <1>4, StepTyped

\* The new state that a change of place gives a build.
LEMMA GotoSets ==
    ASSUME Shape, NEW s \in Sessions, NEW label, Goto(s, label)
    PROVE  Set(s, [run[s] EXCEPT !.pc = label])
BY DEF Shape, Goto, Set

\* All fields but the place stay, so that the types ask only what the new place needs.
LEMMA PlaceTyped ==
    ASSUME NEW r, Fields \subseteq DOMAIN r, NEW made, RunTyped(r, made), r.pc # "done",
           NEW label \in {"plan", "route", "choose", "test", "review", "record", "heal", "judge"},
           label # "plan" => r.pc \notin {"start", "plan"},
           label \in Early => r.pc \in Early,
           label \in Working => r.pc \in Working,
           label \in {"heal", "record"} => r.status \in Finished,
           label = "heal" => r.pc = "verify" /\ r.heals < Most,
           label \in {"test", "review", "judge"} =>
              r.pc \notin {"heal", "write", "verify", "record", "done"}
    PROVE  RunTyped([r EXCEPT !.pc = label], made)
<1>. PICK new : new = [r EXCEPT !.pc = label]
  OBVIOUS
<1>1. /\ new.pc = label /\ new.plan = r.plan /\ new.engine = r.engine /\ new.dir = r.dir
      /\ new.next = r.next /\ new.built = r.built /\ new.attempts = r.attempts
      /\ new.heals = r.heals /\ new.items = r.items /\ new.status = r.status
  BY DEF Fields
<1>2. RunTyped(new, made)
  <2>1. new.pc \in Early \cup {"make", "done"} \cup Working /\ new.pc # "make" /\ new.pc # "done"
        /\ new.pc # "write" /\ new.pc # "fix"
    BY <1>1 DEF Early, Working
  <2>2. /\ new.pc \notin {"start", "plan", "done"} => new.plan \in Plans
        /\ new.pc \in Working => new.dir \in Dirs \cap made
        /\ new.pc \in Early \cup {"make"} => new.built = {}
    BY <1>1 DEF RunTyped, Early, Working
  <2>3. /\ new.pc \in {"heal", "write", "verify", "record"} => new.status \in Finished
        /\ new.pc = "heal" => new.heals < Most
        /\ new.pc \in {"heal", "write", "verify"} => new.items \in Seq(Contents) /\ new.items # <<>>
    BY <1>1 DEF RunTyped, Early, Working
  <2>4. new.pc \notin {"heal", "write", "verify", "record", "done"} => new.heals = 0
    BY <1>1 DEF RunTyped, Early, Working
  <2>. QED BY <1>1, <2>1, <2>2, <2>3, <2>4 DEF RunTyped
<1>. QED BY <1>2

\* A build that ends has no obligations but its counts.
LEMMA DoneTyped ==
    ASSUME NEW r, NEW made, RunTyped(r, made), NEW new, new.pc = "done",
           new.plan = r.plan, new.engine = r.engine, new.dir = r.dir,
           new.next = r.next, new.built = r.built, new.attempts = r.attempts,
           new.heals = r.heals, new.status \in Finished \cup Stopped
    PROVE  RunTyped(new, made)
<1>1. /\ new.pc \in Early \cup {"make", "done"} \cup Working
      /\ new.pc \notin Early \cup {"make"} \cup Working
  BY DEF Early, Working
<1>2. \A label : label # "done" => new.pc # label
  OBVIOUS
<1>. QED BY <1>1, <1>2 DEF RunTyped

\* A build that stops (Session.run returns early, or an exception leaves it).
LEMMA StopTyped ==
    ASSUME TypeInv, Shape, NEW s \in Sessions, NEW status \in Stopped, Stop(s, status),
           run[s].pc # "done", UNCHANGED <<opts, exists, ws>>
    PROVE  TypeInv'
<1>1. PICK new : new = [run[s] EXCEPT !.pc = "done", !.status = status]
  OBVIOUS
<1>2. Set(s, new)
  BY <1>1 DEF Stop, Set, Shape
<1>3. /\ new.pc = "done" /\ new.plan = run[s].plan /\ new.engine = run[s].engine
      /\ new.dir = run[s].dir /\ new.next = run[s].next /\ new.built = run[s].built
      /\ new.attempts = run[s].attempts /\ new.heals = run[s].heals /\ new.status = status
  BY <1>1 DEF Shape, Fields
<1>4. RunTyped(run[s], exists)
  BY DEF TypeInv
<1>5. RunTyped(new, exists)
  BY <1>3, <1>4, DoneTyped
<1>. QED BY <1>2, <1>5, QuietTyped

\* A change of place.
LEMMA GotoTyped ==
    ASSUME TypeInv, Shape, NEW s \in Sessions, NEW label, Goto(s, label), run[s].pc # "done",
           RunTyped([run[s] EXCEPT !.pc = label], exists), UNCHANGED <<opts, exists, ws>>
    PROVE  TypeInv'
BY GotoSets, QuietTyped

\* The steps before a folder is chosen (Session.run, PlannerBrain.plan, ModelRouter.route).
LEMMA EarlyTyped ==
    ASSUME TypeInv, Shape, NEW s \in Sessions,
           Begin(s) \/ MakePlan(s) \/ ConfirmPlan(s) \/ Route(s)
    PROVE  TypeInv'
<1>. USE DEF Local, memory, history, At
<1>1. RunTyped(run[s], exists) /\ Fields \subseteq DOMAIN run[s]
  BY DEF TypeInv, Shape
<1>2. CASE Begin(s)
  <2>1. run[s].pc = "start" /\ UNCHANGED <<opts, exists, ws>>
    BY <1>2 DEF Begin
  <2>2. CASE Stop(s, "empty")
    BY <2>1, <2>2, StopTyped DEF Stopped
  <2>3. CASE Goto(s, "plan")
    <3>1. RunTyped([run[s] EXCEPT !.pc = "plan"], exists)
      BY <1>1, <2>1, PlaceTyped DEF Early, Working
    <3>. QED BY <2>1, <2>3, <3>1, GotoTyped
  <2>. QED BY <1>2, <2>2, <2>3 DEF Begin
<1>3. CASE MakePlan(s)
  <2>1. run[s].pc = "plan" /\ UNCHANGED <<opts, exists, ws>>
    BY <1>3 DEF MakePlan
  <2>2. ASSUME NEW plan \in opts[s].plans, NEW label \in {"route", "confirm"},
               Set(s, [run[s] EXCEPT !.plan = plan, !.pc = label])
        PROVE  TypeInv'
    <3>1. plan \in Plans
      BY <2>1, LineTyped DEF TypeInv
    <3>2. PICK new : new = [run[s] EXCEPT !.plan = plan, !.pc = label]
      OBVIOUS
    <3>3. /\ new.pc = label /\ new.plan = plan /\ new.engine = run[s].engine
          /\ new.dir = run[s].dir /\ new.next = run[s].next /\ new.built = run[s].built
          /\ new.attempts = run[s].attempts /\ new.heals = run[s].heals
          /\ new.status = run[s].status
      BY <1>1, <3>2 DEF Fields
    <3>4. RunTyped(new, exists)
      <4>1. run[s].built = {} /\ run[s].heals = 0
        BY <1>1, <2>1 DEF RunTyped, Early
      <4>2. /\ label \in Early /\ label \notin Working
            /\ label \notin {"make", "record", "fix", "heal", "write", "verify", "done"}
        BY DEF Early, Working
      <4>. QED BY <1>1, <3>1, <3>3, <4>1, <4>2 DEF RunTyped
    <3>. QED BY <2>1, <2>2, <3>2, <3>4, QuietTyped
  <2>3. ASSUME NEW status \in {"error", "crashed"}, Stop(s, status)
        PROVE  TypeInv'
    BY <2>1, <2>3, StopTyped DEF Stopped
  <2>. QED BY <1>3, <2>2, <2>3 DEF MakePlan
<1>4. CASE ConfirmPlan(s)
  <2>1. run[s].pc = "confirm" /\ UNCHANGED <<opts, exists, ws>>
    BY <1>4 DEF ConfirmPlan
  <2>2. CASE Stop(s, "declined")
    BY <2>1, <2>2, StopTyped DEF Stopped
  <2>3. CASE Goto(s, "route")
    <3>1. RunTyped([run[s] EXCEPT !.pc = "route"], exists)
      BY <1>1, <2>1, PlaceTyped DEF Early, Working
    <3>. QED BY <2>1, <2>3, <3>1, GotoTyped
  <2>. QED BY <1>4, <2>2, <2>3 DEF ConfirmPlan
<1>5. CASE Route(s)
  <2>1. run[s].pc = "route" /\ UNCHANGED <<opts, exists, ws>>
    BY <1>5 DEF Route
  <2>2. CASE Goto(s, "choose")
    <3>1. RunTyped([run[s] EXCEPT !.pc = "choose"], exists)
      BY <1>1, <2>1, PlaceTyped DEF Early, Working
    <3>. QED BY <2>1, <2>2, <3>1, GotoTyped
  <2>3. ASSUME NEW engine \in Engines, NEW explicit,
               Set(s, [run[s] EXCEPT !.pc = "choose", !.engine = engine, !.explicit = explicit])
        PROVE  TypeInv'
    <3>1. PICK new : new = [run[s] EXCEPT !.pc = "choose", !.engine = engine,
                                         !.explicit = explicit]
      OBVIOUS
    <3>2. /\ new.pc = "choose" /\ new.plan = run[s].plan /\ new.engine = engine
          /\ new.dir = run[s].dir /\ new.next = run[s].next /\ new.built = run[s].built
          /\ new.attempts = run[s].attempts /\ new.heals = run[s].heals
          /\ new.status = run[s].status
      BY <1>1, <3>1 DEF Fields
    <3>3. RunTyped(new, exists)
      <4>1. run[s].built = {} /\ run[s].heals = 0 /\ run[s].plan \in Plans
        BY <1>1, <2>1 DEF RunTyped, Early
      <4>2. "choose" \in Early /\ "choose" \notin Working
        BY DEF Early, Working
      <4>. QED BY <1>1, <3>2, <4>1, <4>2 DEF RunTyped
    <3>. QED BY <2>1, <2>3, <3>1, <3>3, QuietTyped
  <2>4. \/ Goto(s, "choose")
        \/ \E engine \in Engines : \E explicit :
              Set(s, [run[s] EXCEPT !.pc = "choose", !.engine = engine, !.explicit = explicit])
    BY <1>5, Zenon DEF Route
  <2>. QED BY <2>2, <2>3, <2>4
<1>. QED BY <1>2, <1>3, <1>4, <1>5

\* _make_workspace: the folder that is chosen, and its making.
LEMMA FolderTyped ==
    ASSUME TypeInv, Shape, NEW s \in Sessions, ChooseDir(s) \/ MakeDir(s)
    PROVE  TypeInv'
<1>. USE DEF Local, memory, history, At
<1>1. RunTyped(run[s], exists) /\ Fields \subseteq DOMAIN run[s]
  BY DEF TypeInv, Shape
<1>2. CASE ChooseDir(s)
  <2>1. run[s].pc = "choose" /\ UNCHANGED <<opts, exists, ws>>
    BY <1>2 DEF ChooseDir
  <2>2. PICK d \in Dirs : Set(s, [run[s] EXCEPT !.pc = "make", !.dir = d])
    BY <1>2 DEF ChooseDir, Least, Free
  <2>3. PICK new : new = [run[s] EXCEPT !.pc = "make", !.dir = d]
    OBVIOUS
  <2>4. /\ new.pc = "make" /\ new.plan = run[s].plan /\ new.engine = run[s].engine
        /\ new.dir = d /\ new.next = run[s].next /\ new.built = run[s].built
        /\ new.attempts = run[s].attempts /\ new.heals = run[s].heals
        /\ new.status = run[s].status
    BY <1>1, <2>3 DEF Fields
  <2>5. RunTyped(new, exists)
    <3>1. run[s].built = {} /\ run[s].heals = 0 /\ run[s].plan \in Plans
      BY <1>1, <2>1 DEF RunTyped, Early
    <3>2. "make" \notin Working /\ d \in 0 .. MaxDirs
      BY BuildAssumption DEF Working, Dirs
    <3>. QED BY <1>1, <2>4, <3>1, <3>2 DEF RunTyped
  <2>. QED BY <2>1, <2>2, <2>3, <2>5, QuietTyped
<1>3. CASE MakeDir(s)
  <2>1. /\ run[s].pc = "make" /\ exists' = exists \cup {run[s].dir}
        /\ UNCHANGED <<opts, ws>> /\ Goto(s, "build")
    BY <1>3 DEF MakeDir
  <2>2. PICK new : new = [run[s] EXCEPT !.pc = "build"]
    OBVIOUS
  <2>3. /\ new.pc = "build" /\ new.plan = run[s].plan /\ new.engine = run[s].engine
        /\ new.dir = run[s].dir /\ new.next = run[s].next /\ new.built = run[s].built
        /\ new.attempts = run[s].attempts /\ new.heals = run[s].heals
        /\ new.status = run[s].status
    BY <1>1, <2>2 DEF Fields
  <2>4. RunTyped(new, exists')
    <3>1. run[s].built = {} /\ run[s].heals = 0 /\ run[s].plan \in Plans /\ run[s].dir \in Dirs
      BY <1>1, <2>1 DEF RunTyped, Early
    <3>2. "build" \in Working /\ "build" \notin Early
      BY DEF Working, Early
    <3>. QED BY <1>1, <2>1, <2>3, <3>1, <3>2 DEF RunTyped
  <2>5. Set(s, new)
    BY <2>1, <2>2, GotoSets
  <2>6. FilesTyped'
    BY <2>1, FilesStay
  <2>. QED BY <2>1, <2>4, <2>5, <2>6, StepTyped
<1>. QED BY <1>2, <1>3

\* BuilderBrain.build: what it writes are contents, into the build's own folder.
LEMMA BuildFileTyped ==
    ASSUME TypeInv, Shape, NEW s \in Sessions, BuildFile(s)
    PROVE  TypeInv'
<1>. DEFINE r == run[s]
            order == BuildOrder(r.plan)
            path == order[r.next]
            given == GivenFor(r.plan, path)
            left == [r EXCEPT !.next = @ + 1]
            kept == [left EXCEPT !.built = @ \cup {path}]
<1>1. RunTyped(r, exists) /\ Fields \subseteq DOMAIN r
  BY DEF TypeInv, Shape
<1>2. /\ r.pc = "build" /\ r.next <= Len(order) /\ UNCHANGED <<opts, exists>>
      /\ \/ given # Absent /\ Write(s, path, given, kept, left)
         \/ \E content \in {"good", "poor", "broken"} : Write(s, path, content, kept, left)
         \/ Set(s, left) /\ UNCHANGED ws
  BY Zenon DEF BuildFile, At, memory
<1>3. r.plan \in Plans /\ r.dir \in Dirs \cap exists /\ r.next \in Nat \ {0}
  BY <1>1, <1>2 DEF RunTyped, Early, Working
<1>4. given \in Contents \cup {Absent}
  <2>1. order \in Seq(Paths) /\ ToSet(order) = PathsOf(r.plan)
    BY <1>3, EachFileOnce, Zenon
  <2>2. r.next \in DOMAIN order
    BY <1>2, <1>3, <2>1
  <2>. HIDE DEF order
  <2>3. path \in PathsOf(r.plan)
    BY <2>1, <2>2 DEF ToSet
  <2>. QED BY <1>3, <2>3, Given
<1>. HIDE DEF path, given, order
<1>5. /\ left.pc = r.pc /\ left.plan = r.plan /\ left.engine = r.engine /\ left.dir = r.dir
      /\ left.next = r.next + 1 /\ left.built = r.built /\ left.attempts = r.attempts
      /\ left.heals = r.heals /\ left.items = r.items /\ left.status = r.status
      /\ Fields \subseteq DOMAIN left
  BY <1>1 DEF Fields
<1>6. RunTyped(left, exists)
  <2>1. left.next \in Nat \ {0} /\ left.pc = "build"
    BY <1>2, <1>3, <1>5
  <2>. HIDE DEF left, r
  <2>. QED BY <1>1, <1>2, <1>5, <2>1 DEF RunTyped
<1>. HIDE DEF left
<1>7. /\ kept.pc = left.pc /\ kept.plan = left.plan /\ kept.engine = left.engine
      /\ kept.dir = left.dir /\ kept.next = left.next /\ kept.attempts = left.attempts
      /\ kept.heals = left.heals /\ kept.items = left.items /\ kept.status = left.status
      /\ Fields \subseteq DOMAIN kept
  BY <1>5 DEF Fields
<1>8. RunTyped(kept, exists)
  <2>1. kept.dir \in exists /\ kept.pc = "build" /\ kept.pc \notin Early \cup {"make"}
    BY <1>2, <1>3, <1>5, <1>7 DEF Early
  <2>. HIDE DEF kept
  <2>. QED BY <1>6, <1>7, <2>1 DEF RunTyped
<1>. HIDE DEF kept
<1>9. ASSUME NEW content \in Contents, Write(s, path, content, kept, left)
       PROVE  TypeInv'
  BY <1>2, <1>3, <1>5, <1>6, <1>7, <1>8, <1>9, WriteTyped
<1>10. CASE Set(s, left) /\ UNCHANGED ws
  BY <1>2, <1>6, <1>10, QuietTyped
<1>11. {"good", "poor", "broken"} \subseteq Contents
  BY DEF Contents
<1>12. CASE given # Absent /\ Write(s, path, given, kept, left)
  BY <1>4, <1>9, <1>12
<1>13. CASE \E content \in {"good", "poor", "broken"} : Write(s, path, content, kept, left)
  BY <1>9, <1>11, <1>13
<1>. QED BY <1>2, <1>10, <1>12, <1>13

\* The end of a build that gives its status to its row and its exit code.
LEMMA EndedTyped ==
    ASSUME TypeInv, Shape, NEW s \in Sessions, NEW status \in Finished, Ended(s, status),
           run[s].pc # "done", UNCHANGED <<opts, exists, ws>>
    PROVE  TypeInv'
<1>1. PICK new : new = [run[s] EXCEPT !.pc = "done", !.status = status,
                                     !.exit = IF status = "passed" THEN 0 ELSE 1]
  OBVIOUS
<1>2. Set(s, new)
  BY <1>1 DEF Ended, Set, Shape
<1>3. /\ new.pc = "done" /\ new.plan = run[s].plan /\ new.engine = run[s].engine
      /\ new.dir = run[s].dir /\ new.next = run[s].next /\ new.built = run[s].built
      /\ new.attempts = run[s].attempts /\ new.heals = run[s].heals /\ new.status = status
  BY <1>1 DEF Shape, Fields
<1>4. RunTyped(new, exists)
  BY <1>3, DoneTyped DEF TypeInv
<1>5. FilesTyped'
  BY FilesStay
<1>. QED BY <1>2, <1>4, <1>5, StepTyped

\* The end of the writing, and the review (Session.run, ReviewerBrain.review).
LEMMA ReviewTyped ==
    ASSUME TypeInv, Shape, NEW s \in Sessions, EndBuild(s) \/ Review(s)
    PROVE  TypeInv'
<1>. USE DEF Local, memory, history, At
<1>1. RunTyped(run[s], exists) /\ Fields \subseteq DOMAIN run[s]
  BY DEF TypeInv, Shape
<1>2. CASE EndBuild(s)
  <2>1. run[s].pc = "build" /\ UNCHANGED <<opts, exists, ws>>
    BY <1>2 DEF EndBuild, Remember
  <2>2. CASE Ended(s, "failed")
    BY <2>1, <2>2, EndedTyped DEF Finished
  <2>3. ASSUME NEW label \in {"review", "test"}, Goto(s, label)
        PROVE  TypeInv'
    <3>1. RunTyped([run[s] EXCEPT !.pc = label], exists)
      <4>1. label \notin Early /\ "build" \in Working
        BY DEF Early, Working
      <4>. QED BY <1>1, <2>1, <4>1, PlaceTyped
    <3>. QED BY <2>1, <2>3, <3>1, GotoTyped
  <2>4. Ended(s, "failed") \/ \E label \in {"review", "test"} : Goto(s, label)
    BY <1>2 DEF EndBuild
  <2>. QED BY <2>2, <2>3, <2>4
<1>3. CASE Review(s)
  <2>1. run[s].pc = "review" /\ UNCHANGED <<opts, exists, ws>>
    BY <1>3 DEF Review
  <2>2. PICK findings : run' = [run EXCEPT ![s].pc = "test", ![s].findings = findings]
    BY <1>3 DEF Review
  <2>3. PICK new : new = [run[s] EXCEPT !.pc = "test", !.findings = findings]
    OBVIOUS
  <2>4. Set(s, new)
    BY <2>2, <2>3 DEF Set, Shape
  <2>5. /\ new.pc = "test" /\ new.plan = run[s].plan /\ new.engine = run[s].engine
        /\ new.dir = run[s].dir /\ new.next = run[s].next /\ new.built = run[s].built
        /\ new.attempts = run[s].attempts /\ new.heals = run[s].heals
        /\ new.status = run[s].status
    BY <1>1, <2>3 DEF Fields
  <2>6. RunTyped(new, exists)
    <3>1. run[s].heals = 0 /\ run[s].plan \in Plans /\ run[s].dir \in Dirs \cap exists
      BY <1>1, <2>1 DEF RunTyped, Working
    <3>2. "test" \in Working /\ "test" \notin Early
      BY DEF Working, Early
    <3>. QED BY <1>1, <2>5, <3>1, <3>2 DEF RunTyped
  <2>. QED BY <2>1, <2>4, <2>6, QuietTyped
<1>. QED BY <1>2, <1>3

\* The tests of a build: they lead to the fix loop while an attempt is left.
LEMMA TestTyped ==
    ASSUME TypeInv, Shape, NEW s \in Sessions, Test(s)
    PROVE  TypeInv'
<1>1. RunTyped(run[s], exists) /\ Fields \subseteq DOMAIN run[s]
  BY DEF TypeInv, Shape
<1>2. run[s].pc = "test" /\ UNCHANGED <<opts, exists, ws>>
  BY DEF Test, At, memory
<1>. DEFINE Label(result) == IF ~Ok(result) /\ result # "blocked" /\ run[s].attempts < MaxFix
                             THEN "fix" ELSE "judge"
<1>3. PICK result, always :
        Set(s, [run[s] EXCEPT !.result = result, !.always = always, !.pc = Label(result)])
  BY Zenon DEF Test
<1>. PICK label : label = Label(result)
  OBVIOUS
<1>4. label \in {"fix", "judge"} /\ (label = "fix" => run[s].attempts < MaxFix)
  OBVIOUS
<1>5. Set(s, [run[s] EXCEPT !.result = result, !.always = always, !.pc = label])
  BY <1>3
<1>6. PICK new : new = [run[s] EXCEPT !.result = result, !.always = always, !.pc = label]
  OBVIOUS
<1>. HIDE DEF Label
<1>7. /\ new.pc = label /\ new.plan = run[s].plan /\ new.engine = run[s].engine
      /\ new.dir = run[s].dir /\ new.next = run[s].next /\ new.built = run[s].built
      /\ new.attempts = run[s].attempts /\ new.heals = run[s].heals
      /\ new.status = run[s].status
  BY <1>1, <1>6 DEF Fields
<1>8. RunTyped(new, exists)
  <2>1. run[s].heals = 0 /\ run[s].plan \in Plans /\ run[s].dir \in Dirs \cap exists
    BY <1>1, <1>2 DEF RunTyped, Working
  <2>2. label \in Working /\ label \notin Early /\ label \notin {"start", "plan", "make", "done"}
    BY <1>4 DEF Working, Early
  <2>3. label \notin {"record", "heal", "write", "verify"}
    BY <1>4
  <2>. QED BY <1>1, <1>4, <1>7, <2>1, <2>2, <2>3 DEF RunTyped
<1>. QED BY <1>2, <1>5, <1>6, <1>8, QuietTyped

\* One turn of the fix loop uses one of the attempts that are left.
LEMMA FixTyped ==
    ASSUME TypeInv, Shape, NEW s \in Sessions, Fix(s)
    PROVE  TypeInv'
<1>. DEFINE counted == [run[s] EXCEPT !.attempts = @ + 1]
            given_up == [counted EXCEPT !.pc = "judge"]
            again == [counted EXCEPT !.pc = "test"]
            crashed == [counted EXCEPT !.pc = "done", !.status = "crashed"]
<1>1. RunTyped(run[s], exists) /\ Fields \subseteq DOMAIN run[s]
  BY DEF TypeInv, Shape
<1>2. /\ run[s].pc = "fix" /\ UNCHANGED <<opts, exists>>
      /\ \/ Set(s, crashed) /\ UNCHANGED ws
         \/ Set(s, given_up) /\ UNCHANGED ws
         \/ \E path \in PathsOf(run[s].plan), fix \in Contents : Write(s, path, fix, again, given_up)
  <2>1. run[s].pc = "fix" /\ UNCHANGED <<opts, exists>>
    BY DEF Fix, At
  <2>2. run[s].result = "noisy" => Set(s, crashed) /\ UNCHANGED ws
    BY DEF Fix
  <2>3. CASE run[s].result # "noisy"
    <3>1. PICK path \in FileToFix(run[s].plan), fix \in Suggestions :
            IF fix = Absent THEN Set(s, given_up) /\ UNCHANGED ws
                            ELSE Write(s, path, fix, again, given_up)
      BY <2>3 DEF Fix
    <3>2. fix # Absent => fix \in Contents
      BY DEF Suggestions, Contents
    <3>. HIDE DEF again, given_up, crashed
    <3>. QED BY <2>1, <3>1, <3>2 DEF FileToFix
  <2>. HIDE DEF again, given_up, crashed
  <2>. QED BY <2>1, <2>2, <2>3
<1>3. /\ counted.pc = run[s].pc /\ counted.plan = run[s].plan /\ counted.engine = run[s].engine
      /\ counted.dir = run[s].dir /\ counted.next = run[s].next /\ counted.built = run[s].built
      /\ counted.attempts = run[s].attempts + 1 /\ counted.heals = run[s].heals
      /\ counted.items = run[s].items /\ counted.status = run[s].status
      /\ Fields \subseteq DOMAIN counted
  BY <1>1 DEF Fields
<1>. HIDE DEF counted
<1>4. /\ run[s].heals = 0 /\ run[s].plan \in Plans /\ run[s].dir \in Dirs \cap exists
      /\ run[s].attempts + 1 \in 0 .. MaxFix /\ "fix" \in Working
  <2>1. "fix" \in Working
    BY DEF Working
  <2>2. run[s].attempts \in 0 .. MaxFix /\ run[s].attempts < MaxFix /\ MaxFix \in Nat
    BY <1>1, <1>2, BuildAssumption DEF RunTyped
  <2>3. run[s].heals = 0 /\ run[s].plan \in Plans /\ run[s].dir \in Dirs \cap exists
    BY <1>1, <1>2, <2>1 DEF RunTyped
  <2>. QED BY <2>1, <2>2, <2>3
<1>5. ASSUME NEW label \in {"judge", "test"}
      PROVE  /\ RunTyped([counted EXCEPT !.pc = label], exists)
             /\ Fields \subseteq DOMAIN [counted EXCEPT !.pc = label]
  <2>1. PICK new : new = [counted EXCEPT !.pc = label]
    OBVIOUS
  <2>2. /\ new.pc = label /\ new.plan = run[s].plan /\ new.engine = run[s].engine
        /\ new.dir = run[s].dir /\ new.next = run[s].next /\ new.built = run[s].built
        /\ new.attempts = run[s].attempts + 1 /\ new.heals = run[s].heals
        /\ new.items = run[s].items /\ new.status = run[s].status
        /\ Fields \subseteq DOMAIN new
    BY <1>3, <2>1 DEF Fields
  <2>3. label \in Working /\ label \notin Early /\ label \notin {"start", "plan", "make", "done"}
    BY DEF Working, Early
  <2>4. label \notin {"record", "heal", "write", "verify", "fix"}
    OBVIOUS
  <2>5. RunTyped(new, exists)
    BY <1>1, <1>4, <2>2, <2>3, <2>4 DEF RunTyped
  <2>. QED BY <2>1, <2>2, <2>5
<1>6. RunTyped(given_up, exists) /\ RunTyped(again, exists)
      /\ Fields \subseteq DOMAIN given_up /\ Fields \subseteq DOMAIN again
  BY <1>5
<1>7. RunTyped(crashed, exists)
  <2>1. PICK new : new = crashed
    OBVIOUS
  <2>2. /\ new.pc = "done" /\ new.plan = run[s].plan /\ new.engine = run[s].engine
        /\ new.dir = run[s].dir /\ new.next = run[s].next /\ new.built = run[s].built
        /\ new.attempts = run[s].attempts + 1 /\ new.heals = run[s].heals
        /\ new.status = "crashed"
    BY <1>3, <2>1 DEF Fields
  <2>3. "crashed" \in Finished \cup Stopped
    BY DEF Stopped
  <2>4. /\ "done" \notin Working /\ "done" \notin Early
    BY DEF Working, Early
  <2>5. RunTyped(new, exists)
    BY <1>1, <1>4, <2>2, <2>3, <2>4 DEF RunTyped
  <2>. QED BY <2>1, <2>5
<1>. HIDE DEF given_up, again, crashed
<1>8. CASE Set(s, crashed) /\ UNCHANGED ws
  BY <1>2, <1>7, <1>8, QuietTyped
<1>9. CASE Set(s, given_up) /\ UNCHANGED ws
  BY <1>2, <1>6, <1>9, QuietTyped
<1>10. ASSUME NEW path, NEW fix \in Contents, Write(s, path, fix, again, given_up)
       PROVE  TypeInv'
  BY <1>2, <1>4, <1>6, <1>10, WriteTyped
<1>. QED BY <1>2, <1>8, <1>9, <1>10

\* Every criterion that fails becomes one item (to_work_items).
LEMMA ItemsOf ==
    ASSUME NEW failed, IsFiniteSet(failed), failed # {}
    PROVE  WorkItems(failed) \in Seq(Contents) /\ WorkItems(failed) # <<>>
<1>1. Cardinality(failed) \in Nat /\ Cardinality(failed) # 0
  BY FS_CardinalityType, FS_EmptySet
<1>. DEFINE n == Cardinality(failed)
<1>2. WorkItems(failed) = [i \in 1 .. n |-> "text"]
  BY DEF WorkItems
<1>. HIDE DEF n
<1>3. n \in Nat /\ n # 0
  BY <1>1 DEF n
<1>4. "text" \in Contents
  BY DEF Contents
<1>. QED BY <1>2, <1>3, <1>4

\* The verdict after the fix loop: a build that is to be healed has items (Session.run).
LEMMA JudgeTyped ==
    ASSUME TypeInv, Shape, NEW s \in Sessions, Judge(s)
    PROVE  TypeInv'
<1>. DEFINE done(status) == [run[s] EXCEPT !.pc = "record", !.status = status]
<1>1. RunTyped(run[s], exists) /\ Fields \subseteq DOMAIN run[s]
  BY DEF TypeInv, Shape
<1>2. run[s].pc = "judge" /\ UNCHANGED <<opts, exists, ws>>
  BY DEF Judge, At, Local
<1>. DEFINE status == IF Ok(run[s].result) THEN "passed"
                      ELSE IF run[s].result = "blocked" THEN "blocked" ELSE "failed"
            strict == IF opts[s].strict THEN "accept_failed" ELSE status
            label == IF opts[s].heal THEN "heal" ELSE "record"
<1>3. \/ Set(s, done(status))
      \/ /\ Failing(s) # {}
         /\ Set(s, [done(status) EXCEPT !.status = strict, !.pc = label,
                                        !.items = WorkItems(Failing(s))])
  BY DEF Judge
<1>4. run[s].heals = 0 /\ run[s].plan \in Plans /\ run[s].dir \in Dirs \cap exists
  BY <1>1, <1>2 DEF RunTyped, Working
<1>5. IsFiniteSet(Failing(s))
  <2>1. IsFiniteSet(run[s].plan.criteria)
    BY <1>4, BuildAssumption
  <2>2. Failing(s) \subseteq run[s].plan.criteria
    BY DEF Failing
  <2>. QED BY <2>1, <2>2, FS_Subset
<1>6. status \in Finished /\ strict \in Finished /\ label \in {"heal", "record"}
  BY DEF Finished
<1>. HIDE DEF status, strict, label
<1>7. "heal" \in Working /\ "record" \in Working /\ "heal" \notin Early /\ "record" \notin Early
  BY DEF Working, Early
<1>8. CASE Set(s, done(status))
  <2>1. PICK new : new = done(status)
    OBVIOUS
  <2>2. /\ new.pc = "record" /\ new.plan = run[s].plan /\ new.engine = run[s].engine
        /\ new.dir = run[s].dir /\ new.next = run[s].next /\ new.built = run[s].built
        /\ new.attempts = run[s].attempts /\ new.heals = run[s].heals /\ new.status = status
    BY <1>1, <2>1 DEF Fields
  <2>3. RunTyped(new, exists)
    BY <1>1, <1>4, <1>6, <1>7, <2>2 DEF RunTyped
  <2>. QED BY <1>2, <1>8, <2>1, <2>3, QuietTyped
<1>9. ASSUME NEW items, items \in Seq(Contents), items # <<>>,
             Set(s, [done(status) EXCEPT !.status = strict, !.pc = label, !.items = items])
      PROVE  TypeInv'
  <2>1. PICK before : before = done(status)
    OBVIOUS
  <2>2. PICK new : new = [before EXCEPT !.status = strict, !.pc = label, !.items = items]
    OBVIOUS
  <2>3. /\ before.plan = run[s].plan /\ before.engine = run[s].engine
        /\ before.dir = run[s].dir /\ before.next = run[s].next /\ before.built = run[s].built
        /\ before.attempts = run[s].attempts /\ before.heals = run[s].heals
        /\ Fields \subseteq DOMAIN before
    BY <1>1, <2>1 DEF Fields
  <2>4. /\ new.pc = label /\ new.plan = run[s].plan /\ new.engine = run[s].engine
        /\ new.dir = run[s].dir /\ new.next = run[s].next /\ new.built = run[s].built
        /\ new.attempts = run[s].attempts /\ new.heals = run[s].heals /\ new.status = strict
        /\ new.items = items
    BY <2>2, <2>3 DEF Fields
  <2>5. 0 < Most
    BY MostIs
  <2>6. RunTyped(new, exists)
    BY <1>1, <1>4, <1>6, <1>7, <1>9, <2>4, <2>5 DEF RunTyped
  <2>. QED BY <1>2, <1>9, <2>1, <2>2, <2>6, QuietTyped
<1>10. CASE /\ Failing(s) # {}
            /\ Set(s, [done(status) EXCEPT !.status = strict, !.pc = label,
                                           !.items = WorkItems(Failing(s))])
  <2>1. WorkItems(Failing(s)) \in Seq(Contents) /\ WorkItems(Failing(s)) # <<>>
    BY <1>5, <1>10, ItemsOf
  <2>. QED BY <1>9, <1>10, <2>1
<1>. QED BY <1>3, <1>8, <1>10

\* One cycle of self-healing uses one of the budget, and has a content for every item.
LEMMA HealTyped ==
    ASSUME TypeInv, Shape, NEW s \in Sessions, Heal(s)
    PROVE  TypeInv'
<1>1. RunTyped(run[s], exists) /\ Fields \subseteq DOMAIN run[s]
  BY DEF TypeInv, Shape
<1>2. run[s].pc = "heal" /\ UNCHANGED <<opts, exists, ws>>
  BY DEF Heal, At, Local
<1>3. PICK items \in Proposals(run[s].items) :
        Set(s, [run[s] EXCEPT !.pc = "write", !.heals = @ + 1, !.items = items, !.next = 1])
  BY DEF Heal
<1>4. PICK new : new = [run[s] EXCEPT !.pc = "write", !.heals = @ + 1, !.items = items,
                                      !.next = 1]
  OBVIOUS
<1>5. /\ new.pc = "write" /\ new.plan = run[s].plan /\ new.engine = run[s].engine
      /\ new.dir = run[s].dir /\ new.next = 1 /\ new.built = run[s].built
      /\ new.attempts = run[s].attempts /\ new.heals = run[s].heals + 1
      /\ new.status = run[s].status /\ new.items = items
  BY <1>1, <1>4 DEF Fields
<1>6. /\ run[s].plan \in Plans /\ run[s].status \in Finished /\ run[s].dir \in Dirs \cap exists
      /\ run[s].items \in Seq(Contents) /\ run[s].items # <<>>
      /\ run[s].heals \in 0 .. Most /\ run[s].heals < Most
  BY <1>1, <1>2 DEF RunTyped, Working
<1>7. items \in Seq(Contents) /\ items # <<>> /\ 1 \in DOMAIN items
  <2>1. items \in [1 .. Len(run[s].items) -> Contents] /\ Len(run[s].items) \in Nat
        /\ Len(run[s].items) # 0
    BY <1>6 DEF Proposals
  <2>. QED BY <2>1
<1>8. run[s].heals + 1 \in 0 .. Most
  BY <1>6, MostIs
<1>9. RunTyped(new, exists)
  <2>1. "write" \in Working /\ "write" \notin Early
    BY DEF Working, Early
  <2>. QED BY <1>1, <1>5, <1>6, <1>7, <1>8, <2>1 DEF RunTyped
<1>. QED BY <1>2, <1>3, <1>4, <1>9, QuietTyped

\* The items are written one after the other (GatedRepairFixer.execute).
LEMMA HealWriteTyped ==
    ASSUME TypeInv, Shape, NEW s \in Sessions, HealWrite(s)
    PROVE  TypeInv'
<1>. DEFINE label == IF run[s].next = Len(run[s].items) THEN "verify" ELSE "write"
            later == [run[s] EXCEPT !.next = @ + 1, !.pc = label]
            content == run[s].items[run[s].next]
            path == HealTarget(run[s].plan)
<1>1. RunTyped(run[s], exists) /\ Fields \subseteq DOMAIN run[s]
  BY DEF TypeInv, Shape
<1>2. /\ run[s].pc = "write" /\ UNCHANGED <<opts, exists>>
      /\ Write(s, path, content, later, later)
  BY DEF HealWrite, At
<1>3. /\ run[s].plan \in Plans /\ run[s].status \in Finished /\ run[s].dir \in Dirs \cap exists
      /\ run[s].items \in Seq(Contents) /\ run[s].items # <<>>
      /\ run[s].next \in DOMAIN run[s].items
  BY <1>1, <1>2 DEF RunTyped, Working
<1>4. content \in Contents
  BY <1>3
<1>5. label = "write" => run[s].next + 1 \in DOMAIN run[s].items
  BY <1>3
<1>6. label \in {"write", "verify"}
  OBVIOUS
<1>. HIDE DEF label, content, path
<1>7. /\ later.pc = label /\ later.plan = run[s].plan /\ later.engine = run[s].engine
      /\ later.dir = run[s].dir /\ later.next = run[s].next + 1 /\ later.built = run[s].built
      /\ later.attempts = run[s].attempts /\ later.heals = run[s].heals
      /\ later.status = run[s].status /\ later.items = run[s].items
      /\ Fields \subseteq DOMAIN later
  BY <1>1 DEF Fields
<1>. HIDE DEF later
<1>8. RunTyped(later, exists)
  <2>1. "write" \in Working /\ "write" \notin Early /\ "verify" \in Working /\ "verify" \notin Early
    BY DEF Working, Early
  <2>2. later.next \in Nat \ {0}
    BY <1>1, <1>7 DEF RunTyped
  <2>. QED BY <1>1, <1>3, <1>5, <1>6, <1>7, <2>1, <2>2 DEF RunTyped
<1>. QED BY <1>2, <1>3, <1>4, <1>7, <1>8, WriteTyped

\* Another cycle follows only while the budget allows it; then the outcome is recorded.
LEMMA VerifyTyped ==
    ASSUME TypeInv, Shape, NEW s \in Sessions, HealVerify(s) \/ Record(s)
    PROVE  TypeInv'
<1>1. RunTyped(run[s], exists) /\ Fields \subseteq DOMAIN run[s]
  BY DEF TypeInv, Shape
<1>2. CASE HealVerify(s)
  <2>. DEFINE label == IF Failing(s) = {} \/ run[s].heals >= MaxFix THEN "record" ELSE "heal"
  <2>1. run[s].pc = "verify" /\ UNCHANGED <<opts, exists, ws>> /\ Goto(s, label)
    BY <1>2 DEF HealVerify, At, Local
  <2>2. label = "heal" => run[s].heals < Most
    BY <1>1, MostIs, BuildAssumption DEF RunTyped
  <2>3. label \in {"record", "heal"}
    OBVIOUS
  <2>. HIDE DEF label
  <2>4. run[s].status \in Finished
    BY <1>1, <2>1 DEF RunTyped
  <2>5. RunTyped([run[s] EXCEPT !.pc = label], exists)
    BY <1>1, <2>1, <2>2, <2>3, <2>4, PlaceTyped DEF Early, Working
  <2>. QED BY <2>1, <2>5, GotoTyped
<1>3. CASE Record(s)
  <2>1. /\ run[s].pc = "record" /\ UNCHANGED <<opts, exists, ws>>
        /\ Ended(s, run[s].status)
    BY <1>3 DEF Record, At
  <2>2. run[s].status \in Finished
    BY <1>1, <2>1 DEF RunTyped
  <2>. QED BY <2>1, <2>2, EndedTyped
<1>. QED BY <1>2, <1>3

\* An interruption leaves a build where it is.
LEMMA InterruptTyped ==
    ASSUME TypeInv, Shape, NEW s \in Sessions, Interrupt(s)
    PROVE  TypeInv'
BY StopTyped DEF Interrupt, Stopped

\* A build that has not begun; a build that is not started counts as done.
LEMMA InitTyped == Init => TypeInv
<1>. SUFFICES ASSUME Init PROVE TypeInv
  OBVIOUS
<1>1. opts \in CommandLines /\ run = [s \in Sessions |-> NewRun(opts[s])]
      /\ exists \in {{}, {1}}
      /\ ws = [d \in Dirs |-> [p \in Paths |-> IF d \in exists THEN "good" ELSE Absent]]
  BY DEF Init
<1>2. ASSUME NEW s \in Sessions
      PROVE  RunTyped(run[s], exists) /\ (run[s].pc # "done" => opts[s] # Absent)
  <2>1. run[s] = NewRun(opts[s])
    BY <1>1
  <2>2. /\ run[s].pc = IF opts[s] = Absent THEN "done" ELSE "start"
        /\ run[s].plan = Absent /\ run[s].dir = 0 /\ run[s].next = 1 /\ run[s].built = {}
        /\ run[s].attempts = 0 /\ run[s].heals = 0 /\ run[s].status = "none"
        /\ run[s].engine = IF opts[s] = Absent \/ opts[s].engine = "auto" THEN "local"
                           ELSE opts[s].engine
    BY <2>1 DEF NewRun
  <2>3. run[s].engine \in Engines
    BY <1>1, <2>2, BuildAssumption DEF Engines
  <2>4. run[s].pc \in {"start", "done"} /\ (run[s].pc # "done" => opts[s] # Absent)
    BY <2>2
  <2>5. /\ "start" \in Early /\ "start" \notin Working /\ "done" \notin Working
        /\ "done" \notin Early
    BY DEF Early, Working
  <2>6. 0 \in 0 .. MaxDirs /\ 0 \in 0 .. MaxFix /\ 0 \in 0 .. Most
    BY MostIs, BuildAssumption
  <2>7. RunTyped(run[s], exists)
    BY <2>2, <2>3, <2>4, <2>5, <2>6 DEF RunTyped
  <2>. QED BY <2>4, <2>7
<1>3. FilesTyped
  BY <1>1 DEF FilesTyped, FilesIn, Contents
<1>. QED BY <1>1, <1>2, <1>3 DEF TypeInv

\* No step leaves the types.
LEMMA TypeStep == Shape /\ TypeInv /\ [Next]_vars => TypeInv'
<1>. SUFFICES ASSUME Shape, TypeInv, [Next]_vars PROVE TypeInv'
  OBVIOUS
<1>1. CASE UNCHANGED vars
  BY <1>1 DEF vars, TypeInv, FilesTyped, FilesIn
<1>2. ASSUME NEW s \in Sessions, Step(s) \/ Interrupt(s)
      PROVE  TypeInv'
  BY <1>2, EarlyTyped, FolderTyped, BuildFileTyped, ReviewTyped, TestTyped, FixTyped, JudgeTyped,
     HealTyped, HealWriteTyped, VerifyTyped, InterruptTyped DEF Step
<1>. QED BY <1>1, <1>2 DEF Next

\* Types, for any builds, plans, rules and limits: a build has a plan and a folder where it
\* needs them, writes no file into a folder that was not made, tries no more fixes than it
\* may and no more cycles of healing than its budget, of which 0 allows one
\* (Session.run, _make_workspace, run_cycle).
THEOREM TypeCorrect == Spec => []TypeOK
<1>1. Init => Shape /\ TypeInv /\ OutcomeInv
  BY InitInv, InitTyped, OutcomeInit DEF IInv
<1>2. IInv /\ TypeInv /\ OutcomeInv => TypeOK
  <2>. SUFFICES ASSUME IInv, TypeInv, OutcomeInv PROVE TypeOK
    OBVIOUS
  <2>1. ASSUME NEW s \in Sessions
        PROVE  LET r == run[s] IN
               /\ r.pc \in {"start", "plan", "confirm", "route", "choose", "make", "build",
                            "review", "test", "fix", "judge", "heal", "write", "verify",
                            "record", "done"}
               /\ r.plan \in Plans \cup {Absent} /\ r.engine \in Engines
               /\ r.dir \in 0 .. MaxDirs /\ r.status \in Finished \cup Stopped \cup {"none"}
               /\ r.attempts <= MaxFix /\ r.heals <= Max({MaxFix, 1})
               /\ (r.built # {} => r.dir \in exists)
    <3>1. RunTyped(run[s], exists)
      BY DEF TypeInv
    <3>2. run[s].attempts <= MaxFix /\ run[s].heals <= Max({MaxFix, 1})
      <4>1. run[s].attempts <= MaxFix /\ run[s].heals <= Most
        BY <3>1, MostIs, BuildAssumption DEF RunTyped
      <4>. QED BY <4>1 DEF Most
    <3>. QED BY <3>1, <3>2 DEF RunTyped, Early, Working
  <2>2. lessons \in [Sessions -> [fix : Nat, success : 0 .. 1]]
    BY DEF OutcomeInv
  <2>. QED BY <2>1, <2>2 DEF TypeInv, FilesTyped, TypeOK
<1>. QED BY <1>1, <1>2, InitInv, StepInv, TypeStep, OutcomeStep, PTL DEF Spec, IInv
==============================================================================
