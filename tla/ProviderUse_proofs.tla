-------------------------- MODULE ProviderUse_proofs --------------------------
(***************************************************************************)
(* Proofs about the use of language models and the ledger, for any number  *)
(* of callers, calls, faults, versions and evidence.  A call has a number  *)
(* that no other call and no row of another call has (CallsInv); a row is  *)
(* owed by whoever is at work on a call whose generation began (UsedInv);  *)
(* the table is there before anybody says so (LedgerInv); at each place of *)
(* a call, what is decided of its row is true (TrueInv), and one that      *)
(* waits for the ledger has asked for its clean-up (SettledInv); of those  *)
(* that used the main model since it was loaded one will unload it, or has *)
(* a reason not to (FreedInv), and a model that is used is in memory       *)
(* (HostInv); and what is booked are numbers (TypeInv), so that the totals *)
(* of the report can be compared row by row.                               *)
(***************************************************************************)
EXTENDS ProviderUse, FiniteSetTheorems, WellFoundedInduction, TLAPS

(***************************************************************************)
(* The invariants.                                                         *)
(***************************************************************************)
Busy == {"decide", "context", "engine", "request", "generating", "unload", "verify",
         "init", "create", "stamp", "use"}
Reporting == {"init", "create", "stamp", "use"}

\* What is at work: a call with a number and a kind; a report never generates.
Sound(c) ==
    /\ {"id", "kind"} \subseteq DOMAIN call[c]
    /\ pc[c] # "idle" => call[c].id \in 1 .. calls
    /\ pc[c] # "idle" /\ call[c].kind = "report" =>
           pc[c] \in Reporting /\ call[c].id \notin began

Shape ==
    /\ pc \in [Callers -> Busy \cup {"idle"}]
    /\ DOMAIN call = Callers
    /\ calls \in Nat
    /\ rows \in Seq({rows[i] : i \in DOMAIN rows})
    /\ \A i \in DOMAIN rows : rows[i].id \in 1 .. calls
    /\ began \cup returned \subseteq 1 .. calls
    /\ \A c \in Callers : Sound(c)

\* The numbers of calls and rows.
Numbered ==
    /\ \A c, d \in Callers :
           pc[c] # "idle" /\ pc[d] # "idle" /\ call[c].id = call[d].id => c = d
    /\ \A i, j \in DOMAIN rows : rows[i].id = rows[j].id => i = j
    /\ \A i \in DOMAIN rows, c \in Callers : pc[c] # "idle" => rows[i].id # call[c].id

CallsInv == Shape /\ Numbered

\* A generation has its row, or somebody is still at work on it; text that was given to
\* the caller has its row.
UsedInv ==
    /\ \A id \in began :
          \/ \E i \in DOMAIN rows : rows[i].id = id
          \/ \E c \in Callers : pc[c] # "idle" /\ call[c].id = id
          \/ id \in excused
    /\ \A id \in returned : \E i \in DOMAIN rows : rows[i].id = id

IInv == CallsInv /\ UsedInv

LedgerInv ==
    /\ pc \in [Callers -> Busy \cup {"idle"}]
    /\ file \in [exists : BOOLEAN, version : Nat, table : BOOLEAN]
    /\ file.version = 1 => file.table
    /\ \A c \in Callers : pc[c] \in {"stamp", "use"} => file.table

(***************************************************************************)
(* Sequences and records.                                                  *)
(***************************************************************************)
\* A sequence is one over its own elements.
LEMMA OwnElements ==
    ASSUME NEW S, NEW s \in Seq(S)
    PROVE  s \in Seq({s[i] : i \in DOMAIN s})
<1>. DEFINE T == {s[i] : i \in DOMAIN s}
<1>1. s \in [1 .. Len(s) -> T]
  OBVIOUS
<1>. QED BY <1>1

\* One more element.
LEMMA OneMore ==
    ASSUME NEW S, NEW s \in Seq(S), NEW e
    PROVE  /\ Append(s, e) \in Seq({Append(s, e)[i] : i \in DOMAIN Append(s, e)})
           /\ DOMAIN Append(s, e) = DOMAIN s \cup {Len(s) + 1}
           /\ \A i \in DOMAIN s : Append(s, e)[i] = s[i]
           /\ Append(s, e)[Len(s) + 1] = e
           /\ Len(s) + 1 \notin DOMAIN s
<1>. DEFINE T == S \cup {e}
<1>1. s \in Seq(T) /\ e \in T
  OBVIOUS
<1>2. Append(s, e) \in Seq(T)
  BY <1>1
<1>3. Append(s, e) \in Seq({Append(s, e)[i] : i \in DOMAIN Append(s, e)})
  BY <1>2, OwnElements
<1>. QED BY <1>1, <1>3

\* The number and the kind of a new call.
LEMMA NewCallHas ==
    ASSUME NEW kind, NEW provider, NEW explicit, NEW key
    PROVE  LET k == NewCall(kind, provider, explicit, key)
           IN {"id", "kind"} \subseteq DOMAIN k /\ k.id = calls + 1 /\ k.kind = kind
BY DEF NewCall, NoCall

\* The changes of a call that keep its number and its kind.
Same(k, new) == DOMAIN new = DOMAIN k /\ new.id = k.id /\ new.kind = k.kind

\* Denials, contexts, statuses and usages leave a call its number and its kind.
LEMMA SameCall ==
    ASSUME NEW k, {"id", "kind"} \subseteq DOMAIN k, NEW x, NEW y, NEW z
    PROVE  /\ Same(k, [k EXCEPT !.denied = x, !.status = y])
           /\ Same(k, [k EXCEPT !.status = x])
           /\ Same(k, [k EXCEPT !.context = x])
           /\ Same(k, [k EXCEPT !.status = x, !.validation = y, !.actual = z])
           /\ Same(k, [k EXCEPT !.requested = x, !.tries = y])
           /\ Same(k, [k EXCEPT !.verified = x, !.tries = y])
           /\ Same(k, [k EXCEPT !.tries = x])
BY DEF Same

(***************************************************************************)
(* What the steps of a caller have in common.                              *)
(***************************************************************************)
\* The caller goes on with its call; its generation may begin.
GoesOn(c) ==
    /\ \E label \in Busy : pc' = [pc EXCEPT ![c] = label]
    /\ DOMAIN call' = Callers /\ Same(call[c], call'[c])
    /\ \A d \in Callers \ {c} : call'[d] = call[d]
    /\ \/ UNCHANGED began
       \/ began' = began \cup {call[c].id} /\ call[c].kind # "report"
    /\ call[c].kind = "report" => pc'[c] \in Reporting
    /\ excused \subseteq excused'
    /\ UNCHANGED <<rows, returned, calls>>

\* The caller ends its call: it was a report, or it was excused.
GivesUp(c) ==
    /\ Finish(c)
    /\ call[c].kind = "report" \/ call[c].id \in excused'
    /\ excused \subseteq excused'
    /\ UNCHANGED <<rows, began, returned, calls>>

\* A call that goes on still owes its row.
LEMMA GoesOnKeeps ==
    ASSUME IInv, NEW c \in Callers, pc[c] # "idle", GoesOn(c)
    PROVE  IInv'
<1>. USE DEF IInv, CallsInv
<1>1. /\ pc' \in [Callers -> Busy \cup {"idle"}] /\ pc'[c] # "idle"
      /\ \A d \in Callers \ {c} : pc'[d] = pc[d]
  BY DEF GoesOn, Shape, Busy
<1>2. /\ DOMAIN call' = Callers
      /\ \A d \in Callers \ {c} : call'[d] = call[d]
      /\ DOMAIN call'[c] = DOMAIN call[c]
      /\ call'[c].id = call[c].id /\ call'[c].kind = call[c].kind
  BY DEF GoesOn, Shape, Same
<1>3. began \subseteq began' /\ began' \subseteq began \cup {call[c].id}
  BY DEF GoesOn
<1>4. ASSUME NEW d \in Callers PROVE Sound(d)'
  <2>1. CASE d = c
    BY <1>1, <1>2, <2>1 DEF GoesOn, Shape, Sound
  <2>2. CASE d # c
    <3>1. Sound(d) /\ pc'[d] = pc[d] /\ call'[d] = call[d] /\ calls' = calls
      BY <1>1, <1>2, <2>2 DEF GoesOn, Shape
    <3>2. pc[d] # "idle" => call[d].id # call[c].id
      BY <2>2 DEF Numbered
    <3>. QED BY <1>3, <3>1, <3>2 DEF Sound
  <2>. QED BY <2>1, <2>2
<1>5. call[c].id \in 1 .. calls
  BY DEF Shape, Sound
<1>6. Shape'
  BY <1>1, <1>2, <1>3, <1>4, <1>5 DEF GoesOn, Shape
<1>7. \A d \in Callers : (pc'[d] # "idle" <=> pc[d] # "idle") /\ call'[d].id = call[d].id
  BY <1>1, <1>2
<1>8. Numbered'
  BY <1>7 DEF GoesOn, Numbered
<1>9. UsedInv'
  BY <1>3, <1>7 DEF GoesOn, UsedInv
<1>. QED BY <1>6, <1>8, <1>9

\* A call that ends without a row generated nothing, or is excused.
LEMMA GivesUpKeeps ==
    ASSUME IInv, NEW c \in Callers, pc[c] # "idle", GivesUp(c)
    PROVE  IInv'
<1>. USE DEF IInv, CallsInv
<1>1. /\ pc' \in [Callers -> Busy \cup {"idle"}] /\ pc'[c] = "idle"
      /\ \A d \in Callers \ {c} : pc'[d] = pc[d]
  BY DEF GivesUp, Finish, Goto, Set, Shape
<1>2. /\ DOMAIN call' = Callers
      /\ \A d \in Callers \ {c} : call'[d] = call[d]
      /\ {"id", "kind"} \subseteq DOMAIN call'[c]
  BY DEF GivesUp, Finish, Goto, Set, Shape, NoCall
<1>3. ASSUME NEW d \in Callers PROVE Sound(d)'
  BY <1>1, <1>2 DEF GivesUp, Shape, Sound
<1>4. Shape'
  BY <1>1, <1>2, <1>3 DEF GivesUp, Shape
<1>5. Numbered'
  BY <1>1, <1>2 DEF GivesUp, Numbered
<1>6. ASSUME NEW id \in began
      PROVE  \/ \E i \in DOMAIN rows : rows[i].id = id
             \/ \E d \in Callers : pc'[d] # "idle" /\ call'[d].id = id
             \/ id \in excused'
  <2>1. CASE (\E i \in DOMAIN rows : rows[i].id = id) \/ id \in excused
    BY <2>1 DEF GivesUp
  <2>2. CASE \E d \in Callers \ {c} : pc[d] # "idle" /\ call[d].id = id
    BY <1>1, <1>2, <2>2
  <2>3. CASE id = call[c].id
    BY <2>3 DEF GivesUp, Shape, Sound
  <2>. QED BY <2>1, <2>2, <2>3 DEF UsedInv
<1>7. UsedInv'
  BY <1>6 DEF GivesUp, UsedInv
<1>. QED BY <1>4, <1>5, <1>7

\* The row of a call is written when it ends.
Records(c) ==
    /\ Finish(c)
    /\ rows' = Append(rows, Row(call[c]))
    /\ returned' \subseteq returned \cup {call[c].id}
    /\ UNCHANGED <<began, excused, calls>>

\* A call that records writes the one row of its number (usage_ledger.py).
LEMMA RecordsKeeps ==
    ASSUME IInv, NEW c \in Callers, pc[c] # "idle", Records(c)
    PROVE  IInv'
<1>. USE DEF IInv, CallsInv
<1>1. /\ pc' \in [Callers -> Busy \cup {"idle"}] /\ pc'[c] = "idle"
      /\ \A d \in Callers \ {c} : pc'[d] = pc[d]
  BY DEF Records, Finish, Goto, Set, Shape
<1>2. /\ DOMAIN call' = Callers
      /\ \A d \in Callers \ {c} : call'[d] = call[d]
      /\ {"id", "kind"} \subseteq DOMAIN call'[c]
  BY DEF Records, Finish, Goto, Set, Shape, NoCall
<1>3. Row(call[c]).id = call[c].id
  BY DEF Row
<1>4. /\ rows' \in Seq({rows'[i] : i \in DOMAIN rows'})
      /\ DOMAIN rows' = DOMAIN rows \cup {Len(rows) + 1}
      /\ \A i \in DOMAIN rows : rows'[i] = rows[i]
      /\ rows'[Len(rows) + 1].id = call[c].id
      /\ Len(rows) + 1 \notin DOMAIN rows
  <2>1. rows \in Seq({rows[i] : i \in DOMAIN rows}) /\ rows' = Append(rows, Row(call[c]))
    BY DEF Records, Shape
  <2>. HIDE DEF IInv, CallsInv
  <2>. QED BY <1>3, <2>1, OneMore
<1>5. call[c].id \in 1 .. calls
  BY DEF Shape, Sound
<1>6. ASSUME NEW d \in Callers PROVE Sound(d)'
  BY <1>1, <1>2 DEF Records, Shape, Sound
<1>7. Shape'
  BY <1>1, <1>2, <1>4, <1>5, <1>6 DEF Records, Shape
<1>8. Numbered'
  BY <1>1, <1>2, <1>4 DEF Records, Numbered
<1>9. ASSUME NEW id \in began
      PROVE  \/ \E i \in DOMAIN rows' : rows'[i].id = id
             \/ \E d \in Callers : pc'[d] # "idle" /\ call'[d].id = id
             \/ id \in excused
  BY <1>1, <1>2, <1>4 DEF UsedInv
<1>10. ASSUME NEW id \in returned'
       PROVE  \E i \in DOMAIN rows' : rows'[i].id = id
  BY <1>4 DEF Records, UsedInv
<1>11. UsedInv'
  BY <1>9, <1>10 DEF Records, UsedInv
<1>. QED BY <1>7, <1>8, <1>11

\* A call begins with a number that no other call has.
LEMMA StartKeeps ==
    ASSUME IInv, NEW c \in Callers, Start(c)
    PROVE  IInv'
<1>. USE DEF IInv, CallsInv
<1>1. PICK kind \in Kinds, provider \in Providers, explicit \in BOOLEAN, key \in BOOLEAN :
        Set(c, NewCall(kind, provider, explicit, key)) /\ Goto(c, FirstStep(kind))
  BY DEF Start
<1>. DEFINE new == NewCall(kind, provider, explicit, key)
<1>2. /\ call' = [call EXCEPT ![c] = new]
      /\ {"id", "kind"} \subseteq DOMAIN new /\ new.id = calls + 1 /\ new.kind = kind
  BY <1>1, NewCallHas DEF Set
<1>. HIDE DEF new
<1>3. /\ pc' \in [Callers -> Busy \cup {"idle"}] /\ pc[c] = "idle" /\ pc'[c] # "idle"
      /\ kind = "report" => pc'[c] \in Reporting
      /\ \A d \in Callers \ {c} : pc'[d] = pc[d]
  BY <1>1 DEF Start, Goto, FirstStep, Shape, Busy, Reporting, Kinds
<1>4. /\ DOMAIN call' = Callers /\ call'[c] = new
      /\ \A d \in Callers \ {c} : call'[d] = call[d]
  BY <1>2 DEF Shape
<1>5. calls \in Nat /\ calls' = calls + 1 /\ UNCHANGED <<rows, began, returned, excused>>
  BY DEF Start, history, Shape
<1>6. ASSUME NEW d \in Callers PROVE Sound(d)'
  BY <1>2, <1>3, <1>4, <1>5 DEF Shape, Sound
<1>7. Shape'
  BY <1>3, <1>4, <1>5, <1>6 DEF Shape
<1>8. Numbered'
  BY <1>2, <1>3, <1>4, <1>5 DEF Shape, Sound, Numbered
<1>9. UsedInv'
  BY <1>3, <1>4, <1>5 DEF UsedInv
<1>. QED BY <1>7, <1>8, <1>9

(***************************************************************************)
(* Every use is recorded.                                                  *)
(***************************************************************************)
LEMMA InitInv == Init => IInv
BY DEF Init, IInv, CallsInv, Shape, Sound, Numbered, UsedInv, NoCall, Busy

\* To set a call to one with the same number and kind, or to leave it.
LEMMA Sets ==
    ASSUME NEW c \in Callers, DOMAIN call = Callers, NEW new, Same(call[c], new),
           Set(c, new) \/ UNCHANGED call
    PROVE  /\ DOMAIN call' = Callers /\ Same(call[c], call'[c])
           /\ \A d \in Callers \ {c} : call'[d] = call[d]
BY DEF Set, Same

\* The steps of a call, up to the ledger.
LEMMA CallStepGoesOn ==
    ASSUME IInv, NEW c \in Callers,
           Decide(c) \/ BuildContext(c) \/ CreateEngine(c) \/ Request(c) \/ Answer(c)
              \/ Unload(c) \/ Verify(c)
    PROVE  pc[c] # "idle" /\ GoesOn(c)
<1>1. /\ pc[c] \notin Reporting \cup {"idle"}
      /\ pc \in [Callers -> Busy \cup {"idle"}] /\ DOMAIN call = Callers
      /\ {"id", "kind"} \subseteq DOMAIN call[c]
      /\ call[c].kind # "report"
  BY DEF IInv, CallsInv, Shape, Sound, Reporting, Decide, BuildContext, CreateEngine, Request,
         Answer, Unload, Verify
<1>2. Same(call[c], call[c])
  BY DEF Same
<1>. DEFINE Held == /\ DOMAIN call' = Callers /\ Same(call[c], call'[c])
                    /\ \A d \in Callers \ {c} : call'[d] = call[d]
<1>3. ASSUME NEW new, Same(call[c], new), Set(c, new) \/ UNCHANGED call PROVE Held
  BY <1>1, <1>3, Sets
<1>4. UNCHANGED call => Held
  BY <1>2, <1>3
<1>. HIDE DEF Held
<1>5. CASE Decide(c)
  <2>1. \E label \in Busy : pc' = [pc EXCEPT ![c] = label]
    BY <1>5 DEF Decide, Goto, Busy
  <2>2. Held
    <3>1. Same(call[c], [call[c] EXCEPT !.denied = TRUE, !.status = "blocked"])
      BY <1>1, SameCall
    <3>. QED BY <1>3, <1>4, <1>5, <3>1 DEF Decide
  <2>. QED BY <1>1, <1>5, <2>1, <2>2 DEF GoesOn, Held, Decide, Quiet, history
<1>6. CASE BuildContext(c)
  <2>1. \E label \in Busy : pc' = [pc EXCEPT ![c] = label]
    BY <1>6 DEF BuildContext, Goto, Busy
  <2>2. Held
    BY <1>1, <1>3, <1>6, SameCall DEF BuildContext
  <2>. QED BY <1>1, <1>6, <2>1, <2>2 DEF GoesOn, Held, BuildContext, Quiet, history
<1>7. CASE CreateEngine(c)
  <2>1. \E label \in Busy : pc' = [pc EXCEPT ![c] = label]
    BY <1>7 DEF CreateEngine, Goto, Busy
  <2>2. Held
    BY <1>1, <1>3, <1>4, <1>7, SameCall DEF CreateEngine
  <2>. QED BY <1>1, <1>7, <2>1, <2>2 DEF GoesOn, Held, CreateEngine, Quiet, history
<1>8. CASE Request(c)
  <2>1. \E label \in Busy : pc' = [pc EXCEPT ![c] = label]
    BY <1>8 DEF Request, Goto, Busy
  <2>. QED BY <1>1, <1>4, <1>8, <2>1 DEF GoesOn, Held, Request
<1>9. CASE Answer(c)
  <2>1. PICK status, validation, actual :
          LET new == [call[c] EXCEPT !.status = status, !.validation = validation,
                                     !.actual = actual]
          IN Set(c, new) /\ Goto(c, AfterAnswer(new))
    BY <1>9 DEF Answer
  <2>2. \E label \in Busy : pc' = [pc EXCEPT ![c] = label]
    BY <2>1 DEF AfterAnswer, Goto, Busy
  <2>3. Held
    <3>. DEFINE new == [call[c] EXCEPT !.status = status, !.validation = validation,
                                       !.actual = actual]
    <3>1. Same(call[c], new)
      BY <1>1, SameCall
    <3>. QED BY <1>3, <2>1, <3>1
  <2>. QED BY <1>1, <1>9, <2>2, <2>3 DEF GoesOn, Held, Answer
<1>10. CASE Unload(c)
  <2>1. \E label \in Busy : pc' = [pc EXCEPT ![c] = label]
    BY <1>10 DEF Unload, Goto, Busy
  <2>2. Held
    BY <1>1, <1>3, <1>4, <1>10, SameCall DEF Unload
  <2>. QED BY <1>1, <1>10, <2>1, <2>2 DEF GoesOn, Held, Unload
<1>11. CASE Verify(c)
  <2>1. \E label \in Busy : pc' = [pc EXCEPT ![c] = label]
    BY <1>11 DEF Verify, Goto, Busy
  <2>2. Held
    BY <1>1, <1>3, <1>11, SameCall DEF Verify
  <2>. QED BY <1>1, <1>11, <2>1, <2>2 DEF GoesOn, Held, Verify, Quiet, history
<1>. QED BY <1>1, <1>5, <1>6, <1>7, <1>8, <1>9, <1>10, <1>11

\* The steps at the ledger.
LEMMA LedgerStepKeeps ==
    ASSUME IInv, NEW c \in Callers,
           InitLedger(c) \/ CreateTable(c) \/ StampVersion(c) \/ UseLedger(c)
    PROVE  IInv'
<1>1. /\ pc[c] \in Reporting /\ pc \in [Callers -> Busy \cup {"idle"}]
      /\ DOMAIN call = Callers
  BY DEF IInv, CallsInv, Shape, Reporting, InitLedger, CreateTable, StampVersion, UseLedger
<1>2. pc[c] # "idle" /\ Reporting \subseteq Busy
  BY <1>1 DEF Reporting, Busy
<1>3. ASSUME NEW label \in Reporting, Goto(c, label), UNCHANGED call,
             excused \subseteq excused', UNCHANGED <<rows, began, returned, calls>>
      PROVE  GoesOn(c)
  BY <1>1, <1>2, <1>3 DEF GoesOn, Goto, Same
<1>4. CASE InitLedger(c)
  <2>1. CASE GivesUp(c)
    BY <1>2, <2>1, GivesUpKeeps
  <2>2. CASE \E label \in Reporting : Goto(c, label) /\ UNCHANGED <<call, excused>>
    <3>1. GoesOn(c)
      BY <1>3, <1>4, <2>2 DEF InitLedger
    <3>. QED BY <1>2, <3>1, GoesOnKeeps
  <2>. QED BY <1>4, <2>1, <2>2 DEF InitLedger, GivesUp, Reporting
<1>5. CASE CreateTable(c) \/ StampVersion(c)
  <2>1. GoesOn(c)
    BY <1>3, <1>5 DEF CreateTable, StampVersion, Reporting, history
  <2>. QED BY <1>2, <2>1, GoesOnKeeps
<1>6. CASE UseLedger(c)
  <2>1. GivesUp(c) \/ Records(c)
    BY <1>6 DEF UseLedger, GivesUp, Records
  <2>. QED BY <1>2, <2>1, GivesUpKeeps, RecordsKeeps
<1>. QED BY <1>4, <1>5, <1>6

\* Interruptions, also by the end of the process.
LEMMA FaultKeeps ==
    ASSUME IInv, NEW c \in Callers, Interrupt(c) \/ Kill(c)
    PROVE  IInv'
<1>1. /\ pc[c] # "idle" /\ pc \in [Callers -> Busy \cup {"idle"}]
      /\ DOMAIN call = Callers
      /\ pc[c] = "generating" => call[c].kind # "report"
  BY DEF IInv, CallsInv, Shape, Sound, Reporting, Interrupt, Kill
<1>2. CASE GivesUp(c)
  BY <1>1, <1>2, GivesUpKeeps
<1>3. CASE Interrupt(c) /\ call[c].kind \in {"invoke", "content"}
  <2>1. AfterAnswer(call[c]) \in Busy
    BY DEF AfterAnswer, Busy
  <2>2. GoesOn(c)
    BY <1>1, <1>3, <2>1 DEF Interrupt, GoesOn, Goto, Same
  <2>. QED BY <1>1, <2>2, GoesOnKeeps
<1>. QED BY <1>2, <1>3 DEF Interrupt, Kill, GivesUp

\* Every step of every caller preserves the invariant.
LEMMA StepInv == IInv /\ [Next]_vars => IInv'
<1>. SUFFICES ASSUME IInv, [Next]_vars PROVE IInv'
  OBVIOUS
<1>1. ASSUME NEW c \in Callers, Start(c) \/ Step(c) \/ Interrupt(c) \/ Kill(c) PROVE IInv'
  <2>1. CASE Start(c)
    BY <2>1, StartKeeps
  <2>2. CASE Decide(c) \/ BuildContext(c) \/ CreateEngine(c) \/ Request(c) \/ Answer(c)
              \/ Unload(c) \/ Verify(c)
    BY <2>2, CallStepGoesOn, GoesOnKeeps
  <2>3. CASE InitLedger(c) \/ CreateTable(c) \/ StampVersion(c) \/ UseLedger(c)
    BY <2>3, LedgerStepKeeps
  <2>4. CASE Interrupt(c) \/ Kill(c)
    BY <2>4, FaultKeeps
  <2>. QED BY <1>1, <2>1, <2>2, <2>3, <2>4 DEF Step
<1>2. CASE KeepAliveEnds \/ UNCHANGED vars
  BY <1>2 DEF KeepAliveEnds, vars, history, IInv, CallsInv, Shape, Sound, Numbered, UsedInv
<1>. QED BY <1>1, <1>2 DEF Next

\* So every use has its row, its caller at work or its excuse, and never two rows.
LEMMA RecordedOnce == IInv => EveryUseIsRecorded
<1>. SUFFICES ASSUME IInv, NEW id \in 1 .. calls
     PROVE  /\ Cardinality(RowsOf(id)) <= 1
            /\ id \in began \cup returned =>
                  RowsOf(id) # {} \/ InProgress(id) \/ id \in excused
  BY DEF EveryUseIsRecorded
<1>1. RowsOf(id) = {} \/ \E i : RowsOf(id) = {i}
  BY DEF IInv, CallsInv, Numbered, RowsOf
<1>2. Cardinality(RowsOf(id)) <= 1
  BY <1>1, FS_EmptySet, FS_Singleton
<1>. QED BY <1>2 DEF IInv, UsedInv, RowsOf, InProgress

\* Whatever a generation ends in, it leaves exactly one row, for any number of callers
\* and calls, unless it was interrupted, killed or refused by the ledger.
THEOREM UsesRecorded == Spec => []EveryUseIsRecorded
BY InitInv, StepInv, RecordedOnce, PTL DEF Spec

(***************************************************************************)
(* The ledger has its table when it is used.                               *)
(***************************************************************************)
LEMMA LedgerInit == Init => LedgerInv
<1>. SUFFICES ASSUME Init PROVE LedgerInv
  OBVIOUS
<1>1. \/ file = [exists |-> FALSE, version |-> 0, table |-> FALSE]
      \/ \E v \in Nat : file = [exists |-> TRUE, version |-> v, table |-> v # 0]
  BY UseAssumption DEF Init
<1>2. \/ file = [exists |-> FALSE, version |-> 0, table |-> FALSE]
      \/ file = [exists |-> TRUE, version |-> 0, table |-> FALSE]
      \/ \E v \in Nat \ {0} : file = [exists |-> TRUE, version |-> v, table |-> TRUE]
  <2>1. ASSUME NEW v \in Nat, file = [exists |-> TRUE, version |-> v, table |-> v # 0]
        PROVE  \/ file = [exists |-> TRUE, version |-> 0, table |-> FALSE]
               \/ \E n \in Nat \ {0} : file = [exists |-> TRUE, version |-> n, table |-> TRUE]
    <3>1. CASE v = 0
      <4>1. (v # 0) = FALSE
        BY <3>1
      <4>. QED BY <2>1, <3>1, <4>1
    <3>2. CASE v # 0
      <4>1. (v # 0) = TRUE
        BY <3>2
      <4>. QED BY <2>1, <3>2, <4>1
    <3>. QED BY <3>1, <3>2
  <2>. QED BY <1>1, <2>1
<1>3. /\ file \in [exists : BOOLEAN, version : Nat, table : BOOLEAN]
      /\ file.version = 1 => file.table
  <2>1. CASE file = [exists |-> FALSE, version |-> 0, table |-> FALSE]
    BY <2>1
  <2>2. CASE file = [exists |-> TRUE, version |-> 0, table |-> FALSE]
    BY <2>2
  <2>3. ASSUME NEW v \in Nat \ {0}, file = [exists |-> TRUE, version |-> v, table |-> TRUE]
        PROVE  /\ file \in [exists : BOOLEAN, version : Nat, table : BOOLEAN]
               /\ file.version = 1 => file.table
    BY <2>3
  <2>. QED BY <1>2, <2>1, <2>2, <2>3
<1>. QED BY <1>3 DEF Init, LedgerInv

\* Every step keeps the table from the first version stamp on.
LEMMA LedgerStep == LedgerInv /\ [Next]_vars => LedgerInv'
<1>. SUFFICES ASSUME LedgerInv, [Next]_vars PROVE LedgerInv'
  OBVIOUS
<1>. USE DEF LedgerInv
<1>1. ASSUME NEW c \in Callers, UNCHANGED file,
             \/ \E label \in (Busy \cup {"idle"}) \ {"stamp", "use"} : Goto(c, label)
             \/ UNCHANGED pc
      PROVE  LedgerInv'
  BY <1>1 DEF Goto
<1>2. ASSUME NEW c \in Callers, Start(c) \/ Step(c) \/ Interrupt(c) \/ Kill(c) PROVE LedgerInv'
  <2>1. CASE Start(c)
    BY <1>1, <2>1 DEF Start, FirstStep, Busy
  <2>2. CASE Decide(c) \/ BuildContext(c) \/ CreateEngine(c) \/ Request(c) \/ Unload(c)
    BY <1>1, <2>2 DEF Decide, BuildContext, CreateEngine, Request, Unload, Quiet, Busy
  <2>3. CASE Answer(c) \/ Verify(c)
    BY <1>1, <2>3 DEF Answer, AfterAnswer, Verify, Quiet, Busy
  <2>4. CASE InitLedger(c)
    <3>1. /\ file' \in [exists : BOOLEAN, version : Nat, table : BOOLEAN]
          /\ file'.version = file.version /\ file'.table = file.table
      BY <2>4 DEF InitLedger
    <3>2. \/ \E label \in (Busy \cup {"idle"}) \ {"stamp", "use"} : Goto(c, label)
          \/ Goto(c, "use") /\ file.version = 1
      BY <2>4 DEF InitLedger, Finish, Busy
    <3>. QED BY <3>1, <3>2 DEF Goto, Busy
  <2>5. CASE CreateTable(c)
    BY <2>5 DEF CreateTable, Goto, Busy
  <2>6. CASE StampVersion(c)
    BY <2>6 DEF StampVersion, Goto, Busy
  <2>7. CASE UseLedger(c) \/ Interrupt(c) \/ Kill(c)
    BY <1>1, <2>7 DEF UseLedger, Interrupt, Kill, Finish, AfterAnswer, Busy
  <2>. QED BY <1>2, <2>1, <2>2, <2>3, <2>4, <2>5, <2>6, <2>7 DEF Step
<1>3. CASE KeepAliveEnds \/ UNCHANGED vars
  BY <1>3 DEF KeepAliveEnds, vars
<1>. QED BY <1>2, <1>3 DEF Next

\* Whoever inserts or selects finds the table, for any number of callers that create the
\* ledger at once or are killed between its statements.
THEOREM LedgerReady == Spec => []LedgerIsReady
<1>1. LedgerInv => LedgerIsReady
  BY DEF LedgerInv, LedgerIsReady
<1>. QED BY <1>1, LedgerInit, LedgerStep, PTL DEF Spec

(***************************************************************************)
(* The rows are true.  What a row will say holds of the call from the      *)
(* start; where the call is decides what may have happened to it (Stage).  *)
(***************************************************************************)
Fields == {"kind", "id", "provider", "explicit", "key", "denied", "status", "validation",
           "context", "actual", "requested", "verified", "tries"}

\* Of a call or a row.
True(r, generated, accepted) ==
    /\ r.status = "success" => r.id \in accepted \/ r.provider = "none"
    /\ r.id \in generated => Permitted(r.provider, r.explicit)
    /\ r.requested => r.id \in generated /\ r.provider = "local"
    /\ r.verified => r.requested

\* A call without usage or outcome that generated did so at no cost.
Unspent(k, generated) ==
    k.status = "blocked" /\ k.validation = "not_attempted" /\ k.id \in generated =>
        k.provider \in {"local", "none"}

Stage(k, at, generated) ==
    /\ k.kind \in Kinds
    /\ at \in {"decide", "context", "engine", "request"} => k.id \notin generated /\ k.status = "failed"
    /\ at \in {"engine", "request", "generating"} => Permitted(k.provider, k.explicit)
    /\ at \in {"generating", "unload", "verify"} => k.id \in generated
    /\ at \in {"unload", "verify"} => k.provider = "local"
    /\ at = "verify" => k.requested
    /\ at = "context" => k.kind = "content"
    /\ k.kind \in {"content", "json"} => k.provider = "local"
    /\ at = "generating" => k.kind \in {"invoke", "proposal", "content", "json"}
    /\ k.kind \in {"deterministic", "report"} => at \in Reporting

CallTrue(k, at, generated, accepted) ==
    /\ Fields \subseteq DOMAIN k
    /\ at # "idle" =>
          True(k, generated, accepted) /\ Unspent(k, generated) /\ Stage(k, at, generated)

RowTrue(r, generated, accepted) ==
    /\ True(r, generated, accepted)
    /\ UsageClass(r) = "unavailable" => r.used = 0 \/ r.id \notin generated

TrueInv ==
    /\ \A c \in Callers : CallTrue(call[c], pc[c], began, answered)
    /\ \A i \in DOMAIN rows : RowTrue(rows[i], began, answered)

\* A step of one caller.
Apart(c) ==
    /\ DOMAIN call' = Callers
    /\ \A d \in Callers \ {c} : pc'[d] = pc[d] /\ call'[d] = call[d]
    /\ began' = began \/ (pc[c] # "idle" /\ began' = began \cup {call[c].id})
    /\ answered' = answered \/ (pc[c] # "idle" /\ answered' = answered \cup {call[c].id})

\* What a caller does leaves the calls and rows of the others true.
LEMMA OthersTrue ==
    ASSUME CallsInv, TrueInv, NEW c \in Callers, Apart(c)
    PROVE  /\ \A d \in Callers \ {c} : CallTrue(call'[d], pc'[d], began', answered')
           /\ \A i \in DOMAIN rows : RowTrue(rows[i], began', answered')
<1>1. ASSUME NEW d \in Callers \ {c} PROVE CallTrue(call'[d], pc'[d], began', answered')
  <2>1. CASE pc[d] = "idle"
    BY <2>1 DEF Apart, TrueInv, CallTrue
  <2>2. CASE pc[d] # "idle"
    <3>1. pc[c] # "idle" => call[d].id # call[c].id
      BY <2>2 DEF CallsInv, Numbered
    <3>2. (call[d].id \in began' <=> call[d].id \in began)
          /\ (call[d].id \in answered => call[d].id \in answered')
      BY <3>1 DEF Apart
    <3>3. CallTrue(call[d], pc[d], began, answered)
      BY DEF TrueInv
    <3>. QED BY <3>2, <3>3 DEF Apart, CallTrue, True, Unspent, Stage
  <2>. QED BY <2>1, <2>2
<1>2. ASSUME NEW i \in DOMAIN rows PROVE RowTrue(rows[i], began', answered')
  <2>1. pc[c] # "idle" => rows[i].id # call[c].id
    BY DEF CallsInv, Numbered
  <2>2. (rows[i].id \in began' <=> rows[i].id \in began)
        /\ (rows[i].id \in answered => rows[i].id \in answered')
    BY <2>1 DEF Apart
  <2>. QED BY <2>2 DEF TrueInv, RowTrue, True
<1>. QED BY <1>1, <1>2

\* So only the caller that moves is left to show.
LEMMA TrueKept ==
    ASSUME CallsInv, TrueInv, NEW c \in Callers, Apart(c), UNCHANGED rows,
           CallTrue(call'[c], pc'[c], began', answered')
    PROVE  TrueInv'
BY OthersTrue DEF TrueInv

(***************************************************************************)
(* The fields that the steps set.                                          *)
(***************************************************************************)
Keeps(k, new, set) ==
    /\ DOMAIN new = DOMAIN k
    /\ \A f \in Fields \ set : new[f] = k[f]

\* Statuses, contexts and tries leave the other fields of a call.
LEMMA WritesOne ==
    ASSUME NEW k, Fields \subseteq DOMAIN k, NEW x
    PROVE  /\ LET new == [k EXCEPT !.status = x]
              IN Keeps(k, new, {"status"}) /\ new.status = x
           /\ Keeps(k, [k EXCEPT !.context = x], {"context"})
           /\ Keeps(k, [k EXCEPT !.tries = x], {"tries"})
BY DEF Keeps, Fields

\* What is kept, field by field.
LEMMA KeepsField ==
    ASSUME NEW k, NEW new, NEW set, Keeps(k, new, set)
    PROVE  /\ Fields \subseteq DOMAIN k => Fields \subseteq DOMAIN new
           /\ "id" \notin set => new.id = k.id
           /\ "kind" \notin set => new.kind = k.kind
           /\ "provider" \notin set => new.provider = k.provider
           /\ "explicit" \notin set => new.explicit = k.explicit
           /\ "status" \notin set => new.status = k.status
           /\ "validation" \notin set => new.validation = k.validation
           /\ "requested" \notin set => new.requested = k.requested
           /\ "verified" \notin set => new.verified = k.verified
BY DEF Keeps, Fields

\* What a row says of its call.
LEMMA RowSays ==
    ASSUME NEW k, NEW generated, NEW accepted, True(k, generated, accepted), Unspent(k, generated)
    PROVE  RowTrue(Row(k), generated, accepted)
<1>. DEFINE r == Row(k)
<1>1. /\ r.id = k.id /\ r.provider = k.provider /\ r.explicit = k.explicit
      /\ r.status = k.status /\ r.validation = k.validation /\ r.actual = k.actual
      /\ r.requested = k.requested /\ r.verified = k.verified /\ r.used = PaidUsed(k)
  BY DEF Row
<1>. HIDE DEF r
<1>2. True(r, generated, accepted)
  BY <1>1 DEF True
<1>3. UsageClass(r) = "unavailable" =>
          r.status = "blocked" /\ r.validation = "not_attempted" /\ r.actual = NoUsage
  BY DEF UsageClass
<1>4. k.provider \in {"local", "none"} /\ k.actual = NoUsage => PaidUsed(k) = 0
  BY DEF PaidUsed
<1>5. UsageClass(r) = "unavailable" => r.used = 0 \/ r.id \notin generated
  BY <1>1, <1>3, <1>4 DEF Unspent
<1>. QED BY <1>2, <1>5 DEF RowTrue, r

(***************************************************************************)
(* Every step keeps the rows true.                                         *)
(***************************************************************************)
LEMMA StartTrue ==
    ASSUME CallsInv, TrueInv, NEW c \in Callers, Start(c)
    PROVE  TrueInv'
<1>1. PICK kind \in Kinds, provider \in Providers, explicit \in BOOLEAN, key \in BOOLEAN :
        /\ kind \in {"deterministic", "content", "json", "report"} => provider = "local"
        /\ Set(c, NewCall(kind, provider, explicit, key)) /\ Goto(c, FirstStep(kind))
  BY DEF Start
<1>. DEFINE new == NewCall(kind, provider, explicit, key)
<1>2. /\ Fields \subseteq DOMAIN new /\ new.id = calls + 1 /\ new.kind = kind
      /\ new.provider = IF kind \in {"deterministic", "report"} THEN "none" ELSE provider
      /\ new.status = (IF kind = "deterministic" THEN "success" ELSE "failed")
      /\ new.requested = FALSE /\ new.verified = FALSE
  BY DEF NewCall, NoCall, Fields
<1>3. /\ call' = [call EXCEPT ![c] = new] /\ pc' = [pc EXCEPT ![c] = FirstStep(kind)]
      /\ UNCHANGED <<rows, began, answered>>
  BY <1>1 DEF Set, Goto, Start, history
<1>. HIDE DEF new
<1>4. Apart(c) /\ call'[c] = new /\ pc'[c] = FirstStep(kind)
  BY <1>3 DEF Apart, CallsInv, Shape
<1>5. new.id \notin began
  BY <1>2 DEF CallsInv, Shape
<1>6. True(new, began, answered) /\ Unspent(new, began)
  BY <1>2, <1>5 DEF True, Unspent
<1>7. Stage(new, FirstStep(kind), began)
  BY <1>1, <1>2, <1>5 DEF Stage, FirstStep, Permitted, Prohibited, Paid, Reporting, Kinds
<1>8. CallTrue(call'[c], pc'[c], began', answered')
  BY <1>2, <1>3, <1>4, <1>6, <1>7 DEF CallTrue
<1>. QED BY <1>3, <1>4, <1>8, TrueKept

\* The caller's call while it changes.
LEMMA SetsCall ==
    ASSUME CallsInv, NEW c \in Callers, pc[c] # "idle", NEW label, Goto(c, label), NEW new, Set(c, new),
           began' = began \/ began' = began \cup {call[c].id},
           answered' = answered \/ answered' = answered \cup {call[c].id}
    PROVE  Apart(c) /\ call'[c] = new /\ pc'[c] = label
BY DEF Goto, Set, Apart, CallsInv, Shape

\* A caller that only moves leaves what its row will say.
LEMMA LeavesCall ==
    ASSUME CallsInv, NEW c \in Callers, pc[c] # "idle", NEW label, Goto(c, label), UNCHANGED call,
           began' = began \/ began' = began \cup {call[c].id},
           answered' = answered
    PROVE  Apart(c) /\ call'[c] = call[c] /\ pc'[c] = label
BY DEF Goto, Apart, CallsInv, Shape

\* Up to the request.
LEMMA BeforeTrue ==
    ASSUME CallsInv, TrueInv, NEW c \in Callers,
           Decide(c) \/ BuildContext(c) \/ CreateEngine(c) \/ Request(c)
    PROVE  TrueInv'
<1>. DEFINE k == call[c]
<1>1. /\ pc[c] \in {"decide", "context", "engine", "request"} /\ UNCHANGED <<rows, answered>>
      /\ began' = began \/ began' = began \cup {k.id}
  BY DEF Decide, BuildContext, CreateEngine, Request, Quiet, history
<1>2. /\ Fields \subseteq DOMAIN k /\ True(k, began, answered) /\ Unspent(k, began)
      /\ Stage(k, pc[c], began)
  BY <1>1 DEF TrueInv, CallTrue
<1>3. k.id \notin began /\ k.status = "failed" /\ k.kind \notin {"deterministic", "report"}
  BY <1>1, <1>2 DEF Stage, Reporting
<1>4. CASE Decide(c)
  <2>1. UNCHANGED began
    BY <1>4 DEF Decide, Quiet, history
  <2>2. CASE Permitted(k.provider, k.explicit) /\ Goto(c, "engine") /\ UNCHANGED call
    <3>1. Apart(c) /\ call'[c] = k /\ pc'[c] = "engine"
      BY <1>1, <2>1, <2>2, LeavesCall
    <3>2. Stage(k, "engine", began)
      BY <1>2, <1>3, <2>2 DEF Stage
    <3>3. CallTrue(call'[c], pc'[c], began', answered')
      BY <1>1, <1>2, <2>1, <3>1, <3>2 DEF CallTrue
    <3>. QED BY <1>1, <3>1, <3>3, TrueKept
  <2>3. CASE Goto(c, "init") /\ Set(c, [k EXCEPT !.denied = TRUE, !.status = "blocked"])
    <3>. DEFINE new == [k EXCEPT !.denied = TRUE, !.status = "blocked"]
    <3>1. Keeps(k, new, {"denied", "status"}) /\ new.status = "blocked"
      BY <1>2 DEF Keeps, Fields
    <3>2. Apart(c) /\ call'[c] = new /\ pc'[c] = "init"
      BY <1>1, <2>3, SetsCall
    <3>. HIDE DEF new
    <3>3. CallTrue(new, "init", began, answered)
      BY <1>2, <1>3, <3>1, KeepsField DEF CallTrue, True, Unspent, Stage, Reporting
    <3>. QED BY <1>1, <2>1, <3>2, <3>3, TrueKept
  <2>. QED BY <1>4, <2>2, <2>3 DEF Decide
<1>5. CASE BuildContext(c)
  <2>1. UNCHANGED began /\ pc[c] = "context"
    BY <1>5 DEF BuildContext, Quiet, history
  <2>2. ASSUME NEW status \in {"blocked", "failed"}, Set(c, [k EXCEPT !.status = status]),
               Goto(c, "init")
        PROVE  TrueInv'
    <3>. DEFINE new == [k EXCEPT !.status = status]
    <3>1. Keeps(k, new, {"status"}) /\ new.status = status
      BY <1>2, WritesOne
    <3>2. Apart(c) /\ call'[c] = new /\ pc'[c] = "init"
      BY <1>1, <2>2, SetsCall
    <3>. HIDE DEF new
    <3>3. CallTrue(new, "init", began, answered)
      BY <1>2, <1>3, <2>2, <3>1, KeepsField DEF CallTrue, True, Unspent, Stage, Reporting
    <3>. QED BY <1>1, <2>1, <3>2, <3>3, TrueKept
  <2>3. ASSUME NEW size, Set(c, [k EXCEPT !.context = size]), Goto(c, "engine") PROVE TrueInv'
    <3>. DEFINE new == [k EXCEPT !.context = size]
    <3>1. Keeps(k, new, {"context"})
      BY <1>2, WritesOne
    <3>2. Apart(c) /\ call'[c] = new /\ pc'[c] = "engine"
      BY <1>1, <2>3, SetsCall
    <3>. HIDE DEF new
    <3>3. k.provider = "local"
      BY <1>2, <2>1 DEF Stage
    <3>4. Permitted(k.provider, k.explicit)
      BY <3>3 DEF Permitted, Prohibited, Paid
    <3>5. CallTrue(new, "engine", began, answered)
      BY <1>2, <1>3, <2>3, <3>1, <3>4, KeepsField DEF CallTrue, True, Unspent, Stage, Reporting
    <3>. QED BY <1>1, <2>1, <3>2, <3>5, TrueKept
  <2>. QED BY <1>5, <2>2, <2>3 DEF BuildContext
<1>6. CASE CreateEngine(c)
  <2>1. UNCHANGED began /\ pc[c] = "engine"
    BY <1>6 DEF CreateEngine, Quiet, history
  <2>2. CASE Goto(c, "request") /\ UNCHANGED call
    <3>1. Apart(c) /\ call'[c] = k /\ pc'[c] = "request"
      BY <1>1, <2>1, <2>2, LeavesCall
    <3>2. Stage(k, "request", began)
      BY <1>2, <1>3, <2>1 DEF Stage
    <3>. QED BY <1>1, <1>2, <2>1, <3>1, <3>2, TrueKept DEF CallTrue
  <2>3. CASE Goto(c, "init") /\ Set(c, [k EXCEPT !.status = "blocked"])
    <3>. DEFINE new == [k EXCEPT !.status = "blocked"]
    <3>1. Keeps(k, new, {"status"}) /\ new.status = "blocked"
      BY <1>2, WritesOne
    <3>2. Apart(c) /\ call'[c] = new /\ pc'[c] = "init"
      BY <1>1, <2>3, SetsCall
    <3>. HIDE DEF new
    <3>3. CallTrue(new, "init", began, answered)
      BY <1>2, <1>3, <3>1, KeepsField DEF CallTrue, True, Unspent, Stage, Reporting
    <3>. QED BY <1>1, <2>1, <3>2, <3>3, TrueKept
  <2>. QED BY <1>6, <2>2, <2>3 DEF CreateEngine
<1>7. CASE Request(c)
  <2>1. began' = began \cup {k.id} /\ pc[c] = "request" /\ Goto(c, "generating") /\ UNCHANGED call
    BY <1>7 DEF Request
  <2>2. Apart(c) /\ call'[c] = k /\ pc'[c] = "generating"
    BY <1>1, <2>1, LeavesCall
  <2>3. k.kind \in {"invoke", "proposal", "content", "json"}
    BY <1>2, <1>3 DEF Stage, Kinds
  <2>4. CallTrue(k, "generating", began', answered)
    BY <1>2, <1>3, <2>1, <2>3 DEF CallTrue, True, Unspent, Stage, Reporting
  <2>. QED BY <1>1, <2>2, <2>4, TrueKept
<1>. QED BY <1>4, <1>5, <1>6, <1>7

\* What an answer may be for a call that generated.
LEMMA OutcomeIs ==
    ASSUME NEW kind \in {"invoke", "proposal", "content", "json"},
           NEW event \in {"text", "unusable", "engine_error", "error"}
    PROVE  /\ Outcome(kind, event).status = "success" <=> event = "text"
           /\ Outcome(kind, event).status = "blocked"
              /\ Outcome(kind, event).validation = "not_attempted" => kind = "json"
BY DEF Outcome, InvokeOutcome, ProposalOutcome, ContentOutcome, JsonOutcome, As

\* The provider answers, with or without usage, or fails.
LEMMA AnswerTrue ==
    ASSUME CallsInv, TrueInv, NEW c \in Callers, Answer(c)
    PROVE  TrueInv'
<1>. DEFINE k == call[c]
<1>1. pc[c] = "generating" /\ UNCHANGED <<rows, began>>
  BY DEF Answer
<1>2. /\ Fields \subseteq DOMAIN k /\ True(k, began, answered) /\ Unspent(k, began)
      /\ Stage(k, "generating", began)
  BY <1>1 DEF TrueInv, CallTrue
<1>3. PICK event \in {"text", "unusable", "engine_error", "error"},
             actual \in ActualTokens \cup {NoUsage} :
        LET new == [k EXCEPT !.status = Outcome(k.kind, event).status,
                             !.validation = Outcome(k.kind, event).validation,
                             !.actual = actual]
        IN /\ Set(c, new) /\ Goto(c, AfterAnswer(new))
           /\ answered' = IF event = "text" THEN answered \cup {k.id} ELSE answered
  BY DEF Answer
<1>. DEFINE status == Outcome(k.kind, event).status
            validation == Outcome(k.kind, event).validation
            new == [k EXCEPT !.status = status, !.validation = validation, !.actual = actual]
            label == AfterAnswer(new)
<1>4. Set(c, new) /\ Goto(c, label)
  BY <1>3
<1>5. /\ status = "success" <=> event = "text"
      /\ status = "blocked" /\ validation = "not_attempted" => k.kind = "json"
  BY <1>2, OutcomeIs DEF Stage
<1>. HIDE DEF status, validation
<1>6. /\ Keeps(k, new, {"status", "validation", "actual"})
      /\ new.status = status /\ new.validation = validation
  BY <1>2 DEF Keeps, Fields
<1>. HIDE DEF new
<1>7. /\ Fields \subseteq DOMAIN new /\ new.id = k.id /\ new.kind = k.kind
      /\ new.provider = k.provider /\ new.explicit = k.explicit
      /\ new.requested = k.requested /\ new.verified = k.verified
  BY <1>2, <1>6, KeepsField
<1>8. /\ label \in {"unload", "init"}
      /\ label = "unload" => new.provider = "local"
  BY DEF AfterAnswer, Unloads
<1>. HIDE DEF label
<1>9. Apart(c) /\ call'[c] = new /\ pc'[c] = label
  BY <1>1, <1>3, <1>4, SetsCall
<1>10. True(new, began, answered')
  BY <1>2, <1>3, <1>5, <1>6, <1>7 DEF True
<1>11. Unspent(new, began)
  BY <1>2, <1>5, <1>6, <1>7 DEF Unspent, Stage
<1>12. Stage(new, label, began)
  BY <1>2, <1>7, <1>8 DEF Stage, Reporting
<1>. QED BY <1>1, <1>7, <1>9, <1>10, <1>11, <1>12, TrueKept DEF CallTrue

\* A call that is cut short is excused.
LEMMA InterruptTrue ==
    ASSUME CallsInv, TrueInv, NEW c \in Callers, Interrupt(c) \/ Kill(c)
    PROVE  TrueInv'
<1>. DEFINE k == call[c]
<1>1. pc[c] # "idle" /\ UNCHANGED <<rows, began, answered>>
  BY DEF Interrupt, Kill
<1>2. CASE Finish(c)
  <2>1. Apart(c) /\ call'[c] = NoCall /\ pc'[c] = "idle"
    BY <1>1, <1>2, SetsCall DEF Finish
  <2>2. CallTrue(NoCall, "idle", began, answered)
    BY DEF CallTrue, NoCall, Fields
  <2>. QED BY <1>1, <2>1, <2>2, TrueKept
<1>3. CASE pc[c] = "generating" /\ Goto(c, AfterAnswer(k)) /\ UNCHANGED call
  <2>1. Apart(c) /\ call'[c] = k /\ pc'[c] = AfterAnswer(k)
    BY <1>1, <1>3, LeavesCall
  <2>2. CallTrue(k, "generating", began, answered)
    BY <1>3 DEF TrueInv
  <2>3. Stage(k, AfterAnswer(k), began)
    BY <2>2 DEF CallTrue, Stage, AfterAnswer, Unloads, Reporting
  <2>. QED BY <1>1, <2>1, <2>2, <2>3, TrueKept DEF CallTrue
<1>. QED BY <1>2, <1>3 DEF Interrupt, Kill

\* The local model is unloaded and its absence verified (request_and_verify_unload).
LEMMA UnloadTrue ==
    ASSUME CallsInv, TrueInv, NEW c \in Callers, Unload(c) \/ Verify(c)
    PROVE  TrueInv'
<1>. DEFINE k == call[c]
<1>1. pc[c] \in {"unload", "verify"} /\ UNCHANGED <<rows, began, answered>>
  BY DEF Unload, Verify, Quiet, history
<1>2. /\ Fields \subseteq DOMAIN k /\ True(k, began, answered) /\ Unspent(k, began)
      /\ Stage(k, pc[c], began)
  BY <1>1 DEF TrueInv, CallTrue
<1>3. k.id \in began /\ k.provider = "local" /\ k.kind \notin {"deterministic", "report"}
  BY <1>1, <1>2 DEF Stage, Reporting
<1>4. ASSUME NEW new, NEW label \in {"verify", "init"}, Set(c, new), Goto(c, label),
             Fields \subseteq DOMAIN new, new.id = k.id, new.kind = k.kind,
             new.provider = k.provider, new.explicit = k.explicit, new.status = k.status,
             new.validation = k.validation,
             new.requested
      PROVE  TrueInv'
  <2>1. Apart(c) /\ call'[c] = new /\ pc'[c] = label
    BY <1>1, <1>4, SetsCall
  <2>2. True(new, began, answered) /\ Unspent(new, began)
    BY <1>2, <1>3, <1>4 DEF True, Unspent
  <2>3. Stage(new, label, began)
    BY <1>2, <1>3, <1>4 DEF Stage, Reporting
  <2>. QED BY <1>1, <1>4, <2>1, <2>2, <2>3, TrueKept DEF CallTrue
<1>5. CASE Unload(c)
  <2>1. CASE Goto(c, "init") /\ UNCHANGED call
    <3>1. Apart(c) /\ call'[c] = k /\ pc'[c] = "init"
      BY <1>1, <2>1, LeavesCall
    <3>2. Stage(k, "init", began)
      BY <1>2 DEF Stage, Reporting
    <3>. QED BY <1>1, <1>2, <3>1, <3>2, TrueKept DEF CallTrue
  <2>2. CASE Set(c, [k EXCEPT !.requested = TRUE, !.tries = VerifyAttempts]) /\ Goto(c, "verify")
    <3>. DEFINE new == [k EXCEPT !.requested = TRUE, !.tries = VerifyAttempts]
    <3>1. Keeps(k, new, {"requested", "tries"}) /\ new.requested = TRUE
      BY <1>2 DEF Keeps, Fields
    <3>2. Set(c, new) /\ Goto(c, "verify")
      BY <2>2
    <3>. HIDE DEF new
    <3>3. /\ Fields \subseteq DOMAIN new /\ new.id = k.id /\ new.kind = k.kind
          /\ new.provider = k.provider /\ new.explicit = k.explicit /\ new.status = k.status
          /\ new.validation = k.validation /\ new.verified = k.verified
      BY <1>2, <3>1, KeepsField
    <3>. QED BY <1>4, <3>1, <3>2, <3>3, Zenon
  <2>. QED BY <1>5, <2>1, <2>2 DEF Unload
<1>6. CASE Verify(c)
  <2>1. k.requested
    BY <1>2, <1>6 DEF Verify, Stage
  <2>2. CASE Set(c, [k EXCEPT !.verified = TRUE, !.tries = 0]) /\ Goto(c, "init")
    <3>. DEFINE new == [k EXCEPT !.verified = TRUE, !.tries = 0]
    <3>1. Keeps(k, new, {"verified", "tries"}) /\ Set(c, new) /\ Goto(c, "init")
      BY <1>2, <2>2 DEF Keeps, Fields
    <3>. HIDE DEF new
    <3>2. /\ Fields \subseteq DOMAIN new /\ new.id = k.id /\ new.kind = k.kind
          /\ new.provider = k.provider /\ new.explicit = k.explicit /\ new.status = k.status
          /\ new.validation = k.validation /\ new.requested = k.requested
      BY <1>2, <3>1, KeepsField
    <3>. QED BY <1>4, <2>1, <3>1, <3>2, Zenon
  <2>3. ASSUME NEW tries, NEW label \in {"verify", "init"}, Set(c, [k EXCEPT !.tries = tries]),
               Goto(c, label)
        PROVE  TrueInv'
    <3>. DEFINE new == [k EXCEPT !.tries = tries]
    <3>1. Keeps(k, new, {"tries"})
      BY <1>2, WritesOne
    <3>2. Set(c, new) /\ Goto(c, label)
      BY <2>3
    <3>. HIDE DEF new
    <3>3. /\ Fields \subseteq DOMAIN new /\ new.id = k.id /\ new.kind = k.kind
          /\ new.provider = k.provider /\ new.explicit = k.explicit /\ new.status = k.status
          /\ new.validation = k.validation /\ new.requested = k.requested
      BY <1>2, <3>1, KeepsField
    <3>. QED BY <1>4, <2>1, <3>2, <3>3, Zenon
  <2>. QED BY <1>6, <2>2, <2>3 DEF Verify
<1>. QED BY <1>5, <1>6

\* The ledger is created and the row is written as the call says (usage_ledger.py).
LEMMA LedgerTrue ==
    ASSUME CallsInv, TrueInv, NEW c \in Callers,
           InitLedger(c) \/ CreateTable(c) \/ StampVersion(c) \/ UseLedger(c)
    PROVE  TrueInv'
<1>. DEFINE k == call[c]
<1>1. pc[c] \in Reporting /\ UNCHANGED <<began, answered>>
  BY DEF InitLedger, CreateTable, StampVersion, UseLedger, Reporting, history
<1>2. /\ CallTrue(k, pc[c], began, answered) /\ pc[c] # "idle"
  BY <1>1 DEF TrueInv, Reporting
<1>3. CASE UNCHANGED <<rows, call>> /\ \E label \in Reporting : Goto(c, label)
  <2>1. PICK label \in Reporting : Goto(c, label)
    BY <1>3
  <2>2. Apart(c) /\ call'[c] = k /\ pc'[c] = label
    BY <1>1, <1>2, <1>3, <2>1, LeavesCall
  <2>3. CallTrue(k, label, began, answered)
    BY <1>1, <1>2, <2>1 DEF CallTrue, Stage, Reporting
  <2>. QED BY <1>1, <1>3, <2>2, <2>3, TrueKept
<1>4. CASE Finish(c)
  <2>1. Apart(c) /\ call'[c] = NoCall /\ pc'[c] = "idle"
    BY <1>1, <1>2, <1>4, SetsCall DEF Finish
  <2>2. CallTrue(NoCall, "idle", began, answered)
    BY DEF CallTrue, NoCall, Fields
  <2>3. CASE UNCHANGED rows
    BY <1>1, <2>1, <2>2, <2>3, TrueKept
  <2>4. CASE rows' = Append(rows, Row(k))
    <3>1. RowTrue(Row(k), began, answered)
      BY <1>2, RowSays DEF CallTrue
    <3>2. /\ DOMAIN rows' = DOMAIN rows \cup {Len(rows) + 1}
          /\ \A i \in DOMAIN rows : rows'[i] = rows[i]
          /\ rows'[Len(rows) + 1] = Row(k)
      BY <2>4, OneMore DEF CallsInv, Shape
    <3>3. \A i \in DOMAIN rows' : RowTrue(rows'[i], began', answered')
      BY <1>1, <2>1, <3>1, <3>2, OthersTrue
    <3>. QED BY <1>1, <2>1, <2>2, <3>3, OthersTrue DEF TrueInv
  <2>. QED BY <1>4, <2>3, <2>4 DEF InitLedger, CreateTable, StampVersion, UseLedger
<1>. QED BY <1>3, <1>4 DEF InitLedger, CreateTable, StampVersion, UseLedger, Reporting

\* At first there is neither a call nor a row.
LEMMA TrueInit == Init => TrueInv
<1>. SUFFICES ASSUME Init PROVE TrueInv
  OBVIOUS
<1>1. Fields \subseteq DOMAIN NoCall
  BY DEF Fields, NoCall
<1>. QED BY <1>1 DEF Init, TrueInv, CallTrue

\* Every step keeps what rows say true.
LEMMA TrueStep == IInv /\ TrueInv /\ [Next]_vars => TrueInv'
<1>. SUFFICES ASSUME IInv, TrueInv, [Next]_vars PROVE TrueInv'
  OBVIOUS
<1>1. CallsInv
  BY DEF IInv
<1>2. ASSUME NEW c \in Callers, Start(c) \/ Step(c) \/ Interrupt(c) \/ Kill(c) PROVE TrueInv'
  BY <1>1, <1>2, StartTrue, BeforeTrue, AnswerTrue, InterruptTrue, UnloadTrue, LedgerTrue DEF Step
<1>3. CASE KeepAliveEnds \/ UNCHANGED vars
  BY <1>3 DEF KeepAliveEnds, vars, history, TrueInv
<1>. QED BY <1>2, <1>3 DEF Next

(***************************************************************************)
(* Clean-ups and paid tokens: a call that waits for the ledger has asked   *)
(* for the unload that it owes, and a paid one began or is called blocked. *)
(***************************************************************************)
Settled(r, generated, refusals) ==
    /\ r.id \in generated /\ Unloads(r) => r.requested \/ r.id \in refusals
    /\ r.provider \notin {"local", "none"} => r.id \in generated \/ r.status = "blocked"

SettledInv ==
    /\ \A c \in Callers : pc[c] \in Reporting => Settled(call[c], began, refused)
    /\ \A i \in DOMAIN rows :
          /\ Settled(rows[i], began, refused)
          /\ rows[i].used > 0 => rows[i].provider \notin {"local", "none"}

\* A step of one caller leaves the others where they are.
Others(c) ==
    /\ \A d \in Callers \ {c} : pc'[d] = pc[d] /\ call'[d] = call[d]
    /\ began \subseteq began' /\ refused \subseteq refused' /\ excused \subseteq excused'

\* Every step is one caller's.
LEMMA StepsOfOne ==
    ASSUME CallsInv, NEW c \in Callers, Start(c) \/ Step(c) \/ Interrupt(c) \/ Kill(c)
    PROVE  Others(c)
<1>. USE DEF Others, Goto, Set, Finish, CallsInv, Shape, Quiet, history
<1>1. CASE Start(c)
  BY <1>1 DEF Start
<1>2. CASE Decide(c) \/ BuildContext(c) \/ CreateEngine(c) \/ Request(c)
  BY <1>2 DEF Decide, BuildContext, CreateEngine, Request
<1>3. CASE Answer(c)
  BY <1>3 DEF Answer
<1>4. CASE Unload(c) \/ Verify(c)
  BY <1>4 DEF Unload, Verify
<1>5. CASE InitLedger(c) \/ CreateTable(c) \/ StampVersion(c) \/ UseLedger(c)
  BY <1>5 DEF InitLedger, CreateTable, StampVersion, UseLedger
<1>6. CASE Interrupt(c) \/ Kill(c)
  BY <1>6 DEF Interrupt, Kill
<1>. QED BY <1>1, <1>2, <1>3, <1>4, <1>5, <1>6 DEF Step

\* So only the caller that moves is left to show.
LEMMA SettledKept ==
    ASSUME CallsInv, SettledInv, NEW c \in Callers, Others(c),
           began' = began \/ (pc[c] # "idle" /\ began' = began \cup {call[c].id}),
           \/ UNCHANGED rows
           \/ pc[c] \in Reporting /\ rows' = Append(rows, Row(call[c])) /\ UNCHANGED began,
           pc'[c] \in Reporting => Settled(call'[c], began', refused')
    PROVE  SettledInv'
<1>1. ASSUME NEW d \in Callers, pc'[d] \in Reporting PROVE Settled(call'[d], began', refused')
  <2>1. CASE d = c
    BY <1>1, <2>1
  <2>2. CASE d # c
    <3>1. pc[d] \in Reporting /\ call'[d] = call[d] /\ Settled(call[d], began, refused)
      BY <1>1, <2>2 DEF Others, SettledInv
    <3>2. pc[c] # "idle" => call[d].id # call[c].id
      BY <2>2, <3>1 DEF CallsInv, Numbered, Reporting
    <3>. QED BY <3>1, <3>2 DEF Others, Settled
  <2>. QED BY <2>1, <2>2
<1>2. ASSUME NEW i \in DOMAIN rows PROVE Settled(rows[i], began', refused')
  <2>1. pc[c] # "idle" => rows[i].id # call[c].id
    BY DEF CallsInv, Numbered
  <2>2. Settled(rows[i], began, refused)
    BY DEF SettledInv
  <2>. QED BY <2>1, <2>2 DEF Others, Settled
<1>3. CASE UNCHANGED rows
  BY <1>1, <1>2, <1>3 DEF SettledInv
<1>4. CASE pc[c] \in Reporting /\ rows' = Append(rows, Row(call[c])) /\ UNCHANGED began
  <2>. DEFINE k == call[c]
  <2>1. /\ DOMAIN rows' = DOMAIN rows \cup {Len(rows) + 1}
        /\ \A i \in DOMAIN rows : rows'[i] = rows[i]
        /\ rows'[Len(rows) + 1] = Row(k)
    BY <1>4, OneMore DEF CallsInv, Shape
  <2>2. /\ Row(k).id = k.id /\ Row(k).kind = k.kind /\ Row(k).provider = k.provider
        /\ Row(k).status = k.status /\ Row(k).requested = k.requested /\ Row(k).used = PaidUsed(k)
    BY DEF Row
  <2>3. Settled(k, began, refused)
    BY <1>4 DEF SettledInv
  <2>4. Settled(Row(k), began', refused')
    BY <1>4, <2>2, <2>3 DEF Settled, Unloads, Others
  <2>5. Row(k).used > 0 => Row(k).provider \notin {"local", "none"}
    BY <2>2 DEF PaidUsed
  <2>. QED BY <1>1, <1>2, <2>1, <2>4, <2>5 DEF SettledInv
<1>. QED BY <1>3, <1>4

\* Up to the request a call that gives up is blocked or local.
LEMMA SettledBefore ==
    ASSUME CallsInv, TrueInv, SettledInv, NEW c \in Callers,
           Start(c) \/ Decide(c) \/ BuildContext(c) \/ CreateEngine(c) \/ Request(c)
    PROVE  SettledInv'
<1>. DEFINE k == call[c]
<1>1. Others(c) /\ UNCHANGED rows
  BY StepsOfOne DEF Step, Start, Decide, BuildContext, CreateEngine, Request, Quiet
<1>2. began' = began \/ (pc[c] # "idle" /\ began' = began \cup {k.id})
  BY DEF Start, Decide, BuildContext, CreateEngine, Request, Quiet, history
<1>3. ASSUME pc'[c] \in Reporting PROVE Settled(call'[c], began', refused')
  <2>1. CASE Start(c)
    <3>1. PICK kind \in Kinds, provider \in Providers, explicit \in BOOLEAN, key \in BOOLEAN :
            Set(c, NewCall(kind, provider, explicit, key)) /\ Goto(c, FirstStep(kind))
      BY <2>1 DEF Start
    <3>2. kind \in {"deterministic", "report"}
      BY <1>3, <3>1 DEF Goto, FirstStep, Kinds, CallsInv, Shape, Reporting
    <3>3. /\ call'[c] = NewCall(kind, provider, explicit, key)
      BY <3>1 DEF Set, CallsInv, Shape
    <3>4. call'[c].kind = kind /\ call'[c].provider = "none"
      BY <3>2, <3>3 DEF NewCall, NoCall
    <3>. QED BY <3>2, <3>4 DEF Settled, Unloads
  <2>2. CASE Decide(c) \/ BuildContext(c) \/ CreateEngine(c)
    <3>1. /\ pc[c] \in {"decide", "context", "engine"} /\ UNCHANGED began
          /\ Fields \subseteq DOMAIN k /\ Stage(k, pc[c], began)
      BY <2>2 DEF Decide, BuildContext, CreateEngine, Quiet, history, TrueInv, CallTrue
    <3>2. k.id \notin began /\ (pc[c] = "context" => k.provider = "local")
      BY <3>1 DEF Stage
    <3>3. \/ call'[c] = [k EXCEPT !.denied = TRUE, !.status = "blocked"]
          \/ call'[c] = [k EXCEPT !.status = "blocked"]
          \/ pc[c] = "context" /\ \E x : call'[c] = [k EXCEPT !.status = x]
      BY <1>3, <2>2 DEF Decide, BuildContext, CreateEngine, Goto, Set, CallsInv, Shape, Reporting
    <3>4. /\ call'[c].id = k.id /\ call'[c].provider = k.provider
          /\ call'[c].status = "blocked" \/ pc[c] = "context"
      BY <3>1, <3>3 DEF Fields
    <3>. QED BY <3>1, <3>2, <3>4 DEF Settled
  <2>3. CASE Request(c)
    BY <1>3, <2>3 DEF Request, Goto, CallsInv, Shape, Reporting
  <2>. QED BY <2>1, <2>2, <2>3
<1>. QED BY <1>1, <1>2, <1>3, SettledKept

\* After the answer a call that does not unload goes to the ledger.
LEMMA SettledAnswer ==
    ASSUME CallsInv, TrueInv, SettledInv, NEW c \in Callers, Answer(c) \/ Interrupt(c) \/ Kill(c)
    PROVE  SettledInv'
<1>. DEFINE k == call[c]
<1>1. Others(c) /\ UNCHANGED <<rows, began>>
  BY StepsOfOne DEF Step, Answer, Interrupt, Kill
<1>2. ASSUME NEW new, call'[c] = new, new.id = k.id, pc[c] = "generating",
             pc'[c] = AfterAnswer(new), pc'[c] \in Reporting
      PROVE  Settled(call'[c], began', refused')
  <2>1. k.id \in began
    BY <1>2 DEF TrueInv, CallTrue, Stage
  <2>2. ~Unloads(new)
    BY <1>2 DEF AfterAnswer, Reporting
  <2>. QED BY <1>1, <1>2, <2>1, <2>2 DEF Settled
<1>3. ASSUME pc'[c] \in Reporting PROVE Settled(call'[c], began', refused')
  <2>1. CASE Answer(c)
    <3>1. PICK status, validation, actual :
            LET new == [k EXCEPT !.status = status, !.validation = validation,
                                 !.actual = actual]
            IN Set(c, new) /\ Goto(c, AfterAnswer(new))
      BY <2>1 DEF Answer
    <3>. DEFINE new == [k EXCEPT !.status = status, !.validation = validation, !.actual = actual]
    <3>2. call'[c] = new /\ pc'[c] = AfterAnswer(new) /\ pc[c] = "generating"
      BY <2>1, <3>1 DEF Answer, Set, Goto, CallsInv, Shape
    <3>3. new.id = k.id
      BY <3>2 DEF TrueInv, CallTrue, Fields
    <3>. HIDE DEF new
    <3>. QED BY <1>2, <1>3, <3>2, <3>3
  <2>2. CASE Interrupt(c) \/ Kill(c)
    <3>1. call'[c] = k /\ pc'[c] = AfterAnswer(k) /\ pc[c] = "generating"
      BY <1>3, <2>2 DEF Interrupt, Kill, Finish, Goto, CallsInv, Shape, Reporting
    <3>. QED BY <1>2, <1>3, <3>1
  <2>. QED BY <2>1, <2>2
<1>. QED BY <1>1, <1>3, SettledKept

\* The clean-up was asked for, or the request for it refused.
LEMMA SettledUnload ==
    ASSUME CallsInv, TrueInv, SettledInv, NEW c \in Callers, Unload(c) \/ Verify(c)
    PROVE  SettledInv'
<1>. DEFINE k == call[c]
<1>1. Others(c) /\ UNCHANGED <<rows, began>>
  BY StepsOfOne DEF Step, Unload, Verify, Quiet, history
<1>2. /\ Fields \subseteq DOMAIN k /\ Stage(k, pc[c], began) /\ pc[c] \in {"unload", "verify"}
  BY DEF TrueInv, CallTrue, Unload, Verify
<1>3. k.provider = "local"
  BY <1>2 DEF Stage
<1>4. ASSUME pc'[c] \in Reporting PROVE Settled(call'[c], began', refused')
  <2>1. CASE Unload(c)
    <3>1. call'[c] = k /\ k.id \in refused'
      BY <1>4, <2>1 DEF Unload, Goto, CallsInv, Shape, Reporting
    <3>. QED BY <1>3, <3>1 DEF Settled
  <2>2. CASE Verify(c)
    <3>1. k.requested
      BY <1>2, <2>2 DEF Verify, Stage
    <3>2. \/ call'[c] = [k EXCEPT !.verified = TRUE, !.tries = 0]
          \/ \E x : call'[c] = [k EXCEPT !.tries = x]
      BY <2>2 DEF Verify, Set, CallsInv, Shape
    <3>3. call'[c].requested = k.requested /\ call'[c].provider = k.provider
      BY <1>2, <3>2 DEF Fields
    <3>. QED BY <1>3, <3>1, <3>3 DEF Settled
  <2>. QED BY <2>1, <2>2
<1>. QED BY <1>1, <1>4, SettledKept

\* At the ledger a call stays as it is, and so becomes its row.
LEMMA SettledLedger ==
    ASSUME CallsInv, SettledInv, NEW c \in Callers,
           InitLedger(c) \/ CreateTable(c) \/ StampVersion(c) \/ UseLedger(c)
    PROVE  SettledInv'
<1>1. Others(c) /\ UNCHANGED <<began, refused>> /\ pc[c] \in Reporting
  BY StepsOfOne DEF Step, InitLedger, CreateTable, StampVersion, UseLedger, history, Reporting
<1>2. UNCHANGED rows \/ rows' = Append(rows, Row(call[c]))
  BY DEF InitLedger, CreateTable, StampVersion, UseLedger
<1>3. pc'[c] = "idle" \/ call'[c] = call[c]
  BY DEF InitLedger, CreateTable, StampVersion, UseLedger, Finish, Goto, CallsInv, Shape
<1>4. pc'[c] \in Reporting => Settled(call'[c], began', refused')
  BY <1>1, <1>3 DEF SettledInv, Reporting
<1>. QED BY <1>1, <1>2, <1>4, SettledKept

\* At first nobody waits for the ledger.
LEMMA SettledInit == Init => SettledInv
BY DEF Init, SettledInv, Reporting

\* Every step keeps the calls that wait for the ledger settled, and so the rows.
LEMMA SettledStep == IInv /\ TrueInv /\ SettledInv /\ [Next]_vars => SettledInv'
<1>. SUFFICES ASSUME IInv, TrueInv, SettledInv, [Next]_vars PROVE SettledInv'
  OBVIOUS
<1>1. CallsInv
  BY DEF IInv
<1>2. ASSUME NEW c \in Callers, Start(c) \/ Step(c) \/ Interrupt(c) \/ Kill(c) PROVE SettledInv'
  BY <1>1, <1>2, SettledBefore, SettledAnswer, SettledUnload, SettledLedger DEF Step
<1>3. CASE KeepAliveEnds \/ UNCHANGED vars
  BY <1>3 DEF KeepAliveEnds, vars, history, SettledInv
<1>. QED BY <1>2, <1>3 DEF Next

\* The ledger can be believed: whatever fails, every use has its one row, and the row says
\* what happened: an accepted answer, a permitted provider, a clean-up exactly where one was
\* due, no paid token without a generation unless the call is called blocked, and none where
\* usage is called unavailable (invoke, record_operation, request_and_verify_unload).
THEOREM LedgerTold == Spec => []LedgerIsTrue
<1>1. TrueInv /\ SettledInv => RowsAreTrue
  <2>. SUFFICES ASSUME TrueInv, SettledInv, NEW i \in DOMAIN rows
       PROVE  LET r == rows[i] IN
              /\ r.status = "success" => r.id \in answered \/ r.provider = "none"
              /\ r.id \in began => Permitted(r.provider, r.explicit)
              /\ r.requested => r.id \in began /\ r.provider = "local"
              /\ r.verified => r.requested
              /\ r.id \in began /\ Unloads(r) => r.requested \/ r.id \in refused
              /\ r.used > 0 => r.id \in began \/ r.status = "blocked"
              /\ UsageClass(r) = "unavailable" => r.used = 0 \/ r.id \notin began
    BY DEF RowsAreTrue
  <2>1. RowTrue(rows[i], began, answered)
    BY DEF TrueInv
  <2>2. /\ Settled(rows[i], began, refused)
        /\ rows[i].used > 0 => rows[i].provider \notin {"local", "none"}
    BY DEF SettledInv
  <2>. QED BY <2>1, <2>2 DEF RowTrue, True, Settled
<1>2. IInv /\ TrueInv /\ SettledInv => LedgerIsTrue
  BY <1>1, RecordedOnce DEF LedgerIsTrue
<1>. QED BY <1>2, InitInv, StepInv, TrueInit, TrueStep, SettledInit, SettledStep, PTL DEF Spec

(***************************************************************************)
(* The main model.  It is in memory for the sake of a call that used it    *)
(* since it was loaded: one that generates with it, one that will unload   *)
(* it, a json call, which leaves it there, or one that has an excuse.      *)
(***************************************************************************)
Generates(k, at) == at = "generating" /\ k.provider = "local"
Holds(k, at) ==
    \/ Generates(k, at)
    \/ at = "unload"
    \/ at \in Reporting /\ k.kind = "json"
JsonRow(rs, id) == \E i \in DOMAIN rs : rs[i].id = id /\ rs[i].kind = "json"

\* Why the call of this number may leave the model in memory.
Reason(id) ==
    \/ id \in refused \cup excused
    \/ JsonRow(rows, id)
    \/ \E c \in Callers : call[c].id = id /\ Holds(call[c], pc[c])

FreedInv ==
    /\ "main" \in leaving => \E c \in Callers : Generates(call[c], pc[c])
    /\ \A c \in Callers : Generates(call[c], pc[c]) => call[c].id \in holders
    /\ "main" \in loaded => \E id \in holders : Reason(id)

\* The model server uses the main model for those who generate with it.
LEMMA UsingMain == Using("main") = {c \in Callers : Generates(call[c], pc[c])}
BY DEF Using, Generates, ModelOf

\* What the caller itself has to see to.
LEMMA FreedKept ==
    ASSUME FreedInv, NEW c \in Callers, Others(c),
           \A id : JsonRow(rows, id) => JsonRow(rows', id),
           "main" \in leaving' =>
               \/ Generates(call'[c], pc'[c])
               \/ \E d \in Callers \ {c} : Generates(call[d], pc[d])
               \/ "main" \in leaving /\ ~Generates(call[c], pc[c]),
           Generates(call'[c], pc'[c]) => call'[c].id \in holders',
           \/ holders \subseteq holders'
           \/ "main" \notin loaded' /\ \A d \in Callers \ {c} : ~Generates(call[d], pc[d]),
           "main" \in loaded' => "main" \in loaded \/ Generates(call'[c], pc'[c]),
           "main" \in loaded' /\ Holds(call[c], pc[c]) =>
               \/ call'[c].id = call[c].id /\ Holds(call'[c], pc'[c])
               \/ JsonRow(rows', call[c].id) \/ call[c].id \in refused' \cup excused'
               \/ \E d \in Callers \ {c} : Generates(call[d], pc[d])
    PROVE  FreedInv'
<1>1. \A d \in Callers \ {c} : call'[d] = call[d] /\ pc'[d] = pc[d]
  BY DEF Others
<1>2. \A d \in Callers \ {c} : /\ Holds(call[d], pc[d]) => Holds(call'[d], pc'[d])
                              /\ Generates(call'[d], pc'[d]) <=> Generates(call[d], pc[d])
  BY <1>1
<1>3. ASSUME "main" \in leaving' PROVE \E d \in Callers : Generates(call'[d], pc'[d])
  <2>1. CASE Generates(call'[c], pc'[c])
    BY <2>1
  <2>2. CASE \E d \in Callers \ {c} : Generates(call[d], pc[d])
    BY <1>2, <2>2
  <2>3. CASE "main" \in leaving /\ ~Generates(call[c], pc[c])
    <3>1. PICK d \in Callers : Generates(call[d], pc[d])
      BY <2>3 DEF FreedInv
    <3>. QED BY <1>2, <2>3, <3>1
  <2>. QED BY <1>3, <2>1, <2>2, <2>3
<1>4. ASSUME NEW d \in Callers, Generates(call'[d], pc'[d]) PROVE call'[d].id \in holders'
  <2>1. CASE d = c
    BY <1>4, <2>1
  <2>2. CASE d # c
    <3>1. Generates(call[d], pc[d]) /\ call'[d].id = call[d].id
      BY <1>1, <1>2, <1>4, <2>2
    <3>. QED BY <2>2, <3>1 DEF FreedInv
  <2>. QED BY <2>1, <2>2
<1>5. ASSUME NEW d \in Callers, Generates(call'[d], pc'[d])
      PROVE  \E id \in holders' : Reason(id)'
  <2>1. call'[d].id \in holders' /\ Holds(call'[d], pc'[d])
    BY <1>4, <1>5 DEF Holds
  <2>. QED BY <2>1 DEF Reason
<1>6. ASSUME "main" \in loaded' PROVE \E id \in holders' : Reason(id)'
  <2>1. CASE Generates(call'[c], pc'[c]) \/ \E d \in Callers \ {c} : Generates(call[d], pc[d])
    BY <1>2, <1>5, <2>1
  <2>2. CASE /\ "main" \in loaded /\ ~Generates(call'[c], pc'[c])
             /\ \A d \in Callers \ {c} : ~Generates(call[d], pc[d])
    <3>1. PICK id \in holders : Reason(id)
      BY <2>2 DEF FreedInv
    <3>2. id \in holders'
      BY <1>6
    <3>3. CASE id \in refused \cup excused
      BY <3>2, <3>3 DEF Reason, Others
    <3>4. CASE JsonRow(rows, id)
      BY <3>2, <3>4 DEF Reason
    <3>5. CASE \E d \in Callers \ {c} : call[d].id = id /\ Holds(call[d], pc[d])
      BY <1>1, <1>2, <3>2, <3>5 DEF Reason
    <3>6. CASE call[c].id = id /\ Holds(call[c], pc[c])
      BY <1>6, <2>2, <3>2, <3>6 DEF Reason
    <3>. QED BY <3>1, <3>3, <3>4, <3>5, <3>6 DEF Reason
  <2>. QED BY <1>6, <2>1, <2>2
<1>. QED BY <1>3, <1>4, <1>6 DEF FreedInv

\* When a request ends the server drops the models that only it used.
LEMMA DropsMain ==
    ASSUME FreedInv, NEW c \in Callers, ServerDrops(c)
    PROVE  /\ "main" \in leaving' => \E d \in Callers \ {c} : Generates(call[d], pc[d])
           /\ loaded' \subseteq loaded
           /\ \/ holders \subseteq holders'
              \/ "main" \notin loaded' /\ \A d \in Callers \ {c} : ~Generates(call[d], pc[d])
<1>1. "main" \in leaving' => ~(Using("main") \subseteq {c})
  BY DEF ServerDrops
<1>2. \/ holders' = holders
      \/ "main" \notin loaded' /\ Using("main") \subseteq {c}
  BY DEF ServerDrops
<1>. QED BY <1>1, <1>2, UsingMain DEF ServerDrops

\* Before it generates a caller loads nothing, and from then on it holds the model.
LEMMA FreedBefore ==
    ASSUME CallsInv, FreedInv, NEW c \in Callers,
           Start(c) \/ Decide(c) \/ BuildContext(c) \/ CreateEngine(c) \/ Request(c)
    PROVE  FreedInv'
<1>1. /\ pc[c] \in {"idle", "decide", "context", "engine", "request"}
      /\ UNCHANGED <<rows, leaving>> /\ holders \subseteq holders'
  BY DEF Start, Decide, BuildContext, CreateEngine, Request, Quiet, host, history
<1>2. ~Holds(call[c], pc[c]) /\ ~Generates(call[c], pc[c])
  BY <1>1 DEF Holds, Generates, Reporting
<1>3. Others(c)
  BY StepsOfOne DEF Step
<1>4. \A id : JsonRow(rows, id) => JsonRow(rows', id)
  BY <1>1 DEF JsonRow
<1>5. /\ "main" \in loaded' => "main" \in loaded \/ Generates(call'[c], pc'[c])
      /\ Generates(call'[c], pc'[c]) => call'[c].id \in holders'
  <2>1. CASE Request(c)
    <3>1. /\ call' = call /\ pc'[c] = "generating" /\ loaded' = loaded \cup ModelOf(call[c])
          /\ "main" \in ModelOf(call[c]) => call[c].id \in holders'
      BY <2>1 DEF Request, Goto, CallsInv, Shape
    <3>2. "main" \in ModelOf(call[c]) <=> call[c].provider = "local"
      BY DEF ModelOf
    <3>. QED BY <3>1, <3>2 DEF Generates
  <2>2. CASE ~Request(c)
    <3>1. loaded' = loaded
      BY <2>2 DEF Start, Decide, BuildContext, CreateEngine, Quiet, host
    <3>2. pc'[c] # "generating"
      BY <2>2 DEF Start, FirstStep, Decide, BuildContext, CreateEngine, Goto, CallsInv, Shape
    <3>. QED BY <3>1, <3>2 DEF Generates
  <2>. QED BY <2>1, <2>2
<1>. QED BY <1>1, <1>2, <1>3, <1>4, <1>5, FreedKept

\* After the answer a caller goes on to unload the model, or was a json call.
LEMMA FreedAnswer ==
    ASSUME CallsInv, TrueInv, FreedInv, NEW c \in Callers, Answer(c) \/ Interrupt(c) \/ Kill(c)
    PROVE  FreedInv'
<1>. DEFINE k == call[c]
<1>1. UNCHANGED rows /\ ServerDrops(c) /\ pc[c] # "idle"
  BY DEF Answer, Interrupt, Kill
<1>2. Others(c)
  BY StepsOfOne DEF Step
<1>3. /\ Fields \subseteq DOMAIN k /\ Stage(k, pc[c], began)
  BY <1>1 DEF TrueInv, CallTrue
<1>4. pc'[c] # "generating"
  BY DEF Answer, Interrupt, Kill, Finish, Goto, AfterAnswer, CallsInv, Shape
<1>5. ASSUME Holds(k, pc[c])
      PROVE  \/ call'[c].id = k.id /\ Holds(call'[c], pc'[c])
             \/ k.id \in excused'
  <2>1. ASSUME NEW new, new.kind = k.kind, new.provider = k.provider, new.id = k.id,
               call'[c] = new, pc'[c] = AfterAnswer(new), pc[c] = "generating"
        PROVE  call'[c].id = k.id /\ Holds(call'[c], pc'[c])
    <3>1. k.provider = "local"
      BY <1>5, <2>1 DEF Holds, Generates, Reporting
    <3>2. k.kind \in {"invoke", "proposal", "content", "json"}
      BY <1>3, <2>1 DEF Stage
    <3>. QED BY <2>1, <3>1, <3>2 DEF Holds, AfterAnswer, Unloads, Reporting
  <2>2. CASE Answer(c)
    <3>1. PICK event \in {"text", "unusable", "engine_error", "error"},
                 actual \in ActualTokens \cup {NoUsage} :
            LET new == [k EXCEPT !.status = Outcome(k.kind, event).status,
                                 !.validation = Outcome(k.kind, event).validation,
                                 !.actual = actual]
            IN Set(c, new) /\ Goto(c, AfterAnswer(new))
      BY <2>2 DEF Answer
    <3>. DEFINE status == Outcome(k.kind, event).status
                validation == Outcome(k.kind, event).validation
                new == [k EXCEPT !.status = status, !.validation = validation, !.actual = actual]
    <3>2. call'[c] = new /\ pc'[c] = AfterAnswer(new) /\ pc[c] = "generating"
      BY <2>2, <3>1 DEF Answer, Set, Goto, CallsInv, Shape
    <3>. HIDE DEF status, validation
    <3>3. new.kind = k.kind /\ new.provider = k.provider /\ new.id = k.id
      BY <1>3 DEF Fields
    <3>. HIDE DEF new
    <3>. QED BY <2>1, <3>2, <3>3
  <2>3. CASE Interrupt(c) \/ Kill(c)
    <3>1. \/ k.id \in excused'
          \/ call'[c] = k /\ pc'[c] = AfterAnswer(k) /\ pc[c] = "generating"
      BY <2>3 DEF Interrupt, Kill, Goto, CallsInv, Shape
    <3>. QED BY <2>1, <3>1
  <2>. QED BY <2>2, <2>3
<1>6. \A id : JsonRow(rows, id) => JsonRow(rows', id)
  BY <1>1 DEF JsonRow
<1>7. ~Generates(call'[c], pc'[c])
  BY <1>4 DEF Generates
<1>. QED BY <1>1, <1>2, <1>5, <1>6, <1>7, DropsMain, FreedKept

\* Unloading drops the model unless somebody uses it, who then unloads it.
LEMMA FreedUnload ==
    ASSUME CallsInv, FreedInv, NEW c \in Callers, Unload(c) \/ Verify(c)
    PROVE  FreedInv'
<1>1. UNCHANGED rows /\ pc[c] \in {"unload", "verify"}
  BY DEF Unload, Verify, Quiet
<1>2. Others(c)
  BY StepsOfOne DEF Step
<1>3. \A id : JsonRow(rows, id) => JsonRow(rows', id)
  BY <1>1 DEF JsonRow
<1>4. ~Generates(call[c], pc[c]) /\ (pc[c] = "verify" => ~Holds(call[c], pc[c]))
  BY <1>1 DEF Generates, Holds, Reporting
<1>5. ~Generates(call'[c], pc'[c])
  BY DEF Unload, Verify, Goto, CallsInv, Shape, Generates
<1>6. CASE Verify(c)
  <2>1. pc[c] = "verify" /\ UNCHANGED <<loaded, leaving, holders>>
    BY <1>6 DEF Verify, Quiet, host
  <2>. QED BY <1>2, <1>3, <1>4, <1>5, <2>1, FreedKept
<1>7. CASE UNCHANGED <<loaded, leaving, holders>> /\ call[c].id \in refused'
  BY <1>2, <1>3, <1>4, <1>5, <1>7, FreedKept
<1>8. CASE Using("main") = {} /\ loaded' = loaded \ {"main"} /\ UNCHANGED leaving
  <2>1. "main" \notin loaded' /\ \A d \in Callers : ~Generates(call[d], pc[d])
    BY <1>8, UsingMain
  <2>2. "main" \notin leaving'
    BY <1>8, <2>1 DEF FreedInv
  <2>. QED BY <1>2, <1>3, <1>5, <2>1, <2>2, FreedKept
<1>9. CASE Using("main") # {} /\ leaving' = leaving \cup {"main"} /\ UNCHANGED <<loaded, holders>>
  <2>1. PICK d \in Callers \ {c} : Generates(call[d], pc[d])
    BY <1>4, <1>9, UsingMain
  <2>. QED BY <1>2, <1>3, <1>5, <1>9, <2>1, FreedKept
<1>. QED BY <1>6, <1>7, <1>8, <1>9 DEF Unload, host

\* The ledger's steps have nothing to do with the model.
LEMMA FreedLedger ==
    ASSUME CallsInv, FreedInv, NEW c \in Callers,
           InitLedger(c) \/ CreateTable(c) \/ StampVersion(c) \/ UseLedger(c)
    PROVE  FreedInv'
<1>. DEFINE k == call[c]
<1>1. pc[c] \in Reporting /\ UNCHANGED <<loaded, leaving, holders>>
  BY DEF InitLedger, CreateTable, StampVersion, UseLedger, Reporting, host
<1>2. Others(c) /\ ~Generates(k, pc[c])
  BY <1>1, StepsOfOne DEF Step, Generates, Reporting
<1>3. ~Generates(call'[c], pc'[c])
  BY DEF InitLedger, CreateTable, StampVersion, UseLedger, Finish, Goto, CallsInv, Shape, Generates
<1>4. Holds(k, pc[c]) => k.kind = "json"
  BY <1>1 DEF Holds, Generates, Reporting
<1>5. CASE rows' = Append(rows, Row(k))
  <2>1. /\ DOMAIN rows' = DOMAIN rows \cup {Len(rows) + 1}
        /\ \A i \in DOMAIN rows : rows'[i] = rows[i]
        /\ rows'[Len(rows) + 1] = Row(k)
    BY <1>5, OneMore DEF CallsInv, Shape
  <2>2. Row(k).kind = k.kind /\ Row(k).id = k.id
    BY DEF Row
  <2>3. \A id : JsonRow(rows, id) => JsonRow(rows', id)
    BY <2>1 DEF JsonRow
  <2>4. Holds(k, pc[c]) => JsonRow(rows', k.id)
    BY <1>4, <2>1, <2>2 DEF JsonRow
  <2>. QED BY <1>1, <1>2, <1>3, <2>3, <2>4, FreedKept
<1>6. CASE /\ UNCHANGED rows
           /\ \/ k.id \in excused' \/ k.kind = "report"
              \/ UNCHANGED call /\ pc'[c] \in Reporting
  <2>1. \A id : JsonRow(rows, id) => JsonRow(rows', id)
    BY <1>6 DEF JsonRow
  <2>2. CASE k.id \in excused' \/ k.kind = "report"
    BY <1>1, <1>2, <1>3, <1>4, <2>1, <2>2, FreedKept
  <2>3. CASE UNCHANGED call /\ pc'[c] \in Reporting
    <3>1. Holds(k, pc[c]) => Holds(call'[c], pc'[c])
      BY <1>1, <1>2, <2>3 DEF Holds, Generates, Reporting
    <3>. QED BY <1>1, <1>2, <1>3, <2>1, <2>3, <3>1, FreedKept
  <2>. QED BY <1>6, <2>2, <2>3
<1>7. CASE InitLedger(c) \/ CreateTable(c) \/ StampVersion(c)
  BY <1>6, <1>7 DEF InitLedger, CreateTable, StampVersion, Goto, Reporting, CallsInv, Shape
<1>. QED BY <1>5, <1>6, <1>7 DEF UseLedger

\* At first no model is loaded.
LEMMA FreedInit == Init => FreedInv
BY DEF Init, FreedInv, Generates

\* Every step leaves a call that has a reason to keep the main model, or somebody at work.
LEMMA FreedStep == IInv /\ TrueInv /\ FreedInv /\ [Next]_vars => FreedInv'
<1>. SUFFICES ASSUME IInv, TrueInv, FreedInv, [Next]_vars PROVE FreedInv'
  OBVIOUS
<1>1. CallsInv
  BY DEF IInv
<1>2. ASSUME NEW c \in Callers, Start(c) \/ Step(c) \/ Interrupt(c) \/ Kill(c) PROVE FreedInv'
  BY <1>1, <1>2, FreedBefore, FreedAnswer, FreedUnload, FreedLedger DEF Step
<1>3. CASE KeepAliveEnds
  <2>1. PICK m \in loaded : /\ Using(m) = {} /\ loaded' = loaded \ {m}
                            /\ holders' = IF m = "main" THEN {} ELSE holders
    BY <1>3 DEF KeepAliveEnds
  <2>2. UNCHANGED <<pc, call, leaving, rows, refused, excused>>
    BY <1>3 DEF KeepAliveEnds, history
  <2>3. m = "main" => \A d \in Callers : ~Generates(call[d], pc[d])
    BY <2>1, UsingMain
  <2>. QED BY <2>1, <2>2, <2>3 DEF FreedInv, Reason
<1>4. CASE UNCHANGED vars
  BY <1>4 DEF vars, FreedInv, Reason
<1>. QED BY <1>2, <1>3, <1>4 DEF Next

\* A call that unloads leaves no model behind, whoever was generating when it asked: with
\* nobody at work the main model is in memory only if a call that used it since it was loaded
\* was a json call, was interrupted, killed or refused by the ledger, or was refused the
\* unload (request_and_verify_unload, `finish`).
THEOREM ModelFreed == Spec => []FreedAtRest
<1>1. IInv /\ FreedInv => FreedAtRest
  <2>. SUFFICES ASSUME IInv, FreedInv, \A c \in Callers : pc[c] = "idle", "main" \in loaded
                PROVE  \E id \in holders :
                           \/ id \in refused \cup excused
                           \/ \E i \in DOMAIN rows : rows[i].id = id /\ rows[i].kind = "json"
    BY DEF FreedAtRest
  <2>1. \A c \in Callers : ~Holds(call[c], pc[c])
    BY DEF Holds, Generates, Reporting
  <2>. QED BY <2>1 DEF FreedInv, Reason, JsonRow
<1>. QED BY <1>1, InitInv, StepInv, TrueInit, TrueStep, FreedInit, FreedStep, PTL DEF Spec

(***************************************************************************)
(* Sums.  A fold is a function on the sets of positions of its sequence;   *)
(* that the function exists, and what it gives, is shown by induction on   *)
(* the length, the induction being one over sets of numbers.               *)
(***************************************************************************)
\* Induction for a set of numbers, by its least missing one.
LEMMA NatSetInduction ==
    ASSUME NEW T, 0 \in T, \A n \in Nat : n \in T => n + 1 \in T
    PROVE  Nat \subseteq T
<1>. SUFFICES ASSUME Nat \ T # {} PROVE FALSE
  OBVIOUS
<1>1. PICK x \in Nat \ T : \A y \in Nat \ T : ~ (<<y, x>> \in OpToRel(<, Nat))
  <2>1. IsWellFoundedOn(OpToRel(<, Nat), Nat)
    BY NatLessThanWellFounded, Zenon
  <2>. QED BY <2>1, WFMin, Zenon
<1>2. x # 0 /\ x - 1 \in Nat /\ x - 1 < x /\ x \in Nat /\ (x - 1) + 1 = x
  OBVIOUS
<1>3. <<x - 1, x>> \in OpToRel(<, Nat)
  BY <1>2, Zenon DEF OpToRel
<1>4. x - 1 \in T
  BY <1>1, <1>2, <1>3, Zenon
<1>. QED BY <1>2, <1>4

\* The greatest of the first positions is the last.
LEMMA MaxOfTop ==
    ASSUME NEW n \in Nat, NEW s \in SUBSET (1 .. n), n \in s
    PROVE  Max(s) = n
<1>1. n \in s /\ \A y \in s : n >= y
  OBVIOUS
<1>2. \A x \in s : (\A y \in s : x >= y) => x = n
  OBVIOUS
<1>. QED BY <1>1, <1>2, Zenon DEF Max

\* Every set of positions has a greatest.
LEMMA MaxAmong ==
    ASSUME NEW n \in Nat, NEW s \in SUBSET (1 .. n), s # {}
    PROVE  Max(s) \in s
<1>. DEFINE HasMax(t) == \E x \in t : \A y \in t : x >= y
           T == {m \in Nat : \A t \in SUBSET (1 .. m) : t # {} => HasMax(t)}
<1>1. 0 \in T
  <2>1. 1 .. 0 = {}
    OBVIOUS
  <2>. QED BY <2>1
<1>2. ASSUME NEW m \in Nat, m \in T
      PROVE  m + 1 \in T
  <2>1. ASSUME NEW t \in SUBSET (1 .. m + 1), t # {}
        PROVE  HasMax(t)
    <3>1. CASE m + 1 \in t
      <4>1. \A y \in t : m + 1 >= y
        OBVIOUS
      <4>. QED BY <3>1, <4>1
    <3>2. CASE m + 1 \notin t
      <4>1. t \in SUBSET (1 .. m)
        BY <3>2
      <4>. QED BY <1>2, <2>1, <4>1
    <3>. QED BY <3>1, <3>2
  <2>. QED BY <2>1
<1>. HIDE DEF T
<1>3. n \in T
  BY <1>1, <1>2, NatSetInduction
<1>4. HasMax(s)
  BY <1>3 DEF T
<1>. QED BY <1>4, Zenon DEF Max

\* What the iteration of a fold from the left gives for each set of positions.
Folds(g, base, step, n) ==
    \A s \in SUBSET (1 .. n) :
        g[s] = IF s = {} THEN base ELSE step[<<g[s \ {Max(s)}], Max(s)>>]

\* The iteration of a fold from the left exists, and gives every set of positions a value
\* of the right kind.
LEMMA FoldExists ==
    ASSUME NEW A, NEW base \in A, NEW step \in [A \X Nat -> A], NEW n \in Nat
    PROVE  \E g \in [SUBSET (1 .. n) -> A] : Folds(g, base, step, n)
<1>. DEFINE T == {m \in Nat : \E g \in [SUBSET (1 .. m) -> A] : Folds(g, base, step, m)}
<1>1. 0 \in T
  <2>. DEFINE g == [s \in SUBSET (1 .. 0) |-> base]
  <2>1. SUBSET (1 .. 0) = {{}}
    OBVIOUS
  <2>2. g \in [SUBSET (1 .. 0) -> A]
    OBVIOUS
  <2>3. Folds(g, base, step, 0)
    BY <2>1 DEF Folds
  <2>. QED BY <2>2, <2>3
<1>2. ASSUME NEW m \in Nat, m \in T
      PROVE  m + 1 \in T
  <2>1. PICK g \in [SUBSET (1 .. m) -> A] : Folds(g, base, step, m)
    BY <1>2
  <2>. DEFINE h == [s \in SUBSET (1 .. m + 1) |->
                      IF m + 1 \in s THEN step[<<g[s \ {m + 1}], m + 1>>] ELSE g[s]]
  <2>2. \A s \in SUBSET (1 .. m + 1) : m + 1 \notin s => s \in SUBSET (1 .. m)
    OBVIOUS
  <2>2a. \A s \in SUBSET (1 .. m + 1) : s \ {m + 1} \in SUBSET (1 .. m)
    OBVIOUS
  <2>3. h \in [SUBSET (1 .. m + 1) -> A]
    BY <2>2, <2>2a
  <2>4. ASSUME NEW s \in SUBSET (1 .. m + 1)
        PROVE  h[s] = IF s = {} THEN base ELSE step[<<h[s \ {Max(s)}], Max(s)>>]
    <3>1. CASE m + 1 \in s
      <4>1. Max(s) = m + 1
        BY <3>1, MaxOfTop
      <4>2. h[s \ {m + 1}] = g[s \ {m + 1}]
        BY <2>2a
      <4>. QED BY <3>1, <4>1, <4>2
    <3>2. CASE m + 1 \notin s
      <4>1. h[s] = g[s] /\ s \in SUBSET (1 .. m)
        BY <3>2, <2>2
      <4>2. s \ {Max(s)} \in SUBSET (1 .. m + 1) /\ m + 1 \notin s \ {Max(s)}
        BY <3>2
      <4>3. h[s \ {Max(s)}] = g[s \ {Max(s)}]
        BY <4>2
      <4>4. g[s] = IF s = {} THEN base ELSE step[<<g[s \ {Max(s)}], Max(s)>>]
        BY <2>1, <4>1 DEF Folds
      <4>. QED BY <4>1, <4>3, <4>4, Zenon
    <3>. QED BY <3>1, <3>2
  <2>5. Folds(h, base, step, m + 1)
    BY <2>4 DEF Folds
  <2>. HIDE DEF h
  <2>. QED BY <2>3, <2>5
<1>. HIDE DEF T
<1>3. Nat \subseteq T
  BY <1>1, <1>2, NatSetInduction
<1>. QED BY <1>3 DEF T

\* A total is the last of the sums of the first rows.
LEMMA TotalUnfolds ==
    ASSUME NEW R, NEW rs \in Seq(R), NEW field,
           \A i \in DOMAIN rs : rs[i][field] \in Nat
    PROVE  \E sums :
               /\ sums[0] = 0
               /\ \A k \in Nat : k + 1 \in DOMAIN rs => sums[k + 1] = sums[k] + rs[k + 1][field]
               /\ Total(rs, field) = sums[Len(rs)]
<1>. DEFINE Values(g) == [s \in SUBSET DOMAIN rs |->
                            IF s = {} THEN 0 ELSE g[s \ {Max(s)}] + rs[Max(s)][field]]
           step == [p \in Nat \X Nat |->
                       IF p[2] \in DOMAIN rs THEN p[1] + rs[p[2]][field] ELSE 0]
<1>1. DOMAIN rs = 1 .. Len(rs) /\ Len(rs) \in Nat /\ 0 \in Nat /\ \A x \in 1 .. Len(rs) : x \in Nat
  OBVIOUS
<1>2. step \in [Nat \X Nat -> Nat]
  OBVIOUS
<1>3. PICK g \in [SUBSET (1 .. Len(rs)) -> Nat] : Folds(g, 0, step, Len(rs))
  <2>. HIDE DEF step
  <2>. QED BY <1>1, <1>2, FoldExists, Zenon
<1>4. \A s \in SUBSET DOMAIN rs :
          s # {} => /\ Max(s) \in DOMAIN rs /\ Max(s) \in Nat
                    /\ g[s \ {Max(s)}] \in Nat
  <2>. SUFFICES ASSUME NEW s \in SUBSET (1 .. Len(rs)), s # {}
                PROVE  /\ Max(s) \in 1 .. Len(rs)
                       /\ g[s \ {Max(s)}] \in Nat
    BY <1>1
  <2>1. Max(s) \in 1 .. Len(rs)
    BY <1>1, MaxAmong
  <2>2. s \ {Max(s)} \in SUBSET (1 .. Len(rs))
    OBVIOUS
  <2>. QED BY <2>1, <2>2, <1>3
<1>5. ASSUME NEW s \in SUBSET DOMAIN rs
      PROVE  g[s] = IF s = {} THEN 0 ELSE g[s \ {Max(s)}] + rs[Max(s)][field]
  BY <1>1, <1>3, <1>4 DEF Folds
<1>6. g = Values(g)
  BY <1>1, <1>5
<1>. DEFINE G == CHOOSE iter : iter = Values(iter)
<1>7. G = Values(G)
  <2>. HIDE DEF Values
  <2>. QED BY <1>6
<1>8. Total(rs, field) = G[DOMAIN rs]
  BY Zenon DEF Total, FoldLeft, MapThenFoldSet
<1>9. \A s \in SUBSET DOMAIN rs : G[s] = IF s = {} THEN 0 ELSE G[s \ {Max(s)}] + rs[Max(s)][field]
  <2>. HIDE DEF G
  <2>. QED BY <1>7
<1>. DEFINE sums == [k \in 0 .. Len(rs) |-> G[1 .. k]]
<1>. HIDE DEF G
<1>10. sums[0] = 0
  <2>1. 1 .. 0 = {} /\ 0 \in 0 .. Len(rs)
    BY <1>1
  <2>. QED BY <2>1, <1>9
<1>11. ASSUME NEW k \in Nat, k + 1 \in DOMAIN rs
       PROVE  sums[k + 1] = sums[k] + rs[k + 1][field]
  <2>1. /\ 1 .. k + 1 \in SUBSET DOMAIN rs /\ 1 .. k + 1 # {}
        /\ (1 .. k + 1) \ {k + 1} = 1 .. k
        /\ k \in 0 .. Len(rs) /\ k + 1 \in 0 .. Len(rs)
    BY <1>1, <1>11
  <2>2. Max(1 .. k + 1) = k + 1
    BY MaxOfTop
  <2>3. G[1 .. k + 1] = G[1 .. k] + rs[k + 1][field]
    BY <1>9, <2>1, <2>2
  <2>. QED BY <2>1, <2>3
<1>12. sums[Len(rs)] = Total(rs, field)
  BY <1>1, <1>8
<1>. HIDE DEF sums
<1>. QED BY <1>10, <1>11, <1>12

\* The evidence of a repair fills the prompt up to the limit and no further, whatever it is
\* and in whatever order: a prompt is longer only by its fixed parts, and by a head that alone
\* is over the limit, to which no evidence is then added (build_repair_context).
THEOREM ContextIsBounded ==
    ASSUME NEW evidence \in Evidence
    PROVE  LET limit == IF evidence.head > PromptLimit THEN evidence.head ELSE PromptLimit
           IN  PromptBytes(evidence) \in (evidence.head + FixedBytes) .. (limit + FixedBytes)
<1>. DEFINE head == evidence.head
            items == evidence.items
            limit == IF head > PromptLimit THEN head ELSE PromptLimit
<1>0. /\ items \in Seq(Item) /\ head \in Nat /\ PromptLimit \in Nat
      /\ limit \in Nat /\ head <= limit /\ PromptLimit <= limit
  BY UseAssumption DEF Evidence
<1>. HIDE DEF head, items, limit
<1>. DEFINE add(total, item) ==
                IF item.secret \/ item.gone \/ total + item.size > PromptLimit
                THEN total ELSE total + item.size
            Values(g) == [s \in SUBSET DOMAIN items |->
                             IF s = {} THEN head
                             ELSE add(g[s \ {Max(s)}], items[Max(s)])]
            step == [p \in Nat \X Nat |->
                        IF p[2] \in DOMAIN items THEN add(p[1], items[p[2]]) ELSE 0]
<1>1. /\ DOMAIN items = 1 .. Len(items) /\ Len(items) \in Nat /\ 0 \in Nat
      /\ \A x \in 1 .. Len(items) : x \in Nat /\ items[x] \in Item
  BY <1>0
<1>2. \A total \in Nat, item \in Item : add(total, item) \in Nat /\ add(total, item) >= total
  BY DEF Item
<1>3. \A total \in 0 .. limit, item \in Item : add(total, item) \in 0 .. limit
  BY <1>0 DEF Item
<1>4. step \in [Nat \X Nat -> Nat]
  BY <1>1, <1>2
<1>5. PICK g \in [SUBSET (1 .. Len(items)) -> Nat] : Folds(g, head, step, Len(items))
  <2>. HIDE DEF step
  <2>. QED BY <1>0, <1>1, <1>4, FoldExists, Zenon
<1>6. ASSUME NEW s \in SUBSET (1 .. Len(items))
      PROVE  g[s] = IF s = {} THEN head ELSE add(g[s \ {Max(s)}], items[Max(s)])
  <2>. HIDE DEF add
  <2>1. s # {} => Max(s) \in 1 .. Len(items)
    BY <1>1, MaxAmong
  <2>2. s # {} => g[s \ {Max(s)}] \in Nat
    <3>1. s \ {Max(s)} \in SUBSET (1 .. Len(items))
      OBVIOUS
    <3>. QED BY <3>1, <1>5
  <2>. QED BY <1>1, <1>5, <2>1, <2>2 DEF Folds
<1>7. g = Values(g)
  <2>. HIDE DEF add
  <2>. QED BY <1>1, <1>6
<1>. DEFINE G == CHOOSE iter : iter = Values(iter)
<1>8. G = Values(G)
  <2>. HIDE DEF Values
  <2>. QED BY <1>7
<1>9. SelectedBytes(evidence) = G[DOMAIN items]
  BY Zenon DEF SelectedBytes, FoldLeft, MapThenFoldSet, head, items
<1>10. \A s \in SUBSET DOMAIN items :
           G[s] = IF s = {} THEN head ELSE add(G[s \ {Max(s)}], items[Max(s)])
  <2>. HIDE DEF G, add
  <2>. QED BY <1>8
<1>. DEFINE T == {k \in Nat : k \in 0 .. Len(items) => G[1 .. k] \in head .. limit}
<1>. HIDE DEF G, add
<1>11. 0 \in T
  <2>1. 1 .. 0 = {} /\ head \in head .. limit
    BY <1>0
  <2>. QED BY <2>1, <1>10
<1>12. ASSUME NEW k \in Nat, k \in T
       PROVE  k + 1 \in T
  <2>. SUFFICES ASSUME k + 1 \in 0 .. Len(items)
                PROVE  G[1 .. k + 1] \in head .. limit
    OBVIOUS
  <2>1. /\ 1 .. k + 1 \in SUBSET DOMAIN items /\ 1 .. k + 1 # {}
        /\ (1 .. k + 1) \ {k + 1} = 1 .. k
        /\ k \in 0 .. Len(items) /\ k + 1 \in 1 .. Len(items)
    <3>1. k \in 0 .. Len(items) /\ k + 1 \in 1 .. Len(items)
      BY <1>1
    <3>2. k + 1 \in 1 .. k + 1 /\ (1 .. k + 1) \ {k + 1} = 1 .. k
      OBVIOUS
    <3>3. 1 .. k + 1 \in SUBSET (1 .. Len(items))
      BY <1>1, <3>1
    <3>. QED BY <1>1, <3>1, <3>2, <3>3
  <2>2. Max(1 .. k + 1) = k + 1
    BY MaxOfTop
  <2>3. G[1 .. k + 1] = add(G[1 .. k], items[k + 1])
    BY <1>10, <2>1, <2>2
  <2>4. G[1 .. k] \in head .. limit /\ items[k + 1] \in Item
    BY <1>1, <1>12, <2>1
  <2>5. G[1 .. k] \in Nat /\ G[1 .. k] \in 0 .. limit
    BY <1>0, <2>4
  <2>6. G[1 .. k + 1] \in 0 .. limit /\ G[1 .. k + 1] >= G[1 .. k]
    BY <1>2, <1>3, <2>3, <2>4, <2>5
  <2>. QED BY <1>0, <2>4, <2>5, <2>6
<1>. HIDE DEF T
<1>13. Len(items) \in T
  BY <1>1, <1>11, <1>12, NatSetInduction
<1>14. SelectedBytes(evidence) \in head .. limit
  BY <1>1, <1>9, <1>13 DEF T
<1>15. FixedBytes \in Nat /\ PromptBytes(evidence) = SelectedBytes(evidence) + FixedBytes
  BY UseAssumption DEF PromptBytes
<1>. QED BY <1>0, <1>14, <1>15 DEF head, limit

(***************************************************************************)
(* Types, and the counts of the rows.                                      *)
(***************************************************************************)
\* What the report needs of a row.
Counts(r) == r.baseline \in Nat /\ r.used \in Nat /\ r.avoided = Savings(r.baseline, r.used)

TypeInv ==
    /\ call \in [Callers -> Call]
    /\ \A c \in Callers : (pc[c] = "idle" => call[c] = NoCall)
                          /\ (pc[c] = "verify" => call[c].tries > 0)
    /\ \A i \in DOMAIN rows : Counts(rows[i])

\* No call is a call.
LEMMA NoCallTyped == NoCall \in Call
BY DEF NoCall, Call

\* A call with other values in some fields is a call.
LEMMA CallWith ==
    ASSUME NEW k \in Call
    PROVE  /\ [k EXCEPT !.denied = TRUE, !.status = "blocked"] \in Call
           /\ \A x \in {"success", "failed", "blocked"} : [k EXCEPT !.status = x] \in Call
           /\ \A x \in Nat : [k EXCEPT !.context = x] \in Call
           /\ \A x \in Nat : [k EXCEPT !.requested = TRUE, !.tries = x] \in Call
           /\ [k EXCEPT !.verified = TRUE, !.tries = 0] \in Call
           /\ \A x \in Nat : [k EXCEPT !.tries = x] \in Call
BY DEF Call

\* What a step gives its caller's call, and how it leaves the rows.
Typed(c) ==
    /\ \E new \in Call :
          /\ call' = [call EXCEPT ![c] = new]
          /\ pc'[c] = "idle" => new = NoCall
          /\ pc'[c] = "verify" => new.tries > 0
    /\ \A d \in Callers \ {c} : pc'[d] = pc[d]
    /\ rows' = rows \/ rows' = Append(rows, Row(call[c]))

\* A call that its caller leaves as it is.
LEMMA TypedSame ==
    ASSUME CallsInv, TypeInv, NEW c \in Callers, NEW label \in Busy \ {"verify"}, Goto(c, label),
           UNCHANGED <<call, rows>>
    PROVE  Typed(c)
<1>1. call' = [call EXCEPT ![c] = call[c]] /\ call[c] \in Call
  BY DEF TypeInv
<1>2. pc'[c] = label /\ \A d \in Callers \ {c} : pc'[d] = pc[d]
  BY DEF Goto, CallsInv, Shape
<1>. QED BY <1>1, <1>2 DEF Typed, Busy

\* A call that gets new fields.
LEMMA TypedSet ==
    ASSUME CallsInv, NEW c \in Callers, NEW label \in Busy, Goto(c, label),
           NEW new \in Call, Set(c, new), label = "verify" => new.tries > 0, UNCHANGED rows
    PROVE  Typed(c)
<1>1. pc'[c] = label /\ \A d \in Callers \ {c} : pc'[d] = pc[d]
  BY DEF Goto, CallsInv, Shape
<1>. QED BY <1>1 DEF Typed, Busy, Set

\* A call that ends.
LEMMA TypedFinish ==
    ASSUME CallsInv, NEW c \in Callers, Finish(c), rows' = rows \/ rows' = Append(rows, Row(call[c]))
    PROVE  Typed(c)
<1>1. pc'[c] = "idle" /\ \A d \in Callers \ {c} : pc'[d] = pc[d]
  BY DEF Finish, Goto, CallsInv, Shape
<1>2. call' = [call EXCEPT ![c] = NoCall]
  BY DEF Finish, Set
<1>. QED BY <1>1, <1>2, NoCallTyped DEF Typed

\* The call that begins.
LEMMA StartTyped ==
    ASSUME CallsInv, TypeInv, NEW c \in Callers, Start(c)
    PROVE  Typed(c)
<1>1. PICK kind \in Kinds, provider \in Providers, explicit \in BOOLEAN, key \in BOOLEAN :
        Set(c, NewCall(kind, provider, explicit, key)) /\ Goto(c, FirstStep(kind))
  BY DEF Start
<1>2. calls + 1 \in Nat
  BY DEF CallsInv, Shape
<1>3. FirstStep(kind) \in Busy \ {"verify"}
  BY DEF FirstStep, Busy
<1>4. NewCall(kind, provider, explicit, key) \in Call
  <2>. DEFINE from == IF kind \in {"deterministic", "report"} THEN "none" ELSE provider
              status == IF kind = "deterministic" THEN "success" ELSE "failed"
              validation == IF kind = "deterministic" THEN "not_applicable"
                            ELSE FirstValidation(kind)
  <2>1. /\ from \in Providers \cup {"none"} /\ status \in {"success", "failed"}
        /\ validation \in {"not_applicable", "not_validated", "not_attempted"}
    BY DEF FirstValidation
  <2>2. NewCall(kind, provider, explicit, key) =
            [NoCall EXCEPT !.kind = kind, !.id = calls + 1, !.provider = from,
                           !.explicit = explicit, !.key = key, !.status = status,
                           !.validation = validation]
    BY DEF NewCall
  <2>. HIDE DEF from, status, validation
  <2>. QED BY <1>2, <2>1, <2>2, NoCallTyped DEF Call
<1>. QED BY <1>1, <1>3, <1>4, TypedSet DEF Start

\* Up to the request.
LEMMA BeforeTyped ==
    ASSUME CallsInv, TypeInv, NEW c \in Callers,
           Decide(c) \/ BuildContext(c) \/ CreateEngine(c) \/ Request(c)
    PROVE  Typed(c)
<1>1. call[c] \in Call /\ UNCHANGED rows
  BY DEF TypeInv, Decide, BuildContext, CreateEngine, Request, Quiet
<1>2. {"engine", "init", "request", "generating"} \subseteq Busy \ {"verify"}
  BY DEF Busy
<1>3. CASE Decide(c)
  <2>1. CASE Goto(c, "engine") /\ UNCHANGED call
    BY <1>1, <1>2, <2>1, TypedSame
  <2>2. CASE Goto(c, "init") /\ Set(c, [call[c] EXCEPT !.denied = TRUE, !.status = "blocked"])
    BY <1>1, <1>2, <2>2, CallWith, TypedSet
  <2>. QED BY <1>3, <2>1, <2>2 DEF Decide
<1>4. CASE BuildContext(c)
  <2>1. ASSUME NEW status \in {"blocked", "failed"},
               Set(c, [call[c] EXCEPT !.status = status]), Goto(c, "init")
        PROVE  Typed(c)
    BY <1>1, <1>2, <2>1, CallWith, TypedSet
  <2>2. ASSUME NEW bundle \in Bundles,
               Set(c, [call[c] EXCEPT !.context = PromptBytes(bundle)]), Goto(c, "engine")
        PROVE  Typed(c)
    <3>1. PromptBytes(bundle) \in Nat
      <4>1. bundle \in Evidence /\ bundle.head + FixedBytes \in Nat
        BY UseAssumption DEF Evidence
      <4>2. \E n \in Int : PromptBytes(bundle) \in (bundle.head + FixedBytes) .. n
        <5>1. PromptLimit + FixedBytes \in Int /\ bundle.head + FixedBytes \in Int
          BY <4>1, UseAssumption
        <5>. QED BY <4>1, <5>1, ContextIsBounded
      <4>. QED BY <4>1, <4>2
    <3>2. [call[c] EXCEPT !.context = PromptBytes(bundle)] \in Call
      BY <1>1, <3>1, CallWith
    <3>. QED BY <1>1, <1>2, <2>2, <3>2, TypedSet
  <2>. QED BY <1>4, <2>1, <2>2 DEF BuildContext
<1>5. CASE CreateEngine(c)
  <2>1. CASE Goto(c, "request") /\ UNCHANGED call
    BY <1>1, <1>2, <2>1, TypedSame
  <2>2. CASE Goto(c, "init") /\ Set(c, [call[c] EXCEPT !.status = "blocked"])
    BY <1>1, <1>2, <2>2, CallWith, TypedSet
  <2>. QED BY <1>5, <2>1, <2>2 DEF CreateEngine
<1>6. CASE Request(c)
  BY <1>1, <1>2, <1>6, TypedSame DEF Request
<1>. QED BY <1>3, <1>4, <1>5, <1>6

\* The answer, whatever it is.
LEMMA AnswerTyped ==
    ASSUME CallsInv, TrueInv, TypeInv, NEW c \in Callers, Answer(c)
    PROVE  Typed(c)
<1>. DEFINE k == call[c]
<1>1. PICK event \in {"text", "unusable", "engine_error", "error"},
             actual \in ActualTokens \cup {NoUsage} :
        LET new == [k EXCEPT !.status = Outcome(k.kind, event).status,
                             !.validation = Outcome(k.kind, event).validation,
                             !.actual = actual]
        IN /\ event = "unusable" => k.kind # "invoke"
           /\ event = "error" => k.kind # "json"
           /\ Set(c, new) /\ Goto(c, AfterAnswer(new))
  BY DEF Answer
<1>2. k \in Call /\ actual \in Nat \cup {NoUsage} /\ UNCHANGED rows
  BY UseAssumption DEF TypeInv, Answer
<1>3. k.kind \in {"invoke", "proposal", "content", "json"}
  BY DEF TrueInv, CallTrue, Stage, Answer
<1>. DEFINE status == Outcome(k.kind, event).status
            validation == Outcome(k.kind, event).validation
            new == [k EXCEPT !.status = status, !.validation = validation, !.actual = actual]
<1>4. /\ status \in {"success", "failed", "blocked"}
      /\ validation \in {"not_attempted", "not_validated", "validated", "parsed_json", "failed"}
  BY <1>3 DEF Outcome, InvokeOutcome, ProposalOutcome, ContentOutcome, JsonOutcome, As
<1>5. Set(c, new) /\ Goto(c, AfterAnswer(new))
  BY <1>1
<1>. HIDE DEF status, validation
<1>6. new \in Call
  BY <1>2, <1>4 DEF Call
<1>. HIDE DEF new
<1>7. AfterAnswer(new) \in Busy \ {"verify"}
  BY DEF AfterAnswer, Busy
<1>. QED BY <1>2, <1>5, <1>6, <1>7, TypedSet

\* The clean-up: a caller that looks again has looks left.
LEMMA UnloadTyped ==
    ASSUME CallsInv, TypeInv, NEW c \in Callers, Unload(c) \/ Verify(c)
    PROVE  Typed(c)
<1>1. /\ call[c] \in Call /\ UNCHANGED rows /\ {"init", "verify"} \subseteq Busy
      /\ call[c].tries \in Nat /\ VerifyAttempts \in Nat /\ VerifyAttempts > 0 /\ 0 \in Nat
  BY UseAssumption DEF TypeInv, Unload, Verify, Quiet, Busy, Call
<1>2. CASE Unload(c)
  <2>1. CASE Goto(c, "init") /\ UNCHANGED call
    BY <1>1, <2>1, TypedSame
  <2>2. CASE /\ Goto(c, "verify")
             /\ Set(c, [call[c] EXCEPT !.requested = TRUE, !.tries = VerifyAttempts])
    <3>1. [call[c] EXCEPT !.requested = TRUE, !.tries = VerifyAttempts] \in Call
      BY <1>1, CallWith
    <3>2. [call[c] EXCEPT !.requested = TRUE, !.tries = VerifyAttempts].tries > 0
      BY <1>1 DEF Call
    <3>. QED BY <1>1, <2>2, <3>1, <3>2, TypedSet
  <2>. QED BY <1>2, <2>1, <2>2 DEF Unload
<1>3. CASE Verify(c)
  <2>1. CASE Goto(c, "init") /\ Set(c, [call[c] EXCEPT !.verified = TRUE, !.tries = 0])
    BY <1>1, <2>1, CallWith, TypedSet
  <2>2. CASE Goto(c, "init") /\ Set(c, [call[c] EXCEPT !.tries = 0])
    BY <1>1, <2>2, CallWith, TypedSet
  <2>3. CASE /\ Set(c, [call[c] EXCEPT !.tries = @ - 1])
             /\ Goto(c, IF call[c].tries > 1 THEN "verify" ELSE "init")
    <3>. DEFINE new == [call[c] EXCEPT !.tries = call[c].tries - 1]
                label == IF call[c].tries > 1 THEN "verify" ELSE "init"
    <3>1. call[c].tries > 0 /\ call[c].tries - 1 \in Nat
      BY <1>1, <1>3 DEF TypeInv, Verify
    <3>2. new \in Call
      BY <1>1, <3>1, CallWith
    <3>3. label = "verify" => new.tries > 0
      BY <1>1 DEF Call
    <3>4. label \in Busy
      BY <1>1
    <3>5. Set(c, new) /\ Goto(c, label)
      BY <2>3
    <3>. HIDE DEF new, label
    <3>. QED BY <1>1, <3>2, <3>3, <3>4, <3>5, TypedSet
  <2>. QED BY <1>3, <2>1, <2>2, <2>3 DEF Verify
<1>. QED BY <1>2, <1>3

\* The ledger and the faults.
LEMMA EndTyped ==
    ASSUME CallsInv, TypeInv, NEW c \in Callers,
           InitLedger(c) \/ CreateTable(c) \/ StampVersion(c) \/ UseLedger(c)
               \/ Interrupt(c) \/ Kill(c)
    PROVE  Typed(c)
<1>1. {"create", "use", "stamp", "unload", "init"} \subseteq Busy \ {"verify"}
  BY DEF Busy
<1>2. CASE InitLedger(c)
  BY <1>1, <1>2, TypedSame, TypedFinish DEF InitLedger
<1>3. CASE CreateTable(c) \/ StampVersion(c)
  BY <1>1, <1>3, TypedSame DEF CreateTable, StampVersion
<1>4. CASE UseLedger(c)
  BY <1>4, TypedFinish DEF UseLedger
<1>5. CASE Interrupt(c)
  <2>1. AfterAnswer(call[c]) \in {"unload", "init"}
    BY DEF AfterAnswer
  <2>. QED BY <1>1, <1>5, <2>1, TypedSame, TypedFinish DEF Interrupt
<1>6. CASE Kill(c)
  BY <1>6, TypedFinish DEF Kill
<1>. QED BY <1>2, <1>3, <1>4, <1>5, <1>6

\* What is booked for a call are numbers, whoever answered it (record_operation).
LEMMA RowCounts ==
    ASSUME NEW k \in Call
    PROVE  Counts(Row(k))
<1>. DEFINE r == Row(k)
<1>1. /\ r.baseline = Baseline(k) /\ r.used = PaidUsed(k)
      /\ r.avoided = Savings(Baseline(k), PaidUsed(k))
  BY DEF Row
<1>2. PromptTokens \in Nat /\ k.context \in Nat /\ k.actual \in Nat \cup {NoUsage}
  BY UseAssumption DEF Call
<1>3. Ceil4(k.context) \in Nat
  BY <1>2 DEF Ceil4
<1>4. Baseline(k) \in Nat
  BY <1>2, <1>3 DEF Baseline
<1>5. PaidUsed(k) \in Nat
  BY <1>2 DEF PaidUsed
<1>. HIDE DEF r
<1>6. Counts(r)
  BY <1>1, <1>4, <1>5 DEF Counts
<1>. QED BY <1>6 DEF r

\* At first everybody rests and the table is empty.
LEMMA TypeInit == Init => TypeInv
BY NoCallTyped DEF Init, TypeInv

\* Calls stay calls and rows stay numbers, whatever the providers report.
LEMMA TypeStep == IInv /\ TrueInv /\ TypeInv /\ [Next]_vars => TypeInv'
<1>. SUFFICES ASSUME IInv, TrueInv, TypeInv, [Next]_vars PROVE TypeInv'
  OBVIOUS
<1>1. CallsInv
  BY DEF IInv
<1>2. ASSUME NEW c \in Callers, Start(c) \/ Step(c) \/ Interrupt(c) \/ Kill(c) PROVE TypeInv'
  <2>1. Typed(c)
    BY <1>1, <1>2, StartTyped, BeforeTyped, AnswerTyped, UnloadTyped, EndTyped DEF Step
  <2>2. PICK new \in Call : /\ call' = [call EXCEPT ![c] = new]
                            /\ pc'[c] = "idle" => new = NoCall
                            /\ pc'[c] = "verify" => new.tries > 0
    BY <2>1 DEF Typed
  <2>3. call' \in [Callers -> Call] /\ call'[c] = new
        /\ \A d \in Callers \ {c} : call'[d] = call[d] /\ pc'[d] = pc[d]
    BY <2>1, <2>2 DEF TypeInv, Typed
  <2>4. \A d \in Callers : (pc'[d] = "idle" => call'[d] = NoCall)
                           /\ (pc'[d] = "verify" => call'[d].tries > 0)
    BY <2>2, <2>3 DEF TypeInv
  <2>5. \A i \in DOMAIN rows' : Counts(rows'[i])
    <3>1. CASE rows' = rows
      BY <3>1 DEF TypeInv
    <3>2. CASE rows' = Append(rows, Row(call[c]))
      <4>1. Counts(Row(call[c]))
        BY RowCounts DEF TypeInv
      <4>2. rows \in Seq({rows[i] : i \in DOMAIN rows})
        BY <1>1 DEF CallsInv, Shape
      <4>3. /\ DOMAIN rows' = DOMAIN rows \cup {Len(rows) + 1}
            /\ \A i \in DOMAIN rows : rows'[i] = rows[i]
            /\ rows'[Len(rows) + 1] = Row(call[c])
        BY <3>2, <4>2, OneMore
      <4>. QED BY <4>1, <4>3 DEF TypeInv
    <3>. QED BY <2>1, <3>1, <3>2 DEF Typed
  <2>. QED BY <2>3, <2>4, <2>5 DEF TypeInv
<1>3. CASE KeepAliveEnds \/ UNCHANGED vars
  BY <1>3 DEF KeepAliveEnds, vars, TypeInv
<1>. QED BY <1>2, <1>3 DEF Next

(***************************************************************************)
(* What usage-report says.                                                 *)
(***************************************************************************)
\* A quotient of the whole numbers.
LEMMA Quotient ==
    ASSUME NEW a \in Nat, NEW b \in Nat \ {0}
    PROVE  /\ a \div b \in Nat
           /\ (a \div b) * b <= a
OBVIOUS

\* A percentage, in hundredths, that a number of tokens covers up to the rounding.
Covered(p, whole, cover) == p \in 0 .. 10000 /\ 2 * (p * whole) <= 20000 * cover + whole

\* A rounded percentage of a part is at most a hundred, and covered up to the rounding by any
\* number that is at least the part.
LEMMA Percent ==
    ASSUME NEW part \in Nat, NEW whole \in Nat, part <= whole, NEW cover \in Nat, part <= cover,
           NEW p \in Percentages(part, whole)
    PROVE  Covered(p, whole, cover)
<1>1. CASE whole = 0
  BY <1>1 DEF Percentages, Covered
<1>2. CASE whole # 0
  <2>. DEFINE down == (10000 * part) \div whole
  <2>1. down \in Nat
    <3>1. 10000 * part \in Nat /\ whole \in Nat \ {0}
      BY <1>2
    <3>. QED BY <3>1, Quotient
  <2>2. p \in {down, down + 1} /\ 2 * (p * whole) \in (20000 * part - whole) .. (20000 * part + whole)
    BY <1>2 DEF Percentages
  <2>. HIDE DEF down
  <2>3. p \in Nat
    BY <2>1, <2>2
  <2>. DEFINE product == p * whole
  <2>4. product \in Nat /\ (p >= 10001 => product >= 10001 * whole)
    BY <2>3
  <2>5. 2 * product <= 20000 * part + whole
    BY <2>2
  <2>. HIDE DEF product
  <2>6. p <= 10000
    BY <1>2, <2>3, <2>4, <2>5
  <2>7. 2 * product <= 20000 * cover + whole
    BY <2>4, <2>5
  <2>. QED BY <2>3, <2>6, <2>7 DEF product, Covered
<1>. QED BY <1>1, <1>2

\* One more row keeps the bounds.
LEMMA AddedRow ==
    \A baseline, used, avoided, b, u, a \in Nat :
        avoided <= baseline /\ baseline - used <= avoided /\ a <= b /\ b - u <= a =>
            /\ baseline + b \in Nat /\ used + u \in Nat /\ avoided + a \in Nat
            /\ avoided + a <= baseline + b
            /\ (baseline + b) - (used + u) <= avoided + a
OBVIOUS

\* Over all rows: the avoided tokens are at most the baseline, and at least what the
\* baseline exceeds the used tokens by (calculate_savings, report).
LEMMA TotalsAreSound ==
    ASSUME NEW R, NEW rs \in Seq(R), \A i \in DOMAIN rs : Counts(rs[i])
    PROVE  LET baseline == Total(rs, "baseline")
               used     == Total(rs, "used")
               avoided  == Total(rs, "avoided")
           IN /\ baseline \in Nat /\ used \in Nat /\ avoided \in Nat
              /\ avoided <= baseline
              /\ Savings(baseline, used) <= avoided
<1>1. \A i \in DOMAIN rs : /\ rs[i]["baseline"] \in Nat /\ rs[i]["used"] \in Nat
                           /\ rs[i]["avoided"] \in Nat
                           /\ rs[i]["avoided"] = Savings(rs[i]["baseline"], rs[i]["used"])
  BY DEF Counts, Savings
<1>2. PICK B : /\ B[0] = 0
               /\ \A k \in Nat : k + 1 \in DOMAIN rs => B[k + 1] = B[k] + rs[k + 1]["baseline"]
               /\ Total(rs, "baseline") = B[Len(rs)]
  BY <1>1, TotalUnfolds
<1>3. PICK U : /\ U[0] = 0
               /\ \A k \in Nat : k + 1 \in DOMAIN rs => U[k + 1] = U[k] + rs[k + 1]["used"]
               /\ Total(rs, "used") = U[Len(rs)]
  BY <1>1, TotalUnfolds
<1>4. PICK A : /\ A[0] = 0
               /\ \A k \in Nat : k + 1 \in DOMAIN rs => A[k + 1] = A[k] + rs[k + 1]["avoided"]
               /\ Total(rs, "avoided") = A[Len(rs)]
  BY <1>1, TotalUnfolds
<1>. DEFINE Good(k) == /\ B[k] \in Nat /\ U[k] \in Nat /\ A[k] \in Nat
                       /\ A[k] <= B[k] /\ B[k] - U[k] <= A[k]
            T == {k \in Nat : k <= Len(rs) => Good(k)}
<1>5. 0 \in T
  BY <1>2, <1>3, <1>4
<1>6. ASSUME NEW k \in Nat, k \in T
      PROVE  k + 1 \in T
  <2>. SUFFICES ASSUME k + 1 <= Len(rs) PROVE Good(k + 1)
    OBVIOUS
  <2>1. k + 1 \in DOMAIN rs /\ k <= Len(rs)
    OBVIOUS
  <2>2. Good(k)
    BY <1>6, <2>1
  <2>3. /\ B[k + 1] = B[k] + rs[k + 1]["baseline"] /\ U[k + 1] = U[k] + rs[k + 1]["used"]
        /\ A[k + 1] = A[k] + rs[k + 1]["avoided"]
    BY <1>2, <1>3, <1>4, <2>1
  <2>4. /\ rs[k + 1]["avoided"] <= rs[k + 1]["baseline"]
        /\ rs[k + 1]["baseline"] - rs[k + 1]["used"] <= rs[k + 1]["avoided"]
        /\ rs[k + 1]["baseline"] \in Nat /\ rs[k + 1]["used"] \in Nat /\ rs[k + 1]["avoided"] \in Nat
    BY <1>1, <2>1 DEF Savings
  <2>. DEFINE b == rs[k + 1]["baseline"]
              u == rs[k + 1]["used"]
              a == rs[k + 1]["avoided"]
  <2>5. /\ B[k + 1] = B[k] + b /\ U[k + 1] = U[k] + u /\ A[k + 1] = A[k] + a
        /\ b \in Nat /\ u \in Nat /\ a \in Nat /\ a <= b /\ b - u <= a
    BY <2>3, <2>4
  <2>. HIDE DEF b, u, a
  <2>6. /\ B[k] + b \in Nat /\ U[k] + u \in Nat /\ A[k] + a \in Nat
        /\ A[k] + a <= B[k] + b /\ (B[k] + b) - (U[k] + u) <= A[k] + a
    BY <2>2, <2>5, AddedRow, Zenon
  <2>. QED BY <2>5, <2>6, Zenon
<1>. HIDE DEF T
<1>7. Len(rs) \in T /\ Len(rs) \in Nat
  BY <1>5, <1>6, NatSetInduction
<1>8. Good(Len(rs))
  BY <1>7 DEF T
<1>. QED BY <1>2, <1>3, <1>4, <1>8 DEF Savings

\* usage-report tells nobody of savings that were not made: whatever the providers reported,
\* the avoided tokens are within the baseline and cover the percentage up to the rounding of
\* its second decimal (report, calculate_savings).
THEOREM SavingsSound == Spec => []SavingsAreSound
<1>1. IInv /\ TypeInv => SavingsAreSound
  <2>. SUFFICES ASSUME IInv, TypeInv PROVE SavingsAreSound
    OBVIOUS
  <2>. DEFINE B == Total(rows, "baseline")
              U == Total(rows, "used")
              A == Total(rows, "avoided")
              overall == Savings(B, U)
              avoided == IF A # 0 THEN A ELSE overall
  <2>1. B \in Nat /\ U \in Nat /\ A \in Nat /\ A <= B /\ overall <= A
    BY TotalsAreSound DEF IInv, CallsInv, Shape, TypeInv
  <2>2. /\ Report(rows).avoided = avoided /\ Report(rows).baseline = B
        /\ Report(rows).percents = Percentages(overall, B)
    BY DEF Report
  <2>. HIDE DEF B, U, A
  <2>3. overall \in Nat
    BY <2>1 DEF Savings
  <2>. HIDE DEF overall
  <2>4. avoided = A /\ avoided \in 0 .. B
    BY <2>1, <2>3
  <2>. HIDE DEF avoided
  <2>5. ASSUME NEW p \in Percentages(overall, B)
        PROVE  Covered(p, B, avoided)
    <3>1. overall <= B /\ avoided \in Nat /\ overall <= avoided
      BY <2>1, <2>3, <2>4
    <3>2. p \in Percentages(overall, B)
      BY <2>5
    <3>. QED BY <2>1, <2>3, <3>1, <3>2, Percent, Zenon
  <2>6. \A p \in Report(rows).percents : Covered(p, Report(rows).baseline, Report(rows).avoided)
    BY <2>2, <2>5, Zenon
  <2>7. Report(rows).avoided \in 0 .. Report(rows).baseline
    BY <2>2, <2>4, Zenon
  <2>. DEFINE told == Report(rows)
  <2>8. /\ told.avoided \in 0 .. told.baseline
        /\ \A p \in told.percents :
              /\ p \in 0 .. 10000
              /\ 2 * (p * told.baseline) <= 20000 * told.avoided + told.baseline
    <3>. HIDE DEF told
    <3>1. \A p \in told.percents : Covered(p, told.baseline, told.avoided)
      BY <2>6, Zenon DEF told
    <3>2. told.avoided \in 0 .. told.baseline
      BY <2>7, Zenon DEF told
    <3>. QED BY <3>1, <3>2 DEF Covered
  <2>. QED BY <2>8 DEF SavingsAreSound
<1>. QED BY <1>1, InitInv, StepInv, TrueInit, TrueStep, TypeInit, TypeStep, PTL DEF Spec

(***************************************************************************)
(* Types of the rest: the Ollama server and the history.                   *)
(***************************************************************************)
HostInv ==
    /\ loaded \subseteq Models /\ leaving \subseteq {"main"} /\ leaving \subseteq loaded
    /\ \A c \in Callers : Generates(call[c], pc[c]) => "main" \in loaded
    /\ answered \subseteq began /\ holders \subseteq began

\* Every model that is used is one of the two.
LEMMA ModelsUsed ==
    ASSUME NEW k
    PROVE  ModelOf(k) \subseteq Models /\ (k.provider = "local" => "main" \in ModelOf(k))
BY DEF ModelOf, Models

\* A step that begins no generation and leaves the server alone.
LEMMA HostLeft ==
    ASSUME HostInv, NEW c \in Callers, Others(c), ~Generates(call'[c], pc'[c]),
           UNCHANGED <<loaded, leaving>>, answered' \subseteq began', holders' \subseteq began'
    PROVE  HostInv'
BY DEF HostInv, Others, Generates

\* Up to the request, which has its model loaded.
LEMMA HostBefore ==
    ASSUME CallsInv, HostInv, NEW c \in Callers,
           Start(c) \/ Decide(c) \/ BuildContext(c) \/ CreateEngine(c) \/ Request(c)
    PROVE  HostInv'
<1>1. Others(c)
  BY StepsOfOne DEF Step
<1>2. CASE ~Request(c)
  <2>1. UNCHANGED <<loaded, leaving, holders, answered, began>> /\ pc'[c] # "generating"
    BY <1>2 DEF Start, FirstStep, Decide, BuildContext, CreateEngine, Quiet, host, history,
             Goto, CallsInv, Shape
  <2>. QED BY <1>1, <2>1, HostLeft DEF HostInv, Generates
<1>3. CASE Request(c)
  <2>1. /\ call'[c] = call[c] /\ loaded' = loaded \cup ModelOf(call[c])
        /\ began' = began \cup {call[c].id} /\ UNCHANGED <<leaving, answered>>
        /\ holders' \subseteq holders \cup {call[c].id}
    BY <1>3 DEF Request
  <2>. QED BY <1>1, <2>1, ModelsUsed DEF HostInv, Others, Generates
<1>. QED BY <1>2, <1>3

\* A request that ends drops no model that another one uses.
LEMMA HostAfter ==
    ASSUME CallsInv, TrueInv, HostInv, NEW c \in Callers, Answer(c) \/ Interrupt(c) \/ Kill(c)
    PROVE  HostInv'
<1>1. Others(c) /\ ServerDrops(c) /\ began' = began
  BY StepsOfOne DEF Step, Answer, Interrupt, Kill
<1>2. pc'[c] # "generating"
  BY DEF Answer, Interrupt, Kill, Finish, Goto, AfterAnswer, CallsInv, Shape
<1>3. /\ loaded' \subseteq loaded /\ leaving' \subseteq leaving
      /\ leaving' \subseteq loaded'
      /\ "main" \in loaded /\ "main" \notin loaded' => Using("main") \subseteq {c}
      /\ holders' \subseteq holders
  BY <1>1 DEF ServerDrops, HostInv
<1>4. answered' \subseteq began'
  <2>1. CASE Answer(c)
    <3>1. call[c].id \in began /\ answered' \subseteq answered \cup {call[c].id}
      BY <2>1 DEF Answer, TrueInv, CallTrue, Stage
    <3>. QED BY <1>1, <3>1 DEF HostInv
  <2>2. CASE Interrupt(c) \/ Kill(c)
    BY <1>1, <2>2 DEF HostInv, Interrupt, Kill
  <2>. QED BY <2>1, <2>2
<1>5. ASSUME NEW d \in Callers, Generates(call'[d], pc'[d])
      PROVE  "main" \in loaded'
  <2>1. d # c /\ Generates(call[d], pc[d])
    BY <1>1, <1>2, <1>5 DEF Generates, Others
  <2>2. "main" \in loaded /\ d \in Using("main")
    BY <2>1, UsingMain DEF HostInv
  <2>. QED BY <1>3, <2>1, <2>2
<1>. QED BY <1>1, <1>3, <1>4, <1>5 DEF HostInv

\* To unload drops the model at once only when nobody uses it.
LEMMA HostUnload ==
    ASSUME CallsInv, FreedInv, HostInv, NEW c \in Callers, Unload(c) \/ Verify(c)
    PROVE  HostInv'
<1>1. /\ Others(c) /\ pc'[c] # "generating" /\ UNCHANGED <<began, answered>>
      /\ holders' \subseteq holders
  <2>1. Others(c)
    BY StepsOfOne DEF Step
  <2>. QED BY <2>1 DEF Unload, Verify, Quiet, host, history, Goto, CallsInv, Shape
<1>2. CASE UNCHANGED <<loaded, leaving>>
  BY <1>1, <1>2, HostLeft DEF HostInv, Generates
<1>3. CASE Using("main") = {} /\ loaded' = loaded \ {"main"} /\ UNCHANGED leaving
  <2>1. "main" \notin leaving /\ \A d \in Callers : ~Generates(call[d], pc[d])
    BY <1>3, UsingMain DEF FreedInv
  <2>. QED BY <1>1, <1>3, <2>1 DEF HostInv, Others, Generates
<1>4. CASE Using("main") # {} /\ leaving' = leaving \cup {"main"} /\ UNCHANGED loaded
  <2>1. "main" \in loaded
    BY <1>4, UsingMain DEF HostInv
  <2>. QED BY <1>1, <1>4, <2>1 DEF HostInv, Others, Generates
<1>. QED BY <1>2, <1>3, <1>4 DEF Unload, Verify, Quiet, host

\* At first the server has nothing in memory.
LEMMA HostInit == Init => HostInv
BY DEF Init, HostInv, Generates

\* Every step keeps the models that are used in memory.
LEMMA HostStep == IInv /\ TrueInv /\ FreedInv /\ HostInv /\ [Next]_vars => HostInv'
<1>. SUFFICES ASSUME IInv, TrueInv, FreedInv, HostInv, [Next]_vars PROVE HostInv'
  OBVIOUS
<1>1. CallsInv
  BY DEF IInv
<1>2. ASSUME NEW c \in Callers, Start(c) \/ Step(c) \/ Interrupt(c) \/ Kill(c) PROVE HostInv'
  <2>1. CASE InitLedger(c) \/ CreateTable(c) \/ StampVersion(c) \/ UseLedger(c)
    <3>1. Others(c)
      BY <1>1, <2>1, StepsOfOne DEF Step
    <3>2. UNCHANGED <<loaded, leaving, holders, answered, began>> /\ pc'[c] # "generating"
      BY <1>1, <2>1 DEF InitLedger, CreateTable, StampVersion, UseLedger, Finish, Goto, host, history,
               CallsInv, Shape
    <3>. QED BY <3>1, <3>2, HostLeft DEF HostInv, Generates
  <2>. QED BY <1>1, <1>2, <2>1, HostBefore, HostAfter, HostUnload DEF Step
<1>3. CASE KeepAliveEnds
  <2>1. PICK m \in loaded : /\ Using(m) = {} /\ loaded' = loaded \ {m}
                            /\ holders' \subseteq holders
    BY <1>3 DEF KeepAliveEnds
  <2>2. UNCHANGED <<pc, call, leaving, answered, began>>
    BY <1>3 DEF KeepAliveEnds, history
  <2>3. m = "main" => "main" \notin leaving /\ \A d \in Callers : ~Generates(call[d], pc[d])
    BY <2>1, UsingMain DEF FreedInv
  <2>. QED BY <2>1, <2>2, <2>3 DEF HostInv
<1>4. CASE UNCHANGED vars
  BY <1>4 DEF vars, HostInv
<1>. QED BY <1>2, <1>3, <1>4 DEF Next

\* Every variable has its type in every state, and a caller is at rest exactly when it has
\* no call; the server was asked to drop no model that is not in memory.
THEOREM TypeCorrect == Spec => []TypeOK
<1>1. IInv /\ TrueInv /\ TypeInv /\ HostInv => TypeOK
  <2>. SUFFICES ASSUME IInv, TrueInv, TypeInv, HostInv PROVE TypeOK
    OBVIOUS
  <2>1. /\ pc \in [Callers -> Busy \cup {"idle"}]
        /\ \A i \in DOMAIN rows : rows[i].id \in 1 .. calls
        /\ began \subseteq 1 .. calls
    BY DEF IInv, CallsInv, Shape
  <2>2. ASSUME NEW c \in Callers, pc[c] # "idle" PROVE call[c] # NoCall
    <3>1. call[c].kind \in Kinds
      BY <2>2 DEF TrueInv, CallTrue, Stage
    <3>. QED BY <3>1 DEF Kinds, NoCall
  <2>. QED BY <2>1, <2>2 DEF TypeOK, TypeInv, HostInv, Busy
<1>. QED BY <1>1, InitInv, StepInv, TrueInit, TrueStep, TypeInit, TypeStep, FreedInit, FreedStep,
            HostInit, HostStep, PTL DEF Spec
=============================================================================
