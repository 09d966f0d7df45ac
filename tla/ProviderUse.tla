----------------------------- MODULE ProviderUse -----------------------------
(***************************************************************************)
(* Every use of a language model and its bookkeeping: the routing policy   *)
(* (src/brains/provider_policy.py), the two providers that do not go       *)
(* through `invoke` (providers.py, repair_content_generator.py), the       *)
(* planner and tester calls that only record, the bounded context of a     *)
(* repair (context_budget.py) and the usage ledger (usage_ledger.py), an   *)
(* SQLite file of the repository that several callers, threads of one      *)
(* process or processes, use at once.  They share one Ollama server too.   *)
(***************************************************************************)
EXTENDS Integers, FiniteSets, FiniteSetsExt, SequencesExt

CONSTANTS Callers,         \* threads or processes that use a model
          Versions,        \* schema versions an existing ledger may have
          Bundles,         \* what a repair's context is built from, see below
          PromptLimit,     \* max_prompt_bytes
          FixedBytes,      \* the output contract and the system prompt
          PromptTokens,    \* the estimate for any other prompt
          ActualTokens,    \* what a provider may report instead
          VerifyAttempts,  \* looks at the loaded models after an unload
          MaxCalls, MaxFaults,
          NoUsage          \* the provider reported nothing

Kinds == {"deterministic", "invoke", "proposal", "content", "json", "report"}
Paid == {"claude", "deepseek"}
Prohibited == {"mock"}
Providers == {"local"} \cup Paid \cup Prohibited
Models == {"main", "shadow"}   \* llm.MODEL and the keyless DeepSeek model

\* A context item: its bytes, and whether its name is a secret file's or it is gone.
Item == [size : Nat, secret : BOOLEAN, gone : BOOLEAN]
\* The bytes of the prompt's head, which ends in the failure's description, and the items.
Evidence == [head : Nat, items : Seq(Item)]

ASSUME UseAssumption ==
    /\ Versions \subseteq Nat
    /\ Bundles \subseteq Evidence
    /\ {PromptLimit, FixedBytes, PromptTokens, VerifyAttempts, MaxCalls, MaxFaults} \subseteq Nat
    /\ VerifyAttempts > 0
    /\ ActualTokens \subseteq Nat /\ NoUsage \notin Nat

VARIABLES pc,       \* where each caller is
          call,     \* its call
          loaded,   \* models in the memory of the Ollama server
          leaving,  \* models to be dropped when their last request ends
          holders,  \* calls that used the main model since it was last loaded
          file,     \* the ledger file: its schema version, and whether it has its table
          rows,     \* the rows of the table
          began,    \* calls whose generation began
          answered, \* calls whose engine gave text that was accepted
          returned, \* calls that gave their caller the text
          refused,  \* calls whose request to unload failed
          excused,  \* calls that were interrupted or killed, or that the ledger refused
          calls, faults
vars == <<pc, call, loaded, leaving, holders, file, rows, began, answered, returned,
          refused, excused, calls, faults>>
host == <<loaded, leaving, holders>>
history == <<began, answered, returned, refused, excused>>

-----------------------------------------------------------------------------
(* Policy and arithmetic *)

\* decide
Permitted(provider, explicit) ==
    /\ provider \notin Prohibited
    /\ provider \in Paid => explicit

\* A DeepSeek engine without a key runs a model of the Ollama server.
ModelOf(c) ==
    CASE c.provider = "local"                   -> {"main"}
      [] c.provider = "deepseek" /\ ~c.key      -> {"shadow"}
      [] OTHER                                   -> {}

Ceil4(bytes) == (bytes + 3) \div 4

\* An item that does not fit behind the head is left out, a later one may fit.
SelectedBytes(bundle) ==
    FoldLeft(LAMBDA total, item :
                 IF item.secret \/ item.gone \/ total + item.size > PromptLimit
                 THEN total ELSE total + item.size,
             bundle.head, bundle.items)

\* build_repair_context: neither the head nor what is added behind the items is checked.
PromptBytes(bundle) == SelectedBytes(bundle) + FixedBytes

\* A mutant that books tokens beyond the baseline as negative savings.
SavingsUnclamped(baseline, used) == baseline - used

\* calculate_savings: the tokens avoided.
Savings(baseline, used) == IF used < baseline THEN baseline - used ELSE 0

\* The tokens that a paid provider would have used, and those that were paid for.
Baseline(c) ==
    CASE c.kind = "deterministic"                 -> 0
      [] c.kind = "invoke" /\ c.denied            -> 0
      [] c.kind = "content"                       -> Ceil4(c.context)
      [] OTHER                                    -> PromptTokens
PaidUsed(c) ==
    IF c.provider \in {"local", "none"} \/ (c.kind = "invoke" /\ c.denied) THEN 0
    ELSE IF c.kind = "invoke" /\ c.actual # NoUsage THEN c.actual
    ELSE PromptTokens

Row(c) ==
    [id |-> c.id, kind |-> c.kind, provider |-> c.provider, explicit |-> c.explicit, status |-> c.status,
     validation |-> c.validation, actual |-> c.actual,
     requested |-> c.requested, verified |-> c.verified,
     baseline |-> Baseline(c), used |-> PaidUsed(c),
     avoided |-> Savings(Baseline(c), PaidUsed(c))]

\* _usage_class
UsageClass(r) ==
    IF r.actual # NoUsage THEN "exact"
    ELSE IF r.status = "blocked" /\ r.validation = "not_attempted" THEN "unavailable"
    ELSE "estimated"

Total(rs, field) == FoldLeft(LAMBDA sum, r : sum + r[field], 0, rs)

\* round(part / whole * 100, 2), in hundredths; the half of one may go either way.
Percentages(part, whole) ==
    IF whole = 0 THEN {0}
    ELSE LET down == (10000 * part) \div whole
         IN {p \in {down, down + 1} :
                 2 * (p * whole) \in (20000 * part - whole) .. (20000 * part + whole)}

\* report: the totals of usage-report that a reader compares.
Report(rs) ==
    LET baseline == Total(rs, "baseline")
        used     == Total(rs, "used")
        perRow   == Total(rs, "avoided")
        overall  == Savings(baseline, used)
    IN [avoided  |-> IF perRow # 0 THEN perRow ELSE overall,
        percents |-> Percentages(overall, baseline),
        baseline |-> baseline,
        cleanupFailures |-> Len(SelectSeq(rs, LAMBDA r : r.requested /\ ~r.verified)),
        classes  |-> [k \in {"exact", "estimated", "unavailable"} |->
                         Len(SelectSeq(rs, LAMBDA r : UsageClass(r) = k))]]

-----------------------------------------------------------------------------
(* Calls *)

\* `key`: whether the caller's environment has DEEPSEEK_API_KEY.
NoCall == [kind |-> "none", id |-> 0, provider |-> "none", explicit |-> FALSE,
           key |-> FALSE, denied |-> FALSE, status |-> "failed", validation |-> "none",
           context |-> 0, actual |-> NoUsage, requested |-> FALSE,
           verified |-> FALSE, tries |-> 0]

Init ==
    /\ pc = [c \in Callers |-> "idle"]
    /\ call = [c \in Callers |-> NoCall]
    /\ loaded = {} /\ leaving = {} /\ holders = {}
    /\ file \in {[exists |-> FALSE, version |-> 0, table |-> FALSE]}
              \cup {[exists |-> TRUE, version |-> v, table |-> v # 0] : v \in Versions}
    /\ rows = <<>>
    /\ began = {} /\ answered = {} /\ returned = {} /\ refused = {} /\ excused = {}
    /\ calls = 0 /\ faults = 0

Goto(c, label) == pc' = [pc EXCEPT ![c] = label]
Set(c, new) == call' = [call EXCEPT ![c] = new]

Finish(c) == Goto(c, "idle") /\ Set(c, NoCall)

\* What each kind assumes before its first assignment.
FirstValidation(kind) ==
    CASE kind \in {"proposal", "content"} -> "not_validated"
      [] OTHER                            -> "not_attempted"

\* A call that begins, and its first step.
NewCall(kind, provider, explicit, key) ==
    [NoCall EXCEPT !.kind = kind, !.id = calls + 1,
                   !.provider = IF kind \in {"deterministic", "report"} THEN "none" ELSE provider,
                   !.explicit = explicit, !.key = key,
                   !.status = IF kind = "deterministic" THEN "success" ELSE "failed",
                   !.validation = IF kind = "deterministic" THEN "not_applicable"
                                  ELSE FirstValidation(kind)]
FirstStep(kind) ==
    CASE kind \in {"invoke", "proposal"} -> "decide"
      [] kind = "content"                -> "context"
      [] kind = "json"                   -> "request"
      [] OTHER                           -> "init"

\* A deterministic step is only recorded; a report reads what was recorded, if anything.
Start(c) ==
    /\ pc[c] = "idle" /\ calls < MaxCalls
    /\ \E kind \in Kinds, provider \in Providers, explicit, key \in BOOLEAN :
          /\ key => provider = "deepseek"
          /\ kind \in {"deterministic", "content", "json", "report"} => provider = "local"
          /\ kind \in {"proposal", "content"} => explicit
          /\ kind \in {"deterministic", "json", "report"} => ~explicit
          /\ Set(c, NewCall(kind, provider, explicit, key))
          /\ Goto(c, FirstStep(kind))
    /\ calls' = calls + 1
    /\ UNCHANGED <<host, file, rows, history, faults>>

Quiet == UNCHANGED <<host, file, rows, history, calls, faults>>

Decide(c) ==
    /\ pc[c] = "decide"
    /\ IF Permitted(call[c].provider, call[c].explicit)
       THEN Goto(c, "engine") /\ UNCHANGED call
       ELSE /\ Goto(c, "init")
            /\ Set(c, [call[c] EXCEPT !.denied = TRUE, !.status = "blocked"])
    /\ Quiet

\* A target outside the repository, excluded, secret or unreadable ends the call.
BuildContext(c) ==
    /\ pc[c] = "context"
    /\ \/ \E status \in {"blocked", "failed"} :
             Set(c, [call[c] EXCEPT !.status = status]) /\ Goto(c, "init")
       \/ \E bundle \in Bundles :
             /\ Set(c, [call[c] EXCEPT !.context = PromptBytes(bundle)])
             /\ Goto(c, "engine")
    /\ Quiet

\* The local and the DeepSeek engine always say that they are available; a proposal
\* asks for the key itself.
MayBeMissing(k) ==
    \/ k.provider = "claude"
    \/ k.provider = "deepseek" /\ k.kind = "proposal" /\ ~k.key
MayBePresent(k) == ~(k.provider = "deepseek" /\ k.kind = "proposal" /\ ~k.key)

CreateEngine(c) ==
    /\ pc[c] = "engine"
    /\ \/ /\ MayBePresent(call[c])
          /\ Goto(c, "request") /\ UNCHANGED call
       \/ /\ MayBeMissing(call[c])
          /\ Goto(c, "init")
          /\ Set(c, [call[c] EXCEPT !.status = "blocked"])
    /\ Quiet

\* The server loads the model for the request.
Request(c) ==
    /\ pc[c] = "request"
    /\ began' = began \cup {call[c].id}
    /\ loaded' = loaded \cup ModelOf(call[c])
    /\ holders' = IF "main" \in ModelOf(call[c]) THEN holders \cup {call[c].id} ELSE holders
    /\ Goto(c, "generating")
    /\ UNCHANGED <<call, leaving, file, rows, answered, returned, refused, excused, calls, faults>>

Using(m) == {c \in Callers : pc[c] = "generating" /\ m \in ModelOf(call[c])}

\* A request has ended: the server drops the models that nobody uses any more and that
\* it was asked to unload.
ServerDrops(c) ==
    LET gone == {m \in leaving : Using(m) \subseteq {c}}
    IN /\ loaded' = loaded \ gone /\ leaving' = leaving \ gone
       /\ holders' = IF "main" \in gone THEN {} ELSE holders

\* What the answer of the engine is for each kind of call.
As(status, validation) == [status |-> status, validation |-> validation]
InvokeOutcome(event) == IF event = "text" THEN As("success", "validated") ELSE As("failed", "failed")
ProposalOutcome(event) ==
    CASE event = "text"         -> As("success", "parsed_json")
      [] event = "unusable"     -> As("failed", "failed")
      [] event = "engine_error" -> As("blocked", "not_validated")
      [] event = "error"        -> As("failed", "not_validated")
ContentOutcome(event) ==
    CASE event = "text"     -> As("success", "validated")
      [] event = "unusable" -> As("blocked", "not_validated")
      [] OTHER              -> As("failed", "not_validated")
JsonOutcome(event) ==
    CASE event = "text"         -> As("success", "validated")
      [] event = "engine_error" -> As("blocked", "not_attempted")
      [] OTHER                  -> As("failed", "failed")
Outcome(kind, event) ==
    CASE kind = "invoke"   -> InvokeOutcome(event)
      [] kind = "proposal" -> ProposalOutcome(event)
      [] kind = "content"  -> ContentOutcome(event)
      [] kind = "json"     -> JsonOutcome(event)

\* A mutant that unloads only after an accepted answer.
UnloadsOnSuccess(k) ==
    k.kind \in {"invoke", "content", "proposal"} /\ k.provider = "local" /\ k.status = "success"

\* invoke and content unload what they used; `finish` of a proposal looks only at the
\* provider; the two json calls leave the model loaded.
Unloads(k) == k.kind \in {"invoke", "content", "proposal"} /\ k.provider = "local"

\* A mutant that records only an accepted answer.
AfterSuccess(k) ==
    IF k.status # "success" THEN "idle" ELSE IF Unloads(k) THEN "unload" ELSE "init"

AfterAnswer(k) == IF Unloads(k) THEN "unload" ELSE "init"

\* `invoke` accepts any text; only it reads the usage of an engine, and only the
\* DeepSeek API reports it.
Answer(c) ==
    /\ pc[c] = "generating"
    /\ \E event \in {"text", "unusable", "engine_error", "error"}, actual \in ActualTokens \cup {NoUsage} :
          /\ event = "unusable" => call[c].kind # "invoke"
          /\ event = "error" => call[c].kind # "json"
          /\ actual # NoUsage => event = "text" /\ call[c].kind = "invoke"
                                 /\ call[c].key
          /\ LET new == [call[c] EXCEPT !.status = Outcome(call[c].kind, event).status,
                            !.validation = Outcome(call[c].kind, event).validation,
                            !.actual = actual]
             IN Set(c, new) /\ Goto(c, AfterAnswer(new))
          /\ answered' = IF event = "text" THEN answered \cup {call[c].id} ELSE answered
    /\ ServerDrops(c)
    /\ UNCHANGED <<file, rows, began, returned, refused, excused, calls, faults>>

\* request_and_verify_unload: after a refusal it reports (False, False), and the caller
\* writes its row all the same.
Unload(c) ==
    /\ pc[c] = "unload"
    /\ \/ /\ faults < MaxFaults
          /\ faults' = faults + 1
          /\ Goto(c, "init")
          /\ refused' = refused \cup {call[c].id}
          /\ UNCHANGED <<call, host>>
       \/ /\ IF Using("main") = {}
             THEN loaded' = loaded \ {"main"} /\ holders' = {} /\ UNCHANGED leaving
             ELSE leaving' = leaving \cup {"main"} /\ UNCHANGED <<loaded, holders>>
          /\ Set(c, [call[c] EXCEPT !.requested = TRUE, !.tries = VerifyAttempts])
          /\ Goto(c, "verify")
          /\ UNCHANGED <<faults, refused>>
    /\ UNCHANGED <<file, rows, began, answered, returned, excused, calls>>

\* The server may not be able to say what is loaded.
Verify(c) ==
    /\ pc[c] = "verify"
    /\ \/ /\ "main" \notin loaded
          /\ Set(c, [call[c] EXCEPT !.verified = TRUE, !.tries = 0]) /\ Goto(c, "init")
       \/ Set(c, [call[c] EXCEPT !.tries = 0]) /\ Goto(c, "init")
       \/ /\ "main" \in loaded
          /\ Set(c, [call[c] EXCEPT !.tries = @ - 1])
          /\ Goto(c, IF call[c].tries > 1 THEN "verify" ELSE "init")
    /\ Quiet

-----------------------------------------------------------------------------
(* The ledger: every statement of init_ledger commits by itself *)

\* A mutant that takes a file that exists for one that is initialised.
InitLedgerIfAbsent(c) ==
    /\ pc[c] = "init"
    /\ Goto(c, IF file.exists THEN "use" ELSE "create")
    /\ file' = [file EXCEPT !.exists = TRUE]
    /\ UNCHANGED <<call, host, rows, history, calls, faults>>

\* To connect creates the file.  A report of a repository without one reads nothing.
InitLedger(c) ==
    /\ pc[c] = "init"
    /\ \/ /\ call[c].kind = "report" /\ ~file.exists
          /\ Finish(c) /\ UNCHANGED <<file, excused>>
       \/ /\ call[c].kind = "report" => file.exists
          /\ file' = [file EXCEPT !.exists = TRUE]
          /\ \/ /\ file.version \in {0, 1}
                /\ Goto(c, IF file.version = 0 THEN "create" ELSE "use")
                /\ UNCHANGED <<call, excused>>
             \/ /\ file.version \notin {0, 1}   \* unknown: RuntimeError
                /\ excused' = excused \cup {call[c].id}
                /\ Finish(c)
    /\ UNCHANGED <<host, rows, began, answered, returned, refused, calls, faults>>

\* CREATE TABLE IF NOT EXISTS
CreateTable(c) ==
    /\ pc[c] = "create"
    /\ file' = [file EXCEPT !.table = TRUE]
    /\ Goto(c, "stamp")
    /\ UNCHANGED <<call, host, rows, history, calls, faults>>

StampVersion(c) ==
    /\ pc[c] = "stamp"
    /\ file' = [file EXCEPT !.version = 1]
    /\ Goto(c, "use")
    /\ UNCHANGED <<call, host, rows, history, calls, faults>>

\* The ledger may stay locked or the disk be full; the error replaces the answer.
UseLedger(c) ==
    /\ pc[c] = "use"
    /\ LET k == call[c]
       IN \/ /\ k.kind # "report"
             /\ rows' = Append(rows, Row(k))
             /\ returned' = IF k.status = "success" THEN returned \cup {k.id} ELSE returned
             /\ UNCHANGED <<excused, faults>>
          \/ /\ k.kind = "report"
             /\ UNCHANGED <<rows, returned, excused, faults>>
          \/ /\ faults < MaxFaults
             /\ faults' = faults + 1
             /\ excused' = excused \cup {k.id}
             /\ UNCHANGED <<rows, returned>>
    /\ Finish(c)
    /\ UNCHANGED <<host, file, began, answered, refused, calls>>

-----------------------------------------------------------------------------
(* Faults and the server *)

\* Control-C while the engine works: `finally` of invoke and content still unloads and
\* records, with the status that was set before the request; a proposal and the json
\* calls record nothing.
Interrupt(c) ==
    /\ pc[c] = "generating" /\ faults < MaxFaults
    /\ faults' = faults + 1
    /\ IF call[c].kind \in {"invoke", "content"}
       THEN /\ Goto(c, AfterAnswer(call[c]))
            /\ UNCHANGED <<call, excused>>
       ELSE excused' = excused \cup {call[c].id} /\ Finish(c)
    /\ ServerDrops(c)
    /\ UNCHANGED <<file, rows, began, answered, returned, refused, calls>>

\* The process is killed; the server notices that the request has no reader.
Kill(c) ==
    /\ pc[c] # "idle" /\ faults < MaxFaults
    /\ faults' = faults + 1
    /\ excused' = excused \cup {call[c].id}
    /\ Finish(c)
    /\ ServerDrops(c)
    /\ UNCHANGED <<file, rows, began, answered, returned, refused, calls>>

\* The server drops a model that was not used for some minutes.
KeepAliveEnds ==
    /\ \E m \in loaded :
          /\ Using(m) = {} /\ loaded' = loaded \ {m}
          /\ holders' = IF m = "main" THEN {} ELSE holders
    /\ UNCHANGED <<pc, call, leaving, file, rows, history, calls, faults>>

Step(c) ==
    \/ Decide(c) \/ BuildContext(c) \/ CreateEngine(c) \/ Request(c) \/ Answer(c)
    \/ Unload(c) \/ Verify(c)
    \/ InitLedger(c) \/ CreateTable(c) \/ StampVersion(c) \/ UseLedger(c)

Next ==
    \/ \E c \in Callers : Start(c) \/ Step(c) \/ Interrupt(c) \/ Kill(c)
    \/ KeepAliveEnds

Spec == Init /\ [][Next]_vars

-----------------------------------------------------------------------------
(* Properties *)

Call == [kind : Kinds \cup {"none"}, id : Nat, provider : Providers \cup {"none"},
         explicit : BOOLEAN, key : BOOLEAN, denied : BOOLEAN,
         status : {"success", "failed", "blocked"},
         validation : {"none", "not_attempted", "not_validated", "not_applicable",
                       "validated", "parsed_json", "failed"},
         context : Nat, actual : Nat \cup {NoUsage}, requested : BOOLEAN,
         verified : BOOLEAN, tries : Nat]

\* Types; a call that waits for the ledger carries what its row needs.
TypeOK ==
    /\ pc \in [Callers -> {"idle", "decide", "context", "engine", "request", "generating",
                           "unload", "verify", "init", "create", "stamp", "use"}]
    /\ call \in [Callers -> Call]
    /\ \A c \in Callers : pc[c] = "idle" <=> call[c] = NoCall
    /\ loaded \subseteq Models /\ leaving \subseteq loaded /\ holders \subseteq began
    /\ \A i \in DOMAIN rows : rows[i].id \in 1 .. calls
    /\ answered \subseteq began /\ began \subseteq 1 .. calls

InProgress(id) == \E c \in Callers : pc[c] # "idle" /\ call[c].id = id
RowsOf(id) == {i \in DOMAIN rows : rows[i].id = id}

\* Whatever a generation ends in, error or answer, and whether or not the model could be
\* unloaded, it leaves exactly one row in the ledger before its caller goes on:
\* provider_policy.invoke "records ledger evidence for every outcome".  Only a call that was
\* interrupted or killed, or that the ledger refused, has none.
EveryUseIsRecorded ==
    \A id \in 1 .. calls :
        /\ Cardinality(RowsOf(id)) <= 1
        /\ id \in began \cup returned => RowsOf(id) # {} \/ InProgress(id) \/ id \in excused

\* A row says what happened: success only if the engine gave text that was accepted, a paid
\* provider only if somebody chose it, a clean-up after a generation with the main model and
\* only then, unless the server refused it, and paid tokens only if the generation began or
\* the call is called blocked; a call whose usage is called unavailable spent nothing.
RowsAreTrue ==
    \A i \in DOMAIN rows : LET r == rows[i] IN
        /\ r.status = "success" => r.id \in answered \/ r.provider = "none"
        /\ r.id \in began => Permitted(r.provider, r.explicit)
        /\ r.requested => r.id \in began /\ r.provider = "local"
        /\ r.verified => r.requested
        /\ r.id \in began /\ Unloads(r) => r.requested \/ r.id \in refused
        /\ r.used > 0 => r.id \in began \/ r.status = "blocked"
        /\ UsageClass(r) = "unavailable" => r.used = 0 \/ r.id \notin began

\* The ledger can be believed: no use is missing or there twice, and every row is true.
LedgerIsTrue == EveryUseIsRecorded /\ RowsAreTrue

\* What _usage_class says of its classes: a row without a reported count whose usage is
\* nevertheless not called unavailable "reached a real attempt".  It does not hold of calls
\* that are blocked before any engine is asked (finish).
EstimatesWereAttempted ==
    \A i \in DOMAIN rows :
        rows[i].provider # "none" /\ UsageClass(rows[i]) = "estimated" => rows[i].id \in began

\* When no call is under way, the main model is in memory only on account of a call that
\* used it since it was loaded and was a json call, was cut short, or was refused the unload:
\* what an earlier call left behind excuses nobody once the model is dropped.
FreedAtRest ==
    (\A c \in Callers : pc[c] = "idle") /\ "main" \in loaded =>
        \E id \in holders :
            \/ id \in refused \cup excused
            \/ \E i \in DOMAIN rows : rows[i].id = id /\ rows[i].kind = "json"

\* usage-report never claims more avoided tokens than the baseline, nor a percentage of more
\* than a hundred or one that the avoided tokens it shows do not cover up to the rounding of
\* its second decimal, whatever the providers reported.
SavingsAreSound ==
    LET rep == Report(rows)
    IN /\ rep.avoided \in 0 .. rep.baseline
       /\ \A p \in rep.percents :
             /\ p \in 0 .. 10000
             /\ 2 * (p * rep.baseline) <= 20000 * rep.avoided + rep.baseline

\* A caller that is about to insert or select finds the table, whoever created it and
\* wherever another caller was killed between the statements of init_ledger.
LedgerIsReady ==
    /\ file.version = 1 => file.table
    /\ \A c \in Callers : pc[c] = "use" => file.table
==============================================================================
