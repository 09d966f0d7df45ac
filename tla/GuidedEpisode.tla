---------------------------- MODULE GuidedEpisode ----------------------------
(***************************************************************************)
(* The guided episode workflow (brains/guided_clonecast_episode.py): one    *)
(* EpisodeSession, driven through its stages by run_guided_episode_build.   *)
(*                                                                         *)
(* The workflow reads the session's record once, changes it in memory and  *)
(* saves it after every stage; the work itself is done by CloneCast        *)
(* commands, whose effects stay whatever happens to the process.  A run may *)
(* stop between any two of these steps (a raised EpisodeBuildError, a      *)
(* cancellation, the death of the process) and a later run resumes from    *)
(* the record on disk.  The owner may also decide about the episode with   *)
(* the episode-build --approve and --reject commands.                      *)
(*                                                                         *)
(* Audio (speech job, raw audio, mastered audio) is named by the delivery  *)
(* it was rendered with: the keys of rendering and assembly contain its    *)
(* fingerprint.  The mastering key does not: it is the session and a retry *)
(* count, so after a change of delivery the key of the earlier audio is    *)
(* sent again.  What CloneCast makes of that is a parameter.               *)
(* Titles, checksums, commands, warnings and measurements are left out.    *)
(***************************************************************************)
EXTENDS Integers, FiniteSets

CONSTANTS
    Voices,         \* voice profiles the owner may name
    Presets,        \* delivery presets a studio may have as its default
    MayFail,        \* commands that may fail: "research", "speech", "mastering", "lookup",
                    \* and "save" if a run may stop between a change and its save
    Outside,        \* what others may do: "preset" the studio gets a default preset,
                    \* "voice" the script a voice, "owner" the owner decides during a run
    KeyNames,       \* what a mastering key names in CloneCast: a job of the "audio" sent
                    \* with it, or the one job the "session" sent it for first
    MaxRetry,       \* bound: largest suffix of a mastering idempotency key
    MaxStops        \* bound: runs that end before the listening gate

None == "none"
Default == "default"
Deliveries == Presets \cup {Default}
Items == {"own", "copy", "canon"}

ASSUME NamesAssumption ==
    None \notin Voices /\ None \notin Presets /\ Default \notin Presets
ASSUME FailAssumption ==
    MayFail \subseteq {"research", "speech", "mastering", "lookup", "save"}
ASSUME KeysAssumption == KeyNames \in {"audio", "session"}
ASSUME LimitsAssumption ==
    Outside \subseteq {"preset", "voice", "owner"} /\ MaxRetry \in Nat /\ MaxStops \in Nat

VARIABLES
    disk,       \* the record in the session's JSON file, or NoEpisode
    mem,        \* the run's copy of it
    unsaved,    \* the run has changed its copy and is about to save it
    pc,         \* what the run does next
    cand,       \* research item being accepted (candidate_id)
    again,      \* it is being confirmed for the second time in this run
    cc,         \* CloneCast's own state
    stops

vars == <<disk, mem, unsaved, pc, cand, again, cc, stops>>

(***************************************************************************)
(* The record and its stages.                                              *)
(***************************************************************************)
StageOrder == [
    created |-> 0, target_confirmed |-> 10, clonecast_discovered |-> 20,
    studio_selected |-> 30, duration_selected |-> 40, research_imported |-> 50,
    research_accepted |-> 60, approved_script_preserved |-> 70, inputs_validated |-> 80,
    episode_created |-> 100, approved_script_imported |-> 110,
    speech_text_previewed |-> 115, saved_before_generation |-> 118,
    voice_assigned |-> 120, speech_provider_preflight |-> 130, speech_rendering |-> 140,
    speech_rendered |-> 150, speech_validated |-> 160, episode_assembled |-> 170,
    episode_validated |-> 180, episode_mastered |-> 190, listening_gate |-> 200,
    review_rejected |-> 210, owner_approved |-> 230]
Stages == DOMAIN StageOrder

EpisodeSession == [
    stage : Stages, failed : {None, "research_acceptance", "speech_render"},
    studio : BOOLEAN, duration : BOOLEAN, source : BOOLEAN,
    imported : Items \cup {None}, research : Items \cup {None}, preserved : BOOLEAN,
    voice : Voices \cup {None}, preset : Presets \cup {None},
    episode : BOOLEAN, script : BOOLEAN, delivery : Deliveries \cup {None},
    speechJob : Deliveries \cup {None}, audioJob : Deliveries \cup {None},
    finalAudio : Deliveries \cup {None}, mastered : BOOLEAN, retry : 0..MaxRetry,
    history : SUBSET Deliveries, eligible : BOOLEAN, approvedAudio : Deliveries \cup {None}]

NewEpisode == [
    stage |-> "created", failed |-> None, studio |-> FALSE, duration |-> FALSE,
    source |-> FALSE, imported |-> None, research |-> None, preserved |-> FALSE,
    voice |-> None, preset |-> None, episode |-> FALSE, script |-> FALSE,
    delivery |-> None, speechJob |-> None, audioJob |-> None, finalAudio |-> None,
    mastered |-> FALSE, retry |-> 0, history |-> {}, eligible |-> FALSE,
    approvedAudio |-> None]
NoEpisode == [none |-> TRUE]

\* _advance_stage: the stage never goes back this way.
Advanced(ep, stage) ==
    IF StageOrder[stage] >= StageOrder[ep.stage] THEN [ep EXCEPT !.stage = stage] ELSE ep

\* _normalize_completed_stage_from_saved_state; research is only ever set
\* together with its import status "accepted".
Normalised(ep) == IF ep.research # None THEN Advanced(ep, "research_accepted") ELSE ep

(***************************************************************************)
(* CloneCast, as the workflow uses it: its commands are idempotent under   *)
(* the idempotency key, and it refers duplicate research to the item that  *)
(* was there before.                                                       *)
(***************************************************************************)
ItemStates == {"absent", "processing", "accepted", "duplicate"}
CloneCast == [
    item : [Items -> ItemStates],   \* research items; canon is another session's
    copyOf : {"own", "canon"},      \* what a second import is a duplicate of
    voice : Voices \cup {None},     \* the script's voice assignment
    preset : Presets \cup {None},   \* and its delivery preset
    renders : SUBSET Deliveries,    \* speech-render commands issued
    keys : SUBSET (Deliveries \X (0..MaxRetry)),    \* mastering jobs: audio, suffix of key
    masters : SUBSET Deliveries,    \* audio with a completed mastering job
    default : Presets \cup {None}]  \* the studio's default delivery preset

DuplicateOf(item) == IF item = "copy" THEN cc.copyOf ELSE "canon"

Pcs == {"idle", "confirm", "discover", "studio", "duration", "research", "ingest",
        "accept", "recover", "script", "inputs", "create", "import", "preview",
        "start", "voice", "preflight", "render", "rendering", "validate", "assemble",
        "validateAudio", "masterKey", "master", "gate", "decide"}

TypeOK ==
    /\ disk \in EpisodeSession \cup {NoEpisode}
    /\ mem \in EpisodeSession \cup {NoEpisode}
    /\ unsaved \in BOOLEAN /\ pc \in Pcs
    /\ cand \in Items \cup {None} /\ again \in BOOLEAN
    /\ cc \in CloneCast
    /\ stops \in 0..MaxStops

Init ==
    /\ disk = NoEpisode /\ mem = NoEpisode /\ unsaved = FALSE /\ pc = "idle"
    /\ cand = None /\ again = FALSE
    /\ \E canon \in {"absent", "processing", "accepted"} :
       \E default \in Presets \cup {None} :
          cc = [item |-> [own |-> "absent", copy |-> "absent", canon |-> canon],
                copyOf |-> "own", voice |-> None, preset |-> None, renders |-> {},
                keys |-> {}, masters |-> {},
                default |-> IF "preset" \in Outside THEN None ELSE default]
    /\ stops = 0

(***************************************************************************)
(* The run.  Every step that changes its copy of the record saves it next. *)
(***************************************************************************)
At(place) == pc = place /\ ~unsaved
Sets(ep, place) == mem' = ep /\ unsaved' = TRUE /\ pc' = place
Passes(place) == pc' = place /\ UNCHANGED <<mem, unsaved>>
Ends == pc' = "idle" /\ mem' = NoEpisode /\ unsaved' = FALSE /\ cand' = None /\ again' = FALSE
StopsEarly == stops < MaxStops /\ stops' = stops + 1

\* A stage that only records something: the record afterwards, and what is next.
Stage(place, ep, next) ==
    /\ At(place) /\ Sets(ep, next) /\ UNCHANGED <<disk, cand, again, cc, stops>>

Save ==
    /\ unsaved /\ unsaved' = FALSE /\ disk' = mem
    /\ mem' = IF pc = "idle" THEN NoEpisode ELSE mem
    /\ UNCHANGED <<pc, cand, again, cc, stops>>

\* A new session is saved at once; a resumed one is read from its file.
Begin ==
    /\ At("idle")
    /\ IF disk = NoEpisode THEN Sets(NewEpisode, "confirm")
       ELSE mem' = disk /\ pc' = "confirm" /\ UNCHANGED unsaved
    /\ UNCHANGED <<disk, cand, again, cc, stops>>

Confirm == Stage("confirm", Advanced(Normalised(mem), "target_confirmed"), "discover")

\* An episode whose raw audio exists but is not mastered goes straight to mastering.
DiscoverAssembled ==
    Stage("discover", Advanced(Normalised(mem), "clonecast_discovered"),
          IF mem.audioJob # None THEN "gate" ELSE "studio")

Discover ==
    Stage("discover", Advanced(Normalised(mem), "clonecast_discovered"),
          IF mem.audioJob # None /\ ~mem.mastered THEN "masterKey" ELSE "studio")

ChooseStudio ==
    Stage("studio", Advanced([Normalised(mem) EXCEPT !.studio = TRUE], "studio_selected"),
          "duration")

ChooseDuration ==
    Stage("duration",
          Advanced([Normalised(mem) EXCEPT !.duration = TRUE], "duration_selected"),
          "research")

ProvideResearch ==
    /\ At("research")
    /\ IF mem.research # None /\ mem.failed # "research_acceptance" THEN Passes("script")
       ELSE IF mem.source THEN Passes("ingest")
       ELSE Sets([mem EXCEPT !.source = TRUE], "ingest")
    /\ UNCHANGED <<disk, cand, again, cc, stops>>

FailSession(stage) ==
    /\ Sets([mem EXCEPT !.failed = stage], "idle") /\ cand' = None /\ again' = FALSE

\* research-ingest, unless the record already names an item to accept.  A
\* document CloneCast knows becomes a duplicate of what it is a copy of.
Ingest ==
    /\ At("ingest")
    /\ IF mem.research # None \/ mem.imported # None
       THEN /\ cand' = IF mem.research # None THEN mem.research ELSE mem.imported
            /\ Passes("accept") /\ UNCHANGED cc
       ELSE \E new \in {"own", "copy"}, state \in ItemStates \ {"absent"} :
            /\ new = IF cc.item["own"] = "absent" THEN "own" ELSE "copy"
            /\ new = "copy" => state = "duplicate"
            /\ new = "own" /\ state = "duplicate" => cc.item["canon"] # "absent"
            /\ cc' = [cc EXCEPT !.item[new] = state,
                                !.copyOf = IF new = "copy" /\ cc.item["own"] = "duplicate"
                                           THEN "canon" ELSE @]
            /\ cand' = IF state = "duplicate"
                       THEN IF new = "copy" THEN cc'.copyOf ELSE "canon"
                       ELSE new
            /\ Sets([mem EXCEPT !.imported = new, !.stage = "research_imported"], "accept")
    /\ UNCHANGED <<disk, again, stops>>

Accepts(item) ==
    /\ Sets(Advanced([mem EXCEPT !.research = item,
                                !.failed = IF @ = "research_acceptance" THEN None ELSE @],
                     "research_accepted"),
            IF again THEN "create" ELSE "script")
    /\ cand' = None /\ again' = FALSE

\* research-show, and once more on the item a duplicate refers to.
Shown(item) == IF cc.item[item] = "duplicate" THEN DuplicateOf(item) ELSE item

AcceptsImported ==
    At("accept") /\ Accepts(cand) /\ UNCHANGED <<disk, cc, stops>>

Accept ==
    /\ At("accept")
    /\ IF cc.item[Shown(cand)] = "accepted" THEN Accepts(Shown(cand))
       ELSE cand' = Shown(cand) /\ Passes("recover") /\ UNCHANGED again
    /\ UNCHANGED <<disk, cc, stops>>

\* research-recover may accept the item, find it to be a duplicate, or leave
\* it as it is; what CloneCast shows afterwards counts.
Recover ==
    /\ At("recover")
    /\ \/ /\ cc.item[cand] \in {"processing", "accepted"}
          /\ cc' = [cc EXCEPT !.item[cand] = "accepted"] /\ Accepts(cand)
          /\ UNCHANGED stops
       \/ /\ cand # "canon"
          /\ \/ cc.item[cand] = "duplicate" /\ UNCHANGED cc
             \/ /\ cc.item[cand] = "processing" /\ cc.item["canon"] # "absent"
                /\ cc' = [cc EXCEPT !.item[cand] = "duplicate"]
          /\ IF cc.item[DuplicateOf(cand)] = "accepted" THEN Accepts(DuplicateOf(cand))
             ELSE FailSession("research_acceptance")
          /\ UNCHANGED stops
       \/ /\ cc.item[cand] = "processing" /\ FailSession("research_acceptance")
          /\ StopsEarly /\ UNCHANGED cc
    /\ UNCHANGED disk

\* A research command fails.
ResearchFails ==
    /\ "research" \in MayFail /\ pc \in {"ingest", "accept", "recover"} /\ ~unsaved
    /\ FailSession("research_acceptance") /\ StopsEarly
    /\ UNCHANGED <<disk, cc>>

\* The approved script is copied byte for byte and compared with its checksum.
ProvideScript ==
    /\ At("script")
    /\ IF mem.preserved THEN Passes("inputs")
       ELSE Sets([mem EXCEPT !.preserved = TRUE, !.stage = "approved_script_preserved"], "inputs")
    /\ UNCHANGED <<disk, cand, again, cc, stops>>

InputsNotSaved ==
    /\ \E voice \in Voices :
          /\ At("inputs")
          /\ mem' = [mem EXCEPT !.voice = voice, !.stage = "inputs_validated"]
    /\ pc' = "accept" /\ cand' = mem.research /\ again' = TRUE
    /\ UNCHANGED <<disk, unsaved, cc, stops>>

\* Host, voice, delivery profile, guests and media are saved together.
ChooseInputs ==
    /\ \E voice \in Voices :
          /\ mem # NoEpisode /\ mem.voice # None => voice = mem.voice
          /\ At("inputs")
          /\ Sets([mem EXCEPT !.voice = voice,
                              !.preset = IF @ = None THEN cc.default ELSE @,
                              !.stage = "inputs_validated"], "accept")
    /\ cand' = mem.research /\ again' = TRUE
    /\ UNCHANGED <<disk, cc, stops>>

CreateEpisode ==
    /\ At("create")
    /\ IF mem.episode THEN Passes("import")
       ELSE Sets([mem EXCEPT !.episode = TRUE, !.stage = "episode_created"], "import")
    /\ UNCHANGED <<disk, cand, again, cc, stops>>

ImportScript ==
    /\ At("import")
    /\ IF mem.script THEN Passes("preview")
       ELSE Sets([mem EXCEPT !.script = TRUE, !.stage = "approved_script_imported"], "preview")
    /\ UNCHANGED <<disk, cand, again, cc, stops>>

Preview == Stage("preview", Advanced(mem, "speech_text_previewed"), "start")

\* The app answers the start question itself once generation was attempted.
GenerationAlreadyStarted(ep) ==
    \/ ep.failed = "speech_render"
    \/ /\ ep.stage \notin {"saved_before_generation", "speech_text_previewed"}
       /\ \/ StageOrder[ep.stage] \in 100..200
          \/ ep.episode \/ ep.script \/ ep.speechJob # None \/ ep.audioJob # None

StartGeneration ==
    /\ At("start")
    /\ \/ Passes("voice") /\ UNCHANGED stops
       \/ /\ ~GenerationAlreadyStarted(mem) /\ StopsEarly
          /\ Sets(Advanced(mem, "saved_before_generation"), "idle")
    /\ UNCHANGED <<disk, cand, again, cc>>

(***************************************************************************)
(* _ensure_voice_assigned: a script without a voice gets one; the same     *)
(* voice with another delivery preset makes the audio so far a previous    *)
(* version; another voice is refused.                                      *)
(***************************************************************************)
NotPreserved(ep) == ep
Preserved(ep) ==
    [ep EXCEPT !.history = @ \cup ({ep.speechJob, ep.audioJob, ep.finalAudio} \ {None})]

StillEligible(ep) ==
    [ep EXCEPT !.speechJob = None, !.audioJob = None, !.finalAudio = None]

\* _clear_active_render_outputs: mastering_status stays.
Cleared(ep) ==
    [ep EXCEPT !.speechJob = None, !.audioJob = None, !.finalAudio = None, !.eligible = FALSE]

WithFirstDelivery(ep, preset) ==
    IF ep.delivery # None THEN ep
    ELSE [ep EXCEPT !.delivery = IF preset = None THEN Default ELSE preset]
WithDelivery(ep, preset) ==
    [ep EXCEPT !.delivery = IF preset = None THEN Default ELSE preset]

AssignVoice ==
    /\ At("voice") /\ cc.voice = None
    /\ cc' = [cc EXCEPT !.voice = mem.voice, !.preset = mem.preset]
    /\ Sets([WithDelivery(mem, mem.preset) EXCEPT !.stage = "voice_assigned"], "preflight")
    /\ UNCHANGED <<disk, cand, again, stops>>

ChangeKeepsAudio ==
    /\ At("voice") /\ cc.voice = mem.voice
    /\ mem.preset # None /\ cc.preset # mem.preset
    /\ cc' = [cc EXCEPT !.preset = mem.preset]
    /\ Sets(Advanced(WithDelivery(Preserved(mem), mem.preset), "voice_assigned"), "preflight")
    /\ UNCHANGED <<disk, cand, again, stops>>

ChangeDelivery ==
    /\ At("voice") /\ cc.voice = mem.voice
    /\ mem.preset # None /\ cc.preset # mem.preset
    /\ cc' = [cc EXCEPT !.preset = mem.preset]
    /\ Sets(Advanced(WithDelivery(Cleared(Preserved(mem)), mem.preset), "voice_assigned"),
            "preflight")
    /\ UNCHANGED <<disk, cand, again, stops>>

KeepVoice ==
    /\ At("voice") /\ cc.voice = mem.voice
    /\ mem.preset = None \/ cc.preset = mem.preset
    /\ Sets([WithDelivery(mem, cc.preset) EXCEPT !.stage = "voice_assigned"], "preflight")
    /\ UNCHANGED <<disk, cand, again, cc, stops>>

\* Another voice is assigned: the run ends, and so does every later one.
RefuseVoice ==
    /\ At("voice") /\ cc.voice \notin {None, mem.voice}
    /\ Ends /\ UNCHANGED <<disk, cc, stops>>

(***************************************************************************)
(* Rendering, assembly and mastering.                                      *)
(***************************************************************************)
Preflight == Stage("preflight", [mem EXCEPT !.stage = "speech_provider_preflight"], "render")

BeginRender ==
    Stage("render", [mem EXCEPT !.failed = None, !.stage = "speech_rendering"], "rendering")

\* speech-render ends with a job, or it fails, stalls or is cancelled.
Render ==
    /\ At("rendering")
    /\ cc' = [cc EXCEPT !.renders = @ \cup {mem.delivery}]
    /\ \/ /\ Sets([mem EXCEPT !.speechJob = mem.delivery, !.stage = "speech_rendered"],
                  "validate")
          /\ UNCHANGED <<cand, again, stops>>
       \/ "speech" \in MayFail /\ FailSession("speech_render") /\ StopsEarly
    /\ UNCHANGED disk

ValidateSpeech == Stage("validate", [mem EXCEPT !.stage = "speech_validated"], "assemble")

Assemble ==
    Stage("assemble", [mem EXCEPT !.audioJob = mem.speechJob, !.stage = "episode_assembled"],
          "validateAudio")

ValidateAudio == Stage("validateAudio", [mem EXCEPT !.stage = "episode_validated"], "masterKey")

UsedSuffixes(audio) == {n \in 0..MaxRetry : <<audio, n>> \in cc.keys}
Largest(S) == CHOOSE n \in S : \A m \in S : m <= n

LastRetry(ep) ==
    LET used == UsedSuffixes(ep.audioJob)
    IN  IF used = {} \/ Largest(used) < ep.retry THEN ep.retry ELSE Largest(used)

\* _next_mastering_retry_count: one past every suffix this audio has used.
NextRetry(ep) ==
    LET used == UsedSuffixes(ep.audioJob)
    IN  IF used = {} \/ Largest(used) < ep.retry THEN ep.retry ELSE Largest(used) + 1

\* Without the list of jobs the count in the record is used as it is.
ChooseMasteringKey ==
    /\ At("masterKey")
    /\ \/ /\ NextRetry(mem) \in 0..MaxRetry
          /\ Sets([mem EXCEPT !.retry = NextRetry(mem)], "master")
          /\ UNCHANGED stops
       \/ "lookup" \in MayFail /\ StopsEarly /\ Passes("master")
    /\ UNCHANGED <<disk, cand, again, cc>>

\* Other audio of the session whose job has the key, if that is all a key names.
KeyTakenBy(ep) ==
    {audio \in Deliveries \ {ep.audioJob} : KeyNames = "session" /\ <<audio, ep.retry>> \in cc.keys}

\* What CloneCast answers with is recorded, whatever audio it was made from.
RecordMasteringResult(audio) ==
    /\ Sets([mem EXCEPT !.finalAudio = audio, !.mastered = TRUE, !.stage = "episode_mastered"],
            "gate")
    /\ UNCHANGED <<cand, again, stops>>

\* Audio that is mastered already gets that job; otherwise a used key gets its
\* failed job, and a new key a new job.
Master ==
    /\ At("master")
    /\ LET key == <<mem.audioJob, mem.retry>>
           Used == [cc EXCEPT !.keys = @ \cup {key}] IN
       \/ /\ KeyTakenBy(mem) = {}
          /\ key \notin cc.keys \/ mem.audioJob \in cc.masters
          /\ cc' = [Used EXCEPT !.masters = @ \cup {mem.audioJob}]
          /\ RecordMasteringResult(mem.audioJob)
       \/ /\ KeyTakenBy(mem) = {} /\ mem.audioJob \notin cc.masters
          /\ \/ key \in cc.keys /\ UNCHANGED stops
             \/ key \notin cc.keys /\ "mastering" \in MayFail /\ StopsEarly
          /\ cc' = Used /\ Ends
       \/ /\ \E audio \in KeyTakenBy(mem) \cap cc.masters : RecordMasteringResult(audio)
          /\ UNCHANGED cc
       \/ KeyTakenBy(mem) \ cc.masters # {} /\ Ends /\ UNCHANGED <<cc, stops>>
    /\ UNCHANGED disk

\* The listening gate locks publishing again before it asks.
OpenGate ==
    Stage("gate", [mem EXCEPT !.eligible = FALSE, !.stage = "listening_gate"], "decide")

(***************************************************************************)
(* The owner's decision, in the run or by a command of its own.  Both load *)
(* the record afresh and save it at once.                                  *)
(***************************************************************************)
Approve(ep) ==
    [ep EXCEPT !.eligible = TRUE, !.approvedAudio = ep.finalAudio, !.stage = "owner_approved"]
Reject(ep) == [ep EXCEPT !.eligible = FALSE, !.stage = "review_rejected"]

CanAlwaysApprove(ep) == ep # NoEpisode
CanApprove(ep) == ep # NoEpisode /\ ep.finalAudio # None

\* Saving for later and the refused regeneration of a section change nothing.
Decide ==
    /\ At("decide") /\ Ends
    /\ \/ CanApprove(disk) /\ disk' = Approve(disk)
       \/ disk' = Reject(disk)
       \/ UNCHANGED disk
    /\ UNCHANGED <<cc, stops>>

OwnerDecides ==
    /\ "owner" \in Outside \/ At("idle")
    /\ \/ CanApprove(disk) /\ disk' = Approve(disk)
       \/ disk # NoEpisode /\ disk' = Reject(disk)
    /\ UNCHANGED <<mem, unsaved, pc, cand, again, cc, stops>>

\* The studio gets a default delivery preset.
PresetAppears ==
    /\ "preset" \in Outside /\ At("idle") /\ cc.default = None
    /\ \E preset \in Presets : cc' = [cc EXCEPT !.default = preset]
    /\ UNCHANGED <<disk, mem, unsaved, pc, cand, again, stops>>

\* Somebody assigns the imported script a voice in CloneCast itself.
VoiceAppears ==
    /\ "voice" \in Outside /\ disk # NoEpisode /\ cc.voice = None
    /\ disk.script
    /\ \E voice \in Voices : cc' = [cc EXCEPT !.voice = voice]
    /\ UNCHANGED <<disk, mem, unsaved, pc, cand, again, stops>>

\* The session that imported the canonical item has it accepted.
OtherSessionAccepts ==
    /\ cc.item["canon"] = "processing"
    /\ cc' = [cc EXCEPT !.item["canon"] = "accepted"]
    /\ UNCHANGED <<disk, mem, unsaved, pc, cand, again, stops>>

\* A command, a check or the user ends the run, or the process dies.
Interrupt ==
    /\ pc # "idle" \/ unsaved
    /\ unsaved => "save" \in MayFail
    /\ Ends /\ StopsEarly
    /\ UNCHANGED <<disk, cc>>

RunStep ==
    \/ Save \/ Confirm \/ Discover \/ ChooseStudio \/ ChooseDuration
    \/ ProvideResearch \/ Ingest \/ Accept \/ Recover \/ ResearchFails
    \/ ProvideScript \/ ChooseInputs \/ CreateEpisode \/ ImportScript
    \/ Preview \/ StartGeneration
    \/ AssignVoice \/ ChangeDelivery \/ KeepVoice \/ RefuseVoice
    \/ Preflight \/ BeginRender \/ Render \/ ValidateSpeech
    \/ Assemble \/ ValidateAudio \/ ChooseMasteringKey \/ Master \/ OpenGate \/ Decide

Next ==
    \/ Begin \/ RunStep \/ Interrupt \/ OwnerDecides
    \/ PresetAppears \/ VoiceAppears \/ OtherSessionAccepts

Spec == Init /\ [][Next]_vars

\* An owner who resumes the session as long as it is not finished, and answers.
CooperativeSpec ==
    Spec /\ WF_vars(Begin) /\ WF_vars(RunStep) /\ WF_vars(OtherSessionAccepts)

(***************************************************************************)
(* Properties.                                                             *)
(***************************************************************************)
Saved == disk # NoEpisode

\* "Research is only ever considered usable after ... its lifecycle state is
\* accepted" (README): whatever duplicates and interrupted imports led to it, the
\* item the episode is created from is an accepted one, never a duplicate
\* (_ensure_research_accepted).
AcceptedIsCanonical ==
    /\ Saved /\ disk.research # None => cc.item[disk.research] = "accepted"
    /\ Saved /\ disk.episode => disk.research # None

\* Once CloneCast has assigned a voice to the script, the record on disk asks for
\* that voice, so that no interruption makes a later run stop at the refusal to
\* "overwrite an existing CloneCast voice assignment" (_ensure_voice_assigned).
AssignmentIsOurs == cc.voice # None => Saved /\ disk.voice = cc.voice

\* The stage a resumed run is shown with is backed by what the record holds, although
\* stages are set, advanced and set back by different code (completed_stage).
StageHasEvidence ==
    Saved =>
        /\ StageOrder[disk.stage] \in 100..200 => disk.episode /\ disk.preserved
        /\ StageOrder[disk.stage] \in 110..200 => disk.script
        /\ StageOrder[disk.stage] \in 150..200 => disk.speechJob # None
        /\ StageOrder[disk.stage] \in 170..200 => disk.audioJob = disk.speechJob
        /\ disk.stage \in {"episode_mastered", "listening_gate", "owner_approved"} =>
               disk.finalAudio # None /\ disk.finalAudio \in cc.masters

\* What the owner is asked to listen to was rendered with the delivery the script is
\* assigned now, unless CloneCast answered with earlier audio of the session that was
\* mastered under the same key (_render_speech, _master_existing_episode,
\* _ensure_voice_assigned).
GateIsCurrentDelivery ==
    Saved /\ disk.stage = "listening_gate" =>
        /\ disk.delivery = IF cc.preset = None THEN Default ELSE cc.preset
        /\ disk.audioJob = disk.delivery
        /\ \/ disk.finalAudio = disk.delivery
           \/ KeyNames = "session" /\ <<disk.finalAudio, disk.retry>> \in cc.keys

\* "Publishing eligible: Owner listened and approved the completed episode": the
\* final audio of an eligible session is the one that was approved.
EligibleAudioWasApproved ==
    Saved /\ disk.eligible => disk.finalAudio = disk.approvedAudio /\ disk.finalAudio # None

\* No run forgets what was there: audio replaced by another version is remembered
\* (_preserve_active_audio_version), and "AutoCorp will not overwrite an existing
\* CloneCast voice assignment silently", whoever made it (_ensure_voice_assigned).
NothingIsLost ==
    [][/\ Saved /\ disk.finalAudio # None /\ disk'.finalAudio # disk.finalAudio =>
               disk.finalAudio \in disk'.history
       /\ cc.voice # None => cc'.voice = cc.voice]_<<disk, cc>>

\* However often it is interrupted, a session that is resumed gets its audio: no stop
\* leaves it in a state from which a run cannot finish ("a run that fails partway
\* through must still be resumable", _resolve_input), and no mastering retry is sent
\* for ever with the key of an attempt that failed, which only returns the failure
\* (_next_mastering_retry_count), although one list of jobs may be unreadable.
EveryEpisodeFinishes == <>(Saved /\ disk.finalAudio # None)

(***************************************************************************)
(* The session seen by whoever may publish.                                *)
(***************************************************************************)
Gate == INSTANCE PublishingGate
    WITH NoAudio <- None,
         audio <- IF Saved THEN disk.finalAudio ELSE None,
         approved <- IF Saved THEN disk.approvedAudio ELSE None,
         eligible <- Saved /\ disk.eligible

\* Through re-runs, delivery changes and decisions, the record locks publishing
\* whenever its audio is replaced, and unlocks it only for audio that is there.
ImplementsPublishingGate == Gate!Spec
=============================================================================
