------------------------ MODULE GuidedEpisode_proofs ------------------------
(***************************************************************************)
(* Proofs about the guided episode workflow, for any number of voices,     *)
(* delivery presets, failures and interruptions.  The inductive invariant  *)
(* Inv says of every place the run can be at what its copy of the record   *)
(* must already hold there; each step is an instance of one of a few       *)
(* lemmas, by what it changes.                                             *)
(***************************************************************************)
EXTENDS GuidedEpisode, TLAPS

(***************************************************************************)
(* The record.                                                             *)
(***************************************************************************)
\* No record is not a record.
LEMMA NoEpisodeIsNone == NoEpisode \notin EpisodeSession
  BY DEF NoEpisode, EpisodeSession

\* The names of the stages.
LEMMA StageNames ==
    /\ "created" \in Stages /\ "target_confirmed" \in Stages
    /\ "clonecast_discovered" \in Stages /\ "studio_selected" \in Stages
    /\ "duration_selected" \in Stages /\ "research_imported" \in Stages
    /\ "research_accepted" \in Stages /\ "approved_script_preserved" \in Stages
    /\ "inputs_validated" \in Stages /\ "episode_created" \in Stages
    /\ "approved_script_imported" \in Stages /\ "speech_text_previewed" \in Stages
    /\ "saved_before_generation" \in Stages /\ "voice_assigned" \in Stages
    /\ "speech_provider_preflight" \in Stages /\ "speech_rendering" \in Stages
    /\ "speech_rendered" \in Stages /\ "speech_validated" \in Stages
    /\ "episode_assembled" \in Stages /\ "episode_validated" \in Stages
    /\ "episode_mastered" \in Stages /\ "listening_gate" \in Stages
    /\ "review_rejected" \in Stages /\ "owner_approved" \in Stages
  BY DEF Stages, StageOrder

\* A new session starts with a record (EpisodeSession).
LEMMA NewEpisodeOK == NewEpisode \in EpisodeSession
<1>1. 0 \in 0..MaxRetry
  BY LimitsAssumption
<1>. QED BY <1>1, StageNames DEF NewEpisode, EpisodeSession

\* _advance_stage changes nothing but the stage.
LEMMA AdvancedOK == ASSUME NEW ep \in EpisodeSession, NEW stage \in Stages
                    PROVE  /\ Advanced(ep, stage) \in EpisodeSession
                           /\ Advanced(ep, stage).voice = ep.voice
                           /\ Advanced(ep, stage).research = ep.research
                           /\ Advanced(ep, stage).episode = ep.episode
                           /\ Advanced(ep, stage).delivery = ep.delivery
                           /\ Advanced(ep, stage).audioJob = ep.audioJob
  BY DEF Advanced, EpisodeSession

\* _normalize_completed_stage_from_saved_state changes nothing but the stage.
LEMMA NormalisedOK == ASSUME NEW ep \in EpisodeSession
                    PROVE  /\ Normalised(ep) \in EpisodeSession
                           /\ Normalised(ep).voice = ep.voice
                           /\ Normalised(ep).research = ep.research
                           /\ Normalised(ep).episode = ep.episode
                           /\ Normalised(ep).audioJob = ep.audioJob
  BY AdvancedOK, StageNames DEF Normalised

(***************************************************************************)
(* The inductive invariant.                                                *)
(***************************************************************************)
\* A run has a copy of the record, and has saved one before it goes on.
RunInv ==
    /\ pc # "idle" \/ unsaved => mem # NoEpisode
    /\ mem # NoEpisode /\ ~unsaved => disk # NoEpisode

\* Research named by a record is accepted, and an episode has research.
RecordInv(ep) ==
    ep # NoEpisode =>
        /\ ep.research # None => cc.item[ep.research] = "accepted"
        /\ ep.episode => ep.research # None

\* Both records keep to that, and so does what the run has in hand.
ResearchInv ==
    /\ RecordInv(disk) /\ RecordInv(mem)
    /\ pc \in {"accept", "recover"} => cand \in Items
    /\ pc \in {"script", "inputs", "create"} => mem.research # None
    /\ cc.item["copy"] \in {"absent", "duplicate"}

\* What a step works on is there when the run comes to it.
HasAudio(ep, place) ==
    /\ place \in {"preflight", "render", "rendering"} => ep.delivery # None
    /\ place \in {"validate", "assemble"} => ep.speechJob # None
    /\ place \in {"validateAudio", "masterKey", "master"} => ep.audioJob # None

AudioInv == HasAudio(mem, pc)

Inv == TypeOK /\ RunInv /\ ResearchInv /\ AudioInv

\* The inductive invariant holds initially.
LEMMA InitInv == Init => Inv
<1>1. ASSUME Init PROVE TypeOK
  <2>1. PICK canon \in {"absent", "processing", "accepted"}, default \in Presets \cup {None} :
           cc = [item |-> [own |-> "absent", copy |-> "absent", canon |-> canon],
                 copyOf |-> "own", voice |-> None, preset |-> None, renders |-> {},
                 keys |-> {}, masters |-> {},
                 default |-> IF "preset" \in Outside THEN None ELSE default]
    BY <1>1 DEF Init
  <2>2. cc.item \in [Items -> ItemStates]
    BY <2>1 DEF Items, ItemStates
  <2>3. cc \in CloneCast
    BY <2>1, <2>2 DEF CloneCast
  <2>4. stops \in 0..MaxStops
    BY <1>1, LimitsAssumption DEF Init
  <2>. QED BY <1>1, <2>3, <2>4, Zenon DEF Init, TypeOK, Pcs
<1>2. ASSUME Init PROVE RunInv /\ ResearchInv /\ AudioInv
  BY <1>2 DEF Init, RunInv, ResearchInv, RecordInv, AudioInv, HasAudio, Items
<1>. QED BY <1>1, <1>2 DEF Inv

\* What the steps make of a record is a record.
LEMMA RecordSteps ==
    ASSUME NEW ep \in EpisodeSession, NEW s \in Stages
    PROVE  /\ [ep EXCEPT !.stage = s] \in EpisodeSession
           /\ [ep EXCEPT !.source = TRUE] \in EpisodeSession
           /\ [ep EXCEPT !.preserved = TRUE, !.stage = s] \in EpisodeSession
           /\ [ep EXCEPT !.script = TRUE, !.stage = s] \in EpisodeSession
           /\ [ep EXCEPT !.episode = TRUE, !.stage = s] \in EpisodeSession
           /\ [ep EXCEPT !.failed = None, !.stage = s] \in EpisodeSession
           /\ [ep EXCEPT !.eligible = FALSE, !.stage = s] \in EpisodeSession
           /\ [ep EXCEPT !.audioJob = ep.speechJob, !.stage = s] \in EpisodeSession
           /\ [ep EXCEPT !.speechJob = ep.delivery, !.stage = s] \in EpisodeSession
<1>1. [ep EXCEPT !.stage = s] \in EpisodeSession
  BY DEF EpisodeSession
<1>2. [ep EXCEPT !.source = TRUE] \in EpisodeSession
  BY DEF EpisodeSession
<1>3. [ep EXCEPT !.preserved = TRUE, !.stage = s] \in EpisodeSession
  BY DEF EpisodeSession
<1>4. [ep EXCEPT !.script = TRUE, !.stage = s] \in EpisodeSession
  BY DEF EpisodeSession
<1>5. [ep EXCEPT !.episode = TRUE, !.stage = s] \in EpisodeSession
  BY DEF EpisodeSession
<1>6. [ep EXCEPT !.failed = None, !.stage = s] \in EpisodeSession
  BY DEF EpisodeSession
<1>7. [ep EXCEPT !.eligible = FALSE, !.stage = s] \in EpisodeSession
  BY DEF EpisodeSession
<1>8. [ep EXCEPT !.audioJob = ep.speechJob, !.stage = s] \in EpisodeSession
  BY DEF EpisodeSession
<1>9. [ep EXCEPT !.speechJob = ep.delivery, !.stage = s] \in EpisodeSession
  BY DEF EpisodeSession
<1>. QED BY <1>1, <1>2, <1>3, <1>4, <1>5, <1>6, <1>7, <1>8, <1>9

\* Choosing a studio and a duration.
LEMMA ChoiceOK ==
    ASSUME NEW ep \in EpisodeSession
    PROVE  LET studio == [ep EXCEPT !.studio = TRUE]
               duration == [ep EXCEPT !.duration = TRUE]
           IN  /\ studio \in EpisodeSession /\ studio.voice = ep.voice
               /\ studio.research = ep.research /\ studio.episode = ep.episode
               /\ duration \in EpisodeSession /\ duration.voice = ep.voice
               /\ duration.research = ep.research /\ duration.episode = ep.episode
<1>1. [ep EXCEPT !.studio = TRUE] \in EpisodeSession
  BY DEF EpisodeSession
<1>2. [ep EXCEPT !.duration = TRUE] \in EpisodeSession
  BY DEF EpisodeSession
<1>. QED BY <1>1, <1>2 DEF EpisodeSession

\* Recording what was imported, and what was accepted.
LEMMA ImportedOK ==
    ASSUME NEW ep \in EpisodeSession, NEW s \in Stages, NEW item \in {"own", "copy"}
    PROVE  [ep EXCEPT !.imported = item, !.stage = s] \in EpisodeSession
  BY DEF EpisodeSession, Items

\* The accepted item ends a failed acceptance, and no other failure.
LEMMA AcceptedOK ==
    ASSUME NEW ep \in EpisodeSession, NEW item \in Items
    PROVE  [ep EXCEPT !.research = item,
                      !.failed = IF @ = "research_acceptance" THEN None ELSE @]
               \in EpisodeSession
<1>. DEFINE failed == IF ep.failed = "research_acceptance" THEN None ELSE ep.failed
<1>1. failed \in {None, "research_acceptance", "speech_render"}
  BY DEF EpisodeSession
<1>. HIDE DEF failed
<1>2. [ep EXCEPT !.research = item, !.failed = failed] \in EpisodeSession
  BY <1>1 DEF EpisodeSession
<1>. QED BY <1>2 DEF failed, EpisodeSession

\* Saving the inputs of the episode.
LEMMA InputsOK ==
    ASSUME NEW ep \in EpisodeSession, NEW s \in Stages, NEW voice \in Voices,
           NEW default \in Presets \cup {None}
    PROVE  [ep EXCEPT !.voice = voice, !.preset = IF @ = None THEN default ELSE @,
                      !.stage = s] \in EpisodeSession
<1>. DEFINE preset == IF ep.preset = None THEN default ELSE ep.preset
            new == [ep EXCEPT !.voice = voice, !.preset = preset]
<1>1. preset \in Presets \cup {None}
  BY DEF EpisodeSession
<1>. HIDE DEF preset
<1>2. new \in EpisodeSession
  BY <1>1 DEF EpisodeSession
<1>3. [ep EXCEPT !.voice = voice, !.preset = preset, !.stage = s] = [new EXCEPT !.stage = s]
  BY DEF EpisodeSession
<1>. HIDE DEF new
<1>4. [new EXCEPT !.stage = s] \in EpisodeSession
  BY <1>2 DEF EpisodeSession
<1>5. [ep EXCEPT !.voice = voice, !.preset = preset, !.stage = s] \in EpisodeSession
  BY <1>3, <1>4
<1>. QED BY <1>5 DEF preset, EpisodeSession

\* Recording the mastered audio.
LEMMA MasteredOK ==
    ASSUME NEW ep \in EpisodeSession, NEW s \in Stages, NEW audio \in Deliveries
    PROVE  [ep EXCEPT !.finalAudio = audio, !.mastered = TRUE, !.stage = s]
               \in EpisodeSession
<1>. DEFINE new == [ep EXCEPT !.finalAudio = audio, !.mastered = TRUE]
<1>2. new \in EpisodeSession
  BY DEF EpisodeSession
<1>3. [ep EXCEPT !.finalAudio = audio, !.mastered = TRUE, !.stage = s] = [new EXCEPT !.stage = s]
  BY DEF EpisodeSession
<1>. HIDE DEF new
<1>4. [new EXCEPT !.stage = s] \in EpisodeSession
  BY <1>2 DEF EpisodeSession
<1>. QED BY <1>3, <1>4

\* The delivery preset of a record.
LEMMA PresetIsTyped ==
    \A ep \in EpisodeSession : ep.preset \in Presets \cup {None}
  BY DEF EpisodeSession

\* Assigning a delivery, keeping the audio so far as a previous version and clearing it
\* leave the research item and the episode alone.
LEMMA DeliveryOK ==
    ASSUME NEW ep \in EpisodeSession, NEW preset \in Presets \cup {None}
    PROVE  /\ WithDelivery(ep, preset) \in EpisodeSession
           /\ WithDelivery(ep, preset).research = ep.research
           /\ WithDelivery(ep, preset).episode = ep.episode
           /\ WithDelivery(ep, preset).voice = ep.voice
           /\ WithDelivery(ep, preset).delivery # None
           /\ \A s \in Stages :
                 LET new == [WithDelivery(ep, preset) EXCEPT !.stage = s]
                 IN  /\ new \in EpisodeSession
                     /\ new.research = ep.research /\ new.episode = ep.episode
                     /\ new.voice = ep.voice /\ new.delivery # None
<1>. DEFINE new == WithDelivery(ep, preset)
<1>1. (IF preset = None THEN Default ELSE preset) \in Deliveries \ {None}
  BY NamesAssumption DEF Deliveries, Default, None
<1>2. /\ new \in EpisodeSession
      /\ new.research = ep.research /\ new.episode = ep.episode /\ new.voice = ep.voice
      /\ new.delivery # None
  BY <1>1 DEF WithDelivery, EpisodeSession
<1>. HIDE DEF new
<1>3. ASSUME NEW s \in Stages
      PROVE  /\ [new EXCEPT !.stage = s] \in EpisodeSession
             /\ [new EXCEPT !.stage = s].research = ep.research
             /\ [new EXCEPT !.stage = s].episode = ep.episode
             /\ [new EXCEPT !.stage = s].voice = ep.voice
             /\ [new EXCEPT !.stage = s].delivery # None
  <2>1. [new EXCEPT !.stage = s] \in EpisodeSession
    BY <1>2, RecordSteps
  <2>. QED BY <1>2, <2>1 DEF EpisodeSession
<1>. QED BY <1>2, <1>3 DEF new

\* _preserve_active_audio_version only adds to the history.
LEMMA PreservedOK ==
    ASSUME NEW ep \in EpisodeSession
    PROVE  /\ Preserved(ep) \in EpisodeSession
           /\ Preserved(ep).research = ep.research /\ Preserved(ep).episode = ep.episode
           /\ Preserved(ep).voice = ep.voice
<1>1. ep.history \cup ({ep.speechJob, ep.audioJob, ep.finalAudio} \ {None}) \in SUBSET Deliveries
  BY DEF EpisodeSession
<1>. QED BY <1>1 DEF Preserved, EpisodeSession

\* _clear_active_render_outputs leaves research, episode and voice alone.
LEMMA ClearedOK ==
    ASSUME NEW ep \in EpisodeSession
    PROVE  /\ Cleared(ep) \in EpisodeSession
           /\ Cleared(ep).research = ep.research /\ Cleared(ep).episode = ep.episode
           /\ Cleared(ep).voice = ep.voice
<1>1. Cleared(ep) \in EpisodeSession
  BY DEF Cleared, EpisodeSession
<1>. QED BY <1>1 DEF Cleared, EpisodeSession

\* The owner's decision about a record.
LEMMA DecisionOK ==
    ASSUME NEW ep \in EpisodeSession
    PROVE  /\ Approve(ep) \in EpisodeSession
           /\ Approve(ep).research = ep.research /\ Approve(ep).episode = ep.episode
           /\ Approve(ep).voice = ep.voice
           /\ Reject(ep) \in EpisodeSession
           /\ Reject(ep).research = ep.research /\ Reject(ep).episode = ep.episode
           /\ Reject(ep).voice = ep.voice
<1>1. Approve(ep) \in EpisodeSession
  BY StageNames DEF Approve, EpisodeSession
<1>2. Reject(ep) \in EpisodeSession
  BY StageNames, RecordSteps DEF Reject
<1>. QED BY <1>1, <1>2 DEF Approve, Reject, EpisodeSession

(***************************************************************************)
(* Steps, by what they change.                                             *)
(***************************************************************************)
\* Whatever CloneCast has accepted stays accepted, and a second import is never
\* anything but a duplicate.
KeepsAccepted ==
    /\ cc' \in CloneCast
    /\ \A item \in Items : cc.item[item] = "accepted" => cc'.item[item] = "accepted"
    /\ cc'.item["copy"] \in {"absent", "duplicate"}

\* What is left has its type.
Bounded == cand' \in Items \cup {None} /\ again' \in BOOLEAN /\ stops' \in 0..MaxStops

\* A step that changes the run's copy of the record, which is saved next.
LEMMA MemStep ==
    ASSUME Inv, ~unsaved, NEW ep \in EpisodeSession, NEW next \in Pcs,
           Sets(ep, next), disk' = disk, KeepsAccepted, Bounded,
           ep.research # None => cc'.item[ep.research] = "accepted",
           ep.episode => ep.research # None,
           HasAudio(ep, next),
           next \in {"accept", "recover"} => cand' \in Items,
           next \in {"script", "inputs", "create"} => ep.research # None
    PROVE  Inv'
<1>1. TypeOK'
  BY DEF Inv, TypeOK, Sets, KeepsAccepted, Bounded
<1>2. RunInv'
  BY NoEpisodeIsNone DEF Sets, RunInv
<1>3. RecordInv(disk)'
  <2>1. disk # NoEpisode /\ disk.research # None => disk.research \in Items
    BY DEF Inv, TypeOK, EpisodeSession
  <2>. QED BY <2>1 DEF Inv, ResearchInv, RecordInv, KeepsAccepted
<1>4. RecordInv(mem)'
  BY DEF RecordInv, Sets
<1>5. ResearchInv'
  BY <1>3, <1>4 DEF ResearchInv, Sets, KeepsAccepted
<1>6. AudioInv'
  BY DEF AudioInv, HasAudio, Sets
<1>. QED BY <1>1, <1>2, <1>5, <1>6 DEF Inv

\* The same, when the step has to do with neither research nor the episode.
LEMMA StageStep ==
    ASSUME Inv, ~unsaved, mem # NoEpisode, NEW ep \in EpisodeSession, NEW next \in Pcs,
           Sets(ep, next), disk' = disk, cc' \in CloneCast, cc'.item = cc.item, Bounded,
           ep.research = mem.research, ep.episode = mem.episode,
           HasAudio(ep, next), next \notin {"accept", "recover"},
           next \in {"script", "inputs", "create"} => mem.research # None
    PROVE  Inv'
<1>1. KeepsAccepted
  BY DEF KeepsAccepted, Inv, ResearchInv
<1>2. ep.research # None => cc'.item[ep.research] = "accepted"
  BY DEF Inv, ResearchInv, RecordInv
<1>3. ep.episode => ep.research # None
  BY DEF Inv, ResearchInv, RecordInv
<1>. QED BY <1>1, <1>2, <1>3, MemStep

\* A step that only goes on to the next place.
LEMMA PassStep ==
    ASSUME Inv, mem # NoEpisode, NEW next \in Pcs, Passes(next), UNCHANGED <<disk, cc>>,
           Bounded, HasAudio(mem, next),
           next \in {"accept", "recover"} => cand' \in Items,
           next \in {"script", "inputs", "create"} => mem.research # None
    PROVE  Inv'
<1>1. TypeOK'
  BY DEF Inv, TypeOK, Passes, Bounded
<1>2. RunInv'
  BY DEF Inv, Passes, RunInv
<1>3. ResearchInv'
  BY DEF Inv, ResearchInv, RecordInv, Passes
<1>4. AudioInv'
  BY DEF AudioInv, HasAudio, Passes
<1>. QED BY <1>1, <1>2, <1>3, <1>4 DEF Inv

\* The end of a run, which leaves the research and the episode of the record alone.
LEMMA EndStep ==
    ASSUME Inv, Ends, disk' \in EpisodeSession \cup {NoEpisode}, RecordInv(disk'),
           cc' \in CloneCast, cc'.item = cc.item, stops' \in 0..MaxStops
    PROVE  Inv'
<1>1. TypeOK'
  BY DEF Inv, TypeOK, Ends, Pcs
<1>2. RunInv'
  BY DEF Ends, RunInv
<1>3. ResearchInv'
  BY DEF Inv, ResearchInv, RecordInv, Ends
<1>4. AudioInv'
  BY DEF AudioInv, HasAudio, Ends
<1>. QED BY <1>1, <1>2, <1>3, <1>4 DEF Inv

\* A step of CloneCast itself.
LEMMA OutsideStep ==
    ASSUME Inv, UNCHANGED <<disk, mem, unsaved, pc, cand, again, stops>>, KeepsAccepted
    PROVE  Inv'
<1>1. TypeOK'
  BY DEF Inv, TypeOK, KeepsAccepted
<1>2. RunInv'
  BY DEF Inv, RunInv
<1>3. /\ disk # NoEpisode /\ disk.research # None => disk.research \in Items
      /\ mem # NoEpisode /\ mem.research # None => mem.research \in Items
  BY DEF Inv, TypeOK, EpisodeSession
<1>4. ResearchInv'
  BY <1>3 DEF Inv, ResearchInv, RecordInv, KeepsAccepted
<1>5. AudioInv'
  BY DEF Inv, AudioInv, HasAudio
<1>. QED BY <1>1, <1>2, <1>4, <1>5 DEF Inv

\* The run has confirmed that CloneCast accepted the item, and records it.
LEMMA AcceptsStep ==
    ASSUME Inv, mem # NoEpisode, ~unsaved, NEW item \in Items, Accepts(item),
           disk' = disk, stops' \in 0..MaxStops, KeepsAccepted, cc'.item[item] = "accepted"
    PROVE  Inv'
<1>. DEFINE set == [mem EXCEPT !.research = item,
                               !.failed = IF @ = "research_acceptance" THEN None ELSE @]
            ep == Advanced(set, "research_accepted")
            next == IF again THEN "create" ELSE "script"
<1>1. Sets(ep, next) /\ cand' = None /\ again' = FALSE
  BY DEF Accepts
<1>2. mem \in EpisodeSession
  BY DEF Inv, TypeOK
<1>3. set \in EpisodeSession
  BY <1>2, AcceptedOK
<1>4. set.research = item
  BY <1>2 DEF EpisodeSession
<1>. HIDE DEF set
<1>5. ep \in EpisodeSession /\ ep.research = item
  BY <1>3, <1>4, AdvancedOK, StageNames
<1>6. item # None
  BY DEF Items, None
<1>7. Bounded
  BY <1>1 DEF Bounded
<1>8. next \in Pcs /\ next \notin {"accept", "recover"}
  BY DEF Pcs
<1>9. HasAudio(ep, next)
  BY DEF HasAudio
<1>. HIDE DEF ep, next
<1>. QED BY <1>1, <1>5, <1>6, <1>7, <1>8, <1>9, MemStep

\* The run records the failure of a stage.
LEMMA FailStep ==
    ASSUME Inv, mem # NoEpisode, ~unsaved,
           NEW stage \in {"research_acceptance", "speech_render"}, FailSession(stage),
           disk' = disk, stops' \in 0..MaxStops, KeepsAccepted
    PROVE  Inv'
<1>. DEFINE ep == [mem EXCEPT !.failed = stage]
<1>1. Sets(ep, "idle") /\ cand' = None /\ again' = FALSE
  BY DEF FailSession
<1>2. mem \in EpisodeSession
  BY DEF Inv, TypeOK
<1>3. ep \in EpisodeSession /\ ep.research = mem.research /\ ep.episode = mem.episode
  BY <1>2 DEF EpisodeSession
<1>. HIDE DEF ep
<1>4. Bounded
  BY <1>1 DEF Bounded
<1>5. ep.research # None => cc'.item[ep.research] = "accepted"
  <2>1. mem.research # None => mem.research \in Items
    BY <1>2 DEF EpisodeSession
  <2>. QED BY <1>3, <2>1 DEF Inv, ResearchInv, RecordInv, KeepsAccepted
<1>6. ep.episode => ep.research # None
  BY <1>3 DEF Inv, ResearchInv, RecordInv
<1>. QED BY <1>1, <1>3, <1>4, <1>5, <1>6, MemStep DEF Pcs, HasAudio

(***************************************************************************)
(* Every step is one of these.                                             *)
(***************************************************************************)
\* Every step of a run, of the owner, of CloneCast and of an interruption preserves the
\* inductive invariant.
THEOREM StepInv == Inv /\ [Next]_vars => Inv'
<1>. SUFFICES ASSUME Inv, [Next]_vars PROVE Inv'
  OBVIOUS
<1>a. mem # NoEpisode => mem \in EpisodeSession
  BY DEF Inv, TypeOK
<1>d. disk # NoEpisode => disk \in EpisodeSession
  BY DEF Inv, TypeOK
<1>t. /\ cc \in CloneCast /\ cand \in Items \cup {None} /\ again \in BOOLEAN
      /\ stops \in 0..MaxStops
  BY DEF Inv, TypeOK
<1>s. StopsEarly => stops' \in 0..MaxStops
  BY <1>t, LimitsAssumption DEF StopsEarly
<1>e. disk \in EpisodeSession \cup {NoEpisode}
  BY DEF Inv, TypeOK
<1>b. UNCHANGED <<cand, again, stops>> => Bounded
  BY <1>t DEF Bounded
<1>c. cc' = cc => cc' \in CloneCast /\ cc'.item = cc.item
  BY <1>t
<1>r. ASSUME NEW place \in Pcs \ {"idle"}, At(place) PROVE mem # NoEpisode /\ ~unsaved
  BY <1>r DEF Inv, RunInv, At
<1>1. CASE Save
  <2>1. mem # NoEpisode
    BY <1>1 DEF Inv, RunInv, Save
  <2>2. TypeOK'
    BY <1>1, <1>a, <2>1 DEF Inv, TypeOK, Save
  <2>3. RunInv'
    BY <1>1, <2>1 DEF RunInv, Save
  <2>4. ResearchInv'
    BY <1>1 DEF Inv, ResearchInv, RecordInv, Save
  <2>5. AudioInv'
    BY <1>1 DEF Inv, AudioInv, HasAudio, Save
  <2>. QED BY <2>2, <2>3, <2>4, <2>5 DEF Inv
<1>2. CASE Begin
  <2>1. CASE disk = NoEpisode
    <3>1. /\ mem' = NewEpisode /\ unsaved' /\ pc' = "confirm"
          /\ UNCHANGED <<disk, cand, again, cc, stops>>
      BY <1>2, <2>1 DEF Begin, Sets
    <3>2. NewEpisode.research = None /\ NewEpisode.episode = FALSE
      BY DEF NewEpisode
    <3>3. TypeOK'
      BY <3>1, NewEpisodeOK DEF Inv, TypeOK, Pcs
    <3>4. RunInv' /\ ResearchInv' /\ AudioInv'
      BY <3>1, <3>2, NewEpisodeOK, NoEpisodeIsNone
         DEF Inv, RunInv, ResearchInv, RecordInv, AudioInv, HasAudio
    <3>. QED BY <3>3, <3>4 DEF Inv
  <2>2. CASE disk # NoEpisode
    <3>1. /\ ~unsaved /\ mem' = disk /\ pc' = "confirm"
          /\ UNCHANGED <<disk, unsaved, cand, again, cc, stops>>
      BY <1>2, <2>2 DEF Begin, At
    <3>2. TypeOK'
      BY <3>1 DEF Inv, TypeOK, Pcs
    <3>3. RunInv' /\ ResearchInv' /\ AudioInv'
      BY <3>1, <2>2 DEF Inv, RunInv, ResearchInv, RecordInv, AudioInv, HasAudio
    <3>. QED BY <3>2, <3>3 DEF Inv
  <2>. QED BY <2>1, <2>2
<1>3. CASE Confirm
  <2>. DEFINE ep == Advanced(Normalised(mem), "target_confirmed")
  <2>1. At("confirm") /\ Sets(ep, "discover") /\ UNCHANGED <<disk, cand, again, cc, stops>>
    BY <1>3 DEF Confirm, Stage
  <2>2. mem # NoEpisode /\ ~unsaved
    BY <2>1, <1>r DEF Pcs
  <2>3. ep \in EpisodeSession /\ ep.research = mem.research /\ ep.episode = mem.episode
    BY <2>2, <1>a, NormalisedOK, AdvancedOK, StageNames
  <2>. HIDE DEF ep
  <2>. QED BY <2>1, <2>2, <2>3, <1>b, <1>c, StageStep DEF Pcs, HasAudio
<1>4. CASE Discover
  <2>. DEFINE ep == Advanced(Normalised(mem), "clonecast_discovered")
              next == IF mem.audioJob # None /\ ~mem.mastered THEN "masterKey" ELSE "studio"
  <2>1. At("discover") /\ Sets(ep, next) /\ UNCHANGED <<disk, cand, again, cc, stops>>
    BY <1>4 DEF Discover, Stage
  <2>2. mem # NoEpisode /\ ~unsaved
    BY <2>1, <1>r DEF Pcs
  <2>3. ep \in EpisodeSession /\ ep.research = mem.research /\ ep.episode = mem.episode
    BY <2>2, <1>a, NormalisedOK, AdvancedOK, StageNames
  <2>4. HasAudio(ep, next)
    BY <2>2, <1>a, NormalisedOK, AdvancedOK, StageNames DEF HasAudio
  <2>. HIDE DEF ep
  <2>. QED BY <2>1, <2>2, <2>3, <2>4, <1>b, <1>c, StageStep DEF Pcs
<1>5. CASE ChooseStudio
  <2>. DEFINE base == [Normalised(mem) EXCEPT !.studio = TRUE]
              ep == Advanced(base, "studio_selected")
  <2>1. At("studio") /\ Sets(ep, "duration") /\ UNCHANGED <<disk, cand, again, cc, stops>>
    BY <1>5 DEF ChooseStudio, Stage
  <2>2. mem # NoEpisode /\ ~unsaved
    BY <2>1, <1>r DEF Pcs
  <2>3. ep \in EpisodeSession /\ ep.research = mem.research /\ ep.episode = mem.episode
    <3>1. /\ Normalised(mem) \in EpisodeSession
          /\ Normalised(mem).research = mem.research /\ Normalised(mem).episode = mem.episode
      BY <2>2, <1>a, NormalisedOK
    <3>2. /\ base \in EpisodeSession
          /\ base.research = mem.research /\ base.episode = mem.episode
      BY <3>1, ChoiceOK
    <3>. HIDE DEF base
    <3>. QED BY <3>2, AdvancedOK, StageNames
  <2>. HIDE DEF ep
  <2>. QED BY <2>1, <2>2, <2>3, <1>b, <1>c, StageStep DEF Pcs, HasAudio
<1>6. CASE ChooseDuration
  <2>. DEFINE base == [Normalised(mem) EXCEPT !.duration = TRUE]
              ep == Advanced(base, "duration_selected")
  <2>1. At("duration") /\ Sets(ep, "research") /\ UNCHANGED <<disk, cand, again, cc, stops>>
    BY <1>6 DEF ChooseDuration, Stage
  <2>2. mem # NoEpisode /\ ~unsaved
    BY <2>1, <1>r DEF Pcs
  <2>3. ep \in EpisodeSession /\ ep.research = mem.research /\ ep.episode = mem.episode
    <3>1. /\ Normalised(mem) \in EpisodeSession
          /\ Normalised(mem).research = mem.research /\ Normalised(mem).episode = mem.episode
      BY <2>2, <1>a, NormalisedOK
    <3>2. /\ base \in EpisodeSession
          /\ base.research = mem.research /\ base.episode = mem.episode
      BY <3>1, ChoiceOK
    <3>. HIDE DEF base
    <3>. QED BY <3>2, AdvancedOK, StageNames
  <2>. HIDE DEF ep
  <2>. QED BY <2>1, <2>2, <2>3, <1>b, <1>c, StageStep DEF Pcs, HasAudio
<1>7. CASE ProvideResearch
  <2>1. /\ At("research") /\ mem # NoEpisode /\ ~unsaved
        /\ UNCHANGED <<disk, cand, again, cc, stops>>
    BY <1>7, <1>r DEF ProvideResearch, Pcs
  <2>2. CASE mem.research # None /\ mem.failed # "research_acceptance"
    <3>1. Passes("script")
      BY <1>7, <2>2 DEF ProvideResearch
    <3>. QED BY <2>1, <2>2, <3>1, <1>b, PassStep DEF Pcs, HasAudio
  <2>3. CASE ~(mem.research # None /\ mem.failed # "research_acceptance") /\ mem.source
    <3>1. Passes("ingest")
      BY <1>7, <2>3 DEF ProvideResearch
    <3>. QED BY <2>1, <2>3, <3>1, <1>b, PassStep DEF Pcs, HasAudio
  <2>4. CASE ~(mem.research # None /\ mem.failed # "research_acceptance") /\ ~mem.source
    <3>. DEFINE ep == [mem EXCEPT !.source = TRUE]
    <3>1. Sets(ep, "ingest")
      BY <1>7, <2>4 DEF ProvideResearch
    <3>2. ep \in EpisodeSession /\ ep.research = mem.research /\ ep.episode = mem.episode
      <4>1. mem \in EpisodeSession
        BY <2>1, <1>a
      <4>2. ep \in EpisodeSession
        BY <4>1, RecordSteps, StageNames
      <4>. QED BY <4>1, <4>2 DEF EpisodeSession
    <3>. HIDE DEF ep
    <3>. QED BY <2>1, <2>4, <3>1, <3>2, <1>b, <1>c, StageStep DEF Pcs, HasAudio
  <2>. QED BY <2>2, <2>3, <2>4
<1>8. CASE ProvideScript
  <2>1. /\ At("script") /\ mem # NoEpisode /\ ~unsaved
        /\ UNCHANGED <<disk, cand, again, cc, stops>>
    BY <1>8, <1>r DEF ProvideScript, Pcs
  <2>2. CASE mem.preserved
    <3>1. Passes("inputs")
      BY <1>8, <2>2 DEF ProvideScript
    <3>. QED BY <2>1, <2>2, <3>1, <1>b, PassStep DEF Pcs, HasAudio, At, Inv, ResearchInv
  <2>3. CASE ~mem.preserved
    <3>. DEFINE ep == [mem EXCEPT !.preserved = TRUE, !.stage = "approved_script_preserved"]
    <3>1. Sets(ep, "inputs")
      BY <1>8, <2>3 DEF ProvideScript
    <3>2. ep \in EpisodeSession /\ ep.research = mem.research /\ ep.episode = mem.episode
      <4>1. mem \in EpisodeSession
        BY <2>1, <1>a
      <4>2. ep \in EpisodeSession
        BY <4>1, RecordSteps, StageNames
      <4>. QED BY <4>1, <4>2 DEF EpisodeSession
    <3>. HIDE DEF ep
    <3>. QED BY <2>1, <2>3, <3>1, <3>2, <1>b, <1>c, StageStep
                DEF Pcs, HasAudio, At, Inv, ResearchInv
  <2>. QED BY <2>2, <2>3
<1>9. CASE ImportScript
  <2>1. /\ At("import") /\ mem # NoEpisode /\ ~unsaved
        /\ UNCHANGED <<disk, cand, again, cc, stops>>
    BY <1>9, <1>r DEF ImportScript, Pcs
  <2>2. CASE mem.script
    <3>1. Passes("preview")
      BY <1>9, <2>2 DEF ImportScript
    <3>. QED BY <2>1, <2>2, <3>1, <1>b, PassStep DEF Pcs, HasAudio
  <2>3. CASE ~mem.script
    <3>. DEFINE ep == [mem EXCEPT !.script = TRUE, !.stage = "approved_script_imported"]
    <3>1. Sets(ep, "preview")
      BY <1>9, <2>3 DEF ImportScript
    <3>2. ep \in EpisodeSession /\ ep.research = mem.research /\ ep.episode = mem.episode
      <4>1. mem \in EpisodeSession
        BY <2>1, <1>a
      <4>2. ep \in EpisodeSession
        BY <4>1, RecordSteps, StageNames
      <4>. QED BY <4>1, <4>2 DEF EpisodeSession
    <3>. HIDE DEF ep
    <3>. QED BY <2>1, <2>3, <3>1, <3>2, <1>b, <1>c, StageStep DEF Pcs, HasAudio
  <2>. QED BY <2>2, <2>3
<1>10. CASE Preview
  <2>. DEFINE ep == Advanced(mem, "speech_text_previewed")
  <2>1. At("preview") /\ Sets(ep, "start") /\ UNCHANGED <<disk, cand, again, cc, stops>>
    BY <1>10 DEF Preview, Stage
  <2>2. mem # NoEpisode /\ ~unsaved
    BY <2>1, <1>r DEF Pcs
  <2>3. ep \in EpisodeSession /\ ep.research = mem.research /\ ep.episode = mem.episode
    BY <2>2, <1>a, AdvancedOK, StageNames
  <2>. HIDE DEF ep
  <2>. QED BY <2>1, <2>2, <2>3, <1>b, <1>c, StageStep DEF Pcs, HasAudio
<1>11. CASE Preflight
  <2>. DEFINE ep == [mem EXCEPT !.stage = "speech_provider_preflight"]
  <2>1. At("preflight") /\ Sets(ep, "render") /\ UNCHANGED <<disk, cand, again, cc, stops>>
    BY <1>11 DEF Preflight, Stage
  <2>2. mem # NoEpisode /\ ~unsaved
    BY <2>1, <1>r DEF Pcs
  <2>3. ep \in EpisodeSession /\ ep.research = mem.research /\ ep.episode = mem.episode
    <3>1. mem \in EpisodeSession
      BY <2>2, <1>a
    <3>2. ep \in EpisodeSession
      BY <3>1, RecordSteps, StageNames
    <3>. QED BY <3>1, <3>2 DEF EpisodeSession
  <2>4. HasAudio(ep, "render")
    BY <2>1, <2>2, <1>a DEF At, Inv, AudioInv, HasAudio, EpisodeSession
  <2>. HIDE DEF ep
  <2>. QED BY <2>1, <2>2, <2>3, <2>4, <1>b, <1>c, StageStep DEF Pcs
<1>12. CASE BeginRender
  <2>. DEFINE ep == [mem EXCEPT !.failed = None, !.stage = "speech_rendering"]
  <2>1. At("render") /\ Sets(ep, "rendering") /\ UNCHANGED <<disk, cand, again, cc, stops>>
    BY <1>12 DEF BeginRender, Stage
  <2>2. mem # NoEpisode /\ ~unsaved
    BY <2>1, <1>r DEF Pcs
  <2>3. ep \in EpisodeSession /\ ep.research = mem.research /\ ep.episode = mem.episode
    <3>1. mem \in EpisodeSession
      BY <2>2, <1>a
    <3>2. ep \in EpisodeSession
      BY <3>1, RecordSteps, StageNames
    <3>. QED BY <3>1, <3>2 DEF EpisodeSession
  <2>4. HasAudio(ep, "rendering")
    BY <2>1, <2>2, <1>a DEF At, Inv, AudioInv, HasAudio, EpisodeSession
  <2>. HIDE DEF ep
  <2>. QED BY <2>1, <2>2, <2>3, <2>4, <1>b, <1>c, StageStep DEF Pcs
<1>13. CASE ValidateSpeech
  <2>. DEFINE ep == [mem EXCEPT !.stage = "speech_validated"]
  <2>1. At("validate") /\ Sets(ep, "assemble") /\ UNCHANGED <<disk, cand, again, cc, stops>>
    BY <1>13 DEF ValidateSpeech, Stage
  <2>2. mem # NoEpisode /\ ~unsaved
    BY <2>1, <1>r DEF Pcs
  <2>3. ep \in EpisodeSession /\ ep.research = mem.research /\ ep.episode = mem.episode
    <3>1. mem \in EpisodeSession
      BY <2>2, <1>a
    <3>2. ep \in EpisodeSession
      BY <3>1, RecordSteps, StageNames
    <3>. QED BY <3>1, <3>2 DEF EpisodeSession
  <2>4. HasAudio(ep, "assemble")
    BY <2>1, <2>2, <1>a DEF At, Inv, AudioInv, HasAudio, EpisodeSession
  <2>. HIDE DEF ep
  <2>. QED BY <2>1, <2>2, <2>3, <2>4, <1>b, <1>c, StageStep DEF Pcs
<1>14. CASE Assemble
  <2>. DEFINE ep == [mem EXCEPT !.audioJob = mem.speechJob, !.stage = "episode_assembled"]
  <2>1. /\ At("assemble") /\ Sets(ep, "validateAudio")
        /\ UNCHANGED <<disk, cand, again, cc, stops>>
    BY <1>14 DEF Assemble, Stage
  <2>2. mem # NoEpisode /\ ~unsaved
    BY <2>1, <1>r DEF Pcs
  <2>3. ep \in EpisodeSession /\ ep.research = mem.research /\ ep.episode = mem.episode
    <3>1. mem \in EpisodeSession
      BY <2>2, <1>a
    <3>2. ep \in EpisodeSession
      BY <3>1, RecordSteps, StageNames
    <3>. QED BY <3>1, <3>2 DEF EpisodeSession
  <2>4. HasAudio(ep, "validateAudio")
    BY <2>1, <2>2, <1>a DEF At, Inv, AudioInv, HasAudio, EpisodeSession
  <2>. HIDE DEF ep
  <2>. QED BY <2>1, <2>2, <2>3, <2>4, <1>b, <1>c, StageStep DEF Pcs
<1>15. CASE ValidateAudio
  <2>. DEFINE ep == [mem EXCEPT !.stage = "episode_validated"]
  <2>1. /\ At("validateAudio") /\ Sets(ep, "masterKey")
        /\ UNCHANGED <<disk, cand, again, cc, stops>>
    BY <1>15 DEF ValidateAudio, Stage
  <2>2. mem # NoEpisode /\ ~unsaved
    BY <2>1, <1>r DEF Pcs
  <2>3. ep \in EpisodeSession /\ ep.research = mem.research /\ ep.episode = mem.episode
    <3>1. mem \in EpisodeSession
      BY <2>2, <1>a
    <3>2. ep \in EpisodeSession
      BY <3>1, RecordSteps, StageNames
    <3>. QED BY <3>1, <3>2 DEF EpisodeSession
  <2>4. HasAudio(ep, "masterKey")
    BY <2>1, <2>2, <1>a DEF At, Inv, AudioInv, HasAudio, EpisodeSession
  <2>. HIDE DEF ep
  <2>. QED BY <2>1, <2>2, <2>3, <2>4, <1>b, <1>c, StageStep DEF Pcs
<1>16. CASE OpenGate
  <2>. DEFINE ep == [mem EXCEPT !.eligible = FALSE, !.stage = "listening_gate"]
  <2>1. At("gate") /\ Sets(ep, "decide") /\ UNCHANGED <<disk, cand, again, cc, stops>>
    BY <1>16 DEF OpenGate, Stage
  <2>2. mem # NoEpisode /\ ~unsaved
    BY <2>1, <1>r DEF Pcs
  <2>3. ep \in EpisodeSession /\ ep.research = mem.research /\ ep.episode = mem.episode
    <3>1. mem \in EpisodeSession
      BY <2>2, <1>a
    <3>2. ep \in EpisodeSession
      BY <3>1, RecordSteps, StageNames
    <3>. QED BY <3>1, <3>2 DEF EpisodeSession
  <2>. HIDE DEF ep
  <2>. QED BY <2>1, <2>2, <2>3, <1>b, <1>c, StageStep DEF Pcs, HasAudio
<1>17. CASE Ingest
  <2>1. At("ingest") /\ mem # NoEpisode /\ ~unsaved /\ UNCHANGED <<disk, again, stops>>
    BY <1>17, <1>r DEF Ingest, Pcs
  <2>m. mem \in EpisodeSession
    BY <2>1, <1>a
  <2>2. CASE mem.research # None \/ mem.imported # None
    <3>1. Passes("accept") /\ cand' \in Items /\ UNCHANGED cc
      BY <1>17, <2>2, <2>m DEF Ingest, EpisodeSession
    <3>2. Bounded
      BY <2>1, <3>1, <1>t DEF Bounded
    <3>. QED BY <2>1, <3>1, <3>2, PassStep DEF Pcs, HasAudio
  <2>3. CASE ~(mem.research # None \/ mem.imported # None)
    <3>. DEFINE ep(item) == [mem EXCEPT !.imported = item, !.stage = "research_imported"]
                copyOf(item) == IF item = "copy" /\ cc.item["own"] = "duplicate"
                                THEN "canon" ELSE cc.copyOf
    <3>1. PICK item \in {"own", "copy"}, state \in ItemStates \ {"absent"} :
            /\ item = IF cc.item["own"] = "absent" THEN "own" ELSE "copy"
            /\ item = "copy" => state = "duplicate"
            /\ cc' = [cc EXCEPT !.item[item] = state, !.copyOf = copyOf(item)]
            /\ cand' = IF state = "duplicate"
                       THEN IF item = "copy" THEN cc'.copyOf ELSE "canon"
                       ELSE item
            /\ Sets(ep(item), "accept")
      BY <1>17, <2>3 DEF Ingest
    <3>2. copyOf(item) \in {"own", "canon"}
      BY <1>t DEF CloneCast
    <3>. HIDE DEF copyOf
    <3>3. cc' \in CloneCast /\ cc'.copyOf \in {"own", "canon"}
      BY <3>1, <3>2, <1>t DEF CloneCast, Items
    <3>4. cc'.item = [cc.item EXCEPT ![item] = state]
      BY <3>1, <1>t DEF CloneCast
    <3>5. cc.item["copy"] \in {"absent", "duplicate"} /\ cc.item \in [Items -> ItemStates]
      BY <1>t DEF Inv, ResearchInv, CloneCast
    <3>6. KeepsAccepted
      BY <3>1, <3>3, <3>4, <3>5 DEF KeepsAccepted, Items
    <3>7. cand' \in Items
      BY <3>1, <3>3 DEF Items
    <3>8. Bounded
      BY <2>1, <3>7, <1>t DEF Bounded
    <3>9. /\ ep(item) \in EpisodeSession
          /\ ep(item).research = None /\ ep(item).episode = FALSE
      <4>1. ep(item) \in EpisodeSession
        BY <2>m, <3>1, ImportedOK, StageNames
      <4>2. mem.episode = FALSE
        BY <2>m, <2>1, <2>3 DEF Inv, ResearchInv, RecordInv, EpisodeSession
      <4>. QED BY <4>1, <4>2, <2>m, <2>3 DEF EpisodeSession
    <3>. HIDE DEF ep
    <3>. QED BY <2>1, <3>1, <3>6, <3>7, <3>8, <3>9, MemStep DEF Pcs, HasAudio
  <2>. QED BY <2>2, <2>3
<1>18. CASE Accept
  <2>1. At("accept") /\ mem # NoEpisode /\ ~unsaved /\ UNCHANGED <<disk, cc, stops>>
    BY <1>18, <1>r DEF Accept, Pcs
  <2>2. cand \in Items
    BY <2>1 DEF At, Inv, ResearchInv
  <2>3. Shown(cand) \in Items
    BY <2>2, <1>t DEF Shown, DuplicateOf, CloneCast, Items
  <2>4. KeepsAccepted
    BY <2>1, <1>t DEF KeepsAccepted, Inv, ResearchInv
  <2>5. CASE cc.item[Shown(cand)] = "accepted"
    <3>1. Accepts(Shown(cand))
      BY <1>18, <2>5 DEF Accept
    <3>. QED BY <2>1, <2>3, <2>4, <2>5, <3>1, <1>t, AcceptsStep
  <2>6. CASE cc.item[Shown(cand)] # "accepted"
    <3>1. cand' = Shown(cand) /\ Passes("recover") /\ UNCHANGED again
      BY <1>18, <2>6 DEF Accept
    <3>2. Bounded
      BY <2>1, <2>3, <3>1, <1>t DEF Bounded
    <3>. QED BY <2>1, <2>3, <3>1, <3>2, PassStep DEF Pcs, HasAudio
  <2>. QED BY <2>5, <2>6
<1>19. CASE Recover
  <2>1. At("recover") /\ mem # NoEpisode /\ ~unsaved /\ UNCHANGED disk
    BY <1>19, <1>r DEF Recover, Pcs
  <2>2. cand \in Items /\ cc.item["copy"] \in {"absent", "duplicate"}
    BY <2>1 DEF At, Inv, ResearchInv
  <2>3. cc.item \in [Items -> ItemStates] /\ cc.copyOf \in {"own", "canon"}
    BY <1>t DEF CloneCast
  <2>4. ASSUME NEW state \in ItemStates, cc' = [cc EXCEPT !.item[cand] = state],
               cc.item[cand] # "accepted" \/ state = "accepted",
               cand = "copy" => state = "duplicate"
        PROVE  KeepsAccepted /\ cc'.item = [cc.item EXCEPT ![cand] = state]
    <3>1. cc' \in CloneCast /\ cc'.item = [cc.item EXCEPT ![cand] = state]
      BY <2>4, <2>2, <1>t DEF CloneCast
    <3>. QED BY <2>4, <2>2, <2>3, <3>1 DEF KeepsAccepted, Items
  <2>5. cc' = cc => KeepsAccepted
    BY <2>2, <1>t DEF KeepsAccepted
  <2>6. CASE /\ cc.item[cand] \in {"processing", "accepted"}
             /\ cc' = [cc EXCEPT !.item[cand] = "accepted"] /\ Accepts(cand)
             /\ UNCHANGED stops
    <3>1. KeepsAccepted /\ cc'.item[cand] = "accepted"
      BY <2>2, <2>3, <2>4, <2>6 DEF ItemStates
    <3>. QED BY <2>1, <2>2, <2>6, <3>1, <1>t, AcceptsStep
  <2>7. CASE /\ cand # "canon"
             /\ \/ cc.item[cand] = "duplicate" /\ UNCHANGED cc
                \/ /\ cc.item[cand] = "processing" /\ cc.item["canon"] # "absent"
                   /\ cc' = [cc EXCEPT !.item[cand] = "duplicate"]
             /\ IF cc.item[DuplicateOf(cand)] = "accepted" THEN Accepts(DuplicateOf(cand))
                ELSE FailSession("research_acceptance")
             /\ UNCHANGED stops
    <3>1. KeepsAccepted
      BY <2>4, <2>5, <2>7 DEF ItemStates
    <3>2. DuplicateOf(cand) \in Items
      BY <2>3 DEF DuplicateOf, Items
    <3>3. CASE cc.item[DuplicateOf(cand)] = "accepted"
      <4>1. cc'.item[DuplicateOf(cand)] = "accepted"
        BY <3>1, <3>2, <3>3 DEF KeepsAccepted
      <4>. QED BY <2>1, <2>7, <3>1, <3>2, <3>3, <4>1, <1>t, AcceptsStep
    <3>4. CASE cc.item[DuplicateOf(cand)] # "accepted"
      BY <2>1, <2>7, <3>1, <3>4, <1>t, FailStep
    <3>. QED BY <3>3, <3>4
  <2>8. CASE /\ cc.item[cand] = "processing" /\ FailSession("research_acceptance")
             /\ StopsEarly /\ UNCHANGED cc
    BY <2>1, <2>5, <2>8, <1>s, FailStep
  <2>. QED BY <1>19, <2>6, <2>7, <2>8 DEF Recover
<1>20. CASE ResearchFails
  <2>1. mem # NoEpisode /\ ~unsaved /\ FailSession("research_acceptance") /\ StopsEarly
    BY <1>20, <1>r DEF ResearchFails, At, Pcs
  <2>2. UNCHANGED <<disk, cc>>
    BY <1>20 DEF ResearchFails
  <2>3. KeepsAccepted
    BY <2>2, <1>t DEF KeepsAccepted, Inv, ResearchInv
  <2>. QED BY <2>1, <2>2, <2>3, <1>s, FailStep
<1>21. CASE ChooseInputs
  <2>. DEFINE ep(voice) == [mem EXCEPT !.voice = voice,
                                       !.preset = IF @ = None THEN cc.default ELSE @,
                                       !.stage = "inputs_validated"]
  <2>1. PICK voice \in Voices : At("inputs") /\ Sets(ep(voice), "accept")
    BY <1>21 DEF ChooseInputs
  <2>2. cand' = mem.research /\ again' = TRUE /\ UNCHANGED <<disk, cc, stops>>
    BY <1>21 DEF ChooseInputs
  <2>3. mem # NoEpisode /\ ~unsaved /\ mem \in EpisodeSession /\ mem.research # None
    BY <2>1, <1>r, <1>a DEF Pcs, At, Inv, ResearchInv
  <2>4. mem.research \in Items
    BY <2>3 DEF EpisodeSession
  <2>5. ep(voice) \in EpisodeSession
    BY <2>1, <2>3, <1>t, InputsOK, StageNames DEF CloneCast
  <2>6. ep(voice).research = mem.research
    BY <2>3 DEF EpisodeSession
  <2>. HIDE DEF ep
  <2>7. Bounded
    BY <2>2, <2>4, <1>t DEF Bounded
  <2>8. KeepsAccepted
    BY <2>2, <1>t DEF KeepsAccepted, Inv, ResearchInv
  <2>9. cc'.item[mem.research] = "accepted"
    BY <2>2, <2>3 DEF Inv, ResearchInv, RecordInv
  <2>. QED BY <2>1, <2>2, <2>3, <2>4, <2>5, <2>6, <2>7, <2>8, <2>9, MemStep DEF Pcs, HasAudio
<1>22. CASE CreateEpisode
  <2>1. /\ At("create") /\ mem # NoEpisode /\ ~unsaved
        /\ UNCHANGED <<disk, cand, again, cc, stops>>
    BY <1>22, <1>r DEF CreateEpisode, Pcs
  <2>2. mem \in EpisodeSession /\ mem.research # None
    BY <2>1, <1>a DEF At, Inv, ResearchInv
  <2>3. CASE mem.episode
    <3>1. Passes("import")
      BY <1>22, <2>3 DEF CreateEpisode
    <3>. QED BY <2>1, <3>1, <1>b, PassStep DEF Pcs, HasAudio
  <2>4. CASE ~mem.episode
    <3>. DEFINE ep == [mem EXCEPT !.episode = TRUE, !.stage = "episode_created"]
    <3>1. Sets(ep, "import")
      BY <1>22, <2>4 DEF CreateEpisode
    <3>2. ep \in EpisodeSession
      BY <2>2, RecordSteps, StageNames
    <3>3. ep.research = mem.research
      BY <2>2 DEF EpisodeSession
    <3>. HIDE DEF ep
    <3>4. KeepsAccepted
      BY <2>1, <1>t DEF KeepsAccepted, Inv, ResearchInv
    <3>5. cc'.item[mem.research] = "accepted"
      BY <2>1, <2>2 DEF Inv, ResearchInv, RecordInv
    <3>. QED BY <2>1, <2>2, <3>1, <3>2, <3>3, <3>4, <3>5, <1>b, MemStep DEF Pcs, HasAudio
  <2>. QED BY <2>3, <2>4
<1>23. CASE StartGeneration
  <2>1. At("start") /\ mem # NoEpisode /\ ~unsaved /\ UNCHANGED <<disk, cand, again, cc>>
    BY <1>23, <1>r DEF StartGeneration, Pcs
  <2>2. CASE Passes("voice") /\ UNCHANGED stops
    BY <2>1, <2>2, <1>b, PassStep DEF Pcs, HasAudio
  <2>3. CASE Sets(Advanced(mem, "saved_before_generation"), "idle") /\ StopsEarly
    <3>. DEFINE ep == Advanced(mem, "saved_before_generation")
    <3>1. ep \in EpisodeSession /\ ep.research = mem.research /\ ep.episode = mem.episode
      BY <2>1, <1>a, AdvancedOK, StageNames
    <3>2. Bounded
      BY <2>1, <2>3, <1>s, <1>t DEF Bounded
    <3>3. Sets(ep, "idle")
      BY <2>3
    <3>. HIDE DEF ep
    <3>. QED BY <2>1, <3>1, <3>2, <3>3, <1>c, StageStep DEF Pcs, HasAudio
  <2>. QED BY <1>23, <2>2, <2>3 DEF StartGeneration
<1>24. CASE AssignVoice
  <2>. DEFINE ep == [WithDelivery(mem, mem.preset) EXCEPT !.stage = "voice_assigned"]
  <2>1. At("voice") /\ mem # NoEpisode /\ ~unsaved /\ UNCHANGED <<disk, cand, again, stops>>
    BY <1>24, <1>r DEF AssignVoice, Pcs
  <2>2. mem \in EpisodeSession
    BY <2>1, <1>a
  <2>3. Sets(ep, "preflight")
    BY <1>24 DEF AssignVoice
  <2>4. cc' \in CloneCast /\ cc'.item = cc.item
    <3>1. cc' = [cc EXCEPT !.voice = mem.voice, !.preset = mem.preset]
      BY <1>24 DEF AssignVoice
    <3>2. mem.voice \in Voices \cup {None} /\ mem.preset \in Presets \cup {None}
      BY <2>2 DEF EpisodeSession
    <3>. QED BY <3>1, <3>2, <1>t DEF CloneCast
  <2>5. /\ ep \in EpisodeSession /\ ep.delivery # None
        /\ ep.research = mem.research /\ ep.episode = mem.episode
    BY <2>2, PresetIsTyped, DeliveryOK, StageNames
  <2>. HIDE DEF ep
  <2>. QED BY <2>1, <2>3, <2>4, <2>5, <1>b, StageStep DEF Pcs, HasAudio
<1>25. CASE ChangeDelivery
  <2>. DEFINE ep == Advanced(WithDelivery(Cleared(Preserved(mem)), mem.preset), "voice_assigned")
  <2>1. At("voice") /\ mem # NoEpisode /\ ~unsaved /\ UNCHANGED <<disk, cand, again, stops>>
    BY <1>25, <1>r DEF ChangeDelivery, Pcs
  <2>2. mem \in EpisodeSession
    BY <2>1, <1>a
  <2>3. Sets(ep, "preflight")
    BY <1>25 DEF ChangeDelivery
  <2>4. cc' \in CloneCast /\ cc'.item = cc.item
    <3>1. cc' = [cc EXCEPT !.preset = mem.preset]
      BY <1>25 DEF ChangeDelivery
    <3>. QED BY <3>1, <2>2, PresetIsTyped, <1>t DEF CloneCast
  <2>5. /\ ep \in EpisodeSession /\ ep.delivery # None
        /\ ep.research = mem.research /\ ep.episode = mem.episode
    <3>. DEFINE kept == Cleared(Preserved(mem))
    <3>1. kept \in EpisodeSession /\ kept.research = mem.research /\ kept.episode = mem.episode
      BY <2>2, PreservedOK, ClearedOK
    <3>. HIDE DEF kept
    <3>2. mem.preset \in Presets \cup {None}
      BY <2>2, PresetIsTyped
    <3>. DEFINE new == WithDelivery(kept, mem.preset)
    <3>3. /\ new \in EpisodeSession /\ new.delivery # None
          /\ new.research = mem.research /\ new.episode = mem.episode
      BY <3>1, <3>2, DeliveryOK
    <3>. HIDE DEF new
    <3>4. /\ Advanced(new, "voice_assigned") \in EpisodeSession
          /\ Advanced(new, "voice_assigned").delivery # None
          /\ Advanced(new, "voice_assigned").research = mem.research
          /\ Advanced(new, "voice_assigned").episode = mem.episode
      BY <3>3, AdvancedOK, StageNames
    <3>. QED BY <3>4 DEF new, kept
  <2>. HIDE DEF ep
  <2>. QED BY <2>1, <2>3, <2>4, <2>5, <1>b, StageStep DEF Pcs, HasAudio
<1>26. CASE KeepVoice
  <2>. DEFINE ep == [WithDelivery(mem, cc.preset) EXCEPT !.stage = "voice_assigned"]
  <2>1. At("voice") /\ mem # NoEpisode /\ ~unsaved /\ UNCHANGED <<disk, cand, again, stops>>
    BY <1>26, <1>r DEF KeepVoice, Pcs
  <2>2. mem \in EpisodeSession
    BY <2>1, <1>a
  <2>3. Sets(ep, "preflight")
    BY <1>26 DEF KeepVoice
  <2>4. cc' \in CloneCast /\ cc'.item = cc.item
    BY <1>26, <1>t DEF KeepVoice
  <2>5. /\ ep \in EpisodeSession /\ ep.delivery # None
        /\ ep.research = mem.research /\ ep.episode = mem.episode
    <3>1. cc.preset \in Presets \cup {None}
      BY <1>t DEF CloneCast
    <3>. QED BY <2>2, <3>1, DeliveryOK, StageNames
  <2>. HIDE DEF ep
  <2>. QED BY <2>1, <2>3, <2>4, <2>5, <1>b, StageStep DEF Pcs, HasAudio
<1>27. CASE RefuseVoice
  BY <1>27, <1>t, <1>d, <1>e, EndStep DEF RefuseVoice, Inv, ResearchInv
<1>28. CASE Render
  <2>1. At("rendering") /\ mem # NoEpisode /\ ~unsaved /\ UNCHANGED disk
    BY <1>28, <1>r DEF Render, Pcs
  <2>2. mem \in EpisodeSession
    BY <2>1, <1>a
  <2>3. cc' \in CloneCast /\ cc'.item = cc.item
    <3>1. cc' = [cc EXCEPT !.renders = @ \cup {mem.delivery}]
      BY <1>28 DEF Render
    <3>2. mem.delivery \in Deliveries
      BY <2>1, <2>2 DEF At, Inv, AudioInv, HasAudio, EpisodeSession
    <3>. QED BY <3>1, <3>2, <1>t DEF CloneCast
  <2>4. CASE /\ Sets([mem EXCEPT !.speechJob = mem.delivery, !.stage = "speech_rendered"],
                     "validate")
             /\ UNCHANGED <<cand, again, stops>>
    <3>. DEFINE ep == [mem EXCEPT !.speechJob = mem.delivery, !.stage = "speech_rendered"]
    <3>1. ep \in EpisodeSession
      BY <2>2, RecordSteps, StageNames
    <3>2. ep.research = mem.research /\ ep.episode = mem.episode
      BY <2>2 DEF EpisodeSession
    <3>3. Sets(ep, "validate")
      BY <2>4
    <3>4. HasAudio(ep, "validate")
      BY <2>1, <2>2 DEF At, Inv, AudioInv, HasAudio, EpisodeSession
    <3>. HIDE DEF ep
    <3>. QED BY <2>1, <2>3, <2>4, <3>1, <3>2, <3>3, <3>4, <1>b, StageStep DEF Pcs
  <2>5. CASE FailSession("speech_render") /\ StopsEarly
    <3>1. KeepsAccepted
      BY <2>3 DEF KeepsAccepted, Inv, ResearchInv
    <3>. QED BY <2>1, <2>5, <3>1, <1>s, FailStep
  <2>. QED BY <1>28, <2>4, <2>5 DEF Render
<1>29. CASE ChooseMasteringKey
  <2>1. At("masterKey") /\ mem # NoEpisode /\ ~unsaved /\ UNCHANGED <<disk, cand, again, cc>>
    BY <1>29, <1>r DEF ChooseMasteringKey, Pcs
  <2>2. mem \in EpisodeSession
    BY <2>1, <1>a
  <2>m. mem.audioJob # None
    BY <2>1 DEF At, Inv, AudioInv, HasAudio
  <2>3. CASE /\ NextRetry(mem) \in 0..MaxRetry
             /\ Sets([mem EXCEPT !.retry = NextRetry(mem)], "master")
             /\ UNCHANGED stops
    <3>. DEFINE ep == [mem EXCEPT !.retry = NextRetry(mem)]
    <3>1. ep \in EpisodeSession /\ ep.research = mem.research /\ ep.episode = mem.episode
      BY <2>2, <2>3 DEF EpisodeSession
    <3>2. Sets(ep, "master")
      BY <2>3
    <3>3. HasAudio(ep, "master")
      BY <2>2, <2>m DEF HasAudio, EpisodeSession
    <3>. HIDE DEF ep
    <3>. QED BY <2>1, <2>3, <3>1, <3>2, <3>3, <1>b, <1>c, StageStep DEF Pcs
  <2>4. CASE StopsEarly /\ Passes("master")
    <3>1. Bounded
      BY <2>1, <2>4, <1>s, <1>t DEF Bounded
    <3>. QED BY <2>1, <2>m, <2>4, <3>1, PassStep DEF Pcs, HasAudio
  <2>. QED BY <1>29, <2>3, <2>4 DEF ChooseMasteringKey
<1>30. CASE Master
  <2>. DEFINE key == <<mem.audioJob, mem.retry>>
              Used == [cc EXCEPT !.keys = @ \cup {key}]
  <2>1. At("master") /\ mem # NoEpisode /\ ~unsaved /\ UNCHANGED disk
    BY <1>30, <1>r DEF Master, Pcs
  <2>2. mem \in EpisodeSession
    BY <2>1, <1>a
  <2>m. mem.audioJob \in Deliveries /\ mem.retry \in 0..MaxRetry
    BY <2>1, <2>2 DEF At, Inv, AudioInv, HasAudio, EpisodeSession
  <2>3. Used \in CloneCast /\ Used.item = cc.item
    BY <2>m, <1>t DEF CloneCast
  <2>4. ASSUME NEW audio \in Deliveries, RecordMasteringResult(audio),
               cc' \in CloneCast, cc'.item = cc.item
        PROVE  Inv'
    <3>. DEFINE ep == [mem EXCEPT !.finalAudio = audio, !.mastered = TRUE,
                                  !.stage = "episode_mastered"]
    <3>1. ep \in EpisodeSession
      BY <2>2, <2>4, MasteredOK, StageNames
    <3>2. ep.research = mem.research /\ ep.episode = mem.episode
      BY <2>2 DEF EpisodeSession
    <3>3. Sets(ep, "gate") /\ UNCHANGED <<cand, again, stops>>
      BY <2>4 DEF RecordMasteringResult
    <3>. HIDE DEF ep
    <3>. QED BY <2>1, <2>4, <3>1, <3>2, <3>3, <1>b, StageStep DEF Pcs, HasAudio
  <2>5. ASSUME Ends, cc' \in CloneCast, cc'.item = cc.item, StopsEarly \/ UNCHANGED stops
        PROVE  Inv'
    BY <2>1, <2>5, <1>s, <1>t, <1>d, <1>e, EndStep DEF Inv, ResearchInv
  <2>6. CASE cc' = [Used EXCEPT !.masters = @ \cup {mem.audioJob}]
             /\ RecordMasteringResult(mem.audioJob)
    <3>1. cc' \in CloneCast /\ cc'.item = cc.item
      <4>. HIDE DEF Used
      <4>. QED BY <2>m, <2>3, <2>6 DEF CloneCast
    <3>. QED BY <2>m, <2>4, <2>6, <3>1
  <2>7. CASE cc' = Used /\ Ends /\ (StopsEarly \/ UNCHANGED stops)
    BY <2>3, <2>5, <2>7
  <2>8. CASE UNCHANGED cc /\ \E audio \in KeyTakenBy(mem) \cap cc.masters :
                                RecordMasteringResult(audio)
    <3>1. PICK audio \in Deliveries : RecordMasteringResult(audio)
      BY <2>8 DEF KeyTakenBy
    <3>. QED BY <2>4, <2>8, <3>1, <1>t
  <2>9. CASE Ends /\ UNCHANGED <<cc, stops>>
    BY <2>5, <2>9, <1>t
  <2>. QED BY <1>30, <2>6, <2>7, <2>8, <2>9 DEF Master
<1>31. CASE Decide
  <2>1. Ends /\ UNCHANGED <<cc, stops>>
    BY <1>31 DEF Decide
  <2>2. At("decide") /\ disk # NoEpisode
    BY <1>31, <1>r DEF Decide, Pcs, Inv, RunInv
  <2>3. /\ disk' \in EpisodeSession
        /\ disk'.research = disk.research /\ disk'.episode = disk.episode
    BY <1>31, <2>2, <1>d, DecisionOK DEF Decide
  <2>. QED BY <2>1, <2>2, <2>3, <1>t, <1>e, EndStep DEF Inv, ResearchInv, RecordInv
<1>32. CASE OwnerDecides
  <2>1. UNCHANGED <<mem, unsaved, pc, cand, again, cc, stops>> /\ disk # NoEpisode
    BY <1>32 DEF OwnerDecides, CanApprove
  <2>2. /\ disk' \in EpisodeSession
        /\ disk'.research = disk.research /\ disk'.episode = disk.episode
    BY <1>32, <2>1, <1>d, DecisionOK DEF OwnerDecides
  <2>3. TypeOK'
    BY <2>1, <2>2 DEF Inv, TypeOK
  <2>4. RunInv' /\ ResearchInv' /\ AudioInv'
    BY <2>1, <2>2, NoEpisodeIsNone DEF Inv, RunInv, ResearchInv, RecordInv, AudioInv, HasAudio
  <2>. QED BY <2>3, <2>4 DEF Inv
<1>33. CASE PresetAppears
  <2>1. UNCHANGED <<disk, mem, unsaved, pc, cand, again, stops>>
    BY <1>33 DEF PresetAppears
  <2>2. cc' \in CloneCast /\ cc'.item = cc.item
    <3>1. \E preset \in Presets : cc' = [cc EXCEPT !.default = preset]
      BY <1>33 DEF PresetAppears
    <3>. QED BY <3>1, <1>t DEF CloneCast
  <2>. QED BY <2>1, <2>2, OutsideStep DEF KeepsAccepted, Inv, ResearchInv
<1>34. CASE VoiceAppears
  <2>1. UNCHANGED <<disk, mem, unsaved, pc, cand, again, stops>>
    BY <1>34 DEF VoiceAppears
  <2>2. cc' \in CloneCast /\ cc'.item = cc.item
    <3>1. \E voice \in Voices : cc' = [cc EXCEPT !.voice = voice]
      BY <1>34 DEF VoiceAppears
    <3>. QED BY <3>1, <1>t DEF CloneCast
  <2>. QED BY <2>1, <2>2, OutsideStep DEF KeepsAccepted, Inv, ResearchInv
<1>35. CASE OtherSessionAccepts
  <2>1. UNCHANGED <<disk, mem, unsaved, pc, cand, again, stops>>
    BY <1>35 DEF OtherSessionAccepts
  <2>2. cc' = [cc EXCEPT !.item["canon"] = "accepted"] /\ cc.item \in [Items -> ItemStates]
    BY <1>35, <1>t DEF OtherSessionAccepts, CloneCast
  <2>3. cc' \in CloneCast /\ cc'.item = [cc.item EXCEPT !["canon"] = "accepted"]
    BY <2>2, <1>t DEF CloneCast, ItemStates
  <2>4. KeepsAccepted
    BY <2>2, <2>3 DEF KeepsAccepted, Inv, ResearchInv, Items
  <2>. QED BY <2>1, <2>4, OutsideStep
<1>36. CASE Interrupt
  BY <1>36, <1>s, <1>t, <1>d, <1>e, EndStep DEF Interrupt, Inv, ResearchInv
<1>37. CASE UNCHANGED vars
  BY <1>37 DEF vars, Inv, TypeOK, RunInv, ResearchInv, RecordInv, AudioInv, HasAudio
<1>. QED BY <1>1, <1>2, <1>3, <1>4, <1>5, <1>6, <1>7, <1>8, <1>9, <1>10, <1>11, <1>12,
            <1>13, <1>14, <1>15, <1>16, <1>17, <1>18, <1>19, <1>20, <1>21, <1>22, <1>23,
            <1>24, <1>25, <1>26, <1>27, <1>28, <1>29, <1>30, <1>31, <1>32, <1>33, <1>34,
            <1>35, <1>36, <1>37 DEF Next, RunStep

\* In every reachable state the record on disk, the run's copy of it and CloneCast's
\* state have the shape the code gives them.
THEOREM TypeCorrect == Spec => []TypeOK
<1>1. Inv => TypeOK
  BY DEF Inv
<1>. QED BY InitInv, StepInv, <1>1, PTL DEF Spec

\* "Research is only ever considered usable after its lifecycle state is accepted":
\* the item in the record is one CloneCast has accepted, and no episode is created
\* without one, wherever runs are interrupted and whatever fails.
THEOREM ResearchIsAccepted == Spec => []AcceptedIsCanonical
<1>1. Inv => AcceptedIsCanonical
  BY DEF Inv, ResearchInv, RecordInv, AcceptedIsCanonical, Saved
<1>. QED BY InitInv, StepInv, <1>1, PTL DEF Spec

(***************************************************************************)
(* A voice assignment of the script is the one the record asks for.        *)
(***************************************************************************)
VoiceInv ==
    /\ cc.voice # None => disk # NoEpisode /\ disk.voice = cc.voice
    /\ mem # NoEpisode /\ ~unsaved => disk # NoEpisode /\ mem.voice = disk.voice
    /\ mem # NoEpisode /\ disk # NoEpisode /\ disk.voice # None => mem.voice = disk.voice

\* A step that has nothing to do with voices.
KeepsVoices ==
    /\ cc'.voice = cc.voice /\ disk' = disk
    /\ mem' # NoEpisode => mem # NoEpisode /\ mem'.voice = mem.voice
    /\ mem' # NoEpisode /\ ~unsaved' => ~unsaved

\* Accepting an item keeps the voice.
LEMMA AcceptsKeepsVoice ==
    ASSUME mem \in EpisodeSession, NEW item, Accepts(item)
    PROVE  mem'.voice = mem.voice /\ unsaved'
<1>. DEFINE set == [mem EXCEPT !.research = item,
                               !.failed = IF @ = "research_acceptance" THEN None ELSE @]
<1>1. Sets(Advanced(set, "research_accepted"), IF again THEN "create" ELSE "script")
  BY DEF Accepts
<1>2. set.voice = mem.voice /\ DOMAIN set = DOMAIN mem /\ "voice" \in DOMAIN mem
  BY DEF EpisodeSession
<1>. HIDE DEF set
<1>3. Advanced(set, "research_accepted").voice = set.voice
  BY <1>2 DEF Advanced
<1>. QED BY <1>1, <1>2, <1>3 DEF Sets

\* Every step preserves the agreement on the voice.
LEMMA VoiceStep == ASSUME Inv, VoiceInv, [Next]_vars, "voice" \notin Outside PROVE VoiceInv'
<1>t. cc \in CloneCast
  BY DEF Inv, TypeOK
<1>m. mem # NoEpisode => mem \in EpisodeSession
  BY DEF Inv, TypeOK
<1>d. disk # NoEpisode => disk \in EpisodeSession
  BY DEF Inv, TypeOK
<1>r. pc # "idle" \/ unsaved => mem # NoEpisode
  BY DEF Inv, RunInv
<1>k. KeepsVoices => VoiceInv'
  BY DEF KeepsVoices, VoiceInv
<1>1. CASE Save
  BY <1>1, <1>r DEF Save, VoiceInv
<1>2. CASE Begin
  <2>1. CASE disk = NoEpisode
    BY <1>2, <2>1 DEF Begin, Sets, VoiceInv
  <2>2. CASE disk # NoEpisode
    BY <1>2, <2>2 DEF Begin, At, VoiceInv
  <2>. QED BY <2>1, <2>2
<1>3. CASE ChooseInputs
  <2>. DEFINE ep(voice) == [mem EXCEPT !.voice = voice,
                                       !.preset = IF @ = None THEN cc.default ELSE @,
                                       !.stage = "inputs_validated"]
  <2>1. PICK voice \in Voices :
           /\ At("inputs") /\ Sets(ep(voice), "accept")
           /\ (mem # NoEpisode /\ mem.voice # None => voice = mem.voice)
    BY <1>3 DEF ChooseInputs
  <2>2. UNCHANGED <<disk, cc>>
    BY <1>3 DEF ChooseInputs
  <2>3. ep(voice).voice = voice
    BY <2>1, <1>m, <1>r DEF At, EpisodeSession
  <2>. HIDE DEF ep
  <2>. QED BY <2>1, <2>2, <2>3, <1>r DEF At, Sets, VoiceInv
<1>4. CASE AssignVoice
  <2>. DEFINE ep == [WithDelivery(mem, mem.preset) EXCEPT !.stage = "voice_assigned"]
  <2>1. /\ At("voice") /\ Sets(ep, "preflight") /\ UNCHANGED disk
        /\ cc' = [cc EXCEPT !.voice = mem.voice, !.preset = mem.preset]
    BY <1>4 DEF AssignVoice
  <2>2. mem \in EpisodeSession /\ mem # NoEpisode
    BY <2>1, <1>m, <1>r DEF At
  <2>3. ep.voice = mem.voice
    BY <2>2, PresetIsTyped, DeliveryOK, StageNames
  <2>4. cc'.voice = mem.voice
    BY <2>1, <1>t DEF CloneCast
  <2>. HIDE DEF ep
  <2>. QED BY <2>1, <2>2, <2>3, <2>4 DEF At, Sets, VoiceInv
<1>5. CASE Decide \/ OwnerDecides
  <2>1. cc' = cc /\ disk # NoEpisode
    BY <1>5, NoEpisodeIsNone DEF Decide, OwnerDecides, CanApprove, At, Inv, RunInv
  <2>2. disk' \in EpisodeSession /\ disk'.voice = disk.voice
    BY <1>5, <2>1, <1>d, DecisionOK DEF Decide, OwnerDecides
  <2>3. mem' = NoEpisode \/ (mem' = mem /\ UNCHANGED unsaved)
    BY <1>5 DEF Decide, OwnerDecides, Ends
  <2>. QED BY <2>1, <2>2, <2>3, NoEpisodeIsNone DEF VoiceInv
<1>6. CASE VoiceAppears
  BY <1>6 DEF VoiceAppears
<1>7. CASE Confirm
  BY <1>7, <1>m, <1>r, <1>k, NormalisedOK, AdvancedOK, StageNames
     DEF Confirm, Stage, Sets, At, KeepsVoices
<1>8. CASE Discover
  BY <1>8, <1>m, <1>r, <1>k, NormalisedOK, AdvancedOK, StageNames
     DEF Discover, Stage, Sets, At, KeepsVoices
<1>9. CASE ChooseStudio
  <2>. DEFINE base == [Normalised(mem) EXCEPT !.studio = TRUE]
              ep == Advanced(base, "studio_selected")
  <2>1. At("studio") /\ Sets(ep, "duration") /\ UNCHANGED <<disk, cc>>
    BY <1>9 DEF ChooseStudio, Stage
  <2>2. Normalised(mem) \in EpisodeSession /\ Normalised(mem).voice = mem.voice
    BY <2>1, <1>m, <1>r, NormalisedOK DEF At
  <2>3. base \in EpisodeSession /\ base.voice = mem.voice
    BY <2>2, ChoiceOK
  <2>. HIDE DEF base
  <2>4. ep.voice = mem.voice
    BY <2>3, AdvancedOK, StageNames
  <2>. HIDE DEF ep
  <2>. QED BY <2>1, <2>4, <1>r, <1>k DEF At, Sets, KeepsVoices
<1>10. CASE ChooseDuration
  <2>. DEFINE base == [Normalised(mem) EXCEPT !.duration = TRUE]
              ep == Advanced(base, "duration_selected")
  <2>1. At("duration") /\ Sets(ep, "research") /\ UNCHANGED <<disk, cc>>
    BY <1>10 DEF ChooseDuration, Stage
  <2>2. Normalised(mem) \in EpisodeSession /\ Normalised(mem).voice = mem.voice
    BY <2>1, <1>m, <1>r, NormalisedOK DEF At
  <2>3. base \in EpisodeSession /\ base.voice = mem.voice
    BY <2>2, ChoiceOK
  <2>. HIDE DEF base
  <2>4. ep.voice = mem.voice
    BY <2>3, AdvancedOK, StageNames
  <2>. HIDE DEF ep
  <2>. QED BY <2>1, <2>4, <1>r, <1>k DEF At, Sets, KeepsVoices
<1>11. CASE ProvideResearch
  BY <1>11, <1>m, <1>r, <1>k
     DEF ProvideResearch, At, Sets, Passes, EpisodeSession, KeepsVoices
<1>12. CASE Ingest
  <2>1. At("ingest") /\ UNCHANGED disk
    BY <1>12 DEF Ingest
  <2>2. CASE mem.research # None \/ mem.imported # None
    BY <1>12, <2>1, <2>2, <1>k DEF Ingest, At, Passes, KeepsVoices
  <2>3. CASE ~(mem.research # None \/ mem.imported # None)
    <3>1. PICK item \in {"own", "copy"}, state \in ItemStates \ {"absent"} :
            /\ cc' = [cc EXCEPT !.item[item] = state,
                                !.copyOf = IF item = "copy" /\ cc.item["own"] = "duplicate"
                                           THEN "canon" ELSE @]
            /\ Sets([mem EXCEPT !.imported = item, !.stage = "research_imported"], "accept")
      BY <1>12, <2>3 DEF Ingest
    <3>2. cc'.voice = cc.voice
      BY <3>1, <1>t DEF CloneCast
    <3>. QED BY <2>1, <3>1, <3>2, <1>m, <1>r, <1>k DEF At, Sets, EpisodeSession, KeepsVoices
  <2>. QED BY <2>2, <2>3
<1>13. CASE Accept
  <2>1. UNCHANGED disk /\ mem # NoEpisode /\ ~unsaved
    BY <1>13, <1>r DEF Accept, At
  <2>2. ASSUME NEW item, Accepts(item) PROVE mem'.voice = mem.voice /\ unsaved'
    <3>. QED BY <2>2, <2>1, <1>m, AcceptsKeepsVoice
  <2>3. cc'.voice = cc.voice
    BY <1>13 DEF Accept
  <2>. QED BY <1>13, <2>1, <2>2, <2>3, <1>k DEF Accept, Passes, KeepsVoices
<1>14. CASE Recover
  <2>1. UNCHANGED disk /\ mem # NoEpisode /\ ~unsaved
    BY <1>14, <1>r DEF Recover, At
  <2>2. ASSUME NEW item, Accepts(item) PROVE mem'.voice = mem.voice /\ unsaved'
    <3>. QED BY <2>2, <2>1, <1>m, AcceptsKeepsVoice
  <2>3. cc'.voice = cc.voice
    BY <1>14, <1>t DEF Recover, CloneCast
  <2>4. ASSUME FailSession("research_acceptance") PROVE mem'.voice = mem.voice /\ unsaved'
    BY <2>4, <2>1, <1>m DEF FailSession, Sets, EpisodeSession
  <2>5. FailSession("research_acceptance") \/ \E item \in {cand, DuplicateOf(cand)} : Accepts(item)
    BY <1>14 DEF Recover
  <2>. QED BY <2>1, <2>2, <2>3, <2>4, <2>5, <1>k DEF KeepsVoices
<1>15. CASE ResearchFails
  BY <1>15, <1>m, <1>r, <1>k
     DEF ResearchFails, FailSession, Sets, EpisodeSession, KeepsVoices
<1>16. CASE ProvideScript
  BY <1>16, <1>m, <1>r, <1>k
     DEF ProvideScript, At, Sets, Passes, EpisodeSession, KeepsVoices
<1>17. CASE CreateEpisode
  BY <1>17, <1>m, <1>r, <1>k
     DEF CreateEpisode, At, Sets, Passes, EpisodeSession, KeepsVoices
<1>18. CASE ImportScript
  BY <1>18, <1>m, <1>r, <1>k
     DEF ImportScript, At, Sets, Passes, EpisodeSession, KeepsVoices
<1>19. CASE Preview
  BY <1>19, <1>m, <1>r, <1>k, AdvancedOK, StageNames
     DEF Preview, Stage, Sets, At, KeepsVoices
<1>20. CASE StartGeneration
  <2>1. mem \in EpisodeSession /\ mem # NoEpisode /\ ~unsaved /\ UNCHANGED <<disk, cc>>
    BY <1>20, <1>m, <1>r DEF StartGeneration, At
  <2>2. Advanced(mem, "saved_before_generation").voice = mem.voice
    BY <2>1, AdvancedOK, StageNames
  <2>. QED BY <1>20, <2>1, <2>2, <1>k DEF StartGeneration, Sets, Passes, KeepsVoices
<1>21. CASE KeepVoice
  <2>1. /\ At("voice") /\ UNCHANGED <<disk, cc>>
        /\ Sets([WithDelivery(mem, cc.preset) EXCEPT !.stage = "voice_assigned"], "preflight")
    BY <1>21 DEF KeepVoice
  <2>2. cc.preset \in Presets \cup {None}
    BY <1>t DEF CloneCast
  <2>. QED BY <2>1, <2>2, <1>m, <1>r, <1>k, DeliveryOK, StageNames DEF At, Sets, KeepsVoices
<1>22. CASE ChangeDelivery
  <2>. DEFINE kept == Cleared(Preserved(mem))
              new == WithDelivery(kept, mem.preset)
              ep == Advanced(new, "voice_assigned")
  <2>1. /\ At("voice") /\ Sets(ep, "preflight") /\ UNCHANGED disk
        /\ cc' = [cc EXCEPT !.preset = mem.preset]
    BY <1>22 DEF ChangeDelivery
  <2>2. mem \in EpisodeSession
    BY <2>1, <1>m, <1>r DEF At
  <2>3. kept \in EpisodeSession /\ kept.voice = mem.voice
    BY <2>2, PreservedOK, ClearedOK
  <2>. HIDE DEF kept
  <2>4. new \in EpisodeSession /\ new.voice = mem.voice
    BY <2>2, <2>3, PresetIsTyped, DeliveryOK
  <2>. HIDE DEF new
  <2>5. ep.voice = mem.voice
    BY <2>4, AdvancedOK, StageNames
  <2>6. cc'.voice = cc.voice
    BY <2>1, <1>t DEF CloneCast
  <2>. HIDE DEF ep
  <2>. QED BY <2>1, <2>5, <2>6, <1>r, <1>k DEF At, Sets, KeepsVoices
<1>23. CASE RefuseVoice
  BY <1>23, <1>m, <1>r, <1>k
     DEF RefuseVoice, Ends, KeepsVoices
<1>24. CASE Preflight
  BY <1>24, <1>m, <1>r, <1>k
     DEF Preflight, Stage, Sets, At, EpisodeSession, KeepsVoices
<1>25. CASE BeginRender
  BY <1>25, <1>m, <1>r, <1>k
     DEF BeginRender, Stage, Sets, At, EpisodeSession, KeepsVoices
<1>26. CASE Render
  BY <1>26, <1>t, <1>m, <1>r, <1>k
     DEF Render, At, FailSession, Sets, EpisodeSession, CloneCast, KeepsVoices
<1>27. CASE ValidateSpeech
  BY <1>27, <1>m, <1>r, <1>k
     DEF ValidateSpeech, Stage, Sets, At, EpisodeSession, KeepsVoices
<1>28. CASE Assemble
  BY <1>28, <1>m, <1>r, <1>k
     DEF Assemble, Stage, Sets, At, EpisodeSession, KeepsVoices
<1>29. CASE ValidateAudio
  BY <1>29, <1>m, <1>r, <1>k
     DEF ValidateAudio, Stage, Sets, At, EpisodeSession, KeepsVoices
<1>30. CASE ChooseMasteringKey
  BY <1>30, <1>m, <1>r, <1>k
     DEF ChooseMasteringKey, At, Sets, Passes, EpisodeSession, KeepsVoices
<1>31. CASE Master
  BY <1>31, <1>t, <1>m, <1>r, <1>k
     DEF Master, RecordMasteringResult, At, Sets, Ends, EpisodeSession, CloneCast, KeepsVoices
<1>32. CASE OpenGate
  BY <1>32, <1>m, <1>r, <1>k
     DEF OpenGate, Stage, Sets, At, EpisodeSession, KeepsVoices
<1>33. CASE PresetAppears
  BY <1>33, <1>t, <1>m, <1>r, <1>k
     DEF PresetAppears, CloneCast, KeepsVoices
<1>34. CASE OtherSessionAccepts
  BY <1>34, <1>t, <1>m, <1>r, <1>k
     DEF OtherSessionAccepts, CloneCast, KeepsVoices
<1>35. CASE Interrupt
  BY <1>35, <1>m, <1>r, <1>k
     DEF Interrupt, Ends, KeepsVoices
<1>36. CASE UNCHANGED vars
  BY <1>36, <1>k DEF vars, KeepsVoices
<1>. QED BY <1>1, <1>2, <1>3, <1>4, <1>5, <1>6, <1>7, <1>8, <1>9, <1>10, <1>11, <1>12,
            <1>13, <1>14, <1>15, <1>16, <1>17, <1>18, <1>19, <1>20, <1>21, <1>22, <1>23,
            <1>24, <1>25, <1>26, <1>27, <1>28, <1>29, <1>30, <1>31, <1>32, <1>33, <1>34,
            <1>35, <1>36
  DEF Next, RunStep

\* As long as nobody else assigns voices to the script, the assignment CloneCast has is
\* the one the record on disk asks for: no interruption, failure or new delivery makes
\* a later run stop at the refusal to overwrite it (_ensure_voice_assigned).
THEOREM AssignmentSurvives ==
    ASSUME "voice" \notin Outside
    PROVE  Spec => []AssignmentIsOurs
<1>1. Init => VoiceInv
  BY DEF Init, VoiceInv
<1>2. Inv /\ VoiceInv /\ [Next]_vars => VoiceInv'
  BY VoiceStep
<1>3. VoiceInv => AssignmentIsOurs
  BY DEF VoiceInv, AssignmentIsOurs, Saved
<1>. QED BY InitInv, StepInv, <1>1, <1>2, <1>3, PTL DEF Spec

(***************************************************************************)
(* Audio and deliveries.  Most steps leave the fields of the record alone  *)
(* that name a delivery; the few that do not are the cases of every proof  *)
(* below.                                                                  *)
(***************************************************************************)
AudioFields == {"voice", "preset", "delivery", "speechJob", "audioJob", "finalAudio", "mastered",
                "retry", "history", "eligible", "approvedAudio"}

KeepsAudio(new, ep) == \A field \in AudioFields : new[field] = ep[field]

\* They are fields of every record.
LEMMA AudioFieldsOK == \A ep \in EpisodeSession : AudioFields \subseteq DOMAIN ep
  BY DEF AudioFields, EpisodeSession

\* KeepsAudio, field by field.
LEMMA KeepsAudioFields ==
    ASSUME NEW new, NEW ep, KeepsAudio(new, ep)
    PROVE  /\ new.voice = ep.voice
           /\ new.preset = ep.preset /\ new.delivery = ep.delivery
           /\ new.speechJob = ep.speechJob /\ new.audioJob = ep.audioJob
           /\ new.finalAudio = ep.finalAudio /\ new.mastered = ep.mastered
           /\ new.retry = ep.retry
           /\ new.history = ep.history /\ new.eligible = ep.eligible
           /\ new.approvedAudio = ep.approvedAudio
  BY DEF KeepsAudio, AudioFields

\* Setting any other field keeps them.
LEMMA KeepsAudioSteps ==
    ASSUME NEW ep \in EpisodeSession, NEW value, NEW s
    PROVE  /\ KeepsAudio([ep EXCEPT !.stage = s], ep)
           /\ KeepsAudio([ep EXCEPT !.failed = value], ep)
           /\ KeepsAudio([ep EXCEPT !.studio = value], ep)
           /\ KeepsAudio([ep EXCEPT !.duration = value], ep)
           /\ KeepsAudio([ep EXCEPT !.source = value], ep)
           /\ KeepsAudio([ep EXCEPT !.imported = value, !.stage = s], ep)
           /\ KeepsAudio([ep EXCEPT !.preserved = value, !.stage = s], ep)
           /\ KeepsAudio([ep EXCEPT !.episode = value, !.stage = s], ep)
           /\ KeepsAudio([ep EXCEPT !.script = value, !.stage = s], ep)
           /\ KeepsAudio([ep EXCEPT !.failed = value, !.stage = s], ep)
           /\ KeepsAudio([ep EXCEPT !.research = value, !.failed = s], ep)
  BY AudioFieldsOK DEF KeepsAudio, AudioFields

\* So do _advance_stage and _normalize_completed_stage_from_saved_state.
LEMMA AdvancedKeepsAudio ==
    ASSUME NEW ep \in EpisodeSession, NEW s \in Stages
    PROVE  KeepsAudio(Advanced(ep, s), ep) /\ KeepsAudio(Normalised(ep), ep)
<1>1. \A t \in Stages : KeepsAudio(Advanced(ep, t), ep)
  <2>. TAKE t \in Stages
  <2>1. KeepsAudio([ep EXCEPT !.stage = t], ep)
    BY KeepsAudioSteps
  <2>2. KeepsAudio(ep, ep)
    BY DEF KeepsAudio
  <2>. QED BY <2>1, <2>2 DEF Advanced
<1>2. KeepsAudio(Normalised(ep), ep)
  BY <1>1, StageNames DEF Normalised, KeepsAudio
<1>. QED BY <1>1, <1>2

\* Two steps that each keep the audio keep it.
LEMMA KeepsAudioTwice ==
    ASSUME NEW a, NEW b, NEW c, KeepsAudio(a, b), KeepsAudio(b, c)
    PROVE  KeepsAudio(a, c)
  BY DEF KeepsAudio

\* Where the run is between saving the inputs and assigning the voice.
Preparing == pc \in {"create", "import", "preview", "start", "voice"} \/ again

\* A step of the run that has nothing to do with audio.
Quiet ==
    /\ disk' = disk
    /\ cc'.voice = cc.voice /\ cc'.preset = cc.preset
    /\ cc'.default = cc.default /\ cc'.masters = cc.masters /\ cc'.keys = cc.keys
    /\ \/ UNCHANGED <<mem, unsaved>>
       \/ /\ mem # NoEpisode /\ mem' # NoEpisode /\ ~unsaved /\ unsaved'
          /\ KeepsAudio(mem', mem)
    /\ pc' = "idle" /\ ~unsaved' => pc = "idle" /\ ~unsaved
    /\ Preparing' => Preparing

AudioStep ==
    \/ Save \/ Begin \/ ChooseInputs \/ AssignVoice \/ ChangeDelivery \/ KeepVoice
    \/ RefuseVoice \/ Render \/ Assemble \/ ChooseMasteringKey \/ Master \/ OpenGate
    \/ Decide \/ OwnerDecides \/ PresetAppears \/ VoiceAppears \/ Interrupt

\* Accepting an item keeps the audio.
LEMMA AcceptsKeepsAudio ==
    ASSUME mem \in EpisodeSession, ~unsaved, NEW item, Accepts(item),
           disk' = disk, cc'.voice = cc.voice, cc'.preset = cc.preset,
           cc'.default = cc.default, cc'.masters = cc.masters, cc'.keys = cc.keys
    PROVE  Quiet
<1>. DEFINE set == [mem EXCEPT !.research = item,
                               !.failed = IF @ = "research_acceptance" THEN None ELSE @]
            ep == Advanced(set, "research_accepted")
<1>1. /\ mem' = ep /\ unsaved' /\ again' = FALSE
      /\ pc' = IF again THEN "create" ELSE "script"
  BY DEF Accepts, Sets
<1>2. KeepsAudio(set, mem)
  BY AudioFieldsOK DEF KeepsAudio, AudioFields
<1>3. "stage" \in DOMAIN set /\ AudioFields \subseteq DOMAIN set
  BY AudioFieldsOK DEF EpisodeSession
<1>. HIDE DEF set
<1>4. KeepsAudio(ep, set)
  BY <1>3 DEF Advanced, KeepsAudio, AudioFields
<1>5. KeepsAudio(ep, mem)
  BY <1>2, <1>4, KeepsAudioTwice
<1>6. mem # NoEpisode /\ ep # NoEpisode
  <2>1. mem.voice \in Voices \cup {None} /\ DOMAIN ep = DOMAIN set /\ DOMAIN set = DOMAIN mem
    BY DEF Advanced, EpisodeSession, set
  <2>. QED BY <2>1 DEF NoEpisode, EpisodeSession
<1>. HIDE DEF ep
<1>. QED BY <1>1, <1>5, <1>6 DEF Quiet, Preparing

\* Every step has nothing to do with audio or is one of AudioStep.
LEMMA QuietSteps ==
    ASSUME Inv, [Next]_vars
    PROVE  Quiet \/ AudioStep
<1>m. mem # NoEpisode => mem \in EpisodeSession
  BY DEF Inv, TypeOK
<1>p. mem' # NoEpisode \/ ~unsaved'
  BY StepInv DEF Inv, RunInv
<1>c. cc \in CloneCast
  BY DEF Inv, TypeOK
<1>a. ASSUME NEW place \in Pcs \ {"idle"}, At(place)
      PROVE  mem \in EpisodeSession /\ mem # NoEpisode /\ ~unsaved /\ pc = place
  BY <1>a, <1>m DEF Inv, RunInv, At
\* A stage that only records something of another kind.
<1>s. ASSUME NEW place \in Pcs \ {"idle"}, At(place), NEW ep, NEW next,
             Sets(ep, next), KeepsAudio(ep, mem), disk' = disk,
             cc'.voice = cc.voice, cc'.preset = cc.preset,
             cc'.default = cc.default, cc'.masters = cc.masters, cc'.keys = cc.keys,
             Preparing' => Preparing
      PROVE  Quiet
  BY <1>s, <1>a, <1>p DEF Sets, Quiet
\* A step that only goes on to the next place.
<1>n. ASSUME NEW place \in Pcs \ {"idle"}, At(place), NEW next, Passes(next),
             next # "idle", UNCHANGED <<disk, cc>>, Preparing' => Preparing
      PROVE  Quiet
  BY <1>n, <1>a DEF Passes, Quiet
<1>1. CASE Confirm
  <2>1. At("confirm") /\ mem \in EpisodeSession
    BY <1>1, <1>a DEF Confirm, Stage, Pcs
  <2>2. Normalised(mem) \in EpisodeSession /\ KeepsAudio(Normalised(mem), mem)
    BY <2>1, NormalisedOK, AdvancedKeepsAudio, StageNames
  <2>3. KeepsAudio(Advanced(Normalised(mem), "target_confirmed"), mem)
    BY <2>2, AdvancedKeepsAudio, KeepsAudioTwice, StageNames
  <2>. QED BY <1>1, <2>1, <2>3, <1>s DEF Confirm, Stage, Pcs, Sets, Preparing
<1>2. CASE Discover
  <2>1. At("discover") /\ mem \in EpisodeSession
    BY <1>2, <1>a DEF Discover, Stage, Pcs
  <2>2. Normalised(mem) \in EpisodeSession /\ KeepsAudio(Normalised(mem), mem)
    BY <2>1, NormalisedOK, AdvancedKeepsAudio, StageNames
  <2>3. KeepsAudio(Advanced(Normalised(mem), "clonecast_discovered"), mem)
    BY <2>2, AdvancedKeepsAudio, KeepsAudioTwice, StageNames
  <2>. QED BY <1>2, <2>1, <2>3, <1>s DEF Discover, Stage, Pcs, Sets, Preparing
<1>3. CASE ChooseStudio
  <2>. DEFINE new == [Normalised(mem) EXCEPT !.studio = TRUE]
  <2>1. At("studio") /\ mem \in EpisodeSession
    BY <1>3, <1>a DEF ChooseStudio, Stage, Pcs
  <2>2. Normalised(mem) \in EpisodeSession /\ KeepsAudio(Normalised(mem), mem)
    BY <2>1, NormalisedOK, AdvancedKeepsAudio, StageNames
  <2>3. new \in EpisodeSession /\ KeepsAudio(new, mem)
    BY <2>2, ChoiceOK, KeepsAudioSteps, KeepsAudioTwice
  <2>. HIDE DEF new
  <2>4. KeepsAudio(Advanced(new, "studio_selected"), mem)
    BY <2>3, AdvancedKeepsAudio, KeepsAudioTwice, StageNames
  <2>. QED BY <1>3, <2>1, <2>4, <1>s DEF ChooseStudio, Stage, Pcs, Sets, Preparing, new
<1>4. CASE ChooseDuration
  <2>. DEFINE new == [Normalised(mem) EXCEPT !.duration = TRUE]
  <2>1. At("duration") /\ mem \in EpisodeSession
    BY <1>4, <1>a DEF ChooseDuration, Stage, Pcs
  <2>2. Normalised(mem) \in EpisodeSession /\ KeepsAudio(Normalised(mem), mem)
    BY <2>1, NormalisedOK, AdvancedKeepsAudio, StageNames
  <2>3. new \in EpisodeSession /\ KeepsAudio(new, mem)
    BY <2>2, ChoiceOK, KeepsAudioSteps, KeepsAudioTwice
  <2>. HIDE DEF new
  <2>4. KeepsAudio(Advanced(new, "duration_selected"), mem)
    BY <2>3, AdvancedKeepsAudio, KeepsAudioTwice, StageNames
  <2>. QED BY <1>4, <2>1, <2>4, <1>s DEF ChooseDuration, Stage, Pcs, Sets, Preparing, new
<1>5. CASE ProvideResearch
  <2>1. At("research") /\ mem \in EpisodeSession
    BY <1>5, <1>a DEF ProvideResearch, Pcs
  <2>2. KeepsAudio([mem EXCEPT !.source = TRUE], mem)
    BY <2>1, KeepsAudioSteps
  <2>3. UNCHANGED <<disk, again, cc>>
    BY <1>5 DEF ProvideResearch
  <2>4. ASSUME NEW next \in {"script", "ingest"}, Passes(next) PROVE Quiet
    <3>1. Preparing' => Preparing
      BY <2>3, <2>4 DEF Passes, Preparing
    <3>. QED BY <2>1, <2>3, <2>4, <3>1, <1>n DEF Pcs
  <2>5. CASE Sets([mem EXCEPT !.source = TRUE], "ingest")
    BY <2>1, <2>2, <2>3, <2>5, <1>s DEF Pcs, Sets, Preparing
  <2>. QED BY <1>5, <2>4, <2>5 DEF ProvideResearch
<1>6. CASE Ingest
  <2>1. At("ingest") /\ mem \in EpisodeSession /\ UNCHANGED <<disk, again, stops>>
    BY <1>6, <1>a DEF Ingest, Pcs
  <2>2. CASE mem.research # None \/ mem.imported # None
    <3>1. Passes("accept") /\ UNCHANGED cc
      BY <1>6, <2>2 DEF Ingest
    <3>2. Preparing' => Preparing
      BY <2>1, <3>1 DEF Passes, Preparing
    <3>. QED BY <2>1, <3>1, <3>2, <1>n DEF Pcs
  <2>3. CASE ~(mem.research # None \/ mem.imported # None)
    <3>1. PICK item \in {"own", "copy"}, state \in ItemStates \ {"absent"} :
            /\ cc' = [cc EXCEPT !.item[item] = state,
                                !.copyOf = IF item = "copy" /\ cc.item["own"] = "duplicate"
                                           THEN "canon" ELSE @]
            /\ Sets([mem EXCEPT !.imported = item, !.stage = "research_imported"], "accept")
      BY <1>6, <2>3 DEF Ingest
    <3>2. /\ cc'.voice = cc.voice /\ cc'.preset = cc.preset
          /\ cc'.default = cc.default /\ cc'.masters = cc.masters /\ cc'.keys = cc.keys
      BY <3>1, <1>c DEF CloneCast
    <3>3. KeepsAudio([mem EXCEPT !.imported = item, !.stage = "research_imported"], mem)
      BY <2>1, KeepsAudioSteps
    <3>4. Preparing' => Preparing
      BY <2>1, <3>1 DEF Preparing, Sets
    <3>. QED BY <2>1, <3>1, <3>2, <3>3, <3>4, <1>s DEF Pcs
  <2>. QED BY <2>2, <2>3
<1>7. CASE Accept
  <2>1. /\ At("accept") /\ mem \in EpisodeSession /\ mem # NoEpisode /\ ~unsaved
        /\ UNCHANGED <<disk, cc>>
    BY <1>7, <1>a DEF Accept, Pcs
  <2>2. CASE Accepts(Shown(cand))
    BY <2>1, <2>2, AcceptsKeepsAudio
  <2>3. CASE Passes("recover") /\ UNCHANGED again
    BY <2>1, <2>3, <1>n DEF Pcs, Passes, Preparing
  <2>. QED BY <1>7, <2>2, <2>3 DEF Accept
<1>8. CASE Recover
  <2>1. At("recover") /\ mem \in EpisodeSession /\ ~unsaved /\ disk' = disk
    BY <1>8, <1>a DEF Recover, Pcs
  <2>2. /\ cc'.voice = cc.voice /\ cc'.preset = cc.preset
        /\ cc'.default = cc.default /\ cc'.masters = cc.masters /\ cc'.keys = cc.keys
    BY <1>8, <1>c DEF Recover, CloneCast
  <2>3. ASSUME NEW item, Accepts(item) PROVE Quiet
    BY <2>1, <2>2, <2>3, AcceptsKeepsAudio
  <2>4. CASE FailSession("research_acceptance")
    <3>1. KeepsAudio([mem EXCEPT !.failed = "research_acceptance"], mem)
      BY <2>1, KeepsAudioSteps
    <3>. QED BY <2>1, <2>2, <2>4, <3>1, <1>s DEF FailSession, Sets, Pcs, Preparing
  <2>5. FailSession("research_acceptance") \/ \E item \in {cand, DuplicateOf(cand)} : Accepts(item)
    BY <1>8 DEF Recover
  <2>. QED BY <2>3, <2>4, <2>5
<1>9. CASE ResearchFails
  <2>1. PICK place \in {"ingest", "accept", "recover"} : At(place)
    BY <1>9 DEF ResearchFails, At
  <2>2. mem \in EpisodeSession
    BY <2>1, <1>a DEF Pcs
  <2>3. KeepsAudio([mem EXCEPT !.failed = "research_acceptance"], mem)
    BY <2>2, KeepsAudioSteps
  <2>. QED BY <1>9, <2>1, <2>3, <1>s DEF ResearchFails, FailSession, Sets, Pcs, Preparing
<1>10. CASE ProvideScript
  <2>1. At("script") /\ mem \in EpisodeSession /\ UNCHANGED <<disk, again, cc>>
    BY <1>10, <1>a DEF ProvideScript, Pcs
  <2>2. KeepsAudio([mem EXCEPT !.preserved = TRUE, !.stage = "approved_script_preserved"], mem)
    BY <2>1, KeepsAudioSteps
  <2>3. pc' = "inputs" /\ (Preparing' => Preparing)
    BY <1>10, <2>1 DEF ProvideScript, Sets, Passes, Preparing
  <2>. QED BY <1>10, <2>1, <2>2, <2>3, <1>n, <1>s DEF ProvideScript, Pcs
<1>11. CASE CreateEpisode
  <2>1. At("create") /\ mem \in EpisodeSession /\ UNCHANGED <<disk, again, cc>> /\ Preparing
    BY <1>11, <1>a DEF CreateEpisode, Pcs, Preparing, At
  <2>2. KeepsAudio([mem EXCEPT !.episode = TRUE, !.stage = "episode_created"], mem)
    BY <2>1, KeepsAudioSteps
  <2>. QED BY <1>11, <2>1, <2>2, <1>n, <1>s DEF CreateEpisode, Pcs
<1>12. CASE ImportScript
  <2>1. At("import") /\ mem \in EpisodeSession /\ UNCHANGED <<disk, again, cc>> /\ Preparing
    BY <1>12, <1>a DEF ImportScript, Pcs, Preparing, At
  <2>2. KeepsAudio([mem EXCEPT !.script = TRUE, !.stage = "approved_script_imported"], mem)
    BY <2>1, KeepsAudioSteps
  <2>. QED BY <1>12, <2>1, <2>2, <1>n, <1>s DEF ImportScript, Pcs
<1>13. CASE Preview
  <2>1. At("preview") /\ mem \in EpisodeSession /\ Preparing
    BY <1>13, <1>a DEF Preview, Stage, Pcs, Preparing, At
  <2>2. KeepsAudio(Advanced(mem, "speech_text_previewed"), mem)
    BY <2>1, AdvancedKeepsAudio, StageNames
  <2>. QED BY <1>13, <2>1, <2>2, <1>s DEF Preview, Stage, Pcs
<1>14. CASE StartGeneration
  <2>1. /\ At("start") /\ mem \in EpisodeSession /\ UNCHANGED <<disk, again, cc>>
        /\ Preparing
    BY <1>14, <1>a DEF StartGeneration, Pcs, Preparing, At
  <2>2. KeepsAudio(Advanced(mem, "saved_before_generation"), mem)
    BY <2>1, AdvancedKeepsAudio, StageNames
  <2>. QED BY <1>14, <2>1, <2>2, <1>n, <1>s DEF StartGeneration, Pcs
<1>15. CASE Preflight
  <2>1. At("preflight") /\ mem \in EpisodeSession
    BY <1>15, <1>a DEF Preflight, Stage, Pcs
  <2>2. KeepsAudio([mem EXCEPT !.stage = "speech_provider_preflight"], mem)
    BY <2>1, KeepsAudioSteps
  <2>. QED BY <1>15, <2>1, <2>2, <1>s DEF Preflight, Stage, Sets, Pcs, Preparing
<1>16. CASE BeginRender
  <2>1. At("render") /\ mem \in EpisodeSession
    BY <1>16, <1>a DEF BeginRender, Stage, Pcs
  <2>2. KeepsAudio([mem EXCEPT !.failed = None, !.stage = "speech_rendering"], mem)
    BY <2>1, KeepsAudioSteps
  <2>. QED BY <1>16, <2>1, <2>2, <1>s DEF BeginRender, Stage, Sets, Pcs, Preparing
<1>17. CASE ValidateSpeech
  <2>1. At("validate") /\ mem \in EpisodeSession
    BY <1>17, <1>a DEF ValidateSpeech, Stage, Pcs
  <2>2. KeepsAudio([mem EXCEPT !.stage = "speech_validated"], mem)
    BY <2>1, KeepsAudioSteps
  <2>. QED BY <1>17, <2>1, <2>2, <1>s DEF ValidateSpeech, Stage, Sets, Pcs, Preparing
<1>18. CASE ValidateAudio
  <2>1. At("validateAudio") /\ mem \in EpisodeSession
    BY <1>18, <1>a DEF ValidateAudio, Stage, Pcs
  <2>2. KeepsAudio([mem EXCEPT !.stage = "episode_validated"], mem)
    BY <2>1, KeepsAudioSteps
  <2>. QED BY <1>18, <2>1, <2>2, <1>s DEF ValidateAudio, Stage, Sets, Pcs, Preparing
<1>19. CASE OtherSessionAccepts
  <2>1. /\ cc'.voice = cc.voice /\ cc'.preset = cc.preset
        /\ cc'.default = cc.default /\ cc'.masters = cc.masters /\ cc'.keys = cc.keys
    BY <1>19, <1>c DEF OtherSessionAccepts, CloneCast
  <2>. QED BY <1>19, <2>1 DEF OtherSessionAccepts, Quiet, Preparing
<1>20. CASE UNCHANGED vars
  BY <1>20 DEF vars, Quiet, Preparing
<1>21. CASE AudioStep
  BY <1>21
<1>. QED BY <1>1, <1>2, <1>3, <1>4, <1>5, <1>6, <1>7, <1>8, <1>9, <1>10, <1>11, <1>12,
            <1>13, <1>14, <1>15, <1>16, <1>17, <1>18, <1>19, <1>20, <1>21
     DEF Next, RunStep, AudioStep

(***************************************************************************)
(* What a stage says about the record (completed_stage).                   *)
(***************************************************************************)
\* The evidence for the stage of a record, and what it holds beside it.
Evidence(ep, masters) ==
    /\ StageOrder[ep.stage] \in 100..200 => ep.episode /\ ep.preserved
    /\ StageOrder[ep.stage] \in 110..200 => ep.script
    /\ StageOrder[ep.stage] \in 150..200 => ep.speechJob # None
    /\ StageOrder[ep.stage] \in 170..200 => ep.audioJob = ep.speechJob
    /\ ep.stage \in {"episode_mastered", "listening_gate", "owner_approved"} =>
           ep.finalAudio # None
    /\ ep.finalAudio # None => ep.finalAudio \in masters
    /\ ep.audioJob # None /\ ~ep.mastered =>
           /\ ep.audioJob = ep.speechJob
           /\ ep.episode /\ ep.script /\ ep.preserved

\* Places where the script is imported, places before the audio is assembled, and
\* places where it is.
Scripted == {"preview", "start", "voice", "preflight", "render", "rendering", "validate",
             "assemble"}
BeforeAudio == {"studio", "duration", "research", "ingest", "accept", "recover", "script",
                "inputs", "create", "import"} \cup Scripted
WithAudio == {"validateAudio", "masterKey", "master", "gate"}

\* What a run's copy of the record holds at a place; twice: the research is being
\* confirmed for the second time.
RunHas(ep, place, twice) ==
    /\ twice => place \in {"accept", "recover"}
    /\ place \in {"inputs", "create", "import"} \cup Scripted \/ twice => ep.preserved
    /\ place \in {"import"} \cup Scripted => ep.episode
    /\ place \in Scripted => ep.script
    /\ place \in {"create", "import", "preview", "start", "voice"} \/ twice =>
           StageOrder[ep.stage] <= 118
    /\ place \in BeforeAudio /\ ~ep.mastered => ep.audioJob = None
    /\ place \in WithAudio =>
           /\ ep.audioJob = ep.speechJob /\ ep.audioJob # None
           /\ ep.episode /\ ep.script /\ ep.preserved
    /\ place = "gate" => ep.finalAudio # None

StageInv ==
    /\ disk # NoEpisode => Evidence(disk, cc.masters)
    /\ mem # NoEpisode => Evidence(mem, cc.masters)
    /\ RunHas(mem, pc, again)

\* The order of the stages (STAGE_ORDER).
LEMMA StageNumbers ==
    /\ StageOrder["created"] = 0 /\ StageOrder["target_confirmed"] = 10
    /\ StageOrder["clonecast_discovered"] = 20 /\ StageOrder["studio_selected"] = 30
    /\ StageOrder["duration_selected"] = 40 /\ StageOrder["research_imported"] = 50
    /\ StageOrder["research_accepted"] = 60 /\ StageOrder["approved_script_preserved"] = 70
    /\ StageOrder["inputs_validated"] = 80 /\ StageOrder["episode_created"] = 100
    /\ StageOrder["approved_script_imported"] = 110
    /\ StageOrder["speech_text_previewed"] = 115
    /\ StageOrder["saved_before_generation"] = 118
    /\ StageOrder["voice_assigned"] = 120 /\ StageOrder["speech_provider_preflight"] = 130
    /\ StageOrder["speech_rendering"] = 140 /\ StageOrder["speech_rendered"] = 150
    /\ StageOrder["speech_validated"] = 160 /\ StageOrder["episode_assembled"] = 170
    /\ StageOrder["episode_validated"] = 180 /\ StageOrder["episode_mastered"] = 190
    /\ StageOrder["listening_gate"] = 200 /\ StageOrder["review_rejected"] = 210
    /\ StageOrder["owner_approved"] = 230
    /\ \A s \in Stages : StageOrder[s] \in Nat
  BY DEF StageOrder, Stages

\* The fields the evidence is about.
WorkFields == {"episode", "script", "preserved", "speechJob", "audioJob", "finalAudio",
               "mastered"}

KeepsWork(new, ep) == \A field \in WorkFields : new[field] = ep[field]

\* A record has the fields that a stage's evidence is made of.
LEMMA WorkFieldsOK == \A ep \in EpisodeSession : WorkFields \cup {"stage"} \subseteq DOMAIN ep
  BY DEF WorkFields, EpisodeSession

\* KeepsWork, field by field.
LEMMA KeepsWorkFields ==
    ASSUME NEW new, NEW ep, KeepsWork(new, ep)
    PROVE  /\ new.episode = ep.episode /\ new.script = ep.script
           /\ new.preserved = ep.preserved /\ new.speechJob = ep.speechJob
           /\ new.audioJob = ep.audioJob /\ new.finalAudio = ep.finalAudio
           /\ new.mastered = ep.mastered
  BY DEF KeepsWork, WorkFields

\* Two steps that each keep the evidence keep it.
LEMMA KeepsWorkTwice ==
    ASSUME NEW a, NEW b, NEW c, KeepsWork(a, b), KeepsWork(b, c)
    PROVE  KeepsWork(a, c)
  BY DEF KeepsWork

\* _advance_stage and _normalize_completed_stage_from_saved_state keep them, and leave
\* the stage as it is or set the one that was reached.
LEMMA AdvancedKeepsWork ==
    ASSUME NEW ep, NEW s, WorkFields \cup {"stage"} \subseteq DOMAIN ep
    PROVE  KeepsWork(Advanced(ep, s), ep) /\ Advanced(ep, s).stage \in {ep.stage, s}
  BY DEF Advanced, KeepsWork, WorkFields

\* The normalisation of a resumed record's stage keeps the evidence.
LEMMA NormalisedKeepsWork ==
    ASSUME NEW ep \in EpisodeSession
    PROVE  /\ KeepsWork(Normalised(ep), ep)
           /\ Normalised(ep).stage \in {ep.stage, "research_accepted"}
<1>1. /\ KeepsWork(Advanced(ep, "research_accepted"), ep)
      /\ Advanced(ep, "research_accepted").stage \in {ep.stage, "research_accepted"}
  BY WorkFieldsOK, AdvancedKeepsWork
<1>2. KeepsWork(ep, ep)
  BY DEF KeepsWork
<1>. QED BY <1>1, <1>2 DEF Normalised

\* The stages before the episode is created, for which nothing need be there.
Early == {"target_confirmed", "clonecast_discovered", "studio_selected", "duration_selected",
          "research_imported", "research_accepted", "approved_script_preserved",
          "inputs_validated"}

\* A record that differs in nothing but an early stage has evidence.
LEMMA EarlyStage ==
    ASSUME NEW ep, NEW new, NEW masters, Evidence(ep, masters), KeepsWork(new, ep),
           new.stage \in {ep.stage} \cup Early
    PROVE  Evidence(new, masters)
<1>1. CASE new.stage = ep.stage
  BY <1>1, KeepsWorkFields DEF Evidence
<1>2. CASE new.stage \in Early
  <2>1. StageOrder[new.stage] <= 80 /\ StageOrder[new.stage] \in Nat
    BY <1>2, StageNumbers DEF Early
  <2>2. /\ StageOrder[new.stage] \notin 100..200 /\ StageOrder[new.stage] \notin 110..200
        /\ StageOrder[new.stage] \notin 150..200 /\ StageOrder[new.stage] \notin 170..200
    BY <2>1
  <2>3. new.stage \notin {"episode_mastered", "listening_gate", "owner_approved"}
    BY <1>2 DEF Early
  <2>. QED BY <2>2, <2>3, KeepsWorkFields DEF Evidence
<1>. QED BY <1>1, <1>2

\* Mastering jobs only become more.
LEMMA MoreMasters ==
    ASSUME NEW ep, NEW masters, NEW more, Evidence(ep, masters), masters \subseteq more
    PROVE  Evidence(ep, more)
  BY DEF Evidence

\* A step that changes the run's copy of the record.
LEMMA EvidenceSets ==
    ASSUME StageInv, NEW ep, NEW next, Sets(ep, next), disk' = disk,
           cc.masters \subseteq cc'.masters, Evidence(ep, cc'.masters),
           RunHas(ep, next, again')
    PROVE  StageInv'
<1>1. disk # NoEpisode => Evidence(disk, cc'.masters)
  BY MoreMasters DEF StageInv
<1>. QED BY <1>1 DEF StageInv, Sets

\* A step that leaves both records alone.
LEMMA EvidencePasses ==
    ASSUME StageInv, UNCHANGED <<disk, mem>>, cc.masters \subseteq cc'.masters,
           RunHas(mem, pc', again')
    PROVE  StageInv'
<1>1. /\ disk # NoEpisode => Evidence(disk, cc'.masters)
      /\ mem # NoEpisode => Evidence(mem, cc'.masters)
  BY MoreMasters DEF StageInv
<1>. QED BY <1>1 DEF StageInv

\* The end of a run.
LEMMA EvidenceEnds ==
    ASSUME StageInv, Ends, cc.masters \subseteq cc'.masters,
           disk' # NoEpisode => Evidence(disk', cc.masters)
    PROVE  StageInv'
<1>1. disk' # NoEpisode => Evidence(disk', cc'.masters)
  BY MoreMasters
<1>. QED BY <1>1 DEF StageInv, Ends, RunHas, Scripted, BeforeAudio, WithAudio

\* Recording a decision.
LEMMA EvidenceDecision ==
    ASSUME NEW ep \in EpisodeSession, NEW masters, Evidence(ep, masters)
    PROVE  /\ CanApprove(ep) => Evidence(Approve(ep), masters)
           /\ Evidence(Reject(ep), masters)
<1>1. KeepsWork(Approve(ep), ep) /\ Approve(ep).stage = "owner_approved"
  BY WorkFieldsOK DEF Approve, KeepsWork, WorkFields
<1>2. KeepsWork(Reject(ep), ep) /\ Reject(ep).stage = "review_rejected"
  BY WorkFieldsOK DEF Reject, KeepsWork, WorkFields
<1>. QED BY <1>1, <1>2, KeepsWorkFields, StageNumbers DEF Evidence, CanApprove

\* Accepting an item.
LEMMA EvidenceAccepts ==
    ASSUME StageInv, mem \in EpisodeSession, mem # NoEpisode, NEW item, Accepts(item),
           pc \in {"accept", "recover"}, disk' = disk, cc'.masters = cc.masters
    PROVE  StageInv'
<1>. DEFINE set == [mem EXCEPT !.research = item,
                               !.failed = IF @ = "research_acceptance" THEN None ELSE @]
            ep == Advanced(set, "research_accepted")
            next == IF again THEN "create" ELSE "script"
<1>1. Sets(ep, next) /\ again' = FALSE
  BY DEF Accepts
<1>2. KeepsWork(set, mem) /\ set.stage = mem.stage /\ WorkFields \cup {"stage"} \subseteq DOMAIN set
  BY WorkFieldsOK DEF KeepsWork, WorkFields
<1>. HIDE DEF set
<1>3. KeepsWork(ep, mem) /\ ep.stage \in {mem.stage, "research_accepted"}
  BY <1>2, AdvancedKeepsWork, KeepsWorkTwice
<1>. HIDE DEF ep
<1>4. Evidence(ep, cc'.masters)
  BY <1>3, EarlyStage DEF StageInv, Early
<1>5. StageOrder[mem.stage] <= 118 => StageOrder[ep.stage] <= 118
  BY <1>3, StageNumbers
<1>6. RunHas(ep, next, FALSE)
  BY <1>3, <1>5, KeepsWorkFields DEF StageInv, RunHas, Scripted, BeforeAudio, WithAudio
<1>. QED BY <1>1, <1>4, <1>6, EvidenceSets

\* A stage that is recorded early in a run.
LEMMA EvidenceEarly ==
    ASSUME StageInv, mem # NoEpisode, NEW ep, NEW next, Sets(ep, next), disk' = disk,
           cc'.masters = cc.masters, KeepsWork(ep, mem), ep.stage \in {mem.stage} \cup Early,
           RunHas(ep, next, again')
    PROVE  StageInv'
<1>1. Evidence(ep, cc'.masters)
  BY EarlyStage DEF StageInv
<1>. QED BY <1>1, EvidenceSets

\* Every step leaves the stages of both records backed by evidence.
LEMMA StageInvStep == ASSUME Inv, StageInv, [Next]_vars PROVE StageInv'
<1>m. mem # NoEpisode => mem \in EpisodeSession
  BY DEF Inv, TypeOK
<1>d. disk # NoEpisode => disk \in EpisodeSession
  BY DEF Inv, TypeOK
<1>c. cc \in CloneCast
  BY DEF Inv, TypeOK
<1>a. ASSUME NEW place \in Pcs \ {"idle"}, At(place)
      PROVE  /\ mem \in EpisodeSession /\ mem # NoEpisode /\ ~unsaved /\ pc = place
             /\ Evidence(mem, cc.masters) /\ RunHas(mem, place, again)
             /\ HasAudio(mem, place) /\ disk # NoEpisode
  BY <1>a, <1>m DEF Inv, RunInv, AudioInv, At, StageInv
<1>1. CASE Save
  BY <1>1 DEF Save, StageInv, Inv, RunInv, RunHas, Scripted, BeforeAudio, WithAudio
<1>2. CASE Begin
  <2>1. again' = again /\ cc' = cc /\ disk' = disk /\ pc = "idle" /\ pc' = "confirm"
    BY <1>2 DEF Begin, At, Sets
  <2>2. RunHas(mem', "confirm", again')
    BY <2>1 DEF StageInv, RunHas, Scripted, BeforeAudio, WithAudio
  <2>3. CASE disk = NoEpisode
    <3>1. Evidence(NewEpisode, cc.masters)
      BY StageNumbers DEF Evidence, NewEpisode
    <3>. QED BY <1>2, <2>1, <2>2, <2>3, <3>1 DEF Begin, Sets, StageInv
  <2>4. CASE disk # NoEpisode
    BY <1>2, <2>1, <2>2, <2>4 DEF Begin, StageInv
  <2>. QED BY <2>3, <2>4
<1>3. CASE Confirm
  <2>. DEFINE ep == Advanced(Normalised(mem), "target_confirmed")
  <2>1. At("confirm") /\ Sets(ep, "discover") /\ UNCHANGED <<disk, again, cc>>
    BY <1>3 DEF Confirm, Stage
  <2>2. mem \in EpisodeSession /\ mem # NoEpisode /\ RunHas(mem, "confirm", again)
    BY <2>1, <1>a DEF Pcs
  <2>3. KeepsWork(ep, mem) /\ ep.stage \in {mem.stage} \cup Early
    BY <2>2, NormalisedOK, NormalisedKeepsWork, AdvancedKeepsWork, WorkFieldsOK,
       KeepsWorkTwice DEF Early
  <2>. HIDE DEF ep
  <2>4. RunHas(ep, "discover", again')
    BY <2>1, <2>2 DEF RunHas, Scripted, BeforeAudio, WithAudio
  <2>. QED BY <2>1, <2>2, <2>3, <2>4, EvidenceEarly
<1>4. CASE Discover
  <2>. DEFINE ep == Advanced(Normalised(mem), "clonecast_discovered")
              next == IF mem.audioJob # None /\ ~mem.mastered THEN "masterKey" ELSE "studio"
  <2>1. At("discover") /\ Sets(ep, next) /\ UNCHANGED <<disk, again, cc>>
    BY <1>4 DEF Discover, Stage
  <2>2. /\ mem \in EpisodeSession /\ mem # NoEpisode /\ RunHas(mem, "discover", again)
        /\ Evidence(mem, cc.masters)
    BY <2>1, <1>a DEF Pcs
  <2>3. KeepsWork(ep, mem) /\ ep.stage \in {mem.stage} \cup Early
    BY <2>2, NormalisedOK, NormalisedKeepsWork, AdvancedKeepsWork, WorkFieldsOK,
       KeepsWorkTwice DEF Early
  <2>. HIDE DEF ep
  <2>4. RunHas(ep, next, again')
    BY <2>1, <2>2, <2>3, KeepsWorkFields
       DEF RunHas, Evidence, Scripted, BeforeAudio, WithAudio
  <2>. QED BY <2>1, <2>2, <2>3, <2>4, EvidenceEarly
<1>5. CASE ChooseStudio
  <2>. DEFINE set == [Normalised(mem) EXCEPT !.studio = TRUE]
              ep == Advanced(set, "studio_selected")
  <2>1. At("studio") /\ Sets(ep, "duration") /\ UNCHANGED <<disk, again, cc>>
    BY <1>5 DEF ChooseStudio, Stage
  <2>2. mem \in EpisodeSession /\ mem # NoEpisode /\ RunHas(mem, "studio", again)
    BY <2>1, <1>a DEF Pcs
  <2>3. /\ KeepsWork(set, Normalised(mem)) /\ set.stage = Normalised(mem).stage
        /\ WorkFields \cup {"stage"} \subseteq DOMAIN set
    BY <2>2, NormalisedOK, WorkFieldsOK DEF KeepsWork, WorkFields
  <2>. HIDE DEF set
  <2>4. KeepsWork(ep, mem) /\ ep.stage \in {mem.stage} \cup Early
    BY <2>2, <2>3, NormalisedKeepsWork, AdvancedKeepsWork, KeepsWorkTwice DEF Early
  <2>. HIDE DEF ep
  <2>5. RunHas(ep, "duration", again')
    BY <2>1, <2>2, <2>4, KeepsWorkFields DEF RunHas, Scripted, BeforeAudio, WithAudio
  <2>. QED BY <2>1, <2>2, <2>4, <2>5, EvidenceEarly
<1>6. CASE ChooseDuration
  <2>. DEFINE set == [Normalised(mem) EXCEPT !.duration = TRUE]
              ep == Advanced(set, "duration_selected")
  <2>1. At("duration") /\ Sets(ep, "research") /\ UNCHANGED <<disk, again, cc>>
    BY <1>6 DEF ChooseDuration, Stage
  <2>2. mem \in EpisodeSession /\ mem # NoEpisode /\ RunHas(mem, "duration", again)
    BY <2>1, <1>a DEF Pcs
  <2>3. /\ KeepsWork(set, Normalised(mem)) /\ set.stage = Normalised(mem).stage
        /\ WorkFields \cup {"stage"} \subseteq DOMAIN set
    BY <2>2, NormalisedOK, WorkFieldsOK DEF KeepsWork, WorkFields
  <2>. HIDE DEF set
  <2>4. KeepsWork(ep, mem) /\ ep.stage \in {mem.stage} \cup Early
    BY <2>2, <2>3, NormalisedKeepsWork, AdvancedKeepsWork, KeepsWorkTwice DEF Early
  <2>. HIDE DEF ep
  <2>5. RunHas(ep, "research", again')
    BY <2>1, <2>2, <2>4, KeepsWorkFields DEF RunHas, Scripted, BeforeAudio, WithAudio
  <2>. QED BY <2>1, <2>2, <2>4, <2>5, EvidenceEarly
<1>7. CASE ProvideResearch
  <2>1. At("research") /\ UNCHANGED <<disk, again, cc>>
    BY <1>7 DEF ProvideResearch
  <2>2. mem \in EpisodeSession /\ mem # NoEpisode /\ RunHas(mem, "research", again)
    BY <2>1, <1>a DEF Pcs
  <2>3. ASSUME NEW next \in {"script", "ingest"}, Passes(next) PROVE StageInv'
    <3>1. RunHas(mem, next, again')
      BY <2>1, <2>2 DEF RunHas, Scripted, BeforeAudio, WithAudio
    <3>. QED BY <2>1, <2>3, <3>1, EvidencePasses DEF Passes
  <2>4. CASE Sets([mem EXCEPT !.source = TRUE], "ingest")
    <3>. DEFINE ep == [mem EXCEPT !.source = TRUE]
    <3>1. KeepsWork(ep, mem) /\ ep.stage = mem.stage
      BY <2>2, WorkFieldsOK DEF KeepsWork, WorkFields
    <3>. HIDE DEF ep
    <3>2. RunHas(ep, "ingest", again')
      BY <2>1, <2>2, <3>1, KeepsWorkFields DEF RunHas, Scripted, BeforeAudio, WithAudio
    <3>. QED BY <2>1, <2>2, <2>4, <3>1, <3>2, EvidenceEarly DEF ep
  <2>. QED BY <1>7, <2>3, <2>4 DEF ProvideResearch
<1>8. CASE Ingest
  <2>1. At("ingest") /\ UNCHANGED <<disk, again>>
    BY <1>8 DEF Ingest
  <2>2. mem \in EpisodeSession /\ mem # NoEpisode /\ RunHas(mem, "ingest", again)
    BY <2>1, <1>a DEF Pcs
  <2>3. CASE mem.research # None \/ mem.imported # None
    <3>1. Passes("accept") /\ UNCHANGED cc
      BY <1>8, <2>3 DEF Ingest
    <3>2. RunHas(mem, "accept", again')
      BY <2>1, <2>2 DEF RunHas, Scripted, BeforeAudio, WithAudio
    <3>. QED BY <2>1, <3>1, <3>2, EvidencePasses DEF Passes
  <2>4. CASE ~(mem.research # None \/ mem.imported # None)
    <3>1. PICK item \in {"own", "copy"}, state \in ItemStates \ {"absent"} :
            /\ cc' = [cc EXCEPT !.item[item] = state,
                                !.copyOf = IF item = "copy" /\ cc.item["own"] = "duplicate"
                                           THEN "canon" ELSE @]
            /\ Sets([mem EXCEPT !.imported = item, !.stage = "research_imported"], "accept")
      BY <1>8, <2>4 DEF Ingest
    <3>2. cc'.masters = cc.masters
      BY <3>1, <1>c DEF CloneCast
    <3>. DEFINE ep == [mem EXCEPT !.imported = item, !.stage = "research_imported"]
    <3>3. KeepsWork(ep, mem) /\ ep.stage = "research_imported"
      BY <2>2, WorkFieldsOK DEF KeepsWork, WorkFields
    <3>. HIDE DEF ep
    <3>4. RunHas(ep, "accept", again')
      BY <2>1, <2>2, <3>3, KeepsWorkFields DEF RunHas, Scripted, BeforeAudio, WithAudio
    <3>. QED BY <2>1, <2>2, <3>1, <3>2, <3>3, <3>4, EvidenceEarly DEF ep, Early
  <2>. QED BY <2>3, <2>4
<1>9. CASE Accept
  <2>1. At("accept") /\ UNCHANGED <<disk, cc>>
    BY <1>9 DEF Accept
  <2>2. /\ mem \in EpisodeSession /\ mem # NoEpisode /\ RunHas(mem, "accept", again)
        /\ pc = "accept"
    BY <2>1, <1>a DEF Pcs
  <2>3. CASE Accepts(Shown(cand))
    BY <2>1, <2>2, <2>3, EvidenceAccepts
  <2>4. CASE Passes("recover") /\ UNCHANGED again
    <3>1. RunHas(mem, "recover", again')
      BY <2>2, <2>4 DEF RunHas, Scripted, BeforeAudio, WithAudio
    <3>. QED BY <2>1, <2>4, <3>1, EvidencePasses DEF Passes
  <2>. QED BY <1>9, <2>3, <2>4 DEF Accept
<1>f. ASSUME NEW stage, FailSession(stage), NEW place \in Pcs \ {"idle"}, At(place),
             disk' = disk, cc'.masters = cc.masters
      PROVE  StageInv'
  <2>. DEFINE ep == [mem EXCEPT !.failed = stage]
  <2>1. mem \in EpisodeSession /\ mem # NoEpisode
    BY <1>f, <1>a
  <2>2. KeepsWork(ep, mem) /\ ep.stage = mem.stage
    BY <2>1, WorkFieldsOK DEF KeepsWork, WorkFields
  <2>. HIDE DEF ep
  <2>3. RunHas(ep, "idle", FALSE)
    BY DEF RunHas, Scripted, BeforeAudio, WithAudio
  <2>. QED BY <1>f, <2>1, <2>2, <2>3, EvidenceEarly DEF FailSession, ep
<1>10. CASE Recover
  <2>1. At("recover") /\ UNCHANGED disk
    BY <1>10 DEF Recover
  <2>2. mem \in EpisodeSession /\ mem # NoEpisode /\ pc = "recover"
    BY <2>1, <1>a DEF Pcs
  <2>3. cc'.masters = cc.masters
    BY <1>10, <1>c DEF Recover, CloneCast
  <2>4. ASSUME NEW item, Accepts(item) PROVE StageInv'
    BY <2>1, <2>2, <2>3, <2>4, EvidenceAccepts
  <2>5. CASE FailSession("research_acceptance")
    BY <2>1, <2>3, <2>5, <1>f DEF Pcs
  <2>6. FailSession("research_acceptance") \/ \E item \in {cand, DuplicateOf(cand)} : Accepts(item)
    BY <1>10 DEF Recover
  <2>. QED BY <2>4, <2>5, <2>6
<1>11. CASE ResearchFails
  <2>1. PICK place \in {"ingest", "accept", "recover"} : At(place)
    BY <1>11 DEF ResearchFails, At
  <2>. QED BY <1>11, <2>1, <1>f DEF ResearchFails, Pcs
<1>12. CASE ProvideScript
  <2>1. At("script") /\ UNCHANGED <<disk, again, cc>>
    BY <1>12 DEF ProvideScript
  <2>2. /\ mem \in EpisodeSession /\ mem # NoEpisode /\ RunHas(mem, "script", again)
        /\ Evidence(mem, cc.masters)
    BY <2>1, <1>a DEF Pcs
  <2>3. CASE mem.preserved
    <3>1. RunHas(mem, "inputs", again')
      BY <2>1, <2>2, <2>3 DEF RunHas, Scripted, BeforeAudio, WithAudio
    <3>. QED BY <1>12, <2>1, <2>3, <3>1, EvidencePasses DEF ProvideScript, Passes
  <2>4. CASE ~mem.preserved
    <3>. DEFINE ep == [mem EXCEPT !.preserved = TRUE, !.stage = "approved_script_preserved"]
    <3>1. /\ ep.preserved = TRUE /\ ep.stage = "approved_script_preserved"
          /\ ep.episode = mem.episode /\ ep.script = mem.script
          /\ ep.speechJob = mem.speechJob /\ ep.audioJob = mem.audioJob
          /\ ep.finalAudio = mem.finalAudio /\ ep.mastered = mem.mastered
      BY <2>2, WorkFieldsOK DEF WorkFields
    <3>2. Sets(ep, "inputs")
      BY <1>12, <2>4 DEF ProvideScript
    <3>. HIDE DEF ep
    <3>3. Evidence(ep, cc.masters)
      BY <2>2, <3>1, StageNumbers DEF Evidence
    <3>4. RunHas(ep, "inputs", again')
      BY <2>1, <2>2, <3>1 DEF RunHas, Scripted, BeforeAudio, WithAudio
    <3>. QED BY <2>1, <3>2, <3>3, <3>4, EvidenceSets
  <2>. QED BY <2>3, <2>4
<1>13. CASE ChooseInputs
  <2>1. PICK voice \in Voices :
           Sets([mem EXCEPT !.voice = voice,
                            !.preset = IF @ = None THEN cc.default ELSE @,
                            !.stage = "inputs_validated"], "accept")
    BY <1>13 DEF ChooseInputs
  <2>2. At("inputs") /\ UNCHANGED <<disk, cc>>
    BY <1>13 DEF ChooseInputs
  <2>3. mem \in EpisodeSession /\ mem # NoEpisode /\ RunHas(mem, "inputs", again)
    BY <2>2, <1>a DEF Pcs
  <2>. DEFINE ep == [mem EXCEPT !.voice = voice,
                            !.preset = IF @ = None THEN cc.default ELSE @,
                            !.stage = "inputs_validated"]
  <2>4. KeepsWork(ep, mem) /\ ep.stage = "inputs_validated"
    BY <2>3, WorkFieldsOK DEF KeepsWork, WorkFields
  <2>. HIDE DEF ep
  <2>5. RunHas(ep, "accept", again')
    BY <2>3, <2>4, KeepsWorkFields, StageNumbers
       DEF RunHas, Scripted, BeforeAudio, WithAudio
  <2>. QED BY <2>1, <2>2, <2>3, <2>4, <2>5, EvidenceEarly DEF ep, Early
<1>14. CASE CreateEpisode
  <2>1. At("create") /\ UNCHANGED <<disk, again, cc>>
    BY <1>14 DEF CreateEpisode
  <2>2. /\ mem \in EpisodeSession /\ mem # NoEpisode /\ RunHas(mem, "create", again)
        /\ Evidence(mem, cc.masters)
    BY <2>1, <1>a DEF Pcs
  <2>3. CASE mem.episode
    <3>1. RunHas(mem, "import", again')
      BY <2>1, <2>2, <2>3 DEF RunHas, Scripted, BeforeAudio, WithAudio
    <3>. QED BY <1>14, <2>1, <2>3, <3>1, EvidencePasses DEF CreateEpisode, Passes
  <2>4. CASE ~mem.episode
    <3>. DEFINE ep == [mem EXCEPT !.episode = TRUE, !.stage = "episode_created"]
    <3>1. /\ ep.episode = TRUE /\ ep.stage = "episode_created"
          /\ ep.preserved = mem.preserved /\ ep.script = mem.script
          /\ ep.speechJob = mem.speechJob /\ ep.audioJob = mem.audioJob
          /\ ep.finalAudio = mem.finalAudio /\ ep.mastered = mem.mastered
      BY <2>2, WorkFieldsOK DEF WorkFields
    <3>2. Sets(ep, "import")
      BY <1>14, <2>4 DEF CreateEpisode
    <3>. HIDE DEF ep
    <3>3. RunHas(ep, "import", again')
      BY <2>1, <2>2, <3>1, StageNumbers DEF RunHas, Scripted, BeforeAudio, WithAudio
    <3>4. ep.preserved
      BY <2>2, <3>1 DEF RunHas
    <3>5. Evidence(ep, cc.masters)
      BY <2>2, <3>1, <3>4, StageNumbers DEF Evidence
    <3>. QED BY <2>1, <3>2, <3>3, <3>5, EvidenceSets
  <2>. QED BY <2>3, <2>4
<1>15. CASE ImportScript
  <2>1. At("import") /\ UNCHANGED <<disk, again, cc>>
    BY <1>15 DEF ImportScript
  <2>2. /\ mem \in EpisodeSession /\ mem # NoEpisode /\ RunHas(mem, "import", again)
        /\ Evidence(mem, cc.masters)
    BY <2>1, <1>a DEF Pcs
  <2>3. CASE mem.script
    <3>1. RunHas(mem, "preview", again')
      BY <2>1, <2>2, <2>3 DEF RunHas, Scripted, BeforeAudio, WithAudio
    <3>. QED BY <1>15, <2>1, <2>3, <3>1, EvidencePasses DEF ImportScript, Passes
  <2>4. CASE ~mem.script
    <3>. DEFINE ep == [mem EXCEPT !.script = TRUE, !.stage = "approved_script_imported"]
    <3>1. /\ ep.script = TRUE /\ ep.stage = "approved_script_imported"
          /\ ep.preserved = mem.preserved /\ ep.episode = mem.episode
          /\ ep.speechJob = mem.speechJob /\ ep.audioJob = mem.audioJob
          /\ ep.finalAudio = mem.finalAudio /\ ep.mastered = mem.mastered
      BY <2>2, WorkFieldsOK DEF WorkFields
    <3>2. Sets(ep, "preview")
      BY <1>15, <2>4 DEF ImportScript
    <3>. HIDE DEF ep
    <3>3. RunHas(ep, "preview", again')
      BY <2>1, <2>2, <3>1, StageNumbers DEF RunHas, Scripted, BeforeAudio, WithAudio
    <3>4. ep.preserved /\ ep.episode
      BY <2>2, <3>1 DEF RunHas
    <3>5. Evidence(ep, cc.masters)
      BY <2>2, <3>1, <3>4, StageNumbers DEF Evidence
    <3>. QED BY <2>1, <3>2, <3>3, <3>5, EvidenceSets
  <2>. QED BY <2>3, <2>4
\* _advance_stage where the script is imported and the audio is not begun.
<1>p. ASSUME NEW place \in {"preview", "start"}, At(place),
             NEW s \in {"speech_text_previewed", "saved_before_generation"}
      PROVE  LET ep == Advanced(mem, s)
             IN  /\ KeepsWork(ep, mem) /\ StageOrder[ep.stage] <= 118
                 /\ Evidence(ep, cc.masters)
  <2>. DEFINE ep == Advanced(mem, s)
  <2>1. /\ mem \in EpisodeSession /\ mem # NoEpisode /\ RunHas(mem, place, again)
        /\ Evidence(mem, cc.masters)
    BY <1>p, <1>a DEF Pcs
  <2>2. KeepsWork(ep, mem) /\ ep.stage \in {mem.stage, s}
    BY <2>1, WorkFieldsOK, AdvancedKeepsWork
  <2>. HIDE DEF ep
  <2>3. StageOrder[mem.stage] <= 118 /\ mem.preserved /\ mem.episode /\ mem.script
    BY <2>1 DEF RunHas, Scripted
  <2>4. StageOrder[ep.stage] <= 118
    BY <2>2, <2>3, StageNumbers
  <2>5. Evidence(ep, cc.masters)
    <3>1. CASE ep.stage = mem.stage
      BY <2>1, <2>2, <3>1, KeepsWorkFields DEF Evidence
    <3>2. CASE ep.stage = s
      <4>1. ep.preserved /\ ep.episode /\ ep.script
        BY <2>2, <2>3, KeepsWorkFields
      <4>2. StageOrder[ep.stage] \notin 150..200 /\ StageOrder[ep.stage] \notin 170..200
        BY <3>2, StageNumbers
      <4>3. ep.stage \notin {"episode_mastered", "listening_gate", "owner_approved"}
        BY <3>2
      <4>. QED BY <2>1, <2>2, <4>1, <4>2, <4>3, KeepsWorkFields DEF Evidence
    <3>. QED BY <2>2, <3>1, <3>2
  <2>. QED BY <2>2, <2>4, <2>5 DEF ep
<1>16. CASE Preview
  <2>. DEFINE ep == Advanced(mem, "speech_text_previewed")
  <2>1. At("preview") /\ Sets(ep, "start") /\ UNCHANGED <<disk, again, cc>>
    BY <1>16 DEF Preview, Stage
  <2>2. RunHas(mem, "preview", again)
    BY <2>1, <1>a DEF Pcs
  <2>3. KeepsWork(ep, mem) /\ StageOrder[ep.stage] <= 118 /\ Evidence(ep, cc.masters)
    BY <2>1, <1>p
  <2>. HIDE DEF ep
  <2>4. RunHas(ep, "start", again')
    BY <2>1, <2>2, <2>3, KeepsWorkFields DEF RunHas, Scripted, BeforeAudio, WithAudio
  <2>. QED BY <2>1, <2>3, <2>4, EvidenceSets
<1>17. CASE StartGeneration
  <2>. DEFINE ep == Advanced(mem, "saved_before_generation")
  <2>1. At("start") /\ UNCHANGED <<disk, again, cc>>
    BY <1>17 DEF StartGeneration
  <2>2. RunHas(mem, "start", again)
    BY <2>1, <1>a DEF Pcs
  <2>3. Evidence(ep, cc.masters)
    BY <2>1, <1>p
  <2>. HIDE DEF ep
  <2>4. CASE Passes("voice")
    <3>1. RunHas(mem, "voice", again')
      BY <2>1, <2>2 DEF RunHas, Scripted, BeforeAudio, WithAudio
    <3>. QED BY <2>1, <2>4, <3>1, EvidencePasses DEF Passes
  <2>5. CASE Sets(ep, "idle")
    <3>1. RunHas(ep, "idle", again')
      BY <2>1, <2>2 DEF RunHas, Scripted, BeforeAudio, WithAudio
    <3>. QED BY <2>1, <2>3, <2>5, <3>1, EvidenceSets
  <2>. QED BY <1>17, <2>4, <2>5 DEF StartGeneration, ep
\* What the run holds when it assigns the voice, and after that.
<1>v. ASSUME NEW place \in {"voice", "preflight", "render", "rendering", "validate", "assemble"},
             At(place)
      PROVE  /\ mem \in EpisodeSession /\ mem # NoEpisode /\ again = FALSE
             /\ mem.preserved /\ mem.episode /\ mem.script
             /\ (~mem.mastered => mem.audioJob = None)
             /\ (mem.finalAudio # None => mem.finalAudio \in cc.masters)
             /\ (place = "voice" => StageOrder[mem.stage] <= 118)
             /\ (place \in {"validate", "assemble"} => mem.speechJob # None)
  <2>1. /\ mem \in EpisodeSession /\ mem # NoEpisode /\ RunHas(mem, place, again)
        /\ Evidence(mem, cc.masters) /\ again \in BOOLEAN /\ HasAudio(mem, place)
    BY <1>v, <1>a DEF Pcs, Inv, TypeOK
  <2>. QED BY <2>1 DEF RunHas, Scripted, BeforeAudio, Evidence, HasAudio
\* Recording a stage of that part.
<1>w. ASSUME NEW place \in {"voice", "preflight", "render", "rendering", "validate"}, At(place),
             NEW next \in {"preflight", "render", "rendering", "validate", "assemble"},
             NEW ep, Sets(ep, next), disk' = disk, again' = again, cc'.masters = cc.masters,
             ep.preserved = mem.preserved, ep.episode = mem.episode, ep.script = mem.script,
             ep.mastered = mem.mastered, ep.audioJob \in {None, mem.audioJob},
             ep.finalAudio \in {None, mem.finalAudio},
             ep.stage \in Stages, StageOrder[ep.stage] <= 160,
             StageOrder[ep.stage] \in 150..200 => ep.speechJob # None
      PROVE  StageInv'
  <2>1. /\ again = FALSE /\ ep.preserved /\ ep.episode /\ ep.script
        /\ (~ep.mastered => ep.audioJob = None)
        /\ (ep.finalAudio # None => ep.finalAudio \in cc.masters)
    BY <1>v, <1>w
  <2>2. RunHas(ep, next, again')
    BY <1>w, <2>1 DEF RunHas, Scripted, BeforeAudio, WithAudio
  <2>3. /\ StageOrder[ep.stage] \notin 170..200
        /\ ep.stage \notin {"episode_mastered", "listening_gate", "owner_approved"}
    BY <1>w, StageNumbers
  <2>4. Evidence(ep, cc'.masters)
    BY <1>w, <2>1, <2>3 DEF Evidence
  <2>. QED BY <1>w, <2>2, <2>4, EvidenceSets
<1>18. CASE AssignVoice
  <2>. DEFINE set == WithDelivery(mem, mem.preset)
              ep == [set EXCEPT !.stage = "voice_assigned"]
  <2>1. At("voice") /\ Sets(ep, "preflight") /\ UNCHANGED <<disk, again>>
    BY <1>18 DEF AssignVoice
  <2>2. cc'.masters = cc.masters
    BY <1>18, <1>c DEF AssignVoice, CloneCast
  <2>3. mem \in EpisodeSession
    BY <2>1, <1>v
  <2>4. KeepsWork(set, mem) /\ WorkFields \cup {"stage"} \subseteq DOMAIN set
    BY <2>3, WorkFieldsOK DEF WithDelivery, KeepsWork, WorkFields
  <2>. HIDE DEF set
  <2>5. KeepsWork(ep, mem) /\ ep.stage = "voice_assigned"
    BY <2>4 DEF KeepsWork, WorkFields
  <2>. HIDE DEF ep
  <2>6. /\ ep.preserved = mem.preserved /\ ep.episode = mem.episode /\ ep.script = mem.script
        /\ ep.mastered = mem.mastered /\ ep.audioJob = mem.audioJob
        /\ ep.finalAudio = mem.finalAudio
    BY <2>5, KeepsWorkFields
  <2>7. ep.stage \in Stages /\ StageOrder[ep.stage] = 120
    BY <2>5, StageNames, StageNumbers
  <2>. QED BY <2>1, <2>2, <2>6, <2>7, <1>w
<1>19. CASE ChangeDelivery
  <2>. DEFINE kept == Preserved(mem)
              clear == Cleared(kept)
              set == WithDelivery(clear, mem.preset)
              ep == Advanced(set, "voice_assigned")
  <2>1. At("voice") /\ Sets(ep, "preflight") /\ UNCHANGED <<disk, again>>
    BY <1>19 DEF ChangeDelivery
  <2>2. cc'.masters = cc.masters
    BY <1>19, <1>c DEF ChangeDelivery, CloneCast
  <2>3. mem \in EpisodeSession /\ StageOrder[mem.stage] <= 118
    BY <2>1, <1>v
  <2>4. /\ kept \in EpisodeSession /\ kept.preserved = mem.preserved
        /\ kept.episode = mem.episode /\ kept.script = mem.script
        /\ kept.mastered = mem.mastered /\ kept.stage = mem.stage
    BY <2>3, PreservedOK DEF Preserved, EpisodeSession
  <2>. HIDE DEF kept
  <2>5. /\ clear \in EpisodeSession /\ clear.preserved = mem.preserved
        /\ clear.episode = mem.episode /\ clear.script = mem.script
        /\ clear.mastered = mem.mastered /\ clear.stage = mem.stage
        /\ clear.audioJob = None /\ clear.finalAudio = None /\ clear.speechJob = None
    <3>1. clear \in EpisodeSession
      BY <2>4, ClearedOK
    <3>2. /\ WorkFields \cup {"stage"} \subseteq DOMAIN kept
          /\ clear.preserved = kept.preserved /\ clear.episode = kept.episode
          /\ clear.script = kept.script /\ clear.mastered = kept.mastered
          /\ clear.stage = kept.stage /\ clear.audioJob = None
          /\ clear.finalAudio = None /\ clear.speechJob = None
      BY <2>4, WorkFieldsOK DEF Cleared, WorkFields
    <3>. QED BY <2>4, <3>1, <3>2
  <2>. HIDE DEF clear
  <2>6. /\ KeepsWork(set, clear) /\ set.stage = mem.stage
        /\ WorkFields \cup {"stage"} \subseteq DOMAIN set
    BY <2>5, WorkFieldsOK DEF WithDelivery, KeepsWork, WorkFields
  <2>. HIDE DEF set
  <2>7. KeepsWork(ep, clear) /\ ep.stage \in {mem.stage, "voice_assigned"}
    BY <2>6, AdvancedKeepsWork, KeepsWorkTwice
  <2>. HIDE DEF ep
  <2>8. /\ ep.preserved = mem.preserved /\ ep.episode = mem.episode /\ ep.script = mem.script
        /\ ep.mastered = mem.mastered /\ ep.audioJob = None /\ ep.finalAudio = None
    BY <2>5, <2>7, KeepsWorkFields
  <2>9. /\ ep.stage \in Stages /\ StageOrder[ep.stage] <= 160
        /\ StageOrder[ep.stage] \notin 150..200
    BY <2>3, <2>7, StageNames, StageNumbers DEF EpisodeSession
  <2>. QED BY <2>1, <2>2, <2>8, <2>9, <1>w
<1>20. CASE KeepVoice
  <2>. DEFINE set == WithDelivery(mem, cc.preset)
              ep == [set EXCEPT !.stage = "voice_assigned"]
  <2>1. At("voice") /\ Sets(ep, "preflight") /\ UNCHANGED <<disk, again, cc>>
    BY <1>20 DEF KeepVoice
  <2>3. mem \in EpisodeSession
    BY <2>1, <1>v
  <2>4. KeepsWork(set, mem) /\ WorkFields \cup {"stage"} \subseteq DOMAIN set
    BY <2>3, WorkFieldsOK DEF WithDelivery, KeepsWork, WorkFields
  <2>. HIDE DEF set
  <2>5. KeepsWork(ep, mem) /\ ep.stage = "voice_assigned"
    BY <2>4 DEF KeepsWork, WorkFields
  <2>. HIDE DEF ep
  <2>6. /\ ep.preserved = mem.preserved /\ ep.episode = mem.episode /\ ep.script = mem.script
        /\ ep.mastered = mem.mastered /\ ep.audioJob = mem.audioJob
        /\ ep.finalAudio = mem.finalAudio
    BY <2>5, KeepsWorkFields
  <2>7. ep.stage \in Stages /\ StageOrder[ep.stage] = 120
    BY <2>5, StageNames, StageNumbers
  <2>. QED BY <2>1, <2>6, <2>7, <1>w
<1>21. CASE Preflight
  <2>. DEFINE ep == [mem EXCEPT !.stage = "speech_provider_preflight"]
  <2>1. At("preflight") /\ Sets(ep, "render") /\ UNCHANGED <<disk, again, cc>>
    BY <1>21 DEF Preflight, Stage
  <2>2. mem \in EpisodeSession
    BY <2>1, <1>v
  <2>3. KeepsWork(ep, mem) /\ ep.stage = "speech_provider_preflight"
    BY <2>2, WorkFieldsOK DEF KeepsWork, WorkFields
  <2>. HIDE DEF ep
  <2>4. ep.stage \in Stages /\ StageOrder[ep.stage] = 130
    BY <2>3, StageNames, StageNumbers
  <2>. QED BY <2>1, <2>3, <2>4, <1>w, KeepsWorkFields
<1>22. CASE BeginRender
  <2>. DEFINE ep == [mem EXCEPT !.failed = None, !.stage = "speech_rendering"]
  <2>1. At("render") /\ Sets(ep, "rendering") /\ UNCHANGED <<disk, again, cc>>
    BY <1>22 DEF BeginRender, Stage
  <2>2. mem \in EpisodeSession
    BY <2>1, <1>v
  <2>3. KeepsWork(ep, mem) /\ ep.stage = "speech_rendering"
    BY <2>2, WorkFieldsOK DEF KeepsWork, WorkFields
  <2>. HIDE DEF ep
  <2>4. ep.stage \in Stages /\ StageOrder[ep.stage] = 140
    BY <2>3, StageNames, StageNumbers
  <2>. QED BY <2>1, <2>3, <2>4, <1>w, KeepsWorkFields
<1>23. CASE Render
  <2>1. At("rendering") /\ UNCHANGED disk
    BY <1>23 DEF Render
  <2>2. cc'.masters = cc.masters
    BY <1>23, <1>c DEF Render, CloneCast
  <2>3. mem \in EpisodeSession /\ mem.delivery # None
    BY <2>1, <1>a, <1>v DEF Pcs, HasAudio
  <2>4. CASE FailSession("speech_render")
    BY <2>1, <2>2, <2>4, <1>f DEF Pcs
  <2>. DEFINE ep == [mem EXCEPT !.speechJob = mem.delivery, !.stage = "speech_rendered"]
  <2>5. CASE Sets(ep, "validate") /\ UNCHANGED again
    <3>1. /\ ep.preserved = mem.preserved /\ ep.episode = mem.episode
          /\ ep.script = mem.script /\ ep.mastered = mem.mastered
          /\ ep.audioJob = mem.audioJob /\ ep.finalAudio = mem.finalAudio
          /\ ep.stage = "speech_rendered" /\ ep.speechJob = mem.delivery
      BY <2>3, WorkFieldsOK DEF WorkFields
    <3>. HIDE DEF ep
    <3>2. ep.stage \in Stages /\ StageOrder[ep.stage] = 150
      BY <3>1, StageNames, StageNumbers
    <3>. QED BY <2>1, <2>2, <2>3, <2>5, <3>1, <3>2, <1>w
  <2>. QED BY <1>23, <2>4, <2>5 DEF Render
<1>24. CASE ValidateSpeech
  <2>. DEFINE ep == [mem EXCEPT !.stage = "speech_validated"]
  <2>1. At("validate") /\ Sets(ep, "assemble") /\ UNCHANGED <<disk, again, cc>>
    BY <1>24 DEF ValidateSpeech, Stage
  <2>2. mem \in EpisodeSession /\ mem.speechJob # None
    BY <2>1, <1>v
  <2>3. KeepsWork(ep, mem) /\ ep.stage = "speech_validated"
    BY <2>2, WorkFieldsOK DEF KeepsWork, WorkFields
  <2>. HIDE DEF ep
  <2>4. ep.stage \in Stages /\ StageOrder[ep.stage] = 160
    BY <2>3, StageNames, StageNumbers
  <2>. QED BY <2>1, <2>2, <2>3, <2>4, <1>w, KeepsWorkFields
<1>25. CASE Assemble
  <2>. DEFINE ep == [mem EXCEPT !.audioJob = mem.speechJob, !.stage = "episode_assembled"]
  <2>1. At("assemble") /\ Sets(ep, "validateAudio") /\ UNCHANGED <<disk, again, cc>>
    BY <1>25 DEF Assemble, Stage
  <2>2. /\ mem \in EpisodeSession /\ mem.speechJob # None /\ again = FALSE
        /\ mem.preserved /\ mem.episode /\ mem.script
        /\ (mem.finalAudio # None => mem.finalAudio \in cc.masters)
    BY <2>1, <1>v
  <2>3. /\ ep.preserved = mem.preserved /\ ep.episode = mem.episode
        /\ ep.script = mem.script /\ ep.speechJob = mem.speechJob
        /\ ep.audioJob = mem.speechJob /\ ep.finalAudio = mem.finalAudio
        /\ ep.stage = "episode_assembled"
    BY <2>2, WorkFieldsOK DEF WorkFields
  <2>. HIDE DEF ep
  <2>4. Evidence(ep, cc.masters)
    BY <2>2, <2>3 DEF Evidence
  <2>5. RunHas(ep, "validateAudio", again')
    BY <2>1, <2>2, <2>3 DEF RunHas, Scripted, BeforeAudio, WithAudio
  <2>. QED BY <2>1, <2>4, <2>5, EvidenceSets
\* What the run holds where the audio is assembled.
<1>x. ASSUME NEW place \in WithAudio, At(place)
      PROVE  /\ mem \in EpisodeSession /\ mem # NoEpisode /\ again = FALSE
             /\ mem.preserved /\ mem.episode /\ mem.script
             /\ mem.audioJob = mem.speechJob /\ mem.audioJob # None
             /\ (mem.finalAudio # None => mem.finalAudio \in cc.masters)
             /\ (place = "gate" => mem.finalAudio # None)
             /\ RunHas(mem, place, again) /\ Evidence(mem, cc.masters)
  <2>1. /\ mem \in EpisodeSession /\ mem # NoEpisode /\ RunHas(mem, place, again)
        /\ Evidence(mem, cc.masters) /\ again \in BOOLEAN
    BY <1>x, <1>a DEF Pcs, WithAudio, Inv, TypeOK
  <2>. QED BY <2>1 DEF RunHas, WithAudio, Evidence
<1>26. CASE ValidateAudio
  <2>. DEFINE ep == [mem EXCEPT !.stage = "episode_validated"]
  <2>1. At("validateAudio") /\ Sets(ep, "masterKey") /\ UNCHANGED <<disk, again, cc>>
    BY <1>26 DEF ValidateAudio, Stage
  <2>2. mem \in EpisodeSession
    BY <2>1, <1>x DEF WithAudio
  <2>3. KeepsWork(ep, mem) /\ ep.stage = "episode_validated"
    BY <2>2, WorkFieldsOK DEF KeepsWork, WorkFields
  <2>. HIDE DEF ep
  <2>4. /\ ep.preserved /\ ep.episode /\ ep.script
        /\ ep.audioJob = ep.speechJob /\ ep.audioJob # None
        /\ (ep.finalAudio # None => ep.finalAudio \in cc.masters)
    BY <2>1, <2>3, <1>x, KeepsWorkFields DEF WithAudio
  <2>5. Evidence(ep, cc.masters)
    BY <2>3, <2>4 DEF Evidence
  <2>6. RunHas(ep, "masterKey", again')
    BY <2>1, <2>4, <1>x DEF RunHas, Scripted, BeforeAudio, WithAudio
  <2>. QED BY <2>1, <2>5, <2>6, EvidenceSets
<1>27. CASE ChooseMasteringKey
  <2>1. At("masterKey") /\ UNCHANGED <<disk, again, cc>>
    BY <1>27 DEF ChooseMasteringKey
  <2>2. mem \in EpisodeSession /\ RunHas(mem, "masterKey", again) /\ Evidence(mem, cc.masters)
    BY <2>1, <1>x DEF WithAudio
  <2>3. CASE Passes("master")
    <3>1. RunHas(mem, "master", again')
      BY <2>1, <2>2 DEF RunHas, Scripted, BeforeAudio, WithAudio
    <3>. QED BY <2>1, <2>3, <3>1, EvidencePasses DEF Passes
  <2>4. CASE Sets([mem EXCEPT !.retry = NextRetry(mem)], "master")
    <3>. DEFINE ep == [mem EXCEPT !.retry = NextRetry(mem)]
    <3>1. KeepsWork(ep, mem) /\ ep.stage = mem.stage
      BY <2>2, WorkFieldsOK DEF KeepsWork, WorkFields
    <3>2. Sets(ep, "master")
      BY <2>4
    <3>. HIDE DEF ep
    <3>3. Evidence(ep, cc.masters)
      BY <2>2, <3>1, EarlyStage
    <3>4. RunHas(ep, "master", again')
      BY <2>1, <2>2, <3>1, KeepsWorkFields DEF RunHas, Scripted, BeforeAudio, WithAudio
    <3>. QED BY <2>1, <3>2, <3>3, <3>4, EvidenceSets
  <2>. QED BY <1>27, <2>3, <2>4 DEF ChooseMasteringKey
<1>28. CASE Master
  <2>1. At("master") /\ UNCHANGED disk
    BY <1>28 DEF Master
  <2>2. cc.masters \subseteq cc'.masters
    BY <1>28, <1>c DEF Master, CloneCast
  <2>3. CASE Ends
    BY <2>1, <2>2, <2>3, EvidenceEnds DEF StageInv
  <2>4. ASSUME NEW audio \in Deliveries, RecordMasteringResult(audio), audio \in cc'.masters
        PROVE  StageInv'
    <3>. DEFINE ep == [mem EXCEPT !.finalAudio = audio, !.mastered = TRUE,
                                  !.stage = "episode_mastered"]
    <3>1. /\ mem \in EpisodeSession /\ again = FALSE
          /\ mem.preserved /\ mem.episode /\ mem.script
          /\ mem.audioJob = mem.speechJob /\ mem.audioJob # None
      BY <2>1, <1>x DEF WithAudio
    <3>2. /\ ep.preserved = mem.preserved /\ ep.episode = mem.episode
          /\ ep.script = mem.script /\ ep.speechJob = mem.speechJob
          /\ ep.audioJob = mem.audioJob /\ ep.finalAudio = audio
          /\ ep.mastered = TRUE /\ ep.stage = "episode_mastered"
      BY <3>1, WorkFieldsOK DEF WorkFields
    <3>3. Sets(ep, "gate") /\ UNCHANGED again
      BY <2>4 DEF RecordMasteringResult
    <3>4. audio # None
      BY NamesAssumption DEF Deliveries, Default, None
    <3>. HIDE DEF ep
    <3>5. Evidence(ep, cc'.masters)
      BY <2>4, <3>1, <3>2, <3>4 DEF Evidence
    <3>6. RunHas(ep, "gate", again')
      BY <3>1, <3>2, <3>3, <3>4 DEF RunHas, Scripted, BeforeAudio, WithAudio
    <3>. QED BY <2>1, <2>2, <3>3, <3>5, <3>6, EvidenceSets
  <2>5. CASE \E audio \in KeyTakenBy(mem) \cap cc.masters : RecordMasteringResult(audio)
    BY <2>2, <2>4, <2>5 DEF KeyTakenBy
  <2>6. CASE cc'.masters = cc.masters \cup {mem.audioJob} /\ RecordMasteringResult(mem.audioJob)
    <3>1. mem.audioJob \in Deliveries
      BY <2>1, <1>x DEF WithAudio, EpisodeSession
    <3>. QED BY <2>4, <2>6, <3>1
  <2>. QED BY <1>28, <1>c, <2>3, <2>5, <2>6 DEF Master, CloneCast
<1>29. CASE OpenGate
  <2>. DEFINE ep == [mem EXCEPT !.eligible = FALSE, !.stage = "listening_gate"]
  <2>1. At("gate") /\ Sets(ep, "decide") /\ UNCHANGED <<disk, again, cc>>
    BY <1>29 DEF OpenGate, Stage
  <2>2. mem \in EpisodeSession
    BY <2>1, <1>x DEF WithAudio
  <2>3. KeepsWork(ep, mem) /\ ep.stage = "listening_gate"
    BY <2>2, WorkFieldsOK DEF KeepsWork, WorkFields
  <2>. HIDE DEF ep
  <2>4. /\ ep.preserved /\ ep.episode /\ ep.script
        /\ ep.audioJob = ep.speechJob /\ ep.audioJob # None
        /\ ep.finalAudio # None /\ ep.finalAudio \in cc.masters
    BY <2>1, <2>3, <1>x, KeepsWorkFields DEF WithAudio
  <2>5. Evidence(ep, cc.masters)
    BY <2>3, <2>4 DEF Evidence
  <2>6. RunHas(ep, "decide", again')
    BY <2>1, <2>4, <1>x DEF RunHas, Scripted, BeforeAudio, WithAudio
  <2>. QED BY <2>1, <2>5, <2>6, EvidenceSets
<1>30. CASE Decide
  <2>1. At("decide") /\ Ends /\ UNCHANGED cc
    BY <1>30 DEF Decide
  <2>2. disk # NoEpisode /\ disk \in EpisodeSession /\ Evidence(disk, cc.masters)
    BY <2>1, <1>a, <1>d DEF Pcs, StageInv
  <2>3. Evidence(disk', cc.masters)
    BY <1>30, <2>2, EvidenceDecision DEF Decide
  <2>. QED BY <2>1, <2>3, EvidenceEnds
<1>31. CASE OwnerDecides
  <2>1. disk # NoEpisode /\ UNCHANGED <<mem, pc, again, cc>>
    BY <1>31 DEF OwnerDecides, CanApprove
  <2>2. disk \in EpisodeSession /\ Evidence(disk, cc.masters)
    BY <2>1, <1>d DEF StageInv
  <2>3. Evidence(disk', cc.masters)
    BY <1>31, <2>2, EvidenceDecision DEF OwnerDecides
  <2>. QED BY <2>1, <2>3 DEF StageInv
<1>32. CASE PresetAppears \/ VoiceAppears \/ OtherSessionAccepts \/ UNCHANGED vars
  <2>1. cc'.masters = cc.masters
    BY <1>32, <1>c DEF PresetAppears, VoiceAppears, OtherSessionAccepts, vars, CloneCast
  <2>2. UNCHANGED <<disk, mem, pc, again>>
    BY <1>32 DEF PresetAppears, VoiceAppears, OtherSessionAccepts, vars
  <2>. QED BY <2>1, <2>2 DEF StageInv
<1>33. CASE RefuseVoice \/ Interrupt
  BY <1>33, EvidenceEnds DEF RefuseVoice, Interrupt, StageInv
<1>. QED BY <1>1, <1>2, <1>3, <1>4, <1>5, <1>6, <1>7, <1>8, <1>9, <1>10, <1>11, <1>12,
            <1>13, <1>14, <1>15, <1>16, <1>17, <1>18, <1>19, <1>20, <1>21, <1>22, <1>23,
            <1>24, <1>25, <1>26, <1>27, <1>28, <1>29, <1>30, <1>31, <1>32, <1>33
     DEF Next, RunStep

\* The stage a resumed run is shown with is backed by what the record on disk holds,
\* however the stages of this run and of earlier ones were interrupted
\* (_advance_stage, _normalize_completed_stage_from_saved_state, completed_stage).
THEOREM StagesHaveEvidence == Spec => []StageHasEvidence
<1>1. Init => StageInv
  BY DEF Init, StageInv, RunHas, Scripted, BeforeAudio, WithAudio
<1>2. Inv /\ StageInv /\ [Next]_vars => StageInv'
  BY StageInvStep
<1>3. StageInv => StageHasEvidence
  BY DEF StageInv, Evidence, StageHasEvidence, Saved
<1>. QED BY InitInv, StepInv, <1>1, <1>2, <1>3, PTL DEF Spec

(***************************************************************************)
(* The gate opens for audio of the delivery that is assigned.  A stop      *)
(* between script-voice-assign and the next save may leave audio of the    *)
(* previous delivery in the record, but every run that reaches the gate    *)
(* has rendered, assembled and mastered again, or goes on with audio that  *)
(* was assembled and not mastered, during which no delivery changes.       *)
(***************************************************************************)
\* The delivery the script is assigned now.
Current == IF cc.preset = None THEN Default ELSE cc.preset

\* What the record is compared with: that delivery, and CloneCast's mastering jobs.
Now == [delivery |-> Current, keys |-> cc.keys]

Generating == {"preflight", "render", "rendering", "validate", "assemble"} \cup WithAudio

\* The final audio is of the delivery, or of earlier audio whose job has the key.
Answered(ep, keys) ==
    \/ ep.finalAudio = ep.delivery
    \/ KeyNames = "session" /\ <<ep.finalAudio, ep.retry>> \in keys

\* A record at the gate, or one whose audio is still to be mastered, is of the delivery
\* that is assigned now.
FreshRecord(ep, now) ==
    /\ ep.stage = "listening_gate" =>
           /\ ep.mastered /\ ep.audioJob = ep.delivery /\ ep.delivery = now.delivery
           /\ Answered(ep, now.keys)
    /\ ep.audioJob # None /\ ~ep.mastered =>
           ep.audioJob = ep.delivery /\ ep.delivery = now.delivery

\* So is what a run has made by the time it comes to a place.
FreshAt(ep, place, now) ==
    /\ place \in Generating => ep.delivery = now.delivery
    /\ place \in {"validate", "assemble"} => ep.speechJob = ep.delivery
    /\ place \in WithAudio => ep.audioJob = ep.delivery
    /\ place \in {"validateAudio", "masterKey"} => ep.stage # "listening_gate"
    /\ place = "gate" => ep.mastered /\ Answered(ep, now.keys)

FreshInv ==
    /\ disk # NoEpisode => FreshRecord(disk, Now)
    /\ mem # NoEpisode => FreshRecord(mem, Now)
    /\ FreshAt(mem, pc, Now)
    /\ mem # NoEpisode /\ ~unsaved =>
           /\ disk.stage \in {mem.stage, "review_rejected", "owner_approved"}
           /\ disk.audioJob = mem.audioJob /\ disk.mastered = mem.mastered

\* How a step that has nothing to do with audio may go on.
Follows ==
    {<<"preflight", "render">>, <<"render", "rendering">>, <<"validate", "assemble">>,
     <<"validateAudio", "masterKey">>, <<"masterKey", "master">>}

\* A step opens no gate, and comes to a place where audio is made only from the place
\* before or with audio to be mastered.
OpensNoGate == mem' = mem \/ mem'.stage \in {mem.stage} \cup (Stages \ {"listening_gate"})
ComesFrom ==
    \/ pc' = pc \/ pc' \notin Generating \/ <<pc, pc'>> \in Follows
    \/ pc' = "masterKey" /\ mem.audioJob # None /\ ~mem.mastered

\* That is so of the steps that have nothing to do with audio.
LEMMA QuietMoves ==
    ASSUME Inv, [Next]_vars, ~AudioStep
    PROVE  OpensNoGate /\ ComesFrom
<1>m. mem # NoEpisode => mem \in EpisodeSession
  BY DEF Inv, TypeOK
<1>a. ASSUME NEW place \in Pcs \ {"idle"}, At(place)
      PROVE  mem \in EpisodeSession /\ pc = place
  BY <1>a, <1>m DEF Inv, RunInv, At
<1>w. \A ep \in EpisodeSession : WorkFields \cup {"stage"} \subseteq DOMAIN ep
  BY WorkFieldsOK
<1>1. CASE Confirm \/ Discover
  <2>1. mem \in EpisodeSession
    BY <1>1, <1>a DEF Confirm, Discover, Stage, Pcs
  <2>2. /\ Normalised(mem).stage \in {mem.stage, "research_accepted"}
        /\ WorkFields \cup {"stage"} \subseteq DOMAIN Normalised(mem)
    BY <2>1, <1>w, NormalisedOK, NormalisedKeepsWork
  <2>3. \A s \in {"target_confirmed", "clonecast_discovered"} :
            Advanced(Normalised(mem), s).stage \in {Normalised(mem).stage, s}
    BY <2>2, AdvancedKeepsWork
  <2>4. OpensNoGate
    BY <1>1, <2>2, <2>3, StageNames DEF Confirm, Discover, Stage, Sets, OpensNoGate
  <2>5. ComesFrom
    BY <1>1 DEF Confirm, Discover, Stage, Sets, Generating, WithAudio, ComesFrom
  <2>. QED BY <2>4, <2>5
<1>2. CASE ChooseStudio \/ ChooseDuration
  <2>1. mem \in EpisodeSession
    BY <1>2, <1>a DEF ChooseStudio, ChooseDuration, Stage, Pcs
  <2>2. /\ Normalised(mem).stage \in {mem.stage, "research_accepted"}
        /\ WorkFields \cup {"stage"} \subseteq DOMAIN Normalised(mem)
    BY <2>1, <1>w, NormalisedOK, NormalisedKeepsWork
  <2>. DEFINE ep == Normalised(mem)
  <2>. HIDE DEF ep
  <2>3. \A new \in {[ep EXCEPT !.studio = TRUE], [ep EXCEPT !.duration = TRUE]} :
            /\ new.stage = ep.stage /\ WorkFields \cup {"stage"} \subseteq DOMAIN new
    BY <2>2 DEF WorkFields, ep
  <2>4. \A new \in {[ep EXCEPT !.studio = TRUE], [ep EXCEPT !.duration = TRUE]} :
        \A s \in {"studio_selected", "duration_selected"} :
            Advanced(new, s).stage \in {ep.stage, s}
    BY <2>3, AdvancedKeepsWork
  <2>5. mem'.stage \in {ep.stage, "studio_selected", "duration_selected"}
    BY <1>2, <2>4 DEF ChooseStudio, ChooseDuration, Stage, Sets, ep
  <2>6. OpensNoGate
    BY <2>2, <2>5, StageNames DEF ep, OpensNoGate
  <2>7. ComesFrom
    BY <1>2 DEF ChooseStudio, ChooseDuration, Stage, Sets, Generating, WithAudio, ComesFrom
  <2>. QED BY <2>6, <2>7
\* A step that goes on, or sets a field and a stage, to a place where no audio is made.
<1>r. ASSUME NEW place \in Pcs \ {"idle"}, At(place), NEW next, next \notin Generating,
             NEW ep, ep.stage \in {mem.stage} \cup (Stages \ {"listening_gate"}),
             Passes(next) \/ Sets(ep, next)
      PROVE  OpensNoGate /\ ComesFrom
  BY <1>r DEF Passes, Sets, OpensNoGate, ComesFrom
<1>g. {"script", "ingest", "accept", "inputs", "import", "preview"} \cap Generating = {}
  BY DEF Generating, WithAudio
<1>3. CASE ProvideResearch
  <2>1. At("research") /\ mem \in EpisodeSession
    BY <1>3, <1>a DEF ProvideResearch, Pcs
  <2>2. [mem EXCEPT !.source = TRUE].stage = mem.stage
    BY <2>1, <1>w
  <2>3. \E next \in {"script", "ingest"} :
            Passes(next) \/ Sets([mem EXCEPT !.source = TRUE], next)
    BY <1>3 DEF ProvideResearch
  <2>. QED BY <2>1, <2>2, <2>3, <1>r, <1>g DEF Pcs
<1>4. CASE Ingest
  <2>1. At("ingest")
    BY <1>4, Zenon DEF Ingest
  <2>m. mem \in EpisodeSession
    BY <2>1, <1>a DEF Pcs
  <2>2. ASSUME NEW item PROVE [mem EXCEPT !.imported = item, !.stage = "research_imported"].stage
                                  = "research_imported"
    BY <2>m, <1>w
  <2>3. \/ Passes("accept")
        \/ \E item \in {"own", "copy"} :
               Sets([mem EXCEPT !.imported = item, !.stage = "research_imported"], "accept")
    <3>1. CASE mem.research # None \/ mem.imported # None
      BY <1>4, <3>1, Zenon DEF Ingest
    <3>2. CASE ~(mem.research # None \/ mem.imported # None)
      BY <1>4, <3>2, Zenon DEF Ingest
    <3>. QED BY <3>1, <3>2
  <2>4. CASE Passes("accept")
    BY <2>1, <2>4, <1>r, <1>g DEF Pcs
  <2>5. ASSUME NEW item \in {"own", "copy"},
               Sets([mem EXCEPT !.imported = item, !.stage = "research_imported"], "accept")
        PROVE  OpensNoGate /\ ComesFrom
    BY <2>1, <2>2, <2>5, <1>r, <1>g, StageNames DEF Pcs
  <2>. QED BY <2>3, <2>4, <2>5
<1>5. CASE ProvideScript
  <2>. DEFINE ep == [mem EXCEPT !.preserved = TRUE, !.stage = "approved_script_preserved"]
  <2>1. At("script") /\ mem \in EpisodeSession
    BY <1>5, <1>a DEF ProvideScript, Pcs
  <2>2. ep.stage = "approved_script_preserved"
    BY <2>1, <1>w
  <2>3. Passes("inputs") \/ Sets(ep, "inputs")
    BY <1>5 DEF ProvideScript
  <2>. QED BY <2>1, <2>2, <2>3, <1>r, <1>g, StageNames DEF Pcs
<1>6. CASE CreateEpisode
  <2>. DEFINE ep == [mem EXCEPT !.episode = TRUE, !.stage = "episode_created"]
  <2>1. At("create") /\ mem \in EpisodeSession
    BY <1>6, <1>a DEF CreateEpisode, Pcs
  <2>2. ep.stage = "episode_created"
    BY <2>1, <1>w
  <2>3. Passes("import") \/ Sets(ep, "import")
    BY <1>6 DEF CreateEpisode
  <2>. QED BY <2>1, <2>2, <2>3, <1>r, <1>g, StageNames DEF Pcs
<1>7. CASE ImportScript
  <2>. DEFINE ep == [mem EXCEPT !.script = TRUE, !.stage = "approved_script_imported"]
  <2>1. At("import") /\ mem \in EpisodeSession
    BY <1>7, <1>a DEF ImportScript, Pcs
  <2>2. ep.stage = "approved_script_imported"
    BY <2>1, <1>w
  <2>3. Passes("preview") \/ Sets(ep, "preview")
    BY <1>7 DEF ImportScript
  <2>. QED BY <2>1, <2>2, <2>3, <1>r, <1>g, StageNames DEF Pcs
<1>acc. ASSUME NEW item, Accepts(item), mem \in EpisodeSession PROVE OpensNoGate /\ ComesFrom
  <2>. DEFINE set == [mem EXCEPT !.research = item,
                                 !.failed = IF @ = "research_acceptance" THEN None ELSE @]
  <2>1. set.stage = mem.stage /\ WorkFields \cup {"stage"} \subseteq DOMAIN set
    BY <1>acc, <1>w DEF WorkFields
  <2>2. mem' = Advanced(set, "research_accepted") /\ pc' \in {"create", "script"}
    BY <1>acc DEF Accepts, Sets
  <2>. HIDE DEF set
  <2>3. OpensNoGate
    BY <2>1, <2>2, AdvancedKeepsWork, StageNames DEF OpensNoGate
  <2>. QED BY <2>2, <2>3 DEF Generating, WithAudio, ComesFrom
<1>fail. ASSUME NEW stage, FailSession(stage), mem \in EpisodeSession
         PROVE  OpensNoGate /\ ComesFrom
  BY <1>fail, <1>w DEF FailSession, Sets, Generating, WithAudio, OpensNoGate, ComesFrom
<1>8. CASE Accept
  <2>1. At("accept") /\ mem \in EpisodeSession
    BY <1>8, <1>a DEF Accept, Pcs
  <2>2. CASE Accepts(Shown(cand))
    BY <2>1, <2>2, <1>acc
  <2>3. CASE Passes("recover")
    BY <2>3 DEF Passes, Generating, WithAudio, OpensNoGate, ComesFrom
  <2>. QED BY <1>8, <2>2, <2>3 DEF Accept
<1>9. CASE Recover
  <2>1. At("recover") /\ mem \in EpisodeSession
    BY <1>9, <1>a DEF Recover, Pcs
  <2>2. FailSession("research_acceptance") \/ \E item \in {cand, DuplicateOf(cand)} : Accepts(item)
    BY <1>9 DEF Recover
  <2>. QED BY <2>1, <2>2, <1>acc, <1>fail
<1>10. CASE ResearchFails
  <2>1. PICK place \in {"ingest", "accept", "recover"} : At(place)
    BY <1>10 DEF ResearchFails, At
  <2>2. mem \in EpisodeSession
    BY <2>1, <1>a DEF Pcs
  <2>. QED BY <1>10, <2>2, <1>fail DEF ResearchFails
<1>11. CASE Preview \/ StartGeneration
  <2>1. mem \in EpisodeSession
    BY <1>11, <1>a DEF Preview, StartGeneration, Stage, Pcs
  <2>2. \A s \in {"speech_text_previewed", "saved_before_generation"} :
            Advanced(mem, s).stage \in {mem.stage, s}
    BY <2>1, <1>w, AdvancedKeepsWork
  <2>3. OpensNoGate
    BY <1>11, <2>2, StageNames DEF Preview, StartGeneration, Stage, Sets, Passes, OpensNoGate
  <2>4. ComesFrom
    BY <1>11 DEF Preview, StartGeneration, Stage, Sets, Passes, Generating, WithAudio, ComesFrom
  <2>. QED BY <2>3, <2>4
<1>12. CASE Preflight \/ BeginRender \/ ValidateSpeech \/ ValidateAudio
  <2>1. mem \in EpisodeSession
    BY <1>12, <1>a DEF Preflight, BeginRender, ValidateSpeech, ValidateAudio, Stage, Pcs
  <2>2. OpensNoGate
    BY <1>12, <2>1, <1>w, StageNames
       DEF Preflight, BeginRender, ValidateSpeech, ValidateAudio, Stage, Sets, OpensNoGate
  <2>3. ComesFrom
    BY <1>12 DEF Preflight, BeginRender, ValidateSpeech, ValidateAudio, Stage, Sets, At, Follows,
                ComesFrom
  <2>. QED BY <2>2, <2>3
<1>13. CASE OtherSessionAccepts \/ UNCHANGED vars
  BY <1>13 DEF OtherSessionAccepts, vars, OpensNoGate, ComesFrom
<1>. QED BY <1>1, <1>2, <1>3, <1>4, <1>5, <1>6, <1>7, <1>8, <1>9, <1>10, <1>11, <1>12, <1>13
     DEF Next, RunStep, AudioStep

\* A record that is up to date stays so when its audio is kept and no gate is opened.
LEMMA FreshKept ==
    ASSUME NEW ep, NEW new, NEW now, FreshRecord(ep, now), KeepsAudio(new, ep),
           new.stage # "listening_gate" \/ new.stage = ep.stage
    PROVE  FreshRecord(new, now)
  BY KeepsAudioFields DEF FreshRecord, Answered

\* Every step keeps both records up to date.
LEMMA FreshStep == ASSUME Inv, StageInv, FreshInv, [Next]_vars PROVE FreshInv'
<1>m. mem # NoEpisode => mem \in EpisodeSession
  BY DEF Inv, TypeOK
<1>d. disk # NoEpisode => disk \in EpisodeSession
  BY DEF Inv, TypeOK
<1>c. cc \in CloneCast
  BY DEF Inv, TypeOK
<1>u. mem' # NoEpisode \/ ~unsaved'
  BY StepInv DEF Inv, RunInv
<1>a. ASSUME NEW place \in Pcs \ {"idle"}, At(place)
      PROVE  /\ mem \in EpisodeSession /\ mem # NoEpisode /\ ~unsaved /\ pc = place
             /\ disk \in EpisodeSession /\ disk # NoEpisode
             /\ FreshRecord(mem, Now) /\ FreshRecord(disk, Now)
             /\ FreshAt(mem, place, Now) /\ RunHas(mem, place, again)
             /\ disk.stage \in {mem.stage, "review_rejected", "owner_approved"}
             /\ disk.audioJob = mem.audioJob /\ disk.mastered = mem.mastered
  BY <1>a, <1>m, <1>d DEF Inv, RunInv, At, FreshInv, StageInv
\* A stage that changes the run's copy.
<1>s. ASSUME NEW place \in Pcs \ {"idle"}, At(place), NEW ep, NEW next, Sets(ep, next),
             UNCHANGED disk, FreshRecord(disk, Now'), FreshRecord(ep, Now'),
             FreshAt(ep, next, Now')
      PROVE  FreshInv'
  BY <1>s, <1>a DEF Sets, FreshInv
\* The end of a run.
<1>e. ASSUME Ends, disk' # NoEpisode => FreshRecord(disk', Now')
      PROVE  FreshInv'
  BY <1>e DEF Ends, FreshInv, FreshAt, Generating, WithAudio
\* The record of an earlier delivery is neither at the gate nor to be mastered.
<1>v. ASSUME At("voice"), NEW now
      PROVE  /\ FreshRecord(disk, now)
             /\ mem.stage # "listening_gate" /\ (~mem.mastered => mem.audioJob = None)
  <2>1. /\ StageOrder[mem.stage] <= 118 /\ (~mem.mastered => mem.audioJob = None)
        /\ disk.stage \in {mem.stage, "review_rejected", "owner_approved"}
        /\ disk.audioJob = mem.audioJob /\ disk.mastered = mem.mastered
    BY <1>v, <1>a DEF RunHas, Pcs, BeforeAudio, Scripted
  <2>2. mem.stage # "listening_gate"
    BY <2>1, StageNumbers
  <2>. QED BY <2>1, <2>2 DEF FreshRecord
<1>1. CASE Save
  <2>1. unsaved /\ disk' = mem /\ ~unsaved' /\ UNCHANGED <<pc, cc>> /\ mem # NoEpisode
    BY <1>1 DEF Save, Inv, RunInv
  <2>2. mem' = IF pc = "idle" THEN NoEpisode ELSE mem
    BY <1>1 DEF Save
  <2>3. FreshAt(NoEpisode, "idle", Now)
    BY DEF FreshAt, Generating, WithAudio
  <2>. QED BY <2>1, <2>2, <2>3 DEF FreshInv, Now, Current
<1>2. CASE Begin
  <2>1. UNCHANGED <<disk, cc>> /\ ~unsaved /\ pc' = "confirm"
    BY <1>2 DEF Begin, At, Sets
  <2>2. FreshAt(mem', "confirm", Now)
    BY DEF FreshAt, Generating, WithAudio
  <2>3. FreshRecord(NewEpisode, Now)
    BY DEF FreshRecord, NewEpisode
  <2>. QED BY <1>2, <2>1, <2>2, <2>3 DEF Begin, Sets, FreshInv, Now, Current
<1>3. CASE ChooseInputs
  <2>1. PICK voice \in Voices :
           Sets([mem EXCEPT !.voice = voice,
                            !.preset = IF @ = None THEN cc.default ELSE @,
                            !.stage = "inputs_validated"], "accept")
    BY <1>3, Zenon DEF ChooseInputs
  <2>2. At("inputs") /\ UNCHANGED <<disk, cc>>
    BY <1>3 DEF ChooseInputs
  <2>. DEFINE ep == [mem EXCEPT !.voice = voice,
                            !.preset = IF @ = None THEN cc.default ELSE @,
                            !.stage = "inputs_validated"]
  <2>3. mem \in EpisodeSession /\ FreshRecord(mem, Now) /\ FreshRecord(disk, Now)
    BY <2>2, <1>a DEF Pcs
  <2>4. /\ ep.delivery = mem.delivery /\ ep.audioJob = mem.audioJob
        /\ ep.mastered = mem.mastered /\ ep.stage = "inputs_validated"
    BY <2>3, WorkFieldsOK, AudioFieldsOK DEF AudioFields
  <2>5. Sets(ep, "accept")
    BY <2>1
  <2>. HIDE DEF ep
  <2>6. FreshRecord(ep, Now) /\ FreshAt(ep, "accept", Now)
    BY <2>3, <2>4 DEF FreshRecord, FreshAt, Generating, WithAudio
  <2>7. Now' = Now
    BY <2>2 DEF Now, Current
  <2>. QED BY <2>2, <2>3, <2>5, <2>6, <2>7, <1>s DEF Pcs
<1>4. CASE AssignVoice
  <2>. DEFINE set == WithDelivery(mem, mem.preset)
              ep == [set EXCEPT !.stage = "voice_assigned"]
  <2>1. At("voice") /\ Sets(ep, "preflight") /\ UNCHANGED disk
    BY <1>4 DEF AssignVoice
  <2>2. Current' = IF mem.preset = None THEN Default ELSE mem.preset
    BY <1>4, <1>c DEF AssignVoice, CloneCast, Now, Current
  <2>3. mem \in EpisodeSession /\ (~mem.mastered => mem.audioJob = None)
    BY <2>1, <1>a, <1>v DEF Pcs
  <2>4. /\ ep.delivery = Current' /\ ep.audioJob = mem.audioJob
        /\ ep.mastered = mem.mastered /\ ep.stage = "voice_assigned"
    BY <2>2, <2>3, WorkFieldsOK, AudioFieldsOK DEF WithDelivery, AudioFields
  <2>. HIDE DEF ep
  <2>5. FreshRecord(ep, Now') /\ FreshAt(ep, "preflight", Now')
    BY <2>3, <2>4 DEF FreshRecord, FreshAt, WithAudio, Now
  <2>6. FreshRecord(disk, Now')
    BY <2>1, <1>v
  <2>. QED BY <2>1, <2>5, <2>6, <1>s DEF Pcs
<1>5. CASE ChangeDelivery
  <2>. DEFINE kept == Preserved(mem)
              clear == Cleared(kept)
              set == WithDelivery(clear, mem.preset)
              ep == Advanced(set, "voice_assigned")
  <2>1. At("voice") /\ Sets(ep, "preflight") /\ UNCHANGED disk /\ mem.preset # None
    BY <1>5 DEF ChangeDelivery
  <2>2. Current' = mem.preset
    BY <1>5, <1>c DEF ChangeDelivery, CloneCast, Now, Current
  <2>3. mem \in EpisodeSession /\ mem.stage # "listening_gate"
    BY <2>1, <1>a, <1>v DEF Pcs
  <2>4. AudioFields \cup {"stage"} \subseteq DOMAIN kept /\ kept.stage = mem.stage
    BY <2>3, AudioFieldsOK DEF Preserved, AudioFields, EpisodeSession
  <2>. HIDE DEF kept
  <2>5. /\ AudioFields \cup {"stage"} \subseteq DOMAIN clear
        /\ clear.stage = mem.stage /\ clear.audioJob = None
    BY <2>4 DEF Cleared, AudioFields
  <2>. HIDE DEF clear
  <2>6. /\ AudioFields \cup {"stage"} \subseteq DOMAIN set
        /\ set.stage = mem.stage /\ set.audioJob = None /\ set.delivery = mem.preset
    BY <2>1, <2>5 DEF WithDelivery, AudioFields
  <2>. HIDE DEF set
  <2>7. /\ ep.stage \in {mem.stage, "voice_assigned"} /\ ep.audioJob = None
        /\ ep.delivery = mem.preset
    BY <2>6 DEF Advanced, AudioFields
  <2>. HIDE DEF ep
  <2>8. FreshRecord(ep, Now') /\ FreshAt(ep, "preflight", Now')
    BY <2>2, <2>3, <2>7 DEF FreshRecord, FreshAt, WithAudio, Now
  <2>9. FreshRecord(disk, Now')
    BY <2>1, <1>v
  <2>. QED BY <2>1, <2>8, <2>9, <1>s DEF Pcs
<1>6. CASE KeepVoice
  <2>. DEFINE set == WithDelivery(mem, cc.preset)
              ep == [set EXCEPT !.stage = "voice_assigned"]
  <2>1. At("voice") /\ Sets(ep, "preflight") /\ UNCHANGED <<disk, cc>>
    BY <1>6 DEF KeepVoice
  <2>2. mem \in EpisodeSession /\ (~mem.mastered => mem.audioJob = None)
    BY <2>1, <1>a, <1>v DEF Pcs
  <2>3. /\ ep.delivery = Current' /\ ep.audioJob = mem.audioJob
        /\ ep.mastered = mem.mastered /\ ep.stage = "voice_assigned"
    BY <2>1, <2>2, WorkFieldsOK, AudioFieldsOK DEF WithDelivery, AudioFields, Now, Current
  <2>. HIDE DEF ep
  <2>4. FreshRecord(ep, Now') /\ FreshAt(ep, "preflight", Now')
    BY <2>2, <2>3 DEF FreshRecord, FreshAt, WithAudio, Now
  <2>5. FreshRecord(disk, Now')
    BY <2>1, <1>v
  <2>. QED BY <2>1, <2>4, <2>5, <1>s DEF Pcs
<1>7. CASE Render
  <2>1. At("rendering") /\ UNCHANGED disk
    BY <1>7 DEF Render
  <2>2. Now' = Now
    BY <1>7, <1>c DEF Render, CloneCast, Now, Current
  <2>3. /\ mem \in EpisodeSession /\ FreshRecord(mem, Now) /\ FreshRecord(disk, Now)
        /\ FreshAt(mem, "rendering", Now) /\ RunHas(mem, "rendering", again)
    BY <2>1, <1>a DEF Pcs
  <2>4. CASE FailSession("speech_render")
    <3>. DEFINE ep == [mem EXCEPT !.failed = "speech_render"]
    <3>1. KeepsAudio(ep, mem) /\ ep.stage = mem.stage
      BY <2>3, KeepsAudioSteps, WorkFieldsOK
    <3>2. Sets(ep, "idle")
      BY <2>4 DEF FailSession
    <3>. HIDE DEF ep
    <3>3. FreshRecord(ep, Now) /\ FreshAt(ep, "idle", Now)
      BY <2>3, <3>1, FreshKept DEF FreshAt, Generating, WithAudio
    <3>. QED BY <2>1, <2>2, <2>3, <3>2, <3>3, <1>s DEF Pcs
  <2>5. CASE Sets([mem EXCEPT !.speechJob = mem.delivery, !.stage = "speech_rendered"],
                  "validate")
    <3>. DEFINE ep == [mem EXCEPT !.speechJob = mem.delivery, !.stage = "speech_rendered"]
    <3>1. /\ ep.delivery = mem.delivery /\ ep.speechJob = mem.delivery
          /\ ep.audioJob = mem.audioJob /\ ep.mastered = mem.mastered
          /\ ep.stage = "speech_rendered"
      BY <2>3, WorkFieldsOK, AudioFieldsOK DEF AudioFields
    <3>2. Sets(ep, "validate")
      BY <2>5
    <3>. HIDE DEF ep
    <3>3. FreshRecord(ep, Now) /\ FreshAt(ep, "validate", Now)
      BY <2>3, <3>1 DEF FreshRecord, FreshAt, Generating, WithAudio
    <3>. QED BY <2>1, <2>2, <2>3, <3>2, <3>3, <1>s DEF Pcs
  <2>. QED BY <1>7, <2>4, <2>5 DEF Render
<1>8. CASE Assemble
  <2>. DEFINE ep == [mem EXCEPT !.audioJob = mem.speechJob, !.stage = "episode_assembled"]
  <2>1. At("assemble") /\ Sets(ep, "validateAudio") /\ UNCHANGED <<disk, cc>>
    BY <1>8 DEF Assemble, Stage
  <2>2. /\ mem \in EpisodeSession /\ FreshRecord(disk, Now)
        /\ FreshAt(mem, "assemble", Now)
    BY <2>1, <1>a DEF Pcs
  <2>3. /\ ep.delivery = mem.delivery /\ ep.audioJob = mem.speechJob
        /\ ep.stage = "episode_assembled"
    BY <2>2, WorkFieldsOK, AudioFieldsOK DEF AudioFields
  <2>. HIDE DEF ep
  <2>4. FreshRecord(ep, Now) /\ FreshAt(ep, "validateAudio", Now)
    BY <2>2, <2>3 DEF FreshRecord, FreshAt, Generating
  <2>5. Now' = Now
    BY <2>1 DEF Now, Current
  <2>. QED BY <2>1, <2>2, <2>4, <2>5, <1>s DEF Pcs
<1>k. CASE ChooseMasteringKey
  <2>. DEFINE ep == [mem EXCEPT !.retry = NextRetry(mem)]
  <2>1. At("masterKey") /\ UNCHANGED <<disk, cc>>
    BY <1>k DEF ChooseMasteringKey
  <2>2. /\ mem \in EpisodeSession /\ FreshRecord(mem, Now) /\ FreshRecord(disk, Now)
        /\ FreshAt(mem, "masterKey", Now)
    BY <2>1, <1>a DEF Pcs
  <2>3. Now' = Now
    BY <2>1 DEF Now, Current
  <2>4. CASE Sets(ep, "master")
    <3>1. /\ ep.delivery = mem.delivery /\ ep.audioJob = mem.audioJob
          /\ ep.mastered = mem.mastered /\ ep.stage = mem.stage
      BY <2>2, WorkFieldsOK, AudioFieldsOK DEF AudioFields
    <3>. HIDE DEF ep
    <3>2. FreshRecord(ep, Now) /\ FreshAt(ep, "master", Now)
      BY <2>2, <3>1 DEF FreshRecord, FreshAt, Generating, WithAudio
    <3>. QED BY <2>1, <2>2, <2>3, <2>4, <3>2, <1>s DEF Pcs
  <2>5. CASE Passes("master")
    <3>1. FreshAt(mem, "master", Now)
      BY <2>2 DEF FreshAt, Generating, WithAudio
    <3>. QED BY <2>1, <2>3, <2>5, <3>1 DEF Passes, FreshInv
  <2>. QED BY <1>k, <2>4, <2>5 DEF ChooseMasteringKey
<1>9. CASE Master
  <2>1. At("master") /\ UNCHANGED disk
    BY <1>9 DEF Master
  <2>2. Now'.delivery = Now.delivery /\ Now.keys \subseteq Now'.keys
    BY <1>9, <1>c DEF Master, CloneCast, Now, Current
  <2>3. /\ mem \in EpisodeSession /\ FreshRecord(disk, Now) /\ FreshAt(mem, "master", Now)
    BY <2>1, <1>a DEF Pcs
  <2>d. FreshRecord(disk, Now')
    BY <2>2, <2>3 DEF FreshRecord, Answered
  <2>4. CASE Ends
    BY <2>1, <2>4, <2>d, <1>e
  <2>5. ASSUME NEW audio, RecordMasteringResult(audio),
               \/ audio = mem.audioJob
               \/ KeyNames = "session" /\ <<audio, mem.retry>> \in Now'.keys
        PROVE  FreshInv'
    <3>. DEFINE ep == [mem EXCEPT !.finalAudio = audio, !.mastered = TRUE,
                                  !.stage = "episode_mastered"]
    <3>1. /\ ep.delivery = mem.delivery /\ ep.audioJob = mem.audioJob
          /\ ep.retry = mem.retry
          /\ ep.finalAudio = audio /\ ep.mastered /\ ep.stage = "episode_mastered"
      BY <2>3, WorkFieldsOK, AudioFieldsOK DEF AudioFields
    <3>2. Sets(ep, "gate")
      BY <2>5 DEF RecordMasteringResult
    <3>. HIDE DEF ep
    <3>3. FreshRecord(ep, Now') /\ FreshAt(ep, "gate", Now')
      BY <2>2, <2>3, <2>5, <3>1 DEF FreshRecord, FreshAt, Answered, Generating, WithAudio
    <3>. QED BY <2>1, <2>d, <3>2, <3>3, <1>s DEF Pcs
  <2>6. CASE \E audio \in KeyTakenBy(mem) \cap cc.masters : RecordMasteringResult(audio)
    <3>1. PICK audio \in KeyTakenBy(mem) : RecordMasteringResult(audio)
      BY <2>6
    <3>2. KeyNames = "session" /\ <<audio, mem.retry>> \in Now'.keys
      BY <2>2, <3>1 DEF KeyTakenBy, Now
    <3>. QED BY <2>5, <3>1, <3>2
  <2>. QED BY <1>9, <2>4, <2>5, <2>6 DEF Master
<1>10. CASE OpenGate
  <2>. DEFINE ep == [mem EXCEPT !.eligible = FALSE, !.stage = "listening_gate"]
  <2>1. At("gate") /\ Sets(ep, "decide") /\ UNCHANGED <<disk, cc>>
    BY <1>10 DEF OpenGate, Stage
  <2>2. /\ mem \in EpisodeSession /\ FreshRecord(disk, Now)
        /\ FreshAt(mem, "gate", Now)
    BY <2>1, <1>a DEF Pcs
  <2>3. /\ ep.delivery = mem.delivery /\ ep.audioJob = mem.audioJob
        /\ ep.finalAudio = mem.finalAudio /\ ep.retry = mem.retry
        /\ ep.mastered = mem.mastered
    BY <2>2, AudioFieldsOK DEF AudioFields
  <2>. HIDE DEF ep
  <2>4. FreshRecord(ep, Now) /\ FreshAt(ep, "decide", Now)
    BY <2>2, <2>3 DEF FreshRecord, FreshAt, Answered, Generating, WithAudio
  <2>5. Now' = Now
    BY <2>1 DEF Now, Current
  <2>. QED BY <2>1, <2>2, <2>4, <2>5, <1>s DEF Pcs
\* A decision is about a record that has left the gate.
<1>o. ASSUME disk # NoEpisode, \/ CanApprove(disk) /\ disk' = Approve(disk)
                               \/ disk' = Reject(disk)
      PROVE  /\ FreshRecord(disk', Now)
             /\ disk'.stage \in {"review_rejected", "owner_approved"}
             /\ disk'.audioJob = disk.audioJob /\ disk'.mastered = disk.mastered
  <2>1. /\ disk'.stage \in {"review_rejected", "owner_approved"}
        /\ disk'.audioJob = disk.audioJob /\ disk'.mastered = disk.mastered
        /\ disk'.delivery = disk.delivery
    BY <1>o, <1>d, WorkFieldsOK, AudioFieldsOK DEF Approve, Reject, AudioFields
  <2>. QED BY <1>o, <2>1 DEF FreshInv, FreshRecord
<1>11. CASE Decide
  <2>1. At("decide") /\ Ends /\ UNCHANGED cc
    BY <1>11 DEF Decide
  <2>2. disk # NoEpisode /\ FreshRecord(disk, Now)
    BY <2>1, <1>a DEF Pcs
  <2>3. Now' = Now
    BY <2>1 DEF Now, Current
  <2>4. FreshRecord(disk', Now)
    BY <1>11, <2>2, <1>o DEF Decide
  <2>. QED BY <2>1, <2>3, <2>4, <1>e
<1>12. CASE OwnerDecides
  <2>1. UNCHANGED <<mem, unsaved, pc, cc>> /\ disk # NoEpisode
    BY <1>12 DEF OwnerDecides, CanApprove
  <2>2. /\ FreshRecord(disk', Now)
        /\ disk'.stage \in {"review_rejected", "owner_approved"}
        /\ disk'.audioJob = disk.audioJob /\ disk'.mastered = disk.mastered
    BY <1>12, <2>1, <1>o DEF OwnerDecides
  <2>3. Now' = Now
    BY <2>1 DEF Now, Current
  <2>. QED BY <2>1, <2>2, <2>3 DEF FreshInv
<1>13. CASE PresetAppears \/ VoiceAppears
  <2>1. UNCHANGED <<disk, mem, unsaved, pc>>
    BY <1>13 DEF PresetAppears, VoiceAppears
  <2>2. Now' = Now
    BY <1>13, <1>c DEF PresetAppears, VoiceAppears, CloneCast, Now, Current
  <2>. QED BY <2>1, <2>2 DEF FreshInv
<1>14. CASE RefuseVoice \/ Interrupt
  <2>1. Ends /\ UNCHANGED <<disk, cc>>
    BY <1>14 DEF RefuseVoice, Interrupt
  <2>2. Now' = Now
    BY <2>1 DEF Now, Current
  <2>. QED BY <2>1, <2>2, <1>e DEF FreshInv
<1>15. CASE Quiet /\ ~AudioStep
  <2>1. disk' = disk /\ Now' = Now
    BY <1>15 DEF Quiet, Now, Current
  <2>2. /\ mem' = mem \/ mem'.stage \in {mem.stage} \cup (Stages \ {"listening_gate"})
        /\ ComesFrom
    BY <1>15, QuietMoves DEF OpensNoGate
  <2>3. /\ mem' # NoEpisode => mem # NoEpisode
        /\ mem # NoEpisode => KeepsAudio(mem', mem)
    BY <1>15 DEF Quiet, KeepsAudio
  <2>4. mem' # NoEpisode => FreshRecord(mem', Now)
    BY <2>2, <2>3, FreshKept DEF FreshInv
  <2>5. FreshAt(mem', pc', Now)
    <3>1. CASE pc' \in Generating
      <4>1. CASE mem # NoEpisode
        <5>1. /\ mem'.delivery = mem.delivery /\ mem'.speechJob = mem.speechJob
              /\ mem'.audioJob = mem.audioJob /\ mem'.finalAudio = mem.finalAudio
              /\ mem'.retry = mem.retry /\ mem'.mastered = mem.mastered
          BY <2>3, <4>1, KeepsAudioFields
        <5>2. FreshAt(mem, pc', Now)
          BY <2>2, <3>1, <4>1 DEF ComesFrom, FreshInv, FreshRecord, FreshAt, Follows, Generating,
                                     WithAudio
        <5>. QED BY <2>2, <5>1, <5>2 DEF FreshAt, Answered
      <4>2. CASE mem = NoEpisode
        <5>1. mem' = mem /\ unsaved' = unsaved /\ pc' # "idle"
          BY <1>15, <3>1, <4>2 DEF Quiet, Generating, WithAudio
        <5>2. mem' # NoEpisode
          BY <5>1, StepInv DEF Inv, RunInv
        <5>. QED BY <4>2, <5>1, <5>2
      <4>. QED BY <4>1, <4>2
    <3>2. CASE pc' \notin Generating
      BY <3>2 DEF FreshAt, Generating, WithAudio
    <3>. QED BY <3>1, <3>2
  <2>6. (mem' = mem /\ unsaved' = unsaved) \/ unsaved'
    BY <1>15 DEF Quiet
  <2>. QED BY <2>1, <2>4, <2>5, <2>6 DEF FreshInv
<1>. QED BY <1>1, <1>2, <1>3, <1>4, <1>5, <1>6, <1>7, <1>8, <1>k, <1>9, <1>10, <1>11,
            <1>12, <1>13, <1>14, <1>15, QuietSteps DEF AudioStep

\* What the owner is asked to listen to was rendered with the delivery the script is
\* assigned now, whoever changed it between two runs and wherever a run was stopped
\* (_render_speech, _master_existing_episode, _ensure_voice_assigned).
THEOREM GateIsCurrent == Spec => []GateIsCurrentDelivery
<1>1. Init => StageInv /\ FreshInv
  BY DEF Init, StageInv, RunHas, Scripted, BeforeAudio, WithAudio, FreshInv, FreshAt, Generating
<1>2. Inv /\ StageInv /\ FreshInv /\ [Next]_vars => StageInv' /\ FreshInv'
  BY StageInvStep, FreshStep
<1>3. FreshInv => GateIsCurrentDelivery
  BY DEF FreshInv, FreshRecord, Answered, Now, Current, GateIsCurrentDelivery, Saved
<1>. QED BY InitInv, StepInv, <1>1, <1>2, <1>3, PTL DEF Spec

(***************************************************************************)
(* The audio of a record belongs to the delivery the script is assigned.   *)
(*                                                                         *)
(* script-voice-assign takes effect in CloneCast before the record that    *)
(* clears the audio is saved.  A run that stops in between leaves audio of *)
(* the previous delivery in a record that looks current (the run           *)
(* MC_Episode_lost_clear), so what follows is about sessions whose studio  *)
(* does not get another default preset, or whose runs do not stop between  *)
(* a change and its save and whose mastering keys name a job of the audio  *)
(* sent with them.                                                         *)
(***************************************************************************)
DeliveryIsStable ==
    "preset" \notin Outside \/ ("save" \notin MayFail /\ KeyNames = "audio")

\* All audio of the record is of one delivery, the one that is assigned.
AudioFits(ep) ==
    /\ ep.speechJob \in {None, ep.delivery} /\ ep.audioJob \in {None, ep.delivery}
    /\ ep.finalAudio \in {None, ep.delivery}
    /\ ep.delivery # None => ep.delivery = Current /\ cc.voice # None

\* An eligible record has the audio that was approved.
Heard(ep) == ep.eligible => ep.finalAudio # None /\ ep.finalAudio = ep.approvedAudio

\* The audio has been cleared in the run's copy of the record, which is not saved yet.
Replacing ==
    "save" \notin MayFail /\ mem # NoEpisode /\ unsaved /\ disk.stage # "listening_gate"

DeliveryInv ==
    /\ mem # NoEpisode => AudioFits(mem) /\ Heard(mem)
    /\ disk # NoEpisode => Heard(disk) /\ (AudioFits(disk) \/ Replacing)
    /\ pc = "idle" /\ ~unsaved => mem = NoEpisode
    /\ Preparing => mem.voice # None
    /\ mem # NoEpisode /\ ~unsaved =>
           /\ mem.finalAudio = disk.finalAudio
           /\ disk.stage \in {mem.stage, "review_rejected", "owner_approved"}
    /\ mem # NoEpisode /\ disk # NoEpisode /\ disk.finalAudio \notin {None, mem.finalAudio} =>
           disk.finalAudio \in mem.history

\* A default preset that does not change is the only one: without it none is assigned,
\* with it audio is only made after it was assigned.
OnePreset(ep) == ep.preset \in {None, cc.default} /\ (ep.delivery # None => cc.preset = cc.default)

PresetInv ==
    "preset" \notin Outside =>
        /\ cc.preset \in {None, cc.default}
        /\ mem # NoEpisode => OnePreset(mem)
        /\ disk # NoEpisode => OnePreset(disk)
        /\ Preparing => mem.preset = cc.default

\* And then every mastering job is of that delivery.
OnlyDelivery == IF cc.default = None THEN Default ELSE cc.default
KeysInv == "preset" \notin Outside => \A job \in cc.keys : job[1] = OnlyDelivery

AudioIInv == Inv /\ StageInv /\ DeliveryInv /\ PresetInv /\ KeysInv

\* So no other audio of the session has the key that is sent.
LEMMA KeyIsFree ==
    ASSUME AudioIInv, DeliveryIsStable, At("master")
    PROVE  KeyTakenBy(mem) = {}
<1>1. CASE KeyNames = "audio"
  BY <1>1 DEF KeyTakenBy
<1>2. CASE "preset" \notin Outside
  <2>1. mem # NoEpisode /\ mem.audioJob # None /\ AudioFits(mem) /\ OnePreset(mem)
    BY <1>2 DEF AudioIInv, Inv, RunInv, AudioInv, HasAudio, At, DeliveryInv, PresetInv
  <2>2. mem.audioJob = mem.delivery /\ mem.delivery = OnlyDelivery
    BY <2>1 DEF AudioFits, OnePreset, Current, OnlyDelivery
  <2>3. \A job \in cc.keys : job[1] = mem.audioJob
    BY <1>2, <2>2 DEF AudioIInv, KeysInv
  <2>. QED BY <2>3 DEF KeyTakenBy
<1>. QED BY <1>1, <1>2 DEF DeliveryIsStable

\* Only mastering adds a job.
LEMMA KeysStep ==
    ASSUME AudioIInv, DeliveryIsStable, [Next]_vars
    PROVE  KeysInv'
<1>i. Inv
  BY DEF AudioIInv
<1>c. cc \in CloneCast
  BY <1>i DEF Inv, TypeOK
<1>k. ASSUME cc'.keys = cc.keys, cc'.default = cc.default
      PROVE  KeysInv'
  BY <1>k DEF AudioIInv, KeysInv, OnlyDelivery
<1>1. CASE Quiet
  BY <1>1, <1>k DEF Quiet
<1>2. CASE Save \/ Begin \/ ChooseInputs \/ KeepVoice \/ RefuseVoice \/ Assemble \/ OpenGate
           \/ Decide \/ OwnerDecides \/ Interrupt \/ ChooseMasteringKey
  BY <1>2, <1>k DEF Save, Begin, ChooseInputs, KeepVoice, RefuseVoice, Assemble, OpenGate,
              Stage, Decide, OwnerDecides, Interrupt, ChooseMasteringKey
<1>3. CASE AssignVoice \/ VoiceAppears \/ ChangeDelivery \/ Render
  BY <1>3, <1>c, <1>k DEF AssignVoice, VoiceAppears, ChangeDelivery, Render, CloneCast
<1>4. CASE PresetAppears
  BY <1>4 DEF PresetAppears, KeysInv
<1>5. CASE Master
  <2>1. At("master") /\ cc'.default = cc.default
        /\ cc'.keys \subseteq cc.keys \cup {<<mem.audioJob, mem.retry>>}
    BY <1>5, <1>c DEF Master, CloneCast
  <2>2. CASE "preset" \notin Outside
    <3>1. mem # NoEpisode /\ mem.audioJob # None /\ AudioFits(mem) /\ OnePreset(mem)
      BY <2>1, <2>2 DEF AudioIInv, Inv, RunInv, AudioInv, HasAudio, At, DeliveryInv, PresetInv
    <3>2. mem.audioJob = OnlyDelivery
      BY <3>1 DEF AudioFits, OnePreset, Current, OnlyDelivery
    <3>. QED BY <2>1, <2>2, <3>2 DEF AudioIInv, KeysInv, OnlyDelivery
  <2>. QED BY <2>2 DEF KeysInv
<1>. QED BY <1>1, <1>2, <1>3, <1>4, <1>5, <1>i, QuietSteps DEF AudioStep

\* Only what is kept matters.
LEMMA AudioFitsKept ==
    ASSUME NEW ep, NEW new, KeepsAudio(new, ep)
    PROVE  /\ AudioFits(ep) => AudioFits(new)
           /\ Heard(ep) => Heard(new)
           /\ OnePreset(ep) => OnePreset(new)
  BY KeepsAudioFields DEF AudioFits, Heard, OnePreset

\* A step that has nothing to do with audio keeps both invariants.
LEMMA QuietDelivery ==
    ASSUME Inv, DeliveryInv, PresetInv, Quiet
    PROVE  DeliveryInv' /\ PresetInv'
<1>1. CASE UNCHANGED <<mem, unsaved>>
  BY <1>1 DEF Quiet, DeliveryInv, PresetInv, AudioFits, Heard, OnePreset, Replacing, Current
<1>2. CASE /\ mem # NoEpisode /\ mem' # NoEpisode /\ ~unsaved /\ unsaved'
           /\ KeepsAudio(mem', mem)
  <2>1. /\ mem'.preset = mem.preset /\ mem'.delivery = mem.delivery
        /\ mem'.speechJob = mem.speechJob /\ mem'.audioJob = mem.audioJob
        /\ mem'.finalAudio = mem.finalAudio /\ mem'.history = mem.history
        /\ mem'.eligible = mem.eligible /\ mem'.approvedAudio = mem.approvedAudio
    BY <1>2, KeepsAudioFields
  <2>4. mem'.voice = mem.voice
    BY <1>2, KeepsAudioFields
  <2>2. DeliveryInv'
    BY <1>2, <2>1, <2>4 DEF Quiet, DeliveryInv, AudioFits, Heard, Replacing, Current
  <2>3. PresetInv'
    BY <1>2, <2>1 DEF Quiet, PresetInv, OnePreset
  <2>. QED BY <2>2, <2>3
<1>. QED BY <1>1, <1>2 DEF Quiet

\* Fields of the owner's decision.
LEMMA DecisionAudio ==
    ASSUME NEW ep \in EpisodeSession, NEW new, new = Approve(ep) \/ new = Reject(ep)
    PROVE  /\ new.preset = ep.preset /\ new.delivery = ep.delivery
           /\ new.speechJob = ep.speechJob /\ new.audioJob = ep.audioJob
           /\ new.finalAudio = ep.finalAudio
           /\ new = Approve(ep) => /\ new.stage = "owner_approved" /\ new.eligible
                                   /\ new.approvedAudio = ep.finalAudio
           /\ new = Reject(ep) => /\ new.stage = "review_rejected" /\ ~new.eligible
                                  /\ new.approvedAudio = ep.approvedAudio
<1>1. AudioFields \cup {"stage"} \subseteq DOMAIN ep
  BY AudioFieldsOK DEF EpisodeSession
<1>. QED BY <1>1 DEF Approve, Reject, AudioFields

\* Every step keeps the audio of the record that of the assigned delivery.
LEMMA DeliveryStep ==
    ASSUME AudioIInv, [Next]_vars, DeliveryIsStable
    PROVE  DeliveryInv' /\ PresetInv'
<1>i. Inv /\ StageInv /\ DeliveryInv /\ PresetInv
  BY DEF AudioIInv
<1>m. mem # NoEpisode => mem \in EpisodeSession
  BY <1>i DEF Inv, TypeOK
<1>d. disk # NoEpisode => disk \in EpisodeSession
  BY <1>i DEF Inv, TypeOK
<1>c. cc \in CloneCast
  BY <1>i DEF Inv, TypeOK
<1>u. mem' # NoEpisode \/ ~unsaved'
  BY <1>i, StepInv DEF Inv, RunInv
<1>p. Preparing => pc # "idle"
  BY <1>i DEF Preparing, StageInv, RunHas
<1>a. ASSUME NEW place \in Pcs \ {"idle"}, At(place)
      PROVE  /\ mem \in EpisodeSession /\ mem # NoEpisode /\ ~unsaved /\ pc = place
             /\ disk \in EpisodeSession /\ disk # NoEpisode
             /\ AudioFits(mem) /\ Heard(mem) /\ AudioFits(disk) /\ Heard(disk)
             /\ mem.finalAudio = disk.finalAudio
             /\ disk.stage \in {mem.stage, "review_rejected", "owner_approved"}
             /\ ("preset" \notin Outside => OnePreset(mem) /\ OnePreset(disk))
             /\ HasAudio(mem, place)
             /\ (place \notin {"accept", "recover"} => again = FALSE)
  <2>1. again \in BOOLEAN /\ RunHas(mem, pc, again)
    BY <1>i DEF Inv, TypeOK, StageInv
  <2>2. place \notin {"accept", "recover"} => again = FALSE
    BY <1>a, <2>1 DEF RunHas, At
  <2>. QED BY <1>a, <1>i, <1>m, <1>d, <2>2
           DEF Inv, RunInv, AudioInv, At, DeliveryInv, Replacing, PresetInv
<1>1. CASE Save
  <2>1. unsaved /\ mem # NoEpisode /\ disk' = mem /\ ~unsaved' /\ UNCHANGED <<pc, cc, again>>
    BY <1>1, <1>i DEF Save, Inv, RunInv
  <2>2. mem' = IF pc = "idle" THEN NoEpisode ELSE mem
    BY <1>1 DEF Save
  <2>3. DeliveryInv'
    BY <1>i, <1>p, <2>1, <2>2 DEF DeliveryInv, AudioFits, Heard, Current, Preparing
  <2>4. PresetInv'
    BY <1>i, <1>p, <2>1, <2>2 DEF PresetInv, OnePreset, Preparing
  <2>. QED BY <2>3, <2>4
<1>2. CASE Begin
  <2>1. UNCHANGED <<disk, again, cc>> /\ ~unsaved /\ pc = "idle" /\ pc' = "confirm"
    BY <1>2 DEF Begin, At, Sets
  <2>2. ~Preparing'
    BY <1>i, <2>1 DEF StageInv, RunHas, Inv, TypeOK, Preparing
  <2>3. CASE disk = NoEpisode
    <3>1. mem' = NewEpisode /\ unsaved'
      BY <1>2, <2>3 DEF Begin, Sets
    <3>2. AudioFits(NewEpisode)' /\ Heard(NewEpisode) /\ OnePreset(NewEpisode)'
      BY DEF NewEpisode, AudioFits, Heard, OnePreset
    <3>3. DeliveryInv'
      BY <2>1, <2>2, <2>3, <3>1, <3>2 DEF DeliveryInv
    <3>4. PresetInv'
      BY <1>i, <2>1, <2>2, <2>3, <3>1, <3>2 DEF PresetInv
    <3>. QED BY <3>3, <3>4
  <2>4. CASE disk # NoEpisode
    <3>1. mem' = disk /\ ~unsaved'
      BY <1>2, <2>1, <2>4 DEF Begin
    <3>2. mem = NoEpisode /\ AudioFits(disk) /\ Heard(disk)
      BY <1>i, <2>1, <2>4 DEF DeliveryInv, Replacing
    <3>3. DeliveryInv'
      BY <2>1, <2>2, <2>4, <3>1, <3>2 DEF DeliveryInv, AudioFits, Heard, Current
    <3>4. PresetInv'
      BY <1>i, <2>1, <2>2, <2>4, <3>1 DEF PresetInv, OnePreset
    <3>. QED BY <3>3, <3>4
  <2>. QED BY <2>3, <2>4
\* A stage that changes audio, but not the delivery that is assigned.
<1>s. ASSUME NEW place \in Pcs \ {"idle"}, At(place), NEW ep, NEW next, Sets(ep, next),
             UNCHANGED disk, ~Preparing',
             cc'.voice = cc.voice, cc'.preset = cc.preset, cc'.default = cc.default,
             AudioFits(ep), Heard(ep),
             mem.finalAudio \notin {None, ep.finalAudio} => mem.finalAudio \in ep.history,
             "preset" \notin Outside => OnePreset(ep)
      PROVE  DeliveryInv' /\ PresetInv'
  <2>1. mem' = ep /\ unsaved' /\ mem' # NoEpisode /\ disk # NoEpisode
    BY <1>s, <1>a, <1>u DEF Sets
  <2>2. DeliveryInv'
    BY <1>s, <1>a, <2>1 DEF DeliveryInv, AudioFits, Heard, Current
  <2>3. PresetInv'
    BY <1>i, <1>s, <1>a, <2>1 DEF PresetInv, OnePreset
  <2>. QED BY <2>2, <2>3
\* The end of a run.
<1>e. ASSUME Ends, cc'.voice = cc.voice, cc'.preset = cc.preset, cc'.default = cc.default,
             disk' # NoEpisode => AudioFits(disk') /\ Heard(disk'),
             "preset" \notin Outside /\ disk' # NoEpisode => OnePreset(disk')
      PROVE  DeliveryInv' /\ PresetInv'
  <2>1. mem' = NoEpisode /\ ~unsaved' /\ pc' = "idle" /\ again' = FALSE
    BY <1>e DEF Ends
  <2>2. DeliveryInv'
    BY <1>e, <2>1 DEF DeliveryInv, AudioFits, Heard, Current, Preparing
  <2>3. PresetInv'
    BY <1>i, <1>e, <2>1 DEF PresetInv, OnePreset, Preparing
  <2>. QED BY <2>2, <2>3
<1>3. CASE ChooseInputs
  <2>1. PICK voice \in Voices :
           Sets([mem EXCEPT !.voice = voice,
                            !.preset = IF @ = None THEN cc.default ELSE @,
                            !.stage = "inputs_validated"], "accept")
    BY <1>3 DEF ChooseInputs
  <2>2. At("inputs") /\ UNCHANGED <<disk, cc>>
    BY <1>3 DEF ChooseInputs
  <2>. DEFINE ep == [mem EXCEPT !.voice = voice,
                            !.preset = IF @ = None THEN cc.default ELSE @,
                            !.stage = "inputs_validated"]
  <2>3. mem \in EpisodeSession
    BY <2>2, <1>a DEF Pcs
  <2>4. /\ ep.voice = voice /\ ep.delivery = mem.delivery /\ ep.speechJob = mem.speechJob
        /\ ep.audioJob = mem.audioJob /\ ep.finalAudio = mem.finalAudio
        /\ ep.history = mem.history /\ ep.eligible = mem.eligible
        /\ ep.approvedAudio = mem.approvedAudio
        /\ ep.preset = IF mem.preset = None THEN cc.default ELSE mem.preset
    BY <2>3, AudioFieldsOK DEF AudioFields
  <2>5. mem' = ep /\ unsaved' /\ mem' # NoEpisode /\ pc' = "accept"
    BY <2>1, <1>u DEF Sets
  <2>6. ep.voice # None
    BY <2>4, NamesAssumption
  <2>. HIDE DEF ep
  <2>7. DeliveryInv'
    BY <2>2, <2>4, <2>5, <2>6, <1>a DEF DeliveryInv, AudioFits, Heard, Current, Pcs
  <2>8. PresetInv'
    BY <1>i, <2>2, <2>4, <2>5, <1>a DEF PresetInv, OnePreset, Pcs
  <2>. QED BY <2>7, <2>8
<1>v. ASSUME At("voice") PROVE mem.voice # None /\ ("preset" \notin Outside => mem.preset = cc.default)
  BY <1>v, <1>i DEF DeliveryInv, PresetInv, Preparing, At
<1>4. CASE AssignVoice
  <2>. DEFINE set == WithDelivery(mem, mem.preset)
              ep == [set EXCEPT !.stage = "voice_assigned"]
  <2>1. At("voice") /\ Sets(ep, "preflight") /\ UNCHANGED <<disk, again>> /\ cc.voice = None
    BY <1>4 DEF AssignVoice
  <2>2. cc'.voice = mem.voice /\ cc'.preset = mem.preset /\ cc'.default = cc.default
    BY <1>4, <1>c DEF AssignVoice, CloneCast
  <2>3. /\ mem \in EpisodeSession /\ AudioFits(mem) /\ Heard(mem) /\ again = FALSE
        /\ disk # NoEpisode /\ AudioFits(disk) /\ Heard(disk) /\ mem.voice # None
        /\ ("preset" \notin Outside => OnePreset(disk) /\ mem.preset = cc.default)
    BY <2>1, <1>a, <1>v DEF Pcs
  <2>4. /\ mem.delivery = None /\ mem.speechJob = None /\ mem.audioJob = None
        /\ mem.finalAudio = None /\ ~mem.eligible
        /\ disk.delivery = None /\ disk.finalAudio = None
        /\ disk.speechJob = None /\ disk.audioJob = None
    BY <2>1, <2>3 DEF AudioFits, Heard
  <2>5. /\ ep.delivery = (IF mem.preset = None THEN Default ELSE mem.preset)
        /\ ep.speechJob = None /\ ep.audioJob = None /\ ep.finalAudio = None
        /\ ep.preset = mem.preset /\ ep.eligible = mem.eligible
    BY <2>3, <2>4, AudioFieldsOK DEF WithDelivery, AudioFields
  <2>6. /\ mem' = ep /\ unsaved' /\ mem' # NoEpisode /\ pc' = "preflight"
        /\ ~Preparing'
    BY <2>1, <2>3, <1>u DEF Sets, Preparing
  <2>. HIDE DEF ep
  <2>7. DeliveryInv'
    BY <2>1, <2>2, <2>3, <2>4, <2>5, <2>6 DEF DeliveryInv, AudioFits, Heard, Current
  <2>8. PresetInv'
    BY <2>1, <2>2, <2>3, <2>4, <2>5, <2>6 DEF PresetInv, OnePreset
  <2>. QED BY <2>7, <2>8
<1>5. CASE ChangeDelivery
  <2>. DEFINE kept == Preserved(mem)
              clear == Cleared(kept)
              set == WithDelivery(clear, mem.preset)
              ep == Advanced(set, "voice_assigned")
  <2>1. /\ At("voice") /\ Sets(ep, "preflight") /\ UNCHANGED <<disk, again>>
        /\ cc.voice = mem.voice /\ mem.preset # None /\ cc.preset # mem.preset
    BY <1>5 DEF ChangeDelivery
  <2>2. cc'.voice = cc.voice /\ cc'.preset = mem.preset /\ cc'.default = cc.default
    BY <1>5, <1>c DEF ChangeDelivery, CloneCast
  <2>3. /\ mem \in EpisodeSession /\ AudioFits(mem) /\ again = FALSE
        /\ disk # NoEpisode /\ AudioFits(disk) /\ Heard(disk) /\ mem.voice # None
        /\ ("preset" \notin Outside => OnePreset(disk) /\ mem.preset = cc.default)
        /\ mem.finalAudio = disk.finalAudio
        /\ disk.stage \in {mem.stage, "review_rejected", "owner_approved"}
    BY <2>1, <1>a, <1>v DEF Pcs
  <2>4. /\ kept.preset = mem.preset /\ AudioFields \cup {"stage"} \subseteq DOMAIN kept
        /\ (mem.finalAudio # None => mem.finalAudio \in kept.history)
    BY <2>3, AudioFieldsOK DEF Preserved, AudioFields, EpisodeSession
  <2>. HIDE DEF kept
  <2>5. /\ clear.preset = mem.preset /\ AudioFields \cup {"stage"} \subseteq DOMAIN clear
        /\ clear.history = kept.history /\ clear.speechJob = None /\ clear.audioJob = None
        /\ clear.finalAudio = None /\ ~clear.eligible
    BY <2>4 DEF Cleared, AudioFields
  <2>. HIDE DEF clear
  <2>6. /\ set.preset = mem.preset /\ AudioFields \cup {"stage"} \subseteq DOMAIN set
        /\ set.history = kept.history /\ set.speechJob = None /\ set.audioJob = None
        /\ set.finalAudio = None /\ ~set.eligible /\ set.delivery = mem.preset
    BY <2>1, <2>5 DEF WithDelivery, AudioFields
  <2>. HIDE DEF set
  <2>7. /\ ep.preset = mem.preset /\ ep.history = kept.history /\ ep.speechJob = None
        /\ ep.audioJob = None /\ ep.finalAudio = None /\ ~ep.eligible
        /\ ep.delivery = mem.preset
    BY <2>6 DEF Advanced, AudioFields
  <2>8. /\ mem' = ep /\ unsaved' /\ mem' # NoEpisode /\ pc' = "preflight"
        /\ ~Preparing'
    BY <2>1, <2>3, <1>u DEF Sets, Preparing
  <2>. HIDE DEF ep
  <2>9. AudioFits(disk)' \/ Replacing'
    <3>1. CASE "save" \notin MayFail
      <4>1. StageOrder[mem.stage] <= 118
        BY <2>1, <1>i DEF StageInv, RunHas, At
      <4>2. disk.stage # "listening_gate"
        BY <4>1, <2>3, StageNumbers
      <4>. QED BY <3>1, <4>2, <2>1, <2>8 DEF Replacing
    <3>2. CASE "preset" \notin Outside
      <4>1. disk.delivery = None
        BY <3>2, <2>1, <2>3 DEF OnePreset
      <4>. QED BY <4>1, <2>1, <2>3 DEF AudioFits
    <3>. QED BY <3>1, <3>2 DEF DeliveryIsStable
  <2>10. DeliveryInv'
    BY <2>1, <2>2, <2>3, <2>4, <2>7, <2>8, <2>9 DEF DeliveryInv, AudioFits, Heard, Current
  <2>11. PresetInv'
    BY <2>1, <2>2, <2>3, <2>7, <2>8 DEF PresetInv, OnePreset
  <2>. QED BY <2>10, <2>11
<1>6. CASE KeepVoice
  <2>. DEFINE set == WithDelivery(mem, cc.preset)
              ep == [set EXCEPT !.stage = "voice_assigned"]
  <2>1. /\ At("voice") /\ Sets(ep, "preflight") /\ UNCHANGED <<disk, again, cc>>
        /\ cc.voice = mem.voice /\ (mem.preset = None \/ cc.preset = mem.preset)
    BY <1>6 DEF KeepVoice
  <2>3. /\ mem \in EpisodeSession /\ AudioFits(mem) /\ Heard(mem) /\ again = FALSE
        /\ mem.voice # None
        /\ ("preset" \notin Outside => OnePreset(mem) /\ mem.preset = cc.default)
    BY <2>1, <1>a, <1>v DEF Pcs
  <2>4. /\ ep.delivery = Current /\ ep.preset = mem.preset
        /\ ep.speechJob = mem.speechJob /\ ep.audioJob = mem.audioJob
        /\ ep.finalAudio = mem.finalAudio /\ ep.eligible = mem.eligible
        /\ ep.approvedAudio = mem.approvedAudio
    BY <2>3, AudioFieldsOK DEF WithDelivery, AudioFields, Current
  <2>5. ~Preparing'
    BY <2>1, <2>3 DEF Sets, Preparing
  <2>. HIDE DEF ep
  <2>6. AudioFits(ep) /\ Heard(ep)
    BY <2>1, <2>3, <2>4 DEF AudioFits, Heard
  <2>7. "preset" \notin Outside => OnePreset(ep)
    BY <1>i, <2>1, <2>3, <2>4 DEF OnePreset, PresetInv
  <2>. QED BY <2>1, <2>4, <2>5, <2>6, <2>7, <1>s DEF Pcs
<1>7. CASE Render
  <2>1. At("rendering") /\ UNCHANGED disk
    BY <1>7 DEF Render
  <2>2. cc'.voice = cc.voice /\ cc'.preset = cc.preset /\ cc'.default = cc.default
    BY <1>7, <1>c DEF Render, CloneCast
  <2>3. /\ mem \in EpisodeSession /\ AudioFits(mem) /\ Heard(mem) /\ again = FALSE
        /\ mem.delivery # None /\ ("preset" \notin Outside => OnePreset(mem))
    <3>1. "rendering" \in Pcs \ {"idle"}
      BY DEF Pcs
    <3>2. HasAudio(mem, "rendering")
      BY <2>1, <3>1, <1>a
    <3>. QED BY <2>1, <3>1, <3>2, <1>a DEF HasAudio
  <2>4. CASE FailSession("speech_render")
    <3>. DEFINE ep == [mem EXCEPT !.failed = "speech_render"]
    <3>1. KeepsAudio(ep, mem)
      BY <2>3, KeepsAudioSteps
    <3>2. Sets(ep, "idle") /\ again' = FALSE
      BY <2>4 DEF FailSession
    <3>. HIDE DEF ep
    <3>3. AudioFits(ep) /\ Heard(ep) /\ ("preset" \notin Outside => OnePreset(ep))
      BY <2>3, <3>1, AudioFitsKept
    <3>4. ~Preparing' /\ ep.finalAudio = mem.finalAudio
      BY <3>1, <3>2, KeepsAudioFields DEF Preparing, Sets
    <3>. QED BY <2>1, <2>2, <3>2, <3>3, <3>4, <1>s DEF Pcs
  <2>5. CASE Sets([mem EXCEPT !.speechJob = mem.delivery, !.stage = "speech_rendered"],
                  "validate") /\ UNCHANGED again
    <3>. DEFINE ep == [mem EXCEPT !.speechJob = mem.delivery, !.stage = "speech_rendered"]
    <3>1. /\ ep.delivery = mem.delivery /\ ep.preset = mem.preset
          /\ ep.speechJob = mem.delivery /\ ep.audioJob = mem.audioJob
          /\ ep.finalAudio = mem.finalAudio /\ ep.eligible = mem.eligible
          /\ ep.approvedAudio = mem.approvedAudio
      BY <2>3, AudioFieldsOK DEF AudioFields
    <3>2. Sets(ep, "validate")
      BY <2>5
    <3>. HIDE DEF ep
    <3>3. AudioFits(ep) /\ Heard(ep) /\ ("preset" \notin Outside => OnePreset(ep))
      BY <2>3, <3>1 DEF AudioFits, Heard, OnePreset
    <3>4. ~Preparing'
      BY <2>3, <2>5 DEF Preparing, Sets
    <3>. QED BY <2>1, <2>2, <3>1, <3>2, <3>3, <3>4, <1>s DEF Pcs
  <2>. QED BY <1>7, <2>4, <2>5 DEF Render
<1>8. CASE Assemble
  <2>. DEFINE ep == [mem EXCEPT !.audioJob = mem.speechJob, !.stage = "episode_assembled"]
  <2>1. At("assemble") /\ Sets(ep, "validateAudio") /\ UNCHANGED <<disk, again, cc>>
    BY <1>8 DEF Assemble, Stage
  <2>2. /\ mem \in EpisodeSession /\ AudioFits(mem) /\ Heard(mem) /\ again = FALSE
        /\ ("preset" \notin Outside => OnePreset(mem))
    <3>1. "assemble" \in Pcs \ {"idle"}
      BY DEF Pcs
    <3>. QED BY <2>1, <3>1, <1>a
  <2>3. /\ ep.delivery = mem.delivery /\ ep.preset = mem.preset
        /\ ep.speechJob = mem.speechJob /\ ep.audioJob = mem.speechJob
        /\ ep.finalAudio = mem.finalAudio /\ ep.eligible = mem.eligible
        /\ ep.approvedAudio = mem.approvedAudio
    BY <2>2, AudioFieldsOK DEF AudioFields
  <2>. HIDE DEF ep
  <2>4. AudioFits(ep) /\ Heard(ep) /\ ("preset" \notin Outside => OnePreset(ep))
    BY <2>2, <2>3 DEF AudioFits, Heard, OnePreset
  <2>5. ~Preparing'
    BY <2>1, <2>2 DEF Preparing, Sets
  <2>. QED BY <2>1, <2>3, <2>4, <2>5, <1>s DEF Pcs
<1>k. CASE ChooseMasteringKey
  <2>1. At("masterKey") /\ UNCHANGED <<disk, again, cc>> /\ pc' = "master"
    BY <1>k DEF ChooseMasteringKey, Sets, Passes
  <2>2. /\ mem \in EpisodeSession /\ AudioFits(mem) /\ Heard(mem) /\ again = FALSE
        /\ ("preset" \notin Outside => OnePreset(mem))
    <3>1. "masterKey" \in Pcs \ {"idle"}
      BY DEF Pcs
    <3>. QED BY <2>1, <3>1, <1>a
  <2>3. ~Preparing'
    BY <2>1, <2>2 DEF Preparing
  <2>4. CASE Passes("master")
    <3>1. UNCHANGED <<mem, unsaved>> /\ mem # NoEpisode
      BY <2>1, <2>4, <1>a DEF Passes, Pcs
    <3>2. DeliveryInv'
      BY <1>i, <2>1, <2>3, <3>1 DEF DeliveryInv, AudioFits, Heard, Replacing, Current
    <3>3. PresetInv'
      BY <1>i, <2>1, <2>3, <3>1 DEF PresetInv, OnePreset
    <3>. QED BY <3>2, <3>3
  <2>. DEFINE ep == [mem EXCEPT !.retry = NextRetry(mem)]
  <2>5. CASE Sets(ep, "master")
    <3>1. /\ ep.delivery = mem.delivery /\ ep.preset = mem.preset
          /\ ep.speechJob = mem.speechJob /\ ep.audioJob = mem.audioJob
          /\ ep.finalAudio = mem.finalAudio /\ ep.eligible = mem.eligible
          /\ ep.approvedAudio = mem.approvedAudio
      BY <2>2, AudioFieldsOK DEF AudioFields
    <3>. HIDE DEF ep
    <3>2. AudioFits(ep) /\ Heard(ep) /\ ("preset" \notin Outside => OnePreset(ep))
      BY <2>2, <3>1 DEF AudioFits, Heard, OnePreset
    <3>3. mem.finalAudio \in {None, ep.finalAudio}
      BY <3>1
    <3>. QED BY <2>1, <2>3, <2>5, <3>2, <3>3, <1>s DEF Pcs
  <2>. QED BY <1>k, <2>4, <2>5 DEF ChooseMasteringKey
<1>9. CASE Master
  <2>. DEFINE ep == [mem EXCEPT !.finalAudio = mem.audioJob, !.mastered = TRUE,
                                !.stage = "episode_mastered"]
  <2>1. At("master") /\ UNCHANGED disk /\ KeyTakenBy(mem) = {}
    BY <1>9, KeyIsFree DEF Master
  <2>2. cc'.voice = cc.voice /\ cc'.preset = cc.preset /\ cc'.default = cc.default
    BY <1>9, <1>c DEF Master, CloneCast
  <2>3. /\ mem \in EpisodeSession /\ AudioFits(mem) /\ Heard(mem) /\ again = FALSE
        /\ mem.audioJob # None /\ AudioFits(disk) /\ Heard(disk)
        /\ ("preset" \notin Outside => OnePreset(mem) /\ OnePreset(disk))
    <3>1. "master" \in Pcs \ {"idle"}
      BY DEF Pcs
    <3>2. HasAudio(mem, "master")
      BY <2>1, <3>1, <1>a
    <3>. QED BY <2>1, <3>1, <3>2, <1>a DEF HasAudio
  <2>4. CASE Ends
    BY <2>1, <2>2, <2>3, <2>4, <1>e
  <2>5. CASE Sets(ep, "gate") /\ UNCHANGED again
    <3>1. /\ ep.delivery = mem.delivery /\ ep.preset = mem.preset
          /\ ep.speechJob = mem.speechJob /\ ep.audioJob = mem.audioJob
          /\ ep.finalAudio = mem.audioJob /\ ep.eligible = mem.eligible
          /\ ep.approvedAudio = mem.approvedAudio
      BY <2>3, AudioFieldsOK DEF AudioFields
    <3>. HIDE DEF ep
    <3>2. AudioFits(ep) /\ Heard(ep) /\ ("preset" \notin Outside => OnePreset(ep))
      BY <2>3, <3>1 DEF AudioFits, Heard, OnePreset
    <3>3. mem.finalAudio \in {None, ep.finalAudio}
      BY <2>3, <3>1 DEF AudioFits
    <3>4. ~Preparing'
      BY <2>3, <2>5 DEF Preparing, Sets
    <3>. QED BY <2>1, <2>2, <2>5, <3>2, <3>3, <3>4, <1>s DEF Pcs
  <2>. QED BY <1>9, <2>1, <2>4, <2>5 DEF Master, RecordMasteringResult
<1>10. CASE OpenGate
  <2>. DEFINE ep == [mem EXCEPT !.eligible = FALSE, !.stage = "listening_gate"]
  <2>1. At("gate") /\ Sets(ep, "decide") /\ UNCHANGED <<disk, again, cc>>
    BY <1>10 DEF OpenGate, Stage
  <2>2. /\ mem \in EpisodeSession /\ AudioFits(mem) /\ again = FALSE
        /\ ("preset" \notin Outside => OnePreset(mem))
    <3>1. "gate" \in Pcs \ {"idle"}
      BY DEF Pcs
    <3>. QED BY <2>1, <3>1, <1>a
  <2>3. /\ ep.delivery = mem.delivery /\ ep.preset = mem.preset
        /\ ep.speechJob = mem.speechJob /\ ep.audioJob = mem.audioJob
        /\ ep.finalAudio = mem.finalAudio /\ ~ep.eligible
    BY <2>2, AudioFieldsOK DEF AudioFields
  <2>. HIDE DEF ep
  <2>4. AudioFits(ep) /\ Heard(ep) /\ ("preset" \notin Outside => OnePreset(ep))
    BY <2>2, <2>3 DEF AudioFits, Heard, OnePreset
  <2>5. ~Preparing'
    BY <2>1, <2>2 DEF Preparing, Sets
  <2>. QED BY <2>1, <2>3, <2>4, <2>5, <1>s DEF Pcs
<1>11. CASE Decide
  <2>1. At("decide") /\ Ends /\ UNCHANGED cc
    BY <1>11 DEF Decide
  <2>2. /\ disk \in EpisodeSession /\ disk # NoEpisode /\ AudioFits(disk) /\ Heard(disk)
        /\ ("preset" \notin Outside => OnePreset(disk))
    BY <2>1, <1>a DEF Pcs
  <2>3. CASE disk' = disk
    BY <2>1, <2>2, <2>3, <1>e
  <2>4. CASE (CanApprove(disk) /\ disk' = Approve(disk)) \/ disk' = Reject(disk)
    <3>1. /\ disk'.preset = disk.preset /\ disk'.delivery = disk.delivery
          /\ disk'.speechJob = disk.speechJob /\ disk'.audioJob = disk.audioJob
          /\ disk'.finalAudio = disk.finalAudio
          /\ ~disk'.eligible \/ (disk'.approvedAudio = disk.finalAudio /\ disk.finalAudio # None)
      BY <2>2, <2>4, DecisionAudio DEF CanApprove
    <3>2. AudioFits(disk') /\ Heard(disk') /\ ("preset" \notin Outside => OnePreset(disk'))
      BY <2>2, <3>1 DEF AudioFits, Heard, OnePreset
    <3>. QED BY <2>1, <3>2, <1>e
  <2>. QED BY <1>11, <2>3, <2>4 DEF Decide
<1>12. CASE OwnerDecides
  <2>1. UNCHANGED <<mem, unsaved, pc, again, cc>> /\ disk # NoEpisode
    BY <1>12 DEF OwnerDecides, CanApprove
  <2>2. /\ disk'.preset = disk.preset /\ disk'.delivery = disk.delivery
        /\ disk'.speechJob = disk.speechJob /\ disk'.audioJob = disk.audioJob
        /\ disk'.finalAudio = disk.finalAudio
        /\ disk'.stage \in {"review_rejected", "owner_approved"}
        /\ ~disk'.eligible \/ (disk'.approvedAudio = disk.finalAudio /\ disk.finalAudio # None)
    BY <1>12, <2>1, <1>d, DecisionAudio DEF OwnerDecides, CanApprove
  <2>3. DeliveryInv'
    BY <1>i, <2>1, <2>2 DEF DeliveryInv, AudioFits, Heard, Replacing, Current, Preparing
  <2>4. PresetInv'
    BY <1>i, <2>1, <2>2 DEF PresetInv, OnePreset, Preparing
  <2>. QED BY <2>3, <2>4
<1>13. CASE PresetAppears
  <2>1. /\ UNCHANGED <<disk, mem, unsaved, pc, again>> /\ "preset" \in Outside
        /\ cc'.voice = cc.voice /\ cc'.preset = cc.preset
    BY <1>13, <1>c DEF PresetAppears, CloneCast
  <2>. QED BY <1>i, <2>1
           DEF DeliveryInv, PresetInv, AudioFits, Heard, Replacing, Current, Preparing
<1>14. CASE VoiceAppears
  <2>1. /\ UNCHANGED <<disk, mem, unsaved, pc, again>> /\ cc.voice = None
        /\ cc'.voice # None /\ cc'.preset = cc.preset /\ cc'.default = cc.default
    BY <1>14, <1>c, NamesAssumption DEF VoiceAppears, CloneCast
  <2>2. DeliveryInv'
    BY <1>i, <2>1 DEF DeliveryInv, AudioFits, Heard, Replacing, Current, Preparing
  <2>3. PresetInv'
    BY <1>i, <2>1 DEF PresetInv, OnePreset, Preparing
  <2>. QED BY <2>2, <2>3
<1>15. CASE RefuseVoice
  <2>1. At("voice") /\ Ends /\ UNCHANGED <<disk, cc>>
    BY <1>15 DEF RefuseVoice
  <2>2. /\ AudioFits(disk) /\ Heard(disk) /\ ("preset" \notin Outside => OnePreset(disk))
    BY <2>1, <1>a DEF Pcs
  <2>. QED BY <2>1, <2>2, <1>e
<1>16. CASE Interrupt
  <2>1. Ends /\ UNCHANGED <<disk, cc>>
    BY <1>16 DEF Interrupt
  <2>2. unsaved => "save" \in MayFail
    BY <1>16 DEF Interrupt
  <2>3. disk # NoEpisode => AudioFits(disk) /\ Heard(disk)
    BY <1>i, <2>2 DEF DeliveryInv, Replacing
  <2>4. "preset" \notin Outside /\ disk # NoEpisode => OnePreset(disk)
    BY <1>i DEF PresetInv
  <2>. QED BY <2>1, <2>3, <2>4, <1>e
<1>17. CASE Quiet
  BY <1>17, <1>i, QuietDelivery
<1>. QED BY <1>1, <1>2, <1>3, <1>4, <1>5, <1>6, <1>7, <1>8, <1>k, <1>9, <1>10, <1>11, <1>12,
            <1>13, <1>14, <1>15, <1>16, <1>17, <1>i, QuietSteps DEF AudioStep

\* The invariants of the record's audio hold initially.
LEMMA AudioInit == Init => AudioIInv
<1>1. Init => StageInv /\ DeliveryInv
  BY DEF Init, StageInv, RunHas, Scripted, BeforeAudio, WithAudio, DeliveryInv, Preparing
<1>2. Init => PresetInv /\ KeysInv
  BY DEF Init, PresetInv, KeysInv, Preparing
<1>. QED BY <1>1, <1>2, InitInv DEF AudioIInv

\* Where the delivery is stable, every step keeps the audio of disk and copy in order.
LEMMA AudioStepInv == DeliveryIsStable /\ AudioIInv /\ [Next]_vars => AudioIInv'
  BY StepInv, StageInvStep, DeliveryStep, KeysStep DEF AudioIInv

\* "Publishing eligible: Owner listened and approved the completed episode": where the
\* studio's default preset stays, or no run stops before it saves a change and mastering
\* keys name the audio, no run, failure, mastering retry or decision leaves a session
\* eligible with audio other than the one approved.
THEOREM ApprovedIsWhatIsThere ==
    ASSUME DeliveryIsStable
    PROVE  Spec => []EligibleAudioWasApproved
<1>1. AudioIInv => EligibleAudioWasApproved
  BY DEF AudioIInv, DeliveryInv, Heard, EligibleAudioWasApproved, Saved
<1>. QED BY DeliveryIsStable, AudioInit, AudioStepInv, <1>1, PTL DEF Spec

\* No step changes the voice that is assigned.
LEMMA VoiceStays ==
    ASSUME Inv, [Next]_vars, cc.voice # None
    PROVE  cc'.voice = cc.voice
<1>c. cc \in CloneCast
  BY DEF Inv, TypeOK
<1>1. CASE Quiet
  BY <1>1 DEF Quiet
<1>2. CASE Save \/ Begin \/ ChooseInputs \/ KeepVoice \/ RefuseVoice \/ Assemble \/ OpenGate
           \/ Decide \/ OwnerDecides \/ Interrupt \/ ChooseMasteringKey
  BY <1>2 DEF Save, Begin, ChooseInputs, KeepVoice, RefuseVoice, Assemble, OpenGate, Stage,
              Decide, OwnerDecides, Interrupt, ChooseMasteringKey
<1>3. CASE AssignVoice \/ VoiceAppears
  BY <1>3 DEF AssignVoice, VoiceAppears
<1>4. CASE ChangeDelivery \/ Render \/ Master \/ PresetAppears
  BY <1>4, <1>c DEF ChangeDelivery, Render, Master, PresetAppears, CloneCast
<1>. QED BY <1>1, <1>2, <1>3, <1>4, QuietSteps DEF AudioStep

\* The record on disk is written by Save and by the owner.
LEMMA DiskWrites ==
    ASSUME Inv, [Next]_vars
    PROVE  \/ disk' = disk
           \/ Save
           \/ Decide /\ At("decide")
           \/ OwnerDecides
<1>1. CASE Quiet
  BY <1>1 DEF Quiet
<1>2. CASE Begin \/ ChooseInputs \/ AssignVoice \/ ChangeDelivery \/ KeepVoice \/ RefuseVoice
           \/ Render \/ Assemble \/ Master \/ OpenGate \/ PresetAppears \/ VoiceAppears
           \/ Interrupt \/ ChooseMasteringKey
  BY <1>2 DEF Begin, ChooseInputs, AssignVoice, ChangeDelivery, KeepVoice, RefuseVoice, Render,
              Assemble, ChooseMasteringKey, Master, OpenGate, Stage, PresetAppears, VoiceAppears, Interrupt
<1>3. CASE Decide
  BY <1>3 DEF Decide
<1>. QED BY <1>1, <1>2, <1>3, QuietSteps DEF AudioStep

\* A decision is about a record that is there, and keeps its audio.
LEMMA Decisions ==
    ASSUME Inv, (Decide /\ At("decide")) \/ OwnerDecides
    PROVE  /\ disk # NoEpisode /\ disk' # NoEpisode /\ disk'.finalAudio = disk.finalAudio
           /\ \/ /\ disk.finalAudio # None /\ disk'.eligible
                 /\ disk'.approvedAudio = disk.finalAudio
              \/ ~disk'.eligible /\ disk'.approvedAudio = disk.approvedAudio
              \/ disk' = disk
<1>1. disk # NoEpisode /\ disk \in EpisodeSession
  BY DEF OwnerDecides, CanApprove, At, Inv, TypeOK, RunInv
<1>2. \/ CanApprove(disk) /\ disk' = Approve(disk)
      \/ disk' = Reject(disk)
      \/ disk' = disk
  BY DEF Decide, OwnerDecides
<1>3. disk' # NoEpisode
  BY <1>1, <1>2, DecisionOK, NoEpisodeIsNone
<1>. QED BY <1>1, <1>2, <1>3, DecisionAudio DEF CanApprove

\* Audio that is replaced by another version is remembered, and a voice assignment is
\* never overwritten (_preserve_active_audio_version, _ensure_voice_assigned).
THEOREM VersionsAreRemembered ==
    ASSUME DeliveryIsStable
    PROVE  Spec => NothingIsLost
<1>1. ASSUME AudioIInv, [Next]_vars, Saved, disk.finalAudio # None,
             disk'.finalAudio # disk.finalAudio
      PROVE  disk.finalAudio \in disk'.history
  <2>1. Inv
    BY <1>1 DEF AudioIInv
  <2>2. CASE Save
    <3>1. disk' = mem /\ mem # NoEpisode
      BY <2>1, <2>2 DEF Save, Inv, RunInv
    <3>. QED BY <1>1, <3>1 DEF AudioIInv, DeliveryInv, Saved
  <2>3. CASE (Decide /\ At("decide")) \/ OwnerDecides
    BY <1>1, <2>1, <2>3, Decisions
  <2>. QED BY <1>1, <2>1, <2>2, <2>3, DiskWrites
<1>2. ASSUME AudioIInv, [Next]_vars
      PROVE  [/\ Saved /\ disk.finalAudio # None /\ disk'.finalAudio # disk.finalAudio =>
                     disk.finalAudio \in disk'.history
              /\ cc.voice # None => cc'.voice = cc.voice]_<<disk, cc>>
  BY <1>1, <1>2, VoiceStays DEF AudioIInv
<1>. QED BY DeliveryIsStable, AudioInit, AudioStepInv, <1>2, PTL DEF Spec, NothingIsLost

(***************************************************************************)
(* The session implements the publishing gate: what it saves is its own    *)
(* copy of the record, in which nobody approves anything.                  *)
(***************************************************************************)
GateInv ==
    /\ mem # NoEpisode /\ disk # NoEpisode =>
           mem.approvedAudio = disk.approvedAudio /\ (mem.eligible => disk.eligible)
    /\ mem # NoEpisode /\ disk = NoEpisode =>
           mem.finalAudio = None /\ mem.approvedAudio = None /\ ~mem.eligible

\* A run's copy says what the disk says of the decision, as long as the owner decides between runs.
LEMMA GateInvStep ==
    ASSUME AudioIInv, GateInv, [Next]_vars, "owner" \notin Outside
    PROVE  GateInv'
<1>i. Inv
  BY DEF AudioIInv
<1>m. mem # NoEpisode => mem \in EpisodeSession
  BY <1>i DEF Inv, TypeOK
<1>r. ASSUME ~unsaved, mem # NoEpisode PROVE disk # NoEpisode
  BY <1>i, <1>r DEF Inv, RunInv
\* A step that locks publishing in the copy of the record, or leaves it alone.
<1>s. ASSUME ~unsaved, mem # NoEpisode, disk' = disk,
             mem'.approvedAudio = mem.approvedAudio, mem'.eligible => mem.eligible
      PROVE  GateInv'
  BY <1>r, <1>s DEF GateInv
<1>1. CASE Save
  BY <1>1 DEF Save, GateInv
<1>2. CASE Begin
  <2>1. mem' = (IF disk = NoEpisode THEN NewEpisode ELSE disk) /\ disk' = disk
    BY <1>2 DEF Begin, Sets
  <2>. QED BY <2>1 DEF GateInv, NewEpisode
<1>3. CASE Quiet
  <2>1. CASE UNCHANGED <<mem, unsaved>>
    BY <1>3, <2>1 DEF Quiet, GateInv
  <2>2. CASE /\ mem # NoEpisode /\ mem' # NoEpisode /\ ~unsaved /\ unsaved'
             /\ KeepsAudio(mem', mem)
    BY <1>3, <2>2, <1>s, KeepsAudioFields DEF Quiet
  <2>. QED BY <1>3, <2>1, <2>2 DEF Quiet
<1>4. CASE Decide \/ RefuseVoice \/ Interrupt
  BY <1>4 DEF Decide, RefuseVoice, Interrupt, Ends, GateInv
<1>5. CASE OwnerDecides
  <2>1. mem = NoEpisode /\ mem' = mem
    BY <1>5, <1>i DEF OwnerDecides, At, AudioIInv, DeliveryInv
  <2>. QED BY <2>1 DEF GateInv
<1>6. CASE PresetAppears \/ VoiceAppears
  BY <1>6 DEF PresetAppears, VoiceAppears, GateInv
<1>a. ASSUME NEW place \in Pcs \ {"idle"}, At(place)
      PROVE  ~unsaved /\ mem # NoEpisode /\ mem \in EpisodeSession
  BY <1>a, <1>i, <1>m DEF Inv, RunInv, At
<1>7. CASE ChooseInputs
  <2>1. At("inputs") /\ disk' = disk /\
        \E voice \in Voices :
           mem' = [mem EXCEPT !.voice = voice, !.preset = IF @ = None THEN cc.default ELSE @,
                              !.stage = "inputs_validated"]
    BY <1>7 DEF ChooseInputs, Sets
  <2>2. ~unsaved /\ mem # NoEpisode /\ mem \in EpisodeSession
    BY <2>1, <1>a DEF Pcs
  <2>3. mem'.approvedAudio = mem.approvedAudio /\ mem'.eligible = mem.eligible
    BY <2>1, <2>2 DEF EpisodeSession
  <2>. QED BY <2>1, <2>2, <2>3, <1>s
<1>8. CASE AssignVoice \/ KeepVoice
  <2>1. At("voice") /\ disk' = disk /\
        \E preset \in {mem.preset, cc.preset} :
           mem' = [WithDelivery(mem, preset) EXCEPT !.stage = "voice_assigned"]
    BY <1>8 DEF AssignVoice, KeepVoice, Sets
  <2>2. ~unsaved /\ mem # NoEpisode /\ mem \in EpisodeSession
    BY <2>1, <1>a DEF Pcs
  <2>3. mem'.approvedAudio = mem.approvedAudio /\ mem'.eligible = mem.eligible
    BY <2>1, <2>2 DEF WithDelivery, EpisodeSession
  <2>. QED BY <2>1, <2>2, <2>3, <1>s
<1>9. CASE ChangeDelivery
  <2>. DEFINE kept == Preserved(mem)
              clear == Cleared(kept)
              set == WithDelivery(clear, mem.preset)
              ep == Advanced(set, "voice_assigned")
  <2>1. At("voice") /\ disk' = disk /\ mem' = ep
    BY <1>9 DEF ChangeDelivery, Sets
  <2>2. ~unsaved /\ mem # NoEpisode /\ mem \in EpisodeSession
    BY <2>1, <1>a DEF Pcs
  <2>3. kept.approvedAudio = mem.approvedAudio /\ AudioFields \subseteq DOMAIN kept
    BY <2>2, AudioFieldsOK DEF Preserved, AudioFields
  <2>. HIDE DEF kept
  <2>4. /\ clear.approvedAudio = mem.approvedAudio /\ ~clear.eligible
        /\ AudioFields \subseteq DOMAIN clear
    BY <2>3 DEF Cleared, AudioFields
  <2>. HIDE DEF clear
  <2>5. /\ set.approvedAudio = mem.approvedAudio /\ ~set.eligible
        /\ AudioFields \subseteq DOMAIN set
    BY <2>4 DEF WithDelivery, AudioFields
  <2>. HIDE DEF set
  <2>6. ep.approvedAudio = mem.approvedAudio /\ ~ep.eligible
    BY <2>5 DEF Advanced, AudioFields
  <2>. HIDE DEF ep
  <2>. QED BY <2>1, <2>2, <2>6, <1>s
<1>10. CASE Render
  <2>1. At("rendering") /\ disk' = disk
    BY <1>10 DEF Render
  <2>2. \/ mem' = [mem EXCEPT !.speechJob = mem.delivery, !.stage = "speech_rendered"]
        \/ mem' = [mem EXCEPT !.failed = "speech_render"]
    BY <1>10 DEF Render, Sets, FailSession
  <2>3. ~unsaved /\ mem # NoEpisode /\ mem \in EpisodeSession
    BY <2>1, <1>a DEF Pcs
  <2>4. mem'.approvedAudio = mem.approvedAudio /\ mem'.eligible = mem.eligible
    BY <2>2, <2>3 DEF EpisodeSession
  <2>. QED BY <2>1, <2>3, <2>4, <1>s
<1>11. CASE Assemble
  <2>1. At("assemble") /\ disk' = disk /\
        mem' = [mem EXCEPT !.audioJob = mem.speechJob, !.stage = "episode_assembled"]
    BY <1>11 DEF Assemble, Stage, Sets
  <2>2. ~unsaved /\ mem # NoEpisode /\ mem \in EpisodeSession
    BY <2>1, <1>a DEF Pcs
  <2>3. mem'.approvedAudio = mem.approvedAudio /\ mem'.eligible = mem.eligible
    BY <2>1, <2>2 DEF EpisodeSession
  <2>. QED BY <2>1, <2>2, <2>3, <1>s
<1>12. CASE Master
  <2>1. At("master") /\ disk' = disk
    BY <1>12 DEF Master
  <2>2. ~unsaved /\ mem # NoEpisode /\ mem \in EpisodeSession
    BY <2>1, <1>a DEF Pcs
  <2>3. CASE Ends
    BY <2>1, <2>3 DEF Ends, GateInv
  <2>4. ASSUME NEW audio, RecordMasteringResult(audio) PROVE GateInv'
    <3>1. mem'.approvedAudio = mem.approvedAudio /\ mem'.eligible = mem.eligible
      BY <2>2, <2>4 DEF RecordMasteringResult, Sets, EpisodeSession
    <3>. QED BY <2>1, <2>2, <3>1, <1>s
  <2>. QED BY <1>12, <2>3, <2>4 DEF Master
<1>14. CASE ChooseMasteringKey
  <2>1. At("masterKey") /\ disk' = disk
        /\ mem' \in {mem, [mem EXCEPT !.retry = NextRetry(mem)]}
    BY <1>14 DEF ChooseMasteringKey, Sets, Passes
  <2>2. ~unsaved /\ mem # NoEpisode /\ mem \in EpisodeSession
    BY <2>1, <1>a DEF Pcs
  <2>3. mem'.approvedAudio = mem.approvedAudio /\ mem'.eligible = mem.eligible
    BY <2>1, <2>2 DEF EpisodeSession
  <2>. QED BY <2>1, <2>2, <2>3, <1>s
<1>13. CASE OpenGate
  <2>1. At("gate") /\ disk' = disk /\
        mem' = [mem EXCEPT !.eligible = FALSE, !.stage = "listening_gate"]
    BY <1>13 DEF OpenGate, Stage, Sets
  <2>2. ~unsaved /\ mem # NoEpisode /\ mem \in EpisodeSession
    BY <2>1, <1>a DEF Pcs
  <2>3. mem'.approvedAudio = mem.approvedAudio /\ ~mem'.eligible
    BY <2>1, <2>2 DEF EpisodeSession
  <2>. QED BY <2>1, <2>2, <2>3, <1>s
<1>. QED BY <1>1, <1>2, <1>3, <1>4, <1>5, <1>6, <1>7, <1>8, <1>9, <1>10, <1>11, <1>12,
            <1>13, <1>14, <1>i, QuietSteps DEF AudioStep

\* Every step of the workflow is one of the gate, or nothing whoever may publish sees:
\* replaced audio locks publishing, and only the owner unlocks it, for the audio that
\* is there.
LEMMA GateStep ==
    ASSUME AudioIInv, GateInv, [Next]_vars
    PROVE  [Gate!Next]_(Gate!vars)
<1>i. Inv
  BY DEF AudioIInv
<1>1. CASE disk' = disk
  BY <1>1 DEF Gate!vars, Saved
<1>2. CASE Save
  <2>1. disk' = mem /\ mem # NoEpisode
    BY <1>2, <1>i DEF Save, Inv, RunInv
  <2>2. Heard(mem)
    BY <2>1 DEF AudioIInv, DeliveryInv
  <2>3. CASE disk = NoEpisode
    BY <2>1, <2>3 DEF GateInv, Gate!vars, Gate!Next, Gate!Lock, Saved
  <2>4. CASE disk # NoEpisode
    <3>1. mem.approvedAudio = disk.approvedAudio /\ (mem.eligible => disk.eligible)
      BY <2>1, <2>4 DEF GateInv
    <3>2. CASE mem.eligible
      <4>1. Heard(disk)
        BY <2>4 DEF AudioIInv, DeliveryInv
      <4>2. mem.finalAudio = disk.finalAudio /\ disk.eligible
        BY <2>2, <3>1, <3>2, <4>1 DEF Heard
      <4>. QED BY <2>1, <2>2, <2>4, <3>1, <3>2, <4>2
               DEF Heard, Gate!Next, Gate!Approve, Saved
    <3>3. CASE ~mem.eligible /\ mem.finalAudio = disk.finalAudio
      BY <2>1, <2>4, <3>1, <3>3 DEF Gate!Next, Gate!Lock, Saved
    <3>4. CASE ~mem.eligible /\ mem.finalAudio # disk.finalAudio
      BY <2>1, <2>4, <3>1, <3>4 DEF Gate!Next, Gate!Replace, Saved
    <3>. QED BY <3>2, <3>3, <3>4
  <2>. QED BY <2>3, <2>4
<1>3. CASE (Decide /\ At("decide")) \/ OwnerDecides
  <2>1. /\ disk # NoEpisode /\ disk' # NoEpisode /\ disk'.finalAudio = disk.finalAudio
        /\ \/ /\ disk.finalAudio # None /\ disk'.eligible
              /\ disk'.approvedAudio = disk.finalAudio
           \/ ~disk'.eligible /\ disk'.approvedAudio = disk.approvedAudio
           \/ disk' = disk
    BY <1>3, <1>i, Decisions
  <2>. QED BY <1>1, <2>1 DEF Gate!Next, Gate!Approve, Gate!Lock, Saved
<1>. QED BY <1>1, <1>2, <1>3, <1>i, DiskWrites

\* The workflow implements PublishingGate: through re-runs, interruptions, new
\* deliveries and decisions, publishing is locked whenever the audio is replaced.  The
\* owner decides between two runs or at the gate: a decision made beside a run is
\* overwritten by what the run saves next.
THEOREM SessionImplementsGate ==
    ASSUME DeliveryIsStable, "owner" \notin Outside
    PROVE  Spec => ImplementsPublishingGate
<1>1. Init => Gate!Init
  BY DEF Init, Gate!Init, Saved
<1>2. Init => GateInv
  BY DEF Init, GateInv
<1>3. AudioIInv /\ GateInv /\ [Next]_vars => GateInv'
  BY GateInvStep
<1>4. AudioIInv /\ GateInv /\ [Next]_vars => [Gate!Next]_(Gate!vars)
  BY GateStep
<1>. QED BY DeliveryIsStable, AudioInit, AudioStepInv, <1>1, <1>2, <1>3, <1>4, PTL
         DEF Spec, ImplementsPublishingGate, Gate!Spec
=============================================================================
