----------------------------- MODULE VoiceBridge -----------------------------
(***************************************************************************)
(* The life of the voice: the adapter of the desktop program               *)
(* (jarvis_desktop.py) makes the bridge (jarvis_voice_bridge.py, with the  *)
(* preflight of jarvis_runtime_resilience.py), whose thread hears requests *)
(* and speaks the answers, by the key or hands-free, until the program     *)
(* stops.  The provider of the speech may be changed meanwhile, and Kokoro *)
(* (elevenlabs_voice.py) loads its engine on demand or in the warm-up.     *)
(*                                                                         *)
(* What a mouth does with its packets, and the page with the audio, is in  *)
(* VoiceOutput: of an utterance that was cut or superseded nothing comes.  *)
(***************************************************************************)
EXTENDS Naturals

CONSTANTS
  kokoro, eleven,   \* the two mouths
  MicModes,         \* of "live" and "ptt"
  MaxRequests,      \* bound on the requests heard
  MaxChoices        \* bound on the changes of the provider

Mouths == {kokoro, eleven}

ASSUME BridgeAssumption ==
  kokoro # eleven /\ MicModes \subseteq {"live", "ptt"} /\ {MaxRequests, MaxChoices} \subseteq Nat

VARIABLES
  mic,        \* the mode and what the machine has: [mode, vendor, key, preflight]
  stage,      \* the main thread, in start and in stop
  settings,   \* backtalk.json: absent, of the old kind, stable
  ear,        \* the thread that hears and answers
  watch,      \* the thread that watches the key in the live mode
  stopSet,    \* stop_event
  pressed,    \* the barge-in event
  inUse,      \* the bridge's mouth
  voice,      \* what each mouth says, and whether audio waits for the page
  trial,      \* ElevenLabs' test since it last spoke or was cut: none, runs, done
  engine,     \* Kokoro's pipeline: none, loading or ready
  warming,    \* the thread of the warm-up
  choice,     \* the provider that was asked for, as stored
  keyed,      \* ElevenLabs has a key
  change,     \* a change of the provider under way
  counted     \* requests heard and changes made

startVars == <<mic, settings>>
earVars == <<ear, watch, pressed>>
said == <<voice, trial>>
mouthVars == <<said, engine, warming>>
choiceVars == <<choice, keyed, change>>
bridgeVars == <<startVars, stage, earVars, stopSet, inUse, mouthVars, choiceVars, counted>>

NoChange == [step |-> "none", to |-> kokoro]
Quiet == [speaking |-> FALSE, audio |-> FALSE]
Machines == [mode : MicModes, vendor : BOOLEAN, key : BOOLEAN, preflight : BOOLEAN]

-----------------------------------------------------------------------------
(* The mouths *)

(* A new generation: what a test still brings is dropped.                  *)
NewTurn(m) == trial' = IF m = eleven THEN "none" ELSE trial

(* ElevenLabs says nothing without a key.                                  *)
Utter(m) ==
  IF m = eleven /\ ~keyed THEN UNCHANGED said
  ELSE voice' = [voice EXCEPT ![m] = [speaking |-> TRUE, audio |-> @.audio]] /\ NewTurn(m)

Silence(m) == voice' = [voice EXCEPT ![m] = Quiet] /\ NewTurn(m)

(* _speak, under its lock: a text said again at once is left out.          *)
Speak == UNCHANGED said \/ Utter(inUse)

(* The engine is loaded once at a time, and again after a failure.         *)
BeginLoading ==
  /\ engine = "none" /\ (warming = "asked" \/ voice[kokoro].speaking)
  /\ engine' = "loading" /\ UNCHANGED <<said, warming>>

EndLoading ==
  /\ engine = "loading"
  /\ \/ engine' = "ready" /\ UNCHANGED voice
     \/ engine' = "none" /\ voice' = [voice EXCEPT ![kokoro].speaking = FALSE]
  /\ warming' = "done" /\ UNCHANGED trial

(* A worker that a test has superseded neither queues nor clears the flag. *)
IsHeard(m) == voice[m].speaking /\ IF m = kokoro THEN engine = "ready" ELSE trial = "none"

Synthesize(m) ==
  /\ IsHeard(m) /\ voice' = [voice EXCEPT ![m].audio = TRUE]
  /\ UNCHANGED <<trial, engine, warming>>

(* The worker is done, or it raised.                                       *)
EndSpeaking(m) ==
  /\ IsHeard(m) /\ voice' = [voice EXCEPT ![m].speaking = FALSE]
  /\ UNCHANGED <<trial, engine, warming>>

(* The test of the settings has its audio, which is queued, or fails.      *)
EndTest ==
  /\ trial = "runs" /\ trial' = "done"
  /\ UNCHANGED voice \/ voice' = [voice EXCEPT ![eleven].audio = TRUE]
  /\ UNCHANGED <<engine, warming>>

MouthStep ==
  /\ BeginLoading \/ EndLoading \/ EndTest \/ \E m \in Mouths : Synthesize(m) \/ EndSpeaking(m)
  /\ UNCHANGED <<startVars, stage, earVars, stopSet, inUse, choiceVars, counted>>

-----------------------------------------------------------------------------
(* The provider: the stored choice, and what is selected of it.            *)

Selected == IF choice = eleven /\ keyed THEN eleven ELSE kokoro

(* voice_audio goes by the choice.                                         *)
Polled == choice

PageTakesAudio ==
  /\ voice[Polled].audio /\ voice' = [voice EXCEPT ![Polled].audio = FALSE]
  /\ UNCHANGED <<startVars, stage, earVars, stopSet, inUse, trial, engine, warming, choiceVars, counted>>

(* A test takes a generation, whichever mouth is in use.                   *)
BeginTest == trial' = "runs"

(* The key is saved and tested, or the model is refused in between.        *)
SaveKey ==
  /\ keyed' = TRUE /\ (BeginTest \/ UNCHANGED trial)
  /\ UNCHANGED <<startVars, stage, earVars, stopSet, inUse, voice, engine, warming, choice, change, counted>>

TestElevenLabs ==
  /\ keyed /\ BeginTest
  /\ UNCHANGED <<startVars, stage, earVars, stopSet, inUse, voice, engine, warming, choiceVars, counted>>

StoreChoice ==
  /\ change.step = "none" /\ counted.choices < MaxChoices
  /\ choice' \in Mouths /\ change' = [change EXCEPT !.step = "stored"]
  /\ counted' = [counted EXCEPT !.choices = @ + 1]
  /\ UNCHANGED <<startVars, stage, earVars, stopSet, inUse, mouthVars, keyed>>

SelectMouth ==
  /\ change.step = "stored" /\ change' = [step |-> "selected", to |-> Selected]
  /\ UNCHANGED <<startVars, stage, earVars, stopSet, inUse, mouthVars, choice, keyed, counted>>

\* mutant: the new mouth is made quiet instead of the old one
SwapAndHushNew ==
  inUse' = change.to /\ IF inUse = change.to THEN UNCHANGED said ELSE Silence(change.to)

Swap == inUse' = change.to /\ IF inUse = change.to THEN UNCHANGED said ELSE Silence(inUse)

(* set_mouth, if the adapter has a bridge.                                 *)
SetMouth ==
  /\ change.step = "selected" /\ change' = NoChange
  /\ IF stage \in {"begin", "off"} THEN UNCHANGED <<inUse, said>> ELSE Swap
  /\ UNCHANGED <<startVars, stage, earVars, stopSet, engine, warming, choice, keyed, counted>>

ChangeStep == PageTakesAudio \/ SaveKey \/ TestElevenLabs \/ StoreChoice \/ SelectMouth \/ SetMouth

-----------------------------------------------------------------------------
(* The main thread: VoiceAdapter.start and stop *)

MakeBridge ==
  /\ stage = "begin" /\ stage' = "load" /\ inUse' = Selected
  /\ UNCHANGED <<startVars, earVars, stopSet, mouthVars, choiceVars, counted>>

(* backtalk.json is written where there is none; old settings are replaced *)
(* by stable ones, in the file too if that can be written.                 *)
Configured(file) == IF file = "absent" THEN "stable" ELSE file
Migrated(file) == IF file = "old" THEN {"old", "stable"} ELSE {file}

(* Without the vendored parts nothing starts; the key may be missing in    *)
(* the live mode.                                                          *)
LoadComponents ==
  /\ stage = "load" /\ settings' \in Migrated(Configured(settings))
  /\ stage' = IF mic.vendor /\ (mic.mode = "ptt" => mic.key) THEN "greet" ELSE "failed"
  /\ UNCHANGED <<mic, earVars, stopSet, inUse, mouthVars, choiceVars, counted>>

Greet ==
  /\ stage = "greet" /\ stage' = "threads" /\ Speak
  /\ UNCHANGED <<startVars, earVars, stopSet, inUse, engine, warming, choiceVars, counted>>

StartThreads ==
  /\ stage = "threads" /\ stage' = "up" /\ ear' = "begin"
  /\ watch' = IF mic.mode = "live" /\ mic.key THEN "waiting" ELSE "none"
  /\ warming' = IF inUse = kokoro THEN "asked" ELSE "none"
  /\ UNCHANGED <<startVars, pressed, stopSet, inUse, said, engine, choiceVars, counted>>

(* The bridge is stopped in any case; the mouth it has by then is quiet.   *)
BeginStop ==
  /\ stage \in {"up", "failed"} /\ stage' = "joins"
  /\ stopSet' = TRUE /\ Silence(inUse)
  /\ UNCHANGED <<startVars, earVars, inUse, engine, warming, choiceVars, counted>>

(* The thread that hears has ended, or is not waited for any longer; both  *)
(* mouths are shut down.                                                   *)
EndStop ==
  /\ stage = "joins" /\ stage' = "off"
  /\ voice' = [m \in Mouths |-> Quiet] /\ trial' = "none"
  /\ UNCHANGED <<startVars, earVars, stopSet, inUse, engine, warming, choiceVars, counted>>

MainStep == MakeBridge \/ LoadComponents \/ Greet \/ StartThreads \/ BeginStop \/ EndStop

-----------------------------------------------------------------------------
(* The thread that hears: _run, handle_transcript *)

EarGoes(to) == ear' = to /\ UNCHANGED <<startVars, stage, watch, choiceVars, inUse, engine, warming>>

(* A preflight that fails sets stop_event, so it is not tried again.       *)
Preflight ==
  /\ ear = "begin"
  /\ \/ EarGoes("listens") /\ UNCHANGED stopSet
     \/ mic.preflight /\ EarGoes("ended") /\ stopSet' = TRUE
  /\ UNCHANGED <<pressed, said, counted>>

StopsHearing ==
  /\ ear = "listens" /\ stopSet /\ EarGoes("ended")
  /\ UNCHANGED <<pressed, stopSet, said, counted>>

Heard(to) == EarGoes(to) /\ counted' = [counted EXCEPT !.requests = @ + 1]

HearsLive ==
  /\ ear = "listens" /\ ~stopSet /\ mic.mode = "live" /\ counted.requests < MaxRequests
  /\ ~pressed /\ ~voice[inUse].speaking
  /\ Heard("executes") /\ UNCHANGED <<pressed, stopSet, said>>

(* After a press the request is recorded while the key is held, if any.    *)
RecordsBarge ==
  /\ ear = "listens" /\ pressed /\ pressed' = FALSE
  /\ \/ EarGoes("listens") /\ UNCHANGED counted
     \/ counted.requests < MaxRequests /\ Heard("executes")
  /\ UNCHANGED <<stopSet, said>>

HearsKey ==
  /\ ear = "listens" /\ ~stopSet /\ mic.mode = "ptt" /\ counted.requests < MaxRequests
  /\ IF voice[inUse].speaking THEN Silence(inUse) ELSE UNCHANGED said
  /\ Heard("records") /\ UNCHANGED <<pressed, stopSet>>

Records ==
  /\ ear = "records" /\ (EarGoes("executes") \/ EarGoes("listens"))
  /\ UNCHANGED <<pressed, stopSet, said, counted>>

(* The request is answered, asks first, or raises; once agreed to, it is   *)
(* not asked about again.                                                  *)
Executes ==
  /\ ear \in {"executes", "agreed"}
  /\ \/ EarGoes("answers") \/ EarGoes("listens")
     \/ ear = "executes" /\ EarGoes("asks")
  /\ UNCHANGED <<pressed, stopSet, said, counted>>

SaysWhat == [asks |-> "confirms", declined |-> "listens", answers |-> "listens"]

SpeaksNext ==
  /\ ear \in DOMAIN SaysWhat /\ Speak /\ EarGoes(SaysWhat[ear])
  /\ UNCHANGED <<pressed, stopSet, counted>>

Confirms ==
  /\ ear = "confirms" /\ (EarGoes("agreed") \/ EarGoes("declined"))
  /\ UNCHANGED <<pressed, stopSet, said, counted>>

EarStep ==
  Preflight \/ StopsHearing \/ HearsLive \/ RecordsBarge \/ HearsKey \/ Records
  \/ Executes \/ SpeaksNext \/ Confirms

-----------------------------------------------------------------------------
(* The thread that watches the key in the live mode *)

WatchGoes(to) ==
  watch' = to /\ UNCHANGED <<startVars, stage, ear, stopSet, inUse, engine, warming, choiceVars, counted>>

KeyIsPressed ==
  /\ watch = "waiting"
  /\ IF stopSet THEN WatchGoes("ended") /\ UNCHANGED pressed ELSE WatchGoes("cuts") /\ pressed' = TRUE
  /\ UNCHANGED said

CutsSpeech == watch = "cuts" /\ WatchGoes("waiting") /\ Silence(inUse) /\ UNCHANGED pressed

-----------------------------------------------------------------------------
BridgeInit ==
  /\ mic \in Machines /\ stage = "begin" /\ settings \in {"absent", "old", "stable"}
  /\ ear = "none" /\ watch = "none" /\ stopSet = FALSE /\ pressed = FALSE /\ inUse = kokoro
  /\ voice = [m \in Mouths |-> Quiet] /\ trial = "none" /\ engine = "none" /\ warming = "none"
  /\ choice \in Mouths /\ keyed \in BOOLEAN /\ change = NoChange
  /\ counted = [requests |-> 0, choices |-> 0]

BridgeNext == MainStep \/ EarStep \/ KeyIsPressed \/ CutsSpeech \/ MouthStep \/ ChangeStep

(* The person answers the dialog, the key is let go, requests end.         *)
BridgeFairSpec == BridgeInit /\ [][BridgeNext]_bridgeVars /\ WF_bridgeVars(EarStep)

-----------------------------------------------------------------------------
BridgeTypeOK ==
  /\ mic \in Machines /\ settings \in {"absent", "old", "stable"}
  /\ stage \in {"begin", "load", "greet", "threads", "up", "failed", "joins", "off"}
  /\ ear \in {"none", "begin", "listens", "records", "executes", "asks", "confirms", "agreed",
              "declined", "answers", "ended"}
  /\ watch \in {"none", "waiting", "cuts", "ended"} /\ {stopSet, pressed, keyed} \subseteq BOOLEAN
  /\ {inUse, choice} \subseteq Mouths /\ voice \in [Mouths -> [speaking : BOOLEAN, audio : BOOLEAN]]
  /\ trial \in {"none", "runs", "done"} /\ engine \in {"none", "loading", "ready"} /\ warming \in {"none", "asked", "done"}
  /\ change \in [step : {"none", "stored", "selected"}, to : Mouths]

(* set_mouth: "Atomically replace the active mouth and cancel pending      *)
(* audio from the old mouth": whatever is under way when the provider is   *)
(* changed, only the mouth in use speaks or has audio to give, but for     *)
(* ElevenLabs' test, which the settings begin whichever mouth is in use.   *)
OldMouthIsSilent ==
  \A m \in Mouths \ {inUse} : ~voice[m].speaking /\ (voice[m].audio => m = eleven /\ trial # "none")

(* Whatever a request comes to, the thread listens again.                  *)
ListensAgain == []<>(ear \in {"none", "listens", "ended"})

(* No run checks the following, see the README, other disagreements: what  *)
(* is stopped stays silent; the page takes the audio of the mouth that     *)
(* speaks; only the stop ends the voice.                                   *)
SilentWhenOff == stage = "off" => \A m \in Mouths : voice[m] = Quiet
SpokenIsHeard == change.step = "none" => \A m \in Mouths : voice[m].audio => Polled = m
OnlyStopDeafens == stopSet => stage \in {"joins", "off"}

=============================================================================
