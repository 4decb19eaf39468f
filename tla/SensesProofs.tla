---------------------------- MODULE SensesProofs ----------------------------
(***************************************************************************)
(* Proofs about VoiceOutput, VoiceBridge and HandControl, as MCSenses puts *)
(* them together, for any bounds, settings, poses and handler threads.     *)
(***************************************************************************)
EXTENDS MCSenses, FiniteSetTheorems, SequenceTheorems, WellFoundedInduction, TLAPS

-----------------------------------------------------------------------------
(* The mouth: what was cut is not queued any more. *)

WorkerFields == {"generation", "test", "left"}

MouthInv ==
  /\ generation \in Nat /\ cutAt \in Nat /\ cutAt <= generation /\ (generation = 0 \/ cutAt < generation)
  /\ \A job \in workers : job.generation \in Nat \ {0} /\ DOMAIN job = WorkerFields
  /\ queue \in Seq(Nat) /\ \A i \in 1..Len(queue) : queue[i] > cutAt

LEMMA MouthStart == ASSUME VInit PROVE MouthInv
BY DEF VInit, MouthInv

LEMMA SpeechKeepsMouth ==
  ASSUME MouthInv, NEW test, Starts(test)
  PROVE  MouthInv'
<1>1. generation' = generation + 1 /\ UNCHANGED <<queue, cutAt>> /\ generation \in Nat /\ cutAt \in Nat
      /\ cutAt <= generation
  BY DEF MouthInv, Starts
<1>2. ASSUME NEW job \in workers' PROVE job.generation \in Nat \ {0} /\ DOMAIN job = WorkerFields
  <2>1. CASE job \in workers
    BY <2>1 DEF MouthInv
  <2>2. CASE job \notin workers
    <3>1. PICK left : job = [generation |-> generation + 1, test |-> test, left |-> left]
      BY <2>2 DEF Starts
    <3>2. job.generation = generation + 1 /\ DOMAIN job = WorkerFields
      BY <3>1 DEF WorkerFields
    <3> QED BY <1>1, <3>2
  <2> QED BY <2>1, <2>2
<1>3. generation' \in Nat /\ cutAt' \in Nat /\ cutAt' <= generation' /\ (generation' = 0 \/ cutAt' < generation')
  BY <1>1
<1>4. queue' \in Seq(Nat) /\ \A i \in 1..Len(queue') : queue'[i] > cutAt'
  BY <1>1 DEF MouthInv
<1> QED BY <1>2, <1>3, <1>4 DEF MouthInv

(* A queue that takes a packet keeps those it had, or all but the oldest. *)
LEMMA Queued ==
  ASSUME NEW s \in Nat, queue \in Seq(Nat)
  PROVE  /\ Enqueued(s) \in Seq(Nat)
         /\ \A i \in 1..Len(Enqueued(s)) : Enqueued(s)[i] = s \/ \E j \in 1..Len(queue) : Enqueued(s)[i] = queue[j]
<1>1. CASE Len(queue) < MaxQueue
  <2>1. Enqueued(s) = Append(queue, s)
    BY <1>1 DEF Enqueued
  <2> QED BY <2>1, AppendProperties
<1>2. CASE ~(Len(queue) < MaxQueue)
  <2>1. queue # << >> /\ Enqueued(s) = Append(Tail(queue), s)
    BY <1>2, VoiceBoundsAssumption DEF Enqueued
  <2>2. /\ Tail(queue) \in Seq(Nat) /\ Len(Tail(queue)) = Len(queue) - 1
        /\ \A i \in 1..Len(Tail(queue)) : Tail(queue)[i] = queue[i + 1]
    BY <2>1, HeadTailProperties
  <2>3. ASSUME NEW i \in 1..Len(Append(Tail(queue), s))
        PROVE  Append(Tail(queue), s)[i] = s \/ \E j \in 1..Len(queue) : Append(Tail(queue), s)[i] = queue[j]
    <3>1. CASE i = Len(Tail(queue)) + 1
      BY <2>2, <3>1, AppendProperties
    <3>2. CASE i # Len(Tail(queue)) + 1
      <4>1. i \in 1..Len(Tail(queue))
        BY <2>2, <2>3, <3>2, AppendProperties
      <4>2. Append(Tail(queue), s)[i] = queue[i + 1] /\ i + 1 \in 1..Len(queue)
        BY <2>2, <4>1, AppendProperties
      <4> QED BY <4>2
    <3> QED BY <3>1, <3>2
  <2>4. Append(Tail(queue), s) \in Seq(Nat)
    BY <2>2, AppendProperties
  <2> QED BY <2>1, <2>3, <2>4
<1> QED BY <1>1, <1>2

LEMMA MouthRests == ASSUME MouthInv, UNCHANGED <<generation, queue, cutAt>>, workers' \subseteq workers PROVE MouthInv'
BY DEF MouthInv

LEMMA MouthKept == MouthInv /\ [VNext]_vvars => MouthInv'
<1> SUFFICES ASSUME MouthInv, [VNext]_vvars PROVE MouthInv'
  OBVIOUS
<1> USE DEF mouth, bridge, reporting, pageSide
<1>1. ASSUME NEW job \in workers, EmitPacket(job) PROVE MouthInv'
  <2>1. job.generation \in Nat \ {0} /\ DOMAIN job = WorkerFields /\ queue \in Seq(Nat)
        /\ UNCHANGED <<generation, cutAt>>
    BY <1>1 DEF EmitPacket, MouthInv
  <2>2. queue' \in Seq(Nat) /\ \A i \in 1..Len(queue') : queue'[i] > cutAt
    <3>1. CASE Wanted(job)
      <4>1. queue' = Enqueued(job.generation) /\ job.generation > cutAt
        BY <1>1, <2>1, <3>1 DEF EmitPacket, MouthInv, Wanted
      <4> QED BY <2>1, <4>1, Queued DEF MouthInv
    <3>2. CASE ~Wanted(job)
      BY <1>1, <3>2 DEF EmitPacket, MouthInv
    <3> QED BY <3>1, <3>2
  <2>3. ASSUME NEW d \in workers' PROVE d.generation \in Nat \ {0} /\ DOMAIN d = WorkerFields
    <3>1. CASE d \in workers
      BY <3>1 DEF MouthInv
    <3>2. CASE d \notin workers
      <4>1. PICK left : d = [job EXCEPT !.left = left]
        BY <1>1, <3>2 DEF EmitPacket
      <4> QED BY <2>1, <4>1 DEF WorkerFields
    <3> QED BY <3>1, <3>2
  <2> QED BY <2>1, <2>2, <2>3 DEF MouthInv
<1>2. CASE WorkerEnds
  BY <1>2, MouthRests DEF WorkerEnds, EndWorker
<1>3. CASE TestSpeech
  BY <1>3, SpeechKeepsMouth DEF TestSpeech
<1>4. CASE Answer
  BY <1>4, SpeechKeepsMouth DEF Answer, Say
<1>5. CASE CutSpeech
  <2>1. generation' = generation + 1 /\ queue' = << >> /\ cutAt' = generation /\ UNCHANGED workers
    BY <1>5 DEF CutSpeech, ShutUp
  <2> QED BY <2>1 DEF MouthInv
<1>6. CASE TakeAudio
  <2>1. queue' = << >> /\ UNCHANGED <<generation, workers, cutAt>>
    BY <1>6 DEF TakeAudio
  <2> QED BY <2>1 DEF MouthInv
<1>7. CASE HearRequest \/ EndAnswer \/ PressKey \/ HandleBarge \/ NotePlayback \/ BeginPoll \/ ReceiveAudio
           \/ CurrentPlays \/ OthersEnd \/ PlayRefused \/ UNCHANGED vvars
  <2>1. UNCHANGED <<generation, queue, cutAt, workers>>
    BY <1>7 DEF HearRequest, EndAnswer, PressKey, HandleBarge, NotePlayback, BeginPoll, ReceiveAudio, CurrentPlays,
       AudioStarts, AudioEnds, OthersEnd, PlayAborted, LooseEnds, PlayRefused, vvars
  <2> QED BY <2>1, MouthRests
<1> QED BY <1>1, <1>2, <1>3, <1>4, <1>5, <1>6, <1>7 DEF VNext, PollStep

(* Nothing is said by a mouth, and of audio it has at most that of a test. *)
Mute(m) == ~voice[m].speaking /\ (voice[m].audio => m = eleven /\ trial # "none")

(* Of the two mouths only the one in use has anything to say. *)
BridgeInv ==
  /\ DOMAIN voice = Mouths /\ voice = [m \in Mouths |-> voice[m]]
  /\ inUse \in Mouths /\ choice \in Mouths /\ change.to \in Mouths
  /\ DOMAIN change = {"step", "to"} /\ \A m \in Mouths : DOMAIN voice[m] = {"speaking", "audio"}
  /\ stage = "begin" => ear = "none" /\ watch = "none"
  /\ \A m \in Mouths : (m # inUse \/ stage = "begin") => Mute(m)

LEMMA BridgeStart == ASSUME BridgeInit PROVE BridgeInv
BY DEF BridgeInit, BridgeInv, Mute, Quiet, Mouths, NoChange

(* One mouth changes, and the other keeps what it has. *)
LEMMA OneChanges ==
  ASSUME BridgeInv, NEW m \in Mouths, NEW v, DOMAIN v = {"speaking", "audio"}, voice' = [voice EXCEPT ![m] = v]
  PROVE  /\ DOMAIN voice' = Mouths /\ voice' = [n \in Mouths |-> voice'[n]]
         /\ \A n \in Mouths : DOMAIN voice'[n] = {"speaking", "audio"}
         /\ \A n \in Mouths : voice'[n] = IF n = m THEN v ELSE voice[n]
BY DEF BridgeInv

(* Whatever a mouth says, the others stay still. *)
LEMMA VoiceChanges ==
  ASSUME BridgeInv, UNCHANGED <<inUse, choice, change>>,
         stage' = "begin" => stage = "begin" /\ UNCHANGED <<ear, watch>>,
         DOMAIN voice' = Mouths, voice' = [n \in Mouths |-> voice'[n]],
         \A n \in Mouths : DOMAIN voice'[n] = {"speaking", "audio"},
         \A n \in Mouths : (n # inUse \/ stage = "begin") => Mute(n)'
  PROVE  BridgeInv'
BY DEF BridgeInv

(* A test may be begun at any time: no mouth says more by it. *)
LEMMA VoiceRests ==
  ASSUME BridgeInv, UNCHANGED <<inUse, choice, change, voice>>, trial' = trial \/ trial' # "none",
         stage' = "begin" => stage = "begin" /\ UNCHANGED <<ear, watch>>
  PROVE  BridgeInv'
<1>1. \A n \in Mouths : Mute(n) => Mute(n)'
  BY DEF Mute
<1> QED BY <1>1, VoiceChanges DEF BridgeInv

LEMMA BridgeKept == BridgeInv /\ [BridgeNext]_bridgeVars => BridgeInv'
<1> SUFFICES ASSUME BridgeInv, [BridgeNext]_bridgeVars PROVE BridgeInv'
  OBVIOUS
<1> USE DEF startVars, earVars, said, mouthVars, choiceVars
<1>1. /\ DOMAIN voice = Mouths /\ voice = [m \in Mouths |-> voice[m]] /\ inUse \in Mouths
      /\ \A m \in Mouths : DOMAIN voice[m] = {"speaking", "audio"}
      /\ \A m \in Mouths : (m # inUse \/ stage = "begin") => Mute(m)
      /\ stage = "begin" => ear = "none" /\ watch = "none"
  BY DEF BridgeInv
<1>2. /\ DOMAIN Quiet = {"speaking", "audio"} /\ Quiet.speaking = FALSE /\ Quiet.audio = FALSE
      /\ eleven \in Mouths /\ kokoro \in Mouths /\ kokoro # eleven /\ \A m \in Mouths : m = kokoro \/ m = eleven
  BY BridgeAssumption DEF Quiet, Mouths
(* What the mouth in use says, or that it is cut, leaves the other one still. *)
<1>3. ASSUME stage # "begin", stage' # "begin", UNCHANGED <<inUse, choice, change>>,
             Speak \/ Silence(inUse) \/ UNCHANGED said
      PROVE  BridgeInv'
  <2>1. CASE UNCHANGED said
    BY <1>3, <2>1, VoiceRests
  <2>2. CASE ~UNCHANGED said
    <3>1. PICK v : DOMAIN v = {"speaking", "audio"} /\ voice' = [voice EXCEPT ![inUse] = v] /\ NewTurn(inUse)
      <4>1. CASE Silence(inUse)
        BY <1>2, <4>1 DEF Silence
      <4>2. CASE ~Silence(inUse)
        <5>1. voice' = [voice EXCEPT ![inUse] = [speaking |-> TRUE, audio |-> voice[inUse].audio]] /\ NewTurn(inUse)
          BY <1>3, <2>2, <4>2 DEF Speak, Utter
        <5>2. DOMAIN [speaking |-> TRUE, audio |-> voice[inUse].audio] = {"speaking", "audio"}
          OBVIOUS
        <5> QED BY <5>1, <5>2
      <4> QED BY <4>1, <4>2
    <3>2. /\ DOMAIN voice' = Mouths /\ voice' = [n \in Mouths |-> voice'[n]]
          /\ \A n \in Mouths : DOMAIN voice'[n] = {"speaking", "audio"}
          /\ \A n \in Mouths : n # inUse => voice'[n] = voice[n]
      BY <1>1, <3>1, OneChanges
    <3>3. ASSUME NEW n \in Mouths, n # inUse PROVE Mute(n)'
      <4>1. voice'[n] = voice[n] /\ Mute(n)
        BY <1>1, <3>2, <3>3
      <4>2. CASE n = eleven
        BY <1>2, <3>1, <3>3, <4>1, <4>2 DEF NewTurn, Mute
      <4>3. CASE n # eleven
        BY <4>1, <4>3 DEF Mute
      <4> QED BY <4>2, <4>3
    <3> QED BY <1>3, <3>2, <3>3, VoiceChanges
  <2> QED BY <2>1, <2>2
<1>4. CASE MainStep
  <2>1. CASE MakeBridge
    <3>1. /\ inUse' = Selected /\ Selected \in Mouths /\ stage = "begin" /\ stage' = "load"
          /\ UNCHANGED <<voice, trial, choice, change>>
      BY <2>1 DEF MakeBridge, Selected, Mouths
    <3>2. \A n \in Mouths : Mute(n)'
      BY <1>1, <3>1 DEF Mute
    <3> QED BY <3>1, <3>2 DEF BridgeInv
  <2>2. CASE LoadComponents
    BY <1>3, <2>2 DEF LoadComponents
  <2>3. CASE Greet
    BY <1>3, <2>3 DEF Greet
  <2>4. CASE StartThreads
    BY <1>3, <2>4 DEF StartThreads
  <2>5. CASE BeginStop
    BY <1>3, <2>5 DEF BeginStop
  <2>6. CASE EndStop
    <3>1. voice' = [m \in Mouths |-> Quiet] /\ stage' = "off" /\ UNCHANGED <<inUse, choice, change>>
      BY <2>6 DEF EndStop
    <3>2. \A n \in Mouths : Mute(n)'
      BY <1>2, <3>1 DEF Mute
    <3> QED BY <1>2, <3>1, <3>2 DEF BridgeInv
  <2> QED BY <1>4, <2>1, <2>2, <2>3, <2>4, <2>5, <2>6 DEF MainStep
<1>5. CASE EarStep
  <2>1. stage # "begin" /\ stage' # "begin" /\ UNCHANGED <<inUse, choice, change>>
    BY <1>1, <1>5 DEF EarStep, EarGoes, Heard, Preflight, StopsHearing, HearsLive, RecordsBarge, HearsKey, Records,
       Executes, SpeaksNext, Confirms, SaysWhat
  <2>2. Speak \/ Silence(inUse) \/ UNCHANGED said
    BY <1>5 DEF EarStep, EarGoes, Heard, Preflight, StopsHearing, HearsLive, RecordsBarge, HearsKey, Records,
       Executes, SpeaksNext, Confirms
  <2> QED BY <1>3, <2>1, <2>2
<1>6. CASE KeyIsPressed \/ CutsSpeech
  BY <1>1, <1>3, <1>6 DEF KeyIsPressed, CutsSpeech, WatchGoes
<1>7. CASE MouthStep
  <2>1. UNCHANGED <<inUse, choice, change, stage, ear, watch>>
    BY <1>7 DEF MouthStep
  (* Speech goes on, or ends, in the mouth that speaks: the one in use. *)
  <2>2. ASSUME NEW m \in Mouths, Synthesize(m) \/ EndSpeaking(m) PROVE BridgeInv'
    <3>1. m = inUse /\ stage # "begin" /\ UNCHANGED trial
      BY <1>1, <2>2 DEF Synthesize, EndSpeaking, IsHeard, Mute
    <3>2. PICK v : voice' = [voice EXCEPT ![m] = v] /\ DOMAIN v = {"speaking", "audio"}
      <4>1. /\ DOMAIN [voice[m] EXCEPT !.audio = TRUE] = {"speaking", "audio"}
            /\ DOMAIN [voice[m] EXCEPT !.speaking = FALSE] = {"speaking", "audio"}
        BY <1>1
      <4>2. \/ voice' = [voice EXCEPT ![m] = [voice[m] EXCEPT !.audio = TRUE]]
            \/ voice' = [voice EXCEPT ![m] = [voice[m] EXCEPT !.speaking = FALSE]]
        BY <2>2 DEF Synthesize, EndSpeaking
      <4> QED BY <4>1, <4>2
    <3>3. /\ DOMAIN voice' = Mouths /\ voice' = [n \in Mouths |-> voice'[n]]
          /\ \A n \in Mouths : DOMAIN voice'[n] = {"speaking", "audio"}
          /\ \A n \in Mouths : n # m => voice'[n] = voice[n]
      BY <3>2, OneChanges
    <3>4. \A n \in Mouths : n # inUse => Mute(n)'
      BY <1>1, <3>1, <3>3 DEF Mute
    <3> QED BY <2>1, <3>1, <3>3, <3>4, VoiceChanges
  <2>3. CASE BeginLoading
    BY <2>1, <2>3, VoiceRests DEF BeginLoading
  (* A failure ends what Kokoro says; a test may leave an audio. *)
  <2>4. CASE EndLoading \/ EndTest
    <3>1. CASE UNCHANGED voice
      BY <2>1, <2>4, <3>1, VoiceRests DEF EndLoading, EndTest
    <3>2. CASE ~UNCHANGED voice
      <4> DEFINE k == [voice[kokoro] EXCEPT !.speaking = FALSE]
                 e == [voice[eleven] EXCEPT !.audio = TRUE]
      <4>1. DOMAIN k = {"speaking", "audio"} /\ k.speaking = FALSE /\ k.audio = voice[kokoro].audio
        BY <1>1, <1>2
      <4>2. DOMAIN e = {"speaking", "audio"} /\ e.speaking = voice[eleven].speaking
        BY <1>1, <1>2
      <4>3. \/ voice' = [voice EXCEPT ![kokoro] = k] /\ UNCHANGED trial
            \/ voice' = [voice EXCEPT ![eleven] = e] /\ trial' = "done"
        BY <2>4, <3>2 DEF EndLoading, EndTest
      <4> HIDE DEF k, e
      <4>4. /\ DOMAIN voice' = Mouths /\ voice' = [n \in Mouths |-> voice'[n]]
            /\ \A n \in Mouths : DOMAIN voice'[n] = {"speaking", "audio"}
            /\ \/ trial' = trial /\ \A n \in Mouths : voice'[n] = IF n = kokoro THEN k ELSE voice[n]
               \/ trial' = "done" /\ \A n \in Mouths : voice'[n] = IF n = eleven THEN e ELSE voice[n]
        BY <1>2, <4>1, <4>2, <4>3, OneChanges
      <4>5. ASSUME NEW n \in Mouths, Mute(n) PROVE Mute(n)'
        BY <1>2, <4>1, <4>2, <4>4, <4>5 DEF Mute
      <4> QED BY <1>1, <2>1, <4>4, <4>5, VoiceChanges
    <3> QED BY <3>1, <3>2
  <2> QED BY <1>7, <2>2, <2>3, <2>4 DEF MouthStep
<1>8. CASE ChangeStep
  <2>1. CASE PageTakesAudio
    <3> DEFINE v == [voice[choice] EXCEPT !.audio = FALSE]
    <3>1. /\ choice \in Mouths /\ voice' = [voice EXCEPT ![choice] = v]
          /\ UNCHANGED <<inUse, choice, change, stage, ear, watch, trial>>
      BY <2>1 DEF PageTakesAudio, Polled, BridgeInv
    <3>2. DOMAIN v = {"speaking", "audio"} /\ v.audio = FALSE /\ v.speaking = voice[choice].speaking
      BY <1>1, <3>1
    <3> HIDE DEF v
    <3>3. /\ DOMAIN voice' = Mouths /\ voice' = [n \in Mouths |-> voice'[n]]
          /\ \A n \in Mouths : DOMAIN voice'[n] = {"speaking", "audio"}
          /\ \A n \in Mouths : voice'[n] = IF n = choice THEN v ELSE voice[n]
      BY <3>1, <3>2, OneChanges
    <3>4. ASSUME NEW n \in Mouths, Mute(n) PROVE Mute(n)'
      BY <3>1, <3>2, <3>3, <3>4 DEF Mute
    <3> QED BY <1>1, <3>1, <3>3, <3>4, VoiceChanges
  <2>2. CASE SaveKey \/ TestElevenLabs
    BY <2>2, VoiceRests DEF SaveKey, TestElevenLabs, BeginTest
  <2>3. CASE StoreChoice
    <3>1. choice' \in Mouths /\ change'.to = change.to /\ DOMAIN change' = {"step", "to"}
          /\ UNCHANGED <<inUse, voice, trial, stage, ear, watch>>
      BY <2>3 DEF StoreChoice, BridgeInv
    <3> QED BY <3>1 DEF BridgeInv, Mute
  <2>4. CASE SelectMouth
    <3>1. change'.to \in Mouths /\ DOMAIN change' = {"step", "to"}
          /\ UNCHANGED <<choice, inUse, voice, trial, stage, ear, watch>>
      BY <2>4 DEF SelectMouth, Selected, Mouths, BridgeInv
    <3> QED BY <3>1 DEF BridgeInv, Mute
  <2>5. CASE SetMouth
    <3>1. change' = NoChange /\ change'.to \in Mouths /\ DOMAIN change' = {"step", "to"}
          /\ UNCHANGED <<choice, stage, ear, watch>>
      BY <2>5 DEF SetMouth, NoChange, Mouths
    <3>2. CASE UNCHANGED <<inUse, said>>
      BY <3>1, <3>2 DEF BridgeInv, Mute
    <3>3. CASE stage # "begin" /\ inUse' = change.to /\ inUse # change.to /\ Silence(inUse)
      <4>1. /\ DOMAIN voice' = Mouths /\ voice' = [m \in Mouths |-> voice'[m]]
            /\ \A m \in Mouths : DOMAIN voice'[m] = {"speaking", "audio"}
            /\ \A m \in Mouths : voice'[m] = IF m = inUse THEN Quiet ELSE voice[m]
        BY <1>1, <1>2, <3>3, OneChanges DEF Silence
      <4>2. ASSUME NEW n \in Mouths PROVE Mute(n)'
        <5>1. CASE n = inUse
          BY <1>2, <4>1, <5>1 DEF Mute
        <5>2. CASE n # inUse
          <6>1. voice'[n] = voice[n] /\ Mute(n)
            BY <1>1, <4>1, <5>2
          <6>2. CASE n = eleven
            BY <3>3, <5>2, <6>1, <6>2 DEF Silence, NewTurn, Mute
          <6>3. CASE n # eleven
            BY <6>1, <6>3 DEF Mute
          <6> QED BY <6>2, <6>3
        <5> QED BY <5>1, <5>2
      <4>3. inUse' \in Mouths
        BY <3>3 DEF BridgeInv
      <4> QED BY <1>1, <3>1, <3>3, <4>1, <4>2, <4>3 DEF BridgeInv
    <3>4. CASE stage # "begin" /\ inUse' = change.to /\ inUse = change.to /\ UNCHANGED said
      BY <3>2, <3>4
    <3> QED BY <2>5, <3>2, <3>3, <3>4 DEF SetMouth, Swap
  <2> QED BY <1>8, <2>1, <2>2, <2>3, <2>4, <2>5 DEF ChangeStep
<1>9. CASE UNCHANGED bridgeVars
  BY <1>9 DEF bridgeVars, BridgeInv, Mute
<1> QED BY <1>4, <1>5, <1>6, <1>7, <1>8, <1>9 DEF BridgeNext

(* What was cut or superseded, or said by the mouth that was in use before, is
   heard no more, for any bounds, queue, engines and requests
   (elevenlabs_voice.py, jarvis_voice_bridge.py). *)
THEOREM SilencedStaySilent == SSpec => []SilencedStaysSilent
<1>1. SInit => MouthInv /\ BridgeInv
  BY MouthStart, BridgeStart DEF SInit
<1>2. MouthInv /\ BridgeInv /\ [Hands(HNext) \/ Voice(VNext) \/ Bridge(BridgeNext)]_svars => MouthInv' /\ BridgeInv'
  <2> SUFFICES ASSUME MouthInv, BridgeInv, [Hands(HNext) \/ Voice(VNext) \/ Bridge(BridgeNext)]_svars
               PROVE  MouthInv' /\ BridgeInv'
    OBVIOUS
  <2>1. [VNext]_vvars /\ [BridgeNext]_bridgeVars
    BY DEF Hands, Voice, Bridge, svars
  <2> QED BY <2>1, MouthKept, BridgeKept
<1>3. MouthInv /\ BridgeInv => SilencedStaysSilent
  BY DEF MouthInv, BridgeInv, Mute, OldMouthIsSilent, SilencedStaysSilent, ShutUpIsFinal, ToSet
<1> QED BY <1>1, <1>2, <1>3, PTL DEF SSpec

-----------------------------------------------------------------------------
(* The player: what it plays is the newest it heard of, and it tells so. *)

PlayerFields == {"last", "pending", "current", "started", "aborted", "loose"}

Playable(p) ==
  /\ DOMAIN p = PlayerFields
  /\ p.last \in 0..MaxGeneration /\ p.current \in 0..MaxGeneration /\ p.pending \in Seq(Generations)
  /\ p.aborted \subseteq Generations

OnlyNewest(p) ==
  /\ p.aborted = {} /\ p.loose = {} /\ p.current \in {NoAudio, p.last}
  /\ \A i \in 1..Len(p.pending) : p.pending[i] = p.last

(* What the page was told last, the reports on their way included. *)
ToldBy(told, more) == IF more = << >> THEN told ELSE more[Len(more)]

PlayerInv ==
  /\ Playable(player) /\ reports \in Seq(BOOLEAN)
  /\ player.current # NoAudio /\ ~overtaken => ToldBy(audible, reports) = TRUE

AnswerInv ==
  /\ generation <= MaxGeneration /\ \A job \in workers : job.generation <= MaxGeneration
  /\ queue \in Seq(Generations)
  /\ poll.pc \in {"idle", "take", "answer"}
  /\ poll.pc # "idle" => poll.generation \in 0..MaxGeneration
  /\ poll.pc = "answer" => poll.items \in Seq(Generations)
  /\ ~setting.aborts => OnlyNewest(player)

(* A finite set of numbers has a greatest: the least distance to its bound. *)
LEMMA HasGreatest ==
  ASSUME NEW n \in Nat, NEW S \in SUBSET (0..n), S # {}
  PROVE  \E s \in S : \A t \in S : t <= s
<1> DEFINE T == {n - s : s \in S}
<1>1. T \subseteq Nat /\ T # {}
  <2>1. ASSUME NEW s \in S PROVE n - s \in Nat
    OBVIOUS
  <2> QED BY <2>1
<1>2. PICK x \in T : \A y \in T : ~(<<y, x>> \in OpToRel(<, Nat))
  BY <1>1, NatLessThanWellFounded, WFMin
<1>3. \A y \in T : ~(y < x)
  BY <1>1, <1>2 DEF OpToRel
<1>4. PICK s \in S : x = n - s
  OBVIOUS
<1>5. ASSUME NEW t \in S PROVE t <= s
  <2>1. n - t \in T
    OBVIOUS
  <2>2. ~(n - t < x)
    BY <1>3, <2>1
  <2> QED BY <1>4, <2>2
<1> QED BY <1>5

LEMMA NewestOfAnswer ==
  ASSUME NEW p, NEW a, p.last \in 0..MaxGeneration, a.generation \in 0..MaxGeneration, a.items \in Seq(Generations)
  PROVE  /\ Newest(p, a) \in 0..MaxGeneration
         /\ p.last <= Newest(p, a) /\ a.generation <= Newest(p, a)
<1> DEFINE Known == {p.last, a.generation} \cup ToSet(a.items)
<1>1. Known \in SUBSET (0..MaxGeneration) /\ Known # {}
  <2>1. ToSet(a.items) \subseteq Generations
    BY DEF ToSet
  <2> QED BY <2>1 DEF Generations
<1>2. MaxGeneration \in Nat
  BY VoiceBoundsAssumption
<1>3. \E s \in Known : \A t \in Known : t <= s
  BY <1>1, <1>2, HasGreatest
<1>4. Newest(p, a) \in Known /\ \A t \in Known : t <= Newest(p, a)
  BY <1>3 DEF Newest
<1> QED BY <1>1, <1>4

(* The packets of a generation come one after the other; there are none of a
   generation of which nothing was synthesized. *)
LEMMA PacketsAre ==
  ASSUME NEW items \in Seq(Generations), NEW s \in 0..MaxGeneration
  PROVE  PacketsOf(items, s) \in Seq(Generations) /\ \A i \in 1..Len(PacketsOf(items, s)) : PacketsOf(items, s)[i] = s
<1> DEFINE D == {j \in DOMAIN items : items[j] = s}
           n == Cardinality(D)
<1>1. IsFiniteSet(D) /\ n \in Nat
  <2>1. DOMAIN items = 1..Len(items) /\ Len(items) \in Nat
    OBVIOUS
  <2>2. IsFiniteSet(1..Len(items))
    BY <2>1, FS_Interval
  <2> QED BY <2>1, <2>2, FS_Subset, FS_CardinalityType
<1>2. PacketsOf(items, s) = [i \in 1..n |-> s]
  BY DEF PacketsOf
<1>3. n # 0 => s \in Generations
  <2>1. n # 0 => D # {}
    BY <1>1, FS_EmptySet
  <2> QED BY <2>1
<1> HIDE DEF n
<1>4. [i \in 1..n |-> s] \in Seq(Generations)
  <2>1. \A i \in 1..n : s \in Generations
    BY <1>1, <1>3
  <2> QED BY <1>1, <2>1
<1> QED BY <1>1, <1>2, <1>4

(* A player that plays the next packet, and what it reports. *)
LEMMA NextPlays ==
  ASSUME NEW p, Playable(p)
  PROVE  /\ Playable(NextPlayed(p)) /\ NextPlayed(p).last = p.last
         /\ OnlyNewest(p) => OnlyNewest(NextPlayed(p))
         /\ NextReport(p) \in {<<TRUE>>, <<FALSE>>, << >>}
         /\ NextPlayed(p).current # NoAudio =>
              NextReport(p) = <<TRUE>> \/ (NextReport(p) = << >> /\ p.current # NoAudio)
         /\ p.current = NoAudio => NextReport(p) # << >>
<1>1. NextReport(p) \in {<<TRUE>>, <<FALSE>>, << >>} /\ (p.current = NoAudio => NextReport(p) # << >>)
  BY DEF NextReport
<1>2. CASE PlaysNext(p)
  <2>1. p.pending \in Seq(Generations) /\ p.pending # << >>
    BY <1>2 DEF PlaysNext, Playable
  <2>2. /\ Head(p.pending) \in Generations /\ Tail(p.pending) \in Seq(Generations) /\ Head(p.pending) = p.pending[1]
        /\ Len(Tail(p.pending)) = Len(p.pending) - 1 /\ 1 \in 1..Len(p.pending)
        /\ \A i \in 1..Len(Tail(p.pending)) : Tail(p.pending)[i] = p.pending[i + 1] /\ i + 1 \in 1..Len(p.pending)
    BY <2>1, HeadTailProperties, EmptySeq
  <2>3. PICK q : q = NextPlayed(p)
    OBVIOUS
  <2>4. /\ DOMAIN q = PlayerFields /\ q.current = Head(p.pending) /\ q.pending = Tail(p.pending) /\ q.last = p.last
        /\ q.aborted = p.aborted /\ q.loose = p.loose
    BY <1>2, <2>3 DEF NextPlayed, Playable, PlayerFields
  <2>5. Playable(q)
    BY <2>2, <2>4 DEF Playable, Generations
  <2>6. OnlyNewest(p) => OnlyNewest(q)
    BY <2>2, <2>4 DEF OnlyNewest
  <2>7. NextReport(p) = <<TRUE>>
    BY <1>2 DEF NextReport
  <2> QED BY <1>1, <2>3, <2>4, <2>5, <2>6, <2>7
<1>3. CASE ~PlaysNext(p)
  BY <1>1, <1>3 DEF NextPlayed, NextReport
<1> QED BY <1>2, <1>3

(* An answer received. *)
LEMMA ReceivedPlays ==
  ASSUME NEW p, Playable(p), NEW a, a.generation \in 0..MaxGeneration, a.items \in Seq(Generations)
  PROVE  /\ Playable(Received(p, a)) /\ Received(p, a).last >= a.generation
         /\ Newest(p, a) > p.last => Received(p, a).current = NoAudio
         /\ ~(Newest(p, a) > p.last) => Received(p, a).current = p.current
         /\ ~setting.aborts /\ OnlyNewest(p) => OnlyNewest(Received(p, a))
<1> DEFINE n == Newest(p, a)
           packets == PacketsOf(a.items, n)
<1>1. n \in 0..MaxGeneration /\ p.last <= n /\ a.generation <= n
  BY NewestOfAnswer DEF Playable
<1>2. packets \in Seq(Generations) /\ \A i \in 1..Len(packets) : packets[i] = n
  BY <1>1, PacketsAre
<1>3. PICK r : r = Received(p, a)
  OBVIOUS
<1>4. PICK h : h = (IF n > p.last THEN Stopped([p EXCEPT !.pending = << >>]) ELSE p)
  OBVIOUS
<1>5. r = [h EXCEPT !.last = n, !.pending = @ \o packets]
  BY <1>3, <1>4 DEF Received
<1> HIDE DEF n, packets
<1>6. CASE n > p.last
  <2>1. PICK d : d = [p EXCEPT !.pending = << >>]
    OBVIOUS
  <2>2. DOMAIN d = PlayerFields /\ d.pending = << >> /\ d.aborted = p.aborted /\ d.loose = p.loose
    BY <2>1 DEF Playable, PlayerFields
  <2>3. h = Stopped(d)
    BY <1>4, <1>6, <2>1
  <2>4. /\ DOMAIN h = PlayerFields /\ h.pending = << >> /\ h.current = NoAudio /\ h.loose = p.loose
        /\ ~setting.aborts => h.aborted = p.aborted
    BY <2>2, <2>3 DEF Stopped, PlayerFields
  <2>8. h.aborted \subseteq Generations
    <3>1. d.current = p.current /\ h.aborted \subseteq d.aborted \cup ({d.current} \ {NoAudio})
      BY <2>1, <2>2, <2>3 DEF Stopped, Playable, PlayerFields
    <3> QED BY <2>2, <3>1 DEF Playable, Generations, NoAudio
  <2>5. /\ DOMAIN r = PlayerFields /\ r.last = n /\ r.pending = << >> \o packets /\ r.current = NoAudio
        /\ r.loose = p.loose /\ (~setting.aborts => r.aborted = p.aborted) /\ r.aborted \subseteq Generations
    BY <1>5, <2>4, <2>8 DEF PlayerFields
  <2>6. << >> \o packets = packets
    BY <1>2, ConcatEmptySeq
  <2>7. Playable(r)
    BY <1>1, <1>2, <2>5, <2>6, VoiceBoundsAssumption DEF Playable, NoAudio
  <2>9. ~setting.aborts /\ OnlyNewest(p) => OnlyNewest(r)
    BY <1>2, <2>5, <2>6 DEF OnlyNewest
  <2>10. r.last >= a.generation
    BY <1>1, <2>5
  <2> QED BY <1>3, <1>6, <2>5, <2>7, <2>9, <2>10 DEF n
<1>7. CASE ~(n > p.last)
  <2>1. n = p.last
    BY <1>1, <1>7 DEF Playable
  <2>2. h = p
    BY <1>4, <1>7
  <2>3. /\ DOMAIN r = PlayerFields /\ r.last = n /\ r.pending = p.pending \o packets /\ r.current = p.current
        /\ r.loose = p.loose /\ r.aborted = p.aborted
    BY <1>5, <2>2 DEF Playable, PlayerFields
  <2>4. /\ r.pending \in Seq(Generations) /\ Len(r.pending) = Len(p.pending) + Len(packets)
        /\ \A i \in 1..Len(r.pending) :
             r.pending[i] = IF i <= Len(p.pending) THEN p.pending[i] ELSE packets[i - Len(p.pending)]
    BY <1>2, <2>3, ConcatProperties DEF Playable
  <2>5. OnlyNewest(p) => \A i \in 1..Len(r.pending) : r.pending[i] = n
    <3> SUFFICES ASSUME OnlyNewest(p), NEW i \in 1..Len(r.pending) PROVE r.pending[i] = n
      OBVIOUS
    <3>1. Len(p.pending) \in Nat /\ Len(packets) \in Nat
      BY <1>2 DEF Playable
    <3>2. CASE i <= Len(p.pending)
      BY <2>1, <2>4, <3>1, <3>2 DEF OnlyNewest
    <3>3. CASE ~(i <= Len(p.pending))
      <4>1. i - Len(p.pending) \in 1..Len(packets) /\ r.pending[i] = packets[i - Len(p.pending)]
        BY <2>4, <3>1, <3>3
      <4> QED BY <1>2, <4>1
    <3> QED BY <3>2, <3>3
  <2>6. Playable(r)
    BY <1>1, <2>3, <2>4 DEF Playable
  <2>7. OnlyNewest(p) => OnlyNewest(r)
    BY <2>1, <2>3, <2>5 DEF OnlyNewest
  <2> QED BY <1>1, <1>3, <1>7, <2>3, <2>6, <2>7 DEF n
<1> QED BY <1>6, <1>7

(* Reports that follow others. *)
LEMMA ToldAfter ==
  ASSUME NEW told, NEW before \in Seq(BOOLEAN), NEW more \in Seq(BOOLEAN)
  PROVE  /\ before \o more \in Seq(BOOLEAN)
         /\ more # << >> => ToldBy(told, before \o more) = more[Len(more)]
         /\ more = << >> => before \o more = before
<1>1. before \o more \in Seq(BOOLEAN) /\ Len(before \o more) = Len(before) + Len(more)
  BY ConcatProperties
<1>2. ASSUME more # << >> PROVE ToldBy(told, before \o more) = more[Len(more)]
  <2>1. Len(more) \in Nat \ {0} /\ Len(before) \in Nat
    BY <1>2, EmptySeq
  <2>2. before \o more # << >>
    BY <1>1, <2>1
  <2>3. (before \o more)[Len(before) + Len(more)] = more[Len(more)]
    BY <2>1, ConcatProperties
  <2> QED BY <1>1, <2>2, <2>3 DEF ToldBy
<1>3. more = << >> => before \o more = before
  BY ConcatEmptySeq
<1> QED BY <1>1, <1>2, <1>3

LEMMA OneReport ==
  ASSUME NEW p
  PROVE  /\ NextReport(p) \in Seq(BOOLEAN)
         /\ NextReport(p) = <<TRUE>> => NextReport(p) # << >> /\ NextReport(p)[Len(NextReport(p))] = TRUE
<1>1. <<TRUE>> \in Seq(BOOLEAN) /\ <<FALSE>> \in Seq(BOOLEAN) /\ << >> \in Seq(BOOLEAN)
  OBVIOUS
<1>2. <<TRUE>> # << >> /\ Len(<<TRUE>>) = 1 /\ <<TRUE>>[1] = TRUE
  OBVIOUS
<1>3. NextReport(p) \in {<<TRUE>>, <<FALSE>>, << >>}
  BY DEF NextReport
<1> QED BY <1>1, <1>2, <1>3

(* Whatever a player plays next, the page is told of it. *)
LEMMA PlayedIsTold ==
  ASSUME NEW told, NEW before \in Seq(BOOLEAN), NEW p, Playable(p),
         p.current # NoAudio => ToldBy(told, before) = TRUE
  PROVE  /\ before \o NextReport(p) \in Seq(BOOLEAN)
         /\ NextPlayed(p).current # NoAudio => ToldBy(told, before \o NextReport(p)) = TRUE
<1>1. NextReport(p) \in Seq(BOOLEAN)
  BY OneReport
<1>2. before \o NextReport(p) \in Seq(BOOLEAN)
  BY <1>1, ToldAfter
<1>3. CASE NextReport(p) = <<TRUE>>
  <2>1. NextReport(p) # << >> /\ NextReport(p)[Len(NextReport(p))] = TRUE
    BY <1>3, OneReport
  <2>2. ToldBy(told, before \o NextReport(p)) = NextReport(p)[Len(NextReport(p))]
    BY <1>1, <2>1, ToldAfter
  <2> QED BY <1>2, <2>1, <2>2
<1>4. CASE NextReport(p) # <<TRUE>>
  <2> SUFFICES ASSUME NextPlayed(p).current # NoAudio PROVE ToldBy(told, before \o NextReport(p)) = TRUE
    BY <1>2
  <2>1. NextReport(p) = << >> /\ p.current # NoAudio
    BY <1>4, NextPlays
  <2>2. before \o NextReport(p) = before
    BY <1>1, <2>1, ToldAfter
  <2> QED BY <2>1, <2>2
<1> QED BY <1>3, <1>4

LEMMA PlayerRests ==
  ASSUME PlayerInv, UNCHANGED <<player, reporting, audible>> PROVE PlayerInv'
BY DEF PlayerInv, Playable, reporting

(* A report taken out leaves the others, in their order. *)
LEMMA OneNoted ==
  ASSUME reports \in Seq(BOOLEAN), NEW i \in DOMAIN reports
  PROVE  /\ RemoveAt(reports, i) \in Seq(BOOLEAN) /\ Len(reports) \in Nat \ {0} /\ i \in 1..Len(reports)
         /\ Len(RemoveAt(reports, i)) = Len(reports) - 1
         /\ \A j \in 1..(Len(reports) - 1) : RemoveAt(reports, i)[j] = IF j < i THEN reports[j] ELSE reports[j + 1]
<1>1. Len(reports) \in Nat \ {0} /\ i \in 1..Len(reports)
  BY LenProperties
<1>2. PICK front : front = SubSeq(reports, 1, i - 1)
  OBVIOUS
<1>3. PICK back : back = SubSeq(reports, i + 1, Len(reports))
  OBVIOUS
<1>4. front \in Seq(BOOLEAN) /\ Len(front) = i - 1 /\ \A j \in 1..(i - 1) : front[j] = reports[j]
  BY <1>1, <1>2, SubSeqProperties
<1>5. back \in Seq(BOOLEAN) /\ Len(back) = Len(reports) - i
      /\ \A j \in 1..(Len(reports) - i) : back[j] = reports[i + j]
  BY <1>1, <1>3, SubSeqProperties
<1>6. RemoveAt(reports, i) = front \o back
  BY <1>2, <1>3 DEF RemoveAt
<1>7. front \o back \in Seq(BOOLEAN) /\ Len(front \o back) = Len(reports) - 1
      /\ \A j \in 1..(Len(reports) - 1) : (front \o back)[j] = IF j <= i - 1 THEN front[j] ELSE back[j - (i - 1)]
  BY <1>1, <1>4, <1>5, ConcatProperties
<1>8. ASSUME NEW j \in 1..(Len(reports) - 1) PROVE (front \o back)[j] = IF j < i THEN reports[j] ELSE reports[j + 1]
  <2>1. CASE j < i
    BY <1>1, <1>4, <1>7, <2>1
  <2>2. CASE ~(j < i)
    <3>1. j - (i - 1) \in 1..(Len(reports) - i) /\ i + (j - (i - 1)) = j + 1 /\ ~(j <= i - 1)
      BY <1>1, <2>2
    <3> QED BY <1>5, <1>7, <2>2, <3>1
  <2> QED BY <2>1, <2>2
<1> QED BY <1>1, <1>6, <1>7, <1>8

LEMMA PlayerKept == PlayerInv /\ AnswerInv /\ [VNext]_vvars => PlayerInv'
<1> SUFFICES ASSUME PlayerInv, AnswerInv, [VNext]_vvars PROVE PlayerInv'
  OBVIOUS
<1> USE DEF mouth, bridge, reporting, pageSide
<1>1. Playable(player) /\ reports \in Seq(BOOLEAN)
      /\ (player.current # NoAudio /\ ~overtaken => ToldBy(audible, reports) = TRUE)
  BY DEF PlayerInv
<1>2. ASSUME NEW p, Playable(p), PlayNext(p), UNCHANGED audible, p.current = NoAudio
      PROVE  PlayerInv'
  <2>1. player' = NextPlayed(p) /\ reports' = reports \o NextReport(p)
    BY <1>2 DEF PlayNext, Report
  <2>2. Playable(NextPlayed(p)) /\ reports \o NextReport(p) \in Seq(BOOLEAN)
        /\ (NextPlayed(p).current # NoAudio => ToldBy(audible, reports \o NextReport(p)) = TRUE)
    BY <1>1, <1>2, PlayedIsTold, NextPlays
  <2>3. Playable(player') /\ reports' \in Seq(BOOLEAN) /\ (player'.current # NoAudio => ToldBy(audible', reports') = TRUE)
    BY <1>2, <2>1, <2>2
  <2> QED BY <2>3 DEF PlayerInv, Playable
<1>3. ASSUME NEW s \in Generations, NEW p, Playable(p), Refused(s, p), UNCHANGED audible PROVE PlayerInv'
  <2>1. player' = [p EXCEPT !.pending = <<s>> \o @, !.current = NoAudio, !.started = FALSE]
        /\ reports' = reports \o <<FALSE>>
    BY <1>3 DEF Refused, Report
  <2>2. DOMAIN player' = PlayerFields /\ player'.current = NoAudio /\ player'.last = p.last /\ player'.aborted = p.aborted
        /\ player'.pending = <<s>> \o p.pending
    BY <1>3, <2>1 DEF Playable, PlayerFields
  <2>3. <<s>> \o p.pending \in Seq(Generations) /\ reports \o <<FALSE>> \in Seq(BOOLEAN)
    <3>1. <<s>> \in Seq(Generations) /\ <<FALSE>> \in Seq(BOOLEAN)
      OBVIOUS
    <3> QED BY <1>1, <1>3, <3>1, ConcatProperties DEF Playable
  <2> QED BY <1>3, <2>1, <2>2, <2>3, VoiceBoundsAssumption DEF PlayerInv, Playable, NoAudio
<1>4. CASE NotePlayback
  <2>1. PICK i \in DOMAIN reports :
          /\ audible' = reports[i] /\ reports' = RemoveAt(reports, i) /\ UNCHANGED player
          /\ overtaken' = (overtaken \/ (i = Len(reports) /\ \E j \in DOMAIN reports : reports[j] # reports[i]))
    BY <1>4 DEF NotePlayback
  <2>2. /\ reports' \in Seq(BOOLEAN) /\ Len(reports) \in Nat \ {0} /\ i \in 1..Len(reports)
        /\ Len(reports') = Len(reports) - 1 /\ DOMAIN reports = 1..Len(reports)
        /\ \A j \in 1..(Len(reports) - 1) : reports'[j] = IF j < i THEN reports[j] ELSE reports[j + 1]
    BY <1>1, <2>1, OneNoted
  <2>3. ASSUME ~overtaken' PROVE ~overtaken /\ ToldBy(audible', reports') = ToldBy(audible, reports)
    <3>1. ~overtaken /\ (i = Len(reports) => \A j \in 1..Len(reports) : reports[j] = reports[i])
      BY <2>1, <2>2, <2>3
    <3>2. ToldBy(audible, reports) = reports[Len(reports)]
      BY <2>2 DEF ToldBy
    <3>3. CASE Len(reports) = 1
      <4>1. reports' = << >> /\ i = Len(reports)
        BY <2>2, <3>3, EmptySeq
      <4> QED BY <2>1, <3>1, <3>2, <4>1 DEF ToldBy
    <3>4. CASE Len(reports) # 1
      <4>1. Len(reports) - 1 \in 1..(Len(reports) - 1) /\ Len(reports) - 1 \in 1..Len(reports)
            /\ reports' # << >> /\ (Len(reports) - 1) + 1 = Len(reports)
        BY <2>2, <3>4
      <4>2. reports'[Len(reports) - 1] = reports[Len(reports)]
        BY <2>2, <3>1, <4>1
      <4> QED BY <2>2, <3>1, <3>2, <4>1, <4>2 DEF ToldBy
    <3> QED BY <3>3, <3>4
  <2> QED BY <1>1, <2>1, <2>2, <2>3 DEF PlayerInv, Playable
<1>5. CASE ReceiveAudio
  <2> DEFINE r == Received(player, poll)
             first == IF Newest(player, poll) > player.last THEN <<FALSE>> ELSE << >>
             more == first \o NextReport(r)
  <2>1. player' = NextPlayed(r) /\ reports' = reports \o more /\ UNCHANGED audible
        /\ overtaken' = (overtaken /\ more = << >>)
    BY <1>5 DEF ReceiveAudio, AnswerReports, Report
  <2>2. poll.generation \in 0..MaxGeneration /\ poll.items \in Seq(Generations)
    BY <1>5 DEF ReceiveAudio, AnswerInv
  <2>3. Playable(r) /\ (r.current # NoAudio => first = << >> /\ r.current = player.current)
    BY <1>1, <2>2, ReceivedPlays
  <2>4. first \in Seq(BOOLEAN) /\ NextReport(r) \in Seq(BOOLEAN)
    <3>1. <<FALSE>> \in Seq(BOOLEAN) /\ << >> \in Seq(BOOLEAN)
      OBVIOUS
    <3> QED BY <3>1, OneReport
  <2>5. /\ Playable(NextPlayed(r))
        /\ NextPlayed(r).current # NoAudio =>
             NextReport(r) = <<TRUE>> \/ (NextReport(r) = << >> /\ r.current # NoAudio)
    BY <2>3, NextPlays
  <2> DEFINE next == NextReport(r)
             played == NextPlayed(r)
  <2>6. more = first \o next /\ more \in Seq(BOOLEAN) /\ reports \o more = (reports \o first) \o next
        /\ reports \o first \in Seq(BOOLEAN)
    <3> HIDE DEF first, r, next
    <3> QED BY <1>1, <2>4, ConcatAssociative, ConcatProperties DEF next
  <2>7. next = <<TRUE>> => next # << >> /\ next[Len(next)] = TRUE
    BY OneReport
  <2> HIDE DEF r, first, more, next, played
  <2>8. Playable(played) /\ player' = played /\ reports' = (reports \o first) \o next /\ reports' \in Seq(BOOLEAN)
        /\ next \in Seq(BOOLEAN)
    BY <1>1, <2>1, <2>4, <2>5, <2>6, ConcatProperties DEF next, played
  <2>9. ASSUME played.current # NoAudio, ~overtaken' PROVE ToldBy(audible', reports') = TRUE
    <3>1. CASE next = <<TRUE>>
      <4>1. PICK told : told = audible'
        OBVIOUS
      <4>2. PICK before : before = reports \o first
        OBVIOUS
      <4>3. ToldBy(told, before \o next) = TRUE
        <5>1. next # << >> /\ next[Len(next)] = TRUE
          BY <2>7, <3>1
        <5>2. before \in Seq(BOOLEAN) /\ next \in Seq(BOOLEAN)
          BY <2>6, <2>8, <4>2
        <5>3. ToldBy(told, before \o next) = next[Len(next)]
          BY <5>1, <5>2, ToldAfter
        <5> QED BY <5>1, <5>3
      <4> QED BY <2>8, <4>1, <4>2, <4>3
    <3>2. CASE next = << >> /\ r.current # NoAudio
      <4>1. first = << >> /\ player.current # NoAudio
        BY <2>3, <3>2
      <4>2. reports' = reports /\ more = << >>
        BY <1>1, <2>6, <2>8, <3>2, <4>1, ConcatEmptySeq
      <4> QED BY <1>1, <2>1, <2>9, <4>1, <4>2
    <3> QED BY <2>5, <2>9, <3>1, <3>2 DEF next, played
  <2> QED BY <2>8, <2>9 DEF PlayerInv, Playable
<1>6. CASE AudioEnds
  <2>1. PICK p : p = [player EXCEPT !.current = NoAudio, !.started = FALSE]
    OBVIOUS
  <2>2. PlayNext(p) /\ UNCHANGED audible
    BY <1>6, <2>1 DEF AudioEnds
  <2>3. Playable(p) /\ p.current = NoAudio
    BY <1>1, <2>1, VoiceBoundsAssumption DEF Playable, PlayerFields, NoAudio
  <2> QED BY <1>2, <2>2, <2>3
<1>7. ASSUME NEW s \in player.loose, LooseEnds(s) PROVE PlayerInv'
  <2>1. PICK p : p = [player EXCEPT !.loose = (player.loose \ {s}) \cup Sounding, !.current = NoAudio, !.started = FALSE]
    OBVIOUS
  <2>2. PlayNext(p) /\ UNCHANGED audible
    BY <1>7, <2>1 DEF LooseEnds
  <2>3. Playable(p) /\ p.current = NoAudio
    BY <1>1, <2>1, VoiceBoundsAssumption DEF Playable, PlayerFields, NoAudio
  <2> QED BY <1>2, <2>2, <2>3
<1>8. ASSUME NEW s \in player.aborted, PlayAborted(s) PROVE PlayerInv'
  <2>1. PICK p : p = [player EXCEPT !.aborted = player.aborted \ {s}, !.loose = player.loose \cup Sounding]
    OBVIOUS
  <2>2. Refused(s, p) /\ UNCHANGED audible
    BY <1>8, <2>1 DEF PlayAborted
  <2>3. Playable(p) /\ s \in Generations
    BY <1>1, <2>1 DEF Playable, PlayerFields
  <2> QED BY <1>3, <2>2, <2>3
<1>9. CASE PlayRefused
  <2>1. player.current \in Generations /\ Refused(player.current, player) /\ UNCHANGED audible
    BY <1>1, <1>9 DEF PlayRefused, Playable, Generations, NoAudio
  <2> QED BY <1>1, <1>3, <2>1
<1>10. CASE AudioStarts
  <2>1. player' = [player EXCEPT !.started = TRUE] /\ UNCHANGED <<reports, overtaken, audible>>
    BY <1>10 DEF AudioStarts
  <2>2. DOMAIN player' = PlayerFields /\ player'.last = player.last /\ player'.current = player.current
        /\ player'.pending = player.pending /\ player'.aborted = player.aborted
    BY <1>1, <2>1 DEF Playable, PlayerFields
  <2> QED BY <1>1, <2>1, <2>2 DEF PlayerInv, Playable
<1>11. CASE (\E job \in workers : EmitPacket(job)) \/ WorkerEnds \/ TestSpeech \/ HearRequest \/ Answer \/ EndAnswer
            \/ PressKey \/ CutSpeech \/ HandleBarge \/ BeginPoll \/ TakeAudio \/ UNCHANGED vvars
  <2>1. UNCHANGED <<player, reporting, audible>>
    BY <1>11 DEF EmitPacket, WorkerEnds, EndWorker, TestSpeech, HearRequest, Answer, EndAnswer, PressKey, CutSpeech,
       HandleBarge, BeginPoll, TakeAudio, vvars
  <2> QED BY <2>1, PlayerRests
<1> QED BY <1>4, <1>5, <1>6, <1>7, <1>8, <1>9, <1>10, <1>11 DEF VNext, PollStep, CurrentPlays, OthersEnd

LEMMA VoiceStart == ASSUME VInit PROVE PlayerInv /\ AnswerInv
<1>1. << >> \in Seq(Generations) /\ << >> \in Seq(BOOLEAN) /\ Len(<< >>) = 0
  OBVIOUS
<1>2. 0 \in 0..MaxGeneration /\ MaxGeneration \in Nat
  BY VoiceBoundsAssumption
<1>3. PlayerInv
  BY <1>1, <1>2 DEF VInit, PlayerInv, Playable, PlayerFields, NoAudio
<1>4. AnswerInv
  BY <1>1, <1>2 DEF VInit, AnswerInv, OnlyNewest, NoAudio
<1> QED BY <1>3, <1>4

(* A queue that takes a packet, in the terms of what may be said. *)
LEMMA SaidIsQueued ==
  ASSUME NEW s \in Generations, queue \in Seq(Generations) PROVE Enqueued(s) \in Seq(Generations)
<1>1. queue \in Seq(Nat) /\ s \in Nat
  <2>1. Generations \subseteq Nat
    BY DEF Generations
  <2> QED BY <2>1, SeqMonotonic
<1>2. Enqueued(s) \in Seq(Nat)
      /\ \A i \in 1..Len(Enqueued(s)) : Enqueued(s)[i] = s \/ \E j \in 1..Len(queue) : Enqueued(s)[i] = queue[j]
  BY <1>1, Queued
<1>3. \A i \in 1..Len(Enqueued(s)) : Enqueued(s)[i] \in Generations
  BY <1>2
<1> QED BY <1>2, <1>3

LEMMA AnswerKept == MouthInv /\ PlayerInv /\ AnswerInv /\ [VNext]_vvars => AnswerInv'
<1> SUFFICES ASSUME MouthInv, PlayerInv, AnswerInv, [VNext]_vvars PROVE AnswerInv'
  OBVIOUS
<1> USE DEF mouth, bridge, reporting, pageSide
<1> DEFINE Bounded == /\ generation <= MaxGeneration /\ \A job \in workers : job.generation <= MaxGeneration
                      /\ queue \in Seq(Generations)
           Polling == /\ poll.pc \in {"idle", "take", "answer"}
                      /\ poll.pc # "idle" => poll.generation \in 0..MaxGeneration
                      /\ poll.pc = "answer" => poll.items \in Seq(Generations)
           Plays == ~setting.aborts => OnlyNewest(player)
<1>1. Bounded /\ Polling /\ Plays /\ Playable(player)
  BY DEF AnswerInv, PlayerInv
<1>2. generation \in Nat /\ MaxGeneration \in Nat /\ \A job \in workers : job.generation \in Nat \ {0} /\ DOMAIN job = WorkerFields
  BY VoiceBoundsAssumption DEF MouthInv
<1>3. UNCHANGED setting
  BY DEF VNext, EmitPacket, WorkerEnds, EndWorker, TestSpeech, HearRequest, Answer, EndAnswer, PressKey, CutSpeech,
     HandleBarge, NotePlayback, PollStep, BeginPoll, TakeAudio, ReceiveAudio, CurrentPlays, AudioStarts, AudioEnds,
     OthersEnd, PlayAborted, LooseEnds, PlayRefused, vvars
<1>4. Bounded'
  <2>1. ASSUME NEW test, Starts(test) PROVE Bounded'
    <3>1. generation' = generation + 1 /\ generation < MaxGeneration /\ UNCHANGED queue
      BY <2>1 DEF Starts
    <3>2. ASSUME NEW job \in workers' PROVE job.generation <= MaxGeneration
      <4>1. CASE job \in workers
        BY <1>1, <4>1
      <4>2. CASE job \notin workers
        <5>1. PICK left : job = [generation |-> generation + 1, test |-> test, left |-> left]
          BY <2>1, <4>2 DEF Starts
        <5> QED BY <1>2, <3>1, <5>1
      <4> QED BY <4>1, <4>2
    <3> QED BY <1>1, <1>2, <3>1, <3>2
  <2>2. ASSUME NEW job \in workers, EmitPacket(job) PROVE Bounded'
    <3>1. UNCHANGED generation /\ job.generation \in Generations /\ DOMAIN job = WorkerFields
      BY <1>1, <1>2, <2>2 DEF EmitPacket, Generations
    <3>2. queue' \in Seq(Generations)
      BY <1>1, <2>2, <3>1, SaidIsQueued DEF EmitPacket
    <3>3. ASSUME NEW d \in workers' PROVE d.generation <= MaxGeneration
      <4>1. CASE d \in workers
        BY <1>1, <4>1
      <4>2. CASE d \notin workers
        <5>1. PICK left : d = [job EXCEPT !.left = left]
          BY <2>2, <4>2 DEF EmitPacket
        <5> QED BY <1>1, <3>1, <5>1 DEF WorkerFields
      <4> QED BY <4>1, <4>2
    <3> QED BY <1>1, <3>1, <3>2, <3>3
  <2>3. ASSUME UNCHANGED generation, workers' \subseteq workers, queue' \in {queue, << >>} PROVE Bounded'
    <3>1. << >> \in Seq(Generations)
      OBVIOUS
    <3> QED BY <1>1, <2>3, <3>1
  <2>4. CASE CutSpeech
    <3>1. generation' = generation + 1 /\ generation < MaxGeneration /\ queue' = << >> /\ UNCHANGED workers
      BY <2>4 DEF CutSpeech, ShutUp
    <3>2. << >> \in Seq(Generations)
      OBVIOUS
    <3> QED BY <1>1, <1>2, <3>1, <3>2
  <2>5. CASE WorkerEnds \/ TakeAudio
    <3>1. UNCHANGED generation /\ workers' \subseteq workers /\ queue' \in {queue, << >>}
      BY <2>5 DEF WorkerEnds, EndWorker, TakeAudio
    <3> QED BY <2>3, <3>1
  <2>6. CASE TestSpeech \/ Answer
    BY <2>1, <2>6 DEF TestSpeech, Answer, Say
  <2>7. CASE HearRequest \/ EndAnswer \/ PressKey \/ HandleBarge \/ NotePlayback \/ BeginPoll \/ ReceiveAudio
             \/ CurrentPlays \/ OthersEnd \/ PlayRefused \/ UNCHANGED vvars
    <3>1. UNCHANGED <<generation, workers, queue>>
      BY <2>7 DEF HearRequest, EndAnswer, PressKey, HandleBarge, NotePlayback, BeginPoll, ReceiveAudio, CurrentPlays,
         AudioStarts, AudioEnds, OthersEnd, PlayAborted, LooseEnds, PlayRefused, vvars
    <3> QED BY <2>3, <3>1
  <2> HIDE DEF Bounded
  <2> QED BY <2>2, <2>4, <2>5, <2>6, <2>7 DEF VNext, PollStep
<1>5. Polling'
  <2>1. CASE BeginPoll
    BY <1>1, <1>2, <2>1 DEF BeginPoll
  <2>2. CASE TakeAudio
    <3>1. poll' = [pc |-> "answer", generation |-> poll.generation, items |-> queue]
          /\ poll.generation \in 0..MaxGeneration /\ queue \in Seq(Generations)
      BY <1>1, <2>2 DEF TakeAudio
    <3>2. poll'.pc = "answer" /\ poll'.generation = poll.generation /\ poll'.items = queue
      BY <3>1
    <3> QED BY <3>1, <3>2
  <2>3. CASE ReceiveAudio
    BY <2>3 DEF ReceiveAudio
  <2>4. CASE UNCHANGED poll
    BY <1>1, <2>4
  <2>5. BeginPoll \/ TakeAudio \/ ReceiveAudio \/ UNCHANGED poll
    BY DEF VNext, EmitPacket, WorkerEnds, EndWorker, TestSpeech, HearRequest, Answer, EndAnswer, PressKey, CutSpeech,
       HandleBarge, NotePlayback, PollStep, CurrentPlays, AudioStarts, AudioEnds,
       OthersEnd, PlayAborted, LooseEnds, PlayRefused, vvars
  <2> QED BY <2>1, <2>2, <2>3, <2>4, <2>5
<1>6. Plays'
  <2> SUFFICES ASSUME ~setting.aborts, OnlyNewest(player) PROVE OnlyNewest(player)'
    BY <1>1, <1>3
  <2>0. DOMAIN player = PlayerFields /\ player.aborted = {} /\ player.loose = {}
        /\ player.current \in {NoAudio, player.last} /\ player.pending \in Seq(Generations)
        /\ \A i \in 1..Len(player.pending) : player.pending[i] = player.last
    BY <1>1 DEF OnlyNewest, Playable
  <2>1. CASE ReceiveAudio
    <3>1. poll.generation \in 0..MaxGeneration /\ poll.items \in Seq(Generations)
      BY <1>1, <2>1 DEF ReceiveAudio
    <3>2. Playable(Received(player, poll)) /\ OnlyNewest(Received(player, poll))
      BY <1>1, <3>1, ReceivedPlays
    <3>3. OnlyNewest(NextPlayed(Received(player, poll))) /\ player' = NextPlayed(Received(player, poll))
      BY <2>1, <3>2, NextPlays DEF ReceiveAudio
    <3> QED BY <3>3 DEF OnlyNewest
  <2>2. CASE AudioStarts
    <3>1. player' = [player EXCEPT !.started = TRUE]
      BY <2>2 DEF AudioStarts
    <3>2. player'.last = player.last /\ player'.current = player.current /\ player'.pending = player.pending
          /\ player'.aborted = player.aborted /\ player'.loose = player.loose
      BY <2>0, <3>1 DEF PlayerFields
    <3> QED BY <2>0, <3>2 DEF OnlyNewest
  <2>3. CASE AudioEnds
    <3>1. PICK p : p = [player EXCEPT !.current = NoAudio, !.started = FALSE]
      OBVIOUS
    <3>2. DOMAIN p = PlayerFields /\ p.last = player.last /\ p.current = NoAudio /\ p.pending = player.pending
          /\ p.aborted = player.aborted /\ p.loose = player.loose
      BY <2>0, <3>1 DEF PlayerFields
    <3>3. Playable(p) /\ OnlyNewest(p)
      BY <1>1, <2>0, <3>2, VoiceBoundsAssumption DEF OnlyNewest, Playable, NoAudio
    <3>4. OnlyNewest(NextPlayed(p)) /\ player' = NextPlayed(p)
      BY <2>3, <3>1, <3>3, NextPlays DEF AudioEnds, PlayNext
    <3> QED BY <3>4 DEF OnlyNewest
  <2>4. CASE PlayRefused
    <3>1. /\ player' = [player EXCEPT !.pending = <<player.current>> \o player.pending, !.current = NoAudio,
                                      !.started = FALSE]
          /\ player.current \in Generations /\ player.current = player.last
      BY <1>1, <2>0, <2>4 DEF PlayRefused, Refused, Playable, Generations, NoAudio
    <3>2. player'.last = player.last /\ player'.current = NoAudio /\ player'.pending = <<player.last>> \o player.pending
          /\ player'.aborted = {} /\ player'.loose = {}
      BY <2>0, <3>1 DEF PlayerFields
    <3>3. <<player.last>> \in Seq(Generations) /\ Len(<<player.last>>) = 1 /\ <<player.last>>[1] = player.last
      BY <3>1
    <3>4. /\ Len(player'.pending) = 1 + Len(player.pending) /\ Len(player.pending) \in Nat
          /\ \A i \in 1..Len(player'.pending) :
               player'.pending[i] = IF i <= 1 THEN <<player.last>>[i] ELSE player.pending[i - 1]
      BY <2>0, <3>2, <3>3, ConcatProperties
    <3>5. ASSUME NEW i \in 1..Len(player'.pending) PROVE player'.pending[i] = player.last
      <4>1. CASE i = 1
        BY <3>3, <3>4, <4>1
      <4>2. CASE i # 1
        <5>1. i - 1 \in 1..Len(player.pending) /\ player'.pending[i] = player.pending[i - 1]
          BY <3>4, <4>2
        <5> QED BY <2>0, <5>1
      <4> QED BY <4>1, <4>2
    <3> QED BY <3>2, <3>5 DEF OnlyNewest
  <2>5. CASE UNCHANGED player
    BY <2>0, <2>5 DEF OnlyNewest
  <2>6. ReceiveAudio \/ AudioStarts \/ AudioEnds \/ PlayRefused \/ UNCHANGED player
    BY <2>0 DEF VNext, EmitPacket, WorkerEnds, EndWorker, TestSpeech, HearRequest, Answer, EndAnswer, PressKey, CutSpeech,
       HandleBarge, NotePlayback, PollStep, BeginPoll, TakeAudio, CurrentPlays, OthersEnd, vvars
  <2> QED BY <2>1, <2>2, <2>3, <2>4, <2>5, <2>6
<1> QED BY <1>4, <1>5, <1>6 DEF AnswerInv

VoiceInv == MouthInv /\ PlayerInv /\ AnswerInv

LEMMA VoiceKept ==
  /\ SInit => VoiceInv
  /\ VoiceInv /\ [Hands(HNext) \/ Voice(VNext) \/ Bridge(BridgeNext)]_svars => VoiceInv'
<1>1. SInit => VoiceInv
  BY MouthStart, VoiceStart DEF SInit, VoiceInv
<1>2. ASSUME VoiceInv, [Hands(HNext) \/ Voice(VNext) \/ Bridge(BridgeNext)]_svars PROVE VoiceInv'
  <2>1. [VNext]_vvars
    BY <1>2 DEF Hands, Voice, Bridge, svars
  <2> QED BY <1>2, <2>1, MouthKept, PlayerKept, AnswerKept DEF VoiceInv
<1> QED BY <1>1, <1>2

(* The page is told of what sounds before it sounds, so once its reports have
   arrived the microphone is closed while an audio plays, unless the user barges
   in; for any bounds and settings (jarvis_voice_bridge.py, jarvis_desktop.py). *)
THEOREM PlaybackIsGated == SSpec => []MicIsGatedWhileSounding
<1>1. VoiceInv => MicIsGatedWhileSounding
  BY DEF VoiceInv, PlayerInv, ToldBy, MicIsGatedWhileSounding, SpeakerGate
<1> QED BY <1>1, VoiceKept, PTL DEF SSpec

(* The answer of a poll ends all speech that is older than the poll, waiting or
   sounding, for any bounds, settings and answers in any order (jarvis_desktop.py). *)
THEOREM AnswersSilenceOlder == SSpec => AnswerSilencesOlder
<1> DEFINE EndsOlder == ReceiveAudio /\ ~setting.aborts =>
                    \A s \in ToSet(player'.pending) \cup ({player'.current} \ {NoAudio}) : s >= poll.generation
<1>1. VoiceInv /\ [Hands(HNext) \/ Voice(VNext) \/ Bridge(BridgeNext)]_svars => [EndsOlder]_vvars
  <2> SUFFICES ASSUME VoiceInv, ReceiveAudio, ~setting.aborts,
                      NEW s \in ToSet(player'.pending) \cup ({player'.current} \ {NoAudio})
               PROVE  s >= poll.generation
    OBVIOUS
  <2>1. poll.generation \in 0..MaxGeneration /\ poll.items \in Seq(Generations) /\ OnlyNewest(player) /\ Playable(player)
    BY DEF VoiceInv, AnswerInv, PlayerInv, ReceiveAudio
  <2>2. PICK r : r = Received(player, poll)
    OBVIOUS
  <2>3. Playable(r) /\ r.last >= poll.generation /\ OnlyNewest(r)
    BY <2>1, <2>2, ReceivedPlays
  <2>4. player' = NextPlayed(r)
    BY <2>2 DEF ReceiveAudio
  <2>5. Playable(player') /\ player'.last = r.last /\ OnlyNewest(player')
    <3>1. Playable(NextPlayed(r)) /\ NextPlayed(r).last = r.last /\ OnlyNewest(NextPlayed(r))
      BY <2>3, NextPlays
    <3> QED BY <2>4, <3>1
  <2>6. s = player'.last
    <3>1. CASE s \in ToSet(player'.pending)
      <4>1. \E i \in 1..Len(player'.pending) : s = player'.pending[i]
        BY <2>5, <3>1 DEF ToSet, Playable
      <4> QED BY <2>5, <4>1 DEF OnlyNewest
    <3>2. CASE s \in {player'.current} \ {NoAudio}
      BY <2>5, <3>2 DEF OnlyNewest
    <3> QED BY <3>1, <3>2
  <2> QED BY <2>3, <2>5, <2>6
<1> QED BY <1>1, VoiceKept, PTL DEF SSpec, AnswerSilencesOlder

-----------------------------------------------------------------------------
(* The mouse: one actor at a time has its turn, and how far it has got says how
   interpreter, bridge and button differ. *)

InterpreterFields == {"on", "previous", "armed", "dragging", "fists", "palms"}

InterpreterIs(i) ==
  /\ DOMAIN i = InterpreterFields /\ i.on \in BOOLEAN /\ i.dragging \in BOOLEAN
  /\ i.dragging = TRUE => i.on = TRUE

(* What the hand may do at once: move or scroll, then press or release. *)
MotionEvents == {<< >>, <<"move">>, <<"scroll">>}
ButtonEvents == {<< >>, <<"drag_start">>, <<"drag_end">>, <<"click">>}

Inputs == Events \ {"resume", "pause"}

MayBeInputs(todo) ==
  todo \in Seq(Inputs) /\ \A k \in 1..Len(todo) - 1 : todo[k] \in {"move", "scroll"}

(* The button once those events are acted on. *)
After(event, b) ==
  IF event = "drag_start" THEN "down" ELSE IF event \in {"drag_end", "click"} THEN "up" ELSE b
Held(todo, b) == IF todo = << >> THEN b ELSE After(todo[Len(todo)], b)

(* What an interpretation of a sample gives. *)
Gives(i, o) ==
  \/ o.events = <<"resume">> /\ i.on = FALSE /\ o.state.on = TRUE /\ o.state.dragging = FALSE
  \/ o.events = <<"pause">> /\ i.on = TRUE /\ o.state.on = FALSE /\ o.state.dragging = FALSE
  \/ o.events = << >> /\ o.state.on = i.on /\ o.state.dragging = i.dragging
  \/ /\ i.on = TRUE /\ o.state.on = TRUE
     /\ \E m \in MotionEvents, e \in ButtonEvents :
          /\ o.events = m \o e
          /\ o.state.dragging = IF e = <<"drag_start">> THEN TRUE ELSE IF e = << >> THEN i.dragging ELSE FALSE

LEMMA FreshIs ==
  ASSUME NEW on \in BOOLEAN
  PROVE  InterpreterIs(FreshInterpreter(on)) /\ FreshInterpreter(on).on = on /\ FreshInterpreter(on).dragging = FALSE
BY DEF InterpreterIs, FreshInterpreter, InterpreterFields

LEMMA PinchesAre ==
  ASSUME NEW i, InterpreterIs(i), NEW pose, NEW o \in Pinches(i, pose)
  PROVE  /\ DOMAIN o = {"state", "events"} /\ DOMAIN o.state = InterpreterFields /\ o.state.on = i.on
         /\ o.events \in ButtonEvents
         /\ o.state.dragging = IF o.events = <<"drag_start">> THEN TRUE
                               ELSE IF o.events = << >> THEN i.dragging ELSE FALSE
<1>1. DOMAIN i = InterpreterFields /\ i.on \in BOOLEAN /\ i.dragging \in BOOLEAN
  BY DEF InterpreterIs
<1>2. <<"drag_start">> # <<"drag_end">> /\ <<"drag_start">> # <<"click">> /\ <<"click">> # << >> /\ <<"drag_end">> # << >>
      /\ <<"drag_start">> # << >>
  OBVIOUS
(* Only the pinch, whether it is armed and whether it drags may change. *)
<1>3. ASSUME NEW s, DOMAIN s = InterpreterFields, s.on = i.on, NEW es \in ButtonEvents, o = Reading(s, es),
             s.dragging = IF es = <<"drag_start">> THEN TRUE ELSE IF es = << >> THEN i.dragging ELSE FALSE
      PROVE  /\ DOMAIN o = {"state", "events"} /\ DOMAIN o.state = InterpreterFields /\ o.state.on = i.on
             /\ o.events \in ButtonEvents
             /\ o.state.dragging = IF o.events = <<"drag_start">> THEN TRUE
                                   ELSE IF o.events = << >> THEN i.dragging ELSE FALSE
  BY <1>3 DEF Reading
<1>4. << >> \in ButtonEvents /\ <<"click">> \in ButtonEvents /\ <<"drag_start">> \in ButtonEvents /\ <<"drag_end">> \in ButtonEvents
  BY DEF ButtonEvents
<1>5. CASE \E armed : o = Reading([i EXCEPT !.armed = armed], << >>)
  <2>1. PICK armed : o = Reading([i EXCEPT !.armed = armed], << >>)
    BY <1>5
  <2>2. PICK s : s = [i EXCEPT !.armed = armed]
    OBVIOUS
  <2>3. DOMAIN s = InterpreterFields /\ s.on = i.on /\ s.dragging = i.dragging
    BY <1>1, <2>2 DEF InterpreterFields
  <2> QED BY <1>2, <1>3, <1>4, <2>1, <2>2, <2>3
<1>6. CASE i.dragging = TRUE /\ o = Reading([i EXCEPT !.dragging = FALSE, !.armed = FALSE], <<"drag_end">>)
  <2>1. PICK s : s = [i EXCEPT !.dragging = FALSE, !.armed = FALSE]
    OBVIOUS
  <2>2. DOMAIN s = InterpreterFields /\ s.on = i.on /\ s.dragging = FALSE
    BY <1>1, <2>1 DEF InterpreterFields
  <2> QED BY <1>2, <1>3, <1>4, <1>6, <2>1, <2>2
<1>7. CASE i.dragging = FALSE /\ o = Reading([i EXCEPT !.armed = FALSE], <<"click">>)
  <2>1. PICK s : s = [i EXCEPT !.armed = FALSE]
    OBVIOUS
  <2>2. DOMAIN s = InterpreterFields /\ s.on = i.on /\ s.dragging = FALSE
    BY <1>1, <1>7, <2>1 DEF InterpreterFields
  <2> QED BY <1>2, <1>3, <1>4, <1>7, <2>1, <2>2
<1>8. CASE o = Reading([i EXCEPT !.dragging = TRUE], <<"drag_start">>)
  <2>1. PICK s : s = [i EXCEPT !.dragging = TRUE]
    OBVIOUS
  <2>2. DOMAIN s = InterpreterFields /\ s.on = i.on /\ s.dragging = TRUE
    BY <1>1, <2>1 DEF InterpreterFields
  <2> QED BY <1>2, <1>3, <1>4, <1>8, <2>1, <2>2
<1>9. CASE o = Reading(i, << >>)
  BY <1>1, <1>2, <1>3, <1>4, <1>9
<1> QED BY <1>1, <1>5, <1>6, <1>7, <1>8, <1>9 DEF Pinches

(* The interpreter keeps itself whole and says what it did. *)
LEMMA Interprets ==
  ASSUME NEW i, InterpreterIs(i), NEW pose, NEW o \in Interpreted(i, pose)
  PROVE  InterpreterIs(o.state) /\ Gives(i, o)
<1>1. DOMAIN i = InterpreterFields /\ i.on \in BOOLEAN /\ i.dragging \in BOOLEAN /\ (i.dragging = TRUE => i.on = TRUE)
  BY DEF InterpreterIs
<1> DEFINE Mark == IF pose.pinch THEN "pinch" ELSE "open"
           awake == [i EXCEPT !.palms = 0]
           rested == [awake EXCEPT !.fists = 0]
<1>2. ASSUME NEW q, DOMAIN q = {"state", "events"}, DOMAIN q.state = InterpreterFields,
             o = [q EXCEPT !.state.previous = Mark]
      PROVE  o.events = q.events /\ DOMAIN o.state = InterpreterFields /\ o.state.on = q.state.on
             /\ o.state.dragging = q.state.dragging
  <2>1. PICK s : s = [q.state EXCEPT !.previous = Mark]
    OBVIOUS
  <2>2. o = [q EXCEPT !.state = s]
    BY <1>2, <2>1
  <2>3. o.state = s /\ o.events = q.events
    BY <1>2, <2>2
  <2>4. DOMAIN s = InterpreterFields /\ s.on = q.state.on /\ s.dragging = q.state.dragging
    BY <1>2, <2>1 DEF InterpreterFields
  <2> QED BY <2>3, <2>4
<1> HIDE DEF Mark
<1>3. <<"resume">> # << >> /\ <<"pause">> # << >>
  OBVIOUS
(* Nothing happens: a counter goes on. *)
<1>4. ASSUME NEW s, DOMAIN s = InterpreterFields, s.on = i.on, s.dragging = i.dragging,
             o = [Reading(s, << >>) EXCEPT !.state.previous = Mark]
      PROVE  InterpreterIs(o.state) /\ Gives(i, o)
  <2>1. PICK q : q = Reading(s, << >>)
    OBVIOUS
  <2>2. DOMAIN q = {"state", "events"} /\ q.state = s /\ q.events = << >>
    BY <2>1 DEF Reading
  <2>3. o.events = << >> /\ DOMAIN o.state = InterpreterFields /\ o.state.on = i.on /\ o.state.dragging = i.dragging
    BY <1>2, <1>4, <2>1, <2>2
  <2> QED BY <1>1, <2>3 DEF InterpreterIs, Gives
<1>5. CASE i.on = FALSE
  <2>1. CASE o = Reading(FreshInterpreter(TRUE), <<"resume">>)
    BY <1>5, <2>1, FreshIs DEF Reading, Gives
  <2>2. ASSUME NEW palms, o = [Reading([i EXCEPT !.palms = palms], << >>) EXCEPT !.state.previous = Mark]
        PROVE  InterpreterIs(o.state) /\ Gives(i, o)
    <3>1. PICK s : s = [i EXCEPT !.palms = palms]
      OBVIOUS
    <3>2. DOMAIN s = InterpreterFields /\ s.on = i.on /\ s.dragging = i.dragging
      BY <1>1, <3>1 DEF InterpreterFields
    <3> QED BY <1>4, <2>2, <3>1, <3>2
  <2>3. PICK w : w = WhileOff(i, pose)
    OBVIOUS
  <2>4. o = IF w.events \in {<<"resume">>, <<"pause">>} THEN w ELSE [w EXCEPT !.state.previous = Mark]
    BY <1>5, <2>3 DEF Interpreted, Mark
  <2>5. \/ w = Reading(FreshInterpreter(TRUE), <<"resume">>)
        \/ \E palms : w = Reading([i EXCEPT !.palms = palms], << >>)
    BY <2>3 DEF WhileOff
  <2>6. CASE w = Reading(FreshInterpreter(TRUE), <<"resume">>)
    <3>1. w.events = <<"resume">>
      BY <2>6 DEF Reading
    <3> QED BY <2>1, <2>4, <2>6, <3>1
  <2>7. CASE \E palms : w = Reading([i EXCEPT !.palms = palms], << >>)
    <3>1. w.events = << >>
      BY <2>7 DEF Reading
    <3> QED BY <1>3, <2>2, <2>4, <2>7, <3>1
  <2> QED BY <2>5, <2>6, <2>7
<1>6. CASE i.on = TRUE /\ pose.fingers = 0
  <2>1. CASE o = Reading(FreshInterpreter(FALSE), <<"pause">>)
    BY <1>6, <2>1, FreshIs DEF Reading, Gives
  <2>2. ASSUME NEW fists, o = [Reading([awake EXCEPT !.fists = fists], << >>) EXCEPT !.state.previous = Mark]
        PROVE  InterpreterIs(o.state) /\ Gives(i, o)
    <3>1. PICK w : w = awake
      OBVIOUS
    <3>2. PICK s : s = [w EXCEPT !.fists = fists]
      OBVIOUS
    <3>3. DOMAIN w = InterpreterFields /\ w.on = i.on /\ w.dragging = i.dragging
      BY <1>1, <3>1 DEF InterpreterFields
    <3>4. DOMAIN s = InterpreterFields /\ s.on = i.on /\ s.dragging = i.dragging
      BY <3>2, <3>3 DEF InterpreterFields
    <3> QED BY <1>4, <2>2, <3>1, <3>2, <3>4
  <2>3. PICK w : w = WithFist(awake)
    OBVIOUS
  <2>4. o = IF w.events \in {<<"resume">>, <<"pause">>} THEN w ELSE [w EXCEPT !.state.previous = Mark]
    BY <1>6, <2>3 DEF Interpreted, Mark
  <2>5. \/ w = Reading(FreshInterpreter(FALSE), <<"pause">>)
        \/ \E fists : w = Reading([awake EXCEPT !.fists = fists], << >>)
    BY <2>3 DEF WithFist
  <2>6. CASE w = Reading(FreshInterpreter(FALSE), <<"pause">>)
    <3>1. w.events = <<"pause">>
      BY <2>6 DEF Reading
    <3> QED BY <2>1, <2>4, <2>6, <3>1
  <2>7. CASE \E fists : w = Reading([awake EXCEPT !.fists = fists], << >>)
    <3>1. w.events = << >>
      BY <2>7 DEF Reading
    <3> QED BY <1>3, <2>2, <2>4, <2>7, <3>1
  <2> QED BY <2>5, <2>6, <2>7
<1>7. CASE i.on = TRUE /\ pose.fingers # 0
  <2>1. PICK m \in Motions(i, pose), p \in Pinches(rested, pose) :
          o = [Reading(p.state, m \o p.events) EXCEPT !.state.previous = Mark]
    BY <1>7 DEF Interpreted, Mark
  <2>2. m \in MotionEvents
    BY DEF Motions, MotionEvents
  <2>3. PICK w : w = awake
    OBVIOUS
  <2>4. PICK r : r = [w EXCEPT !.fists = 0]
    OBVIOUS
  <2>5. InterpreterIs(r) /\ r.on = TRUE /\ r.dragging = i.dragging
    BY <1>1, <1>7, <2>3, <2>4 DEF InterpreterIs, InterpreterFields
  <2>6. /\ DOMAIN p.state = InterpreterFields /\ p.state.on = TRUE /\ p.events \in ButtonEvents
        /\ p.state.dragging = IF p.events = <<"drag_start">> THEN TRUE ELSE IF p.events = << >> THEN i.dragging ELSE FALSE
    <3>1. p \in Pinches(r, pose)
      BY <2>3, <2>4
    <3>2. p.state.on = r.on /\ p.state.dragging = IF p.events = <<"drag_start">> THEN TRUE
                                                   ELSE IF p.events = << >> THEN r.dragging ELSE FALSE
      BY <2>5, <3>1, PinchesAre
    <3>3. DOMAIN p.state = InterpreterFields /\ p.events \in ButtonEvents
      BY <2>5, <3>1, PinchesAre
    <3> QED BY <2>5, <3>2, <3>3
  <2>7. PICK q : q = Reading(p.state, m \o p.events)
    OBVIOUS
  <2>8. DOMAIN q = {"state", "events"} /\ q.state = p.state /\ q.events = m \o p.events
    BY <2>7 DEF Reading
  <2>9. o.events = m \o p.events /\ DOMAIN o.state = InterpreterFields /\ o.state.on = TRUE
        /\ o.state.dragging = p.state.dragging
    BY <1>2, <2>1, <2>6, <2>7, <2>8
  <2> QED BY <1>1, <1>7, <2>2, <2>6, <2>9 DEF InterpreterIs, Gives
<1> QED BY <1>1, <1>5, <1>6, <1>7

(* Sequences of events: what is acted on one by one ends where all of it does. *)
LEMMA MotionThenButton ==
  ASSUME NEW m \in MotionEvents, NEW e \in ButtonEvents, NEW b
  PROVE  MayBeInputs(m \o e) /\ Held(m \o e, b) = IF e = << >> THEN b ELSE After(e[1], b)
<1>3. ASSUME NEW x \in Inputs
      PROVE  <<x>> \in Seq(Inputs) /\ Len(<<x>>) = 1 /\ <<x>>[1] = x /\ <<x>> # << >>
  OBVIOUS
<1>4. << >> \in Seq(Inputs) /\ Len(<< >>) = 0
  OBVIOUS
<1>5. e = << >> \/ \E x \in Inputs : e = <<x>>
  BY DEF ButtonEvents, Inputs, Events
<1>6. m = << >> \/ \E x \in Inputs : m = <<x>> /\ x \in {"move", "scroll"}
  BY DEF MotionEvents, Inputs, Events
<1>7. e \in Seq(Inputs) /\ Len(e) \in {0, 1} /\ (e = << >> <=> Len(e) = 0)
  <2>1. CASE e = << >>
    BY <1>4, <2>1
  <2>2. CASE e # << >>
    <3>1. PICK x \in Inputs : e = <<x>>
      BY <1>5, <2>2
    <3> QED BY <1>3, <2>2, <3>1
  <2> QED BY <2>1, <2>2
<1>1. CASE m = << >>
  <2>1. m \o e = e
    BY <1>1, <1>7, ConcatEmptySeq
  <2>2. MayBeInputs(e)
    <3>1. \A k \in 1..Len(e) - 1 : e[k] \in {"move", "scroll"}
      <4>1. Len(e) - 1 \in {-1, 0}
        BY <1>7
      <4>2. ASSUME NEW k \in 1..Len(e) - 1 PROVE FALSE
        BY <4>1
      <4> QED BY <4>2
    <3> QED BY <1>7, <3>1 DEF MayBeInputs
  <2>3. e # << >> => Len(e) = 1
    BY <1>7
  <2> QED BY <2>1, <2>2, <2>3 DEF Held
<1>2. CASE m # << >>
  <2>1. Len(m) = 1 /\ m[1] \in {"move", "scroll"} /\ m \in Seq(Inputs) /\ e \in Seq(Inputs) /\ Len(e) \in {0, 1} /\ (e = << >> <=> Len(e) = 0)
    BY <1>2, <1>3, <1>6, <1>7
  <2>2. /\ m \o e \in Seq(Inputs) /\ Len(m \o e) = 1 + Len(e)
        /\ \A k \in 1..1 + Len(e) : (m \o e)[k] = IF k <= 1 THEN m[k] ELSE e[k - 1]
    BY <2>1, ConcatProperties
  <2>3. (m \o e)[1] = m[1] /\ m \o e # << >>
    BY <2>1, <2>2
  <2>4. Held(m \o e, b) = After((m \o e)[Len(m \o e)], b)
    BY <2>3 DEF Held
  <2>5. CASE e = << >>
    <3>1. (m \o e)[Len(m \o e)] = m[1]
      BY <2>1, <2>2, <2>3, <2>5
    <3>2. After(m[1], b) = b
      BY <2>1 DEF After
    <3> QED BY <2>1, <2>2, <2>4, <2>5, <3>1, <3>2 DEF MayBeInputs
  <2>6. CASE e # << >>
    <3>1. Len(e) = 1 /\ Len(m \o e) = 2 /\ (m \o e)[2] = e[1]
      BY <2>1, <2>2, <2>6
    <3> QED BY <2>1, <2>2, <2>3, <2>4, <2>6, <3>1 DEF MayBeInputs
  <2> QED BY <2>5, <2>6
<1> QED BY <1>1, <1>2

LEMMA NextInput ==
  ASSUME NEW todo, MayBeInputs(todo), todo # << >>, NEW b
  PROVE  /\ MayBeInputs(Tail(todo)) /\ Head(todo) \in Inputs
         /\ Held(Tail(todo), After(Head(todo), b)) = Held(todo, b)
<1>1. /\ todo \in Seq(Inputs) /\ Len(todo) \in Nat \ {0} /\ Head(todo) = todo[1] /\ Head(todo) \in Inputs
      /\ Tail(todo) \in Seq(Inputs) /\ Len(Tail(todo)) = Len(todo) - 1
      /\ \A k \in 1..Len(Tail(todo)) : Tail(todo)[k] = todo[k + 1]
  BY HeadTailProperties, EmptySeq DEF MayBeInputs
<1>2. MayBeInputs(Tail(todo))
  <2>1. ASSUME NEW k \in 1..Len(Tail(todo)) - 1 PROVE Tail(todo)[k] \in {"move", "scroll"}
    <3>1. k \in 1..Len(Tail(todo)) /\ k + 1 \in 1..Len(todo) - 1
      BY <1>1
    <3> QED BY <1>1, <3>1 DEF MayBeInputs
  <2> QED BY <1>1, <2>1 DEF MayBeInputs
<1>3. Held(Tail(todo), After(Head(todo), b)) = Held(todo, b)
  <2>1. CASE Tail(todo) = << >>
    <3>1. Len(todo) = 1
      BY <1>1, <2>1, EmptySeq
    <3> QED BY <1>1, <2>1, <3>1 DEF Held
  <2>2. CASE Tail(todo) # << >>
    <3>1. Len(Tail(todo)) \in Nat \ {0}
      BY <1>1, <2>2, EmptySeq
    <3>2. Tail(todo)[Len(Tail(todo))] = todo[Len(todo)] /\ 1 \in 1..Len(todo) - 1
      BY <1>1, <3>1
    <3>3. todo[1] \in {"move", "scroll"}
      BY <3>2 DEF MayBeInputs
    <3>4. After(Head(todo), b) = b
      BY <1>1, <3>3 DEF After
    <3> QED BY <2>2, <3>2, <3>4 DEF Held
  <2> QED BY <2>1, <2>2
<1> QED BY <1>1, <1>2, <1>3

(* The invariant. *)
Gentle == ~env.overlaps /\ ~env.corners

Agree ==
  /\ interp.on = bridgeOn
  /\ (button = "down") = interp.dragging

Still(a) ==
  \A b \in Actors \ {a} : off[b] = "no" /\ (b \in Handlers => handler[b] = HandlerIdle)

Rests(a) ==
  /\ off[a] = "no" /\ (a \in Handlers => handler[a] = HandlerIdle)
  /\ Agree /\ (serving = TRUE \/ interp.on = FALSE)

Handles(h) ==
  /\ h \in Handlers /\ serving = TRUE /\ off[h] = "no" /\ DOMAIN handler[h] = {"pc", "todo"}
  /\ LET pc == handler[h].pc  todo == handler[h].todo IN
       \/ pc = "dispatch" /\ todo = <<"resume">> /\ interp.on = TRUE /\ interp.dragging = FALSE /\ button = "up"
       \/ pc = "dispatch" /\ todo = <<"pause">> /\ interp.on = FALSE
       \/ pc = "release" /\ todo = <<"pause">> /\ interp.on = FALSE /\ bridgeOn = FALSE
       \/ /\ pc \in {"dispatch", "act"} /\ MayBeInputs(todo)
          /\ interp.on = bridgeOn /\ (todo # << >> => bridgeOn = TRUE) /\ (pc = "act" => todo # << >>)
          /\ (Held(todo, button) = "down") = interp.dragging

SwitchesOff(a) ==
  /\ off[a] \in {"interpreter", "bridge", "button"}
  /\ a \in Handlers => handler[a] = [pc |-> "off"]
  /\ off[a] \in {"bridge", "button"} => interp.on = FALSE
  /\ off[a] = "button" => bridgeOn = FALSE
  /\ serving = TRUE \/ a = Owner

Turn(a) ==
  /\ Still(a)
  /\ \/ Rests(a) \/ Handles(a) \/ SwitchesOff(a)
     \/ /\ a \in Handlers /\ serving = TRUE /\ off[a] = "no"
        /\ DOMAIN handler[a] = {"pc", "pose"} /\ handler[a].pc = "interpret" /\ Agree

HandsTypes ==
  /\ corner = FALSE /\ button \in {"up", "down"} /\ {bridgeOn, serving} \subseteq BOOLEAN
  /\ InterpreterIs(interp)
  /\ DOMAIN handler = Handlers /\ DOMAIN off = Actors

MouseInv == Gentle => HandsTypes /\ \E a \in Actors : Turn(a)

LEMMA MouseStart == ASSUME HInit PROVE MouseInv
<1> SUFFICES ASSUME Gentle PROVE HandsTypes /\ Turn(Dog)
  BY DEF MouseInv, Actors
<1>1. interp.on = TRUE /\ interp.dragging = FALSE /\ InterpreterIs(interp)
  BY FreshIs DEF HInit
<1>2. HandsTypes
  BY <1>1 DEF HInit, HandsTypes
<1>3. Still(Dog) /\ Rests(Dog)
  BY <1>1 DEF HInit, Still, Rests, Agree, Actors
<1> QED BY <1>2, <1>3 DEF Turn

(* Only the actor whose turn it is does anything. *)
LEMMA OthersAreStill ==
  ASSUME HandsTypes, NEW a \in Actors, Still(a), NEW b \in Actors,
         DOMAIN handler' = DOMAIN handler, DOMAIN off' = DOMAIN off,
         \A c \in Actors \ {a} : off'[c] = off[c] /\ (c \in Handlers => handler'[c] = handler[c])
  PROVE  Still(a)'
BY DEF Still

LEMMA AllRest ==
  ASSUME HandsQuiet, NEW a \in Actors, Turn(a), NEW b \in Actors PROVE Still(b) /\ Rests(b)
<1>1. \A c \in Actors : off[c] = "no" /\ (c \in Handlers => handler[c] = HandlerIdle)
  BY DEF HandsQuiet, AllIdle
<1>2. HandlerIdle.pc = "idle" /\ DOMAIN HandlerIdle = {"pc"}
  BY DEF HandlerIdle
<1>3. Agree /\ (serving = TRUE \/ interp.on = FALSE)
  <2>1. CASE Rests(a)
    BY <2>1 DEF Rests
  <2>2. ~Handles(a) /\ ~SwitchesOff(a)
    BY <1>1, <1>2 DEF Handles, SwitchesOff
  <2>3. a \in Handlers => handler[a].pc = "idle"
    BY <1>1, <1>2
  <2> QED BY <2>1, <2>2, <2>3 DEF Turn
<1> QED BY <1>1, <1>3 DEF Still, Rests

(* Switching off, by whichever actor. *)
LEMMA OffKept ==
  ASSUME HandsTypes, NEW a \in Actors, Turn(a), NEW b \in Actors, OffStep(b)
  PROVE  HandsTypes' /\ Turn(b)'
<1>1. off[b] \in {"interpreter", "bridge", "button"}
  BY DEF OffStep, OffInterpreter, OffBridge, OffButton
<1>2. a = b
  BY <1>1 DEF Turn, Still
<1>3. /\ Still(a) /\ SwitchesOff(a) /\ DOMAIN handler = Handlers /\ DOMAIN off = Actors /\ corner = FALSE
      /\ InterpreterIs(interp)
  BY <1>1, <1>2 DEF Turn, Rests, Handles, HandsTypes
<1>4. CASE OffInterpreter(a)
  <2>1. /\ interp' = FreshInterpreter(FALSE) /\ off' = [off EXCEPT ![a] = "bridge"]
        /\ UNCHANGED <<bridgeOn, button, corner, handler, serving>>
    BY <1>4 DEF OffInterpreter
  <2>2. HandsTypes'
    BY <1>3, <2>1, FreshIs DEF HandsTypes, InterpreterIs
  <2>3. Still(a)'
    BY <1>3, <2>1 DEF Still
  <2>4. SwitchesOff(a)'
    BY <1>3, <2>1, FreshIs DEF SwitchesOff
  <2> QED BY <1>2, <2>2, <2>3, <2>4 DEF Turn
<1>5. CASE OffBridge(a)
  <2>1. /\ bridgeOn' = FALSE /\ off' = [off EXCEPT ![a] = "button"] /\ off[a] = "bridge"
        /\ UNCHANGED <<interp, button, corner, handler, serving>>
    BY <1>5 DEF OffBridge
  <2>2. HandsTypes'
    BY <1>3, <2>1 DEF HandsTypes, InterpreterIs
  <2>3. Still(a)'
    BY <1>3, <2>1 DEF Still
  <2>4. SwitchesOff(a)'
    BY <1>3, <2>1 DEF SwitchesOff
  <2> QED BY <1>2, <2>2, <2>3, <2>4 DEF Turn
<1>6. CASE OffButton(a)
  <2>1. /\ button' = "up" /\ off' = [off EXCEPT ![a] = "no"] /\ off[a] = "button"
        /\ handler' = IF a \in Handlers THEN [handler EXCEPT ![a] = HandlerIdle] ELSE handler
        /\ UNCHANGED <<interp, bridgeOn, corner, serving>>
    BY <1>3, <1>6 DEF OffButton, ReleaseButton
  <2>2. HandsTypes'
    BY <1>3, <2>1 DEF HandsTypes, InterpreterIs
  <2>3. Still(a)'
    BY <1>3, <2>1 DEF Still
  <2>4. interp.on = FALSE /\ bridgeOn = FALSE /\ interp.dragging = FALSE
    BY <1>3, <2>1 DEF SwitchesOff, InterpreterIs
  <2>5. Rests(a)'
    BY <1>3, <2>1, <2>4 DEF Rests, Agree
  <2> QED BY <1>2, <2>2, <2>3, <2>5 DEF Turn
<1> QED BY <1>2, <1>4, <1>5, <1>6 DEF OffStep

(* Whoever begins, begins when all rest. *)
LEMMA BeginsKept ==
  ASSUME HandsTypes, Gentle, NEW a \in Actors, Turn(a), MayBegin, NEW b \in Actors,
         UNCHANGED <<interp, bridgeOn, button, corner>>,
         serving' = serving \/ (serving' = FALSE /\ b = Owner),
         \/ /\ serving = TRUE /\ off' = [off EXCEPT ![b] = "interpreter"]
            /\ handler' = IF b \in Handlers THEN [handler EXCEPT ![b] = [pc |-> "off"]] ELSE handler
         \/ /\ b \in Handlers /\ UNCHANGED <<off, serving>> /\ serving = TRUE
            /\ \E pose : handler' = [handler EXCEPT ![b] = [pc |-> "interpret", pose |-> pose]]
  PROVE  HandsTypes' /\ Turn(b)'
<1>1. HandsQuiet
  BY DEF MayBegin, Gentle
<1>2. Still(b) /\ Rests(b)
  BY <1>1, AllRest
<1>3. DOMAIN handler = Handlers /\ DOMAIN off = Actors
  BY DEF HandsTypes
<1>4. HandsTypes'
  BY DEF HandsTypes, InterpreterIs
<1>5. Still(b)'
  BY <1>2, <1>3 DEF Still
<1>6. CASE serving = TRUE /\ off' = [off EXCEPT ![b] = "interpreter"]
           /\ handler' = IF b \in Handlers THEN [handler EXCEPT ![b] = [pc |-> "off"]] ELSE handler
  <2>1. SwitchesOff(b)'
    BY <1>3, <1>6 DEF SwitchesOff
  <2> QED BY <1>4, <1>5, <2>1 DEF Turn
<1>7. ASSUME b \in Handlers, UNCHANGED <<off, serving>>, serving = TRUE,
             NEW pose, handler' = [handler EXCEPT ![b] = [pc |-> "interpret", pose |-> pose]]
      PROVE  HandsTypes' /\ Turn(b)'
  <2>1. DOMAIN handler'[b] = {"pc", "pose"} /\ handler'[b].pc = "interpret"
    BY <1>3, <1>7
  <2>2. Agree' /\ off'[b] = "no" /\ serving' = TRUE
    BY <1>2, <1>7 DEF Rests, Agree
  <2> QED BY <1>4, <1>5, <1>7, <2>1, <2>2 DEF Turn
<1> QED BY <1>6, <1>7

(* A handler that goes on to do its list. *)
LEMMA HandlerGoes ==
  ASSUME HandsTypes, NEW h \in Handlers, Still(h), off[h] = "no", serving = TRUE, NEW pc, NEW todo, NEW d,
         DOMAIN d = {"pc", "todo"}, d.pc = pc, d.todo = todo,
         handler' = [handler EXCEPT ![h] = d], UNCHANGED <<off, serving, corner>>,
         bridgeOn' \in BOOLEAN, button' \in {"up", "down"}, InterpreterIs(interp)',
         \/ pc = "dispatch" /\ todo = <<"resume">> /\ interp'.on = TRUE /\ interp'.dragging = FALSE /\ button' = "up"
         \/ pc = "dispatch" /\ todo = <<"pause">> /\ interp'.on = FALSE
         \/ pc = "release" /\ todo = <<"pause">> /\ interp'.on = FALSE /\ bridgeOn' = FALSE
         \/ /\ pc \in {"dispatch", "act"} /\ MayBeInputs(todo)
            /\ interp'.on = bridgeOn' /\ (todo # << >> => bridgeOn' = TRUE) /\ (pc = "act" => todo # << >>)
            /\ (Held(todo, button') = "down") = interp'.dragging
  PROVE  HandsTypes' /\ Turn(h)'
<1>1. DOMAIN handler = Handlers /\ DOMAIN off = Actors /\ h \in Actors
  BY DEF HandsTypes, Actors
<1>2. HandsTypes'
  BY <1>1 DEF HandsTypes
<1>3. Still(h)'
  BY <1>1 DEF Still
<1>4. handler'[h] = d /\ off'[h] = "no" /\ serving' = TRUE
  BY <1>1
<1>5. Handles(h)'
  BY <1>4 DEF Handles
<1> QED BY <1>2, <1>3, <1>5 DEF Turn

LEMMA NothingLeft ==
  ASSUME NEW b
  PROVE  MayBeInputs(<< >>) /\ Held(<< >>, b) = b /\ ~MayBeInputs(<<"resume">>) /\ ~MayBeInputs(<<"pause">>)
         /\ Tail(<<"resume">>) = << >> /\ Tail(<<"pause">>) = << >> /\ <<"resume">> # << >> /\ <<"pause">> # << >>
<1>1. << >> \in Seq(Inputs) /\ Len(<< >>) = 0
  OBVIOUS
<1>2. MayBeInputs(<< >>) /\ Held(<< >>, b) = b
  BY <1>1 DEF MayBeInputs, Held
<1>3. <<"resume">>[1] = "resume" /\ <<"pause">>[1] = "pause" /\ Len(<<"resume">>) = 1 /\ Len(<<"pause">>) = 1
  OBVIOUS
<1>4. "resume" \notin Inputs /\ "pause" \notin Inputs
  BY DEF Inputs
<1>5. ~MayBeInputs(<<"resume">>) /\ ~MayBeInputs(<<"pause">>)
  <2>1. ASSUME NEW x, x \notin Inputs, Len(<<x>>) = 1, <<x>>[1] = x PROVE <<x>> \notin Seq(Inputs)
    BY <2>1, ElementOfSeq
  <2> QED BY <1>3, <1>4, <2>1 DEF MayBeInputs
<1>6. Tail(<<"resume">>) = << >> /\ Tail(<<"pause">>) = << >> /\ <<"resume">> # << >> /\ <<"pause">> # << >>
  OBVIOUS
<1> QED BY <1>2, <1>5, <1>6

LEMMA HandlerKept ==
  ASSUME HandsTypes, Gentle, NEW a \in Actors, Turn(a), NEW h \in Handlers, HandlerStep(h)
  PROVE  HandsTypes' /\ Turn(h)'
<1>1. handler[h].pc \in {"interpret", "dispatch", "release", "act"}
  BY DEF HandlerStep, InterpretSample, DispatchResume, DispatchPause, ReleaseOnPause, DispatchInput, Act, ActFails,
     AnswerSample, Ready
<1>2. a = h
  <2>1. HandlerIdle.pc = "idle" /\ h \in Actors
    BY DEF HandlerIdle, Actors
  <2> QED BY <1>1, <2>1 DEF Turn, Still
<1>3. /\ Still(h) /\ ~Rests(h) /\ ~SwitchesOff(h) /\ corner = FALSE /\ InterpreterIs(interp)
      /\ DOMAIN handler = Handlers /\ DOMAIN off = Actors /\ h \in Actors /\ bridgeOn \in BOOLEAN
      /\ button \in {"up", "down"} /\ interp.on \in BOOLEAN /\ interp.dragging \in BOOLEAN
      /\ (interp.dragging = TRUE => interp.on = TRUE)
  <2>1. HandlerIdle.pc = "idle" /\ [pc |-> "off"].pc = "off"
    BY DEF HandlerIdle
  <2>2. ~Rests(h) /\ ~SwitchesOff(h)
    BY <1>1, <2>1 DEF Rests, SwitchesOff
  <2> QED BY <1>2, <2>2 DEF Turn, HandsTypes, InterpreterIs, Actors
<1>4. off[h] = "no" /\ serving = TRUE
  BY <1>2, <1>3 DEF Turn, Handles
<1> DEFINE todo == handler[h].todo
<1>5. handler[h].pc # "interpret" =>
        /\ DOMAIN handler[h] = {"pc", "todo"}
        /\ \/ handler[h].pc = "dispatch" /\ todo = <<"resume">> /\ interp.on = TRUE /\ interp.dragging = FALSE /\ button = "up"
           \/ handler[h].pc = "dispatch" /\ todo = <<"pause">> /\ interp.on = FALSE
           \/ handler[h].pc = "release" /\ todo = <<"pause">> /\ interp.on = FALSE /\ bridgeOn = FALSE
           \/ /\ handler[h].pc \in {"dispatch", "act"} /\ MayBeInputs(todo)
              /\ interp.on = bridgeOn /\ (todo # << >> => bridgeOn = TRUE) /\ (handler[h].pc = "act" => todo # << >>)
              /\ (Held(todo, button) = "down") = interp.dragging
  BY <1>2, <1>3 DEF Turn, Handles
<1>6. CASE InterpretSample(h)
  <2>1. Agree
    BY <1>2, <1>3, <1>6 DEF Turn, Handles, InterpretSample
  <2>2. PICK o \in Interpreted(interp, handler[h].pose) :
          interp' = o.state /\ handler' = [handler EXCEPT ![h] = [pc |-> "dispatch", todo |-> o.events]]
    BY <1>6 DEF InterpretSample
  <2>3. UNCHANGED <<off, serving, corner, bridgeOn, button>>
    BY <1>6 DEF InterpretSample
  <2>4. InterpreterIs(o.state) /\ Gives(interp, o)
    BY <1>3, Interprets
  <2>5. InterpreterIs(interp)'
    BY <2>2, <2>4 DEF InterpreterIs
  <2>6. PICK d : d = [pc |-> "dispatch", todo |-> o.events]
    OBVIOUS
  <2>7. DOMAIN d = {"pc", "todo"} /\ d.pc = "dispatch" /\ d.todo = o.events
    BY <2>6
  <2>8. \/ o.events = <<"resume">> /\ interp'.on = TRUE /\ interp'.dragging = FALSE /\ button' = "up"
        \/ o.events = <<"pause">> /\ interp'.on = FALSE
        \/ /\ MayBeInputs(o.events) /\ interp'.on = bridgeOn' /\ (o.events # << >> => bridgeOn' = TRUE)
           /\ (Held(o.events, button') = "down") = interp'.dragging
    <3>1. CASE o.events = <<"resume">> /\ interp.on = FALSE /\ o.state.on = TRUE /\ o.state.dragging = FALSE
      <4>1. button = "up"
        BY <1>3, <2>1, <3>1 DEF Agree
      <4> QED BY <2>2, <2>3, <3>1, <4>1
    <3>2. CASE o.events = <<"pause">> /\ interp.on = TRUE /\ o.state.on = FALSE /\ o.state.dragging = FALSE
      BY <2>2, <3>2
    <3>3. CASE o.events = << >> /\ o.state.on = interp.on /\ o.state.dragging = interp.dragging
      BY <2>1, <2>2, <2>3, <3>3, NothingLeft DEF Agree
    <3>4. CASE /\ interp.on = TRUE /\ o.state.on = TRUE
               /\ \E m \in MotionEvents, e \in ButtonEvents :
                    /\ o.events = m \o e
                    /\ o.state.dragging = IF e = <<"drag_start">> THEN TRUE ELSE IF e = << >> THEN interp.dragging ELSE FALSE
      <4>1. PICK m \in MotionEvents, e \in ButtonEvents :
                    /\ o.events = m \o e
                    /\ o.state.dragging = IF e = <<"drag_start">> THEN TRUE ELSE IF e = << >> THEN interp.dragging ELSE FALSE
        BY <3>4
      <4>2. MayBeInputs(o.events) /\ Held(o.events, button) = IF e = << >> THEN button ELSE After(e[1], button)
        BY <4>1, MotionThenButton
      <4>3. bridgeOn = TRUE
        BY <2>1, <3>4 DEF Agree
      <4>4. (Held(o.events, button) = "down") = o.state.dragging
        <5>1. CASE e = << >>
          BY <2>1, <4>1, <4>2, <5>1 DEF Agree
        <5>2. CASE e = <<"drag_start">>
          <6>1. e # << >> /\ e[1] = "drag_start"
            BY <5>2
          <6> QED BY <4>1, <4>2, <5>2, <6>1 DEF After
        <5>3. CASE e \in {<<"drag_end">>, <<"click">>}
          <6>1. e # << >> /\ e[1] \in {"drag_end", "click"} /\ e # <<"drag_start">>
            BY <5>3
          <6> QED BY <4>1, <4>2, <6>1 DEF After
        <5> QED BY <5>1, <5>2, <5>3 DEF ButtonEvents
      <4> QED BY <2>2, <2>3, <3>4, <4>2, <4>3, <4>4
    <3> QED BY <2>4, <3>1, <3>2, <3>3, <3>4 DEF Gives
  <2>9. handler' = [handler EXCEPT ![h] = d] /\ bridgeOn' \in BOOLEAN /\ button' \in {"up", "down"}
        /\ UNCHANGED <<off, serving, corner>>
    BY <1>3, <2>2, <2>3, <2>6
  <2> HIDE DEF todo
  <2> QED BY <1>3, <1>4, <2>5, <2>7, <2>8, <2>9, HandlerGoes
<1>7. CASE DispatchResume(h)
  <2>1. handler[h].pc = "dispatch" /\ todo # << >> /\ Head(todo) = "resume" /\ bridgeOn' = TRUE
        /\ handler' = [handler EXCEPT ![h] = [pc |-> "dispatch", todo |-> Tail(todo)]]
        /\ UNCHANGED <<interp, button, corner, off, serving>>
    BY <1>7 DEF DispatchResume, Ready, NextEvent
  <2>2. ~MayBeInputs(todo)
    BY <2>1, NextInput DEF Inputs
  <2>3. todo = <<"resume">> /\ interp.on = TRUE /\ interp.dragging = FALSE /\ button = "up"
    <3>1. Head(<<"pause">>) = "pause"
      OBVIOUS
    <3> QED BY <1>5, <2>1, <2>2, <3>1
  <2>4. Tail(todo) = << >>
    BY <2>3, NothingLeft
  <2>5. PICK d : d = [pc |-> "dispatch", todo |-> Tail(todo)]
    OBVIOUS
  <2>6. DOMAIN d = {"pc", "todo"} /\ d.pc = "dispatch" /\ d.todo = << >>
    BY <2>4, <2>5
  <2>7. InterpreterIs(interp)'
    BY <1>3, <2>1 DEF InterpreterIs
  <2> QED BY <1>3, <1>4, <2>1, <2>3, <2>5, <2>6, <2>7, HandlerGoes, NothingLeft
<1>8. CASE DispatchPause(h)
  <2>1. handler[h].pc = "dispatch" /\ todo # << >> /\ Head(todo) = "pause" /\ bridgeOn' = FALSE
        /\ handler' = [handler EXCEPT ![h].pc = "release"]
        /\ UNCHANGED <<interp, button, corner, off, serving>>
    BY <1>8 DEF DispatchPause, Ready
  <2>2. ~MayBeInputs(todo)
    BY <2>1, NextInput DEF Inputs
  <2>3. todo = <<"pause">> /\ interp.on = FALSE
    <3>1. Head(<<"resume">>) = "resume"
      OBVIOUS
    <3> QED BY <1>5, <2>1, <2>2, <3>1
  <2>4. PICK d : d = [handler[h] EXCEPT !.pc = "release"]
    OBVIOUS
  <2>5. DOMAIN d = {"pc", "todo"} /\ d.pc = "release" /\ d.todo = <<"pause">>
    BY <1>5, <2>1, <2>3, <2>4
  <2>6. InterpreterIs(interp)' /\ handler' = [handler EXCEPT ![h] = d]
    BY <1>3, <2>1, <2>4 DEF InterpreterIs
  <2> QED BY <1>3, <1>4, <2>1, <2>3, <2>5, <2>6, HandlerGoes
<1>9. CASE ReleaseOnPause(h)
  <2>1. handler[h].pc = "release" /\ button' = "up"
        /\ handler' = [handler EXCEPT ![h] = [pc |-> "dispatch", todo |-> Tail(todo)]]
        /\ UNCHANGED <<interp, bridgeOn, corner, off, serving>>
    BY <1>3, <1>9 DEF ReleaseOnPause, NextEvent, ReleaseButton
  <2>2. todo = <<"pause">> /\ interp.on = FALSE /\ bridgeOn = FALSE /\ interp.dragging = FALSE
    BY <1>3, <1>5, <2>1
  <2>3. PICK d : d = [pc |-> "dispatch", todo |-> Tail(todo)]
    OBVIOUS
  <2>4. DOMAIN d = {"pc", "todo"} /\ d.pc = "dispatch" /\ d.todo = << >>
    BY <2>2, <2>3, NothingLeft
  <2>5. InterpreterIs(interp)'
    BY <1>3, <2>1 DEF InterpreterIs
  <2>6. (Held(<< >>, "up") = "down") = FALSE
    BY NothingLeft
  <2> QED BY <1>3, <1>4, <2>1, <2>2, <2>3, <2>4, <2>5, <2>6, HandlerGoes, NothingLeft
<1>10. CASE DispatchInput(h)
  <2>1. handler[h].pc = "dispatch" /\ todo # << >> /\ Head(todo) \notin {"resume", "pause"}
        /\ UNCHANGED <<interp, bridgeOn, button, corner, off, serving>>
    BY <1>10 DEF DispatchInput, Ready
  <2>2. todo # <<"resume">> /\ todo # <<"pause">>
    <3>1. Head(<<"resume">>) = "resume" /\ Head(<<"pause">>) = "pause"
      OBVIOUS
    <3> QED BY <2>1, <3>1
  <2>3. MayBeInputs(todo) /\ interp.on = bridgeOn /\ bridgeOn = TRUE /\ (Held(todo, button) = "down") = interp.dragging
        /\ DOMAIN handler[h] = {"pc", "todo"}
    BY <1>5, <2>1, <2>2
  <2>4. handler' = [handler EXCEPT ![h].pc = "act"]
    BY <1>10, <2>3 DEF DispatchInput
  <2>5. PICK d : d = [handler[h] EXCEPT !.pc = "act"]
    OBVIOUS
  <2>6. DOMAIN d = {"pc", "todo"} /\ d.pc = "act" /\ d.todo = todo
    BY <2>3, <2>5
  <2>7. InterpreterIs(interp)' /\ handler' = [handler EXCEPT ![h] = d]
    BY <1>3, <2>1, <2>4, <2>5 DEF InterpreterIs
  <2> HIDE DEF todo
  <2>8. /\ interp'.on = bridgeOn' /\ bridgeOn' = TRUE /\ todo # << >> /\ (Held(todo, button') = "down") = interp'.dragging
        /\ bridgeOn' \in BOOLEAN /\ button' \in {"up", "down"} /\ UNCHANGED <<off, serving, corner>>
    BY <1>3, <2>1, <2>3
  <2> QED BY <1>3, <1>4, <2>3, <2>6, <2>7, <2>8, HandlerGoes
<1>11. CASE Act(h)
  <2>1. handler[h].pc = "act" /\ button' = After(Head(todo), button) /\ corner' = corner
        /\ handler' = [handler EXCEPT ![h] = [pc |-> "dispatch", todo |-> Tail(todo)]]
        /\ UNCHANGED <<interp, bridgeOn, off, serving>>
    <3>1. corner' \in IF Head(todo) = "move" /\ env.corners THEN BOOLEAN ELSE {corner}
      BY <1>11 DEF Act
    <3>2. ~env.corners
      BY DEF Gentle
    <3>3. button' = After(Head(todo), button)
      BY <1>11 DEF Act, After
    <3> QED BY <1>11, <3>1, <3>2, <3>3 DEF Act, NextEvent
  <2>2. MayBeInputs(todo) /\ interp.on = bridgeOn /\ todo # << >> /\ bridgeOn = TRUE
        /\ (Held(todo, button) = "down") = interp.dragging
    BY <1>5, <2>1
  <2>3. MayBeInputs(Tail(todo)) /\ Held(Tail(todo), button') = Held(todo, button)
    BY <2>1, <2>2, NextInput
  <2>4. PICK d : d = [pc |-> "dispatch", todo |-> Tail(todo)]
    OBVIOUS
  <2>5. DOMAIN d = {"pc", "todo"} /\ d.pc = "dispatch" /\ d.todo = Tail(todo)
    BY <2>4
  <2>6. InterpreterIs(interp)' /\ button' \in {"up", "down"}
    BY <1>3, <2>1 DEF InterpreterIs, After
  <2> HIDE DEF todo
  <2>7. /\ interp'.on = bridgeOn' /\ bridgeOn' = TRUE /\ (Held(Tail(todo), button') = "down") = interp'.dragging
        /\ handler' = [handler EXCEPT ![h] = d] /\ UNCHANGED <<off, serving, corner>>
    BY <2>1, <2>2, <2>3, <2>4
  <2> QED BY <1>3, <1>4, <2>3, <2>5, <2>6, <2>7, HandlerGoes
<1>12. ~ActFails(h)
  BY <1>3 DEF ActFails
<1>13. CASE AnswerSample(h)
  <2>1. handler[h].pc = "dispatch" /\ todo = << >> /\ handler' = [handler EXCEPT ![h] = HandlerIdle]
        /\ UNCHANGED <<interp, bridgeOn, button, corner, off, serving>>
    BY <1>13 DEF AnswerSample
  <2>2. interp.on = bridgeOn /\ (button = "down") = interp.dragging
    BY <1>5, <2>1, NothingLeft
  <2>3. HandsTypes'
    BY <1>3, <2>1 DEF HandsTypes, InterpreterIs
  <2>4. Still(h)'
    BY <1>3, <2>1 DEF Still
  <2>5. Rests(h)'
    BY <1>3, <1>4, <2>1, <2>2 DEF Rests, Agree
  <2> QED BY <2>3, <2>4, <2>5 DEF Turn
<1> QED BY <1>6, <1>7, <1>8, <1>9, <1>10, <1>11, <1>12, <1>13 DEF HandlerStep

LEMMA MouseKept == MouseInv /\ [HNext]_hvars => MouseInv'
<1> SUFFICES ASSUME MouseInv, [HNext]_hvars PROVE MouseInv'
  OBVIOUS
<1>0. UNCHANGED env
  <2>1. ASSUME NEW a \in Actors, OffStep(a) PROVE UNCHANGED env
    BY <2>1 DEF OffStep, OffInterpreter, OffBridge, OffButton
  <2>2. ASSUME NEW h \in Handlers, HandlerStep(h) PROVE UNCHANGED env
    BY <2>2 DEF HandlerStep, InterpretSample, DispatchResume, DispatchPause, ReleaseOnPause, DispatchInput, Act,
       ActFails, AnswerSample
  <2>3. ASSUME NEW h \in Handlers, PostSample(h) \/ PostStop(h) PROVE UNCHANGED env
    BY <2>3 DEF PostSample, PostStop
  <2>4. CASE ShowHand \/ ReloadPage \/ Lapse \/ Watch \/ ShutdownServer \/ StartServer
    BY <2>4 DEF ShowHand, ReloadPage, Lapse, Watch, ShutdownServer, StartServer
  <2>5. CASE HNext
    BY <2>1, <2>2, <2>3, <2>4, <2>5 DEF HNext
  <2> QED BY <2>5 DEF hvars
<1> SUFFICES ASSUME Gentle PROVE HandsTypes' /\ \E b \in Actors : Turn(b)'
  BY <1>0 DEF MouseInv, Gentle
<1>1. HandsTypes
  BY DEF MouseInv
<1>2. PICK a \in Actors : Turn(a)
  BY DEF MouseInv
<1>3. CASE \E b \in Actors : OffStep(b)
  BY <1>1, <1>2, <1>3, OffKept
<1>4. CASE \E h \in Handlers : HandlerStep(h)
  BY <1>1, <1>2, <1>4, HandlerKept DEF Actors
<1>5. ASSUME NEW h \in Handlers, PostSample(h) PROVE HandsTypes' /\ Turn(h)'
  <2>1. serving = TRUE /\ MayBegin /\ UNCHANGED <<interp, bridgeOn, button, corner, off, serving>> /\ h \in Actors
        /\ handler' = [handler EXCEPT ![h] = [pc |-> "interpret", pose |-> hand]]
    BY <1>1, <1>5 DEF PostSample, HandsTypes, Actors
  <2> QED BY <1>1, <1>2, <2>1, BeginsKept
<1>6. ASSUME NEW h \in Handlers, PostStop(h) PROVE HandsTypes' /\ Turn(h)'
  <2>1. serving = TRUE /\ MayBegin /\ UNCHANGED <<interp, bridgeOn, button, corner, serving>> /\ h \in Actors
        /\ handler' = [handler EXCEPT ![h] = [pc |-> "off"]] /\ off' = [off EXCEPT ![h] = "interpreter"]
    BY <1>1, <1>6 DEF PostStop, HandsTypes, Actors
  <2> QED BY <1>1, <1>2, <2>1, BeginsKept
<1>7. CASE Watch
  <2>1. serving = TRUE /\ MayBegin /\ UNCHANGED <<interp, bridgeOn, button, corner, serving, handler>>
        /\ off' = [off EXCEPT ![Dog] = "interpreter"] /\ Dog \in Actors /\ Dog \notin Handlers
    BY <1>1, <1>7, ActorsAssumption DEF Watch, HandsTypes, Actors
  <2> QED BY <1>1, <1>2, <2>1, BeginsKept
<1>8. CASE ShutdownServer
  <2>1. serving = TRUE /\ serving' = FALSE /\ MayBegin /\ UNCHANGED <<interp, bridgeOn, button, corner, handler>>
        /\ off' = [off EXCEPT ![Owner] = "interpreter"] /\ Owner \in Actors /\ Owner \notin Handlers
    BY <1>1, <1>8, ActorsAssumption DEF ShutdownServer, HandsTypes, Actors
  <2> QED BY <1>1, <1>2, <2>1, BeginsKept
<1>9. CASE StartServer
  <2>1. Still(Dog) /\ Rests(Dog) /\ Dog \in Actors
    BY <1>2, <1>9, AllRest DEF StartServer, Actors
  <2>2. serving = FALSE /\ serving' = TRUE /\ interp' = FreshInterpreter(TRUE) /\ bridgeOn' = TRUE
        /\ UNCHANGED <<button, corner, handler, off>>
    BY <1>1, <1>9 DEF StartServer, HandsTypes
  <2>3. button # "down" /\ interp'.on = TRUE /\ interp'.dragging = FALSE /\ InterpreterIs(interp')
    BY <1>1, <2>1, <2>2, FreshIs DEF Rests, Agree, HandsTypes, InterpreterIs
  <2>4. HandsTypes'
    BY <1>1, <2>2, <2>3 DEF HandsTypes, InterpreterIs
  <2>5. Still(Dog)' /\ Rests(Dog)'
    BY <2>1, <2>2, <2>3 DEF Still, Rests, Agree
  <2> QED BY <2>1, <2>4, <2>5 DEF Turn
<1>10. CASE ShowHand \/ ReloadPage \/ Lapse \/ UNCHANGED hvars
  <2>1. UNCHANGED <<interp, bridgeOn, button, corner, handler, off, serving>>
    BY <1>10 DEF ShowHand, ReloadPage, Lapse, hvars
  <2>2. HandsTypes'
    BY <1>1, <2>1 DEF HandsTypes, InterpreterIs
  <2>3. Turn(a)'
    BY <1>2, <2>1 DEF Turn, Still, Rests, Handles, SwitchesOff, Agree
  <2> QED BY <2>2, <2>3
<1> QED BY <1>3, <1>4, <1>5, <1>6, <1>7, <1>8, <1>9, <1>10 DEF HNext, Actors

(* While activities do not overlap and the pointer stays out of the corner, the
   button is down exactly while the interpreter drags whenever no request is
   under way, however many samples, stops, lapses, shutdowns and restarts came
   before, for any number of frames (hand_control_server.py). *)
THEOREM MouseAlwaysFollows == SSpec => []MouseFollowsInterpreter
<1>1. SInit => MouseInv
  BY MouseStart DEF SInit
<1>2. MouseInv /\ [Hands(HNext) \/ Voice(VNext) \/ Bridge(BridgeNext)]_svars => MouseInv'
  <2>1. [Hands(HNext) \/ Voice(VNext) \/ Bridge(BridgeNext)]_svars => [HNext]_hvars
    BY DEF Hands, Voice, Bridge, svars
  <2> QED BY <2>1, MouseKept
<1>3. MouseInv => MouseFollowsInterpreter
  <2> SUFFICES ASSUME MouseInv, HandsQuiet, Gentle
               PROVE  interp.on = bridgeOn /\ (button = "down") = interp.dragging /\ (interp.dragging => interp.on)
    BY DEF MouseFollowsInterpreter, Gentle
  <2>1. PICK a \in Actors : Turn(a)
    BY DEF MouseInv
  <2>2. Agree /\ InterpreterIs(interp)
    BY <2>1, AllRest DEF Rests, MouseInv, HandsTypes
  <2> QED BY <2>2 DEF Agree, InterpreterIs
<1> QED BY <1>1, <1>2, <1>3, PTL DEF SSpec

-----------------------------------------------------------------------------
(* The types of the voice's life *)

Sayings == [speaking : BOOLEAN, audio : BOOLEAN]

(* A mouth says something else, or none does. *)
LEMMA SayingsChange ==
  ASSUME voice \in [Mouths -> Sayings], inUse \in Mouths,
         \/ Speak \/ UNCHANGED voice \/ \E m \in Mouths : Silence(m)
         \/ \E m \in Mouths, b \in BOOLEAN : \/ voice' = [voice EXCEPT ![m].audio = b]
                                             \/ voice' = [voice EXCEPT ![m].speaking = b]
  PROVE  voice' \in [Mouths -> Sayings]
<1>1. Quiet \in Sayings
  BY DEF Quiet, Sayings
<1>2. ASSUME NEW m \in Mouths, NEW v \in Sayings, voice' = [voice EXCEPT ![m] = v]
      PROVE  voice' \in [Mouths -> Sayings]
  BY <1>2
<1>3. ASSUME NEW m \in Mouths, NEW b \in BOOLEAN
      PROVE  /\ [voice[m] EXCEPT !.audio = b] \in Sayings /\ [voice[m] EXCEPT !.speaking = b] \in Sayings
             /\ [speaking |-> TRUE, audio |-> voice[m].audio] \in Sayings
  <2>1. voice[m] \in Sayings
    OBVIOUS
  <2> QED BY <2>1 DEF Sayings
<1>4. CASE Speak
  <2>1. UNCHANGED voice \/ voice' = [voice EXCEPT ![inUse] = [speaking |-> TRUE, audio |-> voice[inUse].audio]]
    BY <1>4 DEF Speak, Utter, said
  <2> QED BY <1>2, <1>3, <2>1
<1>5. CASE \E m \in Mouths : Silence(m)
  BY <1>1, <1>2, <1>5 DEF Silence
<1>6. ASSUME NEW m \in Mouths, NEW b \in BOOLEAN,
             voice' = [voice EXCEPT ![m].audio = b] \/ voice' = [voice EXCEPT ![m].speaking = b]
      PROVE  voice' \in [Mouths -> Sayings]
  <2>1. \/ voice' = [voice EXCEPT ![m] = [voice[m] EXCEPT !.audio = b]]
        \/ voice' = [voice EXCEPT ![m] = [voice[m] EXCEPT !.speaking = b]]
    BY <1>6
  <2> QED BY <1>2, <1>3, <2>1
<1> QED BY <1>4, <1>5, <1>6

LEMMA BridgeTypesInitially == ASSUME BridgeInit PROVE BridgeTypeOK
<1>1. kokoro \in Mouths /\ inUse \in Mouths /\ choice \in Mouths
  BY DEF BridgeInit, Mouths
<1>2. voice \in [Mouths -> [speaking : BOOLEAN, audio : BOOLEAN]]
  <2>1. Quiet \in [speaking : BOOLEAN, audio : BOOLEAN]
    BY DEF Quiet
  <2>2. voice = [m \in Mouths |-> Quiet]
    BY DEF BridgeInit
  <2> QED BY <2>1, <2>2
<1>3. change \in [step : {"none", "stored", "selected"}, to : Mouths]
  BY <1>1 DEF BridgeInit, NoChange
<1>4. mic \in Machines /\ settings \in {"absent", "old", "stable"}
  BY DEF BridgeInit
<1>5. {stopSet, pressed, keyed} \subseteq BOOLEAN
  BY DEF BridgeInit
<1>6. stage = "begin" /\ ear = "none" /\ watch = "none" /\ trial = "none" /\ engine = "none" /\ warming = "none"
  BY DEF BridgeInit
<1> QED BY <1>1, <1>2, <1>3, <1>4, <1>5, <1>6 DEF BridgeTypeOK

LEMMA BridgeTypesKept == BridgeTypeOK /\ [BridgeNext]_bridgeVars => BridgeTypeOK'
<1> SUFFICES ASSUME BridgeTypeOK, [BridgeNext]_bridgeVars PROVE BridgeTypeOK'
  OBVIOUS
<1> DEFINE VoiceTyped == voice \in [Mouths -> Sayings]
           ThreadsTyped == /\ ear \in {"none", "begin", "listens", "records", "executes", "asks", "confirms",
                                       "agreed", "declined", "answers", "ended"}
                           /\ watch \in {"none", "waiting", "cuts", "ended"}
                           /\ stopSet \in BOOLEAN /\ pressed \in BOOLEAN
           StageTyped == /\ mic \in Machines /\ settings \in {"absent", "old", "stable"}
                         /\ stage \in {"begin", "load", "greet", "threads", "up", "failed", "joins", "off"}
           EngineTyped == engine \in {"none", "loading", "ready"} /\ warming \in {"none", "asked", "done"}
           TrialTyped == trial \in {"none", "runs", "done"}
           ChoiceTyped == /\ keyed \in BOOLEAN /\ inUse \in Mouths /\ choice \in Mouths
                          /\ change \in [step : {"none", "stored", "selected"}, to : Mouths]
<1>1. VoiceTyped /\ ThreadsTyped /\ StageTyped /\ EngineTyped /\ TrialTyped /\ ChoiceTyped
  BY DEF BridgeTypeOK, Sayings
<1>2. VoiceTyped' /\ ThreadsTyped' /\ StageTyped' /\ EngineTyped' /\ ChoiceTyped' => BridgeTypeOK'
  <2>1. trial' \in {trial, "none", "runs", "done"}
    BY DEF BridgeNext, bridgeVars, startVars, earVars, said, mouthVars, choiceVars, MainStep, MakeBridge, LoadComponents,
       Greet, StartThreads, BeginStop, EndStop, EarStep, EarGoes, Heard, Preflight, StopsHearing, HearsLive,
       RecordsBarge, HearsKey, Records, Executes, SpeaksNext, Confirms, KeyIsPressed, CutsSpeech, WatchGoes, MouthStep,
       BeginLoading, EndLoading, EndTest, Synthesize, EndSpeaking, ChangeStep, PageTakesAudio, SaveKey, TestElevenLabs,
       BeginTest, StoreChoice, SelectMouth, SetMouth, Swap, Speak, Utter, Silence, NewTurn
  <2> QED BY <1>1, <2>1 DEF BridgeTypeOK, Sayings
<1>3. Selected \in Mouths /\ Quiet \in Sayings /\ kokoro \in Mouths
  BY DEF Selected, Mouths, Quiet, Sayings
<1> USE DEF startVars, earVars, said, mouthVars, choiceVars
<1>4. CASE MainStep
  <2>1. StageTyped'
    BY <1>1, <1>4 DEF MainStep, MakeBridge, LoadComponents, Greet, StartThreads, BeginStop, EndStop, Migrated, Configured
  <2>2. ChoiceTyped'
    BY <1>1, <1>3, <1>4 DEF MainStep, MakeBridge, LoadComponents, Greet, StartThreads, BeginStop, EndStop
  <2>3. ThreadsTyped'
    BY <1>1, <1>4 DEF MainStep, MakeBridge, LoadComponents, Greet, StartThreads, BeginStop, EndStop
  <2>4. EngineTyped'
    BY <1>1, <1>4 DEF MainStep, MakeBridge, LoadComponents, Greet, StartThreads, BeginStop, EndStop
  <2>5. VoiceTyped'
    <3>1. CASE EndStop
      BY <1>3, <3>1 DEF EndStop
    <3>2. CASE ~EndStop
      <4>1. Speak \/ UNCHANGED voice \/ Silence(inUse)
        BY <1>4, <3>2 DEF MainStep, MakeBridge, LoadComponents, Greet, StartThreads, BeginStop
      <4> QED BY <1>1, <4>1, SayingsChange
    <3> QED BY <3>1, <3>2
  <2> QED BY <1>2, <2>1, <2>2, <2>3, <2>4, <2>5
<1>5. CASE EarStep
  <2>1. UNCHANGED <<startVars, stage, watch, choiceVars, inUse, engine, warming>>
    BY <1>5 DEF EarStep, EarGoes, Heard, Preflight, StopsHearing, HearsLive, RecordsBarge, HearsKey, Records,
       Executes, SpeaksNext, Confirms
  <2>2. StageTyped' /\ EngineTyped' /\ ChoiceTyped'
    BY <1>1, <2>1
  <2>3. ear' \in {"listens", "records", "executes", "asks", "confirms", "agreed", "declined", "answers", "ended"}
    BY <1>5 DEF EarStep, EarGoes, Heard, Preflight, StopsHearing, HearsLive, RecordsBarge, HearsKey, Records,
       Executes, SpeaksNext, Confirms, SaysWhat
  <2>4. stopSet' \in {stopSet, TRUE} /\ pressed' \in {pressed, FALSE}
    BY <1>5 DEF EarStep, Preflight, StopsHearing, HearsLive, RecordsBarge, HearsKey, Records,
       Executes, SpeaksNext, Confirms
  <2>5. ThreadsTyped'
    BY <1>1, <2>1, <2>3, <2>4
  <2>6. Speak \/ Silence(inUse) \/ UNCHANGED voice
    BY <1>5 DEF EarStep, Preflight, StopsHearing, HearsLive, RecordsBarge, HearsKey, Records,
       Executes, SpeaksNext, Confirms
  <2>7. VoiceTyped'
    BY <1>1, <2>6, SayingsChange
  <2> QED BY <1>2, <2>2, <2>5, <2>7
<1>6. CASE KeyIsPressed \/ CutsSpeech
  <2>1. UNCHANGED <<startVars, stage, ear, stopSet, choiceVars, inUse, engine, warming>>
    BY <1>6 DEF KeyIsPressed, CutsSpeech, WatchGoes
  <2>2. watch' \in {"waiting", "cuts", "ended"} /\ pressed' \in {pressed, TRUE}
    BY <1>6 DEF KeyIsPressed, CutsSpeech, WatchGoes
  <2>3. VoiceTyped'
    <3>1. Silence(inUse) \/ UNCHANGED voice
      BY <1>6 DEF KeyIsPressed, CutsSpeech
    <3> QED BY <1>1, <3>1, SayingsChange
  <2>4. ThreadsTyped'
    BY <1>1, <2>1, <2>2
  <2>5. StageTyped' /\ EngineTyped' /\ ChoiceTyped'
    BY <1>1, <2>1
  <2> QED BY <1>2, <2>3, <2>4, <2>5
<1>7. CASE MouthStep
  <2>1. UNCHANGED <<startVars, stage, earVars, stopSet, inUse, choiceVars>>
    BY <1>7 DEF MouthStep
  <2>2. EngineTyped'
    BY <1>1, <1>7 DEF MouthStep, BeginLoading, EndLoading, EndTest, Synthesize, EndSpeaking
  <2>3. VoiceTyped'
    <3>1. UNCHANGED voice \/ \E m \in Mouths, b \in BOOLEAN : \/ voice' = [voice EXCEPT ![m].audio = b]
                                                              \/ voice' = [voice EXCEPT ![m].speaking = b]
      BY <1>3, <1>7 DEF Mouths, MouthStep, BeginLoading, EndLoading, EndTest, Synthesize, EndSpeaking
    <3> QED BY <1>1, <3>1, SayingsChange
  <2> QED BY <1>1, <1>2, <2>1, <2>2, <2>3
<1>8. CASE ChangeStep
  <2>1. UNCHANGED <<startVars, stage, earVars, stopSet, engine, warming>>
    BY <1>8 DEF ChangeStep, PageTakesAudio, SaveKey, TestElevenLabs, StoreChoice, SelectMouth, SetMouth
  <2>2. ChoiceTyped'
    <3>1. CASE PageTakesAudio \/ SaveKey \/ TestElevenLabs
      BY <1>1, <3>1 DEF PageTakesAudio, SaveKey, TestElevenLabs
    <3>2. CASE StoreChoice
      BY <1>1, <3>2 DEF StoreChoice
    <3>3. CASE SelectMouth
      BY <1>1, <1>3, <3>3 DEF SelectMouth
    <3>4. CASE SetMouth
      BY <1>1, <1>3, <3>4 DEF SetMouth, Swap, NoChange
    <3> QED BY <1>8, <3>1, <3>2, <3>3, <3>4 DEF ChangeStep
  <2>3. VoiceTyped'
    <3>1. \/ UNCHANGED voice \/ Silence(inUse)
          \/ \E b \in BOOLEAN : voice' = [voice EXCEPT ![choice].audio = b]
      BY <1>8 DEF ChangeStep, PageTakesAudio, SaveKey, TestElevenLabs, StoreChoice, SelectMouth, SetMouth, Swap, Polled
    <3> QED BY <1>1, <3>1, SayingsChange
  <2> QED BY <1>1, <1>2, <2>1, <2>2, <2>3
<1>9. CASE UNCHANGED bridgeVars
  BY <1>1, <1>2, <1>9 DEF bridgeVars
<1> QED BY <1>4, <1>5, <1>6, <1>7, <1>8, <1>9 DEF BridgeNext

-----------------------------------------------------------------------------
(* The types of speech output *)

(* A queue that takes a packet is not longer than its limit. *)
LEMMA QueueFits ==
  ASSUME NEW s \in Generations, queue \in Seq(Generations), Len(queue) <= MaxQueue
  PROVE  Enqueued(s) \in Seq(Generations) /\ Len(Enqueued(s)) <= MaxQueue
<1>1. Enqueued(s) \in Seq(Generations) /\ MaxQueue \in Nat \ {0}
  BY SaidIsQueued, VoiceBoundsAssumption
<1>2. CASE Len(queue) < MaxQueue
  <2>1. Enqueued(s) = Append(queue, s) /\ Len(Append(queue, s)) = Len(queue) + 1
    BY <1>2, AppendProperties DEF Enqueued
  <2> QED BY <1>1, <1>2, <2>1
<1>3. CASE ~(Len(queue) < MaxQueue)
  <2>1. queue # << >> /\ Enqueued(s) = Append(Tail(queue), s) /\ Len(queue) = MaxQueue
    BY <1>1, <1>3, EmptySeq DEF Enqueued
  <2>2. Tail(queue) \in Seq(Generations) /\ Len(Tail(queue)) = Len(queue) - 1
    BY <2>1, HeadTailProperties
  <2>3. Len(Append(Tail(queue), s)) = Len(Tail(queue)) + 1
    BY <2>2, AppendProperties
  <2> QED BY <1>1, <2>1, <2>2, <2>3
<1> QED BY <1>2, <1>3

LEMMA PlayerFieldsAre ==
  ASSUME NEW p \in Player
  PROVE  /\ p.last \in 0..MaxGeneration /\ p.pending \in Seq(Generations) /\ p.current \in {NoAudio} \cup Generations
         /\ p.started \in BOOLEAN /\ p.aborted \in SUBSET Generations /\ p.loose \in SUBSET Generations
         /\ Playable(p)
<1>1. /\ p.last \in 0..MaxGeneration /\ p.pending \in Seq(Generations) /\ p.current \in {NoAudio} \cup Generations
      /\ p.started \in BOOLEAN /\ p.aborted \in SUBSET Generations /\ p.loose \in SUBSET Generations
      /\ DOMAIN p = PlayerFields
  BY DEF Player, PlayerFields
<1>2. p.current \in 0..MaxGeneration
  BY <1>1, VoiceBoundsAssumption DEF NoAudio, Generations
<1> QED BY <1>1, <1>2 DEF Playable

LEMMA PlayerChanges ==
  ASSUME NEW p \in Player, NEW pending \in Seq(Generations), NEW current \in {NoAudio} \cup Generations,
         NEW started \in BOOLEAN, NEW aborted \in SUBSET Generations, NEW loose \in SUBSET Generations,
         NEW last \in 0..MaxGeneration
  PROVE  /\ [p EXCEPT !.pending = pending] \in Player
         /\ [p EXCEPT !.started = started] \in Player
         /\ [p EXCEPT !.current = current, !.started = started] \in Player
         /\ [p EXCEPT !.current = current, !.pending = pending, !.started = started] \in Player
         /\ [p EXCEPT !.pending = pending, !.current = current, !.started = started] \in Player
         /\ [p EXCEPT !.current = current, !.started = started, !.aborted = aborted] \in Player
         /\ [p EXCEPT !.aborted = aborted, !.loose = loose] \in Player
         /\ [p EXCEPT !.loose = loose, !.current = current, !.started = started] \in Player
         /\ [p EXCEPT !.last = last, !.pending = pending] \in Player
<1>1. [p EXCEPT !.pending = pending] \in Player
  BY DEF Player
<1>2. [p EXCEPT !.started = started] \in Player
  BY DEF Player
<1>3. [p EXCEPT !.current = current, !.started = started] \in Player
  BY DEF Player
<1>4. [p EXCEPT !.current = current, !.pending = pending, !.started = started] \in Player
  BY DEF Player
<1>5. [p EXCEPT !.pending = pending, !.current = current, !.started = started] \in Player
  BY DEF Player
<1>6. [p EXCEPT !.current = current, !.started = started, !.aborted = aborted] \in Player
  BY DEF Player
<1>7. [p EXCEPT !.aborted = aborted, !.loose = loose] \in Player
  BY DEF Player
<1>8. [p EXCEPT !.loose = loose, !.current = current, !.started = started] \in Player
  BY DEF Player
<1>9. [p EXCEPT !.last = last, !.pending = pending] \in Player
  BY DEF Player
<1> QED BY <1>1, <1>2, <1>3, <1>4, <1>5, <1>6, <1>7, <1>8, <1>9

LEMMA NextIsPlayer == ASSUME NEW p \in Player PROVE NextPlayed(p) \in Player
<1>1. CASE PlaysNext(p)
  <2>1. p.pending \in Seq(Generations) /\ p.pending # << >>
    BY <1>1, PlayerFieldsAre DEF PlaysNext
  <2>2. Head(p.pending) \in Generations /\ Tail(p.pending) \in Seq(Generations)
    BY <2>1, HeadTailProperties
  <2>3. NextPlayed(p) = [p EXCEPT !.current = Head(p.pending), !.pending = Tail(p.pending), !.started = FALSE]
    BY <1>1 DEF NextPlayed
  <2>4. p.aborted \in SUBSET Generations /\ p.loose \in SUBSET Generations /\ p.last \in 0..MaxGeneration
    BY PlayerFieldsAre
  <2>5. Head(p.pending) \in {NoAudio} \cup Generations /\ FALSE \in BOOLEAN
    BY <2>2
  <2>6. [p EXCEPT !.current = Head(p.pending), !.pending = Tail(p.pending), !.started = FALSE] \in Player
    BY <2>2, <2>4, <2>5, PlayerChanges
  <2> QED BY <2>3, <2>6
<1>2. CASE ~PlaysNext(p)
  BY <1>2 DEF NextPlayed
<1> QED BY <1>1, <1>2

LEMMA ReceivedIsPlayer ==
  ASSUME NEW p \in Player, NEW a, a.generation \in 0..MaxGeneration, a.items \in Seq(Generations)
  PROVE  Received(p, a) \in Player
<1> DEFINE n == Newest(p, a)
           packets == PacketsOf(a.items, n)
<1>1. /\ p.last \in 0..MaxGeneration /\ p.pending \in Seq(Generations) /\ p.current \in {NoAudio} \cup Generations
      /\ p.started \in BOOLEAN /\ p.aborted \in SUBSET Generations /\ p.loose \in SUBSET Generations
  BY PlayerFieldsAre
<1>2. n \in 0..MaxGeneration
  BY <1>1, NewestOfAnswer
<1>3. packets \in Seq(Generations) /\ << >> \in Seq(Generations)
  BY <1>2, PacketsAre
<1> HIDE DEF n, packets
<1>4. PICK h : h = (IF n > p.last THEN Stopped([p EXCEPT !.pending = << >>]) ELSE p)
  OBVIOUS
<1>5. Received(p, a) = [h EXCEPT !.last = n, !.pending = h.pending \o packets]
  BY <1>4 DEF Received, n, packets
<1>6. h \in Player
  <2>1. CASE n > p.last
    <3>1. PICK d : d = [p EXCEPT !.pending = << >>]
      OBVIOUS
    <3>2. d \in Player
      BY <1>1, <1>3, <3>1, PlayerChanges
    <3>3. PICK aborted : aborted = IF setting.aborts /\ d.current # NoAudio /\ ~d.started
                                   THEN d.aborted \cup {d.current} ELSE d.aborted
      OBVIOUS
    <3>4. aborted \in SUBSET Generations
      BY <3>2, <3>3, PlayerFieldsAre
    <3>5. h = [d EXCEPT !.current = NoAudio, !.started = FALSE, !.aborted = aborted]
      BY <1>4, <2>1, <3>1, <3>3 DEF Stopped
    <3>6. NoAudio \in {NoAudio} \cup Generations /\ FALSE \in BOOLEAN
      OBVIOUS
    <3> QED BY <1>1, <3>2, <3>4, <3>5, <3>6, PlayerChanges
  <2>2. CASE ~(n > p.last)
    BY <1>4, <2>2
  <2> QED BY <2>1, <2>2
<1>7. h.pending \o packets \in Seq(Generations)
  BY <1>3, <1>6, PlayerFieldsAre, ConcatProperties
<1>8. [h EXCEPT !.last = n, !.pending = h.pending \o packets] \in Player
  BY <1>1, <1>2, <1>6, <1>7, PlayerChanges
<1> QED BY <1>5, <1>8

LEMMA VoiceTypesInitially == ASSUME VInit PROVE VTypeOK
<1>1. /\ generation \in 0..MaxGeneration /\ cutAt \in 0..generation
      /\ queue \in Seq(Generations) /\ Len(queue) <= MaxQueue /\ reports \in Seq(BOOLEAN)
  BY VoiceBoundsAssumption DEF VInit
<1>2. workers \subseteq Worker /\ poll \in Poll
  BY DEF VInit, Poll
<1>3. player \in Player
  <2>1. << >> \in Seq(Generations) /\ 0 \in 0..MaxGeneration
    BY VoiceBoundsAssumption
  <2> QED BY <2>1 DEF VInit, Player
<1>4. {speaking, barge, audible, overtaken} \subseteq BOOLEAN /\ setting \in VoiceSettings
      /\ watcher \in {"waiting", "cutting"} /\ listener \in {"listening", "answering"}
  BY DEF VInit
<1> QED BY <1>1, <1>2, <1>3, <1>4 DEF VTypeOK

(* What is said is typed. *)
LEMMA SpeechIsTyped ==
  ASSUME VTypeOK, NEW test \in BOOLEAN, Starts(test)
  PROVE  /\ generation' \in 0..MaxGeneration /\ cutAt' \in 0..generation' /\ workers' \subseteq Worker
         /\ UNCHANGED <<queue, cutAt>>
<1>1. generation \in 0..MaxGeneration /\ cutAt \in 0..generation /\ workers \subseteq Worker
      /\ generation < MaxGeneration /\ generation' = generation + 1 /\ UNCHANGED <<queue, cutAt>>
      /\ MaxGeneration \in Nat /\ MaxPackets \in Nat \ {0}
  BY VoiceBoundsAssumption DEF VTypeOK, Starts
<1>2. PICK left \in 0..MaxPackets :
        workers' = workers \cup {[generation |-> generation + 1, test |-> test, left |-> left]}
  <2>1. 1 \in 0..MaxPackets
    BY <1>1
  <2> QED BY <2>1 DEF Starts
<1>3. [generation |-> generation + 1, test |-> test, left |-> left] \in Worker
  BY <1>1 DEF Worker, Generations
<1> QED BY <1>1, <1>2, <1>3

LEMMA VoiceTypesKept == VTypeOK /\ [VNext]_vvars => VTypeOK'
<1> SUFFICES ASSUME VTypeOK, [VNext]_vvars PROVE VTypeOK'
  OBVIOUS
<1> USE DEF mouth, bridge, reporting, pageSide
<1> DEFINE Said == /\ generation \in 0..MaxGeneration /\ cutAt \in 0..generation
                   /\ queue \in Seq(Generations) /\ Len(queue) <= MaxQueue /\ workers \subseteq Worker
           Hearing == /\ {barge, audible} \subseteq BOOLEAN /\ setting \in VoiceSettings
                     /\ watcher \in {"waiting", "cutting"} /\ listener \in {"listening", "answering"}
           Told == reports \in Seq(BOOLEAN) /\ overtaken \in BOOLEAN
           Speaks == speaking \in BOOLEAN
<1>1. Said /\ Hearing /\ Told /\ Speaks /\ poll \in Poll /\ player \in Player
      /\ MaxGeneration \in Nat /\ MaxPackets \in Nat \ {0} /\ MaxQueue \in Nat \ {0}
  BY VoiceBoundsAssumption DEF VTypeOK
<1>2. ASSUME Said', Hearing', Told', Speaks', poll' \in Poll, player' \in Player PROVE VTypeOK'
  BY <1>2 DEF VTypeOK
<1>3. /\ player.last \in 0..MaxGeneration /\ player.pending \in Seq(Generations)
      /\ player.current \in {NoAudio} \cup Generations
      /\ player.started \in BOOLEAN /\ player.aborted \in SUBSET Generations /\ player.loose \in SUBSET Generations
  BY <1>1, PlayerFieldsAre
<1>4. Hearing'
  <2>1. UNCHANGED setting
    BY DEF VNext, EmitPacket, WorkerEnds, EndWorker, TestSpeech, HearRequest, Answer, EndAnswer, PressKey, CutSpeech,
       HandleBarge, NotePlayback, PollStep, BeginPoll, TakeAudio, ReceiveAudio, CurrentPlays, AudioStarts, AudioEnds,
       OthersEnd, PlayAborted, LooseEnds, PlayRefused, vvars
  <2>2. barge' \in {barge, TRUE, FALSE} /\ watcher' \in {watcher, "waiting", "cutting"}
        /\ listener' \in {listener, "listening", "answering"}
    BY DEF VNext, EmitPacket, WorkerEnds, EndWorker, TestSpeech, HearRequest, Answer, EndAnswer, PressKey, CutSpeech,
       HandleBarge, NotePlayback, PollStep, BeginPoll, TakeAudio, ReceiveAudio, CurrentPlays, AudioStarts, AudioEnds,
       OthersEnd, PlayAborted, LooseEnds, PlayRefused, vvars
  <2>3. audible' \in BOOLEAN
    <3>1. CASE NotePlayback
      <4>1. PICK i \in DOMAIN reports : audible' = reports[i]
        BY <3>1 DEF NotePlayback
      <4>2. i \in 1..Len(reports)
        BY <1>1, <4>1, OneNoted
      <4> QED BY <1>1, <4>1, <4>2
    <3>2. CASE UNCHANGED audible
      BY <1>1, <3>2
    <3>3. NotePlayback \/ UNCHANGED audible
      BY DEF VNext, EmitPacket, WorkerEnds, EndWorker, TestSpeech, HearRequest, Answer, EndAnswer, PressKey, CutSpeech,
         HandleBarge, PollStep, BeginPoll, TakeAudio, ReceiveAudio, CurrentPlays, AudioStarts, AudioEnds,
         OthersEnd, PlayAborted, LooseEnds, PlayRefused, vvars
    <3> QED BY <3>1, <3>2, <3>3
  <2> QED BY <1>1, <2>1, <2>2, <2>3
<1>5. Said' /\ Speaks'
  <2>1. ASSUME NEW job \in workers, EmitPacket(job) PROVE Said' /\ Speaks'
    <3>1. job \in Worker /\ job.generation \in Generations /\ job.left \in 0..MaxPackets /\ job.left > 0
          /\ UNCHANGED <<generation, cutAt, speaking>>
      BY <1>1, <2>1 DEF EmitPacket, Worker
    <3>2. PICK left \in 0..MaxPackets : workers' = (workers \ {job}) \cup {[job EXCEPT !.left = left]}
      <4>1. job.left - 1 \in 0..MaxPackets /\ 0 \in 0..MaxPackets
        BY <1>1, <3>1
      <4> QED BY <2>1, <4>1 DEF EmitPacket
    <3>3. [job EXCEPT !.left = left] \in Worker
      BY <3>1 DEF Worker
    <3>4. queue' \in Seq(Generations) /\ Len(queue') <= MaxQueue
      BY <1>1, <2>1, <3>1, QueueFits DEF EmitPacket
    <3>5. workers' \subseteq Worker
      BY <1>1, <3>2, <3>3
    <3>6. generation' \in 0..MaxGeneration /\ cutAt' \in 0..generation'
      BY <1>1, <3>1
    <3>7. Speaks'
      BY <1>1, <3>1
    <3>8. Said'
      BY <3>4, <3>5, <3>6
    <3> QED BY <3>7, <3>8
  <2>2. ASSUME NEW job \in workers, EndWorker(job) PROVE Said' /\ Speaks'
    <3>1. workers' \subseteq workers /\ UNCHANGED <<generation, queue, cutAt>>
      BY <2>2 DEF EndWorker
    <3>2. speaking' \in BOOLEAN
      BY <2>2 DEF EndWorker
    <3> QED BY <1>1, <3>1, <3>2
  <2>3. CASE TestSpeech
    <3>1. Starts(TRUE) /\ UNCHANGED speaking
      BY <2>3 DEF TestSpeech
    <3> QED BY <1>1, <3>1, SpeechIsTyped
  <2>4. CASE Answer
    <3>1. Starts(FALSE) /\ speaking' = TRUE
      BY <2>4 DEF Answer, Say
    <3> QED BY <1>1, <3>1, SpeechIsTyped
  <2>5. CASE CutSpeech
    <3>1. /\ generation < MaxGeneration /\ generation' = generation + 1 /\ queue' = << >> /\ speaking' = FALSE
          /\ cutAt' = generation /\ UNCHANGED workers
      BY <2>5 DEF CutSpeech, ShutUp
    <3>2. queue' \in Seq(Generations) /\ Len(queue') <= MaxQueue
      BY <1>1, <3>1
    <3>3. generation' \in 0..MaxGeneration /\ cutAt' \in 0..generation'
      BY <1>1, <3>1
    <3>4. workers' \subseteq Worker
      BY <1>1, <3>1
    <3>5. Said'
      BY <3>2, <3>3, <3>4
    <3> QED BY <3>1, <3>5
  <2>6. CASE TakeAudio
    <3>1. queue' = << >> /\ UNCHANGED <<generation, cutAt, workers, speaking>>
      BY <2>6 DEF TakeAudio
    <3>2. queue' \in Seq(Generations) /\ Len(queue') <= MaxQueue
      BY <1>1, <3>1
    <3>3. Said'
      BY <1>1, <3>1, <3>2
    <3> QED BY <1>1, <3>1, <3>3
  <2>7. CASE UNCHANGED <<generation, queue, cutAt, workers, speaking>>
    BY <1>1, <2>7
  <2>8. \/ \E job \in workers : EmitPacket(job) \/ EndWorker(job)
        \/ TestSpeech \/ Answer \/ CutSpeech \/ TakeAudio \/ UNCHANGED <<generation, queue, cutAt, workers, speaking>>
    BY DEF VNext, WorkerEnds, HearRequest, EndAnswer, PressKey, HandleBarge, NotePlayback, PollStep, BeginPoll,
       ReceiveAudio, CurrentPlays, AudioStarts, AudioEnds, OthersEnd, PlayAborted, LooseEnds, PlayRefused, vvars
  <2> QED BY <2>1, <2>2, <2>3, <2>4, <2>5, <2>6, <2>7, <2>8
<1>6. poll' \in Poll
  <2>1. CASE BeginPoll
    BY <1>1, <2>1 DEF BeginPoll, Poll
  <2>2. CASE TakeAudio
    <3>1. poll.generation \in 0..MaxGeneration
      BY <1>1, <2>2 DEF TakeAudio, Poll
    <3>2. [pc |-> "answer", generation |-> poll.generation, items |-> queue]
            \in [pc : {"answer"}, generation : 0..MaxGeneration, items : Seq(Generations)]
      BY <1>1, <3>1
    <3> QED BY <2>2, <3>2 DEF TakeAudio, Poll
  <2>3. CASE ReceiveAudio
    BY <2>3 DEF ReceiveAudio, Poll
  <2>4. CASE UNCHANGED poll
    BY <1>1, <2>4
  <2>5. BeginPoll \/ TakeAudio \/ ReceiveAudio \/ UNCHANGED poll
    BY DEF VNext, EmitPacket, WorkerEnds, EndWorker, TestSpeech, HearRequest, Answer, EndAnswer, PressKey, CutSpeech,
       HandleBarge, NotePlayback, PollStep, CurrentPlays, AudioStarts, AudioEnds,
       OthersEnd, PlayAborted, LooseEnds, PlayRefused, vvars
  <2> QED BY <2>1, <2>2, <2>3, <2>4, <2>5
(* The page: what it plays, and what it reports. *)
<1>7. ASSUME NEW p \in Player, PlayNext(p) PROVE Told' /\ player' \in Player
  <2>1. player' = NextPlayed(p) /\ reports' = reports \o NextReport(p) /\ overtaken' \in BOOLEAN
    BY <1>7 DEF PlayNext, Report
  <2>2. NextReport(p) \in Seq(BOOLEAN)
    BY OneReport
  <2> QED BY <1>1, <2>1, <2>2, NextIsPlayer, ConcatProperties
<1>8. ASSUME NEW s \in Generations, NEW p \in Player, Refused(s, p) PROVE Told' /\ player' \in Player
  <2>1. player' = [p EXCEPT !.pending = <<s>> \o p.pending, !.current = NoAudio, !.started = FALSE]
        /\ reports' = reports \o <<FALSE>> /\ overtaken' \in BOOLEAN
    BY <1>8 DEF Refused, Report
  <2>2. /\ p.last \in 0..MaxGeneration /\ p.aborted \in SUBSET Generations /\ p.loose \in SUBSET Generations
        /\ p.pending \in Seq(Generations)
    BY PlayerFieldsAre
  <2>3. <<s>> \in Seq(Generations)
    OBVIOUS
  <2>4. <<s>> \o p.pending \in Seq(Generations)
    BY <2>2, <2>3, ConcatProperties
  <2>5. NoAudio \in {NoAudio} \cup Generations /\ FALSE \in BOOLEAN
    OBVIOUS
  <2>6. player' \in Player
    BY <2>1, <2>2, <2>4, <2>5, PlayerChanges
  <2>7. reports \o <<FALSE>> \in Seq(BOOLEAN)
    <3>1. <<FALSE>> \in Seq(BOOLEAN)
      OBVIOUS
    <3> QED BY <1>1, <3>1, ConcatProperties
  <2> QED BY <2>1, <2>6, <2>7
<1>9. Told' /\ player' \in Player
  <2>0. NoAudio \in {NoAudio} \cup Generations /\ FALSE \in BOOLEAN /\ TRUE \in BOOLEAN
    OBVIOUS
  <2>1. CASE NotePlayback
    <3>1. PICK i \in DOMAIN reports : reports' = RemoveAt(reports, i) /\ UNCHANGED player
      BY <2>1 DEF NotePlayback
    <3>2. overtaken' \in BOOLEAN
      BY <2>1 DEF NotePlayback
    <3> QED BY <1>1, <3>1, <3>2, OneNoted
  <2>2. CASE ReceiveAudio
    <3>1. poll.generation \in 0..MaxGeneration /\ poll.items \in Seq(Generations)
      BY <1>1, <2>2 DEF ReceiveAudio, Poll
    <3>2. PICK r : r = Received(player, poll)
      OBVIOUS
    <3>3. r \in Player
      BY <1>1, <3>1, <3>2, ReceivedIsPlayer
    <3>4. PICK first : first = IF Newest(player, poll) > player.last THEN <<FALSE>> ELSE << >>
      OBVIOUS
    <3>5. player' = NextPlayed(r) /\ reports' = reports \o (first \o NextReport(r)) /\ overtaken' \in BOOLEAN
      BY <2>2, <3>2, <3>4 DEF ReceiveAudio, AnswerReports, Report
    <3>6. first \in Seq(BOOLEAN) /\ NextReport(r) \in Seq(BOOLEAN)
      <4>1. <<FALSE>> \in Seq(BOOLEAN) /\ << >> \in Seq(BOOLEAN)
        OBVIOUS
      <4> QED BY <3>4, <4>1, OneReport
    <3>7. first \o NextReport(r) \in Seq(BOOLEAN)
      BY <3>6, ConcatProperties
    <3>8. reports' \in Seq(BOOLEAN)
      BY <1>1, <3>5, <3>7, ConcatProperties
    <3> QED BY <3>3, <3>5, <3>8, NextIsPlayer
  <2>3. CASE AudioStarts
    <3>1. player' = [player EXCEPT !.started = TRUE] /\ UNCHANGED <<reports, overtaken>>
      BY <2>3 DEF AudioStarts
    <3>2. Told'
      BY <1>1, <3>1
    <3>3. [player EXCEPT !.started = TRUE] \in Player
      BY <1>1 DEF Player
    <3> QED BY <3>1, <3>2, <3>3
  <2>4. CASE AudioEnds
    <3>1. [player EXCEPT !.current = NoAudio, !.started = FALSE] \in Player
      BY <1>1, <1>3, <2>0, PlayerChanges
    <3> QED BY <1>7, <2>4, <3>1 DEF AudioEnds
  <2>5. CASE PlayRefused
    BY <1>1, <1>3, <1>8, <2>5 DEF PlayRefused
  <2>6. ASSUME NEW s \in player.aborted, PlayAborted(s) PROVE Told' /\ player' \in Player
    <3>1. player.aborted \ {s} \in SUBSET Generations /\ player.loose \cup Sounding \in SUBSET Generations
          /\ s \in Generations
      BY <1>3 DEF Sounding
    <3>2. [player EXCEPT !.aborted = player.aborted \ {s}, !.loose = player.loose \cup Sounding] \in Player
      BY <1>1, <1>3, <3>1, PlayerChanges
    <3> QED BY <1>8, <2>6, <3>1, <3>2 DEF PlayAborted
  <2>7. ASSUME NEW s \in player.loose, LooseEnds(s) PROVE Told' /\ player' \in Player
    <3>1. (player.loose \ {s}) \cup Sounding \in SUBSET Generations
      BY <1>3 DEF Sounding
    <3>2. [player EXCEPT !.loose = (player.loose \ {s}) \cup Sounding, !.current = NoAudio, !.started = FALSE] \in Player
      BY <1>1, <1>3, <2>0, <3>1, PlayerChanges
    <3> QED BY <1>7, <2>7, <3>2 DEF LooseEnds
  <2>8. CASE UNCHANGED <<player, reporting>>
    BY <1>1, <2>8
  <2>9. \/ NotePlayback \/ ReceiveAudio \/ AudioStarts \/ AudioEnds \/ PlayRefused
        \/ (\E s \in player.aborted : PlayAborted(s)) \/ (\E s \in player.loose : LooseEnds(s))
        \/ UNCHANGED <<player, reporting>>
    BY DEF VNext, EmitPacket, WorkerEnds, EndWorker, TestSpeech, HearRequest, Answer, EndAnswer, PressKey, CutSpeech,
       HandleBarge, PollStep, BeginPoll, TakeAudio, CurrentPlays, OthersEnd, vvars
  <2> QED BY <2>1, <2>2, <2>3, <2>4, <2>5, <2>6, <2>7, <2>8, <2>9
<1> QED BY <1>2, <1>4, <1>5, <1>6, <1>9

-----------------------------------------------------------------------------
(* The types of hand control *)

(* Besides its types: an event that is acted on, or released for, is there. *)
HandlersTyped ==
  /\ handler \in [Handlers -> {HandlerIdle} \cup Busy]
  /\ off \in [Actors -> {"no", "interpreter", "bridge", "button"}]
  /\ \A h \in Handlers : handler[h].pc = "off" <=> off[h] # "no"
  /\ \A h \in Handlers : handler[h].pc \in {"act", "release"} => handler[h].todo # << >>

MouseTyped ==
  /\ button \in {"up", "down"} /\ bridgeOn \in BOOLEAN /\ corner \in BOOLEAN
  /\ fresh \in BOOLEAN /\ serving \in BOOLEAN

PageTyped == page \in {"on", "paused", "off"} /\ hand \in Poses /\ env \in Environments

HandTypes == HandlersTyped /\ MouseTyped /\ PageTyped /\ interp \in Interpreter

LEMMA FreshIsTyped == ASSUME NEW on \in BOOLEAN PROVE FreshInterpreter(on) \in Interpreter
<1>1. 0 \in 0..PoseFrames - 1 /\ 0 \in 0..ResumeFrames - 1
  BY FramesAssumption
<1> QED BY <1>1 DEF FreshInterpreter, Interpreter

LEMMA EventsAre ==
  /\ << >> \in Seq(Events) /\ <<"resume">> \in Seq(Events) /\ <<"pause">> \in Seq(Events)
  /\ \A es \in MotionEvents \cup ButtonEvents : es \in Seq(Events)
<1>1. ASSUME NEW e \in Events PROVE <<e>> \in Seq(Events)
  OBVIOUS
<1>2. << >> \in Seq(Events)
  OBVIOUS
<1>3. <<"resume">> \in Seq(Events) /\ <<"pause">> \in Seq(Events)
  BY <1>1 DEF Events
<1>4. ASSUME NEW es \in MotionEvents \cup ButtonEvents PROVE es \in Seq(Events)
  <2>1. es = << >> \/ \E e \in Events : es = <<e>>
    BY DEF MotionEvents, ButtonEvents, Events
  <2> QED BY <1>1, <1>2, <2>1
<1> QED BY <1>2, <1>3, <1>4

(* A sample read by a typed interpreter leaves it typed. *)
LEMMA PinchesAreTyped ==
  ASSUME NEW i \in Interpreter, NEW pose, NEW o \in Pinches(i, pose)
  PROVE  o.state \in Interpreter /\ o.events \in ButtonEvents /\ o = Reading(o.state, o.events)
<1>1. ASSUME NEW b \in BOOLEAN, NEW c \in BOOLEAN
      PROVE  /\ [i EXCEPT !.armed = b] \in Interpreter /\ [i EXCEPT !.dragging = b] \in Interpreter
             /\ [i EXCEPT !.dragging = b, !.armed = c] \in Interpreter
  BY DEF Interpreter
<1>2. << >> \in ButtonEvents /\ <<"click">> \in ButtonEvents /\ <<"drag_start">> \in ButtonEvents /\ <<"drag_end">> \in ButtonEvents
  BY DEF ButtonEvents
<1>3. \E s \in Interpreter, es \in ButtonEvents : o = Reading(s, es)
  BY <1>1, <1>2 DEF Pinches
<1> QED BY <1>3 DEF Reading

LEMMA InterpretsTyped ==
  ASSUME NEW i \in Interpreter, NEW pose, NEW o \in Interpreted(i, pose)
  PROVE  o.state \in Interpreter /\ o.events \in Seq(Events)
<1> DEFINE Mark == IF pose.pinch THEN "pinch" ELSE "open"
           awake == [i EXCEPT !.palms = 0]
           rested == [awake EXCEPT !.fists = 0]
<1>1. i.fists \in 0..PoseFrames - 1 /\ i.palms \in 0..ResumeFrames - 1 /\ PoseFrames \in Nat \ {0} /\ ResumeFrames \in Nat \ {0}
  BY FramesAssumption DEF Interpreter
<1>2. ASSUME NEW s \in Interpreter, NEW es \in Seq(Events), o = [Reading(s, es) EXCEPT !.state.previous = Mark]
      PROVE  o.state \in Interpreter /\ o.events \in Seq(Events)
  <2>1. PICK t : t = [s EXCEPT !.previous = Mark]
    OBVIOUS
  <2>2. t \in Interpreter
    BY <2>1 DEF Interpreter
  <2>3. o = [Reading(s, es) EXCEPT !.state = t]
    BY <1>2, <2>1 DEF Reading
  <2>4. o.state = t /\ o.events = es
    BY <2>3 DEF Reading
  <2> QED BY <2>2, <2>4
<1>3. awake \in Interpreter /\ awake.fists = i.fists
  <2>1. 0 \in 0..ResumeFrames - 1
    BY <1>1
  <2> QED BY <2>1 DEF Interpreter
<1>4. ASSUME NEW w \in Interpreter, NEW n \in 0..ResumeFrames - 1 PROVE [w EXCEPT !.palms = n] \in Interpreter
  BY DEF Interpreter
<1>5. ASSUME NEW w \in Interpreter, NEW n \in 0..PoseFrames - 1 PROVE [w EXCEPT !.fists = n] \in Interpreter
  BY DEF Interpreter
<1> HIDE DEF Mark
<1>6. ASSUME NEW s \in Interpreter, NEW es \in {<< >>, <<"resume">>, <<"pause">>}, NEW q, q = Reading(s, es),
             o = IF q.events \in {<<"resume">>, <<"pause">>} THEN q ELSE [q EXCEPT !.state.previous = Mark]
      PROVE  o.state \in Interpreter /\ o.events \in Seq(Events)
  <2>1. es \in Seq(Events)
    BY EventsAre
  <2>2. CASE o = q
    BY <1>6, <2>1, <2>2 DEF Reading
  <2>3. CASE o = [q EXCEPT !.state.previous = Mark]
    BY <1>2, <1>6, <2>1, <2>3
  <2> QED BY <1>6, <2>2, <2>3
<1>7. CASE ~i.on
  <2>1. PICK w : w = WhileOff(i, pose)
    OBVIOUS
  <2>2. o = IF w.events \in {<<"resume">>, <<"pause">>} THEN w ELSE [w EXCEPT !.state.previous = Mark]
    BY <1>7, <2>1 DEF Interpreted, Mark
  <2>3. \E s \in Interpreter, es \in {<< >>, <<"resume">>, <<"pause">>} : w = Reading(s, es)
    <3>1. CASE pose # Palm
      <4>1. 0 \in 0..ResumeFrames - 1
        BY <1>1
      <4> QED BY <1>4, <2>1, <3>1, <4>1 DEF WhileOff
    <3>2. CASE pose = Palm /\ i.palms + 1 >= ResumeFrames
      BY <2>1, <3>2, FreshIsTyped DEF WhileOff
    <3>3. CASE pose = Palm /\ ~(i.palms + 1 >= ResumeFrames)
      <4>1. i.palms + 1 \in 0..ResumeFrames - 1
        BY <1>1, <3>3
      <4> QED BY <1>4, <2>1, <3>3, <4>1 DEF WhileOff
    <3> QED BY <3>1, <3>2, <3>3
  <2> QED BY <1>6, <2>2, <2>3
<1>8. CASE i.on /\ pose.fingers = 0
  <2>1. PICK v : v = awake
    OBVIOUS
  <2>2. PICK w : w = WithFist(v)
    OBVIOUS
  <2>3. o = IF w.events \in {<<"resume">>, <<"pause">>} THEN w ELSE [w EXCEPT !.state.previous = Mark]
    BY <1>8, <2>1, <2>2 DEF Interpreted, Mark
  <2>4. \E s \in Interpreter, es \in {<< >>, <<"resume">>, <<"pause">>} : w = Reading(s, es)
    <3>1. CASE v.fists + 1 >= PoseFrames
      BY <2>2, <3>1, FreshIsTyped DEF WithFist
    <3>2. CASE ~(v.fists + 1 >= PoseFrames)
      <4>1. v.fists + 1 \in 0..PoseFrames - 1 /\ v \in Interpreter
        BY <1>1, <1>3, <2>1, <3>2
      <4> QED BY <1>5, <2>2, <3>2, <4>1 DEF WithFist
    <3> QED BY <3>1, <3>2
  <2> QED BY <1>6, <2>3, <2>4
<1>9. CASE i.on /\ pose.fingers # 0
  <2>1. PICK m \in Motions(i, pose), p \in Pinches(rested, pose) :
          o = [Reading(p.state, m \o p.events) EXCEPT !.state.previous = Mark]
    BY <1>9 DEF Interpreted, Mark
  <2>2. m \in MotionEvents
    BY DEF Motions, MotionEvents
  <2>3. rested \in Interpreter
    <3>1. 0 \in 0..PoseFrames - 1
      BY <1>1
    <3> QED BY <1>3, <1>5, <3>1
  <2>4. p.state \in Interpreter /\ p.events \in ButtonEvents
    BY <2>3, PinchesAreTyped
  <2>5. m \o p.events \in Seq(Events)
    BY <2>2, <2>4, EventsAre, ConcatProperties
  <2> QED BY <1>2, <2>1, <2>4, <2>5
<1> QED BY <1>7, <1>8, <1>9

(* A handler goes on, and does not switch off. *)
LEMMA HandlerGoesOn ==
  ASSUME HandlersTyped, NEW h \in Handlers, handler[h].pc # "off", NEW d \in {HandlerIdle} \cup Busy, d.pc # "off",
         d.pc \in {"act", "release"} => d.todo # << >>, handler' = [handler EXCEPT ![h] = d], UNCHANGED off
  PROVE  HandlersTyped'
<1>1. off[h] = "no" /\ h \in Actors
  BY DEF HandlersTyped, Actors
<1>2. handler' \in [Handlers -> {HandlerIdle} \cup Busy] /\ off' \in [Actors -> {"no", "interpreter", "bridge", "button"}]
  BY DEF HandlersTyped
<1>3. ASSUME NEW g \in Handlers
      PROVE  /\ handler'[g].pc = "off" <=> off'[g] # "no"
             /\ handler'[g].pc \in {"act", "release"} => handler'[g].todo # << >>
  <2>1. handler'[g] = IF g = h THEN d ELSE handler[g]
    BY DEF HandlersTyped
  <2>2. CASE g = h
    BY <1>1, <2>1, <2>2
  <2>3. CASE g # h
    BY <2>1, <2>3 DEF HandlersTyped
  <2> QED BY <2>2, <2>3
<1> QED BY <1>2, <1>3 DEF HandlersTyped

(* A handler begins to switch off, or an actor that is none of the handlers. *)
LEMMA SwitchesOffTyped ==
  ASSUME HandlersTyped, NEW a \in Actors, NEW to \in {"no", "interpreter", "bridge", "button"},
         off' = [off EXCEPT ![a] = to],
         handler' = IF a \in Handlers THEN [handler EXCEPT ![a] = IF to = "no" THEN HandlerIdle ELSE [pc |-> "off"]]
                    ELSE handler
  PROVE  HandlersTyped'
<1> DEFINE d == IF to = "no" THEN HandlerIdle ELSE [pc |-> "off"]
<1>1. d \in {HandlerIdle} \cup Busy /\ (d.pc = "off" <=> to # "no") /\ d.pc \in {"idle", "off"}
  BY DEF Busy, HandlerIdle
<1> HIDE DEF d
<1>2. handler' \in [Handlers -> {HandlerIdle} \cup Busy]
  BY <1>1 DEF HandlersTyped, d
<1>3. off' \in [Actors -> {"no", "interpreter", "bridge", "button"}]
  BY DEF HandlersTyped
<1>4. ASSUME NEW g \in Handlers
      PROVE  /\ handler'[g].pc = "off" <=> off'[g] # "no"
             /\ handler'[g].pc \in {"act", "release"} => handler'[g].todo # << >>
  <2>1. g \in Actors
    BY DEF Actors
  <2>2. CASE g = a
    <3>1. handler'[g] = d /\ off'[g] = to
      BY <2>1, <2>2 DEF HandlersTyped, d
    <3> QED BY <1>1, <3>1
  <2>3. CASE g # a
    <3>1. handler'[g] = handler[g] /\ off'[g] = off[g]
      BY <2>1, <2>3 DEF HandlersTyped
    <3> QED BY <3>1 DEF HandlersTyped
  <2> QED BY <2>2, <2>3
<1> QED BY <1>2, <1>3, <1>4 DEF HandlersTyped

LEMMA HandTypesInitially == ASSUME HInit PROVE HandTypes
<1>1. handler = [h \in Handlers |-> HandlerIdle] /\ off = [a \in Actors |-> "no"] /\ HandlerIdle.pc = "idle"
  BY DEF HInit, HandlerIdle
<1>2. \A h \in Handlers : handler[h].pc = "idle" /\ off[h] = "no"
  BY <1>1 DEF Actors
<1>3. handler \in [Handlers -> {HandlerIdle} \cup Busy] /\ off \in [Actors -> {"no", "interpreter", "bridge", "button"}]
  BY <1>1
<1>4. HandlersTyped
  BY <1>2, <1>3 DEF HandlersTyped
<1>5. interp \in Interpreter
  BY FreshIsTyped DEF HInit
<1>6. MouseTyped /\ PageTyped
  BY DEF HInit, MouseTyped, PageTyped
<1> QED BY <1>4, <1>5, <1>6 DEF HandTypes

LEMMA HandlerIs ==
  ASSUME HandlersTyped, NEW h \in Handlers
  PROVE  /\ handler[h].pc = "interpret" => handler[h].pose \in AllPoses
         /\ handler[h].pc \in {"dispatch", "act", "release"} =>
              handler[h] \in [pc : {"dispatch", "act", "release"}, todo : Seq(Events)]
<1>1. handler[h] \in {HandlerIdle} \cup Busy
  BY DEF HandlersTyped
<1> QED BY <1>1 DEF Busy, HandlerIdle

(* Every step of a handler: what it interprets, and the list it is left with. *)
LEMMA HandlerTypesKept ==
  ASSUME HandTypes, NEW h \in Handlers, HandlerStep(h)
  PROVE  HandTypes'
<1>1. HandlersTyped /\ MouseTyped /\ PageTyped /\ interp \in Interpreter /\ h \in Actors
  BY DEF HandTypes, Actors
<1>2. ASSUME HandlersTyped', MouseTyped', PageTyped', interp' \in Interpreter PROVE HandTypes'
  BY <1>2 DEF HandTypes
<1>3. PageTyped'
  <2>1. UNCHANGED <<hand, env>> /\ page' \in {page, "paused"}
    BY DEF HandlerStep, InterpretSample, DispatchResume, DispatchPause, ReleaseOnPause, DispatchInput, Act, ActFails,
       AnswerSample
  <2> QED BY <1>1, <2>1 DEF PageTyped
<1>4. MouseTyped'
  <2>1. UNCHANGED serving /\ fresh' \in {fresh, TRUE}
    BY DEF HandlerStep, InterpretSample, DispatchResume, DispatchPause, ReleaseOnPause, DispatchInput, Act, ActFails,
       AnswerSample
  <2>2. bridgeOn' \in {bridgeOn, TRUE, FALSE} /\ button' \in {button, "up", "down"}
    BY DEF HandlerStep, InterpretSample, DispatchResume, DispatchPause, ReleaseOnPause, DispatchInput, Act, ActFails,
       AnswerSample, ReleaseButton
  <2>3. corner' \in {corner} \cup BOOLEAN
    BY DEF HandlerStep, InterpretSample, DispatchResume, DispatchPause, ReleaseOnPause, DispatchInput, Act, ActFails,
       AnswerSample
  <2> QED BY <1>1, <2>1, <2>2, <2>3 DEF MouseTyped
<1>5. interp' \in Interpreter
  <2>1. CASE InterpretSample(h)
    <3>1. PICK o \in Interpreted(interp, handler[h].pose) : interp' = o.state
      BY <2>1 DEF InterpretSample
    <3> QED BY <1>1, <3>1, InterpretsTyped
  <2>2. CASE ~InterpretSample(h)
    <3>1. UNCHANGED interp
      BY <2>2 DEF HandlerStep, DispatchResume, DispatchPause, ReleaseOnPause, DispatchInput, Act, ActFails, AnswerSample
    <3> QED BY <1>1, <3>1
  <2> QED BY <2>1, <2>2
<1>6. ASSUME NEW todo \in Seq(Events), handler[h].pc # "off", UNCHANGED off,
             handler' = [handler EXCEPT ![h] = [pc |-> "dispatch", todo |-> todo]]
      PROVE  HandlersTyped'
  <2>1. PICK d : d = [pc |-> "dispatch", todo |-> todo]
    OBVIOUS
  <2>2. d \in {HandlerIdle} \cup Busy /\ d.pc = "dispatch"
    BY <2>1 DEF Busy
  <2> QED BY <1>1, <1>6, <2>1, <2>2, HandlerGoesOn
<1>7. ASSUME NEW pc \in {"act", "release"}, handler[h].pc = "dispatch", handler[h].todo # << >>, UNCHANGED off,
             handler' = [handler EXCEPT ![h].pc = pc]
      PROVE  HandlersTyped'
  <2>1. PICK d : d = [handler[h] EXCEPT !.pc = pc]
    OBVIOUS
  <2>2. handler[h] \in [pc : {"dispatch", "act", "release"}, todo : Seq(Events)]
    BY <1>1, <1>7, HandlerIs
  <2>3. d \in [pc : {"dispatch", "act", "release"}, todo : Seq(Events)] /\ d.pc = pc /\ d.todo = handler[h].todo
    BY <2>1, <2>2
  <2>4. d \in {HandlerIdle} \cup Busy
    BY <2>3 DEF Busy
  <2>5. handler' = [handler EXCEPT ![h] = d]
    BY <1>7, <2>1
  <2> QED BY <1>1, <1>7, <2>3, <2>4, <2>5, HandlerGoesOn
<1>8. ASSUME handler[h].pc \in {"dispatch", "act", "release"}, handler[h].todo # << >>, NextEvent(h), UNCHANGED off
      PROVE  HandlersTyped'
  <2>1. handler[h].todo \in Seq(Events)
    BY <1>1, <1>8, HandlerIs
  <2>2. Tail(handler[h].todo) \in Seq(Events)
    BY <1>8, <2>1, HeadTailProperties
  <2> QED BY <1>6, <1>8, <2>2 DEF NextEvent
<1>9. HandlersTyped'
  <2>1. CASE InterpretSample(h)
    <3>1. PICK o \in Interpreted(interp, handler[h].pose) :
            handler' = [handler EXCEPT ![h] = [pc |-> "dispatch", todo |-> o.events]]
      BY <2>1 DEF InterpretSample
    <3>2. o.events \in Seq(Events)
      BY <1>1, InterpretsTyped
    <3> QED BY <1>6, <2>1, <3>1, <3>2 DEF InterpretSample
  <2>2. CASE DispatchResume(h)
    BY <1>8, <2>2 DEF DispatchResume, Ready
  <2>3. CASE DispatchPause(h)
    BY <1>7, <2>3 DEF DispatchPause, Ready
  <2>4. CASE ReleaseOnPause(h)
    <3>1. handler[h].todo # << >>
      BY <1>1, <2>4 DEF ReleaseOnPause, HandlersTyped
    <3> QED BY <1>8, <2>4, <3>1 DEF ReleaseOnPause
  <2>5. CASE DispatchInput(h)
    BY <1>7, <1>8, <2>5 DEF DispatchInput, Ready
  <2>6. CASE Act(h)
    <3>1. handler[h].todo # << >>
      BY <1>1, <2>6 DEF Act, HandlersTyped
    <3> QED BY <1>8, <2>6, <3>1 DEF Act
  <2>7. CASE ActFails(h)
    <3>1. handler' = [handler EXCEPT ![h] = [pc |-> "off"]] /\ off' = [off EXCEPT ![h] = "interpreter"]
      BY <2>7 DEF ActFails
    <3> QED BY <1>1, <3>1, SwitchesOffTyped
  <2>8. CASE AnswerSample(h)
    <3>1. handler' = [handler EXCEPT ![h] = HandlerIdle] /\ UNCHANGED off /\ handler[h].pc # "off"
      BY <2>8 DEF AnswerSample
    <3>2. HandlerIdle.pc = "idle"
      BY DEF HandlerIdle
    <3> QED BY <1>1, <3>1, <3>2, HandlerGoesOn
  <2> QED BY <2>1, <2>2, <2>3, <2>4, <2>5, <2>6, <2>7, <2>8 DEF HandlerStep
<1> QED BY <1>2, <1>3, <1>4, <1>5, <1>9

LEMMA HandTypesKept == HandTypes /\ [HNext]_hvars => HandTypes'
<1> SUFFICES ASSUME HandTypes, [HNext]_hvars PROVE HandTypes'
  OBVIOUS
<1>1. HandlersTyped /\ MouseTyped /\ PageTyped /\ interp \in Interpreter
  BY DEF HandTypes
<1>2. ASSUME HandlersTyped', MouseTyped', PageTyped', interp' \in Interpreter PROVE HandTypes'
  BY <1>2 DEF HandTypes
<1>3. ASSUME NEW a \in Actors, OffStep(a) PROVE HandTypes'
  <2>1. HandlersTyped'
    <3>1. off[a] # "no"
      BY <1>3 DEF OffStep, OffInterpreter, OffBridge, OffButton
    <3>2. CASE OffButton(a)
      <4>1. off' = [off EXCEPT ![a] = "no"]
            /\ handler' = IF a \in Handlers THEN [handler EXCEPT ![a] = HandlerIdle] ELSE handler
        BY <3>2 DEF OffButton
      <4> QED BY <1>1, <4>1, SwitchesOffTyped
    <3>3. ASSUME NEW to \in {"bridge", "button"}, off' = [off EXCEPT ![a] = to], UNCHANGED handler PROVE HandlersTyped'
      <4>1. off' \in [Actors -> {"no", "interpreter", "bridge", "button"}] /\ \A h \in Handlers : off'[h] # "no" <=> off[h] # "no"
        BY <1>1, <3>1, <3>3 DEF HandlersTyped, Actors
      <4> QED BY <1>1, <3>3, <4>1 DEF HandlersTyped
    <3>4. OffButton(a) \/ (off' = [off EXCEPT ![a] = "bridge"] /\ UNCHANGED handler)
          \/ (off' = [off EXCEPT ![a] = "button"] /\ UNCHANGED handler)
      BY <1>3 DEF OffStep, OffInterpreter, OffBridge
    <3> QED BY <3>2, <3>3, <3>4
  <2>2. bridgeOn' \in {bridgeOn, FALSE} /\ button' \in {button, "up"} /\ UNCHANGED <<corner, fresh, serving, hand, env>>
        /\ page' \in {page, "off"} /\ interp' \in {interp, FreshInterpreter(FALSE)}
    BY <1>3 DEF OffStep, OffInterpreter, OffBridge, OffButton, ReleaseButton
  <2>3. MouseTyped' /\ PageTyped'
    BY <1>1, <2>2 DEF MouseTyped, PageTyped
  <2>4. interp' \in Interpreter
    BY <1>1, <2>2, FreshIsTyped
  <2> QED BY <1>2, <2>1, <2>3, <2>4
<1>4. ASSUME NEW h \in Handlers, PostSample(h) PROVE HandTypes'
  <2>1. /\ handler' = [handler EXCEPT ![h] = [pc |-> "interpret", pose |-> hand]] /\ handler[h] = HandlerIdle
        /\ fresh' = TRUE /\ UNCHANGED <<interp, bridgeOn, button, corner, off, serving, page, hand, env>>
    BY <1>4 DEF PostSample
  <2>2. PICK d : d = [pc |-> "interpret", pose |-> hand]
    OBVIOUS
  <2>3. hand \in AllPoses
    BY <1>1, PosesAssumption DEF PageTyped
  <2>4. d \in {HandlerIdle} \cup Busy /\ d.pc = "interpret" /\ HandlerIdle.pc = "idle"
    BY <2>2, <2>3 DEF Busy, HandlerIdle
  <2>5. HandlersTyped'
    BY <1>1, <2>1, <2>2, <2>4, HandlerGoesOn
  <2> QED BY <1>1, <1>2, <2>1, <2>5 DEF MouseTyped, PageTyped
<1>5. ASSUME NEW h \in Handlers, PostStop(h) PROVE HandTypes'
  <2>1. /\ handler' = [handler EXCEPT ![h] = [pc |-> "off"]] /\ off' = [off EXCEPT ![h] = "interpreter"]
        /\ page' = "off" /\ fresh' = TRUE /\ UNCHANGED <<interp, bridgeOn, button, corner, serving, hand, env>>
    BY <1>5 DEF PostStop
  <2>2. HandlersTyped'
    BY <1>1, <2>1, SwitchesOffTyped DEF Actors
  <2> QED BY <1>1, <1>2, <2>1, <2>2 DEF MouseTyped, PageTyped
<1>6. CASE Watch \/ ShutdownServer
  <2>1. PICK a \in Actors \ Handlers : off' = [off EXCEPT ![a] = "interpreter"] /\ UNCHANGED handler
    BY <1>6, ActorsAssumption DEF Watch, ShutdownServer, Actors
  <2>2. HandlersTyped'
    BY <1>1, <2>1, SwitchesOffTyped
  <2>3. serving' \in {serving, FALSE} /\ UNCHANGED <<interp, bridgeOn, button, corner, fresh, page, hand, env>>
    BY <1>6 DEF Watch, ShutdownServer
  <2> QED BY <1>1, <1>2, <2>2, <2>3 DEF MouseTyped, PageTyped
<1>7. CASE StartServer
  <2>1. /\ interp' = FreshInterpreter(TRUE) /\ bridgeOn' = TRUE /\ fresh' = TRUE /\ serving' = TRUE /\ page' = "on"
        /\ UNCHANGED <<button, corner, handler, off, hand, env>>
    BY <1>7 DEF StartServer
  <2>2. interp' \in Interpreter
    BY <2>1, FreshIsTyped
  <2>3. HandlersTyped'
    BY <1>1, <2>1 DEF HandlersTyped
  <2> QED BY <1>1, <1>2, <2>1, <2>2, <2>3 DEF MouseTyped, PageTyped
<1>8. CASE ShowHand \/ ReloadPage \/ Lapse \/ UNCHANGED hvars
  <2>1. UNCHANGED <<interp, bridgeOn, button, corner, handler, off, serving, env>>
    BY <1>8 DEF ShowHand, ReloadPage, Lapse, hvars
  <2>2. hand' \in Poses \cup {hand} /\ page' \in {page, "on"} /\ fresh' \in {fresh, FALSE}
    BY <1>8 DEF ShowHand, ReloadPage, Lapse, hvars
  <2>3. HandlersTyped'
    BY <1>1, <2>1 DEF HandlersTyped
  <2> QED BY <1>1, <1>2, <2>1, <2>2, <2>3 DEF MouseTyped, PageTyped
<1>9. ASSUME NEW h \in Handlers, HandlerStep(h) PROVE HandTypes'
  BY <1>9, HandlerTypesKept
<1> QED BY <1>3, <1>4, <1>5, <1>6, <1>7, <1>8, <1>9 DEF HNext

LEMMA HandTypesAre == HandTypes => HTypeOK
<1>1. HandlersTyped => \A h \in Handlers : handler[h] = HandlerIdle \/ handler[h] \in Busy
  BY DEF HandlersTyped
<1>2. MouseTyped => {bridgeOn, corner, fresh, serving} \subseteq BOOLEAN
  BY DEF MouseTyped
<1> QED BY <1>1, <1>2 DEF HandTypes, HandlersTyped, MouseTyped, PageTyped, HTypeOK

-----------------------------------------------------------------------------
(* The senses together *)

(* Whatever the hand, the voice and the life of the voice do, all state has its
   type: the queue of packets keeps to its limit, the counters of palms and
   fists to theirs, a poll that is answered has the generation it was begun
   with, and a handler switches off exactly while its steps to that are under
   way; for any bounds, settings, poses and handler threads. *)
THEOREM SensesAreTyped == SSpec => []SensesTypeOK
<1> DEFINE IInv == HandTypes /\ VTypeOK /\ BridgeTypeOK
<1>1. SInit => IInv
  BY HandTypesInitially, VoiceTypesInitially, BridgeTypesInitially DEF SInit
<1>2. IInv /\ [Hands(HNext) \/ Voice(VNext) \/ Bridge(BridgeNext)]_svars => IInv'
  <2> SUFFICES ASSUME IInv, [Hands(HNext) \/ Voice(VNext) \/ Bridge(BridgeNext)]_svars PROVE IInv'
    OBVIOUS
  <2>1. [HNext]_hvars /\ [VNext]_vvars /\ [BridgeNext]_bridgeVars
    BY DEF Hands, Voice, Bridge, svars
  <2> QED BY <2>1, HandTypesKept, VoiceTypesKept, BridgeTypesKept
<1>3. IInv => SensesTypeOK
  BY HandTypesAre DEF SensesTypeOK
<1> HIDE DEF IInv
<1> QED BY <1>1, <1>2, <1>3, PTL DEF SSpec

=============================================================================
