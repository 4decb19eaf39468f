---------------------------- MODULE VoiceOutput -----------------------------
(***************************************************************************)
(* Speech output and the gate of the microphone: the mouth                 *)
(* (elevenlabs_voice.py), the bridge between ears and mouth                *)
(* (jarvis_voice_bridge.py, hands-free mode) and the player of the page    *)
(* (jarvis_desktop.py).  Each utterance has a generation; a worker thread  *)
(* synthesizes it, the page polls for the audio and reports what it plays, *)
(* and whatever speaks closes the microphone.                              *)
(*                                                                         *)
(* A packet is told apart by its generation.  The lock under which Kokoro  *)
(* synthesizes one utterance at a time only delays workers and is left out.*)
(***************************************************************************)
EXTENDS Naturals, Sequences, SequencesExt, FiniteSets

CONSTANTS
  MaxGeneration,   \* bound on utterances, tests and cuts together
  MaxPackets,      \* bound on the packets of one utterance of Kokoro
  MaxQueue,        \* maxlen of the mouth's queue
  MaxReports,      \* bound on the page's reports under way
  VoiceSettings    \* a subset of AllVoiceSettings

(* engine: which mouth speaks; aborts: an audio element may be paused before it
   started; tests: the user tests ElevenLabs from the settings. *)
AllVoiceSettings ==
  [engine : {"kokoro", "elevenlabs"}, aborts : BOOLEAN, tests : BOOLEAN]

ASSUME VoiceBoundsAssumption ==
  {MaxGeneration, MaxPackets, MaxQueue, MaxReports} \subseteq Nat \ {0}
ASSUME VoiceSettingsAssumption == VoiceSettings \subseteq AllVoiceSettings

VARIABLES
  generation,   \* _generation of the mouth
  queue,        \* _queue: generations of the packets
  speaking,     \* _speaking
  workers,      \* threads that synthesize
  cutAt,        \* history: the generation when the mouth was last shut up
  barge,        \* the barge-in event
  watcher,      \* the thread that watches the key: waiting or about to cut
  listener,     \* the thread that listens: listening or answering
  poll,         \* the page's poll
  player,       \* the page's player
  reports,      \* playback reports of the page under way, in the order they were made
  overtaken,    \* history: the newest report was noted before one that says otherwise
  audible,      \* _browser_audio_active
  setting       \* one of VoiceSettings, fixed from the beginning

mouth  == <<generation, queue, speaking, workers, cutAt>>
bridge == <<barge, watcher, listener>>
reporting == <<reports, overtaken>>
pageSide == <<poll, player, reporting>>
vvars  == <<mouth, bridge, pageSide, audible, setting>>

Generations == 1..MaxGeneration
NoAudio     == 0

(* `last` is lastSequence, `started` whether the promise of play() of the
   current audio was kept, `aborted` the audios stopped before that, and `loose`
   those that sound without being current. *)
Player == [last : 0..MaxGeneration, pending : Seq(Generations),
           current : {NoAudio} \cup Generations, started : BOOLEAN,
           aborted : SUBSET Generations, loose : SUBSET Generations]

Worker == [generation : Generations, test : BOOLEAN, left : 0..MaxPackets]

Poll == [pc : {"idle"}] \cup [pc : {"take"}, generation : 0..MaxGeneration]
          \cup [pc : {"answer"}, generation : 0..MaxGeneration, items : Seq(Generations)]

-----------------------------------------------------------------------------
(* The mouth *)

Starts(test) ==
  /\ generation < MaxGeneration
  /\ generation' = generation + 1
  /\ \E left \in IF setting.engine = "kokoro" THEN 0..MaxPackets ELSE {1} :
       workers' = workers \cup {[generation |-> generation + 1, test |-> test, left |-> left]}
  /\ UNCHANGED <<queue, cutAt>>

Say == Starts(FALSE) /\ speaking' = TRUE

(* A test takes a generation but never says that it speaks. *)
TestSpeech ==
  /\ setting.tests /\ setting.engine = "elevenlabs"
  /\ Starts(TRUE)
  /\ UNCHANGED <<speaking, bridge, pageSide, audible, setting>>

\* mutant: the queue has no bound
EnqueuedUnbounded(s) == Append(queue, s)

(* A full deque drops its oldest packet. *)
Enqueued(s) ==
  IF Len(queue) < MaxQueue THEN Append(queue, s) ELSE Append(Tail(queue), s)

\* mutant: what was synthesized is queued in any case
WantedAlways(job) == TRUE

Wanted(job) == job.generation = generation

(* The next packet is ready: queued if nothing newer was begun, and the end of
   the worker otherwise. *)
EmitPacket(job) ==
  /\ job.left > 0
  /\ queue' = IF Wanted(job) THEN Enqueued(job.generation) ELSE queue
  /\ workers' = (workers \ {job})
                  \cup {[job EXCEPT !.left = IF Wanted(job) THEN @ - 1 ELSE 0]}
  /\ UNCHANGED <<generation, speaking, cutAt, bridge, pageSide, audible, setting>>

\* mutant: a failure leaves the flag alone
SilencesOnSuccess(job) == job.left = 0 /\ job.generation = generation /\ ~job.test

Silences(job) == job.generation = generation /\ ~job.test

(* The worker is done, or synthesis raised. *)
EndWorker(job) ==
  /\ workers' = workers \ {job}
  /\ speaking' = (speaking /\ ~Silences(job))
  /\ UNCHANGED <<generation, queue, cutAt, bridge, pageSide, audible, setting>>

ShutUp ==
  /\ generation < MaxGeneration
  /\ generation' = generation + 1
  /\ queue' = << >> /\ speaking' = FALSE
  /\ cutAt' = generation
  /\ UNCHANGED workers

-----------------------------------------------------------------------------
(* The bridge *)

SpeakerGate == (speaking \/ audible) /\ ~barge

(* The ears hear a request while the gate is open. *)
HearRequest ==
  /\ listener = "listening" /\ ~SpeakerGate /\ ~barge
  /\ listener' = "answering"
  /\ UNCHANGED <<mouth, barge, watcher, pageSide, audible, setting>>

(* handle_transcript speaks the answer, a question before it if it must. *)
Answer ==
  /\ listener = "answering"
  /\ Say
  /\ listener' \in {"answering", "listening"}
  /\ UNCHANGED <<barge, watcher, pageSide, audible, setting>>

(* Nothing more to say: the request raised or its text is a repetition. *)
EndAnswer ==
  /\ listener = "answering"
  /\ listener' = "listening"
  /\ UNCHANGED <<mouth, barge, watcher, pageSide, audible, setting>>

PressKey ==
  /\ watcher = "waiting"
  /\ barge' = TRUE /\ watcher' = "cutting"
  /\ UNCHANGED <<mouth, listener, pageSide, audible, setting>>

CutSpeech ==
  /\ watcher = "cutting"
  /\ ShutUp
  /\ watcher' = "waiting"
  /\ UNCHANGED <<barge, listener, pageSide, audible, setting>>

(* The request recorded while the key is held, if any. *)
HandleBarge ==
  /\ listener = "listening" /\ barge
  /\ barge' = FALSE
  /\ listener' \in {"answering", "listening"}
  /\ UNCHANGED <<mouth, watcher, pageSide, audible, setting>>

(* set_output_active.  Each call of the page has a thread of its own, so the
   reports are noted in any order. *)
NotePlayback ==
  \E i \in DOMAIN reports :
    /\ audible' = reports[i]
    /\ reports' = RemoveAt(reports, i)
    /\ overtaken' = (overtaken \/ (i = Len(reports) /\ \E j \in DOMAIN reports : reports[j] # reports[i]))
    /\ UNCHANGED <<mouth, bridge, poll, player, setting>>

(* A report that is made anew is the newest. *)
Report(new) ==
  /\ reports' = reports \o new
  /\ overtaken' = (overtaken /\ new = << >>)

-----------------------------------------------------------------------------
(* The player of the page *)

(* stopCurrent.  Pausing an audio that has not started breaks its promise. *)
Stopped(p) ==
  [p EXCEPT !.current = NoAudio, !.started = FALSE,
            !.aborted = IF setting.aborts /\ p.current # NoAudio /\ ~p.started
                        THEN @ \cup {p.current} ELSE @]

PlaysNext(p) == p.current = NoAudio /\ p.pending # << >>

NextPlayed(p) ==
  IF PlaysNext(p)
  THEN [p EXCEPT !.current = Head(p.pending), !.pending = Tail(@), !.started = FALSE]
  ELSE p

NextReport(p) ==
  IF PlaysNext(p) THEN <<TRUE>> ELSE IF p.current = NoAudio THEN <<FALSE>> ELSE << >>

(* playNext of a player. *)
PlayNext(p) == player' = NextPlayed(p) /\ Report(NextReport(p))

\* mutant: the generation of the answer is not looked at
NewestItems(p, answer) ==
  LET newer == {s \in ToSet(answer.items) : s > p.last}
  IN IF newer = {} THEN p.last ELSE CHOOSE s \in newer : \A t \in newer : t <= s

Newest(p, answer) ==
  LET known == {p.last, answer.generation} \cup ToSet(answer.items)
  IN CHOOSE s \in known : \A t \in known : t <= s

(* Those packets of an answer that are of a generation. *)
PacketsOf(items, s) == [i \in 1..Cardinality({j \in DOMAIN items : items[j] = s}) |-> s]

(* A newer generation drops what waits and stops what plays; older packets of
   the answer are dropped. *)
Received(p, answer) ==
  LET newest == Newest(p, answer)
      heard  == IF newest > p.last THEN Stopped([p EXCEPT !.pending = << >>]) ELSE p
  IN [heard EXCEPT !.last = newest,
                   !.pending = @ \o PacketsOf(answer.items, newest)]

\* mutant: what stopped is reported after what starts
AnswerReportsSwapped(p, answer) ==
  NextReport(Received(p, answer)) \o IF Newest(p, answer) > p.last THEN <<FALSE>> ELSE << >>

AnswerReports(p, answer) ==
  (IF Newest(p, answer) > p.last THEN <<FALSE>> ELSE << >>) \o NextReport(Received(p, answer))

(* Reports are quick beside the 180 ms between two polls. *)
BeginPoll ==
  /\ poll.pc = "idle" /\ Len(reports) < MaxReports
  /\ poll' = [pc |-> "take", generation |-> generation]
  /\ UNCHANGED <<mouth, bridge, player, reporting, audible, setting>>

TakeAudio ==
  /\ poll.pc = "take"
  /\ poll' = [pc |-> "answer", generation |-> poll.generation, items |-> queue]
  /\ queue' = << >>
  /\ UNCHANGED <<generation, speaking, workers, cutAt, bridge, player, reporting, audible,
                 setting>>

ReceiveAudio ==
  /\ poll.pc = "answer"
  /\ player' = NextPlayed(Received(player, poll))
  /\ Report(AnswerReports(player, poll))
  /\ poll' = [pc |-> "idle"]
  /\ UNCHANGED <<mouth, bridge, audible, setting>>

AudioStarts ==
  /\ player.current # NoAudio /\ ~player.started
  /\ player' = [player EXCEPT !.started = TRUE]
  /\ UNCHANGED <<mouth, bridge, poll, reporting, audible, setting>>

AudioEnds ==
  /\ player.current # NoAudio /\ player.started
  /\ PlayNext([player EXCEPT !.current = NoAudio, !.started = FALSE])
  /\ UNCHANGED <<mouth, bridge, poll, audible, setting>>

(* The handler of a broken promise puts the packet back, forgets what is
   current and waits for a poll or a click. *)
Refused(s, p) ==
  /\ player' = [p EXCEPT !.pending = <<s>> \o @, !.current = NoAudio, !.started = FALSE]
  /\ Report(<<FALSE>>)

(* The browser does not play before the user has touched the page. *)
PlayRefused ==
  /\ player.current # NoAudio /\ ~player.started
  /\ Len(reports) < MaxReports
  /\ Refused(player.current, player)
  /\ UNCHANGED <<mouth, bridge, poll, audible, setting>>

Sounding == {player.current} \ {NoAudio}

(* The promise of an audio that was stopped: what is current by now is not
   known to the player any more. *)
PlayAborted(s) ==
  /\ Refused(s, [player EXCEPT !.aborted = @ \ {s}, !.loose = @ \cup Sounding])
  /\ UNCHANGED <<mouth, bridge, poll, audible, setting>>

LooseEnds(s) ==
  /\ PlayNext([player EXCEPT !.loose = (@ \ {s}) \cup Sounding, !.current = NoAudio,
                             !.started = FALSE])
  /\ UNCHANGED <<mouth, bridge, poll, audible, setting>>

-----------------------------------------------------------------------------
PollStep == BeginPoll \/ TakeAudio \/ ReceiveAudio

CurrentPlays == AudioStarts \/ AudioEnds

OthersEnd ==
  \/ \E s \in player.aborted : PlayAborted(s)
  \/ \E s \in player.loose : LooseEnds(s)

WorkerEnds == \E job \in workers : EndWorker(job)

VInit ==
  /\ generation = 0 /\ queue = << >> /\ speaking = FALSE /\ workers = {} /\ cutAt = 0
  /\ barge = FALSE /\ watcher = "waiting" /\ listener = "listening"
  /\ poll = [pc |-> "idle"]
  /\ player = [last |-> 0, pending |-> << >>, current |-> NoAudio, started |-> FALSE,
               aborted |-> {}, loose |-> {}]
  /\ reports = << >> /\ overtaken = FALSE /\ audible = FALSE
  /\ setting \in VoiceSettings

VNext ==
  \/ \E job \in workers : EmitPacket(job)
  \/ WorkerEnds \/ TestSpeech
  \/ HearRequest \/ Answer \/ EndAnswer \/ PressKey \/ CutSpeech \/ HandleBarge
  \/ NotePlayback \/ PollStep \/ CurrentPlays \/ OthersEnd \/ PlayRefused

VSpec == VInit /\ [][VNext]_vvars

(* Synthesis ends, calls arrive, the page keeps polling, audio plays to its end. *)
VFairSpec ==
  /\ VSpec
  /\ WF_vvars(WorkerEnds) /\ WF_vvars(NotePlayback)
  /\ WF_vvars(PollStep) /\ WF_vvars(CurrentPlays) /\ WF_vvars(OthersEnd)

-----------------------------------------------------------------------------
(* Properties *)

VTypeOK ==
  /\ generation \in 0..MaxGeneration /\ cutAt \in 0..generation
  /\ queue \in Seq(Generations) /\ Len(queue) <= MaxQueue
  /\ workers \subseteq Worker /\ poll \in Poll /\ player \in Player
  /\ {speaking, barge, audible, overtaken} \subseteq BOOLEAN
  /\ watcher \in {"waiting", "cutting"} /\ listener \in {"listening", "answering"}
  /\ reports \in Seq(BOOLEAN) /\ setting \in VoiceSettings

(* Nothing said before the mouth was shut up reaches the queue afterwards,
   however late its worker comes (elevenlabs_voice.py:390). *)
ShutUpIsFinal == \A s \in ToSet(queue) : s > cutAt

(* "The microphone is speaker-gated during Jarvis playback": once the page's
   reports have arrived, the newest of them not before one that says otherwise,
   no audio sounds with the microphone open, unless the user barges in. *)
MicIsGatedWhileSounding ==
  ~setting.aborts /\ ~barge /\ ~overtaken /\ reports = << >> /\ player.current # NoAudio
    => SpeakerGate

(* The answer of a poll that was begun after speech was cut or superseded ends
   that speech: nothing older waits or sounds from then on. *)
AnswerSilencesOlder ==
  [][ReceiveAudio /\ ~setting.aborts =>
       \A s \in ToSet(player'.pending) \cup ({player'.current} \ {NoAudio}) :
         s >= poll.generation]_vvars

(* Whatever was said, cut, superseded or failed, the microphone opens again; an
   end of playback noted before its beginning leaves it closed until the next. *)
HearsAgain == ~setting.tests => []<>(overtaken \/ ~(speaking \/ audible))

(* "The microphone is speaker-gated during Jarvis playback" (JARVIS_VOICE.md:31)
   and open otherwise, also after ElevenLabs was tested. *)
TestKeepsHearing == []<>(overtaken \/ ~(speaking \/ audible))

=============================================================================
