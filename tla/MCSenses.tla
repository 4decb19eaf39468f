------------------------------ MODULE MCSenses ------------------------------
(***************************************************************************)
(* Hand control, speech output and the life of the voice share no          *)
(* variable: a behaviour of this module is one of one of them, chosen at   *)
(* the start.                                                              *)
(***************************************************************************)
EXTENDS HandControl, VoiceOutput, VoiceBridge

CONSTANT Focuses

VARIABLE focus

svars == <<hvars, vvars, bridgeVars, focus>>

Pose(fingers, pinch) == [fingers |-> fingers, pinch |-> pinch]

(* Pointing and pinching, a fist, an open palm; a released pinch as well. *)
LiveGestures == {Pose(1, TRUE), Pose(0, FALSE), Palm}
FewGestures  == LiveGestures \cup {Pose(1, FALSE)}

Environment(overlaps, corners) == [overlaps |-> overlaps, lapses |-> TRUE, corners |-> corners]

Calm == {Environment(FALSE, FALSE)}
CalmCornersAndRough == Calm \cup {Environment(FALSE, TRUE), Environment(TRUE, FALSE)}

Setting(speech, aborts, tests) == [engine |-> speech, aborts |-> aborts, tests |-> tests]

OneTest  == {Setting("elevenlabs", FALSE, TRUE)}
Settings == OneTest \cup {Setting("kokoro", FALSE, FALSE), Setting("kokoro", TRUE, FALSE)}

HandsOnly == {"hands"}
VoiceOnly == {"voice"}
AllSenses == {"hands", "voice", "bridge"}

(* What is chosen for the part that rests does not matter; a machine without a
   preflight does nothing that one whose preflight succeeds does not. *)
SInit ==
  /\ HInit /\ VInit /\ BridgeInit /\ focus \in Focuses
  /\ focus # "voice" => setting = CHOOSE s \in VoiceSettings : TRUE
  /\ focus # "hands" => hand = Palm /\ env = CHOOSE e \in Environments : TRUE
  /\ choice = kokoro
  /\ IF focus = "bridge" THEN settings = "old" /\ mic.preflight
     ELSE /\ mic = CHOOSE m \in Machines : TRUE
          /\ settings = "absent" /\ keyed

Hands(A) == focus = "hands" /\ A /\ UNCHANGED <<vvars, bridgeVars, focus>>
Voice(A) == focus = "voice" /\ A /\ UNCHANGED <<hvars, bridgeVars, focus>>
Bridge(A) == focus = "bridge" /\ A /\ UNCHANGED <<hvars, vvars, focus>>

SSpec == SInit /\ [][Hands(HNext) \/ Voice(VNext) \/ Bridge(BridgeNext)]_svars

(* The fairness of HFairSpec, VFairSpec and BridgeFairSpec. *)
SFairSpec ==
  /\ SSpec
  /\ WF_svars(Hands(OffStep(Dog))) /\ WF_svars(Hands(Watch))
  /\ WF_svars(Hands(AllIdle /\ Lapse))
  /\ WF_svars(Voice(WorkerEnds)) /\ WF_svars(Voice(NotePlayback))
  /\ WF_svars(Voice(PollStep)) /\ WF_svars(Voice(CurrentPlays))
  /\ WF_svars(Voice(OthersEnd))
  /\ WF_svars(Bridge(EarStep))

(* The watchdog ends hand control when samples stop, in the behaviours that are
   about hand control. *)
HandControlEnds == focus = "hands" => ControlEndsWithoutSamples

(* What was cut, superseded or replaced is not heard any more: neither an  *)
(* utterance of the mouth nor the mouth that was in use before.            *)
SilencedStaysSilent == ShutUpIsFinal /\ OldMouthIsSilent

(* The gate opens again, and the thread that answered listens again.       *)
MicrophoneOpensAgain ==
  /\ focus = "voice" => HearsAgain
  /\ focus = "bridge" => ListensAgain

(* The types of all, with the limits of the player's queue. *)
SensesTypeOK == HTypeOK /\ VTypeOK /\ BridgeTypeOK

=============================================================================
