---------------------------- MODULE HandControl ----------------------------
(***************************************************************************)
(* Webcam hand control (hand_control.py, hand_control_server.py and the    *)
(* page hand-control.html).  The page posts what the camera sees without   *)
(* waiting for the answer; each post is handled on a thread of its own,    *)
(* which interprets the sample and dispatches the resulting events.  A     *)
(* watchdog thread and the owner's shutdown switch everything off.         *)
(*                                                                         *)
(* interpret is one step: it takes microseconds, while the mouse calls of  *)
(* dispatch pause for 0.05 s to 0.2 s each.                                *)
(***************************************************************************)
EXTENDS Naturals, Sequences, FiniteSets

CONSTANTS
  Handlers,      \* threads that may handle a request at the same time
  Poses,         \* hand poses shown to the camera, a subset of AllPoses
  PoseFrames,    \* pose_debounce_frames
  ResumeFrames,  \* resume_frames
  Environments   \* a subset of AllEnvironments

(* overlaps: requests, the watchdog and the owner may overlap;
   lapses: 0.75 s may go by without a sample;
   corners: the pointer may reach the corner that trips the fail-safe. *)
AllEnvironments == [overlaps : BOOLEAN, lapses : BOOLEAN, corners : BOOLEAN]

AllPoses == [fingers : {0, 1, 2, 5}, pinch : BOOLEAN]

ASSUME PosesAssumption  == Poses \subseteq AllPoses /\ Poses # {}
ASSUME FramesAssumption == {PoseFrames, ResumeFrames} \subseteq Nat \ {0}
ASSUME EnvironmentsAssumption == Environments \subseteq AllEnvironments

VARIABLES
  interp,    \* the interpreter
  bridgeOn,  \* the bridge is enabled
  button,    \* the left mouse button: up or down
  corner,    \* the pointer is in the fail-safe corner
  handler,   \* what each handler thread is doing
  off,       \* how far each actor is in switching everything off
  fresh,     \* the last sample is not older than 0.75 s
  serving,   \* the server was not shut down
  page,      \* the page: on, paused by an answer of the server, or off
  hand,      \* what the camera sees
  env        \* the environment, fixed from the beginning

hvars == <<interp, bridgeOn, button, corner, handler, off, fresh, serving, page, hand, env>>

Dog    == "watchdog"
Owner  == "owner"
Actors == Handlers \cup {Dog, Owner}

ASSUME ActorsAssumption == {Dog, Owner} \cap Handlers = {}

Palm == [fingers |-> 5, pinch |-> FALSE]

Events == {"move", "scroll", "click", "drag_start", "drag_end", "resume", "pause"}

Interpreter == [on : BOOLEAN, previous : {"none", "open", "pinch"}, armed : BOOLEAN,
                dragging : BOOLEAN, fists : 0..PoseFrames - 1, palms : 0..ResumeFrames - 1]

FreshInterpreter(on) == [on |-> on, previous |-> "none", armed |-> FALSE, dragging |-> FALSE,
              fists |-> 0, palms |-> 0]

HandlerIdle == [pc |-> "idle"]

Busy == [pc : {"interpret"}, pose : AllPoses]
          \cup [pc : {"dispatch", "act", "release"}, todo : Seq(Events)]
          \cup [pc : {"off"}]

-----------------------------------------------------------------------------
(* HandGestureInterpreter.interpret: a set of possible outcomes
   [state, events], because how far the hand moved and how much time went by
   is left open. *)

Reading(state, events) == [state |-> state, events |-> events]

(* Switched off, only a run of open palms counts. *)
WhileOff(i, pose) ==
  IF pose # Palm THEN Reading([i EXCEPT !.palms = 0], << >>)
  ELSE IF i.palms + 1 >= ResumeFrames THEN Reading(FreshInterpreter(TRUE), <<"resume">>)
  ELSE Reading([i EXCEPT !.palms = @ + 1], << >>)

(* Some frames with a closed fist pause control. *)
WithFist(i) ==
  IF i.fists + 1 >= PoseFrames THEN Reading(FreshInterpreter(FALSE), <<"pause">>)
  ELSE Reading([i EXCEPT !.fists = @ + 1], << >>)

Motions(i, pose) ==
  CASE pose.fingers = 1 /\ i.previous = "none" -> {<<"move">>}
    [] pose.fingers = 1 /\ i.previous # "none" -> {<< >>, <<"move">>}
    [] pose.fingers = 2 /\ i.previous # "none" -> {<< >>, <<"scroll">>}
    [] OTHER                                   -> {<< >>}

\* mutant: a drag that ends is forgotten without an event
PinchesForgotten(i, pose) ==
  IF pose.pinch /\ i.previous # "pinch" THEN {Reading([i EXCEPT !.armed = TRUE], << >>)}
  ELSE IF ~pose.pinch /\ i.previous = "pinch" THEN
    IF i.dragging
    THEN {Reading([i EXCEPT !.dragging = FALSE, !.armed = FALSE], << >>)}
    ELSE {Reading(i, << >>), Reading([i EXCEPT !.armed = FALSE], << >>),
          Reading([i EXCEPT !.armed = FALSE], <<"click">>)}
  ELSE IF pose.pinch /\ i.armed /\ ~i.dragging THEN
    {Reading(i, << >>), Reading([i EXCEPT !.dragging = TRUE], <<"drag_start">>)}
  ELSE {Reading(i, << >>)}

(* A pinch that begins, ends (drag_end, a click unless it cools down), or is
   held long enough to become a drag. *)
Pinches(i, pose) ==
  IF pose.pinch /\ i.previous # "pinch" THEN {Reading([i EXCEPT !.armed = TRUE], << >>)}
  ELSE IF ~pose.pinch /\ i.previous = "pinch" THEN
    IF i.dragging
    THEN {Reading([i EXCEPT !.dragging = FALSE, !.armed = FALSE], <<"drag_end">>)}
    ELSE {Reading(i, << >>), Reading([i EXCEPT !.armed = FALSE], << >>),
          Reading([i EXCEPT !.armed = FALSE], <<"click">>)}
  ELSE IF pose.pinch /\ i.armed /\ ~i.dragging THEN
    {Reading(i, << >>), Reading([i EXCEPT !.dragging = TRUE], <<"drag_start">>)}
  ELSE {Reading(i, << >>)}

Interpreted(i, pose) ==
  LET seen(o) == [o EXCEPT !.state.previous = IF pose.pinch THEN "pinch" ELSE "open"]
      kept(o) == IF o.events \in {<<"resume">>, <<"pause">>} THEN o ELSE seen(o)
      awake   == [i EXCEPT !.palms = 0]
  IN IF ~i.on THEN {kept(WhileOff(i, pose))}
     ELSE IF pose.fingers = 0 THEN {kept(WithFist(awake))}
     ELSE {seen(Reading(o.state, m \o o.events)) :
             m \in Motions(i, pose), o \in Pinches([awake EXCEPT !.fists = 0], pose)}

-----------------------------------------------------------------------------
(* Switching off, as done by /hand/stop, by a failing handler, by the watchdog
   and by shutdown: the interpreter, the bridge, then mouseUp, which the
   fail-safe refuses while the pointer is in the corner. *)

ReleaseButton == button' = IF corner THEN button ELSE "up"

OffInterpreter(a) ==
  /\ off[a] = "interpreter"
  /\ interp' = FreshInterpreter(FALSE)
  /\ off' = [off EXCEPT ![a] = "bridge"]
  /\ UNCHANGED <<bridgeOn, button, corner, handler, fresh, serving, page, hand, env>>

OffBridge(a) ==
  /\ off[a] = "bridge"
  /\ bridgeOn' = FALSE
  /\ off' = [off EXCEPT ![a] = "button"]
  /\ UNCHANGED <<interp, button, corner, handler, fresh, serving, page, hand, env>>

(* A handler answers once all is off, and the answer stops the page. *)
OffButton(a) ==
  /\ off[a] = "button"
  /\ ReleaseButton
  /\ off' = [off EXCEPT ![a] = "no"]
  /\ handler' = IF a \in Handlers THEN [handler EXCEPT ![a] = HandlerIdle] ELSE handler
  /\ page' = IF a \in Handlers THEN "off" ELSE page
  /\ UNCHANGED <<interp, bridgeOn, corner, fresh, serving, hand, env>>

-----------------------------------------------------------------------------
(* The page and the handler threads *)

AllIdle == \A h \in Handlers : handler[h] = HandlerIdle

HandsQuiet == AllIdle /\ \A a \in Actors : off[a] = "no"

(* Without overlaps an activity begins when no other one is under way. *)
MayBegin == env.overlaps \/ HandsQuiet

ShowHand ==
  /\ hand' \in Poses \ {hand}
  /\ UNCHANGED <<interp, bridgeOn, button, corner, handler, off, fresh, serving, page, env>>

(* send and do_POST up to note_sample.  Nothing is sent once the page is not on. *)
PostSample(h) ==
  /\ serving /\ page = "on" /\ handler[h] = HandlerIdle /\ MayBegin
  /\ handler' = [handler EXCEPT ![h] = [pc |-> "interpret", pose |-> hand]]
  /\ fresh' = TRUE
  /\ UNCHANGED <<interp, bridgeOn, button, corner, off, serving, page, hand, env>>

(* The stop button, Escape, or no hand for 0.8 s: /hand/stop. *)
PostStop(h) ==
  /\ serving /\ handler[h] = HandlerIdle /\ MayBegin
  /\ page' = "off" /\ fresh' = TRUE
  /\ handler' = [handler EXCEPT ![h] = [pc |-> "off"]]
  /\ off' = [off EXCEPT ![h] = "interpreter"]
  /\ UNCHANGED <<interp, bridgeOn, button, corner, serving, hand, env>>

(* The page is loaded again. *)
ReloadPage ==
  /\ serving /\ page # "on"
  /\ page' = "on"
  /\ UNCHANGED <<interp, bridgeOn, button, corner, handler, off, fresh, serving, hand, env>>

InterpretSample(h) ==
  /\ handler[h].pc = "interpret"
  /\ \E o \in Interpreted(interp, handler[h].pose) :
       /\ interp' = o.state
       /\ handler' = [handler EXCEPT ![h] = [pc |-> "dispatch", todo |-> o.events]]
  /\ fresh' = TRUE
  /\ UNCHANGED <<bridgeOn, button, corner, off, serving, page, hand, env>>

Ready(h, event) ==
  handler[h].pc = "dispatch" /\ handler[h].todo # << >> /\ Head(handler[h].todo) = event

NextEvent(h) ==
  handler' = [handler EXCEPT ![h] = [pc |-> "dispatch", todo |-> Tail(handler[h].todo)]]

DispatchResume(h) ==
  /\ Ready(h, "resume")
  /\ bridgeOn' = TRUE
  /\ NextEvent(h)
  /\ UNCHANGED <<interp, button, corner, off, fresh, serving, page, hand, env>>

DispatchPause(h) ==
  /\ Ready(h, "pause")
  /\ bridgeOn' = FALSE
  /\ handler' = [handler EXCEPT ![h].pc = "release"]
  /\ UNCHANGED <<interp, button, corner, off, fresh, serving, page, hand, env>>

ReleaseOnPause(h) ==
  /\ handler[h].pc = "release"
  /\ ReleaseButton
  /\ NextEvent(h)
  /\ UNCHANGED <<interp, bridgeOn, corner, off, fresh, serving, page, hand, env>>

(* Any other event: dropped unless the bridge is enabled, and acted on after
   the check. *)
DispatchInput(h) ==
  /\ \E event \in Events \ {"resume", "pause"} : Ready(h, event)
  /\ IF bridgeOn THEN handler' = [handler EXCEPT ![h].pc = "act"] ELSE NextEvent(h)
  /\ UNCHANGED <<interp, bridgeOn, button, corner, off, fresh, serving, page, hand, env>>

Act(h) ==
  /\ handler[h].pc = "act" /\ ~corner
  /\ LET event == Head(handler[h].todo) IN
       /\ button' = CASE event = "drag_start" -> "down"
                      [] event \in {"drag_end", "click"} -> "up"
                      [] OTHER -> button
       /\ corner' \in IF event = "move" /\ env.corners THEN BOOLEAN ELSE {corner}
  /\ NextEvent(h)
  /\ UNCHANGED <<interp, bridgeOn, off, fresh, serving, page, hand, env>>

(* In the corner every mouse call raises, and the handler switches off. *)
ActFails(h) ==
  /\ handler[h].pc = "act" /\ corner
  /\ handler' = [handler EXCEPT ![h] = [pc |-> "off"]]
  /\ off' = [off EXCEPT ![h] = "interpreter"]
  /\ UNCHANGED <<interp, bridgeOn, button, corner, fresh, serving, page, hand, env>>

(* The answer says whether the bridge is enabled; the page pauses if not. *)
AnswerSample(h) ==
  /\ handler[h].pc = "dispatch" /\ handler[h].todo = << >>
  /\ handler' = [handler EXCEPT ![h] = HandlerIdle]
  /\ page' = IF page = "on" /\ ~bridgeOn THEN "paused" ELSE page
  /\ UNCHANGED <<interp, bridgeOn, button, corner, off, fresh, serving, hand, env>>

-----------------------------------------------------------------------------
(* The watchdog and the owner *)

(* 0.75 s without a sample. *)
Lapse ==
  /\ env.lapses /\ fresh
  /\ fresh' = FALSE
  /\ UNCHANGED <<interp, bridgeOn, button, corner, handler, off, serving, page, hand, env>>

\* mutant: the watchdog looks at the interpreter only
LooksAliveInterpreter == interp.on

LooksAlive == bridgeOn

Watch ==
  /\ serving /\ off[Dog] = "no" /\ LooksAlive /\ ~fresh /\ MayBegin
  /\ off' = [off EXCEPT ![Dog] = "interpreter"]
  /\ UNCHANGED <<interp, bridgeOn, button, corner, handler, fresh, serving, page, hand, env>>

ShutdownServer ==
  /\ serving /\ MayBegin
  /\ serving' = FALSE
  /\ off' = [off EXCEPT ![Owner] = "interpreter"]
  /\ UNCHANGED <<interp, bridgeOn, button, corner, handler, fresh, page, hand, env>>

(* HandControlRuntime.start makes a server of its own and opens the page.  (A
   start while requests of the previous server are under way is left out.) *)
StartServer ==
  /\ ~serving /\ HandsQuiet
  /\ interp' = FreshInterpreter(TRUE) /\ bridgeOn' = TRUE
  /\ fresh' = TRUE /\ serving' = TRUE /\ page' = "on"
  /\ UNCHANGED <<button, corner, handler, off, hand, env>>

-----------------------------------------------------------------------------
OffStep(a) == OffInterpreter(a) \/ OffBridge(a) \/ OffButton(a)

HandlerStep(h) ==
  \/ InterpretSample(h) \/ DispatchResume(h) \/ DispatchPause(h) \/ ReleaseOnPause(h)
  \/ DispatchInput(h) \/ Act(h) \/ ActFails(h) \/ AnswerSample(h)

HInit ==
  /\ interp = FreshInterpreter(TRUE) /\ bridgeOn = TRUE
  /\ button = "up" /\ corner = FALSE
  /\ handler = [h \in Handlers |-> HandlerIdle]
  /\ off = [a \in Actors |-> "no"]
  /\ fresh = TRUE /\ serving = TRUE /\ page = "on"
  /\ hand \in Poses /\ env \in Environments

HNext ==
  \/ \E a \in Actors : OffStep(a)
  \/ \E h \in Handlers : PostSample(h) \/ PostStop(h) \/ HandlerStep(h)
  \/ ShowHand \/ ReloadPage \/ Lapse \/ Watch \/ ShutdownServer \/ StartServer

HSpec == HInit /\ [][HNext]_hvars

(* The watchdog thread runs on and time passes while no request is handled;
   nothing is assumed of the page, its requests or the owner. *)
HFairSpec ==
  /\ HSpec
  /\ WF_hvars(OffStep(Dog)) /\ WF_hvars(Watch) /\ WF_hvars(AllIdle /\ Lapse)

-----------------------------------------------------------------------------
(* Properties *)

HTypeOK ==
  /\ interp \in Interpreter /\ button \in {"up", "down"}
  /\ {bridgeOn, corner, fresh, serving} \subseteq BOOLEAN
  /\ \A h \in Handlers : \/ handler[h] = HandlerIdle \/ handler[h] \in Busy
  /\ \A h \in Handlers : handler[h].pc = "off" <=> off[h] # "no"
  /\ off \in [Actors -> {"no", "interpreter", "bridge", "button"}]
  /\ page \in {"on", "paused", "off"} /\ hand \in Poses /\ env \in Environments

(* Without overlaps interpreter, bridge and mouse agree between requests: the
   button is down exactly while the interpreter drags, and both are enabled or
   neither, whatever the hand, the watchdog and the owner do. *)
MouseFollowsInterpreter ==
  HandsQuiet /\ ~env.overlaps /\ ~env.corners =>
    /\ interp.on = bridgeOn
    /\ (button = "down") = interp.dragging
    /\ interp.dragging => interp.on

(* "Stop hand control: stop the bridge and release any held mouse button"
   (README_HAND_CONTROL.md:13). *)
StopReleases == HandsQuiet /\ ~bridgeOn => button = "up"

(* "If hand samples stop arriving, Jarvis releases any held button"
   (README_HAND_CONTROL.md:17): the same, said of the watchdog. *)
WatchdogReleases == HandsQuiet /\ ~bridgeOn /\ ~fresh => button = "up"

(* "releasing the pinch releases the button" (README_HAND_CONTROL.md:9). *)
ButtonFollowsPinch ==
  HandsQuiet /\ button = "down" /\ interp.fists = 0 => interp.previous = "pinch"

(* The watchdog ends control whenever samples stop, whichever way requests and
   switching off interleaved before. *)
ControlEndsWithoutSamples == <>[](AllIdle /\ serving) => <>[]~bridgeOn

(* "Open palm held briefly: resume after pause" (README_HAND_CONTROL.md:12). *)
PalmResumes == <>[](hand = Palm /\ page # "off" /\ serving /\ ~corner) => []<>bridgeOn

=============================================================================
