---------------------------- MODULE DesktopHost ----------------------------
(***************************************************************************)
(* The desktop program (src/scripts/jarvis_desktop.py): the start of its   *)
(* components, its windows while it runs, and its stop.                    *)
(*                                                                         *)
(* main starts the visualizer, the host's components (of which all but the *)
(* visualizer may fail), the windows and the hotkey, and runs the window   *)
(* loop; whatever raised, it ends with the stop of what was started.  The  *)
(* loop ends when every window is closed.                                  *)
(*                                                                         *)
(* While the loop runs the hotkey, the page's float button and the close   *)
(* button of the floating bar toggle where the text link is.  A toggle     *)
(* holds _floating_lock, sets _floating_visible, and then shows or hides   *)
(* the bar.  The handlers of the two close events do not hold the lock, or *)
(* not all the time, and may come in between; the page acts again when the *)
(* answer of its call arrives.                                             *)
(*                                                                         *)
(* The window library is outside of the repository: its calls are taken to *)
(* act at once and not to wait for the thread whose handler they answer.   *)
(***************************************************************************)
EXTENDS Naturals, FiniteSets

CONSTANTS
  MaxGestures,  \* bound: what the user does to the windows
  Fragile,      \* the components whose stop may raise
  Awaited       \* those whose stop waits for their threads for some seconds only

ASSUME HostBounds == MaxGestures \in Nat

VARIABLES
  at,        \* where main is
  hosted,    \* the host exists
  running,   \* the components that run
  broken,    \* those whose stop raised
  late,      \* those that were told to stop and were not awaited to the end
  saved,     \* the neural world was saved by the stop
  main,      \* the main window
  floating,  \* the floating bar's window
  ref,       \* the host's _floating_window is set
  visible,   \* _floating_visible
  link,      \* the main window shows its text link
  settings,  \* the provider settings window; "closed": its event is not handled yet
  shutting,  \* _shutting_down
  closing,   \* the floating bar's close handler: "none", "said", "hidden"
  leaving,   \* the main window's close handler is under way
  pressed,   \* the hotkey's callback: "none", "waits" for the lock, "toggles"
  floatCall, \* the page's float button: "none", "toggles", "done" and not answered yet
  toggling,  \* the toggle that holds the lock: "none", "shows", "hides"
  crossed,   \* history: a close event came into the last toggle, which showed the bar
  gestures   \* how many things the user did

mainVars == <<at, hosted, running, broken, late, saved>>
toggleVars == <<pressed, floatCall, toggling, crossed>>
windowVars == <<main, floating, ref, visible, link, settings, shutting, closing, leaving, toggleVars, gestures>>
hvars == <<mainVars, windowVars>>

Components == {"visualizer", "bridge", "mouths", "hands", "hotkey", "updater", "warm-up", "gateway"}
Starts == {"visualizer", "controller", "host", "voice", "hands", "updater", "windows", "hotkey"}
Stops == {"stop hotkey", "stop settings", "stop floating", "stop updater", "stop warm-up", "save",
          "stop hands", "stop voice", "stop visualizer", "close"}
Places == Starts \cup Stops \cup {"loop", "cleanup", "ended", "gone"}

-----------------------------------------------------------------------------
(* The start: a step of main from one place to the next. *)

On(from, to, C) ==
  /\ at = from /\ at' = to /\ running' = running \cup C
  /\ UNCHANGED <<broken, late, saved, windowVars>>

VisualizerStarts ==
  /\ On("visualizer", "controller", {"visualizer"}) \/ On("visualizer", "cleanup", {})
  /\ UNCHANGED hosted

(* The runtime and the host are built; without a host only the visualizer is stopped. *)
HostIsBuilt ==
  \/ On("controller", "host", {}) /\ hosted' = TRUE
  \/ On("controller", "cleanup", {}) /\ UNCHANGED hosted

(* The visualizer runs already; the gateway is warmed up in a thread, if at all. *)
HostStarts == \E C \in {{}, {"warm-up"}} : On("host", "voice", C) /\ UNCHANGED hosted

(* Off, or failed before or after the bridge was kept, or started. *)
VoiceStarts ==
  \E C \in {{}, {"bridge"}, {"bridge", "mouths"}} : On("voice", "hands", C) /\ UNCHANGED hosted

HandsStart == \E C \in {{}, {"hands"}} : On("hands", "updater", C) /\ UNCHANGED hosted

UpdaterStarts == \E C \in {{}, {"updater"}} : On("updater", "windows", C) /\ UNCHANGED hosted

(* A floating bar is made hidden, unless the host has one. *)
MadeFloating == IF ref THEN floating ELSE "hidden"

WindowsAreMade ==
  /\ at = "windows"
  /\ \/ at' = "hotkey" /\ main' = "open" /\ floating' = MadeFloating /\ ref' = TRUE
     \/ at' = "stop hotkey" /\ UNCHANGED <<main, floating, ref>>
  /\ UNCHANGED <<hosted, running, broken, late, saved, visible, link, settings, shutting, closing, leaving, toggleVars, gestures>>

HotkeyStarts == \E C \in {{}, {"hotkey"}} : On("hotkey", "loop", C) /\ UNCHANGED hosted

(* The warm-up starts the gateway, or gives up. *)
WarmUpEnds ==
  /\ "warm-up" \in running
  /\ \E C \in {{}, {"gateway"}} : running' = (running \ {"warm-up"}) \cup C
  /\ UNCHANGED <<at, hosted, broken, late, saved, windowVars>>

-----------------------------------------------------------------------------
(* The windows. *)

Free == toggling = "none"

Gesture ==
  /\ at = "loop" /\ gestures < MaxGestures /\ gestures' = gestures + 1
  /\ UNCHANGED mainVars

(* mutant: a toggle does not keep what it did *)
ToggleForgets(target) ==
  /\ Free /\ toggling' = (IF target THEN "shows" ELSE "hides") /\ crossed' = FALSE
  /\ ref' = TRUE /\ floating' = MadeFloating
  /\ visible' = visible
  /\ link' = IF target THEN FALSE ELSE link

(* With the lock: a bar is made, the boolean set, the link taken away from the main window. *)
BeginToggle(target) ==
  /\ Free /\ toggling' = (IF target THEN "shows" ELSE "hides") /\ crossed' = FALSE
  /\ ref' = TRUE /\ floating' = MadeFloating
  /\ visible' = target
  /\ link' = IF target THEN FALSE ELSE link

(* A window that was closed behind the host raises, and the lock is free all the same. *)
ToggleEnds ==
  /\ ~Free /\ toggling' = "none"
  /\ IF floating = "none"
       THEN UNCHANGED <<floating, link>>
       ELSE /\ floating' = IF toggling = "shows" THEN "shown" ELSE "hidden"
            /\ link' = IF toggling = "hides" THEN TRUE ELSE link
  /\ pressed' = IF pressed = "toggles" THEN "none" ELSE pressed
  /\ floatCall' = IF floatCall = "toggles" THEN "done" ELSE floatCall
  /\ UNCHANGED <<mainVars, main, ref, visible, settings, shutting, closing, leaving, crossed, gestures>>

PressHotkey ==
  /\ "hotkey" \in running /\ pressed = "none" /\ Gesture /\ pressed' = "waits"
  /\ UNCHANGED <<main, floating, ref, visible, link, settings, shutting, closing, leaving, floatCall, toggling, crossed>>

(* The callback runs on in a program that is stopped meanwhile. *)
HotkeyToggles ==
  /\ pressed = "waits" /\ at \notin {"ended", "gone"} /\ BeginToggle(~visible) /\ pressed' = "toggles"
  /\ UNCHANGED <<mainVars, main, settings, shutting, closing, leaving, floatCall, gestures>>

PressClose ==
  /\ floating = "shown" /\ Gesture /\ BeginToggle(FALSE)
  /\ UNCHANGED <<main, settings, shutting, closing, leaving, pressed, floatCall>>

PressFloat ==
  /\ main = "open" /\ link /\ floatCall = "none" /\ Gesture /\ BeginToggle(TRUE)
  /\ floatCall' = "toggles"
  /\ UNCHANGED <<main, settings, shutting, closing, leaving, pressed>>

FloatAnswered ==
  /\ floatCall = "done" /\ floatCall' = "none" /\ link' = FALSE
  /\ UNCHANGED <<mainVars, main, floating, ref, visible, settings, shutting, closing, leaving, pressed, toggling, crossed, gestures>>

(* The bar's own close event: hides it, and closes it only in a program that ends. *)
CloseFloating ==
  /\ floating = "shown" /\ closing = "none" /\ Gesture
  /\ IF shutting THEN floating' = "none" /\ UNCHANGED <<visible, closing, crossed>>
                 ELSE /\ visible' = FALSE /\ closing' = "said" /\ UNCHANGED floating
                      /\ crossed' = IF toggling = "shows" THEN TRUE ELSE crossed
  /\ UNCHANGED <<main, ref, link, settings, shutting, leaving, pressed, floatCall, toggling>>

FloatingIsHidden ==
  /\ closing = "said"
  /\ closing' = "hidden"
  /\ floating' = IF ref THEN "hidden" ELSE floating
  /\ UNCHANGED <<mainVars, main, ref, visible, link, settings, shutting, leaving, toggleVars, gestures>>

LinkIsShown ==
  /\ closing = "hidden" /\ closing' = "none" /\ link' = TRUE
  /\ UNCHANGED <<mainVars, main, floating, ref, visible, settings, shutting, leaving, toggleVars, gestures>>

CloseMain ==
  /\ main = "open" /\ ~leaving /\ Gesture
  /\ shutting' = TRUE /\ visible' = FALSE /\ leaving' = TRUE
  /\ UNCHANGED <<main, floating, ref, link, settings, closing, toggleVars>>

MainIsClosed ==
  /\ leaving /\ Free
  /\ leaving' = FALSE /\ main' = "closed" /\ ref' = FALSE /\ floatCall' = "none"
  /\ floating' = IF ref THEN "none" ELSE floating
  /\ UNCHANGED <<mainVars, visible, link, settings, shutting, closing, pressed, toggling, crossed, gestures>>

OpenSettings ==
  /\ main = "open" /\ Free /\ Gesture
  /\ settings' = IF settings = "none" THEN "open" ELSE settings
  /\ UNCHANGED <<main, floating, ref, visible, link, shutting, closing, leaving, toggleVars>>

CloseSettings ==
  /\ settings = "open" /\ Gesture /\ settings' = "closed"
  /\ UNCHANGED <<main, floating, ref, visible, link, shutting, closing, leaving, toggleVars>>

SettingsAreForgotten ==
  /\ settings = "closed" /\ Free /\ settings' = "none"
  /\ UNCHANGED <<mainVars, main, floating, ref, visible, link, shutting, closing, leaving, toggleVars, gestures>>

LoopEnds ==
  /\ at = "loop" /\ main = "closed" /\ floating = "none" /\ settings # "open"
  /\ at' = "stop hotkey"
  /\ UNCHANGED <<hosted, running, broken, late, saved, windowVars>>

-----------------------------------------------------------------------------
(* The stop.  What raises in a step of its own stays as it is, with what   *)
(* that step would have stopped next: the mouths after the bridge.  What   *)
(* was told to stop is awaited for some seconds only, and may end later.   *)

Stuck(C) == SUBSET (C \cap running \cap Fragile)
Slow(C) == SUBSET (C \cap running \cap Awaited)

(* mutant: what raises ends the stop *)
StopRaises(from, to, C) ==
  /\ at = from
  /\ \E bad \in Stuck(C), slow \in Slow(C) :
       /\ running' = (running \ C) \cup bad \cup slow
       /\ broken' = broken \cup bad /\ late' = late \cup (slow \ bad)
       /\ at' = IF bad = {} THEN to ELSE "ended"
  /\ UNCHANGED hosted

Off(from, to, C) ==
  /\ at = from /\ at' = to
  /\ \E bad \in Stuck(C), slow \in Slow(C) :
       /\ running' = (running \ C) \cup bad \cup slow
       /\ broken' = broken \cup bad /\ late' = late \cup (slow \ bad)
  /\ UNCHANGED hosted

(* What is late ends by itself, or with the process; the hotkey after its callback. *)
LateEnds(c) ==
  /\ at # "ended" /\ c \in late /\ (c = "hotkey" => pressed = "none")
  /\ running' = running \ {c} /\ late' = late \ {c}
  /\ UNCHANGED <<at, hosted, broken, saved, windowVars>>

(* Without a host main only stops the visualizer. *)
CleanUp ==
  /\ at = "cleanup"
  /\ at' = IF hosted THEN "stop hotkey" ELSE "stop visualizer"
  /\ UNCHANGED <<hosted, running, broken, late, saved, windowVars>>

StopHotkey ==
  /\ Off("stop hotkey", "stop settings", {"hotkey"}) /\ shutting' = TRUE
  /\ UNCHANGED <<saved, main, floating, ref, visible, link, settings, closing, leaving, toggleVars, gestures>>

StopSettings ==
  /\ Free /\ Off("stop settings", "stop floating", {}) /\ settings' = "none"
  /\ UNCHANGED <<saved, main, floating, ref, visible, link, shutting, closing, leaving, toggleVars, gestures>>

StopFloating ==
  /\ Free /\ Off("stop floating", "stop updater", {}) /\ ref' = FALSE
  /\ floating' = IF ref THEN "none" ELSE floating
  /\ UNCHANGED <<saved, main, visible, link, settings, shutting, closing, leaving, toggleVars, gestures>>

StopUpdater == Off("stop updater", "stop warm-up", {"updater"}) /\ UNCHANGED <<saved, windowVars>>

(* The stop waits two seconds for the warm-up, which it cannot tell to stop. *)
StopWarmUp == Off("stop warm-up", "save", {}) /\ UNCHANGED <<saved, windowVars>>

Save == Off("save", "stop hands", {}) /\ saved' \in BOOLEAN /\ UNCHANGED windowVars

StopHands == Off("stop hands", "stop voice", {"hands"}) /\ UNCHANGED <<saved, windowVars>>

StopVoice == Off("stop voice", "stop visualizer", {"bridge", "mouths"}) /\ UNCHANGED <<saved, windowVars>>

StopVisualizer ==
  Off("stop visualizer", IF hosted THEN "close" ELSE "ended", {"visualizer"}) /\ UNCHANGED <<saved, windowVars>>

Close == Off("close", "ended", {}) /\ UNCHANGED <<saved, windowVars>>

(* A staged update ends the program where it is, without its stop. *)
ExitForUpdate ==
  /\ "updater" \in running /\ at \notin {"ended", "gone"} /\ at' = "gone"
  /\ running' = running \cap {"gateway"}
  /\ late' = {}
  /\ UNCHANGED <<hosted, broken, saved, windowVars>>

-----------------------------------------------------------------------------

MainStep ==
  \/ VisualizerStarts \/ HostIsBuilt \/ HostStarts \/ VoiceStarts \/ HandsStart \/ UpdaterStarts
  \/ WindowsAreMade \/ HotkeyStarts
  \/ LoopEnds
  \/ CleanUp \/ StopHotkey \/ StopSettings \/ StopFloating \/ StopUpdater \/ StopWarmUp
  \/ Save \/ StopHands \/ StopVoice \/ StopVisualizer \/ Close

WindowStep ==
  \/ PressHotkey \/ HotkeyToggles \/ PressClose \/ PressFloat \/ ToggleEnds \/ FloatAnswered
  \/ CloseFloating \/ FloatingIsHidden \/ LinkIsShown
  \/ CloseMain \/ MainIsClosed
  \/ OpenSettings \/ CloseSettings \/ SettingsAreForgotten

HNext == MainStep \/ WindowStep \/ WarmUpEnds \/ ExitForUpdate \/ \E c \in Components : LateEnds(c)

HInit ==
  /\ at = "visualizer" /\ hosted = FALSE /\ running = {} /\ broken = {} /\ late = {} /\ saved = FALSE
  /\ main = "none" /\ floating = "none" /\ ref = FALSE /\ visible = FALSE /\ link = TRUE
  /\ settings = "none" /\ shutting = FALSE /\ closing = "none" /\ leaving = FALSE
  /\ pressed = "none" /\ floatCall = "none" /\ toggling = "none" /\ crossed = FALSE
  /\ gestures = 0

HSpec == HInit /\ [][HNext]_hvars

(* main runs, and a toggle gets through and frees the lock; nothing says   *)
(* that the warm-up, an update, a late thread or the user do.              *)
HFairSpec == HSpec /\ WF_hvars(MainStep) /\ WF_hvars(ToggleEnds)

-----------------------------------------------------------------------------

HTypeOK ==
  /\ at \in Places /\ hosted \in BOOLEAN /\ running \subseteq Components /\ broken \subseteq Components
  /\ late \subseteq Components /\ saved \in BOOLEAN /\ main \in {"none", "open", "closed"} /\ floating \in {"none", "hidden", "shown"}
  /\ ref \in BOOLEAN /\ visible \in BOOLEAN /\ link \in BOOLEAN /\ settings \in {"none", "open", "closed"}
  /\ shutting \in BOOLEAN /\ closing \in {"none", "said", "hidden"} /\ leaving \in BOOLEAN
  /\ pressed \in {"none", "waits", "toggles"} /\ floatCall \in {"none", "toggles", "done"}
  /\ toggling \in {"none", "shows", "hides"} /\ crossed \in BOOLEAN /\ gestures \in 0..MaxGestures

(* Wherever the start failed and whatever raised in the stop, a program    *)
(* that came to its end has told all it started to stop: what still runs   *)
(* had raised, or was not awaited any longer (the doc says that workers    *)
(* are joined, JARVIS_VOICE.md:55; the joins end after seconds), or is the *)
(* gateway, which is meant to go on, and the thread that warms it up.      *)
StoppedIsOff ==
  at = "ended" => running \subseteq broken \cup late \cup {"gateway", "warm-up"}

(* A floating bar that is shown is one the next press of the hotkey hides, *)
(* however the presses fell into the handlers of the close events: unless  *)
(* a close event came between the two halves of a toggle that shows the    *)
(* bar (jarvis_desktop.py:1372, 1379), and until the toggle after that.    *)
ShownCanBeHidden ==
  floating = "shown" /\ closing = "none" /\ ~leaving /\ Free => visible \/ crossed

(* Once the window loop was left the program ends, also while the gateway  *)
(* is still being warmed up or an update is loaded.                        *)
LeftLoopEnds == at = "stop hotkey" ~> at \in {"ended", "gone"}

(* A program that is gone saved its world: a staged update ends it without *)
(* the stop (jarvis_desktop.py:1184).                                      *)
SavedWhenGone == at = "gone" => saved

(* The user who closed the main window has closed the program: not with    *)
(* the settings window open, nor after the hotkey, which makes a new bar.  *)
ClosedMainEnds == main = "closed" ~> at \in {"ended", "gone"}

(* There is always a text link: not when the hotkey moved it back before   *)
(* the page got the answer of its float button (jarvis_desktop.py:761).    *)
SomewhereALink ==
  main = "open" /\ at = "loop" /\ closing = "none" /\ floatCall = "none" /\ Free /\ ~leaving => link \/ floating = "shown"

=============================================================================
