------------------------------ MODULE Devices ------------------------------
(***************************************************************************)
(* Phones on a cable (devices/): the registry and the phone that is        *)
(* selected, the mirrors of their screens, commands and automations, and   *)
(* the notifications that the companion app tells by way of a forwarded    *)
(* port.  The only provider that lists a phone is adb: each operation asks *)
(* it anew, while phones are plugged in and out, adb fails or starts again *)
(* and mirrors are closed.                                                 *)
(***************************************************************************)
EXTENDS Naturals, FiniteSets

CONSTANTS
  Phones,
  Operators,   \* threads that call the device tool
  MaxTaps      \* bound on the steps of an automation

ASSUME PhonesAssumption == IsFiniteSet(Phones) /\ MaxTaps \in Nat \ {0}

VARIABLES
  plugged,     \* what adb would list of each phone
  forward,     \* adb: the phone each local port is forwarded to
  registered,  \* DeviceRegistry._devices
  selected,    \* DeviceRegistry._active_id
  mirror,      \* MultiDeviceMirrorManager._sessions, and whether its process runs
  orphans,     \* phones shown by a process that no session names
  port,        \* AndroidCompanionClient._ports
  nextPort,    \* AndroidCompanionClient._next_port
  op           \* what each thread does, or did last

adbVars == <<plugged, forward>>
registryVars == <<registered, selected>>
mirrorVars == <<mirror, orphans>>
portVars == <<port, nextPort>>
deviceVars == <<adbVars, registryVars, mirrorVars, portVars, op>>

nobody == "nobody"
Ports == 1..Cardinality(Phones)
PhoneStates == {"absent", "offline", "ready"}
Absent == [d \in Phones |-> "absent"]
ListedPhones == {d \in Phones : registered[d] # "absent"}

(* kind: the operation; at: its next step, or how it ended; phones: those  *)
(* it still has to do with; heard: adb's answer; asked, sent: commands;    *)
(* by: the phone at hand, or the one that answered; away: the phone was    *)
(* unplugged meanwhile.                                                    *)
Rest == [kind |-> "none", at |-> "done", phones |-> {}, heard |-> Absent,
         asked |-> 0, sent |-> 0, by |-> nobody, away |-> FALSE]
OpKinds == {"none", "refresh", "screen", "notifications", "command", "automate"}
OpSteps == {"write", "look", "start", "launch", "port", "advance", "forward", "request",
            "state", "send", "recheck", "done", "failed"}

DevicesTypeOK ==
  /\ plugged \in [Phones -> PhoneStates] /\ forward \in [Ports -> Phones \cup {nobody}]
  /\ registered \in [Phones -> PhoneStates] /\ selected \in ListedPhones \cup {nobody}
  /\ mirror \in [Phones -> {"none", "runs", "ended"}] /\ orphans \subseteq Phones
  /\ port \in [Phones -> Ports \cup {0}] /\ nextPort \in 1..(Cardinality(Phones) + 1)
  /\ op \in [Operators -> [kind : OpKinds, at : OpSteps, phones : SUBSET Phones, heard : [Phones -> PhoneStates],
                           asked : 0..MaxTaps, sent : 0..MaxTaps, by : Phones \cup {nobody}, away : BOOLEAN]]

-----------------------------------------------------------------------------
(* The cable, adb and the windows of the mirrors                           *)

Replug(d, s) ==
  /\ s # plugged[d] /\ plugged' = [plugged EXCEPT ![d] = s]
  /\ forward' = [p \in Ports |-> IF forward[p] = d /\ s # "ready" THEN nobody ELSE forward[p]]
  /\ op' = [o \in Operators |-> [op[o] EXCEPT !.away = @ \/ (d \in op[o].phones /\ s # "ready")]]
  /\ UNCHANGED <<registryVars, mirrorVars, portVars>>

AdbRestarts ==
  /\ forward' = [p \in Ports |-> nobody]
  /\ UNCHANGED <<plugged, registryVars, mirrorVars, portVars, op>>

(* scrcpy loses its phone, or the person closes its window.                *)
MirrorEnds(d) ==
  /\ mirror[d] = "runs" /\ mirror' = [mirror EXCEPT ![d] = "ended"]
  /\ UNCHANGED <<adbVars, registryVars, orphans, portVars, op>>

(* adb devices: a call that fails lists nothing.                           *)
Answers == {plugged, Absent}

Outside ==
  \/ \E d \in Phones : MirrorEnds(d) \/ \E s \in PhoneStates : Replug(d, s)
  \/ AdbRestarts

-----------------------------------------------------------------------------
At(o, kinds, step) == op[o].kind \in kinds /\ op[o].at = step
Idle(o) == op[o].at \in {"done", "failed"}
GoesOn(o, step) == op' = [op EXCEPT ![o].at = step]
Begins(o, k, step, S, n) ==
  Idle(o) /\ op' = [op EXCEPT ![o] = [Rest EXCEPT !.kind = k, !.at = step, !.phones = S, !.asked = n]]
Phone(o) == CHOOSE d \in Phones : op[o].phones = {d}

(* DeviceRegistry.refresh: adb never raises, so a phone it does not list   *)
(* is forgotten, and with it the selection.                                *)
RefreshDevices(o) ==
  /\ \E heard \in Answers :
       Idle(o) /\ op' = [op EXCEPT ![o] = [Rest EXCEPT !.kind = "refresh", !.at = "write", !.heard = heard]]
  /\ UNCHANGED <<adbVars, registryVars, mirrorVars, portVars>>

WriteDevices(o) ==
  /\ At(o, {"refresh"}, "write") /\ GoesOn(o, "done")
  /\ registered' = op[o].heard
  /\ LET listed == {d \in Phones : registered'[d] # "absent"} IN
     selected' \in IF selected \in listed THEN {selected} ELSE IF listed = {} THEN {nobody} ELSE listed
  /\ UNCHANGED <<adbVars, mirrorVars, portVars>>

SelectDevice(d) ==
  /\ d \in ListedPhones /\ selected' = d
  /\ UNCHANGED <<adbVars, registered, mirrorVars, portVars, op>>

-----------------------------------------------------------------------------
(* screen of one phone, screen_all of the connected ones: each is looked   *)
(* up, and its mirror started unless it runs.                              *)
ViewScreens(o, S) ==
  /\ S \subseteq ListedPhones /\ Begins(o, "screen", "look", S, 0)
  /\ UNCHANGED <<adbVars, registryVars, mirrorVars, portVars>>

NextScreen(o, S) ==
  op' = [op EXCEPT ![o].at = IF S = {} THEN "done" ELSE "look", ![o].phones = S, ![o].by = nobody]

LookAtScreen(o) ==
  /\ At(o, {"screen"}, "look") /\ UNCHANGED <<adbVars, registryVars, mirrorVars, portVars>>
  /\ \E d \in op[o].phones, heard \in Answers :
       IF heard[d] = "ready" THEN op' = [op EXCEPT ![o].at = "start", ![o].by = d]
       ELSE NextScreen(o, op[o].phones \ {d})

\* mutant: a session that is left of a mirror that ended counts as one
AnySession(d) == mirror[d] # "none"

Mirrored(d) == mirror[d] = "runs"

StartMirror(o) ==
  LET d == op[o].by IN
  /\ At(o, {"screen"}, "start") /\ UNCHANGED <<adbVars, registryVars, orphans, portVars>>
  /\ IF Mirrored(d) THEN NextScreen(o, op[o].phones \ {d}) /\ UNCHANGED mirror
     ELSE GoesOn(o, "launch") /\ mirror' = [mirror EXCEPT ![d] = "none"]

(* Popen, and only then the session.                                       *)
LaunchMirror(o) ==
  LET d == op[o].by IN
  /\ At(o, {"screen"}, "launch") /\ NextScreen(o, op[o].phones \ {d})
  /\ \/ UNCHANGED mirrorVars
     \/ /\ orphans' = orphans \cup {e \in {d} : Mirrored(e)}
        /\ mirror' = [mirror EXCEPT ![d] = "runs"]
  /\ UNCHANGED <<adbVars, registryVars, portVars>>

-----------------------------------------------------------------------------
(* AndroidCompanionClient.request: a port for the phone, forwarded anew    *)
(* before every request.                                                   *)
ReadNotifications(o, d) ==
  /\ d \in ListedPhones /\ Begins(o, "notifications", "port", {d}, 0)
  /\ UNCHANGED <<adbVars, registryVars, mirrorVars, portVars>>

TakePort(o) ==
  LET d == Phone(o) IN
  /\ At(o, {"notifications"}, "port") /\ UNCHANGED <<adbVars, registryVars, mirrorVars, nextPort>>
  /\ IF port[d] = 0 THEN port' = [port EXCEPT ![d] = nextPort] /\ GoesOn(o, "advance")
     ELSE GoesOn(o, "forward") /\ UNCHANGED port

AdvancePort(o) ==
  /\ At(o, {"notifications"}, "advance") /\ nextPort' = nextPort + 1 /\ GoesOn(o, "forward")
  /\ UNCHANGED <<adbVars, registryVars, mirrorVars, port>>

ForwardPort(o) ==
  LET d == Phone(o) IN
  /\ At(o, {"notifications"}, "forward") /\ UNCHANGED <<plugged, registryVars, mirrorVars, portVars>>
  /\ \/ GoesOn(o, "failed") /\ UNCHANGED forward
     \/ /\ plugged[d] = "ready" /\ GoesOn(o, "request")
        /\ forward' = [forward EXCEPT ![port[d]] = d]

AskCompanion(o) ==
  LET by == forward[port[Phone(o)]] IN
  /\ At(o, {"notifications"}, "request") /\ UNCHANGED <<adbVars, registryVars, mirrorVars, portVars>>
  /\ \/ GoesOn(o, "failed")
     \/ by # nobody /\ op' = [op EXCEPT ![o].at = "done", ![o].by = by]

-----------------------------------------------------------------------------
(* A command (input, files, applications), or the steps of an automation.  *)
SendCommand(o, d) ==
  /\ d \in ListedPhones /\ Begins(o, "command", "look", {d}, 1)
  /\ UNCHANGED <<adbVars, registryVars, mirrorVars, portVars>>

Automate(o, d, n) ==
  /\ d \in ListedPhones /\ Begins(o, "automate", "state", {d}, n)
  /\ UNCHANGED <<adbVars, registryVars, mirrorVars, portVars>>

(* get_state, before the first step, and _state, before every command.     *)
LookAtPhone(o) ==
  /\ At(o, {"automate"}, "state") \/ At(o, {"command", "automate"}, "look")
  /\ \E heard \in Answers :
       GoesOn(o, IF heard[Phone(o)] # "ready" THEN "failed" ELSE IF op[o].at = "state" THEN "look" ELSE "send")
  /\ UNCHANGED <<adbVars, registryVars, mirrorVars, portVars>>

AfterCommand(o) ==
  IF op[o].sent + 1 < op[o].asked THEN "look" ELSE IF op[o].kind = "automate" THEN "recheck" ELSE "done"

\* mutant: the exit code of adb is not looked at
AfterFailure(o) == AfterCommand(o)

(* _command: adb fails, perhaps after the phone has done it.               *)
AfterError(o) == "failed"

RunCommand(o) ==
  /\ At(o, {"command", "automate"}, "send")
  /\ \/ plugged[Phone(o)] = "ready" /\ op' = [op EXCEPT ![o].at = AfterCommand(o), ![o].sent = @ + 1]
     \/ GoesOn(o, AfterError(o))
  /\ UNCHANGED <<adbVars, registryVars, mirrorVars, portVars>>

(* The state is asked for once more; that it cannot be had any more is     *)
(* passed over.                                                            *)
Recheck(o) ==
  /\ At(o, {"automate"}, "recheck") /\ GoesOn(o, "done")
  /\ UNCHANGED <<adbVars, registryVars, mirrorVars, portVars>>

-----------------------------------------------------------------------------
RegistryStep(o) == RefreshDevices(o) \/ WriteDevices(o) \/ \E d \in Phones : SelectDevice(d)

ScreenStep(o) ==
  \/ ViewScreens(o, {d \in Phones : registered[d] = "ready"}) \/ \E d \in Phones : ViewScreens(o, {d})
  \/ LookAtScreen(o) \/ StartMirror(o) \/ LaunchMirror(o)

CompanionStep(o) ==
  \/ TakePort(o) \/ AdvancePort(o) \/ ForwardPort(o) \/ AskCompanion(o)
  \/ \E d \in Phones : ReadNotifications(o, d)

CommandStep(o) ==
  \/ LookAtPhone(o) \/ RunCommand(o) \/ Recheck(o)
  \/ \E d \in Phones : SendCommand(o, d) \/ \E n \in 1..MaxTaps : Automate(o, d, n)

DevicesInit ==
  /\ plugged \in [Phones -> PhoneStates] /\ forward = [p \in Ports |-> nobody]
  /\ \E heard \in Answers : registered = heard
  /\ selected \in IF ListedPhones = {} THEN {nobody} ELSE ListedPhones
  /\ mirror = [d \in Phones |-> "none"] /\ orphans = {}
  /\ port = [d \in Phones |-> 0] /\ nextPort = 1
  /\ op = [o \in Operators |-> Rest]

DevicesNext ==
  \/ Outside
  \/ \E o \in Operators : RegistryStep(o) \/ ScreenStep(o) \/ CompanionStep(o) \/ CommandStep(o)

DevicesSpec == DevicesInit /\ [][DevicesNext]_deviceVars

-----------------------------------------------------------------------------
(* What was asked of a phone and is reported as done was done by that      *)
(* phone, all of it, and no phone is shown twice, however the phones come  *)
(* and go between the steps (AndroidAdbProvider._command,                  *)
(* AndroidCompanionClient: "Each physical phone gets its own PC-local      *)
(* forwarded port", MultiDeviceMirrorManager: "Own one independent scrcpy  *)
(* process per physical device").                                          *)
AnswersAreOwn ==
  \A o \in Operators : At(o, {"notifications"}, "done") => {op[o].by} = op[o].phones
CommandsAreDone ==
  \A o \in Operators : At(o, {"command", "automate"}, "done") => op[o].sent = op[o].asked
DoneAsTold == AnswersAreOwn /\ CommandsAreDone /\ orphans = {}

(* No run checks the following two, see the README, other disagreements.   *)
(* An automation whose phone was unplugged meanwhile has failed            *)
(* (DeviceAutomation.run: adb answers the last question with a failure,    *)
(* which is passed over).                                                  *)
DisconnectIsReported == \A o \in Operators : At(o, {"automate"}, "done") => ~op[o].away

(* A phone that stays plugged in stays selected (DeviceRegistry.refresh    *)
(* keeps what it knows when a provider raises; adb's does not raise).      *)
SelectionStays ==
  [][\A d \in Phones : selected = d /\ plugged[d] = "ready"
       => selected' = d \/ \E e \in Phones : SelectDevice(e)]_deviceVars

=============================================================================
