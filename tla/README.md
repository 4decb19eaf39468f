# Jarvis: a verification project in TLA+

Jarvis is a Windows desktop assistant written in Python: a voice and chat
front end, a capability layer that lets language models act on the computer
under a policy, a self-coding loop that edits its own repository, and a
"neural" visual world that renders what it does.  This directory models the
parts whose correctness depends on order, failure and concurrency, checks
the models with TLC and proves the theorems named below with TLAPS.

## 1. Inventory

State, operations, interactions and difficult behaviour of each part.  Paths
are relative to `src/`; `qol/` abbreviates `quality_of_life/`.

| Part | State it keeps | Operations | Interacts with | What is hard |
|---|---|---|---|---|
| Self-coding agent `self_coding/agent.py`, `run.py` | Git refs, HEAD, work tree; `.git/jarvis-checkpoints/*.json` | `run`, `approve_checkpoint`, `undo_checkpoint`, `list_checkpoints` | coding CLI, Git, remote main; registered with the capability layer | multi-command transactions over Git with a rollback each, crashes, lost push answers, two agents in one clone, stacked previews |
| Activities `qol/activity.py` | bounded map of activities, cancel events | create, update, request/acknowledge cancel | workflows, agent orchestrator, workspace UI | cancel racing completion, a capacity shared with finished work |
| Workflows `qol/workflows.py` | JSON file of definitions and run history; a running activity | CRUD, `record_run`, `execute` | activities, tool executor, confirmation | read-modify-write of a file by several threads, cancellation and confirmation in the middle of a run |
| Hand control `qol/hand_control.py`, `hand_control_runtime.py`, `hand_control_server.py` | gesture interpreter, bridge (enabled, emergency stop, dragging), HTTP server and watchdog thread | sample, pause/resume, watchdog timeout, emergency stop, start/stop | browser page with the camera, mouse automation | handler threads racing the watchdog; a mouse button held when control ends |
| Capability policy and dispatch `qol/permissions.py`, `orchestrator.py`, `tool_broker.py`, `capabilities.py`, `planner.py`, `agent_orchestrator.py` | grants, pending confirmations, workflows and plans under execution | authorize, invoke, run workflow or plan, cancel | every tool | several stages that may ask or act, each with a way of its own to learn of a confirmation |
| Model router `qol/router.py`, `api_tools.py` | per target: cooldown, latency average | rank, try, complete, complete many | providers, OmniRoute | failover order, cooldown expiry, parallel requests updating shared statistics |
| OmniRoute gateway `qol/omniroute.py`, `omniroute_lifecycle.py`, `omniroute_setup.py`, `scripts/prepare_omniroute_runtime.py` | managed process, setup files | probe, start, wait, provision | router, desktop start-up | start once while several threads ask, slow start, half-provisioned files |
| Background work `qol/background.py`, `scheduler.py`, `background_mode.py`, `health_monitor.py` | jobs by name, timers, mode flag | start, cancel, schedule, switch mode | runtime, desktop shell | check-then-act on unlocked maps, callbacks outside the lock |
| Accounts `qol/oauth_broker.py`, `oauth_desktop.py`, `account_*.py`, `service_adapters.py` | pending OAuth flows, tokens | begin, exchange, refresh, revoke | providers, capability layer | double exchange, refresh races with rotation, expiry |
| Voice `qol/elevenlabs_voice.py`, `jarvis_voice.py`, `voice_activation.py`, `voice_listener.py`, `scripts/jarvis_voice_bridge.py` | queue of utterances, generation counter, speaking flag | say, shut up, take audio, listen | desktop page, speech services | an answer of an earlier generation arriving late; interrupted speech |
| UI builds `qol/ui_builds.py` | active build, history, files of each build | save, activate, rollback, delete | workspace UI | several files per build, state naming a deleted build |
| Neural world `qol/neural_world.py`, `neural_discovery.py`, `neural_events.py`, `neural_observation.py`, `neural_mesh.py`, `neural_fullstack.py` | what runs on the machine, tasks, a bounded log of events, streamed areas, the stores of the experience | discover, publish, poll, save, load, request and evict areas, commands | runtime, page, system | polls that overlap and answer out of order, slow readers of a bounded log, restarts between discoveries |
| Neural graph and shapes `qol/neural_world.py`, `neural_shape_controller.py`, `spatial_layout.py` | entities and relations, history of first states, layout of windows | upsert, retire, relate, trace, apply, create, revert | neural world, web API | three stores written one after the other, the first of them only at the end of the program |
| Neural runtime `qol/neural_advanced.py` | workspace of surfaces and groups, ecology, history, small stores | commands, features, smoke test | runtime, neural world | many features that change one state, a history with a limit |
| Workspace page `qol/workspace_ui.py` | the active tab, the list of activities on the page | activate, hydrate, refresh, cancel | activities, workflows, local storage | calls that do not wait for each other, on both sides of a bridge |
| Spatial windows `qol/spatial_windows.py`, `spatial_layout.py` | embedded windows and what to restore | embed, unembed, present | Windows | native handles that disappear |
| Devices `qol/devices/`, `phone_companion/` | registry and selected phone, mirror sessions, forwarded ports | list, select, mirror, stop, command, automate, notifications | adb, phone | phones unplugged between the look and the command, adb that fails or starts again, ports that outlive it |
| Desktop shell `scripts/jarvis_desktop.py`, `jarvis_runtime_resilience.py`, `qol/runtime.py`, `self_update.py` | wiring of all of the above, update staging | start, chat turn, update, shutdown | everything | start-up order, restart with backoff |
| Location and maps `qol/location*.py`, `gods_eye*.py` | last fix, cache | locate, open map | providers | stale fixes |
| System adapters `qol/{applications,browser,clipboard,computer,files,processes,screen,system,windows}.py` | none | calls into Windows | capability layer | pure I/O |
| Windows maintenance `windows_maintenance/` | none kept | plan and run maintenance | user | pure I/O behind a confirmation |

### What makes each part correct

* **Self-coding.** Nothing reaches the remote's main unapproved; metadata
  never claims more than the remote shows; an undo takes back all of its own
  work and nothing else; a failed run leaves no trace; nobody's commit is lost.
* **Activities and workflows.** A terminal state is final; every run ends; a
  cancelled run executes no further step; no definition is lost by another
  one's update.
* **Hand control.** No mouse event after an emergency stop; no button stays
  down once control has ended; only a deliberate gesture resumes.
* **Dispatch.** An action runs only with a grant, and what needs a confirmation
  only when the person or the runtime's hook gave it.
* **Router and gateway.** A request fails only if every usable target failed;
  one gateway process at a time; the cooldown is respected.
* **Background.** One job per name; a cancelled job stays cancelled; the last
  requested mode is the one in force.
* **Accounts.** A code is exchanged once; a token that a refresh used up is not
  stored again.
* **Voice.** Nothing said before a "shut up" is heard after it; the speaking
  flag falls when nothing is being said.
* **UI builds.** What the page shows is the active build, and there is one.
* **Neural world.** What runs, and what a request has told, is on the page in
  the end; an area is in one place; a trace is a shortest way.
* **Shapes.** What has a changed shape can be brought back to its first state.
* **Workspace page.** It shows what has become of the activities.
* **Devices.** What is reported as done was done, by the phone that was meant.
* **Desktop program.** What was started is stopped, whatever failed; only whole,
  published files are installed; what was begun ends.

## 2. Plan

Built, in this order:

1. `GitHistory`, `SelfCoding`, `CheckpointLedger` (abstract).
2. `Activities`, `WorkflowRuns` (activities with the runs that report to them),
   `WorkflowFile`, and `WorkspacePage`, the page on top of the runs.
3. `HandControl`; `VoiceOutput` (mouth, microphone's gate, player of the page)
   and `VoiceBridge` (the life of the voice around it).
4. `UiBuilds`; `ModelRouter`; `Accounts`.
5. `Provisioning` and `RuntimeBundle` (the gateway's settings and its build);
   `DesktopHost` and `SelfUpdate` (the program's life).
6. `NeuralWorld`, `NeuralGraph` with `ShapeHistory`, `TaskFeed`, `Streaming`,
   `Experiences`; `Workspace` with `NeuralRuntime`.
7. `Dispatch`: policy, confirmation and the stages of a request.
8. `Devices`.

9. The proofs, a module for the components of a run: `SelfCodingProofs`,
   `CheckpointProofs`, `LedgerProofs`; `WorkflowProofs` and `DesktopProofs`;
   `SensesProofs`; `ServicesProofs`; `WorldProofs`.

Every safety invariant and every action property of the runs has its theorem now.
Worth proving next: safety properties that no run checks yet, such as the limits of the
small stores.
What is left of the code is named, with reasons, in section 7.

## 3. Modules and the code

**`GitHistory`** (external: Git).  A commit is its whole history, so equal SHAs
are equal sequences and a fast-forward is a prefix.  Merges, conflicts and file
contents are abstracted to the set of goals whose edits a commit carries.

**`SelfCoding`** (`self_coding/agent.py`).  `head`, `ref`, `tree` are HEAD, the
local branches and the goals with uncommitted edits; `origin` is the remote's
main as a `fetch` shows it; `meta[c]` is `.git/jarvis-checkpoints/<c>.json`.
`op[p]` is the program counter and the local copy of the checkpoint of one
process.  An action is one Git command or one metadata write with the reads
just before it, in the code's order:

| Code | Actions |
|---|---|
| `run`, `_new_branch`, the passes | `StartRun`, `CreateBranch`, `Backend`, `Verify`, `CommitPass`, `RecordPass`, `PublishBranch` |
| `_rollback` | `ResetRun`, `RestoreBase`, `DeleteBranch`, `Unlink` |
| `approve_checkpoint` | `StartApprove`, `SaveClaim`, `SwitchToMain`, `MergeCheckpoint`, `SavePromoted`, `PushMain`, `SaveApproved` |
| its `except` path | `AbortApprove`, `SaveReleased`, `SwitchBack` |
| `undo_checkpoint`, pending | `StartDiscard`, `LeaveBranch`, `DropBranch`, `SaveDiscarded` |
| `undo_checkpoint`, approved | `StartRevert`, `SwitchToRevert`, `RevertCommit`, `SaveUndoing`, `PushRevert`, `SaveUndone`, `AbortRevert`, `SaveStillApproved` |

`Faults` selects what the environment may do: kill the process between any two
commands, lose the answer of a push, fail a metadata write, fail a Git command, or
have one raise (`_run` raises when the time is up or the executable is missing, which
no caller expects that looks at the exit status only): `CommandRaises` leaves the
operation where the code does, and `raised` (history) names the checkpoints whose
metadata an operation was about to settle then.
`BackendActs` is what the coding CLI, an arbitrary program, does in the clone.
People push to the remote at any time and work in the clone between operations.

**`CheckpointLedger`** is the promise behind it: a main that only grows and one
entry per checkpoint that never claims more than main shows.  `SelfCoding`
instantiates it (`Ledger`, `ImplementsLedger`) with `main <- origin` and the
metadata as entries.

**`Activities`** (`activity.py`): `records` is the ordered map (ids are numbered
in the order of creation, so the oldest is the smallest); one operator per method,
each atomic because the store holds its lock.

**`WorkflowRuns`** (`WorkflowService.execute`, `_coding_context`): `run[w]` is
what a request thread is doing.  The steps are the calls to the store, because
between two of them any other thread may act; what the tool does is only its
`Outcomes`.

**`WorkflowFile`** (`WorkflowStore`): `file` and the one temporary file, on the
Windows rules of sharing; every operation is read-and-change, open, write and
close, rename.  A definition is the number of the operation that wrote it.

**`HandControl`**: `interp` is `HandGestureInterpreter`, `bridgeOn` and `button`
the bridge and the mouse, `handler` the threads of the HTTP server, `off` the
three-step switching off that four callers share, `page` the flag of
`hand-control.html`.  Distances, speeds and time are left open: `Interpreted` is
the set of outcomes a sample may have.

**`VoiceOutput`**: the mouth's generation, queue and flag; the gate and the
barge-in of the bridge in hands-free mode; the page's player with its poll, its
reports and the promises of `play()`.  A packet is its generation.  Every report of
the page is carried out by a thread of its own, so `NotePlayback` takes any of them;
`overtaken` (history) says that one which says otherwise came after the newest.
Recognition of speech, providers' protocols and wake words are outside.

**`UiBuilds`** (`ui_builds.py`): `dir[b]` is the directory of a build (manifest
and assets, each replaced atomically but not together), `active` and `history`
are `state.json`, `writing` the operation that holds the store's lock between
two files.  A build is its quality, its release if built in, and whether its
script throws.  `client[c]` is one activity of the page (`hydrate`, the
handlers of USE and ROLLBACK) between its calls, `shown` the layer on screen.

| Code | Actions |
|---|---|
| `_ensure_builtins` | `Launch`, `InstallBuiltin`, `FinishStart` |
| `_write_build`, `delete` | `SaveBuild`, `DeleteBuild`, then `WriteManifest`, `WriteAssets`, `RemoveFiles`, `WriteFails` |
| `active`, `catalog` | `Heal`, in `RefreshCatalog` and `Hydrate` |
| `activate`, `rollback` | `Use`, `RollBack` |
| `applyPayload` | `Apply`, `ApplyFallback` |

**`ModelRouter`** (`router.py`, `omniroute.py`, `omniroute_lifecycle.py`):
`worker[w]` is a thread of the executor with the targets it has not tried;
`cooling` and `warm` the class-wide cooldowns and latencies; `ready` and `own`
the connection to the gateway; `process` every gateway started so far, of which
one holds the port; `starter[s]` a thread in `_ensure_omniroute_once`.
`TakeRequest`, `PickTarget`, `Post` are `run_one` and `try_target`; `ProbeReady`,
`EnterLock`, `StartGateway`, `Wait` are `ensure_ready`, `EnsureOnce` and
`AwaitStart` the lifecycle.  Latency is the freedom to order the warm targets in
any way; `strikes` is a history counter.  `Escapes` is a call that ends with an
exception `call` does not catch: nothing cools, and no other target is tried.

**`VoiceBridge`** (`jarvis_voice_bridge.py`, `jarvis_runtime_resilience.py`, the
`VoiceAdapter` of `jarvis_desktop.py`): `ear` is the thread that hears and answers,
`watch` the one that looks at the key in the live mode, `stage` the main thread in
start and stop, `voice[m]` what each of the two mouths has still to say, `change` a
change of the provider.  `_speak` and `set_mouth` are steps because the bridge's
lock is held while a text is spoken.  `trial` is the test of ElevenLabs that saving its
key starts, in whichever mouth is in use.  Packets are in `VoiceOutput`, not here.

**`Provisioning`** (`omniroute_setup.py`): `calls[c]` is a caller of
`ensure_running` or of the settings window; the gateway is a process that has the
port or ends.  **`RuntimeBundle`** (`prepare_omniroute_runtime.py`): the pieces at
the destination and in the staging directory, the manifest that is written last,
and `Abort` at any step.

**`Accounts`** (`account_*.py`, `oauth_*.py`, `service_adapters.py`): the credential
store, two files and two dictionaries that nothing locks.  A token set is the
number of its refresh token; `caller[c]` is the operation of one thread between two
of its reads or writes, `usable` what the provider still honours.  `superseded`
(history) are the tokens another took the place of: those a new one was obtained with,
and the stored one when the account is connected anew and no refresh has it in hand
(`Replaced`).

**`DesktopHost`** (`jarvis_desktop.py`): `at` is where `main` is, from the start of
each component to the stop of each; `main`, `floating`, `settings` are the windows,
`ref` and `visible` what the host believes of the bar, `closing` and `leaving` the
handlers of the close events, which do not hold the lock all the time.  A toggle holds
it from `BeginToggle`, which sets the boolean, to `ToggleEnds`, which shows or hides the
window (`toggling`); `pressed` is the hotkey's callback, which waits for it and runs on
while the program is stopped; `crossed` (history) says that a close event fell between
the two halves.  What is stopped is awaited for some seconds only: whatever of `Awaited`
takes longer is `late` and ends by itself, if it does (`LateEnds`).
**`SelfUpdate`** (`self_update.py`, `AutoUpdateController`): programs and scripts in
`Slots`, the release in two parts (its text is announced before its file).
`partial[c]` is the one `.download` file of a commit, which every program that loads it
opens for truncation (`Load`), fills (`Receive`), compares (`Check`) and moves (`Stage`),
each a step; `shared` (history) says that two were at one.

**`NeuralWorld`** (`neural_discovery.py`, `neural_world_snapshot`, `pollSnapshot`):
`poll[p]` is the thread of one request of the page, with a listing of its own.  A
listing that fails leaves everything as it was until the next discovery, and is
left out.  **`NeuralGraph`** (`neural_world.py`) is the graph under one lock, with
`Trace` and `Connected` as functions of it; **`ShapeHistory`**
(`neural_shape_controller.py`) extends it: `shaping[c]` is a call between its write
of the history, its changes of the graph and its write of the layout.

**`TaskFeed`** (`agent_orchestrator.py`, `runtime.py`, `neural_events.py`,
`neural_observation.py`, `neural_mesh.py`): `order[c]` is the stage of a request and
`told[t]` what its caller was told (history), `feed` the bounded log, `reading[p]` a
poll and `screen` what the page took from them.

**`Dispatch`** (`orchestrator.py`, `tool_broker.py`, `permissions.py`, `planner.py`,
`workflows.py`, `agent_orchestrator.py`): one request; `stage` follows `_execute_impl`
through a workflow or an intent, a goal, a plan and the coding stage, each of which may
ask, do a part of its work and raise.  `policy` is any set of capabilities with or
without a hook, as the tests make them (`build_runtime` itself grants none); `performed`
is what was done that is guarded since the person spoke, with who was asked (history).
`Routed` are `neural.fullstack.command` and `neural.master.execute`, which no policy
guards and which do what is `Behind` other capabilities: `MayRoute` lets that pass when
the hook agrees or the step's own arguments say `confirmed`.

**`Streaming`**, **`Experiences`** (`neural_fullstack.py`, `neural_advanced.py`): the
areas with their worker threads (`flavour` is one of two classes: one with a lock,
one without); and the stores, one action per method, each under its own lock.
**`Workspace`** is what the commands do to surfaces, groups, displays and the
ecology, as operators from a state to a state, and **`NeuralRuntime`** the commands,
the features and the smoke test that use them, the history and the small stores.
What the features do to the stores of `neural_fullstack.py` is the matter of
`Experiences` and `Streaming`.  **`Records`** are the updates of dictionaries that
`NeuralGraph`, `ShapeHistory`, `TaskFeed` and `Workspace` share.

**`WorkspacePage`** (`workspace_ui.py`) extends `WorkflowRuns`: the tabs with local
storage, the calls `activate_workspace` on their way, the list of activities with
its refreshes and cancellations.

**`Devices`** (`devices/`): `plugged` and `forward` are adb's, `registered`,
`selected`, `mirror`, `port` and `nextPort` the program's, `op[o]` what a thread does
between two calls of adb, each of which may find the phone gone or fail.

| Module of a run | Composes |
|---|---|
| `MCSelfCoding` | `SelfCoding` with small sets |
| `MCWorkflows`, `MCProgram` | `WorkflowRuns` and `WorkflowFile`; these with `WorkspacePage`, `DesktopHost`, `SelfUpdate`, `Provisioning`, `RuntimeBundle`, `NeuralRuntime` |
| `MCSenses` | `HandControl`, `VoiceOutput`, `VoiceBridge` |
| `MCServices` | `UiBuilds`, `ModelRouter`, `Accounts` |
| `MCWorld` | `NeuralWorld`, `NeuralGraph` with `ShapeHistory`, `Dispatch`, `TaskFeed`, `Streaming`, `Experiences`, `Devices` |

## 4. Runs

What the environment is like (`env` of `HandControl`, `setting` of `VoiceOutput`,
`mic` of `VoiceBridge`, `tears` of `UiBuilds`, `haveKeys` of `ModelRouter`, `policy` of
`Dispatch`, `flavour` of `Streaming`, `area` of `NeuralRuntime`) is chosen in the
initial state and never changes; a property that speaks of one environment only
says so in its condition.

All but `MCSelfCoding` put independent components behind a variable `focus` chosen
at the start: a behaviour is one of one component, so their states add up.  A
product would show no more, because these share no variable and no property speaks
of two of them.  Components that do share state are composed as such: activities
with the runs of workflows and with the page, the shapes with the graph, requests
with the feed and the page that reads it.

| Run | Properties | Shows |
|---|---|---|
| `sc_git` | `TypeOK`, `UndoneIsReverted`, `LocalMainKeepsOthersWork`, `UndoTouchesOnlyItsWork`, `PromotionSettles` | undo reverts all of its work and only it, nobody's commit is lost, every promotion settles but one whose last commands raised, although Git commands fail or raise |
| `sc_faults` | `OnlyApprovedWorkIsPublished`, `ApprovedIsPublished` | nothing unapproved is published and "approved" is true, under crashes, failed writes, lost answers, commands that fail or raise and a CLI that commits or switches branch |
| `sc_ledger` | `ImplementsLedger`, `FailedRunLeavesNoTrace` | the agent implements the ledger; a failed run leaves no trace |
| `sc_two_agents`, `sc_stacked` | violations | findings 1 and 2; no fault is needed |
| `wf_full` | violation | finding 3 |
| `senses` | `SensesTypeOK`, `MouseFollowsInterpreter`, `HandControlEnds`, `SilencedStaysSilent`, `MicIsGatedWhileSounding`, `AnswerSilencesOlder`, `MicrophoneOpensAgain` | interpreter, bridge and mouse agree at rest and control ends without samples; what was cut, superseded or replaced is not heard, and a mouth that is not in use holds no more than the audio of a test; the microphone is closed while something sounds, and opens again, unless two reports of the page were carried out in the other order |
| `hand_fist`, `voice_test` | violations | findings 4 and 5 |
| `services` | `ServicesTypeOK`, `ShownIsActive`, `OneGatewayPerConnection`, `CooldownLimitsFailures`, `NoTokenComesBack`, `EveryBatchEnds` | the page shows the active build; one gateway per connection, failures bounded by the cooldown, every batch ends; a refresh token that was used up or replaced is not stored again, unless a refresh had it when it was replaced |
| `world` | `WorldTypeOK`, `PersonDecides`, `AreaHasOnePlace`, `TraceIsShortest`, `ChangedIsRevertible`, `TaskTellsOutcome`, `DoneAsTold`, `WorldReachesPage` | nothing guarded is done unasked but what a routed step says is confirmed; an area is in one place; a trace is a shortest way; a changed shape can be reverted after any crash; a task ends as its caller was told; what a phone is reported to have done it did; what lasts reaches the page |
| `program` | `ProgramTypeOK`, `ReportsAreAccepted`, `OutcomeIsReported`, `FileChangesByOneOperation`, `StoppedIsOff`, `ShownCanBeHidden`, `InstalledIsPublished`, `AcceptedIsWhole`, `NewestAreKept`, `WhatIsBegunEnds` | runs report truthfully and once; the file of workflows changes by one operation at a time; the program tells all it started to stop; a bar that is shown can be hidden unless a close event crossed its toggle; only whole published files are installed unless two programs shared a download, and only whole runtimes shipped; the newest snapshots are kept; and runs, the page's list, the stop, the settings window and updates come to their end |

### Bounds

* `sc_*`: two checkpoints are enough to stack previews and to have one operation's
  work below another's; two passes to have a newest and an oldest commit; one commit
  by people to move either main between a comparison and its use.
* `senses`: the bridge alone starts with a microphone that was found; two handler threads; a pose that points and pinches, a fist and a palm,
  and a fist pauses at once; three generations of speech interact pairwise through
  "newer" and "current", so two with two packets and a queue of two reach each
  comparison both ways; one spoken request and one change of the provider, so that
  the change meets every stage of the request.
* `services`: two built-in and two saved builds (a history never repeats a build nor
  names the active one, so it takes four to cut it at two); two releases, so one
  upgrade; three requests over two threads, so that a thread meets the cooldown of
  another's failure; three processes, one for each attempt of the connection and
  the desktop's; two callers, one account whose provider replaces the tokens and one
  whose provider does not, three tokens and three operations.
* `world`: two things that come and go without a restart, or one with two restarts;
  workflows and plans of two steps, so that a first and a last one, with one routed
  operation and one thing behind it, all capabilities, none, or all but one allowed (what
  is allowed may fail all the same); three areas, room for one
  loaded and one cached; a graph of five entities at most two hops from the core;
  shapes of one caller, three calls, four changes and one end of the program, with a
  single discovery; two requests without the page, or one with two polls for events or
  one for the observation, with a feed of three, so that a burst is larger than it;
  two phones, one thread, automations of two steps.
* `program`: two threads, two records (so that a request meets a full store), three
  creations, two steps of different kinds; with the page, two unconfirmed workflows
  of one thread and a list of one row, so that a row leaves the list; the file: three
  ids, a limit of two, four operations; five gestures, so that hotkey,
  float button and both close buttons may race and one more close event cross a toggle;
  two releases and two programs, so that one is overtaken or shares a download, and two
  failures; two gateway processes and two connects; between two and five
  commands of each part of the neural runtime (`CommandBounds`).

`CHECK_DEADLOCK FALSE` stands in every configuration because the bounds on ids,
creations, operations and generations let a bounded system come to rest; with hand
control, the agent, the desktop program and the phones the rest is that of nobody
asking for anything.

### Fairness

* `FairSpec` (`SelfCoding`): a process that is in an operation and has not
  crashed goes on to its next command.  The code runs straight through, and
  `_run` has a time limit for each command.  Nothing is assumed of people.
* `RFairSpec`: a thread that executes a request makes its next call; tools
  return (each has a timeout or is local).  Nobody need cancel or confirm.
* `HFairSpec`: the watchdog thread of `hand_control_server.py` runs on, and time
  passes while no request is handled.  Nothing is assumed of the page, of
  requests, or of the owner.
* `VFairSpec`: a synthesis worker ends (success or exception), calls of the page
  arrive, the page keeps polling every 180 ms, audio plays to its end.  The user
  need not speak, press a key, or let audio play.
* `BridgeFairSpec`: the thread that hears goes on from one step to the next; recording,
  recognition and synthesis return or raise, the person answers the dialog of a
  confirmation and lets the key go.  Nobody need change the provider or stop.
* `NFairSpec`, `FeedFairSpec`: polls of the page are made and answered, and the eight
  seconds between two discoveries pass; `WFairSpec` states them together.  The page
  need not be visible, and nothing is assumed of what runs on the machine.
* `ProgramFairSpec`: the threads of requests, the list's refreshes (every 1.5 s), the
  main thread in start and stop, a toggle that holds the lock (calls of the window
  library return), the callers of the gateway (their waits and commands
  have time limits), and the programs and scripts of an update go on.  A release whose
  text was announced gets its file.  Nobody need press anything.
* `MFairSpec`: a thread of the executor goes on; every call it waits in has a
  timeout.  The gateway need not start, answer or stay alive, no call need raise
  (`Escapes`), a cooldown need not pass, and the threads of the desktop may stop anywhere.  A thread that waits for
  the connection's lock gets it because the batch is finite: the others take it
  once per request.

All of it is weak fairness.

## 5. Proofs

Every theorem is one of the specification of its component (or of the run's module, for
the senses and for the types of the services, the world and the program), for every value of
the constants that the named assumptions of the modules allow: any agents, threads,
callers, phones and builds, any bounds, and any faults but where it says otherwise.
TLC evaluates the assumptions in the runs.

The runs check modules that put components together.  `ProgramIsItsParts`,
`WorldIsItsParts` and `ServicesAreTheirParts` prove that each of these modules implements
the specifications of its components, whose variables a step of another component leaves
alone; so what is proved of a component is proved of the run.

Seldom is a property inductive as it stands.  Below, a theorem is followed by what
it says and by what its invariant adds; the lemmas are one for an action or for a
group of actions that disturb the same part.

**`SelfCodingProofs`**: types, and what "approved" says.

* `TypeCorrect`: `TypeOK` is not inductive, because the undo loop indexes the
  list of commits by a counter and the run loop counts down; `TypeInv` adds
  `LoopBounds`, the ranges of both counters.
* `ApprovedIsAlwaysPublished`, under `OneAgent`: "approved" names a commit of the
  remote's main.  The metadata is written two commands after the push, so
  `PromotionInv` says what an operation knows in between: from the merge to the
  push local main is the promoted commit, after the push the remote has it.  That
  the remote never loses it rests on `PushLands` being a fast-forward and on
  prefixes being transitive, both proved as lemmas.

**`CheckpointProofs`**: what the branches hold while one agent works.  `CloneInv` says
of every checkpoint that its branch and its metadata tell of the same commits and end
in work of its own (`RepoInv`), and of the operation at each of its steps what HEAD,
branch and copy have in common (`Phase`, with a part for run, approval and undo).

* `OnlyApprovedWorkEver`: main gets no work but that of checkpoints somebody asked to
  approve, whatever the CLI commits or switches to, under any faults.
* `UndoAddsReverts`: an undo pushes reverts right on top of the promoted commit.
* `FailedRunsLeaveNoTrace`: where a run that failed ends, with `NoGitFaults`; a
  rollback whose Git command fails leaves the branch behind, as the code accepts.
* `LocalMainIsKept`: no step loses a commit that people made on local main.

**`LedgerProofs`**: the refinement.  `LedgerInv` adds that the work of an unpublished
checkpoint is not on the remote (`OutInv`), that the commits recorded cover the span
from baseline to promotion (`CoverInv`), and how far the loop of an undo has come
(`RevertInv`).

* `AgentImplementsLedger`, when no answer of a push is lost and the CLI makes no commits
  of its own: `Init` maps to `LInit`, and each step to one of the
  ledger or a stutter, with crashes, failed writes and commands that fail or raise: one
  lemma for an operation.  Only the saves of metadata and the
  pushes are steps of the ledger; an operation that runs over a state they left
  stutters.
* `UndoneIsAlwaysReverted`, under the same conditions and when the CLI keeps to its
  branch: after an undo none of the checkpoint's commits is in effect.

**`WorkflowProofs`**: `RunsInv` gives every run that goes on a live record of its own,
which eviction spares.

* `StoreKeepsItsLimit`: types and capacity; a creation evicts only when finished
  records are there to be evicted, and refuses otherwise.
* `ReportsAreAlwaysAccepted`: no report of a run raises.  The property names the next
  report of a run at each of its places (`Ahead`) and says that the guards of the store
  let it through; the record it reports to is live because of `RunsInv`.
* `OutcomeIsAlwaysReported`, an action property: `Told` adds what the record of a run
  that waits for its end says.  It needs `AskingStopsNext`, which excludes the steps of
  `workflows.py:474` in section 6.
* `FileChangesSoundly`, an action property, under `OneThread`: the file is whole, and
  what an operation is about to write was computed from what is there (`FileInv`).
* `FileIsTyped`, for any number of threads: a thread has the temporary file open
  exactly while it is about to write to it.

**`DesktopProofs`**

* `AcceptedIsAlwaysWhole`: `WholeByOrder` says what each stage of the build has behind
  it: the manifest comes last and goes first.  No `"part_delete"` (section 6).
* `InstalledIsAlwaysPublished`: every file on its way is cut or no newer than what the
  release's text names, and a cut one gets past the check only where two programs share a
  download; else what a program has checked is what the file holds until it is moved, or
  gone (`FilesArePublished`, `NotShared`).
* `DesktopIsStopped`: what still runs at the end had raised, or was told and is late; `MainInv` follows start and stop component by component
  (`StartedByOrder`, `StoppedSoFar`); `WindowInv` relates the bar that is shown to what
  the host believes of it while its close handler runs (`FloatingIsKnown`).
* `BarCanAlwaysBeHidden`, from the same invariant: the host believes a bar that is shown to
  be visible, so that the next press of the hotkey hides it, but while a toggle or a close
  handler runs and after a toggle that a close event crossed.
* `NewestAreAlwaysKept`: the list kept and the history variable of everything saved
  agree at their ends, and the latter names nothing twice (`KeptInv`).  Both are changed
  by the same removal and append; `WithoutEnds` says that taking an identifier out of
  both keeps one the end of the other, wherever it stands in them.
* `RuntimeIsTyped`: `RuntimeTypes` adds to `XTypeOK` what a command needs of the
  workspace it finds (`WorkspaceOf`) and of the history what `KeptInv` says.  A loop over
  the surfaces of a list is a function of its turns (`UpTo`, `LoopExists`).  A feature
  makes its fixtures first, so that what it works on is there.
* `GatewayIsTyped`: types, by the place of each call.
* `ProgramIsTyped`, of `ProgramSpec` of `MCProgram`: the theorems above and those of
  `WorkflowProofs`, carried over by `ProgramIsItsParts`, and the page.  The page needs
  to know that an answer on its way is a list for it (`RefreshRecord`), and that `Listed`
  has no more rows than were asked for: all but the oldest of them are newer than that
  one (`ListedIsAList`).

**`SensesProofs`**, for the specification `SSpec` of `MCSenses`.

* `SilencedStaySilent`: `MouthInv` bounds the queue by the generation that was cut
  last; `BridgeInv` says that the mouth that is not in use says nothing and has no audio but that
  of a test (`Mute`).
* `PlaybackIsGated`: what the page was told last, the reports on their way included, is
  that something plays whenever something does (`PlayerInv`, `ToldBy`), unless the report
  that says so was carried out before an older one (`overtaken`).
* `AnswersSilenceOlder`, an action property: what the player has is of the newest
  generation it has seen (`AnswerInv`); that an answer has a greatest generation is
  `HasGreatest`, by induction on the size of a finite set.
* `MouseAlwaysFollows`: when requests do not overlap, one actor has its turn, and what
  it has still to do says how interpreter, bridge and button differ (`MouseInv`).
* `SensesAreTyped`: the types of hands, voice and bridge are inductive together.  The
  hands need to know that the event a handler acts on or releases for is there; the
  voice that a full queue drops its oldest packet before it takes one.

**`ServicesProofs`**

* `OneGatewayAlways`: the property relates two processes and not the connection;
  `OnlyOwnIsAlive` says that what lives of the connection is `own`, which
  `StartGateway` replaces only when it is dead.
* `CooldownLimits`: `CallsAndStrikes` bounds by the number of threads the
  failures counted together with the calls under way, each of which may add one.
  A step ends calls, turns one call into one failure, recorded or not, or begins a call
  when no failure counts (`Moves`); `MovesAreBounded` does the counting once.
* `RouterTypes`: types; `OrdersAreSequences` shows that every order of the targets is a
  sequence of them, and the shape of a request keeps a thread that calls at a target.
* `ShownIsAlwaysActive`, under `OneClient`: the active build and the built-in ones can
  be read while the application is up, and what the page is about to display is active
  (`BuildInv`).
* `TokensNeverComeBack`: a token has one owner, the one a thread has in hand was issued
  by the provider and is stored nowhere, and no refresh has a superseded one to store, nor
  can it have one answered (`TokenInv`, `SupersededIsOver`).
* `ServicesAreTyped`, of `SSpec` of `MCServices`: the types of builds, gateway, pieces,
  router and accounts.  What a thread is about to write is typed by its step.  `Others`,
  the loop that collects the builds to drop, is a function of how far it has come, and
  `TurnsPassOn` is the induction over its turns.

**`WorldProofs`**

* `PersonAlwaysDecides`: nothing that needs a confirmation has been done, but by a routed
  operation, where a stage may still ask, a workflow under way included (`DispatchInv`);
  what an attempt may do is `AttemptIsAgreed`.
* `TasksTellOutcome`: who has a request under way has a task of its own, which nobody
  was told the end of (`FeedInv`).
* `AreasKeepOnePlace`: nearly inductive; the queue only needs its type.
* `CommandsAreAlwaysDone`, for any number of threads: what has been sent is as many
  steps as were asked for where the last look begins.
* `PhonesDoAsTold`, under `OneOperator`: ports are counted (`PortInv`): as many are given
  away as the next one says, none to two phones; a mirror that is about to be launched
  does not run (`MirrorInv`).
* `ChangesAreRevertible`, under `OneShaper` and with a history that can be written:
  memory and file of the history are the same and have an entry of before for whatever
  is changed in the graph or in `world.json` (`ShapeInv`).
* `TracesAreShortest`, for every graph: `trace` finds a path exactly when there is one,
  and one of the fewest relations.  The loops of `NeuralGraph` are functions of the turn,
  so each has an invariant proved by induction over its turns (`LoopExists`, `UpTo`):
  the queue of the search is sorted by hops, within one hop of its head; who does not
  wait has been looked at; whoever can be reached within the hops of the head has been
  seen; and the turns suffice, since each entity waits once.
  `GraphInv` adds that core and subsystems are never removed and that relations are
  between entities that are known.
* `ShapesKeepTraces`, for any number of shapers: the same while shapes change the graph,
  with the types of the shapes.
* `WorldsAreTyped`, of `WSpec` of `MCWorld`, for any callers, polls and threads: each
  part keeps its types by itself.  Two of them say more than that: the events that are
  kept are the last that were told of, numbered without a gap (`FeedIsNumbered`), and the
  next port is one more than the phones that have theirs (`Settled`), so that a phone
  which takes one finds one.

### What the theorems assume beyond the modules

| Assumption | In | Why |
|---|---|---|
| `OneAgent` | `ApprovedIsAlwaysPublished`, `CheckpointProofs`, `LedgerProofs` | nothing locks the clone: finding 1 |
| `NoGitFaults` | `FailedRunsLeaveNoTrace` | a Git command of the rollback may fail too |
| `KeepsToBranch` | `LocalMainIsKept`, `UndoneIsAlwaysReverted` | a CLI that switches to main has its rollback there, and its checkpoint takes in commits of others, which no discard takes back |
| `NoPushTimeouts`, `LoopCommits` | `LedgerProofs` | `agent.py:493` and `:549` in section 6 |
| `AskingStopsNext` | `OutcomeIsAlwaysReported` | `workflows.py:474` in section 6 |
| `OneThread`, `OneClient`, `OneOperator`, `OneShaper` | as named above | with two the property fails: `workflows.py:315`, `ui_builds.py:584`, `android_companion.py:41` and `neural_shape_controller.py` in section 6 |
| no `"part_delete"`, no `"history"` in `WriteFaults` | `AcceptedIsAlwaysWhole`, `ChangesAreRevertible` | `prepare_omniroute_runtime.py:137`, `neural_shape_controller.py:3` in section 6 |

Each is met by the configuration that checks the property, so none is vacuous, and
without it TLC finds the property violated.

### Only model-checked

* Liveness (`PromotionSettles`, `HandControlEnds`, `MicrophoneOpensAgain`,
  `EveryBatchEnds`, `WorldReachesPage`, `WhatIsBegunEnds`): out of the prover's reach.

Every invariant and every action property that a passing run checks is proved, under
the assumptions above.

## 6. Findings

Each has a run that reproduces it; PROJECT.json quotes the line it contradicts.

1. `sc_two_agents`: nothing locks the clone; one run's commit sweeps up another
   run's edits, and approving it publishes both.
2. `sc_stacked`: a preview on top of another one cannot be discarded once the
   lower one was.
3. `wf_full`: unconfirmed coding requests leave waiting records for good, and a
   full store then refuses coding requests.
4. `hand_fist`: a pinch let go in a frame that counts as a fist is not noticed,
   and the drag goes on.
5. `voice_test`: testing ElevenLabs while Jarvis speaks leaves the microphone
   closed.

### Other disagreements

These have no run of their own.  The property is defined in the module.  Where no
constants are given, TLC finds the violation when the property takes the place of
the others in the configuration named; otherwise the constants are changed first.

Self-coding, workflows, hand control, interface builds:

| Where | What happens | Property and configuration |
|---|---|---|
| `agent.py:493` / `self_coding/README.md:15` | a push that lands but times out is rolled back locally, and the checkpoint is pending although the remote has it | `PendingIsUnpublished`, `SelfCodingFaults.cfg` |
| `agent.py:549` / `self_coding/README.md:16` | what the coding CLI commits by itself is promoted, but not reverted by undo | `UndoneIsReverted`, `SelfCodingFaults.cfg` |
| `agent.py:398` / `self_coding/README.md:14` | the rollback resets the branch that the coding CLI left HEAD on: when that is main, a commit made there since the baseline is lost | `LocalMainKeepsOthersWork`, `SelfCodingGit.cfg` with `BackendActs = {"edit", "switch_edit"}` |
| `agent.py:86`, `:446`, `:493`, `:592` | `_run` raises when a command takes too long or is not found: where the code looks at the exit status only, the metadata that would settle the operation is not written, and the checkpoint stays "promoting" or "undoing" without a crash | `PromotionSettles` without `raised`, `SelfCodingGit.cfg` |
| `workflows.py:474` / design `workspace-reliability-design.md:55` | a step that asks and may be passed over, then a plain step: the record says "running" for good | `RunningHasRunner`, `Program.cfg` with steps `<<Step(FALSE, TRUE), Step(FALSE, FALSE)>>` |
| `workflows.py:315` / `:225` | two threads rewrite the file at once: one definition is lost, or the file is not JSON | `FileChangesByOneOperation`, two `Threads` |
| `hand_control.py:201` / `README_HAND_CONTROL.md:13` | a press is dispatched after a stop has released the button | `StopReleases`, an environment that overlaps |
| `hand_control.py:182` / `README_HAND_CONTROL.md:17` | in the fail-safe corner `mouseUp` raises, and the button stays down | `WatchdogReleases`, an environment with corners |
| `hand-control.html:49` / `README_HAND_CONTROL.md:12` | a paused page posts no samples, so a palm cannot resume | `PalmResumes` under `HFairSpec` |
| `ui_builds.py:584` / `docs/ui-build-system.md:56` | two quick clicks on USE: the rollback of the build that throws returns to the other activity's broken build, or the page shows another build than the active one | `ShownIsActive`, two `Clients` |
| `ui_builds.py:292` / `tests/test_ui_builds.py:114` | the application dies between the manifest and the assets of a built-in's upgrade: the versions match from then on, and the old assets stay | `BuiltinsAreShipped`, `Services.cfg` |
| `ui_builds.py:617` | NEW and SAVE read `juib-editor-quality`, which the panel does not contain, and raise | read, not modelled |

Voice:

| Where | What happens | Property and configuration |
|---|---|---|
| `jarvis_desktop.py:820` to `:835` / `JARVIS_VOICE.md:31` | two playback reports run on two threads of the bridge and may be carried out in the other order: the microphone is open while something sounds, or closed, until the next report | `MicIsGatedWhileSounding`, `HearsAgain` without `overtaken`, `Senses.cfg` |
| `jarvis_desktop.py:1113`, `elevenlabs_voice.py:329` to `:357` | saving the key tests ElevenLabs although Kokoro is in use, and also after the stop: its audio waits in a mouth that the page does not ask, and comes first when that is chosen | `OldMouthIsSilent` without its second clause, `Senses.cfg` |
| `jarvis_desktop.py:840` | stopping an audio whose `play()` is not settled puts the cut packet back in front, and it is spoken | `AnswerSilencesOlder` without its condition |
| `jarvis_desktop.py:1077`, `:195` | the page polls the mouth that the stored provider names, while the bridge speaks with the one that was selected: the fallback, "falling back to free Kokoro voice", is never heard | `SpokenIsHeard`, `Senses.cfg` |
| `jarvis_runtime_resilience.py:103` / `JARVIS_VOICE.md`, "A preflight failure disables only voice input and retries later" | a preflight that fails sets the stop event, and the voice is over | `OnlyStopDeafens`, `Senses.cfg` |
| `jarvis_voice_bridge.py` `stop` / `JARVIS_VOICE.md`, "audio workers are stopped and joined during Jarvis exit" | the join gives up after three seconds, and the answer under way is spoken after the stop | `SilentWhenOff`, `Senses.cfg` |
| `jarvis_voice_bridge.py` | a barge-in while a request is carried out does not stop its answer | read; `Executes` shows it |
| `jarvis_desktop.pyw` | the packaged program replaces `JarvisWebApi` by a class that lacks `voice_audio`, `voice_playback_state`, `toggle_text_link` and the `omniroute_*` calls; its pages cannot fetch audio nor open the settings.  The modules model the class of `jarvis_desktop.py` | read, not modelled |
| `jarvis_desktop.py:515` | `voice_set_provider` calls `host.set_voice_provider`, which the host does not define, and the methods after it use a `self.voice` that the class does not have | read, not modelled |

Gateway, accounts, desktop program:

| Where | What happens | Property and configuration |
|---|---|---|
| `router.py:248` / plan `2026-09-15-multi-ai-jarvis-orchestration.md:140` | a connection that is cut after the request was sent, or an answer of another shape, raises what `call` does not catch: the target does not cool, no other is tried, and `complete_many` loses the answers of the whole batch | `Escapes` shows it; no property |
| `omniroute_lifecycle.py:102` / `:16` | a start that waits too long terminates its gateway, which may have begun to serve the router | `AwaitStart` shows it; no property |
| `jarvis_desktop.py:1055` | the settings window says that the setup failed although the key was stored: the test ran out of time | `FailedIsNotStored`, `Program.cfg` |
| `omniroute_setup.py:329` | warm-up and settings window find no process and start one each | `OneProcess`, `Program.cfg` |
| `omniroute_setup.py:245` | an installation that was cut off is found as a command by the next call | `ResolvedIsWhole`, `Program.cfg` |
| `omniroute_lifecycle.py`, `omniroute_setup.py` | the lifecycle starts the gateway without the data directory that the provisioner's commands use | read, not modelled |
| `prepare_omniroute_runtime.py:137` / its docstring, "verified before packaging" | a deletion that leaves a part, and a probe that shows nothing: a runtime without its server is accepted | `AcceptedIsWhole`, `Program.cfg` with `BundleFaults = {"silent", "part_delete"}` |
| `account_store.py` / its docstring | grants are written but not read again at a start | `GrantsSurviveRestart`, `Services.cfg` |
| `oauth_broker.py:283` | a refresh under way while the account is disconnected stores its token again; a concurrent `save_grants` writes the grant back that `delete_grant` took out | `PostRefresh`, `WriteGrants` show it; no property |
| `oauth_broker.py:283` | a refresh that loaded the token set of an account which does not rotate, while the account is connected again: it stores the replaced token over the new one | `NoTokenComesBack` with `UnderWay` empty, `Services.cfg` |
| `README_ACCOUNTS.md`, "must produce a reauthorization state" | no code assigns `NEEDS_REAUTH` | read, not modelled |
| `jarvis_desktop.py:1184` | a staged update ends the program without the stop, and the neural world is not saved | `SavedWhenGone`, `Program.cfg` |
| `jarvis_desktop.py:1401`, "Destroy the hidden floating bar when the main Jarvis window closes." | the program goes on while the settings window is open, or when the hotkey makes a new bar | `ClosedMainEnds`, `Program.cfg` |
| `jarvis_desktop.py:761` | float button and hotkey together: neither window shows the text link | `SomewhereALink`, `Program.cfg` |
| `jarvis_desktop.py:1331`, `:1372` to `:1379` | the handler of the bar's close event takes no lock: between the two halves of a toggle that shows the bar it leaves a bar that is shown and believed hidden, and the hotkey shows it once more | `ShownCanBeHidden` without `crossed`, `Program.cfg` |
| `jarvis_voice_bridge.py:389`, `jarvis_desktop.py:350` / `JARVIS_VOICE.md:55` | the joins give up after two or three seconds: a thread of the voice or of the hotkey may run on when the program has stopped | `StoppedIsOff` without `late`, `Program.cfg` |
| `self_update.py:131`, `:139`, `:141` / `JARVIS_SETUP.md:51`, "verifies the release-provided SHA-256 digest" | all programs that load a commit write one `.download` file: what one has checked another may truncate before it is moved, and a cut file is installed, which does not start | `InstalledIsPublished` without `shared`, `Program.cfg` |
| `self_update.py` | a slow script moves an older file over a newer one | `UpdatesGoForward`, `Program.cfg` with `MaxVersion = 3` |
| `jarvis_desktop.py:426` | a check under way hands over although the program is being stopped: it comes back | `ClosedStaysClosed`, `Program.cfg` |
| `self_update.py` / `JARVIS_SETUP.md:53`, "An update failure leaves the currently running Jarvis instance in place." | the program has ended when every move fails, and nothing runs | `SomethingRuns`, `Program.cfg` |
| `self_update.py` | while the release's text names a commit whose file is the old one, the program updates and restarts again and again | `Fetch` shows it; no property |

Requests:

| Where | What happens | Property and configuration |
|---|---|---|
| `agent_orchestrator.py` | a plan whose first step failed, a goal that raised half-way and a refused shape leave no result; the model's answer to that counts as verified | `Step`, `GoalEnds`, `Reply` show it; no property |
| `agent_orchestrator.py:379` / `JARVIS_ORCHESTRATION.md:19` | a goal reached by using the computer calls the tool directly, by no policy or confirmation gate but the orchestrator's own question | `Act` shows it; no property |
| `jarvis_desktop.py:62`, `orchestrator.py:82` | `build_runtime` allows no capability and has no hook, and `run` is not given the person's answer: as built, whatever goes by the policy is refused | `MayDispatch` with the policy of no capability |
| `agent_orchestrator.py` | a goal that raised half-way is planned and done again; a request that was agreed to is planned anew, so what runs may differ from what was asked | `GoalEnds`, `Begin` show it; no property |
| `runtime.py:443`, `:450`, `:478`, `:516` / `JARVIS_ORCHESTRATION.md`, Safety boundary | two operations take `confirmed` from the arguments of their own step: a plan of the model, or a workflow, does what is guarded without that anybody was asked | `ChangesWereAgreed` without `ConfirmedItself`, `World.cfg` |
| `workflows.py:381` | a workflow that asks has done its steps up to there, and does them again when it is agreed to | `WorkflowStep` shows it; no property |
| `runtime.py:274` | two threads that want a tool for the first time make two | read, not modelled |
| `neural-jarvis-acceptance.md:14`, "track real orchestration stages and failure/waiting/completion states" | the task of a request that was agreed to goes on waiting: the answer has a task of its own | `WaitingIsAsked`, `World.cfg` |
| `neural_mesh.py:1129` | the time of the last poll is not kept, so the observation is asked for at every tick; polls overlap, and a late answer sets the followed task back | `FollowsNewest`, `World.cfg` with two `WatchPolls` |
| `neural_events.py` `since` | an answer holds the last events of those that are new; of a burst the first are never told | `BirthsAreShown`, `World.cfg` |
| `agent_orchestrator.py:457` | tasks and ended processes are retired but never removed; when 50000 entities are known `neural_task_started` raises before the `try`, and so does every request | `HasPlace` shows it; no property |

Neural world, runtime, page and phones:

| Where | What happens | Property and configuration |
|---|---|---|
| `neural_discovery.py` | what has ended stays shown: after a restart nothing of before is remembered as seen, and one of two discoveries at once may show again what the other retired | `EndedIsRetired`, `World.cfg` |
| `neural_world.py:451` | the filter "connected to" finds only some of the neighbours | `ConnectedAreAll`, `World.cfg` |
| `neural_world.py` `trace` | a trace from a node to itself is empty, like none | `Trace` shows it; no property |
| `neural_shape_controller.py:3`, "Every mutation records the first observed state of its target" | an entry that could not be written stays in memory, is taken for written by the next call, and is gone after a restart | `ChangedIsRevertible`, `World.cfg` with `WriteFaults = {"history"}` |
| `neural_shape_controller.py`, `spatial_layout.py` | a revert whose write of the layout failed forgets its entry, and the window keeps its changed place | `LayoutIsRevertible`, `World.cfg` |
| `neural_shape_controller.py` | the world is written at the end only: when the program dies, what was reverted is changed again, with nothing to revert it by | `RevertedStays`, `World.cfg` |
| `neural_shape_controller.py` | a revert shows again what discovery had retired; two calls at once may record the first one's change as the first state | `RestoreEntity`; `ChangedIsRevertible` with two `Shapers` |
| `runtime.py:61` | the runtime's service lacks the `neural_shape_*` methods, so only the web API reaches the controller | read, not modelled |
| `neural_advanced.py:85`, "Bounded particle ecology" | what is full takes one more cell with every list that names a new one | `EcologyIsBounded`, `Program.cfg` |
| `neural_advanced.py:428` | a surface that is grouped anew stays in the set of its old group, moves with both, and may be hidden where no group can show it | `GroupsAreDisjoint`, `HiddenCanBeShown`, `Program.cfg` |
| `neural_advanced.py:1272` | the owner of a region and the ownership differ | `RegionHasOneOwner`, `Program.cfg` |
| `neural_advanced.py:1050` | two dry runs in one millisecond share an identifier | `DryRun` shows it; no property |
| `neural_advanced.py:2339`, "changes observable state" | features of a group that only group again count as passed; the report of the scope says that all was added whatever was executed | read; `SpatialFeature` |
| `neural_advanced.py` | `suggest` for the kind "clipboard" raises; `evict_distant` and the worker of `LiquidEcology` use attributes the class lacks; the smoke test leaves the person's view mode and history changed | read; `SmokeStep` |
| `neural_fullstack.py:570` to `:600`, `neural_advanced.py` | an area in two places (the class without a lock), a cache over its limit, two workers after a stop that gave up waiting | `StreamerHasOnePlace`, `CacheIsBounded`, `OneWorker`, `World.cfg` |
| `neural_fullstack.py:326` | a profile lists a region that changed hands | `ProfilesListOwnRegions`, `World.cfg` |
| `neural_fullstack.py:831` | a step of the organism that lets a cell divide inserts into what it iterates, and raises | `StepsReturn`, `World.cfg` |
| `neural_fullstack.py:946` | every transition attaches what was detached | `DetachedStays`, `World.cfg` |
| `neural_fullstack.py:1137` | an optimization overwrites the only state to roll back to, and `loop_prevented` prevents nothing | `Apply` shows it; no property |
| `neural_fullstack.py:1201` | a display reconnected with a copy of before its removal has no size, and the next placement raises | `RegisteredHasSize`, `World.cfg` |
| `neural_fullstack.py`, time machine | a bookmark outlives its frame | `BookmarksResolve`, `World.cfg` |
| `neural_fullstack.py:1397` | populating a world resets its seed | `SeedsAreKept`, `World.cfg` |
| `neural_fullstack.py` `drain` | drains the whole queue and returns its end; nobody calls it | read, not modelled |
| `workspace_ui.py:406` | a tab chosen while the page hydrates is taken back | `ChosenStays`, `Program.cfg` |
| `workspace_ui.py` | calls that activate a workspace may overtake each other, and a tab chosen before the bridge is there is never told | `ProgramKnowsTab`, `Program.cfg` |
| `workspace_ui.py`, `agent_orchestrator.py` | CANCEL of a coding request has no effect, and one that waits for a confirmation stays with its cancellation for good | `CancelledEnds`, `Program.cfg` |
| `workspace_ui.py`, `neural_mesh.py:14` | RUN strips quotes from a name, which is then not found; of more than eight live activities some cannot be cancelled; the shell is hidden while the neural build is active | read, not modelled |
| `automation.py:41` / `README_DEVICES.md`, "return an explicit failure if the device disconnects during execution" | a phone unplugged before the last look: adb's failure is passed over | `DisconnectIsReported`, `World.cfg` |
| `android_adb.py:73` | adb that fails lists nothing, so phones and selection are forgotten, although the registry keeps them when a provider raises; the next refresh selects any | `SelectionStays`, `World.cfg` |
| `android_companion.py:41`, "Each physical phone gets its own PC-local forwarded port"; `mirror.py:102`, "Own one independent scrcpy process per physical device" | two threads at once: one port for two phones, two mirrors of one | `DoneAsTold`, `World.cfg` with two `Operators` |
| `mirror.py` `stop` | waits with `TimeoutError` for what raises `TimeoutExpired`; nobody calls `close`, so mirrors outlive the program | read, not modelled |
| `hand_control_server.py:128` | `devices.hand_target` sets the phone on a bridge that gets no samples | read, not modelled |
| `spatial_windows.py` | of two managers the runtime's never has the host window, so embedding always raises, and the page's never embeds | read, not modelled |

## 7. Not modelled, and why

PROJECT.json lists every component with its status.

* Background work (`background.py`, `scheduler.py`, `background_mode.py`,
  `health_monitor.py`): the program registers no component and starts no job, and no
  plan can name a background task.  What may race there is reached by tests only, and
  `JarvisRuntime.handle_text` has no other caller either.
* Spatial windows: no capability is granted to the program as built, so no window is
  listed, and neither of the two managers can embed one.  The file of the layout is in
  `ShapeHistory`.
* Location and maps, system adapters, Windows maintenance, quality floor and readiness:
  pure computation or calls of the system, with no state that two actors share.

In what is modelled the following is left out.

* `SelfCoding`: what the tests and the quality gate look at; either may fail at any time.
* `WorkflowFile`: readers that hold the file open other than by making a rename fail.
* `HandControl`: starting a server while requests of its predecessor are under way,
  losing the port to another process, the phone as a target.
* `VoiceOutput`, `VoiceBridge`: recognition of speech, protocols of the providers, wake
  words, and the modules that wrap other voice front ends.
* `UiBuilds`: validation of text and markup, a state file damaged by hand, one asset
  written without the next.
* `ModelRouter`: requests of different profiles, which share the gateway but no
  cooldown; configuration.
* `Accounts`: addresses, PKCE and payloads.
* `DesktopHost`: calls of the window library take effect at once and do not wait for
  the thread whose handler they are made in.
* `NeuralWorld`, `NeuralGraph`, `ShapeHistory`, `NeuralRuntime`, `Experiences`: geometry,
  markup, energies, measurements and comparisons of what was measured; a search's
  scores; the library of custom shapes; listings that fail.
* `TaskFeed`, `Dispatch`: the matching of words to intents, prompts, and the text of
  plans and answers; the time limits of tools, which report the failure of an operation
  that goes on.
* `WorkspacePage`: the command index and what is shown as it is read.
* `Devices`: taps of the hand, ending the tool, scheduled automations and Phone Link,
  none of which the program reaches.

Cameras, browsers, scheduling by the system, providers, Git and adb are the environment.
