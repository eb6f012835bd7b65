# A TLA+ model of MoonAgents

MoonAgents runs systems of SDL agents in Lua. This directory models its engine
(`moonagents/engine.lua`), the C modules below it (timers, time-triggered signals,
red-black trees, enumerations and text style) in TLA+, checks the models with TLC on
small instances, and proves their main invariants with TLAPS for every value of the
constants. Line numbers below are those of `moonagents/engine.lua` unless another file
is named.

## The system

Everything runs in one thread. An application creates a *system agent* and calls
`trigger()` in its loop; agents are scripts that react to signals with
transitions. There is no preemption, but the engine is re-entrant: the scripts it
calls (start transitions, transitions, `atreturn` functions, exported functions,
socket callbacks) call it back, at any depth, while it is in the middle of
something. That is where the difficulties are.

| component | state | operations | talks to |
|---|---|---|---|
| schedulers | `Scheduler(1)`, `PrioSchedulers(1)`, `NormSignals`, `PrioSignals` | push (Send1, Restore, TimersCallback), swap and flush (Trigger) | dispatcher |
| agents | `ENV`, `moonagents_` tables, `NextPid`, `SystemRunning`, `ReleaseQueue`, `PidStack`, special variables | create, procedure, stop, procedure_return, next_state, remote_call, Release, ResetSystem | scripts, schedulers, timers |
| signals | scheduled entries, `moonagents_.saved`, `signal_` | send, save, restore, Dispatch | schedulers, agents |
| timers (`timers.c`) | tree of timers, tree of armed ones, `Tnext`, `NextTid` | create, start, stop, modify, delete, trigger, discard | dispatcher, red-black trees |
| timer functions | `moonagents_.timers`, `CanCreateTimers`, owners | timer, timer_start, timer_stop, timer_modify, deletion in Terminate | agents, timers |
| time-triggered signals (`tts.c`) | tree of signals by time, `Tnext` | send, pop, reset | Trigger, red-black trees |
| sockets | `RdSet`, `WrSet` | add, remove, callbacks | Trigger, agents, containers |
| red-black trees (`tree.h`) | root, children, parents, colors | insert, remove, searches, walks | timers, tts, enumerations |
| enumerations, text style (`enums.c`, `utils.c`) | two trees of records, the style switch | load, search, set a style, exit | red-black trees, allocator |
| containers (`fifo.lua`, `array.lua`) | arrays with indices | push/pop, insert/remove | all |
| names and information | `names` tables | pidof, nameof, tree, ... | agents |
| configuration, logs, error strings, clock, Lua bindings | | | |

What makes the components correct, in short:

* schedulers: signals are dispatched in rounds, by priority, first in first out;
  no signal is stranded or overtaken for ever; a trigger returns;
* agents: each script runs in the `_ENV` of its agent and finds it again; the
  agents form a tree that is dismantled from the leaves; nothing leaks and nothing
  waits for what cannot come; signals to an agent go to its innermost procedure;
* signals: each is in one place, and goes to the agent it was sent to or to one
  that acts for it;
* timers: every timeout is reported once, to who may manage the timer, unless the
  timer was stopped;
* time-triggered signals: never early, in the order of their times, and at last;
* trigger: it does not sleep in `select()` while something is scheduled or due;
* sockets: the sets stay exact while callbacks change them, and a callback for reading
  runs in the `_ENV` of who added the socket, if no reset came between;
* trees: an ordered set, balanced, with loops that end;
* enumerations: both trees hold the same records, whatever allocation fails, and the
  exit frees them; a style shows what it names.

`PROJECT.json` lists the hazards at the lines where they bite, with the
properties that guard against them.

## Modules

| module | models | form |
|---|---|---|
| `Schedulers` | the queues and Trigger's use of them (745-785, 950-962), `fifo.lua` as sequences | state machine |
| `Rounds` | what the manual promises of dispatching | abstract specification |
| `SchedulerOrder` | `Schedulers` with a history variable, implements `Rounds` | refinement |
| `Agents` | pids, tree, procedures, termination, context switches, errors | state machine |
| `Engine` | `Agents` and `Schedulers` composed, with save, restore, dispatch | composition |
| `Timers` | `timers.c` in the life that Trigger and Dispatch give it | state machine |
| `AgentTimers` | `Timers` and `Agents` composed: owners, creation, deletion, dispatch | composition |
| `Tts` | `tts.c`: the queue of time-triggered signals | actions on three variables |
| `EventLoop` | Trigger but for its release of agents, with `Timers`, `Tts` and `select()` | composition |
| `Array` | `array.lua`: a list with indices and infos | operators |
| `Sockets`, `SocketsMC` | `Agents` and two sets of sockets, with the callbacks in Trigger | composition |
| `OrderedSet` | what a tree is for its users | abstract specification |
| `RedBlack`, `RedBlackMC` | `tree.h`: the RB macros, an iteration of a loop at a time, implements `OrderedSet` | refinement |
| `Enums`, `TextStyle`, `TextStyleMC` | `enums.c` from loading to exit; `set_text_style()` and a terminal | state machine |
| `Pointers` | `NULL` | definition |
| `SchedulersProofs`, `AgentsProofs`, `EngineProofs`, `TimersProofs`, `EventLoopProofs`, `AgentLibrariesProofs` (`AgentTimers` and `Sockets`), `RedBlackShapes`, `TreesProofs` (`RedBlack`, `Enums`, `TextStyle`) | theorems | proofs |

Some definitions are followed or preceded by a *wrong variant* of them, marked so
in a comment. No specification uses them: they are the bugs that each property
must be able to see, one for every property of every run.

### Schedulers, Rounds, SchedulerOrder

One variable for each variable of the code, by its name. `phase` says whether
`Trigger` is in its flush. A step is one push, one pop, the swap, or the end of
the flush; pushes may come between pops, because transitions send. The queues
hold members of a set of signals: an entry is sent again only when it is no longer
scheduled, which bounds the queues.

`Rounds` knows no queues: a round delivers what was sent before it was opened, the
higher level first, the older first. The queues forget the order of two signals
of different queues, so `SchedulerOrder` adds `older`, the pairs of outstanding
signals in the order they were sent, and maps the copies being flushed and filled
to `current` and `later`.

### Agents

A step is what the engine does between two moments when a script runs: `NewAgent`
is split where the script and its start transition run, `ProcedureReturn` where
the `atreturn` function runs, `RemoteCall` where the exported function runs,
`Dispatch` where the transition runs. `frames` (the Lua call stack, reduced) holds
the engine calls that wait for a script, each with the agent whose `_ENV` it should
run in; `self_` and `PidStack` are what the code keeps to get that right. Scripts
call the engine in any order and at any time while their agent has a `moonagents_`
table. `Terminate`, which recurses into the parent, is one step on the set of agents
it frees.

Errors: a start transition that fails (`StartFails`, 501-506), a system agent that
fails (`SystemStartFails`), an agent whose script does not compile and which stays for
ever (`CreateUncompiled`), and an error of any other script that reaches the application
(`Raise`: nothing is unwound, the application resets). `Raise` also stands for errors
while a script is loaded (481) and for a procedure that fails to start, for which
`stop()` raises (909). That `ResetSystem` assigns a `PidStack` which is not the one of
line 321 is modelled: the leftovers survive.

Left out of `AgentsSpec`: scripts of a terminated agent make no further engine call; a
procedure calls `procedure_return` once; procedures are not created with the name of a
sibling; an error that leaves calls of the engine behind it reaches the application, it
is caught neither by a script nor by the `pcall` of a start transition that is pending
(493); names appear only as `CreateDuplicate`; finalizers are not called. What the code
does in these cases is under "Disagreements".

### Engine

`EXTENDS Agents`, instantiates `Schedulers` with entries (signal, destination, and
the history field `to`, the destination at the time of sending). `Deliver` is a pop
and a dispatch; `Discard` a pop for a destination that is unknown or stopping. Timers
and time-triggered signals push only at the start of `Trigger`, before the swap,
where the application may send as well: they are sends of the application here.
`input_priority` makes the priority of a send independent of the sender: it is any.
`Block` is the `select()` of a `trigger(true)` that has nothing left to dispatch: with
sockets that are monitored and nothing due, it may wait for ever, before `Release` (807).
What the callbacks then do is in `Sockets`.

### Timers and AgentTimers

`Timers` has one step for each function of `timers.c`, and for each round of the loop
in `Timers_trigger`. `inflight` counts the signals of each timer in the schedulers,
`stale` those sent before the last stop of the timer: the latter is what the
discard count is meant to be. Owners appear as `stopping`: from then on `Dispatch`
takes no signal for them. `timer_modify` is a stop. Stops are counted without a bound, as
in the code, while the owner takes signals: that the count stays at 1 is a property. Once
it is stopping nothing takes a discard back (681 returns first), so its counts are
bounded, by `MaxStops`. A timer started for a time before 0 is left out: `ArmedFirst`
(`timers.c:89`) never finds it.

`AgentTimers` extends `Timers` and `Agents` (their actions keep their names; those of the
composition are `NewAgent`, `DispatchSignal`, ...): a timer is created by whoever calls
`timer()` while `CanCreateTimers` is set (273), belongs to it (`owner`), is listed with it
(`timersOf`), may be managed by an agent and by the procedures that act for it
(`CheckOwner`, `timers.c:359`), and its signal goes through `Dispatch` with the redirection
of procedures. The flag is set and cleared exactly as in `NewAgent` (467, 484), whether the
script loads, raises or does not compile, and `loading` says which scripts are loaded; so
timers are created in transitions and by procedures, too, where the code lets them.
`Terminate` goes through the list while `TimerDelete` moves its last element into the hole,
so that `Reached` is the first half of it: timers survive their owners, which is modelled
as it is. A procedure that has timers of its own cannot terminate, since `TimerDelete`
raises (298); that is a `Raise`. Timer signals are not saved here.

### Tts and EventLoop

`Tts` has one operator for each function of `tts.c`. As in the code, `TtsPop` decides
by `Tnext` alone and then takes the first signal of the tree; that there is one, and
that its time has come, is a property. `EventLoop` extends `Timers` with it and adds
the parts of `Trigger` as the values of `stage`: the pops, the timers and the flush
(`tphase` of `Timers`), `select()`, the callbacks. Scripts run, and call the engine,
while the application, a transition or a callback does. `wake` is the time at which
`select()` gives up; while Trigger blocks, nothing happens but that time passes or a
socket becomes ready.

Only one agent receives time-triggered signals here, and it lives; whether some
ordinary signal is scheduled is a Boolean, and so is whether sockets are monitored.
A saved signal loses its `sendtime` as in the code, which saves `sendime_`; its expiry
time survives, because the entry that is saved ends with a Boolean (`istimer_`), so
`table_unpack` finds all six fields. The signals of timers are not saved here.

### Array and Sockets

`Array` translates `array.lua`: a list, the index of each value, an info for each.
`Sockets` extends `Agents` with `RdSet` and `WrSet`: scripts and the application add and
remove sockets, also in callbacks; `Select` reports any of the monitored sockets in any
order; `DoSocketCallbacks` is a step for each socket, split where the callback runs. As
in the code, callbacks for writing are looked up among those for reading, the first
socket without one ends the loop, sockets of agents that are gone are closed, an error
leaves Trigger at once, and the sets survive resets (`ResetAgents`). `addedBy` is not
in the engine: who monitors a socket. The engine knows a pid only, and pids start anew with
each system, so in `addedBy` a reset makes of the agents `Former` (`Outlived`). The
application adds sockets only in its own `_ENV`: after an error `self_` is stale until the next `create_system()`, reset or not. Signals and the time
that `select()` takes are in `Engine` and `EventLoop`.

### OrderedSet and RedBlack

`RedBlack` has the root and the `rb_entry` of each element; left and right are the
values of a parameter, for the macros mirror each other. Each iteration of
`RB_INSERT_COLOR` and `RB_REMOVE_COLOR` is a step, with `elm` and `parent` as
variables; the searches and walks are operators. `OrderedSet` is the abstract
specification, a set of elements with different keys, that `Timers`, `Tts` and `Enums`
use in place of a tree.

### Enums and TextStyle

`Enums` goes from `luaopen_moonagents` to `AtExit`: `enums_new()` for each entry of the
table of `enums.c`, in order, with a failure of any allocation (the error leaves the
function at once), then `enums_free_all()` as a loop over the tree of codes. The table is
a constant, `Table`; the run gives it the one of the code, `Enumerations`.
`TextStyle` adds `set_text_style()` and a terminal, which knows nothing of colors and
modes: it takes the numbers of an escape sequence one after the other.

## Runs

| run | instance | states | shows |
|---|---|---|---|
| `schedulers` | 3 signals, 2 levels and the normal one | 1,832 | the queues implement `Rounds`; every signal is dispatched |
| `agents` | 4 pids, 3 nested calls, 1 leftover of errors, 1 state | 398,264 | tree, stack, procedures, termination |
| `engine` | 1 signal, 3 pids, 2 nested calls, 2 states | 185,958 | save, restore, hand-over, dispatch, reset |
| `engine_live` | 2 signals, 2 pids, 2 nested calls, 1 leftover of errors | 50,475 | triggers return and the system stops, but for a `select()` that waits |
| `timers` | 2 timers, 2 pids, 2 nested calls, 1 leftover of errors, times 0..1 | 311,993 | no timeout lost, none invented; who owns timers and receives their signals |
| `event_loop` | 2 time-triggered signals, 1 timer, times 0..1 | 162,204 | nothing early, nothing out of order, no oversleeping; what is due is sent |
| `sockets` | 2 sockets (symmetric), 2 pids, 2 nested calls, 1 leftover of errors | 1,237,369 | exact sets, callbacks in the right `_ENV` |
| `rbtree` | 10 elements, two with the same key | 56,634 | an ordered set, balanced at each iteration, loops end |
| `text_style` | all 39 enumeration records; 2 names for each color, 1 unknown, 2 modes | 2,766 | trees agree, styles show what they name, the exit frees all |

Four pids are the least for a procedure nested in a procedure of an agent that is
not the system agent, and for a chain of three stopping ancestors; three nested
calls are a transition, a call from it, and a call from that. Three signals on three
levels are two that compete in each order and one that overtakes. One signal in
`engine` suffices for its invariants, each of which is about a signal and the places
it may be in; order between signals is checked in `schedulers`. Two states let a
`next_state` restore (a change) or not.

In `timers` two timers make the armed tree's first element matter and let `Terminate`
miss one; two pids are an agent and its procedure, or a creator and what it creates at
startup; at time 0 a timer for 0 is due and one for 1 is not, and time passes between
them. `MaxStops` is 1, for owners that are stopping; for the others nothing bounds the
count but `OneSignalPerTimer`, which is proved for any instance.
In `event_loop` two times are enough for a signal that is due, one that is not, and a
timeout between them; two signals compete at equal and at different times, one with the
timer for the timeout. All its signals have `maxdelay` 0, so each is received in time or
is stale. In `sockets` two sockets are one that is reported and one that its callback
removes, in each order, for reading and for writing. Only the application and the second
agent monitor for writing (`Writers`): who called `socket_add` for writing matters to nobody,
since callbacks are looked up among those for reading. Ten elements build trees of four
levels, in which every case of the rebalancing loops is met, on both sides, and two of
them contend for a place. `text_style` uses the real table.

Runs that expect a violation, each a disagreement between the code and what its
manual or comments say (details in `PROJECT.json`, findings):

| run | what happens |
|---|---|
| `restart_and_stop` | expired timer, started again, then stopped: the old signal is received |
| `send_to_terminated` | `send` to an agent that terminated in this trigger indexes its missing `moonagents_` |
| `restore_and_return` | signals restored by a procedure that then returns are discarded |

### Disagreements

Others were met while modelling. The models do what the code does, or leave the case
out where it is said above, and no run is devoted to them:

* a script that does not compile leaves a child that never terminates (502, 911), nor does
  its parent then (modelled: `CreateUncompiled`; `NoZombie` allows its birth);
* a procedure with the name of a sibling leaves its caller without signals (434, 446); left
  out;
* a procedure whose start transition fails is stopped with `stop()`, which raises (909);
* a remote call, an `atreturn` function or a procedure's start that fails does not switch
  back: whoever catches the error, be it a script or the `pcall` of a pending start
  transition (493), goes on in the other agent's `_ENV` (1065, 502-503), where
  `EnvMatchesCallStack` does not hold. The models take these errors to the application;
* a signal that was saved and restored is received with `sendtime_` nil: line 1023 reads
  `sendime_`; a late time-triggered signal may be discarded at line 725 although it was
  in time when it was saved;
* timers outlive owners that have more than one (542); their signals reach nobody;
* `CanCreateTimers`, `RdSet`, `WrSet` and `PidStack` are assigned by `ResetSystem`
  before their declarations (100-107), so a reset does not reach them;
* hence a socket that an agent left in the sets is called in the `_ENV` of the agent that
  has its pid in the next system, where `doc/sockets.adoc:9-10` has "the dedicated `_ENV`
  of the agent that called this function". `CalledInTheEnvOfTheAdder` is about sockets that
  were added since the last reset, or by the application;
* `doc/timers.adoc:26-27` has "An agent can create timers only before the execution of its
  start transition" and "Timers can not be created in state transitions nor within
  procedures". The engine has one flag for all agents: a script that raises while it is
  loaded, or does not compile, leaves it set (472, 481), also through a reset; a
  procedure that is called at startup finds it set (467), and so does an exported function
  called then. An agent that creates another at startup finds it cleared (484). All of it
  is modelled. A procedure cannot start what it created (`timer_start` checks for its caller,
  305), and cannot terminate with it (298);
* callbacks for writing are looked up among those for reading (632);
* Trigger may block in `select()` although only `Release` is left to do (793, 807);
  modelled: `Block`.

### Fairness

* The application calls `trigger()` in its loop (`doc/trigger.adoc`) and, after an
  error, resets.
* Scripts return (`doc/fsm.adoc`: "return as soon as possible"): strong fairness for
  each depth of calls, since a script may make calls at that depth again and again
  before it returns; calls at one depth do not make those at another return.
* The loops of `Trigger` proceed. That they end is not assumed: `TriggerReturns`.
* `select()` returns when its timeout is over; no socket has to become ready. In `Engine`,
  which has no time, one that blocks need not return at all (`~blocked` in the fairness of
  `FinishTrigger`), and `TriggerReturns` and `SystemStops` say so: a trigger returns, or
  waits with all signals dispatched; the system stops, or a trigger comes to wait before it
  releases. All steps
  of `Trigger` in `EventLoop` are under one weak fairness condition: at each stage some
  step is enabled until it is taken, but for a `select()` that rightly blocks.
* The loop of `enums_free_all()` proceeds; that it ends is `ExitFreesAll`. That the
  loops of `tree.h` end is an action property, `LoopsEnd`: they come closer to it with
  each iteration.
* Nobody has to send, create, stop or start anything.

## Proofs

All for any values of the constants; the assumptions are the ones named in the
modules (bounds are naturals, `PrioLevels` is 1..16, the special states differ).

* `SchedulersProofs`: the counters tell of every queue, nothing is stranded. The
  invariant adds to the two properties that each copy that is flushed was counted.
  And `OrderSpec` implements `Rounds`. The step simulation needs that each
  queue is sorted by `older` (`QueuesSorted`): then the head of the highest queue that
  is not empty is what `Rounds` delivers. Sorting is kept because a push is younger
  than all that is outstanding, and the swap exchanges whole queues.
* `AgentsProofs`: `AgentsInv` is inductive. `EnvMatchesCallStack` and
  `SwitchBackSafe` need each other and more: that the pids of all frames have entries
  in `ENV` (entries go only when no script runs, and `Terminate` removes none), that
  `ENV` holds exactly the living and the to-be-released (`NothingLeaks`), that a frame
  at the bottom is no `atreturn`, and that what errors leave on `PidStack` stays below
  the frames.
  Its second half is about the tree: `TreeConsistent` and `NoZombie`, a property of steps,
  since an agent whose script does not compile is born as what no step else leaves. A cascade (`IsCascade`) is
  defined by what it frees, not by how. That an agent that stays loses at most one
  child, so that `NoZombie` holds of it, is a counting argument (`OneOfTheChain`): each
  freed agent but the first has its last child among the freed, a different one for
  each, and if two of the freed had their parent outside, there would be one child too
  few.
  A procedure that has begun to return is no more named by its caller
  (`ReturningFree`), which is why it can be stopped at the end of the call whatever
  happened meanwhile. `InnermostProcedureRuns` follows the chain of procedures by least
  counterexamples, since a procedure is younger than its caller.
* `EngineProofs`: each step of `Engine` is one of `Agents` or leaves it alone, so the
  theorems about agents hold with signals; saved signals belong to who holds them (a
  caller that gets some is alive by `AgentsInv`); and no queue strands a signal. The
  last is not a corollary of `SchedulersProofs`: the engine also restores to the
  queues, drops them, and leaves a flush because of an error. No signal is in two places
  (`NeverDuplicated`): a signal id is in one queue at most and there at one position, which
  each step keeps because it moves an entry or creates one whose id is nowhere. Who
  consumes a signal acts for its addressee (`DeliveredOnBehalf`): the original caller of a
  procedure never changes, and a saved signal is handed over along that chain.
* `TimersProofs`: `TimersInv` says which timers may have a signal on their way in
  each phase, that the discard count never exceeds the stale signals, and that an
  expired timer has a signal that is not stale. From it follow: no timeout is lost,
  at most one signal per timer, the armed tree is exact; with `NoExpiryMissed` as a
  second invariant, `Tnext` is never late. For careful scripts the count is exact
  (`ExactCount`), and stopped timers are not heard of: `StoppedIsDiscarded` for
  `CarefulSpec`. The run `restart_and_stop` shows that it fails without care, so it is
  the proof, not a run, that establishes it with care.
* `AgentLibrariesProofs`, of `AgentTimers`: each step is one of `Agents`, so `AgentsInv` holds. Not each step is
  one of `Timers`: `Terminate` deletes several timers at once, which is a step of its own
  (`StoppedTimers`); the rest reuses the lemmas of `TimersProofs`.
  `OwnersInv` ties the two: `stopping` is exactly the timers whose owner's `state_` is nil,
  no agent that is gone has a state or an array, and arrays list what is owned. Procedures
  may own timers, since the flag does not keep them from it, but a signal of one would go to
  who cannot manage it. That none is ever sent is `ProceduresStartNone`: to start a timer one
  has to act for its owner, and an original caller is no procedure (`OriginalCallers`).
* `EventLoopProofs`: each step of the loop is a step of `Timers` or leaves it alone, so
  the theorems about timers hold in `Trigger`. With `NoExpiryMissed` from there,
  `LoopInv` is inductive: `Tnext` of `tts.c` is exact, queues hold only signals whose
  time has come, and while Trigger blocks nothing is scheduled or due. `InOrderOfTime`
  needs `OrderInv`: during the pops all that is left in the tree follows what was
  popped, and nothing but restored signals is scheduled at any other moment.
* `AgentLibrariesProofs`, of `Sockets`: `Insert` and `Remove` of `array.lua` keep a set with its indices for
  any values, also when the last value takes the place of the one that is removed; so
  the sets of sockets are exact whatever callbacks do to them. `Sockets` is not a
  refinement of `Agents`, whose application starts nothing but transitions in a trigger;
  but a callback is one more call by the application, so `AgentsInv` is an invariant of it
  too, and with it that scripts find their `_ENV` (`CallbacksKeepTheStack`).
  `CallbacksRunForTheAdder` compares the info of a socket with who added it (`AdderInv`: they
  agree but for `Former`), and needs that no error can leave `self_` stale while
  `DoSocketCallbacks` goes on (`CallbacksInv`): the one error that does not leave Trigger,
  of the start transition of the system agent, cannot happen in one (`SystemStarts`).
* `RedBlackShapes` and `TreesProofs`, of `RedBlack`: `RBInv` is inductive. It describes a
  tree from outside, by the set `D[n]` of the elements below each pointer (`IsTree`: the
  sets are finite, what is below an element is itself and what is below its children, these
  are apart, on their sides of its key, and name it as their parent) and by a number for
  each (`Heights`: how many black elements any way down from it meets). At rest (`Resting`)
  the heights fit at every element and no red element has a red child. In
  `RB_INSERT_COLOR` (`Inserting`) `elm` is red and may have a red parent; in
  `RB_REMOVE_COLOR` (`Removing`) one black element is missing on the side of `parent` where
  `elm` hangs (`Gap`), and `elm`, which may be `NULL`, may be red with a red parent or child.
  `RedBlackShapes` proves what rotations, the insertion and each kind of removal (of an
  element with one child at most; of an inner one, whose successor may be its own child) do
  to `IsTree` whatever the colors; `TreesProofs` has one lemma for each action with the
  heights and colors. From `RBInv` follow the four properties:
  `ImplementsOrderedSet`, because each step changes `D[root]` as its operation says and
  an iteration not at all; `Balanced`, since the heights are what the ways down count, and
  a gap leaves the sibling a positive height, so it is not `NULL`; `LoopsEnd`, as each
  iteration goes on at an ancestor, which has fewer ancestors, or has left nothing to do;
  and `ReadsAgree`, for which a search follows the one subtree where its key may be, and a
  walk goes on to the least key above the last.
* `TreesProofs`, of `Enums` and `TextStyle`: the trees of codes and of names agree for any
  table. It is the check for
  duplicates in `enums_new()` that makes `enums_free()` take a record out of both trees:
  each search finds the record itself, because no other has its code or its name
  (`DifferentCodes`, `DifferentNames`). What `enums_free_all()` leaves is proved as well
  (`ExitLeavesNoRecord`); that it ends is liveness, which the run checks. Names and codes
  map to each other for any table (`NamesHaveCodes`): a library that is loaded has all
  records (`Loading`), and `code_next()` from the first of a domain passes each record of
  it in order and leaves the domain once. `StylesAreShown` is about the table of the code,
  since it needs that the colors have other codes than the modes (`EnumerationsApart`), but
  about any names that the application uses: the terminal takes the codes of a sequence
  one by one, and each changes its own part.

One property was not true as first stated, which the attempt to prove it showed and
TLC confirmed on a larger instance: `SavedOutlivesTheProcedure` spoke of the direct caller
only, and fails when a procedure nested in another returns after that one has begun to
(it now says `Returned(p)`).

Induction over data cannot be cited, as the library's theorems for it take an operator as
a parameter. The proofs take least counterexamples instead. Where the chain of procedures
is followed (`LeastElement`), a procedure is younger than its caller, so the youngest for
which a fact fails has a caller, or a procedure, for which it holds. In trees the measure is
the number of elements below a pointer, or of those that are not (`LeastByMeasure`). The
recursive functions of the models (`Extreme`, `Find`, `Content`, `BlackCounts`, `Walk`,
`enums_values`, `Shown`, ...) are functions on a set where the recursive calls decrease a
measure; that such a function exists, has its type and satisfies its equation at every
argument is proved once (`Recursion`), so that what they compute follows from the equation.

Model-checked only is all liveness, which needs fairness and ENABLED:
`EveryScheduledSignalIsDispatched`, `TriggerReturns`, `SystemStops`, `DueIsSent` and
`ExitFreesAll`. Every other property that a run expects to pass is stated by a theorem.

## Not modelled

* Names and information (`pidof`, `nameof`, `tree`, ...): queries that change nothing.
* Finalizers and signals to the application: callbacks out of the engine that it does
  not depend on.
* Configuration: constants here. Logs, traces, error strings, the bindings to Lua and
  the clock (which is `Tick`): input and output without state of their own.
* State machine definitions: data; any signal may run any transition.
* The indices of `fifo.lua`: two counters of a queue, which is a sequence here.
* The SPLAY macros of `tree.h`, which nothing uses, and the branches for MinGW.

## Plan

Done: all modules above, in the order of the table. Left:

1. Timer signals that are saved and restored (690): a composition of `AgentTimers` with
   the saved queues of `Engine`.
2. The errors that `AgentsSpec` takes to the application although they may be caught, each as an
   action with the invariants
   that survive it.
3. `select()` with agents and time, so that `SystemStops` tells which of the triggers that
   block do return.
