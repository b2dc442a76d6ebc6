# Verification of firecracker-agent

TLA+ models of the agent that creates, stops and deletes Firecracker microVMs
(`src/`), the TLC runs that check them on small instances, and TLAPS proofs of
their main properties for every value of the parameters.

## 1. The system

The agent is one Go process. A gRPC server runs each request in a goroutine of
its own; the handlers call the VM manager, which drives Firecracker processes,
TAP devices and directories, and publish events to the clients that watch.

| component | source | state | operations |
|---|---|---|---|
| VM manager | `internal/firecracker/manager.go` | `vms` (id -> VM), `mu`, `Info.State` of each VM | CreateVM, StartVM, StopVM, DeleteVM, GetVM, ListVMs |
| Firecracker process | `internal/firecracker/process.go` | the process, its log file, its API socket file, the goroutine in `cmd.Wait` | StartFirecrackerProcess, Stop, Kill, IsRunning, waitForSocket |
| Jailed process | `internal/firecracker/jailer.go` | the same, and the jail directory | StartJailedProcess |
| API client | `internal/firecracker/client.go` | a connection to the socket | one PUT per configuration step, SendCtrlAltDel |
| Network manager | `internal/network/manager.go` | TAP devices and the bridge, in the kernel | CreateTAPDevice, DeleteTAPDevice, EnsureBridgeExists, GenerateMAC |
| Storage manager | `internal/storage/manager.go` | VM directories and jails, on disk | PrepareVMStorage, CleanupVMStorage, SetupJailDirectory, CleanupJail |
| gRPC handlers | `internal/agent/handlers.go` | none of their own; the gauge of running VMs | one per RPC: validate, call the manager, broadcast, count |
| Event stream | `internal/agent/server.go` | subscriber id -> channel of 100 events, `mu` | Subscribe, Unsubscribe, Broadcast; the loop of WatchVMEvents |
| Main, shutdown | `cmd/fc-agent/main.go` | signal, serve and stop goroutines | start; graceful stop with a 30 s timeout |
| Metrics, configuration, logger, file copy, packaging | `internal/monitor`, `pkg/`, `debian/`, `scripts/` | counters; otherwise none | - |

How they interact, and what is hard about it:

* **Concurrent calls.** `CreateVM` and `DeleteVM` hold `m.mu` for writing from
  their first statement to their return, through process starts, waits of up to
  20 s and every removal. `StopVM` holds it only to read the VM and, seconds
  later, to set its state: in between it works on a `*VM` that another call may
  have deleted, and whose id, paths and device name a third may be using.
* **Failure half-way.** `CreateVM` has a dozen points of failure and undoes what
  it did with a stack of cleanups; the stacks of the two modes (jailer, direct)
  differ. `DeleteVM` goes on past failures and forgets the VM in any case.
* **Processes end by themselves.** Killed is not dead, dead is not reaped, and
  signal 0 tells only "reaped" from the rest. `Kill` of a reaped process takes
  an error exit.
* **Names are shared.** The TAP name is `tap_prefix` and eight characters of the
  VM id. Directories, and with them the socket path, are made of the id by
  `filepath.Join`, which cleans the path, and only the empty id is refused: `.` is
  `vms_dir` itself, `v1/` and `x/../v1` are `v1`'s directory, `v1/x` is inside it,
  and all jails live in the directory of the id `firecracker`.
* **Restart.** The registry is memory; processes, devices and directories are
  not. A new agent knows nothing of what an earlier one left.
* **Events, gauges, shutdown** run outside `m.mu`: order, double counting,
  channels at their limit, streams that never end.

`PROJECT.json` lists these hazards one by one with the line each bites at and
the properties that would catch it.

What makes each component correct:

* manager: at most one VM per id; a registered VM owns its resources and only
  its deletion takes them; nothing is left behind that nobody owns; a VM
  reported stopped is dead; every call returns;
* process: a start that is given up leaves no live process; a stop that is
  reported leaves neither a live process nor its files; zombies are reaped;
* network: no two live VMs on one device; devices accounted for;
* storage: a VM's files go only with the VM; directories accounted for;
* event stream: nothing is sent on a closed channel; a subscriber sees, in
  order, the events it did not lose to a full channel; its own leaving does not
  end another's subscription;
* handlers: events and counters account for what the manager did, once
  and only once, however requests overlap;
* start and shutdown: a start finishes what an earlier one left half done; a
  signal ends the agent within its timeout, and cuts no call before it;
* configuration: every setting the rest relies on has a value, and the values of
  a missing key are the safe ones.

## 2. The modules

```
VmIdentity            ids and their directories, incarnations, mode (constants)
  VmProcess           processes, socket files, log files
  TapNetwork          TAP devices
  VmStorage           VM directories and jails
    FcManager         the manager's calls, composed with the three above
      FcManagerInv    the inductive invariant
        MCFcManager       instances for TLC
        FcManagerProofs   proofs of the invariant and the safety properties
          FcRegistryProofs   proofs of the refinement and of ReleasedByDelete
          FcSocketProofs     proofs about socket files and directories left behind
VmPaths               the directories an id names: filepath.Join (in MCFcManager)
VmRegistry            abstract: what GetVM and ListVMs promise (INSTANCEd by FcManager)
  AgentHandlers         the gRPC handlers and metrics, over VmRegistry
    MCAgentHandlers       instances for TLC
    AgentHandlersProofs   proofs about events and the gauge
      AgentCountProofs      proofs about the counters and their bounds
  VmNames               device names and MAC addresses of the ids VmRegistry lets exist
    MCVmNames             instance for TLC

EventStream           subscribers, channels, broadcasts
  MCEventStream         instances for TLC
  EventStreamProofs     proofs

AgentConfig           the configuration and its defaults
HostNetwork           the bridge, one operator per "ip" command
  AgentMain             start, serving and shutdown of the process, with the two above
    MCAgentMain           instances for TLC
    AgentMainProofs       proofs
```

**Incarnations.** Every CreateVM that passes the "already exists" check takes a
fresh member of `Incs`: it stands for the Go `*VM` and its `*VMProcess`.
`vmOf[i]` is its id. Resources remember the incarnation that made them
(`tap[n]`, `vmDir[p]`, `jailDir[p]`, `sock[p]`), which is how the properties
tell "the file of my VM" from "the file of another VM at the same path". The
code has no such record; no guard reads it except as "is there one".

**VmProcess.** A process is `none`, `starting` (started, no socket), `running`,
`killed` (SIGKILL sent, not gone), `zombie`, or `reaped`. `SignalSucceeds` is
what `Process.Signal` and `Process.Kill` answer: an error only once `cmd.Wait`
has reaped. Firecracker refuses to bind a path that exists and leaves its socket
file when it ends. The environment's part (bind, exit) is marked external.

**TapNetwork.** `TapName` is any function from ids to names: the truncation is
the reason two ids can share a value, and is otherwise of no interest.
CreateTAPDevice has three outcomes: made; failed and nothing left; failed with
the device left, when the `ip link delete` that follows a failed `ip link set`
fails too (its error is dropped).

**VmPaths, VmStorage.** Directories are indexed by their path. `VmPath` and
`JailPath` give an id the directories its VM works in, `JailCleanupPath` where
CleanupJail looks for the jail, and `Under` what `os.RemoveAll` of a path removes;
they are constants, any functions at all. `VmPaths` defines the ones of the
code, from the elements of an id and `filepath.Clean`; `MCFcManager` uses them.
Making a directory that exists overwrites what is in it, and removing one
removes everything below it, sockets included, whoever uses it. PrepareVMStorage
can fail before or after the directory was made.

What is said of directories, jails and sockets has a premise on the ids:

* `OwnDirs`: no id's directories are made or removed by another's calls. It holds
  of ids that are plain file names other than `firecracker` (`PlainNamesSuffice`,
  which TLC evaluates for the ids of each run), and not of `.`, `firecracker`,
  `v1/`, `x/../v1` or `v1/x` beside `v1` (`OthersOverlap`). Nothing in the code
  makes sure of it: the run `shared_dirs` shows what happens then.
* `JailsFound`, part of it: CleanupJail looks for the jail where it was made.
  `jailer.go:50` makes it under the parent of the VM directory,
  `storage/manager.go:220` looks under `vms_dir`; for an id such as `v1/x` these
  differ and the jail stays.

Directories that `MkdirAll` makes on the way to a nested one, and that are no
VM's, are not modelled.

**FcManager.** One action per step of a call. A step ends where the code calls
another component, sleeps, or takes or drops `m.mu`. For each call `c`:

| `pc[c]` | code |
|---|---|
| `create`, `delete`, `stop` | waiting in `m.mu.Lock()` / `RLock()`; the lookup that follows |
| `storage` | SetupJailDirectory or PrepareVMStorage |
| `tapAdd` | CreateTAPDevice |
| `spawn` | StartFirecrackerProcess / StartJailedProcess up to `cmd.Start` |
| `probe` | jailer: the sleep and the check "exited immediately" |
| `waitSocket` | waitForSocket and its timeout |
| `bootSource` ... `startInstance` | one PUT each; the last registers the VM and returns |
| `kill`, `unlink` | VMProcess.Kill, before and after its sleep; `unlink` is the end of Stop as well |
| `tapDel`, `jailDel`, `storageDel` | rest of DeleteVM, or of CreateVM's cleanup stack |
| `ctrlAltDel`, `term`, `checkTerm` | StopVM without force, VMProcess.Stop |
| `markStopped` | waiting in `m.mu.Lock()` to set VM_STATE_STOPPED |

CreateVM's cleanup stack and DeleteVM do the same things in the same order, so
one set of teardown actions serves both; the point where an error enters it is
the height of the stack. `op[c]` tells what follows (DeleteVM drops the VM from
`m.vms`; a Kill within StopVM goes to `markStopped`). `abandoned` is a history
variable: the incarnations of which a removal failed, or that a restart
forgot, which are the two cases where the code itself gives resources up.
StartVM changes no state. GetVM and ListVMs are the operator `Reported`.

`Restart` loses the registry, the calls and the open files; it either leaves the
Firecracker processes running or kills them all, since the service manager may
do one or the other. It can happen between any two steps.

**VmRegistry** is the abstract specification: an id is absent, running or
stopped; it is created only while absent and while no id with its TAP name is
present; stopped is final; absent comes from a deletion or the loss of the
agent. The refinement mapping `RegState` is what GetVM and ListVMs answer.

**EventStream** is a model of its own: nothing in it depends on the manager, the
handlers only call Broadcast when the manager has returned. A watcher is a slot
for a client's stream; it is `idle`, has read the clock (`start`), waits in
`Lock` of Subscribe (`subLock`), is in the loop of WatchVMEvents (`loop`), in
`stream.Send` (`send`), on its way out (`leave`), or waits in `Lock` of
Unsubscribe (`unsubLock`). A stream's channel is named by its watcher, since
each stream makes one and nobody else keeps it. A publisher in `sending` is
inside Broadcast and holds the read lock; its loop visits the map one channel
per step. As in `sync.RWMutex`, a reader does not enter past a waiting writer.
An event is its VM id, which is all the code looks at; `cur`, `tried` and `due`
record a broadcast for the properties. A panic (`crashed`) ends the agent: no
interceptor recovers it, and the only step left is `Dead`. Two open streams may
have read one time: nothing in the code excludes it, a nanosecond clock makes it
rare. `collided` records that it has happened; every property that it breaks
says so, and no property assumes that it does not happen.

**AgentHandlers** composes the handlers with the manager at the level of
`VmRegistry`, which `FcManager` implements: a handler's call of the manager is
one step (two for StopVM, which drops `m.mu` in between), and everything after it
runs without the lock. For each handler `h`:

| `pc[h]` | code |
|---|---|
| `validate` | the checks of the request; a failure returns an error |
| `manager`, `marking` | `s.fcManager.CreateVM` ...; the second half of StopVM |
| `announce`, `announceError` | broadcastEvent, broadcastError |
| `count` | Inc and Dec of the gauge and the counter |
| `reply` | the return of the handler, then the interceptor's counter |

`gen` counts the VMs made under an id, which tells the `*VM` a handler holds
from a later one. `balance` and `last` are what a watcher knows that misses nothing; `overlapped` are the
ids that two changing requests worked on at once, the case in which the code
gives no order. A failed manager call covers every reason. The loss of the agent
is not an action here: it ends the metrics and the streams as well.

**VmNames** applies the truncation and the exclusive or of `network/manager.go`
to real ids (sequences of bytes) and lets `VmRegistry` say which can be there
together. It uses `Bitwise`, so nothing is proved about it.

**AgentConfig, HostNetwork, AgentMain** are the life of the process. `Load` keeps
the settings on which the modelled code depends; a missing key and a zero are
one value, as in Go. EnsureBridgeExists is three to five commands, each a step
that may fail or be the last of a process that dies, on a bridge that earlier
starts left in any state. The address is searched for as text: "odd" is a
configured address that the kernel prints differently, "lookalike" one that
contains ours. `pc` is the goroutine of `run()`; `metrics`, `serve`, `stopper` are
the other three; `sig` the buffered signal channel; `call` the requests and
streams under way. `faulty` says that commands of the host may still fail,
`Heal` that they do not any more; `unread` records that the addresses could not
be read, which the code takes for "nothing to do".

Definitions commented "Deviation" are variants of an action with one plausible
slip; they belong to no specification and exist so that each property can be
shown to notice one.

## 3. The runs

The first six runs use `MCFcManager`, where `v1` and `v2` share the device name
`t12` and have directories of their own; the other runs are named after their
modules.

| run | instance | states | what it shows |
|---|---|---|---|
| `direct` | 2 ids, 2 incarnations, 2 calls, no jailer, one restart at any point | 1.39 M | types, lock discipline, ownership of a registered VM's resources, no leaked device or process, stopped means dead, orphans and new VMs never share a device or an id alive, only its own DeleteVM takes a VM's resources, every open log file has an owner or a reaped process, requests of CreateVM reach its own process only, a directory left behind never had a process, a running VM loses its socket file only to a late StopVM, refinement of VmRegistry; the inductive invariant `IInv` |
| `jailer` | the same with the jailer, no restart | 1.25 M | the same hazards on the longer paths; directories are not leaked; only its own DeleteVM takes a VM's resources |
| `live` | jailer, 2 ids, 1 incarnation, 2 calls, `FairSpec` | 0.03 M | every call returns; the process of a stopped VM is reaped; within one creation, GetVM's socket path leads to the running VM |
| `stale_stop` | 2 calls | violation | a late StopVM removes the socket of the VM that took the id over |
| `storage_leak` | 1 call, direct | violation | a failed copy leaves the VM directory |
| `shared_dirs` | ids `test-vm-001`, `.` and `firecracker`, 1 call, jailer | violation | a failed creation of `.` or of `firecracker` removes the directory or the jail of the running VM |
| `events` | 2 watchers, 2 publishers, 2 VM ids, 2 stamps, capacity 1 | 0.25 M | the map never names a closed channel; until ids collide: no panic, subscriptions last, every broadcast tries everyone |
| `events_live` | 2 watchers, 2 publishers, 1 VM id, capacity 1, no collision, fairness | 47 k | a client that stops reading holds up no broadcast; a disconnected client is unsubscribed while broadcasts overlap |
| `handlers` | 2 ids, 3 handlers, 5 requests | 1.22 M | gauge, counters and events account for every VM; without overlap the last event tells the truth |
| `gauge` | 1 id, 1 handler, 4 requests | violation | create, stop, delete leaves the gauge of running VMs at -1 |
| `agent_main` | 3 starts, 3 files, 2 clients, `FairSpec` | 55 k | whoever listens has its bridge and directory; a start on a sound host serves, whatever earlier ones left; a signal ends the agent; calls are cut only at the timeout |
| `mac_clash` | 4 ids, two of which share a device name | violation | `vm1` and `vm2` get one MAC address |

The five violations are the entries of `findings`; each quotes the document,
comment or test that the code departs from. `RegisteredHasResources` and
`OnlyDeleteReleases` are checked with plain ids (`OwnDirs`), and `NoDirLeak` with the jailer only: the violations say why. `GaugeAgrees`, part
of `CountersAgree`, says what the gauge does count, `GaugeZeroWhenEmpty` what it
is documented to.

**Bounds.** `Incs` bounds the creations of a whole behaviour: every other
operation repeats without limit. Two incarnations are what the hazards need: one
VM and the one that takes its id, its path or its device name; `live` has one,
because it runs without symmetry and its liveness hazards need one VM, or one
creation that fails after the check for a free id; a CreateVM that finds its id
taken, which takes and drops `m.mu` and does nothing else, is in the safety runs
only. Two concurrent calls
suffice for lock and stale-`*VM` hazards of two calls; three operations in a row
by them (stop, delete, create) occur since a call is reused. `MaxRestarts = 1` distinguishes
before and after; the proofs cover any number. Incarnations and calls are only
compared with one another, so `Symmetry` is sound for the safety runs; `live`
uses none. In the event stream a channel of capacity 1 is empty or full, which
is all a send looks at; two watchers are the one that leaves and the one that
must not notice, and two stamps let their ids differ or collide; nothing there
is bounded but the sets. `MaxCalls` bounds the requests of a behaviour because
the counters only grow: five are a creation, a stop and a deletion with two more
that overlap them, and three handlers let two requests overtake a third. Three
starts are one that dies half-way, one that finds what it left, and one after a
shutdown; the three files are defaults alone, an odd address without jailer and
metrics, and one port for both servers. The runs of `AgentHandlers` and
`AgentMain` do not check deadlock: they stop at these bounds.

**Fairness of the manager** (`FairSpec`, used by `live` only). The Go scheduler
runs every goroutine: weak fairness of each call's steps. `sync.RWMutex` hands the lock to
waiters in turn: strong fairness of the actions that take `m.mu`. A process
sent SIGKILL exits, and `cmd.Wait` returns for one that exited: weak fairness of
those. Nothing is assumed of clients, of voluntary exits, of SIGTERM or of
restarts. A PUT that gets no answer may fail, which is the client's timeout.

**Fairness of the event stream** (used by `events_live` in `DistinctSpec`, which
adds that ids do not collide, since a panic ends everything). Weak
fairness of Broadcast's loop and of the way to a lock; strong fairness of taking the write lock, and of the `ctx.Done` case, since
`select` chooses among ready cases at random; a Send on a stream that has ended
returns. A Send on a live stream may block for ever (flow control), and nobody
is obliged to watch or to broadcast.

**Fairness of the process** (`FairSpec` of AgentMain). `run()` and the goroutine
of GracefulStop are scheduled, and the 30 seconds pass: weak fairness of those
three. Nothing makes a call end, a client go away, a signal come, a host heal or
anybody start the agent.

## 4. The proofs

`FcManagerProofs`, `FcRegistryProofs` and `FcSocketProofs` prove, for all sets of ids,
incarnations and calls, any TAP naming, either mode and any number of restarts,
from the named assumptions of the modules alone (`None` is none of the values;
`UseJailer` is Boolean; `TapName`, `VmPath`, `JailPath` and the others are functions,
a path is under itself; `MaxRestarts` is a number):

* `Invariant`: `IInv` always holds; from it `TypeCorrect`, `MutualExclusion`,
  `TapNamesExclusive`, `StoppedVmsAreDead`, `TapsAccounted`,
  `ProcessesAccounted` and `OneProcessPerTap`;
* `DirsAccounted`, given `UseJailer` and `JailsFound`; `ResourcesKept` and
  `ReleasedByDelete`, given `OwnDirs`. `UseJailer` and `OwnDirs` are needed: the runs
  `storage_leak` and `shared_dirs` refute the statements without them.
  `LeftDirsOfFailedStarts` says what is left of the first in both modes, given
  `JailsFound`. The rest of the list has no premise on the ids;
* `LogsKept`: `LogsAccounted`, from `IInv` and `LogInv`, which adds that a
  teardown past `Kill` has closed the log or found the process reaped;
* `Refinement`: the manager implements `VmRegistry`;
* about socket files (`FcSocketProofs`), given `OwnDirs`: `OwnRequests`,
  `SocketsLostToStaleStops`, `SocketsReachable`, `SequentialReachable` and
  `OneCreationReachable`, see below.

None of the properties is inductive. `IInv` adds what holds at each point of a
call, and each part serves the others:

* `CallInv`: program counter, operation, id and incarnation agree;
* `CreateInv`: what CreateVM has made so far is its own, its id still free;
* `DeleteInv`: what DeleteVM has not yet removed is still the VM's;
* `TeardownInv`: past the kill the process is dead; past a removal the resource
  is gone or given up;
* `StopInv`: once StopVM is through with signals, the process is dead;
* `VmsInv`, `RegisteredHasTap`, `TapExclusive`: the registry, and the device of
  every VM in it that is not in the hands of the lock's holder;
* `ProcInv`, `TapInv`, `DirInv`: every live process holds its device, and every
  process, device and directory has an owner.

The key step is the device: it is the one resource the kernel creates
exclusively. That a process alive holds its device (`ProcInv`), with exclusive
creation, gives one live process per device and id, even among orphans; that a
registered VM holds its device gives that a second id with the same name fails
before it starts anything, and that its cleanup, entered below the device, does
not take the first one's.

Each lemma `Next...` shows that one part is preserved, with one step per action.
`FcRegistryProofs` shows step by step which call of VmRegistry each action is:
the last PUT is Create, `markStopped` or reaping is Stop, the end of DeleteVM is
Delete, a restart is LoseAgent, and all others stutter.

`FcSocketProofs` is about a file that several VMs may claim, one after the other,
since its path depends on the id alone. Its invariants, stated in `FcManagerInv` and each inductive
with `IInv` and those before it, are

* `SocketInv`: a socket file was bound by a process of its id, in a directory
  that exists. With `ProcInv` this gives `OwnRequests`: whoever runs with the id
  holds its device, and so does the creation in progress, hence they are one;
* `AbandonInv`: what was given up does not serve a registered VM, so an orphan
  may lose its file and a VM of this agent is not excused by it;
* `ServeInv`: a running process that was not given up has its socket file. Only
  the removals of files are of interest: each is of a directory, by a call whose
  own process is dead by then, or is the end of `Kill` and `Stop`. The lemma
  `SocketLost` shows that the last can take another VM's file only as a
  `StaleStop`, which is `SocketsLostToStaleStops`, an action property without
  premise about the calls. The lemma `SocketsApart` turns `OwnDirs` into what it
  needs: no removal for one id reaches the socket of another;
* `FreshStop`: a lone StopVM works on the VM that is registered;
* `LeftDirInv`: a directory nobody accounts for has an incarnation that never
  started.

`SocketsReachable` assumes `[]NoStaleStop`, what the code fails to ensure, as the run
`stale_stop` shows; `SequentialReachable` derives it for an agent that gets its
requests one after the other, `OneCreationReachable` for one that makes a single
VM, which the run `live` checks.

`EventStreamProofs` has two invariants, for any readings of the clock. `MapInv`:
an entry of the map is the open channel of a stream that is subscribed under
that id; this gives `SendsGoToOpenChannels`. `StreamInv`: until two open streams
have had one id, ids are distinct, so each subscribed stream has its entry, and
a broadcast's `due` stay subscribed while it holds the lock; this gives
`SubscriptionsKept`, `NoPanic` and `BroadcastsReachAll`. `EventTypes` is type
correctness and the bound of the channels.

`AgentHandlersProofs` proves, for any finite sets of ids and handlers,
`EventsAccount`, `GaugeAccounts` and `LastEventTrue`. The invariant `HandlerInv`
consists of

* `BasicInv`: types, what a handler holds at each point, and that two changing
  requests for one id make it `overlapped`;
* `TellInv`: for an id never overlapped the last event tells its state, unless
  its one request is at `announce`, where it says what that event will have to
  be; a StopVM at `marking` still finds its VM there;
* `PtrInv`: the VM a handler holds was made under the id it was given, which is
  what bounds `ptr` in `HandlerTypeCorrect` below;
* `EventsBalance` and `GaugeInv`, which are inductive with the above: each step
  moves a handler into or out of one set of those that owe, and the lemmas
  `CardAdd` and `CardDrop` count.

`AgentCountProofs` adds `CountersAccount` and `HandlerTypeCorrect`. The second is the
bound that the requests received put on every counter, and is not inductive: that
no counter exceeds `calls` says nothing about the handlers about to move it.
`BoundInv` therefore adds to each counter the number of handlers that have still
to move it: those before the manager's return for the VMs made, before the
broadcast for the balance of events, before the count for the gauge and the
counters of creations and stops, before their return for the requests. The
lemma `Moves` says how such a number changes when a handler goes from one point
to another. `MadeInv` is that the
creations counted, with those about to be, are as many as the VMs ever made
(`Made`, a set of pairs, so that its size changes by one element).

`AgentMainProofs` proves, for any set of configuration files and clients and any
number of starts, `MainTypes`, `HostIsReady` and `CallsCutOnlyAfterTimeout`.
`MainInv` adds to the types what each step of the start has achieved
(`StartInv`), with the two cases in which it adds no address (`unread`,
`lookalike`: `HostIsReady` excepts them too), and that GracefulStop is done only when no call is left, and none
comes later (`DrainInv`). `LoadSound` is the one lemma about the configuration.

Only model-checked: the liveness properties (`CallsReturn`, `StoppedIsReaped`,
`BroadcastReturns`, `GoneIsUnsubscribed`, `ShutdownEnds`, `StartSucceeds`), which
are outside the prover's reach as is ENABLED, and that the five departures
really occur. Every invariant and every action property of a passing run is
proved.

## 5. Not modelled, and abstractions

* File contents, ownership and modes; boot arguments; the encoding of requests.
* ConfigureIPTables and GetInstanceInfo, which nothing but tests calls.
* Settings that the modelled code only passes on: paths, names, log settings;
  the YAML syntax. A file that does not parse is a start that fails.
* What GetHostInfo reads from the host. It panics when gopsutil fails, whose
  errors it drops (`handlers.go:226`, `229`); that is a `Crash` of AgentMain. Its
  `RunningVms` counts stopped VMs too.
* The histogram of durations, and the content the metrics server serves.
* The content of replies. The handler of CreateVM reads `vmInfo.State` after `m.mu`
  was released (`handlers.go:69`), while a StopVM may write it; whoever could
  overlaps the request, and both states are true answers then.
* Time: a wait is a step that may time out at any point.
* Two processes' sharing of a PID number: a signal reaches the process it was
  meant for, as `os.Process` guarantees until it is reaped.
* What the handlers do is composed with `VmRegistry`, not with `FcManager`, and
  events with a watcher that loses nothing, not with `EventStream`: each pair is
  checked at its interface.
* Two departures of the code seen while modelling have no run of their own. The
  check for a jailer that exited at once (`jailer.go:161-165`) sends signal 0
  before anything waits for the process, and a zombie accepts it: the call fails
  20 s later instead (`WaitSocket`). `Kill` of a process that was already reaped
  returns before it closes the log and removes the socket file
  (`process.go:151-154`); `LogsAccounted` says that these are the only logs left
  open, and leaves them out.
* `docs/PROJECT_STATUS.md` speaks of a configurable shutdown timeout and of a
  cleanup of resources at shutdown; `main.go` has a fixed one and leaves the VMs
  as they are, which is `Restart` of FcManager.
* Logger, version, generated code, packaging: no program logic.

## 6. Plan

1. Proofs: the order of the events in a watcher's channel, as a refinement of
   EventStream.
2. A composition of `AgentHandlers` with the lossy watchers of `EventStream`: what
   a watcher may conclude that missed events.
3. The loss of the agent in `AgentHandlers`: the gauge of a new agent against
   orphaned VMs.
