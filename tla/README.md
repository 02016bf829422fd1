# netcfgd in TLA+

netcfgd reads a directory of configuration, compiles it to one *document*,
observes the machine, plans the difference, applies it, and goes on putting
right what drifts. An operator who may cut off the connection they are typing on
applies *with a confirm window*: unless they confirm before the deadline, the
daemon takes the change back.

The repository holds two implementations. The models here follow the C one
(`src/c/src`), which is where the project lives now; `src/crates` is the earlier
Rust one. Paths below are relative to `src/c/src`.

## The system

### Parts and their state

| part | state | operations |
|---|---|---|
| confirm window (`daemon/confirm.c`) | `<run>-confirm/confirm.json` (deadline and what it was armed with), `<run>-confirm/last-good.json`, and in memory the record of what an open window covers (document, inverses of the actions done) | arm, keep, revert, clear, establish a first last-good |
| requests (`daemon/request.c`) | none of its own | apply, confirm, revert, each with its refusals |
| daemon state (`daemon/state.c`) | desired document, diagnostics, rejected document, observation | reload, reobserve |
| reconcile (`daemon/reconcile.c`, `daemon/reconcile_pass.c`) | the `--no-apply-on-start` latch | start, pass: resolve the window, reload, look, reconcile |
| loop (`main/daemon_loop.c`, `main/daemon_wake.c`, `main/daemon_watchers.c`) | descriptors it waits on, the expiry timer, the next tick | one round: wait, read what woke it, take requests, pass, settle |
| mailbox (`main/daemon_loop.c`) | a fixed array of requests under a mutex, a wake pipe | ask, take, settle, defer, shut, close |
| control socket (`daemon/server.c`) | connections with a thread each, the answer lock | accept, serve, subscribe, stop |
| executor (`apply/apply.c`) | the machine, the journal | run a plan, run its inverses |
| ownership (`apply/owned.c`, `host/state.c`, `observe/ownership.c`) | `<run>/owned.json`: what netcfgd made and may remove, how often it started a client, what its hooks were told | read, fold a journal in, note what was told |
| locks (`sys/lock.c`, `main/daemon_world.c`, `main/cli_machine.c`) | `apply.lock` around an apply, `owned.lock` around an update of the record, both shared with `ncfg apply` in another process | take, give up, release |
| probes (`daemon/probe.c`) | for each interface the runs of successes and failures, the verdict, when to ask again | ask what is due, judge, set a program aside |
| SIM selection (`daemon/sim.c`) | for each modem the source it is on and whether a cycle is due, published in `<run>/modem/` | sync with the document, advance, forget a cycle that happened |
| supplicant sessions (`backend/supplicant/`, `apply/wifi_ops.c`, `observe/supplicants.c`, `plan/wifi.c`, `daemon/wifi.c`) | a connection, `<run>/supplicant/<iface>.networks.sha256`; the networks themselves are in `wpa_supplicant` | populate, enable what was pinned, observe, join one |
| portal, resolver guard, hooks | each its own | each run from the pass |

Everything that changes the machine runs on one thread, the loop's. Connections
have threads of their own, which put a request in the mailbox and sleep until
the loop has answered it. Outside the process there are the configuration
directory (inotify), the kernel (netlink events), the clocks, other programs that
change the machine, and crashes.

### What makes it hard

The window and last-good files outlive the process and everything else does not,
so a crash may fall between any two writes. The deadline is kept on the wall clock,
corrected for sleep, and the wake for it comes from a monotonic timer. An edit is
seen when its event is read, may be adopted by a reload inside a window it has
nothing to do with, and may be reverted away from and then compiled again by the
next event. Requests are answered after the pass of the same round, so what the
pass does must already allow for what they ask. Each of the steps can fail with
the others done. `PROJECT.json` lists these hazards at the line where each bites.

## The core: `CommitConfirm`

One process, the loop thread, and what surrounds it.

### State

| variable | code |
|---|---|
| `state` | `ncfg_daemon_state_t`: `desired`, `diagnostics` (set or not), `rejected`, `observed` |
| `window`, `lastGood` | the two files; `window.left` is `ncfg_confirm_remaining_at`, `window.good` its `last_good_hash` |
| `armed` | `ncfg_confirm_armed_t`: the document covered, the inverse of each action done |
| `holding` | `ncfg_reconcile_t.holding` |
| `files`, `dirty` | the configuration directory and an inotify event not yet read |
| `machine` | the real machine, one value per item |
| `timer`, `fired` | the expiry timerfd |
| `pc`, `cont`, `arming`, `wake`, `reqs` | where the loop thread is in a round and what it carries there |
| `budget` | what is left of the bounds on the environment |
| `reached`, `disowned` | history, read by properties only |

`window.good` is the `last_good_hash` of `confirm.json`. The code writes it and
reverts to whatever `last-good.json` holds, and so does the model: no guard reads
`window.good`, and `WindowKeepsItsTarget` says that the two never differ while the
window is open.

### Data abstraction

A document is a model value. `Want[d][i]` is what document `d` asks of item `i`,
or `Unset` where it has no opinion; `Reconciles[d]` the items whose drift policy
lets the loop put them right; `ConfirmDefault[d]` the window the document asks for
itself. A plan is the set of items an observation disagrees on, run in increasing
order; the planners of single subjects are left out. An inverse carries the value
observed before the action, as the plan's actions do. Observing copies the
machine or fails and leaves the previous observation.

### Actions

The loop is single threaded, so a handler is one action, cut only where it writes
something that outlives the process. `Crash` may fall at every cut.

| action | code |
|---|---|
| `Boot` | `daemon_main.c` to the first observation |
| `ResolveAnyWindow` | `resolve_any_window`: a window found at start is reverted whatever its deadline |
| `EstablishLastGood` | `ncfg_reconcile_establish_last_good` and the choice of `ncfg_reconcile_start` |
| `Converge` | `ncfg_reconcile_converge`, the apply at start |
| `Round` | a wake: what was readable, the requests taken, whether to look at the window |
| `ResolveWindow` | `resolve_window` |
| `Pass` | `ncfg_reconcile_pass` from the reload on |
| `ApplyRequest`, `ConfirmRequest`, `RevertRequest`, `ReloadRequest` | the handlers `ncfg_main_mailbox_settle` calls after the pass |
| `ArmWindow` | the write at the end of `ncfg_daemon_arm_window`, and the timer |
| `RecordLastGood` | `ncfg_confirm_write_last_good` |
| `ClearWindow` | the end of `ncfg_confirm_revert` |
| `EndRound` | back to waiting |
| `EditConfig`, `Drift`, `Second`, `StepClock`, `LoseLastGood`, `Crash` | the surroundings |

`Faults` says which failures may happen: `apply` (an action fails), `arm` (a window
cannot be written), `lock` and `startlock` (no executor, in a round and at start),
`observe`, `unreadable` (last-good cannot be read), `step` (the wall clock is
stepped). The code has a path for each, and the model takes it.

### `ConfirmPromise`

`../include/ncfg/daemon.h` says of commit-confirm: "Apply, start a timer, and put the
last-good configuration back unless somebody confirms." `ConfirmPromise` is this sentence
as a specification of its own, with no loop, no timer, no files and no plan in it. A
window is offered over no other, against last-good as it was read. It is closed by a
confirmation, or by going back: asked to, at the deadline, or found again at a start. A
window that goes back is closed with the machine in the document it was opened against,
or with nothing left to go back to. While it is open only a request to apply moves the
machine and nothing replaces last-good; and last-good is a document the machine was in.

| variable of `ConfirmPromise` | in `CommitConfirm` |
|---|---|
| `held`, `been` | the documents the machine agrees with, and `reached` |
| `good`, `pending` | `lastGood`, `window.good` |
| `returning` | a revert is done and the window file is still there (`pc = "clear"`) |
| `cause` | `acts_on`: the request, the deadline or the start the step acts on |

Four constants say what each clause takes for granted: `Works` (no action and no
observation fails), `Alone` (nobody else changes the machine), `Whole` (a document that
asks for a window of its own is applied as a whole) and `Readable` (last-good can always
be read). `CommitConfirm` computes them from its own constants, so the same property,
`UnlessConfirmed`, is checked with faults and without.

## The hand-over: `Mailbox` and `RequestPromise`

Many threads: an acceptor for each control socket, a thread for each connection, and
the loop. A connection thread takes its server's lock, puts its request in a slot of
the mailbox, writes a byte to a pipe and sleeps until the slot is answered. The loop
takes the requests that wait, runs the pass with them in hand, and settles: it lets go
of the mutex, writes the answer into the buffers of the sleeping thread, and marks the
slot answered. A scan does not wait on the loop: the answer hands the wait back and
the thread does it, with the server's lock put down. At the end of `daemon_main` the
mailbox is shut, each server stopped, and the mailbox closed.

| variable | code |
|---|---|
| `at`, `shut` | `ncfg_main_mailbox_t`: a record for each `ncfg_main_waiting_t` |
| `nudged`, `signalled` | a byte in the request pipe; a signal received |
| `loop` | where the loop's thread is, the index it has got to, `stop` |
| `lock`, `stopping` | the mutex of a server and its flag |
| `acc`, `conn` | where each acceptor and each connection thread is |
| `fd`, `open`, `hasThread` | `slot->fd`, whether the descriptor is open, `slot->has_thread` |
| `cut`, `inbox` | a connection the stop has shut down, and what it had received before |
| `owed` | contexts of deferred work not freed yet |

`at[i].seen` is history: a pass was given this request. An action is what one thread
does between two points where another can see it: a critical section of the mutex or
of a server's lock, a write to the pipe, one `close`. `lock[s]` holds a connection only
while the connection keeps the lock over several steps; a short critical section is one
action that needs the lock free. `Connect`, `Read` and `Ends` are what clients may do
at any time; `CutConnections` chooses how many requests a connection it cuts had
already received (`MaxQueued`).

A request is one of three kinds: `plain`, `slow` (a scan, which the loop may hand back
or answer at once) and `stream` (a client that asks to watch, whose connection the
loop takes over). What a request says and what the answer says are left out.

`RequestPromise` is what `main/loop_internal.h` promises a client, as six phases of a
request: it is acted on only after a pass has been given it, unless it asks to watch;
what is refused was not acted on; in the end the client is told. `phase_of` of
`Mailbox` is the refinement mapping.

## The modems: `Failover`

A probe program is asked every so often whether an interface works. Its answers make
runs, a run makes a verdict, and when a verdict moves a modem whose verdict is down
goes on to the next SIM source of its list. The selection is in memory, is published
to a file, and takes effect only when the link has been taken down and up and the
`pre_up` hook has read the file. A note says that this cycle is still due.

| variable | code |
|---|---|
| `conf`, `desired` | what the directory compiles to, and `state->desired` |
| `tally` | `tally_t` of `probe.c` by interface; `due` and `settled` are countdowns |
| `sims` | `device_t` of `sim.c`: `chosen` and `pending` |
| `file`, `hw` | the published source, and the one the modem is on |
| `up` | links of the machine |
| `loop` | the plan being run, what of it was done, and whose notes it may clear |

`Pass` is the probe and modem part of `ncfg_reconcile_pass` with its reload and its
plan: `run_due`, `advance_failed_sims`, `plan_build` and `restrict` in the order of the
code. The plan is then run one action at a time (`Open`, `Execute`, `Fail`), and
`Finish` clears the notes of the devices whose cycle happened. `ApplyRequest` is the same
work for an operator, unrestricted; `ReloadRequest` adopts a document without syncing
the selection; `Die` and `Start` are a restart. What a program answers is chosen freely.
A confirm window appears only as a pass that does not act, and counts as a fault.

`runs`, `unnoted` and `tried` are history. `unnoted` are the modems whose published
source was moved by a reload or a restart: the code notes no cycle for those.

Two behaviours are described here and have no run. A source that was set aside stays
so when its policy is edited, until the policy is removed. And `advance_failed_sims`
runs when a verdict *moves*: if the second of three sources is dead as well, the
verdict is down already, nothing moves, and the third is never tried.

## The record and the two locks: `Ownership`

Two kinds of process change one machine: the daemon, and `ncfg apply`, which may run
beside it when it is given directories of its own, or where the daemon is not up yet.
Each observes, judges what it sees by `owned.json`, plans, runs its plan under
`apply.lock`, and folds its journal into `owned.json` under `owned.lock`. The daemon
also notes in the same file what its drift hooks were told, without `apply.lock`. The
command line takes `apply.lock` before it observes, the daemon after it has planned.

| variable | code |
|---|---|
| `doc` | the document of the daemon |
| `link`, `client`, `boot` | the machine: a link is absent, somebody else's, or netcfgd's with or without the alternative name that marks it |
| `file` | `owned.json` with the boot it was written in |
| `apply_lock`, `owned_lock` | the two lock files |
| `pc`, `plan`, `done`, `seen`, `telling`, `copy` | a process: its plan, its journal, the clients it saw running, what hooks were told, the record it read |
| `ledger`, `loose`, `stale`, `unseen` | history |

`DaemonLook`, `DaemonLock`, `DaemonGivesUp` are the pass; `CliStart`, `CliLook` the
command; `Execute`, `ExecuteFails` one action of a plan; `TakeRecord`, then `WriteTold`
or `WriteRecord`, the two halves of `ncfg_owned_update`. `Die`, `Reboot`, `Edit`,
`OutsideLink` and `ClientEnds` are the surroundings. A process may die between any two
steps; the kernel releases its locks.

Objects are links, which are created and deleted, and clients, which are started and
stopped. Addresses, routes, sysctls, queueing disciplines and scopes are kept in lists
of the same shape and are left out, as is the fold of a reverted journal. An observation
is one step. `ncfg_reconcile_converge` and `ncfg_daemon_apply_request` also take the
lock after they have observed; they are the same path as `DaemonLook`, `DaemonLock`.

`loose` is the honest limit of the record: a link somebody removed, or an object whose
maker died before it could write it down. A link that could be marked is known by its
mark all the same; one that could not, and a client, are orphans, and `Settled` says so.

Two more behaviours of the restart count have no run. A client that was given up and is
then taken out of the document keeps its count, since nothing running is stopped. A
client that will not take its metric is stopped and started in every pass, and the
stop clears the count, so that the cap never bites.

## The supplicant: `Supplicant`

`wpa_supplicant` holds the networks a radio may join, and netcfgd is the only author of
them. netcfgd talks to it over a datagram socket: a command, a reply, a deadline. A
command that was given up is executed all the same, and its reply is read as the answer
to the next command of that connection. The supplicant tells the names of its networks
and not their credentials, so what was handed over is remembered as a digest in a file;
an observation compares the digest with the document, and refutes it when the supplicant
holds nothing or has disabled a network that should join by itself.

| variable | code |
|---|---|
| `desired`, `record`, `due` | the document, the digest (modelled by the document it was taken of), a planned `wifi.set_profiles` |
| `alive`, `slots` | `wpa_supplicant` and its networks: whose, whether all settings were taken, whether disabled |
| `queue`, `replies` | commands it has not read, datagrams in netcfgd's socket |
| `job`, `step`, `at`, `slot`, `todo`, `want` | what the connection is for and the command it waits on |
| `intruded`, `edits` ... `faults` | history and bounds |

`Look`, `set_profiles`, `start_supplicant` and `Connect` open a connection, which begins
with the `PING` of `ncfg_supplicant_connect_within`. `Receive` and `TimeOut` are the two
ends of `recv`; `Handle` is what the code does with the outcome at each command:
`update_config`, `enable_only`, `set_radio`, `new_network_id`, `send_setting`,
`add_network`, `DisabledAll` for a population, `observe_supplicants` for an observation,
`wifi_connect`, `Attached`, `Selected` for a request to join. `Serve` is
`wpa_supplicant`, external, as these handlers use it. The loop is one thread and
`ncfg wifi connect` runs on it, so there is one connection at a time; the scan that runs
beside it changes no network.

A network is a name and the rest of its settings, sent one after the other; the radio's
own settings are kept as commands that may be refused. Two networks may share a name,
since an SSID is all that `LIST_NETWORKS` tells.

Three behaviours have no run. A population that fails after the clear leaves the
previous record, which matches again when the previous document comes back, with fewer
networks held (`doc/decision/0237` names this as still not caught). With no record at
all, `plan_profiles` does not act ("absent is not false"), where the same decision calls
it a reason to act. And when netcfgd dies between two `SET_NETWORK` commands,
`enable_only` may later enable the slot it left: `EnabledIsWhole` is about the
behaviours without such a death. A digest that cannot be taken while observing is not
modelled, nor are the mesh and wired populations, associating and disassociating, the
regulatory domain, access control, neighbours, steering, events and scan results.

## Runs

| run | instance | checks |
|---|---|---|
| `window` | `MCCommitConfirm`: two edits, a crash | `WindowKeepsItsTarget`, `ExpiryIsScheduled`, `LastGoodWasInEffect`, `RevertRestores`, `UnlessConfirmed` |
| `faults` | the same, with `apply`, `arm`, `lock`, `observe`, `step`, `unreadable`, a crash, an optional and an irreversible item | `RecordBelongsToWindow`, `RejectedStaysOut`, `NoEarlyRevert`, `PassDefers`, `UnlessConfirmed` |
| `loop_liveness` | the same, with a crash and drift | `WindowsResolve`, `DriftIsReconciled` |
| `mailbox` | `MCMailbox`: two sockets, a connection each, two slots | `WaiterIsThere`, `DeliveryIsExclusive`, `ClosedIsQuiet`, `ContextsAreFreed`, `DescriptorIsLive`, `SlowWorkIsUnlocked`, `KeepsPromise` |
| `mailbox_ends` | one socket, two connections, one slot; `accept` may fail, a request may be queued on a connection that is cut | `NobodyIsTurnedAway`, `EveryRequestEnds`, `ShutdownEnds` |
| `failover` | `MCFailover`: a link and a modem with three sources; an edit, two faults | `VerdictFollowsRuns`, `SwitchIsRemembered`, `NoteIsKeptUntilSwitched`, `NeverGoesBack`, `NotesAreCycled` |
| `ownership` | `MCOwnership`: two links, a client, the daemon and one command; an edit, two outside events, a fault | `NoUpdateIsLost`, `RecordMatchesMachine`, `AppliesAreFresh`, `StartsAreLimited`, `StrangersAreSpared`, `Settles` |
| `supplicant` | `MCSupplicant`: three networks of two names, four documents; an edit, a request to join, an intrusion, a crash, a fault | `TypeOK`, `PopulatedIsHeld`, `EarlierCommandsAreDone`, `EnabledIsWhole`, `HeldIsLeftAlone`, `DifferenceIsHandedOver`, `PinsEnd` |

The types of every module but `Supplicant` are proved for every instance and not checked
again in a run.

`MCCommitConfirm` is a machine with an address and an MTU. The empty document takes
the address away; `A` sets the address; `B` sets another address, the MTU, and asks
for a window.

Four more runs state what a document or comment of the repository says and end in a
counterexample. Each is explained, with the line it quotes, under "findings" in
`PROJECT.json`:

- `unobserved`: with no observation a revert skips the re-plan and closes the window.
- `sim_sticky`: a modem that was just switched is switched again because the verdict of
  another interface moved, although nobody has asked its new source yet.
- `restart_cap`: a client that was seen running after each start is given up all the
  same, since a pass with nothing to do does not clear the count.
- `unjoined`: a radio that does not join by itself has its networks cleared and added
  again in every reconcile, and loses the one the operator joined.

Further behaviours of this kind were met in modelling. No run is spent on them:

- An acceptor ends on any error of `accept` but `EINTR` (`daemon/server.c:642` expects a
  stop), and no new client can connect to a daemon that otherwise goes on. `AcceptFails`
  is this step; the properties of `mailbox_ends` hold with it.
- The daemon takes `apply.lock` after it has planned, where `doc/decision/0184` says it is
  taken before the observation, so it may run a plan older than another process's apply.
  `AppliesAreFresh` is therefore about the command line only, and `StrangersAreSpared`
  leaves stale plans out.
- With the machine locked at start (`startlock`), the window stays open while the
  start-up apply replaces the last-good file it would revert to.
- Only the document a window was armed for is rejected, so one applied later inside
  the same window is adopted again after the revert.
- Going back from a broken edit to the rejected document leaves the old compile error
  in place, and every apply is refused for it until the next edit.
- A document that asks for a window and is adopted in one pass but applied in a later
  one is applied without the window.
- A revert with no inverse to run plans from an observation that may be old.
- With a remote socket two requests are in the mailbox at once, where the comment on
  its size says that one is the most there can be. It is harmless.

### Bounds

Two documents besides the empty one, because the hard cases are about telling the
configuration a window covers from another adopted inside it. Two items, because a
plan can then stop half-way, one item can have no inverse and one can have no
opinion in last-good. Windows of one and two seconds, because a timer can then be
shorter or longer than the window it meets; a third second adds nothing the code
compares. One request a round: two in one round are two rounds whose pass does
nothing, except for `window_requested`, which sees the whole list and is reached
with one. Two edits, since an edit, its revert and a third configuration need two.
One crash, which is enough to lose the record of a window. Each run adds the
faults its properties are about and keeps the others out, to stay in reach.

Two connections and two sockets for the mailbox, because every hazard of it is about a
thread and the loop, a thread and the stop, or two threads and a lock, and the second
socket is what lets two threads into the mailbox. One slot for two connections of one
socket is the tightest mailbox that turns nobody away. The local client sends scans and
asks to watch, the remote one sends scans; where two clients share a socket, one does
each. A `slow` request that the loop does not hand back goes the way of a `plain` one.
`CHECK_DEADLOCK FALSE` for the mailbox, since a daemon that has shut down stops.

For the modems, one probed interface: the two interfaces of a machine meet only in
`probes_changed`, which `sim_sticky` is about. Three sources, since advancing past the
last and past a middle one differ; a second document with a shorter list and a third
with none. Thresholds of one and two, an interval and a dwell of one second, and
counters that saturate at two, so that each comparison is made on both sides. Two
faults, since a note has to survive one fault and the repair of another.

For the record, a link that can be marked and one that cannot, a client, and documents
that want either link or nothing. One command beside the daemon and one fault of any
kind: what one process can lose to another needs two, and the proofs cover any number.
Two outside events, since a name can be taken away and taken by somebody else.
`RestartLimit` is 1, and 2 in `restart_cap`, where a count has to add up.

For the supplicant, a name with two credentials and a second name, since the name is all
that can be observed; a document that joins everything, one that differs in a credential
and in what joins, one for a radio that does not join by itself, and an empty one. One
event of each kind: a fault makes a reply late, an intrusion empties the supplicant
behind the record, a crash cuts a population short, and the run takes them in any order
and together. In `unjoined` none of them happens.

### Fairness

`FairSpec` assumes that the loop thread runs to its next wait (`Work`), that the
service manager restarts the daemon (`Boot`), that seconds pass, and that ticks with
no request in the same round keep happening (`QuietTick`, strong, since requests and
other wakes may take a round before it). The tick is `next_tick` of
`main/daemon_loop.c`: it is a deadline, not a sleep, so it comes due whatever else
wakes the loop.

`FairSpec` of `Mailbox` assumes that threads run, and that one which keeps finding a
lock free gets it (strong for the steps that need a lock: acceptors, the loop, and
`Locks`). Nothing is assumed of the clients: one may never send, never read, never hang
up. Nothing is assumed of the tick either: `EveryRequestEnds` shows that the byte in
the pipe is enough to wake the loop.

`FairSpec` of `Failover` assumes that a plan that is running is run to its end, that
the daemon is restarted, and, strongly, that the tick gets its pass: it is the same
deadline. Which answers the programs give is left open.

`FairSpec` of `Ownership` assumes that the loop goes on (`DaemonSteps`) and that an
apply that was started goes on. Weak fairness is enough: the daemon waits for
`apply.lock` only for so long, then gives up and looks again in a later pass
(`DaemonGivesUp`), and whoever holds a lock is running. Nothing is assumed of edits, deaths or others who change the machine; they are
bounded, and `Settles` says where the machine comes to once they have ended.

`FairSpec` of `Supplicant` assumes that the loop makes passes (`Loop`), that a client waits
no longer than its deadline (`Client`), and that `wpa_supplicant` reads its socket
(`Serve`). How long it takes to is left open: a reply may always come too late, as often
as `MaxFaults` says.

## Proofs

Every invariant and every action property of the passing runs is a theorem, some under
hypotheses that are named below. A theorem holds for every value of the constants that
satisfies the `ASSUME` of its model, which states types and that the marker values
(`None`, `Blank`, ...) are none of the others. TLC checked each inductive invariant on
a run's instance before it was proved.

### `CommitConfirmProofs`

For any documents, machine and bounds. `ConstantsAssumption` says among the types that
`None`, a null pointer, is no machine.

- `TypeCorrect` (`TypeOK`). `TypeOK` is not inductive: the window that `ArmWindow`
  writes was decided one step earlier and kept in `arming`. `TypeInv` adds that a
  window about to be written has a document to revert to, which is what
  `ncfg_confirm_may_arm` checked when it was decided.
- `RecordCorrect` (`RecordBelongsToWindow`), for all faults. `RecordInv` adds that a
  revert has dropped the record before it clears the window.
- `TargetCorrect` (`WindowKeepsItsTarget`), without `startlock` and `unreadable`: with
  the first of them the start-up apply replaces last-good under an open window.
  `TargetInv` adds that the window about to be armed has the current last-good as its
  target, and that no window is open where last-good is about to be written. It is
  stated up to a lost file, so that `LastGoodCorrect` and `RevertCorrect` can use it with
  `unreadable`.
- `ExpiryCorrect` (`ExpiryIsScheduled`), without `step`.
- `RejectedCorrect` (`RejectedStaysOut`), for all faults. `RejectedInv` is about the
  reload: until the next edit the configuration on disk is the one the revert went away
  from, and it is also `state.rejected`, so every reload refuses it.
- `LastGoodCorrect` (`LastGoodWasInEffect`). `GoodInv` adds that what is about to be
  recorded and what an open window covers were in effect, and that a window which a
  request can confirm has a record of what it covers. What a completed plan does is a
  chain of lemmas: `PlanReaches` (running a plan over an exact observation ends in the
  document), `DocumentReached`, `PassReaches`, `ApplyReaches`, `ConvergeReaches`.
- `RevertCorrect` (`RevertRestores`). `SeenInv` says that the observation is exact
  wherever a revert can start; a revert runs the inverses and then plans from it.
- `DeadlineCorrect` (`NoEarlyRevert`) and `PassCorrect` (`PassDefers`), for all faults.
- `PromiseCorrect` (`UnlessConfirmed`): every behaviour of the daemon is one of
  `ConfirmPromise`, for all faults but `startlock`. `PromiseInv` puts the invariants above
  together, each under the constants of `ConfirmPromise` it needs: `TargetInv` always,
  `SeenInv` where the machine works and nobody else changes it, `GoodInv` where it works
  and windows cover whole documents. Two are new. `RecordsInv` says that what is about to
  be recorded is a document, under every fault. `BackInv` says that the machine is in the
  window's document for as long as a revert has not closed the window, and is kept by the
  promise's own steps: nothing moves the machine there. `PromiseStep` takes each action to
  the step of the promise it is, or to none; a crash between a revert and the removal of
  the window file is `Interrupt`, after which the next start goes back again.

The hypotheses of `LastGoodCorrect` and `RevertCorrect` are needed, each of them: TLC
finds a counterexample with any one dropped. An action or an observation that fails
(`apply`, `observe`) leaves a machine that is in no document. With `startlock` the
window found at start stays open without its record. `LastGoodCorrect` also assumes that
a document which asks for a window of its own has a drift policy that lets the loop apply
all of it: the pass runs the plan restricted to that policy and arms the window for the
whole document, so a confirmation would record one that was only applied in part.
`RevertCorrect` also assumes that nobody else changes the machine (`MaxDrift = 0`), since
a revert with no inverse to run plans from an observation that may be old. Edits,
crashes, a lost last-good file and steps of the clock are covered. `PromiseCorrect` assumes
only that the machine can be reached at start: with `startlock` the start-up apply moves
the machine under an open window, and TLC finds it.

A step lemma has one case per action. Facts of the large actions (what `Pass`,
`ApplyRequest`, `Converge` and a revert leave alone and where they leave `pc`) are
proved once, as the lemmas named `...Control`, and cited by the others.

### `MailboxProofs` and `MailboxRefines`

For any number of sockets, connections and slots, from `MailboxAssumption` and
`KindsAssumption` of `Mailbox`.

- `MailboxTypeCorrect`, `WaiterCorrect`, `DeliveryCorrect`, `SlowWorkCorrect` and
  `ClosedCorrect` come from one inductive invariant, `Inv`. `SlotInv` ties slot, thread
  and lock to each other in both directions, so that a thread that leaves disturbs no
  slot but its own. `DeliverInv` keeps the slot the loop works on inside the array.
  `QuietInv` is what makes the stop right: it joins only the threads `has_thread` names,
  so any other running thread has to be one its acceptor is about to mark, and the
  acceptor has been joined first.
- `DescriptorCorrect` adds `FdInv`: a thread on its way out has taken its descriptor out
  of the slot. `ContextsCorrect` is inductive once `Inv` is known.
- `RefinesPromise` (`KeepsPromise`): every behaviour of the mailbox is one of
  `RequestPromise`. `SeenInv` says that what is taken was seen by a pass, and that nothing
  seen is left unanswered between rounds, so that a shutdown refuses nothing a pass may
  have acted on. `WorkInv` says that deferred work never belongs to a refusal.
- `NobodyCorrect` (`NobodyIsTurnedAway`), where there are at least as many slots as
  sockets: the slots in use belong to different servers, none of them the asker's.

### `FailoverProofs`

For any interfaces, lists of sources, policies, documents and faults, from
`ConstantsAssumption` of `Failover`, in which `Order` names every interface once.

- `TypeCorrect` (`TypeOK`) is inductive.
- `SwitchCorrect` (`SwitchIsRemembered`) and `NotesCorrect` (`NoteIsKeptUntilSwitched`)
  come from `FailoverInv`. `Kept` says what the run checks of idle states in every state:
  also half-way through a plan, of a link that is down and may come up by itself, and of
  a modem the document lists no longer. `Hooked` says that a hook that has run has put
  its modem on the published source, and `Whole` that a plan which cycles a link also
  runs its hook, so that the end of an apply clears no note too many.
- `SelectionCorrect` (`NeverGoesBack`) needs the types only.
- `VerdictCorrect` (`VerdictFollowsRuns`): `Counted` says that the counters a verdict is
  taken from are the lengths of the runs the results end in, up to where they saturate.

### `OwnershipProofs`

For any number of processes, links, clients, documents and faults, from
`OwnershipAssumption` of `Ownership`. All but the last come from one inductive invariant,
`OwnershipInv`.

- `Locks` says who holds what, in both directions: `owned.lock` exactly between the two
  halves of an update, `apply.lock` exactly from the start of an apply to its record,
  and a journal only under `apply.lock`.
- `UpdatesCorrect` (`NoUpdateIsLost`) adds `Copied`: whoever holds `owned.lock` has the
  record as it is, and no record is of a boot to come, so that after a reboot none is
  believed.
- `AppliesCorrect` (`AppliesAreFresh`) follows from `Locks`: at most one process can be
  between its observation and its record.
- `RecordTrue` (`RecordMatchesMachine`) and `StrangersCorrect` (`StrangersAreSpared`)
  add `Truthful`: no two actions of a plan are about the same object, so the order in
  which a journal is folded does not matter (`OneEach`); what is in a journal is so
  (`Effects`); what no journal is about is as the record says (`Matches`); and what a
  plan deletes was netcfgd's (`Deletes`), where `Matches` is what makes the last one
  true of a link that carries no mark.
- `StartsCorrect` (`StartsAreLimited`) adds `Hands`, what a process has in hand, and
  `Counts`, which weighs the starts of a client against those counted and those about to
  be. The bound is `2 * RestartLimit + 1`, not `RestartLimit`: a daemon that saw the client
  running and then waited for `apply.lock` clears the count of the starts that the command
  line made since, and it may run a start that it planned before the last was counted.

### `SupplicantProofs`, `SupplicantWhole` and `SupplicantHolds`

For any networks, documents and bounds, from `SupplicantAssumption` of `Supplicant`.
Commands are read in the order in which they were sent, which is what a datagram socket
of the UNIX domain does.

- `BarrierCorrect` (`EarlierCommandsAreDone`) rests on `Barrier`: while the `PING` is out
  it is the connection's only command and the last one sent, and once anything was
  received on the connection no other command is left in the queue. Only a `PONG` ends
  the wait.
- `TypeCorrect` (`TypeOK`) rests on `Base`, which adds which steps a job goes through
  (`Flow`) and that a supplicant which is gone holds nothing (`Death`).
- `Wire` says what may be on the wire at each step. At the steps of `ExactSteps`,
  the settings and the enabling of a slot among them, nothing of an earlier command is
  left (`Exact`), so a reply there is the reply to the command just sent; elsewhere it may
  be a late one. Nothing is sent after `ADD_NETWORK` until its number is there (`AddIsLast`).
  `Session` is `Base`, `Barrier` and `Wire`; the three results below start from it.
- `WholeCorrect` (`EnabledIsWhole`): `Whole` adds that a slot with a name and without its
  settings is being given them or has its `REMOVE_NETWORK` in the queue, ahead of anything
  that could enable it, and that what was decided to be enabled had its settings then.
- `HeldCorrect` (`HeldIsLeftAlone`): as long as nothing went wrong (`Smooth`) the session
  is `Orderly`, and what is emptied did not hold what was recorded.
- `PopulatedCorrect` (`PopulatedIsHeld`): `Populating` says for each step of a population
  what each slot holds, from the clear to the record: the first `at - 1` networks of the
  document, as the document wants them, and beside them the slot that is being set.

### Only model-checked

The liveness properties (`WindowsResolve`, `DriftIsReconciled`, `EveryRequestEnds`,
`ShutdownEnds`, `NotesAreCycled`, `Settles`, `DifferenceIsHandedOver`, `PinsEnd`), since
the proof system does not reason about fairness. Induction over data and recursive
operators are out of its reach as well; no module needs them.

## Not modelled

The compiler, the planners of single subjects, the decoding of observations and the
wire formats are functions of data; a document, a plan and an observation are values
here. They are most of the code by far, and a state machine has nothing to say of them
that a test on one input would not. Single netlink and process operations are an item
of the machine. The command line, but for its apply, and the NetworkManager adapter
are clients of the socket. The Rust tree is the earlier implementation of the same
daemon.

Of the parts that keep state, these are left out: the captive portal, whose record of a
device is stepped by a pure function and kept in the file whose update `Ownership` models;
the resolver guard, whose only memory is a count of reclaims; the supervision of hooks and
helper processes, which here end by themselves or are running or not; and the parts of the
wireless code named under `Supplicant`. `PROJECT.json` lists every part with its status.

The composition of `Ownership` with `CommitConfirm` is left out: the window reverts
through the inverses of a journal, and what an inverse does to the record is the fold of
a reverted journal.
