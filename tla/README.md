# qcontroller: a TLA+ verification project

qcontroller manages QEMU virtual machines on one or more nodes. This directory
holds TLA+ models of its parts, TLC configurations that check them on small
instances, and TLAPS proofs of their safety properties for every value of the
constants. Paths below are relative to `src/src/` of the repository.

1. [Inventory](#1-inventory)
2. [Modules](#2-modules)
3. [Runs, bounds and what they show](#3-runs)
4. [Fairness](#4-fairness)
5. [Theorems](#5-theorems)
6. [Findings](#6-findings)
7. [What is assumed, and what is not modelled](#7-limits)
8. [Plan](#8-plan)

## 1. Inventory

Every node runs four services that talk gRPC on localhost; the orchestrator
sits above the nodes.

    client -- REST/WebSocket --> orchestrator ----gRPC----> controller --> qemu service --> QEMU
                                  |     ^                     |  |             |
                                  |     +-- event service <---+  +- badger     +- file registry
                                  +-- file registry (local) --push--> file registry (node)

| Component | State it keeps | Operations | Talks to |
|---|---|---|---|
| Instance database, `pkg/controller/db` | badger keys `instance:<id>` and `hwaddr:<mac>` | Get, List, Update, Remove | only the controller |
| Node controller, `pkg/controller/vm`, `pkg/protos/controller.go` | the database; goroutines of requests; a poller | Create, Start, Stop, Remove, Info | database, qemu service, event publisher |
| QEMU service, `pkg/protos/process.go` | `starting` ids; the lifecycle loop's map of instances; instance directories; processes | Start, Stop, Remove, List, Info | QEMU, file registry, monitor, network |
| Instance monitor, `pkg/qemu/process` | connections to QMP and QGA sockets; the `ready` map; unanswered pings | Add, the monitor goroutine, Execute | QEMU sockets, lifecycle loop |
| Asynchronous contexts, file waiting, `pkg/utils` | none | `WaitForFileCreation`, `AsyncCtx` | QEMU service, orchestrator |
| Event publisher, `pkg/events` | cache of the last published state of each instance; queue of 100; a stream | VMUpdated, VMRemoved, image, progress, error events | event service |
| Event service, `pkg/protos/event.go` | set of subscribers | Publish, Subscribe | publishers, orchestrator |
| Node subscriber, `qcontrollerd/cmd/node_subscriber.go` | one subscription per node | seed, subscribe, forward | controller, event service, broadcaster |
| Broadcaster, `pkg/orchestrator/broadcast.go` | set of client subscriptions, one channel each | Send, Subscribe, Unsubscribe, Run | WebSocket handlers |
| File registry, `pkg/protos/fileregistry.go`, `pkg/images/storage` | image files, badger metadata, temporary uploads, an RWMutex | UploadImage, DownloadImage, RemoveImage, ListImages | qemu service, orchestrator |
| Orchestrator, `pkg/orchestrator` | goroutines of starts in the background | dispatch, `ensureImage`, Create, Start, Close | controllers, registries |
| Authentication, `pkg/auth` | a key file; everything else in signed cookies | login, callback, renewal, verification, logout | OIDC issuers, browsers |
| Address resolution, `pkg/utils/network` | hardware to IP address map of the last scan | ticker, scan, LookupIP | network, QEMU service |
| Firewall, `qcontrollerd/cmd/qemu_linux.go` | the default interface it knows; two subscriptions, a ticker | reconcile | netlink, nftables |

What is hard in each, and what makes it right:

* **Database.** badger transactions are optimistic: two of them check uniqueness
  of an address, or the state of a record, in snapshots of their own. Right when
  the secondary index is always the exact inverse of the records, addresses are
  unique, only stopped instances disappear, and the whole is an atomic table.
* **Controller.** Every request is a sequence of separate database transactions
  and a call to the QEMU service that takes minutes; the poller and every
  `Info("")` write the database as well, from what they read earlier; either
  process may restart in between. Right when the records change only by legal
  steps, a start always settles, records and cache converge to the processes,
  and removal leaves nothing behind.
* **QEMU service.** Handlers, watchers and the lifecycle loop meet on unbuffered
  channels; processes outlive the service; every call on a process may fail.
  Right when every live VM is within the reach of Stop, every dead one is
  forgotten, and no failed Start keeps its guard.
* **Events.** Cache, queue, stream, event service, subscriber and broadcaster
  each may lose an event, requests and polls publish what they read earlier, and
  events carry nothing to order them by. Right when an orchestrator that is in
  step with a node stays so while nothing fails, and when no client can hold up
  or crash the orchestrator.
* **Images.** File and metadata are two things; a file is overwritten in place
  while it may be open; uploads skip what the metadata says is there. Right
  when metadata and file agree and an instance's image is one whole content.
* **Distribution of images.** The orchestrator lists, compares, downloads and
  uploads in separate calls while users replace the image and other creations
  push it; uploads fail halfway. Right when an instance boots a version the
  orchestrator has held since it was asked for, or since a creation was that pushed
  it over the other, and when a start that was promised is not given up with the
  request that asked for it.
* **Monitor.** A connection, its messages and the name in the `ready` map carry
  no sign of the process they belong to; a predecessor's may still be under way
  when the successor connects. Right when a name is ready only on the strength
  of its own connection, and every VM whose socket exists becomes ready.
* **Sessions.** Overlapping requests refresh the same token and their answers
  reach the browser in any order; orchestrators that share a directory start at
  once. Right when there is one signing key, a logout is final, and renewal
  leaves no spent token behind.
* **Addresses.** Replies come late, unasked for, several at a time, or not.
  Right when the map holds nothing its host had given up before the scan, and a
  quiet scan misses nobody.
* **Firewall.** Notifications burst in, subscriptions end, other tools flush the
  rules. Right when the rules end up on the default interface all the same.

## 2. Modules

| Module | Models | Uses |
|---|---|---|
| `InstanceTable` | what the controller assumes of its database: an atomic table | |
| `InstanceStore` | `persistence.go` over badger transactions | implements `InstanceTable` |
| `QemuService` | what the controller assumes of the QEMU service | |
| `NodeController` | `manager.go`, `local_manager.go`, `controller.go` | `InstanceTable`, as its database; `QemuService` |
| `QemuLifecycle` | `process.go`: handlers, loop, watchers, reattachment | implements `QemuService` |
| `InstanceMonitor` | `instancemonitor.go`, the registration in `process.go`, `WaitForFileCreation` | |
| `EventStream` | publication in `manager.go`, publisher, event service, node subscriber | |
| `Broadcaster` | `broadcast.go` and `orchWsHandler` | |
| `ImageRegistry` | what the users of a file registry may assume of it: images that change in one step | |
| `ImageStore` | `fileregistry.go`, `local.go`, download by the QEMU service | implements `ImageRegistry` |
| `ImageDistribution` | `server.go`, `remote_manager.go`, the image handlers of `handler.go` | |
| `SessionSecret` | `secret.go` | |
| `Session` | `oidc.go`, `cookie.go`, `middleware.go`, `handlers.go`, one browser | |
| `AddressResolver` | `resolver.go`, `scanner.go`, `SubnetHosts` | |
| `FirewallReconcile` | the goroutine of `qemu_linux.go` | |
| `InstanceStoreProofs`, `NodeControllerProofs`, `QemuLifecycleProofs`, `HostProofs`, `EventProofs`, `ImageProofs`, `SessionProofs`, `AddressResolverProofs` | theorems and proofs | the modules they are about |
| `MCLookups`, `MCRequests`, `MCHost`, `MCOrchestrator` | several models side by side, for one run | |
| `MCNodeController`, `MCEvents` | one model and its values | |

Definitions marked *faulty variant* are plausible mistakes in the code; no
specification uses them. Each stands before the definition it could replace,
and each property is known to catch one of them.

**InstanceStore.** A transaction has a snapshot (`data` of its client), a read
set and, at commit, a conflict check: it fails when another transaction has
written a key it read since it began. That semantics is badger's and is marked
external; everything else is `Update` and `Remove`: the uniqueness check, the
deletion of the old address's key, the state check of `Remove`, and the error
returns that discard the transaction. `ImplementsTable` is `InstanceTable!Spec`
with the records as the table.

**NodeController.** A thread is the goroutine of a Create or Remove request, or that
of a Start: `Manager.Start` answers its client at once and works in a goroutine of its
own, so that a client that waits for every answer still has a Start running beside
its next request. With them go one poller, and readers for `Info("")`. Database calls are
single steps of `InstanceTable`; between two steps of a goroutine everything else may
happen. Reads and transactions fail (`DbFails` and the failing alternatives of
the actions), calls to the QEMU service fail or are given up by their caller while their
handler goes on (`RpcFails`, `GiveUp`, `RemoveGiveUp`). `setInstanceState` is three
steps of control in two actions (`SetGet`, `SetPut`): it writes back the whole
record it read. Every action that involves the QEMU service is a step of
`QemuService`. `Stop` does not touch the controller's state: its effect is `VmExit`. The
behaviours begin with a database as an earlier controller left it (`Found`). `unclean`
remembers the ids whose last removal met a process or a Start under way, or whose
clean-up failed or was cut short.

**QemuService.** What a controller can tell of the QEMU service: which instances
have a process that their directory names (`vm`) and which a directory, and how far a
Start is. A Start is let in one at a time per id, and QEMU's lock on the disk image
admits one process. Remove looks for a process in one step and deletes the directory
in another, without the guard of Start: what starts in between is left without a
directory (`stray`), and no List shows it. It is to `process.go` what `InstanceTable` is
to `persistence.go`: `NodeController` is written on it, `QemuLifecycle` implements it.

**QemuLifecycle.** The same service from inside. The n-th process of an id is
incarnation n, so that a message about a dead process can be told from one
about its successor, which the code, sending only ids, cannot. `live` are the processes
of each id, `pidfile` the one its directory names, `table` the one the loop tracks.
Sends on unbuffered channels are one step with their receives. Killing a process and
attaching to one may fail (`failed` remembers of which); `hurried` are the processes handed
over before the end of an earlier one was reported. Any request may come at any time.
`ImplementsService` is `QemuService!Spec` with `vm`, `stray`, `handler` and `removing` read
off the processes, the pidfiles and the program counters (`Processes`, `Strays`,
`Progress`, `Removers`): the network set-up, the loop, the watchers and the reattachment
are steps a controller does not see.

**InstanceMonitor.** One VM whose n-th process is incarnation n, as above, and
for each of the two sockets (`qmp`, `qga`) a registration: look, watch, look
again, wait, connect. `add`, `watcher` and `ctx` are the three goroutines and the
context of an incarnation (the unbuffered `errorCh` is `TakeError`); `inbox` is the
channel of all messages, `asking` the unbounded wait for the answer to
`qmp_capabilities`, `ready` and `requests` the monitor's maps. `Followings` chooses
which sockets the processes create. `late` remembers whose context ended too early,
`broken` whose registration met a failing call (the watch cannot be set up, the client
refuses the name) or the end of its time.

**EventStream.** The truth of one node (`truth`), what its Create and Remove requests
have yet to publish (`owed`), the poll, which is told a list and publishes it later, one
instance after the other, removals included (`listed`, `tasks`), the publisher's `cache`,
its queue and stream, the former streams, which the event service serves to their end
beside the present one (`past`), the event service's registration of the orchestrator, the
subscriber's stream, and the picture the orchestrator has passed on (`view`). A removal
is published by its request and again by the poll, as nothing removes the second.
`inStep` remembers that the orchestrator was once up to date and that no fault, that is no
broken stream, no restart and no event dropped at a full queue, has happened since.

**Broadcaster.** `subCh` and `unsubCh` are sets, not sequences: which entry a
receiver takes makes no difference to any property, and taking any of them
allows more than the code does. `closed` and `panicked` model Go's rules for
closed channels.

**ImageStore.** A file is a prefix of one content; `os.Create` truncates the
same file, which a download may have open, `os.Remove` unlinks it and leaves it
to its readers. `lock` is the RWMutex held for writing through a whole `Store`
or `Remove`; readers hold theirs within one step, so they only wait. `cut` are
the ids whose last `Store` or `Remove` did not finish, `spoiled` the instances
whose download read a file that was overwritten meanwhile or left by a cut one.

**ImageRegistry.** What remains for the users: `held`, the content of each image,
`damaged`, the images whose last change did not finish, `opened`, what each download
reads, and `copy`, what each instance has got. The mapping is the metadata, `cut`, the
content of the open file (`Opened`) and the image file as a content (`Kept`). An upload
changes the image in one step, the commit of its metadata (`Put`), but tears the downloads
of that image when it begins (`Overwrite`); a removal happens when its metadata go, and
downloads under way do not notice it. `Finish` is the promise: a download that was not
torn ends with the content the image had when it was opened. Both exceptions are the
code's, and nothing in its documents promises more.

**ImageDistribution.** One image, one node, several creations. The registries
are atomic here, since their inside is `ImageStore`, with two exceptions that
`ImageStore` justifies: a download that runs while the image is replaced is `Torn`, and an
upload that fails leaves the file halfway under its old hash (`damaged`), which later
comparisons take for the whole image. A start has two goroutines: that of the
orchestrator (`start`), which calls the controller, and that of the controller (`work`),
which answers at once and then fetches the image and launches; calls fail, and answers are
lost after the call was made. `localSince` remembers the versions the orchestrator has held
since a creation began, `pushed` which other creations have pushed theirs over its own.

**SessionSecret, Session.** A key is named by the process that made it; a
session by the numbers of its refresh and its ID token. A request carries the
cookie the browser had when it left and its number (`sent`); its answer is what its
`Set-Cookie` headers come to. `haunted` remembers that an answer from before a logout has
set the cookie again, which no server can prevent; `inOrder` that no answer was lost and
all arrived in the order of their requests.

**AddressResolver.** Addresses are numbers below `Space`; `NextIP` carries and
wraps as the code's bytes do. `air` is what the scan's socket will still deliver;
`since` and `steady` remember what the hosts did since the scan began, `missed`
that a request was not sent.

**FirewallReconcile.** The `select` over two subscriptions and a ticker, with the
loop that drains bursts of link events; a receive from a closed channel
succeeds at once, as in Go.

## 3. Runs

Four runs check several independent models **side by side**: `MCLookups`, `MCRequests`,
`MCHost` and `MCOrchestrator` choose in the initial state the one that moves in a
behaviour, and the others stay in their initial states. The models share no variable,
so each is checked exactly as if alone. The fairness of a part at rest is no obstacle:
its fair actions are disabled in its initial state. Symmetry is used only in runs
without liveness properties.

| Run | Part and instance | Shows |
|---|---|---|
| `lookups` | store: 2 ids, 2 addresses, 2 concurrent transactions, conflicts, failures and restarts | `IndexExact`, `ImplementsTable` |
| | resolver: one host, a subnet of 4 at the end of a space of 8, batches of 1, 2 moves | `KnownWasHeld`, `QuietScanFindsAll` |
| | secret: 3 processes that start, fail, stop and start again at will | `OneSecret` |
| | session: 2 overlapping requests, 3 in all, 2 grants, 1 fault | `LogoutIsFinal` |
| `requests` | controller: 1 id, 1 address, 2 threads, the poller; 2 requests on any database found; one restart of either process, one database call and one call to the QEMU service that fail | `StartingIsOwned`, `LeftoversHaveACause` |
| | orchestrator: 2 creations, 2 versions, any call may fail | `BootsPushed` |
| `node_live` | controller: as in `requests`, without failing database calls | `StartSettles`, `RunningFollowsVm`, `StoppedFollowsVmUncut`, `CacheFollowsRecord` |
| `host` | lifecycle: 1 id, 2 callers, 2 processes, 2 restarts of the service, any call may fail | `LiveIsTracked`, `ImplementsService`, `DeadIsForgotten`, `GuardIsReleased` |
| | monitor: one process with an agent, or two without; one restart | `ReadyIsBacked`, `BecomesReady` |
| | rules: 2 interfaces, a link buffer of 2, 3 notifications, 2 mishaps | `RulesAreCurrent`, `RulesFollowUncut` |
| `events` | 1 instance with 2 states, queue of 2, 2 changes, one broken stream, one controller restart | `NothingMissed`, `LiveUpdates` |
| `orchestrator` | registry: 1 image id, 2 contents of 2 chunks, 2 handlers, 1 downloading instance; 4 requests, 2 downloads, one fault | `StoredIsWhole`, `ImplementsRegistry`, `SkippedExistsUncut`, `TempIsReleased` |
| | creation: 1 creation, 2 versions, any call may fail | `StartIsSettled` |
| | broadcast: 2 clients, buffers of 2, 4 events | `NoPanic`, `InOrder`, `LeaverIsForgotten`, `EventsAreServed` |
| `node_stuck_starting`, `node_orphan`, `events_seed_gap`, `image_crash`, `firewall_link_closed`, `session_overlap` | the smallest instance that shows it | violations: see [Findings](#6-findings) |

Type invariants, and properties that a checked one implies (`HwaddrUnique` and
`RemovedWhenStopped` follow from `IndexExact` and `ImplementsTable`, `ImageIsWhole` from
`ImplementsRegistry`), are theorems and not part of a run. The largest runs are
`requests` (3.2 million states) and, for their liveness properties, `node_live` (359
thousand) and `host` (130 thousand); these take two to four minutes, the others less
than one.

**Bounds.** All counters that bound a run are constants with `Max` in their
names and occur only in guards. Why they are enough:

* Two ids, two addresses and two transactions suffice for the database, whose
  conflicts are between pairs of transactions over at most two keys each.
* Everything the controller does concerns one id but for the check of addresses,
  which `lookups` checks in the database and the proofs for any number of ids. Because a
  run begins with whatever stopped instance an earlier controller has left, two requests
  allow every overlap of a start, a removal, a creation and a second one of them, with
  the poller beside both; the QEMU service's handlers outlive their callers and so
  meet the next request.
* In `QemuLifecycle` ids share only the loop, and what overlaps is a predecessor, its
  watcher and its successor: two incarnations of one id, as in `InstanceMonitor`.
* One instance with two states: instances share the queue and the streams, but nothing
  in the code compares two of them. A queue of two is full after two events, and the
  third, which a change, a poll and a request can well make of two changes, is dropped.
* One image id: ids share nothing but the mutex. Two chunks tell empty,
  incomplete and whole files apart. Four requests allow store, overwrite or
  removal, a second upload, and one more beside them. Two versions and two
  creations make every pair of listing, reading and pushing disagree; how one start
  ends does not depend on another creation.
* Two grants let a token be spent and replaced; of three requests two overlap
  with a logout or a renewal.
* The subnet ends where the address space does, so that the enumeration has to
  wrap, and its four addresses are network, broadcast and two hosts.
* One fault of each kind: the code's state after a fault is a state any further
  fault finds again, after the recovery that the runs include. Where that would not
  hold, as with processes that a restart finds, there are two.

**Conditions.** Some properties are stated under conditions because the code does not
promise more. None restricts the behaviours that are checked, so that a property must
survive the exceptions of others and those that are repaired:

* `StartingIsOwned` and `StartSettles` hold until the first restart or failed database
  call, `StoppedFollowsVmUncut` without restart or failed write: nothing in the code
  settles a record that was left STARTING while the VM is down.
* `LeftoversHaveACause` excepts the ids in `unclean`. What it says is that a removal that
  met neither a process nor a Start, and whose clean-up succeeded, stays clean whatever
  starts, creations, reconcilers and late handlers do about it.
* `LiveIsTracked` excepts a process on which a call has `failed`, and one that was
  `hurried`; `BecomesReady` the registrations that are `late`, for the same reason, or
  `broken`. There is no retry in the code.
* `BootsPushed` speaks of whole versions, and admits those of the creations that have
  `pushed` theirs over the instance's. That an instance starts from no torn image is a
  matter of the storage, and `SkippedExists` says where the storage fails.
* The image properties hold outside `cut` and `spoiled`, `LogoutIsFinal` unless `haunted`,
  `RulesFollowUncut` while the link subscription lasts, `NothingMissed` and
  `LiveUpdates` since the last fault, `QuietScanFindsAll` for scans that sent
  every request and left nothing unread.

The hazards list names, for each exception, the line of the code that causes it.

## 4. Fairness

* `NodeController`: weak fairness of each goroutine, because Go schedules them;
  of the QEMU service's Start and Remove handlers, which end in success or failure; of
  the poller, which polls every few seconds. No fairness of requests, exits or faults.
* `QemuLifecycle`: handlers and watchers run, the reattachment at the service's start
  goes on, and the loop's `select` serves every channel that has a sender. No fairness
  of requests or exits.
* `InstanceMonitor`: the goroutines run, the end of a connection is noticed, and
  QEMU answers `qmp_capabilities` or ends. Nothing makes a socket appear, the guest
  agent answer, or the 600 seconds of the context run out.
* `EventStream`: requests come to their end and publish (`PublishOwed`), the poller, the
  publisher's goroutine, the event service and the subscriber run; the retry loops retry.
* `Broadcaster`: `Run` has its turns and `select` does not starve a channel,
  hence weak fairness of serving each. Nothing is assumed of clients:
  `EventsAreServed` holds even if nobody reads.
* `ImageStore`: a handler that can go on does. `Receive` includes the failure of
  the client's stream, so that a client ends its upload or loses its connection.
  A waiting writer gets the RWMutex because Go's lets new readers wait behind it,
  and readers hold it only within a step of the model.
* `ImageDistribution`: the goroutines of a start, the orchestrator's and the
  controller's, run, and the calls they make return. Nothing is assumed of requests and
  users.
* `FirewallReconcile`: the goroutine runs and the ticker goes on; strong
  fairness of reading the default interface and the tick, because Go's `select`
  chooses among the ready channels at random: a channel that is ready again and
  again is read at some time.

The other models have no liveness properties.

## 5. Theorems

All are checked by TLAPS for every value of the constants that satisfies the
assumptions named in the modules; TLC evaluates those in every run. Each proof
module states an inductive invariant, proves that Init implies it and that every
step keeps it, one lemma per action or group of actions, and derives the
properties.

**InstanceStoreProofs.** That a commit keeps addresses unique depends on what a
transaction has read still being true, so the strengthening says that every
running transaction that is not yet marked stale has a snapshot equal to the
present database on all keys it has read (`SnapshotCurrent`), and that the index
is the exact inverse of the records (`IndexExact`). From it follow
`HwaddrUnique`, `RemovedWhenStopped` and, step by step with the refinement
mapping, `ImplementsTable`.

**NodeControllerProofs.** Two invariants, for any number of instances, goroutines,
restarts and failures. The first has three parts: the type invariant strengthened with
what each program counter implies about a goroutine's locals (`TInv`); uniqueness of
addresses in the records (`MacsUnique`); and `StartingIsSafe`, that a STARTING
record has an owner whose next write cannot be refused, because it has read the address
the record still has. `StartingIsOwned` follows. The second, `CleanInv`, is about the
instances without a record that are not `unclean`: nothing of theirs runs, no Start of
theirs is under way, in the service or about to be called, and a directory of theirs is
one that a Remove handler has yet to delete. `LeftoversHaveACause` follows when
everything is at rest.

**QemuLifecycleProofs.** `LifecycleInv` holds for any requests at any time and any
failing calls. It says that every Start holds the guard of its id alone (`Guards`), that
a process that its directory names is the latest of its id (`NamesLatest`), that a watcher
reports what is dead (`WatchesDead`), that nothing is watched before the service has
attached to it (`Unattached`), and that a process that was handed over is tracked, with
no report left that would have it forgotten, unless a call on it failed or it was handed
over before such a report (`Tracked`). `LiveIsTracked` follows. `ImplementsService` is
proved step by step: because a guard has one holder, how far the Start of an id is
(`Progress`) is a function of the program counters, and every step of a handler is one
operation of `QemuService` or none; the Removes of an id are counted, and only their
count is visible. The safety halves of two liveness properties are theorems as well:
a guard that is taken has a handler at work (`GuardHasHolder`, for `GuardIsReleased`),
and whatever the loop tracks has a watcher that has yet to report (`TrackedIsWatched`, for
`DeadIsForgotten`). That the handler and the watcher then go on is fairness, and
stays with TLC.

**HostProofs.** Monitor: `ReadyIsBacked` for any number of processes and restarts. Names
and messages carry no sign of their process; what keeps them apart is their order. The
invariant says of every unread message that it is of the present connection, or that the
end of its connection is among the messages behind it (`MessageIsBacked`), and the same of
every ready name (`NameIsBacked`). Firewall: `RulesAreCurrent`, for any interfaces,
notifications and mishaps. What was announced last is the last entry of the channel that
has yet to be read, or else what the goroutine knows (`KnowsLast`), and when it waits,
the rules are on what it knows unless something failed or was flushed (`RulesKept`).

**EventProofs.** `NoPanic` rests on why a handler can leave: it received
something or its channel was closed, so that `Run` has taken its subscription.
The invariant (`Registrations`) relates a handler's program counter to `subCh`, `unsubCh`,
`subs` and `closed`. `InOrder` rests on another (`OrderInv`): what is in a client's
channel is increasing and newer than what the client has, and what is in
`eventCh` is increasing and newer than all of that. For `EventStream`, `StepInv` says what
holds in step: both streams are served, none is left of former ones, and the subscriber
reads (`Connected`), so that an event moves from queue to queue and is never dropped;
and of every instance the last event under way says what the cache says, or, when there
is none, `view` does (`NothingMissed`).

**ImageProofs.** Storage: only the holder of the mutex is between file and
metadata (`LockIsHeld`), what it has done is known (`Written`, `Deleted`), two
images have two files, and every other image that was not left halfway is
`Settled`; a download that is not spoiled reads one whole file (`ReadsWhole`). From
these follow `StoredIsWhole`, `ImageIsWhole` and `SkippedExistsUncut`. That `Store`
always finds a file nobody uses is a counting argument (`FileIsLeft`). That `ImageStore`
implements `ImageRegistry` needs besides that who reads an image's file is a download of
that image, and that nothing spoils a download before it opens a file (`ReadersKnown`);
then each action is one abstract step or none: creating the file is an `Overwrite` of
exactly its readers, the metadata are the `Put` or `Delete`, a failure or crash in between
damages the one image whose call holds the mutex, and the chunks of a whole file name its
content (`WholeAtTheEnd`, `WholeValue`). The run checks the same with one id; that an
upload of one image leaves the downloads of another alone is what the proof adds.
`TempIsOwned` is the safety half of `TempIsReleased`: every temporary file is that of
exactly one upload under way.
Distribution: `BootsPushed`, by following a whole version from the orchestrator's
registry through list, temporary file and node to the disk, past damaged and torn files,
and saying at each station that it is one held since the creation began, or since
one began that pushed it over (`LocalIsSince`, `ListedIsSince`, `CopyIsSince`, `NodeIsSince`).

**SessionProofs.** `OneSecret`: at most one process is between creating and
writing the file, which is empty until then; every key returned is the file's
(`OneWriter`, `OneContent`). `LogoutIsFinal`: what step a request is at and what its answer
may be (`Shape`, `Granted`), and what requests from before and after a logout can still
bring (`SinceLogout`).

**AddressResolverProofs.** For every subnet, `Space` = 2^32 included: what is in the air
or found while a scan runs was held since it began (`Heard`), and every host that
has been asked is found, or its answer is in the air (`Asked`). `KnownWasHeld`
and `QuietScanFindsAll` follow.

**Only model-checked.** The liveness properties, `StartSettles`, `RunningFollowsVm`,
`StoppedFollowsVmUncut`, `CacheFollowsRecord`, `DeadIsForgotten`, `GuardIsReleased`,
`BecomesReady`, `RulesFollowUncut`, `LiveUpdates`, `LeaverIsForgotten`, `EventsAreServed`,
`TempIsReleased` and `StartIsSettled`: liveness under fairness and `ENABLED` are out of the
prover's reach, as are induction over data and `RECURSIVE` operators, which no
module uses. Every safety property that a run checks is a theorem, and so is the type
invariant of every model.

## 6. Findings

1. **`node_stuck_starting`**: a controller restart during a Start leaves the
   record STARTING. `reconcileInstances` corrects it only if the VM runs; if it
   does not, Start and Remove refuse the instance for ever.
2. **`node_orphan`**: a reconciliation that read its lists before a VM was
   stopped and started again writes STOPPED over RUNNING. Remove then deletes
   the record, the QEMU service refuses to clean up after a live process, and
   that refusal is only logged: the process runs on without a record. A Remove that
   is served while a Start is at work in its goroutine leads there as well.
3. **`events_seed_gap`**: the orchestrator reads a node's state before its
   subscription is registered. An event in between is lost, and the publisher's
   cache suppresses its repetition until the next change. The same outdated view
   results from an event dropped at a full queue, one lost in a broken stream,
   and a removal that a controller restart prevents from being published.
4. **`image_crash`**: `Store` and `Remove` change the file before the metadata.
   After a failure or restart in between, an upload of the content that the old
   metadata describes is skipped as already present, although the file is
   missing or incomplete: the image cannot be repaired by uploading it again.
5. **`firewall_link_closed`**: when the subscription to link events breaks down,
   netlink closes its channel. The loop that drains bursts of link events then
   receives from a closed channel for ever: the goroutine takes neither default
   interfaces nor ticks any more, and the rules stay on an interface that is no
   longer the default one.
6. **`session_overlap`**: two requests leave with one session. The second is let
   through and re-issues the cookie while the ID token is still good; then the token
   expires and the first rotates the refresh token. Answered in the order of the
   requests, the second answer puts the spent token back, and the next renewal ends the
   session.

Eight more properties are stated in the modules and in no run, because the code does not
have them. Each shows its counterexample when it is put in the place of a property
of the run named:

| Definition | Run | What the code does |
|---|---|---|
| `NoStrays` | `requests` | Remove reads the pidfile (`process.go:523`) and deletes the directory later, without the guard of Start: a process that starts in between keeps running without directory, and no List shows it |
| `AsksInOrder` | `requests` | two overlapping Starts both find the record STOPPED (`local_manager.go:91`), and the slower one asks for a Start of a running VM |
| `RecordsComeFromCreate` | `requests` | `setInstanceState` writes back the record it has read (`local_manager.go:273`), which a Remove has deleted meanwhile |
| `MacStable` | `requests`, with two addresses | two creations of one id both find it free, in transactions of their own (`local_manager.go:61`), and the later overwrites the earlier |
| `RemoveReportsTruth` | `requests` | any failing read (`local_manager.go:153`), and a record that is not STOPPED any more (162), is reported as already removed |
| `StopReachesRunning` | `host` | a watcher's late report names only the id (`process.go:92`) and has the loop forget the successor |
| `QueriesAreServed` | `host` | the same report cancels the successor's context (`process.go:90`), and with it the registration of its sockets |
| `BootsCurrent` | `requests` | of two creations the one that has read an older version may push it last (`remote_manager.go:95`), and the other instance starts from it |

## 7. Limits

**External, modelled from how the code uses it:** badger's transactions
(snapshot reads, conflict detection, durability across a restart of the
process); QEMU's exclusive lock on a disk image, which makes a second process on
one instance fail; the qapi client's connections and messages; fsnotify; the
browser's cookie jar and the OIDC issuer, which spends a refresh token when it
grants the next; ARP and packet sockets; netlink's subscriptions; Go's channels,
`select` and RWMutex; files as POSIX has them.

**Assumptions on the environment:** power failures that lose file contents the
process had written are outside the models, restarts of processes are inside. A broken
connection is noticed by the next use. A name is registered again with the monitor once
the messages of its former connection have been read. Frames that a full socket
buffer drops are answers that nobody gave.

**Not modelled** (the list of components gives the reasons). Configuration,
commands and wiring beyond the start of services; static files and the API
description; the launch arguments of QEMU, cloud-init, the runtime information that Info
asks of a running instance, and read-only requests; bridges, the network interface of an
instance, which a second Start of it would replace, DHCP and the firewall's rules, which
are made by calls of the operating system; the bytes of ARP frames, BPF buffers
and cookies, the absolute life time of a session, bearer tokens and the login's
state cookie; events of images, progress and errors; several publishers at one
event service, its restarts, and a subscriber stalled by flow control; the order of
events across a broken stream, which the code does not keep; protocol definitions and
packaging.

## 8. Plan

Done, in this order: database and its refinement; controller over it; QEMU
service; broadcaster; events; images; monitor; distribution of images; sessions
and their key; addresses; firewall; and the theorems above. What would be next:

1. `EventService` with several publishers, a stalled subscriber and restarts,
   composed with `EventStream`'s publisher, and what an orchestrator may still
   rely on after a broken stream.
2. `ImageDistribution` over `ImageRegistry`, so that what it takes to be atomic is what
   is proved of the storage.
3. The safety halves of the liveness properties that have none yet: what a background
   start and a registered socket are held by.
4. The walk over a BPF buffer, against its definition as a list of frames.
