# TLA+ models of the ESP32-S3 industrial protocol probes

This directory holds specifications of the firmware in `src/firmware`, the
configurations with which TLC checks them on small instances, and proofs about
them that TLAPS checks for every instance. A definition is a translation of the
C code that `PROJECT.json` names for it; file names below are relative to
`src/firmware`, and `arch/` and `deps/` are directories of
`opcua_probe/components/open62541`.

## The system

Three ESP-IDF applications run on an ESP32-S3 with a W5500 Ethernet chip. The
largest, the OPC UA probe, drives the event loop of open62541, whose
architecture layer is part of this repository.

| Component | State | Operations | Made correct by |
|---|---|---|---|
| Timer (`arch/common/timer.c`) | a tree by time and a tree by id of timer entries | add, modify, remove, process, clear, next | no entry lost, leaked or run after removal, also if callbacks change timers; repeated timers keep their pace and phase |
| Zip tree (`deps/ziptree.c`) | a treap with pointers | insert, remove, find, iterate, zip, unzip | behaves as an ordered set, also while callbacks of a traversal relink entries |
| Delayed callbacks (`arch/lwip/eventloop_lwip.c` 85-178) | a linked list with two heads and a tail pointer, without a lock | add, remove, process | first in, first out, each executed once, even if other contexts add |
| Event loop (`arch/lwip/eventloop_lwip.c`) | its state, the registered sockets, the event sources, the self-pipe | start, stop, run, register, deregister, free, cancel | stops when, and only when, all sources have; ends every pass over the sockets; never sleeps on work |
| TCP and UDP managers (`arch/lwip/eventloop_lwip_tcp.c`, `_udp.c`) | state, a tree of connections | open, accept, receive, send, close, start, stop | each connection is announced, ends with one CLOSING callback, and is freed once |
| Key-value restrictions (`arch/common/eventloop_common.c`) | none | validate a parameter map | accepts exactly the maps the restrictions describe |
| OPC UA probe (`opcua_probe/main`) | server task, SD status and row count, command nodes | serve, log to SD, process commands, Ethernet events | the status nodes tell the truth; one server task; resets only on command |
| Modbus TCP probe (`modbus_tcp_probe/main`) | listening socket, one master, registers | accept, answer requests | each request is answered once; no socket leaks; masters served in turn |
| Ethernet status (`ethernet_status/main`) | link flag, address record, HTTP server | event handlers, status page | the page shows the configured address; the link flag settles |
| Ethernet initialisation (`*/components/ethernet_init`) | drivers, instances, bus, interrupt service, flag | init, deinit | a failed or undone initialisation leaves no half interface; a release gives back all that the last initialisation took |

How they interact. In the OPC UA probe one task calls `UA_Server_run_iterate`,
which calls the event loop's `run`. An iteration executes the due timers, then
the delayed callbacks, then sleeps in `select`, looks at the sockets that it has
reported, and finally checks whether a stop is complete. Each of these calls back
into the server (the *application* here), which may call any operation of the
event loop from there: close the connection it was called for or another, open
one, add or remove timers and delayed callbacks, stop the loop. Managers close
connections by adding a delayed callback, or, for UDP errors, at once. The timer
keeps its entries in a zip tree by time. The three programs call
`example_eth_init` when they start; their tasks (main, event, logger or HTTP,
server) share variables without locks.

What makes it hard. The firmware is built with `UA_MULTITHREADING` 0
(`open62541.h:95`): locks are empty and `UA_atomic_xchg` is a load and a store.
Only one task drives the loop, so the interleavings that matter there are
reentrant callbacks, which is what the models contain; the delayed queue and
`cancel` are documented as callable from other contexts and are modelled access
by access with such contexts. `PROJECT.json` lists the hazards line by line.

## Modules

| Module | Models | Abstracts |
|---|---|---|
| `Timer` | `timer.c` | the two trees are sets of entries; batching may choose any candidate in the window |
| `TimerProofs` | theorems about `Timer` | |
| `TimeQueue` | what the timer expects of its tree by time | |
| `ZipTree` | `ziptree.c`, pointer by pointer, under the operations of `timer.c` | intervals and policies: an entry's next time is any |
| `ZipTreeProofs` | `ZipTree` keeps the order of ranks and implements `TimeQueue`, proved | |
| `DelayedFifo` | what delayed callbacks promise: a queue that a callback leaves to be executed or by a removal of just that one | |
| `DelayedQueue` | the two-headed list, each access to shared memory a step | what callbacks do |
| `DelayedQueueProofs` | `DelayedQueue` implements `DelayedFifo`, proved | |
| `ConnectionContract` | what a connection manager promises | |
| `EventLoop` | the loop with the TCP and UDP managers | addresses, payloads, socket options; the delayed queue is a set, and so is the array of sockets |
| `EventLoopProofs` | invariants of `EventLoop`, proved | |
| `EventLoopContractProofs` | `EventLoop` implements `ConnectionContract`; what a stop leaves open, proved | |
| `PollSet` | what a pass over the sockets promises | |
| `PollFds` | the array `el->fds` and the loop over it by index | which manager a socket belongs to |
| `LoopWait` (extends `PollFds`) | the time that `run` sleeps, the self-pipe, `cancel` from another context | connections: a manager is a set of sockets |
| `LoopWaitProofs` | theorems about `PollFds` and `LoopWait` | |
| `OpcuaProbe`, `ModbusProbe`, `StatusPage` | the tasks of the three programs | heap figures, texts, formatting |
| `EthernetInit` | `ethernet_init.c` with a failure of every call | which chip a driver is for |
| `EthernetInitProofs` | theorems about `EthernetInit` | |
| `Firmware` | the board: one of the programs is in its flash, and its tasks are scheduled | |
| `FirmwareProofs` | theorems about the programs and the board | |
| `MC*`, `*.cfg` | instances for TLC | |

**Timer.** `entry` holds the C structure of each id, `tree` the ids in the time
tree, `pending` those in the process tree that `UA_Timer_process` splits off,
`idTree` those in the id tree, `current` the one whose callback runs and `phase`
whether an iteration is under way. `Add`, `Modify`, `Remove`, `Clear` are the API, enabled when
nothing runs or inside of a callback. `StartProcess`, `VisitEntry`,
`CallbackReturns` and `FinishProcess` are the parts of `UA_Timer_process`
between two calls to the application. `Tick` is the clock. `hist` is a history
variable: first scheduled time, base time, number of executions.

**ZipTree.** `link` is where the head of the tree, the head of `processTree` and
the two children of each entry point; `key` is `nextTime`, `rank` the order of
the hashed addresses, chosen once and for all, so every order is checked.
`frames` is the C stack of `__ZIP_ITER`: the entries that it is still to call
back for, each with the right child that it has read before. `Add`, `Delete` and
`Change` are the tree operations of `UA_Timer_add`, `remove` and `modify`, at any
time, so also while a traversal is under way; `Process` splits the tree, `Visit`
is the return of one callback. The operations of `ziptree.c` run to their ends
in one step; each of their loops, and the descent of `__ZIP_ITER` along the left
children, is a function from one round to the next (`MoveRound`, `PlaceRound`,
`ZipRound`, `SearchRound`, `SpineRound`, `DescendRound`, `FindRound`,
`MeetRound`) that `Loop` applies once for each entry there may be. A round after
the end of a loop changes nothing, and every round leaves one entry less to look
at, which the proofs use. The refinement mapping, `ToVisit`, lists what `frames`
still leads to in order. While an entry is in process its time may change
(`timer.c:203`) although it is linked in the process tree: nobody compares it
there.

**DelayedQueue.** `mem` is what each head and each `next` field points to,
`tail` is `delayedTail`. The event loop's task is a thread, `Producers` are
other contexts. `StartAdd`, `SwapTail`, `StoreTail` and `Link` are the accesses
of `addDelayedCallback`; `OpenInactive` to `StoreOldTail` those of
`resetDelayedQueue`; the `Store` actions exist only if the exchange is not
atomic. `build`, which is constant in a behaviour, says whether it is, which
contexts add and whether callbacks are removed, so that one run covers several
programs. The refinement mapping reads the list through the
additions whose second write is outstanding, since the tail decides the order:
`Succ` is where each slot leads with these, `Path` the cells behind a slot, as
many hops along `Succ` as there are cells. `target`, the argument of a removal
that is under way, is the only callback that `DelayedFifo` allows to leave the
queue without being executed.

**EventLoop.** `elState` and `esState` are the states of loop and sources,
`owner` tells which source's tree a file descriptor is in (and it is in
`el->fds` iff it is in one), `closing` which have a delayed callback set,
`queue` and `batch` the delayed callbacks on the list and checked out of it.
`phase` is where `UA_EventLoopLWIP_run` is, `todo` the descriptors that the
loop of `pollFDs` has yet to look at, `ready` the bits in the `fd_set`s.
`stack` holds the calls into the application that have not returned, with what
the caller does afterwards; that is how reentrance is modelled. Numbers of
closed sockets are used again. `asked` and `told` serve properties: for whom
`select` was asked, and what the application was told last. The state of a source
is checked when an open call begins, not again for each address. The public field `es->stop` may be called by the application at
any time; a direct call of `es->start` on a loop that does not run is not
modelled, nor done in this repository: `start` of the loop and `registerEventSource`
start the sources.

**PollFds, LoopWait.** `fds` is the array, `index` the loop variable of
`pollFDs`; a callback may remove its own socket, which moves the last one into
its place, or append. `PollSet` is the same pass over a set, `todo`, as
`EventLoop` has it: the run shows that the one implements the other. `timers`,
`next`, `before`, `patience` and `wakeAt` are the local times of `run`; `pipes`
counts open self-pipes, `bytes` whether there is something to read. The other
context adds a delayed callback (`RemoteAdds`), reads the flag `executing`
(`Cancel`) and writes to the pipe (`TriggerSelfPipe`), and anything may happen
in between.

**OpcuaProbe, ModbusProbe, StatusPage.** Each task has a variable that says
where it is (`main`, `appender`, `handler`, `server`; `task`; `boot`,
`copying`, `page`), and each access to a shared variable is a step of its own.
The failures of sockets, of mounting and appending, of creating a task and of
starting the server are actions. So are those of reading and writing nodes
(`PublishFails`, `NoCommand`, the set `done` of `ProcessCommand`), whose results
the code does not look at: they leave a node as it was. `readable` is whether
`read_int32_node` accepts what the node `reset_command` holds; a client may write
there what it does not. Adding the nodes is taken to succeed: the code logs a
failure and goes on with a node missing for ever. Failures that restart the chip
before anything is shared are left out. In `ModbusProbe` masters send requests
that TCP may split once; `torn` remembers for which master the stream is out of
step, whose bytes may then be read as any request. In `StatusPage` the netif and
the driver are external and post events in order.

**EthernetInit.** `drivers`, `macs`, `phys` are what the array of handles leads
to, `lost` the interfaces with a driver that a failed attempt has left installed
while its handle was freed with the array. `bus`, `service`, `array` are the other resources,
`byEth` is `gpio_isr_svc_init_by_eth`, `at` and `count` where a call is. A program
may initialise and release again and again, after any failure. Whether a second
driver can be installed beside a lost one is up to the external calls: both
outcomes are steps. A release that has returned early may be called again; it then
uses the handle of a driver that is gone, which ends the behaviour in the state
`undefined` (`UseReleased`).

**Firmware.** `image` is the program in the flash; the fourth, `other`, calls
the two functions of `EthernetInit` as it likes. The three programs' own use of
them, once at the start with a restart on failure, is `SetUp`, `InitDrivers` and
`CreateTask` of their modules.

## What is checked

Passing runs.

| Run | Instance | Shows |
|---|---|---|
| `timer_pair` | two timers, intervals 2 and 4 that divide one another, clock up to 5, so that a cycle is missed and batching moves a time; reentrant add, modify and remove | `Partition`: each entry is in exactly one place; `NeverRunsAfterRemove`; `RemovedIsFreed`; `NeverAheadOfInterval`; `NoBurst` |
| `timer_times` | one timer, all policies, intervals 0, 2, 3, base times before and after the clock, clock up to 8 | `WellFormed`, `OnceRunsOnce`, `InPhase`, `DueTimerServed` |
| `zip_tree` | four entries, all orders of ranks, two times | `TimeQueueSpec`: the pointers implement `TimeQueue`; `SoundTrees`: ranks fall along each path, and the searches find what they look for and nothing else |
| `delayed` | three cells; the build as it is with the loop's task and removals; atomic exchange with two producers | `FifoSpec`: every callback is executed once and in order, unless a removal was called with it; `TailIsReachable`, `RegisteredIsServed` |
| `eventloop_reentrance` | both managers, three descriptors, two addresses, an application's delayed callback, calls nested two deep | `ContractSpec`, `CloseIsScheduledOnce`, `StoppedSourceHasNoConnections`, `StoppedLoopHasStoppedSources`; `NoOpenWhileStopping`: what a stop leaves open or lets in are further addresses of a listen call that was under way, and what these accept |
| `eventloop_liveness` | TCP, three descriptors, one address, fair | `StopCompletes`, `CloseCompletes`, `IterationEnds` |
| `loop_wait` | three sockets, one other context, clock up to 1, timeouts 0 and 2 | `PassSpec`: the loop over the array is a pass over the set; `NoLostWakeup`, `SleepIsBounded`, `OneSelfPipe` |
| `firmware` | each program, two clients, two masters, two registers, an internal and two SPI interfaces, fair | `OneServerTask`, `ResetsAreAsked`, `ResetIsAnswered`, `CardIsPublished`; `WithinRegisters`, `NoSocketLeaks`, `OneAnswer`, `ServedInTurn`; `PageShowsAddress`, `LinkSettles`; `NoHalfInterface`, `HandlesAreUsable`, `ReleasedCompletely` |

Runs that show where the code and what is said of it part; `PROJECT.json` quotes
both sides.

| Run | Shows |
|---|---|
| `delayed_isr` | in this build an addition from another context loses callbacks |
| `eventloop_addrs` | a stop in the callback for the first of two listen addresses never completes |
| `eventloop_udp` | the number of a UDP socket that was closed at once is used again in the same pass of `pollFDs`, and the new connection gets the event of the closed one |
| `zip_window` | the search for a timer to batch with turns away from the window: an entry inside it is found only if no ancestor is outside |

### Other divergences

These were seen while modelling; the models contain the behaviour, but no run is
kept for them.

* `timer.c:271` "at least the interval between executions" is not kept for a
  timer of the policy CurrentTime that is late by less than an interval.
* `timer.c:197` a timer that its own callback modifies to the policy Once is not
  re-added but freed.
* `open62541.h:41818` a first execution can come before a base time in the
  future.
* `eventloop_lwip.c:286` "Not closed until all delayed callbacks are processed":
  a stop from a delayed callback looks at the two heads, not at the callbacks
  already checked out, and sets STOPPED before they have run.
* `eventloop_lwip.c:369` "ready in time for the next cyclic callback": a timer
  that a delayed callback adds is not known to the `select` of the same
  iteration.
* `eventloop_lwip.c:290` the self-pipe is closed in the middle of an iteration
  when a stop completes in a callback; `select` then fails, and the iteration
  ends (`SelectFails`).
* `open62541.h:41770` "returns immediately after processing the first (batch of)
  event(s)": a UDP socket that a callback opens may get the number, and with it
  the select bit, of one closed in the same pass, so an application that opens
  one in each CLOSING callback can keep a pass going (`eventloop_udp` has the
  beginning of such a pass). `IterationEnds` is checked for TCP only.
* `README.md:351` "-3  SD append open/write failed": the results of `fprintf` and
  `fclose` (`opcua_probe_main.c:232, 236`) are not looked at, so a row that was not
  written is reported with status 1 and counted.
* `opcua_probe_main.c:295` when `reset_command` cannot be written, the command is
  carried out again and `last_command_status` counts it twice, against "Increments
  when reset_command is accepted" (line 157). `ResetsAreAsked` and `ResetIsAnswered`
  hold with this: the command is in its node until it is taken back.
* `opcua_probe_main.c:286` a client may write `reset_command` with a bad status, or
  as an array, which `read_int32_node` refuses: all commands are ignored until
  another write. `ResetIsAnswered` makes this exception.
* `ethernet_init.c:48, 329` "indicates that we initialized the GPIO ISR service",
  "We installed the GPIO ISR service so let's uninstall it too": the flag is never
  reset, so after one release a later one uninstalls a service that another
  component has installed in between. `ReleasedCompletely` says nothing of the
  service of others.
* `ethernet_init.c:303` a failed initialisation frees the array and leaves the
  drivers in it installed, out of anybody's reach. After one of an SPI interface
  the bus stays initialised, and no later attempt succeeds (`LostForGood`).
* A removal of a delayed callback moves what other contexts add meanwhile to the
  front; the run `delayed` has removals in the build without other contexts.
* A manager that is stopped in the CLOSING callback of its last connection is
  STOPPED while that socket is still open (`eventloop_lwip_tcp.c:1084`).
* `eventloop_lwip.c:209` `start` returns without releasing the mutex when
  `netifInit` fails (the lock is empty here), and lines 250-257 leak the two
  sockets of a self-pipe whose connect fails.
* `modbus_tcp_probe_main.c:151` the bytes of one `recv` are taken for a request:
  a request that TCP splits is ignored or refused, and what follows may be read
  as a request that nobody has sent.
* `opcua_probe_main.c:308, 379` a server task that has failed is not started by
  a later address. `modbus_tcp_probe_main.c:218` the result of `xTaskCreate` is
  not looked at, so the board may run without a server.

### Bounds

* `MaxId`, `MaxTime`, `Intervals`, `BaseTimes`, `DeviateMax` of Timer. Ids are
  never used again in the code, so `MaxId` bounds the additions. With two one
  runs while the other waits in the process tree or is added; the theorems hold
  for any number. The clock ends
  at `MaxTime`; it exceeds the first interval plus another one, so that a cycle
  can be missed.
* `Elems`, `Times` of ZipTree. Four entries give every case of insertion, split
  and merge (an element that stays and one that moves on each side), and three
  outstanding calls of `__ZIP_ITER`. With two times some keys are equal and a
  split has two sides. Entries are used again, so behaviours are not bounded in
  length. The theorems hold for any finite set of entries, at any addresses but
  0, and any times, and so for trees of any depth.
* `Cells`, `Producers` of DelayedQueue. Three cells allow one to be executed, one
  to be in the old list and one in the new. Cells are used again, so behaviours
  are not bounded in length. Two producers can be caught between the two writes
  of an addition at once.
* `Fds`, `Cells`, `MaxAddrs`, `MaxDepth` of EventLoop. Descriptors are used
  again. Two are enough for one callback to close or replace another
  connection, three add an open socket that is not registered. A nesting of two
  lets a callback make a call that calls back; a deeper call finds the same
  state, except for more of the frames below it.
* `Fds`, `MaxTime`, `Timeout` of LoopWait. With three sockets one can be removed
  from the front, the middle and the end of the array. The clock may move
  or stand between any two steps, and the timeout reaches beyond its end, so
  that a timer comes before or after it.
* `MaxRows`, `MaxResets` of OpcuaProbe. Neither stops anything: the logger goes on
  for ever and `MaxRows` rows stand for as many or more, and `last_command_status`
  is counted modulo `MaxResets`. Two clients let one command again, or withdraw the
  command of the other, before and after it is taken back.
* `Masters`, `RegCount`, `RegValues`, `Requests`, `Splits`, `Backlog` of
  ModbusProbe. Two registers (16 in the code) have a first, a last and one
  beyond; `SomeRequests` has one right and one wrong request for each function and an
  unknown one. The first part of a split request is shorter than the 8 bytes
  that are answered (4) or not (8). A connection is split once. With a backlog
  of one (two in the code) a second master waits, and the theorems hold for any.
* `MaxEvents` of StatusPage: link and address events that wait for the event
  task.
* `Internal`, `SpiModules` of EthernetInit: 1 and 2, so that interfaces come
  before and after the bus and one of two on the bus may fail (the firmware has
  0 and 1, which the theorems include). Lost drivers are counted by interface, so
  any number of failures is covered.

Deadlock is not checked where the system may stop: a clock at its bound, an
event loop that is stopped or freed, a server task that has ended, masters that
have left. In `delayed` it is checked.

### Fairness

* `Timer`: weak fairness of `Process`, for the task iterates the loop and
  callbacks return. Nothing is assumed of the application or the clock.
* `DelayedQueue`: weak fairness of the loop's steps and of each context that has
  begun an addition, for an interrupt or task that was begun is scheduled again;
  strong fairness of `Process` and `Return`, for the loop is iterated and
  callbacks return even if the application adds and removes callbacks for ever
  in between, which disables the two while it does.
* `EventLoop`: weak fairness of an iteration's steps (`opcua_server_task` iterates
  while it runs) and of `Return`. No fairness is assumed of the application, the
  network, or of which descriptor is looked at.
* `LoopWait`: none; its properties are safety.
* `Firmware`: weak fairness of each task's loop, since every one of them blocks
  or delays and FreeRTOS schedules the rest. Strong fairness of the writes of
  `sd_status` and `sd_append_count` and of a command that is taken back: reading
  and writing a node takes a few bytes of memory, which are not missing every time
  for ever. None of the masters, which may stay connected and silent for ever:
  `recv` has no timeout, so such a master keeps the others waiting, and
  `ServedInTurn` says that this is the only way in which one is not served. Cables,
  addresses, clients and failures are not fair.

## What is proved

TLAPS checks these for every value of the constants that satisfies the named
assumptions.

* `TimerProofs`: `TypeCorrect` (`WellFormed`), `PartitionHolds`,
  `RemovedNeverRuns`, `ExecutionsArePaced` (`NeverAheadOfInterval`), `OnceIsOnce`
  (`OnceRunsOnce`), `NoBurstHolds`, `StaysInPhase` (`InPhase`). The type invariant is inductive only with the
  fact that a repeated timer's interval is positive, which is why `WellFormed`
  joins the two: `CalculateNextTime` divides by the interval. `Partition` is
  inductive given the types. The pace rests on a lemma that a processed entry's
  next time grows by an interval at least, whichever of the cases of a missed
  cycle applies, and that batching moves it by a quarter at most before the
  first execution is counted. The phase is kept as a witness (`PInv`): an entry's
  next time is `k` intervals from its base time for some integer `k`, also while
  it runs and while it is prepared for being re-added, and `calculateNextTime`
  moves it by whole intervals. That the remainder of C is then 0 needs that no
  multiple of the interval but 0 lies between the two signs of the remainder.
* `EventLoopProofs`: `TypeCorrect`, `ClosedOnce`, `SourceStopsLast`,
  `LoopStopsLast`, from one inductive invariant, `IInv`. None of the four
  invariants is inductive by itself: that a source has no connections when it is
  stopped needs that a listening call that continues finds its first socket
  registered (`ListenCallIsRegistered`), so that its source is not stopped; that
  a connection is closed once needs that the CLOSING callback is at the bottom
  of the stack (`ClosingCallIsBottom`), and that the batch is used up before the
  sockets are looked at (`IterationInv`).
* `EventLoopContractProofs`: `ImplementsContract`, the refinement of the
  contract, where `RInv` relates what the application was told to what the loop
  knows (`ToldInv`), and the frame of a callback to what it told
  (`CloseFrameInv`). `OpensOnlyWhenStarted` (`NoOpenWhileStopping`), for any
  number of addresses: from `IInv`, a connection that is registered in a source that
  is not started belongs to a listen call that is under way, or is accepted by a
  socket that the stop has not closed, and a stop closes all that it finds.
* `DelayedQueueProofs`: `DelayedImplementsFifo` (`FifoSpec`), `TailReachable`
  (`TailIsReachable`), `RemovalRemoves` and `ListsAreWellFormed`, for any number of cells and
  contexts. The invariant, `Inv`, says that there are three sequences of cells
  that share none: the rest of the list that `processDelayed` has checked out,
  the list behind the ready head, and the rest of the list of a removal.
  Each is a chain of `Succ` that ends in NULL (`ChainInv`); the tail is the end of the
  second, or, in the middle of a switch of the heads, of the list just checked
  out, while the second is empty (`TailInv`); `last` is the end of a list
  (`LastInv`), so that a null pointer before it means a link to be written; an
  addition under way has a cell of its own and an old tail of its own
  (`AdderInv`); and which head is the sentinel follows from the step
  (`HeadInv`). Without naming the lists no invariant is
  inductive, since each pointer write is right only for where the others lead. Lemmas
  about chains say what a write does to `Path`: appending a cell extends the path
  that ends in its tail, and a write to a cell outside of a path leaves it as it is.
  Each action is then shown to change the three sequences as a step or a stutter
  of `DelayedFifo` does (`StepIsSimulated`). Steps of the
  queue that take a callback out otherwise than by execution need that it is the argument of
  the removal that is under way. Hypothesis of the four theorems:
  the builds are in `SerialBuilds`, where the loop's task is alone, or
  exchanges are atomic and nothing is removed. The other builds lose a callback
  (`delayed_isr`) or reorder some (see the divergence about removals).
  Both builds of the run `delayed` are in the set, and so is the firmware's own
  use of the queue.
* `ZipTreeProofs`: `TreesKeepShape`, `TreesAreSound` (`SoundTrees`) and
  `TreesAreQueue` (`TimeQueueSpec`), for any number of entries, any times and any
  order of ranks. A zip tree is determined by its entries, their keys and their
  ranks: the child on one side of `x` is the highest of the entries that come on
  this side of `x` and below it. `Treap` says that of every entry of a set, without
  following a path, so what holds of a tree is a statement about sets: its root
  and the trees of the two halves make it up (`Unfold`, `Fold`). Each loop then
  keeps a relation between the sets that are left to it and what it has done:
  `MoveOver` cuts a tree at a key (`MoveOverCuts`), `Zip` merges two trees that
  are on the two sides of each other (`ZipMerges`), the ways down to a place end
  at a subtree that may be exchanged for another one (`At`, `Fits`), from which
  insertion, removal and split follow (`InsertPuts`, `RemoveTakes`,
  `UnzipSplits`). That a loop has ended after as many rounds as there are entries
  is part of each, since every round has fewer entries before it.
  The invariant of the steps, `Shape`, has three witnesses: the entries in the
  tree, the entries still to be visited, and the times that the latter had when
  `UA_Timer_process` split them off. The third is needed because `UA_Timer_modify`
  changes the time of an entry that is in process, so that no order by the present
  times holds of the frames. `Pending` says of the frames that each one's right
  child is the tree of the entries between its element and the next frame's.
  Every operation changes pointers of the entries in the tree alone
  (`TraversalKept`), which are none of those to be visited: so a traversal
  survives its callbacks. `ToVisitOrder` and `OneOrder` (a set has one order) map
  the frames to the sequence of `TimeQueue`, and each step to one of its steps.
* `LoopWaitProofs`, first part: `PassImplementsPollSet` (`PassSpec`). The
  invariant is that no socket is in the array twice (`NoTwice`), that the index
  is within it (`IndexInv`), and that a socket about to be removed by its delayed
  callback is in the array until then, and outside of a pass is when it is removed
  (`PassInv`). What `PollSet` has still to look at is the part of the array from the
  index on; the lemmas about `PollFds` say slot by slot what the move of
  the last socket into a gap does to that part.
* `LoopWaitProofs`, second part: `TypeCorrect`, `NoWakeupIsLost`, `SleepBounded`,
  `PipeOpenWhileRunning`. `NoLostWakeup` is inductive with three facts:
  `executing` is set from the reading of the clock to the end of `run`
  (`PhaseInv`), so that `cancel` does write; `run` sleeps only until its
  clock if the list is not empty (`SleepInv`); and the pipe is open
  (`OneSelfPipe`), so that what `cancel` writes is seen.
* `EthernetInitProofs`: `EthTypeCorrect`, `NoHalfInterfaceEver`,
  `HandlesUsable`, `ReleaseIsComplete`, from one inductive invariant over the
  resources. It says, for each place in the two functions, which instances
  belong to drivers (`InstancesOfDrivers`), which interfaces a call has finished
  (`Progress`), who holds the array, the bus and the service (`Held`), that a
  service of Ethernet's is known to be its own (`OwnServiceIsKnown`), without
  which a release after a failed attempt would leave it behind, and that after the
  loss of an SPI driver no call succeeds any more (`LostForGood`), without which
  its device would keep the bus of a later release.
* `FirmwareProofs`: `OneServerTaskEver` (by `StartInv`: the flag is set, or the
  handler is at it, once a task was created), `ResetsAskedEver` (`CommandInv`: a
  command in the node is one of a client and has not been taken back), `NoSocketLeaksEver`
  (`SocketInv`), `WithinRegistersEver` and `OneAnswerEver` (`WireInv`,
  `WholeInv`, `FlagInv`: for a master whose stream is in step the wire
  holds whole requests only, one at most, and none besides an answer),
  `PageShowsAddressEver` (`PageInv`, `AnnouncedInv`: once the HTTP server runs,
  every address that is stored, announced or being copied is the configured
  one), `EachProgram` (a step of the board is a step or a stutter of each
  program) and `BoardIsSafe`, which joins them.
* Assumed of the constants: delayed callbacks are finitely many, and they, the
  heads, NULL and the sentinel differ (`DelayedQueueAssumption`); intervals and base times are integers, for the code
  rejects an interval that is not positive, and bounds are natural numbers
  (`TimerAssumption`); there are finitely many entries, addresses are positive,
  times are integers, and NULL and the missing time differ from all of these
  (`ZipTreeAssumption`); file descriptors, delayed callbacks, sources and `None`
  are different things (`EventLoopAssumption`, `PollAssumption`,
  `WaitAssumption`); there is a register, requests for writing carry values of
  registers, and a split request has a first part (`ModbusAssumption`);
  `EthernetAssumption` has the numbers of interfaces that the code supports.

Only model-checked: everything under fairness (`DueTimerServed`,
`RemovedIsFreed`, `RegisteredIsServed`, `StopCompletes`, `CloseCompletes`,
`IterationEnds`, `ResetIsAnswered`, `CardIsPublished`, `ServedInTurn`,
`LinkSettles`), which is beyond TLAPS. Every other property of a passing run is a
theorem.

The library's induction theorems cannot be used here. Where `DelayedQueueProofs`
needs an induction, over the hops of a path, and `ZipTreeProofs`, over the rounds
of a loop, it takes the least element of a set of natural numbers (`SmallestIn`,
`SetInduction`). For the same reason the loops of `ZipTree` are recursive
functions of the number of rounds, over a finite set of entries.

## What is not modelled

* `open62541.c`, the OPC UA server, is not in the repository; it is the
  application of these models. `open62541.h`, 50,000 of the repository's lines,
  is its generated public header: declarations without behaviour, except for
  `UA_atomic_xchg`, which is modelled.
* `arch/common/eventloop_mqtt.c` and most of `deps/` (parsers and formatters) are
  not compiled: the `CMakeLists.txt` of the component does not list them.
* `arch/common/eventloop_common.c` is one loop over two constant tables, without
  state; that it refuses parameters is among the failures that stutter.
* `open62541_esp_time.c` reads two clocks; the clock is `Tick`.
* Parameters, addresses, buffers, logging, name resolution. Failures that
  return before any state has changed are stuttering steps.
* A process that runs out of memory while it starts, before its tasks share
  anything, restarts (`ESP_ERROR_CHECK`).

## State

Every component that keeps state has its module, and every safety property of a
passing run is a theorem. The hazards of `PROJECT.json` without a property are
those whose bad outcome the code has: `checkClosed`, the lost row and the interrupt
service of another component, all described above.
What could be added:

1. `Timer` has its two trees as sets. That it is right to have the tree by time so
   is what `TreesAreQueue` says; one could compose the two modules, with
   `TimeQueue` between them.
2. The properties under fairness stay with TLC.
