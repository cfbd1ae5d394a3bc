# A TLA+ model of OPL FUTURE

OPL FUTURE is a fork of Open PS2 Loader: a menu program that lists games from
hard disks, USB and other block devices and network shares, and a set of in-game
modules that take the place of the console's disc driver once a game runs. This
directory holds TLA+ modules for the parts of it in which threads, interrupts
and devices meet, TLC configurations that check them on small instances, and
proofs that TLAPS checks. Paths below are relative to the repository, so
`src/ioman.c` is the file that `PROJECT.json` calls `src/src/ioman.c`.

    tlc -workers 2 -config MCIoMan.cfg MCIoMan     # a run: see PROJECT.json for all
    tlapm IoManProofs.tla                          # a proof

## 1. The system

On the EE the program has one GUI thread (`main`, priority 31), one I/O worker
(`ioWorkerThread`, 30) and two music threads (`bgmThread` 0x40, `bgmIoThread`
0x41). The kernel runs the ready thread of the highest priority and never shares
time between threads, so a lower thread advances only while the higher ones
block. The worker blocks on semaphores, in `SleepThread` and inside handlers
that wait for the IOP; the GUI thread blocks at every vertical sync.

On the IOP, during a game, `cdvdman` has a reading thread (priority 0x0f), its
alarms run as interrupts, and the game calls it from its own threads or through
the RPC threads of `cdvdfsv`. In the menu the IOP runs `ds34bt`, whose state is
changed by the completion callbacks of two USB pipes and read and written by an
RPC thread below them.

| Component | State | Operations | What makes it hard | What makes it correct | Module |
|---|---|---|---|---|---|
| I/O manager, `src/ioman.c` | list `gReqList`..`gReqEnd`, two semaphores, handlers, flags | register, put, remove, block, end, count; the worker's loop | two threads on one list; half-built nodes; wake-ups; a flag polled without a lock | nothing lost, half built or reordered; blocking is a barrier; everything accepted is served | `IoMan`, abstractly `IoService` |
| Deferred GUI updates, `src/gui.c`, `src/opl.c` | `gUpdateList`..`gUpdateEnd`, counters, `gSemaId`, the GUI lock, each device's game list | defer, apply, clear, reread a device, render, dialogs, key presses | the worker applies operations too; the tail pointer is reset outside the semaphore; lists are freed while the GUI uses them | operations applied once and in order; a menu shows one reading of its device; updates end | `GuiOps` |
| Device menus, `src/menusys.c` | menus, `selected_item`, `current`, `pagestart`, `submenu` | add, append, sort, clear, the moves of the cursor | pages of two lengths, hidden devices, lists rebuilt under the cursor | the cursor stays on a displayed item | `Submenu`, `MenuNav` |
| `submenuSort` | a doubly linked list | a bubble sort that swaps nodes | relinking of adjacent nodes and of the head | the list stays a list; the order is stable; it ends | `SubmenuSort` |
| Background music, `src/sound.c` | a ring, two counting semaphores, running flags | decode, play, start, stop, switch off | two threads and a caller that stops them; wake-ups | no part lost or overwritten; stop returns; the music goes on | `Bgm` |
| In-game disc driver, `modules/iopcore/cdvdman` | `sync_flag`, event flag, callback, the streaming ring | read, sync, other commands, the calls of `streaming.c`, alarms, the reading thread | reads of the game and of the stream on one drive; interrupts; retries by alarm | the ring holds the stream in order; a stopped stream is quiet; a ready drive is ready; calls return | `Cdvdman`, abstractly `StreamFifo` |
| Game configuration, `src/menusys.c` (`menuSemaId`) | `itemConfig`, `itemConfigId`, `actionStatus` | request, load, save, the moves, screens and menu updates that lead to them | answers for a game that is no longer selected; a list selected without a reset of the id; a flag cleared by an older request | the cached configuration is the selected game's; what is launched, edited and saved is that one; waits end | `MenuConfig` |
| Compatibility update, `src/opl.c`, `src/gui.c` | status, stop flag, sockets, one request per device | start, cancel, one game, connect, retry, reconnect | retries inside loops that a flag ends; a dialog that cancels while the worker runs | sockets closed once; DONE means done; nothing runs on after a cancellation; the dialog ends | `CompatUpdate` |
| Bluetooth pads, `modules/ds34bt/iop` | slots with handle, address, type, channels and status flags | HCI events, L2CAP packets, attach, detach, reset | two unordered pipes, lost links, reused slots, a polling thread that shares flags with callbacks | running slots have links; one slot per link; reset returns | `Ds34bt` |
| Texture cache, `src/texcache.c` | entries, LRU list, request pool | get, load | loads that end after the entry was reused | a free entry is used | `TexCache` |
| Devices, `src/opl.c`, `src/bdmsupport.c`, `src/ethsupport.c` | `list_support` | start, stop, refresh | hot plugging | one menu per present device | planned: `OplDevices` |
| Device back ends, `cdvdman/device-*.c`, `smb.c`, `mcemu` | I/O semaphores, `g_bd` | read, connect, disconnect | disconnects during reads | a read is refused or complete | planned: `DeviceLocks` |

The remaining components (rendering, themes, file parsing, pads, the EE core's
hooks, host tools, vendored code) are listed in `PROJECT.json` with the reason
why they are not modelled. The interactions: the GUI thread hands work to the
worker through `IoMan`; the worker hands results back through `GuiOps`, which
changes the menus of `MenuNav`; sorting in `GuiOps` and `MenuNav` is the order
`InOrder` of `Submenu`, and `SubmenuSort` shows that the pointer code computes
that order. `MenuConfig` and `CompatUpdate` use the worker as `IoMan` shows it to
be: a queue served in order by a thread that outranks the GUI thread and holds
`gProcSemaId` until the queue is empty, with requests of other components between
their own. `Bgm` shares only the GUI thread with the rest, `Cdvdman` runs when
the menu program is gone, `Ds34bt` is on the other processor and meets the program
through RPCs.

## 2. The modules

Operators whose names end in `_Bug` are wrong versions of the definition below
them; each shows that a property can be violated by a plausible mistake and none
is part of a specification. `map` in `PROJECT.json` gives the lines behind every
definition.

**IoMan.** A request is a number in the order of linking; the list is the
sequence of nodes reachable from `gReqList`. `ioPutRequest` is five steps
(`PutWait`, `PutTail`, `PutLink`, `PutFill`, `PutWake`): the node is reachable
before its fields are set, and `rtype` is `Uninit` in between. The worker's loop
is cut where it blocks or touches shared state. Handlers are any code that may
queue further requests. `StrictPriority` chooses between the kernel's scheduler
and any interleaving; `Startups` are the sequences of registrations. `Leaked` is
the state in which a refused registration has kept `gProcSemaId` and nobody will
signal it: `Stopped` lets the program stand still there.

**IoService.** What `ioman.h` promises: a FIFO with cancellation behind a gate.
`IoMan!ImplementsService` maps to it; a request counts as served when its handler
has returned, although its node is still linked then.

**GuiOps.** The two threads, the list of deferred operations, the lock, and the
updaters of `opl.c` that reread a device, clear its menu and defer one append per
game. The worker applies the outstanding operations itself before it clears a
menu (`guiExecDeferredOps`). A device may answer, and the worker take over,
anywhere in the GUI thread's code. A store or load through
NULL either faults (`fault`, which ends the behaviour) or goes on with any
value. `gen` (the reading a game belongs to), `applied`, `lost` and `stray` (a key
press has followed a freed node of a list that was filled again) are history.

**Submenu, MenuNav.** One list of games as a record, the moves as operators on
it, and the frame loop (render, apply, one key) around it; `Displayed` gives the
page lengths for games and for applications, which do not change, as the theme
does not. Any number of games may be marked as the last one played. **SubmenuSort** is the sort on its
`prev` and `next` pointers, one comparison per step, with every initial list.

**MenuConfig.** A configuration is the pair of list and item it was read for, so
that one read for another game can be told from the right one. Frames are cut at
the two `WaitSema` of `menuRenderElements`, at the deferred operations and at the
input; `menuLoadConfig` is one assignment a step, because it takes no lock.
`SignalSema` may hand the semaphore to a GUI thread that already waits. The
worker's queue also holds requests of other components, during which the GUI
thread goes on. At the end of one (`OtherEnd`) a menu update may hide or show the
list of its device, fill empty lists, and empty its own list outside of a frame,
also while the GUI thread waits for a load or a save. The selected list changes
in three ways: `menuMoveH` to the next visible list, which resets `itemConfigId`;
`LeaveMainMenu` (`refreshMenuPosition`), which does not; and `menuSetSelectedItem`,
whose only use is in `deferredInit` and which is part of `Init`. The settings menu gives
way to the game list when the list has become invisible. A fade is the pair of
`screen` and `target`, and changes over in one step. The items of a list are fixed:
a list that is read again may have its cursor elsewhere, but its ids name the same
games. History variables: `disturbed` (the load or save going on was called with a
request outstanding, or a menu update moved the cursor or brought the game list
back during it), `jumped` (`refreshMenuPosition` selected another list under a valid
`itemConfigId`) and `back` (the cursor came back to an item whose configuration
was freed), both until `itemConfigId` is next assigned, `wrong` and `edited`.

**CompatUpdate.** `compatUpdate` is cut at the calls of the HTTP client, the only
places where the worker waits. Results are the integers of the code, because the
connection error is a bit in them. `open` counts the client's sockets, and
`misused` records that one was leaked or closed twice.

**Ds34bt.** A slot is a record, its status a set of flags. Each callback is one
step: callbacks do not interrupt each other. `ds34bt_reset` is cut between the
load and the store of its `status |=`, because callbacks do interrupt it. The
adapter and the pads are external: `hci` holds the events that have not been
reported and the links being opened or closed, `acl` the packets of each link,
`chan` what a pad knows of its channels; they are driven by the actions from
`Page` to `PadLeaves`. `taken` and `torn` are history.

**TexCache.** One cache: its entries, its LRU list as a sequence, the requests on
the worker, and a user who moves between games and rests on one.

**Bgm.** One step is one access to something another thread uses. `clash` marks
a session that is set up or freed under a live thread of the last one; a
behaviour ends there.

**Cdvdman.** The game's calls, the reading thread, two alarms, and the device. A
section with interrupts suspended is one step. The buffers of the game are left
out; a sector of the ring holds a number, `Partial` while the device writes it,
or `Failed`. `nextLsn`, `miscount`, `early`, `others` and `pausedRead` are
history. A behaviour is followed while `Tracking` holds: the driver has not
counted a bank nobody read and has not declared a busy drive ready. Both can
happen; the first is the finding of `cdvdman_count`, the second is described in
section 6. What the properties say of `Cdvdman` is said of the behaviours up to
that point.

**StreamFifo.** What a game relies on when it streams, without threads, alarms,
pointers that wrap or a drive: an unbounded sequence of sectors from the one at
which the stream was started, of which `first .. end - 1` are held, read ahead by
whole banks into at most `Capacity` places; a call gets what it wants or all there
is, and a blocking one goes on until it has everything. A call from the EE keeps
the places of what it transfers until the transfer has ended (`taken`).
`Cdvdman!ImplementsFifo` maps to it: `First`, `End`, `Taken` and `Contents` unwrap
the ring at `StReadPtr`, `want` and `block` are the locals of `sceCdStRead`, and
`broken`, after which nothing is promised, is `~Tracking`. Pausing, resuming,
retries and reads of the game itself do not show in it.

## 3. The runs

| Run | Configuration and bounds | Shows |
|---|---|---|
| `ioman` | three types, four calls of `ioPutRequest` from either thread, three startups (a type registered twice and none among them), the kernel's priorities, fair | nothing lost or half built; no wake-up lost; `ioBlockOps(1)` is a barrier and returns; every accepted request is served or removed; `IoService` is implemented |
| `menu_nav` | two devices with pages of two and three, four nodes, two titles | the cursor is always displayed |
| `submenu_sort` | every list of up to six nodes over four titles | one doubly linked list at every step; the sort ends, and then the order is the stable one |
| `gui_ops` | one device, two updates, lists of no, one and two games (in order, out of order, equal), sorting, devices answer anywhere, fair | order of application, menus never mix two readings and end up complete and sorted, with the cursor on a game unless a freed node was followed; updates end |
| `bgm` | a ring of four, three sessions, three counted wake-ups, fair | parts conserved, pointers in step, neither thread waits for one that cannot go on, stop returns, music goes on |
| `cdvdman` | two banks of two sectors, four calls of any kind, one read by the callback, one device error, fair | ring, pointers, quiet after stop, busy while reading, calls return, refilling goes on; `StreamFifo` is implemented |
| `menu_config` | two lists of two games, a delay of one frame, two queued requests when the user acts, fair | the cached configuration is the selected one's unless `refreshMenuPosition` selected another list under its id; loads return it and saves keep the user's changes unless they were disturbed; waits end; a game the user rests on gets its configuration unless `itemConfigId` named it before |
| `compat` | three devices, one of them not recognized, none to two games, three retries, two updates, fair | sockets, results, cancellation, the dialog ends |
| `ds34bt` | two pads (a DS4 and a DS3 that is not genuine), two slots, two links, two connection requests, one insertion, one fault, fair | running slots have links, one slot per link, slots follow links, `ds34bt_reset` returns |
| `gui_ops_lost`, `cdvdman_count`, `texcache` | violations | see section 5 |

Why these bounds are enough to be interesting: four requests let the list be
empty, of one node and longer while each thread is anywhere in its code, with a
follow-up queued by a handler. Two updates are the least in which an old reading
can be mixed with a new one, two games the least a sort can exchange. Lists of
four with pages of two and three have first, middle and last pages. Six nodes
let the sort exchange nodes at the head, at the end, and adjacent pairs in the
middle. A ring of four parts can be full, empty and wrapped with several parts
held. With two banks of two sectors and requests of one and three, reads cross
the end of the ring and end inside a bank; four calls are enough for init, start,
pause or stop and a read. The `cdvdman` run was also made with five calls
(1.6 million states) and nothing changed. Two lists of two games are enough for a
read that was begun for another game, for the same id in another list, and for a
cursor that comes back. With two games and a failure at any call, the loops of
`compatUpdate` are left and entered again in every mode; three devices let one
request run, one wait and one be unknown, and a second update begin while the
first goes on. Two pads compete for slots, and one fault may be a lost link, a
refused link, a pad that is switched off or a failed transfer, at any step; the
real number of slots is two as well. Deadlock is checked except in the `Cdvdman` runs,
where the game stops calling, and in `ds34bt`, where the bounded pads stop
acting.

Fairness. `IoMan`: the worker, and a call that the GUI thread has begun, go on
when they may run; new calls of the GUI thread are not promised. `GuiOps`: both
threads go on, and a device answers. The GUI thread blocks at every vertical sync
and the worker outranks it, so neither starves. `Bgm`: each thread runs, because
the ones above it sleep or wait; `bgmStop` sleeps in its loops. `Cdvdman`: the
device completes or fails a transfer, alarms fire, a ready thread runs when the
reading thread waits; nothing promises that the game calls. `MenuConfig`: the
worker goes on (devices answer) and the GUI thread goes on when the worker waits;
no key is promised. `CompatUpdate`: the worker goes on, since each call of the
HTTP client returns, and so does a dialog with something to wait for. `Refresh`
has strong fairness, because the cancel button may take the dialog away from it
again and again: a user does not press it in every frame. `Ds34bt`: events that
are due are reported, a link being closed closes, the packets of each link are
delivered and an open interrupt channel keeps sending reports, and the RPC thread
runs between callbacks; no pad is promised to connect. `TexCache`: frames go on
and loads end. Everything but `Refresh` is weak fairness.

## 4. The proofs

`IoManProofs` (for every set of types, startup and number of calls). The
inductive invariant is `IInv`: the types; `Counted` (calls in progress account
for nodes to come, so node numbers stay in range); `MutualExclusion`; `Ordered`
(the list is increasing); `TailOK` (`gReqEnd` is the last node, except while the
worker has popped the last one and not yet reset it; a thread about to link holds
the current tail); `CurOK` (the worker's request is the head until it is popped);
`ServedAreOld`; `Quiet` (a blocked queue is empty once `ioBlockOps` has
returned); `Ending`. None of the checked invariants is inductive alone: that the
tail is right needs to know who is between reading and writing it, and that
nothing is dropped needs that termination comes after blocking. From `IInv`, for
any scheduler: `TypeCorrect`, `Exclusion`, `TailCorrect`, `BlockCorrect`,
`EndCorrect`, `OrderCorrect`, and `WakeupCorrect`: the worker never sleeps on a filled
list, nor through the end flag, without a wakeup pending or on its way. Under the
assumption `StrictPriority` the invariant is strengthened by `Filled`,
`FillExcludesWorker` (while the GUI thread fills a node, whatever the worker waits
for is not available) and `PoppedIsServed`; from it `FillCorrect`, `NoLoss` (with `Conserved`) and `Refinement`, that every step
of the two threads is a step of `IoService` or a stutter.

`BgmProofs` (for a ring of any size, any number of sessions, and without using
the priorities): `IInv` is `FlagsOK` and `Counting`, that is the ranges,
`PartsConserved`, `PartsHeld` (what the decoder holds never reaches beyond the
end of the array) and `InStep` (`PointersInStep` without the remainder). From it
`InStepCorrect` (with the types and `PartsConserved`) and `OverwriteFree`. `NeverStandsStill` is
`NoStandstill`, and does use that 0x40 outranks 0x41. Its invariant `Awake` adds who
owes whom a wake-up: `Heard` (bgmThread looks at the flag only with `outSema` drained,
and sleeps on filled parts only while the decoder is between its signals and its
wakeup), `Told` (a thread ends only after the flag is set, and a sleeping one is told)
and `Supplied` (a bgmThread that ends leaves the decoder a free part). It is what
`StopReturns` and `KeepsPlaying` rest on, without the fairness.

`MenuConfigProofs` (any number of lists and of games in them, any delay and
queue). `CacheBelongsToSelection`, `QuietLoadReturnsSelection` and
`QuietSaveKeepsChanges` are `CachedIsSelected`, `ReturnsSelectedIfQuiet` and
`EditIsSaved`. The cached configuration is right only because the one being read
will be: `Tagged` says so of both, and holds since `menuSemaId` keeps
`itemConfigId` from naming another item during a read and -1 disowns an answer.
It ends with `jumped`: once `refreshMenuPosition` has selected another list under a
valid id nothing is said until the id is assigned again, which disowns or frees
what is cached.
`LoadOK` and `SaveOK` follow a call that is not `disturbed`: which requests can
still be in the queue at each step, so that nobody but the call's own request
clears `actionStatus`, and that the settings menu stays on the screen until a save
has written the changes. `Serving` ties the
worker's place to the head of its queue; `Bounded`, that a queue has room for
what a load will put, is what `TypeOK` needs.

`CompatUpdateProofs` (any finite set of devices, any numbers of games, retries
and updates). `NoSocketLeaks`, `DoneIsComplete` (an action property) and
`NothingLeftAfterAbort` are `SocketsClosed`, `DoneMeansUpdated` and
`AbortStopsAll`. `Sockets` says which parts of `compatUpdate` are reached with an
open connection, in terms of `HttpSocket` and `ConnMode`: the loops for a retry
and for a reconnection enter and leave each other, and each has to hand the
connection on. `Progress` says that a failed game leaves a negative result
behind, whatever the loops do with it, and `Stopping` that the stop flag stands
until no request of the update is left. The set of devices is finite because
`oplUpdateGameCompat` queues one request for each.

`Ds34btProofs` (any pads, slots, links and bounds; handles are numbers, as in
HCI). `RunningSlotsHaveLinks`, `LinksAreNotShared` and `SlotsAndLinksAgree` are
the three invariants of the run. What a slot knows is right only if what the
adapter has yet to report is, so `IInv` speaks of both: `Reports` (a report is
true of the links), `OneLink` (a pad asks again only when the end of its last link
was reported), `HandleLive` (a slot holds a handle until the end of that link is
reported, and none before the link is), `Owner` and `Awaited` (an accepted pad has
a slot until its link is reported, and the link has one from then on). Packets on
the bulk pipe are in the invariant only by their types: the proof is for any order
of the two pipes. `RunningHeld` excludes the lost updates of `ds34bt_reset`
(`torn`), `Owner` and `Awaited` the takeover of a slot in use (`taken`); lost
updates do not disturb the latter.

`CdvdmanProofs` (a ring of any number and size of banks, any starting points,
requests and bounds). `DriveStaysBusy` is `BusyWhileReading`, for any priorities:
`AInv` adds to it that at most one read has been accepted and that
`event_alarm_cb` is pending only for a read that is complete. `PointersStayInStep`
(with the type invariant), `StreamIsInOrder`, `StoppedIsQuiet` and `StreamIsFifo`
assume `ReaderOutranks`, which the thread priorities give; TLC shows that each of the
four fails without it. Their `IInv` holds as long as the driver is on track
(`Tracking`): `Control` says who may start, end and count a read (`Held`: a read of
the stream in flight goes to the free bank at the write pointer, and is waited for
by the stream or by the stop or pause that has given it up; `ReaderAt`, `GameAt`: a
bank that one thread has allocated is nobody else's); `Pointers` relates the two
pointers and `StStreamed`, also across the DMA of `ReadSectorsEE`; `Data` says
what the counted sectors and a bank that was read but not yet counted hold. The
arithmetic of the ring is in lemmas of its own: a free bank is disjoint from the
counted sectors, and the two pieces of a copy together take the first
`Min(n, StStreamed)` of them. `StreamIsFifo` is the refinement `ImplementsFifo`. From
`Pointers` and `Data` the mapping takes a form without remainders (`Mapped`); `Asking`,
the one addition to the invariant, says that the locals of `sceCdStRead` are set
exactly while it runs. Most steps are `Passive`: they change neither the counted
sectors nor the call, and the queue stutters. Of the others the device's are
invisible because a free bank is disjoint from the counted sectors; `StmCallback` is
`ReadAhead`, since the bank it counts fits and holds what follows; a delivery is
`HandOver`, since moving `StReadPtr` and `nextLsn` by the same number leaves every
other sector where it was; and starting, stopping and asking are steps of the queue
of their own.

Two more theorems are the safety part of the liveness that TLC checks. `StreamIsFed`
(with `ReaderOutranks`, for a stream that was not read while it was paused): whenever
a bank is free, a read of the stream is under way, or the alarm, the reading thread
or the game's thread is about to ask for one, and a `sceCdStRead` that waits is waiting
for one of the first three. `Feed` makes it inductive: `StIsReading` is never set
without a read that will clear it (`Awaited`), a thread gives up for want of a bank
only while none is free (`Full`), and a read that waits has taken all there was
(`Asked`), which with `RequestAssumption` leaves a bank free, so that somebody was asked
for it before the wait (`DeliverFeeds`). TLC shows that it fails without
`ReaderOutranks`. `SyncIsAnswered` (any priorities): whoever
waits in `sceCdSync` is owed the event by a read, a signal or an alarm that is
outstanding (`Owed`).

`GuiOpsProofs` (any devices, any lists of games on them, any number of updates; the
priorities are not used). `OpsInOrder` is the action property `AppliedInOrder`,
`MenusHoldOneReading` and `MenusAreComplete` are the two invariants of the run.
`IInv` says of the list of deferred operations that it is increasing and behind
everything applied (`Ordered`), and follows a game from the reading of its device
to the menu: only the worker defers games, all of its last reading, and none is
deferred when it clears the menu (`Sources`, `Current`); as long as nothing was
lost, every linked game of the last list is in its menu or still deferred
(`Complete`);
behind every game that is still deferred a sort is to come, and a menu for which
none is to come is in order (`SortDue`). `Cursor` keeps `current` and `pagestart`
in the list until a key press strays. That the list is complete is not inductive
without the places of the worker between its steps (`Control`, `Places`), since it
applies the operations left over from the last update itself. A lemma shows that
`InOrder` returns a sorted permutation, by counting the nodes before each.
`NeverEmbraced` is about the two semaphores: each is taken exactly while one thread is
in a section it protects (`Accounts`), so a thread that waits never waits for one that
waits, although the GUI thread asks for `gSemaId` with the GUI lock in its hands.

`MenuNavProofs` (any devices, titles, numbers of nodes and page lengths):
`CursorStaysOnScreen` is `CurrentDisplayed`, the types included.
`Sound` is what each menu keeps: no node twice, `submenu` at the head, and the
cursor not more than a page behind the start of its page. Every move is shown to
be a pair of places at that distance. `ListShown` is needed because a key uses
the page length noted while rendering, which must still be the selected menu's.
The second part is about `submenuSort` on lists of any length: `ListStaysLinked` is
`Linked`, and `SortIsStable` is `SortsStably`. The invariant `SortInv` names the order
in which the pointers lead through the nodes (`Chain`); `swap()` exchanges two
neighbours of it, at the head, at the end or in between; equal titles never change
places (`Stable`); a pass without a swap has found everything it passed in order
(`Progress`). What `Walk` computes follows from the chain by the least place where
the two would differ.

The assumptions on constants are the named `ASSUME`s of the modules; TLC
evaluates them in every run. They give sorts, make rings non-empty and the set of
devices finite; `RequestAssumption` limits what a game asks of a stream at once
(section 6).

`Exclusion`, `TailCorrect`, `EndCorrect`, `OrderCorrect`, `OverwriteFree`, `NeverEmbraced`,
`StreamIsFed`, `SyncIsAnswered` and the types of `IoMan` are theorems only: for what
they say the runs check the stronger `NoRequestLost`, `ImplementsService`,
`PointersInStep`, `UpdateEnds`, `KeepsFilling`, `StReadReturns` and `SyncReturns`. Each
inductive invariant was first checked with TLC on the bounds of its run.

Only model-checked: all liveness, since fairness is outside what TLAPS proves here
(`SortEnds`, that `submenuSort` returns, among it), and `TexCache`, whose one property
is liveness and fails. Every invariant and every action property of a passing run is
a theorem.

## 5. Findings

Each is a run that TLC ends with a counterexample.

- `gui_ops_lost`: `guiHandleDeferredOps` resets `gUpdateEnd` after releasing
  `gSemaId`. An operation deferred in between is linked and loses its tail; the
  next one is stored through NULL and lost.
- `cdvdman_count`: `StFillStreamBuffer` sets `StIsReading` before it knows
  whether the drive accepts the read; a read of the game that ends in that window
  is counted as a bank of the stream.
- `texcache`: `cacheGetTexture` loads only into an entry that `lru_evict` hands
  out, and entries join the LRU list only at the end of a load. The list starts
  empty, so although `texcache.h` says of an entry with a negative `lastUsed` that
  it "can be used right now", no load ever starts and no picture is ever shown.

## 6. Observations without a run

What the models also show, where no document of the repository says otherwise:

- `ioRegisterHandler` keeps `gProcSemaId` on its error returns; after a double
  registration the worker never drains the list again (`Leaked`; a startup of the
  `ioman` run reaches it).
- `ioRemoveRequests` needs the semaphore that the worker holds until the list is
  empty, so a request is removed only when it was queued while the worker was
  not draining; `ioman.h` describes it as removing all requests of a type.
- `ioGetPendingRequestCount` reads the head before it takes the semaphore; it
  has no caller. `ioBlockOps(1)` refuses the follow-up requests of operations it
  is flushing. `guiHandleDeferedIO` ignores a refusal, but cannot meet one: the
  thread that calls it is the one that blocks and unblocks.
- Key presses move in the list without the lock under which it is freed: `NavMove`
  follows a freed node when a device answers between `NavRead` and it. If the list
  has been filled again by then, `current` is left outside it (`stray`). That takes
  two devices and three updates: one device is reread after `NavRead`, and its new
  games are applied by the worker when it begins to update the other. The proof
  of `MenusAreComplete` led to it and TLC confirmed it; the run has one device.
- `menuDeleteGame` and `menuRenameGame` look at the current item again after
  their dialog (`menusys.c:133`); a menu update that ran during it has replaced
  the list, so the game that goes is not the one that was confirmed, or `current`
  is NULL. `Ask`, `DialogFrame` and `Confirmed` of `GuiOps` model the window.
- The serial number of a deferred operation is taken outside the semaphore, so
  `guiGetOpCompleted` could answer wrongly; it has no caller, and the counters are
  not modelled.
- In `MenuConfig`, `refreshMenuPosition` (`menusys.c:372`, called at 923) selects
  the first visible list and leaves `itemConfigId` as it is, unlike `menuNextH` and
  `menuPrevH`. With the second list's item 0 cached, START to the main menu and back
  selects the first list; if its cursor is on an item with id 0, the configuration
  of the other list's game is drawn with it and its own is never requested
  (`jumped`). Without the exceptions for `jumped`, TLC reports both `CachedIsSelected`
  and `SelectionIsDrawn` violated; a reset there, as in `menuNextH`, would make them
  hold without it. The next load resets the id, so a launch is not affected.
  Nor does a reread list reset the id: if the ids then name other games, the same
  happens inside one list. This is outside the model, whose items are fixed.
- A load called while an older request is queued or being served may
  return that read's configuration, or none, because the older request clears
  `actionStatus`. A menu update during the wait may move the cursor, and the
  configuration returned is then not that of the item under it. If a device goes
  while its configuration is being saved, `menuRenderGameMenu` brings back the game
  list, and its request may free `itemConfig`, with the user's changes, before
  `_menuSaveConfig` writes it. These are the cases of `disturbed`. A cursor that goes to another item and
  back before the delay leaves the item without its configuration: it was freed,
  and `itemConfigId` still names the item (`back`). If the list becomes empty
  while nothing is cached, `_menuRequestConfig` leaves `actionStatus` set and the
  wait never ends. A list that is refilled during a fade-out lets the settings
  menu save with `itemConfig` NULL. Between the two `WaitSema` of
  `menuRenderElements` the selected item's configuration may be replaced, so a
  frame can draw the older one.
- In `CompatUpdate`, the first device to end sets DONE or an error and the dialog
  leaves, while other devices are still updated; the comment at `gui.c:413` that
  the process "truly ends" when the dialog is told so holds for a single device.
  An update started then resets the stop flag under the older one. Every small
  negative result has the bit `EOPLCONNERR` set in two's complement, so a failed
  write is reported as a connection error (`IsConnErr`); a plain error is
  reported only for a mode `compatUpdate` does not know, among them `BDM_MODE1`
  to `BDM_MODE4`, which `oplUpdateGameCompat` does schedule. After a failed
  reconnection `HttpCloseConnection(-1)` is called. `ioRemoveRequests` waits until
  the worker's queue is empty, so cancelling removes nothing: the stop flag ends
  the requests one by one.
- In `Ds34bt`, the callbacks only `PollSema` the lock, so it does not keep them
  out: `status |=` of `ds34bt_reset` may undo what a callback wrote (`torn`),
  which can leave a slot running without a link, and `ds34bt_reset` waiting for
  it. A connection request may take the slot of a pad that is being set up
  (`taken`), under the comment "find free slot"; the older link may then stay
  without a slot. `SlotFollowsLink` does not depend on `torn`, only on `taken`;
  `RunningHasLink` holds only until `torn`, so the lost update at `ds34bt.c:1543` is
  described here and caught by no property. `DISCONN_COMPLETE` clears the slot
  whatever its status byte says (`ds34bt.c:640`); the model's adapter sends it only
  for links that are gone, so an event that reports a failed disconnection of a
  living link, which would leave that link without a slot, is assumed away. After
  a failed bulk transfer `l2cap_event_cb` works on `ds34pad[-1]`: the disconnections
  it may send are modelled, the write of `pad_status_clear` before the array is
  not. A `DISCONNECT_REQUEST` that `ds34bt_reset` leaves on a slot that
  does not run disconnects the next pad there. `hci_cmd_buf` and `l2cap_cmd_buf`
  are reused while a transfer may be under way.
- Were loads to start in `TexCache`, `lru_add` would follow the unset pointers of a
  new node, `lru_evict` would drop the nodes behind the one it unlinks, a full
  request pool would lose the evicted entry, and a load could end in a cache that
  a theme change has freed; only eight caches ever get a list.
- The decoder of `Bgm` decodes one part however many it signals. Switching the
  music off in the settings ends the threads without `bgmDeinit`, so kernel
  objects and the file stay behind. `bgmStop` trusts flags that the threads clear
  before their last writes, so sessions can overlap (`clash`). `audsrv_quit` may
  be called under live threads when `gEnableBGM` is 0. That `bgmStop` returns
  depends on 0x40 outranking 0x41.
- In `Cdvdman`, `sceCdStandby` and the seek-like commands raise the read-end event
  on a drive that reads, and `cdvdman_SyncRead` clears `sync_flag` although
  `cdvdman_cb_event` has left that to its alarm: a busy drive then looks ready.
  `sceCdStStop` cancels the alarm before it removes the callback. A failed device
  read is counted as a bank and its error may be reset before the game asks. A
  blocking read of more than the ring less a bank plus one sector may wait for
  ever (`RequestAssumption`). `sceCdStRead` on a paused stream starts a read that
  nobody counts; `StIsReading` stays set, and after `sceCdStResume` nothing fills
  the ring until the stream is paused or stopped again (`pausedRead`;
  `streaming.c:410`). The reading thread must outrank the threads that
  call the driver (`ReaderOutranks`).

## 7. Not modelled, and why

Everything with status `not_modelled` in `PROJECT.json`: rendering and layout,
text and binary formats read on one thread, machine-code patches and hardware
registers of the EE core, third-party code. Inside modelled components: sound
effects, notifications and settings dialogs, `GUI_OP_CLEAR_SUBMENU` and
`GUI_OP_ADD_HINT` (no caller), `ioPrintf`, the S-commands and the power-off
thread of `cdvdman`, ZSO, and the pacing of reads; in `MenuNav`, a change of the
theme; in `MenuConfig`, `GAME_TEST_CHANGES`, the dialogs between a save and the
reload, renaming and deleting, the menu of applications, and ids that a reread
list gives to other games; in
`CompatUpdate`, time stamps and progress counters; in `Ds34bt`, reports, LEDs,
rumble and link keys. Kernel objects are not counted, and allocation fails only
where `CompatUpdate` lets it.

The modules cover a small share of the repository's lines, and the greater part
of the rest is not for a model checker. It consists of the vendored TCP/IP stack,
ATA, SMB and compression code, of drawing, themes and dialog tables, of parsers
and writers that run on one thread from beginning to end, of instruction
patterns to patch, and of second copies of the drivers for use in a game. The
parts where the order of events matters are the ones listed in section 1; of
these `OplDevices`, `DeviceLocks` and the command automaton of `mcemu` are still
without a module.

## 8. Plan

1. An abstract specification of `GuiOps`, a set of menus that each go from one
   reading of a device to the next, with its refinement proved from the invariant of
   section 4.
2. `DeviceLocks`: the semaphores below `DeviceReadSectors` and the sector cache
   that survives a failed read.
3. `OplDevices`: starting, stopping and hot plugging of devices.
4. The command automaton of `mcemu`.
