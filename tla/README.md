# A TLA+ model of the SACK core library

SACK (System Abstraction Component Kit) is a C library under a family of
programs: memory, threads, locks, timers, containers, networking, message
services, and on top of them images, displays, controls and a shell. This
directory models the part the rest stands on: the locks, the timer thread, the
pools and queues, the message queue, and the TCP clients of the network core.
Paths below are relative to `src/sack/`; the modelled code is in
`src/timerlib/timers.c`, `src/memlib/sharemem.c`, `src/typelib/sets.c`,
`src/typelib/typecode.c`, `src/typelib/msgqueue.c`, `src/netlib/network.c` and
`src/netlib/tcpnetwork.c`.

Contents: [Inventory](#inventory) ·
[Modules and code](#modules-and-code) ·
[Runs](#runs) · [Fairness](#fairness) · [Proofs](#proofs) ·
[Known divergences](#known-divergences) · [Not modelled](#not-modelled) ·
[Plan](#plan) · [Working with the project](#working-with-the-project)

## Inventory

Components in the order in which they stand on each other. The complete list,
with a status for each, is `components` in PROJECT.json.

| Component | State | Operations | What must hold |
|---|---|---|---|
| Critical sections (`memlib/sharemem.c`, `timerlib/timers.c`) | spin word `dwUpdating`, owner, count with a flag bit, one waiting thread ID; further waiters in the callers' `prior` variables | enter (blocking, retried, polled), leave (with or without a wake-up) | one owner; as many leaves as entries free it; no sleeper is forgotten |
| Wakeable sleep (`timerlib/timers.c`) | a System V semaphore per thread | sleep with or without a time-out, wake (post and signal) | a wake-up before the sleep is not lost |
| Thread registry (`timerlib/timers.c`) | list of thread records | create, find, end, recycle | creator and created agree; a record is not reused while referenced |
| Timer thread (`timerlib/timers.c`) | list of timers, two hand-over slots, dispatched timer and ID, flag word | add, remove, reschedule, change; the loop of the thread | a timer is in one hand; it fires until removed, then never again; calls return |
| Timer list (`timerlib/timers.c`) | relative delays, `g.last_tick` | insert, remove, dispatch, sleep | the chain is a queue of deadlines; no oversleeping beyond the length of the pass; no catching up |
| Idle (`idlelib/idle.c`) | list of callbacks | add, remove, run | entries may go while the list is walked |
| Generic sets (`typelib/sets.c`) | chain of blocks, a bit per unit, a counter per block, a bias per block | take, give back, by index | no unit in two hands; an index leads back to its unit |
| Data queues (`typelib/typecode.c`) | a ring with two cursors that is replaced when full | enqueue, prequeue, dequeue, unqueue, peek, empty | a sequence; cursors stay inside |
| Link queues, lists, stacks (`typelib/typecode.c`) | the same with pointers | the same | the same |
| Heap (`memlib/sharemem.c`) | spaces cut into blocks, a free chain | allocate, hold, release, resize | blocks tile the space, free neighbours merge |
| Message queue (`typelib/msgqueue.c`) | a ring of messages of different lengths in shared memory, a ring of waiting threads, one section | enqueue, dequeue by message ID, wait, wake | each message is taken once, oldest first; a waiter with a message for it is woken |
| TCP write path (`netlib/tcpnetwork.c`) | pending buffers of a client, `CF_WRITEPENDING`, `bWriteComplete` | write (short or long buffer), send on from select and from a timer, `WriteComplete` | the bytes of the accepted writes, in order; what is left is watched and sent |
| Network clients (`netlib/network.c`, `netlib/tcpnetwork.c`) | client records on three lists, flags, sockets, `g.csNetwork` and a `csLock` per client | open (blocking or not), accept, select and its events, `PendingTimer`, close, terminate | a record is on one list and owns its socket; the close is told once; nobody waits in a circle |
| Message service (`msgsvr/client`, `msgsvr/server`) | clients, services, pending transactions | connect, transact, probe, time out | one answer per transaction; dead clients are dropped |
| Registries, configuration, files, system, SQL, logs, streams, display, controls, shell | see PROJECT.json | | |

How they interact. Everything that locks uses a critical section; a critical
section sleeps in a wakeable sleep and wakes through the thread registry. The
timer thread is an ordinary thread that sleeps in a wakeable sleep; it keeps its
list under the section `csGrab` and serialises hand-overs with
`cs_timer_change`, and it takes its timers from a generic set. Callbacks run in
the timer thread and call the same interface as other threads. Idle, when it is
called in the timer thread, runs `ProcessTimers` inside a callback. A message
queue is one section over shared memory, and its readers sleep in a wakeable
sleep. The network has a thread of its own around select, and a timer,
`PendingTimer`, that looks at every client; both call the application, which
opens, writes and closes in these callbacks.

What is hard here: the hand-written lock with its chain of waiters; hand-over
between threads without a lock (`away_in_timer` and `insert_while_away` are
tested twice, but never locked, and share a word); callbacks that re-enter the component
that called them, in the timers, in the write path and in the network; relative
delays, where a local mistake moves every later deadline; rings that wrap,
join headers and are replaced while in use; the two orders in which the network
takes its two kinds of section, kept apart only by the state of a client.
PROJECT.json lists each as a hazard at its line, with the properties that would
notice it going wrong.

## Modules and code

| Module | Models | Role |
|---|---|---|
| RecursiveLock | what enter and leave promise | abstract specification |
| CriticalSection | `EnterCriticalSecNoWaitEx`, `EnterCriticalSecEx`, `LeaveCriticalSecEx`, the semaphore sleep | implements RecursiveLock |
| TimerThread | the timer calls and `ProcessTimers`, with every hand-over | detailed, no time |
| DeadlineQueue | what the list promises | abstract specification |
| TimerList | `DoInsertTimer`, `DoRemoveTimer`, `GrabTimer`, the dispatch loop, with the time | implements DeadlineQueue |
| GenericSet | `GetFromSet`, `DeleteFromSet`, `DeleteSet`, access by index | component |
| DoubleEndedQueue | what a data queue promises | abstract specification |
| DataQueue | the data queue calls and the growth of the ring | implements DoubleEndedQueue |
| Mailbox | what a message queue promises | abstract specification |
| MessageQueue | `EnqueMsg`, `DequeMsg`, `ScanForWaiting`, `CollapseWaiting` | implements Mailbox, but for two named losses |
| ByteStream | what the writes to a socket promise | abstract specification |
| TcpWrite | `doTCPWriteExx`, `TCPWriteEx`, `PendWrite`, the write and connect events | implements ByteStream |
| NetworkClients | `GetFreeNetworkClient`, `OpenTCPClient`, `AcceptClient`, the select loop, `PendingTimer`, `InternalRemoveClient`, `TerminateClosedClient` | component |
| CriticalSection_proofs, TimerThread_proofs, TimerList_proofs, GenericSet_proofs, DataQueue_proofs, MessageQueue_proofs, TcpWrite_proofs, NetworkClients_proofs | | theorems and their proofs |
| MCCriticalSection, MCTimerThread, MCTimerList, MCGenericSet, MCDataQueue, MCMessageQueue, MCTcpWrite, MCNetworkClients | | instances for TLC: symmetry sets, constants that are functions, model values |

Names follow the source: a variable has the field's name (`dwThreadWaiting` is
`waiting`, `g.add_timer` is `add`, `nUsed`, `bottom`, `top`, `expandBy`), an
action the function's name or, where a function has several steps, the name of
what that step does. `map` in PROJECT.json gives the lines of every definition.

**CriticalSection.** A thread runs one call at a time, and one step is what it
does between two accesses other threads can see. The top bit of `dwLocks`
(`SECTION_LOGGED_WAIT`) is the variable `logged`. The spin on `dwUpdating` is a
disabled step: `LockFields` is enabled only when the exchange would find 0.
Callers are of three kinds: "block" is `EnterCriticalSecEx`, which sleeps;
"retry" calls `EnterCriticalSecNoWait` with a `prior` in a loop, as the network
code does; "poll" calls it with a NULL `prior`, as `GrabMem` does. `held` is a
history variable; nothing in the code depends on it.

**TimerThread.** A timer is one call of `AddTimer`: its ID and its record. The
list is the set `linked`, without order or delays: `Dispatch(u)` may take any
listed timer, so that the model contains every timing. What the timer thread
does under `csGrab` between two accesses to unlocked state (the slots, the
flag word, `g.current_timer`) is one step. What the code does before it has
`csGrab` is a step of its own: the search of `ChangeTimerEx`, and the head of the
list that `RescheduleTimer` reads (1735), so that a timer can be found, removed
and freed, and then put back (`revived`). The bit fields share one word that no
lock protects: an assignment to one of them is a load and a store of the word
(`LoadFlags`, `StoreFlag`), which is what the compiler makes of it. Nested
dispatch, which happens when a callback calls Idle, is the stack `frames`; an
outer callback that removes the timer that was dispatched last, not its own, goes
through the hand-over like any other. Which calls a program makes from its
threads and from its callbacks is one of the constant `Uses`, chosen at the
start (`use`): a run covers several programs, and a theorem all of them.
`RemoveAgain` bounds who may remove a timer that somebody has removed already.
The histories `asked` and `missed` say who called `RemoveTimer` for what, and
which removals were carried out while the timer was in no list.

**TimerList.** Here the time runs and calls are one step. A client adds,
removes or reschedules; the thread may come late by any amount. The refinement
mapping `Queue` turns the chain of delays into absolute deadlines: the timer at
the place `i` is due at `last + SumTo(list, delta, i)`. `tick` is the time a pass has read,
`bed` the later one at which the thread goes to sleep for what it computed from `tick`.

**GenericSet.** A unit is a block and an offset in it. `chain` is the order of
the next pointers: `GetFromSet` puts a new block at the head, the access by
index (`GetUsedSetMember`, `GetSetMember`) appends one at the tail, and a block
is numbered from the last one in either case. The search for a free bit, 32 at
a time, is "the first free offset". `held` is the history of the units callers
hold: a call by index adds or takes the unit the caller means, whichever bit the
code touches. Where the two differ (MarksPastFirst, DeletesOutOfOrder) the set
has lost count and the model stops.

**DataQueue.** The ring is the function `data` on `0 .. cnt - 1`. The refinement
mapping reads the items from `bottom` to `top` with wrap-around. A call holds
the queue's spin lock throughout and is one step. `CreateDataQueue` grows by
`DefaultExpand`, one made with a size by one of `LargeExpands`, 0 among them,
which is what the macro `CreateLargeDataQueue` passes. `Positions` are the places a
caller peeks at.

**MessageQueue.** Positions and lengths are counted in words of four bytes;
`mem` has the header of a message at the word where it starts, and a walk
follows the headers from `Bottom` to `Top` as the loop of `DequeMsg` does. A
call holds the section until it sleeps or returns and is one step, or two with
a sleep. `Scan` is that loop, with its joining of read messages; `Collapse` is
`CollapseWaiting`, which moves the waiters together from the newest to the
oldest. Where the code itself leaves the ring or the section, the model stops:
`~Intact`, a thread that is "stuck", and `section`, a thread that returned with
the section entered. `KeepsMessages` says that the ring is the Mailbox except in
the two kinds of step `Overruns` and `JoinsReturn`, which name what the code
does wrong.

**TcpWrite.** One client. `TCPWriteEx` calls `WriteComplete`, which may write
again, which may call `TCPWriteEx`: `stack` holds the calls that are under way.
A pending buffer is what was written (`msg`), whose bytes it points to (`from`),
and whether it is a copy; `accepted` and `wire` are histories, and the variables
of ByteStream. A caller uses the buffer of a short write again once the write
has returned: what is sent from it then is `Garbage`. The network thread puts the
client's socket into the sets of select once per pass (`BuildSets`, `watching`) and
handles it when select returns (`Select`, then `WriteEvent`): a write that sets
`CF_WRITEPENDING` does not wake it (`tcpnetwork.c:1026`) and is seen by its next
pass, at the latest after the time-out of select. The model follows the code
up to the first buffer that is exposed or holds another's data (`Spoiled`);
`CopiedInTime` says which two steps lead there.

**NetworkClients.** `stack[t]` holds the calls of a thread (the network thread's
loop and the timer's are their first frame), so that a callback that closes a
client and opens another is a few frames on it. `dwFlags |=
CF_WANTS_GLOBAL_LOCK` of `InternalRemoveClient`, the one change of flags that is made
without the client's section (2820), is a load and a store (`RemoveLoads`,
`RemoveStores`); the others are one step, and so is each move between lists.
`TerminateClosedClient` is also called by `PendingTimer` two seconds after a client
was closed; `TwoSeconds` is the assumption that in two seconds the thread that
closed it, and the network thread with what select had reported, get on. A
blocking open waits until it is connected or gives up (`WaitDone`, `WaitFailed`): the
end of the wait by `g.dwConnectTimeout` is among them with each outcome of
the test that follows. What a program does (listen, block in `OpenTCPClient`, what
its callbacks do, how many clients and descriptors there are) is one of the constant
`Uses`. No application thread calls `RemoveClient`; callbacks do.

## Runs

| Run | Instance | Shows |
|---|---|---|
| cs_all | two threads, nesting to 2, blocking, retrying and polling, leaves of sections not owned, interrupted sleeps | Exclusion, FieldsLocked, NoLostWakeup; the section implements RecursiveLock; once nobody polls, somebody who tries gets in (SomebodyEnters) |
| cs_lost_wakeup | three threads that block | *violation*: a waiter is dropped from the chain and sleeps for ever |
| timers_live | two clients, two periodic timers; a program in which one client adds and removes and another adds, and one whose callbacks remove their own and other timers | while the flags are right and no callback is stuck in its own removal (Smooth): timers fire until removed (KeepsFiring), removed ones stop for good (RemovedStops), calls return (CallsReturn) |
| timers_maintain | two clients, a periodic timer and a one-shot, callbacks that nest once through Idle; three programs that reschedule, change and remove timers, the same one twice | a timer is in one hand through grabbing, relinking, nesting and freeing (OnePlace); a removal is kept unless it is carried out while the timer is in no list (RemovalKept); the flags only go wrong by two writes of the word that run into each other, or two clients that insert at once (FlagsOwned) |
| timers_selfremoval | three timers, one client | *violation*: a callback that removes its own timer and a client that waits for the slot wait for each other |
| list_queue | a periodic timer and a one-shot, time to 4 | the delays are a queue of deadlines (ImplementsQueue); the thread oversleeps the first one by no more than its pass took (OversleepBound); a pass ends; missed runs are skipped |
| sets_pool | three blocks of two units | the bits are the units callers hold (UnitsKept) and an index finds its unit (IndexKept), each but for the named steps that divergence 12 is about; counters count (CountsAgree); no block is added while there is room (GrowsWhenFull) |
| queue_ring | two items, rings of 2 and 3 slots that grow to at most 5, by two slots, one, or not at all | but for a put into a full ring that does not expand (Overfills), cursors stay inside (StaysInBounds) and the ring is a double-ended queue (ImplementsQueue) |
| message_queue | a ring of 16 words, two readers and a poster, messages of 3 and 4 words with three IDs (with two, no read is behind another ID on both sides of what it joins) | but for the two named losses the ring is a mailbox (KeepsMessages); Top leaves room for a header (TopLeavesRoom); a drained ring takes any message (DrainedTakesAny); no reader sleeps unwoken with a message for it in the ring (NobodyOverlooked) |
| tcp_stream | three short writes and a long one, from the application and from callbacks, a socket that takes two bytes, one error of send, the passes of select | nothing is lost or overtaken; the write path implements ByteStream; what is pending is watched; a short write is copied in time but in two named cases; in the end all is sent |
| net_clients | two clients, two descriptors, one opener; a program that blocks in `OpenTCPClient`, a server that connects again when a client is closed, and a program with a single client whose callbacks close it and open the next | a client is on one list, which its flag names (OnItsList), and owns its socket (SocketsOwned); only the holder of its section closes it (HolderCloses); the application is told once (ToldInTime); an open never waits for a thread that waits for it (OpenWaitsSafely); as long as no section is contended, what is due is done (DoneInTheEnd) and opens return (CallsReturn) |
| net_removers | the same, a server that also blocks in `OpenTCPClient` | *violation*: two threads remove one client, and the later one keeps the `csLock` of a client that is free |

Bounds, and why they are enough.

- *Threads.* Two threads show every pairwise race of the section; the third is
  needed for the waiter field, where one waiter replaces another while a
  different one is being woken: `cs_lost_wakeup` has three. That Exclusion,
  FieldsLocked and the implementation hold for any number of threads, and also
  for `LeaveCriticalSecNoWakeEx` (`LeaveKinds` with "nowake"), is proved and has
  no run.
- *Timers.* Two timers make the slots contended and make one pass find another
  timer than the one being handed over; in `timers_maintain` one of them is a one-shot, which is
  freed while it is looked up. Each timer is added once: a second
  life of a record is a new timer in the model. `MaxNest = 2` is a callback within a
  callback. Several threads remove the same timer in `timers_maintain`
  (`RemoveAgain`), one in the others.
- *Time.* `MaxTime = 4` with a period of 1 and delays of 0 and 1 lets a timer be
  late by more than its period, be equal to another and be first or last, and lets a pass
  last while time goes on before the thread lies down.
- *Sets.* Three blocks give full, partial and new ones at either end, and the third is
  where the three ways of numbering blocks come apart.
- *Queues.* The first ring has 2 or 3 slots so that the ring wraps at every
  offset before its first growth, and there are two growths in reach.
- *Message ring.* 16 words are the smallest ring that takes messages longer than
  their header of 3 (a message is at most a quarter of the ring); messages of 3 and 4 words
  meet the end of the ring exactly, too near it, and with room. Three slots for
  two waiting threads let `CollapseWaiting` wrap.
- *Writes.* `Room = 2` cuts a message of three bytes in two; four messages allow
  a write, one in its `WriteComplete`, one in that one's, and one after.
- *Network.* Two clients let one be reused while another thread still has the
  first in hand; with a single client the next open meets the one that is being
  closed. The programs that open one client at a time have one descriptor, so
  that a number is used again at once; the server has two. `opens` is at most 2 and
  `errors` at most 1.

Restrictions on callers, and why. `Reschedulable` (TimerList): "last" is what
`ImplementsQueue` needs; with "any" it fails (divergence 3). `Blocks` (MessageQueue): no
two threads wait for the same ID other than 0 (divergence 17); the theorem about it names
this as `OwnIds`. `TwoSeconds` (NetworkClients): in two seconds a closing thread gets
on. No application thread calls `RemoveClient` (NetworkClients). GenericSet: callers give back
what they hold.
`CHECK_DEADLOCK FALSE` is set where the system may really stop: the timers run
out, the time ends, memory for blocks is used up.

Every property is paired with a mutant of a mapped definition, a plausible bug
in those lines, that makes TLC find it violated (`mutants` in PROJECT.json).
The mutated forms stand before the definition they replace, marked "Mutant".
The modules without a type invariant among their run's properties either have it
proved (DataQueue, GenericSet, TimerThread, TcpWrite) or apply their functions
and records only inside their domains, which TLC reports otherwise (TimerList,
MessageQueue, NetworkClients).

## Fairness

*CriticalSection*: `WF_vars(Continue(t))` for each thread. A thread inside a call
is eventually scheduled if it can go on. Nothing makes a thread start a call or
leave a section it holds. There is no fairness between threads that compete:
the code has no queue that would give it, and `SomebodyEnters` accordingly says
that *somebody* gets in, and only once nobody polls (divergence 13).

*TimerThread*: `WF_vars(TimerStep)` and `WF_vars(ClientStep(c))`, again threads in
calls. Strong fairness of `CallbackReturn` at each nesting depth: callbacks return,
including those that call the timer functions or Idle repeatedly. `SF_vars(Steady /\
Dispatch(u))` and `SF_vars(Steady /\ NoneDue)`: a listed timer becomes due again and
again, since time passes, and `ProcessTimers` compares with a time it read once, so
that its loop ends. TimerList shows this as `PassEnds` and `ImplementsQueue`. Both hold of
programs in which nobody reschedules (`Steady`); a callback that reschedules its timer with
delay 0 keeps the pass going (divergence 9), and nothing is assumed of it. The
properties are premised on `Smooth`: a steady program, flags that stay right
(divergence 6 garbles them), and no callback stuck in removing its own timer
(divergence 2). The run counts as checked only what is left after these, which
is every behaviour in which the two flags are not stored over each other.

*TimerList*, *GenericSet*, *DataQueue*, *MessageQueue*: none; only safety is claimed. A reader that
has been woken enters its section with the blocking call, which with two readers and a
poster may lose it for good (divergence 1), so that no promise about its return is made.

*TcpWrite*: weak fairness of the calls under way, of the passes of the network thread
(`BuildSets`, `Select`, which has a time-out) and its write event, of `PendingTimer` (periodic) and of
the peer, which reads; strong fairness of the connect event, which competes with
the timer for `csLock`.

*NetworkClients*: `SF_stack(Step(t))`, each thread goes on; strong, since a thread
that waits for a section must get it between the others. The subscript is the
stack, so that trying again is no progress, and nobody tries again for ever:
`<>[][no RemoveRetries]_stack`. The section does not promise this in general: with three threads it may
forget a waiter (divergence 1), and `PendingTimer`, which polls `csLock` with a
NULL `prior` (`network.c:509`), may replace one (divergence 13). `DoneInTheEnd` and `CallsReturn`
are therefore about behaviours with `[]~Contended`: never are more than two threads at
`csNetwork`, and the timer never polls a `csLock` that an opener waits for.
Among two threads that pass a `prior` or block, `NobodySleepsOn` says that nobody is
forgotten. `SF_old(\E c : TwoSeconds(c))`: time passes.

## Proofs

TLAPS proves the following for every value of the constants that satisfies the
named assumptions.

**CriticalSection_proofs.** `TypeCorrect`, `MutualExclusion`, `FieldLock`,
`Implementation`, for any set of threads, any depth and any mix of callers. The
inductive invariant is TypeOK together with FieldsLocked, Exclusion and
RegionInv. Exclusion is not inductive alone: that a `Claim` finds the section
free or its own is known only from what the thread saw some steps before, in
the same region. RegionInv records exactly this for each place in the region
(at "claim" the owner is the thread or nobody; at "release" the thread is the owner with
count 0), and FieldsLocked carries it across the steps of other threads, since
nobody else is in a region. The implementation maps the holder to the owner
while the count is positive, so that the moment between the last count and
`dwThreadID = 0` is already "free"; every step is then an Enter, a Leave or a stutter.

`NobodySleepsOn` (NoLostWakeup), for two threads (`TwoThreads`) that do not leave with the
NoWake variant (`LeavesWake`), any depth, any mix of ways to enter, stray leaves and
interrupted sleeps; with three threads cs_lost_wakeup is a counterexample, and a
NoWake leave wakes nobody. NoLostWakeup speaks of states in which
everything has stopped. The strengthening WakeInv says what holds on the way there: a
thread that has decided to sleep (at "check" or "sleep") has its semaphore posted, is the
one another thread is about to post, or is the waiter of a section somebody else owns. For this
to be kept, nobody may replace it as waiter: with two threads no `prior` ever holds an
ID, and an owner is never its own waiter.

**TimerThread_proofs.** For any clients, timers, programs and depth of nesting, without
further assumptions:

- `Invariant` and `OneHand` (OnePlace). The inductive invariant is TypeOK, Nesting
  (where the timer thread is agrees with its frames, and no timer has two of
  them), Hands and Calls. Hands says of each added timer that it is Held by one of
  a client, the add slot, the list, the pool and the frames, and Exclusive says pair by
  pair that no two have it, and when a freed timer still has a "me". This is what makes the
  double check of `away_in_timer` harmless: whoever puts the timer into the list has it in hand
  at that moment, whatever he has read of the flags. A timer that a lookup without
  `csGrab` puts back after it was freed is in two places; these are in `revived`
  (divergence 7), and OnePlace is about all others.
- `FlagsHaveOwners` (FlagsOwned). Whatever else runs between the steps of `InsertTimer` and of
  the dispatch, `insert_while_away` is not left set without a client that will clear it,
  nor cleared under one that is about to insert, nor `away_in_timer` left set, but by
  two kinds of step: a store of a word that has changed since it was loaded, and a second
  client that inserts at the same time (divergence 6).
- `RemovalNotForgotten` (RemovalKept). Of every removal somebody asked for: the timer is
  freed, or the request is in the removal slot or with its thread, or the removal was
  carried out while the timer was in no list. The strengthening RInv adds that what is in the one
  slot, or with a thread on its way to it, was asked for.

**TimerList_proofs.** For any timers, delays, frequencies and any end of time:

- `KeepsDeadlines` (ImplementsQueue). The deadline of a listed timer is a sum over the
  timers before it, so an insertion or a removal changes the meaning of every delay
  behind it. `SumTo` is a recursive function; the sums it has are shown to exist and
  to be equal for lists that agree so far by induction over the places, and from that a
  lemma for each of DoInsertTimer, DoRemoveTimer and the dispatch says which
  place changed and that the sums of all others stayed (InsertedAt, DeletedAt, LastDropped).
- `OversleepBounded` (OversleepBound). The sleep is computed from the time of the pass and
  slept from a later one; it ends after the first deadline by at most the difference.
  The inductive part, SleepInv, says that the time
  the thread has computed for its sleep is the head's delay, or that it is going to
  be woken; the insertion of a new head is the only step that could break it, and wakes it.
- `EveryPassEnds` (PassEnds). RunsInv: a timer that ran once in this pass has no
  deadline before the pass, one that ran twice has a later one. It follows from what
  a step does to the deadlines: none gets a new one (Kept) or one timer does (Placed).
- `NeverCatchesUp` (NoCatchUp), from the assignment of the next deadline when a
  timer is overdue by more than its frequency.

The first three assume `Reschedulable # "any"`; with "any" each is false, by divergence 3.
NeverCatchesUp holds of all programs.

**GenericSet_proofs.** For any finite set of blocks and any block size, without further
assumptions: `Pool` (TypeOK and UnitsKept: the bits are the units callers hold, but by the two
steps named MarksPastFirst and DeletesOutOfOrder), `Counters` (CountsAgree), `Growth`
(GrowsWhenFull) and `IndexBack` (IndexKept). The invariant says that the
counters agree and the bits are the held units as long as neither of the two steps was
taken, and that blocks not in the chain have no bits. Growth needs a counting argument: a
block that is passed over because `nUsed` is Max has all bits set, as its used
offsets are a subset of Max offsets with the same cardinality. IndexBack: while blocks have
different numbers they are 0, Max, 2 Max and so on in some order (Numbered), so that
the search for a number finds the block that has it; a number is given a second time only by a
block that is linked when the last of the chain does not have the highest number (LinksOutOfOrder),
which takes a third block (divergence 12).

**DataQueue_proofs.** For any sizes and expansions, 0 included: `Bounds` (TypeOK and StaysInBounds),
`Holding` (HoldsItems: a slot between the
cursors has an item), `Growth` (GrowsWhenFull), `Implementation` (ImplementsQueue). The only steps
excepted are those named Overfills, a put into a full ring that does not
expand (divergence 4), after which the model stops. HoldsItems and GrowsWhenFull are proved and
have no run of their own. The invariant is TypeOK and HoldsItems, and InBounds for as long as the model goes on. The proof of the implementation has
a lemma per kind of step, each computing the sequence read off the ring before
and after, with the wrapped and the unwrapped case apart; growth is shown to
leave the sequence as it is.

**MessageQueue_proofs.** For every size of ring and header (a ring of four headers at
least), any messages, threads and number of slots:

- `TopRoom` (TopLeavesRoom): after any post, Top is so far from the end of the ring that
  one more header fits. The lemma `StoredInside` shows besides that a message of at most a
  quarter of the ring is stored inside it. `EmptyTakesAny`: a ring whose cursors
  meet has room for every such message wherever they are.
- `DrainedTakes` (DrainedTakesAny). What has to be shown is that a ring without
  unread messages is empty, Bottom = Top, although reads by ID pass messages in the
  middle. The proof goes over walks: `IsWalk` says what the recursive function
  returns, by induction over its number of steps, and walks in memories that agree where
  they go are the same. The loop of DequeMsg is a sequence of turns
  with the invariant `ScanAt`: it is at a place of the walk, only headers of
  messages that have been read have grown, and Bottom goes with the loop or is at an unread
  message. The inductive invariant is RingInv: Top leaves room, only headers a walk meets are
  remembered (Clean), and Bottom is at an unread message, at Top, or at the header
  left behind by a message that went to the start of an empty ring, which nobody has
  passed yet (Ready).
- `SleepersKnow` (NobodyOverlooked), under `OwnIds`: no two threads sleep for the same ID
  other than 0, which ScanForWaiting's comment calls "bad form" and divergence 17 shows to
  be needed. The invariant adds that a thread that sleeps unwoken has its entry in the
  queue of waiters (Registered). The loop of CollapseWaiting has its own invariant,
  `CollapseAt`: after k turns, g of the entries looked at have gone, the hole is g places
  behind the entry that comes next, and every entry that stays has a copy behind the hole.
- `MailKept` (KeepsMessages), for all posts and reads, by ID and of any: every step is a step of
  Mailbox or one of the two losses. The inductive invariant KeepInv adds to RingInv that
  an intact ring goes up (Upward): counted from Bottom along the ring (`Off`), every
  header leads further, and not beyond Top. RingInv alone says where Bottom is, but allows a header
  in the middle to lead back, so that a read could free messages it did not pass. From
  Upward the walk from Bottom arrives at Top (`Through`, `Rounds`) and meets every unread
  message once, in the order of their distances. A list of the unread messages by
  distance is unique (`OneList`), so it is enough to say which place is new or gone: a post that does not
  overrun adds one behind all others (`PostMail`: after Top, at the start of the ring, or
  as an exact fit to its end), and a read takes away one (`ReadMail`). That it is the oldest
  the read asks for, that no other is forgotten, and that the ring still goes up,
  is an invariant of the loop of DequeMsg (`Sound`, `ScanSound`): headers grow over read
  messages only, lead to where the loop is, and lead up, as long as none grows over
  a header that returns to the start (JoinsReturn).

**TcpWrite_proofs.** For any messages, lengths, room and depth of callbacks:

- `TypeCorrect` and `WatchedWhenIdle` (PendingWatched). The inductive invariant is
  TypeOK, Calls (the call of `AcceptClient` is only at the bottom of the stack) and
  Watched: PendingWatched also holds while `AcceptClient`'s `WriteComplete` is the only call,
  since that one returns without sending. Every other call that returns to an idle
  client with data pending comes out of `TCPWriteEx`, which sets `CF_WRITEPENDING`.
- `StreamConserved` (NothingLost): the wire, then what is pending, is what was accepted.
  The pending bytes are a concatenation over the list of buffers, a recursive
  function; how it changes when a buffer is appended, shortened at its head or
  dropped is shown once, by induction over the buffers.
- `WritesAStream` (ImplementsStream), from NothingLost: each step appends bytes of the
  accepted stream to the wire, accepts a message, or closes.
- `CopiedBeforeReuse` (CopiedInTime): a step by which the caller of a short write gets a
  buffer back that still has data pending is one of the two named ones.

**NetworkClients_proofs.** For any finite set of clients, any threads and sockets, and any program
whose opens do not block: each theorem is `Spec /\ use.open = "async" => ...`. In these programs
whoever removes a client has its `csLock`, so that the unlocked store of flags (2820) meets no
other change of them; the move of an available client (2803) only occurs in the run's other program. In one that blocks in
`OpenTCPClient` the open removes its client without `csLock` when it gives up; there OpenWaitsSafely is
false (net_removers), and the other properties are model-checked, with the load and
the store apart.

- `Lists` (OnItsList): a client is once on the
  list its flag names and on no other. The inductive invariant IInv adds that every client
  there is is on some list (Listed), from which follows that `pc->next` of
  `PendingTimer` never leaves the records, that a call at a place where it uses its
  client has one (Frames), and that nobody is at the places where flags are stored
  without the section. The moves between lists are one step each in the model: they are all made
  with csNetwork in these programs.
- `SocketsHeld` (SocketsOwned), `ToldOnce` (ToldInTime), `OpensSafely` (OpenWaitsSafely) and
  `HoldersClose` (HolderCloses). One invariant carries them all, SInv: IInv, CallsInv
  and DataInv. CallsInv says which calls can be on a thread's stack and in which order
  (Proper); that a section's count is the number of calls of its owner that are inside it
  (Locked), by counting over the stack; that who removes a client has its section (RemoverOwns,
  Possessed); and that every call that relies on its client to be
  active finds it so, and no other thread is opening it (FitsNow, Clear). DataInv relates
  sockets, descriptors and flags (Sockets), and the close callback to the closing flag
  (Told). `TwoSeconds` is used as it stands in the model: the theorems are about systems in
  which two seconds are enough for a thread that closed a client to get on, and in which no
  application thread calls `RemoveClient`.

Induction is over sets of numbers: the library's induction theorems take an
operator, which the provers cannot instantiate, so that the proofs show once, from the
well-foundedness of `<`, that a set with 0 and with n + 1 for each of its n has all
numbers (`NatSetInduction`), and put into the set the numbers for which the lemma holds.

Every invariant and action property of the passing runs is proved, NetworkClients' for
programs that do not block. Only model-checked:
everything that rests on fairness (SomebodyEnters, KeepsFiring, RemovedStops,
CallsReturn, EverythingSent, DoneInTheEnd), which is out of the prover's
reach, as ENABLED is, and the properties of NetworkClients in programs that block in `OpenTCPClient`.

## Known divergences

Where the code does not do what its comments say. Three are shown by a violation
run; the others were met while modelling and are the reason for a restriction, a
named exception or an assumption above.

Sections and timers:

1. *Lost waiter* (run cs_lost_wakeup, `sharemem.c:743`).
2. *Self-removal and a waiting client wait for each other* (run
   timers_selfremoval, `timers.c:1645`), against `include/timers.h:140`.
3. *Rescheduling shifts other deadlines* (`timers.c:1331`): `GrabTimer` does not
   pass the delay of the timer it takes out on to the next, `DoRemoveTimer` does
   (1232). ImplementsQueue fails with `Reschedulable = "any"`.
4. *A large queue does not grow*: `CreateLargeDataQueue` passes expand 0
   (`include/typelib.h:383`), and `EnqueData` goes on after an
   `ExpandDataQueueEx` that made no room (`typecode.c:951`), so that a put into a
   full one moves a cursor out of the ring, or overtakes the other. StaysInBounds and
   ImplementsQueue name this step `Overfills`.
5. *Early removal is lost*: the delete slot is served by searching the list, so
   a removal that overtakes its add finds nothing and is dropped
   (`timers.c:1394`); while the list is empty the thread does not look at the slot
   at all (1364); a removal from a nested callback is dropped the same way
   (1399), as is that of a timer that is grabbed at the moment. RemovalKept names these
   as `missed`.
6. *Flag word*: `away_in_timer` and `insert_while_away` share a word that two
   threads write without a lock (1249, 1450), so that one write restores an old value
   of the other's flag; and two clients that insert share one flag, which the first to
   finish clears (1258). The timer thread may then wait for ever for an insertion that is over
   (1451), or sleep on a list that is filled behind its back. FlagsOwned names the two steps;
   `OneHand` shows that OnePlace survives them.
7. *Using a freed timer*: `RescheduleTimerEx` marks `g.current_timer`, which
   the timer thread may free at that moment (1724); `RescheduleTimer` reads the head of the list
   before it has `csGrab` (1735), and `ChangeTimerEx` searches it without (1755). Both may take
   a timer that is removed before they go on, and whose "me" still points into the
   list, and put it back: OnePlace excepts these as `revived`.
8. *Not early, not late*: delays are inserted relative to `g.last_tick` and compared with
   the time of the pass (1166), so a timer may run early by the difference. The sleep is
   computed from the time of the pass (1519) but begins when the pass is over
   (1533), so that the thread sleeps beyond the first deadline by the time the callbacks took
   (OversleepBound). A start delay of 2^31 ms or more becomes negative (1592).
9. *Spinning*: a callback that reschedules its timer with delay 0 keeps the pass
   from ending (1471).
10. *First calls*: `timerID++` and the test for the timer thread are under no lock
    (1595): two first callers may get the same ID, or two timer threads.
11. *OpenSpaceExx* tests the result of `EnterCriticalSecNoWait` for 0 only
    (`sharemem.c:1261`); -1, busy, counts as entered.
12. *Sets*: `DeleteSetMember` counts blocks from the head of the chain
    (`sets.c:359`), `GetSetMember` marks the bit in the first block (239), and
    `ForEachSetMember` advances the total by the current offset (540): three ways of
    counting that agree with the numbering of blocks only in a set of one block.
    A new block is numbered after the last one of the chain but inserted at its
    head (111), so the third one gets the number of the second; the log at 555
    promises "the actual index of the member in order". IndexKept and UnitsKept name the
    steps (LinksOutOfOrder, MarksPastFirst, DeletesOutOfOrder); after the last two a
    unit that somebody holds may be handed out again. No set is locked
    (138), though several threads use some of them.
13. *Pollers*: a caller without `prior` overwrites the recorded waiter, and two of
    them can keep each other out for ever (`sharemem.c:711`). `csLock` of a client is entered in all
    three ways: blocking (`network.c:2127`), retried (1657) and polled (509).
14. *Queue locks*: the lock word of a queue is in the memory that a growth
    releases (`typecode.c:939`), and two threads that find a link queue NULL both
    create it (698).

Message queue (`typelib/msgqueue.c`):

15. *Overruns* (519): a message that ends with the ring is stored without asking
    where Bottom is, and one that goes to the start only asks whether it reaches
    Bottom from there; when the ring has wrapped already it overwrites unread messages.
16. *Joined headers* (848): a read message is added to the one before it by its
    length. If the second returned to the start, the sum leads past it; and the
    same header is added again by every later read. Walks then leave the ring.
17. *Waiters of one ID*: a reader that wakes removes all waiters of its ID (777), and a
    second one sleeps on without being registered.
18. *Inside the section*: a message too big for the buffer returns without leaving
    the section (932); a full ring of waiters is tried again without leaving it
    (751), so that nobody can make room.
19. *MSGQUE_NOWAIT* is not looked at when there is no room (574), though
    `include/typelib.h:411` says "if enque, fail send".

TCP (`netlib/tcpnetwork.c`):

20. *CopiesOver* (1216): after `TCPWrite` a short write that has data left copies
    its own bytes into `FirstWritePending`, which by then may hold the write of the
    `WriteComplete` it caused.
21. *Errors of send* other than EPIPE return FALSE with the data pending and not
    copied (1056).
22. *Connecting*: `CONNECTED` is set before the result of the connect is known
    (`network.c:1746`, 1779), and a blocking open believes it; its time-out is
    `g.dwConnectTimeout` in the loop (486) and 10000 after it (516); after an
    error the bit is cleared in the wrong set and the count is not
    (`network.c:1780`). So an open may return a client that is not connected, or remove one
    that is.
23. *TCPDrainRead* leaves `csLock` on its error paths, which it has not entered
    itself (1260).

Network clients (`netlib/network.c`):

24. *Two removers* (run net_removers, 2824, against the comment at 2123).
25. *NetworkLockEx* clears all flags but the one it means to clear: `dwFlags &=
    CF_WANTS_GLOBAL_LOCK` lacks a `~` (2709).
26. *A client without a socket stays active*: when `socket` or `accept` fails,
    `InternalRemoveClient` does nothing (2759), and `NetworkQuit` loops on it (1910).
27. *Reuse under a callback's feet*: a read callback that closes its client and
    opens another may get the same record; the rest of the event is then about
    the new one. `RemoveClient` of an available client moves it between lists
    without `csNetwork` (2803), and `TerminateClosedClient` looks before it locks (426). The flag that says
    a client waits for `csNetwork` is set without `csLock` (2820): the store may write back
    `CF_ACTIVE` or another flag that is out of date, which OnItsList excepts for a blocking
    open that gives up.
28. *EBADF* (1608): the client is removed with `csNetwork` held, where
    `InternalRemoveClient` retries until another thread leaves a `csLock` it may
    only leave after `csNetwork`.
29. *ClearClient* (405) saves `csLock`, zeroes it with the record and restores the copy,
    also for a caller that has not entered it; a thread that polls `csLock` meanwhile
    (498) may get in and be forgotten.
30. *No wake-up for a pending write* (`tcpnetwork.c:1026`): the network thread looks at
    `CF_WRITEPENDING` when it builds its sets; what a write leaves pending waits for its next pass,
    or for the timer (`EverythingSent` shows that it is sent).

## Not modelled

Operating-system calls, string processing, decoders, drivers, user interface and
vendored libraries are left out: their behaviour is that of one call or of the
outside world. They are by far the larger part of the repository. The heap's own
allocator is compiled only with `USE_CUSTOM_ALLOCER`, which `sharestruc.h` turns
off. Windows variants of the modelled functions differ in the primitive they
sleep on, and `net_winsock2.c` is another build of the network core; neither is
modelled.

Within the modelled components: the registration of threads (a thread ID is
given), named wake-up events, `GetLinearSetArray` and `FindInArray` (unused), the
read-only iterations over sets, the lock word of the queues while the ring
is replaced, creating and opening the shared space of a message queue,
`MSGQUE_WAIT_ID` (nobody posts it), UDP, listeners being opened and
closed, `RemoveClient` called by an application thread, the copying of `csLock` in
`ClearClient` (divergence 29), the single writes of a move between lists, exceptional data,
`NetworkLock`, growing the array of clients and `NetworkQuit`.

## Plan

Done, in this order: CriticalSection, TimerThread, TimerList, GenericSet,
DataQueue, MessageQueue, TcpWrite, NetworkClients, each with its abstract
specification where it has a useful one; theorems about all of them.

1. **Message service**: transactions with time-outs and probes over lossless
   ordered channels (Mailbox is the abstract channel), clients that die.
2. **Queue lock**: lock word, pointer and released memory of the link and data
   queues on two levels; the race of the first two callers that find the
   pointer NULL, and the exchange on a ring that was replaced. DataQueue is the
   abstract specification.
3. **Idle**: the list of callbacks that change it while it is walked.
4. **Thread registry**: `ThreadTo`, `ThreadWrapper`, `UnmakeThread`; recycling of
   records; composed with the first `AddTimer`, which starts the timer thread.
5. **Heap**: blocks that tile a space, coalescing and bubbling, implementing an
   abstract allocator with holds.

New runs are to replace, or be merged with, existing ones
so that each still asks a question of its own.

## Working with the project

    tlc -workers 4 -config CriticalSection_all.cfg MCCriticalSection
    tlapm CriticalSection_proofs.tla

Each row of the table of runs names its configuration and module in
PROJECT.json. The longest runs are net_clients, about three minutes, and tcp_stream, one and a half; the proofs of MessageQueue and NetworkClients take six minutes or so, those of
TimerList four, the others a minute or two.
