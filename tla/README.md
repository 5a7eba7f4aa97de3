# Verification of message_transport

TLA+ models, TLC configurations and TLAPS proofs for `message_transport`, a C++
library that moves messages between processes through shared memory. All paths
are relative to the repository root, here called `src/`.

## 1. The system

| Part | Source | State it keeps | Operations |
|---|---|---|---|
| Block descriptors | `include/.../sharedmem/SharedMemoryBlockDescriptor.h`, `src/sharedmem/SharedMemoryBlockDescriptor.cpp` | topic name, active flag, size, allocated size, resize count; a mutex, two conditions, `num_clients` | `recordSize`, `allocate`, `reset`, `matchName`, `check_clients`, `wait_data_and_register_client`, `unregister_client`, `signal_data` |
| Block manager | `SharedMemoryBlock.{h,cpp}` | 100 descriptors; the global mutex, condition and `num_clients`; in the segment one named byte array per topic | `allocateBlock`, `findHandle`, `reallocateBlock`, `serialize`, `wait_data`, `resetBlock`, `resetAllBlocks` |
| Shared memory publisher | `sharedmem_publisher.{h,cpp}` | its segment, its `shm_handle` (index, pointer, resize count) | `initialise` on the first publish, `publish_msg` |
| Shared memory subscriber | `sharedmem_subscriber.h` | its segment, its `shm_handle`, a receive thread, the address of a callback | `startReceiving`, `receiveThread`, destructor |
| Manager process | `sharedmem_manager.cpp` | owns the segment and its name | creates it and the Manager object in it, and at exit `resetAllBlocks` and removal |
| Publisher front end | `include/.../common/publisher*`, `src/common/publisher.cpp` | shared implementation objects, the plugin of each, `first_run_`, `clientRegistered` | `do_initialise`, `publish`, `shutdown`, copies and destruction |
| Subscriber front end | `include/.../common/subscriber*`, `src/common/subscriber.cpp` | shared implementation objects, plugins, `unsubscribed_`, `is_running` | `do_subscribe`, `shutdown`, copies and destruction |
| Timer, release pool | `common/timer.h`, `sharedmem/release_pool.h` | a running flag, a pending wait, a pool of shared pointers and its mutex | `start`, `stop`, `callback`, `add`, `timerCallback` |
| Serialization, messages | `serialization/*` | stream position and end | `advance`, `next`, `serialize`, `deserialize`, `RawMessage::allocate` |
| Time utilities | `message_transport_util.{h,cpp}` | a Kalman filter, an average deviation, an outlier budget, the statics of `now` | `convertNativeToLocal`, `setFrequency`, `now` |
| Traits, logging, tracing, platform, examples | the rest | none of interest | none |

How they meet: any number of processes map the same segment. A publisher's
first `publish` claims or finds the descriptor of its topic under the *global*
mutex; each `publish` then makes sure, under the *descriptor's* mutex, that the
block is large enough (`reallocateBlock`), lets that mutex go, takes it again in
`serialize`, registers as a client of the global monitor, copies, unregisters
and notifies `datacond`. A subscriber's thread waits on `datacond`, registers
with both monitors, lets go of the mutex, copies the message out and
unregisters. Whoever wants to move or free memory takes the global mutex and
waits until no client is registered. So the two `num_clients` are what keeps a
block in place while it is copied without a lock held, and `resize_count_` is
what tells a process that its cached pointer is out of date.

What is hard: every one of those hand-overs. `check_clients` and
`check_global_clients` wait with an `if`, never a `while`; the descriptor's
mutex is released between the two halves of a publish; `resize_count_` starts
again after a reset; exceptions (`bad_alloc`, `StreamOverrun`) leave in the
middle; a process may be killed anywhere. `PROJECT.json` lists each hazard at
its line with the properties that watch it.

What makes each part correct:

* descriptors and manager: mutual exclusion, exact client counts, no lost
  wakeup, no circle of waits, one block per topic, pointers used only while they are current and
  the memory behind them stays put, messages delivered whole, calls return as long
  as other topics leave them the time;
* front end of subscribing: no callback after the last copy is gone, shutdown
  and destruction terminate, a failed subscription leaves an object that can be
  destroyed;
* front end of publishing: a publisher binds to the segment that has the name then
  and to no other, and its messages go where it is bound; a publish connects where
  it can (it does not, after a first one that failed); no call works on a segment
  that is closed or on a plugin that a copy has shut down;
* timer and pool: one chain of waits per timer, nothing in use is released,
  destructors run on the timer's thread, an object added once and no longer used is
  released in the end (one added twice stays until the pool goes);
* time: outliers are paid for by measurements that fit, steady noise is none until
  somebody calls `setFrequency` again, a lasting change is accepted in the end, ticks are converted with the frequency
  they have;
* serialization: the length announced is the length written, no access past the
  end, reading gives back what was written.

## 2. Modules

| Module | What it is |
|---|---|
| `SharedMemoryBlockDescriptor` | one descriptor as a record, and the methods that change its fields (`recordSize`, `allocate`, `reset`, `matchName`) as operators on it |
| `SharedMemoryBlock` | the core: publishers, subscribers, the manager and releasers of blocks, interleaved at every lock, wait and copy |
| `MCSharedMemoryBlock` | values for its constants, symmetry sets |
| `TopicChannel` | abstract: what publishing and subscribing on a topic promise, without any memory |
| `SharedMemoryChannel`, `MCSharedMemoryChannel` | two history variables on top of the core, and the refinement of `TopicChannel` |
| `Subscriber`, `MCSubscriber` | the front end of subscribing: handles, implementations, plugins, receive threads |
| `Subscription` | abstract: what a subscription promises the owner of a callback |
| `Serialization`, `MCSerialization` | streams, and every specialisation of the serializers, on the bytes of one block |
| `SharedMemorySegment` | the managers' side of a segment: name, creation, Manager object, removal, crash |
| `Publisher`, `MCPublisher` | the front end of publishing with its plugin, over `SharedMemorySegment` |
| `Advertisement` | abstract: what a Publisher promises whoever publishes with it |
| `Timer` | the deadline timer that calls itself again and again, and the service that runs it |
| `ReleasePool`, `MCReleasePool` | the pool on top of `Timer`, with the threads that share its objects |
| `TimestampSync` | outlier detection of the clock synchronisation, and `now()` |
| `SharedMemoryBlockProofs`, `SharedMemoryBlockResizeProofs`, `SharedMemoryChannelProofs`, `SubscriberProofs`, `PublisherProofs`, `SerializationProofs`, `ReleasePoolProofs`, `TimestampSyncProofs` | theorems and their proofs |

### SharedMemoryBlock

State against code: `mutex`, `cond`, `num_clients` are the members of
`SharedMemoryBlock`; `block_mutex`, `lockcond`, `datacond`, `block_clients` and
`descriptors` those of each `SharedMemoryBlockDescriptor`; `segment` is the
name-to-array map of the managed segment and `bytes` what its memory holds;
`handle` is each process's `shm_handle`; `msg` the argument of `publish` or the
message being read. `op[p]` is the method a process executes, `at[p]` the place
in it. A condition variable is the set of processes asleep in it.

One action is one stretch of code between two points where somebody else can
interfere: taking a mutex, a condition wait, beginning a copy, ending it,
releasing a mutex. So `allocateBlock` is `LockGlobal`, perhaps `RelockGlobal`,
one of `AllocateReconnect`, `AllocateClaim`, `AllocateNone`, and
`AllocateConstruct` or `AllocateThrow`; a publish is `ReallocateCheck`,
`ReallocateRefresh`, `ReallocateResize`, the three `Grow...` actions,
`SerializeRegister`, `WriteStart`, `WriteEnd`, `UnregisterGlobalClient` and
`SignalData`; a delivery is `WaitData`, `WaitNotified` or `WaitTimeout`,
`RegisterGlobalClient`, `ReadStart`, `ReadEnd`, the two unregistrations and
`Callback`. `PROJECT.json` maps each to its lines.

A copy begins and ends in different steps. Whoever touches the same memory in
between leaves `Torn` behind, in the block and in what is being read, so mixed
contents are visible however the copies overlap.

Abstractions, and why they lose nothing the properties speak of:

* a message is who published it and its serialized length; a length *inside* it
  matters only where it does not fit, which `MayOverrun` is about. `RawMessage`
  carries no length (its data ends where `size_` says), `LengthsInMessage`
  switches between the two kinds;
* names are model values; an address is an element of a small set which the
  segment may reuse as soon as it is free;
* `resetAllBlocks` takes the global mutex and *not* the descriptors'; its single
  wait does not make sure that no client is registered. So each block is destroyed
  (`ResetDestroy`) and its descriptor reset (`ResetDescriptor`) in steps of their
  own, and so are the two halves of `resetBlock` (`ClearDestroy`, `ResetBlockClear`);
* `find_or_construct` always constructs: every call is behind a `destroy` of the
  same name under the global mutex, or claims a name no descriptor has;
* nobody in the repository catches `StreamOverrun`: it ends the process, or the
  receive thread, with its registrations in place (`"overrun"`);
* a restarted process is another element of its set: nothing of the dead one is
  found again. `Die` leaves mutexes locked and counts raised, as Boost's
  interprocess primitives do; a process killed asleep in a condition is simply gone
  from it, which an implementation of conditions need not guarantee;
* reads of single fields without a lock (`is_valid`, the resize count in
  `deserialize`) are atomic.

### TopicChannel

A topic holds at most one message, a subscriber takes it at most once, and
publishing overwrites it. `SharedMemoryChannel` adds `last` (what was last
copied into a topic's block while it is there) and `unread`. The refinement
holds with one publisher and one subscriber on each topic, and messages that carry
their lengths or all have one size. A reading that ends elsewhere than its message
(`AtItsLength`) counts as torn: `RawMessage` takes its length from `size_`, so with
several sizes it may be cut short, or end with the rest of an older one. Growing a block
between notification and reading is `Discard`: the subscriber is handed a
zeroed message, which the mapping takes for `NoMessage`. With two subscribers or
two publishers on one topic the single wait of `check_clients` lets a writer run
into a reader, so neither the refinement nor `DeliveredIntact` holds there;
what survives is in the run `crowd`.

### Subscriber

`impl_` maps each `Subscriber` object to the implementation it shares;
`alive`, `subscriber_`, `unsubscribed_`, `is_running` are the implementations
that exist, have a plugin, were shut down, are to go on receiving; `thread` is
where each receive thread is. Users and receive threads (from inside their
callback) are the actors; `at`, `arg`, `dying` tell what a call is doing, on
which handle, and which implementation it is destroying on the way.
`DoSubscribe` replaces the implementation, which destroys the old one if this
was its last handle, before `Load` and `Start`; `Drop` destroys a handle;
`Shutdown` marks, and `ShutdownPlugin` clears `is_running` in a later step,
since nothing holds the two together. `Join` is the plugin's destructor; a
thread that comes to join itself, and a shutdown without a plugin, terminate the
process (`aborted`). `wait_data` is the step `ThreadReceive`; what happens
inside it is the core's business.

A `do_subscribe` that is called on several handles is a sequence of calls. A
handle is used by one thread, as with any object that is not synchronised;
handles that share an implementation are used by different threads, and one
may be kept by the callback itself. Queries that change nothing are left out,
and so is the lifetime of the caller's function object.

### Serialization

`advance`, `put` and `take` are `Stream::advance` and the `memcpy`s around it,
on a record that also keeps which addresses were touched and how the call ended.
Each specialisation of `Serializer`, `VectorSerializer` and `ArraySerializer` is
an operator for its `write`, `read` and `serializedLength`; `writeElement` and
its like are the overload resolution by `IsSimple` and `IsFixedSize`. A message
type is a sequence of members, a container has elements of the types that are
not containers. A number is its bytes, least significant first, and every
32-bit computation of the code wraps where it wraps there: lengths, prefixes and
`len*sizeof(T)`, while a `memcpy` of a string takes its full `size_t`.
`Types` are the types of members there may be, and `MessageAssumption` is what the
compiler sees to: a member is of one of the kinds above, a number of k bytes is
below `Power(k)`, an array has its number of elements.

The state is the bytes of a block and the two streams on it. `Serialize` and
`Deserialize` take any message, any type and any count, because `size_` may be
that of another publisher's message and nothing in the library compares types;
`Reallocate` puts zeros. `full` is a process whose allocations fail:
`vector::resize` and `string` throw, `RawMessage::allocate` swallows it.

### SharedMemorySegment and Publisher

`SharedMemorySegment` is `main` of `msgt_manager`, for several managers: `main[g]`
is where one is, `name` the segment that has the name (removing the name leaves
the segment to those who have it mapped), `constructed` the segments with a
Manager object. Between `CreateSegment` and `ConstructManager` there is a segment
without one. `Exit` removes the name whoever's segment has it; `Killed` removes
nothing.

In `Publisher`, `impl_` maps each `Publisher` object to its implementation, which
with its one plugin is an element of `Impls`: `publishers_` are those that have
the plugin, `first_run_`, `clientRegistered`, `blockmgr_`, `shm_handle_` those
whose plugin has the flag, the pointer, the valid handle; `segment_` is the
plugin's pointer and `mapped` what is really mapped. A first publish is
`Publish`, `Register`, `OpenSegment`, `FindManager`, `Allocate`, `Check`,
`Reallocate`, `Serialize`, each with its failures: the exception of a missing
segment leaves `publish` before `first_run_` is cleared, a `bad_alloc` and a
missing Manager object return -1 and clear it, `allocateBlock` may leave the
handle invalid. What allocation and reallocation do inside the segment is the
core's business; here they have any of their outcomes. `Shutdown` is the handle's
`shutdown`, in two steps (`ResetHandle` is the `impl_.reset()`), and `Destroy` the
destructor of an implementation that has lost its last handle.

A `PublisherImpl` has no lock and nothing in the code makes overlapping calls on
one implementation safe, so `Exclusive` keeps them apart; copying and dropping
handles is free at any time. Each handle has one thread that uses it (`Owner`).

`Advertisement` is the promise: a publisher's `fate` is `Unbound` until a publish
binds it to the segment that has the name then; it may lose its block and be
`Unbound` again, and each message it sends goes to the segment it is bound to. It
may try again to bind as often as it likes, and need not. The code does not: a first
publish that fails is the last that tries (`clientRegistered` is set before), and
every later one drops its message without a word, also when the manager has come
up. The comment at `publisher.h:55`, "Publish an image on the topics associated
with this Publisher", says otherwise. `Advertisement` promises nothing about it, and no
property here holds the code to it.

### Timer and ReleasePool

`pending` counts waits, `ready` handlers to be invoked, `handler` is where the
one that runs is. `Rearm` is `expires_at(...)`, which cancels the waits there are
and makes their handlers ready, followed by `async_wait`. In `ReleasePool` the
threads create, share and drop `shared_ptr`s; `add` and the scan are bracketed by
the mutex, and the scan tests one object after another while threads go on with
their own references. The pool is destroyed after its service was stopped and its
thread joined: a pool that is destroyed under a running service leaves a handler
on a dead object, which the code leaves to the caller.

### TimestampSync

A measurement is the class of its squared deviation from the estimate, in units
of the initial average; what the Kalman filter makes of it is the next
measurement's deviation, which is any. `ConvertNativeToLocal` is the outlier
decision with the counters it changes, in integers: `Approach` divides by
`Weight` and loses the rest, as a step too small for a `double` is lost. An
object belongs to the application, which calls `setFrequency` when it likes, or
to `now()`, which initialises it when `m_events` is 0, also after the counter has
wrapped, and gives the performance counter up for ever when its frequency has
changed. `LearnAssumption` relates the constants as the code's are related: in
the 49 measurements from the 51st to the 99th the average comes nearer to a
deviation it is less than a ninth of by a hundredth of at least 8/9 each time,
together more than that ninth; and the count does not wrap before. In integers that
takes units in which such a hundredth is at least one.

## 3. Runs

| Run | Instance | Checks |
|---|---|---|
| `pairs` | 2 publishers on 2 topics, 1 subscriber, messages smaller and larger than the first block, lengths in them | `ReadExcludesWrite`, `NoOverrun`, `BlockPresent`, `ImplementsChannel` |
| `crowd` | 2 publishers and 2 subscribers on 1 topic, two sizes, 2 descriptors | `ResizeInv`, `WriterInBlock`, `OneWriter`, `OneBlockPerTopic`, `CopyInv`, `ReaderInBlock`, `CopyPinsBlock` |
| `hostile` | 2 publishers on 2 topics for 1 descriptor, a subscriber and a releaser that may be killed anywhere; `bad_alloc`, spurious wakeups | `TypeOK`, `LockInv`, `ClientsCounted`, `NoDeadlock` |
| `returns` | as `pairs` with one size, under fairness | `DeliveredIntact`, `SignalDelivers`; no deadlock |
| `manager` | 2 publishers on 2 topics, one of which may be killed anywhere, the manager leaving; `bad_alloc`; under fairness | `PublishReturns`, `ManagerExits` |
| `subscriber` | 2 users, 2 implementations, 3 handles, one kept by the callback, under fairness | `SubscriberInv`, `NothingUsesTheDead`, `NeverAlreadyRunning`, `Released`, `ShutdownEnds`, `ImplementsSubscription` |
| `clock` | 3 deviations, 2 frequencies, warm-up 8, settling 4, budget up to 4, events modulo 24, under fairness | `BudgetInv`, `SteadyAccepted`, `ConstantFrequency`, `Recovers`; no deadlock |
| `release_pool` | 3 threads, 2 objects, each added up to twice, under fairness | `PoolInv`, `ReleasedByPool`, `Released`; no deadlock |
| `publisher` | 2 threads, 3 handles, 2 implementations, 2 managers, 2 segments | `PublisherInv`, `UsesOpenSegment`, `ImplementsAdvertisement`; no deadlock |
| `serialization` | 8 message types, 16 old contents of a block of 10 bytes, every count; 4 values a byte, lengths of 2 bytes | `TypeOK`, `WithinBounds`, `LengthExact`, `RoundTrip`, `AcceptsOnlyMessages` |

The other two runs each show something that the repository says and the code
does not do; the findings in `PROJECT.json` quote the lines:

* `shrinking_message`: a small message recorded before the large one was read
  makes a subscriber overrun, and its registrations block the publisher
  (`PublishAlwaysReturns`);
* `manager_leaves`: after `resetAllBlocks` the resize count goes through its
  old values, and a stale pointer passes for a current one (`WriterInBlock`).

And `Subscription` allows a callback that begins after `shutdown()` has returned,
one at most, because the code does.

`num_clients` is one counter for all topics, and `check_global_clients` waits until
it is zero. So "every publish returns" and "the manager exits" are false as they
stand: two publishers of other topics that copy in turns keep whoever waits asleep,
with nobody killed. `sharedmem_manager.cpp:119` names a killed client as the reason
why the manager may hang; in `manager`, traffic alone is enough.
`PublishReturns` and `ManagerExits` say what is left: the call returns if the others
leave the counter at zero again and again, and nobody was killed inside a section or
registered (`DeadInside`). Both conditions matter in the instance: `ManagerExits`
fails there without either of them, and `PublishReturns` without the first, which
also excludes a publisher that left with a `StreamOverrun`, since it stays in the
count. They are assumptions about the application, and no property
checks that the traffic meets the first.

Bounds. The state spaces are finite without any bound in a guard: `resize_count_`
grows only with the allocation, which takes few values, and starts again with a
reset. Two sizes, one below and one above the 16 bytes of a new block, give the
resizing and the non-resizing publish and every change between them. Two
publishers and two subscribers are the least that shows what the single waits
of `check_clients` and `check_global_clients` let through: the second one
arrives while the first is leaving. An address more than there are blocks lets
the segment move a block or put it where it was; `hostile`, which is not about what
the blocks hold, has one address. One descriptor for two topics is the full
table. Two publishers with topics of their own are the least that keeps
`num_clients` above zero while the manager waits; a publisher's wait would take a
third, which together with the manager takes TLC too long, and waits for the same
condition. So do the manager and a releaser beside two publishers and a subscriber;
the theorems about `hostile`'s four invariants (section 5) include both. Symmetry is
used for addresses, and for processes of one topic, in runs without liveness
properties only. `CHECK_DEADLOCK FALSE` is set where a
process may be killed, exit, keep an invalid handle, or where the application
just stops calling; `returns`, `clock`, `release_pool` and `publisher` check
deadlock.

In `clock` the code's 100, 50, 40 and 1/100 are 8, 4, 4 and 1/8: large enough
that the average can learn a steady deviation between settling and the end of the
warming up (`SteadyAccepted` fails if it cannot), that the budget can be spent
and earned again more than once, and that events wrap after both. The deviations
are none, one above the initial threshold and one above the threshold that the
second one teaches. `MaxAdds` is a bound: twice shows what repeated adding does.
Two managers and two segments let a successor take the name while the
predecessor runs and while publishers are bound to its segment; three handles of
two implementations are a shared one and one that is on its own, and both can be
dropped and used again. Managers, segments and implementations are symmetric.

In `serialization` a `uint32_t` has 16 values, so that a vector of eight
two-byte numbers and a string of eighteen characters are what 2^30 numbers and a
string of 4 GiB are in the code; both are among the messages. The old contents
put every number in the place of the first length. `LengthExact`, `RoundTrip`
and `AcceptsOnlyMessages` are about messages below 2^32 bytes (`Expressible`),
`RoundTrip` also about vectors below 2^32 elements (`Countable`), since elements of
a user's type may take no bytes, and, of a payload without a length, about types
that end with it (`RestLast`).
Beyond that they fail, as they must: a vector that pretends to have 2^30
four-byte elements is accepted from a stream with none of them.

## 4. Fairness

`SharedMemoryBlock` assumes strong fairness of each live process's steps inside
calls (`InsideStep`), not of the calls themselves: an operating system schedules
threads that can run, and a mutex that becomes free again and again is
eventually obtained. Boost's interprocess mutexes promise no order; with a
spinning mutex that can starve, `PublishReturns` is only almost surely true.
Nobody is obliged to publish, subscribe, exit or die. Fairness does not help whoever
waits for `num_clients` to be zero: a fair schedule may let other topics' copies
overlap for ever. Hence the condition `[]<>(num_clients = 0)` of `PublishReturns` and
`ManagerExits`, an assumption about how busy the application is, which nothing in
the code justifies.

`Subscriber` assumes weak fairness of the rest of each call and strong fairness
of each receive thread's step: the thread runs, `wait_data` comes back within a
second, and the user's callback returns. The assumption about `wait_data` leaves out
a thread that waits inside it for a mutex for ever; a process that was killed while
it held the mutex is when it is wrong.

`TimestampSync` assumes that measurements keep coming (weak fairness of
`Measure`); `Recovers` is for applications that stop calling `setFrequency`.
`ReleasePool` assumes that time passes and the service's thread runs (weak
fairness of the timer's and the scan's steps), that an `add` comes to its end,
and strong fairness of `ScanLock`: a mutex that becomes free again and again is
obtained, and does not throw every time. `Publisher` has no liveness property
and assumes no fairness: nobody is obliged to publish, and managers may be away
for ever.

## 5. Proofs

Nothing is assumed beyond the named `ASSUME`s of the modules: the sets of
processes are disjoint and finite, sizes are natural numbers of at least a
timestamp, there is at least one descriptor, no message is the model value
for zeros, for torn contents or for no message, what is serialized is what its
type says, and the clock's average has time to learn. Each theorem is for any
number of processes, topics, descriptors, sizes, addresses, and any message types.

`SharedMemoryBlockProofs`, under every fault of the model:

* `TypeCorrect`: `TypeOK` is inductive by itself. Its handle part says that no
  method indexes `descriptors[]` with an invalid handle.
* `CountsCorrect`: `ClientsCounted`. Each registration adds one process to
  `GlobalClients` or `BlockClients(b)`, each unregistration removes one, and the
  library's facts on cardinalities do the rest; the hard part is that nobody's
  handle changes its block while that process is registered.
* `WakeupsKept`: `NoLostWakeup`, by itself: who waits saw a client under the
  mutex, and the last client wakes everybody under the same mutex.
* `BlocksUnique`: `OneBlockPerTopic`. The two loops of `allocateBlock` are one
  step of whoever holds the global mutex, and `reset` frees the name.
* `LocksExclude`: `LockInv`, from `TypeOK`: where a process is determines what
  it holds.
* `WaitsEnd`: `NoDeadlock`, from all of these but `OneBlockPerTopic`. It contains
  `NoLostWakeup`, which is therefore not checked by itself. Who waits is at one of
  four levels: for the global mutex, in `check_global_clients`, for a descriptor's
  mutex, in `check_clients`. It waits for an owner (`LockInv`) or for
  registered clients, of whom there are some (`NoLostWakeup`, `ClientsCounted`),
  and these are at lower levels: `reallocateBlock`, `serialize`, `resetBlock` and
  the registration of a subscriber go from a descriptor's monitor to the global
  one, nothing goes the other way, and nobody enters a monitor that it is a
  client of. So the waits end, at a process that can move, was killed, or left with a
  `StreamOverrun`. `PublishReturns` needs that, and fairness, and its two conditions;
  this needs no fairness and holds under every fault.

`SharedMemoryBlockResizeProofs`, assuming `Undisturbed` (no `bad_alloc`, no
manager that leaves, no releaser; `manager_leaves` shows that the second cannot be
dropped, and `BlockPresent` fails after a `bad_alloc` in `allocateBlock`).
`ResizeInv` is the inductive invariant:
`WriterInBlock` alone says nothing of the time before a copy starts. It adds
what a descriptor says about its block, that a handle belongs to its topic for
ever, that a matching resize count means a current pointer, and who may know a
block under construction. `ResizeCorrect` proves it, `WritersInBlock`,
`WritersExclude` and `BlocksPresent` follow.

The second half of the module is about copies made without a lock, and needs that
no wait ends unnotified as well (`~SpuriousWakeups`: `check_global_clients` waits
with an `if`). `CopyInv` is inductive on top of `ResizeInv` and `ClientsCounted`.
`PinInv`: who grows a block and is past `check_global_clients` finds no registered
client whose handle is on that block, although others may have registered since;
those on *its* block would have to pass its mutex. `ReadInv`: a subscriber in the
middle of a copy has the current resize count, and as many bytes as the block
has. `CopiesPin` proves it; `ReadersInBlock` and `CopiesStay` (nothing moves the
memory under a copy) follow.

`SharedMemoryChannelProofs` adds what holds when topics have few users. With one
publisher on each topic nobody else changes what it recorded between the two
halves of a publish (`RecordedInv`, by itself inductive), so `OverrunNever`:
no publisher throws `StreamOverrun`. With one subscriber as well, the single wait of
`check_clients` is enough: `ExclusionInv` says that a publisher past it finds the
subscriber unregistered, and, while it is woken but has not got the mutex back,
the subscriber is not woken too. That last part is what makes it inductive: the
last client to unregister wakes the publisher, and only a publisher's signal or a
timeout lets a subscriber on. `ReadsExcludeWrites` follows. These hypotheses together
are `Pairs`, those of the run `pairs` and of `returns`; `crowd`, with two of each, is where
`ReadExcludesWrite` is false. Under `Pairs`:

* `DeliveredWhole`: what a callback is given was copied out of a block that held
  zeros or a whole message of its topic's publisher, for any sizes; how many bytes of
  it, `size_` says. `ContentsInv` says what a block's memory holds: torn contents
  exactly while its publisher writes.
* `ChannelImplemented`: the core implements `TopicChannel`, if messages carry their
  lengths or have one size (`LengthsInMessage \/ OneSize`; with `RawMessage`s of several
  sizes it does not). In the second case `KnownSizes`, from `FilledInv` below, says that
  a message is read with its own length. `HistoryInv` ties
  `last` and `unread` to the memory and to who is announced to; then the end of a
  write is `Put`, a block that is claimed anew or grown is `Discard`, the beginning of
  a read is `Take`, the callback is `Handle`, every other step leaves the channel as it is.
* `MessagesIntact`: `DeliveredIntact`, if in addition all messages have one size
  (`OneSize`; `DeliveredIntact` is checked in `returns` with one size, since a block
  that grows between notification and reading delivers zeros). `OwnerInv` says that
  a topic's block is its publisher's, `FilledInv` that whoever is told of a message finds a
  block that was written and records its size.

`SubscriberProofs`: `SubscriberInv` is inductive. The two facts that carry it
are that a call works on a handle nobody else uses (`UsedAlone`), and `StopInv`:
an implementation that is marked as shut down and still running has its
`shutdown()` on the way to the plugin, through a handle that exists. So when the
last handle is gone, `~SubscriberImpl` may rely on the mark and the join
returns. `NoUseAfterDestruction` and `StartsOnce` follow. `PromiseKept` is the
refinement of `Subscription`: each step concerns one implementation's thread and
flag (`SeenOfOne`), and is `Open`, `Stop`, `Call`, `Return`, `GiveUp`, `End`,
`Forget` or nothing.

`PublisherProofs`: `PublisherInv` is inductive. `MappingsOwned` says that exactly
the segments which plugins point to are mapped, `ConnectInv` how far each plugin
has come and that a known block manager is in a segment that has one, `CallInv`
where a thread in a call stands with its plugin; `UsedAlone` that nobody else is
there. A step inside a publish touches one plugin and one thread (`LocalStep`),
the end of a handle and of a plugin are `HandleGone` and `PluginGone`.
`CallsFindSegment` follows. `AdvertisementKept` is the refinement: a step
changes the fate of one implementation at most (`FateChanges`, `FateUnchanged`), and is
`Advertise`, `Bind`, `Send`, `Lose`, `Unadvertise`, `Rename` or nothing. It needs
one more invariant, that a publisher which is gone has sent nothing.

`ReleasePoolProofs`: `PoolInv` is inductive for any number of threads and
objects, `PoolReleases` is the action property from it: the last reference of a
pooled object is the pool's, so a thread's `Drop` is not the one that destroys.

`TimestampSyncProofs`: `BudgetInv` is inductive for every value of the bounds;
`debt`, the worst stretch of measurements so far, and the budget always add up to
at most `Cap`, which is why the one-sided bound is enough. `TicksConvertedRight`
needs only that the frequency of the last initialisation is remembered twice.
`SteadyNoiseAccepted` is `SteadyAccepted`, from `BudgetInv` and `SteadyInv`: of a
deviation that every measurement had (`Learns`) the average is at least what the
steps since event `Settle` have brought it to, or a ninth of it already, and after
the warming up it is that ninth by `LearnAssumption`. An average that has come to a ninth stays
there, whatever `Approach` loses.

`SerializationProofs`: for messages of any types and values, in blocks of any
size and contents. The library's induction theorems cannot be used, so the
module begins with an induction of its own: a set of numbers that has 0 and is
closed under successors misses none, or else the pigeonhole principle for finite
sets would fail (`SetInduction`); recursive functions exist by it (`Recursion`),
and every loop of the model is a sequence of calls (`Iterations`). Then, of every
read, `Reads`: it keeps the end of its stream and stays within it; of every write of n bytes, `Writes`: it throws if and only if n
bytes are not left, and otherwise has come n bytes further. `SerializeWrites` and
`DeserializeReads` put them together for a message, `SerializationLengths` says that
the lengths, all computed in 32 bits, are the sizes in unbounded arithmetic of an
`Expressible` message. `SInv`, the conjunction of the three invariants, is then
inductive.

`MessagesRoundTrip` is `RoundTrip`. It begins with numbers: put together again, the
bytes of a number are the number (`NumberBack`), and a packed sequence of numbers
comes apart into them (`UnpackedBack`). What a call of `write` promises is
`Leaves`: it changes the n bytes that it advances over and no others (`Frames`), and
whoever finds these n bytes at that address, whatever is around them, reads the
value back from all of them or throws `StreamOverrun` for want of some (`Held`,
`Back`). There is such a lemma for each specialisation, from `SimpleLeaves` to
`VectorLeaves` and `RestLeaves`; `LoopLeaves` and `LoopBack` carry it over a sequence
of calls, because no call touches the bytes of an earlier one. `RoundTrip` itself
says nothing between the write and the read; `Readable` does, that what was sent
whole would be read back if it were read now, with any count, and `RInv`, which adds
it to `SInv`, is inductive.

`AcceptedAreMessages` is `AcceptsOnlyMessages`, for bytes that nobody wrote as a
message, and goes the other way. Any bytes are those of the number they make
(`BytesNumber`, `PackedBack`). What a call of `read` that does not throw promises is a
value and a count with `Gives`, it has read the value from that many bytes, and
`Accepts`, the value is of the type, the count is the value's size, and whoever
writes the value at that address puts the n bytes that are there (`Again`); of a
bool only the first two. A value too large for 32 bits is only said to be of its
type: a length that wraps in `vectorRead` may take it from fewer bytes. There is a
lemma for each specialisation, from `SimpleGives` to `VectorGives` and `RestGives`;
`LoopAccepts` carries it over the calls that read, collecting values and counts,
`LoopAgain` over the calls that write them. `AInv`, `SInv` and the property, is
inductive: nobody writes into the block between the read and the look at it.

Only model-checked: the liveness properties, `PublishReturns`, `SignalDelivers`,
`ManagerExits`, `ShutdownEnds`, `Recovers` and both of the name `Released`. Out of
the prover's reach: liveness under fairness, and anything about `ENABLED`.

## 6. Not modelled

* Copies of a `RawMessage`, which share a buffer: planned, below.
* Two calls on one `PublisherImpl` at a time, and two threads in `now()`: data
  races on plain fields, whose outcome nothing in the code bounds.
* Destructors of pooled objects that call back into the pool, handlers of a
  timer on an object destroyed under a running service, `start()` on a timer that
  runs: left to the caller, and nothing in the repository does it.
* The fallback of `Serializer<T>`, which hands a raw pointer to the message's own
  `serialize`: the user's code, and no stream is involved.
* The Kalman filter of `TimestampSync`: floating-point arithmetic.
* Traits, macros, logging, tracing, platform headers: no state.
* The bytes of a topic name. A name of 256 characters or more is cut by
  `allocate` without a terminator.
* `getSize`, `getTopic`, `getNumPublishers`, `isValid`: they change nothing.
* `SharedMemoryBlockDescriptor::register_client`: nobody calls it.

## 7. Plan

Done, in this order: descriptor and core; their runs; the proofs of types,
counts, wakeups, uniqueness, locks and resizes; the channel; the front end of
subscribing with its proofs; serialization; the clock; timer and release pool;
segments, the front end of publishing and its refinement, each with its proofs;
the proofs about copies, and the channel's refinement; the bounds and lengths of
streams, and steady noise; that what is written is read back, and that what is
read could have been written.
To come:

1. `RawMessage`: who owns its buffer across copies and `allocate`.
2. The composition of `Publisher` and `Subscriber` over one segment, through
   `Advertisement` and `Subscription`.
