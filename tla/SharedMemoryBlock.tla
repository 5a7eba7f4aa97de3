------------------------- MODULE SharedMemoryBlock -------------------------
(***************************************************************************)
(* The shared memory transport: publishers, subscribers and the manager    *)
(* meet in one SharedMemoryBlock, an array of block descriptors kept in a  *)
(* managed shared memory segment.  Two levels of monitors protect it: the  *)
(* global one (mutex, cond, num_clients) and one per descriptor (mutex,    *)
(* lockcond, datacond, num_clients).  A process that copies a message in   *)
(* or out does so as a registered client, not under the global mutex.      *)
(*                                                                         *)
(* op[p] names the method process p is executing and at[p] the place in    *)
(* it: "start" before its lock is taken, "wait" inside a condition wait,   *)
(* "in" past it, "construct" or "reconstruct" where the construction of a  *)
(* block is due, and "destroyed" where a block is gone and its descriptor  *)
(* is still to be reset.                                                   *)
(***************************************************************************)
EXTENDS SharedMemoryBlockDescriptor, Integers, FiniteSets

CONSTANTS
  Publishers,      \* processes that own a SharedmemPublisher
  Subscribers,     \* receive threads of SharedmemSubscribers
  Managers,        \* msgt_manager: {} when it stays up for ever
  Releasers,       \* callers of findHandle and resetBlock
  Topic,           \* the topic of each publisher, subscriber and releaser
  NumBlock,        \* MSGTSharedMemoryNumBlock
  Sizes,           \* serialized lengths of the messages published
  LengthsInMessage,\* whether a message carries lengths (RawMessage does not)
  Addresses,       \* where the segment may place a block
  SegmentMayFill,  \* whether an allocation may throw bad_alloc
  SpuriousWakeups, \* whether a condition wait may return unnotified
  MayDie,          \* the processes that may be killed
  NULL,            \* the null pointer, and no owner of a mutex
  NoMessage,       \* a message slot that holds nothing
  Zeroed, Torn     \* contents of a fresh block, and of one being written

Proc == Publishers \cup Subscribers \cup Managers \cup Releasers
Block == 0 .. NumBlock - 1
InitialSize == 16       \* what initialise() asks allocateBlock for
TimestampSize == 8      \* the first field of every message

ASSUME ProcessAssumption ==
  /\ Publishers \cap Subscribers = {}
  /\ (Publishers \cup Subscribers) \cap (Managers \cup Releasers) = {}
  /\ Managers \cap Releasers = {}
  /\ MayDie \subseteq Proc
  /\ NULL \notin Proc \cup Addresses
  /\ IsFiniteSet(Proc)
ASSUME DataAssumption ==
  /\ NumBlock \in Nat \ {0}
  /\ Sizes \subseteq Nat /\ \A n \in Sizes : n >= TimestampSize
  /\ NoName \notin Topics
  /\ Topic \in [Publishers \cup Subscribers \cup Releasers -> Topics]
  /\ {LengthsInMessage, SegmentMayFill, SpuriousWakeups} \subseteq BOOLEAN

NoBlock == NumBlock     \* handle(-1): out of range of descriptors[]
NoHandle == [handle |-> NoBlock, ptr |-> NULL, resize_count |-> 0]
Absent == [ptr |-> NULL, size |-> 0]    \* what find() returns for no object
Message == [from : Publishers, size : Sizes]
Bytes == Message \cup {Zeroed, Torn}
Received == [body : Bytes, size : Nat]  \* what was copied out, and size_ then

ASSUME ContentsAssumption ==
  /\ NoMessage \notin Message \cup Received
  /\ Zeroed \notin Message /\ Torn \notin Message /\ Zeroed # Torn

VARIABLES
  op, at,          \* the method each process executes, and where it is
  mutex, cond, num_clients,        \* the global monitor
  block_mutex, lockcond, datacond, block_clients,  \* one monitor per block
  descriptors,     \* the fields of the descriptors
  segment,         \* the named byte arrays of the segment
  bytes,           \* what each address holds
  handle,          \* the shm_handle of each process
  msg,             \* the message being published, or received
  dead             \* the processes that were killed

pcVars == <<op, at>>
globalVars == <<mutex, cond, num_clients>>
blockVars == <<block_mutex, lockcond, datacond, block_clients>>
memVars == <<descriptors, segment, bytes>>
localVars == <<handle, msg>>
vars == <<pcVars, globalVars, blockVars, memVars, localVars, dead>>

Init ==
  /\ op = [p \in Proc |-> IF p \in Publishers THEN "new" ELSE "idle"]
  /\ at = [p \in Proc |-> "start"]
  /\ mutex = NULL /\ cond = {} /\ num_clients = 0
  /\ block_mutex = [b \in Block |-> NULL]
  /\ lockcond = [b \in Block |-> {}]
  /\ datacond = [b \in Block |-> {}]
  /\ block_clients = [b \in Block |-> 0]
  /\ descriptors = [b \in Block |-> EmptyDescriptor]
  /\ segment = [n \in Names |-> Absent]
  /\ bytes = [a \in Addresses |-> Zeroed]
  /\ handle = [p \in Proc |-> NoHandle]
  /\ msg = [p \in Proc |-> NoMessage]
  /\ dead = {}

-----------------------------------------------------------------------------
(* Control *)

At(p, o, a) == op[p] = o /\ at[p] = a

Goto(p, o, a) == /\ op' = [op EXCEPT ![p] = o]
                 /\ at' = [at EXCEPT ![p] = a]

Unlock(b) == block_mutex' = [block_mutex EXCEPT ![b] = NULL]

Blk(p) == handle[p].handle

is_valid(h) == h.ptr # NULL

(* The sections that run under the global mutex after check_global_clients, *)
(* and those that run under a descriptor's mutex after check_clients.       *)
GlobalSections ==
  {"allocateBlock", "findHandle", "refresh", "grow", "clear", "resetAllBlocks"}
BlockSections == {"reallocateBlock", "serialize", "resetBlock"}

(* A segment that the manager has removed can no longer be opened. *)
SegmentOpen == \A m \in Managers : op[m] # "exited"

-----------------------------------------------------------------------------
(* Blocks in the segment *)

Live == {segment[n].ptr : n \in Names} \ {NULL}

(* Addresses A come to hold c; a copy out of one of them, which some        *)
(* receiver has begun, gets a mixture of the old contents and the new.      *)
Overwrite(A, c) ==
  /\ bytes' = [a \in Addresses |-> IF a \in A THEN c ELSE bytes[a]]
  /\ msg' = [s \in Proc |-> IF At(s, "read", "in") /\ handle[s].ptr \in A
                              THEN [msg[s] EXCEPT !.body = Torn] ELSE msg[s]]

(* destroy<uint8_t>(name) for every name in S: the allocator reuses the     *)
(* memory of what it frees.                                                 *)
Destroy(S) ==
  /\ segment' = [n \in Names |-> IF n \in S THEN Absent ELSE segment[n]]
  /\ Overwrite({segment[n].ptr : n \in S}, Torn)

(* find_or_construct<uint8_t>(name)[size](0), for a name that is absent:   *)
(* the segment places a zeroed array at an address that is not in use.     *)
Construct(name, size, a) ==
  /\ a \in Addresses \ Live
  /\ segment' = [segment EXCEPT ![name] = [ptr |-> a, size |-> size]]
  /\ Overwrite({a}, Zeroed)

IsFirst(i, S) == i \in S /\ \A j \in S : i <= j

Matching(p) == {i \in Block : /\ descriptors[i].active_
                              /\ matchName(descriptors[i], Topic[p])}
Inactive == {i \in Block : ~descriptors[i].active_}

(* The handle of block b as the descriptor describes it now. *)
FreshHandle(b, desc) ==
  [handle |-> b, ptr |-> segment[desc.name_].ptr, resize_count |-> desc.resize_count_]

Stale(p) == handle[p].resize_count # descriptors[Blk(p)].resize_count_

-----------------------------------------------------------------------------
(* Faults: each definition is one below with a plausible mistake in it, for  *)
(* the checks to find; none of them is part of the specification.            *)

FaultNeverRefreshed(p) == handle[p]

(* check_global_clients left out. *)
FaultLockGlobalUnchecked(p) ==
  /\ op[p] \in GlobalSections /\ at[p] = "start"
  /\ mutex = NULL
  /\ mutex' = p
  /\ at' = [at EXCEPT ![p] = "in"]
  /\ UNCHANGED <<op, cond, num_clients, blockVars, memVars, localVars, dead>>

(* A condition wait that does not take its mutex back. *)
FaultRelockBlockUnlocked(p) ==
  /\ op[p] \in BlockSections /\ at[p] = "wait"
  /\ p \notin lockcond[Blk(p)]
  /\ at' = [at EXCEPT ![p] = "in"]
  /\ UNCHANGED <<op, globalVars, blockVars, memVars, localVars, dead>>

(* unregister_global_client with notify_one for notify_all. *)
FaultUnregisterNotifyOne(p) ==
  /\ op[p] = "unregister"
  /\ mutex = NULL
  /\ num_clients' = num_clients - 1
  /\ \/ num_clients' = 0 /\ \E q \in cond : cond' = cond \ {q}
     \/ (num_clients' # 0 \/ cond = {}) /\ cond' = cond
  /\ Goto(p, IF p \in Publishers THEN "signal" ELSE "unregister_client", "start")
  /\ UNCHANGED <<mutex, blockVars, memVars, localVars, dead>>

(* unregister_global_client that does not notify at all. *)
FaultUnregisterSilent(p) ==
  /\ op[p] = "unregister"
  /\ mutex = NULL
  /\ num_clients' = num_clients - 1
  /\ Goto(p, IF p \in Publishers THEN "signal" ELSE "unregister_client", "start")
  /\ UNCHANGED <<mutex, cond, blockVars, memVars, localVars, dead>>

(* The second loop of allocateBlock without the first. *)
FaultAllocateClaimAlways(p) ==
  /\ At(p, "allocateBlock", "in")
  /\ \E i \in Block :
       /\ IsFirst(i, Inactive)
       /\ descriptors' = [descriptors EXCEPT ![i] =
                            recordSize(allocate(@, Topic[p]), InitialSize, InitialSize)]
       /\ handle' = [handle EXCEPT ![p].handle = i]
  /\ at' = [at EXCEPT ![p] = "construct"]
  /\ UNCHANGED <<op, globalVars, blockVars, segment, bytes, msg, dead>>

(* reallocateBlock without its growing branch. *)
FaultReallocateNeverGrows(p) ==
  LET b == Blk(p) IN
  /\ At(p, "resize", "in")
  /\ descriptors' = [descriptors EXCEPT ![b] = recordSize(@, msg[p].size, 0)]
  /\ Unlock(b)
  /\ Goto(p, "serialize", "start")
  /\ UNCHANGED <<globalVars, lockcond, datacond, block_clients,
                 segment, bytes, handle, msg, dead>>

(* reallocateBlock with one lock of the global mutex for both its branches. *)
FaultRefreshKeepsLock(p) ==
  /\ At(p, "refresh", "in")
  /\ handle' = [handle EXCEPT ![p] = FreshHandle(Blk(p), descriptors[Blk(p)])]
  /\ Goto(p, "resize", "in")
  /\ UNCHANGED <<globalVars, blockVars, memVars, msg, dead>>

(* The growing branch of reallocateBlock without its recordSize. *)
FaultGrowUnrecorded(p) ==
  LET b == Blk(p) IN
  /\ At(p, "grow", "construct")
  /\ \E a \in Addresses :
       /\ Construct(descriptors[b].name_, msg[p].size, a)
       /\ handle' = [handle EXCEPT ![p].ptr = a]
  /\ mutex' = NULL
  /\ Unlock(b)
  /\ Goto(p, "serialize", "start")
  /\ UNCHANGED <<cond, num_clients, lockcond, datacond, block_clients,
                 descriptors, dead>>

(* findHandle whose caller does not test the handle it gets. *)
FaultFindHandleUntested(s) ==
  /\ At(s, "findHandle", "in")
  /\ \/ \E i \in Block :
          /\ IsFirst(i, Matching(s))
          /\ handle' = [handle EXCEPT ![s] = FreshHandle(i, descriptors[i])]
     \/ /\ Matching(s) = {}
        /\ handle' = [handle EXCEPT ![s] = NoHandle]
  /\ mutex' = NULL
  /\ Goto(s, IF s \in Subscribers THEN "wait_data" ELSE "resetBlock", "start")
  /\ UNCHANGED <<cond, num_clients, blockVars, memVars, msg, dead>>

(* wait_data_and_register_client that does not register. *)
FaultWaitUnregistered(s) ==
  LET b == Blk(s) IN
  /\ At(s, "wait_data", "wait")
  /\ s \notin datacond[b]
  /\ block_mutex[b] = NULL
  /\ block_mutex' = [block_mutex EXCEPT ![b] = s]
  /\ Goto(s, "register", "start")
  /\ UNCHANGED <<globalVars, lockcond, datacond, block_clients, memVars,
                 localVars, dead>>

(* wait_data that takes a timeout for a notification. *)
FaultTimeoutDelivers(s) ==
  LET b == Blk(s) IN
  /\ At(s, "wait_data", "wait")
  /\ s \in datacond[b]
  /\ block_mutex[b] = NULL
  /\ datacond' = [datacond EXCEPT ![b] = @ \ {s}]
  /\ block_mutex' = [block_mutex EXCEPT ![b] = s]
  /\ block_clients' = [block_clients EXCEPT ![b] = @ + 1]
  /\ Goto(s, "register", "start")
  /\ UNCHANGED <<globalVars, lockcond, memVars, localVars, dead>>

(* wait_data that takes a notification for a timeout. *)
FaultWaitMistaken(s) ==
  /\ At(s, "wait_data", "wait")
  /\ s \notin datacond[Blk(s)]
  /\ block_mutex[Blk(s)] = NULL
  /\ Goto(s, "wait_data", "start")
  /\ UNCHANGED <<globalVars, blockVars, memVars, localVars, dead>>

-----------------------------------------------------------------------------
(* The test that serialize and deserialize make before they touch the block. *)
Refreshed(p) ==
  IF Stale(p) THEN FreshHandle(Blk(p), descriptors[Blk(p)]) ELSE handle[p]

-----------------------------------------------------------------------------
(* The two monitors *)

(* scoped_lock on the global mutex followed by check_global_clients: one    *)
(* wait if there are clients, never a second look at num_clients.           *)
LockGlobal(p) ==
  /\ op[p] \in GlobalSections /\ at[p] = "start"
  /\ mutex = NULL
  /\ \/ /\ num_clients = 0
        /\ mutex' = p
        /\ at' = [at EXCEPT ![p] = "in"]
        /\ UNCHANGED cond
     \/ /\ num_clients # 0
        /\ cond' = cond \cup {p}
        /\ at' = [at EXCEPT ![p] = "wait"]
        /\ UNCHANGED mutex
  /\ UNCHANGED <<op, num_clients, blockVars, memVars, localVars, dead>>

RelockGlobal(p) ==
  /\ op[p] \in GlobalSections /\ at[p] = "wait"
  /\ p \notin cond
  /\ mutex = NULL
  /\ mutex' = p
  /\ at' = [at EXCEPT ![p] = "in"]
  /\ UNCHANGED <<op, cond, num_clients, blockVars, memVars, localVars, dead>>

(* scoped_lock on a descriptor's mutex followed by check_clients. *)
LockBlock(p) ==
  LET b == Blk(p) IN
  /\ op[p] \in BlockSections /\ at[p] = "start"
  /\ block_mutex[b] = NULL
  /\ \/ /\ block_clients[b] = 0
        /\ block_mutex' = [block_mutex EXCEPT ![b] = p]
        /\ at' = [at EXCEPT ![p] = "in"]
        /\ UNCHANGED lockcond
     \/ /\ block_clients[b] # 0
        /\ lockcond' = [lockcond EXCEPT ![b] = @ \cup {p}]
        /\ at' = [at EXCEPT ![p] = "wait"]
        /\ UNCHANGED block_mutex
  /\ UNCHANGED <<op, globalVars, datacond, block_clients, memVars, localVars, dead>>

RelockBlock(p) ==
  LET b == Blk(p) IN
  /\ op[p] \in BlockSections /\ at[p] = "wait"
  /\ p \notin lockcond[b]
  /\ block_mutex[b] = NULL
  /\ block_mutex' = [block_mutex EXCEPT ![b] = p]
  /\ at' = [at EXCEPT ![p] = "in"]
  /\ UNCHANGED <<op, globalVars, lockcond, datacond, block_clients,
                 memVars, localVars, dead>>

(* unregister_global_client, the last step of a copy in either direction.  *)
UnregisterGlobalClient(p) ==
  /\ op[p] = "unregister"
  /\ mutex = NULL
  /\ num_clients' = num_clients - 1
  /\ cond' = IF num_clients' = 0 THEN {} ELSE cond
  /\ Goto(p, IF p \in Publishers THEN "signal" ELSE "unregister_client", "start")
  /\ UNCHANGED <<mutex, blockVars, memVars, localVars, dead>>

-----------------------------------------------------------------------------
(* Publisher *)

(* The first publish() of a SharedmemPublisher runs initialise().  When the *)
(* segment cannot be opened it throws; clientRegistered is already set, so  *)
(* later calls find an invalid handle and drop their message.               *)
Initialise(p) ==
  /\ op[p] = "new"
  /\ \/ /\ SegmentOpen
        /\ \E n \in Sizes : msg' = [msg EXCEPT ![p] = [from |-> p, size |-> n]]
        /\ Goto(p, "allocateBlock", "start")
     \/ /\ ~SegmentOpen
        /\ Goto(p, "idle", "start")
        /\ UNCHANGED msg
  /\ UNCHANGED <<globalVars, blockVars, memVars, handle, dead>>

(* A later publish(); on an invalid handle the request is ignored. *)
Publish(p) ==
  /\ p \in Publishers /\ op[p] = "idle"
  /\ is_valid(handle[p])
  /\ \E n \in Sizes : msg' = [msg EXCEPT ![p] = [from |-> p, size |-> n]]
  /\ Goto(p, "reallocateBlock", "start")
  /\ UNCHANGED <<globalVars, blockVars, memVars, handle, dead>>

(* publish() returns. *)
Return(p) == /\ Goto(p, "idle", "start")
             /\ msg' = [msg EXCEPT ![p] = NoMessage]

(* allocateBlock, first loop: the topic has a block already. *)
AllocateReconnect(p) ==
  /\ At(p, "allocateBlock", "in")
  /\ \E i \in Block :
       LET desc == descriptors[i]
           found == segment[desc.name_]
           recorded == recordSize(desc, InitialSize, found.size)
       IN /\ IsFirst(i, Matching(p))
          /\ \/ /\ InitialSize > found.size
                /\ Destroy({desc.name_})
                /\ handle' = [handle EXCEPT ![p].handle = i]
                /\ at' = [at EXCEPT ![p] = "reconstruct"]
                /\ UNCHANGED <<op, mutex, descriptors>>
             \/ /\ InitialSize <= found.size
                /\ descriptors' = [descriptors EXCEPT ![i] = recorded]
                /\ handle' = [handle EXCEPT ![p] = FreshHandle(i, recorded)]
                /\ mutex' = NULL
                /\ Goto(p, "reallocateBlock", "start")
                /\ UNCHANGED <<segment, bytes, msg>>
  /\ UNCHANGED <<cond, num_clients, blockVars, dead>>

(* allocateBlock, second loop: claim the first inactive descriptor. *)
AllocateClaim(p) ==
  /\ At(p, "allocateBlock", "in")
  /\ Matching(p) = {}
  /\ \E i \in Block :
       /\ IsFirst(i, Inactive)
       /\ descriptors' = [descriptors EXCEPT ![i] =
                            recordSize(allocate(@, Topic[p]), InitialSize, InitialSize)]
       /\ handle' = [handle EXCEPT ![p].handle = i]
  /\ at' = [at EXCEPT ![p] = "construct"]
  /\ UNCHANGED <<op, globalVars, blockVars, segment, bytes, msg, dead>>

(* allocateBlock finds every descriptor taken and returns an invalid handle. *)
AllocateNone(p) ==
  /\ At(p, "allocateBlock", "in")
  /\ Matching(p) = {} /\ Inactive = {}
  /\ mutex' = NULL
  /\ Return(p)
  /\ UNCHANGED <<cond, num_clients, blockVars, memVars, handle, dead>>

(* The construction that both loops of allocateBlock end in; the first one *)
(* records the size after it, the second one has recorded it before.        *)
AllocateConstruct(p) ==
  LET b == Blk(p)
      desc == descriptors[b]
      recorded == IF at[p] = "reconstruct"
                    THEN recordSize(desc, InitialSize, InitialSize) ELSE desc
  IN
  /\ op[p] = "allocateBlock" /\ at[p] \in {"construct", "reconstruct"}
  /\ \E a \in Addresses :
       /\ Construct(desc.name_, InitialSize, a)
       /\ handle' = [handle EXCEPT ![p] =
            [handle |-> b, ptr |-> a, resize_count |-> recorded.resize_count_]]
  /\ descriptors' = [descriptors EXCEPT ![b] = recorded]
  /\ mutex' = NULL
  /\ Goto(p, "reallocateBlock", "start")
  /\ UNCHANGED <<cond, num_clients, blockVars, dead>>

(* bad_alloc leaves allocateBlock with the descriptor claimed and no block; *)
(* initialise() catches it and the publisher keeps an invalid handle.       *)
AllocateThrow(p) ==
  /\ SegmentMayFill
  /\ op[p] = "allocateBlock" /\ at[p] \in {"construct", "reconstruct"}
  /\ handle' = [handle EXCEPT ![p] = NoHandle]
  /\ mutex' = NULL
  /\ Return(p)
  /\ UNCHANGED <<cond, num_clients, blockVars, memVars, dead>>

(* reallocateBlock: has the block changed since the last access? *)
ReallocateCheck(p) ==
  /\ At(p, "reallocateBlock", "in")
  /\ IF Stale(p) THEN Goto(p, "refresh", "start") ELSE Goto(p, "resize", "in")
  /\ UNCHANGED <<globalVars, blockVars, memVars, localVars, dead>>

ReallocateRefresh(p) ==
  /\ At(p, "refresh", "in")
  /\ handle' = [handle EXCEPT ![p] = FreshHandle(Blk(p), descriptors[Blk(p)])]
  /\ mutex' = NULL
  /\ Goto(p, "resize", "in")
  /\ UNCHANGED <<cond, num_clients, blockVars, memVars, msg, dead>>

(* reallocateBlock: does the size need to be expanded?  publish_msg goes on *)
(* to serialize only if the handle is valid when reallocateBlock returns.   *)
ReallocateResize(p) ==
  LET b == Blk(p) IN
  /\ At(p, "resize", "in")
  /\ \/ /\ msg[p].size > descriptors[b].allocated_
        /\ Goto(p, "grow", "start")
        /\ UNCHANGED <<block_mutex, descriptors, msg>>
     \/ /\ msg[p].size <= descriptors[b].allocated_
        /\ descriptors' = [descriptors EXCEPT ![b] = recordSize(@, msg[p].size, 0)]
        /\ Unlock(b)
        /\ IF is_valid(handle[p])
             THEN Goto(p, "serialize", "start") /\ UNCHANGED msg
             ELSE Return(p)
  /\ UNCHANGED <<globalVars, lockcond, datacond, block_clients,
                 segment, bytes, handle, dead>>

(* The growing branch of reallocateBlock, which holds both mutexes. *)
GrowDestroy(p) ==
  /\ At(p, "grow", "in")
  /\ Destroy({descriptors[Blk(p)].name_})
  /\ at' = [at EXCEPT ![p] = "construct"]
  /\ UNCHANGED <<op, globalVars, blockVars, descriptors, handle, dead>>

GrowConstruct(p) ==
  LET b == Blk(p)
      recorded == recordSize(descriptors[b], msg[p].size, msg[p].size)
  IN
  /\ At(p, "grow", "construct")
  /\ \E a \in Addresses :
       /\ Construct(descriptors[b].name_, msg[p].size, a)
       /\ handle' = [handle EXCEPT ![p] =
            [handle |-> b, ptr |-> a, resize_count |-> recorded.resize_count_]]
  /\ descriptors' = [descriptors EXCEPT ![b] = recorded]
  /\ mutex' = NULL
  /\ Unlock(b)
  /\ Goto(p, "serialize", "start")
  /\ UNCHANGED <<cond, num_clients, lockcond, datacond, block_clients, dead>>

GrowThrow(p) ==
  LET b == Blk(p) IN
  /\ SegmentMayFill
  /\ At(p, "grow", "construct")
  /\ descriptors' = [descriptors EXCEPT ![b] = reset(@)]
  /\ handle' = [handle EXCEPT ![p] = NoHandle]
  /\ mutex' = NULL
  /\ Unlock(b)
  /\ Return(p)
  /\ UNCHANGED <<cond, num_clients, lockcond, datacond, block_clients,
                 segment, bytes, dead>>

(* serialize: register_global_client, under the descriptor's mutex. *)
SerializeRegister(p) ==
  /\ At(p, "serialize", "in")
  /\ mutex = NULL
  /\ num_clients' = num_clients + 1
  /\ Goto(p, "write", "start")
  /\ UNCHANGED <<mutex, cond, blockVars, memVars, localVars, dead>>

(* serialize: refresh the handle, open an OStream of size_ bytes on it and  *)
(* begin to copy.  A message that does not fit throws StreamOverrun after   *)
(* the timestamp is written: the descriptor's mutex is released by the      *)
(* scoped_lock, the global registration is not taken back.                  *)
WriteStart(p) ==
  LET b == Blk(p)
      h == Refreshed(p)
      size == descriptors[b].size_
      fits == msg[p].size <= size
  IN
  /\ At(p, "write", "start")
  /\ is_valid(h) \/ size < TimestampSize
  /\ handle' = [handle EXCEPT ![p] = h]
  /\ Overwrite(IF size < TimestampSize THEN {} ELSE {h.ptr}, Torn)
  /\ \/ /\ fits
        /\ at' = [at EXCEPT ![p] = "in"]
        /\ UNCHANGED <<op, block_mutex>>
     \/ /\ ~fits
        /\ Goto(p, "overrun", "start")
        /\ Unlock(b)
  /\ UNCHANGED <<globalVars, lockcond, datacond, block_clients,
                 descriptors, segment, dead>>

(* The copy is done; it is whole if nobody else touched the block meanwhile. *)
WriteEnd(p) ==
  LET a == handle[p].ptr IN
  /\ At(p, "write", "in")
  /\ Overwrite({a}, IF bytes[a] = Torn THEN msg[p] ELSE Torn)
  /\ Goto(p, "unregister", "start")
  /\ UNCHANGED <<globalVars, blockVars, descriptors, segment, handle, dead>>

(* signal_data, then the end of serialize unlocks the descriptor. *)
SignalData(p) ==
  LET b == Blk(p) IN
  /\ op[p] = "signal"
  /\ datacond' = [datacond EXCEPT ![b] = {}]
  /\ Unlock(b)
  /\ Return(p)
  /\ UNCHANGED <<globalVars, lockcond, block_clients, memVars, handle, dead>>

-----------------------------------------------------------------------------
(* Subscriber *)

(* startReceiving(), or a releaser looking for the block it will reset. *)
Subscribe(s) ==
  /\ s \in Subscribers \cup Releasers /\ op[s] = "idle"
  /\ SegmentOpen
  /\ Goto(s, "findHandle", "start")
  /\ UNCHANGED <<globalVars, blockVars, memVars, localVars, dead>>

(* findHandle: connectBlock on the first active descriptor of that name,    *)
(* an invalid handle if there is none.  Only a valid handle is used.        *)
FindHandle(s) ==
  /\ At(s, "findHandle", "in")
  /\ \/ \E i \in Block :
          /\ IsFirst(i, Matching(s))
          /\ handle' = [handle EXCEPT ![s] = FreshHandle(i, descriptors[i])]
     \/ /\ Matching(s) = {}
        /\ handle' = [handle EXCEPT ![s] = NoHandle]
  /\ mutex' = NULL
  /\ IF is_valid(handle'[s])
       THEN Goto(s, IF s \in Subscribers THEN "wait_data" ELSE "resetBlock", "start")
       ELSE Goto(s, "idle", "start")
  /\ UNCHANGED <<cond, num_clients, blockVars, memVars, msg, dead>>

(* wait_data: lock the descriptor and wait on datacond. *)
WaitData(s) ==
  LET b == Blk(s) IN
  /\ At(s, "wait_data", "start")
  /\ block_mutex[b] = NULL
  /\ datacond' = [datacond EXCEPT ![b] = @ \cup {s}]
  /\ at' = [at EXCEPT ![s] = "wait"]
  /\ UNCHANGED <<op, globalVars, block_mutex, lockcond, block_clients,
                 memVars, localVars, dead>>

(* The wait times out after a second; wait_data returns false and           *)
(* receiveThread calls it again.                                            *)
WaitTimeout(s) ==
  LET b == Blk(s) IN
  /\ At(s, "wait_data", "wait")
  /\ s \in datacond[b]
  /\ datacond' = [datacond EXCEPT ![b] = @ \ {s}]
  /\ at' = [at EXCEPT ![s] = "start"]
  /\ UNCHANGED <<op, globalVars, block_mutex, lockcond, block_clients,
                 memVars, localVars, dead>>

(* A notified wait takes the mutex back and registers the client. *)
WaitNotified(s) ==
  LET b == Blk(s) IN
  /\ At(s, "wait_data", "wait")
  /\ s \notin datacond[b]
  /\ block_mutex[b] = NULL
  /\ block_mutex' = [block_mutex EXCEPT ![b] = s]
  /\ block_clients' = [block_clients EXCEPT ![b] = @ + 1]
  /\ Goto(s, "register", "start")
  /\ UNCHANGED <<globalVars, lockcond, datacond, memVars, localVars, dead>>

RegisterGlobalClient(s) ==
  /\ op[s] = "register"
  /\ mutex = NULL
  /\ num_clients' = num_clients + 1
  /\ Unlock(Blk(s))
  /\ Goto(s, "read", "start")
  /\ UNCHANGED <<mutex, cond, lockcond, datacond, block_clients,
                 memVars, localVars, dead>>

(* deserialize: refresh the handle and open an IStream of size_ bytes.  If  *)
(* not even a timestamp fits, StreamOverrun ends the receive thread with    *)
(* both registrations in place.                                             *)
ReadStart(s) ==
  LET b == Blk(s)
      h == Refreshed(s)
      size == descriptors[b].size_
  IN
  /\ At(s, "read", "start")
  /\ is_valid(h) \/ size < TimestampSize
  /\ handle' = [handle EXCEPT ![s] = h]
  /\ \/ /\ size >= TimestampSize
        /\ msg' = [msg EXCEPT ![s] = [body |-> bytes[h.ptr], size |-> size]]
        /\ at' = [at EXCEPT ![s] = "in"]
        /\ UNCHANGED op
     \/ /\ size < TimestampSize
        /\ Goto(s, "overrun", "start")
        /\ UNCHANGED msg
  /\ UNCHANGED <<globalVars, blockVars, memVars, dead>>

(* A length found in contents that do not belong to a message of size_      *)
(* bytes may ask for more than there is: StreamOverrun again.               *)
MayOverrun(m) ==
  /\ LengthsInMessage
  /\ m.body = Torn \/ (m.body \in Message /\ m.body.size > m.size)

ReadEnd(s) ==
  /\ At(s, "read", "in")
  /\ \/ Goto(s, "unregister", "start")
     \/ MayOverrun(msg[s]) /\ Goto(s, "overrun", "start")
  /\ UNCHANGED <<globalVars, blockVars, memVars, localVars, dead>>

UnregisterClient(s) ==
  LET b == Blk(s) IN
  /\ op[s] = "unregister_client"
  /\ block_mutex[b] = NULL
  /\ block_clients' = [block_clients EXCEPT ![b] = @ - 1]
  /\ lockcond' = [lockcond EXCEPT ![b] = IF block_clients'[b] = 0 THEN {} ELSE @]
  /\ Goto(s, "callback", "start")
  /\ UNCHANGED <<globalVars, block_mutex, datacond, memVars, localVars, dead>>

(* receiveThread hands the message to the user callback and loops. *)
Callback(s) ==
  /\ op[s] = "callback"
  /\ msg' = [msg EXCEPT ![s] = NoMessage]
  /\ Goto(s, "wait_data", "start")
  /\ UNCHANGED <<globalVars, blockVars, memVars, handle, dead>>

-----------------------------------------------------------------------------
(* Manager and releasers *)

ManagerExit(m) ==
  /\ m \in Managers /\ op[m] = "idle"
  /\ Goto(m, "resetAllBlocks", "start")
  /\ UNCHANGED <<globalVars, blockVars, memVars, localVars, dead>>

(* resetAllBlocks: each block is destroyed, and then its descriptor reset.   *)
ResetDestroy(m) ==
  /\ At(m, "resetAllBlocks", "in")
  /\ \E i \in Block : /\ IsFirst(i, Block \ Inactive)
                      /\ Destroy({descriptors[i].name_})
  /\ at' = [at EXCEPT ![m] = "destroyed"]
  /\ UNCHANGED <<op, globalVars, blockVars, descriptors, handle, dead>>

ResetDescriptor(m) ==
  /\ At(m, "resetAllBlocks", "destroyed")
  /\ \E i \in Block : /\ IsFirst(i, Block \ Inactive)
                      /\ descriptors' = [descriptors EXCEPT ![i] = reset(@)]
  /\ at' = [at EXCEPT ![m] = "in"]
  /\ UNCHANGED <<op, globalVars, blockVars, segment, bytes, localVars, dead>>

(* The end of the loop, and then the removal of the segment's name.          *)
ResetEnd(m) ==
  /\ At(m, "resetAllBlocks", "in")
  /\ Block \subseteq Inactive
  /\ mutex' = NULL
  /\ Goto(m, "exited", "start")
  /\ UNCHANGED <<cond, num_clients, blockVars, memVars, localVars, dead>>

(* resetBlock holds the descriptor's mutex and goes on to the global one. *)
ResetBlockEnter(r) ==
  /\ At(r, "resetBlock", "in")
  /\ Goto(r, "clear", "start")
  /\ UNCHANGED <<globalVars, blockVars, memVars, localVars, dead>>

ClearDestroy(r) ==
  /\ At(r, "clear", "in")
  /\ Destroy({descriptors[Blk(r)].name_})
  /\ at' = [at EXCEPT ![r] = "destroyed"]
  /\ UNCHANGED <<op, globalVars, blockVars, descriptors, handle, dead>>

ResetBlockClear(r) ==
  LET b == Blk(r) IN
  /\ At(r, "clear", "destroyed")
  /\ descriptors' = [descriptors EXCEPT ![b] = reset(@)]
  /\ handle' = [handle EXCEPT ![r] = NoHandle]
  /\ mutex' = NULL
  /\ Unlock(b)
  /\ Goto(r, "idle", "start")
  /\ UNCHANGED <<cond, num_clients, lockcond, datacond, block_clients,
                 segment, bytes, msg, dead>>

(* Copying through a null pointer kills the process. *)
Fault(p) ==
  /\ At(p, "write", "start") \/ At(p, "read", "start")
  /\ ~is_valid(Refreshed(p))
  /\ descriptors[Blk(p)].size_ >= TimestampSize
  /\ dead' = dead \cup {p}
  /\ UNCHANGED <<pcVars, globalVars, blockVars, memVars, localVars>>

-----------------------------------------------------------------------------
(* The environment *)

(* A process is killed where it stands; nothing it holds is given back. *)
Die(p) ==
  /\ p \in MayDie
  /\ dead' = dead \cup {p}
  /\ UNCHANGED <<pcVars, globalVars, blockVars, memVars, localVars>>

SpuriousWakeup(p) ==
  /\ SpuriousWakeups /\ at[p] = "wait"
  /\ \/ /\ p \in cond
        /\ cond' = cond \ {p}
        /\ UNCHANGED <<lockcond, datacond>>
     \/ \E b \in Block :
          /\ p \in lockcond[b]
          /\ lockcond' = [lockcond EXCEPT ![b] = @ \ {p}]
          /\ UNCHANGED <<cond, datacond>>
     \/ \E b \in Block :
          /\ p \in datacond[b]
          /\ datacond' = [datacond EXCEPT ![b] = @ \ {p}]
          /\ UNCHANGED <<cond, lockcond>>
  /\ UNCHANGED <<pcVars, mutex, num_clients, block_mutex, block_clients,
                 memVars, localVars, dead>>

-----------------------------------------------------------------------------
(* What a process does once it is inside a call of the library. *)
LockStep(p) ==
  \/ LockGlobal(p) \/ RelockGlobal(p) \/ LockBlock(p) \/ RelockBlock(p)
  \/ UnregisterGlobalClient(p)

AllocateStep(p) ==
  \/ AllocateReconnect(p) \/ AllocateClaim(p) \/ AllocateNone(p)
  \/ AllocateConstruct(p) \/ AllocateThrow(p)

ReallocateStep(p) ==
  \/ ReallocateCheck(p) \/ ReallocateRefresh(p) \/ ReallocateResize(p)
  \/ GrowDestroy(p) \/ GrowConstruct(p) \/ GrowThrow(p)

SerializeStep(p) ==
  SerializeRegister(p) \/ WriteStart(p) \/ WriteEnd(p) \/ SignalData(p)

ReceiveStep(s) ==
  \/ FindHandle(s) \/ WaitData(s) \/ WaitTimeout(s) \/ WaitNotified(s)
  \/ RegisterGlobalClient(s) \/ ReadStart(s) \/ ReadEnd(s)
  \/ UnregisterClient(s) \/ Callback(s)

ResetStep(m) ==
  \/ ResetDestroy(m) \/ ResetDescriptor(m) \/ ResetEnd(m)
  \/ ResetBlockEnter(m) \/ ClearDestroy(m) \/ ResetBlockClear(m)

InsideStep(p) ==
  /\ p \notin dead
  /\ \/ LockStep(p) \/ AllocateStep(p) \/ ReallocateStep(p)
     \/ SerializeStep(p) \/ ReceiveStep(p) \/ ResetStep(p) \/ Fault(p)

(* What its caller or its environment makes it do. *)
OutsideStep(p) ==
  /\ p \notin dead
  /\ \/ Initialise(p) \/ Publish(p) \/ Subscribe(p) \/ ManagerExit(p)
     \/ Die(p) \/ SpuriousWakeup(p)

Next == \E p \in Proc : InsideStep(p) \/ OutsideStep(p)

Spec == Init /\ [][Next]_vars

(* A live process inside a call keeps running, and the mutexes are fair: a  *)
(* process that finds one free again and again gets it.                     *)
Fairness == \A p \in Proc : SF_vars(InsideStep(p))
FairSpec == Spec /\ Fairness

-----------------------------------------------------------------------------
(* Properties *)

PublisherOps ==
  {"new", "idle", "allocateBlock", "reallocateBlock", "refresh", "resize", "grow",
   "serialize", "write", "unregister", "signal", "overrun"}
SubscriberOps ==
  {"idle", "findHandle", "wait_data", "register", "read", "unregister",
   "unregister_client", "callback", "overrun"}
ManagerOps == {"idle", "resetAllBlocks", "exited"}
ReleaserOps == {"idle", "findHandle", "resetBlock", "clear"}

Handle == [handle : Block \cup {NoBlock}, ptr : Addresses \cup {NULL},
           resize_count : Nat]

(* The methods that index descriptors[] with the handle of their caller.     *)
HandleOps ==
  {"reallocateBlock", "refresh", "resize", "grow", "serialize", "write", "signal",
   "wait_data", "register", "read", "unregister", "unregister_client", "callback",
   "overrun", "resetBlock", "clear"}

Constructing(p) == at[p] \in {"construct", "reconstruct"}

ControlTypeOK ==
  /\ op \in [Proc -> PublisherOps \cup SubscriberOps \cup ManagerOps \cup ReleaserOps]
  /\ \A p \in Publishers : op[p] \in PublisherOps
  /\ \A s \in Subscribers : op[s] \in SubscriberOps
  /\ \A m \in Managers : op[m] \in ManagerOps
  /\ \A r \in Releasers : op[r] \in ReleaserOps
  /\ at \in [Proc -> {"start", "wait", "in", "construct", "reconstruct", "destroyed"}]
  /\ \A p \in Proc : Constructing(p) => op[p] \in {"allocateBlock", "grow"}
  /\ dead \subseteq Proc

MonitorTypeOK ==
  /\ mutex \in Proc \cup {NULL} /\ cond \subseteq Proc /\ num_clients \in Int
  /\ block_mutex \in [Block -> Proc \cup {NULL}]
  /\ lockcond \in [Block -> SUBSET Proc] /\ datacond \in [Block -> SUBSET Proc]
  /\ block_clients \in [Block -> Int]

MemoryTypeOK ==
  /\ descriptors \in [Block -> Descriptor]
  /\ segment \in [Names -> [ptr : Addresses \cup {NULL}, size : Nat]]
  /\ bytes \in [Addresses -> Bytes]

MessageTypeOK ==
  /\ msg \in [Proc -> {NoMessage} \cup Message \cup Received]
  /\ \A p \in Publishers : op[p] \notin {"new", "idle"} => msg[p] \in Message
  /\ \A s \in Subscribers : At(s, "read", "in") => msg[s] \in Received

HandleTypeOK ==
  /\ handle \in [Proc -> Handle]
  /\ \A p \in Proc : Blk(p) = NoBlock => /\ ~is_valid(handle[p])
                                        /\ op[p] \notin HandleOps
                                        /\ ~Constructing(p)

(* Every variable ranges over the values the code can give it; in particular *)
(* the assertions handle < MSGTSharedMemoryNumBlock hold wherever a handle   *)
(* is used.                                                                  *)
TypeOK == ControlTypeOK /\ MonitorTypeOK /\ MemoryTypeOK /\ MessageTypeOK /\ HandleTypeOK

(* The assertions num_clients >= 0 of unregister_global_client and           *)
(* unregister_client, and more: each count is exactly the number of          *)
(* processes between their registration and their unregistration, those that *)
(* a StreamOverrun or a kill keeps there for ever included.                  *)
GlobalClients == {p \in Proc : op[p] \in {"write", "read", "unregister", "overrun"}}
BlockClients(b) ==
  {s \in Subscribers : /\ Blk(s) = b
                       /\ op[s] \in {"register", "read", "unregister",
                                     "unregister_client", "overrun"}}
ClientsCounted ==
  /\ num_clients = Cardinality(GlobalClients)
  /\ \A b \in Block : block_clients[b] = Cardinality(BlockClients(b))

(* Nobody sleeps in check_global_clients or check_clients without a          *)
(* registered client left to notify it: the last one to leave never misses a *)
(* waiter.                                                                   *)
NoLostWakeup ==
  /\ cond # {} => num_clients # 0
  /\ \A b \in Block : lockcond[b] # {} => block_clients[b] # 0

(* Publishers that initialise a topic at the same time end up with one block *)
(* for it: the two loops of allocateBlock are one critical section.          *)
OneBlockPerTopic ==
  \A b, c \in Block :
    /\ descriptors[b].active_ /\ descriptors[c].active_
    /\ descriptors[b].name_ = descriptors[c].name_
    => b = c

(* A publisher that copies a message copies it into the block that the       *)
(* segment holds for its topic now, and the message fits: no resize by       *)
(* another publisher since it cached the pointer goes unnoticed.             *)
WriterInBlock ==
  \A p \in Publishers :
    At(p, "write", "in") => /\ handle[p].ptr = segment[Topic[p]].ptr
                            /\ msg[p].size <= segment[Topic[p]].size

(* The same for a subscriber that copies a message out.                      *)
ReaderInBlock ==
  \A s \in Subscribers :
    At(s, "read", "in") => /\ handle[s].ptr = segment[Topic[s]].ptr
                           /\ msg[s].size <= segment[Topic[s]].size

(* What a process holds follows from where it is.                            *)
HoldsGlobal(p) ==
  op[p] \in GlobalSections /\ at[p] \notin {"start", "wait"}
HoldsBlock(p) ==
  \/ op[p] \in {"refresh", "resize", "grow", "write", "signal", "register", "clear"}
  \/ op[p] \in BlockSections /\ at[p] = "in"
  \/ op[p] = "unregister" /\ p \in Publishers

(* Each mutex is owned by the one process that is inside its section, those  *)
(* that died there included; the waits release it and take it back.          *)
GlobalLockInv == \A p \in Proc : HoldsGlobal(p) <=> mutex = p
BlockLockInv ==
  \A p \in Proc, b \in Block : HoldsBlock(p) /\ Blk(p) = b <=> block_mutex[b] = p
LockInv == GlobalLockInv /\ BlockLockInv

(* What a process needs before its next step inside a call: a mutex, or to be *)
(* notified.  A subscriber's wait for data is none of these: it times out.   *)
WantsGlobal(p) ==
  \/ op[p] \in GlobalSections /\ (at[p] = "start" \/ (at[p] = "wait" /\ p \notin cond))
  \/ op[p] \in {"register", "unregister"} \/ At(p, "serialize", "in")
AsleepGlobal(p) == op[p] \in GlobalSections /\ at[p] = "wait" /\ p \in cond
Resumed(p) ==
  op[p] \in BlockSections /\ at[p] = "wait" /\ p \notin lockcond[Blk(p)]
Woken(s) == At(s, "wait_data", "wait") /\ s \notin datacond[Blk(s)]
WantsBlock(p) ==
  \/ op[p] \in BlockSections /\ at[p] = "start"
  \/ At(p, "wait_data", "start") \/ Resumed(p) \/ Woken(p)
  \/ op[p] = "unregister_client"
AsleepBlock(p) ==
  op[p] \in BlockSections /\ at[p] = "wait" /\ p \in lockcond[Blk(p)]

(* The processes that p waits for: the owner of the mutex it needs, or the   *)
(* clients whose last one will notify it.                                    *)
WaitsFor(p) ==
  {q \in Proc : \/ WantsGlobal(p) /\ mutex = q
                \/ AsleepGlobal(p) /\ q \in GlobalClients
                \/ WantsBlock(p) /\ block_mutex[Blk(p)] = q
                \/ AsleepBlock(p) /\ q \in BlockClients(Blk(p))}

(* The order in which the two monitors may be waited for; 0 is a process     *)
(* that nothing keeps from its next step.                                    *)
Level(p) ==
  CASE WantsGlobal(p) /\ mutex # NULL -> 1
    [] AsleepGlobal(p) -> 2
    [] WantsBlock(p) /\ block_mutex[Blk(p)] # NULL -> 3
    [] AsleepBlock(p) -> 4
    [] OTHER -> 0

(* Nobody waits for nobody, and waiting never goes round in a circle: from   *)
(* any process that is kept waiting, the waits lead in four steps at most to *)
(* one that holds or registered what is waited for and can go on - unless it *)
(* was killed or has left its call with a StreamOverrun.                     *)
NoDeadlock ==
  \A p \in Proc :
    Level(p) > 0 => WaitsFor(p) # {} /\ \A q \in WaitsFor(p) : Level(q) < Level(p)

(* While no allocation fails and nobody resets: a descriptor in use has a    *)
(* topic and a block of the size it records, except while its owner          *)
(* constructs the next one, and no two topics share memory.                  *)
BlockUnderConstruction(b) == \E p \in Proc : Constructing(p) /\ Blk(p) = b

DescriptorInv(b) ==
  LET desc == descriptors[b]
      block == segment[desc.name_]
  IN IF desc.active_
       THEN /\ desc.name_ \in Topics
            /\ desc.size_ <= desc.allocated_ /\ InitialSize <= desc.allocated_
            /\ desc.resize_count_ > 0
            /\ IF BlockUnderConstruction(b)
                 THEN block = Absent
                 ELSE block.ptr \in Addresses /\ block.size = desc.allocated_
       ELSE desc = EmptyDescriptor

SegmentInv ==
  /\ \A n \in Names :
       \/ segment[n] = Absent
       \/ \E b \in Block : descriptors[b].active_ /\ descriptors[b].name_ = n
  /\ \A m, n \in Names :
       segment[m].ptr = segment[n].ptr /\ segment[n].ptr # NULL => m = n

(* While nobody resets: a handle belongs to its process's topic for ever,    *)
(* and a resize count that matches the descriptor's means that the cached    *)
(* pointer is current.                                                       *)
HandleInv(p) ==
  LET desc == descriptors[Blk(p)] IN
  Blk(p) # NoBlock =>
    /\ desc.active_ /\ desc.name_ = Topic[p]
    /\ handle[p].resize_count <= desc.resize_count_
    /\ handle[p].resize_count = desc.resize_count_ /\ ~BlockUnderConstruction(Blk(p))
         => handle[p].ptr = segment[Topic[p]].ptr
    /\ At(p, "write", "in") => /\ handle[p].resize_count = desc.resize_count_
                              /\ msg[p].size <= desc.allocated_

(* While no allocation fails and nobody resets: a publisher has no handle    *)
(* before it claims its block, nobody else knows a block that is claimed and *)
(* not yet constructed, and a grow always moves the resize count.            *)
ConstructionInv(p) ==
  LET desc == descriptors[Blk(p)] IN
  /\ op[p] \in {"new", "allocateBlock"} /\ ~Constructing(p) => handle[p] = NoHandle
  /\ at[p] # "reconstruct"
  /\ op[p] = "allocateBlock" /\ Constructing(p) =>
       /\ desc.allocated_ = InitialSize
       /\ \A q \in Proc : Blk(q) = Blk(p) => q = p
  /\ op[p] = "grow" => msg[p].size > desc.allocated_

ResizeInv ==
  /\ LockInv /\ OneBlockPerTopic /\ SegmentInv
  /\ \A b \in Block : DescriptorInv(b)
  /\ \A p \in Proc : HandleInv(p) /\ ConstructionInv(p)

(* While nobody resets and no wait ends unnotified: who grows a block and is *)
(* past check_global_clients has it to itself, and a receiver has as many    *)
(* bytes as the block that its pointer is current for.                       *)
Growing(p) ==
  /\ op[p] = "grow"
  /\ at[p] = "in" \/ Constructing(p) \/ (at[p] = "wait" /\ p \notin cond)

PinInv(p) == Growing(p) => \A q \in GlobalClients : Blk(q) # Blk(p)

ReadInv(s) ==
  At(s, "read", "in") =>
    /\ handle[s].resize_count = descriptors[Blk(s)].resize_count_
    /\ msg[s].size <= descriptors[Blk(s)].allocated_

CopyInv == \A p \in Proc : PinInv(p) /\ ReadInv(p)

(* With one publisher on each topic: what it recorded for its message stays  *)
(* recorded until the message is written.                                    *)
RecordedInv(p) ==
  /\ op[p] = "serialize" \/ At(p, "write", "start")
       => descriptors[Blk(p)].size_ = msg[p].size
  /\ op[p] # "overrun"

(* With one publisher and one subscriber on each topic, and no wait that     *)
(* ends unnotified: who is past check_clients finds the other one outside,   *)
(* and who is about to be finds it asleep.                                   *)
ExclusionInv(p, s) ==
  Blk(p) = Blk(s) /\ Blk(p) # NoBlock =>
    /\ HoldsBlock(p) \/ Resumed(p) => s \notin BlockClients(Blk(p))
    /\ Resumed(p) => ~Woken(s)

(* No two publishers ever copy into the same memory at the same time.        *)
OneWriter ==
  \A p, q \in Publishers :
    At(p, "write", "in") /\ At(q, "write", "in") /\ handle[p].ptr = handle[q].ptr
    => p = q

(* While a subscriber copies a message out of a block, no publisher is past  *)
(* the check_clients of that block: it neither writes nor resizes it.        *)
ReadExcludesWrite ==
  \A s \in Subscribers, p \in Publishers :
    /\ At(s, "read", "in") /\ Blk(p) = Blk(s)
    => ~ \/ op[p] \in {"refresh", "resize", "grow", "write"}
         \/ At(p, "reallocateBlock", "in") \/ At(p, "serialize", "in")

(* The memory of a topic's block is never freed or moved while it is copied. *)
CopyPinsBlock ==
  [][\A p \in Proc :
       At(p, "write", "in") \/ At(p, "read", "in")
       => segment'[Topic[p]].ptr = segment[Topic[p]].ptr]_vars

(* No publisher meets a StreamOverrun: the size_ that reallocateBlock        *)
(* recorded for its message is still there when serialize reads it.          *)
NoOverrun == \A p \in Publishers : op[p] # "overrun"

(* A delivered message is one that a publisher of that topic wrote, whole,   *)
(* and is read with the length it was written with.                          *)
DeliveredIntact ==
  \A s \in Subscribers :
    op[s] = "callback" =>
      /\ msg[s].body \in Message
      /\ msg[s].body.size = msg[s].size
      /\ Topic[msg[s].body.from] = Topic[s]

(* connectBlock's assertion ret.second >= descriptors[handle].size_, where   *)
(* findHandle is about to evaluate it.                                       *)
BlockPresent ==
  \A s \in Subscribers \cup Releasers, b \in Block :
    At(s, "findHandle", "in") /\ IsFirst(b, Matching(s))
    => segment[descriptors[b].name_].size >= descriptors[b].size_

(* Somebody was killed inside a section, or while it was registered.         *)
DeadInside ==
  \E q \in dead : \/ HoldsGlobal(q) \/ HoldsBlock(q)
                  \/ q \in GlobalClients \/ \E b \in Block : q \in BlockClients(b)

(* A publish() on a valid handle returns, and so does the initialisation     *)
(* that the first one begins with, if nobody was killed inside a section and *)
(* the copies of other topics, which share num_clients, leave it at zero     *)
(* again and again.  Whoever leaves with a StreamOverrun stays in the count. *)
Publishing(p) == op[p] \in {"allocateBlock", "reallocateBlock"}

PublishReturns ==
  []<>(num_clients = 0) =>
    \A p \in Publishers :
      (Publishing(p) ~> op[p] = "idle" \/ p \in dead \/ DeadInside)

(* "Publish an image on the topics associated with this Publisher": its      *)
(* caller expects every publish() to return.                                 *)
PublishAlwaysReturns ==
  \A p \in Publishers : (Publishing(p) ~> op[p] = "idle" \/ p \in dead)

(* A subscriber that signal_data woke gets to call its user.                 *)
SignalDelivers ==
  \A s \in Subscribers :
    (At(s, "wait_data", "wait") /\ s \notin datacond[Blk(s)]
       ~> op[s] = "callback" \/ s \in dead)

(* The manager's resetAllBlocks returns, under the same two conditions.      *)
ManagerExits ==
  []<>(num_clients = 0) =>
    \A m \in Managers : (op[m] = "resetAllBlocks" ~> op[m] = "exited" \/ DeadInside)

=============================================================================
