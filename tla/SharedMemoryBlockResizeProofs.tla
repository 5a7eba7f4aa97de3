------------------- MODULE SharedMemoryBlockResizeProofs -------------------
(***************************************************************************)
(* Proofs about the resizing of blocks in SharedMemoryBlock, and about     *)
(* what keeps a block in place while somebody copies, for any number of    *)
(* publishers, subscribers, topics, blocks and message sizes, as long as   *)
(* no allocation fails and nobody resets a block.                          *)
(***************************************************************************)
EXTENDS SharedMemoryBlockProofs

-----------------------------------------------------------------------------
(* Resizing: no allocation fails and nobody resets                           *)

Undisturbed == ~SegmentMayFill /\ Managers = {} /\ Releasers = {}

(* Everything the invariant says of one process, and of all the blocks.      *)
ProcessInv(p) == HandleInv(p) /\ ConstructionInv(p)
BlocksInv == SegmentInv /\ \A b \in Block : DescriptorInv(b)

LEMMA ResizeParts ==
  ResizeInv <=> /\ LockInv /\ OneBlockPerTopic /\ BlocksInv
                /\ \A p \in Proc : ProcessInv(p)
  BY DEF ResizeInv, BlocksInv, ProcessInv

(* Who is inside the global mutex is there alone, and so is who is inside    *)
(* the mutex of a block.                                                     *)
LEMMA GlobalAlone ==
  ASSUME GlobalLockInv, NEW p \in Proc, NEW q \in Proc, HoldsGlobal(p), HoldsGlobal(q)
  PROVE  p = q
  BY DEF GlobalLockInv

LEMMA BlockAlone ==
  ASSUME BlockLockInv, NEW p \in Proc, NEW q \in Proc,
         HoldsBlock(p), HoldsBlock(q), Blk(p) = Blk(q), Blk(p) \in Block
  PROVE  p = q
  BY DEF BlockLockInv

LEMMA ConstructingHolds ==
  ASSUME TypeOK, NEW p \in Proc, Constructing(p)
  PROVE  HoldsGlobal(p) /\ Blk(p) \in Block /\ op[p] \in {"allocateBlock", "grow"}
<1>1. op[p] \in {"allocateBlock", "grow"}
  BY DEF TypeOK, ControlTypeOK
<1>2. Blk(p) \in Block
  BY DEF TypeOK, HandleTypeOK, Handle, Blk
<1>3. QED BY <1>1, <1>2 DEF HoldsGlobal, GlobalSections, Constructing

(* Two topics in use have different blocks.                                  *)
LEMMA TopicsApart ==
  ASSUME TypeOK, OneBlockPerTopic, NEW q \in Proc, HandleInv(q), Blk(q) \in Block,
         NEW b \in Block, descriptors[b].active_, b # Blk(q)
  PROVE  descriptors[b].name_ # Topic[q]
<1>1. Blk(q) # NoBlock
  BY NoBlockNotBlock
<1>2. descriptors[Blk(q)].active_ /\ descriptors[Blk(q)].name_ = Topic[q]
  BY <1>1 DEF HandleInv
<1>3. QED BY <1>2 DEF OneBlockPerTopic

(* In these conditions the processes are publishers and subscribers only.    *)
LEMMA PublishersOrSubscribers ==
  ASSUME TypeOK, Undisturbed, NEW p \in Proc
  PROVE  /\ p \in Publishers \/ p \in Subscribers
         /\ Topic[p] \in Topics
         /\ op[p] \in PublisherOps \cup SubscriberOps
  BY DataAssumption DEF TypeOK, ControlTypeOK, Undisturbed, Proc

(* A descriptor whose size_ alone is recorded anew, within its allocation.   *)
SameBlock(desc, new) ==
  \/ new = desc
  \/ /\ desc.active_ /\ new.active_ /\ new.name_ = desc.name_
     /\ new.allocated_ = desc.allocated_ /\ new.resize_count_ = desc.resize_count_
     /\ new.size_ <= new.allocated_

(* A step of p in which nothing else changes in the descriptors and the      *)
(* segment needs a look at p only.                                           *)
LEMMA QuietFrame ==
  ASSUME TypeOK, GlobalLockInv, BlocksInv, \A q \in Proc : ProcessInv(q),
         NEW p \in Proc,
         \A b \in Block : SameBlock(descriptors[b], descriptors'[b]),
         segment' = segment,
         \A q \in Proc \ {p} : op'[q] = op[q] /\ at'[q] = at[q] /\ handle'[q] = handle[q],
         \A q \in Publishers \ {p} : msg'[q] = msg[q],
         ~Constructing(p), ~Constructing(p)',
         Blk(p)' = Blk(p) \/ HoldsGlobal(p),
         ProcessInv(p)'
  PROVE  BlocksInv' /\ \A q \in Proc : ProcessInv(q)'
<1>1. \A b \in Block : BlockUnderConstruction(b)' <=> BlockUnderConstruction(b)
  BY DEF BlockUnderConstruction, Constructing, Blk
<1>2. \A b \in Block : DescriptorInv(b)'
  <2> TAKE b \in Block
  <2>1. DescriptorInv(b)
    BY DEF BlocksInv
  <2>2. CASE descriptors'[b] = descriptors[b]
    BY <2>1, <2>2, <1>1 DEF DescriptorInv
  <2>3. CASE descriptors'[b] # descriptors[b]
    BY <2>1, <2>3, <1>1 DEF DescriptorInv, SameBlock
  <2>4. QED BY <2>2, <2>3
<1>3. SegmentInv'
  BY DEF BlocksInv, SegmentInv, SameBlock
<1>4. ASSUME NEW q \in Proc \ {p} PROVE ProcessInv(q)'
  <2>0. HandleInv(q) /\ ConstructionInv(q) /\ Blk(q)' = Blk(q)
    BY DEF ProcessInv, Blk
  <2>p. At(q, "write", "in") \/ op[q] = "grow" => q \in Publishers
    BY DEF TypeOK, ControlTypeOK, SubscriberOps, ManagerOps, ReleaserOps, Proc, At
  <2>1. HandleInv(q)'
    <3> SUFFICES ASSUME Blk(q) # NoBlock PROVE HandleInv(q)'
      BY <2>0 DEF HandleInv
    <3>1. Blk(q) \in Block
      BY DEF TypeOK, HandleTypeOK, Handle, Blk
    <3>2. LET desc == descriptors[Blk(q)]
              new == descriptors'[Blk(q)]
          IN  /\ desc.active_ => new.active_
              /\ new.name_ = desc.name_ /\ new.allocated_ = desc.allocated_
              /\ new.resize_count_ = desc.resize_count_
      BY <3>1 DEF SameBlock
    <3>3. QED BY <2>0, <2>p, <3>1, <3>2, <1>1 DEF HandleInv, At
  <2>2. ConstructionInv(q)'
    <3>1. op[q] = "allocateBlock" /\ Constructing(q) => Blk(p)' = Blk(p)
      BY ConstructingHolds, GlobalAlone
    <3>2. op[q] = "allocateBlock" /\ Constructing(q) => \A r \in Proc : Blk(r)' = Blk(q) => r = q
      BY <2>0, <3>1 DEF ConstructionInv, Blk
    <3>3. op[q] = "grow" => msg'[q].size > descriptors[Blk(q)].allocated_
      BY <2>0, <2>p DEF ConstructionInv
    <3>4. op[q] = "grow" \/ Constructing(q) =>
            descriptors'[Blk(q)].allocated_ = descriptors[Blk(q)].allocated_
      BY BlockInRange, ConstructingHolds DEF HandleOps, SameBlock
    <3>5. QED BY <2>0, <3>2, <3>3, <3>4 DEF ConstructionInv, Constructing
  <2>3. QED BY <2>1, <2>2 DEF ProcessInv
<1>5. QED BY <1>2, <1>3, <1>4 DEF BlocksInv

(* The same when its handle stays what it is and p does not begin to write.  *)
LEMMA QuietStep ==
  ASSUME TypeOK, GlobalLockInv, BlocksInv, \A q \in Proc : ProcessInv(q),
         NEW p \in Proc,
         descriptors' = descriptors, segment' = segment, handle' = handle,
         \A q \in Proc \ {p} : op'[q] = op[q] /\ at'[q] = at[q],
         \A q \in Publishers \ {p} : msg'[q] = msg[q],
         ~Constructing(p), ~Constructing(p)', at'[p] # "reconstruct",
         At(p, "write", "in")' => At(p, "write", "in") /\ msg'[p] = msg[p],
         op'[p] \in {"new", "allocateBlock"} => op[p] \in {"new", "allocateBlock"},
         op'[p] = "grow" => op[p] = "grow" /\ msg'[p] = msg[p]
  PROVE  BlocksInv' /\ \A q \in Proc : ProcessInv(q)'
<1>1. \A b \in Block : BlockUnderConstruction(b)' <=> BlockUnderConstruction(b)
  BY DEF BlockUnderConstruction, Constructing, Blk
<1>2. HandleInv(p) /\ ConstructionInv(p) /\ Blk(p)' = Blk(p)
  BY DEF ProcessInv, Blk
<1>3. HandleInv(p)'
  <2> SUFFICES ASSUME Blk(p) # NoBlock PROVE HandleInv(p)'
    BY <1>2 DEF HandleInv
  <2>1. Blk(p) \in Block
    BY DEF TypeOK, HandleTypeOK, Handle, Blk
  <2>2. QED BY <1>1, <1>2, <2>1 DEF HandleInv
<1>4. ConstructionInv(p)'
  BY <1>2 DEF ConstructionInv, NoHandle
<1>5. ProcessInv(p)'
  BY <1>3, <1>4 DEF ProcessInv
<1>6. QED BY <1>2, <1>5, QuietFrame DEF SameBlock

(* The steps that leave the descriptors and the segment alone.               *)
LEMMA FreshHandleInv ==
  ASSUME TypeOK, LockInv, BlocksInv, NEW p \in Proc, NEW b \in Block,
         HoldsGlobal(p), ~Constructing(p),
         descriptors[b].active_, descriptors[b].name_ = Topic[p],
         descriptors' = descriptors, segment' = segment,
         handle' = [handle EXCEPT ![p] = FreshHandle(b, descriptors[b])],
         ~At(p, "write", "in")'
  PROVE  HandleInv(p)'
<1>1. handle'[p] = FreshHandle(b, descriptors[b])
  BY DEF TypeOK, HandleTypeOK
<1>2. descriptors[b].resize_count_ \in Nat
  BY DEF TypeOK, MemoryTypeOK, Descriptor
<1>3. QED BY <1>1, <1>2 DEF HandleInv, FreshHandle, Blk

LEMMA QuietLock ==
  ASSUME TypeOK, GlobalLockInv, BlocksInv, \A q \in Proc : ProcessInv(q),
         NEW p \in Proc, LockStep(p)
  PROVE  BlocksInv' /\ \A q \in Proc : ProcessInv(q)'
<1>o. /\ op \in [Proc -> PublisherOps \cup SubscriberOps \cup ManagerOps \cup ReleaserOps]
      /\ at \in [Proc -> {"start", "wait", "in", "construct", "reconstruct", "destroyed"}]
  BY DEF TypeOK, ControlTypeOK
<1>1. /\ descriptors' = descriptors /\ segment' = segment /\ handle' = handle /\ msg' = msg
      /\ \A q \in Proc \ {p} : op'[q] = op[q] /\ at'[q] = at[q]
      /\ ~Constructing(p) /\ ~Constructing(p)' /\ at'[p] # "reconstruct"
      /\ op[p] # "write"
      /\ op'[p] = op[p] \/ op'[p] \in {"signal", "unregister_client"}
  <2>1. CASE LockGlobal(p) \/ RelockGlobal(p)
    BY <2>1, <1>o DEF LockGlobal, RelockGlobal, memVars, localVars, GlobalSections, Constructing
  <2>2. CASE LockBlock(p) \/ RelockBlock(p)
    BY <2>2, <1>o DEF LockBlock, RelockBlock, memVars, localVars, BlockSections, Constructing
  <2>3. CASE UnregisterGlobalClient(p)
    BY <2>3, <1>o DEF UnregisterGlobalClient, memVars, localVars, Goto, Constructing, TypeOK,
       ControlTypeOK
  <2>4. QED BY <2>1, <2>2, <2>3 DEF LockStep
<1>2. op'[p] # "write"
  BY <1>1
<1>3. QED BY <1>1, <1>2, QuietStep DEF At

LEMMA QuietSerialize ==
  ASSUME TypeOK, Undisturbed, LockInv, BlocksInv, \A q \in Proc : ProcessInv(q),
         NEW p \in Proc, SerializeStep(p)
  PROVE  BlocksInv' /\ \A q \in Proc : ProcessInv(q)'
<1>o. /\ op \in [Proc -> PublisherOps \cup SubscriberOps \cup ManagerOps \cup ReleaserOps]
      /\ at \in [Proc -> {"start", "wait", "in", "construct", "reconstruct", "destroyed"}]
      /\ msg \in [Proc -> {NoMessage} \cup Message \cup Received]
      /\ GlobalLockInv
  BY DEF TypeOK, ControlTypeOK, MessageTypeOK, LockInv
<1>g. ~Constructing(p)
  <2>1. op[p] \in {"serialize", "write", "signal"}
    BY DEF SerializeStep, SerializeRegister, WriteStart, WriteEnd, SignalData, At
  <2>2. QED BY <2>1, ConstructingHolds
<1>1. CASE SerializeRegister(p)
  BY <1>1, <1>o, <1>g, QuietStep DEF SerializeRegister, memVars, localVars, Goto, Constructing, At
<1>2. CASE WriteStart(p)
  <2> DEFINE b == Blk(p)
             desc == descriptors[b]
             h == Refreshed(p)
  <2>1. /\ p \in Publishers /\ b \in Block /\ b # NoBlock /\ op[p] = "write"
    BY <1>2, BlockInRange, NoBlockNotBlock DEF WriteStart, At, HandleOps, TypeOK, ControlTypeOK,
       SubscriberOps, ManagerOps, ReleaserOps, Proc
  <2>2. /\ h \in Handle /\ h.handle = b /\ handle' = [handle EXCEPT ![p] = h]
        /\ handle \in [Proc -> Handle]
    BY <1>2, <2>1, RefreshedType DEF WriteStart, HandleOps, TypeOK, HandleTypeOK
  <2>3. handle'[p] = h /\ Blk(p)' = b
    BY <2>2 DEF Blk
  <2>4. desc \in Descriptor /\ descriptors' = descriptors /\ segment' = segment
    BY <1>2, <2>1 DEF WriteStart, TypeOK, MemoryTypeOK
  <2>5. HandleInv(p)
    BY DEF ProcessInv
  <2>6. ~BlockUnderConstruction(b)
    <3>1. ASSUME NEW q \in Proc, Constructing(q), Blk(q) = b PROVE FALSE
      <4>1. CASE op[q] = "allocateBlock"
        <5>1. p = q
          BY <3>1, <4>1 DEF ProcessInv, ConstructionInv
        <5>2. QED BY <5>1, <4>1, <2>1
      <4>2. CASE op[q] = "grow"
        <5>1. HoldsBlock(q) /\ HoldsBlock(p)
          BY <4>2, <2>1 DEF HoldsBlock
        <5>2. QED BY <5>1, <3>1, <2>1, <4>2, BlockAlone DEF LockInv
      <4>3. QED BY <3>1, <4>1, <4>2, ConstructingHolds
    <3>2. QED BY <3>1 DEF BlockUnderConstruction
  <2>7. /\ desc.active_ /\ desc.name_ = Topic[p]
        /\ h.resize_count = desc.resize_count_ /\ h.ptr = segment[Topic[p]].ptr
    <3>1. desc.active_ /\ desc.name_ = Topic[p]
      BY <2>1, <2>5 DEF HandleInv
    <3>2. CASE Stale(p)
      BY <3>1, <3>2 DEF Refreshed, FreshHandle
    <3>3. CASE ~Stale(p)
      BY <2>1, <2>5, <2>6, <3>3 DEF Refreshed, Stale, HandleInv
    <3>4. QED BY <3>1, <3>2, <3>3
  <2>8. /\ \A q \in Publishers : msg'[q] = msg[q]
        /\ msg[p].size \in Nat
    <3>1. msg[p] \in Message
      BY <2>1 DEF TypeOK, MessageTypeOK
    <3>2. msg[p].size \in Nat
      BY <3>1, DataAssumption DEF Message
    <3>3. QED BY <1>2, <3>2, OverwriteType DEF WriteStart, Bytes
  <2>9. At(p, "write", "in")' => msg[p].size <= desc.allocated_
    <3>1. At(p, "write", "in")' => msg[p].size <= desc.size_
      BY <1>2, <1>o DEF WriteStart, At, Goto
    <3>2. desc.size_ <= desc.allocated_
      BY <2>1, <2>7 DEF BlocksInv, DescriptorInv
    <3>3. QED BY <3>1, <3>2, <2>4, <2>8 DEF Descriptor
  <2>10. desc.resize_count_ \in Nat
    BY <2>4 DEF Descriptor
  <2>11. /\ op'[p] \in {"write", "overrun"} /\ ~Constructing(p)' /\ at'[p] # "reconstruct"
         /\ \A q \in Proc \ {p} : op'[q] = op[q] /\ at'[q] = at[q] /\ handle'[q] = handle[q]
    BY <1>2, <1>o, <2>1, <2>2 DEF WriteStart, Goto, Constructing, At
  <2>12. HandleInv(p)'
    BY <2>3, <2>4, <2>7, <2>8, <2>9, <2>10, <2>1, <2>11 DEF HandleInv
  <2>13. ConstructionInv(p)'
    BY <2>11 DEF ConstructionInv
  <2>14. QED
    BY <1>o, <1>g, <2>1, <2>3, <2>4, <2>8, <2>11, <2>12, <2>13, QuietFrame DEF ProcessInv, SameBlock
<1>3. CASE WriteEnd(p)
  <2>1. Torn \in Bytes /\ msg[p] \in Bytes
    <3>1. p \in Publishers /\ op[p] = "write"
      BY <1>3 DEF WriteEnd, At, TypeOK, ControlTypeOK,
         SubscriberOps, ManagerOps, ReleaserOps, Proc
    <3>2. QED BY <3>1 DEF TypeOK, MessageTypeOK, Bytes
  <2>2. \A q \in Publishers : msg'[q] = msg[q]
    BY <1>3, <2>1, OverwriteType DEF WriteEnd
  <2>3. QED BY <1>3, <1>o, <1>g, <2>2, QuietStep DEF WriteEnd, Goto, Constructing, At
<1>4. CASE SignalData(p)
  BY <1>4, <1>o, <1>g, QuietStep DEF SignalData, Return, Goto, Constructing, At, memVars, Proc
<1>5. QED BY <1>1, <1>2, <1>3, <1>4 DEF SerializeStep

LEMMA QuietReceive ==
  ASSUME TypeOK, Undisturbed, LockInv, BlocksInv, \A q \in Proc : ProcessInv(q),
         NEW p \in Proc, ReceiveStep(p)
  PROVE  BlocksInv' /\ \A q \in Proc : ProcessInv(q)'
<1>o. /\ op \in [Proc -> PublisherOps \cup SubscriberOps \cup ManagerOps \cup ReleaserOps]
      /\ at \in [Proc -> {"start", "wait", "in", "construct", "reconstruct", "destroyed"}]
      /\ msg \in [Proc -> {NoMessage} \cup Message \cup Received]
      /\ handle \in [Proc -> Handle]
      /\ GlobalLockInv
  BY DEF TypeOK, ControlTypeOK, MessageTypeOK, HandleTypeOK, LockInv
<1>g. ~Constructing(p)
  <2>1. op[p] \in {"findHandle", "wait_data", "register", "read", "unregister_client",
                   "callback"}
    BY DEF ReceiveStep, FindHandle, WaitData, WaitTimeout, WaitNotified,
       RegisterGlobalClient, ReadStart, ReadEnd, UnregisterClient, Callback, At
  <2>2. QED BY <2>1, ConstructingHolds
<1>1. CASE FindHandle(p)
  <2>1. /\ descriptors' = descriptors /\ segment' = segment /\ msg' = msg
        /\ op[p] = "findHandle" /\ at[p] = "in"
        /\ \E o \in {"wait_data", "resetBlock", "idle"} : Goto(p, o, "start")
    BY <1>1 DEF FindHandle, memVars, At
  <2>2. /\ HoldsGlobal(p) /\ ~Constructing(p)' /\ ~At(p, "write", "in")'
        /\ op'[p] \notin {"new", "allocateBlock", "grow"} /\ at'[p] # "reconstruct"
        /\ \A q \in Proc \ {p} : op'[q] = op[q] /\ at'[q] = at[q]
    BY <2>1, <1>o DEF HoldsGlobal, GlobalSections, Goto, Constructing, At
  <2>3. HandleInv(p)'
    <3>1. CASE \E i \in Block : /\ IsFirst(i, Matching(p))
                                /\ handle' = [handle EXCEPT ![p] = FreshHandle(i, descriptors[i])]
      <4>1. PICK i \in Block : /\ IsFirst(i, Matching(p))
                               /\ handle' = [handle EXCEPT ![p] = FreshHandle(i, descriptors[i])]
        BY <3>1
      <4>2. descriptors[i].active_ /\ descriptors[i].name_ = Topic[p]
        BY <4>1 DEF IsFirst, Matching, matchName
      <4>3. QED BY <1>g, <2>1, <2>2, <4>1, <4>2, FreshHandleInv
    <3>2. CASE handle' = [handle EXCEPT ![p] = NoHandle]
      BY <3>2, <1>o DEF HandleInv, Blk, NoHandle
    <3>3. QED BY <1>1, <3>1, <3>2 DEF FindHandle
  <2>4. ConstructionInv(p)'
    BY <2>2 DEF ConstructionInv
  <2>5. \A q \in Proc \ {p} : handle'[q] = handle[q]
    BY <1>1, <1>o DEF FindHandle
  <2>6. QED BY <1>g, <1>o, <2>1, <2>2, <2>3, <2>4, <2>5, QuietFrame DEF ProcessInv, SameBlock
<1>2. CASE ReadStart(p)
  <2> DEFINE b == Blk(p)
             desc == descriptors[b]
             h == Refreshed(p)
  <2>1. b \in Block /\ b # NoBlock /\ op[p] = "read" /\ p \notin Publishers
    BY <1>2, BlockInRange, NoBlockNotBlock DEF ReadStart, At, HandleOps, TypeOK, ControlTypeOK,
       PublisherOps
  <2>2. /\ handle' = [handle EXCEPT ![p] = h] /\ handle'[p] = h /\ h.handle = b
        /\ descriptors' = descriptors /\ segment' = segment
    <3>1. /\ handle' = [handle EXCEPT ![p] = h]
          /\ descriptors' = descriptors /\ segment' = segment
      BY <1>2 DEF ReadStart, memVars
    <3>2. h.handle = b
      BY <2>1, RefreshedType DEF HandleOps
    <3>3. QED BY <1>o, <3>1, <3>2
  <2>3. Blk(p)' = b
    BY <2>2 DEF Blk
  <2>4. HandleInv(p)
    BY DEF ProcessInv
  <2>5. desc.active_ /\ desc.name_ = Topic[p] /\ desc.resize_count_ \in Nat
    BY <2>1, <2>4 DEF HandleInv, TypeOK, MemoryTypeOK, Descriptor
  <2>6. /\ op'[p] \in {"read", "overrun"} /\ ~Constructing(p)' /\ at'[p] # "reconstruct"
        /\ \A q \in Proc \ {p} : op'[q] = op[q] /\ at'[q] = at[q] /\ handle'[q] = handle[q]
        /\ \A q \in Publishers : msg'[q] = msg[q]
    <3>1. /\ op' = op \/ Goto(p, "overrun", "start")
          /\ at' = [at EXCEPT ![p] = "in"] \/ Goto(p, "overrun", "start")
          /\ msg' = msg \/ \E m : msg' = [msg EXCEPT ![p] = m]
      BY <1>2 DEF ReadStart
    <3>2. QED BY <1>o, <2>1, <2>2, <3>1 DEF Goto, Constructing, Proc
  <2>7. \A c \in Block : BlockUnderConstruction(c)' <=> BlockUnderConstruction(c)
    BY <1>g, <2>6 DEF BlockUnderConstruction, Constructing, Blk
  <2>8. /\ h.resize_count <= desc.resize_count_
        /\ h.resize_count = desc.resize_count_ /\ ~BlockUnderConstruction(b)
             => h.ptr = segment[Topic[p]].ptr
    <3>1. CASE Stale(p)
      BY <2>5, <3>1 DEF Refreshed, FreshHandle
    <3>2. CASE ~Stale(p)
      BY <2>1, <2>4, <2>5, <3>2 DEF Refreshed, Stale, HandleInv
    <3>3. QED BY <3>1, <3>2
  <2>9. HandleInv(p)'
    BY <2>1, <2>2, <2>3, <2>5, <2>6, <2>7, <2>8 DEF HandleInv, At
  <2>10. ConstructionInv(p)'
    BY <2>6 DEF ConstructionInv
  <2>11. QED
    BY <1>o, <1>g, <2>1, <2>2, <2>3, <2>6, <2>9, <2>10, QuietFrame DEF ProcessInv, SameBlock
<1>3. CASE WaitData(p) \/ WaitTimeout(p) \/ WaitNotified(p) \/ RegisterGlobalClient(p)
             \/ ReadEnd(p) \/ UnregisterClient(p)
  <2>1. /\ descriptors' = descriptors /\ segment' = segment /\ handle' = handle /\ msg' = msg
        /\ op' = op \/ \E o \in {"register", "read", "unregister", "overrun", "callback"} :
                         op' = [op EXCEPT ![p] = o]
        /\ at' = [at EXCEPT ![p] = "wait"] \/ at' = [at EXCEPT ![p] = "start"]
        /\ op[p] \in {"wait_data", "register", "read", "unregister_client"}
    BY <1>3, <1>o DEF WaitData, WaitTimeout, WaitNotified, RegisterGlobalClient, ReadEnd,
       UnregisterClient, memVars, localVars, Goto, At
  <2>2. /\ ~Constructing(p)' /\ at'[p] # "reconstruct"
        /\ op'[p] \notin {"write", "new", "allocateBlock", "grow"}
        /\ \A q \in Proc \ {p} : op'[q] = op[q] /\ at'[q] = at[q]
    BY <2>1, <1>o DEF Constructing
  <2>3. QED BY <1>o, <1>g, <2>1, <2>2, QuietStep DEF At
<1>4. CASE Callback(p)
  <2>1. p \notin Publishers
    BY <1>4 DEF Callback, TypeOK, ControlTypeOK, PublisherOps
  <2>2. QED BY <1>4, <1>o, <1>g, <2>1, QuietStep DEF Callback, memVars, Goto, Constructing, At, Proc
<1>5. QED BY <1>1, <1>2, <1>3, <1>4 DEF ReceiveStep

(* The steps that a publisher, a subscriber or the environment makes between *)
(* two calls.                                                                *)
LEMMA QuietOutside ==
  ASSUME TypeOK, Undisturbed, LockInv, BlocksInv, \A q \in Proc : ProcessInv(q),
         NEW p \in Proc,
         \/ Initialise(p) \/ Publish(p) \/ Subscribe(p) \/ ManagerExit(p)
         \/ Fault(p) \/ Die(p) \/ SpuriousWakeup(p)
  PROVE  BlocksInv' /\ \A q \in Proc : ProcessInv(q)'
<1>o. /\ op \in [Proc -> PublisherOps \cup SubscriberOps \cup ManagerOps \cup ReleaserOps]
      /\ at \in [Proc -> {"start", "wait", "in", "construct", "reconstruct", "destroyed"}]
      /\ msg \in [Proc -> {NoMessage} \cup Message \cup Received]
      /\ GlobalLockInv
  BY DEF TypeOK, ControlTypeOK, MessageTypeOK, LockInv
<1>1. CASE Initialise(p) \/ Publish(p) \/ Subscribe(p) \/ ManagerExit(p)
  <2>1. ~Constructing(p)
    <3>1. op[p] \in {"new", "idle"}
      BY <1>1 DEF Initialise, Publish, Subscribe, ManagerExit
    <3>2. QED BY <3>1, ConstructingHolds
  <2>2. /\ descriptors' = descriptors /\ segment' = segment /\ handle' = handle
        /\ \/ Goto(p, "allocateBlock", "start") /\ op[p] = "new"
           \/ \E o \in {"idle", "reallocateBlock", "findHandle", "resetAllBlocks"} :
                Goto(p, o, "start")
    BY <1>1 DEF Initialise, Publish, Subscribe, ManagerExit, memVars, localVars
  <2>3. \A q \in Publishers \ {p} : msg'[q] = msg[q]
    BY <1>1, <1>o DEF Initialise, Publish, Subscribe, ManagerExit, localVars, Proc
  <2>4. QED BY <1>o, <2>1, <2>2, <2>3, QuietStep DEF Goto, Constructing, At
<1>2. CASE Fault(p) \/ Die(p) \/ SpuriousWakeup(p)
  <2>1. /\ op' = op /\ at' = at /\ handle' = handle /\ msg' = msg
        /\ descriptors' = descriptors /\ segment' = segment
    BY <1>2 DEF Fault, Die, SpuriousWakeup, pcVars, memVars, localVars
  <2>2. \A b \in Block : DescriptorInv(b)'
    BY <2>1 DEF BlocksInv, DescriptorInv, BlockUnderConstruction, Constructing, Blk
  <2>3. SegmentInv'
    BY <2>1 DEF BlocksInv, SegmentInv
  <2>4. ASSUME NEW q \in Proc PROVE ProcessInv(q)'
    BY <2>1 DEF ProcessInv, HandleInv, ConstructionInv, BlockUnderConstruction, Constructing,
       Blk, At
  <2>5. QED BY <2>2, <2>3, <2>4 DEF BlocksInv
<1>3. QED BY <1>1, <1>2

(* In these conditions nothing is ever reset.                                *)
LEMMA NoReset ==
  ASSUME TypeOK, Undisturbed, NEW p \in Proc PROVE ~ResetStep(p)
  BY PublishersOrSubscribers DEF ResetStep, ResetDestroy, ResetDescriptor, ResetEnd,
     ResetBlockEnter, ClearDestroy, ResetBlockClear, At, PublisherOps, SubscriberOps

(* A step of p under the global mutex that changes the descriptor and the    *)
(* memory of block b, which belongs to topic t before or after the step,     *)
(* leaves the other blocks and the handles on them as they were.             *)
LEMMA BlockChange ==
  ASSUME TypeOK, GlobalLockInv, OneBlockPerTopic, BlocksInv, \A q \in Proc : ProcessInv(q),
         NEW p \in Proc, NEW b \in Block, NEW t \in Names,
         HoldsGlobal(p), Constructing(p) => Blk(p) = b, Blk(p)' = b,
         \A c \in Block \ {b} :
           /\ descriptors'[c] = descriptors[c]
           /\ descriptors[c].active_ => descriptors[c].name_ # t,
         \A n \in Names \ {t} : segment'[n] = segment[n],
         \A q \in Proc \ {p} : op'[q] = op[q] /\ at'[q] = at[q] /\ handle'[q] = handle[q],
         \A q \in Publishers \ {p} : msg'[q] = msg[q],
         \A q \in Proc \ {p} :
           Blk(q) = b => HandleInv(q)' /\ op[q] # "grow",
         SegmentInv', DescriptorInv(b)', ProcessInv(p)'
  PROVE  BlocksInv' /\ \A q \in Proc : ProcessInv(q)'
<1>1. \A q \in Proc \ {p} : ~Constructing(q) /\ ~Constructing(q)' /\ Blk(q)' = Blk(q)
  BY ConstructingHolds, GlobalAlone DEF Constructing, Blk
<1>2. \A c \in Block \ {b} : ~BlockUnderConstruction(c) /\ ~BlockUnderConstruction(c)'
  BY <1>1 DEF BlockUnderConstruction
<1>3. ASSUME NEW c \in Block \ {b} PROVE DescriptorInv(c)'
  <2>1. DescriptorInv(c) /\ descriptors'[c] = descriptors[c]
    BY DEF BlocksInv
  <2>2. descriptors[c].active_ => segment'[descriptors[c].name_] = segment[descriptors[c].name_]
    BY DEF TypeOK, MemoryTypeOK, Descriptor
  <2>3. QED BY <1>2, <2>1, <2>2 DEF DescriptorInv
<1>4. ASSUME NEW q \in Proc \ {p} PROVE ProcessInv(q)'
  <2>0. HandleInv(q) /\ ConstructionInv(q) /\ ~Constructing(q)'
    BY <1>1 DEF ProcessInv
  <2>b. Blk(q) # NoBlock => Blk(q) \in Block
    BY DEF TypeOK, HandleTypeOK, Handle, Blk
  <2>g. At(q, "write", "in") \/ op[q] = "grow" => q \in Publishers /\ Blk(q) # NoBlock
    BY BlockInRange, NoBlockNotBlock DEF TypeOK, ControlTypeOK, SubscriberOps, ManagerOps,
       ReleaserOps, Proc, At, HandleOps
  <2>1. HandleInv(q)'
    <3>1. CASE Blk(q) = b
      BY <3>1
    <3>2. CASE Blk(q) = NoBlock
      BY <1>1, <3>2 DEF HandleInv
    <3>3. CASE Blk(q) # b /\ Blk(q) # NoBlock
      <4>1. /\ Blk(q) \in Block \ {b}
            /\ descriptors'[Blk(q)] = descriptors[Blk(q)]
            /\ descriptors[Blk(q)].active_ /\ descriptors[Blk(q)].name_ = Topic[q]
        BY <2>0, <2>b, <3>3 DEF HandleInv
      <4>2. segment'[Topic[q]] = segment[Topic[q]]
        BY <4>1 DEF TypeOK, MemoryTypeOK, Descriptor
      <4>3. QED BY <1>1, <1>2, <2>0, <2>g, <3>3, <4>1, <4>2 DEF HandleInv, At
    <3>4. QED BY <3>1, <3>2, <3>3
  <2>2. ConstructionInv(q)'
    <3>1. op[q] = "grow" => Blk(q) \in Block \ {b} /\ msg'[q] = msg[q]
      BY <2>b, <2>g
    <3>2. QED BY <1>1, <2>0, <3>1 DEF ConstructionInv, Constructing
  <2>3. QED BY <2>1, <2>2 DEF ProcessInv
<1>5. \A c \in Block : DescriptorInv(c)'
  BY <1>3
<1>6. QED BY <1>4, <1>5 DEF BlocksInv

(* Construct puts the named array at an address of its own.                  *)
LEMMA ConstructSegment ==
  ASSUME TypeOK, SegmentInv, NEW n \in Names, NEW size \in Nat, NEW a \in Addresses,
         Construct(n, size, a), NEW b \in Block,
         descriptors'[b].active_, descriptors'[b].name_ = n,
         \A c \in Block : descriptors[c].active_ =>
           descriptors'[c].active_ /\ descriptors'[c].name_ = descriptors[c].name_
  PROVE  /\ SegmentInv'
         /\ segment'[n] = [ptr |-> a, size |-> size]
         /\ \A m \in Names \ {n} : segment'[m] = segment[m]
         /\ \A q \in Publishers : msg'[q] = msg[q]
<1>1. /\ segment'[n] = [ptr |-> a, size |-> size]
      /\ \A m \in Names \ {n} : segment'[m] = segment[m]
      /\ a \notin Live
  BY DEF Construct, TypeOK, MemoryTypeOK
<1>2. \A q \in Publishers : msg'[q] = msg[q]
  BY OverwriteType DEF Construct, Bytes
<1>3. a # NULL
  BY ProcessAssumption
<1>4. \A m \in Names \ {n} : segment[m].ptr # a
  BY <1>1, <1>3 DEF Live
<1>5. ASSUME NEW m \in Names
      PROVE  \/ segment'[m] = Absent
             \/ \E c \in Block : descriptors'[c].active_ /\ descriptors'[c].name_ = m
  <2>1. CASE m = n
    BY <2>1
  <2>2. CASE m # n
    BY <1>1, <2>2 DEF SegmentInv
  <2>3. QED BY <2>1, <2>2
<1>6. ASSUME NEW m \in Names, NEW k \in Names,
             segment'[m].ptr = segment'[k].ptr, segment'[k].ptr # NULL
      PROVE  m = k
  <2>1. CASE m = n
    BY <1>1, <1>4, <1>6, <2>1
  <2>2. CASE k = n
    BY <1>1, <1>4, <1>6, <2>2
  <2>3. CASE m # n /\ k # n
    BY <1>1, <1>6, <2>3 DEF SegmentInv
  <2>4. QED BY <2>1, <2>2, <2>3
<1>7. QED BY <1>1, <1>2, <1>5, <1>6 DEF SegmentInv

LEMMA ResizeAllocate ==
  ASSUME TypeOK, Undisturbed, LockInv, OneBlockPerTopic, BlocksInv,
         \A q \in Proc : ProcessInv(q), NEW p \in Proc, AllocateStep(p)
  PROVE  BlocksInv' /\ \A q \in Proc : ProcessInv(q)'
<1>o. /\ op \in [Proc -> PublisherOps \cup SubscriberOps \cup ManagerOps \cup ReleaserOps]
      /\ at \in [Proc -> {"start", "wait", "in", "construct", "reconstruct", "destroyed"}]
      /\ msg \in [Proc -> {NoMessage} \cup Message \cup Received]
      /\ handle \in [Proc -> Handle]
      /\ descriptors \in [Block -> Descriptor]
      /\ segment \in [Names -> [ptr : Addresses \cup {NULL}, size : Nat]]
      /\ GlobalLockInv
      /\ InitialSize = 16
  BY DEF TypeOK, ControlTypeOK, MessageTypeOK, HandleTypeOK, MemoryTypeOK, LockInv, InitialSize
<1>p. p \in Publishers /\ p \notin Subscribers /\ op[p] = "allocateBlock" /\ Topic[p] \in Topics
  <2>1. op[p] = "allocateBlock"
    BY DEF AllocateStep, AllocateReconnect, AllocateClaim, AllocateNone, AllocateConstruct,
       AllocateThrow, At
  <2>2. p \notin Subscribers
    BY <2>1 DEF TypeOK, ControlTypeOK, SubscriberOps
  <2>3. QED BY <2>1, <2>2, PublishersOrSubscribers
<1>h. HoldsGlobal(p)
  BY <1>p DEF AllocateStep, AllocateReconnect, AllocateClaim, AllocateNone, AllocateConstruct,
     AllocateThrow, At, HoldsGlobal, GlobalSections, Constructing
<1>a. \A q \in Proc \ {p} : ~Constructing(q)
  BY <1>h, <1>o, ConstructingHolds, GlobalAlone
<1>1. CASE AllocateReconnect(p)
  <2>0. at[p] = "in" /\ ~Constructing(p)
    BY <1>1 DEF AllocateReconnect, At, Constructing
  <2>1. PICK i \in Block :
          /\ IsFirst(i, Matching(p))
          /\ \/ InitialSize > segment[descriptors[i].name_].size
             \/ /\ descriptors' = [descriptors EXCEPT ![i] = recordSize(descriptors[i],
                      InitialSize, segment[descriptors[i].name_].size)]
                /\ handle' = [handle EXCEPT ![p] = FreshHandle(i, recordSize(descriptors[i],
                      InitialSize, segment[descriptors[i].name_].size))]
                /\ Goto(p, "reallocateBlock", "start")
                /\ UNCHANGED <<segment, bytes, msg>>
    BY <1>1 DEF AllocateReconnect
  <2> DEFINE desc == descriptors[i]
             found == segment[descriptors[i].name_]
             recorded == recordSize(desc, InitialSize, found.size)
  <2>2. desc.active_ /\ desc.name_ = Topic[p] /\ desc \in Descriptor
    BY <2>1, <1>o DEF IsFirst, Matching, matchName
  <2>3. ~BlockUnderConstruction(i)
    BY <1>a, <2>0 DEF BlockUnderConstruction
  <2>4. found.size = desc.allocated_ /\ InitialSize <= desc.allocated_
    BY <2>2, <2>3 DEF BlocksInv, DescriptorInv
  <2>5. found.size \in Nat /\ desc.allocated_ \in Nat /\ desc.resize_count_ \in Nat
    BY <2>2, <1>o DEF Descriptor
  <2>6. /\ recorded.active_ /\ recorded.name_ = desc.name_
        /\ recorded.allocated_ = desc.allocated_ /\ recorded.resize_count_ = desc.resize_count_
        /\ recorded.size_ = InitialSize
    BY <2>2, <2>4, <2>5, <1>o DEF recordSize
  <2>7. ~(InitialSize > found.size)
    BY <2>4, <2>5, <1>o
  <2>8. /\ descriptors' = [descriptors EXCEPT ![i] = recorded]
        /\ handle' = [handle EXCEPT ![p] = FreshHandle(i, recorded)]
        /\ Goto(p, "reallocateBlock", "start")
        /\ segment' = segment /\ msg' = msg
    BY <2>1, <2>7
  <2>9. \A c \in Block : SameBlock(descriptors[c], descriptors'[c])
    BY <1>o, <2>2, <2>4, <2>6, <2>8 DEF SameBlock
  <2>10. /\ handle'[p] = [handle |-> i, ptr |-> segment[Topic[p]].ptr,
                          resize_count |-> desc.resize_count_]
         /\ Blk(p)' = i
    BY <1>o, <2>2, <2>6, <2>8 DEF FreshHandle, Blk
  <2>11. /\ op'[p] = "reallocateBlock" /\ at'[p] = "start" /\ ~Constructing(p)'
         /\ \A q \in Proc \ {p} : op'[q] = op[q] /\ at'[q] = at[q] /\ handle'[q] = handle[q]
    BY <1>o, <2>8 DEF Goto, Constructing
  <2>12. descriptors'[i] = recorded
    BY <1>o, <2>8
  <2>13. HandleInv(p)'
    BY <2>2, <2>5, <2>6, <2>8, <2>10, <2>11, <2>12 DEF HandleInv, At
  <2>14. ConstructionInv(p)'
    BY <2>11 DEF ConstructionInv
  <2>15. QED
    BY <1>o, <1>h, <2>0, <2>8, <2>9, <2>11, <2>13, <2>14, QuietFrame DEF ProcessInv
<1>2. CASE AllocateClaim(p)
  <2>0. at[p] = "in" /\ ~Constructing(p) /\ Matching(p) = {}
    BY <1>2 DEF AllocateClaim, At, Constructing
  <2>1. PICK i \in Block :
          /\ IsFirst(i, Inactive)
          /\ descriptors' = [descriptors EXCEPT ![i] =
               recordSize(allocate(descriptors[i], Topic[p]), InitialSize, InitialSize)]
          /\ handle' = [handle EXCEPT ![p].handle = i]
    BY <1>2 DEF AllocateClaim
  <2>2. ~descriptors[i].active_ /\ descriptors[i] = EmptyDescriptor
    BY <2>1 DEF IsFirst, Inactive, BlocksInv, DescriptorInv
  <2>3. /\ descriptors'[i].active_ /\ descriptors'[i].name_ = Topic[p]
        /\ descriptors'[i].size_ = InitialSize /\ descriptors'[i].allocated_ = InitialSize
        /\ descriptors'[i].resize_count_ = 1
    <3>1. /\ allocate(EmptyDescriptor, Topic[p]).active_
          /\ allocate(EmptyDescriptor, Topic[p]).name_ = Topic[p]
          /\ allocate(EmptyDescriptor, Topic[p]).allocated_ = 0
          /\ allocate(EmptyDescriptor, Topic[p]).resize_count_ = 0
      BY DescriptorType DEF allocate, EmptyDescriptor, Descriptor
    <3>2. descriptors'[i] = recordSize(allocate(EmptyDescriptor, Topic[p]), InitialSize,
                                       InitialSize)
      BY <1>o, <2>1, <2>2
    <3>3. QED BY <1>o, <3>1, <3>2 DEF recordSize
  <2>4. \A c \in Block \ {i} : descriptors'[c] = descriptors[c]
    BY <1>o, <2>1
  <2>5. \A c \in Block : descriptors[c].active_ => descriptors[c].name_ # Topic[p]
    BY <2>0 DEF Matching, matchName
  <2>6. segment[Topic[p]] = Absent /\ Topic[p] \in Names
    BY <1>p, <2>5 DEF BlocksInv, SegmentInv, Names
  <2>7. handle[p] = NoHandle
    BY <1>p, <2>0 DEF ProcessInv, ConstructionInv
  <2>8. handle'[p] = [handle |-> i, ptr |-> NULL, resize_count |-> 0] /\ Blk(p)' = i
    BY <1>o, <2>1, <2>7 DEF NoHandle, Blk
  <2>9. /\ segment' = segment /\ msg' = msg
        /\ op'[p] = "allocateBlock" /\ at'[p] = "construct" /\ Constructing(p)'
        /\ \A q \in Proc \ {p} : op'[q] = op[q] /\ at'[q] = at[q] /\ handle'[q] = handle[q]
    BY <1>o, <1>2, <1>p, <2>1 DEF AllocateClaim, Constructing
  <2>10. \A q \in Proc \ {p} : Blk(q) # i
    BY <2>2, NoBlockNotBlock DEF ProcessInv, HandleInv
  <2>11. BlockUnderConstruction(i)'
    BY <2>8, <2>9 DEF BlockUnderConstruction
  <2>12. SegmentInv'
    BY <2>2, <2>3, <2>4, <2>9 DEF BlocksInv, SegmentInv
  <2>13. DescriptorInv(i)'
    BY <1>o, <1>p, <2>3, <2>6, <2>9, <2>11 DEF DescriptorInv
  <2>14. HandleInv(p)'
    BY <1>o, <2>3, <2>8, <2>9, <2>11 DEF HandleInv, At
  <2>15. ConstructionInv(p)'
    <3>1. \A q \in Proc : Blk(q)' = i => q = p
      BY <2>9, <2>10 DEF Blk
    <3>2. QED BY <2>3, <2>8, <2>9, <3>1 DEF ConstructionInv
  <2>16. QED
    BY <1>o, <1>h, <2>0, <2>4, <2>5, <2>6, <2>8, <2>9, <2>10, <2>12, <2>13, <2>14, <2>15,
       BlockChange DEF ProcessInv
<1>3. CASE AllocateNone(p)
  <2>1. ~Constructing(p)
    BY <1>3 DEF AllocateNone, At, Constructing
  <2>2. QED
    BY <1>o, <1>3, <2>1, QuietStep DEF AllocateNone, Return, Goto, Constructing, At, memVars, Proc
<1>4. CASE AllocateConstruct(p)
  <2>0. Constructing(p) /\ Blk(p) \in Block /\ at[p] = "construct"
    <3>1. Constructing(p)
      BY <1>4 DEF AllocateConstruct, Constructing
    <3>2. at[p] # "reconstruct"
      BY DEF ProcessInv, ConstructionInv
    <3>3. QED BY <3>1, <3>2, ConstructingHolds DEF Constructing
  <2>b. PICK b \in Block : b = Blk(p)
    BY <2>0
  <2> DEFINE desc == descriptors[b]
             t == Topic[p]
  <2>1. Constructing(p) /\ Blk(p) = b /\ b # NoBlock /\ at[p] = "construct"
    BY <2>0, <2>b, NoBlockNotBlock
  <2>2. /\ desc.active_ /\ desc.name_ = t /\ desc.allocated_ = InitialSize
        /\ \A q \in Proc : Blk(q) = b => q = p
    BY <1>p, <2>1 DEF ProcessInv, HandleInv, ConstructionInv
  <2>3. PICK a \in Addresses :
          /\ Construct(t, InitialSize, a)
          /\ handle' = [handle EXCEPT ![p] =
               [handle |-> b, ptr |-> a, resize_count |-> desc.resize_count_]]
    BY <1>4, <2>1, <2>2 DEF AllocateConstruct
  <2>4. descriptors' = descriptors
    BY <1>4, <1>o, <2>1 DEF AllocateConstruct
  <2>5. /\ SegmentInv'
        /\ segment'[t] = [ptr |-> a, size |-> InitialSize]
        /\ \A m \in Names \ {t} : segment'[m] = segment[m]
        /\ \A q \in Publishers : msg'[q] = msg[q]
    <3>1. t \in Names /\ InitialSize \in Nat /\ SegmentInv
      BY <1>o, <1>p DEF BlocksInv, Names
    <3>2. descriptors'[b].active_ /\ descriptors'[b].name_ = t
      BY <2>1, <2>2, <2>4
    <3>3. \A c \in Block : descriptors[c].active_ =>
            descriptors'[c].active_ /\ descriptors'[c].name_ = descriptors[c].name_
      BY <2>4
    <3>4. Construct(t, InitialSize, a)
      BY <2>3
    <3>5. QED BY <3>1, <3>2, <3>3, <3>4, ConstructSegment
  <2>6. /\ handle'[p] = [handle |-> b, ptr |-> a, resize_count |-> desc.resize_count_]
        /\ Blk(p)' = b
    BY <1>o, <2>3 DEF Blk
  <2>7. /\ op'[p] = "reallocateBlock" /\ at'[p] = "start"
        /\ \A q \in Proc \ {p} : op'[q] = op[q] /\ at'[q] = at[q] /\ handle'[q] = handle[q]
    BY <1>o, <1>4, <2>3 DEF AllocateConstruct, Goto
  <2>8. \A q \in Proc : ~Constructing(q)'
    BY <1>a, <2>7 DEF Constructing
  <2>9. DescriptorInv(b)'
    <3>1. DescriptorInv(b) /\ ~BlockUnderConstruction(b)'
      BY <2>8 DEF BlocksInv, BlockUnderConstruction
    <3>2. QED BY <2>2, <2>4, <2>5, <3>1 DEF DescriptorInv
  <2>10. HandleInv(p)'
    <3>1. desc.resize_count_ \in Nat
      BY <1>o, <2>1 DEF Descriptor
    <3>2. QED BY <2>2, <2>4, <2>5, <2>6, <2>7, <3>1 DEF HandleInv, At
  <2>11. ConstructionInv(p)'
    BY <2>7 DEF ConstructionInv, Constructing
  <2>12. \A c \in Block \ {b} : descriptors[c].active_ => descriptors[c].name_ # t
    BY <2>1, <2>2 DEF OneBlockPerTopic
  <2>13. \A q \in Proc \ {p} : Blk(q) # b
    BY <2>2
  <2>14. QED
    <3>1. t \in Names
      BY <1>p DEF Names
    <3>2. ProcessInv(p)'
      BY <2>10, <2>11 DEF ProcessInv
    <3>3. Blk(p) = b /\ Blk(p)' = b
      BY <2>1, <2>6
    <3>4. \A c \in Block \ {b} :
            /\ descriptors'[c] = descriptors[c]
            /\ descriptors[c].active_ => descriptors[c].name_ # t
      BY <2>4, <2>12
    <3>5. /\ \A n \in Names \ {t} : segment'[n] = segment[n]
          /\ \A q \in Publishers \ {p} : msg'[q] = msg[q]
          /\ SegmentInv'
      BY <2>5
    <3>6. \A q \in Proc \ {p} : Blk(q) = b => HandleInv(q)' /\ op[q] # "grow"
      BY <2>13
    <3> HIDE DEF t
    <3>7. QED
      BY <1>o, <1>h, <2>7, <2>9, <3>1, <3>2, <3>3, <3>4, <3>5, <3>6, BlockChange
<1>5. CASE AllocateThrow(p)
  BY <1>5 DEF AllocateThrow, Undisturbed
<1>6. QED BY <1>1, <1>2, <1>3, <1>4, <1>5 DEF AllocateStep

LEMMA ResizeReallocate ==
  ASSUME TypeOK, Undisturbed, LockInv, OneBlockPerTopic, BlocksInv,
         \A q \in Proc : ProcessInv(q), NEW p \in Proc, ReallocateStep(p)
  PROVE  BlocksInv' /\ \A q \in Proc : ProcessInv(q)'
<1>o. /\ op \in [Proc -> PublisherOps \cup SubscriberOps \cup ManagerOps \cup ReleaserOps]
      /\ at \in [Proc -> {"start", "wait", "in", "construct", "reconstruct", "destroyed"}]
      /\ msg \in [Proc -> {NoMessage} \cup Message \cup Received]
      /\ handle \in [Proc -> Handle]
      /\ descriptors \in [Block -> Descriptor]
      /\ segment \in [Names -> [ptr : Addresses \cup {NULL}, size : Nat]]
      /\ GlobalLockInv /\ BlockLockInv
      /\ InitialSize = 16
  BY DEF TypeOK, ControlTypeOK, MessageTypeOK, HandleTypeOK, MemoryTypeOK, LockInv, InitialSize
<1>p. /\ p \in Publishers
      /\ op[p] \in {"reallocateBlock", "refresh", "resize", "grow"}
      /\ Topic[p] \in Topics
      /\ msg[p] \in Message /\ msg[p].size \in Nat
      /\ HoldsBlock(p)
  <2>1. /\ op[p] \in {"reallocateBlock", "refresh", "resize", "grow"}
        /\ op[p] = "reallocateBlock" => at[p] = "in"
    BY DEF ReallocateStep, ReallocateCheck, ReallocateRefresh, ReallocateResize,
       GrowDestroy, GrowConstruct, GrowThrow, At
  <2>2. p \notin Subscribers
    BY <2>1 DEF TypeOK, ControlTypeOK, SubscriberOps
  <2>3. p \in Publishers /\ Topic[p] \in Topics
    BY <2>2, PublishersOrSubscribers
  <2>4. msg[p] \in Message /\ msg[p].size \in Nat
    BY <2>1, <2>3, DataAssumption DEF TypeOK, MessageTypeOK, Message
  <2>5. HoldsBlock(p)
    BY <2>1 DEF HoldsBlock, BlockSections
  <2>6. QED BY <2>1, <2>3, <2>4, <2>5
<1>b. PICK b \in Block : b = Blk(p)
  BY <1>p, BlockInRange DEF HandleOps
<1> DEFINE desc == descriptors[b]
           t == Topic[p]
<1>d. /\ b # NoBlock /\ Blk(p) = b
      /\ desc \in Descriptor /\ desc.active_ /\ desc.name_ = t
      /\ desc.resize_count_ \in Nat /\ desc.allocated_ \in Nat
      /\ HandleInv(p) /\ ConstructionInv(p) /\ DescriptorInv(b) /\ t \in Names
  BY <1>b, <1>o, <1>p, NoBlockNotBlock DEF ProcessInv, HandleInv, Descriptor, BlocksInv, Names
<1>e. \A q \in Proc \ {p} : Blk(q) = b => ~HoldsBlock(q)
  BY <1>o, <1>p, <1>d, BlockAlone
<1>1. CASE ReallocateCheck(p)
  <2>1. /\ descriptors' = descriptors /\ segment' = segment /\ handle' = handle /\ msg' = msg
        /\ op[p] = "reallocateBlock"
        /\ Goto(p, "refresh", "start") \/ Goto(p, "resize", "in")
    BY <1>1 DEF ReallocateCheck, memVars, localVars, At
  <2>2. ~Constructing(p)
    BY <2>1, ConstructingHolds
  <2>3. QED BY <1>o, <2>1, <2>2, QuietStep DEF Goto, Constructing, At
<1>2. CASE ReallocateRefresh(p)
  <2>1. /\ descriptors' = descriptors /\ segment' = segment /\ msg' = msg
        /\ handle' = [handle EXCEPT ![p] = FreshHandle(b, descriptors[b])]
        /\ op[p] = "refresh" /\ at[p] = "in" /\ Goto(p, "resize", "in")
    BY <1>2, <1>d DEF ReallocateRefresh, memVars, At
  <2>2. HoldsGlobal(p) /\ ~Constructing(p)
    BY <2>1 DEF HoldsGlobal, GlobalSections, Constructing
  <2>3. /\ op'[p] = "resize" /\ at'[p] = "in" /\ ~Constructing(p)'
        /\ \A q \in Proc \ {p} : op'[q] = op[q] /\ at'[q] = at[q] /\ handle'[q] = handle[q]
    BY <1>o, <2>1 DEF Goto, Constructing
  <2>4. HandleInv(p)'
    BY <1>d, <2>1, <2>2, <2>3, FreshHandleInv DEF At
  <2>5. ConstructionInv(p)'
    BY <2>3 DEF ConstructionInv
  <2>6. QED BY <1>o, <2>1, <2>2, <2>3, <2>4, <2>5, QuietFrame DEF ProcessInv, SameBlock
<1>3. CASE ReallocateResize(p)
  <2>0. /\ op[p] = "resize" /\ ~Constructing(p) /\ segment' = segment /\ handle' = handle
    BY <1>3, ConstructingHolds DEF ReallocateResize, At
  <2>1. CASE /\ msg[p].size > desc.allocated_
             /\ Goto(p, "grow", "start")
             /\ UNCHANGED <<block_mutex, descriptors, msg>>
    <3>1. /\ op'[p] = "grow" /\ at'[p] = "start" /\ ~Constructing(p)' /\ Blk(p)' = Blk(p)
          /\ \A q \in Proc \ {p} : op'[q] = op[q] /\ at'[q] = at[q] /\ handle'[q] = handle[q]
      BY <1>o, <2>0, <2>1 DEF Goto, Constructing, Blk
    <3>2. \A c \in Block : BlockUnderConstruction(c)' <=> BlockUnderConstruction(c)
      BY <2>0, <3>1 DEF BlockUnderConstruction, Constructing, Blk
    <3>3. HandleInv(p)'
      BY <1>d, <2>0, <2>1, <3>1, <3>2 DEF HandleInv, At, Blk
    <3>4. ConstructionInv(p)'
      BY <1>d, <2>1, <3>1 DEF ConstructionInv
    <3>5. QED BY <1>o, <2>0, <2>1, <3>1, <3>3, <3>4, QuietFrame DEF ProcessInv, SameBlock
  <2>2. CASE /\ msg[p].size <= desc.allocated_
             /\ descriptors' = [descriptors EXCEPT ![b] = recordSize(@, msg[p].size, 0)]
             /\ \/ Goto(p, "serialize", "start") /\ UNCHANGED msg
                \/ Return(p)
    <3>1. /\ op'[p] \in {"serialize", "idle"} /\ at'[p] = "start" /\ ~Constructing(p)'
          /\ Blk(p)' = Blk(p)
          /\ \A q \in Proc \ {p} : /\ op'[q] = op[q] /\ at'[q] = at[q]
                                   /\ handle'[q] = handle[q] /\ msg'[q] = msg[q]
      BY <1>o, <2>0, <2>2 DEF Return, Goto, Constructing, Blk
    <3>2. /\ descriptors'[b].active_ /\ descriptors'[b].name_ = t
          /\ descriptors'[b].size_ = msg[p].size
          /\ descriptors'[b].allocated_ = desc.allocated_
          /\ descriptors'[b].resize_count_ = desc.resize_count_
      BY <1>o, <1>p, <1>d, <2>2 DEF recordSize
    <3>3. \A c \in Block : SameBlock(descriptors[c], descriptors'[c])
      <4> TAKE c \in Block
      <4>1. CASE c = b
        BY <1>d, <2>2, <3>2, <4>1 DEF SameBlock
      <4>2. CASE c # b
        BY <1>o, <2>2, <4>2 DEF SameBlock
      <4>3. QED BY <4>1, <4>2
    <3>4. \A c \in Block : BlockUnderConstruction(c)' <=> BlockUnderConstruction(c)
      BY <2>0, <3>1 DEF BlockUnderConstruction, Constructing, Blk
    <3>5. HandleInv(p)'
      <4>1. /\ handle[p].resize_count <= desc.resize_count_
            /\ handle[p].resize_count = desc.resize_count_ /\ ~BlockUnderConstruction(b)
                 => handle[p].ptr = segment[t].ptr
        BY <1>d DEF HandleInv
      <4>2. QED BY <1>d, <2>0, <3>1, <3>2, <3>4, <4>1 DEF HandleInv, At
    <3>6. ConstructionInv(p)'
      BY <3>1 DEF ConstructionInv
    <3>7. QED
      BY <1>o, <2>0, <3>1, <3>3, <3>5, <3>6, QuietFrame DEF ProcessInv, Proc
  <2>3. QED BY <1>3, <1>d, <2>1, <2>2 DEF ReallocateResize
<1>4. CASE GrowDestroy(p)
  <2>0. /\ op[p] = "grow" /\ at[p] = "in" /\ HoldsGlobal(p) /\ ~Constructing(p)
        /\ descriptors' = descriptors /\ handle' = handle /\ op' = op
        /\ at' = [at EXCEPT ![p] = "construct"]
        /\ Destroy({t})
    BY <1>4, <1>d DEF GrowDestroy, At, HoldsGlobal, GlobalSections, Constructing
  <2>1. /\ segment'[t] = Absent /\ \A n \in Names \ {t} : segment'[n] = segment[n]
        /\ \A q \in Publishers : msg'[q] = msg[q]
    BY <1>o, <1>d, <2>0, OverwriteType DEF Destroy, Bytes
  <2>2. /\ at'[p] = "construct" /\ Constructing(p)' /\ Blk(p)' = b
        /\ \A q \in Proc \ {p} : op'[q] = op[q] /\ at'[q] = at[q] /\ handle'[q] = handle[q]
    BY <1>o, <1>d, <2>0 DEF Constructing, Blk
  <2>3. BlockUnderConstruction(b)' /\ ~BlockUnderConstruction(b)
    <3>1. \A q \in Proc : ~Constructing(q)
      BY <1>o, <2>0, ConstructingHolds, GlobalAlone
    <3>2. QED BY <2>2, <3>1 DEF BlockUnderConstruction
  <2>4. DescriptorInv(b)'
    BY <1>d, <1>p, <2>0, <2>1, <2>3 DEF DescriptorInv
  <2>5. SegmentInv'
    <3>1. ASSUME NEW m \in Names, NEW n \in Names,
                 segment'[m].ptr = segment'[n].ptr, segment'[n].ptr # NULL
          PROVE  m = n
      <4>1. m # t /\ n # t
        BY <2>1, <3>1 DEF Absent
      <4>2. QED BY <2>1, <3>1, <4>1 DEF BlocksInv, SegmentInv
    <3>2. \A n \in Names : \/ segment'[n] = Absent
                           \/ \E c \in Block : descriptors'[c].active_ /\ descriptors'[c].name_ = n
      BY <2>0, <2>1 DEF BlocksInv, SegmentInv
    <3>3. QED BY <3>1, <3>2 DEF SegmentInv
  <2>6. ASSUME NEW q \in Proc, Blk(q) = b, ~At(q, "write", "in") PROVE HandleInv(q)'
    <3>1. HandleInv(q) /\ Blk(q)' = b /\ ~At(q, "write", "in")'
      BY <2>0, <2>2, <2>6 DEF ProcessInv, Blk, At
    <3>2. QED BY <1>d, <2>0, <2>3, <2>6, <3>1 DEF HandleInv
  <2>7. ProcessInv(p)'
    <3>1. ConstructionInv(p)'
      BY <1>p, <1>d, <2>0, <2>1, <2>2 DEF ConstructionInv
    <3>2. QED BY <1>d, <2>0, <2>6, <3>1 DEF ProcessInv, At
  <2>8. \A q \in Proc \ {p} : Blk(q) = b => HandleInv(q)' /\ op[q] # "grow"
    BY <1>e, <2>6 DEF HoldsBlock, At
  <2>9. \A c \in Block \ {b} : descriptors[c].active_ => descriptors[c].name_ # t
    BY <1>d DEF OneBlockPerTopic
  <2>10. QED
    BY <1>o, <1>d, <2>0, <2>1, <2>2, <2>4, <2>5, <2>7, <2>8, <2>9, BlockChange
<1>5. CASE GrowConstruct(p)
  <2> DEFINE recorded == recordSize(desc, msg[p].size, msg[p].size)
  <2>0. /\ op[p] = "grow" /\ at[p] = "construct" /\ HoldsGlobal(p) /\ Constructing(p)
        /\ Goto(p, "serialize", "start")
        /\ descriptors' = [descriptors EXCEPT ![b] = recorded]
    BY <1>5, <1>d DEF GrowConstruct, At, HoldsGlobal, GlobalSections, Constructing
  <2>1. PICK a \in Addresses :
          /\ Construct(t, msg[p].size, a)
          /\ handle' = [handle EXCEPT ![p] =
               [handle |-> b, ptr |-> a, resize_count |-> recorded.resize_count_]]
    BY <1>5, <1>d DEF GrowConstruct
  <2>2. msg[p].size > desc.allocated_ /\ InitialSize <= desc.allocated_
    BY <1>d, <2>0 DEF ConstructionInv, DescriptorInv
  <2>3. /\ recorded.active_ /\ recorded.name_ = t
        /\ recorded.size_ = msg[p].size /\ recorded.allocated_ = msg[p].size
        /\ recorded.resize_count_ = desc.resize_count_ + 1
    BY <1>o, <1>p, <1>d, <2>2 DEF recordSize
  <2>4. descriptors'[b] = recorded /\ \A c \in Block \ {b} : descriptors'[c] = descriptors[c]
    BY <1>o, <2>0
  <2>5. /\ SegmentInv'
        /\ segment'[t] = [ptr |-> a, size |-> msg[p].size]
        /\ \A m \in Names \ {t} : segment'[m] = segment[m]
        /\ \A q \in Publishers : msg'[q] = msg[q]
    <3>1. descriptors'[b].active_ /\ descriptors'[b].name_ = t
      BY <2>3, <2>4
    <3>2. \A c \in Block : descriptors[c].active_ =>
            descriptors'[c].active_ /\ descriptors'[c].name_ = descriptors[c].name_
      BY <1>d, <2>3, <2>4
    <3>3. Construct(t, msg[p].size, a)
      BY <2>1
    <3>4. PICK n \in Nat : n = msg[p].size
      BY <1>p
    <3>5. Construct(t, n, a)
      BY <3>3, <3>4
    <3>6. SegmentInv
      BY DEF BlocksInv
    <3>7. /\ SegmentInv'
          /\ segment'[t] = [ptr |-> a, size |-> n]
          /\ \A m \in Names \ {t} : segment'[m] = segment[m]
          /\ \A q \in Publishers : msg'[q] = msg[q]
      BY <1>d, <3>1, <3>2, <3>5, <3>6, ConstructSegment
    <3>8. QED BY <3>4, <3>7
  <2>6. /\ handle'[p] = [handle |-> b, ptr |-> a, resize_count |-> desc.resize_count_ + 1]
        /\ Blk(p)' = b
    BY <1>o, <2>1, <2>3 DEF Blk
  <2>7. /\ op'[p] = "serialize" /\ at'[p] = "start"
        /\ \A q \in Proc \ {p} : op'[q] = op[q] /\ at'[q] = at[q] /\ handle'[q] = handle[q]
    BY <1>o, <2>0, <2>1 DEF Goto
  <2>8. ~BlockUnderConstruction(b)'
    <3>1. \A q \in Proc \ {p} : ~Constructing(q)
      BY <1>o, <2>0, ConstructingHolds, GlobalAlone
    <3>2. QED BY <2>7, <3>1 DEF BlockUnderConstruction, Constructing
  <2>9. DescriptorInv(b)'
    BY <1>o, <1>p, <1>d, <2>2, <2>3, <2>4, <2>5, <2>8 DEF DescriptorInv
  <2>10. HandleInv(p)'
    BY <1>d, <2>3, <2>4, <2>5, <2>6, <2>7 DEF HandleInv, At
  <2>11. ConstructionInv(p)'
    BY <2>7 DEF ConstructionInv
  <2>12. ASSUME NEW q \in Proc \ {p}, Blk(q) = b PROVE HandleInv(q)' /\ op[q] # "grow"
    <3>1. op[q] # "grow" /\ op[q] # "write"
      BY <1>e, <2>12 DEF HoldsBlock
    <3>2. handle[q].resize_count <= desc.resize_count_ /\ desc.name_ = Topic[q]
      BY <1>d, <2>12 DEF ProcessInv, HandleInv
    <3>3. handle[q].resize_count \in Nat
      BY <1>o DEF Handle
    <3>4. Blk(q)' = b /\ handle'[q] = handle[q] /\ ~At(q, "write", "in")'
      BY <2>7, <2>12, <3>1 DEF Blk, At
    <3>5. /\ handle'[q].resize_count <= descriptors'[b].resize_count_
          /\ handle'[q].resize_count # descriptors'[b].resize_count_
          /\ descriptors'[b].active_ /\ descriptors'[b].name_ = Topic[q]
      BY <1>d, <2>3, <2>4, <3>2, <3>3, <3>4
    <3>6. QED BY <3>1, <3>4, <3>5 DEF HandleInv
  <2>13. \A c \in Block \ {b} : descriptors[c].active_ => descriptors[c].name_ # t
    BY <1>d DEF OneBlockPerTopic
  <2>14. QED
    <3>1. ProcessInv(p)'
      BY <2>10, <2>11 DEF ProcessInv
    <3>2. \A q \in Proc \ {p} : Blk(q) = b => HandleInv(q)' /\ op[q] # "grow"
      BY <2>12
    <3>3. \A q \in Publishers \ {p} : msg'[q] = msg[q]
      BY <2>5
    <3>4. QED
      BY <1>o, <1>d, <2>0, <2>4, <2>5, <2>6, <2>7, <2>9, <2>13, <3>1, <3>2, <3>3, BlockChange
<1>6. CASE GrowThrow(p)
  BY <1>6 DEF GrowThrow, Undisturbed
<1>7. QED BY <1>1, <1>2, <1>3, <1>4, <1>5, <1>6 DEF ReallocateStep

LEMMA ResizeNext ==
  ASSUME TypeOK, Undisturbed, ResizeInv, [Next]_vars PROVE ResizeInv'
<1>1. /\ LockInv /\ GlobalLockInv /\ OneBlockPerTopic /\ BlocksInv
      /\ \A q \in Proc : ProcessInv(q)
  BY ResizeParts DEF LockInv
<1>2. LockInv' /\ OneBlockPerTopic'
  BY <1>1, GlobalLockNext, BlockLockNext, OneBlockNext DEF LockInv
<1>3. BlocksInv' /\ \A q \in Proc : ProcessInv(q)'
  <2>1. CASE UNCHANGED vars
    <3>1. /\ op' = op /\ at' = at /\ handle' = handle /\ msg' = msg
          /\ descriptors' = descriptors /\ segment' = segment
      BY <2>1 DEF vars, pcVars, memVars, localVars
    <3>2. \A b \in Block : DescriptorInv(b)'
      BY <1>1, <3>1 DEF BlocksInv, DescriptorInv, BlockUnderConstruction, Constructing, Blk
    <3>3. SegmentInv'
      BY <1>1, <3>1 DEF BlocksInv, SegmentInv
    <3>4. ASSUME NEW q \in Proc PROVE ProcessInv(q)'
      BY <1>1, <3>1 DEF ProcessInv, HandleInv, ConstructionInv, BlockUnderConstruction,
         Constructing, Blk, At
    <3>5. QED BY <3>2, <3>3, <3>4 DEF BlocksInv
  <2>2. ASSUME NEW p \in Proc,
               \/ LockStep(p) \/ AllocateStep(p) \/ ReallocateStep(p)
               \/ SerializeStep(p) \/ ReceiveStep(p) \/ ResetStep(p) \/ Fault(p)
               \/ Initialise(p) \/ Publish(p) \/ Subscribe(p) \/ ManagerExit(p)
               \/ Die(p) \/ SpuriousWakeup(p)
        PROVE  BlocksInv' /\ \A q \in Proc : ProcessInv(q)'
    <3>1. CASE LockStep(p)
      BY <1>1, <3>1, QuietLock
    <3>2. CASE AllocateStep(p)
      BY <1>1, <3>2, ResizeAllocate
    <3>3. CASE ReallocateStep(p)
      BY <1>1, <3>3, ResizeReallocate
    <3>4. CASE SerializeStep(p)
      BY <1>1, <3>4, QuietSerialize
    <3>5. CASE ReceiveStep(p)
      BY <1>1, <3>5, QuietReceive
    <3>6. CASE \/ Initialise(p) \/ Publish(p) \/ Subscribe(p) \/ ManagerExit(p)
               \/ Fault(p) \/ Die(p) \/ SpuriousWakeup(p)
      BY <1>1, <3>6, QuietOutside
    <3>7. ~ResetStep(p)
      BY NoReset
    <3>8. QED BY <2>2, <3>1, <3>2, <3>3, <3>4, <3>5, <3>6, <3>7
  <2>3. QED BY <2>1, <2>2, NextCases
<1>4. QED BY <1>2, <1>3 DEF ResizeInv, BlocksInv, ProcessInv

LEMMA ResizeInit == Init => ResizeInv
<1> SUFFICES ASSUME Init PROVE ResizeInv
  OBVIOUS
<1>1. \A p \in Proc : /\ ~HoldsGlobal(p) /\ ~HoldsBlock(p) /\ p # NULL
                      /\ handle[p] = NoHandle /\ at[p] = "start" /\ op[p] \in {"new", "idle"}
  BY ProcessAssumption DEF Init, HoldsGlobal, HoldsBlock, Constructing
<1>2. LockInv
  BY <1>1 DEF Init, LockInv, GlobalLockInv, BlockLockInv
<1>3. OneBlockPerTopic /\ \A b \in Block : DescriptorInv(b)
  BY DEF Init, OneBlockPerTopic, DescriptorInv, EmptyDescriptor
<1>4. SegmentInv
  BY DEF Init, SegmentInv, Absent
<1>5. \A p \in Proc : HandleInv(p) /\ ConstructionInv(p)
  BY <1>1 DEF HandleInv, ConstructionInv, Blk, NoHandle, Constructing
<1>6. QED BY <1>2, <1>3, <1>4, <1>5 DEF ResizeInv

(* While no allocation fails and nobody resets, the resize count of a handle *)
(* tells whether its cached pointer is current, for any number of publishers *)
(* and subscribers on any number of topics, killed or not, and whatever they *)
(* publish: the design of reallocateBlock is right.                          *)
THEOREM ResizeCorrect == ASSUME Undisturbed PROVE Spec => []ResizeInv
<1>1. Init => TypeOK /\ ResizeInv
  BY TypeInit, ResizeInit
<1>2. TypeOK /\ ResizeInv /\ [Next]_vars => (TypeOK /\ ResizeInv)'
  BY TypeNext, ResizeNext
<1>3. QED BY <1>1, <1>2, PTL DEF Spec

(* A publisher at work on a block finds it complete.                         *)
LEMMA WriterBlock ==
  ASSUME TypeOK, ResizeInv, NEW p \in Publishers, At(p, "write", "in")
  PROVE  LET b == Blk(p) IN
         /\ b \in Block /\ descriptors[b].active_ /\ descriptors[b].name_ = Topic[p]
         /\ Topic[p] \in Names
         /\ segment[Topic[p]].ptr \in Addresses /\ handle[p].ptr = segment[Topic[p]].ptr
         /\ msg[p].size <= segment[Topic[p]].size
<1>0. p \in Proc /\ op[p] = "write" /\ at[p] = "in"
  BY DEF Proc, At
<1>1. PICK b \in Block : b = Blk(p)
  BY <1>0, BlockInRange DEF HandleOps
<1>2. b # NoBlock /\ HandleInv(p) /\ ConstructionInv(p) /\ DescriptorInv(b)
  BY <1>0, <1>1, NoBlockNotBlock DEF ResizeInv
<1>3. ~BlockUnderConstruction(b)
  <2>1. ASSUME NEW q \in Proc, Constructing(q), Blk(q) = b PROVE FALSE
    <3>1. CASE op[q] = "allocateBlock"
      <4>1. p = q
        BY <1>0, <1>1, <2>1, <3>1 DEF ResizeInv, ConstructionInv
      <4>2. QED BY <4>1, <3>1, <1>0
    <3>2. CASE op[q] = "grow"
      <4>1. HoldsBlock(q) /\ HoldsBlock(p)
        BY <1>0, <3>2 DEF HoldsBlock
      <4>2. QED BY <1>0, <1>1, <2>1, <3>2, <4>1, BlockAlone DEF ResizeInv, LockInv
    <3>3. QED BY <2>1, <3>1, <3>2, ConstructingHolds
  <2>2. QED BY <2>1 DEF BlockUnderConstruction
<1>4. /\ descriptors[b].active_ /\ descriptors[b].name_ = Topic[p]
      /\ handle[p].ptr = segment[Topic[p]].ptr
      /\ msg[p].size <= descriptors[b].allocated_
  BY <1>1, <1>2, <1>3 DEF HandleInv
<1>5. Topic[p] \in Names
  BY DataAssumption DEF Names
<1>6. segment[Topic[p]].ptr \in Addresses /\ segment[Topic[p]].size = descriptors[b].allocated_
  BY <1>2, <1>3, <1>4 DEF DescriptorInv
<1>7. QED BY <1>1, <1>4, <1>5, <1>6

(* A publisher only ever writes into the current block of its topic, and     *)
(* never past its end: no resize by another publisher goes unnoticed.        *)
THEOREM WritersInBlock == ASSUME Undisturbed PROVE Spec => []WriterInBlock
<1>1. TypeOK /\ ResizeInv => WriterInBlock
  BY WriterBlock DEF WriterInBlock
<1>2. QED BY <1>1, TypeCorrect, ResizeCorrect, PTL

(* No two publishers ever write into the same memory at the same time,       *)
(* whatever their topics.                                                    *)
THEOREM WritersExclude == ASSUME Undisturbed PROVE Spec => []OneWriter
<1>1. ASSUME TypeOK, ResizeInv, NEW p \in Publishers, NEW q \in Publishers,
             At(p, "write", "in"), At(q, "write", "in"), handle[p].ptr = handle[q].ptr
      PROVE  p = q
  <2>1. p \in Proc /\ q \in Proc /\ HoldsBlock(p) /\ HoldsBlock(q)
    BY <1>1 DEF Proc, HoldsBlock, At
  <2>2. Topic[p] = Topic[q]
    <3>1. /\ segment[Topic[p]].ptr = segment[Topic[q]].ptr /\ segment[Topic[q]].ptr # NULL
          /\ Topic[p] \in Names /\ Topic[q] \in Names
      BY <1>1, WriterBlock, ProcessAssumption
    <3>2. QED BY <1>1, <3>1 DEF ResizeInv, SegmentInv
  <2>3. Blk(p) = Blk(q) /\ Blk(p) \in Block
    BY <1>1, <2>2, WriterBlock DEF ResizeInv, OneBlockPerTopic
  <2>4. QED BY <1>1, <2>1, <2>3, BlockAlone DEF ResizeInv, LockInv
<1>2. TypeOK /\ ResizeInv => OneWriter
  BY <1>1 DEF OneWriter
<1>3. QED BY <1>2, TypeCorrect, ResizeCorrect, PTL

-----------------------------------------------------------------------------
(* Copying without a lock on the memory                                      *)

(* A step of process p, whatever it executes.                                *)
Step(p) ==
  \/ LockStep(p) \/ AllocateStep(p) \/ ReallocateStep(p)
  \/ SerializeStep(p) \/ ReceiveStep(p) \/ ResetStep(p) \/ Fault(p)
  \/ Initialise(p) \/ Publish(p) \/ Subscribe(p) \/ ManagerExit(p)
  \/ Die(p) \/ SpuriousWakeup(p)

LEMMA NextStep ==
  ASSUME [Next]_vars PROVE UNCHANGED vars \/ \E p \in Proc : Step(p)
  BY NextCases DEF Step

(* Overwriting memory tears the messages of those who are reading it, and    *)
(* changes no message in any other way.                                      *)
LEMMA OverwriteMessages ==
  ASSUME TypeOK, NEW A, NEW c, Overwrite(A, c), NEW q \in Proc
  PROVE  /\ msg'[q] = msg[q] \/ (At(q, "read", "in") /\ handle[q].ptr \in A)
         /\ msg'[q].size = msg[q].size
         /\ q \in Publishers => msg'[q] = msg[q]
<1>1. At(q, "read", "in") => q \in Subscribers /\ q \notin Publishers
  BY DEF TypeOK, ControlTypeOK, PublisherOps, ManagerOps, ReleaserOps, At, Proc
<1>2. At(q, "read", "in") => msg[q] \in Received
  BY <1>1 DEF TypeOK, MessageTypeOK
<1>3. \A m \in Received : [m EXCEPT !.body = Torn].size = m.size
  BY DEF Received
<1>4. msg'[q] = IF At(q, "read", "in") /\ handle[q].ptr \in A
                  THEN [msg[q] EXCEPT !.body = Torn] ELSE msg[q]
  BY DEF Overwrite
<1>5. QED BY <1>1, <1>2, <1>3, <1>4

(* A step of p leaves every other process where it is, with the handle that  *)
(* it has.                                                                   *)
LEMMA OthersStay ==
  ASSUME TypeOK, NEW p \in Proc, Step(p), NEW q \in Proc \ {p}
  PROVE  /\ op'[q] = op[q] /\ at'[q] = at[q] /\ handle'[q] = handle[q]
         /\ msg'[q].size = msg[q].size
         /\ q \in Publishers => msg'[q] = msg[q]
<1>o. /\ op \in [Proc -> PublisherOps \cup SubscriberOps \cup ManagerOps \cup ReleaserOps]
      /\ at \in [Proc -> {"start", "wait", "in", "construct", "reconstruct", "destroyed"}]
      /\ msg \in [Proc -> {NoMessage} \cup Message \cup Received]
      /\ handle \in [Proc -> Handle]
  BY DEF TypeOK, ControlTypeOK, MessageTypeOK, HandleTypeOK
<1>w. ASSUME NEW A, NEW c, Overwrite(A, c)
      PROVE  msg'[q].size = msg[q].size /\ (q \in Publishers => msg'[q] = msg[q])
  BY <1>w, OverwriteMessages
<1>d. ASSUME NEW S, Destroy(S)
      PROVE  msg'[q].size = msg[q].size /\ (q \in Publishers => msg'[q] = msg[q])
  BY <1>d, <1>w DEF Destroy
<1>c. ASSUME NEW n, NEW size, NEW a, Construct(n, size, a)
      PROVE  msg'[q].size = msg[q].size /\ (q \in Publishers => msg'[q] = msg[q])
  BY <1>c, <1>w DEF Construct
<1>1. CASE LockStep(p)
  BY <1>1, <1>o DEF LockStep, LockGlobal, RelockGlobal, LockBlock, RelockBlock,
     UnregisterGlobalClient, localVars, Goto
<1>2. CASE AllocateStep(p)
  <2>1. CASE AllocateReconnect(p)
    BY <2>1, <1>o, <1>d DEF AllocateReconnect, Goto
  <2>2. CASE AllocateConstruct(p)
    BY <2>2, <1>o, <1>c DEF AllocateConstruct, Goto
  <2>3. CASE AllocateClaim(p) \/ AllocateNone(p) \/ AllocateThrow(p)
    BY <2>3, <1>o DEF AllocateClaim, AllocateNone, AllocateThrow, Return, Goto
  <2>4. QED BY <1>2, <2>1, <2>2, <2>3 DEF AllocateStep
<1>3. CASE ReallocateStep(p)
  <2>1. CASE GrowDestroy(p)
    BY <2>1, <1>o, <1>d DEF GrowDestroy
  <2>2. CASE GrowConstruct(p)
    BY <2>2, <1>o, <1>c DEF GrowConstruct, Goto
  <2>3. CASE ReallocateCheck(p) \/ ReallocateRefresh(p) \/ ReallocateResize(p) \/ GrowThrow(p)
    BY <2>3, <1>o DEF ReallocateCheck, ReallocateRefresh, ReallocateResize, GrowThrow,
       Return, Goto, localVars
  <2>4. QED BY <1>3, <2>1, <2>2, <2>3 DEF ReallocateStep
<1>4. CASE SerializeStep(p)
  <2>1. CASE WriteStart(p)
    BY <2>1, <1>o, <1>w DEF WriteStart, Goto
  <2>2. CASE WriteEnd(p)
    BY <2>2, <1>o, <1>w DEF WriteEnd, Goto
  <2>3. CASE SerializeRegister(p) \/ SignalData(p)
    BY <2>3, <1>o DEF SerializeRegister, SignalData, Return, Goto, localVars
  <2>4. QED BY <1>4, <2>1, <2>2, <2>3 DEF SerializeStep
<1>5. CASE ReceiveStep(p)
  BY <1>5, <1>o DEF ReceiveStep, FindHandle, WaitData, WaitTimeout, WaitNotified,
     RegisterGlobalClient, ReadStart, ReadEnd, UnregisterClient, Callback, Goto, localVars
<1>6. CASE ResetStep(p)
  <2>1. CASE ResetDestroy(p)
    BY <2>1, <1>o, <1>d DEF ResetDestroy
  <2>2. CASE ClearDestroy(p)
    BY <2>2, <1>o, <1>d DEF ClearDestroy
  <2>3. CASE ResetDescriptor(p) \/ ResetEnd(p) \/ ResetBlockEnter(p) \/ ResetBlockClear(p)
    BY <2>3, <1>o DEF ResetDescriptor, ResetEnd, ResetBlockEnter, ResetBlockClear, Goto,
       localVars
  <2>4. QED BY <1>6, <2>1, <2>2, <2>3 DEF ResetStep
<1>7. CASE \/ Fault(p) \/ Initialise(p) \/ Publish(p) \/ Subscribe(p) \/ ManagerExit(p)
           \/ Die(p) \/ SpuriousWakeup(p)
  BY <1>7, <1>o DEF Fault, Initialise, Publish, Subscribe, ManagerExit, Die, SpuriousWakeup,
     pcVars, localVars, Goto
<1>8. QED BY <1>1, <1>2, <1>3, <1>4, <1>5, <1>6, <1>7 DEF Step

(* Under the conditions of ResizeCorrect a handle that is set names the one  *)
(* block of its process's topic.                                             *)
LEMMA HandleBlock ==
  ASSUME TypeOK, ResizeInv, NEW p \in Proc, Blk(p) # NoBlock
  PROVE  /\ Blk(p) \in Block /\ descriptors[Blk(p)].active_
         /\ descriptors[Blk(p)].name_ = Topic[p]
  BY DEF TypeOK, HandleTypeOK, Handle, Blk, ResizeInv, HandleInv

(* A block in use is described anew by the publishers of its topic only, and *)
(* given other memory only by the one that grows it.                         *)
LEMMA DescriptorsStay ==
  ASSUME TypeOK, Undisturbed, ResizeInv, NEW p \in Proc, Step(p),
         NEW b \in Block, descriptors[b].active_, descriptors'[b] # descriptors[b]
  PROVE  /\ p \in Publishers /\ descriptors[b].name_ = Topic[p]
         /\ \/ op[p] = "allocateBlock" /\ at[p] = "in" /\ SameBlock(descriptors[b], descriptors'[b])
            \/ op[p] = "resize" /\ Blk(p) = b /\ SameBlock(descriptors[b], descriptors'[b])
            \/ GrowConstruct(p) /\ Blk(p) = b
<1>o. /\ descriptors \in [Block -> Descriptor]
      /\ segment \in [Names -> [ptr : Addresses \cup {NULL}, size : Nat]]
      /\ InitialSize = 16
  BY DEF TypeOK, MemoryTypeOK, InitialSize
<1>p. op[p] \in {"allocateBlock", "resize", "grow"} => p \in Publishers
  BY PublishersOrSubscribers DEF TypeOK, ControlTypeOK, SubscriberOps
<1>1. CASE AllocateReconnect(p)
  <2>0. op[p] = "allocateBlock" /\ at[p] = "in" /\ ~Constructing(p) /\ HoldsGlobal(p)
    BY <1>1 DEF AllocateReconnect, At, Constructing, HoldsGlobal, GlobalSections
  <2>1. PICK i \in Block :
          /\ IsFirst(i, Matching(p))
          /\ \/ descriptors' = descriptors
             \/ descriptors' = [descriptors EXCEPT ![i] = recordSize(descriptors[i],
                      InitialSize, segment[descriptors[i].name_].size)]
    BY <1>1 DEF AllocateReconnect
  <2>2. i = b
    BY <1>o, <2>1
  <2>3. descriptors[b].name_ = Topic[p]
    BY <2>1, <2>2 DEF IsFirst, Matching, matchName
  <2>4. ~BlockUnderConstruction(b)
    BY <2>0, ConstructingHolds, GlobalAlone DEF BlockUnderConstruction, ResizeInv, LockInv
  <2>5. /\ segment[descriptors[b].name_].size = descriptors[b].allocated_
        /\ InitialSize <= descriptors[b].allocated_
    BY <2>4 DEF ResizeInv, DescriptorInv
  <2>6. SameBlock(descriptors[b], descriptors'[b])
    <3>1. descriptors'[b] = recordSize(descriptors[b], InitialSize, descriptors[b].allocated_)
      BY <1>o, <2>1, <2>2, <2>5
    <3>2. descriptors[b].allocated_ \in Nat /\ descriptors[b].resize_count_ \in Nat
      BY <1>o DEF Descriptor
    <3>3. QED BY <1>o, <2>5, <3>1, <3>2 DEF SameBlock, recordSize
  <2>7. QED BY <1>p, <2>0, <2>3, <2>6
<1>2. CASE AllocateClaim(p)
  <2>1. PICK i \in Block :
          /\ IsFirst(i, Inactive)
          /\ descriptors' = [descriptors EXCEPT ![i] =
               recordSize(allocate(descriptors[i], Topic[p]), InitialSize, InitialSize)]
    BY <1>2 DEF AllocateClaim
  <2>2. i # b
    BY <2>1 DEF IsFirst, Inactive
  <2>3. QED BY <1>o, <2>1, <2>2
<1>3. CASE AllocateConstruct(p)
  <2>1. at[p] # "reconstruct" /\ op[p] = "allocateBlock"
    BY <1>3 DEF ResizeInv, ConstructionInv, AllocateConstruct
  <2>2. descriptors' = descriptors
    BY <1>o, <1>3, <2>1 DEF AllocateConstruct
  <2>3. QED BY <2>2
<1>4. CASE ReallocateResize(p)
  <2>1. /\ op[p] = "resize" /\ p \in Publishers
        /\ msg[p].size <= descriptors[Blk(p)].allocated_
        /\ descriptors' = [descriptors EXCEPT ![Blk(p)] = recordSize(@, msg[p].size, 0)]
    BY <1>4, <1>p DEF ReallocateResize, At
  <2>2. Blk(p) = b /\ Blk(p) # NoBlock
    BY <1>o, <2>1, NoBlockNotBlock
  <2>3. descriptors[b].name_ = Topic[p]
    BY <2>2, HandleBlock
  <2>4. msg[p].size \in Nat
    BY <2>1, DataAssumption DEF TypeOK, MessageTypeOK, Message
  <2>5. descriptors'[b] = recordSize(descriptors[b], msg[p].size, 0)
    BY <1>o, <2>1, <2>2
  <2>6. SameBlock(descriptors[b], descriptors'[b])
    BY <1>o, <2>1, <2>2, <2>4, <2>5 DEF SameBlock, recordSize, Descriptor
  <2>7. QED BY <2>1, <2>2, <2>3, <2>6
<1>5. CASE GrowConstruct(p)
  <2>1. op[p] = "grow" /\ \E d : descriptors' = [descriptors EXCEPT ![Blk(p)] = d]
    BY <1>5 DEF GrowConstruct, At
  <2>2. Blk(p) = b /\ Blk(p) # NoBlock
    BY <1>o, <2>1, NoBlockNotBlock
  <2>3. QED BY <1>p, <1>5, <2>1, <2>2, HandleBlock
<1>6. ~AllocateThrow(p) /\ ~GrowThrow(p) /\ ~ResetStep(p)
  BY NoReset DEF AllocateThrow, GrowThrow, Undisturbed
<1>7. CASE \/ LockStep(p) \/ AllocateNone(p) \/ ReallocateCheck(p) \/ ReallocateRefresh(p)
           \/ GrowDestroy(p) \/ SerializeStep(p) \/ ReceiveStep(p)
  BY <1>7 DEF LockStep, LockGlobal, RelockGlobal, LockBlock, RelockBlock,
     UnregisterGlobalClient, AllocateNone, ReallocateCheck, ReallocateRefresh, GrowDestroy,
     SerializeStep, SerializeRegister, WriteStart, WriteEnd, SignalData,
     ReceiveStep, FindHandle, WaitData, WaitTimeout, WaitNotified,
     RegisterGlobalClient, ReadStart, ReadEnd, UnregisterClient, Callback, memVars
<1>8. CASE \/ Fault(p) \/ Initialise(p) \/ Publish(p) \/ Subscribe(p) \/ ManagerExit(p)
           \/ Die(p) \/ SpuriousWakeup(p)
  BY <1>8 DEF Fault, Initialise, Publish, Subscribe, ManagerExit, Die, SpuriousWakeup, memVars
<1>9. QED
  BY <1>1, <1>2, <1>3, <1>4, <1>5, <1>6, <1>7, <1>8 DEF Step, AllocateStep, ReallocateStep

(* A step gives a topic other memory only if it constructs or destroys the   *)
(* block of a publisher of that topic.                                       *)
LEMMA SegmentStays ==
  ASSUME TypeOK, Undisturbed, ResizeInv, NEW p \in Proc, Step(p),
         NEW n \in Names, segment'[n] # segment[n]
  PROVE  /\ p \in Publishers /\ n = Topic[p] /\ Blk(p) \in Block
         /\ \/ AllocateConstruct(p)
            \/ GrowDestroy(p)
            \/ GrowConstruct(p)
<1>o. /\ segment \in [Names -> [ptr : Addresses \cup {NULL}, size : Nat]]
      /\ descriptors \in [Block -> Descriptor]
      /\ InitialSize = 16
  BY DEF TypeOK, MemoryTypeOK, InitialSize
<1>p. op[p] \in {"allocateBlock", "grow"} => p \in Publishers
  BY PublishersOrSubscribers DEF TypeOK, ControlTypeOK, SubscriberOps
<1>1. CASE AllocateConstruct(p)
  <2>1. Constructing(p) /\ op[p] = "allocateBlock"
    BY <1>1 DEF AllocateConstruct, Constructing
  <2>2. Blk(p) \in Block /\ descriptors[Blk(p)].name_ = Topic[p]
    BY <2>1, ConstructingHolds, HandleBlock, NoBlockNotBlock
  <2>3. n = Topic[p]
    BY <1>o, <1>1, <2>2 DEF AllocateConstruct, Construct
  <2>4. QED BY <1>p, <1>1, <2>1, <2>2, <2>3
<1>2. CASE GrowDestroy(p) \/ GrowConstruct(p)
  <2>1. op[p] = "grow"
    BY <1>2 DEF GrowDestroy, GrowConstruct, At
  <2>2. Blk(p) \in Block /\ descriptors[Blk(p)].name_ = Topic[p]
    BY <2>1, BlockInRange, HandleBlock, NoBlockNotBlock DEF HandleOps
  <2>3. n = Topic[p]
    BY <1>o, <1>2, <2>2 DEF GrowDestroy, GrowConstruct, Destroy, Construct
  <2>4. QED BY <1>p, <1>2, <2>1, <2>2, <2>3
<1>3. CASE AllocateReconnect(p)
  <2>0. op[p] = "allocateBlock" /\ at[p] = "in" /\ ~Constructing(p) /\ HoldsGlobal(p)
    BY <1>3 DEF AllocateReconnect, At, Constructing, HoldsGlobal, GlobalSections
  <2>1. PICK i \in Block :
          /\ IsFirst(i, Matching(p))
          /\ InitialSize > segment[descriptors[i].name_].size \/ segment' = segment
    BY <1>3 DEF AllocateReconnect
  <2>2. descriptors[i].active_ /\ ~BlockUnderConstruction(i)
    BY <2>0, <2>1, ConstructingHolds, GlobalAlone
    DEF BlockUnderConstruction, ResizeInv, LockInv, IsFirst, Matching
  <2>3. /\ segment[descriptors[i].name_].size = descriptors[i].allocated_
        /\ InitialSize <= descriptors[i].allocated_
    BY <2>2 DEF ResizeInv, DescriptorInv
  <2>4. descriptors[i].allocated_ \in Nat
    BY <1>o DEF Descriptor
  <2>5. QED BY <1>o, <2>1, <2>3, <2>4
<1>4. ~AllocateThrow(p) /\ ~GrowThrow(p) /\ ~ResetStep(p)
  BY NoReset DEF AllocateThrow, GrowThrow, Undisturbed
<1>5. CASE \/ LockStep(p) \/ AllocateNone(p) \/ AllocateClaim(p) \/ ReallocateCheck(p)
           \/ ReallocateRefresh(p) \/ ReallocateResize(p) \/ SerializeStep(p) \/ ReceiveStep(p)
  BY <1>5 DEF LockStep, LockGlobal, RelockGlobal, LockBlock, RelockBlock,
     UnregisterGlobalClient, AllocateNone, AllocateClaim, ReallocateCheck, ReallocateRefresh,
     ReallocateResize, SerializeStep, SerializeRegister, WriteStart, WriteEnd, SignalData,
     ReceiveStep, FindHandle, WaitData, WaitTimeout, WaitNotified,
     RegisterGlobalClient, ReadStart, ReadEnd, UnregisterClient, Callback, memVars
<1>6. CASE \/ Fault(p) \/ Initialise(p) \/ Publish(p) \/ Subscribe(p) \/ ManagerExit(p)
           \/ Die(p) \/ SpuriousWakeup(p)
  BY <1>6 DEF Fault, Initialise, Publish, Subscribe, ManagerExit, Die, SpuriousWakeup, memVars
<1>7. QED
  BY <1>1, <1>2, <1>3, <1>4, <1>5, <1>6 DEF Step, AllocateStep, ReallocateStep

-----------------------------------------------------------------------------
(* Who copies keeps the block in place: the last waits end as they should    *)

(* Outside allocateBlock and findHandle a process keeps its block.           *)
LEMMA BlockStays ==
  ASSUME TypeOK, Undisturbed, NEW p \in Proc, Step(p),
         op[p] \notin {"allocateBlock", "findHandle"}
  PROVE  Blk(p)' = Blk(p)
<1>o. handle \in [Proc -> Handle]
  BY DEF TypeOK, HandleTypeOK
<1>r. op[p] \in HandleOps => Refreshed(p).handle = Blk(p)
  BY RefreshedType
<1>1. ~AllocateStep(p) /\ ~FindHandle(p)
  BY DEF AllocateStep, AllocateReconnect, AllocateClaim, AllocateNone, AllocateConstruct,
     AllocateThrow, FindHandle, At
<1>2. ~ResetStep(p) /\ ~GrowThrow(p)
  BY NoReset DEF Undisturbed, GrowThrow
<1>3. CASE GrowConstruct(p)
  BY <1>3, <1>o DEF GrowConstruct, Blk
<1>4. CASE ReallocateRefresh(p)
  BY <1>4, <1>o DEF ReallocateRefresh, FreshHandle, Blk
<1>5. CASE WriteStart(p)
  BY <1>5, <1>o, <1>r DEF WriteStart, Blk, At, HandleOps
<1>6. CASE ReadStart(p)
  BY <1>6, <1>o, <1>r DEF ReadStart, Blk, At, HandleOps
<1>7. CASE \/ LockStep(p) \/ ReallocateCheck(p) \/ ReallocateResize(p) \/ GrowDestroy(p)
           \/ SerializeRegister(p) \/ WriteEnd(p) \/ SignalData(p)
           \/ WaitData(p) \/ WaitTimeout(p) \/ WaitNotified(p) \/ RegisterGlobalClient(p)
           \/ ReadEnd(p) \/ UnregisterClient(p) \/ Callback(p)
  <2>1. handle' = handle
    BY <1>7 DEF LockStep, LockGlobal, RelockGlobal, LockBlock, RelockBlock,
       UnregisterGlobalClient, ReallocateCheck, ReallocateResize, GrowDestroy,
       SerializeRegister, WriteEnd, SignalData, WaitData, WaitTimeout, WaitNotified,
       RegisterGlobalClient, ReadEnd, UnregisterClient, Callback, localVars
  <2>2. QED BY <2>1 DEF Blk
<1>8. CASE \/ Fault(p) \/ Initialise(p) \/ Publish(p) \/ Subscribe(p) \/ ManagerExit(p)
           \/ Die(p) \/ SpuriousWakeup(p)
  BY <1>8 DEF Fault, Initialise, Publish, Subscribe, ManagerExit, Die, SpuriousWakeup,
     localVars, Blk
<1>9. QED
  BY <1>1, <1>2, <1>3, <1>4, <1>5, <1>6, <1>7, <1>8
  DEF Step, ReallocateStep, SerializeStep, ReceiveStep

(* A process registers as a client of the segment under the mutex of its     *)
(* block, and keeps that block while it is registered.                       *)
LEMMA GlobalEntry ==
  ASSUME TypeOK, Undisturbed, NEW p \in Proc, Step(p), p \in GlobalClients'
  PROVE  /\ p \in GlobalClients \/ HoldsBlock(p)
         /\ Blk(p)' = Blk(p)
<1>o. op \in [Proc -> PublisherOps \cup SubscriberOps \cup ManagerOps \cup ReleaserOps]
  BY DEF TypeOK, ControlTypeOK
<1>0. op'[p] \in {"write", "read", "unregister", "overrun"}
  BY DEF GlobalClients
<1>1. \/ op[p] \in {"write", "read", "unregister", "overrun", "register"}
      \/ op[p] = "serialize" /\ at[p] = "in"
  <2>1. CASE LockStep(p)
    BY <2>1, <1>o, <1>0 DEF LockStep, LockGlobal, RelockGlobal, LockBlock, RelockBlock,
       UnregisterGlobalClient, GlobalSections, BlockSections, Goto
  <2>2. CASE AllocateStep(p)
    BY <2>2, <1>o, <1>0 DEF AllocateStep, AllocateReconnect, AllocateClaim, AllocateNone,
       AllocateConstruct, AllocateThrow, Return, Goto, At
  <2>3. CASE ReallocateStep(p)
    BY <2>3, <1>o, <1>0 DEF ReallocateStep, ReallocateCheck, ReallocateRefresh,
       ReallocateResize, GrowDestroy, GrowConstruct, GrowThrow, Return, Goto, At
  <2>4. CASE SerializeStep(p)
    BY <2>4, <1>o, <1>0 DEF SerializeStep, SerializeRegister, WriteStart, WriteEnd, SignalData,
       Return, Goto, At
  <2>5. CASE ReceiveStep(p)
    BY <2>5, <1>o, <1>0 DEF ReceiveStep, FindHandle, WaitData, WaitTimeout, WaitNotified,
       RegisterGlobalClient, ReadStart, ReadEnd, UnregisterClient, Callback, Goto, At
  <2>6. ~ResetStep(p)
    BY NoReset
  <2>7. CASE \/ Fault(p) \/ Initialise(p) \/ Publish(p) \/ Subscribe(p) \/ ManagerExit(p)
             \/ Die(p) \/ SpuriousWakeup(p)
    BY <2>7, <1>o, <1>0 DEF Fault, Initialise, Publish, Subscribe, ManagerExit, Die,
       SpuriousWakeup, Goto, At, pcVars
  <2>8. QED BY <2>1, <2>2, <2>3, <2>4, <2>5, <2>6, <2>7 DEF Step
<1>2. p \in GlobalClients \/ HoldsBlock(p)
  BY <1>1 DEF GlobalClients, HoldsBlock, BlockSections
<1>3. QED BY <1>1, <1>2, BlockStays

(* A publisher gets past the check_global_clients of a grow only when nobody *)
(* is registered.                                                            *)
LEMMA GrowEntry ==
  ASSUME TypeOK, ClientsCounted, ~SpuriousWakeups, NEW q \in Proc, Step(q), ClientsCounted',
         NEW p \in Proc, Growing(p)'
  PROVE  Growing(p) \/ GlobalClients' = {}
<1>o. /\ op \in [Proc -> PublisherOps \cup SubscriberOps \cup ManagerOps \cup ReleaserOps]
      /\ at \in [Proc -> {"start", "wait", "in", "construct", "reconstruct", "destroyed"}]
      /\ op'[p] = "grow"
  BY DEF TypeOK, ControlTypeOK, Growing
<1>e. /\ num_clients = 0 => GlobalClients = {}
      /\ num_clients' = 0 => GlobalClients' = {}
  BY ClientsFinite, FS_EmptySet DEF ClientsCounted
<1>1. CASE p = q
  <2>1. CASE LockGlobal(p)
    <3>1. CASE num_clients # 0 /\ cond' = cond \cup {p} /\ at' = [at EXCEPT ![p] = "wait"]
      BY <3>1, <1>o DEF Growing, Constructing
    <3>2. CASE num_clients = 0
      <4>1. num_clients' = 0
        BY <2>1, <3>2 DEF LockGlobal
      <4>2. QED BY <4>1, <1>e
    <3>3. QED BY <2>1, <3>1, <3>2 DEF LockGlobal
  <2>2. CASE RelockGlobal(p)
    BY <2>2, <1>o DEF RelockGlobal, Growing
  <2>3. CASE LockBlock(p) \/ RelockBlock(p) \/ UnregisterGlobalClient(p)
    BY <2>3, <1>o DEF LockBlock, RelockBlock, UnregisterGlobalClient, BlockSections, Goto
  <2>4. CASE AllocateStep(p)
    BY <2>4, <1>o DEF AllocateStep, AllocateReconnect, AllocateClaim, AllocateNone,
       AllocateConstruct, AllocateThrow, Return, Goto, At
  <2>5. CASE ReallocateStep(p)
    BY <2>5, <1>o DEF ReallocateStep, ReallocateCheck, ReallocateRefresh,
       ReallocateResize, GrowDestroy, GrowConstruct, GrowThrow, Return, Goto, At, Growing,
       Constructing
  <2>6. CASE SerializeStep(p)
    BY <2>6, <1>o DEF SerializeStep, SerializeRegister, WriteStart, WriteEnd, SignalData,
       Return, Goto, At
  <2>7. CASE ReceiveStep(p)
    BY <2>7, <1>o DEF ReceiveStep, FindHandle, WaitData, WaitTimeout, WaitNotified,
       RegisterGlobalClient, ReadStart, ReadEnd, UnregisterClient, Callback, Goto, At
  <2>8. CASE ResetStep(p)
    BY <2>8, <1>o DEF ResetStep, ResetDestroy, ResetDescriptor, ResetEnd, ResetBlockEnter,
       ClearDestroy, ResetBlockClear, Goto, At
  <2>9. CASE Initialise(p) \/ Publish(p) \/ Subscribe(p) \/ ManagerExit(p) \/ SpuriousWakeup(p)
    BY <2>9, <1>o DEF Initialise, Publish, Subscribe, ManagerExit, SpuriousWakeup, Goto
  <2>10. CASE Fault(p) \/ Die(p)
    BY <2>10 DEF Fault, Die, pcVars, globalVars, Growing, Constructing
  <2>11. QED
    BY <1>1, <2>1, <2>2, <2>3, <2>4, <2>5, <2>6, <2>7, <2>8, <2>9, <2>10 DEF Step, LockStep
<1>2. CASE p # q
  <2>1. op[p] = "grow" /\ at'[p] = at[p]
    BY <1>2, <1>o, OthersStay
  <2>2. p \notin cond \/ num_clients' = 0 \/ cond' = cond \/ cond' = cond \cup {q}
    <3>1. CASE LockStep(q)
      BY <3>1 DEF LockStep, LockGlobal, RelockGlobal, LockBlock, RelockBlock,
         UnregisterGlobalClient, globalVars
    <3>2. CASE AllocateStep(q) \/ ReallocateStep(q)
      BY <3>2 DEF AllocateStep, AllocateReconnect, AllocateClaim, AllocateNone,
         AllocateConstruct, AllocateThrow, ReallocateStep, ReallocateCheck, ReallocateRefresh,
         ReallocateResize, GrowDestroy, GrowConstruct, GrowThrow, globalVars
    <3>3. CASE SerializeStep(q) \/ ReceiveStep(q) \/ ResetStep(q)
      BY <3>3 DEF SerializeStep, SerializeRegister, WriteStart, WriteEnd, SignalData,
         ReceiveStep, FindHandle, WaitData, WaitTimeout, WaitNotified,
         RegisterGlobalClient, ReadStart, ReadEnd, UnregisterClient, Callback,
         ResetStep, ResetDestroy, ResetDescriptor, ResetEnd, ResetBlockEnter, ClearDestroy,
         ResetBlockClear, globalVars
    <3>4. CASE \/ Fault(q) \/ Initialise(q) \/ Publish(q) \/ Subscribe(q) \/ ManagerExit(q)
               \/ Die(q) \/ SpuriousWakeup(q)
      BY <3>4 DEF Fault, Initialise, Publish, Subscribe, ManagerExit, Die, SpuriousWakeup,
         globalVars
    <3>5. QED BY <3>1, <3>2, <3>3, <3>4 DEF Step
  <2>3. QED BY <1>o, <1>e, <2>1, <2>2 DEF Growing, Constructing
<1>3. QED BY <1>1, <1>2

LEMMA PinNext ==
  ASSUME TypeOK, Undisturbed, ~SpuriousWakeups, ResizeInv, ClientsCounted, ClientsCounted',
         \A p \in Proc : PinInv(p), NEW r \in Proc, Step(r), NEW p \in Proc
  PROVE  PinInv(p)'
<1> SUFFICES ASSUME Growing(p)', NEW q \in GlobalClients', Blk(q)' = Blk(p)' PROVE FALSE
  BY DEF PinInv
<1>1. q \in Proc
  BY DEF GlobalClients
<1>2. Growing(p)
  BY GrowEntry
<1>3. op[p] = "grow" /\ HoldsBlock(p) /\ p # q /\ Blk(p) \in Block
  BY <1>2, BlockInRange DEF Growing, HoldsBlock, GlobalClients, HandleOps
<1>4. Blk(p)' = Blk(p)
  <2>1. CASE r = p
    BY <1>3, <2>1, BlockStays
  <2>2. CASE r # p
    BY <2>2, OthersStay DEF Blk
  <2>3. QED BY <2>1, <2>2
<1>5. Blk(q)' = Blk(q) /\ (q \in GlobalClients \/ HoldsBlock(q))
  <2>1. CASE r = q
    BY <2>1, GlobalEntry
  <2>2. CASE r # q
    BY <1>1, <2>2, OthersStay DEF Blk, GlobalClients
  <2>3. QED BY <2>1, <2>2
<1>6. q \notin GlobalClients
  BY <1>2, <1>4, <1>5 DEF PinInv
<1>7. QED
  BY <1>1, <1>3, <1>4, <1>5, <1>6, BlockAlone DEF ResizeInv, LockInv

(* A process begins to copy a message out with ReadStart only.               *)
LEMMA ReadEntry ==
  ASSUME TypeOK, NEW p \in Proc, Step(p), At(p, "read", "in")'
  PROVE  \/ ReadStart(p)
         \/ UNCHANGED <<op, at, handle, msg, descriptors, segment>>
<1>o. /\ op \in [Proc -> PublisherOps \cup SubscriberOps \cup ManagerOps \cup ReleaserOps]
      /\ at \in [Proc -> {"start", "wait", "in", "construct", "reconstruct", "destroyed"}]
      /\ op'[p] = "read" /\ at'[p] = "in"
  BY DEF TypeOK, ControlTypeOK, At
<1>1. CASE LockStep(p)
  BY <1>1, <1>o DEF LockStep, LockGlobal, RelockGlobal, LockBlock, RelockBlock,
     UnregisterGlobalClient, GlobalSections, BlockSections, Goto
<1>2. CASE AllocateStep(p)
  BY <1>2, <1>o DEF AllocateStep, AllocateReconnect, AllocateClaim, AllocateNone,
     AllocateConstruct, AllocateThrow, Return, Goto, At
<1>3. CASE ReallocateStep(p)
  BY <1>3, <1>o DEF ReallocateStep, ReallocateCheck, ReallocateRefresh,
     ReallocateResize, GrowDestroy, GrowConstruct, GrowThrow, Return, Goto, At
<1>4. CASE SerializeStep(p)
  BY <1>4, <1>o DEF SerializeStep, SerializeRegister, WriteStart, WriteEnd, SignalData,
     Return, Goto, At
<1>5. CASE ReceiveStep(p)
  BY <1>5, <1>o DEF ReceiveStep, FindHandle, WaitData, WaitTimeout, WaitNotified,
     RegisterGlobalClient, ReadEnd, UnregisterClient, Callback, Goto, At
<1>6. CASE ResetStep(p)
  BY <1>6, <1>o DEF ResetStep, ResetDestroy, ResetDescriptor, ResetEnd, ResetBlockEnter,
     ClearDestroy, ResetBlockClear, Goto, At
<1>7. CASE Initialise(p) \/ Publish(p) \/ Subscribe(p) \/ ManagerExit(p)
  BY <1>7, <1>o DEF Initialise, Publish, Subscribe, ManagerExit, Goto
<1>8. CASE Fault(p) \/ Die(p) \/ SpuriousWakeup(p)
  BY <1>8 DEF Fault, Die, SpuriousWakeup, pcVars, memVars, localVars
<1>9. QED BY <1>1, <1>2, <1>3, <1>4, <1>5, <1>6, <1>7, <1>8 DEF Step

LEMMA ReadNext ==
  ASSUME TypeOK, Undisturbed, ResizeInv, CopyInv, NEW r \in Proc, Step(r), NEW s \in Proc
  PROVE  ReadInv(s)'
<1> SUFFICES ASSUME At(s, "read", "in")'
             PROVE  /\ handle'[s].resize_count = descriptors'[Blk(s)'].resize_count_
                    /\ msg'[s].size <= descriptors'[Blk(s)'].allocated_
  BY DEF ReadInv
<1>o. /\ handle \in [Proc -> Handle] /\ descriptors \in [Block -> Descriptor]
      /\ msg \in [Proc -> {NoMessage} \cup Message \cup Received]
      /\ op \in [Proc -> PublisherOps \cup SubscriberOps \cup ManagerOps \cup ReleaserOps]
  BY DEF TypeOK, ControlTypeOK, MessageTypeOK, HandleTypeOK, MemoryTypeOK
<1>1. CASE s = r /\ ReadStart(s)
  <2>1. op[s] = "read" /\ descriptors' = descriptors
    BY <1>1 DEF ReadStart, At, memVars
  <2>2. PICK b \in Block : b = Blk(s)
    BY <2>1, BlockInRange DEF HandleOps
  <2>3. /\ handle'[s] = Refreshed(s) /\ msg'[s].size = descriptors[b].size_
    BY <1>1, <1>o, <2>2 DEF ReadStart, Goto, At
  <2>4. Blk(s)' = b /\ handle'[s].resize_count = descriptors[b].resize_count_
    BY <1>o, <2>2, <2>3 DEF Refreshed, FreshHandle, Stale, Blk
  <2>5. descriptors[b].active_
    BY <2>2, HandleBlock, NoBlockNotBlock
  <2>6. descriptors[b].size_ <= descriptors[b].allocated_
    BY <2>5 DEF ResizeInv, DescriptorInv
  <2>7. QED BY <2>1, <2>3, <2>4, <2>6
<1>2. CASE s = r /\ ~ReadStart(s)
  <2>1. UNCHANGED <<op, at, handle, msg, descriptors>>
    BY <1>2, ReadEntry
  <2>2. ReadInv(s) /\ At(s, "read", "in")
    BY <2>1 DEF CopyInv, At
  <2>3. QED BY <2>1, <2>2 DEF ReadInv, Blk
<1>3. CASE s # r
  <2>1. /\ op'[s] = op[s] /\ at'[s] = at[s] /\ handle'[s] = handle[s]
        /\ msg'[s].size = msg[s].size
    BY <1>3, OthersStay
  <2>2. At(s, "read", "in") /\ Blk(s)' = Blk(s)
    BY <2>1 DEF At, Blk
  <2>3. PICK b \in Block : b = Blk(s)
    BY <2>2, BlockInRange DEF At, HandleOps
  <2>4. /\ handle[s].resize_count = descriptors[b].resize_count_
        /\ msg[s].size <= descriptors[b].allocated_
    BY <2>2, <2>3 DEF CopyInv, ReadInv
  <2>5. descriptors[b].active_
    BY <2>3, HandleBlock, NoBlockNotBlock
  <2>6. ~(GrowConstruct(r) /\ Blk(r) = b)
    <3>1. s \in GlobalClients
      BY <2>2 DEF GlobalClients, At
    <3>2. ~(Growing(r) /\ Blk(r) = b)
      BY <2>3, <3>1 DEF CopyInv, PinInv
    <3>3. GrowConstruct(r) => Growing(r)
      BY DEF GrowConstruct, Growing, Constructing, At
    <3>4. QED BY <3>2, <3>3
  <2>7. SameBlock(descriptors[b], descriptors'[b])
    BY <2>5, <2>6, DescriptorsStay DEF SameBlock
  <2>8. /\ descriptors'[b].resize_count_ = descriptors[b].resize_count_
        /\ descriptors'[b].allocated_ = descriptors[b].allocated_
    BY <2>7 DEF SameBlock
  <2>9. QED BY <2>1, <2>2, <2>3, <2>4, <2>8
<1>4. QED BY <1>1, <1>2, <1>3

LEMMA CopyNext ==
  ASSUME TypeOK, Undisturbed, ~SpuriousWakeups, ResizeInv, ClientsCounted, CopyInv, [Next]_vars
  PROVE  CopyInv'
<1>1. CASE UNCHANGED vars
  BY <1>1 DEF vars, pcVars, globalVars, memVars, localVars, CopyInv, PinInv, ReadInv, Growing,
     GlobalClients, Constructing, Blk, At
<1>2. ASSUME NEW r \in Proc, Step(r) PROVE CopyInv'
  <2>1. ClientsCounted'
    BY ClientsNext
  <2>2. \A p \in Proc : PinInv(p)
    BY DEF CopyInv
  <2>3. \A p \in Proc : PinInv(p)'
    BY <1>2, <2>1, <2>2, PinNext
  <2>4. \A p \in Proc : ReadInv(p)'
    BY <1>2, ReadNext
  <2>5. QED BY <2>3, <2>4 DEF CopyInv
<1>3. QED BY <1>1, <1>2, NextStep

(* While no allocation fails, nobody resets and no wait ends unnotified:     *)
(* nobody is past the check_global_clients of a grow while somebody copies   *)
(* on that block, so that what a receiver found out when it began to copy    *)
(* stays true; for any number of publishers and subscribers of a topic.      *)
THEOREM CopiesPin == ASSUME Undisturbed, ~SpuriousWakeups PROVE Spec => []CopyInv
<1>1. Init => TypeOK /\ ResizeInv /\ ClientsCounted /\ CopyInv
  <2>1. Init => CopyInv
    BY DEF Init, CopyInv, PinInv, ReadInv, Growing, At
  <2>2. QED BY <2>1, TypeInit, ResizeInit, ClientsInit
<1>2. TypeOK /\ ResizeInv /\ ClientsCounted /\ CopyInv /\ [Next]_vars
        => (TypeOK /\ ResizeInv /\ ClientsCounted /\ CopyInv)'
  BY TypeNext, ResizeNext, ClientsNext, CopyNext
<1>3. QED BY <1>1, <1>2, PTL DEF Spec

(* A receiver in the middle of its copy finds the block complete.            *)
LEMMA ReaderBlock ==
  ASSUME TypeOK, ResizeInv, CopyInv, NEW s \in Subscribers, At(s, "read", "in")
  PROVE  /\ Blk(s) \in Block /\ ~BlockUnderConstruction(Blk(s))
         /\ Topic[s] \in Names
         /\ segment[Topic[s]].ptr \in Addresses /\ handle[s].ptr = segment[Topic[s]].ptr
         /\ msg[s].size <= segment[Topic[s]].size
<1>0. s \in Proc /\ op[s] = "read" /\ at[s] = "in" /\ s \in GlobalClients
  BY DEF Proc, At, GlobalClients
<1>1. PICK b \in Block : b = Blk(s)
  BY <1>0, BlockInRange DEF HandleOps
<1>2. /\ HandleInv(s) /\ ConstructionInv(s) /\ DescriptorInv(b) /\ ReadInv(s)
      /\ descriptors[b].active_ /\ descriptors[b].name_ = Topic[s] /\ Blk(s) # NoBlock
  BY <1>0, <1>1, NoBlockNotBlock, HandleBlock DEF ResizeInv, CopyInv
<1>3. ~BlockUnderConstruction(b)
  <2>1. ASSUME NEW q \in Proc, Constructing(q), Blk(q) = b PROVE FALSE
    <3>1. CASE op[q] = "allocateBlock"
      <4>1. s = q
        BY <1>0, <1>1, <2>1, <3>1 DEF ResizeInv, ConstructionInv
      <4>2. QED BY <4>1, <3>1, <1>0
    <3>2. CASE op[q] = "grow"
      <4>1. Growing(q)
        BY <2>1, <3>2 DEF Growing
      <4>2. QED BY <1>0, <1>1, <2>1, <4>1 DEF CopyInv, PinInv
    <3>3. QED BY <2>1, <3>1, <3>2, ConstructingHolds
  <2>2. QED BY <2>1 DEF BlockUnderConstruction
<1>4. handle[s].ptr = segment[Topic[s]].ptr /\ msg[s].size <= descriptors[b].allocated_
  BY <1>0, <1>1, <1>2, <1>3 DEF HandleInv, ReadInv, At
<1>5. Topic[s] \in Names
  BY DataAssumption DEF Names
<1>6. segment[Topic[s]].ptr \in Addresses /\ segment[Topic[s]].size = descriptors[b].allocated_
  BY <1>2, <1>3 DEF DescriptorInv
<1>7. QED BY <1>1, <1>3, <1>4, <1>5, <1>6

(* A subscriber only ever copies out of the current block of its topic, and  *)
(* never past its end, although it holds no lock while it does.              *)
THEOREM ReadersInBlock ==
  ASSUME Undisturbed, ~SpuriousWakeups PROVE Spec => []ReaderInBlock
<1>1. TypeOK /\ ResizeInv /\ CopyInv => ReaderInBlock
  BY ReaderBlock DEF ReaderInBlock
<1>2. QED BY <1>1, TypeCorrect, ResizeCorrect, CopiesPin, PTL

(* The memory of a topic is never freed or moved while a publisher or a      *)
(* subscriber copies a message in or out of it.                              *)
THEOREM CopiesStay ==
  ASSUME Undisturbed, ~SpuriousWakeups PROVE Spec => CopyPinsBlock
<1>1. ASSUME TypeOK, ResizeInv, CopyInv, [Next]_vars, NEW p \in Proc,
             At(p, "write", "in") \/ At(p, "read", "in")
      PROVE  segment'[Topic[p]].ptr = segment[Topic[p]].ptr
  <2>0. /\ op[p] \in {"write", "read"} /\ at[p] = "in" /\ p \in GlobalClients
        /\ Blk(p) \in Block
    BY <1>1, BlockInRange DEF At, GlobalClients, HandleOps
  <2>1. CASE UNCHANGED vars
    BY <2>1 DEF vars, memVars
  <2>2. ASSUME NEW r \in Proc, Step(r), segment'[Topic[p]] # segment[Topic[p]] PROVE FALSE
    <3>1. Topic[p] \in Names /\ descriptors[Blk(p)].active_ /\ descriptors[Blk(p)].name_ = Topic[p]
      BY <1>1, <2>0, HandleBlock, NoBlockNotBlock DEF TypeOK, MemoryTypeOK, Descriptor
    <3>2. /\ Topic[p] = Topic[r] /\ Blk(r) \in Block
          /\ AllocateConstruct(r) \/ GrowDestroy(r) \/ GrowConstruct(r)
      BY <1>1, <2>2, <3>1, SegmentStays
    <3>3. Blk(r) = Blk(p)
      BY <1>1, <2>0, <3>1, <3>2, HandleBlock, NoBlockNotBlock DEF ResizeInv, OneBlockPerTopic
    <3>4. CASE AllocateConstruct(r)
      <4>1. op[r] = "allocateBlock" /\ Constructing(r)
        BY <3>4 DEF AllocateConstruct, Constructing
      <4>2. p = r
        BY <1>1, <3>3, <4>1 DEF ResizeInv, ConstructionInv
      <4>3. QED BY <2>0, <4>1, <4>2
    <3>5. CASE GrowDestroy(r) \/ GrowConstruct(r)
      <4>1. Growing(r)
        BY <3>5 DEF GrowDestroy, GrowConstruct, Growing, Constructing, At
      <4>2. QED BY <1>1, <2>0, <3>3, <4>1 DEF CopyInv, PinInv
    <3>6. QED BY <3>2, <3>4, <3>5
  <2>3. QED BY <1>1, <2>1, <2>2, NextStep
<1>2. TypeOK /\ ResizeInv /\ CopyInv /\ [Next]_vars =>
        [\A p \in Proc :
           At(p, "write", "in") \/ At(p, "read", "in")
           => segment'[Topic[p]].ptr = segment[Topic[p]].ptr]_vars
  BY <1>1
<1>3. QED BY <1>2, TypeCorrect, ResizeCorrect, CopiesPin, PTL DEF CopyPinsBlock, Spec

(* findHandle holds the global mutex, so that no block is under construction *)
(* when connectBlock looks one up: the size it finds is the size recorded.   *)
THEOREM BlocksPresent == ASSUME Undisturbed PROVE Spec => []BlockPresent
<1>1. ASSUME TypeOK, ResizeInv, NEW s \in Subscribers \cup Releasers, NEW b \in Block,
             At(s, "findHandle", "in"), IsFirst(b, Matching(s))
      PROVE  segment[descriptors[b].name_].size >= descriptors[b].size_
  <2>1. s \in Proc /\ HoldsGlobal(s) /\ ~Constructing(s)
    BY <1>1 DEF Proc, At, HoldsGlobal, GlobalSections, Constructing
  <2>2. ~BlockUnderConstruction(b)
    BY <1>1, <2>1, ConstructingHolds, GlobalAlone DEF BlockUnderConstruction, ResizeInv, LockInv
  <2>3. descriptors[b].active_
    BY <1>1 DEF IsFirst, Matching
  <2>4. /\ segment[descriptors[b].name_].size = descriptors[b].allocated_
        /\ descriptors[b].size_ <= descriptors[b].allocated_
    BY <1>1, <2>2, <2>3 DEF ResizeInv, DescriptorInv
  <2>5. descriptors[b].allocated_ \in Nat /\ descriptors[b].size_ \in Nat
    BY <1>1 DEF TypeOK, MemoryTypeOK, Descriptor
  <2>6. QED BY <2>4, <2>5
<1>2. TypeOK /\ ResizeInv => BlockPresent
  BY <1>1 DEF BlockPresent
<1>3. QED BY <1>2, TypeCorrect, ResizeCorrect, PTL
=============================================================================
