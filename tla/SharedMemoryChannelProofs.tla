--------------------- MODULE SharedMemoryChannelProofs ---------------------
(***************************************************************************)
(* Proofs about SharedMemoryBlock with one publisher on each topic, and    *)
(* with one subscriber too: what keeps the two apart, that no message is   *)
(* torn, and that the whole implements TopicChannel.                       *)
(***************************************************************************)
EXTENDS SharedMemoryChannel, SharedMemoryBlockResizeProofs

-----------------------------------------------------------------------------
(* One publisher on each topic                                               *)

OnePublisher == \A p, q \in Publishers : Topic[p] = Topic[q] => p = q

(* Publishers and subscribers run their own methods.                         *)
LEMMA Roles ==
  ASSUME TypeOK, Undisturbed, NEW p \in Proc
  PROVE  /\ ~ResetStep(p)
         /\ p \in Publishers => ~ReceiveStep(p) /\ ~Subscribe(p) /\ op[p] \in PublisherOps
         /\ p \in Subscribers => /\ ~AllocateStep(p) /\ ~ReallocateStep(p) /\ ~SerializeStep(p)
                                 /\ ~LockBlock(p) /\ ~RelockBlock(p)
                                 /\ ~Initialise(p) /\ ~Publish(p)
                                 /\ op[p] \in SubscriberOps
<1>1. p \in Publishers => op[p] \in PublisherOps
  BY DEF TypeOK, ControlTypeOK
<1>2. p \in Subscribers => op[p] \in SubscriberOps
  BY DEF TypeOK, ControlTypeOK
<1>3. p \in Publishers => ~ReceiveStep(p)
  BY <1>1 DEF PublisherOps, ReceiveStep, FindHandle, WaitData, WaitTimeout, WaitNotified,
     RegisterGlobalClient, ReadStart, ReadEnd, UnregisterClient, Callback, At
<1>4. p \in Publishers => ~Subscribe(p)
  BY ProcessAssumption DEF Subscribe, Undisturbed
<1>5. p \in Subscribers => ~AllocateStep(p) /\ ~ReallocateStep(p)
  BY <1>2 DEF SubscriberOps, AllocateStep, AllocateReconnect, AllocateClaim, AllocateNone,
     AllocateConstruct, AllocateThrow, ReallocateStep, ReallocateCheck, ReallocateRefresh,
     ReallocateResize, GrowDestroy, GrowConstruct, GrowThrow, At
<1>6. p \in Subscribers => ~SerializeStep(p) /\ ~LockBlock(p) /\ ~RelockBlock(p) /\ ~Initialise(p)
  BY <1>2 DEF SubscriberOps, SerializeStep, SerializeRegister, WriteStart, WriteEnd,
     SignalData, LockBlock, RelockBlock, BlockSections, Initialise, At
<1>7. p \in Subscribers => ~Publish(p)
  BY ProcessAssumption DEF Publish
<1>8. QED BY <1>1, <1>2, <1>3, <1>4, <1>5, <1>6, <1>7, NoReset

LEMMA RecordedNext ==
  ASSUME TypeOK, Undisturbed, OnePublisher, ResizeInv, NEW r \in Proc, Step(r),
         NEW p \in Publishers, RecordedInv(p)
  PROVE  RecordedInv(p)'
<1>o. /\ op \in [Proc -> PublisherOps \cup SubscriberOps \cup ManagerOps \cup ReleaserOps]
      /\ at \in [Proc -> {"start", "wait", "in", "construct", "reconstruct", "destroyed"}]
      /\ handle \in [Proc -> Handle] /\ descriptors \in [Block -> Descriptor]
      /\ msg \in [Proc -> {NoMessage} \cup Message \cup Received]
      /\ p \in Proc
  BY DEF TypeOK, ControlTypeOK, MessageTypeOK, HandleTypeOK, MemoryTypeOK, Proc
<1>1. CASE r = p
  <2>1. CASE LockStep(p)
    BY <2>1, <1>o DEF LockStep, LockGlobal, RelockGlobal, LockBlock, RelockBlock,
       UnregisterGlobalClient, GlobalSections, BlockSections, Goto, memVars, localVars,
       RecordedInv, Blk, At
  <2>2. CASE AllocateStep(p)
    BY <2>2, <1>o DEF AllocateStep, AllocateReconnect, AllocateClaim, AllocateNone,
       AllocateConstruct, AllocateThrow, Return, Goto, At, RecordedInv
  <2>3. CASE ReallocateCheck(p) \/ ReallocateRefresh(p) \/ GrowDestroy(p) \/ GrowThrow(p)
    BY <2>3, <1>o DEF ReallocateCheck, ReallocateRefresh, GrowDestroy, GrowThrow, Undisturbed,
       Return, Goto, At, RecordedInv
  <2>4. CASE ReallocateResize(p)
    <3>1. PICK b \in Block : b = Blk(p)
      BY <2>4, <1>o, BlockInRange DEF ReallocateResize, At, HandleOps
    <3>2. CASE Goto(p, "grow", "start") \/ Return(p)
      BY <3>2, <1>o DEF Return, Goto, RecordedInv, At
    <3>3. CASE /\ descriptors' = [descriptors EXCEPT ![b] = recordSize(@, msg[p].size, 0)]
               /\ Goto(p, "serialize", "start") /\ msg' = msg /\ handle' = handle
      <4>1. descriptors'[b].size_ = msg[p].size
        BY <3>3, <1>o DEF recordSize
      <4>2. QED BY <3>1, <3>3, <4>1, <1>o DEF RecordedInv, Goto, Blk
    <3>4. QED BY <2>4, <3>1, <3>2, <3>3 DEF ReallocateResize
  <2>5. CASE GrowConstruct(p)
    <3>1. PICK b \in Block : b = Blk(p)
      BY <2>5, <1>o, BlockInRange DEF GrowConstruct, At, HandleOps
    <3>2. /\ descriptors'[b].size_ = msg[p].size
          /\ Blk(p)' = b /\ Goto(p, "serialize", "start")
      BY <2>5, <3>1, <1>o DEF GrowConstruct, recordSize, Blk
    <3>3. msg'[p] = msg[p]
      BY <2>5, <1>o, OverwriteMessages DEF GrowConstruct, Construct
    <3>4. QED BY <3>2, <3>3, <1>o DEF RecordedInv, Goto
  <2>6. CASE SerializeRegister(p)
    BY <2>6, <1>o DEF SerializeRegister, Goto, At, RecordedInv, memVars, localVars, Blk
  <2>7. CASE WriteStart(p)
    <3>1. descriptors[Blk(p)].size_ = msg[p].size /\ op[p] = "write"
      BY <2>7 DEF WriteStart, RecordedInv, At
    <3>2. msg[p].size \in Nat
      BY <3>1, DataAssumption DEF TypeOK, MessageTypeOK, Message
    <3>3. op' = op /\ at' = [at EXCEPT ![p] = "in"]
      BY <2>7, <3>1, <3>2 DEF WriteStart
    <3>4. QED BY <3>1, <3>3, <1>o DEF RecordedInv, At
  <2>8. CASE WriteEnd(p) \/ SignalData(p)
    BY <2>8, <1>o DEF WriteEnd, SignalData, Return, Goto, RecordedInv, At
  <2>9. CASE Initialise(p) \/ Publish(p) \/ ManagerExit(p)
    BY <2>9, <1>o DEF Initialise, Publish, ManagerExit, Goto, RecordedInv, At
  <2>10. CASE Fault(p) \/ Die(p) \/ SpuriousWakeup(p)
    BY <2>10 DEF Fault, Die, SpuriousWakeup, pcVars, memVars, localVars, RecordedInv, At, Blk
  <2>11. QED
    BY <1>1, <1>o, <2>1, <2>2, <2>3, <2>4, <2>5, <2>6, <2>7, <2>8, <2>9, <2>10, Roles
    DEF Step, ReallocateStep, SerializeStep
<1>2. CASE r # p
  <2>1. op'[p] = op[p] /\ at'[p] = at[p] /\ handle'[p] = handle[p] /\ msg'[p] = msg[p]
    BY <1>2, <1>o, OthersStay
  <2>2. ASSUME op[p] = "serialize" \/ At(p, "write", "start")
        PROVE  descriptors'[Blk(p)] = descriptors[Blk(p)]
    <3>1. PICK b \in Block : b = Blk(p)
      BY <2>2, <1>o, BlockInRange DEF At, HandleOps
    <3>2. descriptors[b].active_ /\ descriptors[b].name_ = Topic[p]
      BY <1>o, <3>1, HandleBlock, NoBlockNotBlock
    <3>3. QED BY <1>2, <3>1, <3>2, DescriptorsStay DEF OnePublisher
  <2>3. QED BY <2>1, <2>2 DEF RecordedInv, At, Blk
<1>3. QED BY <1>1, <1>2

LEMMA RecordedAlways ==
  ASSUME Undisturbed, OnePublisher PROVE Spec => [](\A p \in Publishers : RecordedInv(p))
<1> DEFINE Inv == \A p \in Publishers : RecordedInv(p)
<1>1. Init => Inv
  BY DEF Init, Proc, RecordedInv, At
<1>2. ASSUME TypeOK, ResizeInv, Inv, [Next]_vars PROVE Inv'
  <2>1. CASE UNCHANGED vars
    BY <1>2, <2>1 DEF vars, pcVars, memVars, localVars, RecordedInv, At, Blk
  <2>2. CASE \E r \in Proc : Step(r)
    BY <1>2, <2>2, RecordedNext
  <2>3. QED BY <1>2, <2>1, <2>2, NextStep
<1> HIDE DEF Inv
<1>3. Spec => []Inv
  BY <1>1, <1>2, TypeCorrect, ResizeCorrect, PTL DEF Spec
<1>4. QED BY <1>3 DEF Inv

(* With one publisher on each topic, however many subscribers, publish never *)
(* ends in a StreamOverrun: the size_ that reallocateBlock recorded is still *)
(* the size of its message when serialize opens its stream.                  *)
THEOREM OverrunNever ==
  ASSUME Undisturbed, OnePublisher PROVE Spec => []NoOverrun
<1> DEFINE Inv == \A p \in Publishers : RecordedInv(p)
<1>1. Inv => NoOverrun
  BY DEF RecordedInv, NoOverrun
<1>2. Spec => []Inv
  BY RecordedAlways
<1> HIDE DEF Inv
<1>3. QED BY <1>1, <1>2, PTL

-----------------------------------------------------------------------------
(* One publisher and one subscriber on each topic                            *)

OneSubscriber == \A s, u \in Subscribers : Topic[s] = Topic[u] => s = u

(* Processes on the same block are on the same topic.                        *)
LEMMA SameTopic ==
  ASSUME TypeOK, ResizeInv, NEW p \in Proc, NEW q \in Proc, Blk(p) = Blk(q), Blk(p) # NoBlock
  PROVE  Topic[p] = Topic[q]
  BY HandleBlock

(* Who waits in check_clients is woken by the last client to unregister, and *)
(* who waits in wait_data by the signal of a publisher or a timeout.         *)
LEMMA CondsStay ==
  ASSUME TypeOK, Undisturbed, ~SpuriousWakeups, NEW r \in Proc, Step(r), NEW b \in Block
  PROVE  /\ lockcond'[b] # lockcond[b] =>
              /\ Blk(r) = b
              /\ LockBlock(r) \/ (UnregisterClient(r) /\ r \in Subscribers)
         /\ datacond'[b] # datacond[b] =>
              /\ Blk(r) = b
              /\ \/ SignalData(r) /\ r \in Publishers
                 \/ (WaitData(r) \/ WaitTimeout(r)) /\ r \in Subscribers
<1>o. /\ lockcond \in [Block -> SUBSET Proc] /\ datacond \in [Block -> SUBSET Proc]
  BY DEF TypeOK, MonitorTypeOK
<1>p. r \in Publishers \/ r \in Subscribers
  BY PublishersOrSubscribers
<1>1. CASE LockBlock(r)
  BY <1>1, <1>o DEF LockBlock
<1>2. CASE SignalData(r)
  <2>1. r \in Publishers
    BY <1>2, <1>p, Roles DEF SerializeStep
  <2>2. QED BY <1>2, <1>o, <2>1 DEF SignalData
<1>3. CASE WaitData(r) \/ WaitTimeout(r) \/ UnregisterClient(r)
  <2>1. r \in Subscribers
    BY <1>3, <1>p, Roles DEF ReceiveStep
  <2>2. QED BY <1>3, <1>o, <2>1 DEF WaitData, WaitTimeout, UnregisterClient
<1>4. CASE LockGlobal(r) \/ RelockGlobal(r) \/ RelockBlock(r) \/ UnregisterGlobalClient(r)
  BY <1>4 DEF LockGlobal, RelockGlobal, RelockBlock, UnregisterGlobalClient, blockVars
<1>5. CASE AllocateStep(r) \/ ReallocateStep(r)
  BY <1>5 DEF AllocateStep, AllocateReconnect, AllocateClaim, AllocateNone, AllocateConstruct,
     AllocateThrow, ReallocateStep, ReallocateCheck, ReallocateRefresh, ReallocateResize,
     GrowDestroy, GrowConstruct, GrowThrow, blockVars
<1>6. CASE SerializeRegister(r) \/ WriteStart(r) \/ WriteEnd(r)
  BY <1>6 DEF SerializeRegister, WriteStart, WriteEnd, blockVars
<1>7. CASE \/ FindHandle(r) \/ WaitNotified(r) \/ RegisterGlobalClient(r) \/ ReadStart(r)
           \/ ReadEnd(r) \/ Callback(r)
  BY <1>7 DEF FindHandle, WaitNotified, RegisterGlobalClient, ReadStart, ReadEnd, Callback,
     blockVars
<1>8. CASE \/ Fault(r) \/ Initialise(r) \/ Publish(r) \/ Subscribe(r) \/ ManagerExit(r)
           \/ Die(r) \/ SpuriousWakeup(r)
  BY <1>8 DEF Fault, Initialise, Publish, Subscribe, ManagerExit, Die, SpuriousWakeup,
     blockVars
<1>9. QED
  BY <1>1, <1>2, <1>3, <1>4, <1>5, <1>6, <1>7, <1>8, Roles
  DEF Step, LockStep, SerializeStep, ReceiveStep

(* A publisher gets past check_clients with LockBlock, when no client is     *)
(* registered, or with RelockBlock, after a wait that has ended; it leaves   *)
(* that wait in no other way.                                                *)
LEMMA ExclusionPublisher ==
  ASSUME TypeOK, Undisturbed, ~SpuriousWakeups, ClientsCounted, ResizeInv,
         NEW p \in Publishers, Step(p), NEW b \in Block, Blk(p)' = b
  PROVE  /\ HoldsBlock(p)' => /\ Blk(p) = b
                              /\ HoldsBlock(p) \/ Resumed(p) \/ BlockClients(b) = {}
         /\ Resumed(p)' => Blk(p) = b /\ Resumed(p) /\ datacond'[b] = datacond[b]
<1>o. /\ op \in [Proc -> PublisherOps \cup SubscriberOps \cup ManagerOps \cup ReleaserOps]
      /\ at \in [Proc -> {"start", "wait", "in", "construct", "reconstruct", "destroyed"}]
      /\ lockcond \in [Block -> SUBSET Proc]
      /\ p \in Proc
  BY DEF TypeOK, ControlTypeOK, MonitorTypeOK, Proc
<1>d. HoldsBlock(p)' <=>
        \/ op'[p] \in {"refresh", "resize", "grow", "write", "signal", "register", "clear",
                       "unregister"}
        \/ op'[p] \in BlockSections /\ at'[p] = "in"
  BY DEF HoldsBlock
<1>r. Resumed(p)' <=> op'[p] \in BlockSections /\ at'[p] = "wait" /\ p \notin lockcond'[b]
  BY DEF Resumed
<1>1. CASE LockBlock(p)
  <2>1. Blk(p) = b
    BY <1>1 DEF LockBlock, localVars, Blk
  <2>2. ~Resumed(p)' /\ (HoldsBlock(p)' => block_clients[b] = 0)
    BY <1>1, <1>o, <1>d, <1>r, <2>1 DEF LockBlock, BlockSections
  <2>3. block_clients[b] = 0 => BlockClients(b) = {}
    BY ClientsFinite, FS_EmptySet DEF ClientsCounted
  <2>4. QED BY <2>1, <2>2, <2>3
<1>2. CASE RelockBlock(p)
  <2>1. Resumed(p) /\ Blk(p) = b
    BY <1>2 DEF RelockBlock, Resumed, localVars, Blk
  <2>2. ~Resumed(p)'
    BY <1>2, <1>o DEF RelockBlock, Resumed
  <2>3. QED BY <2>1, <2>2
<1>3. CASE LockGlobal(p) \/ RelockGlobal(p) \/ UnregisterGlobalClient(p)
  <2>1. \/ op'[p] = op[p] /\ op[p] \notin BlockSections
        \/ op[p] = "unregister" /\ op'[p] = "signal"
    BY <1>3, <1>o DEF LockGlobal, RelockGlobal, UnregisterGlobalClient, GlobalSections,
       BlockSections, Goto
  <2>2. Blk(p) = b
    BY <1>3 DEF LockGlobal, RelockGlobal, UnregisterGlobalClient, localVars, Blk
  <2>3. QED BY <2>1, <2>2, <1>d, <1>r DEF HoldsBlock, BlockSections
<1>4. CASE AllocateStep(p)
  BY <1>4, <1>o, <1>d, <1>r DEF AllocateStep, AllocateReconnect, AllocateClaim, AllocateNone,
     AllocateConstruct, AllocateThrow, Return, Goto, At, BlockSections
<1>5. CASE ReallocateStep(p) \/ SerializeStep(p)
  <2>1. \/ op[p] \in {"refresh", "resize", "grow", "write", "signal", "unregister"}
        \/ op[p] \in {"reallocateBlock", "serialize"} /\ at[p] = "in"
    BY <1>5 DEF ReallocateStep, ReallocateCheck, ReallocateRefresh, ReallocateResize,
       GrowDestroy, GrowConstruct, GrowThrow, SerializeStep, SerializeRegister, WriteStart,
       WriteEnd, SignalData, At
  <2>2. HoldsBlock(p)
    BY <2>1 DEF HoldsBlock, BlockSections
  <2>3. Blk(p) = b
    BY <2>1, <1>o, BlockStays
  <2>4. ~Resumed(p)'
    BY <1>5, <1>o, <1>r DEF ReallocateStep, ReallocateCheck, ReallocateRefresh,
       ReallocateResize, GrowDestroy, GrowConstruct, GrowThrow, SerializeStep,
       SerializeRegister, WriteStart, WriteEnd, SignalData, At, Goto, Return, BlockSections
  <2>5. QED BY <2>2, <2>3, <2>4
<1>6. CASE Initialise(p) \/ Publish(p) \/ ManagerExit(p)
  BY <1>6, <1>o, <1>d, <1>r DEF Initialise, Publish, ManagerExit, Goto, BlockSections
<1>7. CASE Fault(p) \/ Die(p) \/ SpuriousWakeup(p)
  BY <1>7, <1>d, <1>r DEF Fault, Die, SpuriousWakeup, pcVars, blockVars, localVars, Blk,
     HoldsBlock, Resumed
<1>8. QED
  BY <1>1, <1>2, <1>3, <1>4, <1>5, <1>6, <1>7, <1>o, Roles DEF Step, LockStep

(* A subscriber becomes a client of a block with WaitNotified, when its wait *)
(* has ended and nobody holds the mutex; whoever unregisters the last client *)
(* is none any more.                                                         *)
LEMMA ExclusionSubscriber ==
  ASSUME TypeOK, Undisturbed, ~SpuriousWakeups,
         NEW s \in Subscribers, Step(s), NEW b \in Block, Blk(s)' = b
  PROVE  /\ s \in BlockClients(b)' =>
              /\ Blk(s) = b /\ lockcond'[b] = lockcond[b]
              /\ s \in BlockClients(b) \/ (Woken(s) /\ block_mutex[b] = NULL)
         /\ Woken(s)' => Blk(s) = b /\ Woken(s) /\ lockcond'[b] = lockcond[b]
<1>o. /\ op \in [Proc -> PublisherOps \cup SubscriberOps \cup ManagerOps \cup ReleaserOps]
      /\ at \in [Proc -> {"start", "wait", "in", "construct", "reconstruct", "destroyed"}]
      /\ datacond \in [Block -> SUBSET Proc]
      /\ s \in Proc
  BY DEF TypeOK, ControlTypeOK, MonitorTypeOK, Proc
<1>d. s \in BlockClients(b)' <=>
        op'[s] \in {"register", "read", "unregister", "unregister_client", "overrun"}
  BY DEF BlockClients
<1>c. Blk(s) = b /\ op[s] \in {"register", "read", "unregister", "unregister_client", "overrun"}
        => s \in BlockClients(b)
  BY DEF BlockClients
<1>w. Woken(s)' <=> op'[s] = "wait_data" /\ at'[s] = "wait" /\ s \notin datacond'[b]
  BY DEF Woken, At
<1>1. CASE LockGlobal(s) \/ RelockGlobal(s) \/ UnregisterGlobalClient(s)
  <2>1. Blk(s) = b /\ lockcond' = lockcond
    BY <1>1 DEF LockGlobal, RelockGlobal, UnregisterGlobalClient, localVars, blockVars, Blk
  <2>2. \/ op'[s] = op[s] /\ op[s] \in GlobalSections
        \/ op[s] = "unregister" /\ op'[s] = "unregister_client"
    BY <1>1, <1>o, ProcessAssumption DEF LockGlobal, RelockGlobal, UnregisterGlobalClient, Goto
  <2>3. QED BY <2>1, <2>2, <1>d, <1>c, <1>w DEF GlobalSections
<1>2. CASE FindHandle(s) \/ Callback(s) \/ Subscribe(s) \/ ManagerExit(s)
  BY <1>2, <1>o, <1>d, <1>w DEF FindHandle, Callback, Subscribe, ManagerExit, Goto
<1>3. CASE WaitData(s) \/ WaitTimeout(s)
  <2>1. Blk(s) = b /\ op' = op /\ op[s] = "wait_data"
    BY <1>3 DEF WaitData, WaitTimeout, localVars, Blk, At
  <2>2. ~Woken(s)'
    BY <1>3, <1>o, <1>w, <2>1 DEF WaitData, WaitTimeout
  <2>3. QED BY <2>1, <2>2, <1>d
<1>4. CASE WaitNotified(s)
  <2>1. Blk(s) = b /\ Woken(s) /\ block_mutex[b] = NULL /\ lockcond' = lockcond
    BY <1>4 DEF WaitNotified, localVars, Blk, Woken
  <2>2. ~Woken(s)'
    BY <1>4, <1>o, <1>w DEF WaitNotified, Goto
  <2>3. QED BY <2>1, <2>2
<1>5. CASE RegisterGlobalClient(s) \/ ReadStart(s) \/ ReadEnd(s)
  <2>1. op[s] \in {"register", "read"} /\ lockcond' = lockcond
    BY <1>5 DEF RegisterGlobalClient, ReadStart, ReadEnd, At, blockVars
  <2>2. Blk(s) = b
    BY <1>o, <2>1, BlockStays
  <2>3. ~Woken(s)'
    BY <1>5, <1>o, <1>w DEF RegisterGlobalClient, ReadStart, ReadEnd, At, Goto
  <2>4. QED BY <2>1, <2>2, <2>3, <1>c
<1>6. CASE UnregisterClient(s)
  BY <1>6, <1>o, <1>d, <1>w DEF UnregisterClient, Goto
<1>7. CASE Fault(s) \/ Die(s) \/ SpuriousWakeup(s)
  BY <1>7, <1>d, <1>c, <1>w DEF Fault, Die, SpuriousWakeup, pcVars, blockVars, localVars, Blk,
     Woken, At
<1>8. QED
  BY <1>1, <1>2, <1>3, <1>4, <1>5, <1>6, <1>7, <1>o, Roles DEF Step, LockStep, ReceiveStep

LEMMA ExclusionNext ==
  ASSUME TypeOK, Undisturbed, ~SpuriousWakeups, OnePublisher, OneSubscriber,
         ClientsCounted, ResizeInv, TypeOK',
         NEW r \in Proc, Step(r), NEW p \in Publishers, NEW s \in Subscribers,
         ExclusionInv(p, s)
  PROVE  ExclusionInv(p, s)'
<1> SUFFICES ASSUME NEW b \in Block, Blk(p)' = b, Blk(s)' = b
             PROVE  /\ HoldsBlock(p)' \/ Resumed(p)' => s \notin BlockClients(b)'
                    /\ Resumed(p)' => ~Woken(s)'
  <2>1. Blk(p)' # NoBlock => Blk(p)' \in Block
    BY DEF TypeOK, HandleTypeOK, Handle, Blk, Proc
  <2>2. QED BY <2>1 DEF ExclusionInv
<1>o. p \in Proc /\ s \in Proc /\ p # s /\ p # NULL
  BY ProcessAssumption DEF Proc
<1>n. b # NoBlock
  BY NoBlockNotBlock
<1>i. Blk(p) = b /\ Blk(s) = b =>
        /\ HoldsBlock(p) \/ Resumed(p) => s \notin BlockClients(b)
        /\ Resumed(p) => ~Woken(s)
  BY <1>n DEF ExclusionInv
<1>1. CASE r = p
  <2>1. op'[s] = op[s] /\ at'[s] = at[s] /\ Blk(s) = b
    BY <1>1, <1>o, OthersStay DEF Blk
  <2>2. s \in BlockClients(b)' <=> s \in BlockClients(b)
    BY <2>1 DEF BlockClients
  <2>3. datacond'[b] = datacond[b] => (Woken(s)' <=> Woken(s))
    BY <2>1 DEF Woken, At
  <2>4. QED BY <1>1, <1>i, <2>1, <2>2, <2>3, ExclusionPublisher
<1>2. CASE r = s
  <2>1. op'[p] = op[p] /\ at'[p] = at[p] /\ Blk(p) = b
    BY <1>2, <1>o, OthersStay DEF Blk
  <2>2. HoldsBlock(p)' <=> HoldsBlock(p)
    BY <2>1 DEF HoldsBlock
  <2>3. lockcond'[b] = lockcond[b] => (Resumed(p)' <=> Resumed(p))
    BY <2>1 DEF Resumed
  <2>4. HoldsBlock(p) => block_mutex[b] = p
    BY <1>o, <2>1 DEF ResizeInv, LockInv, BlockLockInv
  <2>5. QED BY <1>2, <1>i, <1>o, <2>1, <2>2, <2>3, <2>4, ExclusionSubscriber
<1>3. CASE r # p /\ r # s
  <2>1. /\ op'[s] = op[s] /\ at'[s] = at[s] /\ Blk(s) = b
        /\ op'[p] = op[p] /\ at'[p] = at[p] /\ Blk(p) = b
    BY <1>3, <1>o, OthersStay DEF Blk
  <2>2. /\ s \in BlockClients(b)' <=> s \in BlockClients(b)
        /\ HoldsBlock(p)' <=> HoldsBlock(p)
    BY <2>1 DEF BlockClients, HoldsBlock
  <2>3. Blk(r) = b => r \notin Publishers /\ r \notin Subscribers
    BY <1>3, <1>o, <1>n, <2>1, SameTopic DEF OnePublisher, OneSubscriber
  <2>4. Blk(r) # b
    BY <2>3, PublishersOrSubscribers
  <2>5. lockcond'[b] = lockcond[b] /\ datacond'[b] = datacond[b]
    BY <2>4, CondsStay
  <2>6. /\ Resumed(p)' <=> Resumed(p)
        /\ Woken(s)' <=> Woken(s)
    BY <2>1, <2>5 DEF Resumed, Woken, At
  <2>7. QED BY <1>i, <2>1, <2>2, <2>6
<1>4. QED BY <1>1, <1>2, <1>3

(* With one publisher and one subscriber on each topic the two monitors keep *)
(* them apart: who is past check_clients finds the other one outside.        *)
THEOREM PairsExclude ==
  ASSUME Undisturbed, ~SpuriousWakeups, OnePublisher, OneSubscriber
  PROVE  Spec => [](\A p \in Publishers, s \in Subscribers : ExclusionInv(p, s))
<1> DEFINE Inv == \A p \in Publishers, s \in Subscribers : ExclusionInv(p, s)
<1>1. Init => Inv
  BY DEF Init, Proc, ExclusionInv, Blk, NoHandle
<1>2. ASSUME TypeOK, ClientsCounted, ResizeInv, Inv, [Next]_vars PROVE Inv'
  <2>1. CASE UNCHANGED vars
    BY <1>2, <2>1 DEF vars, pcVars, blockVars, localVars, ExclusionInv, HoldsBlock, Resumed,
       Woken, BlockClients, At, Blk
  <2>2. CASE \E r \in Proc : Step(r)
    BY <1>2, <2>2, TypeNext, ExclusionNext
  <2>3. QED BY <1>2, <2>1, <2>2, NextStep
<1> HIDE DEF Inv
<1>3. Spec => []Inv
  BY <1>1, <1>2, TypeCorrect, CountsCorrect, ResizeCorrect, PTL DEF Spec
<1>4. QED BY <1>3 DEF Inv

(* While a subscriber copies a message out of a block, the publisher of its  *)
(* topic is outside check_clients: it neither writes nor resizes the block.  *)
THEOREM ReadsExcludeWrites ==
  ASSUME Undisturbed, ~SpuriousWakeups, OnePublisher, OneSubscriber
  PROVE  Spec => []ReadExcludesWrite
<1> DEFINE Inv == \A p \in Publishers, s \in Subscribers : ExclusionInv(p, s)
<1>1. ASSUME TypeOK, Inv PROVE ReadExcludesWrite
  <2>1. ASSUME NEW s \in Subscribers, NEW p \in Publishers,
               At(s, "read", "in"), Blk(p) = Blk(s)
        PROVE  ~HoldsBlock(p)
    <3>1. s \in BlockClients(Blk(p))
      BY <2>1 DEF BlockClients, At
    <3>2. Blk(p) \in Block
      BY <1>1, <2>1, BlockInRange DEF At, HandleOps, Proc
    <3>3. QED BY <1>1, <2>1, <3>1, <3>2, NoBlockNotBlock DEF ExclusionInv
  <2>2. QED BY <2>1 DEF ReadExcludesWrite, HoldsBlock, BlockSections, At
<1> HIDE DEF Inv
<1>2. Spec => []Inv
  BY PairsExclude DEF Inv
<1>3. QED BY <1>1, <1>2, TypeCorrect, PTL

-----------------------------------------------------------------------------
(* Both, on every topic                                                      *)

(* One publisher and one subscriber on each topic, no allocation that fails, *)
(* nobody who resets, and no wait that ends unnotified.                      *)
Pairs == Undisturbed /\ ~SpuriousWakeups /\ OnePublisher /\ OneSubscriber

(* All that is proved above of this case.                                    *)
PairInv ==
  /\ TypeOK /\ ClientsCounted /\ ResizeInv /\ CopyInv
  /\ \A p \in Publishers : RecordedInv(p)
  /\ \A p \in Publishers, s \in Subscribers : ExclusionInv(p, s)

LEMMA PairInvCorrect == ASSUME Pairs PROVE Spec => []PairInv
<1> DEFINE Recorded == \A p \in Publishers : RecordedInv(p)
           Excluded == \A p \in Publishers, s \in Subscribers : ExclusionInv(p, s)
<1>1. Spec => []Recorded
  BY RecordedAlways DEF Pairs
<1>2. Spec => []Excluded
  BY PairsExclude DEF Pairs
<1>3. TypeOK /\ ClientsCounted /\ ResizeInv /\ CopyInv /\ Recorded /\ Excluded => PairInv
  BY DEF PairInv
<1> HIDE DEF Recorded, Excluded
<1>4. QED
  BY <1>1, <1>2, <1>3, TypeCorrect, CountsCorrect, ResizeCorrect, CopiesPin, PTL DEF Pairs

-----------------------------------------------------------------------------
(* Who touches the memory of a block                                         *)

(* Nobody constructs the block on which a registered client copies.          *)
LEMMA CopierComplete ==
  ASSUME TypeOK, ResizeInv, CopyInv, NEW p \in Proc, op[p] \in {"write", "read"}
  PROVE  /\ Blk(p) \in Block /\ ~BlockUnderConstruction(Blk(p))
         /\ Topic[p] \in Topics
<1>1. PICK b \in Block : b = Blk(p)
  BY BlockInRange DEF HandleOps
<1>2. p \in GlobalClients
  BY DEF GlobalClients
<1>3. ASSUME NEW q \in Proc, Constructing(q), Blk(q) = b PROVE FALSE
  <2>1. CASE op[q] = "allocateBlock"
    BY <1>1, <1>3, <2>1 DEF ResizeInv, ConstructionInv
  <2>2. CASE op[q] = "grow"
    BY <1>1, <1>2, <1>3, <2>2 DEF CopyInv, PinInv, Growing
  <2>3. QED BY <1>3, <2>1, <2>2, ConstructingHolds
<1>4. descriptors[b].active_ /\ descriptors[b].name_ = Topic[p]
  BY <1>1, HandleBlock, NoBlockNotBlock
<1>5. Topic[p] \in Topics
  BY <1>4 DEF ResizeInv, DescriptorInv
<1>6. QED BY <1>1, <1>3, <1>5 DEF BlockUnderConstruction

(* The handle that serialize and deserialize use is the current one.         *)
LEMMA CopierHandle ==
  ASSUME TypeOK, ResizeInv, CopyInv, NEW p \in Proc, op[p] \in {"write", "read"}
  PROVE  /\ Refreshed(p).ptr = segment[Topic[p]].ptr
         /\ segment[Topic[p]].ptr \in Addresses
<1>1. PICK b \in Block : b = Blk(p)
  BY BlockInRange DEF HandleOps
<1>2. /\ descriptors[b].active_ /\ descriptors[b].name_ = Topic[p]
      /\ ~BlockUnderConstruction(b) /\ b # NoBlock
  BY <1>1, HandleBlock, NoBlockNotBlock, CopierComplete
<1>3. segment[Topic[p]].ptr \in Addresses
  BY <1>2 DEF ResizeInv, DescriptorInv
<1>4. CASE Stale(p)
  BY <1>1, <1>2, <1>3, <1>4 DEF Refreshed, FreshHandle
<1>5. CASE ~Stale(p)
  <2>1. handle[p].ptr = segment[Topic[p]].ptr
    BY <1>1, <1>2, <1>5 DEF Stale, ResizeInv, HandleInv
  <2>2. QED BY <1>3, <1>5, <2>1 DEF Refreshed
<1>6. QED BY <1>4, <1>5

(* allocateBlock finds no block to replace.                                  *)
LEMMA ReconnectKeeps ==
  ASSUME TypeOK, ResizeInv, NEW p \in Proc, AllocateReconnect(p)
  PROVE  UNCHANGED <<segment, bytes, msg>>
<1>1. op[p] = "allocateBlock" /\ at[p] = "in" /\ ~Constructing(p) /\ HoldsGlobal(p)
  BY DEF AllocateReconnect, At, Constructing, HoldsGlobal, GlobalSections
<1>2. PICK i \in Block :
        /\ IsFirst(i, Matching(p))
        /\ \/ InitialSize > segment[descriptors[i].name_].size
           \/ UNCHANGED <<segment, bytes, msg>>
  BY DEF AllocateReconnect
<1>3. descriptors[i].active_ /\ ~BlockUnderConstruction(i)
  BY <1>1, <1>2, ConstructingHolds, GlobalAlone
  DEF BlockUnderConstruction, ResizeInv, LockInv, IsFirst, Matching
<1>4. /\ segment[descriptors[i].name_].size = descriptors[i].allocated_
      /\ InitialSize <= descriptors[i].allocated_
  BY <1>3 DEF ResizeInv, DescriptorInv
<1>5. descriptors[i].allocated_ \in Nat /\ InitialSize = 16
  BY DEF TypeOK, MemoryTypeOK, Descriptor, InitialSize
<1>6. QED BY <1>2, <1>4, <1>5

(* The steps that touch memory, and all they do to it.                       *)
Constructs(r) ==
  \E a \in Addresses \ Live, n \in Nat :
    /\ segment' = [segment EXCEPT ![Topic[r]] = [ptr |-> a, size |-> n]]
    /\ Overwrite({a}, Zeroed)
    /\ op[r] \in {"allocateBlock", "grow"} /\ op'[r] \in {"reallocateBlock", "serialize"}

Destroys(r) ==
  /\ segment' = [segment EXCEPT ![Topic[r]] = Absent]
  /\ Overwrite({segment[Topic[r]].ptr}, Torn)
  /\ op[r] = "grow" /\ at[r] = "in" /\ op'[r] = "grow"

StartsWriting(r) ==
  /\ segment' = segment
  /\ Overwrite({segment[Topic[r]].ptr}, Torn)
  /\ At(r, "write", "start") /\ At(r, "write", "in")'

EndsWriting(r) ==
  /\ segment' = segment
  /\ LET a == segment[Topic[r]].ptr
     IN  Overwrite({a}, IF bytes[a] = Torn THEN msg[r] ELSE Torn)
  /\ At(r, "write", "in") /\ op'[r] = "unregister"

Touches(r) == Constructs(r) \/ Destroys(r) \/ StartsWriting(r) \/ EndsWriting(r)

(* Any other step of r.                                                      *)
Spares(r) ==
  /\ segment' = segment /\ bytes' = bytes
  /\ \A q \in Proc \ {r} : msg'[q] = msg[q]
  /\ At(r, "write", "in")' <=> At(r, "write", "in")

LEMMA StepMemory ==
  ASSUME PairInv, Pairs, NEW r \in Proc, Step(r)
  PROVE  (r \in Publishers /\ Touches(r)) \/ Spares(r)
<1>u. TypeOK /\ Undisturbed /\ ResizeInv /\ CopyInv
  BY DEF PairInv, Pairs
<1>o. /\ op \in [Proc -> PublisherOps \cup SubscriberOps \cup ManagerOps \cup ReleaserOps]
      /\ at \in [Proc -> {"start", "wait", "in", "construct", "reconstruct", "destroyed"}]
      /\ msg \in [Proc -> {NoMessage} \cup Message \cup Received]
      /\ handle \in [Proc -> Handle] /\ descriptors \in [Block -> Descriptor]
  BY <1>u DEF TypeOK, ControlTypeOK, MessageTypeOK, HandleTypeOK, MemoryTypeOK
<1>p. r \in Publishers => op[r] \in PublisherOps
  BY <1>u DEF TypeOK, ControlTypeOK
<1>q. op[r] \in {"allocateBlock", "grow", "write"} => r \in Publishers
  BY <1>u, PublishersOrSubscribers DEF TypeOK, ControlTypeOK, SubscriberOps
<1>1. CASE LockStep(r)
  BY <1>1, <1>o DEF LockStep, LockGlobal, RelockGlobal, LockBlock, RelockBlock,
     UnregisterGlobalClient, GlobalSections, BlockSections, Goto, memVars, localVars, Spares, At
<1>2. CASE AllocateStep(r)
  <2>1. CASE AllocateConstruct(r)
    <3>1. op[r] = "allocateBlock" /\ Constructing(r)
      BY <2>1 DEF AllocateConstruct, Constructing
    <3>2. descriptors[Blk(r)].name_ = Topic[r]
      BY <1>u, <3>1, ConstructingHolds, HandleBlock, NoBlockNotBlock
    <3>3. op'[r] = "reallocateBlock"
      BY <2>1, <1>o DEF AllocateConstruct, Goto
    <3>4. Constructs(r)
      BY <2>1, <3>1, <3>2, <3>3 DEF AllocateConstruct, Construct, Constructs, InitialSize
    <3>5. QED BY <1>q, <3>1, <3>4 DEF Touches
  <2>2. CASE AllocateReconnect(r)
    <3>1. UNCHANGED <<segment, bytes, msg>>
      BY <1>u, <2>2, ReconnectKeeps
    <3>2. op[r] = "allocateBlock" /\ op'[r] \in {"allocateBlock", "reallocateBlock"}
      BY <2>2, <1>o DEF AllocateReconnect, At, Goto
    <3>3. QED BY <3>1, <3>2 DEF Spares, At
  <2>3. CASE AllocateClaim(r) \/ AllocateNone(r) \/ AllocateThrow(r)
    BY <2>3, <1>u, <1>o DEF AllocateClaim, AllocateNone, AllocateThrow, Undisturbed, Return,
       Goto, memVars, Spares, At
  <2>4. QED BY <1>2, <2>1, <2>2, <2>3 DEF AllocateStep
<1>3. CASE ReallocateStep(r)
  <2>1. CASE GrowDestroy(r)
    <3>1. op[r] = "grow" /\ at[r] = "in" /\ op'[r] = "grow"
      BY <2>1 DEF GrowDestroy, At
    <3>2. descriptors[Blk(r)].name_ = Topic[r] /\ Topic[r] \in Names
      BY <1>u, <1>o, <3>1, BlockInRange, HandleBlock, NoBlockNotBlock DEF HandleOps, Descriptor
    <3>3. Destroy({Topic[r]})
      BY <2>1, <3>2 DEF GrowDestroy
    <3>4. Overwrite({segment[Topic[r]].ptr}, Torn)
      <4>1. {segment[n].ptr : n \in {Topic[r]}} = {segment[Topic[r]].ptr}
        OBVIOUS
      <4>2. QED BY <3>3, <4>1 DEF Destroy
    <3>5. segment' = [segment EXCEPT ![Topic[r]] = Absent]
      BY <1>u, <3>3 DEF Destroy, TypeOK, MemoryTypeOK
    <3>6. QED BY <1>q, <3>1, <3>4, <3>5 DEF Destroys, Touches
  <2>2. CASE GrowConstruct(r)
    <3>1. op[r] = "grow" /\ op'[r] = "serialize"
      BY <2>2, <1>o DEF GrowConstruct, Goto, At
    <3>2. descriptors[Blk(r)].name_ = Topic[r]
      BY <1>u, <3>1, BlockInRange, HandleBlock, NoBlockNotBlock DEF HandleOps
    <3>3. msg[r].size \in Nat
      BY <1>u, <1>q, <3>1, DataAssumption DEF TypeOK, MessageTypeOK, Message
    <3>4. Constructs(r)
      BY <2>2, <3>1, <3>2, <3>3 DEF GrowConstruct, Construct, Constructs
    <3>5. QED BY <1>q, <3>1, <3>4 DEF Touches
  <2>3. CASE ReallocateCheck(r) \/ ReallocateRefresh(r) \/ ReallocateResize(r) \/ GrowThrow(r)
    BY <2>3, <1>u, <1>o DEF ReallocateCheck, ReallocateRefresh, ReallocateResize, GrowThrow,
       Undisturbed, Return, Goto, memVars, localVars, Spares, At
  <2>4. QED BY <1>3, <2>1, <2>2, <2>3 DEF ReallocateStep
<1>4. CASE SerializeStep(r)
  <2>1. CASE WriteStart(r)
    <3>1. At(r, "write", "start") /\ r \in Publishers /\ op[r] = "write"
      BY <2>1, <1>q DEF WriteStart, At
    <3>2. descriptors[Blk(r)].size_ = msg[r].size
      BY <3>1 DEF PairInv, RecordedInv
    <3>3. msg[r].size \in Nat /\ ~(msg[r].size < TimestampSize)
      <4>1. msg[r].size \in Sizes
        BY <1>u, <3>1 DEF TypeOK, MessageTypeOK, Message
      <4>2. \A n \in Sizes : n \in Nat /\ ~(n < TimestampSize)
        BY DataAssumption DEF TimestampSize
      <4>3. QED BY <4>1, <4>2
    <3>4. Refreshed(r).ptr = segment[Topic[r]].ptr
      BY <1>u, <3>1, CopierHandle
    <3>5. /\ Overwrite({segment[Topic[r]].ptr}, Torn)
          /\ op' = op /\ at' = [at EXCEPT ![r] = "in"]
      BY <2>1, <3>2, <3>3, <3>4 DEF WriteStart
    <3>6. segment' = segment /\ At(r, "write", "in")'
      BY <2>1, <1>o, <3>1, <3>5 DEF WriteStart, At
    <3>7. QED BY <3>1, <3>5, <3>6 DEF StartsWriting, Touches
  <2>2. CASE WriteEnd(r)
    <3>1. At(r, "write", "in") /\ r \in Publishers /\ segment' = segment
      BY <2>2, <1>q DEF WriteEnd, At
    <3>2. handle[r].ptr = segment[Topic[r]].ptr
      BY <1>u, <3>1, WriterBlock
    <3>3. op'[r] = "unregister"
      BY <2>2, <1>o DEF WriteEnd, Goto
    <3>4. QED BY <2>2, <3>1, <3>2, <3>3 DEF WriteEnd, EndsWriting, Touches
  <2>3. CASE SerializeRegister(r) \/ SignalData(r)
    BY <2>3, <1>o DEF SerializeRegister, SignalData, Return, Goto, memVars, localVars, Spares, At
  <2>4. QED BY <1>4, <2>1, <2>2, <2>3 DEF SerializeStep
<1>5. CASE ReceiveStep(r)
  <2>1. segment' = segment /\ bytes' = bytes /\ \A q \in Proc \ {r} : msg'[q] = msg[q]
    BY <1>5, <1>o DEF ReceiveStep, FindHandle, WaitData, WaitTimeout, WaitNotified,
       RegisterGlobalClient, ReadStart, ReadEnd, UnregisterClient, Callback, memVars, localVars
  <2>2. op[r] # "write" /\ op'[r] # "write"
    BY <1>5, <1>o DEF ReceiveStep, FindHandle, WaitData, WaitTimeout, WaitNotified,
       RegisterGlobalClient, ReadStart, ReadEnd, UnregisterClient, Callback, Goto, At
  <2>3. QED BY <2>1, <2>2 DEF Spares, At
<1>6. ~ResetStep(r)
  BY <1>u, NoReset
<1>7. CASE Initialise(r) \/ Publish(r) \/ Subscribe(r) \/ ManagerExit(r)
  BY <1>7, <1>o DEF Initialise, Publish, Subscribe, ManagerExit, Goto, memVars, localVars,
     Spares, At
<1>8. CASE Fault(r) \/ Die(r) \/ SpuriousWakeup(r)
  BY <1>8, <1>o DEF Fault, Die, SpuriousWakeup, pcVars, memVars, localVars, Spares, At
<1>9. QED BY <1>1, <1>2, <1>3, <1>4, <1>5, <1>6, <1>7, <1>8 DEF Step

-----------------------------------------------------------------------------
(* What the memory of a topic holds                                          *)

WritingIn(t) == \E p \in Publishers : Topic[p] = t /\ At(p, "write", "in")
WrittenTo(t) == \E p \in Publishers : Topic[p] = t /\ Written(p)

(* While the publisher of a topic is past check_clients, its subscriber is   *)
(* not registered.                                                           *)
LEMMA PairApart ==
  ASSUME PairInv, NEW p \in Publishers, NEW s \in Subscribers, Topic[p] = Topic[s],
         HoldsBlock(p)
  PROVE  op[s] \notin {"register", "read", "unregister", "unregister_client", "overrun"}
<1> SUFFICES ASSUME op[s] \in {"register", "read", "unregister", "unregister_client", "overrun"}
             PROVE  FALSE
  OBVIOUS
<1>1. p \in Proc /\ s \in Proc /\ TypeOK /\ ResizeInv
  BY DEF Proc, PairInv
<1>2. op[p] \in HandleOps /\ op[s] \in HandleOps
  BY DEF HoldsBlock, HandleOps, BlockSections
<1>3. Blk(p) \in Block /\ Blk(s) \in Block
  BY <1>1, <1>2, BlockInRange
<1>4. Blk(p) = Blk(s) /\ Blk(p) # NoBlock
  BY <1>1, <1>3, HandleBlock, NoBlockNotBlock DEF ResizeInv, OneBlockPerTopic
<1>5. s \in BlockClients(Blk(p))
  BY <1>4 DEF BlockClients
<1>6. QED BY <1>4, <1>5 DEF PairInv, ExclusionInv

(* Two topics share no memory.                                               *)
LEMMA MemoryApart ==
  ASSUME ResizeInv, NEW t \in Names, NEW u \in Names,
         segment[t].ptr = segment[u].ptr, segment[t].ptr # NULL
  PROVE  t = u
  BY DEF ResizeInv, SegmentInv

(* Nobody else touches the message that a subscriber copies out, or has      *)
(* copied out.                                                               *)
LEMMA MessageStays ==
  ASSUME PairInv, Pairs, NEW r \in Proc, Step(r), NEW s \in Subscribers, s # r
  PROVE  msg'[s] = msg[s]
<1>u. TypeOK /\ ResizeInv /\ CopyInv /\ s \in Proc
  BY DEF PairInv, Proc
<1>1. CASE Spares(r)
  BY <1>1, <1>u DEF Spares
<1>2. CASE r \in Publishers /\ Touches(r)
  <2> SUFFICES ASSUME NEW A, NEW c, Overwrite(A, c), At(s, "read", "in"), handle[s].ptr \in A,
                      \/ A \cap Live = {}
                      \/ A = {segment[Topic[r]].ptr} /\ op[r] \in {"grow", "write"}
               PROVE  FALSE
    <3>1. \E A, c : /\ Overwrite(A, c)
                    /\ \/ A \cap Live = {}
                       \/ A = {segment[Topic[r]].ptr} /\ op[r] \in {"grow", "write"}
      <4>1. CASE Constructs(r)
        BY <4>1 DEF Constructs
      <4>2. CASE Destroys(r) \/ StartsWriting(r) \/ EndsWriting(r)
        BY <4>2 DEF Destroys, StartsWriting, EndsWriting, At
      <4>3. QED BY <1>2, <4>1, <4>2 DEF Touches
    <3>2. QED BY <1>u, <3>1, OverwriteMessages
  <2>1. /\ handle[s].ptr = segment[Topic[s]].ptr /\ Topic[s] \in Names
        /\ handle[s].ptr \in Addresses /\ handle[s].ptr \in Live /\ handle[s].ptr # NULL
    BY <1>u, ReaderBlock, ProcessAssumption DEF Live
  <2>2. A = {segment[Topic[r]].ptr} /\ op[r] \in {"grow", "write"}
    BY <2>1
  <2>3. Topic[r] \in Names
    BY <1>2, DataAssumption DEF Names
  <2>4. Topic[r] = Topic[s]
    BY <1>u, <2>1, <2>2, <2>3, MemoryApart
  <2>5. HoldsBlock(r)
    BY <2>2 DEF HoldsBlock
  <2>6. QED BY <1>2, <2>4, <2>5, PairApart DEF At
<1>3. QED BY <1>1, <1>2, StepMemory

(* How a step changes what the block of a topic holds: it does not, or the   *)
(* block is a fresh one, or its publisher begins or ends to write.           *)
LEMMA MemoryStep ==
  ASSUME PairInv, Pairs, NEW r \in Proc, Step(r), NEW t \in Topics,
         segment'[t].ptr # NULL,
         WritingIn(t) => bytes[segment[t].ptr] = Torn
  PROVE  LET a == segment'[t].ptr IN
         \/ /\ a = segment[t].ptr /\ bytes'[a] = bytes[a]
            /\ WritingIn(t)' <=> WritingIn(t)
            /\ ~WrittenTo(t)
         \/ /\ a # segment[t].ptr /\ bytes'[a] = Zeroed
            /\ ~WritingIn(t)' /\ ~WrittenTo(t)
         \/ /\ a = segment[t].ptr /\ bytes'[a] = Torn
            /\ WritingIn(t)' /\ ~WrittenTo(t)
            /\ r \in Publishers /\ Topic[r] = t /\ StartsWriting(r)
         \/ /\ a = segment[t].ptr /\ bytes'[a] = msg[r]
            /\ ~WritingIn(t)'
            /\ r \in Publishers /\ Topic[r] = t /\ Written(r) /\ EndsWriting(r)
<1>u. /\ TypeOK /\ ResizeInv /\ OnePublisher
      /\ segment \in [Names -> [ptr : Addresses \cup {NULL}, size : Nat]]
      /\ t \in Names /\ NULL \notin Addresses
      /\ \A p \in Publishers : p \in Proc /\ Topic[p] \in Names
  BY ProcessAssumption, DataAssumption DEF PairInv, Pairs, TypeOK, MemoryTypeOK, Names, Proc
<1>o. \A p \in Publishers \ {r} : op'[p] = op[p] /\ at'[p] = at[p] /\ ~Written(p)
  BY <1>u, OthersStay DEF Written, At
<1>l. segment[t].ptr # NULL => segment[t].ptr \in Live /\ segment[t].ptr \in Addresses
  BY <1>u DEF Live
<1>1. CASE Spares(r)
  <2>1. segment'[t].ptr = segment[t].ptr /\ bytes' = bytes
    BY <1>1 DEF Spares
  <2>2. ~WrittenTo(t)
    BY <1>1, <1>o DEF Spares, Written, WrittenTo, At
  <2>3. WritingIn(t)' <=> WritingIn(t)
    BY <1>1, <1>o DEF Spares, WritingIn, At
  <2>4. QED BY <2>1, <2>2, <2>3
<1>2. CASE r \in Publishers /\ Touches(r) /\ Topic[r] # t
  <2>1. ~WrittenTo(t) /\ (WritingIn(t)' <=> WritingIn(t))
    BY <1>2, <1>o DEF WrittenTo, WritingIn, At
  <2>2. segment'[t].ptr = segment[t].ptr
    BY <1>2, <1>u DEF Touches, Constructs, Destroys, StartsWriting, EndsWriting
  <2>3. segment[t].ptr # segment[Topic[r]].ptr
    BY <1>2, <1>u, <2>2, MemoryApart
  <2>4. PICK A, c : Overwrite(A, c) /\ segment[t].ptr \notin A
    <3>1. CASE Constructs(r)
      BY <1>l, <2>2, <3>1 DEF Constructs
    <3>2. CASE Destroys(r) \/ StartsWriting(r) \/ EndsWriting(r)
      BY <2>3, <3>2 DEF Destroys, StartsWriting, EndsWriting
    <3>3. QED BY <1>2, <3>1, <3>2 DEF Touches
  <2>5. bytes'[segment[t].ptr] = bytes[segment[t].ptr]
    BY <1>l, <2>2, <2>4 DEF Overwrite
  <2>6. QED BY <2>1, <2>2, <2>5
<1>3. CASE r \in Publishers /\ Topic[r] = t
  <2>0. \A p \in Publishers : Topic[p] = t => p = r
    BY <1>3, <1>u DEF OnePublisher
  <2>1. CASE Constructs(r)
    <3>1. PICK a \in Addresses \ Live, n \in Nat :
            /\ segment' = [segment EXCEPT ![Topic[r]] = [ptr |-> a, size |-> n]]
            /\ Overwrite({a}, Zeroed)
      BY <2>1 DEF Constructs
    <3>2. segment'[t].ptr = a /\ a # segment[t].ptr /\ bytes'[a] = Zeroed
      BY <1>3, <1>u, <1>l, <3>1 DEF Overwrite
    <3>3. ~WritingIn(t)' /\ ~WrittenTo(t)
      BY <2>0, <2>1 DEF Constructs, WritingIn, WrittenTo, Written, At
    <3>4. QED BY <3>2, <3>3
  <2>2. CASE Destroys(r)
    BY <1>3, <1>u, <2>2 DEF Destroys, Absent
  <2>3. CASE StartsWriting(r)
    <3>1. segment'[t].ptr = segment[t].ptr /\ bytes'[segment[t].ptr] = Torn
      BY <1>3, <1>l, <2>3 DEF StartsWriting, Overwrite
    <3>2. WritingIn(t)' /\ ~WrittenTo(t)
      BY <1>3, <2>0, <2>3 DEF StartsWriting, WritingIn, WrittenTo, Written, At
    <3>3. QED BY <1>3, <2>3, <3>1, <3>2
  <2>4. CASE EndsWriting(r)
    <3>1. segment'[t].ptr = segment[t].ptr /\ bytes[segment[t].ptr] = Torn
      BY <1>3, <2>4 DEF EndsWriting, WritingIn
    <3>2. bytes'[segment[t].ptr] = msg[r]
      BY <1>3, <1>l, <2>4, <3>1 DEF EndsWriting, Overwrite
    <3>3. ~WritingIn(t)' /\ Written(r)
      BY <2>0, <2>4 DEF EndsWriting, WritingIn, Written, At
    <3>4. QED BY <1>3, <2>4, <3>1, <3>2, <3>3
  <2>5. CASE Spares(r)
    BY <1>1, <2>5
  <2>6. QED BY <2>1, <2>2, <2>3, <2>4, <2>5, StepMemory DEF Touches
<1>4. QED BY <1>1, <1>2, <1>3, StepMemory

-----------------------------------------------------------------------------
(* What publishers and subscribers do with their messages                    *)

(* A subscriber that a signal has reached and that has not read yet.         *)
Announced(s) == Woken(s) \/ op[s] = "register" \/ At(s, "read", "start")

(* A subscriber with a message that its callback has not handled yet.        *)
Holding(s) ==
  At(s, "read", "in") \/ op[s] \in {"unregister", "unregister_client", "callback"}

Takes(s) == ReadStart(s) /\ Reads(s)

(* A subscriber copies what its topic's block holds, and no publisher is     *)
(* about to write there.                                                     *)
LEMMA TakesContents ==
  ASSUME PairInv, NEW s \in Subscribers, Takes(s)
  PROVE  /\ ~WritingIn(Topic[s]) /\ Topic[s] \in Topics
         /\ segment[Topic[s]].ptr \in Addresses
         /\ msg'[s] = [body |-> bytes[segment[Topic[s]].ptr],
                       size |-> descriptors[Blk(s)].size_]
         /\ msg'[s] \in Received
         /\ \A u \in Proc \ {s} : msg'[u] = msg[u]
         /\ UNCHANGED <<segment, bytes>>
<1>u. TypeOK /\ ResizeInv /\ CopyInv /\ s \in Proc /\ op[s] = "read"
  BY DEF PairInv, Proc, Takes, Reads, At
<1>o. /\ at \in [Proc -> {"start", "wait", "in", "construct", "reconstruct", "destroyed"}]
      /\ msg \in [Proc -> {NoMessage} \cup Message \cup Received]
      /\ bytes \in [Addresses -> Bytes] /\ descriptors \in [Block -> Descriptor]
  BY <1>u DEF TypeOK, ControlTypeOK, MessageTypeOK, MemoryTypeOK
<1>1. ~WritingIn(Topic[s])
  BY <1>u, PairApart DEF WritingIn, At, HoldsBlock
<1>2. /\ Refreshed(s).ptr = segment[Topic[s]].ptr
      /\ segment[Topic[s]].ptr \in Addresses
      /\ Topic[s] \in Topics /\ Blk(s) \in Block
  BY <1>u, CopierHandle, CopierComplete
<1>3. msg' = [msg EXCEPT ![s] = [body |-> bytes[segment[Topic[s]].ptr],
                                 size |-> descriptors[Blk(s)].size_]]
  BY <1>o, <1>u, <1>2 DEF Takes, Reads, ReadStart, Goto, At
<1>4. [body |-> bytes[segment[Topic[s]].ptr], size |-> descriptors[Blk(s)].size_] \in Received
  BY <1>o, <1>2 DEF Received, Descriptor
<1>5. UNCHANGED <<segment, bytes>>
  BY DEF Takes, ReadStart, memVars
<1>6. QED BY <1>o, <1>u, <1>1, <1>2, <1>3, <1>4, <1>5

(* A subscriber's message changes when it copies one out and when its        *)
(* callback has handled it.                                                  *)
LEMMA SubscriberStep ==
  ASSUME PairInv, Pairs, NEW r \in Proc, Step(r), NEW s \in Subscribers
  PROVE  /\ \/ msg'[s] = msg[s] /\ ~(r = s /\ Takes(s))
            \/ r = s /\ Takes(s)
            \/ r = s /\ Callback(s)
         /\ Reads(s) => r = s /\ Takes(s)
         /\ Holding(s)' => (Holding(s) /\ msg'[s] = msg[s]) \/ (r = s /\ Takes(s))
<1>u. TypeOK /\ Undisturbed /\ s \in Proc
  BY DEF PairInv, Pairs, Proc
<1>o. /\ op \in [Proc -> PublisherOps \cup SubscriberOps \cup ManagerOps \cup ReleaserOps]
      /\ at \in [Proc -> {"start", "wait", "in", "construct", "reconstruct", "destroyed"}]
  BY <1>u DEF TypeOK, ControlTypeOK
<1>1. CASE r # s
  <2>1. op'[s] = op[s] /\ at'[s] = at[s] /\ msg'[s] = msg[s]
    BY <1>1, <1>u, OthersStay, MessageStays
  <2>2. QED BY <1>1, <2>1 DEF Reads, Holding, At
<1>2. CASE r = s
  <2>1. CASE LockGlobal(s) \/ RelockGlobal(s) \/ UnregisterGlobalClient(s)
    BY <1>2, <2>1, <1>o DEF LockGlobal, RelockGlobal, UnregisterGlobalClient, GlobalSections,
       localVars, Goto, Reads, Takes, Holding, At
  <2>2. CASE ReadStart(s)
    <3>1. Reads(s) <=> at'[s] = "in"
      BY <2>2 DEF ReadStart, Reads
    <3>2. CASE at'[s] = "in"
      BY <1>2, <2>2, <3>1, <3>2 DEF Takes
    <3>3. CASE at'[s] # "in"
      <4>1. msg' = msg /\ op'[s] = "overrun"
        BY <2>2, <3>3, <1>u, <1>o DEF ReadStart, Goto
      <4>2. QED BY <3>1, <3>3, <4>1 DEF Takes, Holding, At
    <3>4. QED BY <3>2, <3>3
  <2>3. CASE Callback(s)
    BY <1>2, <2>3, <1>o DEF Callback, Goto, Reads, Takes, Holding, At
  <2>4. CASE \/ FindHandle(s) \/ WaitData(s) \/ WaitTimeout(s) \/ WaitNotified(s)
             \/ RegisterGlobalClient(s) \/ ReadEnd(s) \/ UnregisterClient(s)
    BY <1>2, <2>4, <1>o DEF FindHandle, WaitData, WaitTimeout, WaitNotified,
       RegisterGlobalClient, ReadEnd, UnregisterClient, localVars, Goto, Reads, Takes,
       Holding, At
  <2>5. CASE Subscribe(s) \/ ManagerExit(s)
    BY <1>2, <2>5, <1>o DEF Subscribe, ManagerExit, localVars, Goto, Reads, Takes, Holding, At
  <2>6. CASE Fault(s) \/ Die(s) \/ SpuriousWakeup(s)
    BY <1>2, <2>6 DEF Fault, Die, SpuriousWakeup, pcVars, localVars, Reads, Takes, Holding, At
  <2>7. QED
    BY <1>2, <1>u, <2>1, <2>2, <2>3, <2>4, <2>5, <2>6, Roles DEF Step, LockStep, ReceiveStep
<1>3. QED BY <1>1, <1>2

(* Only a signal of the publisher of its topic announces a message to a      *)
(* subscriber, and who has read is no longer announced one.                  *)
LEMMA AnnouncedStep ==
  ASSUME PairInv, Pairs, TypeOK', NEW r \in Proc, Step(r), NEW s \in Subscribers, Announced(s)'
  PROVE  /\ \/ Announced(s)
            \/ r \in Publishers /\ op[r] = "signal" /\ Topic[r] = Topic[s]
         /\ ~Reads(s)
<1>u. TypeOK /\ ResizeInv /\ Undisturbed /\ ~SpuriousWakeups /\ s \in Proc
  BY DEF PairInv, Pairs, Proc
<1>o. /\ op \in [Proc -> PublisherOps \cup SubscriberOps \cup ManagerOps \cup ReleaserOps]
      /\ at \in [Proc -> {"start", "wait", "in", "construct", "reconstruct", "destroyed"}]
  BY <1>u DEF TypeOK, ControlTypeOK
<1>r. ~Reads(s)
  <2>1. Reads(s) => op'[s] = "read"
    <3>1. Reads(s) => ReadStart(s) /\ at'[s] = "in"
      BY SubscriberStep DEF Takes, Reads
    <3>2. ReadStart(s) /\ at'[s] = "in" => op'[s] = "read"
      BY <1>u, <1>o DEF ReadStart, Goto, At
    <3>3. QED BY <3>1, <3>2
  <2>2. QED BY <2>1 DEF Reads, Announced, Woken, At
<1>1. CASE r # s
  <2>1. op'[s] = op[s] /\ at'[s] = at[s] /\ Blk(s)' = Blk(s)
    BY <1>1, <1>u, OthersStay DEF Blk
  <2>2. CASE Woken(s)' /\ ~Woken(s)
    <3>1. PICK b \in Block : b = Blk(s)
      BY <1>u, <2>1, <2>2, BlockInRange DEF Woken, At, HandleOps
    <3>2. datacond'[b] # datacond[b]
      BY <2>1, <2>2, <3>1 DEF Woken, At
    <3>3. Blk(r) = b /\ ((SignalData(r) /\ r \in Publishers) \/ r \in Subscribers)
      BY <1>u, <3>2, CondsStay
    <3>4. Topic[r] = Topic[s]
      BY <1>u, <3>1, <3>3, SameTopic, NoBlockNotBlock
    <3>5. r \in Publishers /\ SignalData(r)
      BY <1>1, <3>3, <3>4 DEF Pairs, OneSubscriber
    <3>6. QED BY <1>r, <3>4, <3>5 DEF SignalData
  <2>3. QED BY <1>r, <2>1, <2>2 DEF Announced, At
<1>2. CASE r = s
  <2>1. CASE Woken(s)'
    <3>1. PICK b \in Block : b = Blk(s)'
      BY <2>1, <1>u DEF Woken, At, TypeOK, HandleTypeOK, Handle, HandleOps, Blk
    <3>2. Woken(s)
      BY <1>2, <1>u, <2>1, <3>1, ExclusionSubscriber
    <3>3. QED BY <1>r, <3>2 DEF Announced
  <2>2. CASE op'[s] = "register" \/ At(s, "read", "start")'
    <3>1. CASE LockGlobal(s) \/ RelockGlobal(s) \/ UnregisterGlobalClient(s)
      BY <3>1, <2>2, <1>o, ProcessAssumption DEF LockGlobal, RelockGlobal,
         UnregisterGlobalClient, GlobalSections, Goto, At
    <3>2. CASE \/ FindHandle(s) \/ WaitData(s) \/ WaitTimeout(s)
               \/ ReadStart(s) \/ ReadEnd(s) \/ UnregisterClient(s) \/ Callback(s)
      BY <3>2, <2>2, <1>u, <1>o DEF FindHandle, WaitData, WaitTimeout, ReadStart, ReadEnd,
         UnregisterClient, Callback, Goto, At
    <3>3. CASE WaitNotified(s) \/ RegisterGlobalClient(s)
      BY <3>3, <1>r DEF WaitNotified, RegisterGlobalClient, Announced, Woken
    <3>4. CASE Subscribe(s) \/ ManagerExit(s)
      BY <3>4, <2>2, <1>o DEF Subscribe, ManagerExit, Goto, At
    <3>5. CASE Fault(s) \/ Die(s) \/ SpuriousWakeup(s)
      BY <3>5, <2>2, <1>r DEF Fault, Die, SpuriousWakeup, pcVars, Announced, At
    <3>6. QED
      BY <1>2, <1>u, <3>1, <3>2, <3>3, <3>4, <3>5, Roles DEF Step, LockStep, ReceiveStep
  <2>3. QED BY <2>1, <2>2 DEF Announced, At
<1>3. QED BY <1>1, <1>2

(* A publisher has its own message in hand, and comes to signal one by       *)
(* writing it whole.                                                         *)
LEMMA PublisherStep ==
  ASSUME PairInv, Pairs, NEW r \in Proc, Step(r), NEW p \in Publishers,
         op[p] \notin {"new", "idle"} => msg[p].from = p
  PROVE  /\ op'[p] \notin {"new", "idle"} => msg'[p].from = p
         /\ op'[p] \in {"unregister", "signal"} =>
              op[p] \in {"unregister", "signal"} \/ (r = p /\ Written(p))
<1>u. TypeOK /\ Undisturbed /\ p \in Proc
  BY DEF PairInv, Pairs, Proc
<1>o. /\ op \in [Proc -> PublisherOps \cup SubscriberOps \cup ManagerOps \cup ReleaserOps]
      /\ msg \in [Proc -> {NoMessage} \cup Message \cup Received]
  BY <1>u DEF TypeOK, ControlTypeOK, MessageTypeOK
<1>w. ASSUME NEW A, NEW c, Overwrite(A, c) PROVE msg'[p] = msg[p]
  BY <1>u, <1>w, OverwriteMessages
<1>1. CASE r # p
  BY <1>1, <1>u, OthersStay
<1>2. CASE r = p
  <2>1. CASE LockStep(p)
    BY <2>1, <1>o DEF LockStep, LockGlobal, RelockGlobal, LockBlock, RelockBlock,
       UnregisterGlobalClient, GlobalSections, BlockSections, localVars, Goto
  <2>2. CASE AllocateConstruct(p) \/ GrowConstruct(p)
    BY <2>2, <1>o, <1>w DEF AllocateConstruct, GrowConstruct, Construct, Goto, At
  <2>3. CASE AllocateReconnect(p)
    <3>1. op[p] = "allocateBlock" /\ msg' = msg
      BY <2>3, <1>u, ReconnectKeeps DEF AllocateReconnect, At, PairInv
    <3>2. op'[p] \in {"allocateBlock", "reallocateBlock"}
      BY <2>3, <3>1, <1>o DEF AllocateReconnect, Goto
    <3>3. QED BY <3>1, <3>2
  <2>4. CASE AllocateClaim(p) \/ AllocateNone(p) \/ AllocateThrow(p)
    BY <2>4, <1>o DEF AllocateClaim, AllocateNone, AllocateThrow, Return, Goto, At
  <2>5. CASE GrowDestroy(p)
    BY <2>5, <1>w DEF GrowDestroy, Destroy, At
  <2>6. CASE ReallocateCheck(p) \/ ReallocateRefresh(p) \/ ReallocateResize(p) \/ GrowThrow(p)
    BY <2>6, <1>o DEF ReallocateCheck, ReallocateRefresh, ReallocateResize, GrowThrow,
       localVars, Return, Goto, At
  <2>7. CASE WriteStart(p)
    BY <2>7, <1>o, <1>w DEF WriteStart, Goto, At
  <2>8. CASE WriteEnd(p)
    BY <2>8, <1>2, <1>o, <1>w DEF WriteEnd, Written, Goto, At
  <2>9. CASE SerializeRegister(p) \/ SignalData(p)
    BY <2>9, <1>o DEF SerializeRegister, SignalData, localVars, Return, Goto, At
  <2>10. CASE Initialise(p)
    BY <2>10, <1>o DEF Initialise, Goto
  <2>11. CASE Publish(p)
    BY <2>11, <1>o DEF Publish, Goto
  <2>12. ~ManagerExit(p)
    BY <1>u DEF ManagerExit, Undisturbed
  <2>13. CASE Fault(p) \/ Die(p) \/ SpuriousWakeup(p)
    BY <2>13 DEF Fault, Die, SpuriousWakeup, pcVars, localVars
  <2>14. QED
    BY <1>2, <1>u, <2>1, <2>2, <2>3, <2>4, <2>5, <2>6, <2>7, <2>8, <2>9, <2>10, <2>11, <2>12,
       <2>13, Roles
    DEF Step, AllocateStep, ReallocateStep, SerializeStep
<1>3. QED BY <1>1, <1>2

(* A message that is written is its publisher's, and stands in the block of  *)
(* its topic from then on.                                                   *)
LEMMA WrittenStep ==
  ASSUME PairInv, Pairs, NEW r \in Proc, Step(r), NEW p \in Publishers, Written(p),
         bytes[segment[Topic[p]].ptr] = Torn
  PROVE  /\ r = p /\ EndsWriting(p) /\ msg[p] \in Message
         /\ segment'[Topic[p]].ptr \in Addresses
         /\ bytes'[segment'[Topic[p]].ptr] = msg[p]
<1>u. TypeOK /\ ResizeInv /\ p \in Proc
  BY DEF PairInv, Proc
<1>1. r = p
  BY <1>u, OthersStay DEF Written, At
<1>2. EndsWriting(p)
  <2>1. ~Spares(p)
    BY DEF Spares, Written, At
  <2>2. Touches(p)
    BY <1>1, <2>1, StepMemory
  <2>3. QED BY <2>2 DEF Touches, Constructs, Destroys, StartsWriting, Written, At
<1>3. msg[p] \in Message
  BY <1>u DEF TypeOK, MessageTypeOK, Written, At
<1>4. segment[Topic[p]].ptr \in Addresses /\ segment' = segment
  BY <1>u, <1>2, WriterBlock DEF EndsWriting
<1>5. bytes'[segment[Topic[p]].ptr] = msg[p]
  BY <1>2, <1>4 DEF EndsWriting, Overwrite
<1>6. QED BY <1>1, <1>2, <1>3, <1>4, <1>5

-----------------------------------------------------------------------------
(* No message is torn                                                        *)

OwnMessages(t) == {m \in Message : Topic[m.from] = t}

(* A block holds zeros, a message of its topic's publisher, or what that     *)
(* publisher is writing; and a subscriber never gets the last of these.      *)
ContentsInv ==
  /\ \A t \in Topics : segment[t].ptr # NULL =>
       bytes[segment[t].ptr] \in IF WritingIn(t) THEN {Torn} ELSE {Zeroed} \cup OwnMessages(t)
  /\ \A p \in Publishers : op[p] \notin {"new", "idle"} => msg[p].from = p
  /\ \A s \in Subscribers : Holding(s) =>
       msg[s] \in Received /\ msg[s].body \in {Zeroed} \cup OwnMessages(Topic[s])

LEMMA ContentsNext ==
  ASSUME PairInv, Pairs, ContentsInv, NEW r \in Proc, Step(r) PROVE ContentsInv'
<1>u. TypeOK /\ NULL \notin Addresses
  BY ProcessAssumption DEF PairInv
<1>1. ASSUME NEW t \in Topics, segment'[t].ptr # NULL
      PROVE  bytes'[segment'[t].ptr]
               \in IF WritingIn(t)' THEN {Torn} ELSE {Zeroed} \cup OwnMessages(t)
  <2>1. WritingIn(t) => segment[t].ptr # NULL
    <3>1. ASSUME NEW p \in Publishers, At(p, "write", "in")
          PROVE  segment[Topic[p]].ptr \in Addresses
      BY <1>u, <3>1, WriterBlock DEF PairInv
    <3>2. QED BY <1>u, <3>1 DEF WritingIn
  <2>2. WritingIn(t) => bytes[segment[t].ptr] = Torn
    BY <2>1 DEF ContentsInv
  <2>3. ASSUME r \in Publishers, Topic[r] = t, Written(r), bytes'[segment'[t].ptr] = msg[r]
        PROVE  bytes'[segment'[t].ptr] \in OwnMessages(t)
    <3>1. msg[r] \in Message /\ msg[r].from = r
      BY <1>u, <2>3 DEF TypeOK, MessageTypeOK, Written, At, ContentsInv
    <3>2. QED BY <2>3, <3>1 DEF OwnMessages
  <2>4. segment'[t].ptr = segment[t].ptr => segment[t].ptr # NULL
    BY <1>1
  <2>5. QED BY <1>1, <2>2, <2>3, <2>4, MemoryStep DEF ContentsInv
<1>2. \A p \in Publishers : op'[p] \notin {"new", "idle"} => msg'[p].from = p
  BY PublisherStep DEF ContentsInv
<1>3. ASSUME NEW s \in Subscribers, Holding(s)'
      PROVE  msg'[s] \in Received /\ msg'[s].body \in {Zeroed} \cup OwnMessages(Topic[s])
  <2>1. CASE Holding(s) /\ msg'[s] = msg[s]
    BY <2>1 DEF ContentsInv
  <2>2. CASE Takes(s)
    <3>1. /\ msg'[s] \in Received
          /\ msg'[s] = [body |-> bytes[segment[Topic[s]].ptr],
                        size |-> descriptors[Blk(s)].size_]
          /\ ~WritingIn(Topic[s]) /\ Topic[s] \in Topics
          /\ segment[Topic[s]].ptr \in Addresses
      BY <2>2, TakesContents
    <3>2. segment[Topic[s]].ptr # NULL /\ msg'[s].body = bytes[segment[Topic[s]].ptr]
      BY <1>u, <3>1
    <3>3. QED BY <3>1, <3>2 DEF ContentsInv
  <2>3. QED BY <1>3, <2>1, <2>2, SubscriberStep
<1>4. QED
  <2>1. \A t \in Topics : OwnMessages(t)' = OwnMessages(t)
    BY DEF OwnMessages
  <2>2. QED BY <1>1, <1>2, <1>3, <2>1 DEF ContentsInv

LEMMA ContentsInit == Init => ContentsInv
  BY DEF Init, ContentsInv, Absent, Names, Proc, Holding, At

LEMMA ContentsCorrect == ASSUME Pairs PROVE Spec => []ContentsInv
<1>1. ASSUME PairInv, ContentsInv, [Next]_vars PROVE ContentsInv'
  <2>1. CASE UNCHANGED vars
    BY <1>1, <2>1 DEF vars, pcVars, memVars, localVars, ContentsInv, WritingIn, OwnMessages,
       Holding, At
  <2>2. QED BY <1>1, <2>1, ContentsNext, NextStep
<1>2. QED BY <1>1, ContentsInit, PairInvCorrect, PTL DEF Spec

(* With one publisher and one subscriber on each topic, whatever the sizes   *)
(* of the messages: what a callback gets was copied out of a block that held *)
(* a whole message of its topic's publisher, or the zeros of one that has    *)
(* grown meanwhile.  How much of the block it gets is size_'s to say, and    *)
(* ChannelImplemented's subject.                                             *)
THEOREM DeliveredWhole ==
  ASSUME Pairs
  PROVE  Spec => [](\A s \in Subscribers : op[s] = "callback" =>
                      msg[s].body \in {Zeroed} \cup OwnMessages(Topic[s]))
<1> DEFINE Whole == \A s \in Subscribers : op[s] = "callback" =>
                      msg[s].body \in {Zeroed} \cup OwnMessages(Topic[s])
<1>1. ContentsInv => Whole
  BY DEF ContentsInv, Holding
<1> HIDE DEF Whole
<1>2. Spec => []Whole
  BY <1>1, ContentsCorrect, PTL
<1>3. QED BY <1>2 DEF Whole

-----------------------------------------------------------------------------
(* What the history remembers                                                *)

(* What the history variables remember is what the memory of each topic      *)
(* holds, and who is about to read, or about to be told to, has not read it. *)
HistoryInv ==
  /\ last \in [Topics -> Message \cup {NoMessage}] /\ unread \subseteq Subscribers
  /\ \A t \in Topics :
       IF segment[t].ptr = NULL THEN last[t] = NoMessage
       ELSE bytes[segment[t].ptr] = IF WritingIn(t) THEN Torn
                                    ELSE IF last[t] = NoMessage THEN Zeroed ELSE last[t]
  /\ \A s \in Subscribers : Announced(s) => s \in unread
  /\ \A p \in Publishers, s \in Subscribers :
       op[p] \in {"unregister", "signal"} /\ Topic[p] = Topic[s] => s \in unread

(* A publisher writes into memory that it alone has torn.                    *)
LEMMA WritingTorn ==
  ASSUME PairInv, ContentsInv, NEW p \in Publishers, At(p, "write", "in")
  PROVE  bytes[segment[Topic[p]].ptr] = Torn
<1>1. segment[Topic[p]].ptr \in Addresses
  BY WriterBlock DEF PairInv
<1>2. Topic[p] \in Topics
  BY DataAssumption
<1>3. QED BY <1>1, <1>2, ProcessAssumption DEF ContentsInv, WritingIn

(* Only the step that copies the last of a message writes it.                *)
LEMMA WriterOnly ==
  ASSUME PairInv, Pairs, ContentsInv, NEW r \in Proc, Step(r), NEW p \in Publishers, Written(p)
  PROVE  /\ r = p /\ EndsWriting(p) /\ msg[p] \in Message
         /\ segment'[Topic[p]].ptr \in Addresses
         /\ bytes'[segment'[Topic[p]].ptr] = msg[p]
  BY WritingTorn, WrittenStep DEF Written

(* What RecordLast makes of a step.                                          *)
LEMMA LastStep ==
  ASSUME PairInv, Pairs, ContentsInv, NEW r \in Proc, Step(r), RecordLast, NEW t \in Topics
  PROVE  /\ r \in Publishers /\ Topic[r] = t /\ Written(r) => last'[t] = msg[r]
         /\ ~WrittenTo(t) => last'[t] = IF Emptied(t) THEN NoMessage ELSE last[t]
         /\ WrittenTo(t) => r \in Publishers /\ Topic[r] = t /\ Written(r)
<1>1. ASSUME NEW p \in Publishers, Topic[p] = t, Written(p) PROVE r = p
  BY <1>1, WriterOnly
<1>2. WrittenTo(t) => r \in Publishers /\ Topic[r] = t /\ Written(r)
  BY <1>1 DEF WrittenTo
<1>3. last'[t] = CASE WrittenTo(t) ->
                        msg[CHOOSE p \in Publishers : Topic[p] = t /\ Written(p)]
                   [] Emptied(t) -> NoMessage
                   [] OTHER -> last[t]
  BY DEF RecordLast, WrittenTo
<1>4. ASSUME r \in Publishers, Topic[r] = t, Written(r) PROVE last'[t] = msg[r]
  <2>1. r = CHOOSE p \in Publishers : Topic[p] = t /\ Written(p)
    BY <1>1, <1>4
  <2>2. segment' = segment /\ WrittenTo(t)
    BY <1>4, WriterOnly DEF EndsWriting, WrittenTo
  <2>3. ~Emptied(t)
    BY <2>2 DEF Emptied
  <2>4. QED BY <1>3, <2>1, <2>2, <2>3
<1>5. ~WrittenTo(t) => last'[t] = IF Emptied(t) THEN NoMessage ELSE last[t]
  BY <1>3
<1>6. QED BY <1>2, <1>4, <1>5

LEMMA HistoryNext ==
  ASSUME PairInv, Pairs, TypeOK', ContentsInv, HistoryInv,
         NEW r \in Proc, Step(r), RecordLast, RecordUnread
  PROVE  HistoryInv'
<1>u. /\ TypeOK /\ NULL \notin Addresses
      /\ \A p \in Publishers : Topic[p] \in Topics /\ p \in Proc
      /\ NoMessage \notin Message
  BY ProcessAssumption, DataAssumption, ContentsAssumption DEF PairInv, Proc
<1>1. last' \in [Topics -> Message \cup {NoMessage}] /\ unread' \subseteq Subscribers
  <2>1. ASSUME NEW t \in Topics PROVE last'[t] \in Message \cup {NoMessage}
    <3>1. CASE WrittenTo(t)
      BY <3>1, LastStep, WriterOnly
    <3>2. CASE ~WrittenTo(t)
      BY <3>2, LastStep DEF HistoryInv
    <3>3. QED BY <3>1, <3>2
  <2>2. QED BY <2>1 DEF RecordLast, RecordUnread
<1>2. ASSUME NEW t \in Topics
      PROVE  IF segment'[t].ptr = NULL THEN last'[t] = NoMessage
             ELSE bytes'[segment'[t].ptr] =
                    IF WritingIn(t)' THEN Torn
                    ELSE IF last'[t] = NoMessage THEN Zeroed ELSE last'[t]
  <2>1. CASE segment'[t].ptr = NULL
    <3>1. ~WrittenTo(t)
      BY <1>u, <2>1, LastStep, WriterOnly
    <3>2. QED BY <2>1, <3>1, LastStep DEF Emptied, HistoryInv
  <2>2. CASE segment'[t].ptr # NULL
    <3>1. WritingIn(t) => bytes[segment[t].ptr] = Torn
      BY WritingTorn DEF WritingIn
    <3>2. CASE WrittenTo(t)
      <4>1. /\ r \in Publishers /\ Topic[r] = t /\ Written(r)
            /\ last'[t] = msg[r] /\ msg[r] \in Message
            /\ bytes'[segment'[t].ptr] = msg[r]
        BY <3>2, LastStep, WriterOnly
      <4>2. ~WritingIn(t)'
        BY <2>2, <3>1, <3>2, MemoryStep, <4>1 DEF StartsWriting, Written, At
      <4>3. QED BY <1>u, <2>2, <4>1, <4>2
    <3>3. CASE ~WrittenTo(t)
      <4>1. last'[t] = IF Emptied(t) THEN NoMessage ELSE last[t]
        BY <3>3, LastStep
      <4>2. ~(r \in Publishers /\ Topic[r] = t /\ Written(r))
        BY <3>3 DEF WrittenTo
      <4>3. CASE /\ segment'[t].ptr = segment[t].ptr
                 /\ bytes'[segment'[t].ptr] = bytes[segment'[t].ptr]
                 /\ WritingIn(t)' <=> WritingIn(t)
        BY <2>2, <4>1, <4>3 DEF Emptied, HistoryInv
      <4>4. CASE /\ segment'[t].ptr # segment[t].ptr
                 /\ bytes'[segment'[t].ptr] = Zeroed /\ ~WritingIn(t)'
        BY <2>2, <4>1, <4>4 DEF Emptied
      <4>5. CASE bytes'[segment'[t].ptr] = Torn /\ WritingIn(t)'
        BY <2>2, <4>5
      <4>6. QED BY <2>2, <3>1, <4>2, <4>3, <4>4, <4>5, MemoryStep
    <3>4. QED BY <3>2, <3>3
  <2>3. QED BY <2>1, <2>2
<1>3. ASSUME NEW s \in Subscribers, s \in unread, ~Reads(s) PROVE s \in unread'
  BY <1>3 DEF RecordUnread
<1>4. ASSUME NEW s \in Subscribers, Announced(s)' PROVE s \in unread'
  <2>1. ~Reads(s) /\ (\/ Announced(s)
                      \/ r \in Publishers /\ op[r] = "signal" /\ Topic[r] = Topic[s])
    BY <1>4, AnnouncedStep
  <2>2. s \in unread
    BY <2>1 DEF HistoryInv
  <2>3. QED BY <1>3, <2>1, <2>2
<1>5. ASSUME NEW p \in Publishers, NEW s \in Subscribers,
             op'[p] \in {"unregister", "signal"}, Topic[p] = Topic[s]
      PROVE  s \in unread'
  <2>1. op[p] \in {"unregister", "signal"} \/ (r = p /\ Written(p))
    BY <1>5, PublisherStep DEF ContentsInv
  <2>2. CASE Written(p)
    BY <1>5, <2>2 DEF RecordUnread
  <2>3. CASE op[p] \in {"unregister", "signal"}
    <3>1. s \in unread
      BY <1>5, <2>3 DEF HistoryInv
    <3>2. ~Reads(s)
      <4>1. op[p] = "signal" \/ op[p] = "unregister"
        BY <2>3
      <4>2. HoldsBlock(p)
        BY <4>1 DEF HoldsBlock
      <4>3. op[s] # "read"
        BY <1>5, <4>2, PairApart
      <4>4. QED BY <4>3 DEF Reads, At
    <3>3. QED BY <1>3, <3>1, <3>2
  <2>4. QED BY <2>1, <2>2, <2>3
<1>6. QED BY <1>1, <1>2, <1>4, <1>5 DEF HistoryInv

LEMMA HistoryInit == HInit => HistoryInv
  BY DEF HInit, Init, HistoryInv, Absent, Names, Proc, Announced, Woken, At

(* The history variables watch the system and do not restrain it.            *)
LEMMA HistoryWatches == HSpec => Spec
<1>1. HInit => Init
  BY DEF HInit
<1>2. [HNext]_histVars => [Next]_vars
  BY DEF HNext, histVars
<1>3. QED BY <1>1, <1>2, PTL DEF HSpec, Spec

LEMMA HistoryStutter ==
  ASSUME HistoryInv, UNCHANGED histVars PROVE HistoryInv'
  BY DEF histVars, vars, pcVars, blockVars, memVars, localVars, HistoryInv, WritingIn,
     Announced, Woken, At, Blk

LEMMA HistoryCorrect == ASSUME Pairs PROVE HSpec => []HistoryInv
<1>1. ASSUME PairInv, PairInv', ContentsInv, HistoryInv, [HNext]_histVars PROVE HistoryInv'
  <2>1. CASE UNCHANGED histVars
    BY <1>1, <2>1, HistoryStutter
  <2>2. CASE HNext
    <3>1. Next /\ RecordLast /\ RecordUnread
      BY <2>2 DEF HNext
    <3>2. UNCHANGED vars \/ \E r \in Proc : Step(r)
      BY <3>1, NextStep
    <3>3. CASE UNCHANGED vars
      <4>1. segment' = segment /\ op' = op /\ at' = at
        BY <3>3 DEF vars, pcVars, memVars
      <4>2. \A p \in Publishers : ~Written(p)
        BY <4>1 DEF Written, At
      <4>3. last' = [t \in Topics |-> last[t]]
        BY <3>1, <4>1, <4>2 DEF RecordLast, Emptied
      <4>4. unread' = {s \in Subscribers : s \in unread}
        BY <3>1, <4>1, <4>2 DEF RecordUnread, Reads, At
      <4>5. UNCHANGED histVars
        BY <1>1, <3>3, <4>3, <4>4 DEF histVars, HistoryInv
      <4>6. QED BY <1>1, <4>5, HistoryStutter
    <3>4. CASE \E r \in Proc : Step(r)
      BY <1>1, <3>1, <3>4, HistoryNext DEF PairInv
    <3>5. QED BY <3>2, <3>3, <3>4
  <2>3. QED BY <1>1, <2>1, <2>2
<1>2. QED
  BY <1>1, HistoryInit, HistoryWatches, PairInvCorrect, ContentsCorrect, PTL DEF HSpec

-----------------------------------------------------------------------------
(* Messages of one size                                                      *)

OneSize == \A m, n \in Sizes : m = n

(* A topic's block is the one its publisher has.                             *)
OwnerInv ==
  \A p \in Publishers, b \in Block :
    descriptors[b].active_ /\ descriptors[b].name_ = Topic[p] => Blk(p) = b

(* A descriptor comes into use when a publisher claims it.                   *)
LEMMA ClaimStep ==
  ASSUME PairInv, Pairs, NEW r \in Proc, Step(r), NEW b \in Block,
         ~descriptors[b].active_, descriptors'[b].active_
  PROVE  /\ AllocateClaim(r) /\ r \in Publishers
         /\ Blk(r)' = b /\ descriptors'[b].name_ = Topic[r]
<1>u. /\ TypeOK /\ ResizeInv /\ Undisturbed
      /\ descriptors \in [Block -> Descriptor] /\ handle \in [Proc -> Handle]
  BY DEF PairInv, Pairs, TypeOK, MemoryTypeOK, HandleTypeOK
<1>1. CASE AllocateClaim(r)
  <2>1. PICK i \in Block :
          /\ descriptors' = [descriptors EXCEPT ![i] =
               recordSize(allocate(descriptors[i], Topic[r]), InitialSize, InitialSize)]
          /\ handle' = [handle EXCEPT ![r].handle = i]
    BY <1>1 DEF AllocateClaim
  <2>2. i = b
    BY <1>u, <2>1
  <2>3. descriptors'[b].name_ = Topic[r] /\ Blk(r)' = b
    BY <1>u, <2>1, <2>2 DEF recordSize, allocate, Descriptor, Handle, Blk
  <2>4. r \in Publishers
    BY <1>1, <1>u, PublishersOrSubscribers
    DEF AllocateClaim, At, TypeOK, ControlTypeOK, SubscriberOps
  <2>5. QED BY <1>1, <2>3, <2>4
<1>2. CASE AllocateReconnect(r)
  <2>1. PICK i \in Block :
          /\ IsFirst(i, Matching(r))
          /\ \/ descriptors' = descriptors
             \/ descriptors' = [descriptors EXCEPT ![i] = recordSize(descriptors[i],
                      InitialSize, segment[descriptors[i].name_].size)]
    BY <1>2 DEF AllocateReconnect
  <2>2. descriptors[i].active_
    BY <2>1 DEF IsFirst, Matching
  <2>3. QED BY <1>u, <2>1, <2>2
<1>3. CASE AllocateConstruct(r)
  <2>1. at[r] # "reconstruct"
    BY <1>u DEF ResizeInv, ConstructionInv
  <2>2. QED BY <1>u, <1>3, <2>1 DEF AllocateConstruct
<1>4. CASE ReallocateResize(r) \/ GrowConstruct(r)
  <2>1. op[r] \in {"resize", "grow"}
    BY <1>4 DEF ReallocateResize, GrowConstruct, At
  <2>2. descriptors[Blk(r)].active_
    BY <1>u, <2>1, BlockInRange, HandleBlock, NoBlockNotBlock DEF HandleOps
  <2>3. descriptors' = descriptors
           \/ \E d : descriptors' = [descriptors EXCEPT ![Blk(r)] = d]
    BY <1>4 DEF ReallocateResize, GrowConstruct
  <2>4. QED BY <1>u, <2>2, <2>3
<1>5. ~AllocateThrow(r) /\ ~GrowThrow(r) /\ ~ResetStep(r)
  BY <1>u, NoReset DEF AllocateThrow, GrowThrow, Undisturbed
<1>6. CASE \/ LockStep(r) \/ AllocateNone(r) \/ ReallocateCheck(r) \/ ReallocateRefresh(r)
           \/ GrowDestroy(r) \/ SerializeStep(r) \/ ReceiveStep(r)
  BY <1>6 DEF LockStep, LockGlobal, RelockGlobal, LockBlock, RelockBlock,
     UnregisterGlobalClient, AllocateNone, ReallocateCheck, ReallocateRefresh, GrowDestroy,
     SerializeStep, SerializeRegister, WriteStart, WriteEnd, SignalData,
     ReceiveStep, FindHandle, WaitData, WaitTimeout, WaitNotified,
     RegisterGlobalClient, ReadStart, ReadEnd, UnregisterClient, Callback, memVars
<1>7. CASE \/ Fault(r) \/ Initialise(r) \/ Publish(r) \/ Subscribe(r) \/ ManagerExit(r)
           \/ Die(r) \/ SpuriousWakeup(r)
  BY <1>7 DEF Fault, Initialise, Publish, Subscribe, ManagerExit, Die, SpuriousWakeup, memVars
<1>8. QED
  BY <1>1, <1>2, <1>3, <1>4, <1>5, <1>6, <1>7 DEF Step, AllocateStep, ReallocateStep

LEMMA OwnerNext ==
  ASSUME PairInv, Pairs, OwnerInv, NEW r \in Proc, Step(r) PROVE OwnerInv'
<1>u. /\ TypeOK /\ ResizeInv /\ Undisturbed /\ OnePublisher
      /\ descriptors \in [Block -> Descriptor] /\ handle \in [Proc -> Handle]
      /\ \A p \in Publishers : p \in Proc /\ op[p] \in PublisherOps
  BY DEF PairInv, Pairs, TypeOK, ControlTypeOK, MemoryTypeOK, HandleTypeOK, Proc
<1> SUFFICES ASSUME NEW p \in Publishers, NEW b \in Block,
                    descriptors'[b].active_, descriptors'[b].name_ = Topic[p]
             PROVE  Blk(p)' = b
  BY DEF OwnerInv
<1>1. CASE ~descriptors[b].active_
  <2>1. r \in Publishers /\ Blk(r)' = b /\ Topic[r] = Topic[p]
    BY <1>1, ClaimStep
  <2>2. QED BY <1>u, <2>1 DEF OnePublisher
<1>2. CASE descriptors[b].active_
  <2>1. descriptors[b].name_ = Topic[p]
    <3>1. GrowConstruct(r) /\ Blk(r) = b => descriptors'[b].name_ = descriptors[b].name_
      BY <1>u DEF GrowConstruct, recordSize
    <3>2. QED BY <1>u, <1>2, <3>1, DescriptorsStay DEF SameBlock
  <2>2. Blk(p) = b
    BY <1>2, <2>1 DEF OwnerInv
  <2>3. CASE r # p
    BY <1>u, <2>2, <2>3, OthersStay DEF Blk
  <2>4. CASE r = p /\ op[p] # "allocateBlock"
    <3>1. op[p] # "findHandle"
      BY <1>u DEF PublisherOps
    <3>2. QED BY <1>u, <2>2, <2>4, <3>1, BlockStays
  <2>5. CASE r = p /\ op[p] = "allocateBlock"
    <3>1. Constructing(p)
      BY <1>u, <2>2, <2>5, NoBlockNotBlock DEF ResizeInv, ConstructionInv, NoHandle, Blk
    <3>2. CASE AllocateConstruct(p)
      BY <1>u, <2>2, <3>2 DEF AllocateConstruct, Blk
    <3>3. CASE ~AllocateConstruct(p)
      <4>1. ~AllocateStep(p) /\ ~LockStep(p)
        BY <1>u, <2>5, <3>1, <3>3 DEF Constructing, AllocateStep, AllocateReconnect,
           AllocateClaim, AllocateNone, AllocateThrow, Undisturbed, At, LockStep, LockGlobal,
           RelockGlobal, LockBlock, RelockBlock, UnregisterGlobalClient
      <4>2. ~ReallocateStep(p) /\ ~SerializeStep(p)
        BY <2>5 DEF ReallocateStep, ReallocateCheck, ReallocateRefresh, ReallocateResize,
           GrowDestroy, GrowConstruct, GrowThrow, SerializeStep, SerializeRegister,
           WriteStart, WriteEnd, SignalData, At
      <4>3. handle' = handle
        BY <1>u, <2>5, <4>1, <4>2, Roles DEF Step, Fault, Initialise, Publish, ManagerExit,
           Die, SpuriousWakeup, localVars
      <4>4. QED BY <2>2, <4>3 DEF Blk
    <3>4. QED BY <3>2, <3>3
  <2>6. QED BY <2>3, <2>4, <2>5
<1>3. QED BY <1>1, <1>2

LEMMA OwnerInit == Init => OwnerInv
  BY DEF Init, OwnerInv, EmptyDescriptor

(* Somebody has written into the block of topic t.                           *)
Filled(t) == segment[t].ptr # NULL /\ bytes[segment[t].ptr] # Zeroed

(* A block that was ever written records the size of a message, and whoever  *)
(* was told of a message, or is telling, finds the block of its topic        *)
(* written.                                                                  *)
FilledInv ==
  /\ \A b \in Block :
       descriptors[b].active_ /\ Filled(descriptors[b].name_) => descriptors[b].size_ \in Sizes
  /\ \A s \in Subscribers : Announced(s) => Filled(Topic[s])
  /\ \A p \in Publishers : op[p] \in {"unregister", "signal"} => Filled(Topic[p])
  /\ \A s \in Subscribers : Holding(s) => msg[s].body # Zeroed /\ msg[s].size \in Sizes

(* Messages of one size never make a block that was written grow.            *)
LEMMA FilledStays ==
  ASSUME PairInv, Pairs, OneSize, ContentsInv, FilledInv, NEW r \in Proc, Step(r),
         NEW t \in Topics, Filled(t)
  PROVE  Filled(t)'
<1>u. /\ TypeOK /\ ResizeInv /\ Undisturbed /\ t \in Names
      /\ segment[t].ptr # NULL /\ bytes[segment[t].ptr] # Zeroed
      /\ Zeroed \notin Message /\ Zeroed # Torn
  BY ContentsAssumption DEF PairInv, Pairs, Filled, Names
<1>1. CASE segment'[t] = segment[t]
  <2>1. WritingIn(t) => bytes[segment[t].ptr] = Torn
    BY WritingTorn DEF WritingIn
  <2>2. r \in Publishers /\ Written(r) => msg[r] \in Message
    BY WriterOnly
  <2>3. bytes'[segment'[t].ptr] # Zeroed
    BY <1>u, <1>1, <2>1, <2>2, MemoryStep
  <2>4. QED BY <1>u, <1>1, <2>3 DEF Filled
<1>2. CASE segment'[t] # segment[t]
  <2>1. /\ r \in Publishers /\ t = Topic[r] /\ Blk(r) \in Block
        /\ AllocateConstruct(r) \/ GrowDestroy(r) \/ GrowConstruct(r)
    BY <1>u, <1>2, SegmentStays
  <2>2. PICK b \in Block : b = Blk(r)
    BY <2>1
  <2>3. descriptors[b].active_ /\ descriptors[b].name_ = t
    BY <1>u, <2>1, <2>2, HandleBlock, NoBlockNotBlock
  <2>4. CASE Constructing(r)
    <3>1. BlockUnderConstruction(b)
      BY <2>2, <2>4 DEF BlockUnderConstruction
    <3>2. segment[t] = Absent
      BY <2>3, <3>1 DEF PairInv, ResizeInv, DescriptorInv
    <3>3. QED BY <1>u, <3>2 DEF Absent
  <2>5. CASE GrowDestroy(r)
    <3>1. op[r] = "grow"
      BY <2>5 DEF GrowDestroy, At
    <3>2. msg[r].size > descriptors[b].allocated_
      BY <2>2, <3>1 DEF PairInv, ResizeInv, ConstructionInv
    <3>3. msg[r].size \in Sizes
      BY <1>u, <2>1, <3>1 DEF TypeOK, MessageTypeOK, Message
    <3>4. descriptors[b].size_ \in Sizes
      BY <2>3 DEF FilledInv
    <3>5. descriptors[b].size_ <= descriptors[b].allocated_
      BY <2>3 DEF PairInv, ResizeInv, DescriptorInv
    <3>6. msg[r].size = descriptors[b].size_
      BY <3>3, <3>4 DEF OneSize
    <3>7. descriptors[b].size_ \in Nat /\ descriptors[b].allocated_ \in Nat
      BY <1>u DEF TypeOK, MemoryTypeOK, Descriptor
    <3>8. QED BY <3>2, <3>5, <3>6, <3>7
  <2>6. QED
    BY <2>1, <2>4, <2>5 DEF AllocateConstruct, GrowConstruct, Constructing, At
<1>3. QED BY <1>1, <1>2

(* A descriptor in use records another size only for a message at hand.      *)
LEMMA SizeStep ==
  ASSUME PairInv, Pairs, OwnerInv, NEW r \in Proc, Step(r), NEW b \in Block,
         descriptors[b].active_, descriptors'[b] # descriptors[b]
  PROVE  /\ descriptors'[b].size_ \in Sizes
         /\ op[r] \in {"resize", "grow"}
<1>u. /\ TypeOK /\ ResizeInv /\ Undisturbed
      /\ descriptors \in [Block -> Descriptor]
  BY DEF PairInv, Pairs, TypeOK, MemoryTypeOK
<1>1. /\ r \in Publishers /\ descriptors[b].name_ = Topic[r]
      /\ \/ op[r] = "allocateBlock" /\ at[r] = "in"
         \/ op[r] = "resize" /\ Blk(r) = b
         \/ GrowConstruct(r) /\ Blk(r) = b
  BY <1>u, DescriptorsStay
<1>2. op[r] \notin {"new", "idle"} => msg[r].size \in Sizes
  BY <1>u, <1>1 DEF TypeOK, MessageTypeOK, Message
<1>3. CASE op[r] = "allocateBlock" /\ at[r] = "in"
  <2>1. Blk(r) = b
    BY <1>1 DEF OwnerInv
  <2>2. handle[r] = NoHandle
    BY <1>3, <1>u DEF ResizeInv, ConstructionInv, Constructing
  <2>3. QED BY <2>1, <2>2, NoBlockNotBlock DEF NoHandle, Blk
<1>4. CASE op[r] = "resize" /\ Blk(r) = b
  <2>1. /\ ~LockStep(r) /\ ~AllocateStep(r) /\ ~SerializeStep(r) /\ ~ReallocateCheck(r)
        /\ ~ReallocateRefresh(r) /\ ~GrowDestroy(r) /\ ~GrowConstruct(r) /\ ~GrowThrow(r)
    BY <1>4 DEF LockStep, LockGlobal, RelockGlobal, LockBlock, RelockBlock,
       UnregisterGlobalClient, GlobalSections, BlockSections, AllocateStep, AllocateReconnect,
       AllocateClaim, AllocateNone, AllocateConstruct, AllocateThrow, SerializeStep,
       SerializeRegister, WriteStart, WriteEnd, SignalData, ReallocateCheck,
       ReallocateRefresh, GrowDestroy, GrowConstruct, GrowThrow, At
  <2>2. ReallocateResize(r) \/ descriptors' = descriptors
    BY <1>u, <1>1, <2>1, Roles DEF Step, ReallocateStep, Fault, Initialise, Publish,
       ManagerExit, Die, SpuriousWakeup, memVars
  <2>3. descriptors' = [descriptors EXCEPT ![b] = recordSize(descriptors[b], msg[r].size, 0)]
    BY <1>4, <2>2 DEF ReallocateResize
  <2>4. descriptors'[b].size_ = msg[r].size
    BY <1>u, <2>3 DEF recordSize
  <2>5. QED BY <1>2, <1>4, <2>4
<1>5. CASE GrowConstruct(r) /\ Blk(r) = b
  <2>1. op[r] = "grow"
    BY <1>5 DEF GrowConstruct, At
  <2>2. descriptors' = [descriptors EXCEPT ![b] =
                          recordSize(descriptors[b], msg[r].size, msg[r].size)]
    BY <1>5 DEF GrowConstruct
  <2>3. descriptors'[b].size_ = msg[r].size
    BY <1>u, <2>2 DEF recordSize
  <2>4. QED BY <1>2, <2>1, <2>3
<1>6. QED BY <1>1, <1>3, <1>4, <1>5

LEMMA FilledNext ==
  ASSUME PairInv, Pairs, OneSize, TypeOK', ContentsInv, OwnerInv, FilledInv,
         NEW r \in Proc, Step(r)
  PROVE  FilledInv'
<1>u. /\ TypeOK /\ ResizeInv /\ Undisturbed /\ NULL \notin Addresses
      /\ \A p \in Publishers \cup Subscribers : p \in Proc /\ Topic[p] \in Topics
      /\ Zeroed \notin Message /\ Zeroed # Torn
      /\ descriptors \in [Block -> Descriptor]
  BY ProcessAssumption, DataAssumption, ContentsAssumption
  DEF PairInv, Pairs, Proc, TypeOK, MemoryTypeOK
<1>1. ASSUME NEW b \in Block, descriptors'[b].active_, Filled(descriptors[b].name_)'
      PROVE  descriptors'[b].size_ \in Sizes
  <2>1. descriptors[b].active_
    <3> SUFFICES ASSUME ~descriptors[b].active_ PROVE FALSE
      OBVIOUS
    <3>1. /\ AllocateClaim(r) /\ r \in Publishers /\ descriptors'[b].name_ = Topic[r]
      BY <1>1, ClaimStep
    <3>2. Matching(r) = {} /\ segment' = segment
      BY <3>1 DEF AllocateClaim
    <3>3. Topic[r] \in Names
      BY <1>u, <3>1 DEF Names
    <3>4. segment[Topic[r]] = Absent
      BY <1>u, <3>2, <3>3 DEF ResizeInv, SegmentInv, Matching, matchName
    <3>5. QED BY <1>1, <3>1, <3>2, <3>4 DEF Filled, Absent
  <2>2. CASE descriptors'[b] # descriptors[b]
    BY <2>1, <2>2, SizeStep
  <2>3. CASE descriptors'[b] = descriptors[b]
    <3>1. PICK t \in Topics : t = descriptors[b].name_
      BY <1>u, <2>1 DEF ResizeInv, DescriptorInv
    <3>2. CASE Filled(t)
      BY <2>1, <2>3, <3>1, <3>2 DEF FilledInv
    <3>3. CASE ~Filled(t)
      <4>1. segment'[t].ptr # NULL /\ bytes'[segment'[t].ptr] # Zeroed
        BY <1>1, <2>3, <3>1 DEF Filled
      <4>2. ~WritingIn(t)
        <5>1. ASSUME NEW p \in Publishers, Topic[p] = t, At(p, "write", "in") PROVE FALSE
          BY <1>u, <3>3, <5>1, WritingTorn, WriterBlock DEF Filled
        <5>2. QED BY <5>1 DEF WritingIn
      <4>3. r \in Publishers /\ Topic[r] = t /\ StartsWriting(r)
        BY <3>3, <4>1, <4>2, MemoryStep DEF Filled, WritingIn, EndsWriting
      <4>4. Blk(r) = b
        BY <2>1, <3>1, <4>3 DEF OwnerInv
      <4>5. descriptors[b].size_ = msg[r].size
        BY <4>3, <4>4 DEF PairInv, RecordedInv, StartsWriting
      <4>6. msg[r].size \in Sizes
        BY <1>u, <4>3 DEF StartsWriting, At, TypeOK, MessageTypeOK, Message
      <4>7. QED BY <2>3, <4>5, <4>6
    <3>4. QED BY <3>2, <3>3
  <2>4. QED BY <2>2, <2>3
<1>2. ASSUME NEW s \in Subscribers, Announced(s)' PROVE Filled(Topic[s])'
  <2>1. Filled(Topic[s])
    BY <1>2, AnnouncedStep DEF FilledInv
  <2>2. QED BY <1>u, <2>1, FilledStays
<1>3. ASSUME NEW p \in Publishers, op'[p] \in {"unregister", "signal"} PROVE Filled(Topic[p])'
  <2>1. CASE op[p] \in {"unregister", "signal"}
    BY <1>u, <2>1, FilledStays DEF FilledInv
  <2>2. CASE Written(p)
    BY <1>u, <2>2, WriterOnly DEF Filled
  <2>3. QED BY <1>3, <2>1, <2>2, PublisherStep DEF ContentsInv
<1>4. ASSUME NEW s \in Subscribers, Holding(s)'
      PROVE  msg'[s].body # Zeroed /\ msg'[s].size \in Sizes
  <2>1. CASE Holding(s) /\ msg'[s] = msg[s]
    BY <2>1 DEF FilledInv
  <2>2. CASE Takes(s)
    <3>1. /\ msg'[s] = [body |-> bytes[segment[Topic[s]].ptr],
                        size |-> descriptors[Blk(s)].size_]
      BY <2>2, TakesContents
    <3>2. Filled(Topic[s])
      BY <2>2 DEF Takes, Reads, Announced, FilledInv
    <3>3. /\ Blk(s) \in Block /\ descriptors[Blk(s)].active_
          /\ descriptors[Blk(s)].name_ = Topic[s]
      <4>1. op[s] \in HandleOps
        BY <2>2 DEF Takes, Reads, At, HandleOps
      <4>2. QED BY <1>u, <4>1, BlockInRange, HandleBlock, NoBlockNotBlock
    <3>4. descriptors[Blk(s)].size_ \in Sizes
      BY <3>2, <3>3 DEF FilledInv
    <3>5. msg'[s].body = bytes[segment[Topic[s]].ptr] /\ msg'[s].size = descriptors[Blk(s)].size_
      BY <3>1
    <3>6. QED BY <3>2, <3>4, <3>5 DEF Filled
  <2>3. QED BY <1>4, <2>1, <2>2, SubscriberStep
<1>5. QED BY <1>1, <1>2, <1>3, <1>4 DEF FilledInv

LEMMA FilledInit == Init => FilledInv
  BY DEF Init, FilledInv, EmptyDescriptor, Proc, Announced, Woken, Holding, At

LEMMA FilledCorrect == ASSUME Pairs, OneSize PROVE Spec => []FilledInv
<1>1. ASSUME PairInv, PairInv', ContentsInv, OwnerInv, FilledInv, [Next]_vars
      PROVE  OwnerInv' /\ FilledInv'
  <2>1. CASE UNCHANGED vars
    <3>1. OwnerInv'
      BY <1>1, <2>1 DEF vars, memVars, localVars, OwnerInv, Blk
    <3>2. FilledInv'
      BY <1>1, <2>1 DEF vars, pcVars, blockVars, memVars, localVars, FilledInv, Filled,
         Announced, Woken, Holding, At, Blk
    <3>3. QED BY <3>1, <3>2
  <2>2. QED BY <1>1, <2>1, OwnerNext, FilledNext, NextStep DEF PairInv
<1>2. QED
  BY <1>1, OwnerInit, FilledInit, PairInvCorrect, ContentsCorrect, PTL DEF Spec

(* A message that a subscriber holds has the length it was read with.        *)
KnownSizes ==
  \A s \in Subscribers :
    Holding(s) /\ msg[s].body \in Message => msg[s].body.size = msg[s].size

LEMMA SizesKnown == ASSUME OneSize, FilledInv PROVE KnownSizes
  BY DEF KnownSizes, FilledInv, Message, OneSize

(* With one publisher and one subscriber on each topic, and messages of one  *)
(* size: a callback is handed a message that the publisher of its topic      *)
(* wrote, whole, with the length it was written with.                        *)
THEOREM MessagesIntact ==
  ASSUME Pairs, OneSize PROVE Spec => []DeliveredIntact
<1>1. ContentsInv /\ FilledInv => DeliveredIntact
  <2> SUFFICES ASSUME ContentsInv, FilledInv, NEW s \in Subscribers, op[s] = "callback"
               PROVE  /\ msg[s].body \in Message
                      /\ msg[s].body.size = msg[s].size
                      /\ Topic[msg[s].body.from] = Topic[s]
    BY DEF DeliveredIntact
  <2>1. Holding(s) /\ msg[s].body # Zeroed
    BY DEF FilledInv, Holding
  <2>2. msg[s].body \in OwnMessages(Topic[s])
    BY <2>1 DEF ContentsInv
  <2>3. QED BY <2>1, <2>2, SizesKnown DEF OwnMessages, KnownSizes
<1>2. QED BY <1>1, ContentsCorrect, FilledCorrect, PTL

-----------------------------------------------------------------------------
(* The channel that the blocks implement                                     *)

(* What each step is to the channel.                                         *)
LEMMA ChannelStep ==
  ASSUME PairInv, Pairs, ContentsInv, HistoryInv, LengthsInMessage \/ KnownSizes',
         NEW r \in Proc, Step(r), RecordLast, RecordUnread
  PROVE  [Channel!Next]_Channel!vars
<1> DEFINE taken == [s \in Subscribers |-> Taken(s)]
<1>u. /\ TypeOK /\ Undisturbed /\ ResizeInv
      /\ \A p \in Publishers : p \notin Subscribers
      /\ r \in Publishers \/ r \in Subscribers
      /\ NoMessage \notin Message \cup Received /\ Zeroed \notin Message
  BY ProcessAssumption, ContentsAssumption, PublishersOrSubscribers DEF PairInv, Pairs
<1>l. last' = [t \in Topics |-> last'[t]] /\ last = [t \in Topics |-> last[t]]
  BY DEF RecordLast, HistoryInv
<1>m. ASSUME NEW s \in Subscribers, msg'[s] = msg[s] PROVE Taken(s)' = Taken(s)
  BY <1>m DEF Taken, AtItsLength
<1>1. CASE r \in Publishers
  <2>1. taken' = taken
    <3>1. \A s \in Subscribers : msg'[s] = msg[s]
      BY <1>1, <1>u, MessageStays
    <3>2. QED BY <1>m, <3>1
  <2>2. \A s \in Subscribers : ~Reads(s)
    BY <1>1, <1>u, SubscriberStep
  <2>3. CASE Written(r)
    <3>1. msg[r] \in Message /\ msg[r].from = r /\ segment' = segment
      BY <1>1, <2>3, WriterOnly DEF EndsWriting, ContentsInv, Written, At
    <3>2. \A t \in Topics : last'[t] = IF t = Topic[r] THEN msg[r] ELSE last[t]
      BY <1>1, <2>3, <3>1, LastStep DEF Emptied
    <3>3. last' = [last EXCEPT ![Topic[r]] = msg[r]]
      BY <1>l, <3>2
    <3>4. \A p \in Publishers : Written(p) => p = r
      BY WriterOnly
    <3>5. unread' = unread \cup {s \in Subscribers : Topic[s] = Topic[r]}
      BY <1>1, <2>2, <2>3, <3>4 DEF RecordUnread, HistoryInv
    <3>6. Channel!Put(r, msg[r])
      BY <2>1, <3>1, <3>3, <3>5 DEF Channel!Put
    <3>7. QED BY <1>1, <3>1, <3>6 DEF Channel!Next
  <2>4. CASE ~Written(r)
    <3>1. \A p \in Publishers : ~Written(p)
      BY <2>4, WriterOnly
    <3>2. unread' = unread
      BY <2>2, <3>1 DEF RecordUnread, HistoryInv
    <3>3. \A t \in Topics : last'[t] = IF Emptied(t) THEN NoMessage ELSE last[t]
      BY <3>1, LastStep DEF WrittenTo
    <3>4. CASE \E t \in Topics : Emptied(t)
      <4>1. PICK t \in Topics : Emptied(t)
        BY <3>4
      <4>2. \A u \in Topics : Emptied(u) => u = Topic[r]
        BY <1>u, SegmentStays DEF Emptied, Names
      <4>3. last' = [last EXCEPT ![t] = NoMessage]
        BY <1>l, <3>3, <4>1, <4>2
      <4>4. Channel!Discard(t)
        BY <2>1, <3>2, <4>3 DEF Channel!Discard
      <4>5. QED BY <4>4 DEF Channel!Next
    <3>5. CASE \A t \in Topics : ~Emptied(t)
      <4>1. last' = last
        BY <1>l, <3>3, <3>5
      <4>2. QED BY <2>1, <3>2, <4>1 DEF Channel!vars
    <3>6. QED BY <3>4, <3>5
  <2>5. QED BY <2>3, <2>4
<1>2. CASE r \in Subscribers
  <2>1. \A p \in Publishers : ~Written(p)
    BY <1>2, <1>u, WriterOnly
  <2>2. \A t \in Topics : ~Emptied(t)
    BY <1>2, <1>u, SegmentStays DEF Emptied, Names
  <2>3. last' = last
    <3>1. \A t \in Topics : last'[t] = last[t]
      BY <2>1, <2>2, LastStep DEF WrittenTo
    <3>2. QED BY <1>l, <3>1
  <2>4. \A s \in Subscribers \ {r} : Taken(s)' = Taken(s)
    BY <1>m, MessageStays
  <2>5. unread' = {s \in unread : ~Reads(s)}
    BY <2>1 DEF RecordUnread, HistoryInv
  <2>6. CASE Takes(r)
    <3>1. r \in unread
      BY <1>2, <2>6 DEF Takes, Reads, Announced, HistoryInv
    <3>2. unread' = unread \ {r}
      <4>1. \A s \in Subscribers : Reads(s) <=> s = r
        BY <1>2, <2>6, SubscriberStep DEF Takes
      <4>2. QED BY <2>5, <4>1 DEF HistoryInv
    <3>3. Taken(r)' = last[Topic[r]]
      <4>1. /\ ~WritingIn(Topic[r]) /\ Topic[r] \in Topics
            /\ segment[Topic[r]].ptr \in Addresses
            /\ msg'[r] \in Received
            /\ msg'[r] = [body |-> bytes[segment[Topic[r]].ptr],
                          size |-> descriptors[Blk(r)].size_]
        BY <1>2, <2>6, TakesContents
      <4>2. segment[Topic[r]].ptr # NULL
        BY <4>1, ProcessAssumption
      <4>3. msg'[r].body = IF last[Topic[r]] = NoMessage THEN Zeroed ELSE last[Topic[r]]
        <5>1. msg'[r].body = bytes[segment[Topic[r]].ptr]
          BY <4>1
        <5>2. QED BY <4>1, <4>2, <5>1 DEF HistoryInv
      <4>4. last[Topic[r]] \in Message \cup {NoMessage}
        BY <4>1 DEF HistoryInv
      <4>5. CASE last[Topic[r]] = NoMessage
        BY <1>u, <4>1, <4>3, <4>5 DEF Taken
      <4>6. CASE last[Topic[r]] \in Message
        <5>1. msg'[r].body = last[Topic[r]]
          BY <1>u, <4>3, <4>6
        <5>2. Holding(r)'
          BY <1>u, <2>6 DEF Takes, ReadStart, Reads, Holding, At, Goto, TypeOK, ControlTypeOK
        <5>3. AtItsLength(msg'[r])
          BY <1>2, <4>6, <5>1, <5>2 DEF AtItsLength, KnownSizes
        <5>4. QED BY <1>u, <4>1, <4>6, <5>1, <5>3 DEF Taken, AtItsLength
      <4>7. QED BY <4>4, <4>5, <4>6
    <3>4. taken' = [taken EXCEPT ![r] = last[Topic[r]]]
      BY <1>2, <2>4, <3>3
    <3>5. Channel!Take(r)
      BY <2>3, <3>1, <3>2, <3>4 DEF Channel!Take
    <3>6. QED BY <1>2, <3>5 DEF Channel!Next
  <2>7. CASE ~Takes(r)
    <3>1. unread' = unread
      <4>1. \A s \in Subscribers : ~Reads(s)
        BY <2>7, SubscriberStep
      <4>2. QED BY <2>5, <4>1 DEF HistoryInv
    <3>2. CASE msg'[r] = msg[r]
      <4>1. taken' = taken
        BY <1>m, <2>4, <3>2
      <4>2. QED BY <2>3, <3>1, <4>1 DEF Channel!vars
    <3>3. CASE Callback(r)
      <4>1. msg'[r] = NoMessage
        BY <1>u, <3>3 DEF Callback, TypeOK, MessageTypeOK
      <4>2. taken' = [taken EXCEPT ![r] = NoMessage]
        BY <1>2, <2>4, <4>1 DEF Taken
      <4>3. Channel!Handle(r)
        BY <2>3, <3>1, <4>2 DEF Channel!Handle
      <4>4. QED BY <1>2, <4>3 DEF Channel!Next
    <3>4. QED BY <1>2, <2>7, <3>2, <3>3, SubscriberStep
  <2>8. QED BY <2>6, <2>7
<1>3. QED BY <1>u, <1>1, <1>2

LEMMA ChannelMeasured ==
  ASSUME Pairs, LengthsInMessage \/ OneSize
  PROVE  Spec => [](LengthsInMessage \/ KnownSizes)
<1>1. CASE LengthsInMessage
  <2>1. Init => LengthsInMessage \/ KnownSizes
    BY <1>1
  <2>2. (LengthsInMessage \/ KnownSizes) /\ [Next]_vars => (LengthsInMessage \/ KnownSizes)'
    BY <1>1
  <2>3. QED BY <2>1, <2>2, PTL DEF Spec
<1>2. CASE OneSize
  <2>1. FilledInv => LengthsInMessage \/ KnownSizes
    BY <1>2, SizesKnown
  <2>2. Spec => []FilledInv
    BY <1>2, FilledCorrect
  <2>3. QED BY <2>1, <2>2, PTL
<1>3. QED BY <1>1, <1>2

(* With one publisher and one subscriber on each topic, and messages that    *)
(* carry their lengths, of whatever sizes, or that are all of one size: the  *)
(* monitors, the cached handles and the resizes together make the channel of *)
(* TopicChannel.  Nothing a callback sees is torn, cut short, stale,         *)
(* repeated or another topic's.                                              *)
THEOREM ChannelImplemented ==
  ASSUME Pairs, LengthsInMessage \/ OneSize PROVE HSpec => ImplementsChannel
<1>1. HInit => Channel!Init
  BY DEF HInit, Init, Channel!Init, Taken, Proc
<1>2. ASSUME PairInv, ContentsInv, HistoryInv, [HNext]_histVars,
             (LengthsInMessage \/ KnownSizes)'
      PROVE  [Channel!Next]_Channel!vars
  <2>1. CASE UNCHANGED histVars
    BY <2>1 DEF histVars, vars, localVars, Channel!vars, Taken, AtItsLength
  <2>2. CASE HNext /\ UNCHANGED vars
    <3>1. segment' = segment /\ op' = op /\ at' = at /\ msg' = msg
      BY <2>2 DEF vars, pcVars, memVars, localVars
    <3>2. \A p \in Publishers : ~Written(p)
      BY <3>1 DEF Written, At
    <3>3. last' = [t \in Topics |-> last[t]]
      BY <2>2, <3>1, <3>2 DEF HNext, RecordLast, Emptied
    <3>4. unread' = {s \in Subscribers : s \in unread}
      BY <2>2, <3>1, <3>2 DEF HNext, RecordUnread, Reads, At
    <3>5. QED BY <1>2, <3>1, <3>3, <3>4 DEF Channel!vars, Taken, AtItsLength, HistoryInv
  <2>3. CASE HNext /\ \E r \in Proc : Step(r)
    BY <1>2, <2>3, ChannelStep DEF HNext
  <2>4. QED BY <1>2, <2>1, <2>2, <2>3, NextStep DEF HNext
<1>3. QED
  BY <1>1, <1>2, HistoryCorrect, HistoryWatches, PairInvCorrect, ContentsCorrect,
     ChannelMeasured, PTL
  DEF HSpec, ImplementsChannel, Channel!Spec
=============================================================================
