---------------------- MODULE SharedMemoryBlockProofs ----------------------
(***************************************************************************)
(* Proofs about SharedMemoryBlock, for any number of publishers,           *)
(* subscribers, topics, blocks and message sizes.                          *)
(***************************************************************************)
EXTENDS SharedMemoryBlock, FiniteSetTheorems, TLAPS

-----------------------------------------------------------------------------
(* Type correctness *)

(* recordSize, allocate and reset turn descriptors into descriptors.         *)
LEMMA RecordSizeType ==
  ASSUME NEW desc \in Descriptor, NEW newsize \in Nat, NEW alloc \in Nat
  PROVE  recordSize(desc, newsize, alloc) \in Descriptor
  BY DEF Descriptor, recordSize

LEMMA DescriptorType ==
  /\ EmptyDescriptor \in Descriptor
  /\ \A desc \in Descriptor : reset(desc) \in Descriptor
  /\ \A desc \in Descriptor, t \in Topics : allocate(desc, t) \in Descriptor
  BY DEF Descriptor, EmptyDescriptor, reset, allocate, Names

(* A handle made from a descriptor has the type of handles.                  *)
LEMMA FreshHandleType ==
  ASSUME MemoryTypeOK, NEW b \in Block, NEW desc \in Descriptor
  PROVE  /\ FreshHandle(b, desc) \in Handle
         /\ FreshHandle(b, desc).handle = b
  BY DEF MemoryTypeOK, FreshHandle, Handle, Descriptor

(* A process inside a method that indexes descriptors[] has a valid index.   *)
LEMMA BlockInRange ==
  ASSUME TypeOK, NEW p \in Proc, op[p] \in HandleOps
  PROVE  Blk(p) \in Block
  BY DEF TypeOK, HandleTypeOK, Handle, Blk

LEMMA RefreshedType ==
  ASSUME TypeOK, NEW p \in Proc, op[p] \in HandleOps
  PROVE  Refreshed(p) \in Handle /\ Refreshed(p).handle = Blk(p)
<1>1. descriptors[Blk(p)] \in Descriptor
  BY BlockInRange DEF TypeOK, MemoryTypeOK
<1>2. handle[p] \in Handle /\ handle[p].handle = Blk(p)
  BY DEF TypeOK, HandleTypeOK, Blk
<1>3. QED
  BY <1>1, <1>2, BlockInRange, FreshHandleType DEF TypeOK, Refreshed

(* Overwriting memory keeps the types of memory and messages, and touches    *)
(* only the messages of subscribers that are reading.                        *)
LEMMA OverwriteType ==
  ASSUME TypeOK, NEW A, NEW c \in Bytes, Overwrite(A, c)
  PROVE  /\ bytes' \in [Addresses -> Bytes]
         /\ msg' \in [Proc -> {NoMessage} \cup Message \cup Received]
         /\ \A p \in Publishers : msg'[p] = msg[p]
         /\ \A s \in Subscribers :
              At(s, "read", "in") => msg'[s] \in Received
<1>1. bytes' \in [Addresses -> Bytes]
  BY DEF TypeOK, MemoryTypeOK, Overwrite
<1>2. \A p \in Publishers : msg'[p] = msg[p]
  BY DEF TypeOK, ControlTypeOK, PublisherOps, Overwrite, At, Proc
<1>3. \A s \in Proc : At(s, "read", "in") => s \in Subscribers
  BY DEF TypeOK, ControlTypeOK, PublisherOps, ManagerOps, ReleaserOps, At, Proc
<1>4. \A m \in Received :
        [m EXCEPT !.body = Torn] \in Received
  BY DEF Received, Bytes
<1>5. \A s \in Subscribers :
        At(s, "read", "in") => msg'[s] \in Received
  BY <1>4 DEF TypeOK, MessageTypeOK, Overwrite, Proc
<1>6. \A s \in Proc : msg'[s] = msg[s] \/ (s \in Subscribers /\ At(s, "read", "in"))
  BY <1>3 DEF Overwrite
<1>7. \A s \in Proc : msg'[s] \in {NoMessage} \cup Message \cup Received
  BY <1>5, <1>6 DEF TypeOK, MessageTypeOK
<1>8. msg' = [s \in Proc |-> msg'[s]]
  BY DEF Overwrite
<1>9. QED BY <1>1, <1>2, <1>5, <1>7, <1>8

LEMMA TypeInit == Init => TypeOK
<1> SUFFICES ASSUME Init PROVE TypeOK
  OBVIOUS
<1>1. ControlTypeOK
  BY ProcessAssumption DEF Init, ControlTypeOK, Proc, Constructing, PublisherOps,
     SubscriberOps, ManagerOps, ReleaserOps
<1>2. MonitorTypeOK
  BY DEF Init, MonitorTypeOK
<1>3. MemoryTypeOK
  BY DescriptorType DEF Init, MemoryTypeOK, Absent, Bytes
<1>4. MessageTypeOK
  BY ProcessAssumption DEF Init, MessageTypeOK, Proc, At
<1>5. HandleTypeOK
  BY DEF Init, HandleTypeOK, Handle, NoHandle, is_valid, HandleOps, Constructing, Blk
<1>6. QED BY <1>1, <1>2, <1>3, <1>4, <1>5 DEF TypeOK

(* The actions of a process, one by one.                                     *)
LEMMA NextCases ==
  ASSUME [Next]_vars
  PROVE  \/ UNCHANGED vars
         \/ \E p \in Proc :
              \/ LockStep(p) \/ AllocateStep(p) \/ ReallocateStep(p)
              \/ SerializeStep(p) \/ ReceiveStep(p) \/ ResetStep(p) \/ Fault(p)
              \/ Initialise(p) \/ Publish(p) \/ Subscribe(p) \/ ManagerExit(p)
              \/ Die(p) \/ SpuriousWakeup(p)
  BY DEF Next, InsideStep, OutsideStep

LEMMA ControlTypeNext == ASSUME TypeOK, [Next]_vars PROVE ControlTypeOK'
<1> USE ProcessAssumption DEF TypeOK, ControlTypeOK, PublisherOps, SubscriberOps,
      ManagerOps, ReleaserOps, Constructing, Proc, At, Goto
<1>1. CASE UNCHANGED vars
  BY <1>1 DEF vars, pcVars
<1>2. ASSUME NEW p \in Proc, LockStep(p) PROVE ControlTypeOK'
  BY <1>2 DEF LockStep, LockGlobal, RelockGlobal, LockBlock, RelockBlock,
     UnregisterGlobalClient, GlobalSections, BlockSections
<1>3. ASSUME NEW p \in Proc, AllocateStep(p) PROVE ControlTypeOK'
  <2>1. CASE AllocateReconnect(p) \/ AllocateClaim(p)
    <3>1. /\ op[p] = "allocateBlock" /\ dead' = dead
          /\ \/ op' = op /\ at' = [at EXCEPT ![p] = "reconstruct"]
             \/ op' = op /\ at' = [at EXCEPT ![p] = "construct"]
             \/ Goto(p, "reallocateBlock", "start")
      BY <2>1 DEF AllocateReconnect, AllocateClaim
    <3>2. QED BY <3>1
  <2>2. CASE AllocateNone(p) \/ AllocateConstruct(p) \/ AllocateThrow(p)
    BY <2>2 DEF AllocateNone, AllocateConstruct, AllocateThrow, Return
  <2>3. QED BY <1>3, <2>1, <2>2 DEF AllocateStep
<1>4. ASSUME NEW p \in Proc, ReallocateStep(p) PROVE ControlTypeOK'
  BY <1>4 DEF ReallocateStep, ReallocateCheck, ReallocateRefresh, ReallocateResize,
     GrowDestroy, GrowConstruct, GrowThrow, Return
<1>5. ASSUME NEW p \in Proc, SerializeStep(p) PROVE ControlTypeOK'
  BY <1>5 DEF SerializeStep, SerializeRegister, WriteStart, WriteEnd, SignalData, Return
<1>6. ASSUME NEW p \in Proc, ReceiveStep(p) PROVE ControlTypeOK'
  BY <1>6 DEF ReceiveStep, FindHandle, WaitData, WaitTimeout, WaitNotified,
     RegisterGlobalClient, ReadStart, ReadEnd, UnregisterClient, Callback
<1>7. ASSUME NEW p \in Proc, ResetStep(p) PROVE ControlTypeOK'
  BY <1>7 DEF ResetStep, ResetDestroy, ResetDescriptor, ResetEnd, ResetBlockEnter,
     ClearDestroy, ResetBlockClear
<1>8. ASSUME NEW p \in Proc,
             Initialise(p) \/ Publish(p) \/ Subscribe(p) \/ ManagerExit(p)
      PROVE  ControlTypeOK'
  BY <1>8 DEF Initialise, Publish, Subscribe, ManagerExit
<1>9. ASSUME NEW p \in Proc, Fault(p) \/ Die(p) \/ SpuriousWakeup(p)
      PROVE  ControlTypeOK'
  BY <1>9 DEF Fault, Die, SpuriousWakeup, pcVars
<1>10. QED
  BY <1>1, <1>2, <1>3, <1>4, <1>5, <1>6, <1>7, <1>8, <1>9, NextCases

LEMMA MonitorTypeNext == ASSUME TypeOK, [Next]_vars PROVE MonitorTypeOK'
<1> USE ProcessAssumption DEF MonitorTypeOK, globalVars, blockVars
<1>1. CASE UNCHANGED vars
  BY <1>1 DEF TypeOK, vars
<1>2. ASSUME NEW p \in Proc, LockStep(p) PROVE MonitorTypeOK'
  <2> USE DEF TypeOK
  <2>1. CASE LockGlobal(p)
    BY <2>1 DEF LockGlobal
  <2>2. CASE RelockGlobal(p)
    BY <2>2 DEF RelockGlobal
  <2>3. CASE LockBlock(p)
    BY <2>3 DEF LockBlock
  <2>4. CASE RelockBlock(p)
    BY <2>4 DEF RelockBlock
  <2>5. CASE UnregisterGlobalClient(p)
    BY <2>5 DEF UnregisterGlobalClient
  <2>6. QED BY <1>2, <2>1, <2>2, <2>3, <2>4, <2>5 DEF LockStep
<1>3. ASSUME NEW p \in Proc, AllocateStep(p) PROVE MonitorTypeOK'
  BY <1>3 DEF TypeOK, AllocateStep, AllocateReconnect, AllocateClaim, AllocateNone,
     AllocateConstruct, AllocateThrow
<1>4. ASSUME NEW p \in Proc, ReallocateStep(p) PROVE MonitorTypeOK'
  BY <1>4 DEF TypeOK, ReallocateStep, ReallocateCheck, ReallocateRefresh, ReallocateResize,
     GrowDestroy, GrowConstruct, GrowThrow, Unlock
<1>5. ASSUME NEW p \in Proc, SerializeStep(p) PROVE MonitorTypeOK'
  BY <1>5 DEF TypeOK, SerializeStep, SerializeRegister, WriteStart, WriteEnd, SignalData,
     Unlock
<1>6. ASSUME NEW p \in Proc, ReceiveStep(p) PROVE MonitorTypeOK'
  <2> USE DEF TypeOK
  <2>1. CASE FindHandle(p) \/ ReadStart(p) \/ ReadEnd(p) \/ Callback(p)
    BY <2>1 DEF FindHandle, ReadStart, ReadEnd, Callback
  <2>2. CASE WaitData(p) \/ WaitTimeout(p)
    BY <2>2 DEF WaitData, WaitTimeout
  <2>3. CASE WaitNotified(p)
    <3>1. Blk(p) \in Block
      BY <2>3, BlockInRange DEF WaitNotified, At, HandleOps
    <3>2. QED BY <2>3, <3>1 DEF WaitNotified
  <2>4. CASE RegisterGlobalClient(p)
    <3>1. /\ num_clients' = num_clients + 1
          /\ block_mutex' = [block_mutex EXCEPT ![Blk(p)] = NULL]
          /\ mutex' = mutex /\ cond' = cond
          /\ lockcond' = lockcond /\ datacond' = datacond /\ block_clients' = block_clients
      BY <2>4 DEF RegisterGlobalClient, Unlock
    <3>2. num_clients' \in Int
      BY <3>1
    <3>3. block_mutex' \in [Block -> Proc \cup {NULL}]
      BY <3>1
    <3>4. QED BY <3>1, <3>2, <3>3
  <2>5. CASE UnregisterClient(p)
    <3>1. Blk(p) \in Block
      BY <2>5, BlockInRange DEF UnregisterClient, HandleOps
    <3>2. QED BY <2>5, <3>1 DEF UnregisterClient
  <2>6. QED BY <1>6, <2>1, <2>2, <2>3, <2>4, <2>5 DEF ReceiveStep
<1>7. ASSUME NEW p \in Proc, ResetStep(p) PROVE MonitorTypeOK'
  BY <1>7 DEF TypeOK, ResetStep, ResetDestroy, ResetDescriptor, ResetEnd, ResetBlockEnter,
     ClearDestroy, ResetBlockClear, Unlock
<1>8. ASSUME NEW p \in Proc,
             \/ Initialise(p) \/ Publish(p) \/ Subscribe(p) \/ ManagerExit(p)
             \/ Fault(p) \/ Die(p)
      PROVE  MonitorTypeOK'
  BY <1>8 DEF TypeOK, Initialise, Publish, Subscribe, ManagerExit, Fault, Die
<1>9. ASSUME NEW p \in Proc, SpuriousWakeup(p) PROVE MonitorTypeOK'
  BY <1>9 DEF TypeOK, SpuriousWakeup
<1>10. QED
  BY <1>1, <1>2, <1>3, <1>4, <1>5, <1>6, <1>7, <1>8, <1>9, NextCases

(* Destroy and Construct keep the segment well typed.                        *)
LEMMA DestroyType ==
  ASSUME TypeOK, NEW S, Destroy(S)
  PROVE  /\ segment' \in [Names -> [ptr : Addresses \cup {NULL}, size : Nat]]
         /\ \E A : Overwrite(A, Torn)
<1>1. Absent \in [ptr : Addresses \cup {NULL}, size : Nat]
  BY DEF Absent
<1>2. segment' = [n \in Names |-> IF n \in S THEN Absent ELSE segment[n]]
  BY DEF Destroy
<1>3. \A n \in Names : segment[n] \in [ptr : Addresses \cup {NULL}, size : Nat]
  BY DEF TypeOK, MemoryTypeOK
<1>4. QED BY <1>1, <1>2, <1>3 DEF Destroy

LEMMA ConstructType ==
  ASSUME TypeOK, NEW name \in Names, NEW size \in Nat, NEW a \in Addresses,
         Construct(name, size, a)
  PROVE  /\ segment' \in [Names -> [ptr : Addresses \cup {NULL}, size : Nat]]
         /\ \E A : Overwrite(A, Zeroed)
<1>1. [ptr |-> a, size |-> size] \in [ptr : Addresses \cup {NULL}, size : Nat]
  OBVIOUS
<1>2. QED BY <1>1 DEF Construct, TypeOK, MemoryTypeOK

(* The steps that change the descriptors or the memory give them values of   *)
(* their types; every other step leaves memVars alone.                       *)
LEMMA MemoryTypeNext == ASSUME TypeOK, [Next]_vars PROVE MemoryTypeOK'
<1> USE DataAssumption
<1>1. CASE UNCHANGED memVars
  BY <1>1 DEF memVars, TypeOK, MemoryTypeOK
<1>2. ASSUME NEW p \in Proc, LockStep(p) \/ Fault(p) PROVE MemoryTypeOK'
  BY <1>1, <1>2 DEF LockStep, LockGlobal, RelockGlobal, LockBlock, RelockBlock,
     UnregisterGlobalClient, Fault
<1>3. ASSUME NEW p \in Proc, AllocateStep(p) PROVE MemoryTypeOK'
  <2>1. CASE AllocateReconnect(p)
    <3>1. PICK i \in Block :
            \/ Destroy({descriptors[i].name_}) /\ UNCHANGED descriptors
            \/ /\ descriptors' = [descriptors EXCEPT ![i] =
                    recordSize(descriptors[i], InitialSize, segment[descriptors[i].name_].size)]
               /\ UNCHANGED <<segment, bytes>>
      BY <2>1 DEF AllocateReconnect
    <3>2. CASE Destroy({descriptors[i].name_}) /\ UNCHANGED descriptors
      BY <3>2, DestroyType, OverwriteType DEF MemoryTypeOK, TypeOK, Bytes
    <3>3. CASE /\ descriptors' = [descriptors EXCEPT ![i] =
                    recordSize(descriptors[i], InitialSize, segment[descriptors[i].name_].size)]
               /\ UNCHANGED <<segment, bytes>>
      <4>1. descriptors[i] \in Descriptor
        BY DEF TypeOK, MemoryTypeOK
      <4>2. segment[descriptors[i].name_].size \in Nat
        BY <4>1 DEF TypeOK, MemoryTypeOK, Descriptor
      <4>3. recordSize(descriptors[i], InitialSize, segment[descriptors[i].name_].size)
              \in Descriptor
        BY <4>1, <4>2, RecordSizeType DEF InitialSize
      <4>4. QED BY <3>3, <4>3 DEF TypeOK, MemoryTypeOK
    <3>4. QED BY <3>1, <3>2, <3>3
  <2>2. CASE AllocateClaim(p)
    <3>1. PICK i \in Block :
            /\ descriptors' = [descriptors EXCEPT ![i] =
                 recordSize(allocate(descriptors[i], Topic[p]), InitialSize, InitialSize)]
            /\ UNCHANGED <<segment, bytes>>
      BY <2>2 DEF AllocateClaim
    <3>2. Topic[p] \in Topics
      BY <2>2, ProcessAssumption DEF AllocateClaim, At, TypeOK, ControlTypeOK, Proc, ManagerOps
    <3>3. recordSize(allocate(descriptors[i], Topic[p]), InitialSize, InitialSize)
            \in Descriptor
      BY <3>2, DescriptorType, RecordSizeType DEF TypeOK, MemoryTypeOK, InitialSize
    <3>4. QED BY <3>1, <3>3 DEF TypeOK, MemoryTypeOK
  <2>3. CASE AllocateConstruct(p)
    <3> DEFINE desc == descriptors[Blk(p)]
               recorded == IF at[p] = "reconstruct"
                             THEN recordSize(desc, InitialSize, InitialSize) ELSE desc
    <3>1. Blk(p) \in Block
      BY <2>3 DEF AllocateConstruct, TypeOK, HandleTypeOK, Handle, Constructing, Blk
    <3>2. desc \in Descriptor /\ desc.name_ \in Names
      BY <3>1 DEF TypeOK, MemoryTypeOK, Descriptor
    <3>3. recorded \in Descriptor
      BY <3>2, RecordSizeType DEF InitialSize
    <3>4. /\ \E a \in Addresses : Construct(desc.name_, InitialSize, a)
          /\ descriptors' = [descriptors EXCEPT ![Blk(p)] = recorded]
      BY <2>3 DEF AllocateConstruct
    <3>5. /\ segment' \in [Names -> [ptr : Addresses \cup {NULL}, size : Nat]]
          /\ bytes' \in [Addresses -> Bytes]
      BY <3>2, <3>4, ConstructType, OverwriteType DEF InitialSize, Bytes
    <3>6. QED BY <3>3, <3>4, <3>5 DEF TypeOK, MemoryTypeOK
  <2>4. CASE AllocateNone(p) \/ AllocateThrow(p)
    BY <1>1, <2>4 DEF AllocateNone, AllocateThrow
  <2>5. QED BY <1>3, <2>1, <2>2, <2>3, <2>4 DEF AllocateStep
<1>4. ASSUME NEW p \in Proc, ReallocateStep(p) PROVE MemoryTypeOK'
  <2>1. CASE ReallocateCheck(p) \/ ReallocateRefresh(p)
    BY <1>1, <2>1 DEF ReallocateCheck, ReallocateRefresh
  <2> DEFINE b == Blk(p)
  <2>2. ASSUME ReallocateResize(p) \/ GrowDestroy(p) \/ GrowConstruct(p) \/ GrowThrow(p)
        PROVE  /\ b \in Block /\ descriptors[b] \in Descriptor
               /\ descriptors[b].name_ \in Names
               /\ msg[p].size \in Nat
    <3>1. op[p] \in {"resize", "grow"}
      BY <2>2 DEF ReallocateResize, GrowDestroy, GrowConstruct, GrowThrow, At
    <3>2. b \in Block
      BY <3>1, BlockInRange DEF HandleOps
    <3>3. p \in Publishers
      BY <3>1 DEF TypeOK, ControlTypeOK, Proc, SubscriberOps, ManagerOps, ReleaserOps
    <3>4. msg[p].size \in Nat
      BY <3>1, <3>3 DEF TypeOK, MessageTypeOK, Message
    <3>5. QED BY <3>2, <3>4 DEF TypeOK, MemoryTypeOK, Descriptor
  <2>3. CASE ReallocateResize(p)
    <3>1. recordSize(descriptors[b], msg[p].size, 0) \in Descriptor
      BY <2>2, <2>3, RecordSizeType
    <3>2. QED BY <2>3, <3>1 DEF ReallocateResize, TypeOK, MemoryTypeOK
  <2>4. CASE GrowDestroy(p)
    BY <2>4, DestroyType, OverwriteType DEF GrowDestroy, TypeOK, MemoryTypeOK, Bytes
  <2>5. CASE GrowConstruct(p)
    <3>1. recordSize(descriptors[b], msg[p].size, msg[p].size) \in Descriptor
      BY <2>2, <2>5, RecordSizeType
    <3>2. /\ \E a \in Addresses : Construct(descriptors[b].name_, msg[p].size, a)
          /\ descriptors' = [descriptors EXCEPT ![b] =
                               recordSize(descriptors[b], msg[p].size, msg[p].size)]
      BY <2>5 DEF GrowConstruct
    <3>3. /\ segment' \in [Names -> [ptr : Addresses \cup {NULL}, size : Nat]]
          /\ bytes' \in [Addresses -> Bytes]
      BY <2>2, <2>5, <3>2, ConstructType, OverwriteType DEF Bytes
    <3>4. QED BY <3>1, <3>2, <3>3 DEF TypeOK, MemoryTypeOK
  <2>6. CASE GrowThrow(p)
    BY <2>2, <2>6, DescriptorType DEF GrowThrow, TypeOK, MemoryTypeOK
  <2>7. QED BY <1>4, <2>1, <2>3, <2>4, <2>5, <2>6 DEF ReallocateStep
<1>5. ASSUME NEW p \in Proc, SerializeStep(p) PROVE MemoryTypeOK'
  <2>1. CASE SerializeRegister(p) \/ SignalData(p)
    BY <1>1, <2>1 DEF SerializeRegister, SignalData
  <2>2. CASE WriteStart(p)
    BY <2>2, OverwriteType DEF WriteStart, TypeOK, MemoryTypeOK, Bytes
  <2>3. CASE WriteEnd(p)
    <3>1. op[p] = "write" /\ p \in Publishers
      BY <2>3 DEF WriteEnd, At, TypeOK, ControlTypeOK, Proc, SubscriberOps, ManagerOps, ReleaserOps
    <3>2. msg[p] \in Bytes /\ Torn \in Bytes
      BY <3>1 DEF TypeOK, MessageTypeOK, Bytes
    <3>3. QED
      BY <2>3, <3>2, OverwriteType DEF WriteEnd, TypeOK, MemoryTypeOK
  <2>4. QED BY <1>5, <2>1, <2>2, <2>3 DEF SerializeStep
<1>6. ASSUME NEW p \in Proc, ReceiveStep(p) PROVE MemoryTypeOK'
  BY <1>1, <1>6 DEF ReceiveStep, FindHandle, WaitData, WaitTimeout, WaitNotified,
     RegisterGlobalClient, ReadStart, ReadEnd, UnregisterClient, Callback
<1>7. ASSUME NEW p \in Proc, ResetStep(p) PROVE MemoryTypeOK'
  <2>d. \A b \in Block : descriptors[b] \in Descriptor /\ reset(descriptors[b]) \in Descriptor
    BY DescriptorType DEF TypeOK, MemoryTypeOK
  <2>1. CASE ResetDestroy(p) \/ ClearDestroy(p)
    BY <2>1, DestroyType, OverwriteType
       DEF ResetDestroy, ClearDestroy, TypeOK, MemoryTypeOK, Bytes
  <2>2. CASE ResetDescriptor(p)
    BY <2>2, <2>d DEF ResetDescriptor, TypeOK, MemoryTypeOK
  <2>3. CASE ResetBlockClear(p)
    BY <2>3, <2>d DEF ResetBlockClear, TypeOK, MemoryTypeOK
  <2>4. CASE ResetEnd(p) \/ ResetBlockEnter(p)
    BY <1>1, <2>4 DEF ResetEnd, ResetBlockEnter
  <2>5. QED BY <1>7, <2>1, <2>2, <2>3, <2>4 DEF ResetStep
<1>8. ASSUME NEW p \in Proc,
             \/ Initialise(p) \/ Publish(p) \/ Subscribe(p) \/ ManagerExit(p)
             \/ Die(p) \/ SpuriousWakeup(p)
      PROVE  MemoryTypeOK'
  BY <1>1, <1>8 DEF Initialise, Publish, Subscribe, ManagerExit, Die, SpuriousWakeup
<1>9. CASE UNCHANGED vars
  BY <1>1, <1>9 DEF vars
<1>10. QED
  BY <1>2, <1>3, <1>4, <1>5, <1>6, <1>7, <1>8, <1>9, NextCases

(* A publisher inside a call has a message, a reading subscriber too.        *)
LEMMA MessageTypeNext == ASSUME TypeOK, [Next]_vars PROVE MessageTypeOK'
<1> USE ProcessAssumption DEF MessageTypeOK, Proc, At, Goto
<1>1. CASE UNCHANGED vars
  BY <1>1 DEF TypeOK, vars, pcVars, localVars
<1>2. ASSUME NEW p \in Proc, LockStep(p) PROVE MessageTypeOK'
  <2>1. \/ /\ at' \in {[at EXCEPT ![p] = "in"], [at EXCEPT ![p] = "wait"]}
           /\ op' = op /\ msg' = msg /\ op[p] # "read"
        \/ /\ op[p] = "unregister" /\ msg' = msg
           /\ \/ Goto(p, "signal", "start")
              \/ Goto(p, "unregister_client", "start")
    BY <1>2 DEF LockStep, LockGlobal, RelockGlobal, LockBlock, RelockBlock,
       UnregisterGlobalClient, GlobalSections, BlockSections, localVars
  <2>2. QED BY <2>1 DEF TypeOK, ControlTypeOK
<1>3. ASSUME NEW p \in Proc, AllocateStep(p) PROVE MessageTypeOK'
  <2>1. CASE AllocateNone(p) \/ AllocateThrow(p)
    BY <1>3, <2>1 DEF AllocateNone, AllocateThrow, Return, TypeOK, ControlTypeOK
  <2>2. CASE AllocateReconnect(p) \/ AllocateClaim(p) \/ AllocateConstruct(p)
    <3>1. /\ msg' = msg \/ \E A, c : c \in Bytes /\ Overwrite(A, c)
          /\ op[p] = "allocateBlock"
          /\ \/ op' = op /\ at' = [at EXCEPT ![p] = "reconstruct"]
             \/ op' = op /\ at' = [at EXCEPT ![p] = "construct"]
             \/ Goto(p, "reallocateBlock", "start")
      BY <2>2 DEF AllocateReconnect, AllocateClaim, AllocateConstruct,
         Destroy, Construct, Bytes
    <3>2. QED BY <3>1, OverwriteType DEF TypeOK, ControlTypeOK
  <2>3. QED BY <1>3, <2>1, <2>2 DEF AllocateStep
<1>4. ASSUME NEW p \in Proc, ReallocateStep(p) PROVE MessageTypeOK'
  <2>1. CASE ReallocateCheck(p) \/ ReallocateRefresh(p)
    BY <2>1 DEF ReallocateCheck, ReallocateRefresh, localVars, TypeOK, ControlTypeOK
  <2>2. CASE ReallocateResize(p) \/ GrowThrow(p)
    BY <2>2 DEF ReallocateResize, GrowThrow, Return, TypeOK, ControlTypeOK
  <2>3. CASE GrowDestroy(p) \/ GrowConstruct(p)
    <3>1. /\ \E A, c : c \in Bytes /\ Overwrite(A, c)
          /\ op[p] = "grow"
          /\ \/ op' = op /\ at' = [at EXCEPT ![p] = "construct"]
             \/ Goto(p, "serialize", "start")
      BY <2>3 DEF GrowDestroy, GrowConstruct, Destroy, Construct, Bytes
    <3>2. QED BY <3>1, OverwriteType DEF TypeOK, ControlTypeOK
  <2>4. QED BY <1>4, <2>1, <2>2, <2>3 DEF ReallocateStep
<1>5. ASSUME NEW p \in Proc, SerializeStep(p) PROVE MessageTypeOK'
  <2>1. p \in Publishers \/ op[p] = "unregister"
    BY <1>5 DEF SerializeStep, SerializeRegister, WriteStart, WriteEnd, SignalData,
       TypeOK, ControlTypeOK, SubscriberOps, ManagerOps, ReleaserOps
  <2>2. CASE SerializeRegister(p)
    BY <2>2 DEF SerializeRegister, localVars, TypeOK, ControlTypeOK
  <2>3. CASE WriteStart(p) \/ WriteEnd(p)
    <3>1. /\ \E A, c : c \in Bytes /\ Overwrite(A, c)
          /\ op[p] = "write"
          /\ \/ op' = op /\ at' = [at EXCEPT ![p] = "in"]
             \/ Goto(p, "overrun", "start")
             \/ Goto(p, "unregister", "start")
      BY <2>1, <2>3 DEF WriteStart, WriteEnd, Bytes, TypeOK
    <3>2. QED BY <3>1, OverwriteType DEF TypeOK, ControlTypeOK
  <2>4. CASE SignalData(p)
    BY <2>4 DEF SignalData, Return, TypeOK, ControlTypeOK
  <2>5. QED BY <1>5, <2>2, <2>3, <2>4 DEF SerializeStep
<1>6. ASSUME NEW p \in Proc, ReceiveStep(p) PROVE MessageTypeOK'
  <2> USE DEF TypeOK, ControlTypeOK
  <2>1. CASE FindHandle(p)
    BY <2>1 DEF FindHandle, PublisherOps
  <2>2. CASE WaitData(p) \/ WaitTimeout(p) \/ WaitNotified(p) \/ RegisterGlobalClient(p)
    BY <2>2 DEF WaitData, WaitTimeout, WaitNotified, RegisterGlobalClient, localVars,
       PublisherOps
  <2>3. CASE ReadStart(p)
    <3>1. p \in Subscribers /\ Blk(p) \in Block
      BY <2>3, BlockInRange DEF ReadStart, PublisherOps, ManagerOps, ReleaserOps, HandleOps
    <3>2. CASE /\ descriptors[Blk(p)].size_ >= TimestampSize
               /\ op' = op /\ at' = [at EXCEPT ![p] = "in"]
               /\ msg' = [msg EXCEPT ![p] = [body |-> bytes[Refreshed(p).ptr],
                                             size |-> descriptors[Blk(p)].size_]]
      <4>1. is_valid(Refreshed(p)) /\ Refreshed(p) \in Handle
        BY <2>3, <3>1, <3>2, RefreshedType DEF ReadStart, HandleOps, TimestampSize,
           MemoryTypeOK, Descriptor
      <4>2. bytes[Refreshed(p).ptr] \in Bytes
        BY <4>1 DEF is_valid, Handle, MemoryTypeOK
      <4>3. [body |-> bytes[Refreshed(p).ptr], size |-> descriptors[Blk(p)].size_] \in Received
        BY <3>1, <4>2 DEF Received, MemoryTypeOK, Descriptor
      <4>4. QED BY <3>1, <3>2, <4>3
    <3>3. CASE Goto(p, "overrun", "start") /\ UNCHANGED msg
      BY <3>1, <3>3
    <3>4. QED BY <2>3, <3>2, <3>3 DEF ReadStart
  <2>4. CASE ReadEnd(p)
    BY <2>4 DEF ReadEnd, localVars, PublisherOps
  <2>5. CASE UnregisterClient(p) \/ Callback(p)
    BY <2>5 DEF UnregisterClient, Callback, localVars, PublisherOps
  <2>6. QED BY <1>6, <2>1, <2>2, <2>3, <2>4, <2>5 DEF ReceiveStep
<1>7. ASSUME NEW p \in Proc, ResetStep(p) PROVE MessageTypeOK'
  <2>1. p \notin Publishers \cup Subscribers
    BY <1>7 DEF ResetStep, ResetDestroy, ResetDescriptor, ResetEnd, ResetBlockEnter,
       ClearDestroy, ResetBlockClear, At, TypeOK, ControlTypeOK, PublisherOps, SubscriberOps
  <2>2. /\ msg' = msg \/ \E A, c : c \in Bytes /\ Overwrite(A, c)
        /\ \A q \in Proc \ {p} : op'[q] = op[q] /\ at'[q] = at[q]
    BY <1>7 DEF ResetStep, ResetDestroy, ResetDescriptor, ResetEnd, ResetBlockEnter,
       ClearDestroy, ResetBlockClear, Destroy, Bytes, localVars, Goto, TypeOK, ControlTypeOK
  <2>3. \A q \in Publishers \cup Subscribers : op'[q] = op[q] /\ at'[q] = at[q]
    BY <2>1, <2>2 DEF Proc
  <2>4. CASE msg' = msg
    BY <2>3, <2>4 DEF TypeOK, MessageTypeOK, At
  <2>5. CASE \E A, c : c \in Bytes /\ Overwrite(A, c)
    <3>1. PICK A, c : c \in Bytes /\ Overwrite(A, c)
      BY <2>5
    <3>2. QED BY <2>3, <3>1, OverwriteType DEF TypeOK, MessageTypeOK, At
  <2>6. QED BY <2>2, <2>4, <2>5
<1>8. ASSUME NEW p \in Proc,
             Initialise(p) \/ Publish(p) \/ Subscribe(p) \/ ManagerExit(p)
      PROVE  MessageTypeOK'
  <2> USE DEF TypeOK, ControlTypeOK
  <2>1. CASE Initialise(p) \/ Publish(p)
    <3>1. p \in Publishers
      BY <2>1 DEF Initialise, Publish, SubscriberOps, ManagerOps, ReleaserOps
    <3>2. \A n \in Sizes : [from |-> p, size |-> n] \in Message
      BY <3>1 DEF Message
    <3>3. QED BY <2>1, <3>1, <3>2 DEF Initialise, Publish
  <2>2. CASE Subscribe(p) \/ ManagerExit(p)
    BY <2>2 DEF Subscribe, ManagerExit, localVars
  <2>3. QED BY <1>8, <2>1, <2>2
<1>9. ASSUME NEW p \in Proc, Fault(p) \/ Die(p) \/ SpuriousWakeup(p)
      PROVE  MessageTypeOK'
  BY <1>9 DEF Fault, Die, SpuriousWakeup, pcVars, localVars, TypeOK
<1>10. QED
  BY <1>1, <1>2, <1>3, <1>4, <1>5, <1>6, <1>7, <1>8, <1>9, NextCases

LEMMA NoBlockNotBlock == NoBlock \notin Block
  BY DataAssumption DEF NoBlock, Block

(* Handles keep their type, and nobody gets into a method that indexes       *)
(* descriptors[] without a block.                                            *)
LEMMA HandleFrame ==
  ASSUME TypeOK, NEW p \in Proc, handle' = handle,
         \A q \in Proc \ {p} : op'[q] = op[q] /\ at'[q] = at[q],
         Blk(p) # NoBlock \/ (op'[p] \notin HandleOps /\ ~Constructing(p)')
  PROVE  HandleTypeOK'
  BY DEF TypeOK, HandleTypeOK, Blk, Constructing

LEMMA HandleChange ==
  ASSUME TypeOK, NEW p \in Proc, NEW h \in Handle, handle' = [handle EXCEPT ![p] = h],
         \A q \in Proc \ {p} : op'[q] = op[q] /\ at'[q] = at[q],
         h.handle # NoBlock \/ /\ ~is_valid(h)
                               /\ op'[p] \notin HandleOps /\ ~Constructing(p)'
  PROVE  HandleTypeOK'
  BY DEF TypeOK, HandleTypeOK, Blk, Constructing

LEMMA HandleTypeNext == ASSUME TypeOK, [Next]_vars PROVE HandleTypeOK'
<1> USE NoBlockNotBlock
<1>1. CASE UNCHANGED vars
  BY <1>1 DEF TypeOK, HandleTypeOK, vars, pcVars, localVars, Blk, Constructing
<1>h. \A p \in Proc : op[p] \in HandleOps \/ Constructing(p) => Blk(p) # NoBlock
  BY DEF TypeOK, HandleTypeOK
<1>o. /\ op \in [Proc -> PublisherOps \cup SubscriberOps \cup ManagerOps \cup ReleaserOps]
      /\ at \in [Proc -> {"start", "wait", "in", "construct", "reconstruct", "destroyed"}]
  BY DEF TypeOK, ControlTypeOK
<1>2. ASSUME NEW p \in Proc, LockStep(p) PROVE HandleTypeOK'
  <2>1. /\ handle' = handle
        /\ \/ /\ op' = op
              /\ at' \in {[at EXCEPT ![p] = "in"], [at EXCEPT ![p] = "wait"]}
           \/ /\ op[p] \in HandleOps
              /\ \E o, a : Goto(p, o, a)
    BY <1>2 DEF LockStep, LockGlobal, RelockGlobal, LockBlock, RelockBlock,
       UnregisterGlobalClient, localVars, HandleOps
  <2>2. QED
    BY <2>1, <1>h, <1>o, HandleFrame DEF Goto, Constructing
<1>3. ASSUME NEW p \in Proc, AllocateStep(p) PROVE HandleTypeOK'
  <2>1. CASE AllocateReconnect(p)
    <3>1. PICK i \in Block :
            \/ /\ handle' = [handle EXCEPT ![p].handle = i]
               /\ op' = op /\ at' = [at EXCEPT ![p] = "reconstruct"]
            \/ /\ handle' = [handle EXCEPT ![p] =
                    FreshHandle(i, recordSize(descriptors[i], InitialSize,
                                              segment[descriptors[i].name_].size))]
               /\ Goto(p, "reallocateBlock", "start")
      BY <2>1 DEF AllocateReconnect
    <3>2. descriptors[i] \in Descriptor /\ segment[descriptors[i].name_].size \in Nat
      BY DEF TypeOK, MemoryTypeOK, Descriptor
    <3>3. recordSize(descriptors[i], InitialSize, segment[descriptors[i].name_].size)
            \in Descriptor
      BY <3>2, RecordSizeType DEF InitialSize
    <3>4. [handle[p] EXCEPT !.handle = i] \in Handle
      BY DEF TypeOK, HandleTypeOK, Handle
    <3>5. handle' = [handle EXCEPT ![p].handle = i]
            => handle' = [handle EXCEPT ![p] = [handle[p] EXCEPT !.handle = i]]
      BY DEF TypeOK, HandleTypeOK
    <3>6. [handle[p] EXCEPT !.handle = i].handle = i
      BY DEF TypeOK, HandleTypeOK, Handle
    <3>7. CASE handle' = [handle EXCEPT ![p].handle = i] /\ op' = op
                 /\ at' = [at EXCEPT ![p] = "reconstruct"]
      BY <3>4, <3>5, <3>6, <3>7, <1>o, HandleChange
    <3>8. CASE /\ handle' = [handle EXCEPT ![p] =
                    FreshHandle(i, recordSize(descriptors[i], InitialSize,
                                              segment[descriptors[i].name_].size))]
               /\ Goto(p, "reallocateBlock", "start")
      BY <3>3, <3>8, <1>o, FreshHandleType, HandleChange DEF TypeOK, Goto
    <3>9. QED BY <3>1, <3>7, <3>8
  <2>2. CASE AllocateClaim(p)
    <3>1. PICK i \in Block : /\ handle' = [handle EXCEPT ![p].handle = i]
                             /\ op' = op /\ at' = [at EXCEPT ![p] = "construct"]
      BY <2>2 DEF AllocateClaim
    <3>2. /\ [handle[p] EXCEPT !.handle = i] \in Handle
          /\ [handle[p] EXCEPT !.handle = i].handle = i
      BY DEF TypeOK, HandleTypeOK, Handle
    <3>3. handle' = [handle EXCEPT ![p] = [handle[p] EXCEPT !.handle = i]]
      BY <3>1 DEF TypeOK, HandleTypeOK
    <3>4. QED BY <3>1, <3>2, <3>3, <1>o, HandleChange
  <2>3. CASE AllocateNone(p)
    BY <2>3, <1>o, HandleFrame
       DEF AllocateNone, Return, Goto, HandleOps, Constructing
  <2>4. CASE AllocateConstruct(p)
    <3>1. PICK a \in Addresses, n \in Nat :
            handle' = [handle EXCEPT ![p] =
                         [handle |-> Blk(p), ptr |-> a, resize_count |-> n]]
      <4> DEFINE desc == descriptors[Blk(p)]
                 recorded == IF at[p] = "reconstruct"
                               THEN recordSize(desc, InitialSize, InitialSize) ELSE desc
      <4>1. Blk(p) \in Block
        BY <2>4, <1>h DEF AllocateConstruct, TypeOK, HandleTypeOK, Handle, Constructing, Blk
      <4>2. desc \in Descriptor
        BY <4>1 DEF TypeOK, MemoryTypeOK
      <4>3. recorded \in Descriptor
        BY <4>2, RecordSizeType DEF InitialSize
      <4>4. recorded.resize_count_ \in Nat
        BY <4>3 DEF Descriptor
      <4>5. \E a \in Addresses :
              handle' = [handle EXCEPT ![p] =
                [handle |-> Blk(p), ptr |-> a, resize_count |-> recorded.resize_count_]]
        BY <2>4 DEF AllocateConstruct
      <4>6. QED BY <4>4, <4>5
    <3>2. Blk(p) \in Block
      BY <2>4, <1>h DEF AllocateConstruct, TypeOK, HandleTypeOK, Handle, Constructing, Blk
    <3>3. [handle |-> Blk(p), ptr |-> a, resize_count |-> n] \in Handle
      BY <3>2 DEF Handle
    <3>4. QED
      BY <2>4, <3>1, <3>2, <3>3, <1>o, HandleChange DEF AllocateConstruct, Goto
  <2>5. CASE AllocateThrow(p)
    <3>1. NoHandle \in Handle /\ ~is_valid(NoHandle)
      BY DEF NoHandle, Handle, is_valid
    <3>2. QED
      BY <2>5, <3>1, <1>o, HandleChange
         DEF AllocateThrow, Return, Goto, HandleOps, Constructing
  <2>6. QED BY <1>3, <2>1, <2>2, <2>3, <2>4, <2>5 DEF AllocateStep
<1>4. ASSUME NEW p \in Proc, ReallocateStep(p) PROVE HandleTypeOK'
  <2>1. Blk(p) \in Block /\ descriptors[Blk(p)] \in Descriptor
    BY <1>4, BlockInRange DEF ReallocateStep, ReallocateCheck, ReallocateRefresh,
       ReallocateResize, GrowDestroy, GrowConstruct, GrowThrow, At, HandleOps,
       TypeOK, MemoryTypeOK
  <2>2. CASE ReallocateCheck(p) \/ ReallocateResize(p) \/ GrowDestroy(p)
    BY <2>1, <2>2, <1>o, HandleFrame
       DEF ReallocateCheck, ReallocateResize, GrowDestroy, Return, Goto, localVars
  <2>3. CASE ReallocateRefresh(p)
    BY <2>1, <2>3, <1>o, FreshHandleType, HandleChange DEF ReallocateRefresh, Goto, TypeOK
  <2>4. CASE GrowConstruct(p)
    <3>1. p \in Publishers /\ op[p] = "grow"
      BY <2>4 DEF GrowConstruct, At, TypeOK, ControlTypeOK, Proc, SubscriberOps,
         ManagerOps, ReleaserOps
    <3>2. msg[p].size \in Nat
      BY <3>1, DataAssumption DEF TypeOK, MessageTypeOK, Message
    <3>3. recordSize(descriptors[Blk(p)], msg[p].size, msg[p].size).resize_count_ \in Nat
      BY <2>1, <3>2, RecordSizeType DEF Descriptor
    <3>4. PICK a \in Addresses, n \in Nat :
            handle' = [handle EXCEPT ![p] =
                         [handle |-> Blk(p), ptr |-> a, resize_count |-> n]]
      BY <2>4, <3>3 DEF GrowConstruct
    <3>5. [handle |-> Blk(p), ptr |-> a, resize_count |-> n] \in Handle
      BY <2>1 DEF Handle
    <3>6. QED BY <2>1, <2>4, <3>4, <3>5, <1>o, HandleChange DEF GrowConstruct, Goto
  <2>5. CASE GrowThrow(p)
    <3>1. NoHandle \in Handle /\ ~is_valid(NoHandle)
      BY DEF NoHandle, Handle, is_valid
    <3>2. QED
      BY <2>5, <3>1, <1>o, HandleChange
         DEF GrowThrow, Return, Goto, HandleOps, Constructing
  <2>6. QED BY <1>4, <2>2, <2>3, <2>4, <2>5 DEF ReallocateStep
<1>5. ASSUME NEW p \in Proc, SerializeStep(p) PROVE HandleTypeOK'
  <2>1. op[p] \in HandleOps /\ Blk(p) # NoBlock
    BY <1>5, <1>h DEF SerializeStep, SerializeRegister, WriteStart, WriteEnd, SignalData,
       At, HandleOps
  <2>2. CASE SerializeRegister(p) \/ WriteEnd(p) \/ SignalData(p)
    BY <2>1, <2>2, <1>o, HandleFrame
       DEF SerializeRegister, WriteEnd, SignalData, Return, Goto, localVars
  <2>3. CASE WriteStart(p)
    BY <2>1, <2>3, <1>o, RefreshedType, BlockInRange, HandleChange DEF WriteStart, Goto
  <2>4. QED BY <1>5, <2>2, <2>3 DEF SerializeStep
<1>6. ASSUME NEW p \in Proc, ReceiveStep(p) PROVE HandleTypeOK'
  <2>1. CASE FindHandle(p)
    <3>1. CASE \E i \in Block : handle' = [handle EXCEPT ![p] = FreshHandle(i, descriptors[i])]
      <4>1. PICK i \in Block : handle' = [handle EXCEPT ![p] = FreshHandle(i, descriptors[i])]
        BY <3>1
      <4>2. /\ FreshHandle(i, descriptors[i]) \in Handle
            /\ FreshHandle(i, descriptors[i]).handle # NoBlock
        BY FreshHandleType DEF TypeOK, MemoryTypeOK
      <4>3. \E o, a : Goto(p, o, a)
        BY <2>1 DEF FindHandle
      <4>4. QED
        BY <4>1, <4>2, <4>3, <1>o, HandleChange DEF Goto
    <3>2. CASE handle' = [handle EXCEPT ![p] = NoHandle]
      <4>1. NoHandle \in Handle /\ ~is_valid(NoHandle)
        BY DEF NoHandle, Handle, is_valid
      <4>2. Goto(p, "idle", "start")
        BY <2>1, <3>2, <4>1 DEF FindHandle, TypeOK, HandleTypeOK
      <4>3. QED
        BY <3>2, <4>1, <4>2, <1>o, HandleChange DEF Goto, HandleOps, Constructing
    <3>3. QED BY <2>1, <3>1, <3>2 DEF FindHandle
  <2>2. ASSUME op[p] \in HandleOps PROVE Blk(p) # NoBlock
    BY <2>2, <1>h
  <2>3. CASE WaitData(p) \/ WaitTimeout(p) \/ WaitNotified(p) \/ RegisterGlobalClient(p)
    BY <2>2, <2>3, <1>o, HandleFrame DEF WaitData, WaitTimeout, WaitNotified,
       RegisterGlobalClient, At, Goto, localVars, HandleOps
  <2>4. CASE ReadStart(p)
    <3>1. op[p] \in HandleOps
      BY <2>4 DEF ReadStart, At, HandleOps
    <3>2. QED
      BY <2>2, <2>4, <3>1, <1>o, RefreshedType, BlockInRange, HandleChange DEF ReadStart, Goto
  <2>5. CASE ReadEnd(p) \/ UnregisterClient(p) \/ Callback(p)
    BY <2>2, <2>5, <1>o, HandleFrame DEF ReadEnd, UnregisterClient, Callback,
       At, Goto, localVars, HandleOps
  <2>6. QED BY <1>6, <2>1, <2>3, <2>4, <2>5 DEF ReceiveStep
<1>7. ASSUME NEW p \in Proc, ResetStep(p) PROVE HandleTypeOK'
  <2>1. CASE \/ ResetDestroy(p) \/ ResetDescriptor(p) \/ ResetEnd(p)
             \/ ResetBlockEnter(p) \/ ClearDestroy(p)
    BY <2>1, <1>h, <1>o, HandleFrame DEF ResetDestroy, ResetDescriptor, ResetEnd,
       ResetBlockEnter, ClearDestroy, At, Goto, localVars, HandleOps, Constructing
  <2>2. CASE ResetBlockClear(p)
    <3>1. NoHandle \in Handle /\ ~is_valid(NoHandle)
      BY DEF NoHandle, Handle, is_valid
    <3>2. QED
      BY <2>2, <3>1, <1>o, HandleChange DEF ResetBlockClear, Goto, HandleOps, Constructing
  <2>3. QED BY <1>7, <2>1, <2>2 DEF ResetStep
<1>8. ASSUME NEW p \in Proc,
             Initialise(p) \/ Publish(p) \/ Subscribe(p) \/ ManagerExit(p)
      PROVE  HandleTypeOK'
  <2>1. CASE Publish(p)
    <3>1. Blk(p) # NoBlock
      BY <2>1 DEF Publish, TypeOK, HandleTypeOK
    <3>2. QED BY <2>1, <3>1, <1>o, HandleFrame DEF Publish, Goto
  <2>2. CASE Initialise(p) \/ Subscribe(p) \/ ManagerExit(p)
    BY <2>2, <1>o, HandleFrame DEF Initialise, Subscribe, ManagerExit, Goto, localVars,
       HandleOps, Constructing
  <2>3. QED BY <1>8, <2>1, <2>2
<1>9. ASSUME NEW p \in Proc, Fault(p) \/ Die(p) \/ SpuriousWakeup(p)
      PROVE  HandleTypeOK'
  BY <1>9 DEF Fault, Die, SpuriousWakeup, pcVars, localVars, TypeOK, HandleTypeOK, Blk,
     Constructing
<1>10. QED
  BY <1>1, <1>2, <1>3, <1>4, <1>5, <1>6, <1>7, <1>8, <1>9, NextCases

LEMMA TypeNext == TypeOK /\ [Next]_vars => TypeOK'
  BY ControlTypeNext, MonitorTypeNext, MemoryTypeNext, MessageTypeNext, HandleTypeNext
     DEF TypeOK

(* Every variable keeps the type the code gives it, for any number of        *)
(* processes and whatever fails.                                             *)
THEOREM TypeCorrect == Spec => []TypeOK
<1>1. Init => TypeOK
  BY TypeInit
<1>2. TypeOK /\ [Next]_vars => TypeOK'
  BY TypeNext
<1>3. QED BY <1>1, <1>2, PTL DEF Spec

-----------------------------------------------------------------------------
(* The client counts *)

LEMMA ClientsFinite ==
  /\ IsFiniteSet(GlobalClients) /\ IsFiniteSet(GlobalClients')
  /\ \A b \in Block : IsFiniteSet(BlockClients(b)) /\ IsFiniteSet(BlockClients(b)')
<1>1. \A S \in SUBSET Proc : IsFiniteSet(S)
  BY FS_Subset, ProcessAssumption
<1>2. /\ GlobalClients \subseteq Proc /\ GlobalClients' \subseteq Proc
      /\ \A b \in Block : BlockClients(b) \subseteq Proc /\ BlockClients(b)' \subseteq Proc
  BY DEF GlobalClients, BlockClients, Proc
<1>3. QED BY <1>1, <1>2

(* A registration makes its caller a client, an unregistration unmakes it,   *)
(* and the count moves with the set.                                         *)
LEMMA CountUp ==
  ASSUME NEW S, IsFiniteSet(S), NEW p, p \notin S
  PROVE  Cardinality(S \cup {p}) = Cardinality(S) + 1
  BY FS_AddElement

LEMMA CountDown ==
  ASSUME NEW S, IsFiniteSet(S), NEW p \in S
  PROVE  Cardinality(S \ {p}) = Cardinality(S) - 1
  BY FS_RemoveElement

LEMMA ClientsInit == Init => ClientsCounted
<1> SUFFICES ASSUME Init PROVE ClientsCounted
  OBVIOUS
<1>1. GlobalClients = {} /\ \A b \in Block : BlockClients(b) = {}
  BY DEF Init, GlobalClients, BlockClients, Proc
<1>2. QED BY <1>1, FS_EmptySet DEF Init, ClientsCounted

(* A step of p that moves it from one method to another, neither or both of  *)
(* them under a registration, and that keeps its block while it is           *)
(* registered there.                                                         *)
LEMMA ClientsFrame ==
  ASSUME TypeOK, ClientsCounted, NEW p \in Proc,
         num_clients' = num_clients, block_clients' = block_clients,
         \A q \in Proc \ {p} : op'[q] = op[q] /\ handle'[q] = handle[q],
         op[p] \in {"write", "read", "unregister", "overrun"}
           <=> op'[p] \in {"write", "read", "unregister", "overrun"},
         op[p] \in {"register", "read", "unregister", "unregister_client", "overrun"}
           <=> op'[p] \in {"register", "read", "unregister", "unregister_client", "overrun"},
         p \in Subscribers
           /\ op[p] \in {"register", "read", "unregister", "unregister_client", "overrun"}
           => Blk(p)' = Blk(p)
  PROVE  ClientsCounted'
<1>1. GlobalClients' = GlobalClients
  BY DEF GlobalClients
<1>2. \A b \in Block : BlockClients(b)' = BlockClients(b)
  BY DEF BlockClients, Proc, Blk
<1>3. QED BY <1>1, <1>2 DEF ClientsCounted

LEMMA ClientsNext == ASSUME TypeOK, ClientsCounted, [Next]_vars PROVE ClientsCounted'
<1>o. /\ op \in [Proc -> PublisherOps \cup SubscriberOps \cup ManagerOps \cup ReleaserOps]
      /\ handle \in [Proc -> Handle]
      /\ \A p \in Publishers : op[p] \in PublisherOps
      /\ \A s \in Subscribers : op[s] \in SubscriberOps
      /\ \A m \in Managers : op[m] \in ManagerOps
      /\ \A r \in Releasers : op[r] \in ReleaserOps
  BY DEF TypeOK, ControlTypeOK, HandleTypeOK
<1>1. CASE UNCHANGED vars
  <2>1. /\ GlobalClients' = GlobalClients /\ num_clients' = num_clients
        /\ block_clients' = block_clients
        /\ \A b \in Block : BlockClients(b)' = BlockClients(b)
    BY <1>1 DEF vars, pcVars, globalVars, blockVars, localVars, GlobalClients,
       BlockClients, Blk
  <2>2. QED BY <2>1 DEF ClientsCounted
<1>2. ASSUME NEW p \in Proc, LockStep(p) PROVE ClientsCounted'
  <2>1. CASE LockGlobal(p) \/ RelockGlobal(p) \/ LockBlock(p) \/ RelockBlock(p)
    BY <2>1, ClientsFrame DEF LockGlobal, RelockGlobal, LockBlock, RelockBlock,
       globalVars, blockVars, localVars, Blk
  <2>2. CASE UnregisterGlobalClient(p)
    <3>1. GlobalClients' = GlobalClients \ {p} /\ p \in GlobalClients
      BY <2>2, <1>o DEF UnregisterGlobalClient, Goto, GlobalClients
    <3>2. \A b \in Block : BlockClients(b)' = BlockClients(b)
      BY <2>2, <1>o, ProcessAssumption DEF UnregisterGlobalClient, Goto, BlockClients, Blk, localVars, Proc
    <3>3. num_clients' = num_clients - 1 /\ block_clients' = block_clients
      BY <2>2 DEF UnregisterGlobalClient, blockVars
    <3>4. QED BY <3>1, <3>2, <3>3, CountDown, ClientsFinite DEF ClientsCounted
  <2>3. QED BY <1>2, <2>1, <2>2 DEF LockStep
<1>3. ASSUME NEW p \in Proc, AllocateStep(p) PROVE ClientsCounted'
  <2>1. /\ op[p] = "allocateBlock"
        /\ num_clients' = num_clients /\ block_clients' = block_clients
        /\ \E h : handle' = [handle EXCEPT ![p] = h]
        /\ \E o \in {"allocateBlock", "reallocateBlock", "idle"} :
             op' = [op EXCEPT ![p] = o]
    <3>1. CASE AllocateReconnect(p)
      BY <3>1, <1>o DEF AllocateReconnect, At, Goto, blockVars
    <3>2. CASE AllocateClaim(p)
      BY <3>2, <1>o DEF AllocateClaim, At, globalVars, blockVars
    <3>3. CASE AllocateNone(p)
      BY <3>3, <1>o DEF AllocateNone, At, Return, Goto, blockVars
    <3>4. CASE AllocateConstruct(p)
      BY <3>4, <1>o DEF AllocateConstruct, Goto, blockVars
    <3>5. CASE AllocateThrow(p)
      BY <3>5, <1>o DEF AllocateThrow, Return, Goto, blockVars
    <3>6. QED BY <1>3, <3>1, <3>2, <3>3, <3>4, <3>5 DEF AllocateStep
  <2>2. QED BY <2>1, <1>o, ClientsFrame
<1>4. ASSUME NEW p \in Proc, ReallocateStep(p) PROVE ClientsCounted'
  <2>1. /\ op[p] \in {"reallocateBlock", "refresh", "resize", "grow"}
        /\ num_clients' = num_clients /\ block_clients' = block_clients
        /\ \E h : handle' = [handle EXCEPT ![p] = h]
        /\ \E o \in {"refresh", "resize", "grow", "serialize", "idle"} :
             op' = [op EXCEPT ![p] = o]
    <3>1. CASE ReallocateCheck(p)
      BY <3>1, <1>o DEF ReallocateCheck, At, Goto, globalVars, blockVars, localVars
    <3>2. CASE ReallocateRefresh(p)
      BY <3>2, <1>o DEF ReallocateRefresh, At, Goto, blockVars
    <3>3. CASE ReallocateResize(p)
      BY <3>3, <1>o DEF ReallocateResize, At, Return, Goto, globalVars
    <3>4. CASE GrowDestroy(p)
      BY <3>4, <1>o DEF GrowDestroy, At, globalVars, blockVars
    <3>5. CASE GrowConstruct(p)
      BY <3>5, <1>o DEF GrowConstruct, At, Goto
    <3>6. CASE GrowThrow(p)
      BY <3>6, <1>o DEF GrowThrow, At, Return, Goto
    <3>7. QED BY <1>4, <3>1, <3>2, <3>3, <3>4, <3>5, <3>6 DEF ReallocateStep
  <2>2. QED BY <2>1, <1>o, ClientsFrame
<1>5. ASSUME NEW p \in Proc, SerializeStep(p) PROVE ClientsCounted'
  <2>0. op[p] \in {"serialize", "write", "signal"} /\ p \notin Subscribers
    BY <1>5, <1>o DEF SerializeStep, SerializeRegister, WriteStart, WriteEnd, SignalData,
       At, SubscriberOps
  <2>1. CASE SerializeRegister(p)
    <3>1. GlobalClients' = GlobalClients \cup {p} /\ p \notin GlobalClients
      BY <2>1, <1>o DEF SerializeRegister, At, Goto, GlobalClients
    <3>2. \A b \in Block : BlockClients(b)' = BlockClients(b)
      BY <2>0, <2>1, <1>o DEF SerializeRegister, Goto, BlockClients, Blk, localVars
    <3>3. num_clients' = num_clients + 1 /\ block_clients' = block_clients
      BY <2>1 DEF SerializeRegister, blockVars
    <3>4. QED BY <3>1, <3>2, <3>3, CountUp, ClientsFinite DEF ClientsCounted
  <2>2. CASE WriteStart(p) \/ WriteEnd(p) \/ SignalData(p)
    <3>1. /\ num_clients' = num_clients /\ block_clients' = block_clients
          /\ \E h : handle' = [handle EXCEPT ![p] = h]
          /\ \/ /\ op[p] = "write"
                /\ \E o \in {"write", "unregister", "overrun"} : op' = [op EXCEPT ![p] = o]
             \/ op[p] = "signal" /\ op' = [op EXCEPT ![p] = "idle"]
      <4>1. CASE WriteStart(p)
        BY <4>1, <1>o DEF WriteStart, At, Goto, globalVars
      <4>2. CASE WriteEnd(p)
        BY <4>2, <1>o DEF WriteEnd, At, Goto, globalVars, blockVars
      <4>3. CASE SignalData(p)
        BY <4>3, <1>o DEF SignalData, Return, Goto, globalVars
      <4>4. QED BY <2>2, <4>1, <4>2, <4>3
    <3>2. CASE op[p] = "write" /\ \E o \in {"write", "unregister", "overrun"} :
                                    op' = [op EXCEPT ![p] = o]
      <4>1. GlobalClients' = GlobalClients
        BY <3>2, <1>o DEF GlobalClients
      <4>2. \A b \in Block : BlockClients(b)' = BlockClients(b)
        BY <2>0, <3>1, <3>2, <1>o DEF BlockClients, Blk, Proc
      <4>3. QED BY <3>1, <4>1, <4>2 DEF ClientsCounted
    <3>3. CASE op[p] = "signal" /\ op' = [op EXCEPT ![p] = "idle"]
      BY <3>1, <3>3, <1>o, ClientsFrame
    <3>4. QED BY <3>1, <3>2, <3>3
  <2>3. QED BY <1>5, <2>1, <2>2 DEF SerializeStep
<1>6. ASSUME NEW p \in Proc, ReceiveStep(p) PROVE ClientsCounted'
  <2>1. CASE FindHandle(p)
    <3>1. /\ op[p] = "findHandle"
          /\ num_clients' = num_clients /\ block_clients' = block_clients
          /\ \E h : handle' = [handle EXCEPT ![p] = h]
          /\ \E o \in {"wait_data", "resetBlock", "idle"} : op' = [op EXCEPT ![p] = o]
      BY <2>1, <1>o DEF FindHandle, At, Goto, blockVars
    <3>2. QED BY <3>1, <1>o, ClientsFrame
  <2>2. CASE WaitData(p) \/ WaitTimeout(p) \/ Callback(p)
    <3>1. /\ num_clients' = num_clients /\ block_clients' = block_clients
          /\ handle' = handle
          /\ op[p] \in {"wait_data", "callback"}
          /\ \E o \in {"wait_data"} : op' = [op EXCEPT ![p] = o]
      BY <2>2, <1>o DEF WaitData, WaitTimeout, Callback, At, Goto, globalVars,
         blockVars, localVars
    <3>2. QED BY <3>1, <1>o, ClientsFrame
  <2>3. CASE WaitNotified(p)
    <3>1. Blk(p) \in Block /\ p \in Subscribers
      BY <2>3, <1>o, BlockInRange DEF WaitNotified, At, HandleOps, PublisherOps,
         ManagerOps, ReleaserOps, Proc
    <3>2. GlobalClients' = GlobalClients
      BY <2>3, <1>o DEF WaitNotified, At, Goto, GlobalClients
    <3>3. \A b \in Block \ {Blk(p)} : BlockClients(b)' = BlockClients(b)
      BY <2>3, <1>o DEF WaitNotified, At, Goto, BlockClients, Blk, localVars, Proc
    <3>4. /\ BlockClients(Blk(p))' = BlockClients(Blk(p)) \cup {p}
          /\ p \notin BlockClients(Blk(p))
      BY <2>3, <3>1, <1>o DEF WaitNotified, At, Goto, BlockClients, Blk, localVars, Proc
    <3>5. /\ num_clients' = num_clients
          /\ block_clients' = [block_clients EXCEPT ![Blk(p)] = @ + 1]
      BY <2>3 DEF WaitNotified, globalVars
    <3>6. block_clients'[Blk(p)] = Cardinality(BlockClients(Blk(p))')
      <4>1. block_clients'[Blk(p)] = block_clients[Blk(p)] + 1
        BY <3>1, <3>5 DEF TypeOK, MonitorTypeOK
      <4>2. QED BY <3>1, <3>4, <4>1, CountUp, ClientsFinite DEF ClientsCounted
    <3>7. \A b \in Block \ {Blk(p)} : block_clients'[b] = block_clients[b]
      BY <3>5 DEF TypeOK, MonitorTypeOK
    <3>8. num_clients' = Cardinality(GlobalClients')
      BY <3>2, <3>5 DEF ClientsCounted
    <3>9. ASSUME NEW b \in Block
          PROVE  block_clients'[b] = Cardinality(BlockClients(b)')
      <4>1. CASE b = Blk(p)
        <5>1. Blk(p)' = b
          BY <4>1, <2>3 DEF WaitNotified, localVars, Blk
        <5>2. BlockClients(Blk(p))' = BlockClients(b)'
          BY <5>1 DEF BlockClients
        <5>3. QED BY <4>1, <5>2, <3>6
      <4>2. CASE b # Blk(p)
        <5>1. b \in Block \ {Blk(p)}
          BY <4>2
        <5>2. block_clients'[b] = block_clients[b] /\ BlockClients(b)' = BlockClients(b)
          BY <5>1, <3>3, <3>7
        <5>3. QED BY <5>2 DEF ClientsCounted
      <4>3. QED BY <4>1, <4>2
    <3>10. QED BY <3>8, <3>9 DEF ClientsCounted
  <2>4. CASE RegisterGlobalClient(p)
    <3>1. GlobalClients' = GlobalClients \cup {p} /\ p \notin GlobalClients
      BY <2>4, <1>o DEF RegisterGlobalClient, Goto, GlobalClients
    <3>2. \A b \in Block : BlockClients(b)' = BlockClients(b)
      BY <2>4, <1>o DEF RegisterGlobalClient, Goto, BlockClients, Blk, localVars, Proc
    <3>3. num_clients' = num_clients + 1 /\ block_clients' = block_clients
      BY <2>4 DEF RegisterGlobalClient
    <3>4. QED BY <3>1, <3>2, <3>3, CountUp, ClientsFinite DEF ClientsCounted
  <2>5. CASE ReadStart(p) \/ ReadEnd(p)
    <3>1. /\ num_clients' = num_clients /\ block_clients' = block_clients
          /\ op[p] = "read"
          /\ \E o \in {"read", "unregister", "overrun"} : op' = [op EXCEPT ![p] = o]
          /\ \E h : handle' = [handle EXCEPT ![p] = h] /\ h.handle = Blk(p)
      <4>1. CASE ReadStart(p)
        BY <4>1, <1>o, RefreshedType DEF ReadStart, At, Goto, globalVars, blockVars, HandleOps
      <4>2. CASE ReadEnd(p)
        <5>1. handle' = [handle EXCEPT ![p] = handle[p]]
          BY <4>2, <1>o DEF ReadEnd, localVars
        <5>2. QED BY <4>2, <5>1, <1>o DEF ReadEnd, At, Goto, globalVars, blockVars, Blk
      <4>3. QED BY <2>5, <4>1, <4>2
    <3>2. GlobalClients' = GlobalClients
      BY <3>1, <1>o DEF GlobalClients
    <3>3. \A b \in Block : BlockClients(b)' = BlockClients(b)
      BY <3>1, <1>o DEF BlockClients, Blk, Proc
    <3>4. QED BY <3>1, <3>2, <3>3 DEF ClientsCounted
  <2>6. CASE UnregisterClient(p)
    <3>1. Blk(p) \in Block /\ p \in Subscribers
      BY <2>6, <1>o, BlockInRange DEF UnregisterClient, HandleOps, PublisherOps,
         ManagerOps, ReleaserOps, Proc
    <3>2. GlobalClients' = GlobalClients
      BY <2>6, <1>o DEF UnregisterClient, Goto, GlobalClients
    <3>3. \A b \in Block \ {Blk(p)} : BlockClients(b)' = BlockClients(b)
      BY <2>6, <1>o DEF UnregisterClient, Goto, BlockClients, Blk, localVars, Proc
    <3>4. /\ BlockClients(Blk(p))' = BlockClients(Blk(p)) \ {p}
          /\ p \in BlockClients(Blk(p))
      BY <2>6, <3>1, <1>o DEF UnregisterClient, Goto, BlockClients, Blk, localVars, Proc
    <3>5. /\ num_clients' = num_clients
          /\ block_clients' = [block_clients EXCEPT ![Blk(p)] = @ - 1]
      BY <2>6 DEF UnregisterClient, globalVars
    <3>6. block_clients'[Blk(p)] = Cardinality(BlockClients(Blk(p))')
      <4>1. block_clients'[Blk(p)] = block_clients[Blk(p)] - 1
        BY <3>1, <3>5 DEF TypeOK, MonitorTypeOK
      <4>2. QED BY <3>1, <3>4, <4>1, CountDown, ClientsFinite DEF ClientsCounted
    <3>7. \A b \in Block \ {Blk(p)} : block_clients'[b] = block_clients[b]
      BY <3>5 DEF TypeOK, MonitorTypeOK
    <3>8. num_clients' = Cardinality(GlobalClients')
      BY <3>2, <3>5 DEF ClientsCounted
    <3>9. ASSUME NEW b \in Block
          PROVE  block_clients'[b] = Cardinality(BlockClients(b)')
      <4>1. CASE b = Blk(p)
        <5>1. Blk(p)' = b
          BY <4>1, <2>6 DEF UnregisterClient, localVars, Blk
        <5>2. BlockClients(Blk(p))' = BlockClients(b)'
          BY <5>1 DEF BlockClients
        <5>3. QED BY <4>1, <5>2, <3>6
      <4>2. CASE b # Blk(p)
        <5>1. b \in Block \ {Blk(p)}
          BY <4>2
        <5>2. block_clients'[b] = block_clients[b] /\ BlockClients(b)' = BlockClients(b)
          BY <5>1, <3>3, <3>7
        <5>3. QED BY <5>2 DEF ClientsCounted
      <4>3. QED BY <4>1, <4>2
    <3>10. QED BY <3>8, <3>9 DEF ClientsCounted
  <2>7. QED BY <1>6, <2>1, <2>2, <2>3, <2>4, <2>5, <2>6 DEF ReceiveStep
<1>7. ASSUME NEW p \in Proc, ResetStep(p) PROVE ClientsCounted'
  <2>1. /\ op[p] \in {"resetAllBlocks", "resetBlock", "clear"}
        /\ num_clients' = num_clients /\ block_clients' = block_clients
        /\ \E o \in {"resetAllBlocks", "exited", "clear", "idle"} : op' = [op EXCEPT ![p] = o]
        /\ \A q \in Proc \ {p} : handle'[q] = handle[q]
    BY <1>7, <1>o DEF ResetStep, ResetDestroy, ResetDescriptor, ResetEnd, ResetBlockEnter,
       ClearDestroy, ResetBlockClear, At, Goto, globalVars, blockVars, localVars
  <2>2. QED BY <2>1, <1>o, ClientsFrame
<1>8. ASSUME NEW p \in Proc,
             Initialise(p) \/ Publish(p) \/ Subscribe(p) \/ ManagerExit(p)
      PROVE  ClientsCounted'
  <2>1. /\ op[p] \in {"new", "idle"}
        /\ num_clients' = num_clients /\ block_clients' = block_clients
        /\ \E o \in {"allocateBlock", "idle", "reallocateBlock", "findHandle",
                     "resetAllBlocks"} : op' = [op EXCEPT ![p] = o]
        /\ handle' = handle
    BY <1>8, <1>o DEF Initialise, Publish, Subscribe, ManagerExit, Goto, globalVars,
       blockVars, localVars
  <2>2. QED BY <2>1, <1>o, ClientsFrame
<1>9. ASSUME NEW p \in Proc, Fault(p) \/ Die(p) \/ SpuriousWakeup(p)
      PROVE  ClientsCounted'
  BY <1>9, ClientsFrame DEF Fault, Die, SpuriousWakeup, pcVars, globalVars, blockVars,
     localVars, Blk
<1>10. QED
  BY <1>1, <1>2, <1>3, <1>4, <1>5, <1>6, <1>7, <1>8, <1>9, NextCases

(* The assertions num_clients >= 0 never fail, and a count is zero exactly   *)
(* when nobody is registered, for any number of processes and whatever       *)
(* overruns, crashes, resets and failed allocations there are.               *)
THEOREM CountsCorrect == Spec => []ClientsCounted
<1>1. Init => TypeOK /\ ClientsCounted
  BY TypeInit, ClientsInit
<1>2. TypeOK /\ ClientsCounted /\ [Next]_vars => (TypeOK /\ ClientsCounted)'
  BY TypeNext, ClientsNext
<1>3. QED BY <1>1, <1>2, PTL DEF Spec

-----------------------------------------------------------------------------
(* Wakeups *)

LEMMA CountsNatural ==
  ASSUME TypeOK, ClientsCounted
  PROVE  num_clients \in Nat /\ block_clients \in [Block -> Nat]
<1>1. \A b \in Block : block_clients[b] \in Nat
  BY ClientsFinite, FS_CardinalityType DEF ClientsCounted
<1>2. num_clients \in Nat
  BY ClientsFinite, FS_CardinalityType DEF ClientsCounted
<1>3. QED BY <1>1, <1>2 DEF TypeOK, MonitorTypeOK

LEMMA WakeupNext ==
  ASSUME TypeOK, ClientsCounted, NoLostWakeup, [Next]_vars PROVE NoLostWakeup'
<1>t. /\ num_clients \in Nat /\ block_clients \in [Block -> Nat]
      /\ lockcond \in [Block -> SUBSET Proc]
  BY CountsNatural DEF TypeOK, MonitorTypeOK
<1>f. ASSUME cond' = cond, num_clients' = num_clients,
             lockcond' = lockcond, block_clients' = block_clients
      PROVE  NoLostWakeup'
  BY <1>f DEF NoLostWakeup
<1>1. CASE UNCHANGED vars
  BY <1>1, <1>f DEF vars, globalVars, blockVars
<1>2. ASSUME NEW p \in Proc, LockStep(p) PROVE NoLostWakeup'
  <2>1. CASE LockGlobal(p) \/ RelockGlobal(p)
    BY <2>1 DEF LockGlobal, RelockGlobal, blockVars, NoLostWakeup
  <2>2. CASE LockBlock(p) \/ RelockBlock(p)
    BY <2>2, <1>t DEF LockBlock, RelockBlock, globalVars, NoLostWakeup
  <2>3. CASE UnregisterGlobalClient(p)
    BY <2>3 DEF UnregisterGlobalClient, blockVars, NoLostWakeup
  <2>4. QED BY <1>2, <2>1, <2>2, <2>3 DEF LockStep
<1>3. ASSUME NEW p \in Proc, AllocateStep(p) PROVE NoLostWakeup'
  BY <1>3, <1>f DEF AllocateStep, AllocateReconnect, AllocateClaim, AllocateNone,
     AllocateConstruct, AllocateThrow, globalVars, blockVars
<1>4. ASSUME NEW p \in Proc, ReallocateStep(p) PROVE NoLostWakeup'
  BY <1>4, <1>f DEF ReallocateStep, ReallocateCheck, ReallocateRefresh, ReallocateResize,
     GrowDestroy, GrowConstruct, GrowThrow, globalVars, blockVars
<1>5. ASSUME NEW p \in Proc, SerializeStep(p) PROVE NoLostWakeup'
  <2>1. CASE SerializeRegister(p)
    BY <2>1, <1>t DEF SerializeRegister, blockVars, NoLostWakeup
  <2>2. CASE WriteStart(p) \/ WriteEnd(p) \/ SignalData(p)
    BY <2>2, <1>f DEF WriteStart, WriteEnd, SignalData, globalVars, blockVars
  <2>3. QED BY <1>5, <2>1, <2>2 DEF SerializeStep
<1>6. ASSUME NEW p \in Proc, ReceiveStep(p) PROVE NoLostWakeup'
  <2>1. CASE WaitNotified(p)
    <3>1. \A b \in Block : block_clients'[b] = 0 => block_clients[b] = 0
      BY <2>1, <1>t DEF WaitNotified
    <3>2. QED BY <2>1, <3>1 DEF WaitNotified, globalVars, NoLostWakeup
  <2>2. CASE RegisterGlobalClient(p)
    BY <2>2, <1>t DEF RegisterGlobalClient, NoLostWakeup
  <2>3. CASE UnregisterClient(p)
    <3>1. \A b \in Block \ {Blk(p)} :
            lockcond'[b] = lockcond[b] /\ block_clients'[b] = block_clients[b]
      BY <2>3, <1>t DEF UnregisterClient
    <3>2. Blk(p) \in Block /\ block_clients'[Blk(p)] = 0 => lockcond'[Blk(p)] = {}
      BY <2>3, <1>t DEF UnregisterClient
    <3>3. cond' = cond /\ num_clients' = num_clients
      BY <2>3 DEF UnregisterClient, globalVars
    <3>4. \A b \in Block : lockcond'[b] # {} => block_clients'[b] # 0
      BY <3>1, <3>2 DEF NoLostWakeup
    <3>5. QED BY <3>3, <3>4 DEF NoLostWakeup
  <2>4. CASE FindHandle(p) \/ WaitData(p) \/ WaitTimeout(p) \/ ReadStart(p)
               \/ ReadEnd(p) \/ Callback(p)
    BY <2>4, <1>f DEF FindHandle, WaitData, WaitTimeout, ReadStart, ReadEnd, Callback,
       globalVars, blockVars
  <2>5. QED BY <1>6, <2>1, <2>2, <2>3, <2>4 DEF ReceiveStep
<1>7. ASSUME NEW p \in Proc, ResetStep(p) PROVE NoLostWakeup'
  BY <1>7, <1>f DEF ResetStep, ResetDestroy, ResetDescriptor, ResetEnd, ResetBlockEnter,
     ClearDestroy, ResetBlockClear, globalVars, blockVars
<1>8. ASSUME NEW p \in Proc,
             Initialise(p) \/ Publish(p) \/ Subscribe(p) \/ ManagerExit(p)
               \/ Fault(p) \/ Die(p)
      PROVE  NoLostWakeup'
  BY <1>8, <1>f DEF Initialise, Publish, Subscribe, ManagerExit, Fault, Die,
     globalVars, blockVars
<1>9. ASSUME NEW p \in Proc, SpuriousWakeup(p) PROVE NoLostWakeup'
  BY <1>9, <1>t DEF SpuriousWakeup, NoLostWakeup
<1>10. QED
  BY <1>1, <1>2, <1>3, <1>4, <1>5, <1>6, <1>7, <1>8, <1>9, NextCases

(* Whoever waits in check_global_clients or check_clients has a registered   *)
(* client left to wake it, for any number of processes and whatever fails.   *)
THEOREM WakeupsKept == Spec => []NoLostWakeup
<1>1. Init => TypeOK /\ ClientsCounted /\ NoLostWakeup
  BY TypeInit, ClientsInit DEF Init, NoLostWakeup
<1>2. TypeOK /\ ClientsCounted /\ NoLostWakeup /\ [Next]_vars
        => (TypeOK /\ ClientsCounted /\ NoLostWakeup)'
  BY TypeNext, ClientsNext, WakeupNext
<1>3. QED BY <1>1, <1>2, PTL DEF Spec

-----------------------------------------------------------------------------
(* Blocks and topics *)

(* recordSize keeps the topic and the activity of a descriptor.              *)
LEMMA RecordSizeKeeps ==
  ASSUME NEW desc \in Descriptor, NEW newsize \in Nat, NEW alloc \in Nat
  PROVE  /\ recordSize(desc, newsize, alloc).active_ = desc.active_
         /\ recordSize(desc, newsize, alloc).name_ = desc.name_
  BY DEF Descriptor, recordSize

(* A step after which every active descriptor was active before with the     *)
(* same topic gives no topic a second block.                                 *)
LEMMA OneBlockFrame ==
  ASSUME OneBlockPerTopic,
         \A b \in Block : descriptors'[b].active_
           => descriptors[b].active_ /\ descriptors'[b].name_ = descriptors[b].name_
  PROVE  OneBlockPerTopic'
  BY DEF OneBlockPerTopic

LEMMA OneBlockNext ==
  ASSUME TypeOK, OneBlockPerTopic, [Next]_vars PROVE OneBlockPerTopic'
<1>t. /\ descriptors \in [Block -> Descriptor]
      /\ segment \in [Names -> [ptr : Addresses \cup {NULL}, size : Nat]]
  BY DEF TypeOK, MemoryTypeOK
<1>f. ASSUME descriptors' = descriptors PROVE OneBlockPerTopic'
  BY <1>f, OneBlockFrame
<1>r. ASSUME NEW b \in Block, NEW newsize \in Nat, NEW alloc \in Nat,
             descriptors' = [descriptors EXCEPT ![b] = recordSize(@, newsize, alloc)]
      PROVE  OneBlockPerTopic'
  BY <1>r, <1>t, RecordSizeKeeps, OneBlockFrame
<1>c. ASSUME NEW b \in Block,
             descriptors' = [descriptors EXCEPT ![b] = reset(@)]
      PROVE  OneBlockPerTopic'
  <2>1. ~descriptors'[b].active_
    BY <1>c, <1>t DEF reset, Descriptor
  <2>2. QED BY <1>c, <1>t, <2>1, OneBlockFrame
<1>n. InitialSize \in Nat
  BY DEF InitialSize
<1>1. CASE UNCHANGED vars
  BY <1>1, <1>f DEF vars, memVars
<1>2. ASSUME NEW p \in Proc, LockStep(p) PROVE OneBlockPerTopic'
  BY <1>2, <1>f DEF LockStep, LockGlobal, RelockGlobal, LockBlock, RelockBlock,
     UnregisterGlobalClient, memVars
<1>3. ASSUME NEW p \in Proc, AllocateStep(p) PROVE OneBlockPerTopic'
  <2>1. CASE AllocateReconnect(p)
    <3>1. \/ descriptors' = descriptors
          \/ \E i \in Block : descriptors' = [descriptors EXCEPT ![i] =
               recordSize(descriptors[i], InitialSize, segment[descriptors[i].name_].size)]
      BY <2>1 DEF AllocateReconnect
    <3>2. \A i \in Block : segment[descriptors[i].name_].size \in Nat
      BY <1>t DEF Descriptor
    <3>3. QED BY <3>1, <3>2, <1>f, <1>r, <1>n
  <2>2. CASE AllocateClaim(p)
    <3>1. p \in Publishers
      BY <2>2 DEF AllocateClaim, At, TypeOK, ControlTypeOK, SubscriberOps, ManagerOps,
         ReleaserOps, Proc
    <3>2. PICK i \in Block : descriptors' = [descriptors EXCEPT ![i] =
            recordSize(allocate(descriptors[i], Topic[p]), InitialSize, InitialSize)]
      BY <2>2 DEF AllocateClaim
    <3>3. Topic[p] \in Topics
      BY <3>1, DataAssumption
    <3>4. /\ descriptors'[i].name_ = Topic[p]
          /\ \A b \in Block \ {i} : descriptors'[b] = descriptors[b]
      <4>1. allocate(descriptors[i], Topic[p]) \in Descriptor
        BY <3>3, <1>t, DescriptorType
      <4>2. allocate(descriptors[i], Topic[p]).name_ = Topic[p]
        BY <1>t DEF allocate, Descriptor
      <4>3. QED BY <3>2, <4>1, <4>2, <1>t, <1>n, RecordSizeKeeps
    <3>5. \A b \in Block \ {i} : descriptors[b].active_ => descriptors[b].name_ # Topic[p]
      BY <2>2 DEF AllocateClaim, Matching, matchName
    <3>6. QED BY <3>4, <3>5 DEF OneBlockPerTopic
  <2>3. CASE AllocateConstruct(p)
    <3>1. Blk(p) \in Block
      BY <2>3, <1>t DEF AllocateConstruct, TypeOK, HandleTypeOK, Handle, Blk, Constructing
    <3>2. descriptors' = descriptors \/
          descriptors' = [descriptors EXCEPT ![Blk(p)] =
                            recordSize(descriptors[Blk(p)], InitialSize, InitialSize)]
      BY <2>3, <1>t, <3>1 DEF AllocateConstruct
    <3>3. QED BY <3>1, <3>2, <1>f, <1>r, <1>n
  <2>4. CASE AllocateNone(p) \/ AllocateThrow(p)
    BY <2>4, <1>f DEF AllocateNone, AllocateThrow, memVars
  <2>5. QED BY <1>3, <2>1, <2>2, <2>3, <2>4 DEF AllocateStep
<1>4. ASSUME NEW p \in Proc, ReallocateStep(p) PROVE OneBlockPerTopic'
  <2>0. /\ Blk(p) \in Block
        /\ p \in Publishers /\ msg[p].size \in Nat
    <3>1. op[p] \in {"reallocateBlock", "refresh", "resize", "grow"}
      BY <1>4 DEF ReallocateStep, ReallocateCheck, ReallocateRefresh, ReallocateResize,
         GrowDestroy, GrowConstruct, GrowThrow, At
    <3>2. p \in Publishers
      BY <3>1 DEF TypeOK, ControlTypeOK, SubscriberOps, ManagerOps, ReleaserOps, Proc
    <3>3. msg[p] \in Message
      BY <3>1, <3>2 DEF TypeOK, MessageTypeOK
    <3>4. QED BY <3>1, <3>2, <3>3, BlockInRange, DataAssumption DEF Message, HandleOps
  <2>1. CASE ReallocateResize(p)
    BY <2>0, <2>1, <1>f, <1>r DEF ReallocateResize
  <2>2. CASE GrowConstruct(p)
    BY <2>0, <2>2, <1>r DEF GrowConstruct
  <2>3. CASE GrowThrow(p)
    BY <2>0, <2>3, <1>c DEF GrowThrow
  <2>4. CASE ReallocateCheck(p) \/ ReallocateRefresh(p) \/ GrowDestroy(p)
    BY <2>4, <1>f DEF ReallocateCheck, ReallocateRefresh, GrowDestroy, memVars
  <2>5. QED BY <1>4, <2>1, <2>2, <2>3, <2>4 DEF ReallocateStep
<1>5. ASSUME NEW p \in Proc, SerializeStep(p) PROVE OneBlockPerTopic'
  BY <1>5, <1>f DEF SerializeStep, SerializeRegister, WriteStart, WriteEnd, SignalData,
     memVars
<1>6. ASSUME NEW p \in Proc, ReceiveStep(p) PROVE OneBlockPerTopic'
  BY <1>6, <1>f DEF ReceiveStep, FindHandle, WaitData, WaitTimeout, WaitNotified,
     RegisterGlobalClient, ReadStart, ReadEnd, UnregisterClient, Callback, memVars
<1>7. ASSUME NEW p \in Proc, ResetStep(p) PROVE OneBlockPerTopic'
  <2>1. CASE ResetDescriptor(p)
    BY <2>1, <1>c DEF ResetDescriptor
  <2>2. CASE ResetBlockClear(p)
    <3>1. Blk(p) \in Block
      BY <2>2, BlockInRange DEF ResetBlockClear, At, HandleOps
    <3>2. QED BY <2>2, <3>1, <1>c DEF ResetBlockClear
  <2>3. CASE ResetDestroy(p) \/ ResetEnd(p) \/ ResetBlockEnter(p) \/ ClearDestroy(p)
    BY <2>3, <1>f DEF ResetDestroy, ResetEnd, ResetBlockEnter, ClearDestroy, memVars
  <2>4. QED BY <1>7, <2>1, <2>2, <2>3 DEF ResetStep
<1>8. ASSUME NEW p \in Proc,
             Initialise(p) \/ Publish(p) \/ Subscribe(p) \/ ManagerExit(p)
               \/ Fault(p) \/ Die(p) \/ SpuriousWakeup(p)
      PROVE  OneBlockPerTopic'
  BY <1>8, <1>f DEF Initialise, Publish, Subscribe, ManagerExit, Fault, Die,
     SpuriousWakeup, memVars
<1>9. QED
  BY <1>1, <1>2, <1>3, <1>4, <1>5, <1>6, <1>7, <1>8, NextCases

(* No topic ever has two blocks, however many publishers initialise it at    *)
(* the same time, and whatever fails.                                        *)
THEOREM BlocksUnique == Spec => []OneBlockPerTopic
<1>1. Init => TypeOK /\ OneBlockPerTopic
  BY TypeInit DEF Init, OneBlockPerTopic, EmptyDescriptor
<1>2. TypeOK /\ OneBlockPerTopic /\ [Next]_vars => (TypeOK /\ OneBlockPerTopic)'
  BY TypeNext, OneBlockNext
<1>3. QED BY <1>1, <1>2, PTL DEF Spec

-----------------------------------------------------------------------------
(* Locks *)

(* What a step of p does to the global mutex: nothing, with p staying inside *)
(* or outside, or it takes the free mutex, or it releases its own.           *)
LEMMA GlobalLockFrame ==
  ASSUME GlobalLockInv, NEW p \in Proc,
         \A q \in Proc \ {p} : op'[q] = op[q] /\ at'[q] = at[q],
         \/ mutex' = mutex /\ (HoldsGlobal(p)' <=> HoldsGlobal(p))
         \/ mutex = NULL /\ mutex' = p /\ HoldsGlobal(p)'
         \/ HoldsGlobal(p) /\ mutex' = NULL /\ ~HoldsGlobal(p)'
  PROVE  GlobalLockInv'
<1>1. \A q \in Proc \ {p} : HoldsGlobal(q)' <=> HoldsGlobal(q)
  BY DEF HoldsGlobal, Constructing
<1>2. \A q \in Proc : q # NULL
  BY ProcessAssumption
<1>3. \A q \in Proc \ {p} : HoldsGlobal(q)' <=> mutex' = q
  BY <1>1, <1>2 DEF GlobalLockInv
<1>4. HoldsGlobal(p)' <=> mutex' = p
  BY <1>2 DEF GlobalLockInv
<1>5. QED BY <1>3, <1>4 DEF GlobalLockInv

(* The same for the mutex of its block.                                      *)
LEMMA BlockLockFrame ==
  ASSUME TypeOK, BlockLockInv, NEW p \in Proc,
         \A q \in Proc \ {p} : op'[q] = op[q] /\ at'[q] = at[q] /\ handle'[q] = handle[q],
         \/ /\ block_mutex' = block_mutex
            /\ HoldsBlock(p)' <=> HoldsBlock(p)
            /\ HoldsBlock(p) => Blk(p)' = Blk(p)
         \/ /\ Blk(p) \in Block /\ Blk(p)' = Blk(p)
            /\ block_mutex[Blk(p)] = NULL /\ ~HoldsBlock(p)
            /\ block_mutex' = [block_mutex EXCEPT ![Blk(p)] = p]
            /\ HoldsBlock(p)'
         \/ /\ Blk(p) \in Block /\ HoldsBlock(p)
            /\ block_mutex' = [block_mutex EXCEPT ![Blk(p)] = NULL]
            /\ ~HoldsBlock(p)'
  PROVE  BlockLockInv'
<1>0. /\ \A q \in Proc : q # NULL
      /\ block_mutex \in [Block -> Proc \cup {NULL}]
  BY ProcessAssumption DEF TypeOK, MonitorTypeOK
<1>1. \A q \in Proc \ {p} : (HoldsBlock(q)' <=> HoldsBlock(q)) /\ Blk(q)' = Blk(q)
  BY DEF HoldsBlock, Blk
<1>2. ASSUME NEW q \in Proc \ {p}, NEW b \in Block
      PROVE  HoldsBlock(q)' /\ Blk(q)' = b <=> block_mutex'[b] = q
  BY <1>0, <1>1, <1>2 DEF BlockLockInv
<1>3. ASSUME NEW b \in Block
      PROVE  HoldsBlock(p)' /\ Blk(p)' = b <=> block_mutex'[b] = p
  BY <1>0, <1>3 DEF BlockLockInv
<1>4. QED
  <2>1. \A q \in Proc, b \in Block : HoldsBlock(q)' /\ Blk(q)' = b <=> block_mutex'[b] = q
    BY <1>2, <1>3
  <2>2. QED BY <2>1 DEF BlockLockInv

LEMMA GlobalLockNext ==
  ASSUME TypeOK, GlobalLockInv, [Next]_vars PROVE GlobalLockInv'
<1> USE DEF HoldsGlobal, Constructing, GlobalSections, At, Goto
<1>o. /\ op \in [Proc -> PublisherOps \cup SubscriberOps \cup ManagerOps \cup ReleaserOps]
      /\ at \in [Proc -> {"start", "wait", "in", "construct", "reconstruct", "destroyed"}]
      /\ \A p \in Proc : Constructing(p) => op[p] \in {"allocateBlock", "grow"}
  BY DEF TypeOK, ControlTypeOK
<1>1. CASE UNCHANGED vars
  BY <1>1 DEF vars, pcVars, globalVars, GlobalLockInv
<1>2. ASSUME NEW p \in Proc, LockStep(p) PROVE GlobalLockInv'
  <2>1. CASE LockGlobal(p) \/ RelockGlobal(p)
    BY <2>1, <1>o, GlobalLockFrame DEF LockGlobal, RelockGlobal
  <2>2. CASE LockBlock(p) \/ RelockBlock(p)
    BY <2>2, <1>o, GlobalLockFrame DEF LockBlock, RelockBlock, globalVars, BlockSections
  <2>3. CASE UnregisterGlobalClient(p)
    BY <2>3, <1>o, GlobalLockFrame DEF UnregisterGlobalClient
  <2>4. QED BY <1>2, <2>1, <2>2, <2>3 DEF LockStep
<1>3. ASSUME NEW p \in Proc, AllocateStep(p) PROVE GlobalLockInv'
  <2>1. CASE AllocateReconnect(p)
    <3>1. /\ op[p] = "allocateBlock" /\ at[p] = "in"
          /\ \/ mutex' = NULL /\ Goto(p, "reallocateBlock", "start")
             \/ mutex' = mutex /\ op' = op /\ at' = [at EXCEPT ![p] = "reconstruct"]
      BY <2>1 DEF AllocateReconnect
    <3>2. QED BY <3>1, <1>o, GlobalLockFrame
  <2>2. CASE AllocateClaim(p)
    BY <2>2, <1>o, GlobalLockFrame DEF AllocateClaim, globalVars
  <2>3. CASE AllocateNone(p) \/ AllocateConstruct(p) \/ AllocateThrow(p)
    BY <2>3, <1>o, GlobalLockFrame DEF AllocateNone, AllocateConstruct, AllocateThrow, Return
  <2>4. QED BY <1>3, <2>1, <2>2, <2>3 DEF AllocateStep
<1>4. ASSUME NEW p \in Proc, ReallocateStep(p) PROVE GlobalLockInv'
  <2>1. CASE ReallocateCheck(p) \/ ReallocateRefresh(p)
    BY <2>1, <1>o, GlobalLockFrame DEF ReallocateCheck, ReallocateRefresh, globalVars
  <2>2. CASE ReallocateResize(p)
    BY <2>2, <1>o, GlobalLockFrame DEF ReallocateResize, Return, globalVars
  <2>3. CASE GrowDestroy(p) \/ GrowConstruct(p) \/ GrowThrow(p)
    BY <2>3, <1>o, GlobalLockFrame DEF GrowDestroy, GrowConstruct, GrowThrow, Return,
       globalVars
  <2>4. QED BY <1>4, <2>1, <2>2, <2>3 DEF ReallocateStep
<1>5. ASSUME NEW p \in Proc, SerializeStep(p) PROVE GlobalLockInv'
  BY <1>5, <1>o, GlobalLockFrame DEF SerializeStep, SerializeRegister, WriteStart, WriteEnd,
     SignalData, Return, globalVars
<1>6. ASSUME NEW p \in Proc, ReceiveStep(p) PROVE GlobalLockInv'
  <2>1. CASE FindHandle(p)
    <3>1. /\ op[p] = "findHandle" /\ at[p] = "in" /\ mutex' = NULL
          /\ \E o \in {"wait_data", "resetBlock", "idle"} : Goto(p, o, "start")
      BY <2>1 DEF FindHandle
    <3>2. QED BY <3>1, <1>o, GlobalLockFrame
  <2>2. CASE WaitData(p) \/ WaitTimeout(p) \/ WaitNotified(p) \/ RegisterGlobalClient(p)
    BY <2>2, <1>o, GlobalLockFrame DEF WaitData, WaitTimeout, WaitNotified,
       RegisterGlobalClient, globalVars
  <2>3. CASE ReadStart(p) \/ ReadEnd(p) \/ UnregisterClient(p) \/ Callback(p)
    BY <2>3, <1>o, GlobalLockFrame DEF ReadStart, ReadEnd, UnregisterClient, Callback,
       globalVars
  <2>4. QED BY <1>6, <2>1, <2>2, <2>3 DEF ReceiveStep
<1>7. ASSUME NEW p \in Proc, ResetStep(p) PROVE GlobalLockInv'
  <2>1. CASE ResetDestroy(p) \/ ResetDescriptor(p) \/ ClearDestroy(p)
    BY <2>1, <1>o, GlobalLockFrame DEF ResetDestroy, ResetDescriptor, ClearDestroy, globalVars
  <2>2. CASE ResetEnd(p) \/ ResetBlockEnter(p) \/ ResetBlockClear(p)
    BY <2>2, <1>o, GlobalLockFrame DEF ResetEnd, ResetBlockEnter, ResetBlockClear, globalVars
  <2>3. QED BY <1>7, <2>1, <2>2 DEF ResetStep
<1>8. ASSUME NEW p \in Proc,
             Initialise(p) \/ Publish(p) \/ Subscribe(p) \/ ManagerExit(p)
      PROVE  GlobalLockInv'
  BY <1>8, <1>o, GlobalLockFrame DEF Initialise, Publish, Subscribe, ManagerExit, globalVars
<1>9. ASSUME NEW p \in Proc, Fault(p) \/ Die(p) \/ SpuriousWakeup(p)
      PROVE  GlobalLockInv'
  BY <1>9 DEF Fault, Die, SpuriousWakeup, pcVars, globalVars, GlobalLockInv
<1>10. QED
  BY <1>1, <1>2, <1>3, <1>4, <1>5, <1>6, <1>7, <1>8, <1>9, NextCases

LEMMA BlockLockNext ==
  ASSUME TypeOK, BlockLockInv, [Next]_vars PROVE BlockLockInv'
<1> USE DEF HoldsBlock, BlockSections, At, Goto, Unlock
<1>o. /\ op \in [Proc -> PublisherOps \cup SubscriberOps \cup ManagerOps \cup ReleaserOps]
      /\ at \in [Proc -> {"start", "wait", "in", "construct", "reconstruct", "destroyed"}]
      /\ handle \in [Proc -> Handle]
      /\ \A p \in Publishers : op[p] \in PublisherOps
      /\ \A p \in Subscribers : op[p] \in SubscriberOps
      /\ \A p \in Publishers \cup Subscribers : p \in Proc
      /\ Publishers \cap Subscribers = {}
  BY ProcessAssumption DEF TypeOK, ControlTypeOK, HandleTypeOK, Proc
<1>b. \A p \in Proc : op[p] \in HandleOps => Blk(p) \in Block
  BY BlockInRange
<1>u. ASSUME NEW p \in Proc, handle' = handle PROVE Blk(p)' = Blk(p)
  BY <1>u DEF Blk
<1>1. CASE UNCHANGED vars
  BY <1>1 DEF vars, pcVars, blockVars, localVars, Blk, BlockLockInv
<1>2. ASSUME NEW p \in Proc, LockStep(p) PROVE BlockLockInv'
  <2>1. CASE LockGlobal(p) \/ RelockGlobal(p)
    BY <2>1, <1>o, <1>u, BlockLockFrame DEF LockGlobal, RelockGlobal, blockVars, localVars,
       GlobalSections
  <2>2. CASE LockBlock(p) \/ RelockBlock(p)
    <3>1. Blk(p) \in Block
      BY <2>2, <1>b DEF LockBlock, RelockBlock, HandleOps
    <3>2. QED BY <2>2, <3>1, <1>o, <1>u, BlockLockFrame DEF LockBlock, RelockBlock, localVars
  <2>3. CASE UnregisterGlobalClient(p)
    BY <2>3, <1>o, <1>u, BlockLockFrame DEF UnregisterGlobalClient, blockVars, localVars
  <2>4. QED BY <1>2, <2>1, <2>2, <2>3 DEF LockStep
<1>3. ASSUME NEW p \in Proc, AllocateStep(p) PROVE BlockLockInv'
  <2>1. /\ op[p] = "allocateBlock" /\ block_mutex' = block_mutex
        /\ \E h : handle' = [handle EXCEPT ![p] = h]
        /\ \A q \in Proc \ {p} : at'[q] = at[q]
        /\ \/ op' = op
           \/ Goto(p, "reallocateBlock", "start") \/ Goto(p, "idle", "start")
    <3>1. CASE AllocateReconnect(p)
      BY <3>1, <1>o DEF AllocateReconnect, blockVars
    <3>2. CASE AllocateClaim(p)
      BY <3>2, <1>o DEF AllocateClaim, blockVars
    <3>3. CASE AllocateNone(p)
      BY <3>3, <1>o DEF AllocateNone, Return, blockVars
    <3>4. CASE AllocateConstruct(p)
      BY <3>4, <1>o DEF AllocateConstruct, blockVars
    <3>5. CASE AllocateThrow(p)
      BY <3>5, <1>o DEF AllocateThrow, Return, blockVars
    <3>6. QED BY <1>3, <3>1, <3>2, <3>3, <3>4, <3>5 DEF AllocateStep
  <2>2. ~HoldsBlock(p) /\ ~HoldsBlock(p)'
    BY <2>1, <1>o
  <2>3. \A q \in Proc \ {p} : op'[q] = op[q] /\ at'[q] = at[q] /\ handle'[q] = handle[q]
    BY <2>1, <1>o
  <2>4. QED BY <2>1, <2>2, <2>3, BlockLockFrame
<1>4. ASSUME NEW p \in Proc, ReallocateStep(p) PROVE BlockLockInv'
  <2>0. /\ op[p] \in {"reallocateBlock", "refresh", "resize", "grow"}
        /\ at[p] # "start" \/ op[p] # "reallocateBlock"
    BY <1>4 DEF ReallocateStep, ReallocateCheck, ReallocateRefresh, ReallocateResize,
       GrowDestroy, GrowConstruct, GrowThrow
  <2>b. Blk(p) \in Block
    BY <2>0, <1>b DEF HandleOps
  <2>1. CASE ReallocateCheck(p)
    BY <2>1, <1>o, <1>u, BlockLockFrame DEF ReallocateCheck, blockVars, localVars
  <2>2. CASE ReallocateRefresh(p)
    <3>1. Blk(p)' = Blk(p)
      BY <2>2, <1>o DEF ReallocateRefresh, FreshHandle, Blk
    <3>2. QED BY <2>2, <3>1, <1>o, BlockLockFrame DEF ReallocateRefresh, blockVars
  <2>3. CASE ReallocateResize(p)
    <3>1. CASE Goto(p, "grow", "start") /\ block_mutex' = block_mutex
      BY <2>3, <3>1, <1>o, <1>u, BlockLockFrame DEF ReallocateResize
    <3>2. CASE /\ block_mutex' = [block_mutex EXCEPT ![Blk(p)] = NULL]
               /\ Goto(p, "serialize", "start") \/ Goto(p, "idle", "start")
      BY <2>b, <2>3, <3>2, <1>o, <1>u, BlockLockFrame DEF ReallocateResize
    <3>3. QED BY <2>3, <3>1, <3>2 DEF ReallocateResize, Return
  <2>4. CASE GrowDestroy(p)
    BY <2>4, <1>o, <1>u, BlockLockFrame DEF GrowDestroy, blockVars
  <2>5. CASE GrowConstruct(p) \/ GrowThrow(p)
    <3>1. /\ op[p] = "grow"
          /\ block_mutex' = [block_mutex EXCEPT ![Blk(p)] = NULL]
          /\ \E h : handle' = [handle EXCEPT ![p] = h]
          /\ Goto(p, "serialize", "start") \/ Goto(p, "idle", "start")
      BY <2>5 DEF GrowConstruct, GrowThrow, Return
    <3>2. QED BY <2>b, <3>1, <1>o, BlockLockFrame
  <2>6. QED BY <1>4, <2>1, <2>2, <2>3, <2>4, <2>5 DEF ReallocateStep
<1>5. ASSUME NEW p \in Proc, SerializeStep(p) PROVE BlockLockInv'
  <2>1. CASE SerializeRegister(p)
    BY <2>1, <1>o, <1>u, BlockLockFrame DEF SerializeRegister, blockVars, localVars
  <2>2. CASE WriteStart(p)
    <3>1. Blk(p)' = Blk(p) /\ Blk(p) \in Block
      BY <2>2, <1>b, <1>o, RefreshedType DEF WriteStart, Blk, HandleOps
    <3>2. QED BY <2>2, <3>1, <1>o, BlockLockFrame DEF WriteStart
  <2>3. CASE WriteEnd(p)
    <3>1. p \in Publishers
      BY <2>3, <1>o DEF WriteEnd, SubscriberOps, TypeOK, ControlTypeOK, ManagerOps,
         ReleaserOps, Proc
    <3>2. QED BY <2>3, <3>1, <1>o, <1>u, BlockLockFrame DEF WriteEnd, blockVars
  <2>4. CASE SignalData(p)
    <3>1. Blk(p) \in Block
      BY <2>4, <1>b DEF SignalData, HandleOps
    <3>2. QED BY <2>4, <3>1, <1>o, <1>u, BlockLockFrame DEF SignalData, Return
  <2>5. QED BY <1>5, <2>1, <2>2, <2>3, <2>4 DEF SerializeStep
<1>6. ASSUME NEW p \in Proc, ReceiveStep(p) PROVE BlockLockInv'
  <2>1. CASE FindHandle(p)
    <3>1. /\ op[p] = "findHandle" /\ block_mutex' = block_mutex
          /\ \E h : handle' = [handle EXCEPT ![p] = h]
          /\ \E o \in {"wait_data", "resetBlock", "idle"} : Goto(p, o, "start")
      BY <2>1, <1>o DEF FindHandle, blockVars
    <3>2. QED BY <3>1, <1>o, BlockLockFrame
  <2>2. CASE WaitData(p) \/ WaitTimeout(p)
    BY <2>2, <1>o, <1>u, BlockLockFrame DEF WaitData, WaitTimeout, localVars
  <2>3. CASE WaitNotified(p)
    <3>1. Blk(p) \in Block
      BY <2>3, <1>b DEF WaitNotified, HandleOps
    <3>2. QED BY <2>3, <3>1, <1>o, <1>u, BlockLockFrame DEF WaitNotified, localVars
  <2>4. CASE RegisterGlobalClient(p)
    <3>1. Blk(p) \in Block
      BY <2>4, <1>b DEF RegisterGlobalClient, HandleOps
    <3>2. QED BY <2>4, <3>1, <1>o, <1>u, BlockLockFrame DEF RegisterGlobalClient, localVars
  <2>5. CASE ReadStart(p)
    <3>1. /\ op[p] = "read" /\ block_mutex' = block_mutex
          /\ \E h : handle' = [handle EXCEPT ![p] = h]
          /\ \A q \in Proc \ {p} : at'[q] = at[q]
          /\ op' = op \/ Goto(p, "overrun", "start")
      BY <2>5, <1>o DEF ReadStart, blockVars
    <3>2. QED BY <3>1, <1>o, BlockLockFrame
  <2>6. CASE ReadEnd(p)
    <3>1. p \notin Publishers
      BY <2>6, <1>o DEF ReadEnd, PublisherOps
    <3>2. QED BY <2>6, <3>1, <1>o, <1>u, BlockLockFrame DEF ReadEnd, blockVars, localVars
  <2>7. CASE UnregisterClient(p) \/ Callback(p)
    BY <2>7, <1>o, <1>u, BlockLockFrame DEF UnregisterClient, Callback, blockVars, localVars
  <2>8. QED BY <1>6, <2>1, <2>2, <2>3, <2>4, <2>5, <2>6, <2>7 DEF ReceiveStep
<1>7. ASSUME NEW p \in Proc, ResetStep(p) PROVE BlockLockInv'
  <2>1. CASE \/ ResetDestroy(p) \/ ResetDescriptor(p) \/ ResetEnd(p)
             \/ ResetBlockEnter(p) \/ ClearDestroy(p)
    BY <2>1, <1>o, <1>u, BlockLockFrame DEF ResetDestroy, ResetDescriptor, ResetEnd,
       ResetBlockEnter, ClearDestroy, blockVars, localVars
  <2>2. CASE ResetBlockClear(p)
    <3>1. Blk(p) \in Block
      BY <2>2, <1>b DEF ResetBlockClear, HandleOps
    <3>2. QED BY <2>2, <3>1, <1>o, BlockLockFrame DEF ResetBlockClear
  <2>3. QED BY <1>7, <2>1, <2>2 DEF ResetStep
<1>8. ASSUME NEW p \in Proc,
             Initialise(p) \/ Publish(p) \/ Subscribe(p) \/ ManagerExit(p)
      PROVE  BlockLockInv'
  <2>1. /\ op[p] \in {"new", "idle"} /\ block_mutex' = block_mutex /\ handle' = handle
        /\ \E o \in {"allocateBlock", "idle", "reallocateBlock", "findHandle",
                     "resetAllBlocks"} : Goto(p, o, "start")
    BY <1>8 DEF Initialise, Publish, Subscribe, ManagerExit, blockVars, localVars
  <2>2. QED BY <2>1, <1>o, <1>u, BlockLockFrame
<1>9. ASSUME NEW p \in Proc, Fault(p) \/ Die(p) \/ SpuriousWakeup(p)
      PROVE  BlockLockInv'
  BY <1>9 DEF Fault, Die, SpuriousWakeup, pcVars, blockVars, localVars, Blk, BlockLockInv
<1>10. QED
  BY <1>1, <1>2, <1>3, <1>4, <1>5, <1>6, <1>7, <1>8, <1>9, NextCases

(* Every mutex has exactly the owner that the program counters tell: mutual  *)
(* exclusion of the sections between lock and unlock, across the waits that  *)
(* give a mutex up and take it back.                                         *)
THEOREM LocksExclude == Spec => []LockInv
<1>1. Init => TypeOK /\ LockInv
  <2> SUFFICES ASSUME Init PROVE LockInv
    BY TypeInit
  <2>1. \A p \in Proc : ~HoldsGlobal(p) /\ ~HoldsBlock(p) /\ p # NULL
    BY ProcessAssumption DEF Init, HoldsGlobal, HoldsBlock, Constructing
  <2>2. QED BY <2>1 DEF Init, LockInv, GlobalLockInv, BlockLockInv
<1>2. TypeOK /\ LockInv /\ [Next]_vars => (TypeOK /\ LockInv)'
  BY TypeNext, GlobalLockNext, BlockLockNext DEF LockInv
<1>3. QED BY <1>1, <1>2, PTL DEF Spec

-----------------------------------------------------------------------------
(* Waiting *)

(* Where a process that is kept waiting stands; nobody waits in two places.  *)
LEMMA LevelCases ==
  ASSUME NEW p \in Proc
  PROVE  /\ Level(p) \in 0 .. 4
         /\ Level(p) = 1 => WantsGlobal(p) /\ mutex # NULL
         /\ Level(p) = 2 => AsleepGlobal(p)
         /\ Level(p) = 3 => WantsBlock(p) /\ block_mutex[Blk(p)] # NULL
         /\ Level(p) = 4 => AsleepBlock(p)
BY DEF Level

LEMMA LevelOps ==
  ASSUME NEW p \in Proc
  PROVE  /\ WantsGlobal(p) => /\ op[p] \in GlobalSections
                                    \cup {"register", "unregister", "serialize"}
                              /\ op[p] \in GlobalSections => at[p] \in {"start", "wait"}
                              /\ op[p] = "serialize" => at[p] = "in"
                              /\ ~AsleepGlobal(p)
         /\ AsleepGlobal(p) => op[p] \in GlobalSections /\ at[p] = "wait"
         /\ WantsBlock(p) => /\ op[p] \in BlockSections \cup {"wait_data", "unregister_client"}
                             /\ op[p] \in BlockSections => at[p] \in {"start", "wait"}
                             /\ ~AsleepBlock(p)
         /\ AsleepBlock(p) => op[p] \in BlockSections /\ at[p] = "wait"
BY DEF WantsGlobal, AsleepGlobal, WantsBlock, AsleepBlock, Resumed, Woken, At,
   GlobalSections, BlockSections

(* The owner of the global mutex waits for nothing.                          *)
LEMMA GlobalOwnerMoves ==
  ASSUME TypeOK, LockInv, NEW q \in Proc, mutex = q PROVE Level(q) = 0
<1>1. op[q] \in GlobalSections /\ at[q] \notin {"start", "wait"}
  BY DEF LockInv, GlobalLockInv, HoldsGlobal
<1>2. ~WantsGlobal(q) /\ ~AsleepGlobal(q) /\ ~WantsBlock(q) /\ ~AsleepBlock(q)
  BY <1>1, LevelOps DEF GlobalSections, BlockSections
<1>3. QED BY <1>2, LevelCases

(* Who is registered with the global monitor waits for its mutex at most.    *)
LEMMA GlobalClientWaits ==
  ASSUME NEW q \in GlobalClients PROVE q \in Proc /\ Level(q) < 2
<1>1. q \in Proc /\ op[q] \in {"write", "read", "unregister", "overrun"}
  BY DEF GlobalClients
<1>2. ~AsleepGlobal(q) /\ ~WantsBlock(q) /\ ~AsleepBlock(q)
  BY <1>1, LevelOps DEF GlobalSections, BlockSections
<1>3. QED BY <1>1, <1>2, LevelCases

(* Who owns the mutex of a block never waits for another one of these: it    *)
(* may go on to the global monitor, and from there no further.               *)
LEMMA BlockOwnerWaits ==
  ASSUME TypeOK, LockInv, NEW q \in Proc, NEW b \in Block, block_mutex[b] = q
  PROVE  Level(q) < 3
<1>1. HoldsBlock(q)
  BY DEF LockInv, BlockLockInv
<1>2. ~WantsBlock(q) /\ ~AsleepBlock(q)
  BY <1>1, LevelOps DEF HoldsBlock, BlockSections
<1>3. QED BY <1>2, LevelCases

(* Who is registered with a block is past its check_clients, and does not    *)
(* come back to it before it has unregistered.                               *)
LEMMA BlockClientWaits ==
  ASSUME NEW b \in Block, NEW q \in BlockClients(b) PROVE q \in Proc /\ Level(q) < 4
<1>1. /\ q \in Proc
      /\ op[q] \in {"register", "read", "unregister", "unregister_client", "overrun"}
  BY DEF BlockClients, Proc
<1>2. ~AsleepBlock(q)
  BY <1>1, LevelOps DEF BlockSections
<1>3. QED BY <1>1, <1>2, LevelCases

(* From any process that is kept waiting one comes, by going to one it waits *)
(* for and so on, to one that can move, was killed or overran: neither two   *)
(* mutexes taken in different orders, nor a mutex and a registration, nor a  *)
(* wait that nobody will end, can stop everybody.                            *)
THEOREM WaitsEnd == Spec => []NoDeadlock
<1>1. ASSUME TypeOK, LockInv, ClientsCounted, NoLostWakeup PROVE NoDeadlock
  <2> SUFFICES ASSUME NEW p \in Proc, Level(p) > 0
               PROVE  WaitsFor(p) # {} /\ \A q \in WaitsFor(p) : Level(q) < Level(p)
    BY DEF NoDeadlock
  <2>b. op[p] \in HandleOps => Blk(p) \in Block
    BY <1>1, BlockInRange
  <2>1. CASE Level(p) = 1
    <3>1. WantsGlobal(p) /\ mutex # NULL
      BY <2>1, LevelCases
    <3>2. ~AsleepGlobal(p) /\ ~WantsBlock(p) /\ ~AsleepBlock(p)
      BY <3>1, LevelOps DEF GlobalSections, BlockSections
    <3>3. mutex \in Proc
      BY <1>1, <3>1 DEF TypeOK, MonitorTypeOK
    <3>4. WaitsFor(p) = {mutex}
      BY <3>1, <3>2, <3>3 DEF WaitsFor
    <3>5. QED BY <1>1, <2>1, <3>3, <3>4, GlobalOwnerMoves
  <2>2. CASE Level(p) = 2
    <3>1. AsleepGlobal(p)
      BY <2>2, LevelCases
    <3>2. ~WantsGlobal(p) /\ ~WantsBlock(p) /\ ~AsleepBlock(p)
      BY <3>1, LevelOps DEF GlobalSections, BlockSections
    <3>3. WaitsFor(p) = GlobalClients
      BY <3>1, <3>2 DEF WaitsFor, GlobalClients
    <3>4. GlobalClients # {}
      <4>1. Cardinality(GlobalClients) # 0
        BY <1>1, <3>1 DEF AsleepGlobal, NoLostWakeup, ClientsCounted
      <4>2. QED BY <4>1, FS_EmptySet
    <3>5. QED BY <2>2, <3>3, <3>4, GlobalClientWaits
  <2>3. CASE Level(p) = 3
    <3>1. WantsBlock(p) /\ block_mutex[Blk(p)] # NULL
      BY <2>3, LevelCases
    <3>2. ~WantsGlobal(p) /\ ~AsleepGlobal(p) /\ ~AsleepBlock(p)
      BY <3>1, LevelOps DEF GlobalSections, BlockSections
    <3>3. Blk(p) \in Block
      BY <2>b, <3>1, LevelOps DEF BlockSections, HandleOps
    <3>4. block_mutex[Blk(p)] \in Proc
      BY <1>1, <3>1, <3>3 DEF TypeOK, MonitorTypeOK
    <3>5. WaitsFor(p) = {block_mutex[Blk(p)]}
      BY <3>1, <3>2, <3>4 DEF WaitsFor
    <3>6. QED BY <1>1, <2>3, <3>3, <3>4, <3>5, BlockOwnerWaits
  <2>4. CASE Level(p) = 4
    <3>1. AsleepBlock(p)
      BY <2>4, LevelCases
    <3>2. ~WantsGlobal(p) /\ ~AsleepGlobal(p) /\ ~WantsBlock(p)
      BY <3>1, LevelOps DEF GlobalSections, BlockSections
    <3>3. Blk(p) \in Block
      BY <2>b, <3>1, LevelOps DEF BlockSections, HandleOps
    <3>4. WaitsFor(p) = BlockClients(Blk(p))
      BY <3>1, <3>2 DEF WaitsFor, BlockClients, Proc
    <3>5. BlockClients(Blk(p)) # {}
      <4>1. Cardinality(BlockClients(Blk(p))) # 0
        BY <1>1, <3>1, <3>3 DEF AsleepBlock, NoLostWakeup, ClientsCounted
      <4>2. QED BY <4>1, FS_EmptySet
    <3>6. QED BY <2>4, <3>3, <3>4, <3>5, BlockClientWaits
  <2>5. QED BY <2>1, <2>2, <2>3, <2>4, LevelCases
<1>2. QED BY <1>1, TypeCorrect, LocksExclude, CountsCorrect, WakeupsKept, PTL
=============================================================================
