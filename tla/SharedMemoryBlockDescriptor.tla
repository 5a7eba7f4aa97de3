-------------------- MODULE SharedMemoryBlockDescriptor --------------------
(***************************************************************************)
(* The bookkeeping half of struct SharedMemoryBlockDescriptor: the fields  *)
(* that say which topic owns a block and how large it is, and the methods  *)
(* that change them.  The synchronisation half of the struct (its mutex,   *)
(* its two conditions and num_clients) is state of SharedMemoryBlock.      *)
(***************************************************************************)
EXTENDS Naturals

CONSTANTS Topics,  \* the topic names in use
          NoName   \* the empty string, name_[0] = 0

Names == Topics \cup {NoName}

Descriptor == [active_ : BOOLEAN, name_ : Names,
               size_ : Nat, allocated_ : Nat, resize_count_ : Nat]

(* The constructor; reset() restores exactly these values. *)
EmptyDescriptor ==
  [active_ |-> FALSE, name_ |-> NoName,
   size_ |-> 0, allocated_ |-> 0, resize_count_ |-> 0]

(* A fault for the checks to find: a resize that is not counted.             *)
FaultRecordUncounted(desc, newsize, alloc) ==
  [active_ |-> desc.active_, name_ |-> desc.name_, size_ |-> newsize,
   allocated_ |-> IF alloc = 0 THEN desc.allocated_ ELSE alloc,
   resize_count_ |-> desc.resize_count_]

(* recordSize(newsize, alloc): the resize count moves only when the new    *)
(* size exceeds what was allocated; alloc = 0 keeps the allocation.        *)
recordSize(desc, newsize, alloc) ==
  [active_ |-> desc.active_,
   name_ |-> desc.name_,
   size_ |-> newsize,
   allocated_ |-> IF alloc = 0 THEN desc.allocated_ ELSE alloc,
   resize_count_ |-> desc.resize_count_ + (IF newsize > desc.allocated_ THEN 1 ELSE 0)]

allocate(desc, name) == [desc EXCEPT !.name_ = name, !.active_ = TRUE]

reset(desc) ==
  [desc EXCEPT !.active_ = FALSE, !.name_ = NoName,
               !.size_ = 0, !.allocated_ = 0, !.resize_count_ = 0]

matchName(desc, name) == desc.name_ = name
=============================================================================
