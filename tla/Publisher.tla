------------------------------ MODULE Publisher ------------------------------
(***************************************************************************)
(* The front end of publishing: Publisher objects are handles that share a *)
(* PublisherImpl, which owns the SharedmemPublisher plugin, which maps the *)
(* segment at the first publish.  Application threads initialise, copy,    *)
(* publish, shut down and destroy handles, while managers come and go.  An *)
(* implementation and its plugin are one element of Impls.                 *)
(*                                                                         *)
(* A PublisherImpl has no lock: calls that use the same one do not overlap *)
(* (Exclusive).  Copies and destructions of handles may.                   *)
(***************************************************************************)
EXTENDS SharedMemorySegment

CONSTANTS Users,     \* the application's threads
          Impls,     \* the implementations, used again when they are gone
          Handles,   \* the Publisher objects
          Owner,     \* the thread that uses a handle
          Unbound, Gone     \* what a publisher may be, of Advertisement

ASSUME PublisherAssumption ==
  /\ Owner \in [Handles -> Users]
  /\ NULL \notin Segments \cup Impls \cup Handles
  /\ {Unbound, Gone} \cap Segments = {} /\ Unbound # Gone

VARIABLES
  impl_,              \* the implementation each handle points to
  alive,              \* the implementations that exist
  publishers_,        \* those of them that have a plugin
  first_run_,         \* those whose plugin has not published yet
  clientRegistered,   \* those whose plugin has tried to connect
  segment_,           \* the segment that each plugin points to
  blockmgr_,          \* those whose plugin has found the Manager object
  shm_handle_,        \* those whose plugin has a valid handle of a block
  mapped,             \* the mappings there are: <<plugin, segment>>
  at, arg,            \* what each thread executes, and for which handle
  dying               \* the implementation a thread is destroying

(* What the properties remember: where the last message of each plugin went. *)
VARIABLE sent

pluginVars == <<first_run_, clientRegistered, segment_, blockmgr_, shm_handle_>>
userVars == <<at, arg, dying>>
vars == <<segmentVars, impl_, alive, publishers_, pluginVars, mapped, userVars, sent>>

Init ==
  /\ SegmentInit
  /\ impl_ = [h \in Handles |-> NULL]
  /\ alive = {} /\ publishers_ = {} /\ first_run_ = {} /\ clientRegistered = {}
  /\ segment_ = [i \in Impls |-> NULL]
  /\ blockmgr_ = {} /\ shm_handle_ = {} /\ mapped = {}
  /\ at = [u \in Users |-> "idle"]
  /\ arg = [u \in Users |-> NULL]
  /\ dying = [u \in Users |-> NULL]
  /\ sent = [i \in Impls |-> NULL]

-----------------------------------------------------------------------------
Free(u) == at[u] = "idle"

LastHandle(h) == impl_[h] # NULL /\ \A g \in Handles \ {h} : impl_[g] # impl_[h]

(* No other thread is inside a call on the same implementation. *)
Exclusive(i) == \A u \in Users : arg[u] # NULL => impl_[arg[u]] # i

Goto(u, a, h, i) == /\ at' = [at EXCEPT ![u] = a]
                    /\ arg' = [arg EXCEPT ![u] = h]
                    /\ dying' = [dying EXCEPT ![u] = i]

Finish(u) == Goto(u, "idle", NULL, NULL)

(* Goes on with the call that arg is about. *)
Continue(u, a) == Goto(u, a, arg[u], NULL)

(* A plugin that forgets its segment without closing it: a plausible mistake *)
(* for the checks to find, not part of the specification.                    *)
FaultCloseSegment(i) ==
  /\ mapped' = mapped
  /\ segment_' = [segment_ EXCEPT ![i] = NULL]

(* delete segment_; segment_ = NULL *)
CloseSegment(i) ==
  /\ mapped' = mapped \ {<<i, segment_[i]>>}
  /\ segment_' = [segment_ EXCEPT ![i] = NULL]

(* initialise has returned, whatever it returned: publish goes on. *)
Initialised(u, i) ==
  /\ first_run_' = first_run_ \ {i}
  /\ Continue(u, "check")

-----------------------------------------------------------------------------
(* Two more plausible mistakes.                                             *)

(* A plugin that opens the segment anew for every message, and writes the    *)
(* message there with the handle of the block it has in the old one.         *)
FaultSerialize(u) ==
  LET i == impl_[arg[u]] IN
  /\ at[u] = "serialize"
  /\ sent' \in {sent, [sent EXCEPT ![i] = name]}
  /\ Finish(u)
  /\ UNCHANGED <<segmentVars, impl_, alive, publishers_, pluginVars, mapped>>

(* A plugin that takes the segment for one that has a Manager object. *)
FaultFind(u) ==
  LET i == impl_[arg[u]] IN
  /\ at[u] = "find"
  /\ blockmgr_' = IF segment_[i] \in constructed THEN blockmgr_ \cup {i} ELSE blockmgr_
  /\ Continue(u, "allocate")
  /\ UNCHANGED <<segmentVars, impl_, alive, publishers_, first_run_,
                 clientRegistered, segment_, shm_handle_, mapped, sent>>

-----------------------------------------------------------------------------
(* Publisher *)

(* do_initialise, on a handle without implementation: its plugin is always   *)
(* the one for shared memory.                                                *)
DoInitialise(u, h) ==
  /\ Free(u) /\ Owner[h] = u
  /\ impl_[h] = NULL
  /\ \E i \in Impls \ alive :
       /\ impl_' = [impl_ EXCEPT ![h] = i]
       /\ alive' = alive \cup {i}
       /\ publishers_' = publishers_ \cup {i}
       /\ first_run_' = first_run_ \cup {i}
  /\ UNCHANGED <<segmentVars, clientRegistered, segment_, blockmgr_, shm_handle_,
                 mapped, userVars, sent>>

(* The copy of a handle, which may be for another thread to use. *)
Copy(u, h, g) ==
  /\ Free(u) /\ Owner[h] = u
  /\ impl_[h] # NULL /\ impl_[g] = NULL
  /\ impl_' = [impl_ EXCEPT ![g] = impl_[h]]
  /\ UNCHANGED <<segmentVars, alive, publishers_, pluginVars, mapped, userVars, sent>>

(* The destruction of a handle. *)
Drop(u, h) ==
  /\ Free(u) /\ Owner[h] = u
  /\ impl_[h] # NULL
  /\ impl_' = [impl_ EXCEPT ![h] = NULL]
  /\ IF LastHandle(h) THEN Goto(u, "destroy", NULL, impl_[h]) ELSE UNCHANGED userVars
  /\ UNCHANGED <<segmentVars, alive, publishers_, pluginVars, mapped, sent>>

(* The plugin's end: its segment is closed, nothing else tells anybody. *)
DestroyPlugin(i) ==
  /\ publishers_' = publishers_ \ {i}
  /\ CloseSegment(i)
  /\ first_run_' = first_run_ \ {i}
  /\ clientRegistered' = clientRegistered \ {i}
  /\ blockmgr_' = blockmgr_ \ {i}
  /\ shm_handle_' = shm_handle_ \ {i}
  /\ sent' = [sent EXCEPT ![i] = NULL]

(* shutdown() destroys the plugin, and does not set unsubscribed_: copies of *)
(* the handle remain valid, and publish to nobody.                           *)
Shutdown(u, h) ==
  /\ Free(u) /\ Owner[h] = u
  /\ impl_[h] # NULL /\ Exclusive(impl_[h])
  /\ DestroyPlugin(impl_[h])
  /\ Goto(u, "reset", h, NULL)
  /\ UNCHANGED <<segmentVars, impl_, alive>>

(* impl_.reset() *)
ResetHandle(u) ==
  LET h == arg[u] IN
  /\ at[u] = "reset"
  /\ impl_' = [impl_ EXCEPT ![h] = NULL]
  /\ IF LastHandle(h) THEN Goto(u, "destroy", NULL, impl_[h]) ELSE Finish(u)
  /\ UNCHANGED <<segmentVars, alive, publishers_, pluginVars, mapped, sent>>

(* ~PublisherImpl, when the last handle is gone. *)
Destroy(u) ==
  LET i == dying[u] IN
  /\ at[u] = "destroy"
  /\ alive' = alive \ {i}
  /\ DestroyPlugin(i)
  /\ Finish(u)
  /\ UNCHANGED <<segmentVars, impl_>>

(* publish, while there is a plugin *)
Publish(u, h) ==
  LET i == impl_[h] IN
  /\ Free(u) /\ Owner[h] = u
  /\ i # NULL /\ Exclusive(i) /\ i \in publishers_
  /\ Goto(u, IF i \in first_run_ THEN "register" ELSE "check", h, NULL)
  /\ UNCHANGED <<segmentVars, impl_, alive, publishers_, pluginVars, mapped, sent>>

-----------------------------------------------------------------------------
(* SharedmemPublisherImpl::initialise *)

(* A second attempt, after an exception, connects to nothing. *)
Register(u) ==
  LET i == impl_[arg[u]] IN
  /\ at[u] = "register"
  /\ \/ /\ i \notin clientRegistered
        /\ clientRegistered' = clientRegistered \cup {i}
        /\ Continue(u, "open")
        /\ UNCHANGED first_run_
     \/ /\ i \in clientRegistered
        /\ Initialised(u, i)
        /\ UNCHANGED clientRegistered
  /\ UNCHANGED <<segmentVars, impl_, alive, publishers_, segment_, blockmgr_,
                 shm_handle_, mapped, sent>>

(* open_only; a bad_alloc is caught, what the lack of the segment throws is  *)
(* not and leaves publish.                                                   *)
OpenSegment(u) ==
  LET i == impl_[arg[u]] IN
  /\ at[u] = "open"
  /\ \/ /\ name # NULL
        /\ segment_' = [segment_ EXCEPT ![i] = name]
        /\ mapped' = mapped \cup {<<i, name>>}
        /\ Continue(u, "find")
        /\ UNCHANGED first_run_
     \/ /\ Initialised(u, i)
        /\ UNCHANGED <<segment_, mapped>>
     \/ /\ Finish(u)
        /\ UNCHANGED <<segment_, mapped, first_run_>>
  /\ UNCHANGED <<segmentVars, impl_, alive, publishers_, clientRegistered,
                 blockmgr_, shm_handle_, sent>>

(* find "Manager", which is not there until the manager has come to it. *)
FindManager(u) ==
  LET i == impl_[arg[u]] IN
  /\ at[u] = "find"
  /\ \/ /\ segment_[i] \in constructed
        /\ blockmgr_' = blockmgr_ \cup {i}
        /\ Continue(u, "allocate")
        /\ UNCHANGED <<segment_, mapped, first_run_>>
     \/ /\ segment_[i] \notin constructed
        /\ CloseSegment(i)
        /\ Initialised(u, i)
        /\ UNCHANGED blockmgr_
  /\ UNCHANGED <<segmentVars, impl_, alive, publishers_, clientRegistered,
                 shm_handle_, sent>>

(* allocateBlock finds or makes the topic's block, has no descriptor left,   *)
(* or throws bad_alloc.                                                      *)
Allocate(u) ==
  LET i == impl_[arg[u]] IN
  /\ at[u] = "allocate"
  /\ \/ /\ shm_handle_' \in {shm_handle_, shm_handle_ \cup {i}}
        /\ UNCHANGED <<segment_, mapped>>
     \/ /\ CloseSegment(i)
        /\ UNCHANGED shm_handle_
  /\ Initialised(u, i)
  /\ UNCHANGED <<segmentVars, impl_, alive, publishers_, clientRegistered,
                 blockmgr_, sent>>

(* publish_msg: an invalid handle drops the message ... *)
Check(u) ==
  /\ at[u] = "check"
  /\ IF impl_[arg[u]] \in shm_handle_ THEN Continue(u, "reallocate") ELSE Finish(u)
  /\ UNCHANGED <<segmentVars, impl_, alive, publishers_, pluginVars, mapped, sent>>

(* ... reallocateBlock may lose the block ...                                *)
Reallocate(u) ==
  LET i == impl_[arg[u]] IN
  /\ at[u] = "reallocate"
  /\ \/ Continue(u, "serialize") /\ UNCHANGED shm_handle_
     \/ Finish(u) /\ shm_handle_' = shm_handle_ \ {i}
  /\ UNCHANGED <<segmentVars, impl_, alive, publishers_, first_run_,
                 clientRegistered, segment_, blockmgr_, mapped, sent>>

(* ... and serialize writes it, or throws.                                   *)
Serialize(u) ==
  LET i == impl_[arg[u]] IN
  /\ at[u] = "serialize"
  /\ sent' \in {sent, [sent EXCEPT ![i] = segment_[i]]}
  /\ Finish(u)
  /\ UNCHANGED <<segmentVars, impl_, alive, publishers_, pluginVars, mapped>>

-----------------------------------------------------------------------------
(* Segments that neither the name nor a process keeps. *)
Unused == {s \in Segments :
             /\ s # name
             /\ \A g \in Managers : managed_shm[g] # s
             /\ \A i \in Impls : <<i, s>> \notin mapped}

InsideStep(u) ==
  \/ ResetHandle(u) \/ Destroy(u)
  \/ Register(u) \/ OpenSegment(u) \/ FindManager(u) \/ Allocate(u)
  \/ Check(u) \/ Reallocate(u) \/ Serialize(u)

CallStep(u) == \E h \in Handles :
  \/ DoInitialise(u, h) \/ Drop(u, h) \/ Shutdown(u, h) \/ Publish(u, h)
  \/ \E g \in Handles : Copy(u, h, g)

Next ==
  \/ \E u \in Users : InsideStep(u) \/ CallStep(u)
  \/ \E g \in Managers :
       /\ ManagerStep(g, Unused)
       /\ UNCHANGED <<impl_, alive, publishers_, pluginVars, mapped, userVars, sent>>

Spec == Init /\ [][Next]_vars
-----------------------------------------------------------------------------
(* Properties *)

PublisherTypeOK ==
  /\ SegmentTypeOK
  /\ impl_ \in [Handles -> Impls \cup {NULL}]
  /\ alive \subseteq Impls /\ publishers_ \subseteq Impls
  /\ first_run_ \subseteq Impls /\ clientRegistered \subseteq Impls
  /\ segment_ \in [Impls -> Segments \cup {NULL}]
  /\ blockmgr_ \subseteq Impls /\ shm_handle_ \subseteq Impls
  /\ mapped \subseteq Impls \X Segments
  /\ at \in [Users -> {"idle", "register", "open", "find", "allocate", "check",
                       "reallocate", "serialize", "reset", "destroy"}]
  /\ arg \in [Users -> Handles \cup {NULL}]
  /\ dying \in [Users -> Impls \cup {NULL}]
  /\ sent \in [Impls -> Segments \cup {NULL}]

(* The calls that are about to use what arg points to. *)
Publishing(u) == at[u] \in {"register", "open", "find", "allocate", "check",
                            "reallocate", "serialize"}

(* Whoever goes on to the block manager has its segment open and has found   *)
(* the Manager object in it, also after a first publish that threw, found no *)
(* manager or got no memory, and after the manager is gone.                  *)
UsesOpenSegment ==
  \A u \in Users : at[u] \in {"allocate", "reallocate", "serialize"} =>
    LET i == impl_[arg[u]] IN
    /\ i \in publishers_ /\ i \in blockmgr_
    /\ <<i, segment_[i]>> \in mapped
    /\ segment_[i] \in constructed

(* Every mapping is some living plugin's, which will close it, and each      *)
(* pointer to a segment is to one that is mapped.                            *)
MappingsOwned ==
  /\ mapped = {<<i, segment_[i]>> : i \in {j \in Impls : segment_[j] # NULL}}
  /\ \A i \in Impls : segment_[i] # NULL => i \in publishers_

(* Nothing in use is destroyed, and no implementation twice. *)
NothingUsesTheDead ==
  /\ \A h \in Handles : impl_[h] # NULL => impl_[h] \in alive
  /\ \A u \in Users : Publishing(u) => impl_[arg[u]] \in publishers_
  /\ \A u \in Users : at[u] = "destroy" =>
       /\ dying[u] \in alive
       /\ \A h \in Handles : impl_[h] # dying[u]
       /\ \A v \in Users \ {u} : at[v] = "destroy" => dying[v] # dying[u]

(* What they rest on. *)
ConnectInv ==
  /\ publishers_ \subseteq alive
  /\ first_run_ \subseteq publishers_ /\ clientRegistered \subseteq publishers_
  /\ blockmgr_ \subseteq clientRegistered
  /\ shm_handle_ \subseteq blockmgr_
  /\ \A i \in Impls : i \in publishers_ \ first_run_ => i \in clientRegistered
  /\ first_run_ \cap shm_handle_ = {}
  /\ \A i \in shm_handle_ : segment_[i] # NULL
  /\ \A i \in Impls : segment_[i] # NULL /\ i \notin blockmgr_ =>
       \E u \in Users : at[u] = "find" /\ impl_[arg[u]] = i
  /\ \A i \in blockmgr_ : segment_[i] # NULL => segment_[i] \in constructed
  /\ \A g \in Managers : main[g] = "construct" => managed_shm[g] # NULL

CallInv(u) ==
  /\ at[u] \in {"idle", "destroy"} <=> arg[u] = NULL
  /\ arg[u] # NULL => Owner[arg[u]] = u /\ impl_[arg[u]] # NULL
  /\ at[u] \in {"register", "open", "find", "allocate"} => impl_[arg[u]] \in first_run_
  /\ at[u] \in {"open", "find", "allocate"} => impl_[arg[u]] \in clientRegistered
  /\ at[u] = "open" => segment_[impl_[arg[u]]] = NULL
  /\ at[u] \in {"open", "find"} => impl_[arg[u]] \notin blockmgr_
  /\ at[u] \in {"find", "allocate"} => segment_[impl_[arg[u]]] # NULL
  /\ at[u] = "allocate" => impl_[arg[u]] \in blockmgr_
  /\ at[u] = "check" => impl_[arg[u]] \notin first_run_
  /\ at[u] \in {"reallocate", "serialize"} => impl_[arg[u]] \in shm_handle_

UsedAlone ==
  \A u, v \in Users :
    arg[u] # NULL /\ arg[v] # NULL /\ impl_[arg[u]] = impl_[arg[v]] => u = v

PublisherInv ==
  /\ PublisherTypeOK
  /\ MappingsOwned /\ NothingUsesTheDead /\ ConnectInv
  /\ UsedAlone /\ \A u \in Users : CallInv(u)

-----------------------------------------------------------------------------
Inside(i, places) == \E u \in Users : at[u] \in places /\ impl_[arg[u]] = i

(* Bound as soon as the segment is open, and as long as a block is to be had *)
(* there.                                                                    *)
Fate(i) ==
  CASE i \notin publishers_ -> Gone
    [] i \in publishers_ /\ (i \in shm_handle_ \/ Inside(i, {"find", "allocate"}))
         -> segment_[i]
    [] OTHER -> Unbound

fate == [i \in Impls |-> Fate(i)]
seen == [i \in Impls |-> IF sent[i] = NULL THEN Gone ELSE sent[i]]

Promise == INSTANCE Advertisement WITH sent <- seen

(* Segments come and go, calls fail, handles are copied and shut down: a     *)
(* publisher binds only to the segment that has the name then, and all its   *)
(* messages go to the one it is bound to.                                    *)
ImplementsAdvertisement == Promise!Spec
=============================================================================
