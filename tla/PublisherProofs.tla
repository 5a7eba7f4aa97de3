--------------------------- MODULE PublisherProofs ---------------------------
(***************************************************************************)
(* Proofs about Publisher, for any number of threads, handles, publishers, *)
(* managers and segments: its invariant, that calls find their segment     *)
(* open, and that it implements Advertisement.                             *)
(***************************************************************************)
EXTENDS Publisher, TLAPS

Inner == {"register", "open", "find", "allocate", "check", "reallocate", "serialize"}

USE DEF Inner

LEMMA Parts ==
  ASSUME PublisherInv
  PROVE  /\ PublisherTypeOK /\ SegmentTypeOK
         /\ MappingsOwned /\ NothingUsesTheDead /\ ConnectInv /\ UsedAlone
         /\ \A u \in Users : CallInv(u)
BY DEF PublisherInv, PublisherTypeOK

(* Who is inside a call works on a living implementation of his own.         *)
LEMMA InCall ==
  ASSUME PublisherInv, NEW u \in Users, at[u] \notin {"idle", "destroy"}
  PROVE  /\ arg[u] \in Handles /\ arg[u] # NULL
         /\ impl_[arg[u]] \in Impls /\ impl_[arg[u]] # NULL
         /\ Owner[arg[u]] = u
         /\ \A v \in Users : v # u /\ arg[v] # NULL =>
              arg[v] # arg[u] /\ impl_[arg[v]] # impl_[arg[u]]
<1>1. CallInv(u) /\ UsedAlone /\ PublisherTypeOK
  BY Parts
<1>2. arg[u] # NULL /\ impl_[arg[u]] # NULL /\ Owner[arg[u]] = u
  BY <1>1 DEF CallInv
<1>3. arg[u] \in Handles /\ impl_[arg[u]] \in Impls
  BY <1>1, <1>2 DEF PublisherTypeOK
<1>4. \A v \in Users : v # u /\ arg[v] # NULL => impl_[arg[v]] # impl_[arg[u]]
  BY <1>1, <1>2 DEF UsedAlone
<1> QED
  BY <1>2, <1>3, <1>4

LEMMA PublisherInit == Init => PublisherInv
<1> SUFFICES ASSUME Init PROVE PublisherInv
  OBVIOUS
<1> USE PublisherAssumption DEF Init, SegmentInit
<1>1. PublisherTypeOK
  BY DEF PublisherTypeOK, SegmentTypeOK
<1>2. MappingsOwned
  BY DEF MappingsOwned
<1>3. NothingUsesTheDead
  BY DEF NothingUsesTheDead, Publishing
<1>4. ConnectInv
  BY DEF ConnectInv
<1>5. UsedAlone /\ \A u \in Users : CallInv(u)
  BY DEF UsedAlone, CallInv
<1> QED
  BY <1>1, <1>2, <1>3, <1>4, <1>5 DEF PublisherInv

-----------------------------------------------------------------------------
(* A set that changes at one element.                                        *)
Differ(S, T, i) == \A j : j # i => (j \in S <=> j \in T)

(* A step inside publish changes what its own plugin knows and where its own *)
(* thread is; what must be true of those two is enough.                      *)
LEMMA LocalStep ==
  ASSUME PublisherInv,
         NEW u \in Users, at[u] \in Inner,
         NEW i \in Impls, i = impl_[arg[u]],
         NEW a \in Inner \cup {"idle"}, NEW k \in {arg[u], NULL}, a = "idle" <=> k = NULL,
         NEW s \in Segments \cup {NULL},
         UNCHANGED <<segmentVars, impl_, alive, publishers_>>,
         at' = [at EXCEPT ![u] = a], arg' = [arg EXCEPT ![u] = k],
         dying' = [dying EXCEPT ![u] = NULL],
         sent' \in [Impls -> Segments \cup {NULL}],
         segment_' = [segment_ EXCEPT ![i] = s],
         mapped' = (mapped \ {<<i, segment_[i]>>})
                     \cup (IF s = NULL THEN {} ELSE {<<i, s>>}),
         Differ(first_run_, first_run_', i),
         Differ(clientRegistered, clientRegistered', i),
         Differ(blockmgr_, blockmgr_', i),
         Differ(shm_handle_, shm_handle_', i),
         i \in first_run_' => i \notin shm_handle_',
         i \in blockmgr_' => i \in clientRegistered',
         i \in shm_handle_' => i \in blockmgr_' /\ s # NULL,
         i \notin first_run_' => i \in clientRegistered',
         s # NULL /\ i \notin blockmgr_' => a = "find",
         i \in blockmgr_' /\ s # NULL => s \in constructed,
         a \in {"register", "open", "find", "allocate"} => i \in first_run_',
         a \in {"open", "find", "allocate"} => i \in clientRegistered',
         a \in {"open", "find"} => i \notin blockmgr_',
         a = "open" => s = NULL,
         a \in {"find", "allocate"} => s # NULL,
         a = "allocate" => i \in blockmgr_',
         a = "check" => i \notin first_run_',
         a \in {"reallocate", "serialize"} => i \in shm_handle_'
  PROVE  PublisherInv'
<1> USE DEF segmentVars
<1>1. /\ PublisherTypeOK /\ MappingsOwned /\ NothingUsesTheDead /\ ConnectInv
      /\ UsedAlone /\ \A v \in Users : CallInv(v)
  BY Parts
<1>2. /\ arg[u] \in Handles /\ arg[u] # NULL /\ Owner[arg[u]] = u
      /\ \A v \in Users : v # u /\ arg[v] # NULL => impl_[arg[v]] # i
  BY InCall
<1>3. i \in publishers_ /\ i # NULL /\ \A j \in Impls : j # NULL
  BY <1>1, PublisherAssumption DEF NothingUsesTheDead, Publishing
<1>4. /\ at' \in [Users -> Inner \cup {"idle", "reset", "destroy"}]
      /\ arg' \in [Users -> Handles \cup {NULL}]
      /\ at'[u] = a /\ arg'[u] = k
      /\ \A v \in Users : v # u => at'[v] = at[v] /\ arg'[v] = arg[v] /\ dying'[v] = dying[v]
  BY <1>1, <1>2 DEF PublisherTypeOK
<1>5. PublisherTypeOK'
  <2>1. /\ first_run_' \subseteq Impls /\ clientRegistered' \subseteq Impls
        /\ blockmgr_' \subseteq Impls /\ shm_handle_' \subseteq Impls
    BY <1>1 DEF PublisherTypeOK, Differ
  <2>2. mapped' \subseteq Impls \X Segments
    BY <1>1 DEF PublisherTypeOK
  <2> QED
    BY <1>1, <1>4, <2>1, <2>2 DEF PublisherTypeOK, SegmentTypeOK
<1>6. MappingsOwned'
  BY <1>1, <1>3 DEF MappingsOwned, PublisherTypeOK
<1>7. NothingUsesTheDead'
  BY <1>1, <1>2, <1>3, <1>4 DEF NothingUsesTheDead, Publishing
<1>8. ConnectInv'
  <2>1. /\ first_run_' \subseteq publishers_ /\ clientRegistered' \subseteq publishers_
        /\ blockmgr_' \subseteq clientRegistered' /\ shm_handle_' \subseteq blockmgr_'
        /\ first_run_' \cap shm_handle_' = {}
    BY <1>1, <1>3 DEF ConnectInv, Differ
  <2>2. \A j \in Impls : j \in publishers_ \ first_run_' => j \in clientRegistered'
    BY <1>1 DEF ConnectInv, Differ
  <2>3. \A j \in Impls : segment_'[j] = IF j = i THEN s ELSE segment_[j]
    BY <1>1 DEF PublisherTypeOK
  <2>4. /\ \A j \in shm_handle_' : segment_'[j] # NULL
        /\ \A j \in blockmgr_' : segment_'[j] # NULL => segment_'[j] \in constructed
    BY <1>1, <2>1, <2>3 DEF ConnectInv, PublisherTypeOK, Differ
  <2>5. ASSUME NEW j \in Impls, segment_'[j] # NULL, j \notin blockmgr_'
        PROVE  \E v \in Users : at'[v] = "find" /\ impl_[arg'[v]] = j
    <3>1. CASE j = i
      BY <1>2, <1>4, <2>3, <2>5, <3>1
    <3>2. CASE j # i
      <4>1. PICK v \in Users : at[v] = "find" /\ impl_[arg[v]] = j
        BY <1>1, <2>3, <2>5, <3>2 DEF ConnectInv, Differ
      <4>2. v # u
        BY <3>2, <4>1
      <4> QED
        BY <1>4, <4>1, <4>2
    <3> QED
      BY <3>1, <3>2
  <2> QED
    BY <1>1, <2>1, <2>2, <2>4, <2>5 DEF ConnectInv
<1>9. UsedAlone'
  BY <1>1, <1>2, <1>4 DEF UsedAlone
<1>10. ASSUME NEW v \in Users PROVE CallInv(v)'
  <2>1. CASE v = u
    BY <1>1, <1>2, <1>3, <1>4, <2>1 DEF CallInv, PublisherTypeOK
  <2>2. CASE v # u /\ arg[v] # NULL
    <3>1. impl_[arg[v]] # i /\ impl_[arg[v]] \in Impls
      BY <1>1, <1>2, <2>2 DEF CallInv, PublisherTypeOK
    <3>2. segment_'[impl_[arg[v]]] = segment_[impl_[arg[v]]]
      BY <1>1, <3>1 DEF PublisherTypeOK
    <3> QED
      BY <1>1, <1>4, <2>2, <3>1, <3>2 DEF CallInv, Differ
  <2>3. CASE v # u /\ arg[v] = NULL
    BY <1>1, <1>4, <2>3 DEF CallInv
  <2> QED
    BY <2>1, <2>2, <2>3
<1> QED
  BY <1>5, <1>6, <1>7, <1>8, <1>9, <1>10 DEF PublisherInv

(* The steps of publish and of the first connection.                         *)
LEMMA PublishSteps ==
  ASSUME PublisherInv, NEW u \in Users,
         Register(u) \/ OpenSegment(u) \/ FindManager(u) \/ Allocate(u)
           \/ Check(u) \/ Reallocate(u) \/ Serialize(u)
  PROVE  PublisherInv'
<1> DEFINE i == impl_[arg[u]]
<1>1. at[u] \in Inner
  BY DEF Register, OpenSegment, FindManager, Allocate, Check, Reallocate, Serialize
<1>2. /\ PublisherTypeOK /\ SegmentTypeOK /\ MappingsOwned /\ ConnectInv /\ CallInv(u)
      /\ i \in publishers_
  BY <1>1, Parts DEF NothingUsesTheDead, Publishing
<1>3. arg[u] # NULL /\ i \in Impls /\ i # NULL
  BY <1>1, InCall
<1> USE DEF Continue, Finish, Goto, Differ
<1>4. segment_ = [segment_ EXCEPT ![i] = segment_[i]]
      /\ segment_[i] \in Segments \cup {NULL}
      /\ mapped = (mapped \ {<<i, segment_[i]>>})
                    \cup (IF segment_[i] = NULL THEN {} ELSE {<<i, segment_[i]>>})
  BY <1>2, <1>3 DEF PublisherTypeOK, MappingsOwned
<1>5. /\ i \in first_run_ => i \notin shm_handle_
      /\ i \in blockmgr_ => i \in clientRegistered
      /\ i \in shm_handle_ => i \in blockmgr_ /\ segment_[i] # NULL
      /\ i \notin first_run_ => i \in clientRegistered
      /\ i \in blockmgr_ /\ segment_[i] # NULL => segment_[i] \in constructed
      /\ segment_[i] # NULL /\ i \notin blockmgr_ => at[u] = "find"
  <2>1. \A v \in Users : at[v] = "find" /\ impl_[arg[v]] = i => v = u
    BY <1>1, <1>2, Parts, InCall
  <2> QED
    BY <1>2, <1>3, <2>1 DEF ConnectInv
<1>6. sent \in [Impls -> Segments \cup {NULL}]
  BY <1>2 DEF PublisherTypeOK
<1> HIDE DEF i
<1>7. CASE Check(u)
  <2> DEFINE a == IF i \in shm_handle_ THEN "reallocate" ELSE "idle"
             k == IF i \in shm_handle_ THEN arg[u] ELSE NULL
  <2>1. /\ at[u] = "check" /\ at' = [at EXCEPT ![u] = a]
        /\ arg' = [arg EXCEPT ![u] = k] /\ dying' = [dying EXCEPT ![u] = NULL]
        /\ UNCHANGED <<segmentVars, impl_, alive, publishers_, pluginVars, mapped, sent>>
    BY <1>7 DEF Check, i
  <2>2. i \notin first_run_
    BY <1>2, <2>1 DEF CallInv, i
  <2> QED
    BY <1>1, <1>3, <1>4, <1>5, <1>6, <2>1, <2>2, LocalStep DEF pluginVars, i
<1>8. CASE Reallocate(u)
  <2>1. /\ at[u] = "reallocate" /\ dying' = [dying EXCEPT ![u] = NULL]
        /\ UNCHANGED <<segmentVars, impl_, alive, publishers_, first_run_,
                       clientRegistered, segment_, blockmgr_, mapped, sent>>
        /\ \/ /\ at' = [at EXCEPT ![u] = "serialize"] /\ arg' = [arg EXCEPT ![u] = arg[u]]
              /\ shm_handle_' = shm_handle_
           \/ /\ at' = [at EXCEPT ![u] = "idle"] /\ arg' = [arg EXCEPT ![u] = NULL]
              /\ shm_handle_' = shm_handle_ \ {i}
    BY <1>8 DEF Reallocate, i
  <2>2. i \in shm_handle_
    BY <1>2, <2>1 DEF CallInv, i
  <2> QED
    BY <1>1, <1>3, <1>4, <1>5, <1>6, <2>1, <2>2, LocalStep DEF i
<1>9. CASE Serialize(u)
  <2>1. /\ at[u] = "serialize" /\ dying' = [dying EXCEPT ![u] = NULL]
        /\ at' = [at EXCEPT ![u] = "idle"] /\ arg' = [arg EXCEPT ![u] = NULL]
        /\ UNCHANGED <<segmentVars, impl_, alive, publishers_, pluginVars, mapped>>
        /\ sent' \in [Impls -> Segments \cup {NULL}]
    BY <1>4, <1>6, <1>9 DEF Serialize, i
  <2> QED
    BY <1>1, <1>3, <1>4, <1>5, <2>1, LocalStep DEF pluginVars, i
<1>10. CASE Register(u)
  <2>1. /\ at[u] = "register" /\ dying' = [dying EXCEPT ![u] = NULL]
        /\ arg' = [arg EXCEPT ![u] = arg[u]]
        /\ UNCHANGED <<segmentVars, impl_, alive, publishers_, segment_, blockmgr_,
                       shm_handle_, mapped, sent>>
        /\ \/ /\ i \notin clientRegistered /\ at' = [at EXCEPT ![u] = "open"]
              /\ clientRegistered' = clientRegistered \cup {i}
              /\ first_run_' = first_run_
           \/ /\ i \in clientRegistered /\ at' = [at EXCEPT ![u] = "check"]
              /\ clientRegistered' = clientRegistered
              /\ first_run_' = first_run_ \ {i}
    BY <1>10 DEF Register, Initialised, i
  <2>2. i \in first_run_
    BY <1>2, <2>1 DEF CallInv, i
  <2> QED
    BY <1>1, <1>3, <1>4, <1>5, <1>6, <2>1, <2>2, LocalStep DEF i
<1>11. CASE OpenSegment(u)
  <2>1. /\ at[u] = "open" /\ dying' = [dying EXCEPT ![u] = NULL]
        /\ UNCHANGED <<segmentVars, impl_, alive, publishers_, clientRegistered,
                       blockmgr_, shm_handle_, sent>>
        /\ \/ /\ name # NULL /\ segment_' = [segment_ EXCEPT ![i] = name]
              /\ mapped' = mapped \cup {<<i, name>>}
              /\ at' = [at EXCEPT ![u] = "find"] /\ arg' = [arg EXCEPT ![u] = arg[u]]
              /\ first_run_' = first_run_
           \/ /\ segment_' = segment_ /\ mapped' = mapped
              /\ at' = [at EXCEPT ![u] = "check"] /\ arg' = [arg EXCEPT ![u] = arg[u]]
              /\ first_run_' = first_run_ \ {i}
           \/ /\ segment_' = segment_ /\ mapped' = mapped
              /\ at' = [at EXCEPT ![u] = "idle"] /\ arg' = [arg EXCEPT ![u] = NULL]
              /\ first_run_' = first_run_
    BY <1>11 DEF OpenSegment, Initialised, i
  <2>2. /\ i \in first_run_ /\ i \in clientRegistered /\ i \notin blockmgr_
        /\ segment_[i] = NULL
    BY <1>2, <2>1 DEF CallInv, i
  <2>3. name \in Segments \cup {NULL}
    BY <1>2 DEF SegmentTypeOK
  <2>4. mapped \cup {<<i, name>>} = (mapped \ {<<i, segment_[i]>>}) \cup {<<i, name>>}
    BY <1>4, <2>2
  <2>5. CASE /\ name # NULL /\ segment_' = [segment_ EXCEPT ![i] = name]
             /\ mapped' = mapped \cup {<<i, name>>}
             /\ at' = [at EXCEPT ![u] = "find"] /\ arg' = [arg EXCEPT ![u] = arg[u]]
             /\ first_run_' = first_run_
    BY <1>1, <1>3, <1>5, <1>6, <2>1, <2>2, <2>3, <2>4, <2>5, LocalStep DEF i
  <2>6. CASE /\ segment_' = segment_ /\ mapped' = mapped
             /\ at' = [at EXCEPT ![u] = "check"] /\ arg' = [arg EXCEPT ![u] = arg[u]]
             /\ first_run_' = first_run_ \ {i}
    BY <1>1, <1>3, <1>4, <1>5, <1>6, <2>1, <2>2, <2>6, LocalStep DEF i
  <2>7. CASE /\ segment_' = segment_ /\ mapped' = mapped
             /\ at' = [at EXCEPT ![u] = "idle"] /\ arg' = [arg EXCEPT ![u] = NULL]
             /\ first_run_' = first_run_
    BY <1>1, <1>3, <1>4, <1>5, <1>6, <2>1, <2>2, <2>7, LocalStep DEF i
  <2> QED
    BY <2>1, <2>5, <2>6, <2>7
<1>12. CASE FindManager(u)
  <2>1. /\ at[u] = "find" /\ dying' = [dying EXCEPT ![u] = NULL]
        /\ arg' = [arg EXCEPT ![u] = arg[u]]
        /\ UNCHANGED <<segmentVars, impl_, alive, publishers_, clientRegistered,
                       shm_handle_, sent>>
        /\ \/ /\ segment_[i] \in constructed /\ at' = [at EXCEPT ![u] = "allocate"]
              /\ blockmgr_' = blockmgr_ \cup {i}
              /\ UNCHANGED <<segment_, mapped, first_run_>>
           \/ /\ at' = [at EXCEPT ![u] = "check"] /\ blockmgr_' = blockmgr_
              /\ mapped' = mapped \ {<<i, segment_[i]>>}
              /\ segment_' = [segment_ EXCEPT ![i] = NULL]
              /\ first_run_' = first_run_ \ {i}
    BY <1>12 DEF FindManager, Initialised, CloseSegment, i
  <2>2. /\ i \in first_run_ /\ i \in clientRegistered /\ i \notin blockmgr_
        /\ segment_[i] # NULL
    BY <1>2, <2>1 DEF CallInv, i
  <2>3. i \notin shm_handle_
    BY <1>5, <2>2
  <2>4. CASE /\ segment_[i] \in constructed /\ at' = [at EXCEPT ![u] = "allocate"]
             /\ blockmgr_' = blockmgr_ \cup {i}
             /\ UNCHANGED <<segment_, mapped, first_run_>>
    BY <1>1, <1>3, <1>4, <1>5, <1>6, <2>1, <2>2, <2>3, <2>4, LocalStep DEF i
  <2>5. CASE /\ at' = [at EXCEPT ![u] = "check"] /\ blockmgr_' = blockmgr_
             /\ mapped' = mapped \ {<<i, segment_[i]>>}
             /\ segment_' = [segment_ EXCEPT ![i] = NULL]
             /\ first_run_' = first_run_ \ {i}
    BY <1>1, <1>3, <1>4, <1>5, <1>6, <2>1, <2>2, <2>3, <2>5, LocalStep DEF i
  <2> QED
    BY <2>1, <2>4, <2>5
<1>13. CASE Allocate(u)
  <2>1. /\ at[u] = "allocate" /\ dying' = [dying EXCEPT ![u] = NULL]
        /\ at' = [at EXCEPT ![u] = "check"] /\ arg' = [arg EXCEPT ![u] = arg[u]]
        /\ first_run_' = first_run_ \ {i}
        /\ UNCHANGED <<segmentVars, impl_, alive, publishers_, clientRegistered,
                       blockmgr_, sent>>
        /\ \/ /\ shm_handle_' \in {shm_handle_, shm_handle_ \cup {i}}
              /\ UNCHANGED <<segment_, mapped>>
           \/ /\ shm_handle_' = shm_handle_
              /\ mapped' = mapped \ {<<i, segment_[i]>>}
              /\ segment_' = [segment_ EXCEPT ![i] = NULL]
    BY <1>13 DEF Allocate, Initialised, CloseSegment, i
  <2>2. /\ i \in first_run_ /\ i \in clientRegistered /\ i \in blockmgr_
        /\ segment_[i] # NULL
    BY <1>2, <2>1 DEF CallInv, i
  <2>3. CASE UNCHANGED <<segment_, mapped>> /\ shm_handle_' = shm_handle_
    BY <1>1, <1>3, <1>4, <1>5, <1>6, <2>1, <2>2, <2>3, LocalStep DEF i
  <2>4. CASE UNCHANGED <<segment_, mapped>> /\ shm_handle_' = shm_handle_ \cup {i}
    BY <1>1, <1>3, <1>4, <1>5, <1>6, <2>1, <2>2, <2>4, LocalStep DEF i
  <2>5. CASE /\ shm_handle_' = shm_handle_
             /\ mapped' = mapped \ {<<i, segment_[i]>>}
             /\ segment_' = [segment_ EXCEPT ![i] = NULL]
    BY <1>1, <1>3, <1>4, <1>5, <1>6, <2>1, <2>2, <2>5, LocalStep DEF i
  <2> QED
    BY <2>1, <2>3, <2>4, <2>5
<1> QED
  BY <1>7, <1>8, <1>9, <1>10, <1>11, <1>12, <1>13

-----------------------------------------------------------------------------
(* Managers and segments: what a plugin has mapped is not used again.        *)
LEMMA ManagerKeeps ==
  ASSUME PublisherInv, NEW g \in Managers, ManagerStep(g, Unused),
         UNCHANGED <<impl_, alive, publishers_, pluginVars, mapped, userVars, sent>>
  PROVE  PublisherInv'
<1> USE DEF pluginVars, userVars
<1>1. /\ PublisherTypeOK /\ SegmentTypeOK /\ MappingsOwned /\ NothingUsesTheDead
      /\ ConnectInv /\ UsedAlone /\ \A v \in Users : CallInv(v)
  BY Parts
<1>2. /\ SegmentTypeOK'
      /\ \A e \in Managers : main'[e] = "construct" => managed_shm'[e] # NULL
      /\ \A s \in constructed : s \notin constructed' => s \in Unused
  <2> USE DEF SegmentTypeOK, ConnectInv, Quit
  <2>1. CASE Remove(g)
    BY <1>1, <2>1 DEF Remove
  <2>2. CASE CreateSegment(g, Unused)
    <3>1. CASE name # NULL
      BY <1>1, <2>2, <3>1 DEF CreateSegment
    <3>2. CASE name = NULL
      <4>1. PICK s \in Unused :
              /\ name' = s /\ managed_shm' = [managed_shm EXCEPT ![g] = s]
              /\ constructed' = constructed \ {s}
              /\ main' = [main EXCEPT ![g] = "construct"]
        BY <2>2, <3>2 DEF CreateSegment
      <4>2. s \in Segments /\ s # NULL
        BY PublisherAssumption DEF Unused
      <4> QED
        BY <1>1, <4>1, <4>2
    <3> QED
      BY <3>1, <3>2
  <2>3. CASE ConstructManager(g)
    BY <1>1, <2>3 DEF ConstructManager
  <2>4. CASE Exit(g)
    BY <1>1, <2>4 DEF Exit
  <2>5. CASE Killed(g)
    BY <1>1, <2>5 DEF Killed
  <2> QED
    BY <2>1, <2>2, <2>3, <2>4, <2>5 DEF ManagerStep
<1>3. PublisherTypeOK'
  BY <1>1, <1>2 DEF PublisherTypeOK
<1>4. MappingsOwned' /\ NothingUsesTheDead' /\ UsedAlone'
  BY <1>1 DEF MappingsOwned, NothingUsesTheDead, Publishing, UsedAlone
<1>5. ConnectInv'
  <2>1. \A i \in Impls : segment_[i] # NULL => segment_[i] \notin Unused
    BY <1>1 DEF MappingsOwned, Unused
  <2>2. \A i \in blockmgr_ : segment_[i] # NULL => segment_[i] \in constructed'
    BY <1>1, <1>2, <2>1 DEF ConnectInv, PublisherTypeOK
  <2> QED
    BY <1>1, <1>2, <2>2 DEF ConnectInv
<1>6. \A v \in Users : CallInv(v)'
  BY <1>1 DEF CallInv
<1> QED
  BY <1>3, <1>4, <1>5, <1>6 DEF PublisherInv

-----------------------------------------------------------------------------
(* The beginning of calls, which touch neither the segment nor its mappings. *)
LEMMA InitialiseStep ==
  ASSUME PublisherInv, NEW u \in Users, NEW h \in Handles, DoInitialise(u, h)
  PROVE  PublisherInv'
<1> USE DEF segmentVars, userVars
<1>1. /\ PublisherTypeOK /\ MappingsOwned /\ NothingUsesTheDead /\ ConnectInv
      /\ UsedAlone /\ \A v \in Users : CallInv(v)
  BY Parts
<1>2. PICK i \in Impls \ alive :
        /\ Free(u) /\ impl_[h] = NULL
        /\ impl_' = [impl_ EXCEPT ![h] = i] /\ alive' = alive \cup {i}
        /\ publishers_' = publishers_ \cup {i} /\ first_run_' = first_run_ \cup {i}
        /\ UNCHANGED <<segmentVars, clientRegistered, segment_, blockmgr_, shm_handle_,
                       mapped, userVars, sent>>
  BY DEF DoInitialise
<1>3. /\ i \notin publishers_ /\ i \notin clientRegistered /\ i \notin blockmgr_
      /\ i \notin shm_handle_ /\ i # NULL /\ \A g \in Handles : impl_[g] # i
  BY <1>1, PublisherAssumption DEF ConnectInv, NothingUsesTheDead
<1>4. \A g \in Handles : impl_'[g] = IF g = h THEN i ELSE impl_[g]
  BY <1>1, <1>2 DEF PublisherTypeOK
<1>5. \A v \in Users : arg[v] # NULL => arg[v] # h /\ arg[v] \in Handles
  BY <1>1, <1>2 DEF CallInv, PublisherTypeOK
<1>6. PublisherTypeOK'
  BY <1>1, <1>2 DEF PublisherTypeOK, SegmentTypeOK
<1>7. MappingsOwned'
  BY <1>1, <1>2 DEF MappingsOwned
<1>8. NothingUsesTheDead'
  <2>1. \A v \in Users : at[v] = "destroy" => dying[v] # i
    BY <1>1, <1>2 DEF NothingUsesTheDead
  <2>2. \A v \in Users : Publishing(v) => arg[v] # NULL
    BY <1>1 DEF CallInv, Publishing
  <2> QED
    BY <1>1, <1>2, <1>4, <1>5, <2>1, <2>2 DEF NothingUsesTheDead, Publishing
<1>9. ConnectInv'
  <2>1. \A v \in Users : at[v] = "find" => arg[v] # NULL
    BY <1>1 DEF CallInv
  <2> QED
    BY <1>1, <1>2, <1>3, <1>4, <1>5, <2>1 DEF ConnectInv
<1>10. UsedAlone'
  BY <1>1, <1>2, <1>4, <1>5 DEF UsedAlone
<1>11. ASSUME NEW v \in Users PROVE CallInv(v)'
  <2>1. at[v] \notin {"idle", "destroy"} => arg[v] # NULL
    BY <1>1 DEF CallInv
  <2>2. arg[v] # NULL => impl_'[arg[v]] = impl_[arg[v]] /\ impl_[arg[v]] # i
    BY <1>3, <1>4, <1>5
  <2> QED
    BY <1>1, <1>2, <2>1, <2>2 DEF CallInv
<1> QED
  BY <1>6, <1>7, <1>8, <1>9, <1>10, <1>11 DEF PublisherInv

LEMMA CopyStep ==
  ASSUME PublisherInv, NEW u \in Users, NEW h \in Handles, NEW g \in Handles,
         Copy(u, h, g)
  PROVE  PublisherInv'
<1> USE DEF segmentVars, userVars, pluginVars
<1>1. /\ PublisherTypeOK /\ MappingsOwned /\ NothingUsesTheDead /\ ConnectInv
      /\ UsedAlone /\ \A v \in Users : CallInv(v)
  BY Parts
<1>2. /\ impl_[h] # NULL /\ impl_[g] = NULL
      /\ impl_' = [impl_ EXCEPT ![g] = impl_[h]]
      /\ UNCHANGED <<segmentVars, alive, publishers_, pluginVars, mapped, userVars, sent>>
  BY DEF Copy
<1>3. \A e \in Handles : impl_'[e] = IF e = g THEN impl_[h] ELSE impl_[e]
  BY <1>1, <1>2 DEF PublisherTypeOK
<1>4. \A v \in Users : arg[v] # NULL =>
        arg[v] # g /\ arg[v] \in Handles /\ impl_'[arg[v]] = impl_[arg[v]]
  BY <1>1, <1>2, <1>3 DEF CallInv, PublisherTypeOK
<1>5. \A v \in Users : at[v] \notin {"idle", "destroy"} => arg[v] # NULL
  BY <1>1 DEF CallInv
<1>6. PublisherTypeOK'
  BY <1>1, <1>2 DEF PublisherTypeOK, SegmentTypeOK
<1>7. MappingsOwned'
  BY <1>1, <1>2 DEF MappingsOwned
<1>8. NothingUsesTheDead'
  BY <1>1, <1>2, <1>3, <1>4, <1>5 DEF NothingUsesTheDead, Publishing
<1>9. ConnectInv'
  BY <1>1, <1>2, <1>4, <1>5 DEF ConnectInv
<1>10. UsedAlone'
  BY <1>1, <1>2, <1>4 DEF UsedAlone
<1>11. ASSUME NEW v \in Users PROVE CallInv(v)'
  BY <1>1, <1>2, <1>4, <1>5 DEF CallInv
<1> QED
  BY <1>6, <1>7, <1>8, <1>9, <1>10, <1>11 DEF PublisherInv

LEMMA PublishStep ==
  ASSUME PublisherInv, NEW u \in Users, NEW h \in Handles, Publish(u, h)
  PROVE  PublisherInv'
<1> USE DEF segmentVars, pluginVars
<1>1. /\ PublisherTypeOK /\ MappingsOwned /\ NothingUsesTheDead /\ ConnectInv
      /\ UsedAlone /\ \A v \in Users : CallInv(v)
  BY Parts
<1> DEFINE i == impl_[h]
           a == IF i \in first_run_ THEN "register" ELSE "check"
<1>2. /\ Free(u) /\ Owner[h] = u /\ i # NULL /\ Exclusive(i) /\ i \in publishers_
      /\ at' = [at EXCEPT ![u] = a] /\ arg' = [arg EXCEPT ![u] = h]
      /\ dying' = [dying EXCEPT ![u] = NULL]
      /\ UNCHANGED <<segmentVars, impl_, alive, publishers_, pluginVars, mapped, sent>>
  BY DEF Publish, Goto
<1>3. i \in Impls /\ h # NULL
  BY <1>1, <1>2, PublisherAssumption DEF PublisherTypeOK
<1>4. /\ at'[u] = a /\ arg'[u] = h
      /\ \A v \in Users : v # u => at'[v] = at[v] /\ arg'[v] = arg[v] /\ dying'[v] = dying[v]
  BY <1>1, <1>2 DEF PublisherTypeOK
<1>5. PublisherTypeOK'
  BY <1>1, <1>2 DEF PublisherTypeOK, SegmentTypeOK
<1>6. MappingsOwned'
  BY <1>1, <1>2 DEF MappingsOwned
<1>7. NothingUsesTheDead'
  BY <1>1, <1>2, <1>4 DEF NothingUsesTheDead, Publishing
<1>8. ConnectInv'
  <2>1. \A j : (\E v \in Users : at[v] = "find" /\ impl_[arg[v]] = j) =>
               \E v \in Users : at'[v] = "find" /\ impl_[arg'[v]] = j
    BY <1>2, <1>4 DEF Free
  <2> QED
    BY <1>1, <1>2, <2>1 DEF ConnectInv
<1>9. UsedAlone'
  BY <1>1, <1>2, <1>4 DEF UsedAlone, Exclusive
<1>10. ASSUME NEW v \in Users PROVE CallInv(v)'
  BY <1>1, <1>2, <1>3, <1>4 DEF CallInv
<1> QED
  BY <1>5, <1>6, <1>7, <1>8, <1>9, <1>10 DEF PublisherInv

-----------------------------------------------------------------------------
(* The end of a handle: whoever destroys the implementation is the only one  *)
(* left that knows it.                                                       *)
LEMMA HandleGone ==
  ASSUME PublisherInv, NEW u \in Users, NEW h \in Handles,
         at[u] = "idle" \/ (at[u] = "reset" /\ arg[u] = h),
         Owner[h] = u, impl_[h] # NULL,
         impl_' = [impl_ EXCEPT ![h] = NULL],
         IF LastHandle(h) THEN Goto(u, "destroy", NULL, impl_[h])
                          ELSE Finish(u) \/ (at[u] = "idle" /\ UNCHANGED userVars),
         UNCHANGED <<segmentVars, alive, publishers_, pluginVars, mapped, sent>>
  PROVE  PublisherInv'
<1> USE DEF segmentVars, pluginVars, userVars, Finish, Goto
<1>1. /\ PublisherTypeOK /\ MappingsOwned /\ NothingUsesTheDead /\ ConnectInv
      /\ UsedAlone /\ \A v \in Users : CallInv(v)
  BY Parts
<1> DEFINE i == impl_[h]
<1>2. i \in Impls /\ i \in alive /\ i # NULL
  BY <1>1 DEF PublisherTypeOK, NothingUsesTheDead
<1>3. \A g \in Handles : impl_'[g] = IF g = h THEN NULL ELSE impl_[g]
  BY <1>1 DEF PublisherTypeOK
<1>4. \A v \in Users : v # u =>
        /\ at'[v] = at[v] /\ arg'[v] = arg[v] /\ dying'[v] = dying[v]
        /\ arg[v] # NULL => arg[v] # h /\ arg[v] \in Handles
                           /\ impl_'[arg[v]] = impl_[arg[v]]
  BY <1>1, <1>3 DEF PublisherTypeOK, CallInv
<1>5. /\ arg'[u] = NULL
      /\ \/ at'[u] = "idle"
         \/ at'[u] = "destroy" /\ dying'[u] = i /\ \A g \in Handles : impl_'[g] # i
  BY <1>1, <1>2, <1>3 DEF PublisherTypeOK, CallInv, LastHandle
<1>6. \A v \in Users : v # u /\ at[v] \notin {"idle", "destroy"} => arg[v] # NULL
  BY <1>1 DEF CallInv
<1>7. PublisherTypeOK'
  <2>1. impl_' \in [Handles -> Impls \cup {NULL}]
    BY <1>1 DEF PublisherTypeOK
  <2>2. /\ at' \in [Users -> Inner \cup {"idle", "reset", "destroy"}]
        /\ arg' \in [Users -> Handles \cup {NULL}]
        /\ dying' \in [Users -> Impls \cup {NULL}]
    BY <1>1, <1>2 DEF PublisherTypeOK
  <2> QED
    BY <1>1, <2>1, <2>2 DEF PublisherTypeOK, SegmentTypeOK
<1>8. MappingsOwned'
  BY <1>1 DEF MappingsOwned
<1>9. NothingUsesTheDead'
  <2>1. \A g \in Handles : impl_'[g] # NULL => impl_'[g] \in alive'
    BY <1>1, <1>3 DEF NothingUsesTheDead
  <2>2. \A v \in Users : Publishing(v)' => v # u /\ Publishing(v)
    BY <1>4, <1>5 DEF Publishing
  <2>3. \A v \in Users : Publishing(v)' => impl_'[arg'[v]] \in publishers_'
    BY <1>1, <1>4, <1>6, <2>2 DEF NothingUsesTheDead, Publishing
  <2>4. \A v \in Users : at[v] = "destroy" => dying[v] # i
    BY <1>1 DEF NothingUsesTheDead
  <2>5. ASSUME NEW v \in Users, at'[v] = "destroy"
        PROVE  /\ dying'[v] \in alive'
               /\ \A g \in Handles : impl_'[g] # dying'[v]
               /\ \A w \in Users \ {v} : at'[w] = "destroy" => dying'[w] # dying'[v]
    <3>1. CASE v = u
      BY <1>2, <1>4, <1>5, <2>4, <2>5, <3>1
    <3>2. CASE v # u
      <4>1. at[v] = "destroy" /\ dying'[v] = dying[v]
        BY <1>4, <2>5, <3>2
      <4>2. dying[v] \in alive /\ dying[v] # NULL
        BY <1>1, <4>1, PublisherAssumption DEF NothingUsesTheDead, PublisherTypeOK
      <4> QED
        BY <1>1, <1>3, <1>4, <1>5, <2>4, <3>2, <4>1, <4>2 DEF NothingUsesTheDead
    <3> QED
      BY <3>1, <3>2
  <2> QED
    BY <2>1, <2>3, <2>5 DEF NothingUsesTheDead
<1>10. ConnectInv'
  <2>1. \A j : (\E v \in Users : at[v] = "find" /\ impl_[arg[v]] = j) =>
               \E v \in Users : at'[v] = "find" /\ impl_'[arg'[v]] = j
    BY <1>4, <1>6
  <2> QED
    BY <1>1, <2>1 DEF ConnectInv
<1>11. UsedAlone'
  BY <1>1, <1>4, <1>5 DEF UsedAlone
<1>12. ASSUME NEW v \in Users PROVE CallInv(v)'
  <2>1. CASE v = u
    BY <1>5, <2>1 DEF CallInv
  <2>2. CASE v # u
    BY <1>1, <1>4, <1>6, <2>2 DEF CallInv
  <2> QED
    BY <2>1, <2>2
<1> QED
  BY <1>7, <1>8, <1>9, <1>10, <1>11, <1>12 DEF PublisherInv

LEMMA DropStep ==
  ASSUME PublisherInv, NEW u \in Users,
         ResetHandle(u) \/ \E h \in Handles : Drop(u, h)
  PROVE  PublisherInv'
<1>1. ASSUME NEW h \in Handles, Drop(u, h) PROVE PublisherInv'
  BY <1>1, HandleGone DEF Drop, Free
<1>2. CASE ResetHandle(u)
  <2>1. at[u] = "reset"
    BY <1>2 DEF ResetHandle
  <2>2. arg[u] \in Handles /\ Owner[arg[u]] = u /\ impl_[arg[u]] # NULL
    BY <2>1, InCall
  <2> QED
    BY <1>2, <2>1, <2>2, HandleGone DEF ResetHandle
<1> QED
  BY <1>1, <1>2

-----------------------------------------------------------------------------
(* The end of a plugin, which nobody is using.                               *)
LEMMA PluginGone ==
  ASSUME PublisherInv, NEW i \in Impls, DestroyPlugin(i),
         UNCHANGED <<segmentVars, impl_>>,
         \A v \in Users : arg[v] # NULL => impl_[arg[v]] # i
  PROVE  /\ MappingsOwned'
         /\ publishers_' = publishers_ \ {i}
         /\ first_run_' \subseteq publishers_' /\ clientRegistered' \subseteq publishers_'
         /\ blockmgr_' \subseteq clientRegistered' /\ shm_handle_' \subseteq blockmgr_'
         /\ first_run_' \cap shm_handle_' = {}
         /\ \A j \in Impls : j \in publishers_' \ first_run_' => j \in clientRegistered'
         /\ \A j \in shm_handle_' : segment_'[j] # NULL
         /\ \A j \in Impls : segment_'[j] # NULL /\ j \notin blockmgr_' =>
              \E v \in Users : at[v] = "find" /\ impl_[arg[v]] = j
         /\ \A j \in blockmgr_' : segment_'[j] # NULL => segment_'[j] \in constructed'
         /\ \A j \in Impls : j # i =>
              /\ segment_'[j] = segment_[j]
              /\ j \in first_run_' <=> j \in first_run_
              /\ j \in clientRegistered' <=> j \in clientRegistered
              /\ j \in blockmgr_' <=> j \in blockmgr_
              /\ j \in shm_handle_' <=> j \in shm_handle_
         /\ publishers_' \subseteq Impls /\ first_run_' \subseteq Impls
         /\ clientRegistered' \subseteq Impls /\ blockmgr_' \subseteq Impls
         /\ shm_handle_' \subseteq Impls
         /\ segment_' \in [Impls -> Segments \cup {NULL}]
         /\ mapped' \subseteq Impls \X Segments
         /\ sent' \in [Impls -> Segments \cup {NULL}]
<1> USE DEF segmentVars, DestroyPlugin, CloseSegment
<1>1. /\ PublisherTypeOK /\ MappingsOwned /\ ConnectInv
  BY Parts
<1>2. \A j \in Impls : segment_'[j] = IF j = i THEN NULL ELSE segment_[j]
  BY <1>1 DEF PublisherTypeOK
<1>3. MappingsOwned'
  BY <1>1, <1>2 DEF MappingsOwned, PublisherTypeOK
<1>4. /\ publishers_' \subseteq Impls /\ first_run_' \subseteq Impls
      /\ clientRegistered' \subseteq Impls /\ blockmgr_' \subseteq Impls
      /\ shm_handle_' \subseteq Impls
      /\ segment_' \in [Impls -> Segments \cup {NULL}]
      /\ mapped' \subseteq Impls \X Segments
      /\ sent' \in [Impls -> Segments \cup {NULL}]
  BY <1>1 DEF PublisherTypeOK
<1> QED
  BY <1>1, <1>2, <1>3, <1>4 DEF ConnectInv, PublisherTypeOK

LEMMA ShutdownStep ==
  ASSUME PublisherInv, NEW u \in Users, NEW h \in Handles, Shutdown(u, h)
  PROVE  PublisherInv'
<1> USE DEF segmentVars, Goto
<1> DEFINE i == impl_[h]
<1>1. /\ PublisherTypeOK /\ NothingUsesTheDead /\ ConnectInv
      /\ UsedAlone /\ \A v \in Users : CallInv(v)
  BY Parts
<1>2. /\ Free(u) /\ Owner[h] = u /\ i # NULL /\ Exclusive(i) /\ DestroyPlugin(i)
      /\ at' = [at EXCEPT ![u] = "reset"] /\ arg' = [arg EXCEPT ![u] = h]
      /\ dying' = [dying EXCEPT ![u] = NULL]
      /\ UNCHANGED <<segmentVars, impl_, alive>>
  BY DEF Shutdown
<1>3. i \in Impls /\ h # NULL
  BY <1>1, <1>2, PublisherAssumption DEF PublisherTypeOK
<1>4. \A v \in Users : arg[v] # NULL => impl_[arg[v]] # i
  BY <1>2 DEF Exclusive
<1> HIDE DEF i
<1>5. /\ at'[u] = "reset" /\ arg'[u] = h
      /\ \A v \in Users : v # u => at'[v] = at[v] /\ arg'[v] = arg[v] /\ dying'[v] = dying[v]
  BY <1>1, <1>2 DEF PublisherTypeOK
<1>6. PublisherTypeOK'
  BY <1>1, <1>2, <1>3, <1>4, PluginGone DEF PublisherTypeOK, SegmentTypeOK
<1>7. MappingsOwned'
  BY <1>2, <1>3, <1>4, PluginGone
<1>8. NothingUsesTheDead'
  <2>1. publishers_' = publishers_ \ {i}
    BY <1>2, <1>3, <1>4, PluginGone
  <2>2. \A v \in Users : Publishing(v)' => v # u /\ Publishing(v) /\ arg[v] # NULL
    BY <1>1, <1>5 DEF Publishing, CallInv
  <2> QED
    BY <1>1, <1>2, <1>4, <1>5, <2>1, <2>2 DEF NothingUsesTheDead
<1>9. ConnectInv'
  <2>1. \A j : (\E v \in Users : at[v] = "find" /\ impl_[arg[v]] = j) =>
               \E v \in Users : at'[v] = "find" /\ impl_'[arg'[v]] = j
    BY <1>2, <1>5 DEF Free
  <2>2. publishers_' \subseteq alive'
    BY <1>1, <1>2, <1>3, <1>4, PluginGone DEF ConnectInv
  <2> QED
    BY <1>1, <1>2, <1>3, <1>4, <2>1, <2>2, PluginGone DEF ConnectInv
<1>10. UsedAlone'
  BY <1>1, <1>2, <1>4, <1>5 DEF UsedAlone, i
<1>11. ASSUME NEW v \in Users PROVE CallInv(v)'
  <2>1. CASE v = u
    BY <1>2, <1>3, <1>5, <2>1 DEF CallInv, i
  <2>2. CASE v # u /\ arg[v] # NULL
    <3>1. impl_[arg[v]] # i /\ impl_[arg[v]] \in Impls
      BY <1>1, <1>4, <2>2 DEF CallInv, PublisherTypeOK
    <3> QED
      BY <1>1, <1>2, <1>3, <1>4, <1>5, <2>2, <3>1, PluginGone DEF CallInv
  <2>3. CASE v # u /\ arg[v] = NULL
    BY <1>1, <1>5, <2>3 DEF CallInv
  <2> QED
    BY <2>1, <2>2, <2>3
<1> QED
  BY <1>6, <1>7, <1>8, <1>9, <1>10, <1>11 DEF PublisherInv

LEMMA DestroyStep ==
  ASSUME PublisherInv, NEW u \in Users, Destroy(u)
  PROVE  PublisherInv'
<1> USE DEF segmentVars, Goto, Finish
<1> DEFINE i == dying[u]
<1>1. /\ PublisherTypeOK /\ NothingUsesTheDead /\ ConnectInv
      /\ UsedAlone /\ \A v \in Users : CallInv(v)
  BY Parts
<1>2. /\ at[u] = "destroy" /\ alive' = alive \ {i} /\ DestroyPlugin(i)
      /\ at' = [at EXCEPT ![u] = "idle"] /\ arg' = [arg EXCEPT ![u] = NULL]
      /\ dying' = [dying EXCEPT ![u] = NULL]
      /\ UNCHANGED <<segmentVars, impl_>>
  BY DEF Destroy
<1>3. /\ i \in Impls /\ \A h \in Handles : impl_[h] # i
      /\ \A v \in Users \ {u} : at[v] = "destroy" => dying[v] # i
  BY <1>1, <1>2 DEF PublisherTypeOK, NothingUsesTheDead
<1>4. \A v \in Users : arg[v] # NULL => arg[v] \in Handles /\ impl_[arg[v]] # i
  BY <1>1, <1>3 DEF PublisherTypeOK
<1> HIDE DEF i
<1>5. /\ at'[u] = "idle" /\ arg'[u] = NULL
      /\ \A v \in Users : v # u => at'[v] = at[v] /\ arg'[v] = arg[v] /\ dying'[v] = dying[v]
  BY <1>1, <1>2 DEF PublisherTypeOK
<1>6. PublisherTypeOK'
  BY <1>1, <1>2, <1>3, <1>4, PluginGone DEF PublisherTypeOK, SegmentTypeOK
<1>7. MappingsOwned'
  BY <1>2, <1>3, <1>4, PluginGone
<1>8. NothingUsesTheDead'
  <2>1. publishers_' = publishers_ \ {i}
    BY <1>2, <1>3, <1>4, PluginGone
  <2>2. \A v \in Users : Publishing(v)' => v # u /\ Publishing(v) /\ arg[v] # NULL
    BY <1>1, <1>5 DEF Publishing, CallInv
  <2> QED
    BY <1>1, <1>2, <1>3, <1>4, <1>5, <2>1, <2>2 DEF NothingUsesTheDead
<1>9. ConnectInv'
  <2>1. \A j : (\E v \in Users : at[v] = "find" /\ impl_[arg[v]] = j) =>
               \E v \in Users : at'[v] = "find" /\ impl_'[arg'[v]] = j
    BY <1>2, <1>5
  <2>2. publishers_' \subseteq alive'
    BY <1>1, <1>2, <1>3, <1>4, PluginGone DEF ConnectInv
  <2> QED
    BY <1>1, <1>2, <1>3, <1>4, <2>1, <2>2, PluginGone DEF ConnectInv
<1>10. UsedAlone'
  BY <1>1, <1>2, <1>5 DEF UsedAlone
<1>11. ASSUME NEW v \in Users PROVE CallInv(v)'
  <2>1. CASE v = u
    BY <1>5, <2>1 DEF CallInv
  <2>2. CASE v # u /\ arg[v] # NULL
    <3>1. impl_[arg[v]] # i /\ impl_[arg[v]] \in Impls
      BY <1>1, <1>4, <2>2 DEF CallInv, PublisherTypeOK
    <3> QED
      BY <1>1, <1>2, <1>3, <1>4, <1>5, <2>2, <3>1, PluginGone DEF CallInv
  <2>3. CASE v # u /\ arg[v] = NULL
    BY <1>1, <1>5, <2>3 DEF CallInv
  <2> QED
    BY <2>1, <2>2, <2>3
<1> QED
  BY <1>6, <1>7, <1>8, <1>9, <1>10, <1>11 DEF PublisherInv

-----------------------------------------------------------------------------
LEMMA PublisherStep == PublisherInv /\ [Next]_vars => PublisherInv'
<1> SUFFICES ASSUME PublisherInv, [Next]_vars PROVE PublisherInv'
  OBVIOUS
<1>1. ASSUME NEW u \in Users, InsideStep(u) PROVE PublisherInv'
  BY <1>1, PublishSteps, DropStep, DestroyStep DEF InsideStep
<1>2. ASSUME NEW u \in Users, CallStep(u) PROVE PublisherInv'
  <2>1. PICK h \in Handles :
          \/ DoInitialise(u, h) \/ Drop(u, h) \/ Shutdown(u, h) \/ Publish(u, h)
          \/ \E g \in Handles : Copy(u, h, g)
    BY <1>2 DEF CallStep
  <2> QED
    BY <2>1, InitialiseStep, DropStep, ShutdownStep, PublishStep, CopyStep
<1>3. CASE UNCHANGED vars
  <2> USE <1>3 DEF vars, segmentVars, pluginVars, userVars
  <2>1. PublisherTypeOK'
    BY Parts DEF PublisherTypeOK, SegmentTypeOK
  <2>2. MappingsOwned' /\ NothingUsesTheDead' /\ UsedAlone'
    BY Parts DEF MappingsOwned, NothingUsesTheDead, UsedAlone, Publishing
  <2>3. ConnectInv' /\ \A u \in Users : CallInv(u)'
    BY Parts DEF ConnectInv, CallInv
  <2> QED
    BY <2>1, <2>2, <2>3 DEF PublisherInv
<1> QED
  BY <1>1, <1>2, <1>3, ManagerKeeps DEF Next

(* At every moment a publisher's mapping, its pointers and the calls inside  *)
(* it agree, and nothing in use is destroyed.                                *)
THEOREM PublisherCorrect == Spec => []PublisherInv
BY PublisherInit, PublisherStep, PTL DEF Spec

(* No call reaches the block manager of a segment that its plugin has not    *)
(* mapped or found the Manager object in.                                    *)
THEOREM CallsFindSegment == Spec => []UsesOpenSegment
<1>1. PublisherInv => UsesOpenSegment
  <2> SUFFICES ASSUME PublisherInv, NEW u \in Users,
                      at[u] \in {"allocate", "reallocate", "serialize"}
               PROVE  LET i == impl_[arg[u]] IN
                      /\ i \in publishers_ /\ i \in blockmgr_
                      /\ <<i, segment_[i]>> \in mapped
                      /\ segment_[i] \in constructed
    BY DEF UsesOpenSegment
  <2>1. /\ MappingsOwned /\ NothingUsesTheDead /\ ConnectInv /\ CallInv(u)
        /\ impl_[arg[u]] \in Impls
    BY Parts, InCall
  <2>2. impl_[arg[u]] \in publishers_
    BY <2>1 DEF NothingUsesTheDead, Publishing
  <2>3. impl_[arg[u]] \in blockmgr_ /\ segment_[impl_[arg[u]]] # NULL
    BY <2>1 DEF CallInv, ConnectInv
  <2> QED
    BY <2>1, <2>2, <2>3 DEF MappingsOwned, ConnectInv
<1> QED
  BY <1>1, PublisherCorrect, PTL

-----------------------------------------------------------------------------
(* The refinement.  What Advertisement sees of a step depends on the plugin  *)
(* that it concerns and on the thread that takes it.                         *)

Connecting(u) == at[u] \in {"find", "allocate"}

(* What Fate is, for a plugin that somebody is, or is not, connecting.       *)
FateOf(i, finding) ==
  IF i \notin publishers_ THEN Gone
  ELSE IF i \in shm_handle_ \/ finding THEN segment_[i]
  ELSE Unbound

(* A publisher that is gone has sent nothing.                                *)
SilentInv == \A i \in Impls : i \notin publishers_ => sent[i] = NULL

KeepInv == PublisherInv /\ SilentInv

(* A step that changes nothing Fate is made of.                              *)
LEMMA FateUnchanged ==
  ASSUME UNCHANGED <<publishers_, shm_handle_, segment_>>,
         \A v \in Users :
           /\ Connecting(v) \/ Connecting(v)' => at'[v] = at[v]
           /\ Connecting(v) => impl_'[arg'[v]] = impl_[arg[v]]
  PROVE  fate' = fate
<1>1. \A v \in Users, a \in {"find", "allocate"} :
        /\ at[v] = a <=> at'[v] = a
        /\ at[v] = a => impl_'[arg'[v]] = impl_[arg[v]]
  BY DEF Connecting
<1>2. \A j \in Impls :
        Inside(j, {"find", "allocate"})' <=> Inside(j, {"find", "allocate"})
  BY <1>1 DEF Inside
<1> QED
  BY <1>2 DEF fate, Fate

(* A step of one thread, alone with one plugin.                              *)
LEMMA FateChanges ==
  ASSUME NEW u \in Users, NEW i \in Impls,
         Differ(publishers_, publishers_', i),
         Differ(shm_handle_, shm_handle_', i),
         \A j \in Impls : j # i => segment_'[j] = segment_[j],
         \A v \in Users : v # u =>
           /\ at'[v] = at[v]
           /\ Connecting(v) => impl_[arg[v]] # i /\ impl_'[arg'[v]] = impl_[arg[v]],
         Connecting(u) => impl_[arg[u]] = i,
         Connecting(u)' => impl_'[arg'[u]] = i
  PROVE  /\ fate[i] = FateOf(i, at[u] \in {"find", "allocate"})
         /\ fate' = [fate EXCEPT ![i] =
                      FateOf(i, at[u] \in {"find", "allocate"})']
<1>1. /\ Inside(i, {"find", "allocate"}) <=> at[u] \in {"find", "allocate"}
      /\ Inside(i, {"find", "allocate"})' <=> at'[u] \in {"find", "allocate"}
  BY DEF Inside, Connecting
<1>2. \A j \in Impls : j # i =>
        Inside(j, {"find", "allocate"})' <=> Inside(j, {"find", "allocate"})
  BY DEF Inside, Connecting
<1>3. \A j \in Impls : j # i => Fate(j)' = Fate(j)
  BY <1>2 DEF Fate, FateOf, Differ
<1>4. /\ Fate(i) = FateOf(i, at[u] \in {"find", "allocate"})
      /\ Fate(i)' = FateOf(i, at[u] \in {"find", "allocate"})'
  BY <1>1 DEF Fate, FateOf
<1>5. fate[i] = Fate(i)
  BY DEF fate
<1>6. fate' = [j \in Impls |-> IF j = i THEN Fate(i)' ELSE Fate(j)]
  BY <1>3 DEF fate
<1>7. fate' = [fate EXCEPT ![i] = Fate(i)']
  BY <1>6 DEF fate
<1> QED
  BY <1>4, <1>5, <1>7

LEMMA PromiseInit == Init => Promise!Init /\ SilentInv
<1> SUFFICES ASSUME Init PROVE Promise!Init /\ SilentInv
  OBVIOUS
<1>1. \A i \in Impls : Fate(i) = Gone
  BY DEF Init, Fate, Inside
<1> QED
  BY <1>1 DEF Init, SegmentInit, Promise!Init, SilentInv, fate, seen

(* The steps that end in no call and touch no plugin.                        *)
LEMMA HandlesUnseen ==
  ASSUME KeepInv, NEW u \in Users,
         \/ ResetHandle(u)
         \/ \E h \in Handles : Drop(u, h) \/ Publish(u, h) \/ \E g \in Handles : Copy(u, h, g)
  PROVE  fate' = fate /\ seen' = seen /\ name' = name /\ SilentInv'
<1>1. /\ PublisherTypeOK /\ \A v \in Users : CallInv(v)
  BY Parts DEF KeepInv
<1>2. /\ UNCHANGED <<segmentVars, publishers_, pluginVars, sent>>
      /\ at[u] \in {"idle", "reset"}
      /\ ~Connecting(u)'
      /\ \A v \in Users : v # u => at'[v] = at[v] /\ arg'[v] = arg[v]
  BY <1>1 DEF ResetHandle, Drop, Publish, Copy, Free, Goto, Finish, userVars,
              PublisherTypeOK, Connecting
<1>3. ASSUME NEW v \in Users, v # u, Connecting(v)
      PROVE  impl_'[arg[v]] = impl_[arg[v]]
  <2>1. arg[v] \in Handles /\ Owner[arg[v]] = v /\ impl_[arg[v]] # NULL
    BY <1>3, InCall DEF Connecting, KeepInv
  <2>2. at[u] = "reset" => Owner[arg[u]] = u
    BY <1>1 DEF CallInv
  <2> QED
    BY <1>1, <1>3, <2>1, <2>2 DEF ResetHandle, Drop, Publish, Copy, PublisherTypeOK
<1>4. \A v \in Users :
        /\ Connecting(v) \/ Connecting(v)' => at'[v] = at[v]
        /\ Connecting(v) => impl_'[arg'[v]] = impl_[arg[v]]
  BY <1>2, <1>3 DEF Connecting
<1>5. fate' = fate
  BY <1>2, <1>4, FateUnchanged DEF pluginVars
<1> QED
  BY <1>2, <1>5 DEF seen, segmentVars, SilentInv, KeepInv

LEMMA InitialiseAdvertises ==
  ASSUME KeepInv, NEW u \in Users, NEW h \in Handles, DoInitialise(u, h)
  PROVE  (\E i \in Impls : Promise!Advertise(i)) /\ SilentInv'
<1>1. PICK i \in Impls \ alive :
        /\ Free(u) /\ impl_[h] = NULL
        /\ impl_' = [impl_ EXCEPT ![h] = i]
        /\ publishers_' = publishers_ \cup {i}
        /\ UNCHANGED <<segmentVars, clientRegistered, segment_, blockmgr_, shm_handle_,
                       mapped, userVars, sent>>
  BY DEF DoInitialise
<1>2. /\ PublisherTypeOK /\ NothingUsesTheDead /\ ConnectInv
      /\ \A v \in Users : CallInv(v)
  BY Parts DEF KeepInv
<1>3. i \notin publishers_ /\ i \notin shm_handle_
  BY <1>2 DEF ConnectInv
<1>4. ASSUME NEW v \in Users, Connecting(v)
      PROVE  impl_[arg[v]] # i /\ impl_'[arg[v]] = impl_[arg[v]]
  <2>1. impl_[arg[v]] \in publishers_ /\ impl_[arg[v]] # NULL
    BY <1>4, InCall, <1>2 DEF Connecting, KeepInv, NothingUsesTheDead, Publishing
  <2> QED
    BY <1>1, <1>2, <1>3, <2>1 DEF PublisherTypeOK
<1>5. at' = at /\ arg' = arg /\ ~Connecting(u) /\ ~Connecting(u)'
  BY <1>1 DEF userVars, Free, Connecting
<1>6. /\ fate[i] = FateOf(i, at[u] \in {"find", "allocate"})
      /\ fate' = [fate EXCEPT ![i] =
                   FateOf(i, at[u] \in {"find", "allocate"})']
  BY <1>1, <1>4, <1>5, FateChanges DEF Differ, KeepInv
<1>7. fate[i] = Gone /\ fate' = [fate EXCEPT ![i] = Unbound]
  BY <1>1, <1>3, <1>5, <1>6 DEF FateOf, Connecting
<1> QED
  BY <1>1, <1>7 DEF Promise!Advertise, seen, segmentVars, SilentInv, KeepInv

(* The end of a plugin: it is gone, or was before.                           *)
LEMMA DestroyUnadvertises ==
  ASSUME KeepInv, NEW u \in Users, NEW i \in Impls, DestroyPlugin(i),
         UNCHANGED <<segmentVars, impl_>>,
         at[u] \in {"idle", "destroy"}, at'[u] \in {"idle", "reset"},
         \A v \in Users : v # u => at'[v] = at[v] /\ arg'[v] = arg[v],
         \A v \in Users : arg[v] # NULL => impl_[arg[v]] # i
  PROVE  /\ Promise!Unadvertise(i) \/ UNCHANGED <<name, fate, seen>>
         /\ SilentInv'
<1>1. /\ PublisherTypeOK /\ ConnectInv /\ \A v \in Users : CallInv(v)
  BY Parts DEF KeepInv
<1>2. \A v \in Users : Connecting(v) => impl_[arg[v]] # i
  BY <1>1 DEF Connecting, CallInv
<1>3. \A j \in Impls : j # i => segment_'[j] = segment_[j]
  BY <1>1 DEF DestroyPlugin, CloseSegment, PublisherTypeOK
<1>4. /\ fate[i] = FateOf(i, at[u] \in {"find", "allocate"})
      /\ fate' = [fate EXCEPT ![i] =
                   FateOf(i, at[u] \in {"find", "allocate"})']
  BY <1>2, <1>3, FateChanges DEF DestroyPlugin, Differ, KeepInv, Connecting
<1>5. fate' = [fate EXCEPT ![i] = Gone]
  BY <1>4 DEF FateOf, DestroyPlugin
<1>6. seen' = [seen EXCEPT ![i] = Gone]
  BY <1>1 DEF DestroyPlugin, seen, PublisherTypeOK
<1>7. SilentInv'
  BY <1>1 DEF DestroyPlugin, SilentInv, KeepInv, PublisherTypeOK
<1>8. CASE i \in publishers_
  <2>1. i \in shm_handle_ => segment_[i] \in Segments
    BY <1>1 DEF ConnectInv, PublisherTypeOK
  <2>2. fate[i] # Gone
    BY <1>4, <1>8, <2>1, PublisherAssumption DEF FateOf
  <2> QED
    BY <1>5, <1>6, <1>7, <2>2 DEF Promise!Unadvertise, segmentVars
<1>9. CASE i \notin publishers_
  <2>1. fate[i] = Gone /\ seen[i] = Gone
    BY <1>4, <1>9 DEF FateOf, seen, SilentInv, KeepInv
  <2>2. fate = [j \in Impls |-> fate[j]] /\ seen = [j \in Impls |-> seen[j]]
    BY DEF fate, seen
  <2>3. fate' = fate
    BY <1>5, <2>1, <2>2
  <2>4. seen' = seen
    BY <1>6, <2>1, <2>2
  <2> QED
    BY <1>7, <2>3, <2>4 DEF segmentVars
<1> QED
  BY <1>8, <1>9

LEMMA EndUnadvertises ==
  ASSUME KeepInv, NEW u \in Users,
         Destroy(u) \/ \E h \in Handles : Shutdown(u, h)
  PROVE  /\ (\E i \in Impls : Promise!Unadvertise(i)) \/ UNCHANGED <<name, fate, seen>>
         /\ SilentInv'
<1>1. PublisherTypeOK /\ NothingUsesTheDead
  BY Parts DEF KeepInv
<1>2. ASSUME NEW h \in Handles, Shutdown(u, h)
      PROVE  /\ Promise!Unadvertise(impl_[h]) \/ UNCHANGED <<name, fate, seen>>
             /\ SilentInv' /\ impl_[h] \in Impls
  BY <1>1, <1>2, DestroyUnadvertises DEF Shutdown, Free, Goto, Exclusive, PublisherTypeOK
<1>3. CASE Destroy(u)
  <2>1. /\ dying[u] \in Impls
        /\ \A v \in Users : arg[v] # NULL => impl_[arg[v]] # dying[u]
    BY <1>1, <1>3 DEF Destroy, NothingUsesTheDead, PublisherTypeOK
  <2> QED
    BY <1>1, <1>3, <2>1, DestroyUnadvertises DEF Destroy, Finish, Goto, PublisherTypeOK
<1> QED
  BY <1>2, <1>3

(* What a step inside publish lets Advertisement see.                        *)
LEMMA CallSees ==
  ASSUME KeepInv, NEW u \in Users, at[u] \in Inner,
         NEW i \in Impls, i = impl_[arg[u]],
         UNCHANGED <<impl_, publishers_>>,
         Connecting(u)' => arg'[u] = arg[u],
         \A v \in Users : v # u => at'[v] = at[v] /\ arg'[v] = arg[v],
         \A j \in Impls : j # i => segment_'[j] = segment_[j],
         Differ(shm_handle_, shm_handle_', i)
  PROVE  \E f, g :
           /\ fate[i] = f /\ fate' = [fate EXCEPT ![i] = g]
           /\ IF i \in shm_handle_ \/ at[u] \in {"find", "allocate"}
                THEN f = segment_[i] ELSE f = Unbound
           /\ IF i \in shm_handle_' \/ at'[u] \in {"find", "allocate"}
                THEN g = segment_'[i] ELSE g = Unbound
<1>1. PublisherTypeOK /\ NothingUsesTheDead
  BY Parts DEF KeepInv
<1>2. /\ i \in publishers_ /\ arg[u] # NULL
      /\ \A v \in Users : v # u /\ arg[v] # NULL => impl_[arg[v]] # i
  BY <1>1, InCall DEF NothingUsesTheDead, Publishing, KeepInv
<1>3. \A v \in Users : Connecting(v) => arg[v] # NULL
  BY Parts DEF KeepInv, CallInv, Connecting
<1>4. /\ fate[i] = FateOf(i, at[u] \in {"find", "allocate"})
      /\ fate' = [fate EXCEPT ![i] =
                   FateOf(i, at[u] \in {"find", "allocate"})']
  BY <1>2, <1>3, FateChanges DEF KeepInv, Differ
<1> DEFINE f == FateOf(i, at[u] \in {"find", "allocate"})
           g == FateOf(i, at[u] \in {"find", "allocate"})'
<1>5. IF i \in shm_handle_ \/ at[u] \in {"find", "allocate"}
      THEN f = segment_[i] ELSE f = Unbound
  BY <1>2 DEF FateOf
<1>6. IF i \in shm_handle_' \/ at'[u] \in {"find", "allocate"}
      THEN g = segment_'[i] ELSE g = Unbound
  BY <1>2 DEF FateOf
<1> HIDE DEF f, g
<1> QED
  BY <1>4, <1>5, <1>6 DEF f, g

(* A step inside publish binds a publisher, loses the block of one that was  *)
(* bound, sends, or shows nothing.                                           *)
LEMMA PublishSimulates ==
  ASSUME KeepInv, NEW u \in Users,
         Register(u) \/ OpenSegment(u) \/ FindManager(u) \/ Allocate(u)
           \/ Check(u) \/ Reallocate(u) \/ Serialize(u)
  PROVE  /\ \/ \E i \in Impls : Promise!Bind(i) \/ Promise!Send(i) \/ Promise!Lose(i)
            \/ UNCHANGED <<name, fate, seen>>
         /\ SilentInv'
<1> DEFINE i == impl_[arg[u]]
<1> USE DEF Differ, Initialised, Continue, Finish, Goto, pluginVars
<1>1. at[u] \in Inner
  BY DEF Register, OpenSegment, FindManager, Allocate, Check, Reallocate, Serialize
<1>2. PublisherTypeOK /\ SegmentTypeOK /\ ConnectInv /\ CallInv(u)
  BY Parts DEF KeepInv
<1>3. i \in Impls /\ arg[u] # NULL /\ i \in publishers_
  BY <1>1, InCall, Parts DEF KeepInv, NothingUsesTheDead, Publishing
<1>4. /\ i \in shm_handle_ => segment_[i] \in Segments
      /\ i \in first_run_ => i \notin shm_handle_
      /\ segment_[i] # NULL => segment_[i] \in Segments
  BY <1>2, <1>3 DEF ConnectInv, PublisherTypeOK
<1>5. UNCHANGED <<name, impl_, publishers_>> /\ (sent' = sent => seen' = seen /\ SilentInv')
  BY DEF Register, OpenSegment, FindManager, Allocate, Check, Reallocate, Serialize,
         segmentVars, seen, SilentInv, KeepInv
<1>6. /\ Connecting(u)' => arg'[u] = arg[u]
      /\ \A v \in Users : v # u => at'[v] = at[v] /\ arg'[v] = arg[v]
  BY <1>2 DEF Register, OpenSegment, FindManager, Allocate, Check, Reallocate, Serialize,
              PublisherTypeOK, Connecting
<1>7. /\ \A j \in Impls : j # i => segment_'[j] = segment_[j]
      /\ Differ(shm_handle_, shm_handle_', i)
  BY <1>2, <1>3 DEF Register, OpenSegment, FindManager, Allocate, Check, Reallocate,
              Serialize, CloseSegment, PublisherTypeOK
<1>8. PICK f, g :
        /\ fate[i] = f /\ fate' = [fate EXCEPT ![i] = g]
        /\ IF i \in shm_handle_ \/ at[u] \in {"find", "allocate"}
             THEN f = segment_[i] ELSE f = Unbound
        /\ IF i \in shm_handle_' \/ at'[u] \in {"find", "allocate"}
             THEN g = segment_'[i] ELSE g = Unbound
  BY <1>1, <1>3, <1>5, <1>6, <1>7, CallSees
<1>9. f = g => fate' = fate
  BY <1>3, <1>8 DEF fate
<1> HIDE DEF i
<1>10. CASE Register(u)
  <2>1. i \in first_run_ /\ at[u] = "register" /\ sent' = sent
    BY <1>2, <1>10 DEF CallInv, Register, i
  <2>2. shm_handle_' = shm_handle_ /\ at'[u] \in {"open", "check"}
    BY <1>2, <1>10 DEF Register, PublisherTypeOK, i
  <2> QED
    BY <1>4, <1>5, <1>8, <1>9, <2>1, <2>2
<1>11. CASE OpenSegment(u)
  <2>1. i \in first_run_ /\ at[u] = "open" /\ sent' = sent
    BY <1>2, <1>11 DEF CallInv, OpenSegment, i
  <2>2. /\ shm_handle_' = shm_handle_
        /\ \/ at'[u] = "find" /\ segment_'[i] = name /\ name # NULL
           \/ at'[u] \in {"check", "idle"}
    BY <1>2, <1>3, <1>11 DEF OpenSegment, PublisherTypeOK, i
  <2>3. f = Unbound /\ (g = f \/ (name \in Segments /\ g = name))
    BY <1>2, <1>4, <1>8, <2>1, <2>2 DEF SegmentTypeOK
  <2> QED
    BY <1>3, <1>5, <1>8, <1>9, <2>1, <2>3 DEF Promise!Bind
<1>12. CASE FindManager(u) \/ Allocate(u)
  <2>1. /\ at[u] \in {"find", "allocate"} /\ sent' = sent
        /\ segment_[i] \in Segments
    BY <1>2, <1>4, <1>12 DEF CallInv, FindManager, Allocate, i
  <2>2. /\ at'[u] \in {"allocate", "check"}
        /\ at'[u] = "allocate" \/ i \in shm_handle_' => segment_'[i] = segment_[i]
    BY <1>2, <1>3, <1>4, <1>12 DEF FindManager, Allocate, CallInv, PublisherTypeOK, i
  <2>3. f = segment_[i] /\ g \in {segment_[i], Unbound}
    BY <1>8, <2>1, <2>2
  <2> QED
    BY <1>3, <1>5, <1>8, <1>9, <2>1, <2>3 DEF Promise!Lose
<1>13. CASE Check(u)
  <2>1. /\ at[u] = "check" /\ at'[u] \in {"reallocate", "idle"}
        /\ UNCHANGED <<shm_handle_, segment_, sent>>
    BY <1>2, <1>4, <1>13 DEF CallInv, Check, PublisherTypeOK, i
  <2> QED
    BY <1>5, <1>8, <1>9, <2>1
<1>14. CASE Reallocate(u) \/ Serialize(u)
  <2>1. /\ i \in shm_handle_ /\ segment_[i] \in Segments
        /\ at[u] \in {"reallocate", "serialize"} /\ at'[u] \in {"serialize", "idle"}
        /\ UNCHANGED segment_
    BY <1>2, <1>4, <1>14 DEF CallInv, Reallocate, Serialize, PublisherTypeOK, i
  <2>2. f = segment_[i] /\ g \in {segment_[i], Unbound}
    BY <1>8, <2>1
  <2>3. CASE sent' = sent
    BY <1>3, <1>5, <1>8, <1>9, <2>1, <2>2, <2>3 DEF Promise!Lose
  <2>4. CASE sent' = [sent EXCEPT ![i] = segment_[i]] /\ shm_handle_' = shm_handle_
    <3>1. g = f
      BY <1>8, <2>1, <2>2, <2>4
    <3>2. seen' = [seen EXCEPT ![i] = segment_[i]]
      BY <1>2, <1>3, <2>1, <2>4, PublisherAssumption DEF seen, PublisherTypeOK
    <3>3. SilentInv'
      BY <1>2, <1>3, <1>5, <2>4 DEF SilentInv, KeepInv, PublisherTypeOK
    <3> QED
      BY <1>3, <1>5, <1>8, <1>9, <2>1, <2>2, <3>1, <3>2, <3>3 DEF Promise!Send
  <2> QED
    BY <1>14, <2>3, <2>4 DEF Reallocate, Serialize, i
<1> QED
  BY <1>10, <1>11, <1>12, <1>13, <1>14

LEMMA ManagersRename ==
  ASSUME KeepInv, SegmentTypeOK', NEW g \in Managers, ManagerStep(g, Unused),
         UNCHANGED <<impl_, alive, publishers_, pluginVars, mapped, userVars, sent>>
  PROVE  Promise!Rename /\ SilentInv'
<1>1. fate' = fate
  BY FateUnchanged DEF pluginVars, userVars
<1> QED
  BY <1>1 DEF Promise!Rename, SegmentTypeOK, seen, SilentInv, KeepInv

LEMMA StepSimulates ==
  KeepInv /\ PublisherInv' /\ [Next]_vars =>
    [Promise!Next]_<<name, fate, seen>> /\ SilentInv'
<1> SUFFICES ASSUME KeepInv, PublisherInv', [Next]_vars
             PROVE  (Promise!Next \/ UNCHANGED <<name, fate, seen>>) /\ SilentInv'
  OBVIOUS
<1> USE DEF Promise!Next
<1>1. ASSUME NEW u \in Users, InsideStep(u)
      PROVE  (Promise!Next \/ UNCHANGED <<name, fate, seen>>) /\ SilentInv'
  BY <1>1, HandlesUnseen, EndUnadvertises, PublishSimulates DEF InsideStep
<1>2. ASSUME NEW u \in Users, CallStep(u)
      PROVE  (Promise!Next \/ UNCHANGED <<name, fate, seen>>) /\ SilentInv'
  BY <1>2, InitialiseAdvertises, HandlesUnseen, EndUnadvertises DEF CallStep
<1>3. ASSUME NEW g \in Managers, ManagerStep(g, Unused),
             UNCHANGED <<impl_, alive, publishers_, pluginVars, mapped, userVars, sent>>
      PROVE  Promise!Next /\ SilentInv'
  <2>1. SegmentTypeOK'
    BY DEF PublisherInv, PublisherTypeOK
  <2> QED
    BY <1>3, <2>1, ManagersRename
<1>4. CASE UNCHANGED vars
  <2>1. fate' = fate
    BY <1>4, FateUnchanged DEF vars, pluginVars, userVars
  <2> QED
    BY <1>4, <2>1 DEF vars, segmentVars, seen, SilentInv, KeepInv
<1> QED
  BY <1>1, <1>2, <1>3, <1>4 DEF Next

(* A Publisher keeps what Advertisement promises: it binds only to the       *)
(* segment that has the name then, and all its messages go to the one it is  *)
(* bound to, whatever takes the name later.                                  *)
THEOREM AdvertisementKept == Spec => ImplementsAdvertisement
<1>1. KeepInv /\ PublisherInv' /\ [Next]_vars => KeepInv'
  BY StepSimulates DEF KeepInv
<1>2. Init => KeepInv
  BY PublisherInit, PromiseInit DEF KeepInv
<1>3. KeepInv /\ PublisherInv' /\ [Next]_vars => [Promise!Next]_<<name, fate, seen>>
  BY StepSimulates
<1>4. Init => Promise!Init
  BY PromiseInit
<1> QED
  BY <1>1, <1>2, <1>3, <1>4, PublisherCorrect, PTL
  DEF Spec, ImplementsAdvertisement, Promise!Spec, Promise!vars
=============================================================================
