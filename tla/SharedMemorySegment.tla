------------------------ MODULE SharedMemorySegment ------------------------
(***************************************************************************)
(* The life of the shared memory segment: manager processes come and go,   *)
(* each removes what has the segment's name, creates a segment of its own  *)
(* and puts the Manager object into it.  A segment without its name lives  *)
(* on in the processes that have mapped it.                                *)
(***************************************************************************)
CONSTANTS Managers,    \* manager processes, each used again when it has ended
          Segments,    \* the segments, used again when nobody maps them
          NULL

VARIABLES
  name,          \* the segment that has the name, or NULL
  constructed,   \* the segments with a Manager object
  main,          \* where each manager is: off, remover, create, construct, serve
  managed_shm    \* the segment that it has mapped

segmentVars == <<name, constructed, main, managed_shm>>

SegmentInit ==
  /\ name = NULL
  /\ constructed = {}
  /\ main = [g \in Managers |-> "off"]
  /\ managed_shm = [g \in Managers |-> NULL]

(* The process ends, the mapping with it. *)
Quit(g) == /\ main' = [main EXCEPT ![g] = "off"]
           /\ managed_shm' = [managed_shm EXCEPT ![g] = NULL]

-----------------------------------------------------------------------------
(* The constructor of shm_remove. *)
Remove(g) ==
  /\ main[g] = "off"
  /\ main' = [main EXCEPT ![g] = "create"]
  /\ name' = NULL
  /\ UNCHANGED <<constructed, managed_shm>>

(* create_only; if another manager was faster it throws, main does not       *)
(* catch it, and whether ~shm_remove still runs is up to the compiler.       *)
CreateSegment(g, unused) ==
  /\ main[g] = "create"
  /\ \/ /\ name = NULL
        /\ \E s \in unused :
             /\ name' = s
             /\ managed_shm' = [managed_shm EXCEPT ![g] = s]
             /\ constructed' = constructed \ {s}
        /\ main' = [main EXCEPT ![g] = "construct"]
     \/ /\ name # NULL
        /\ name' \in {name, NULL}
        /\ Quit(g)
        /\ UNCHANGED constructed

(* find_or_construct "Manager". *)
ConstructManager(g) ==
  /\ main[g] = "construct"
  /\ constructed' = constructed \cup {managed_shm[g]}
  /\ main' = [main EXCEPT ![g] = "serve"]
  /\ UNCHANGED <<name, managed_shm>>

(* The end of main: ~shm_remove removes whatever has the name.               *)
Exit(g) ==
  /\ main[g] = "serve"
  /\ name' = NULL
  /\ Quit(g)
  /\ UNCHANGED constructed

(* A manager that is killed removes nothing. *)
Killed(g) ==
  /\ main[g] # "off"
  /\ Quit(g)
  /\ UNCHANGED <<name, constructed>>

-----------------------------------------------------------------------------
ManagerStep(g, unused) ==
  Remove(g) \/ CreateSegment(g, unused) \/ ConstructManager(g) \/ Exit(g) \/ Killed(g)

SegmentTypeOK ==
  /\ name \in Segments \cup {NULL}
  /\ constructed \subseteq Segments
  /\ main \in [Managers -> {"off", "create", "construct", "serve"}]
  /\ managed_shm \in [Managers -> Segments \cup {NULL}]
=============================================================================
