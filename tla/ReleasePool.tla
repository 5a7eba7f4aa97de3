----------------------------- MODULE ReleasePool -----------------------------
(***************************************************************************)
(* A ReleasePool keeps a reference to each object it was given and lets go *)
(* of it, on the io thread, once it has the only one: so the destructor of *)
(* a pooled object never runs on the threads that use it.  Objects are     *)
(* held through boost::shared_ptr by any number of threads.                *)
(***************************************************************************)
EXTENDS Timer, FiniteSets

CONSTANTS Users,     \* the application's threads
          Objects,   \* the objects they share, used again when they are gone
          MaxAdds,   \* how often an object is added to the pool (a bound)
          Io, NULL

ASSUME PoolAssumption ==
  /\ IsFiniteSet(Users)
  /\ MaxAdds \in Nat
  /\ Io \notin Users /\ NULL \notin Users \cup Objects /\ Io # NULL

VARIABLES
  refs,      \* the objects each thread has a shared_ptr to
  exists,    \* the objects that have not been destroyed
  pool,      \* how many shared_ptrs of each object the pool has
  lives,     \* the pool's own life: before, alive, gone
  m,         \* who has the pool's mutex
  adding,    \* the object that each thread is adding
  tested,    \* the pooled objects that remove_if has tested ...
  doomed     \* ... and found inactive

(* What the properties remember: the objects that were ever added. *)
VARIABLE pooled

scanVars == <<tested, doomed>>
vars == <<timerVars, refs, exists, pool, lives, m, adding, scanVars, pooled>>

Init ==
  /\ TimerInit
  /\ refs = [u \in Users |-> {}]
  /\ exists = {} /\ pooled = {}
  /\ pool = [o \in Objects |-> 0]
  /\ lives = "before"
  /\ m = NULL
  /\ adding = [u \in Users |-> NULL]
  /\ tested = {} /\ doomed = {}

-----------------------------------------------------------------------------
Holders(o) == {u \in Users : o \in refs[u]}
use_count(o) == Cardinality(Holders(o)) + pool[o]
Free(u) == adding[u] = NULL

(* Faults: plausible mistakes for the checks to find, not part of the       *)
(* specification.                                                           *)
FaultNotActive(o) == use_count(o) <= 2

FaultNeverInactive(o) == use_count(o) < 1

FaultScanUnlocked ==
  /\ handler = "callback" /\ m # Io
  /\ m' = Io
  /\ tested' = {} /\ doomed' = {}
  /\ UNCHANGED <<timerVars, refs, exists, pool, lives, adding, pooled>>

-----------------------------------------------------------------------------
(* The application *)

Create(u, o) ==
  /\ Free(u) /\ o \notin exists
  /\ exists' = exists \cup {o}
  /\ pooled' = pooled \ {o}
  /\ refs' = [refs EXCEPT ![u] = @ \cup {o}]
  /\ UNCHANGED <<timerVars, pool, lives, m, adding, scanVars>>

(* One thread gives another one a copy of its shared_ptr. *)
Share(u, v, o) ==
  /\ Free(u) /\ o \in refs[u] /\ o \notin refs[v]
  /\ refs' = [refs EXCEPT ![v] = @ \cup {o}]
  /\ UNCHANGED <<timerVars, exists, pool, lives, m, adding, scanVars, pooled>>

Drop(u, o) ==
  /\ Free(u) /\ o \in refs[u]
  /\ refs' = [refs EXCEPT ![u] = @ \ {o}]
  /\ exists' = IF use_count(o) = 1 THEN exists \ {o} ELSE exists
  /\ UNCHANGED <<timerVars, pool, lives, m, adding, scanVars, pooled>>

-----------------------------------------------------------------------------
(* ReleasePool *)

(* The constructor starts the timer. *)
Construct ==
  /\ lives = "before"
  /\ lives' = "alive"
  /\ Start
  /\ UNCHANGED <<refs, exists, pool, m, adding, scanVars, pooled>>

(* add() takes the mutex ... *)
AddLock(u, o) ==
  /\ lives = "alive"
  /\ Free(u) /\ o \in refs[u] /\ pool[o] < MaxAdds
  /\ m = NULL
  /\ m' = u
  /\ adding' = [adding EXCEPT ![u] = o]
  /\ UNCHANGED <<timerVars, refs, exists, pool, lives, scanVars, pooled>>

(* ... and copies the shared_ptr, unless the vector cannot grow. *)
AddEnd(u) ==
  LET o == adding[u] IN
  /\ ~Free(u)
  /\ \/ /\ pool' = [pool EXCEPT ![o] = @ + 1]
        /\ pooled' = pooled \cup {o}
     \/ UNCHANGED <<pool, pooled>>
  /\ m' = NULL
  /\ adding' = [adding EXCEPT ![u] = NULL]
  /\ UNCHANGED <<timerVars, refs, exists, lives, scanVars>>

(* timerCallback waits for the mutex, which may throw instead of being       *)
(* locked.                                                                   *)
ScanLock ==
  /\ handler = "callback" /\ m = NULL
  /\ m' = Io
  /\ tested' = {} /\ doomed' = {}
  /\ UNCHANGED <<timerVars, refs, exists, pool, lives, adding, pooled>>

ScanThrows ==
  /\ handler = "callback" /\ m = NULL
  /\ CallbackDone
  /\ UNCHANGED <<refs, exists, pool, lives, m, adding, scanVars, pooled>>

NotActive(o) == use_count(o) <= 1

(* remove_if looks at one object after the other, while the threads go on   *)
(* with their own references ...                                            *)
ScanTest ==
  /\ handler = "callback" /\ m = Io
  /\ \E o \in Objects :
       /\ pool[o] > 0 /\ o \notin tested
       /\ tested' = tested \cup {o}
       /\ doomed' = IF NotActive(o) THEN doomed \cup {o} ELSE doomed
  /\ UNCHANGED <<timerVars, refs, exists, pool, lives, m, adding, pooled>>

(* ... and erase lets go of those that it found inactive. *)
ScanErase ==
  /\ handler = "callback" /\ m = Io
  /\ \A o \in Objects : pool[o] > 0 => o \in tested
  /\ pool' = [o \in Objects |-> IF o \in doomed THEN 0 ELSE pool[o]]
  /\ exists' = exists \ {o \in doomed : Holders(o) = {}}
  /\ tested' = {} /\ doomed' = {}
  /\ m' = NULL
  /\ CallbackDone
  /\ UNCHANGED <<refs, lives, adding, pooled>>

(* The destructor, once the io thread has been joined and nobody adds: what *)
(* only the pool has goes with it.  The timer's wait is cancelled, but its  *)
(* handler is not invoked any more.                                         *)
Destroy ==
  /\ lives = "alive" /\ stopped /\ handler = "none"
  /\ \A u \in Users : Free(u)
  /\ lives' = "gone"
  /\ Stop
  /\ pending' = 0 /\ ready' = ready + pending
  /\ exists' = exists \ {o \in Objects : pool[o] > 0 /\ Holders(o) = {}}
  /\ pool' = [o \in Objects |-> 0]
  /\ UNCHANGED <<handler, stopped, refs, m, adding, scanVars, pooled>>

-----------------------------------------------------------------------------
PoolUnchanged == UNCHANGED <<refs, exists, pool, lives, m, adding, scanVars, pooled>>

IoStep ==
  \/ (Test \/ Rearm \/ Expire \/ Invoke) /\ PoolUnchanged
  \/ ScanLock \/ ScanThrows \/ ScanTest \/ ScanErase

Next ==
  \/ \E u \in Users, o \in Objects :
       Create(u, o) \/ Drop(u, o) \/ AddLock(u, o) \/ \E v \in Users : Share(u, v, o)
  \/ \E u \in Users : AddEnd(u)
  \/ Construct \/ Destroy
  \/ StopService /\ PoolUnchanged
  \/ IoStep

Spec == Init /\ [][Next]_vars

(* Time passes, the io thread runs, a mutex that becomes free again and      *)
(* again is obtained, and does not always throw.                             *)
Fairness ==
  /\ WF_vars((Test \/ Rearm \/ Expire \/ Invoke) /\ PoolUnchanged)
  /\ SF_vars(ScanLock)
  /\ WF_vars(ScanTest \/ ScanErase)
  /\ \A u \in Users : WF_vars(AddEnd(u))
FairSpec == Spec /\ Fairness

-----------------------------------------------------------------------------
(* Properties *)

PoolTypeOK ==
  /\ TimerTypeOK
  /\ refs \in [Users -> SUBSET Objects]
  /\ exists \subseteq Objects /\ pooled \subseteq Objects
  /\ pool \in [Objects -> Nat]
  /\ lives \in {"before", "alive", "gone"}
  /\ m \in Users \cup {Io, NULL}
  /\ adding \in [Users -> Objects \cup {NULL}]
  /\ tested \subseteq Objects /\ doomed \subseteq Objects

(* While there is a pool and a service to run it, exactly one call of the    *)
(* handler is to come or under way: the timer neither dies nor fires twice.  *)
OneChain == lives = "alive" => Chains = 1 /\ flag_isRunning

(* What is held exists, and what was added and is still held by a thread is  *)
(* held by the pool too.                                                     *)
HeldStaysPooled ==
  \A u \in Users : \A o \in refs[u] :
    o \in exists /\ (lives = "alive" /\ o \in pooled => pool[o] > 0)

(* Between the test of an object and its release nobody gets hold of it, and *)
(* the vector is touched by whoever has the mutex only.                      *)
ScanSafe ==
  /\ \A o \in doomed : Holders(o) = {} /\ pool[o] = 1
  /\ \A u \in Users : ~Free(u) <=> m = u
  /\ \A u \in Users : ~Free(u) => adding[u] \in refs[u]
  /\ m = Io => handler = "callback"
  /\ m # Io => doomed = {}

PoolInv ==
  /\ PoolTypeOK /\ OneChain /\ HeldStaysPooled /\ ScanSafe
  /\ lives = "before" => Chains = 0 /\ pooled = {}
  /\ lives = "gone" => stopped
  /\ lives # "alive" => handler = "none" /\ m = NULL /\ pool = [o \in Objects |-> 0]
  /\ \A o \in Objects : pool[o] > 0 => o \in exists /\ o \in pooled

(* No thread of the application runs the destructor of an object that the    *)
(* pool was given, as long as there is the pool.                             *)
ReleasedByPool ==
  [][\A u \in Users, o \in pooled :
       lives = "alive" /\ Drop(u, o) => o \in exists']_vars

(* An object that was added once and that nobody holds any more is destroyed *)
(* in the end, unless the service is stopped before.                         *)
Unused(o) == pool[o] = 1 /\ Holders(o) = {}
Released == \A o \in Objects : Unused(o) ~> (o \notin exists \/ stopped)
=============================================================================
