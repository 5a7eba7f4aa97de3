-------------------------- MODULE ReleasePoolProofs --------------------------
(***************************************************************************)
(* Proofs about ReleasePool, for any number of threads and objects: its    *)
(* invariant, and that no thread of the application destroys what the pool *)
(* was given.                                                              *)
(***************************************************************************)
EXTENDS ReleasePool, FiniteSetTheorems, TLAPS

(* What a use count says of the holders.                                     *)
LEMMA CountOfHolders ==
  ASSUME PoolTypeOK, NEW o \in Objects
  PROVE  /\ use_count(o) \in Nat
         /\ use_count(o) <= 1 /\ pool[o] > 0 => Holders(o) = {} /\ pool[o] = 1
         /\ \A u \in Users : o \in refs[u] => use_count(o) >= 1 + pool[o]
         /\ \A u \in Users : o \in refs[u] /\ use_count(o) = 1 =>
              Holders(o) = {u} /\ pool[o] = 0
<1>1. pool[o] \in Nat
  BY DEF PoolTypeOK
<1>2. IsFiniteSet(Holders(o)) /\ Cardinality(Holders(o)) \in Nat
  BY PoolAssumption, FS_Subset, FS_CardinalityType DEF Holders
<1>3. Cardinality(Holders(o)) = 0 <=> Holders(o) = {}
  BY <1>2, FS_EmptySet
<1>4. ASSUME NEW u \in Users, o \in refs[u]
      PROVE  u \in Holders(o) /\ Cardinality(Holders(o)) >= 1
  <2>1. u \in Holders(o)
    BY <1>4 DEF Holders
  <2> QED
    BY <1>2, <1>3, <2>1
<1>5. ASSUME NEW u \in Users, o \in refs[u], use_count(o) = 1
      PROVE  Holders(o) = {u} /\ pool[o] = 0
  <2>1. Cardinality(Holders(o)) = 1 /\ pool[o] = 0
    BY <1>1, <1>2, <1>4, <1>5 DEF use_count
  <2>2. \E x : Holders(o) = {x}
    BY <1>2, <2>1, FS_Singleton
  <2> QED
    BY <1>4, <1>5, <2>1, <2>2
<1> QED
  BY <1>1, <1>2, <1>3, <1>4, <1>5 DEF use_count

-----------------------------------------------------------------------------
(* The parts of the invariant that are not one of its named ones.            *)
LifeInv ==
  /\ lives = "before" => Chains = 0 /\ pooled = {}
  /\ lives = "gone" => stopped
  /\ lives # "alive" => handler = "none" /\ m = NULL /\ pool = [o \in Objects |-> 0]
  /\ \A o \in Objects : pool[o] > 0 => o \in exists /\ o \in pooled

LEMMA PoolParts ==
  PoolInv <=> PoolTypeOK /\ OneChain /\ HeldStaysPooled /\ ScanSafe /\ LifeInv
BY DEF PoolInv, LifeInv

LEMMA PoolInit == Init => PoolInv
<1> SUFFICES ASSUME Init PROVE PoolInv
  OBVIOUS
<1> USE PoolAssumption DEF Init, TimerInit
<1>1. PoolTypeOK
  BY DEF PoolTypeOK, TimerTypeOK
<1>2. OneChain /\ HeldStaysPooled
  BY DEF OneChain, HeldStaysPooled
<1>3. ScanSafe
  BY DEF ScanSafe, Free
<1>4. LifeInv
  BY DEF LifeInv, Chains
<1> QED
  BY <1>1, <1>2, <1>3, <1>4, PoolParts

-----------------------------------------------------------------------------
(* A step of the timer alone: the handler's place moves, the one chain stays. *)
LEMMA TimerStep ==
  ASSUME PoolInv, PoolUnchanged, Test \/ Rearm \/ Expire \/ Invoke \/ StopService
  PROVE  PoolInv'
<1> USE DEF PoolUnchanged, scanVars
<1>1. /\ PoolTypeOK /\ OneChain /\ HeldStaysPooled /\ ScanSafe /\ LifeInv
  BY PoolParts
<1>2. HeldStaysPooled'
  BY <1>1 DEF HeldStaysPooled
<1>3. TimerTypeOK
  BY <1>1 DEF PoolTypeOK
<1>4. TimerTypeOK' /\ (lives = "alive" => Chains' = 1 /\ flag_isRunning')
      /\ (lives = "before" => Chains' = 0) /\ (lives = "gone" => stopped')
      /\ (lives # "alive" => handler' = "none")
      /\ (m = Io => handler' = "callback")
  <2>0. lives \in {"before", "alive", "gone"}
    BY <1>1 DEF PoolTypeOK
  <2>1. CASE Test
    BY <1>1, <1>3, <2>1
    DEF Test, TimerTypeOK, Chains, OneChain, LifeInv, ScanSafe
  <2>2. CASE Rearm
    BY <1>1, <1>3, <2>2
    DEF Rearm, TimerTypeOK, Chains, OneChain, LifeInv, ScanSafe
  <2>3. CASE Expire
    BY <1>1, <1>3, <2>3
    DEF Expire, TimerTypeOK, Chains, OneChain, LifeInv, ScanSafe
  <2>4. CASE Invoke
    BY <1>1, <1>3, <2>0, <2>4
    DEF Invoke, TimerTypeOK, Chains, OneChain, LifeInv, ScanSafe
  <2>5. CASE StopService
    BY <1>1, <1>3, <2>5
    DEF StopService, TimerTypeOK, Chains, OneChain, LifeInv, ScanSafe
  <2> QED
    BY <2>1, <2>2, <2>3, <2>4, <2>5
<1>5. PoolTypeOK'
  BY <1>1, <1>4 DEF PoolTypeOK
<1>6. OneChain'
  BY <1>4 DEF OneChain
<1>7. ScanSafe'
  BY <1>1, <1>4 DEF ScanSafe, Holders, Free
<1>8. LifeInv'
  BY <1>1, <1>4 DEF LifeInv
<1> QED
  BY <1>2, <1>5, <1>6, <1>7, <1>8 DEF PoolInv, LifeInv

(* What concerns the references only: neither the timer nor the mutex moves. *)
LEMMA ReferenceStep ==
  ASSUME PoolInv, NEW u \in Users, NEW o \in Objects,
         Create(u, o) \/ Drop(u, o) \/ \E v \in Users : Share(u, v, o)
  PROVE  PoolInv'
<1>1. /\ PoolTypeOK /\ OneChain /\ HeldStaysPooled /\ ScanSafe /\ LifeInv
  BY PoolParts
<1>2. /\ UNCHANGED <<flag_isRunning, pending, ready, handler, stopped>>
      /\ UNCHANGED <<pool, lives, m, adding, tested, doomed>>
      /\ Free(u)
  BY DEF Create, Drop, Share, timerVars, scanVars
<1>3. OneChain'
  BY <1>1, <1>2 DEF OneChain, Chains
<1>4. CASE Create(u, o)
  <2>1. /\ o \notin exists /\ exists' = exists \cup {o} /\ pooled' = pooled \ {o}
        /\ refs' = [refs EXCEPT ![u] = @ \cup {o}]
    BY <1>4 DEF Create
  <2>2. pool[o] = 0 /\ o \notin doomed
    BY <1>1, <2>1 DEF LifeInv, PoolTypeOK, ScanSafe
  <2>3. PoolTypeOK'
    BY <1>1, <1>2, <2>1 DEF PoolTypeOK, TimerTypeOK
  <2>4. HeldStaysPooled'
    BY <1>1, <1>2, <2>1 DEF HeldStaysPooled, PoolTypeOK
  <2>5. ScanSafe'
    BY <1>1, <1>2, <2>1, <2>2 DEF ScanSafe, Holders, Free, PoolTypeOK
  <2>6. LifeInv'
    BY <1>1, <1>2, <2>1, <2>2 DEF LifeInv, Chains
  <2> QED
    BY <1>3, <2>3, <2>4, <2>5, <2>6 DEF PoolInv, LifeInv
<1>5. CASE Drop(u, o)
  <2>1. /\ o \in refs[u] /\ pooled' = pooled
        /\ exists' = IF use_count(o) = 1 THEN exists \ {o} ELSE exists
        /\ refs' = [refs EXCEPT ![u] = @ \ {o}]
    BY <1>5 DEF Drop
  <2>2. o \notin doomed
    BY <1>1, <2>1 DEF ScanSafe, Holders
  <2>3. use_count(o) = 1 => Holders(o) = {u} /\ pool[o] = 0
    BY <1>1, <2>1, CountOfHolders
  <2>4. PoolTypeOK'
    BY <1>1, <1>2, <2>1 DEF PoolTypeOK, TimerTypeOK
  <2>5. HeldStaysPooled'
    <3> SUFFICES ASSUME NEW v \in Users, NEW q \in refs'[v]
                 PROVE  /\ q \in exists'
                        /\ lives = "alive" /\ q \in pooled => pool[q] > 0
      BY <1>2, <2>1 DEF HeldStaysPooled
    <3>1. q \in refs[v] /\ ~(v = u /\ q = o)
      BY <1>1, <2>1 DEF PoolTypeOK
    <3>2. q \in exists /\ (lives = "alive" /\ q \in pooled => pool[q] > 0)
      BY <1>1, <3>1 DEF HeldStaysPooled
    <3>3. q = o => v \in Holders(o)
      BY <3>1 DEF Holders
    <3> QED
      BY <2>1, <2>3, <3>1, <3>2, <3>3
  <2>6. ScanSafe'
    BY <1>1, <1>2, <2>1, <2>2 DEF ScanSafe, Holders, Free, PoolTypeOK
  <2>7. LifeInv'
    BY <1>1, <1>2, <2>1, <2>3 DEF LifeInv, Chains
  <2> QED
    BY <1>3, <2>4, <2>5, <2>6, <2>7 DEF PoolInv, LifeInv
<1>6. ASSUME NEW v \in Users, Share(u, v, o) PROVE PoolInv'
  <2>1. /\ o \in refs[u] /\ UNCHANGED <<exists, pooled>>
        /\ refs' = [refs EXCEPT ![v] = @ \cup {o}]
    BY <1>6 DEF Share
  <2>2. o \notin doomed
    BY <1>1, <2>1 DEF ScanSafe, Holders
  <2>3. PoolTypeOK'
    BY <1>1, <1>2, <2>1 DEF PoolTypeOK, TimerTypeOK
  <2>4. HeldStaysPooled'
    BY <1>1, <1>2, <2>1 DEF HeldStaysPooled, PoolTypeOK
  <2>5. ScanSafe'
    BY <1>1, <1>2, <2>1, <2>2 DEF ScanSafe, Holders, Free, PoolTypeOK
  <2>6. LifeInv'
    BY <1>1, <1>2, <2>1 DEF LifeInv, Chains
  <2> QED
    BY <1>3, <2>3, <2>4, <2>5, <2>6 DEF PoolInv, LifeInv
<1> QED
  BY <1>4, <1>5, <1>6

(* add() and the scan: what they do to the pool, they do with the mutex.     *)
LEMMA AddStep ==
  ASSUME PoolInv, NEW u \in Users,
         AddEnd(u) \/ \E o \in Objects : AddLock(u, o)
  PROVE  PoolInv'
<1>1. /\ PoolTypeOK /\ OneChain /\ HeldStaysPooled /\ ScanSafe /\ LifeInv
  BY PoolParts
<1>2. /\ UNCHANGED <<flag_isRunning, pending, ready, handler, stopped>>
      /\ UNCHANGED <<refs, exists, lives, tested, doomed>>
  BY DEF AddEnd, AddLock, timerVars, scanVars
<1>3. OneChain'
  BY <1>1, <1>2 DEF OneChain, Chains
<1>4. ASSUME NEW o \in Objects, AddLock(u, o) PROVE PoolInv'
  <2>1. /\ lives = "alive" /\ Free(u) /\ o \in refs[u] /\ m = NULL /\ m' = u
        /\ adding' = [adding EXCEPT ![u] = o]
        /\ UNCHANGED <<pool, pooled>>
    BY <1>4 DEF AddLock
  <2>2. NULL # o /\ u # Io /\ u # NULL /\ NULL # Io
    BY PoolAssumption
  <2>3. PoolTypeOK' /\ HeldStaysPooled'
    BY <1>1, <1>2, <2>1 DEF PoolTypeOK, TimerTypeOK, HeldStaysPooled
  <2>4. ScanSafe'
    <3>1. \A v \in Users : v # u => Free(v)
      BY <1>1, <2>1, PoolAssumption DEF ScanSafe
    <3> QED
      BY <1>1, <1>2, <2>1, <2>2, <3>1 DEF ScanSafe, Holders, Free, PoolTypeOK
  <2>5. LifeInv'
    BY <1>1, <1>2, <2>1 DEF LifeInv, Chains
  <2> QED
    BY <1>3, <2>3, <2>4, <2>5 DEF PoolInv, LifeInv
<1>5. ASSUME AddEnd(u) PROVE PoolInv'
  <2> DEFINE o == adding[u]
  <2>1. /\ ~Free(u) /\ m' = NULL /\ adding' = [adding EXCEPT ![u] = NULL]
        /\ \/ /\ pool' = [pool EXCEPT ![o] = @ + 1]
              /\ pooled' = pooled \cup {o}
           \/ UNCHANGED <<pool, pooled>>
    BY <1>5 DEF AddEnd
  <2>2. m = u /\ o \in refs[u] /\ o \in Objects /\ o \in exists
    BY <1>1, <2>1 DEF ScanSafe, PoolTypeOK, HeldStaysPooled
  <2>3. m # Io /\ doomed = {} /\ lives = "alive"
    BY <1>1, <2>2, PoolAssumption DEF ScanSafe, LifeInv
  <2> HIDE DEF o
  <2>4. /\ pool' \in [Objects -> Nat]
        /\ \A q \in Objects : pool'[q] > 0 => pool[q] > 0 \/ (q \in pooled' /\ q \in exists)
        /\ \A q \in Objects : pool[q] > 0 => pool'[q] > 0
        /\ pooled' \subseteq Objects /\ pooled \subseteq pooled'
        /\ \A q \in pooled' : q \in pooled \/ pool'[q] > 0
    <3>0. pool \in [Objects -> Nat] /\ pooled \subseteq Objects
      BY <1>1 DEF PoolTypeOK
    <3>1. CASE UNCHANGED <<pool, pooled>>
      <4>1. pool' = pool /\ pooled' = pooled
        BY <3>1
      <4> QED
        BY <3>0, <4>1
    <3>2. CASE pool' = [pool EXCEPT ![o] = @ + 1] /\ pooled' = pooled \cup {o}
      <4>1. pool' \in [Objects -> Nat]
        BY <2>2, <3>0, <3>2
      <4>2. \A q \in Objects : pool'[q] = IF q = o THEN pool[o] + 1 ELSE pool[q]
        BY <2>2, <3>0, <3>2
      <4>3. \A q \in Objects : pool[q] \in Nat
        BY <3>0
      <4>4. \A q \in Objects : pool[q] > 0 => pool'[q] > 0
        BY <2>2, <4>2, <4>3
      <4>5. \A q \in Objects : pool'[q] > 0 => pool[q] > 0 \/ (q \in pooled' /\ q \in exists)
        BY <2>2, <3>2, <4>2
      <4>6. \A q \in pooled' : q \in pooled \/ pool'[q] > 0
        BY <2>2, <3>2, <4>2, <4>3
      <4> QED
        BY <2>2, <3>0, <3>2, <4>1, <4>4, <4>5, <4>6
    <3> QED
      BY <2>1, <3>1, <3>2
  <2>5. PoolTypeOK'
    BY <1>1, <1>2, <2>1, <2>4 DEF PoolTypeOK, TimerTypeOK
  <2>6. HeldStaysPooled'
    BY <1>1, <1>2, <2>4 DEF HeldStaysPooled, PoolTypeOK
  <2>7. ScanSafe'
    <3>1. \A v \in Users : v # u => Free(v)
      BY <1>1, <2>2 DEF ScanSafe
    <3>2. \A v \in Users : Free(v)'
      BY <1>1, <2>1, <3>1 DEF Free, PoolTypeOK
    <3> QED
      BY <1>2, <2>1, <2>3, <3>2, PoolAssumption DEF ScanSafe
  <2>8. LifeInv'
    BY <1>1, <1>2, <2>3, <2>4 DEF LifeInv, Chains
  <2> QED
    BY <1>3, <2>5, <2>6, <2>7, <2>8 DEF PoolInv, LifeInv
<1> QED
  BY <1>4, <1>5

LEMMA ScanStep ==
  ASSUME PoolInv, ScanLock \/ ScanThrows \/ ScanTest \/ ScanErase
  PROVE  PoolInv'
<1>1. /\ PoolTypeOK /\ OneChain /\ HeldStaysPooled /\ ScanSafe /\ LifeInv
  BY PoolParts
<1>2. handler = "callback" /\ lives = "alive"
  BY <1>1 DEF ScanLock, ScanThrows, ScanTest, ScanErase, LifeInv
<1>3. CASE ScanLock
  <2>1. /\ m = NULL /\ m' = Io /\ tested' = {} /\ doomed' = {}
        /\ UNCHANGED <<flag_isRunning, pending, ready, handler, stopped,
                       refs, exists, pool, lives, adding, pooled>>
    BY <1>3 DEF ScanLock, timerVars
  <2>2. PoolTypeOK' /\ OneChain' /\ HeldStaysPooled'
    BY <1>1, <2>1 DEF PoolTypeOK, TimerTypeOK, OneChain, Chains, HeldStaysPooled
  <2>3. ScanSafe'
    BY <1>1, <1>2, <2>1, PoolAssumption DEF ScanSafe, Free
  <2>4. LifeInv'
    BY <1>1, <1>2, <2>1 DEF LifeInv, Chains
  <2> QED
    BY <2>2, <2>3, <2>4 DEF PoolInv, LifeInv
<1>4. CASE ScanThrows
  <2>1. /\ m = NULL /\ handler' = "rearm"
        /\ UNCHANGED <<flag_isRunning, pending, ready, stopped,
                       refs, exists, pool, lives, m, adding, tested, doomed, pooled>>
    BY <1>4 DEF ScanThrows, CallbackDone, scanVars
  <2>2. PoolTypeOK' /\ HeldStaysPooled'
    BY <1>1, <2>1 DEF PoolTypeOK, TimerTypeOK, HeldStaysPooled
  <2>3. OneChain'
    BY <1>1, <1>2, <2>1 DEF OneChain, Chains
  <2>4. ScanSafe'
    BY <1>1, <2>1, PoolAssumption DEF ScanSafe, Free, Holders
  <2>5. LifeInv'
    BY <1>1, <1>2, <2>1 DEF LifeInv, Chains
  <2> QED
    BY <2>2, <2>3, <2>4, <2>5 DEF PoolInv, LifeInv
<1>5. CASE ScanTest
  <2>1. PICK o \in Objects :
          /\ m = Io /\ pool[o] > 0
          /\ tested' = tested \cup {o}
          /\ doomed' = IF NotActive(o) THEN doomed \cup {o} ELSE doomed
          /\ UNCHANGED <<flag_isRunning, pending, ready, handler, stopped,
                         refs, exists, pool, lives, m, adding, pooled>>
    BY <1>5 DEF ScanTest, timerVars
  <2>2. NotActive(o) => Holders(o) = {} /\ pool[o] = 1
    BY <1>1, <2>1, CountOfHolders DEF NotActive
  <2>3. PoolTypeOK' /\ OneChain' /\ HeldStaysPooled'
    BY <1>1, <2>1 DEF PoolTypeOK, TimerTypeOK, OneChain, Chains, HeldStaysPooled
  <2>4. ScanSafe'
    <3>1. \A q \in doomed' : Holders(q) = {} /\ pool[q] = 1
      BY <1>1, <2>1, <2>2 DEF ScanSafe
    <3> QED
      BY <1>1, <2>1, <3>1 DEF ScanSafe, Free, Holders
  <2>5. LifeInv'
    BY <1>1, <2>1 DEF LifeInv, Chains
  <2> QED
    BY <2>3, <2>4, <2>5 DEF PoolInv, LifeInv
<1>6. CASE ScanErase
  <2>1. /\ m = Io /\ m' = NULL /\ tested' = {} /\ doomed' = {} /\ handler' = "rearm"
        /\ pool' = [o \in Objects |-> IF o \in doomed THEN 0 ELSE pool[o]]
        /\ exists' = exists \ {o \in doomed : Holders(o) = {}}
        /\ UNCHANGED <<flag_isRunning, pending, ready, stopped,
                       refs, lives, adding, pooled>>
    BY <1>6 DEF ScanErase, CallbackDone
  <2>2. PoolTypeOK'
    BY <1>1, <2>1 DEF PoolTypeOK, TimerTypeOK
  <2>3. OneChain'
    BY <1>1, <1>2, <2>1 DEF OneChain, Chains
  <2>4. HeldStaysPooled'
    <3>1. \A u \in Users : \A o \in refs[u] : o \notin doomed /\ o \in Objects
      BY <1>1 DEF ScanSafe, Holders, PoolTypeOK
    <3> QED
      BY <1>1, <2>1, <3>1 DEF HeldStaysPooled
  <2>5. ScanSafe'
    <3>1. \A u \in Users : Free(u) /\ u # NULL
      BY <1>1, <2>1, PoolAssumption DEF ScanSafe
    <3> QED
      BY <2>1, <3>1, PoolAssumption DEF ScanSafe, Free
  <2>6. LifeInv'
    <3>1. \A o \in Objects : pool'[o] > 0 => pool[o] > 0 /\ o \notin doomed
      BY <2>1
    <3> QED
      BY <1>1, <1>2, <2>1, <3>1 DEF LifeInv
  <2> QED
    BY <2>2, <2>3, <2>4, <2>5, <2>6 DEF PoolInv, LifeInv
<1> QED
  BY <1>3, <1>4, <1>5, <1>6

(* The pool's own beginning and end.                                         *)
LEMMA LifeStep ==
  ASSUME PoolInv, Construct \/ Destroy
  PROVE  PoolInv'
<1>1. /\ PoolTypeOK /\ OneChain /\ HeldStaysPooled /\ ScanSafe /\ LifeInv
  BY PoolParts
<1>2. CASE Construct
  <2>1. /\ lives = "before" /\ lives' = "alive"
        /\ flag_isRunning' = TRUE /\ pending' = pending + 1
        /\ UNCHANGED <<ready, handler, stopped, refs, exists, pool, m, adding,
                       tested, doomed, pooled>>
    BY <1>2 DEF Construct, Start, scanVars
  <2>2. PoolTypeOK'
    BY <1>1, <2>1 DEF PoolTypeOK, TimerTypeOK
  <2>3. OneChain'
    BY <1>1, <2>1 DEF OneChain, Chains, LifeInv, PoolTypeOK, TimerTypeOK
  <2>4. HeldStaysPooled'
    BY <1>1, <2>1 DEF HeldStaysPooled, LifeInv
  <2>5. ScanSafe'
    BY <1>1, <2>1 DEF ScanSafe, Free, Holders
  <2>6. LifeInv'
    BY <1>1, <2>1 DEF LifeInv
  <2> QED
    BY <2>2, <2>3, <2>4, <2>5, <2>6 DEF PoolInv, LifeInv
<1>3. CASE Destroy
  <2>1. /\ lives = "alive" /\ stopped /\ handler = "none" /\ lives' = "gone"
        /\ \A u \in Users : Free(u)
        /\ flag_isRunning' = FALSE /\ pending' = 0 /\ ready' = ready + pending
        /\ exists' = exists \ {o \in Objects : pool[o] > 0 /\ Holders(o) = {}}
        /\ pool' = [o \in Objects |-> 0]
        /\ UNCHANGED <<handler, stopped, refs, m, adding, tested, doomed, pooled>>
    BY <1>3 DEF Destroy, Stop, scanVars
  <2>2. m = NULL /\ doomed = {}
    BY <1>1, <2>1 DEF ScanSafe, PoolTypeOK
  <2>3. PoolTypeOK'
    <3>1. pool' \in [Objects -> Nat] /\ exists' \subseteq Objects
      BY <1>1, <2>1 DEF PoolTypeOK
    <3>2. TimerTypeOK'
      <4>1. TimerTypeOK
        BY <1>1 DEF PoolTypeOK
      <4>2. pending' \in Nat /\ ready' \in Nat
        BY <2>1, <4>1 DEF TimerTypeOK
      <4> QED
        BY <2>1, <4>1, <4>2 DEF TimerTypeOK
    <3> QED
      BY <1>1, <2>1, <3>1, <3>2 DEF PoolTypeOK
  <2>4. OneChain' /\ HeldStaysPooled'
    BY <1>1, <2>1 DEF OneChain, HeldStaysPooled, Holders
  <2>5. ScanSafe'
    BY <1>1, <2>1, <2>2 DEF ScanSafe, Free, Holders
  <2>6. LifeInv'
    BY <2>1, <2>2 DEF LifeInv
  <2> QED
    BY <2>3, <2>4, <2>5, <2>6 DEF PoolInv, LifeInv
<1> QED
  BY <1>2, <1>3

-----------------------------------------------------------------------------
LEMMA PoolStep == PoolInv /\ [Next]_vars => PoolInv'
<1> SUFFICES ASSUME PoolInv, [Next]_vars PROVE PoolInv'
  OBVIOUS
<1>1. ASSUME NEW u \in Users, NEW o \in Objects,
             Create(u, o) \/ Drop(u, o) \/ \E v \in Users : Share(u, v, o)
      PROVE  PoolInv'
  BY <1>1, ReferenceStep
<1>2. ASSUME NEW u \in Users, AddEnd(u) \/ \E o \in Objects : AddLock(u, o)
      PROVE  PoolInv'
  BY <1>2, AddStep
<1>3. CASE Construct \/ Destroy
  BY <1>3, LifeStep
<1>4. CASE StopService /\ PoolUnchanged
  BY <1>4, TimerStep
<1>5. CASE IoStep
  BY <1>5, TimerStep, ScanStep DEF IoStep
<1>6. CASE UNCHANGED vars
  BY <1>6
  DEF vars, timerVars, scanVars, PoolInv, PoolTypeOK, TimerTypeOK, OneChain, Chains,
      HeldStaysPooled, ScanSafe, Free, Holders
<1> QED
  BY <1>1, <1>2, <1>3, <1>4, <1>5, <1>6 DEF Next

(* The pool works for any number of threads and objects: one chain of waits, *)
(* whatever is held stays, and nothing in use is released.                   *)
THEOREM PoolCorrect == Spec => []PoolInv
BY PoolInit, PoolStep, PTL DEF Spec

(* No thread of the application destroys what the pool was given: while it   *)
(* holds the object, the pool does too.                                      *)
THEOREM PoolReleases == Spec => ReleasedByPool
<1> DEFINE Kept == \A u \in Users, o \in pooled :
                     lives = "alive" /\ Drop(u, o) => o \in exists'
<1>1. PoolInv /\ [Next]_vars => [Kept]_vars
  <2> SUFFICES ASSUME PoolInv, NEW u \in Users, NEW o \in pooled,
                      lives = "alive", Drop(u, o)
               PROVE  o \in exists'
    OBVIOUS
  <2>1. /\ PoolTypeOK /\ HeldStaysPooled /\ o \in Objects /\ o \in refs[u]
    BY PoolParts DEF PoolTypeOK, Drop
  <2>2. o \in exists /\ pool[o] > 0
    BY <2>1 DEF HeldStaysPooled
  <2>3. use_count(o) # 1
    BY <2>1, <2>2, CountOfHolders
  <2> QED
    BY <2>2, <2>3 DEF Drop
<1> QED
  BY <1>1, PoolInit, PoolStep, PTL DEF Spec, ReleasedByPool
=============================================================================
