-------------------------- MODULE SubscriberProofs --------------------------
(***************************************************************************)
(* Proofs about Subscriber, for any number of threads, implementations and *)
(* handles.                                                                *)
(***************************************************************************)
EXTENDS Subscriber, TLAPS

USE SubscriberAssumption DEF Actors

-----------------------------------------------------------------------------
(* A free actor has a handle it uses to itself. *)
LEMMA UsedAlone ==
  ASSUME SubscriberInv, NEW x \in Actors, NEW h \in Handles, Free(x), Uses(x, h)
  PROVE  \A y \in Actors : arg[y] # h
<1> SUFFICES ASSUME NEW y \in Actors, arg[y] = h PROVE FALSE
  OBVIOUS
<1>1. h # NULL /\ CallInv(y) /\ CallInv(x)
  BY DEF SubscriberInv
<1>2. x # y /\ at[y] # "idle"
  BY <1>1 DEF CallInv, Free
<1>3. CASE x \in Users
  BY <1>1, <1>2, <1>3 DEF CallInv, Uses
<1>4. CASE x \in Impls
  <2>1. impl_[h] = x /\ thread[x] = "callback" /\ Owner[h] = Callback
    BY <1>4 DEF Uses, Free
  <2>2. y \in Impls
    BY <1>1, <2>1 DEF CallInv
  <2>3. at[y] = "shutdown"
    BY <1>1, <2>1 DEF CallInv, Fresh
  <2> QED BY <1>1, <1>2, <2>1, <2>2, <2>3 DEF CallInv
<1> QED BY <1>3, <1>4

(* The invariant holds at the start: nobody does anything yet. *)
LEMMA InitInv == Init => SubscriberInv
BY DEF Init, SubscriberInv, SubscriberTypeOK, NothingUsesTheDead, CallInv, DestroyInv,
       StopInv, Destroying, Fresh

-----------------------------------------------------------------------------
(* Each step preserves the invariant. *)

LEMMA DoSubscribeInv ==
  ASSUME SubscriberInv, NEW x \in Actors, NEW h \in Handles, DoSubscribe(x, h)
  PROVE  SubscriberInv'
<1>1. PICK i \in Impls \ alive : /\ alive' = alive \cup {i}
                                 /\ impl_' = [impl_ EXCEPT ![h] = i]
  BY DEF DoSubscribe
<1>2. /\ at' = [at EXCEPT ![x] = IF LastHandle(h) THEN "destroy" ELSE "load"]
      /\ arg' = [arg EXCEPT ![x] = h]
      /\ dying' = [dying EXCEPT ![x] = IF LastHandle(h) THEN impl_[h] ELSE NULL]
  BY DEF DoSubscribe, Goto
<1>3. /\ UNCHANGED <<subscriber_, unsubscribed_, is_running, thread, aborted>>
      /\ at[x] = "idle" /\ arg[x] = NULL
  BY DEF DoSubscribe, Free, SubscriberInv, CallInv
<1>4. \A y \in Actors : arg[y] # h
  BY UsedAlone DEF DoSubscribe
<1>5. SubscriberTypeOK /\ NothingUsesTheDead
  BY DEF SubscriberInv
<1>6. SubscriberTypeOK'
  BY <1>1, <1>2, <1>3, <1>5 DEF SubscriberTypeOK
<1>7. /\ i \notin is_running /\ i \notin unsubscribed_ /\ thread[i] = "none"
      /\ \A g \in Handles : impl_[g] # i
      /\ \A y \in Actors : Destroying(y) => dying[y] # i
  BY <1>1, <1>5 DEF SubscriberInv, NothingUsesTheDead, SubscriberTypeOK
<1>8. \A y \in Actors \ {x} : Destroying(y)' = Destroying(y) /\ dying'[y] = dying[y]
  BY <1>2, <1>5 DEF Destroying, SubscriberTypeOK
<1>9. Destroying(x)' => LastHandle(h) /\ dying'[x] = impl_[h]
  BY <1>2, <1>5 DEF Destroying, SubscriberTypeOK
<1>10. \A y \in Actors : Destroying(y) => \A g \in Handles : impl_[g] # dying[y]
  BY DEF SubscriberInv, DestroyInv
<1>11. NothingUsesTheDead'
  <2>1. \A g \in Handles : impl_'[g] # NULL => impl_'[g] \in alive'
    BY <1>1, <1>5 DEF NothingUsesTheDead, SubscriberTypeOK
  <2>2. \A y \in Actors : Destroying(y)' => dying'[y] \in alive'
    BY <1>1, <1>5, <1>8, <1>9 DEF NothingUsesTheDead, LastHandle
  <2>3. \A y, z \in Actors :
          Destroying(y)' /\ Destroying(z)' /\ dying'[y] = dying'[z] => y = z
    BY <1>5, <1>8, <1>9, <1>10 DEF NothingUsesTheDead
  <2>4. \A j \in Impls : thread'[j] # "none" => j \in alive'
    BY <1>1, <1>3, <1>5 DEF NothingUsesTheDead
  <2> QED BY <2>1, <2>2, <2>3, <2>4 DEF NothingUsesTheDead
<1>12. \A y \in Actors : CallInv(y)'
  <2> SUFFICES ASSUME NEW y \in Actors PROVE CallInv(y)'
    OBVIOUS
  <2>1. CASE y = x
    <3>1. Fresh(x)'
      BY <1>1, <1>2, <1>3, <1>5, <1>7 DEF Fresh, SubscriberTypeOK
    <3>2. arg'[x] = h /\ at'[x] \in {"destroy", "load"}
      BY <1>2, <1>5 DEF SubscriberTypeOK
    <3>3. IF x \in Users THEN Owner[h] = x ELSE Owner[h] = Callback
      BY DEF DoSubscribe, Uses
    <3> QED BY <2>1, <3>1, <3>2, <3>3 DEF CallInv
  <2>2. CASE y # x
    <3>1. CallInv(y) /\ at'[y] = at[y] /\ arg'[y] = arg[y] /\ arg[y] \in Handles \cup {NULL}
      BY <1>2, <1>5, <2>2 DEF SubscriberInv, SubscriberTypeOK
    <3>2. arg[y] \in Handles => impl_'[arg[y]] = impl_[arg[y]]
      BY <1>1, <1>4, <1>5 DEF SubscriberTypeOK
    <3>3. arg[y] \in Handles /\ Fresh(y) => Fresh(y)'
      BY <1>1, <1>3, <1>5, <1>7, <3>1, <3>2 DEF Fresh, SubscriberTypeOK
    <3> QED BY <1>3, <3>1, <3>2, <3>3 DEF CallInv
  <2> QED BY <2>1, <2>2
<1>13. \A y \in Actors : DestroyInv(y)'
  <2> SUFFICES ASSUME NEW y \in Actors, Destroying(y)'
               PROVE  /\ dying'[y] \in alive'
                      /\ \A g \in Handles : impl_'[g] # dying'[y]
                      /\ at'[y] = "join" => dying'[y] \notin is_running'
    BY DEF DestroyInv
  <2>1. CASE y = x
    BY <1>1, <1>2, <1>3, <1>5, <1>9, <1>11, <2>1
       DEF LastHandle, NothingUsesTheDead, SubscriberTypeOK
  <2>2. CASE y # x
    BY <1>1, <1>2, <1>3, <1>5, <1>7, <1>8, <1>11, <2>2
       DEF SubscriberInv, DestroyInv, NothingUsesTheDead, SubscriberTypeOK
  <2> QED BY <2>1, <2>2
<1>14. \A y, z \in Actors : arg'[y] = arg'[z] /\ arg'[y] # NULL => y = z
  BY <1>2, <1>4, <1>5 DEF SubscriberInv, SubscriberTypeOK
<1>15. \A j \in Impls : StopInv(j)'
  <2> SUFFICES ASSUME NEW j \in Impls, j \in unsubscribed_, j \in is_running
               PROVE  \E y \in Actors : at'[y] = "shutdown" /\ impl_'[arg'[y]] = j
    BY <1>3 DEF StopInv
  <2>1. PICK y \in Actors : at[y] = "shutdown" /\ impl_[arg[y]] = j
    BY DEF SubscriberInv, StopInv
  <2>2. y # x /\ arg[y] \in Handles
    BY <1>3, <1>5, <2>1 DEF SubscriberInv, CallInv, SubscriberTypeOK
  <2> QED BY <1>1, <1>2, <1>4, <1>5, <2>1, <2>2 DEF SubscriberTypeOK
<1> QED BY <1>1, <1>3, <1>6, <1>11, <1>12, <1>13, <1>14, <1>15 DEF SubscriberInv

(* Load and the end of shutdown() change nothing that other calls look at.   *)
LEMMA LoadInv ==
  ASSUME SubscriberInv, NEW x \in Actors, Load(x)
  PROVE  SubscriberInv'
<1>1. /\ at[x] = "load" /\ arg[x] \in Handles /\ Fresh(x)
      /\ UNCHANGED <<impl_, alive, unsubscribed_, is_running, thread, aborted>>
  BY DEF SubscriberInv, SubscriberTypeOK, CallInv, Load
<1>2. \/ /\ subscriber_' = subscriber_ \cup {impl_[arg[x]]}
         /\ Goto(x, "start", arg[x], NULL)
      \/ Goto(x, "idle", NULL, NULL) /\ UNCHANGED subscriber_
  BY DEF Load, Finish
<1>3. SubscriberTypeOK /\ NothingUsesTheDead
  BY DEF SubscriberInv
<1>4. PICK a \in {"start", "idle"}, h \in {NULL, arg[x]} :
        /\ Goto(x, a, h, NULL)
        /\ a = "idle" <=> h = NULL
  BY <1>1, <1>2
<1>5. /\ \A y \in Actors \ {x} : at'[y] = at[y] /\ arg'[y] = arg[y] /\ dying'[y] = dying[y]
      /\ at'[x] = a /\ arg'[x] = h /\ dying'[x] = NULL
  BY <1>3, <1>4 DEF Goto, SubscriberTypeOK
<1>6. SubscriberTypeOK'
  BY <1>1, <1>2, <1>3, <1>4 DEF Goto, SubscriberTypeOK, Fresh
<1>7. NothingUsesTheDead'
  BY <1>1, <1>3, <1>5 DEF NothingUsesTheDead, Destroying
<1>8. \A y \in Actors : CallInv(y)'
  BY <1>1, <1>4, <1>5 DEF SubscriberInv, CallInv, Fresh
<1>9. \A y \in Actors : DestroyInv(y)'
  BY <1>1, <1>5 DEF SubscriberInv, DestroyInv, Destroying
<1>10. \A y, z \in Actors : arg'[y] = arg'[z] /\ arg'[y] # NULL => y = z
  BY <1>4, <1>5 DEF SubscriberInv
<1>11. \A j \in Impls : StopInv(j)'
  BY <1>1, <1>5 DEF SubscriberInv, StopInv
<1> QED BY <1>1, <1>6, <1>7, <1>8, <1>9, <1>10, <1>11 DEF SubscriberInv

LEMMA StartInv ==
  ASSUME SubscriberInv, NEW x \in Actors, Start(x)
  PROVE  SubscriberInv'
<1> DEFINE i == impl_[arg[x]]
<1>1. /\ at[x] = "start" /\ arg[x] \in Handles /\ Fresh(x) /\ i \in Impls
      /\ UNCHANGED <<impl_, alive, subscriber_, unsubscribed_, aborted>>
      /\ is_running' = is_running \cup {i}
      /\ thread' \in {thread, [thread EXCEPT ![i] = "test"]}
  BY DEF SubscriberInv, SubscriberTypeOK, CallInv, Start, Fresh
<1>2. Goto(x, "idle", NULL, NULL)
  BY DEF Start, Finish
<1>3. SubscriberTypeOK /\ NothingUsesTheDead
  BY DEF SubscriberInv
<1>4. /\ \A y \in Actors \ {x} : at'[y] = at[y] /\ arg'[y] = arg[y] /\ dying'[y] = dying[y]
      /\ at'[x] = "idle" /\ arg'[x] = NULL /\ dying'[x] = NULL
  BY <1>2, <1>3 DEF Goto, SubscriberTypeOK
<1>5. i \in alive /\ i \notin unsubscribed_
  BY <1>1 DEF Fresh
<1>6. SubscriberTypeOK'
  BY <1>1, <1>2, <1>3 DEF Goto, SubscriberTypeOK
<1>7. NothingUsesTheDead'
  BY <1>1, <1>3, <1>4, <1>5 DEF NothingUsesTheDead, Destroying, SubscriberTypeOK
<1>8. \A y \in Actors : CallInv(y)'
  <2> SUFFICES ASSUME NEW y \in Actors, y # x PROVE CallInv(y)'
    BY <1>4 DEF CallInv
  <2>1. /\ CallInv(y) /\ arg[y] \in Handles \cup {NULL}
        /\ arg[y] # NULL => arg[y] # arg[x]
    BY <1>3 DEF SubscriberInv, SubscriberTypeOK
  <2>2. arg[y] # NULL => impl_[arg[y]] # i
    BY <1>1, <2>1 DEF Fresh
  <2>3. arg[y] # NULL /\ Fresh(y) => Fresh(y)'
    BY <1>1, <1>3, <1>4, <2>1, <2>2 DEF Fresh, SubscriberTypeOK
  <2> QED BY <1>1, <1>4, <2>1, <2>3 DEF CallInv
<1>9. \A y \in Actors : DestroyInv(y)'
  BY <1>1, <1>4 DEF SubscriberInv, DestroyInv, Destroying
<1>10. \A y, z \in Actors : arg'[y] = arg'[z] /\ arg'[y] # NULL => y = z
  BY <1>4 DEF SubscriberInv
<1>11. \A j \in Impls : StopInv(j)'
  BY <1>1, <1>4, <1>5 DEF SubscriberInv, StopInv
<1> QED BY <1>1, <1>5, <1>6, <1>7, <1>8, <1>9, <1>10, <1>11 DEF SubscriberInv

LEMMA CopyInv ==
  ASSUME SubscriberInv, NEW x \in Actors, NEW h \in Handles, NEW g \in Handles, Copy(x, h, g)
  PROVE  SubscriberInv'
<1>1. /\ Free(x) /\ Uses(x, h) /\ impl_[h] # NULL /\ impl_[g] = NULL
      /\ \A y \in Actors : arg[y] # g
      /\ impl_' = [impl_ EXCEPT ![g] = impl_[h]]
      /\ UNCHANGED <<implVars, thread, actorVars, aborted>>
  BY DEF Copy
<1>2. SubscriberTypeOK /\ NothingUsesTheDead
  BY DEF SubscriberInv
<1>3. \A y \in Actors : arg[y] # h
  BY <1>1, UsedAlone
<1>4. SubscriberTypeOK'
  BY <1>1, <1>2 DEF SubscriberTypeOK, implVars, actorVars
<1>5. NothingUsesTheDead'
  BY <1>1, <1>2 DEF NothingUsesTheDead, Destroying, SubscriberTypeOK, implVars, actorVars
<1>6. \A y \in Actors : CallInv(y)'
  <2> SUFFICES ASSUME NEW y \in Actors PROVE CallInv(y)'
    OBVIOUS
  <2>1. /\ CallInv(y) /\ arg[y] \in Handles \cup {NULL} /\ arg[y] \notin {g, h}
        /\ arg[y] # NULL => impl_'[arg[y]] = impl_[arg[y]]
    BY <1>1, <1>2, <1>3 DEF SubscriberInv, SubscriberTypeOK
  <2>2. arg[y] # NULL /\ Fresh(y) => Fresh(y)'
    BY <1>1, <1>2, <2>1 DEF Fresh, SubscriberTypeOK, implVars, actorVars
  <2> QED BY <1>1, <2>1, <2>2 DEF CallInv, implVars, actorVars
<1>7. \A y \in Actors : DestroyInv(y)'
  BY <1>1, <1>2 DEF SubscriberInv, DestroyInv, Destroying, SubscriberTypeOK, implVars, actorVars
<1>8. \A j \in Impls : StopInv(j)'
  <2> SUFFICES ASSUME NEW j \in Impls, j \in unsubscribed_, j \in is_running
               PROVE  \E y \in Actors : at[y] = "shutdown" /\ impl_'[arg[y]] = j
    BY <1>1 DEF StopInv, implVars, actorVars
  <2>1. PICK y \in Actors : at[y] = "shutdown" /\ impl_[arg[y]] = j
    BY DEF SubscriberInv, StopInv
  <2>2. arg[y] \in Handles
    BY <1>2, <2>1 DEF SubscriberInv, CallInv, SubscriberTypeOK
  <2> QED BY <1>1, <1>2, <2>1, <2>2 DEF SubscriberTypeOK
<1> QED BY <1>1, <1>4, <1>5, <1>6, <1>7, <1>8 DEF SubscriberInv, implVars, actorVars

LEMMA DropInv ==
  ASSUME SubscriberInv, NEW x \in Actors, NEW h \in Handles, Drop(x, h)
  PROVE  SubscriberInv'
<1>1. /\ Free(x) /\ Uses(x, h) /\ impl_[h] # NULL
      /\ impl_' = [impl_ EXCEPT ![h] = NULL]
      /\ UNCHANGED <<alive, subscriber_, unsubscribed_, is_running, thread, aborted>>
  BY DEF Drop, implVars
<1>2. SubscriberTypeOK /\ NothingUsesTheDead
  BY DEF SubscriberInv
<1>3. at[x] = "idle" /\ arg[x] = NULL /\ \A y \in Actors : arg[y] # h
  BY <1>1, UsedAlone DEF Free, SubscriberInv, CallInv
<1>4. /\ \A y \in Actors \ {x} : at'[y] = at[y] /\ dying'[y] = dying[y]
      /\ \A y \in Actors : arg'[y] = arg[y]
      /\ at'[x] \in {"idle", "destroy"}
      /\ at'[x] = "destroy" => LastHandle(h) /\ dying'[x] = impl_[h]
  <2>1. CASE LastHandle(h)
    <3>1. Goto(x, "destroy", NULL, impl_[h])
      BY <2>1 DEF Drop
    <3> QED BY <2>1, <3>1, <1>2, <1>3 DEF Goto, SubscriberTypeOK
  <2>2. CASE ~LastHandle(h)
    BY <2>2, <1>3 DEF Drop, actorVars
  <2> QED BY <2>1, <2>2
<1>5. SubscriberTypeOK'
  <2>1. impl_[h] \in Impls
    BY <1>1, <1>2 DEF SubscriberTypeOK
  <2> QED BY <1>1, <1>2, <2>1 DEF Drop, Goto, actorVars, SubscriberTypeOK
<1>6. \A y \in Actors : Destroying(y) => \A g \in Handles : impl_[g] # dying[y]
  BY DEF SubscriberInv, DestroyInv
<1>7. /\ \A y \in Actors \ {x} : Destroying(y)' = Destroying(y)
      /\ Destroying(x)' => LastHandle(h) /\ at'[x] = "destroy" /\ dying'[x] = impl_[h]
  BY <1>4 DEF Destroying
<1>8. NothingUsesTheDead'
  <2>1. \A g \in Handles : impl_'[g] # NULL => impl_'[g] \in alive'
    BY <1>1, <1>2 DEF NothingUsesTheDead, SubscriberTypeOK
  <2>2. \A y \in Actors : Destroying(y)' => dying'[y] \in alive'
    BY <1>1, <1>2, <1>4, <1>7 DEF NothingUsesTheDead
  <2>3. \A y, z \in Actors :
          Destroying(y)' /\ Destroying(z)' /\ dying'[y] = dying'[z] => y = z
    BY <1>2, <1>4, <1>6, <1>7 DEF NothingUsesTheDead
  <2> QED BY <1>1, <1>2, <2>1, <2>2, <2>3 DEF NothingUsesTheDead
<1>9. \A y \in Actors : CallInv(y)'
  <2> SUFFICES ASSUME NEW y \in Actors, y # x PROVE CallInv(y)'
    BY <1>3, <1>4 DEF CallInv
  <2>1. /\ CallInv(y) /\ arg[y] \in Handles \cup {NULL}
        /\ arg[y] # NULL => arg[y] # h /\ impl_'[arg[y]] = impl_[arg[y]]
    BY <1>1, <1>2, <1>3 DEF SubscriberInv, SubscriberTypeOK
  <2>2. arg[y] # NULL /\ Fresh(y) => Fresh(y)'
    BY <1>1, <1>2, <1>4, <2>1 DEF Fresh, SubscriberTypeOK
  <2> QED BY <1>1, <1>4, <2>1, <2>2 DEF CallInv
<1>10. \A y \in Actors : DestroyInv(y)'
  <2> SUFFICES ASSUME NEW y \in Actors, Destroying(y)' PROVE DestroyInv(y)'
    BY DEF DestroyInv
  <2>1. CASE y = x
    BY <1>1, <1>2, <1>7, <1>8, <2>1 DEF DestroyInv, LastHandle, NothingUsesTheDead, SubscriberTypeOK
  <2>2. CASE y # x
    BY <1>1, <1>2, <1>4, <1>7, <1>8, <2>2
       DEF SubscriberInv, DestroyInv, NothingUsesTheDead, SubscriberTypeOK
  <2> QED BY <2>1, <2>2
<1>11. \A j \in Impls : StopInv(j)'
  <2> SUFFICES ASSUME NEW j \in Impls, j \in unsubscribed_, j \in is_running
               PROVE  \E y \in Actors : at'[y] = "shutdown" /\ impl_'[arg'[y]] = j
    BY <1>1 DEF StopInv
  <2>1. PICK y \in Actors : at[y] = "shutdown" /\ impl_[arg[y]] = j
    BY DEF SubscriberInv, StopInv
  <2>2. y # x /\ arg[y] \in Handles
    BY <1>2, <1>3, <2>1 DEF SubscriberInv, CallInv, SubscriberTypeOK
  <2> QED BY <1>1, <1>2, <1>3, <1>4, <2>1, <2>2 DEF SubscriberTypeOK
<1>12. \A y, z \in Actors : arg'[y] = arg'[z] /\ arg'[y] # NULL => y = z
  BY <1>4 DEF SubscriberInv
<1> QED BY <1>1, <1>5, <1>8, <1>9, <1>10, <1>11, <1>12 DEF SubscriberInv

LEMMA ShutdownInv ==
  ASSUME SubscriberInv, NEW x \in Actors, NEW h \in Handles, Shutdown(x, h)
  PROVE  SubscriberInv'
<1>1. /\ Free(x) /\ Uses(x, h)
      /\ impl_[h] # NULL /\ impl_[h] \notin unsubscribed_
      /\ unsubscribed_' = unsubscribed_ \cup {impl_[h]}
      /\ Goto(x, "shutdown", h, NULL)
      /\ UNCHANGED <<impl_, alive, subscriber_, is_running, thread, aborted>>
  BY DEF Shutdown
<1>2. SubscriberTypeOK /\ NothingUsesTheDead
  BY DEF SubscriberInv
<1>3. \A y \in Actors : arg[y] # h
  BY <1>1, UsedAlone
<1>4. /\ \A y \in Actors \ {x} : at'[y] = at[y] /\ arg'[y] = arg[y] /\ dying'[y] = dying[y]
      /\ at'[x] = "shutdown" /\ arg'[x] = h /\ impl_[h] \in alive
  BY <1>1, <1>2 DEF Goto, SubscriberTypeOK, NothingUsesTheDead
<1>5. SubscriberTypeOK'
  BY <1>1, <1>2 DEF Goto, SubscriberTypeOK
<1>6. NothingUsesTheDead'
  BY <1>1, <1>2, <1>4 DEF NothingUsesTheDead, Destroying
<1>7. \A y \in Actors : CallInv(y)'
  <2> SUFFICES ASSUME NEW y \in Actors PROVE CallInv(y)'
    OBVIOUS
  <2>1. CASE y = x
    BY <1>1, <1>4, <2>1 DEF CallInv, Uses
  <2>2. CASE y # x
    <3>1. CallInv(y) /\ (arg[y] # NULL /\ Fresh(y) => Fresh(y)')
      BY <1>1, <1>2, <1>3, <1>4, <2>2 DEF SubscriberInv, Fresh
    <3> QED BY <1>1, <1>4, <2>2, <3>1 DEF CallInv
  <2> QED BY <2>1, <2>2
<1>8. \A y \in Actors : DestroyInv(y)'
  BY <1>1, <1>4 DEF SubscriberInv, DestroyInv, Destroying
<1>9. \A y, z \in Actors : arg'[y] = arg'[z] /\ arg'[y] # NULL => y = z
  BY <1>3, <1>4 DEF SubscriberInv
<1>10. \A j \in Impls : StopInv(j)'
  <2> SUFFICES ASSUME NEW j \in Impls, j \in unsubscribed_', j \in is_running
               PROVE  \E y \in Actors : at'[y] = "shutdown" /\ impl_[arg'[y]] = j
    BY <1>1 DEF StopInv
  <2>1. CASE j = impl_[h]
    BY <1>4, <2>1
  <2>2. CASE j # impl_[h]
    <3>1. PICK y \in Actors : at[y] = "shutdown" /\ impl_[arg[y]] = j
      BY <1>1, <2>2 DEF SubscriberInv, StopInv
    <3>2. y # x
      BY <1>1, <3>1 DEF Free
    <3> QED BY <1>4, <3>1, <3>2
  <2> QED BY <2>1, <2>2
<1> QED BY <1>1, <1>4, <1>5, <1>6, <1>7, <1>8, <1>9, <1>10 DEF SubscriberInv

LEMMA ShutdownPluginInv ==
  ASSUME SubscriberInv, NEW x \in Actors, ShutdownPlugin(x)
  PROVE  SubscriberInv'
<1> DEFINE i == impl_[arg[x]]
<1>1. /\ at[x] = "shutdown"
      /\ UNCHANGED <<impl_, alive, subscriber_, unsubscribed_, thread>>
  BY DEF ShutdownPlugin
<1>2. SubscriberTypeOK /\ NothingUsesTheDead
  BY DEF SubscriberInv
<1>3. CASE aborted' = TRUE /\ UNCHANGED <<is_running, actorVars>>
  BY <1>1, <1>3 DEF SubscriberInv, SubscriberTypeOK, NothingUsesTheDead, CallInv, DestroyInv,
                    StopInv, Destroying, Fresh, actorVars
<1>4. CASE is_running' = is_running \ {i} /\ Finish(x) /\ UNCHANGED aborted
  <2>1. /\ \A y \in Actors \ {x} : at'[y] = at[y] /\ arg'[y] = arg[y] /\ dying'[y] = dying[y]
        /\ at'[x] = "idle" /\ arg'[x] = NULL
    BY <1>2, <1>4 DEF Finish, Goto, SubscriberTypeOK
  <2>2. SubscriberTypeOK'
    BY <1>1, <1>2, <1>4 DEF Finish, Goto, SubscriberTypeOK
  <2>3. NothingUsesTheDead'
    BY <1>1, <1>2, <2>1 DEF NothingUsesTheDead, Destroying
  <2>4. \A y \in Actors : CallInv(y)'
    BY <1>1, <1>4, <2>1 DEF SubscriberInv, CallInv, Fresh
  <2>5. \A y \in Actors : DestroyInv(y)'
    BY <1>1, <1>4, <2>1 DEF SubscriberInv, DestroyInv, Destroying
  <2>6. \A y, z \in Actors : arg'[y] = arg'[z] /\ arg'[y] # NULL => y = z
    BY <2>1 DEF SubscriberInv
  <2>7. \A j \in Impls : StopInv(j)'
    BY <1>1, <1>4, <2>1 DEF SubscriberInv, StopInv
  <2> QED BY <1>1, <1>4, <2>2, <2>3, <2>4, <2>5, <2>6, <2>7 DEF SubscriberInv
<1> QED BY <1>3, <1>4 DEF ShutdownPlugin

LEMMA DestroyStepInv ==
  ASSUME SubscriberInv, NEW x \in Actors, Destroy(x)
  PROVE  SubscriberInv'
<1> DEFINE i == dying[x]
<1>1. /\ at[x] = "destroy" /\ Destroying(x)
      /\ UNCHANGED <<impl_, alive, subscriber_, thread>>
  BY DEF Destroy, Destroying
<1>2. SubscriberTypeOK /\ NothingUsesTheDead
  BY DEF SubscriberInv
<1>3. CASE aborted' = TRUE /\ UNCHANGED <<unsubscribed_, is_running, actorVars>>
  BY <1>1, <1>3 DEF SubscriberInv, SubscriberTypeOK, NothingUsesTheDead, CallInv, DestroyInv,
                    StopInv, Destroying, Fresh, actorVars
<1>4. CASE /\ unsubscribed_' = unsubscribed_ \cup {i}
           /\ is_running' = IF i \in unsubscribed_ THEN is_running ELSE is_running \ {i}
           /\ Goto(x, "join", arg[x], i)
           /\ UNCHANGED aborted
  <2>1. /\ i \in alive /\ i \in Impls /\ i # NULL
        /\ \A h \in Handles : impl_[h] # i
    BY <1>1, <1>2 DEF SubscriberInv, DestroyInv, SubscriberTypeOK
  <2>2. /\ \A y \in Actors : arg'[y] = arg[y] /\ dying'[y] = dying[y]
        /\ \A y \in Actors \ {x} : at'[y] = at[y]
        /\ at'[x] = "join"
        /\ \A y \in Actors : Destroying(y)' = Destroying(y)
    BY <1>1, <1>2, <1>4 DEF Goto, SubscriberTypeOK, Destroying
  <2>3. \A y \in Actors : arg[y] # NULL => arg[y] \in Handles /\ impl_[arg[y]] # i
    BY <1>2, <2>1 DEF SubscriberTypeOK
  <2>4. i \notin is_running'
    BY <1>4, <2>1, <2>3 DEF SubscriberInv, StopInv, CallInv
  <2>5. SubscriberTypeOK'
    BY <1>1, <1>2, <1>4, <2>1 DEF Goto, SubscriberTypeOK
  <2>6. NothingUsesTheDead'
    BY <1>1, <1>2, <2>2 DEF NothingUsesTheDead
  <2>7. \A y \in Actors : CallInv(y)'
    <3> SUFFICES ASSUME NEW y \in Actors PROVE CallInv(y)'
      OBVIOUS
    <3>1. arg[y] # NULL /\ Fresh(y) => Fresh(y)'
      BY <1>1, <1>4, <2>2, <2>3 DEF Fresh
    <3> QED BY <1>1, <1>4, <2>2, <3>1 DEF SubscriberInv, CallInv
  <2>8. \A y \in Actors : DestroyInv(y)'
    BY <1>1, <1>4, <2>2, <2>4 DEF SubscriberInv, DestroyInv, Destroying
  <2>9. \A y, z \in Actors : arg'[y] = arg'[z] /\ arg'[y] # NULL => y = z
    BY <2>2 DEF SubscriberInv
  <2>10. \A j \in Impls : StopInv(j)'
    BY <1>1, <1>4, <2>2, <2>4 DEF SubscriberInv, StopInv
  <2> QED BY <1>1, <1>4, <2>1, <2>5, <2>6, <2>7, <2>8, <2>9, <2>10 DEF SubscriberInv
<1> QED BY <1>3, <1>4 DEF Destroy

LEMMA JoinInv ==
  ASSUME SubscriberInv, NEW x \in Actors, Join(x)
  PROVE  SubscriberInv'
<1> DEFINE i == dying[x]
<1>1. at[x] = "join" /\ Destroying(x) /\ UNCHANGED impl_
  BY DEF Join, Destroying
<1>2. SubscriberTypeOK /\ NothingUsesTheDead
  BY DEF SubscriberInv
<1>3. CASE aborted' = TRUE /\ UNCHANGED <<implVars, thread, actorVars>>
  BY <1>1, <1>3 DEF SubscriberInv, SubscriberTypeOK, NothingUsesTheDead, CallInv, DestroyInv,
                    StopInv, Destroying, Fresh, actorVars, implVars
<1>4. CASE /\ alive' = alive \ {i} /\ subscriber_' = subscriber_ \ {i}
           /\ unsubscribed_' = unsubscribed_ \ {i} /\ is_running' = is_running \ {i}
           /\ thread' = [thread EXCEPT ![i] = "none"]
           /\ IF arg[x] = NULL THEN Finish(x) ELSE Goto(x, "load", arg[x], NULL)
           /\ UNCHANGED aborted
  <2>1. i \in alive /\ \A h \in Handles : impl_[h] # i
    BY <1>1 DEF SubscriberInv, DestroyInv
  <2>2. /\ \A y \in Actors : arg'[y] = arg[y]
        /\ \A y \in Actors \ {x} : at'[y] = at[y] /\ dying'[y] = dying[y]
        /\ at'[x] = IF arg[x] = NULL THEN "idle" ELSE "load"
    BY <1>2, <1>4 DEF Goto, Finish, SubscriberTypeOK
  <2>3. \A y \in Actors : arg[y] # NULL => arg[y] \in Handles /\ impl_[arg[y]] # i
    BY <1>2, <2>1 DEF SubscriberTypeOK
  <2>4. /\ ~Destroying(x)'
        /\ \A y \in Actors \ {x} : Destroying(y)' => Destroying(y) /\ dying[y] # i
    BY <1>1, <1>2, <2>2 DEF Destroying, NothingUsesTheDead
  <2>5. SubscriberTypeOK'
    BY <1>1, <1>2, <1>4 DEF Goto, Finish, SubscriberTypeOK
  <2>6. NothingUsesTheDead'
    <3>1. \A j \in Impls : thread'[j] # "none" => j \in alive'
      BY <1>2, <1>4 DEF NothingUsesTheDead, SubscriberTypeOK
    <3>2. \A h \in Handles : impl_'[h] # NULL => impl_'[h] \in alive'
      BY <1>1, <1>2, <1>4, <2>1 DEF NothingUsesTheDead
    <3>3. \A y \in Actors : Destroying(y)' => dying'[y] \in alive'
      BY <1>2, <1>4, <2>2, <2>4 DEF NothingUsesTheDead
    <3>4. \A y, z \in Actors :
            Destroying(y)' /\ Destroying(z)' /\ dying'[y] = dying'[z] => y = z
      BY <1>2, <2>2, <2>4 DEF NothingUsesTheDead
    <3> QED BY <3>1, <3>2, <3>3, <3>4 DEF NothingUsesTheDead
  <2>7. \A y \in Actors : CallInv(y)'
    <3> SUFFICES ASSUME NEW y \in Actors PROVE CallInv(y)'
      OBVIOUS
    <3>1. arg[y] # NULL /\ Fresh(y) => Fresh(y)'
      BY <1>1, <1>2, <1>4, <2>2, <2>3 DEF Fresh, SubscriberTypeOK, NothingUsesTheDead
    <3>2. CallInv(y)
      BY DEF SubscriberInv
    <3>3. CASE y = x
      BY <1>1, <2>2, <3>1, <3>2, <3>3 DEF CallInv
    <3>4. CASE y # x
      BY <1>1, <1>4, <2>2, <2>3, <3>1, <3>2, <3>4 DEF CallInv
    <3> QED BY <3>3, <3>4
  <2>8. \A y \in Actors : DestroyInv(y)'
    <3> SUFFICES ASSUME NEW y \in Actors, y # x, Destroying(y)' PROVE DestroyInv(y)'
      BY <2>4 DEF DestroyInv
    <3>1. /\ Destroying(y) /\ dying'[y] = dying[y] /\ dying[y] # i /\ at'[y] = at[y]
          /\ DestroyInv(y)
      BY <2>2, <2>4 DEF SubscriberInv
    <3> QED BY <1>1, <1>4, <3>1 DEF DestroyInv
  <2>9. \A y, z \in Actors : arg'[y] = arg'[z] /\ arg'[y] # NULL => y = z
    BY <2>2 DEF SubscriberInv
  <2>10. \A j \in Impls : StopInv(j)'
    <3> SUFFICES ASSUME NEW j \in Impls, j \in unsubscribed_, j \in is_running
                 PROVE  \E y \in Actors : at'[y] = "shutdown" /\ impl_[arg'[y]] = j
      BY <1>1, <1>4 DEF StopInv
    <3>1. PICK y \in Actors : at[y] = "shutdown" /\ impl_[arg[y]] = j
      BY DEF SubscriberInv, StopInv
    <3>2. y # x
      BY <1>1, <3>1
    <3> QED BY <2>2, <3>1, <3>2
  <2>11. unsubscribed_' \subseteq alive' /\ is_running' \subseteq alive'
    BY <1>4 DEF SubscriberInv
  <2> QED BY <2>5, <2>6, <2>7, <2>8, <2>9, <2>10, <2>11 DEF SubscriberInv
<1> QED BY <1>3, <1>4 DEF Join

(* A thread that runs goes on or comes to its end: nothing else changes. *)
LEMMA ThreadStepInv ==
  ASSUME SubscriberInv, NEW i \in Impls, ThreadStep(i)
  PROVE  SubscriberInv'
<1>1. PICK a \in {"test", "wait", "callback", "ended"} :
        /\ thread[i] # "none" /\ thread' = [thread EXCEPT ![i] = a]
        /\ UNCHANGED <<impl_, implVars, actorVars, aborted>>
  BY DEF ThreadStep, ThreadTest, ThreadReceive, CallbackEnd
<1>2. SubscriberTypeOK /\ NothingUsesTheDead
  BY DEF SubscriberInv
<1>3. SubscriberTypeOK'
  BY <1>1, <1>2 DEF SubscriberTypeOK, implVars, actorVars
<1>4. \A j \in Impls : thread[j] = "none" => thread'[j] = "none"
  BY <1>1, <1>2 DEF SubscriberTypeOK
<1>5. \A j \in Impls : thread'[j] # "none" => thread[j] # "none"
  BY <1>1, <1>2 DEF SubscriberTypeOK
<1>6. NothingUsesTheDead'
  BY <1>1, <1>2, <1>5 DEF NothingUsesTheDead, Destroying, implVars, actorVars
<1>7. \A y \in Actors : CallInv(y)'
  <2> SUFFICES ASSUME NEW y \in Actors PROVE CallInv(y)'
    OBVIOUS
  <2>1. Fresh(y) => Fresh(y)'
    BY <1>1, <1>2, <1>4 DEF Fresh, SubscriberTypeOK, implVars, actorVars
  <2> QED BY <1>1, <2>1 DEF SubscriberInv, CallInv, implVars, actorVars
<1>8. (\A y \in Actors : DestroyInv(y)') /\ (\A j \in Impls : StopInv(j)')
  BY <1>1 DEF SubscriberInv, DestroyInv, StopInv, Destroying, implVars, actorVars
<1> QED BY <1>1, <1>3, <1>6, <1>7, <1>8 DEF SubscriberInv, implVars, actorVars

LEMMA StutterInv == SubscriberInv /\ UNCHANGED vars => SubscriberInv'
BY DEF SubscriberInv, SubscriberTypeOK, NothingUsesTheDead, CallInv, DestroyInv, StopInv,
       Destroying, Fresh, vars, implVars, actorVars

LEMMA NextInv == SubscriberInv /\ [Next]_vars => SubscriberInv'
<1> SUFFICES ASSUME SubscriberInv, [Next]_vars PROVE SubscriberInv'
  OBVIOUS
<1>1. ASSUME NEW x \in Actors, InsideStep(x) PROVE SubscriberInv'
  BY <1>1, LoadInv, StartInv, ShutdownPluginInv, DestroyStepInv, JoinInv DEF InsideStep
<1>2. ASSUME NEW x \in Actors, CallStep(x) PROVE SubscriberInv'
  BY <1>2, DoSubscribeInv, DropInv, ShutdownInv, CopyInv DEF CallStep
<1> QED BY <1>1, <1>2, ThreadStepInv, StutterInv DEF Next

-----------------------------------------------------------------------------
(* Whatever the application's threads and callbacks do with their handles,   *)
(* the implementations, plugins and threads behind them are consistent.      *)
THEOREM SubscriberCorrect == Spec => []SubscriberInv
BY InitInv, NextInv, PTL DEF Spec

(* No handle, call, destructor or receive thread works on an implementation  *)
(* that has been destroyed.                                                  *)
THEOREM NoUseAfterDestruction == Spec => []NothingUsesTheDead
<1>1. SubscriberInv => NothingUsesTheDead
  BY DEF SubscriberInv
<1> QED BY <1>1, SubscriberCorrect, PTL

(* subscribeImpl never throws "Subscriber is already running." out of a      *)
(* do_subscribe.                                                             *)
THEOREM StartsOnce == Spec => []NeverAlreadyRunning
<1>1. SubscriberInv => NeverAlreadyRunning
  BY DEF SubscriberInv, CallInv, Fresh, NeverAlreadyRunning
<1> QED BY <1>1, SubscriberCorrect, PTL

-----------------------------------------------------------------------------
(* The refinement.  What Subscription sees of a step depends on the thread   *)
(* and the flag of the one implementation that the step concerns.            *)

LEMMA SeenUnchanged ==
  UNCHANGED <<thread, is_running>> => UNCHANGED <<phase, calling, spent>>
BY DEF phase, calling, spent, Phase

LEMMA SeenOfOne ==
  ASSUME SubscriberTypeOK, SubscriberTypeOK', NEW i \in Impls,
         \A j \in Impls \ {i} : /\ thread'[j] = thread[j]
                                /\ j \in is_running' <=> j \in is_running
  PROVE  /\ phase' = [phase EXCEPT ![i] = Phase(i)']
         /\ calling' = IF thread'[i] = "callback" THEN calling \cup {i} ELSE calling \ {i}
         /\ spent' = IF Phase(i)' = "ending" /\ thread'[i] # "wait"
                      THEN spent \cup {i} ELSE spent \ {i}
<1>1. \A j \in Impls \ {i} : Phase(j)' = Phase(j)
  BY DEF Phase
<1>2. phase' = [phase EXCEPT ![i] = Phase(i)']
  BY <1>1 DEF phase
<1>3. calling' = IF thread'[i] = "callback" THEN calling \cup {i} ELSE calling \ {i}
  BY DEF calling
<1>4. spent' = IF Phase(i)' = "ending" /\ thread'[i] # "wait"
               THEN spent \cup {i} ELSE spent \ {i}
  BY <1>1 DEF spent
<1> QED BY <1>2, <1>3, <1>4

LEMMA SeenAt ==
  ASSUME NEW i \in Impls
  PROVE  /\ phase[i] = Phase(i) /\ phase = [phase EXCEPT ![i] = phase[i]]
         /\ i \in calling <=> thread[i] = "callback"
         /\ i \in spent <=> Phase(i) = "ending" /\ thread[i] # "wait"
BY DEF phase, calling, spent

(* is_running is set where there is no thread: Open if one is started.       *)
LEMMA StartedOpens ==
  ASSUME SubscriberTypeOK, SubscriberTypeOK', NEW i \in Impls,
         thread[i] = "none", is_running' = is_running \cup {i},
         thread' \in {thread, [thread EXCEPT ![i] = "test"]}
  PROVE  Promise!Open(i) \/ UNCHANGED <<phase, calling, spent>>
<1>1. /\ phase' = [phase EXCEPT ![i] = Phase(i)']
      /\ calling' = IF thread'[i] = "callback" THEN calling \cup {i} ELSE calling \ {i}
      /\ spent' = IF Phase(i)' = "ending" /\ thread'[i] # "wait"
                   THEN spent \cup {i} ELSE spent \ {i}
  BY SeenOfOne DEF SubscriberTypeOK
<1>2. Phase(i) = "off" /\ thread'[i] \in {"none", "test"}
  BY DEF Phase, SubscriberTypeOK
<1>3. Phase(i)' = IF thread'[i] = "none" THEN "off" ELSE "on"
  BY <1>2 DEF Phase
<1>4. calling' = calling /\ spent' = spent
  BY <1>1, <1>2, <1>3, SeenAt
<1>5. CASE thread'[i] = "none"
  BY <1>1, <1>2, <1>3, <1>4, <1>5, SeenAt
<1>6. CASE thread'[i] # "none"
  BY <1>1, <1>2, <1>3, <1>4, <1>6, SeenAt DEF Promise!Open
<1> QED BY <1>5, <1>6

(* Clearing is_running is Stop for a thread that runs, and nothing at all    *)
(* where there is none.                                                      *)
LEMMA ClearedStops ==
  ASSUME SubscriberTypeOK, SubscriberTypeOK', NEW i \in Impls,
         thread' = thread, is_running' = is_running \ {i}
  PROVE  Promise!Stop(i) \/ UNCHANGED <<phase, calling, spent>>
<1>1. /\ phase' = [phase EXCEPT ![i] = Phase(i)']
      /\ calling' = IF thread[i] = "callback" THEN calling \cup {i} ELSE calling \ {i}
      /\ spent' = IF Phase(i)' = "ending" /\ thread[i] # "wait"
                   THEN spent \cup {i} ELSE spent \ {i}
  BY SeenOfOne
<1>2. calling' = calling
  BY <1>1, SeenAt
<1>3. CASE i \notin is_running
  BY <1>3, SeenUnchanged
<1>4. CASE thread[i] \in {"none", "ended"}
  <2>1. Phase(i)' = Phase(i) /\ Phase(i) # "ending"
    BY <1>4 DEF Phase
  <2> QED BY <1>1, <1>2, <2>1, SeenAt
<1>5. CASE i \in is_running /\ thread[i] \notin {"none", "ended"}
  <2>1. Phase(i) = "on" /\ Phase(i)' = "ending"
    BY <1>5 DEF Phase
  <2> QED BY <1>1, <1>2, <2>1, SeenAt DEF Promise!Stop
<1> QED BY <1>3, <1>4, <1>5

(* A plugin is destroyed when its thread has ended, or never was.            *)
LEMMA DestroyedForgets ==
  ASSUME SubscriberTypeOK, SubscriberTypeOK', NEW i \in Impls,
         thread[i] \in {"none", "ended"}, thread' = [thread EXCEPT ![i] = "none"],
         is_running' = is_running \ {i}
  PROVE  Promise!Forget(i) \/ UNCHANGED <<phase, calling, spent>>
<1>1. /\ phase' = [phase EXCEPT ![i] = Phase(i)']
      /\ calling' = IF thread'[i] = "callback" THEN calling \cup {i} ELSE calling \ {i}
      /\ spent' = IF Phase(i)' = "ending" /\ thread'[i] # "wait"
                   THEN spent \cup {i} ELSE spent \ {i}
  BY SeenOfOne DEF SubscriberTypeOK
<1>2. thread'[i] = "none" /\ Phase(i)' = "off" /\ Phase(i) \in {"off", "over"}
  BY DEF Phase, SubscriberTypeOK
<1>3. calling' = calling /\ spent' = spent
  BY <1>1, <1>2, SeenAt
<1>4. CASE Phase(i) = "off"
  BY <1>1, <1>2, <1>3, <1>4, SeenAt
<1>5. CASE Phase(i) = "over"
  BY <1>1, <1>2, <1>3, <1>5, SeenAt DEF Promise!Forget
<1> QED BY <1>2, <1>4, <1>5

LEMMA PromiseInit == Init => Promise!Init
BY DEF Init, Promise!Init, phase, calling, spent, Phase

(* Every step of a call is a step of Subscription or leaves it as it is.     *)
LEMMA InsideSimulates ==
  ASSUME SubscriberInv, SubscriberInv', NEW x \in Actors, InsideStep(x)
  PROVE  Promise!Next \/ UNCHANGED <<phase, calling, spent>>
<1>1. SubscriberTypeOK /\ SubscriberTypeOK' /\ arg[x] \in Handles \cup {NULL}
  BY DEF SubscriberInv, SubscriberTypeOK
<1>2. CASE Load(x)
  BY <1>2, SeenUnchanged DEF Load
<1>3. CASE Start(x)
  <2>1. impl_[arg[x]] \in Impls /\ thread[impl_[arg[x]]] = "none"
    BY <1>1, <1>3 DEF Start, SubscriberInv, CallInv, Fresh, SubscriberTypeOK
  <2> QED BY <1>1, <1>3, <2>1, StartedOpens DEF Start, Promise!Next
<1>4. CASE ShutdownPlugin(x)
  <2>1. impl_[arg[x]] \in Impls
    BY <1>1, <1>4 DEF ShutdownPlugin, SubscriberInv, CallInv, SubscriberTypeOK
  <2>2. CASE is_running' = is_running
    BY <1>4, <2>2, SeenUnchanged DEF ShutdownPlugin
  <2>3. CASE is_running' = is_running \ {impl_[arg[x]]}
    BY <1>1, <1>4, <2>1, <2>3, ClearedStops DEF ShutdownPlugin, Promise!Next
  <2> QED BY <1>4, <2>2, <2>3 DEF ShutdownPlugin
<1>5. CASE Destroy(x)
  <2>1. dying[x] \in Impls
    BY <1>1, <1>5 DEF Destroy, SubscriberInv, DestroyInv, Destroying, SubscriberTypeOK
  <2>2. CASE is_running' = is_running
    BY <1>5, <2>2, SeenUnchanged DEF Destroy
  <2>3. CASE is_running' = is_running \ {dying[x]}
    BY <1>1, <1>5, <2>1, <2>3, ClearedStops DEF Destroy, Promise!Next
  <2> QED BY <1>5, <2>2, <2>3 DEF Destroy
<1>6. CASE Join(x)
  <2>1. dying[x] \in Impls
    BY <1>1, <1>6 DEF Join, SubscriberInv, DestroyInv, Destroying, SubscriberTypeOK
  <2>2. CASE UNCHANGED <<implVars, thread>>
    BY <2>2, SeenUnchanged DEF implVars
  <2>3. CASE /\ thread[dying[x]] \in {"none", "ended"}
             /\ thread' = [thread EXCEPT ![dying[x]] = "none"]
             /\ is_running' = is_running \ {dying[x]}
    BY <1>1, <2>1, <2>3, DestroyedForgets DEF Promise!Next
  <2> QED BY <1>6, <2>2, <2>3 DEF Join
<1> QED BY <1>2, <1>3, <1>4, <1>5, <1>6 DEF InsideStep

(* And so is every step of a receive thread: a test that fails is the end, a *)
(* message a call, and a wait that ends without one after the stop gives the *)
(* last call up.  The destructor interrupts nobody whose flag is still set.  *)
LEMMA ThreadSimulates ==
  ASSUME SubscriberInv, SubscriberInv', NEW i \in Impls, ThreadStep(i)
  PROVE  Promise!Next \/ UNCHANGED <<phase, calling, spent>>
<1>1. SubscriberTypeOK /\ SubscriberTypeOK' /\ is_running' = is_running
  BY DEF SubscriberInv, ThreadStep, ThreadTest, ThreadReceive, CallbackEnd, implVars
<1>2. PICK a \in {"test", "wait", "callback", "ended"} : thread' = [thread EXCEPT ![i] = a]
  BY DEF ThreadStep, ThreadTest, ThreadReceive, CallbackEnd
<1>3. thread'[i] = a
  BY <1>1, <1>2 DEF SubscriberTypeOK
<1>4. /\ phase' = [phase EXCEPT ![i] = Phase(i)']
      /\ calling' = IF thread'[i] = "callback" THEN calling \cup {i} ELSE calling \ {i}
      /\ spent' = IF Phase(i)' = "ending" /\ thread'[i] # "wait"
                   THEN spent \cup {i} ELSE spent \ {i}
  BY <1>1, <1>2, SeenOfOne DEF SubscriberTypeOK
<1>5. CASE ThreadTest(i)
  <2>1. thread[i] = "test" /\ a = IF i \in is_running THEN "wait" ELSE "ended"
    BY <1>1, <1>3, <1>5 DEF ThreadTest, SubscriberTypeOK
  <2>2. CASE i \in is_running
    <3>1. Phase(i) = "on" /\ Phase(i)' = "on"
      BY <1>1, <1>3, <2>1, <2>2 DEF Phase
    <3> QED BY <1>3, <1>4, <2>1, <2>2, <3>1, SeenAt
  <2>3. CASE i \notin is_running
    <3>1. Phase(i) = "ending" /\ Phase(i)' = "over"
      BY <1>1, <1>3, <2>1, <2>3 DEF Phase
    <3> QED BY <1>3, <1>4, <2>1, <2>3, <3>1, SeenAt DEF Promise!Next, Promise!End
  <2> QED BY <2>2, <2>3
<1>6. CASE ThreadReceive(i)
  <2>1. thread[i] = "wait" /\ a \in {"test", "callback"}
    BY <1>1, <1>3, <1>6 DEF ThreadReceive, SubscriberTypeOK
  <2>2. /\ Phase(i) = IF i \in is_running THEN "on" ELSE "ending"
        /\ Phase(i)' = Phase(i)
    BY <1>1, <1>3, <2>1 DEF Phase
  <2>3. CASE a = "callback"
    BY <1>3, <1>4, <2>1, <2>2, <2>3, SeenAt DEF Promise!Next, Promise!Call
  <2>4. CASE a = "test" /\ Phase(i) = "ending"
    BY <1>3, <1>4, <2>1, <2>2, <2>4, SeenAt DEF Promise!Next, Promise!GiveUp
  <2>5. CASE a = "test" /\ Phase(i) = "on"
    BY <1>3, <1>4, <2>1, <2>2, <2>5, SeenAt
  <2> QED BY <2>1, <2>2, <2>3, <2>4, <2>5
<1>7. CASE CallbackEnd(i)
  <2>1. thread[i] = "callback" /\ a \in {"test", "ended"}
    BY <1>1, <1>3, <1>7 DEF CallbackEnd, SubscriberTypeOK
  <2>2. Phase(i) = IF i \in is_running THEN "on" ELSE "ending"
    BY <2>1 DEF Phase
  <2>3. CASE a = "test"
    <3>1. Phase(i)' = Phase(i)
      BY <1>1, <1>3, <2>1, <2>3 DEF Phase
    <3> QED BY <1>3, <1>4, <2>1, <2>2, <2>3, <3>1, SeenAt DEF Promise!Next, Promise!Return
  <2>4. CASE a = "ended"
    <3>1. PICK x \in Actors : at[x] = "join" /\ dying[x] = i
      BY <1>1, <1>3, <1>7, <2>4 DEF CallbackEnd, SubscriberTypeOK
    <3>2. Phase(i) = "ending" /\ Phase(i)' = "over"
      BY <1>3, <2>2, <2>4, <3>1 DEF SubscriberInv, DestroyInv, Destroying, Phase
    <3> QED BY <1>3, <1>4, <2>4, <3>2, SeenAt DEF Promise!Next, Promise!End
  <2> QED BY <2>1, <2>3, <2>4
<1> QED BY <1>5, <1>6, <1>7 DEF ThreadStep

(* The calls themselves begin without effect on any thread.                  *)
LEMMA StepSimulates ==
  SubscriberInv /\ SubscriberInv' /\ [Next]_vars => [Promise!Next]_<<phase, calling, spent>>
<1> SUFFICES ASSUME SubscriberInv, SubscriberInv', [Next]_vars
             PROVE  Promise!Next \/ UNCHANGED <<phase, calling, spent>>
  OBVIOUS
<1>1. ASSUME NEW x \in Actors, CallStep(x) PROVE UNCHANGED <<phase, calling, spent>>
  <2>1. UNCHANGED <<thread, is_running>>
    BY <1>1 DEF CallStep, DoSubscribe, Copy, Drop, Shutdown, implVars
  <2> QED BY <2>1, SeenUnchanged
<1>2. UNCHANGED vars => UNCHANGED <<phase, calling, spent>>
  BY SeenUnchanged DEF vars, implVars
<1> QED BY <1>1, <1>2, InsideSimulates, ThreadSimulates DEF Next

(* A Subscriber keeps what Subscription promises: callbacks one at a time,   *)
(* none before the start or after the end, and at most one that begins after *)
(* it was told to stop.                                                      *)
THEOREM PromiseKept == Spec => ImplementsSubscription
<1>1. Spec => []SubscriberInv
  BY SubscriberCorrect
<1> QED BY <1>1, PromiseInit, StepSimulates, PTL
        DEF Spec, ImplementsSubscription, Promise!Spec, Promise!vars
=============================================================================
