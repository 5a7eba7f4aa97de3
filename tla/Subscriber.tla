----------------------------- MODULE Subscriber -----------------------------
(***************************************************************************)
(* The front end of subscribing: Subscriber objects are handles that share *)
(* a SubscriberImpl, which owns the SharedmemSubscriber plugin with its    *)
(* receive thread.  Application threads subscribe, copy, shut down and     *)
(* destroy handles while the receive threads run; a callback may do the    *)
(* same to the handles it keeps.  An implementation and its plugin live    *)
(* and die together and are one element of Impls.                          *)
(***************************************************************************)
EXTENDS Naturals

CONSTANTS Users,     \* the application's threads
          Impls,     \* the implementations, used again when they are gone
          Handles,   \* the Subscriber objects
          Owner,     \* who uses a handle: a user, or Callback
          Callback,  \* for handles that the callback itself keeps
          NULL

ASSUME SubscriberAssumption ==
  /\ Users \cap Impls = {}
  /\ Callback \notin Users
  /\ Owner \in [Handles -> Users \cup {Callback}]
  /\ NULL \notin Users \cup Impls \cup Handles

(* Whoever calls a method of a Subscriber: a user, or the receive thread of *)
(* an implementation, known by that implementation.                         *)
Actors == Users \cup Impls

VARIABLES
  impl_,          \* the implementation each handle points to
  alive,          \* the implementations that exist
  subscriber_,    \* those of them that have a plugin
  unsubscribed_,  \* those that were shut down
  is_running,     \* those whose plugin is to go on receiving
  thread,         \* the receive thread of each
  at, arg,        \* what each actor executes, and for which handle
  dying,          \* the implementation an actor is destroying
  aborted         \* the process has been terminated

implVars == <<alive, subscriber_, unsubscribed_, is_running>>
actorVars == <<at, arg, dying>>
vars == <<impl_, implVars, thread, actorVars, aborted>>

Init ==
  /\ impl_ = [h \in Handles |-> NULL]
  /\ alive = {} /\ subscriber_ = {} /\ unsubscribed_ = {} /\ is_running = {}
  /\ thread = [i \in Impls |-> "none"]
  /\ at = [x \in Actors |-> "idle"]
  /\ arg = [x \in Actors |-> NULL]
  /\ dying = [x \in Actors |-> NULL]
  /\ aborted = FALSE

-----------------------------------------------------------------------------
(* A receive thread can call methods only from inside its callback. *)
Free(x) == at[x] = "idle" /\ (x \in Impls => thread[x] = "callback")

(* A callback uses the handle it keeps of its own subscription. *)
Uses(x, h) == IF x \in Users THEN Owner[h] = x
                             ELSE Owner[h] = Callback /\ impl_[h] = x

LastHandle(h) == impl_[h] # NULL /\ \A g \in Handles \ {h} : impl_[g] # impl_[h]

Goto(x, a, h, i) == /\ at' = [at EXCEPT ![x] = a]
                    /\ arg' = [arg EXCEPT ![x] = h]
                    /\ dying' = [dying EXCEPT ![x] = i]

Finish(x) == Goto(x, "idle", NULL, NULL)

-----------------------------------------------------------------------------
(* Faults: plausible mistakes for the checks to find, not part of the       *)
(* specification.                                                           *)

(* A destructor that does not join. *)
FaultJoinSkipped(x) ==
  LET i == dying[x] IN
  /\ at[x] = "join"
  /\ alive' = alive \ {i} /\ subscriber_' = subscriber_ \ {i}
  /\ unsubscribed_' = unsubscribed_ \ {i} /\ is_running' = is_running \ {i}
  /\ IF arg[x] = NULL THEN Finish(x) ELSE Goto(x, "load", arg[x], NULL)
  /\ UNCHANGED <<impl_, thread, aborted>>

(* A shutdown() that marks the implementation and forgets its plugin. *)
FaultShutdownPluginForgotten(x) ==
  /\ at[x] = "shutdown"
  /\ Finish(x)
  /\ UNCHANGED <<impl_, implVars, thread, aborted>>

(* A destructor that leaves the plugin running. *)
FaultDestroyPluginForgotten(x) ==
  LET i == dying[x] IN
  /\ at[x] = "destroy"
  /\ unsubscribed_' = unsubscribed_ \cup {i}
  /\ Goto(x, "join", arg[x], i)
  /\ UNCHANGED <<impl_, alive, subscriber_, is_running, thread, aborted>>

(* A receive loop that tests is_running once. *)
FaultThreadNeverTests(i) ==
  /\ thread[i] = "test"
  /\ thread' = [thread EXCEPT ![i] = "wait"]
  /\ UNCHANGED <<impl_, implVars, actorVars, aborted>>

(* A do_subscribe that asks the implementation it has already.              *)
FaultSubscribeAgain(x, h) ==
  /\ Free(x) /\ Uses(x, h)
  /\ \/ /\ impl_[h] # NULL
        /\ UNCHANGED <<impl_, alive>>
     \/ \E i \in Impls \ alive :
          /\ impl_[h] = NULL
          /\ alive' = alive \cup {i}
          /\ impl_' = [impl_ EXCEPT ![h] = i]
  /\ Goto(x, "load", h, NULL)
  /\ UNCHANGED <<subscriber_, unsubscribed_, is_running, thread, aborted>>

-----------------------------------------------------------------------------
(* Subscriber *)

(* do_subscribe begins with a new implementation; the old one goes when     *)
(* this was the last handle to it.                                          *)
DoSubscribe(x, h) ==
  /\ Free(x) /\ Uses(x, h)
  /\ \E i \in Impls \ alive :
       /\ alive' = alive \cup {i}
       /\ impl_' = [impl_ EXCEPT ![h] = i]
  /\ IF LastHandle(h) THEN Goto(x, "destroy", h, impl_[h])
                      ELSE Goto(x, "load", h, NULL)
  /\ UNCHANGED <<subscriber_, unsubscribed_, is_running, thread, aborted>>

(* SubscriberImpl::reset creates the plugin, or throws for a transport      *)
(* that it does not know.                                                   *)
Load(x) ==
  /\ at[x] = "load"
  /\ \/ /\ subscriber_' = subscriber_ \cup {impl_[arg[x]]}
        /\ Goto(x, "start", arg[x], NULL)
     \/ /\ Finish(x)
        /\ UNCHANGED subscriber_
  /\ UNCHANGED <<impl_, alive, unsubscribed_, is_running, thread, aborted>>

(* subscribeImpl and startReceiving: is_running is set first, and there is  *)
(* no thread if the segment, its manager or the topic's block is missing.   *)
Start(x) ==
  LET i == impl_[arg[x]] IN
  /\ at[x] = "start"
  /\ i \notin is_running
  /\ is_running' = is_running \cup {i}
  /\ \/ thread' = [thread EXCEPT ![i] = "test"]
     \/ UNCHANGED thread
  /\ Finish(x)
  /\ UNCHANGED <<impl_, alive, subscriber_, unsubscribed_, aborted>>

(* The copy of a handle, which may be for somebody else to use. *)
Copy(x, h, g) ==
  /\ Free(x) /\ Uses(x, h)
  /\ impl_[h] # NULL /\ impl_[g] = NULL
  /\ \A y \in Actors : arg[y] # g
  /\ impl_' = [impl_ EXCEPT ![g] = impl_[h]]
  /\ UNCHANGED <<implVars, thread, actorVars, aborted>>

(* The destruction of a handle. *)
Drop(x, h) ==
  /\ Free(x) /\ Uses(x, h)
  /\ impl_[h] # NULL
  /\ impl_' = [impl_ EXCEPT ![h] = NULL]
  /\ IF LastHandle(h) THEN Goto(x, "destroy", NULL, impl_[h])
                      ELSE UNCHANGED actorVars
  /\ UNCHANGED <<implVars, thread, aborted>>

(* shutdown(): shutdownImpl does nothing the second time. *)
Shutdown(x, h) ==
  /\ Free(x) /\ Uses(x, h)
  /\ impl_[h] # NULL /\ impl_[h] \notin unsubscribed_
  /\ unsubscribed_' = unsubscribed_ \cup {impl_[h]}
  /\ Goto(x, "shutdown", h, NULL)
  /\ UNCHANGED <<impl_, alive, subscriber_, is_running, thread, aborted>>

(* ... and calls the plugin, which is missing if its transport was unknown. *)
ShutdownPlugin(x) ==
  LET i == impl_[arg[x]] IN
  /\ at[x] = "shutdown"
  /\ \/ /\ i \in subscriber_
        /\ is_running' = is_running \ {i}
        /\ Finish(x)
        /\ UNCHANGED aborted
     \/ /\ i \notin subscriber_
        /\ aborted' = TRUE
        /\ UNCHANGED <<is_running, actorVars>>
  /\ UNCHANGED <<impl_, alive, subscriber_, unsubscribed_, thread>>

(* ~SubscriberImpl: shutdownImpl, unless shutdown() was called before. *)
Destroy(x) ==
  LET i == dying[x] IN
  /\ at[x] = "destroy"
  /\ \/ /\ i \in unsubscribed_ \cup subscriber_
        /\ unsubscribed_' = unsubscribed_ \cup {i}
        /\ is_running' = IF i \in unsubscribed_ THEN is_running ELSE is_running \ {i}
        /\ Goto(x, "join", arg[x], i)
        /\ UNCHANGED aborted
     \/ /\ i \notin unsubscribed_ \cup subscriber_
        /\ aborted' = TRUE
        /\ UNCHANGED <<unsubscribed_, is_running, actorVars>>
  /\ UNCHANGED <<impl_, alive, subscriber_, thread>>

(* ~SharedmemSubscriber: interrupt and join the receive thread; a thread    *)
(* that joins itself throws, out of a destructor.                           *)
Join(x) ==
  LET i == dying[x] IN
  /\ at[x] = "join"
  /\ \/ /\ x # i /\ thread[i] \in {"none", "ended"}
        /\ alive' = alive \ {i} /\ subscriber_' = subscriber_ \ {i}
        /\ unsubscribed_' = unsubscribed_ \ {i} /\ is_running' = is_running \ {i}
        /\ thread' = [thread EXCEPT ![i] = "none"]
        /\ IF arg[x] = NULL THEN Finish(x) ELSE Goto(x, "load", arg[x], NULL)
        /\ UNCHANGED aborted
     \/ /\ x = i
        /\ aborted' = TRUE
        /\ UNCHANGED <<implVars, thread, actorVars>>
  /\ UNCHANGED impl_

-----------------------------------------------------------------------------
(* The receive thread *)

ThreadTest(i) ==
  /\ thread[i] = "test"
  /\ thread' = [thread EXCEPT ![i] = IF i \in is_running THEN "wait" ELSE "ended"]
  /\ UNCHANGED <<impl_, implVars, actorVars, aborted>>

(* wait_data returns, after at most a second, with or without a message. *)
ThreadReceive(i) ==
  /\ thread[i] = "wait"
  /\ \E a \in {"test", "callback"} : thread' = [thread EXCEPT ![i] = a]
  /\ UNCHANGED <<impl_, implVars, actorVars, aborted>>

(* The callback returns; or it meets an interruption point after the        *)
(* destructor's interrupt(), which ends the thread.                         *)
CallbackEnd(i) ==
  /\ thread[i] = "callback" /\ at[i] = "idle"
  /\ \/ thread' = [thread EXCEPT ![i] = "test"]
     \/ /\ \E x \in Actors : at[x] = "join" /\ dying[x] = i
        /\ thread' = [thread EXCEPT ![i] = "ended"]
  /\ UNCHANGED <<impl_, implVars, actorVars, aborted>>

-----------------------------------------------------------------------------
(* The rest of a call that has begun, and the receive loop. *)
InsideStep(x) ==
  ~aborted /\ (Load(x) \/ Start(x) \/ ShutdownPlugin(x) \/ Destroy(x) \/ Join(x))
ThreadStep(i) ==
  ~aborted /\ (ThreadTest(i) \/ ThreadReceive(i) \/ CallbackEnd(i))

(* What the application decides to do. *)
CallStep(x) ==
  /\ ~aborted
  /\ \E h \in Handles :
       \/ DoSubscribe(x, h) \/ Drop(x, h) \/ Shutdown(x, h)
       \/ \E g \in Handles : Copy(x, h, g)

Next ==
  \/ \E x \in Actors : InsideStep(x) \/ CallStep(x)
  \/ \E i \in Impls : ThreadStep(i)

Spec == Init /\ [][Next]_vars

(* Threads that can run do run, wait_data comes back, and so does the user's *)
(* callback.                                                                 *)
Fairness ==
  /\ \A x \in Actors : WF_vars(InsideStep(x))
  /\ \A i \in Impls : SF_vars(ThreadStep(i))
FairSpec == Spec /\ Fairness

-----------------------------------------------------------------------------
(* Properties *)

SubscriberTypeOK ==
  /\ impl_ \in [Handles -> Impls \cup {NULL}]
  /\ alive \subseteq Impls /\ subscriber_ \subseteq Impls
  /\ unsubscribed_ \subseteq Impls /\ is_running \subseteq Impls
  /\ thread \in [Impls -> {"none", "test", "wait", "callback", "ended"}]
  /\ at \in [Actors -> {"idle", "load", "start", "shutdown", "destroy", "join"}]
  /\ arg \in [Actors -> Handles \cup {NULL}]
  /\ dying \in [Actors -> Impls \cup {NULL}]
  /\ aborted \in BOOLEAN

Destroying(x) == at[x] \in {"destroy", "join"}

(* Whatever is in use exists: a handle never points to an implementation     *)
(* that is gone, nobody shuts one down or destroys it a second time, and no  *)
(* receive thread runs on a plugin that has been destroyed.                  *)
NothingUsesTheDead ==
  /\ \A h \in Handles : impl_[h] # NULL => impl_[h] \in alive
  /\ \A x \in Actors : Destroying(x) => dying[x] \in alive
  /\ \A x, y \in Actors : Destroying(x) /\ Destroying(y) /\ dying[x] = dying[y] => x = y
  /\ \A i \in Impls : thread[i] # "none" => i \in alive

(* The throw of "Subscriber is already running." is out of reach of the      *)
(* front end: a plugin is asked to receive once in its life.                 *)
NeverAlreadyRunning ==
  \A x \in Actors :
    at[x] = "start" => /\ impl_[arg[x]] \notin is_running
                       /\ thread[impl_[arg[x]]] = "none"

(* An implementation that no handle points to is destroyed, unless the       *)
(* process is terminated: the join in the destructor returns.                *)
Unreferenced(i) == i \in alive /\ \A h \in Handles : impl_[h] # i
Released == \A i \in Impls : (Unreferenced(i) ~> i \notin alive \/ aborted)

(* After shutdown() the receive thread comes to its end.                     *)
ShutdownEnds ==
  \A i \in Impls : (i \in unsubscribed_ ~> thread[i] \in {"none", "ended"} \/ aborted)

(* What the properties rest on: the implementation a do_subscribe works on  *)
(* is nobody else's yet, each handle is used by one call at a time, and an   *)
(* implementation that was shut down is still running only while its         *)
(* shutdown() has not come to the plugin.                                    *)
Fresh(x) ==
  LET i == impl_[arg[x]] IN
  /\ i \in alive
  /\ \A g \in Handles \ {arg[x]} : impl_[g] # i
  /\ thread[i] = "none" /\ i \notin is_running /\ i \notin unsubscribed_

CallInv(x) ==
  /\ at[x] = "idle" => arg[x] = NULL
  /\ at[x] \in {"load", "start", "shutdown"} => arg[x] # NULL
  /\ at[x] # "shutdown" /\ arg[x] # NULL => Fresh(x)
  /\ at[x] = "shutdown" => impl_[arg[x]] \in unsubscribed_
  /\ arg[x] # NULL => IF x \in Users THEN Owner[arg[x]] = x
                                     ELSE Owner[arg[x]] = Callback
  /\ x \in Impls /\ at[x] = "shutdown" => impl_[arg[x]] = x

DestroyInv(x) ==
  Destroying(x) => /\ dying[x] \in alive
                   /\ \A h \in Handles : impl_[h] # dying[x]
                   /\ at[x] = "join" => dying[x] \notin is_running

StopInv(i) ==
  i \in unsubscribed_ /\ i \in is_running
    => \E x \in Actors : at[x] = "shutdown" /\ impl_[arg[x]] = i

SubscriberInv ==
  /\ SubscriberTypeOK /\ NothingUsesTheDead
  /\ unsubscribed_ \subseteq alive /\ is_running \subseteq alive
  /\ \A x \in Actors : CallInv(x) /\ DestroyInv(x)
  /\ \A x, y \in Actors : arg[x] = arg[y] /\ arg[x] # NULL => x = y
  /\ \A i \in Impls : StopInv(i)

Phase(i) ==
  CASE thread[i] = "none" -> "off"
    [] thread[i] = "ended" -> "over"
    [] OTHER -> IF i \in is_running THEN "on" ELSE "ending"

phase == [i \in Impls |-> Phase(i)]
calling == {i \in Impls : thread[i] = "callback"}
spent == {i \in Impls : Phase(i) = "ending" /\ thread[i] # "wait"}

Promise == INSTANCE Subscription

(* Callbacks of a subscription come one at a time while it lasts, and at     *)
(* most one more begins after it was told to stop.                           *)
ImplementsSubscription == Promise!Spec
=============================================================================
