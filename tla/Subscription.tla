---------------------------- MODULE Subscription ----------------------------
(***************************************************************************)
(* What a Subscriber promises the owner of a callback, for each            *)
(* subscription of a set: calls come one at a time, only between the start *)
(* of the subscription and its end, and once it has been told to stop at   *)
(* most one more call begins.                                              *)
(***************************************************************************)
CONSTANT Impls        \* the subscriptions, each used again when it is over

VARIABLES phase,      \* off, on, ending, over
          calling,    \* the subscriptions whose callback is running
          spent       \* those ending that will begin no further call

vars == <<phase, calling, spent>>

Init ==
  /\ phase = [i \in Impls |-> "off"]
  /\ calling = {}
  /\ spent = {}

Open(i) ==
  /\ phase[i] = "off"
  /\ phase' = [phase EXCEPT ![i] = "on"]
  /\ UNCHANGED <<calling, spent>>

Call(i) ==
  /\ i \notin calling
  /\ \/ phase[i] = "on" /\ spent' = spent
     \/ phase[i] = "ending" /\ i \notin spent /\ spent' = spent \cup {i}
  /\ calling' = calling \cup {i}
  /\ UNCHANGED phase

Return(i) ==
  /\ calling' = calling \ {i}
  /\ UNCHANGED <<phase, spent>>

(* Told to stop; the last call is still to come, or already spent. *)
Stop(i) ==
  /\ phase[i] = "on"
  /\ phase' = [phase EXCEPT ![i] = "ending"]
  /\ spent' \in {spent, spent \cup {i}}
  /\ UNCHANGED calling

GiveUp(i) ==
  /\ phase[i] = "ending"
  /\ spent' = spent \cup {i}
  /\ UNCHANGED <<phase, calling>>

(* The end; a call that is interrupted ends with it. *)
End(i) ==
  /\ phase[i] = "ending"
  /\ phase' = [phase EXCEPT ![i] = "over"]
  /\ calling' = calling \ {i}
  /\ spent' = spent \ {i}

Forget(i) ==
  /\ phase[i] = "over"
  /\ phase' = [phase EXCEPT ![i] = "off"]
  /\ UNCHANGED <<calling, spent>>

Next ==
  \E i \in Impls :
    Open(i) \/ Call(i) \/ Return(i) \/ Stop(i) \/ GiveUp(i) \/ End(i) \/ Forget(i)

Spec == Init /\ [][Next]_vars
=============================================================================
