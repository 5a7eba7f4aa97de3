---------------------------- MODULE Advertisement ----------------------------
(***************************************************************************)
(* What a Publisher promises: it is bound to one segment at a time, binds  *)
(* only to the segment that has the name then, and sends all its messages  *)
(* to the one it is bound to, also when another one has taken the name     *)
(* since.  What is published while it is unbound is dropped; it may lose   *)
(* its block, and may try again to bind.                                   *)
(***************************************************************************)
CONSTANTS Impls,       \* the publishers, each used again when it is gone
          Segments, NULL,
          Unbound, Gone

VARIABLES name,        \* the segment that has the name, or NULL
          fate,        \* Unbound, Gone or the segment it is bound to
          sent         \* where the last message of each went

vars == <<name, fate, sent>>

Init ==
  /\ name = NULL
  /\ fate = [i \in Impls |-> Gone]
  /\ sent = [i \in Impls |-> Gone]

Rename ==
  /\ name' \in Segments \cup {NULL}
  /\ UNCHANGED <<fate, sent>>

Advertise(i) ==
  /\ fate[i] = Gone
  /\ fate' = [fate EXCEPT ![i] = Unbound]
  /\ UNCHANGED <<name, sent>>

Bind(i) ==
  /\ fate[i] = Unbound /\ name \in Segments
  /\ fate' = [fate EXCEPT ![i] = name]
  /\ UNCHANGED <<name, sent>>

Send(i) ==
  /\ fate[i] \in Segments
  /\ sent' = [sent EXCEPT ![i] = fate[i]]
  /\ UNCHANGED <<name, fate>>

Lose(i) ==
  /\ fate[i] \in Segments
  /\ fate' = [fate EXCEPT ![i] = Unbound]
  /\ UNCHANGED <<name, sent>>

Unadvertise(i) ==
  /\ fate[i] # Gone
  /\ fate' = [fate EXCEPT ![i] = Gone]
  /\ sent' = [sent EXCEPT ![i] = Gone]
  /\ UNCHANGED name

Next ==
  \/ Rename
  \/ \E i \in Impls :
       Advertise(i) \/ Bind(i) \/ Send(i) \/ Lose(i) \/ Unadvertise(i)

Spec == Init /\ [][Next]_vars
=============================================================================
