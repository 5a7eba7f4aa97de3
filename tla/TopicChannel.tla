---------------------------- MODULE TopicChannel ----------------------------
(***************************************************************************)
(* What the shared memory transport promises the callers of publish() and  *)
(* the callbacks of subscribers: a topic holds the last message published  *)
(* on it, or nothing once somebody has to discard it, and a subscriber     *)
(* takes what the topic holds at most once per message.  Messages may be   *)
(* missed; they are never mixed, repeated, reordered or crossed between    *)
(* topics.                                                                 *)
(***************************************************************************)
CONSTANTS Publishers, Subscribers, Topics,
          Topic,       \* the topic of each publisher and subscriber
          Message,     \* what may be published; a message knows its publisher
          Nothing      \* what a topic holds when it holds no message

VARIABLES content,     \* what each topic holds
          fresh,       \* the subscribers that have not taken it yet
          taken        \* what each subscriber has taken and not yet handled

vars == <<content, fresh, taken>>

Init ==
  /\ content = [t \in Topics |-> Nothing]
  /\ fresh = {}
  /\ taken = [s \in Subscribers |-> Nothing]

Put(p, m) ==
  /\ m.from = p
  /\ content' = [content EXCEPT ![Topic[p]] = m]
  /\ fresh' = fresh \cup {s \in Subscribers : Topic[s] = Topic[p]}
  /\ UNCHANGED taken

Discard(t) ==
  /\ content' = [content EXCEPT ![t] = Nothing]
  /\ UNCHANGED <<fresh, taken>>

Take(s) ==
  /\ s \in fresh
  /\ fresh' = fresh \ {s}
  /\ taken' = [taken EXCEPT ![s] = content[Topic[s]]]
  /\ UNCHANGED content

Handle(s) ==
  /\ taken' = [taken EXCEPT ![s] = Nothing]
  /\ UNCHANGED <<content, fresh>>

Next ==
  \/ \E p \in Publishers, m \in Message : Put(p, m)
  \/ \E t \in Topics : Discard(t)
  \/ \E s \in Subscribers : Take(s) \/ Handle(s)

Spec == Init /\ [][Next]_vars
=============================================================================
