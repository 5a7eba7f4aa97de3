------------------------ MODULE SharedMemoryChannel ------------------------
(***************************************************************************)
(* The shared memory transport as a TopicChannel.  Two history variables   *)
(* remember what the state of SharedMemoryBlock does not: which message    *)
(* was last copied into the block of each topic while it was there, and    *)
(* which subscribers have not read since.                                  *)
(***************************************************************************)
EXTENDS SharedMemoryBlock

VARIABLES last, unread

histVars == <<vars, last, unread>>

HInit ==
  /\ Init
  /\ last = [t \in Topics |-> NoMessage]
  /\ unread = {}

(* The steps at which a message becomes whole, a block loses its contents,  *)
(* and a subscriber begins to copy.                                         *)
Written(p) == At(p, "write", "in") /\ op'[p] = "unregister"
Emptied(t) == segment'[t].ptr # segment[t].ptr
Reads(s) == At(s, "read", "start") /\ at'[s] = "in"

RecordLast ==
  last' = [t \in Topics |->
             CASE \E p \in Publishers : Topic[p] = t /\ Written(p) ->
                    msg[CHOOSE p \in Publishers : Topic[p] = t /\ Written(p)]
               [] Emptied(t) -> NoMessage
               [] OTHER -> last[t]]

RecordUnread ==
  unread' = {s \in Subscribers :
               \/ \E p \in Publishers : Topic[p] = Topic[s] /\ Written(p)
               \/ s \in unread /\ ~Reads(s)}

HNext == Next /\ RecordLast /\ RecordUnread

HSpec == HInit /\ [][HNext]_histVars

(* What a subscriber reads is a message only if it ends where the message    *)
(* does: one that does not carry its lengths (RawMessage) is as long as      *)
(* size_ says, cut short or followed by the end of an older one if that is   *)
(* another message's size_.                                                  *)
AtItsLength(m) == LengthsInMessage \/ (m.body \in Message /\ m.body.size = m.size)

(* A blank block is what a subscriber copies out of one that has grown       *)
(* since it was notified.                                                    *)
Taken(s) ==
  CASE msg[s] = NoMessage \/ msg[s].body = Zeroed -> NoMessage
    [] msg[s] # NoMessage /\ msg[s].body # Zeroed /\ AtItsLength(msg[s]) -> msg[s].body
    [] OTHER -> Torn

Channel == INSTANCE TopicChannel WITH
  Nothing <- NoMessage,
  content <- last,
  fresh <- unread,
  taken <- [s \in Subscribers |-> Taken(s)]

(* With one publisher and one subscriber on each topic, and messages that   *)
(* carry their lengths or all have the same: the monitors, the cached       *)
(* handles and the resizes together make a channel: nothing a callback sees *)
(* is torn, cut short, stale, repeated or another topic's.                  *)
ImplementsChannel == Channel!Spec
=============================================================================
