-------------------------------- MODULE Timer --------------------------------
(***************************************************************************)
(* A Timer calls timerCallback again and again on the thread that runs the *)
(* io_service: each call of its handler waits for the next one.  The       *)
(* io_service and its deadline_timer are asio's: a wait that expires, or   *)
(* that is cancelled because the expiry was moved, makes its handler       *)
(* ready, and one thread invokes the handlers that are ready.              *)
(***************************************************************************)
EXTENDS Naturals

VARIABLES
  flag_isRunning,
  pending,     \* waits that have not expired
  ready,       \* handlers to be invoked
  handler,     \* what the handler that runs is at: none, test, callback, rearm
  stopped      \* the io_service has been told to stop

timerVars == <<flag_isRunning, pending, ready, handler, stopped>>

TimerInit ==
  /\ flag_isRunning = FALSE
  /\ pending = 0 /\ ready = 0
  /\ handler = "none"
  /\ stopped = FALSE

-----------------------------------------------------------------------------
Start ==
  /\ flag_isRunning' = TRUE
  /\ pending' = pending + 1
  /\ UNCHANGED <<ready, handler, stopped>>

(* stop() leaves the wait alone. *)
Stop == flag_isRunning' = FALSE

(* The handler tests the flag once. *)
Test ==
  /\ handler = "test"
  /\ handler' = IF flag_isRunning THEN "callback" ELSE "none"
  /\ UNCHANGED <<flag_isRunning, pending, ready, stopped>>

(* timerCallback has returned or thrown an exception, which is logged.      *)
CallbackDone ==
  /\ handler' = "rearm"
  /\ UNCHANGED <<flag_isRunning, pending, ready, stopped>>

(* To move the expiry cancels the waits there are; then a new one begins.   *)
Rearm ==
  /\ handler = "rearm"
  /\ handler' = "none"
  /\ ready' = ready + pending
  /\ pending' = 1
  /\ UNCHANGED <<flag_isRunning, stopped>>

-----------------------------------------------------------------------------
(* The time of all waits has come. *)
Expire ==
  /\ pending > 0
  /\ ready' = ready + pending
  /\ pending' = 0
  /\ UNCHANGED <<flag_isRunning, handler, stopped>>

Invoke ==
  /\ ~stopped
  /\ handler = "none" /\ ready > 0
  /\ ready' = ready - 1
  /\ handler' = "test"
  /\ UNCHANGED <<flag_isRunning, pending, stopped>>

(* io_service::stop: the handler that runs is the last one. *)
StopService ==
  /\ ~stopped
  /\ stopped' = TRUE
  /\ UNCHANGED <<flag_isRunning, pending, ready, handler>>

-----------------------------------------------------------------------------
(* How many calls of the handler are to come or under way. *)
Chains == pending + ready + (IF handler = "none" THEN 0 ELSE 1)

TimerTypeOK ==
  /\ flag_isRunning \in BOOLEAN /\ stopped \in BOOLEAN
  /\ pending \in Nat /\ ready \in Nat
  /\ handler \in {"none", "test", "callback", "rearm"}
=============================================================================
