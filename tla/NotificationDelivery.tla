------------------------ MODULE NotificationDelivery ------------------------
(***************************************************************************)
(* What retries promise of each message, without leases, workers, passes,  *)
(* configuration or time: it is tried once more at a time, never again     *)
(* once it was sent, and by itself only below the limit.  A message is     *)
(* known by its latest attempt.  NotificationRetry implements it.          *)
(***************************************************************************)
EXTENDS Naturals

CONSTANTS
  Limit,   \* messages are scheduled after fewer attempts than this
  Faults   \* may statements fail?

VARIABLE message  \* what became of each message, by its latest attempt

\* A message that rests is only tried when an operator asks for it.
State == {"sent", "scheduled", "resting"}

TypeOK == message \in [DOMAIN message -> [state : State, tries : Nat]]

\* What try number n leaves.
Outcome(n, sent) ==
  [state |-> IF sent THEN "sent" ELSE IF n < Limit THEN "scheduled" ELSE "resting",
   tries |-> n]

\* The first attempt a.
Begin(a, sent) ==
  message' = [x \in DOMAIN message \cup {a} |->
                IF x = a THEN Outcome(1, sent) ELSE message[x]]

\* Attempt a follows attempt last of the same message.
TryAgain(last, a, sent) ==
  /\ message[last].state # "sent"
  /\ message' = [x \in (DOMAIN message \ {last}) \cup {a} |->
                   IF x = a THEN Outcome(message[last].tries + 1, sent) ELSE message[x]]

\* Some of the messages are not retried by themselves any more.
Stop(these) ==
  message' = [x \in DOMAIN message |->
                IF x \in these /\ message[x].state = "scheduled"
                THEN [message[x] EXCEPT !.state = "resting"] ELSE message[x]]

\* A statement failed in the middle of a retry, which is to be repeated.
Resume(last) ==
  /\ Faults
  /\ message[last].state = "resting"
  /\ message' = [message EXCEPT ![last].state = "scheduled"]

Init == message = [a \in {} |-> Outcome(0, FALSE)]

Next ==
  \/ \E a \in DOMAIN message' \ DOMAIN message, sent \in BOOLEAN :
       \/ Begin(a, sent)
       \/ \E last \in DOMAIN message : TryAgain(last, a, sent)
  \/ \E these \in SUBSET DOMAIN message : Stop(these)
  \/ \E last \in DOMAIN message : Resume(last)

Spec == Init /\ [][Next]_message
=============================================================================
