--------------------------- MODULE EventDelivery ---------------------------
(***************************************************************************)
(* What the event outbox promises the rest of WatchBell, without rows,     *)
(* claims, timers or attempts: an event that a check discovered waits      *)
(* until a dispatcher takes it, and ends delivered (its rules were         *)
(* dispatched), given up (a dead letter, which an operator may revive), or *)
(* dropped because its monitor was archived.  A dispatcher that has been   *)
(* at an event for long may be overtaken; only then may what was written   *)
(* of the event be written over.  EventOutbox implements it.               *)
(***************************************************************************)
CONSTANTS
  Events,
  Dispatchers,
  None  \* no event

VARIABLES
  state,    \* what is written of each event
  taken,    \* what each dispatcher is at
  archived  \* the monitor of the events was archived

vars == <<state, taken, archived>>

States == {"unknown", "waiting", "delivered", "dropped", "dead"}

\* "ended": the dispatch ended well; "late": it has been going on for long;
\* "shared": somebody else has been at the event since.
Taken == [event : Events \cup {None}, ended : BOOLEAN, late : BOOLEAN, shared : BOOLEAN]

Nothing == [event |-> None, ended |-> FALSE, late |-> FALSE, shared |-> FALSE]

TypeOK ==
  /\ state \in [Events -> States]
  /\ taken \in [Dispatchers -> Taken]
  /\ archived \in BOOLEAN

Becomes(e, to) == state' = [state EXCEPT ![e] = to]

Discover(e) ==
  /\ state[e] = "unknown"
  /\ Becomes(e, "waiting")
  /\ UNCHANGED <<taken, archived>>

\* Whoever is at the event already has been at it for long.
Take(d, e) ==
  LET others == {c \in Dispatchers \ {d} : taken[c].event = e} IN
  /\ taken[d] = Nothing /\ state[e] = "waiting"
  /\ \A c \in others : taken[c].late
  /\ taken' = [c \in Dispatchers |->
       IF c = d THEN [event |-> e, ended |-> FALSE, late |-> FALSE, shared |-> others # {}]
       ELSE IF c \in others THEN [taken[c] EXCEPT !.shared = TRUE]
       ELSE taken[c]]
  /\ UNCHANGED <<state, archived>>

Dispatch(d) ==
  /\ taken[d].event # None
  /\ taken' = [taken EXCEPT ![d].ended = TRUE]
  /\ UNCHANGED <<state, archived>>

Linger ==
  /\ \E late \in SUBSET Dispatchers :
       taken' = [d \in Dispatchers |->
                   IF d \in late /\ taken[d].event # None
                   THEN [taken[d] EXCEPT !.late = TRUE] ELSE taken[d]]
  /\ UNCHANGED <<state, archived>>

LeaveOff(d) ==
  /\ taken[d].event # None
  /\ taken' = [taken EXCEPT ![d] = Nothing]
  /\ UNCHANGED archived

\* A dispatcher that was alone writes about an event that still waits, or was
\* dropped in the meantime.
MayWrite(d) == taken[d].shared \/ state[taken[d].event] \in {"waiting", "dropped"}

Deliver(d) ==
  /\ LeaveOff(d)
  /\ taken[d].ended /\ MayWrite(d)
  /\ Becomes(taken[d].event, "delivered")

\* The dispatch failed, once or once too often.
Fail(d) ==
  /\ LeaveOff(d)
  /\ ~taken[d].ended /\ MayWrite(d)
  /\ \E to \in {"waiting", "dead"} : Becomes(taken[d].event, to)

\* What became of the dispatch could not be written down.
Forget(d) == LeaveOff(d) /\ UNCHANGED state

Revive(e) ==
  /\ state[e] = "dead" /\ ~archived
  /\ Becomes(e, "waiting")
  /\ UNCHANGED <<taken, archived>>

Dropped == [e \in Events |-> IF state[e] = "waiting" THEN "dropped" ELSE state[e]]

\* Whoever has taken an event when its monitor is archived still finishes.
Archive ==
  /\ ~archived
  /\ archived' = TRUE
  /\ state' = Dropped
  /\ UNCHANGED taken

\* No dispatcher survives a crash.
Crash ==
  /\ taken' = [d \in Dispatchers |-> Nothing]
  /\ state' = IF archived THEN Dropped ELSE state
  /\ UNCHANGED archived

Init ==
  /\ state = [e \in Events |-> "unknown"]
  /\ taken = [d \in Dispatchers |-> Nothing]
  /\ archived = FALSE

Next ==
  \/ \E e \in Events : Discover(e) \/ Revive(e) \/ \E d \in Dispatchers : Take(d, e)
  \/ \E d \in Dispatchers : Dispatch(d) \/ Deliver(d) \/ Fail(d) \/ Forget(d)
  \/ Linger
  \/ Archive
  \/ Crash

Spec == Init /\ [][Next]_vars
=============================================================================
