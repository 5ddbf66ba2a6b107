-------------------------- MODULE WeComCommandsProofs ---------------------------
(* Commands of WeCom members run at most once and within the slots, and what was *)
(* refused may be delivered again, for any number of callbacks, messages, edits  *)
(* and crashes.                                                                  *)
EXTENDS WeComCommands, FiniteSetTheorems, TLAPS

\* The last minute in which a callback for a message may still leave a receipt.
Deadline(m) == Envelope[m].created + Window + Patience

\* Nobody leaves a receipt for the message any more.
Closed(m) == receipts[m] # Never \/ clock > Deadline(m)

Typed ==
  /\ receipts \in [Messages -> Int \cup {Never}]
  /\ handler \in [Handlers -> Handling]
  /\ clock \in Nat /\ begun \in [Messages -> {0, 1}]

\* A receipt is not older than the message may be off the clock.
ReceiptsRecent ==
  \A m \in Messages : receipts[m] # Never => receipts[m] >= Envelope[m].created - Window

\* A callback is admitted in time, for a message that was delivered in time; what
\* is claimed or has run is closed.
HandlerInv(h) ==
  LET m == handler[h].msg
  IN  /\ handler[h].stage # "idle" => m \in Messages
      /\ handler[h].stage \in Admitting =>
           /\ Envelope[m].created - Window <= handler[h].since
           /\ handler[h].since <= Envelope[m].created + Window
           /\ handler[h].since <= clock /\ clock <= handler[h].since + Patience
      /\ handler[h].stage = "claimed" => Closed(m) /\ begun[m] = 0

OnceInv ==
  /\ Typed /\ ReceiptsRecent
  /\ \A h \in Handlers : HandlerInv(h)
  /\ \A m \in Messages : begun[m] = 1 => Closed(m)
  /\ \A g, h \in Handlers :
       At(g, "claimed") /\ At(h, "claimed") /\ handler[g].msg = handler[h].msg => g = h

\* What is proved of receipts needs them to be kept for as long as a message can
\* be admitted.
KeptLongEnough == Retention >= 2 * Window + Patience

-----------------------------------------------------------------------------
LEMMA MessageTyped ==
  ASSUME NEW m \in Messages
  PROVE  Envelope[m].created \in Int /\ Deadline(m) \in Int /\ Never \notin Int
BY EnvelopeAssumption, ClockAssumption DEF Deadline

LEMMA HandlingTyped ==
  ASSUME Typed, NEW h \in Handlers
  PROVE  handler[h] \in Handling /\ handler[h].stage \in Stages /\ handler[h].since \in Int
BY DEF Typed, Handling

LEMMA FreeTyped == Free \in Handling /\ Free.stage = "idle"
BY DEF Free, Handling, Stages

LEMMA OnceInit == WeComInit => OnceInv
<1> SUFFICES ASSUME WeComInit PROVE OnceInv
  OBVIOUS
<1>1. Typed
  BY FreeTyped, ClockAssumption, SMT DEF WeComInit, Typed
<1>2. \A h \in Handlers : handler[h].stage = "idle"
  BY FreeTyped DEF WeComInit
<1>3. /\ \A m \in Messages : receipts[m] = Never /\ begun[m] = 0
  BY DEF WeComInit
<1> QED
  BY <1>1, <1>2, <1>3 DEF OnceInv, ReceiptsRecent, HandlerInv, At, Admitting

\* A message that nobody has left a receipt for, and whose callback is being
\* admitted, is not closed: it has not run and is not claimed.
LEMMA AdmittedFresh ==
  ASSUME OnceInv, NEW h \in Handlers, handler[h].stage \in Admitting,
         receipts[handler[h].msg] = Never
  PROVE  /\ begun[handler[h].msg] = 0
         /\ \A g \in Handlers : At(g, "claimed") => handler[g].msg # handler[h].msg
<1> DEFINE m == handler[h].msg
<1>1. m \in Messages /\ HandlerInv(h) /\ Typed
  BY DEF OnceInv, HandlerInv, Admitting
<1>2. /\ handler[h].since <= Envelope[m].created + Window
      /\ clock <= handler[h].since + Patience
  BY <1>1 DEF HandlerInv
<1>3. clock <= Deadline(m)
  <2>1. handler[h].since \in Int /\ clock \in Nat /\ Envelope[m].created \in Int
    BY <1>1, HandlingTyped, MessageTyped DEF Typed
  <2> QED BY <1>2, <2>1, ClockAssumption, SMT DEF Deadline
<1>4. ~Closed(m)
  <2>1. clock \in Nat /\ Deadline(m) \in Int
    BY <1>1, MessageTyped DEF Typed
  <2>2. ~(clock > Deadline(m))
    BY <1>3, <2>1, SMT
  <2> QED BY <2>2 DEF Closed
<1>5. begun[m] \in {0, 1} /\ (begun[m] = 1 => Closed(m))
  BY <1>1 DEF OnceInv, Typed
<1> QED
  BY <1>1, <1>4, <1>5 DEF OnceInv, HandlerInv, At

\* The callback of one handler moves; messages, receipts and time stay.
LEMMA HandlerMoves ==
  ASSUME OnceInv, NEW h \in Handlers, NEW x \in Handling,
         handler' = [handler EXCEPT ![h] = x],
         x.stage # "idle" => x.msg \in Messages,
         x.stage \in Admitting =>
           /\ Envelope[x.msg].created - Window <= x.since
           /\ x.since <= Envelope[x.msg].created + Window
           /\ x.since <= clock /\ clock <= x.since + Patience,
         x.stage # "claimed",
         UNCHANGED <<receipts, clock>>,
         \/ UNCHANGED begun
         \/ At(h, "claimed") /\ begun' = [begun EXCEPT ![handler[h].msg] = @ + 1]
  PROVE  OnceInv'
<1>0. Typed /\ ReceiptsRecent
  BY DEF OnceInv
<1>1. /\ handler' \in [Handlers -> Handling] /\ handler'[h] = x
      /\ \A g \in Handlers \ {h} : handler'[g] = handler[g]
  BY <1>0 DEF Typed
<1>2. \A m \in Messages : Closed(m)' <=> Closed(m)
  BY DEF Closed, Deadline
<1>3. /\ begun' \in [Messages -> {0, 1}]
      /\ \A m \in Messages :
           begun'[m] # begun[m] => At(h, "claimed") /\ m = handler[h].msg
      /\ \A m \in Messages : begun'[m] = 1 => Closed(m)
  <2>1. CASE UNCHANGED begun
    BY <1>0, <2>1 DEF OnceInv, Typed
  <2>2. CASE At(h, "claimed") /\ begun' = [begun EXCEPT ![handler[h].msg] = @ + 1]
    <3>1. handler[h].msg \in Messages /\ begun[handler[h].msg] = 0 /\ Closed(handler[h].msg)
      BY <2>2 DEF OnceInv, HandlerInv, At
    <3>2. begun' = [begun EXCEPT ![handler[h].msg] = 1]
      <4>1. 0 + 1 = 1
        BY SMT
      <4> QED BY <1>0, <2>2, <3>1, <4>1 DEF Typed
    <3> QED BY <1>0, <2>2, <3>1, <3>2 DEF OnceInv, Typed
  <2> QED BY <2>1, <2>2
<1>4. HandlerInv(h)'
  BY <1>1 DEF HandlerInv
<1>5. ASSUME NEW g \in Handlers \ {h} PROVE HandlerInv(g)'
  <2>1. HandlerInv(g) /\ handler'[g] = handler[g]
    BY <1>1 DEF OnceInv
  <2>2. handler[g].stage = "claimed" => begun'[handler[g].msg] = begun[handler[g].msg]
    BY <1>3, <2>1 DEF OnceInv, HandlerInv, At
  <2>3. handler[g].stage = "claimed" => Closed(handler[g].msg)'
    BY <1>2, <2>1 DEF HandlerInv
  <2> QED BY <2>1, <2>2, <2>3 DEF HandlerInv
<1>6. \A g, k \in Handlers :
        At(g, "claimed")' /\ At(k, "claimed")' /\ handler'[g].msg = handler'[k].msg => g = k
  BY <1>1 DEF OnceInv, At
<1>7. Typed' /\ ReceiptsRecent'
  BY <1>0, <1>1, <1>3 DEF Typed, ReceiptsRecent
<1> QED
  BY <1>2, <1>3, <1>4, <1>5, <1>6, <1>7 DEF OnceInv

-----------------------------------------------------------------------------
LEMMA DeliverKeeps ==
  ASSUME OnceInv, NEW h \in Handlers, NEW m \in Messages, Deliver(h, m)
  PROVE  OnceInv'
<1> DEFINE x == [stage |-> "checked", msg |-> m, since |-> clock]
<1>1. /\ Envelope[m].created \in (clock - Window)..(clock + Window)
      /\ handler' = [handler EXCEPT ![h] = x] /\ UNCHANGED <<receipts, clock, begun>>
  BY DEF Deliver
<1>2. clock \in Nat
  BY DEF OnceInv, Typed
<1>3. /\ Envelope[m].created - Window <= clock /\ clock <= Envelope[m].created + Window
      /\ clock <= clock /\ clock <= clock + Patience
  BY <1>1, <1>2, MessageTyped, ClockAssumption, SMT
<1>4. /\ x \in Handling /\ x.stage = "checked" /\ x.msg = m /\ x.since = clock
  BY <1>2, SMT DEF Handling, Stages
<1> HIDE DEF x
<1> QED
  BY <1>1, <1>3, <1>4, HandlerMoves

\* A callback goes on to another stage, short of its receipt, or is over.
LEMMA StageKeeps ==
  ASSUME OnceInv, NEW h \in Handlers, NEW s \in Stages \ {"claimed"},
         ~At(h, "idle"), Enter(h, s),
         s \in Admitting => handler[h].stage \in Admitting,
         UNCHANGED <<receipts, clock>>,
         \/ UNCHANGED begun
         \/ At(h, "claimed") /\ Begin(h)
  PROVE  OnceInv'
<1> DEFINE x == [handler[h] EXCEPT !.stage = s]
<1>1. handler' = [handler EXCEPT ![h] = x]
  BY DEF Enter
<1>2. Typed /\ HandlerInv(h)
  BY DEF OnceInv
<1>3. handler[h] \in Handling
  BY <1>2, HandlingTyped
<1>4. x \in Handling /\ x.stage = s /\ x.msg = handler[h].msg /\ x.since = handler[h].since
  BY <1>3 DEF Handling
<1>5. x.msg \in Messages
  BY <1>2, <1>4 DEF HandlerInv, At
<1> HIDE DEF x
<1> QED
  BY <1>1, <1>2, <1>4, <1>5, HandlerMoves DEF HandlerInv, Begin

LEMMA LeaveKeeps ==
  ASSUME OnceInv, NEW h \in Handlers, Leave(h), UNCHANGED <<receipts, clock>>,
         \/ UNCHANGED begun
         \/ At(h, "claimed") /\ Begin(h)
  PROVE  OnceInv'
BY FreeTyped, HandlerMoves DEF Leave, Begin, Admitting

\* A receipt is deleted only when its message can no longer be admitted.
LEMMA PurgeKeeps ==
  ASSUME KeptLongEnough, OnceInv, NEW h \in Handlers, PurgeReceipts(h)
  PROVE  OnceInv'
<1>1. /\ At(h, "slot") /\ Enter(h, "purged") /\ UNCHANGED <<clock, begun>>
      /\ receipts' = [m \in Messages |->
           IF receipts[m] # Never /\ receipts[m] < clock - Retention
           THEN Never ELSE receipts[m]]
  BY DEF PurgeReceipts
<1>2. Typed /\ ReceiptsRecent /\ HandlerInv(h)
  BY DEF OnceInv
<1>3. ASSUME NEW m \in Messages
      PROVE  /\ receipts'[m] \in {receipts[m], Never}
             /\ Closed(m) => Closed(m)'
  <2>1. CASE receipts[m] # Never /\ receipts[m] < clock - Retention
    <3>1. receipts[m] \in Int /\ receipts[m] >= Envelope[m].created - Window
      BY <1>2, <2>1 DEF Typed, ReceiptsRecent
    <3>2. clock > Deadline(m)
      <4>1. clock \in Nat
        BY <1>2 DEF Typed
      <4> QED BY <2>1, <3>1, <4>1, MessageTyped, ClockAssumption, SMT DEF Deadline, KeptLongEnough
    <3> QED BY <1>1, <2>1, <3>2 DEF Closed, Deadline
  <2>2. CASE ~(receipts[m] # Never /\ receipts[m] < clock - Retention)
    BY <1>1, <2>2 DEF Closed, Deadline
  <2> QED BY <2>1, <2>2
<1>4. /\ receipts' \in [Messages -> Int \cup {Never}] /\ ReceiptsRecent'
  BY <1>1, <1>2, <1>3 DEF Typed, ReceiptsRecent
<1>5. /\ handler' = [handler EXCEPT ![h] = [handler[h] EXCEPT !.stage = "purged"]]
  BY <1>1 DEF Enter
<1>6. /\ handler[h] \in Handling /\ handler[h].stage = "slot"
  BY <1>1, <1>2, HandlingTyped DEF At
<1>7. /\ handler' \in [Handlers -> Handling]
      /\ \A g \in Handlers \ {h} : handler'[g] = handler[g]
      /\ handler'[h].stage = "purged" /\ handler'[h].msg = handler[h].msg
      /\ handler'[h].since = handler[h].since
  BY <1>2, <1>5, <1>6 DEF Typed, Handling, Stages
<1>8. HandlerInv(h)'
  BY <1>1, <1>2, <1>6, <1>7 DEF HandlerInv, Admitting
<1>9. \A g \in Handlers \ {h} : HandlerInv(g)'
  <2> SUFFICES ASSUME NEW g \in Handlers \ {h} PROVE HandlerInv(g)'
    OBVIOUS
  <2>1. HandlerInv(g) /\ handler'[g] = handler[g]
    BY <1>7 DEF OnceInv
  <2>2. handler[g].stage = "claimed" => Closed(handler[g].msg)'
    BY <1>3, <2>1 DEF HandlerInv
  <2> QED BY <1>1, <2>1, <2>2 DEF HandlerInv
<1>10. \A g, k \in Handlers :
         At(g, "claimed")' /\ At(k, "claimed")' /\ handler'[g].msg = handler'[k].msg => g = k
  BY <1>7 DEF OnceInv, At
<1>11. \A m \in Messages : begun'[m] = 1 => Closed(m)'
  BY <1>1, <1>3 DEF OnceInv
<1> QED
  BY <1>1, <1>2, <1>4, <1>7, <1>8, <1>9, <1>10, <1>11 DEF OnceInv, Typed

LEMMA InsertKeeps ==
  ASSUME OnceInv, NEW h \in Handlers, InsertReceipt(h)
  PROVE  OnceInv'
<1>0. handler[h].msg \in Messages
  BY DEF OnceInv, HandlerInv, InsertReceipt, At
<1>m. PICK m \in Messages : m = handler[h].msg
  BY <1>0
<1>1. /\ At(h, "purged") /\ receipts[m] = Never
      /\ receipts' = [receipts EXCEPT ![m] = clock]
      /\ handler' = [handler EXCEPT ![h] = [handler[h] EXCEPT !.stage = "claimed"]]
      /\ UNCHANGED <<clock, begun>>
  BY <1>m DEF InsertReceipt, Enter
<1>2. Typed /\ ReceiptsRecent /\ HandlerInv(h) /\ handler[h].stage = "purged" /\ m \in Messages
  BY <1>1, <1>m DEF OnceInv, At, HandlerInv
<1>3. /\ begun[m] = 0
      /\ \A g \in Handlers : At(g, "claimed") => handler[g].msg # m
  BY <1>1, <1>2, <1>m, AdmittedFresh DEF Admitting
<1>4. clock >= Envelope[m].created - Window /\ clock \in Int /\ clock # Never
  <2>1. /\ Envelope[m].created - Window <= handler[h].since /\ handler[h].since <= clock
    BY <1>2, <1>m DEF HandlerInv, Admitting
  <2>2. handler[h].since \in Int /\ clock \in Nat
    BY <1>2, HandlingTyped DEF Typed
  <2> QED BY <1>2, <2>1, <2>2, MessageTyped, ClockAssumption, SMT
<1>5. /\ receipts' \in [Messages -> Int \cup {Never}] /\ receipts'[m] = clock
      /\ \A q \in Messages \ {m} : receipts'[q] = receipts[q]
  BY <1>1, <1>2, <1>4 DEF Typed
<1>6. ReceiptsRecent'
  BY <1>2, <1>4, <1>5 DEF ReceiptsRecent
<1>7. \A q \in Messages : Closed(q) => Closed(q)'
  BY <1>1, <1>4, <1>5 DEF Closed, Deadline
<1>8. handler[h] \in Handling
  BY <1>2, HandlingTyped
<1>9. /\ handler' \in [Handlers -> Handling]
      /\ \A g \in Handlers \ {h} : handler'[g] = handler[g]
      /\ handler'[h].stage = "claimed" /\ handler'[h].msg = m
  BY <1>1, <1>2, <1>8, <1>m DEF Typed, Handling, Stages
<1>10. HandlerInv(h)'
  <2>1. Closed(m)'
    BY <1>4, <1>5 DEF Closed
  <2> QED BY <1>1, <1>2, <1>3, <1>9, <2>1 DEF HandlerInv, Admitting
<1>11. \A g \in Handlers \ {h} : HandlerInv(g)'
  <2> SUFFICES ASSUME NEW g \in Handlers \ {h} PROVE HandlerInv(g)'
    OBVIOUS
  <2>1. HandlerInv(g) /\ handler'[g] = handler[g]
    BY <1>9 DEF OnceInv
  <2>2. handler[g].stage = "claimed" => Closed(handler[g].msg)'
    BY <1>7, <2>1 DEF HandlerInv
  <2> QED BY <1>1, <2>1, <2>2 DEF HandlerInv
<1>12. \A g, k \in Handlers :
         At(g, "claimed")' /\ At(k, "claimed")' /\ handler'[g].msg = handler'[k].msg => g = k
  <2>1. \A g \in Handlers \ {h} : At(g, "claimed")' => handler'[g].msg # m
    BY <1>3, <1>9 DEF At
  <2> QED BY <1>9, <2>1 DEF OnceInv, At
<1>13. \A q \in Messages : begun'[q] = 1 => Closed(q)'
  BY <1>1, <1>7 DEF OnceInv
<1> QED
  BY <1>1, <1>2, <1>5, <1>6, <1>9, <1>10, <1>11, <1>12, <1>13 DEF OnceInv, Typed

LEMMA MinuteKeeps ==
  ASSUME OnceInv, Minute PROVE OnceInv'
<1>1. /\ \A h \in Handlers :
           handler[h].stage \in Admitting => clock < handler[h].since + Patience
      /\ clock' = clock + 1 /\ UNCHANGED <<receipts, handler, begun>>
  BY DEF Minute
<1>2. Typed /\ ReceiptsRecent
  BY DEF OnceInv
<1>3. clock \in Nat /\ clock' \in Nat
  BY <1>1, <1>2, SMT DEF Typed
<1>4. ASSUME NEW m \in Messages, Closed(m) PROVE Closed(m)'
  <2>1. Deadline(m) \in Int /\ Deadline(m)' = Deadline(m)
    BY MessageTyped DEF Deadline
  <2>2. clock > Deadline(m) => clock' > Deadline(m)
    BY <1>1, <1>3, <2>1, SMT
  <2> QED BY <1>1, <1>4, <2>1, <2>2 DEF Closed
<1>5. ASSUME NEW h \in Handlers PROVE HandlerInv(h)'
  <2>1. HandlerInv(h) /\ handler[h].since \in Int
    BY <1>2, HandlingTyped DEF OnceInv
  <2>2. handler[h].stage \in Admitting =>
          handler[h].since <= clock' /\ clock' <= handler[h].since + Patience
    <3> SUFFICES ASSUME handler[h].stage \in Admitting
                 PROVE  handler[h].since <= clock' /\ clock' <= handler[h].since + Patience
      OBVIOUS
    <3>1. handler[h].since <= clock /\ clock < handler[h].since + Patience
      BY <1>1, <2>1 DEF HandlerInv
    <3> QED BY <1>1, <1>3, <2>1, <3>1, ClockAssumption, SMT
  <2>3. handler[h].stage = "claimed" => Closed(handler[h].msg)'
    BY <1>1, <1>4, <2>1 DEF HandlerInv
  <2> QED BY <1>1, <2>1, <2>2, <2>3 DEF HandlerInv
<1> QED
  BY <1>1, <1>2, <1>3, <1>4, <1>5 DEF OnceInv, Typed, ReceiptsRecent, At

LEMMA StopKeeps ==
  ASSUME OnceInv, StopServer PROVE OnceInv'
<1>1. handler' = [h \in Handlers |-> Free] /\ UNCHANGED <<receipts, clock, begun>>
  BY DEF StopServer
<1>2. \A h \in Handlers : HandlerInv(h)'
  BY <1>1, FreeTyped DEF HandlerInv, Admitting
<1>3. \A m \in Messages : Closed(m)' <=> Closed(m)
  BY <1>1 DEF Closed, Deadline
<1> QED
  BY <1>1, <1>2, <1>3, FreeTyped DEF OnceInv, Typed, ReceiptsRecent, At

LEMMA OnceStep ==
  KeptLongEnough /\ OnceInv /\ [WeComNext]_wecomVars => OnceInv'
<1> SUFFICES ASSUME KeptLongEnough, OnceInv, [WeComNext]_wecomVars PROVE OnceInv'
  OBVIOUS
<1>1. ASSUME NEW h \in Handlers, Callback(h) PROVE OnceInv'
  <2>1. CASE TakeSlot(h)
    BY <2>1, StageKeeps DEF TakeSlot, At, Stages, Admitting
  <2>2. CASE TurnAway(h) \/ NotClaimed(h) \/ EndJob(h)
    BY <2>2, LeaveKeeps DEF TurnAway, NotClaimed, EndJob
  <2>3. CASE ExecuteCommand(h)
    BY <2>3, LeaveKeeps DEF ExecuteCommand
  <2>4. CASE AcceptCheck(h)
    BY <2>4, StageKeeps DEF AcceptCheck, At, Stages, Admitting
  <2>5. CASE StartCheck(h) \/ EndCheck(h) \/ SendResult(h)
    BY <2>5, StageKeeps DEF StartCheck, EndCheck, SendResult, At, Stages, Admitting
  <2> QED BY <1>1, <2>1, <2>2, <2>3, <2>4, <2>5, PurgeKeeps, InsertKeeps DEF Callback
<1>2. CASE EditChannel \/ ArchiveCommanded \/ UNCHANGED wecomVars
  <2>1. UNCHANGED <<receipts, handler, clock, begun>>
    BY <1>2 DEF EditChannel, ArchiveCommanded, wecomVars
  <2>2. \A m \in Messages : Closed(m)' <=> Closed(m)
    BY <2>1 DEF Closed, Deadline
  <2>3. \A h \in Handlers : HandlerInv(h)'
    BY <2>1 DEF OnceInv, HandlerInv, Closed, Deadline
  <2> QED BY <2>1, <2>2, <2>3 DEF OnceInv, Typed, ReceiptsRecent, At
<1> QED
  BY <1>1, <1>2, DeliverKeeps, MinuteKeeps, StopKeeps DEF WeComNext

\* As long as receipts are kept for twice the window and the time a callback
\* takes to leave one, a command runs at most once, for any number of callbacks,
\* deliveries and crashes (ClaimWeComCallback).
THEOREM CommandsOnce ==
  ASSUME KeptLongEnough
  PROVE  WeComSpec => []AtMostOnce
<1>1. OnceInv => AtMostOnce
  <2>1. \A n \in {0, 1} : n <= 1
    BY SMT
  <2> QED BY <2>1 DEF OnceInv, Typed, AtMostOnce
<1>2. OnceInv /\ [WeComNext]_wecomVars => OnceInv'
  BY OnceStep
<1> QED
  BY <1>1, <1>2, OnceInit, PTL DEF WeComSpec

-----------------------------------------------------------------------------
(* Slots.                                                                        *)

Busy == {h \in Handlers : handler[h].stage \in Working}

SlotInv ==
  /\ handler \in [Handlers -> Handling] /\ clock \in Nat
  /\ slots = Cardinality(Busy) /\ slots <= Slots

\* The callback of one handler moves: the slots taken change with it.
LEMMA BusyMoves ==
  ASSUME IsFiniteSet(Handlers), SlotInv, NEW h \in Handlers, NEW x \in Handling,
         handler' = [handler EXCEPT ![h] = x], UNCHANGED clock,
         \/ (handler[h].stage \in Working <=> x.stage \in Working) /\ UNCHANGED slots
         \/ /\ handler[h].stage \notin Working /\ x.stage \in Working
            /\ slots < Slots /\ slots' = slots + 1
         \/ /\ handler[h].stage \in Working /\ x.stage \notin Working
            /\ slots' = slots - 1
  PROVE  SlotInv'
<1>1. /\ handler' \in [Handlers -> Handling] /\ handler'[h] = x
      /\ \A g \in Handlers \ {h} : handler'[g] = handler[g]
  BY DEF SlotInv
<1>2. IsFiniteSet(Busy) /\ Cardinality(Busy) \in Nat
  <2>1. Busy \in SUBSET Handlers
    BY DEF Busy
  <2> QED BY <2>1, FS_Subset, FS_CardinalityType
<1>3. CASE (handler[h].stage \in Working <=> x.stage \in Working) /\ UNCHANGED slots
  <2>1. Busy' = Busy
    BY <1>1, <1>3 DEF Busy
  <2> QED BY <1>1, <1>3, <2>1 DEF SlotInv
<1>4. CASE /\ handler[h].stage \notin Working /\ x.stage \in Working
           /\ slots < Slots /\ slots' = slots + 1
  <2>1. Busy' = Busy \cup {h} /\ h \notin Busy
    BY <1>1, <1>4 DEF Busy
  <2>2. Cardinality(Busy') = Cardinality(Busy) + 1
    BY <1>2, <2>1, FS_AddElement
  <2>3. slots' = Cardinality(Busy') /\ slots' <= Slots
    BY <1>2, <1>4, <2>2, ClockAssumption, SMT DEF SlotInv
  <2> QED BY <1>1, <2>3 DEF SlotInv
<1>5. CASE /\ handler[h].stage \in Working /\ x.stage \notin Working
           /\ slots' = slots - 1
  <2>1. Busy' = Busy \ {h} /\ h \in Busy
    BY <1>1, <1>5 DEF Busy
  <2>2. Cardinality(Busy') = Cardinality(Busy) - 1
    BY <1>2, <2>1, FS_RemoveElement
  <2>3. slots' = Cardinality(Busy') /\ slots' <= Slots
    BY <1>2, <1>5, <2>2, ClockAssumption, SMT DEF SlotInv
  <2> QED BY <1>1, <2>3 DEF SlotInv
<1> QED
  BY <1>3, <1>4, <1>5

LEMMA SlotInit == WeComInit => SlotInv
<1> SUFFICES ASSUME WeComInit PROVE SlotInv
  OBVIOUS
<1>1. handler \in [Handlers -> Handling] /\ \A h \in Handlers : handler[h].stage = "idle"
  BY FreeTyped DEF WeComInit
<1>2. Busy = {}
  BY <1>1 DEF Busy, Working
<1>3. slots = 0 /\ clock = 0
  BY DEF WeComInit
<1> QED
  BY <1>1, <1>2, <1>3, FS_EmptySet, ClockAssumption, SMT DEF SlotInv

LEMMA SlotStep ==
  ASSUME IsFiniteSet(Handlers), SlotInv, [WeComNext]_wecomVars
  PROVE  SlotInv'
<1>0. handler \in [Handlers -> Handling]
  BY DEF SlotInv
<1>1. ASSUME NEW h \in Handlers, Leave(h), UNCHANGED clock,
             \/ handler[h].stage \in Working /\ slots' = slots - 1
             \/ handler[h].stage \notin Working /\ UNCHANGED slots
      PROVE  SlotInv'
  BY <1>1, FreeTyped, BusyMoves DEF Leave, Working
<1>2. ASSUME NEW h \in Handlers, NEW s \in Stages, Enter(h, s), s \in Working,
             UNCHANGED clock,
             \/ handler[h].stage \in Working /\ UNCHANGED slots
             \/ handler[h].stage \notin Working /\ slots < Slots /\ slots' = slots + 1
      PROVE  SlotInv'
  <2> DEFINE x == [handler[h] EXCEPT !.stage = s]
  <2>1. handler' = [handler EXCEPT ![h] = x]
    BY <1>2 DEF Enter
  <2>2. x \in Handling /\ x.stage = s
    BY <1>0 DEF Handling
  <2> HIDE DEF x
  <2> QED BY <1>2, <2>1, <2>2, BusyMoves
<1>3. ASSUME NEW h \in Handlers, Callback(h) PROVE SlotInv'
  <2>1. CASE TakeSlot(h)
    BY <1>2, <2>1 DEF TakeSlot, At, Working, Stages
  <2>2. CASE TurnAway(h)
    BY <1>1, <2>2 DEF TurnAway, At, Working
  <2>3. CASE NotClaimed(h) \/ EndJob(h)
    BY <1>1, <2>3 DEF NotClaimed, EndJob, At, Working, Stages
  <2>4. CASE ExecuteCommand(h)
    BY <1>1, <2>4 DEF ExecuteCommand, At, Working, Stages
  <2>5. CASE PurgeReceipts(h) \/ InsertReceipt(h)
    BY <1>2, <2>5 DEF PurgeReceipts, InsertReceipt, At, Working, Stages
  <2>6. CASE AcceptCheck(h) \/ StartCheck(h) \/ EndCheck(h) \/ SendResult(h)
    BY <1>2, <2>6 DEF AcceptCheck, StartCheck, EndCheck, SendResult, At, Working, Stages
  <2> QED BY <1>3, <2>1, <2>2, <2>3, <2>4, <2>5, <2>6 DEF Callback
<1>4. ASSUME NEW h \in Handlers, NEW m \in Messages, Deliver(h, m) PROVE SlotInv'
  <2> DEFINE x == [stage |-> "checked", msg |-> m, since |-> clock]
  <2>1. /\ handler' = [handler EXCEPT ![h] = x] /\ UNCHANGED <<slots, clock>>
        /\ handler[h].stage = "idle"
    BY <1>4 DEF Deliver, At
  <2>2. x \in Handling /\ x.stage = "checked"
    <3>1. clock \in Int
      BY SMT DEF SlotInv
    <3> QED BY <3>1 DEF Handling, Stages
  <2> HIDE DEF x
  <2> QED BY <2>1, <2>2, BusyMoves DEF Working
<1>5. CASE StopServer
  <2>1. handler' = [h \in Handlers |-> Free] /\ slots' = 0 /\ UNCHANGED clock
    BY <1>5 DEF StopServer
  <2>2. handler' \in [Handlers -> Handling] /\ Busy' = {}
    BY <2>1, FreeTyped DEF Busy, Working
  <2> QED BY <2>1, <2>2, FS_EmptySet, ClockAssumption, SMT DEF SlotInv
<1>6. CASE EditChannel \/ ArchiveCommanded \/ Minute \/ UNCHANGED wecomVars
  <2>1. UNCHANGED <<handler, slots>> /\ clock' \in {clock, clock + 1}
    BY <1>6 DEF EditChannel, ArchiveCommanded, Minute, wecomVars
  <2>2. clock' \in Nat
    BY <2>1, SMT DEF SlotInv
  <2> QED BY <2>1, <2>2 DEF SlotInv, Busy
<1> QED
  BY <1>3, <1>4, <1>5, <1>6 DEF WeComNext

\* Commands at work never exceed the slots, however they end and however many
\* callbacks arrive at once (weComCallback).
THEOREM SlotsSuffice ==
  ASSUME IsFiniteSet(Handlers)
  PROVE  WeComSpec => []CapacityKept
<1>1. SlotInv => CapacityKept
  <2>1. {h \in Handlers : handler[h].stage \in Working} = Busy
    BY DEF Busy
  <2> QED BY <2>1 DEF SlotInv, CapacityKept
<1>2. SlotInv /\ [WeComNext]_wecomVars => SlotInv'
  BY SlotStep
<1> QED
  BY <1>1, <1>2, SlotInit, PTL DEF WeComSpec

-----------------------------------------------------------------------------
(* Refused messages.  Only the claim leaves a receipt, and what is claimed     *)
(* runs; nobody but a crash takes a claim away from its callback.              *)

AboutToRun(m) == \E h \in Handlers : At(h, "claimed") /\ handler[h].msg = m

ReceiptInv ==
  /\ handler \in [Handlers -> Handling]
  /\ receipts \in [Messages -> Int \cup {Never}]
  /\ begun \in [Messages -> Nat]
  /\ clock \in Int /\ crashes \in Nat
  /\ RefusedMayReturn

\* Receipts only go, counts only grow, and a claim is kept or has run.
LEMMA ClaimsKept ==
  ASSUME ReceiptInv, crashes' = crashes,
         handler' \in [Handlers -> Handling], begun' \in [Messages -> Nat],
         receipts' \in [Messages -> Int \cup {Never}], clock' \in Int,
         \A m \in Messages :
           /\ receipts'[m] # Never => receipts[m] # Never \/ AboutToRun(m)'
           /\ begun[m] > 0 => begun'[m] > 0
           /\ AboutToRun(m) => AboutToRun(m)' \/ begun'[m] > 0
  PROVE  ReceiptInv'
<1>1. crashes = 0 => \A m \in Messages : receipts[m] # Never => begun[m] > 0 \/ AboutToRun(m)
  BY DEF ReceiptInv, RefusedMayReturn, AboutToRun
<1>2. crashes' = 0 => \A m \in Messages : receipts'[m] # Never => begun'[m] > 0 \/ AboutToRun(m)'
  BY <1>1
<1>3. RefusedMayReturn'
  BY <1>2 DEF RefusedMayReturn, AboutToRun
<1> QED BY <1>3 DEF ReceiptInv

\* A callback that is not at a claim goes elsewhere.
LEMMA OthersClaims ==
  ASSUME ReceiptInv, NEW h \in Handlers, ~At(h, "claimed"), NEW work \in Handling,
         handler' = [handler EXCEPT ![h] = work]
  PROVE  /\ handler' \in [Handlers -> Handling]
         /\ \A m \in Messages : AboutToRun(m) => AboutToRun(m)'
<1>1. handler \in [Handlers -> Handling]
  BY DEF ReceiptInv
<1>2. \A g \in Handlers : At(g, "claimed") => handler'[g] = handler[g]
  BY <1>1 DEF At
<1> QED BY <1>1, <1>2 DEF AboutToRun, At

LEMMA ReceiptsInit == WeComInit => ReceiptInv
<1> SUFFICES ASSUME WeComInit PROVE ReceiptInv
  OBVIOUS
<1>1. handler \in [Handlers -> Handling]
  BY FreeTyped DEF WeComInit
<1> QED BY <1>1 DEF WeComInit, ReceiptInv, RefusedMayReturn

LEMMA ReceiptsStep == ReceiptInv /\ [WeComNext]_wecomVars => ReceiptInv'
<1> SUFFICES ASSUME ReceiptInv, [WeComNext]_wecomVars PROVE ReceiptInv'
  OBVIOUS
<1>0. /\ handler \in [Handlers -> Handling] /\ begun \in [Messages -> Nat]
      /\ receipts \in [Messages -> Int \cup {Never}] /\ clock \in Int /\ crashes \in Nat
      /\ Never \notin Int
  BY ClockAssumption DEF ReceiptInv
<1>e. ASSUME NEW h \in Handlers, NEW stage \in Stages, Enter(h, stage)
      PROVE  \E work \in Handling : /\ handler' = [handler EXCEPT ![h] = work]
                                    /\ work.stage = stage /\ work.msg = handler[h].msg
  <2> DEFINE work == [handler[h] EXCEPT !.stage = stage]
  <2>1. work \in Handling /\ work.stage = stage /\ work.msg = handler[h].msg
    BY <1>0 DEF Handling
  <2>2. handler' = [handler EXCEPT ![h] = work]
    BY <1>0, <1>e DEF Enter
  <2> HIDE DEF work
  <2> QED BY <2>1, <2>2
\* Steps of a callback that change no receipt and no count.
<1>k. ASSUME NEW h \in Handlers, ~At(h, "claimed"), NEW work \in Handling,
             handler' = [handler EXCEPT ![h] = work],
             UNCHANGED <<receipts, begun, clock, crashes>>
      PROVE  ReceiptInv'
  BY <1>0, <1>k, OthersClaims, ClaimsKept
<1>u. ASSUME UNCHANGED <<receipts, begun, handler, crashes>>, clock' \in Int PROVE ReceiptInv'
  <2>1. \A m \in Messages : AboutToRun(m)' <=> AboutToRun(m)
    BY <1>u DEF AboutToRun, At
  <2> QED BY <1>0, <1>u, <2>1, ClaimsKept
<1>1. ASSUME NEW h \in Handlers, NEW m \in Messages, Deliver(h, m) PROVE ReceiptInv'
  <2>1. [stage |-> "checked", msg |-> m, since |-> clock] \in Handling
    BY <1>0 DEF Handling, Stages
  <2> QED BY <1>1, <1>k, <2>1 DEF Deliver, At
<1>2. ASSUME NEW h \in Handlers, TakeSlot(h) \/ StartCheck(h) \/ EndCheck(h) \/ SendResult(h)
      PROVE  ReceiptInv'
  <2>1. PICK stage \in {"slot", "checking", "finished", "sending"} : Enter(h, stage)
    BY <1>2 DEF TakeSlot, StartCheck, EndCheck, SendResult
  <2>2. ~At(h, "claimed") /\ UNCHANGED <<receipts, begun, clock, crashes>>
    BY <1>2 DEF TakeSlot, StartCheck, EndCheck, SendResult, At
  <2>3. PICK work \in Handling : handler' = [handler EXCEPT ![h] = work]
    BY <1>e, <2>1 DEF Stages
  <2> QED BY <1>k, <2>2, <2>3
<1>3. ASSUME NEW h \in Handlers, TurnAway(h) \/ NotClaimed(h) \/ EndJob(h) PROVE ReceiptInv'
  <2>1. ~At(h, "claimed") /\ UNCHANGED <<receipts, begun, clock, crashes>> /\ Leave(h)
    BY <1>3 DEF TurnAway, NotClaimed, EndJob, At
  <2> QED BY <1>k, <2>1, FreeTyped DEF Leave
<1>4. ASSUME NEW h \in Handlers, PurgeReceipts(h) PROVE ReceiptInv'
  <2>1. ~At(h, "claimed") /\ Enter(h, "purged") /\ UNCHANGED <<begun, clock, crashes>>
    BY <1>4 DEF PurgeReceipts, At
  <2>2. /\ receipts' \in [Messages -> Int \cup {Never}]
        /\ \A m \in Messages : receipts'[m] # Never => receipts[m] # Never
    BY <1>0, <1>4 DEF PurgeReceipts
  <2>p. PICK work \in Handling : /\ handler' = [handler EXCEPT ![h] = work]
                                 /\ work.stage = "purged" /\ work.msg = handler[h].msg
    BY <1>e, <2>1 DEF Stages
  <2>3. /\ handler' \in [Handlers -> Handling]
        /\ \A m \in Messages : AboutToRun(m) => AboutToRun(m)'
    BY <2>1, <2>p, OthersClaims
  <2> QED BY <1>0, <2>1, <2>2, <2>3, ClaimsKept
<1>5. ASSUME NEW h \in Handlers, InsertReceipt(h) PROVE ReceiptInv'
  <2>1. /\ ~At(h, "claimed") /\ Enter(h, "claimed") /\ UNCHANGED <<begun, clock, crashes>>
        /\ receipts' = [receipts EXCEPT ![handler[h].msg] = clock]
    BY <1>5 DEF InsertReceipt, At
  <2>2. receipts' \in [Messages -> Int \cup {Never}]
    BY <1>0, <2>1
  <2>p. PICK work \in Handling : /\ handler' = [handler EXCEPT ![h] = work]
                                 /\ work.stage = "claimed" /\ work.msg = handler[h].msg
    BY <1>e, <2>1 DEF Stages
  <2>3. /\ handler' \in [Handlers -> Handling]
        /\ \A m \in Messages : AboutToRun(m) => AboutToRun(m)'
    BY <2>1, <2>p, OthersClaims
  <2>4. handler'[h].stage = "claimed" /\ handler'[h].msg = handler[h].msg
    BY <1>0, <2>p
  <2>5. \A m \in Messages : receipts'[m] # Never => receipts[m] # Never \/ AboutToRun(m)'
    BY <1>0, <2>1, <2>4 DEF AboutToRun, At
  <2> QED BY <1>0, <2>1, <2>2, <2>3, <2>5, ClaimsKept
\* The command of h runs.
<1>6. ASSUME NEW h \in Handlers, ExecuteCommand(h) \/ AcceptCheck(h) PROVE ReceiptInv'
  <2>1. /\ begun' = [begun EXCEPT ![handler[h].msg] = @ + 1]
        /\ UNCHANGED <<receipts, clock, crashes>>
        /\ Leave(h) \/ Enter(h, "accepted")
    BY <1>6 DEF ExecuteCommand, AcceptCheck, Begin
  <2>2. PICK work \in Handling : handler' = [handler EXCEPT ![h] = work]
    BY <1>e, <2>1, FreeTyped DEF Leave, Stages
  <2>3. begun' \in [Messages -> Nat] /\ \A m \in Messages : begun[m] > 0 => begun'[m] > 0
    <3>1. DOMAIN begun' = Messages /\ begun' = [m \in Messages |-> begun'[m]]
      BY <1>0, <2>1
    <3>2. \A m \in Messages : begun'[m] = begun[m] \/ begun'[m] = begun[m] + 1
      BY <1>0, <2>1
    <3>3. \A m \in Messages : begun[m] \in Nat
      BY <1>0
    <3>4. \A m \in Messages : begun'[m] \in Nat /\ (begun[m] > 0 => begun'[m] > 0)
      BY <3>2, <3>3
    <3> QED BY <3>1, <3>4
  <2>4. \A m \in Messages : handler[h].msg = m => begun'[m] > 0
    BY <1>0, <2>1
  <2>5. \A g \in Handlers : g # h => handler'[g] = handler[g]
    BY <1>0, <2>2
  <2>6. \A m \in Messages : AboutToRun(m) => AboutToRun(m)' \/ begun'[m] > 0
    BY <2>4, <2>5 DEF AboutToRun, At
  <2>7. handler' \in [Handlers -> Handling]
    BY <1>0, <2>2
  <2> QED BY <1>0, <2>1, <2>3, <2>6, <2>7, ClaimsKept
<1>7. CASE EditChannel \/ ArchiveCommanded \/ Minute \/ UNCHANGED wecomVars
  BY <1>0, <1>7, <1>u DEF EditChannel, ArchiveCommanded, Minute, wecomVars
<1>8. CASE StopServer
  <2>1. /\ handler' \in [Handlers -> Handling] /\ crashes' \in Nat /\ crashes' # 0
        /\ UNCHANGED <<receipts, begun, clock>>
    BY <1>0, <1>8, FreeTyped DEF StopServer
  <2> QED BY <1>0, <2>1 DEF ReceiptInv, RefusedMayReturn
<1> QED BY <1>1, <1>2, <1>3, <1>4, <1>5, <1>6, <1>7, <1>8 DEF WeComNext, Callback

\* As long as the process has not died, a message with a receipt was executed or
\* is about to be: a callback that is turned away, or fails before its claim,
\* leaves none, so that WeCom can deliver the message again.
THEOREM RefusedReturn == WeComSpec => []RefusedMayReturn
<1>1. ReceiptInv => RefusedMayReturn
  BY DEF ReceiptInv
<1> QED BY <1>1, ReceiptsInit, ReceiptsStep, PTL DEF WeComSpec
=============================================================================
