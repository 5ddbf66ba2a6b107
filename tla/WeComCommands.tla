----------------------------- MODULE WeComCommands -----------------------------
(* Commands that members send to the WeCom application of one channel.  A     *)
(* callback is checked, takes one of a few slots, leaves a receipt and runs    *)
(* its command; a manual check goes on after the answer and keeps the slot.    *)
(* WeCom delivers a message again when it gets no answer in time.              *)
EXTENDS Integers, FiniteSets

CONSTANTS Handlers,        \* callbacks, with their jobs, at work at once
          Messages,        \* messages members send
          Envelope,        \* what each message says
          Members, Apps,   \* members; applications (corpId and agentId)
          NoMessage,       \* a handler at rest
          Never,           \* no receipt
          Slots,           \* cap of weComSlots
          Window,          \* minutes a message may be off the clock
          Retention,       \* minutes a receipt is kept
          Patience,        \* minutes a callback may take to leave its receipt
          MaxTime, MaxDeliveries, MaxEdits, MaxCrashes   \* bounds

Commands == {"look", "enable", "disable", "check"}

ASSUME EnvelopeAssumption ==
  /\ Envelope \in [Messages -> [app: Apps, sender: Members, created: Int,
                                command: Commands]]
  /\ NoMessage \notin Messages
ASSUME ClockAssumption ==
  /\ Slots \in Nat /\ Window \in Nat /\ Retention \in Nat /\ Patience \in Nat
  /\ MaxTime \in Nat /\ Never \notin Int

VARIABLES channel,         \* the channel's row
          monitor,         \* whether the monitor of the commands is enabled
          receipts,        \* wecom_callback_receipts: created_at of a message
          slots,           \* len(weComSlots)
          handler,         \* the callbacks and what became of them
          clock,           \* minutes
          begun,           \* history: how often a message was executed
          deliveries, edits, crashes                    \* bounded

wecomVars == <<channel, monitor, receipts, slots, handler, clock, begun,
               deliveries, edits, crashes>>

\* open: of type WeCom, enabled, with commandsEnabled.
Channels == [open: BOOLEAN, app: Apps, allowed: SUBSET Members]

Stages == {"idle", "checked", "slot", "purged", "claimed",
           "accepted", "checking", "finished", "sending"}

\* Stages of a callback that has left no receipt yet, and of its job.
Admitting == {"checked", "slot", "purged"}
Working == Stages \ {"idle", "checked"}

Handling == [stage: Stages, msg: Messages \cup {NoMessage}, since: Int]

Free == [stage |-> "idle", msg |-> NoMessage, since |-> 0]

WeComInit ==
  /\ channel \in Channels /\ channel.open
  /\ monitor = "off"
  /\ receipts = [m \in Messages |-> Never]
  /\ slots = 0
  /\ handler = [h \in Handlers |-> Free]
  /\ clock = 0
  /\ begun = [m \in Messages |-> 0]
  /\ deliveries = 0 /\ edits = 0 /\ crashes = 0

At(h, stage) == handler[h].stage = stage
Said(h) == Envelope[handler[h].msg]
Enter(h, stage) == handler' = [handler EXCEPT ![h].stage = stage]
Leave(h) == handler' = [handler EXCEPT ![h] = Free]

\* weComCommandChannel, and the comparison with the application of the command.
Authorised(m) == /\ channel.open
                 /\ channel.app = Envelope[m].app
                 /\ Envelope[m].sender \in channel.allowed

-----------------------------------------------------------------------------
(* The callback.                                                            *)

\* A message that passes every check; others change nothing.
Deliver(h, m) ==
  /\ At(h, "idle")
  /\ deliveries < MaxDeliveries
  /\ Authorised(m)
  /\ Envelope[m].created \in (clock - Window)..(clock + Window)
  /\ handler' = [handler EXCEPT
       ![h] = [stage |-> "checked", msg |-> m, since |-> clock]]
  /\ deliveries' = deliveries + 1
  /\ UNCHANGED <<channel, monitor, receipts, slots, clock, begun, edits, crashes>>

TakeSlot(h) ==
  /\ At(h, "checked") /\ slots < Slots
  /\ slots' = slots + 1
  /\ Enter(h, "slot")
  /\ UNCHANGED <<channel, monitor, receipts, clock, begun, deliveries, edits, crashes>>

TurnAwayClaimed(h) ==            \* mutant: the receipt comes before the slot
  /\ At(h, "checked") /\ slots = Slots
  /\ receipts' = [receipts EXCEPT ![handler[h].msg] = clock]
  /\ Leave(h)
  /\ UNCHANGED <<channel, monitor, slots, clock, begun, deliveries, edits, crashes>>

TurnAway(h) ==
  /\ At(h, "checked") /\ slots = Slots
  /\ Leave(h)
  /\ UNCHANGED <<channel, monitor, receipts, slots, clock, begun, deliveries, edits, crashes>>

\* The two statements of ClaimWeComCallback.
PurgeReceiptsEarly(h) ==         \* mutant: receipts go with their window
  /\ At(h, "slot")
  /\ receipts' = [m \in Messages |->
       IF receipts[m] # Never /\ receipts[m] < clock - Window
       THEN Never ELSE receipts[m]]
  /\ Enter(h, "purged")
  /\ UNCHANGED <<channel, monitor, slots, clock, begun, deliveries, edits, crashes>>

PurgeReceipts(h) ==
  /\ At(h, "slot")
  /\ receipts' = [m \in Messages |->
       IF receipts[m] # Never /\ receipts[m] < clock - Retention
       THEN Never ELSE receipts[m]]
  /\ Enter(h, "purged")
  /\ UNCHANGED <<channel, monitor, slots, clock, begun, deliveries, edits, crashes>>

InsertReceipt(h) ==
  /\ At(h, "purged") /\ receipts[handler[h].msg] = Never
  /\ receipts' = [receipts EXCEPT ![handler[h].msg] = clock]
  /\ Enter(h, "claimed")
  /\ UNCHANGED <<channel, monitor, slots, clock, begun, deliveries, edits, crashes>>

\* There is a receipt, and the answer is "success", or a statement has failed.
NotClaimed(h) ==
  /\ At(h, "slot") \/ At(h, "purged")
  /\ slots' = slots - 1
  /\ Leave(h)
  /\ UNCHANGED <<channel, monitor, receipts, clock, begun, deliveries, edits, crashes>>

\* What may become of the monitor; a statement may fail.
Outcomes(command) ==
  {monitor} \cup CASE monitor = "archived" -> {}
                   [] command = "enable" -> {"on"}
                   [] command = "disable" -> {"off"}
                   [] OTHER -> {}

Begin(h) == begun' = [begun EXCEPT ![handler[h].msg] = @ + 1]

\* A command that is done with its answer, or was not accepted.
ExecuteCommand(h) ==
  /\ At(h, "claimed")
  /\ monitor' \in Outcomes(Said(h).command)
  /\ Begin(h)
  /\ slots' = slots - 1
  /\ Leave(h)
  /\ UNCHANGED <<channel, receipts, clock, deliveries, edits, crashes>>

AcceptCheckDetached(h) ==        \* mutant: the answer returns the slot
  /\ At(h, "claimed") /\ Said(h).command = "check" /\ monitor # "archived"
  /\ Begin(h)
  /\ slots' = slots - 1
  /\ Enter(h, "accepted")
  /\ UNCHANGED <<channel, monitor, receipts, clock, deliveries, edits, crashes>>

AcceptCheck(h) ==
  /\ At(h, "claimed") /\ Said(h).command = "check" /\ monitor # "archived"
  /\ Begin(h)
  /\ Enter(h, "accepted")
  /\ UNCHANGED <<channel, monitor, receipts, slots, clock, deliveries, edits, crashes>>

-----------------------------------------------------------------------------
(* The detached check.                                                      *)

StartCheck(h) ==
  /\ At(h, "accepted") /\ Authorised(handler[h].msg)
  /\ Enter(h, "checking")
  /\ UNCHANGED <<channel, monitor, receipts, slots, clock, begun, deliveries, edits, crashes>>

\* RunOnce, bounded by three minutes, and the audit log.
EndCheck(h) ==
  /\ At(h, "checking")
  /\ Enter(h, "finished")
  /\ UNCHANGED <<channel, monitor, receipts, slots, clock, begun, deliveries, edits, crashes>>

SendResult(h) ==
  /\ At(h, "finished") /\ Authorised(handler[h].msg)
  /\ Enter(h, "sending")
  /\ UNCHANGED <<channel, monitor, receipts, slots, clock, begun, deliveries, edits, crashes>>

EndJobUnauthorised(h) ==         \* mutant: an early return keeps the slot
  /\ \/ At(h, "sending")
     \/ (At(h, "accepted") \/ At(h, "finished")) /\ ~Authorised(handler[h].msg)
  /\ slots' = IF At(h, "sending") THEN slots - 1 ELSE slots
  /\ Leave(h)
  /\ UNCHANGED <<channel, monitor, receipts, clock, begun, deliveries, edits, crashes>>

\* The job returns: the result is sent, or the member may not have it.
EndJob(h) ==
  /\ \/ At(h, "sending")
     \/ (At(h, "accepted") \/ At(h, "finished")) /\ ~Authorised(handler[h].msg)
  /\ slots' = slots - 1
  /\ Leave(h)
  /\ UNCHANGED <<channel, monitor, receipts, clock, begun, deliveries, edits, crashes>>

-----------------------------------------------------------------------------
(* Everybody else.                                                          *)

EditChannel ==
  /\ edits < MaxEdits
  /\ channel' \in Channels \ {channel}
  /\ edits' = edits + 1
  /\ UNCHANGED <<monitor, receipts, slots, handler, clock, begun, deliveries, crashes>>

ArchiveCommanded ==
  /\ edits < MaxEdits
  /\ monitor # "archived" /\ monitor' = "archived"
  /\ edits' = edits + 1
  /\ UNCHANGED <<channel, receipts, slots, handler, clock, begun, deliveries, crashes>>

StopServer ==
  /\ crashes < MaxCrashes
  /\ crashes' = crashes + 1
  /\ handler' = [h \in Handlers |-> Free]
  /\ slots' = 0
  /\ UNCHANGED <<channel, monitor, receipts, clock, begun, deliveries, edits>>

\* Time passes, but no callback takes longer than Patience to be admitted.
Minute ==
  /\ clock < MaxTime
  /\ \A h \in Handlers :
       handler[h].stage \in Admitting => clock < handler[h].since + Patience
  /\ clock' = clock + 1
  /\ UNCHANGED <<channel, monitor, receipts, slots, handler, begun, deliveries, edits, crashes>>

-----------------------------------------------------------------------------
Callback(h) ==
  \/ TakeSlot(h) \/ TurnAway(h) \/ PurgeReceipts(h) \/ InsertReceipt(h)
  \/ NotClaimed(h) \/ ExecuteCommand(h) \/ AcceptCheck(h)
  \/ StartCheck(h) \/ EndCheck(h) \/ SendResult(h) \/ EndJob(h)

WeComNext ==
  \/ \E h \in Handlers : Callback(h) \/ \E m \in Messages : Deliver(h, m)
  \/ EditChannel \/ ArchiveCommanded \/ StopServer \/ Minute

\* Statements return, checks and sends have deadlines.
WeComFairness == \A h \in Handlers : WF_wecomVars(Callback(h))

WeComSpec == WeComInit /\ [][WeComNext]_wecomVars /\ WeComFairness

-----------------------------------------------------------------------------
(* Properties.                                                              *)

\* A command is executed at most once, however often its message is
\* delivered, whatever crashes in between and although receipts are deleted
\* again (ClaimWeComCallback; the README promises the same).
AtMostOnce == \A m \in Messages : begun[m] <= 1

\* Commands at work, detached checks among them, keep within the slots
\* (weComSlots; the README says four).
CapacityKept == Cardinality({h \in Handlers : handler[h].stage \in Working}) <= Slots

\* A message that was answered with an error can be delivered again: unless
\* the process died, whatever has a receipt was or is about to be executed.
RefusedMayReturn ==
  crashes = 0 =>
    \A m \in Messages : receipts[m] # Never =>
      begun[m] > 0 \/ \E h \in Handlers : At(h, "claimed") /\ handler[h].msg = m

\* Every way a callback or its job ends returns its slot: whenever all slots are
\* taken, one becomes free again.
SlotsReturn == []<>(slots < Slots)
=============================================================================
