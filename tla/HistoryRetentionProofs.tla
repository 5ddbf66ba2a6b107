------------------------- MODULE HistoryRetentionProofs -------------------------
(* What a cleanup leaves alone, for any number of workers, events, rows and days. *)
EXTENDS HistoryRetention, FiniteSetTheorems, TLAPS

Typed ==
  /\ attempts \in Seq(AttemptRows)
  /\ events \in [Events -> EventRows]
  /\ retrier \in [Retriers -> Retrying]
  /\ day \in Nat

\* A worker that sends has a row; while its lease is neither over nor somebody
\* else's, row and event are as they were when it claimed.
WorkerInv(w) ==
  LET r == retrier[w].source IN
  retrier[w].stage = "sending" =>
    /\ r \in AttemptIds
    /\ \/ Unclaimed(r, day) \/ Row(r).claimed[1] # w
       \/ Row(r).there /\ Row(r).attached = retrier[w].held

ClaimInv == Typed /\ \A w \in Retriers : WorkerInv(w)

-----------------------------------------------------------------------------
(* Rows.                                                                        *)

LEMMA RowTyped ==
  ASSUME Typed, NEW r \in AttemptIds
  PROVE  /\ Row(r) \in AttemptRows
         /\ Row(r).claimed \in (Retriers \X Nat) \cup {Unset}
         /\ Row(r).created \in Nat /\ Row(r).of \in Nat /\ Row(r).there \in BOOLEAN
         /\ r \in 1..Len(attempts) /\ Len(attempts) \in Nat
<1>1. Row(r) \in AttemptRows
  BY SMT DEF Typed, AttemptIds, Row
<1>2. r \in 1..Len(attempts) /\ Len(attempts) \in Nat
  BY SMT DEF Typed, AttemptIds
<1> QED
  BY <1>1, <1>2 DEF AttemptRows

\* A new row leaves the others where they are.
LEMMA RowAdded ==
  ASSUME NEW s \in Seq(AttemptRows), NEW row \in AttemptRows
  PROVE  /\ Append(s, row) \in Seq(AttemptRows)
         /\ DOMAIN Append(s, row) = DOMAIN s \cup {Len(s) + 1}
         /\ \A i \in DOMAIN s : Append(s, row)[i] = s[i] /\ i < Len(s) + 1
         /\ Append(s, row)[Len(s) + 1] = row
BY SMT

\* Rows that are written in place.
LEMMA RowsWritten ==
  ASSUME NEW s \in Seq(AttemptRows), NEW t, DOMAIN t = DOMAIN s,
         t = [i \in DOMAIN s |-> t[i]], \A i \in DOMAIN s : t[i] \in AttemptRows
  PROVE  t \in Seq(AttemptRows)
<1>1. DOMAIN s = 1..Len(s) /\ Len(s) \in Nat
  BY SMT
<1>2. t \in [1..Len(s) -> AttemptRows]
  BY <1>1
<1> QED
  BY <1>1, <1>2, SMT

LEMMA NewRowTyped ==
  ASSUME Typed, NEW e \in Events \cup {NoEvent}, NEW source \in Nat, NEW row \in NewRows(e, source)
  PROVE  /\ row \in AttemptRows
         /\ row.of = source /\ row.created = day /\ row.there /\ row.claimed = Unset
<1>1. PICK result \in {"sent", "failed", "failed for good"} :
        row = [there |-> TRUE, attached |-> e, of |-> source, failed |-> result # "sent",
               scheduled |-> result = "failed", claimed |-> Unset, created |-> day]
  BY DEF NewRows
<1> QED
  BY <1>1 DEF Typed, AttemptRows

\* One row is written.
LEMMA RowWritten ==
  ASSUME NEW s \in Seq(AttemptRows), NEW r \in DOMAIN s, NEW row \in AttemptRows
  PROVE  /\ [s EXCEPT ![r] = row] \in Seq(AttemptRows)
         /\ DOMAIN [s EXCEPT ![r] = row] = DOMAIN s
         /\ [s EXCEPT ![r] = row][r] = row
         /\ \A i \in DOMAIN s \ {r} : [s EXCEPT ![r] = row][i] = s[i]
<1> DEFINE t == [s EXCEPT ![r] = row]
<1>1. /\ DOMAIN t = DOMAIN s /\ t[r] = row
      /\ \A i \in DOMAIN s \ {r} : t[i] = s[i]
      /\ t = [i \in DOMAIN s |-> t[i]]
  OBVIOUS
<1>2. \A i \in DOMAIN s : s[i] \in AttemptRows
  BY SMT
<1>3. \A i \in DOMAIN s : t[i] \in AttemptRows
  BY <1>1, <1>2
<1> HIDE DEF t
<1>4. t \in Seq(AttemptRows)
  BY <1>1, <1>3, RowsWritten
<1> QED
  BY <1>1, <1>4 DEF t

LEMMA WrittenRow ==
  ASSUME Typed, NEW r \in AttemptIds, NEW row \in AttemptRows
  PROVE  \E t \in Seq(AttemptRows) :
           /\ t = [attempts EXCEPT ![r] = row] /\ DOMAIN t = AttemptIds /\ t[r] = row
           /\ \A i \in AttemptIds \ {r} : t[i] = attempts[i]
<1> DEFINE t == [attempts EXCEPT ![r] = row]
<1>1. attempts \in Seq(AttemptRows) /\ r \in DOMAIN attempts
  BY DEF Typed, AttemptIds
<1>2. /\ t \in Seq(AttemptRows) /\ DOMAIN t = AttemptIds /\ t[r] = row
      /\ \A i \in AttemptIds \ {r} : t[i] = attempts[i]
  BY <1>1, RowWritten DEF AttemptIds
<1> HIDE DEF t
<1> QED
  BY <1>2 DEF t

\* The columns a retry writes: its schedule and its lease.
LEMMA ColumnsTyped ==
  ASSUME NEW row \in AttemptRows, NEW f \in BOOLEAN,
         NEW c \in (Retriers \X Nat) \cup {Unset}
  PROVE  /\ [row EXCEPT !.scheduled = f, !.claimed = c] \in AttemptRows
         /\ [row EXCEPT !.scheduled = f, !.claimed = c].claimed = c
         /\ [row EXCEPT !.scheduled = f, !.claimed = c].scheduled = f
         /\ [row EXCEPT !.scheduled = f, !.claimed = c].there = row.there
         /\ [row EXCEPT !.scheduled = f, !.claimed = c].attached = row.attached
         /\ [row EXCEPT !.scheduled = f, !.claimed = c].of = row.of
         /\ [row EXCEPT !.scheduled = f, !.claimed = c].created = row.created
BY DEF AttemptRows

LEMMA AtRestTyped == AtRest \in Retrying /\ AtRest.stage = "idle"
BY DEF AtRest, Retrying

\* A worker's hold survives a step of others that leaves its row and its lease,
\* or ends the lease.
LEMMA WorkerKept ==
  ASSUME ClaimInv, NEW w \in Retriers, retrier'[w] = retrier[w],
         AttemptIds \subseteq AttemptIds', day' \in Nat, day <= day',
         \A r \in AttemptIds :
           \/ attempts'[r].claimed = Unset \/ attempts'[r].claimed[1] # w
           \/ Unclaimed(r, day) /\ attempts'[r].claimed = Row(r).claimed
           \/ /\ attempts'[r].claimed = Row(r).claimed
              /\ attempts'[r].there = Row(r).there
              /\ attempts'[r].attached = Row(r).attached
  PROVE  WorkerInv(w)'
<1> DEFINE r == retrier[w].source
<1> SUFFICES ASSUME retrier[w].stage = "sending"
             PROVE  /\ r \in AttemptIds'
                    /\ \/ Unclaimed(r, day)' \/ attempts'[r].claimed[1] # w
                       \/ attempts'[r].there /\ attempts'[r].attached = retrier[w].held
  BY DEF WorkerInv, Row, Unclaimed
<1>1. /\ r \in AttemptIds
      /\ \/ Unclaimed(r, day) \/ Row(r).claimed[1] # w
         \/ Row(r).there /\ Row(r).attached = retrier[w].held
  BY DEF ClaimInv, WorkerInv
<1>2. ASSUME Unclaimed(r, day), attempts'[r].claimed = Row(r).claimed
      PROVE  attempts'[r].claimed = Unset \/ attempts'[r].claimed[2] + ClaimLease <= day'
  <2>1. CASE Row(r).claimed = Unset
    BY <1>2, <2>1
  <2>2. CASE Row(r).claimed # Unset
    <3>1. Row(r).claimed \in Retriers \X Nat /\ Row(r).claimed[2] + ClaimLease <= day
      BY <1>1, <1>2, <2>2, RowTyped DEF ClaimInv, Unclaimed
    <3>2. Row(r).claimed[2] \in Nat /\ day \in Nat
      BY <3>1 DEF ClaimInv, Typed
    <3> QED BY <1>2, <3>1, <3>2, RetentionAssumption, SMT
  <2> QED BY <2>1, <2>2
<1>3. ASSUME attempts'[r].claimed = Unset \/ attempts'[r].claimed[2] + ClaimLease <= day'
      PROVE  (IF attempts'[r].claimed = Unset THEN TRUE
              ELSE attempts'[r].claimed[2] + ClaimLease <= day')
  BY <1>3
<1>4. Unclaimed(r, day)' <=>
        IF attempts'[r].claimed = Unset THEN TRUE
        ELSE attempts'[r].claimed[2] + ClaimLease <= day'
  BY DEF Unclaimed, Row
<1> QED
  BY <1>1, <1>2, <1>3, <1>4

-----------------------------------------------------------------------------
(* What each step does to the rows.                                             *)

\* Row r becomes like it, with another schedule and lease.
Rewritten(r, f, c) == attempts'[r] = [Row(r) EXCEPT !.scheduled = f, !.claimed = c]

Others(r) == \A i \in AttemptIds \ {r} : attempts'[i] = Row(i)

LEMMA RewrittenColumns ==
  ASSUME Typed, NEW r \in AttemptIds, NEW f \in BOOLEAN,
         NEW c \in (Retriers \X Nat) \cup {Unset}, Rewritten(r, f, c)
  PROVE  /\ attempts'[r].claimed = c /\ attempts'[r].scheduled = f
         /\ attempts'[r].there = Row(r).there
         /\ attempts'[r].attached = Row(r).attached
         /\ attempts'[r].of = Row(r).of /\ attempts'[r].created = Row(r).created
<1>1. PICK row \in AttemptRows : row = Row(r)
  BY RowTyped
<1>2. PICK new : new = [row EXCEPT !.scheduled = f, !.claimed = c]
  OBVIOUS
<1>3. attempts'[r] = new
  BY <1>1, <1>2 DEF Rewritten
<1>4. /\ new.claimed = c /\ new.scheduled = f /\ new.there = row.there
      /\ new.attached = row.attached /\ new.of = row.of /\ new.created = row.created
  BY <1>2 DEF AttemptRows
<1> QED
  BY <1>1, <1>3, <1>4

LEMMA ClaimRows ==
  ASSUME Typed, NEW w \in Retriers, ClaimSource(w)
  PROVE  /\ attempts' \in Seq(AttemptRows) /\ AttemptIds' = AttemptIds
         /\ There(retrier[w].source) /\ Successors(retrier[w].source) = {}
         /\ \E c \in Retriers \X Nat :
              c[1] = w /\ Rewritten(retrier[w].source, Row(retrier[w].source).scheduled, c)
         /\ Others(retrier[w].source)
<1> DEFINE r == retrier[w].source
           c == <<w, Stamp(w)>>
           row == [Row(r) EXCEPT !.scheduled = Row(r).scheduled, !.claimed = c]
<1>1. There(r) /\ Successors(r) = {} /\ r \in AttemptIds
  BY DEF ClaimSource, Claimable, There
<1>2. Stamp(w) \in Nat
  BY DEF Typed, Stamp, Retrying
<1>3. Row(r) \in AttemptRows /\ Row(r).scheduled \in BOOLEAN
  BY <1>1, RowTyped DEF AttemptRows
<1>4. row \in AttemptRows /\ [Row(r) EXCEPT !.claimed = c] = row
  BY <1>2, <1>3 DEF AttemptRows
<1>5. attempts' = [attempts EXCEPT ![r] = row]
  BY <1>4 DEF ClaimSource, Row
<1> HIDE DEF row
<1>6. /\ [attempts EXCEPT ![r] = row] \in Seq(AttemptRows)
      /\ DOMAIN [attempts EXCEPT ![r] = row] = DOMAIN attempts
      /\ [attempts EXCEPT ![r] = row][r] = row
      /\ \A i \in DOMAIN attempts \ {r} : [attempts EXCEPT ![r] = row][i] = attempts[i]
  BY <1>1, <1>4, RowWritten DEF Typed, AttemptIds
<1>7. c \in Retriers \X Nat /\ c[1] = w
  BY <1>2
<1> QED
  BY <1>1, <1>5, <1>6, <1>7 DEF row, AttemptIds, Rewritten, Others, Row

LEMMA RecordRows ==
  ASSUME Typed, NEW w \in Retriers, RecordSuccessor(w)
  PROVE  /\ There(retrier[w].source) /\ Successors(retrier[w].source) = {}
         /\ attempts' \in Seq(AttemptRows)
         /\ AttemptIds' = AttemptIds \cup {Len(attempts) + 1}
         /\ attempts'[Len(attempts) + 1].of = retrier[w].source
         /\ attempts'[Len(attempts) + 1].created = day
         /\ attempts'[Len(attempts) + 1].there
         /\ attempts'[Len(attempts) + 1].claimed = Unset
         /\ \E readBack \in BOOLEAN :
              /\ Rewritten(retrier[w].source, ~readBack, Unset)
              /\ reopened' = IF readBack THEN reopened ELSE reopened \cup {retrier[w].source}
         /\ Others(retrier[w].source)
<1> DEFINE r == retrier[w].source
<1>1. There(r) /\ Successors(r) = {} /\ r \in AttemptIds
  BY DEF RecordSuccessor, Insertable, There
<1>2. PICK row \in NewRows(retrier[w].seen, r), readBack \in BOOLEAN :
        /\ attempts' = Append([attempts EXCEPT ![r].scheduled = ~readBack,
                                               ![r].claimed = Unset], row)
        /\ reopened' = IF readBack THEN reopened ELSE reopened \cup {r}
  BY DEF RecordSuccessor
<1>3. retrier[w].seen \in Events \cup {NoEvent} /\ r \in Nat
  BY DEF Typed, Retrying
<1>4. row \in AttemptRows /\ row.of = r /\ row.created = day /\ row.there /\ row.claimed = Unset
  BY <1>3, NewRowTyped
<1>5. PICK old \in AttemptRows : old = [Row(r) EXCEPT !.scheduled = ~readBack, !.claimed = Unset]
  BY <1>1, RowTyped, ColumnsTyped
<1>6. [attempts EXCEPT ![r].scheduled = ~readBack, ![r].claimed = Unset]
        = [attempts EXCEPT ![r] = old]
  BY <1>1, <1>5 DEF Row, AttemptIds
<1> HIDE DEF r
<1>7. PICK t \in Seq(AttemptRows) :
        /\ t = [attempts EXCEPT ![r] = old] /\ DOMAIN t = AttemptIds /\ t[r] = old
        /\ \A i \in AttemptIds \ {r} : t[i] = attempts[i]
  BY <1>1, WrittenRow
<1>8. attempts' = Append(t, row)
  BY <1>2, <1>6, <1>7
<1>9. Len(t) = Len(attempts)
  BY <1>7, SMT DEF Typed, AttemptIds
<1>10. /\ attempts' \in Seq(AttemptRows)
       /\ AttemptIds' = AttemptIds \cup {Len(attempts) + 1}
       /\ \A i \in AttemptIds : attempts'[i] = t[i]
       /\ attempts'[Len(attempts) + 1] = row
  BY <1>4, <1>7, <1>8, <1>9, RowAdded DEF AttemptIds
<1>11. Rewritten(r, ~readBack, Unset) /\ Others(r)
  BY <1>1, <1>5, <1>7, <1>10 DEF Rewritten, Others, Row
<1> QED
  BY <1>1, <1>2, <1>4, <1>10, <1>11 DEF r

\* A worker gives its row back, to the schedule or not.
LEMMA GiveBackRows ==
  ASSUME Typed, NEW w \in Retriers, ReleaseSource(w) \/ CancelSource(w)
  PROVE  \/ UNCHANGED <<attempts, reopened>>
         \/ /\ attempts' \in Seq(AttemptRows) /\ AttemptIds' = AttemptIds
            /\ There(retrier[w].source)
            /\ \/ /\ Rewritten(retrier[w].source, TRUE, Unset)
                  /\ reopened' = reopened \cup ({retrier[w].source} \cap superseded)
               \/ Rewritten(retrier[w].source, FALSE, Unset) /\ UNCHANGED reopened
            /\ Others(retrier[w].source)
<1> DEFINE r == retrier[w].source
<1>1. CASE ~There(r)
  BY <1>1 DEF ReleaseSource, CancelSource
<1>2. CASE There(r)
  <2>1. r \in AttemptIds
    BY <1>2 DEF There
  <2>2. PICK f \in BOOLEAN :
          /\ attempts' = [attempts EXCEPT ![r].scheduled = f, ![r].claimed = Unset]
          /\ \/ f = TRUE /\ reopened' = reopened \cup ({r} \cap superseded)
             \/ f = FALSE /\ UNCHANGED reopened
    BY <1>2 DEF ReleaseSource, CancelSource
  <2>3. PICK old \in AttemptRows : old = [Row(r) EXCEPT !.scheduled = f, !.claimed = Unset]
    BY <2>1, RowTyped, ColumnsTyped
  <2>4. attempts' = [attempts EXCEPT ![r] = old]
    BY <2>1, <2>2, <2>3 DEF Row, AttemptIds
  <2> HIDE DEF r
  <2>5. PICK t \in Seq(AttemptRows) :
          /\ t = [attempts EXCEPT ![r] = old] /\ DOMAIN t = AttemptIds /\ t[r] = old
          /\ \A i \in AttemptIds \ {r} : t[i] = attempts[i]
    BY <2>1, <2>3, WrittenRow
  <2>6. Rewritten(r, f, Unset) /\ Others(r) /\ AttemptIds' = AttemptIds
    BY <2>1, <2>3, <2>4, <2>5 DEF Rewritten, Others, Row, AttemptIds
  <2> QED BY <1>2, <2>2, <2>4, <2>5, <2>6 DEF r
<1> QED
  BY <1>1, <1>2

LEMMA FirstRows ==
  ASSUME Typed, NEW e \in Events, FirstAttempt(e)
  PROVE  /\ attempts' \in Seq(AttemptRows)
         /\ AttemptIds' = AttemptIds \cup {Len(attempts) + 1}
         /\ \A i \in AttemptIds : attempts'[i] = Row(i)
         /\ attempts'[Len(attempts) + 1].of = 0
         /\ attempts'[Len(attempts) + 1].created = day
<1>1. PICK row \in NewRows(e, 0) : attempts' = Append(attempts, row)
  BY DEF FirstAttempt
<1>2. row \in AttemptRows /\ row.of = 0 /\ row.created = day
  <2>1. 0 \in Nat
    BY SMT
  <2> QED BY <1>1, <2>1, NewRowTyped
<1> QED
  BY <1>1, <1>2, RowAdded DEF Typed, AttemptIds, Row

LEMMA StopRows ==
  ASSUME Typed, StopRetries
  PROVE  /\ attempts' \in Seq(AttemptRows) /\ AttemptIds' = AttemptIds
         /\ \A r \in AttemptIds : attempts'[r] = Row(r) \/ Rewritten(r, FALSE, Unset)
<1>1. attempts' = [r \in AttemptIds |->
        IF There(r) /\ Row(r).scheduled
        THEN [Row(r) EXCEPT !.scheduled = FALSE, !.claimed = Unset] ELSE Row(r)]
  BY DEF StopRetries
<1>2. /\ DOMAIN attempts' = AttemptIds
      /\ attempts' = [i \in DOMAIN attempts |-> attempts'[i]]
      /\ \A r \in AttemptIds : attempts'[r] = Row(r) \/ Rewritten(r, FALSE, Unset)
  BY <1>1 DEF AttemptIds, Rewritten
<1>3. ASSUME NEW r \in AttemptIds PROVE attempts'[r] \in AttemptRows
  <2>1. Row(r) \in AttemptRows
    BY RowTyped
  <2>2. [Row(r) EXCEPT !.scheduled = FALSE, !.claimed = Unset] \in AttemptRows
    BY <2>1, ColumnsTyped
  <2> QED BY <1>2, <2>1, <2>2 DEF Rewritten
<1> QED
  BY <1>2, <1>3, RowsWritten DEF Typed, AttemptIds

Cleaned(gone, expired) ==
  /\ attempts' \in Seq(AttemptRows) /\ AttemptIds' = AttemptIds
  /\ \A e \in expired : ~Needed(e)
  /\ \A r \in gone : Unclaimed(r, day)
  /\ \A r \in AttemptIds :
       /\ attempts'[r].claimed = Row(r).claimed
       /\ attempts'[r].scheduled = Row(r).scheduled
       /\ attempts'[r].created = Row(r).created
       /\ attempts'[r].there = (Row(r).there /\ r \notin gone)
       /\ Row(r).attached \notin expired => attempts'[r].attached = Row(r).attached
       /\ attempts'[r].of \in {Row(r).of, 0}
       /\ Row(r).of \notin gone => attempts'[r].of = Row(r).of

\* A cleanup deletes rows that are neither scheduled nor claimed, detaches rows
\* from events that no such row needs, and cuts links to deleted rows.
LEMMA CleanRows ==
  ASSUME Typed, NEW eventsToo \in BOOLEAN, NEW attemptsToo \in BOOLEAN,
         CleanupHistory(eventsToo, attemptsToo)
  PROVE  \E gone \in SUBSET AttemptIds, expired \in SUBSET Events :
           gone = (IF attemptsToo THEN candidates ELSE {}) /\ Cleaned(gone, expired)
<1> DEFINE gone == IF attemptsToo THEN candidates ELSE {}
           expired == IF eventsToo THEN expiredEventIDs ELSE {}
           D(r) == IF Row(r).attached \in expired
                   THEN [Row(r) EXCEPT !.attached = NoEvent] ELSE Row(r)
           P(r) == IF r \in gone THEN [D(r) EXCEPT !.there = FALSE]
                   ELSE IF D(r).of \in gone THEN [D(r) EXCEPT !.of = 0] ELSE D(r)
<1>1. gone \in SUBSET AttemptIds /\ \A r \in gone : Unclaimed(r, day)
  BY DEF candidates, Batch
<1>2. expired \in SUBSET Events /\ \A e \in expired : ~Needed(e)
  BY DEF expiredEventIDs, Batch
<1>3. attempts' = [r \in AttemptIds |-> P(r)]
  <2>1. attempts' = Purged(Detached(expired), gone)
    BY DEF CleanupHistory
  <2>2. \A r \in AttemptIds : Detached(expired)[r] = D(r)
    BY DEF Detached
  <2> HIDE DEF D, gone, expired
  <2> QED BY <2>1, <2>2 DEF Purged
<1>4. ASSUME NEW r \in AttemptIds
      PROVE  /\ P(r) \in AttemptRows
             /\ P(r).claimed = Row(r).claimed
             /\ P(r).scheduled = Row(r).scheduled
             /\ P(r).created = Row(r).created
             /\ P(r).there = (Row(r).there /\ r \notin gone)
             /\ Row(r).attached \notin expired => P(r).attached = Row(r).attached
             /\ P(r).of \in {Row(r).of, 0}
             /\ Row(r).of \notin gone => P(r).of = Row(r).of
  <2>1. Row(r) \in AttemptRows
    BY RowTyped
  <2> HIDE DEF gone, expired
  <2>2. /\ D(r) \in AttemptRows
        /\ D(r).claimed = Row(r).claimed /\ D(r).scheduled = Row(r).scheduled
        /\ D(r).created = Row(r).created /\ D(r).there = Row(r).there
        /\ D(r).of = Row(r).of
        /\ Row(r).attached \notin expired => D(r).attached = Row(r).attached
    BY <2>1 DEF AttemptRows
  <2> HIDE DEF D
  <2>3. 0 \in Nat
    BY SMT
  <2>4. CASE r \in gone
    BY <2>2, <2>4 DEF AttemptRows
  <2>5. CASE r \notin gone /\ D(r).of \in gone
    BY <2>2, <2>3, <2>5 DEF AttemptRows
  <2>6. CASE r \notin gone /\ D(r).of \notin gone
    BY <2>2, <2>6 DEF AttemptRows
  <2> QED BY <2>4, <2>5, <2>6
<1> HIDE DEF P, D, expired
<1>5. /\ DOMAIN attempts' = AttemptIds
      /\ attempts' = [r \in DOMAIN attempts |-> attempts'[r]]
      /\ \A r \in AttemptIds : attempts'[r] = P(r)
  BY <1>3 DEF AttemptIds
<1>6. attempts' \in Seq(AttemptRows)
  BY <1>4, <1>5, RowsWritten DEF Typed, AttemptIds
<1>7. AttemptIds' = AttemptIds
  BY <1>5 DEF AttemptIds
<1>8. gone = IF attemptsToo THEN candidates ELSE {}
  OBVIOUS
<1> HIDE DEF gone
<1>9. Cleaned(gone, expired)
  BY <1>1, <1>2, <1>4, <1>5, <1>6, <1>7 DEF Cleaned
<1> QED
  BY <1>1, <1>2, <1>8, <1>9

-----------------------------------------------------------------------------
(* Claimed rows.                                                                *)

LEMMA HistoryInitTyped == HistoryInit => ClaimInv
<1> SUFFICES ASSUME HistoryInit PROVE ClaimInv
  OBVIOUS
<1>1. attempts \in Seq(AttemptRows)
  BY SMT DEF HistoryInit
<1>2. events \in [Events -> EventRows]
  BY SMT DEF HistoryInit, EventRows
<1>3. day \in Nat
  BY SMT DEF HistoryInit
<1> QED
  BY <1>1, <1>2, <1>3, AtRestTyped DEF HistoryInit, ClaimInv, Typed, WorkerInv

LEMMA EventsTyped ==
  ASSUME Typed, [HistoryNext]_historyVars PROVE events' \in [Events -> EventRows]
<1>1. ASSUME NEW e \in Events, CreateEvent(e) PROVE events' \in [Events -> EventRows]
  <2>1. [there |-> TRUE, outbox |-> "pending", created |-> day] \in EventRows
    BY DEF Typed, EventRows
  <2> QED BY <1>1, <2>1 DEF Typed, CreateEvent
<1>2. ASSUME NEW e \in Events, NEW status \in {"pending", "processing", "done"},
             MoveOutbox(e, status)
      PROVE  events' \in [Events -> EventRows]
  <2>1. [events[e] EXCEPT !.outbox = status] \in EventRows
    BY DEF Typed, EventRows
  <2> QED BY <1>2, <2>1 DEF Typed, MoveOutbox
<1>3. ASSUME NEW a \in BOOLEAN, NEW b \in BOOLEAN, CleanupHistory(a, b)
      PROVE  events' \in [Events -> EventRows]
  <2>1. \A e \in Events : [events[e] EXCEPT !.there = FALSE] \in EventRows
    BY DEF Typed, EventRows
  <2> QED BY <1>3, <2>1 DEF Typed, CleanupHistory
<1>4. ASSUME UNCHANGED events PROVE events' \in [Events -> EventRows]
  BY <1>4 DEF Typed
<1> QED
  BY <1>1, <1>2, <1>3, <1>4 DEF HistoryNext, historyVars, FirstAttempt, ReadSource,
     ClaimSource, GiveWay, RecordSuccessor, ReleaseSource, CancelSource, StopRetries,
     Restart, Day

\* The worker that moves, when it does not send afterwards.
LEMMA WorkerRests ==
  ASSUME ClaimInv, NEW w \in Retriers, NEW x \in Retrying, x.stage # "sending",
         retrier' = [retrier EXCEPT ![w] = x]
  PROVE  /\ retrier' \in [Retriers -> Retrying] /\ WorkerInv(w)'
         /\ \A v \in Retriers \ {w} : retrier'[v] = retrier[v]
<1>1. /\ retrier' \in [Retriers -> Retrying] /\ retrier'[w] = x
      /\ \A v \in Retriers \ {w} : retrier'[v] = retrier[v]
  BY DEF ClaimInv, Typed
<1> QED
  BY <1>1 DEF WorkerInv

LEMMA ClaimStep == ClaimInv /\ [HistoryNext]_historyVars => ClaimInv'
<1> SUFFICES ASSUME ClaimInv, [HistoryNext]_historyVars PROVE ClaimInv'
  OBVIOUS
<1>0. /\ Typed /\ events' \in [Events -> EventRows] /\ retrier \in [Retriers -> Retrying]
      /\ attempts \in Seq(AttemptRows) /\ day \in Nat
      /\ \A w \in Retriers : WorkerInv(w)
  BY EventsTyped DEF ClaimInv, Typed
<1>1. day <= day /\ \A c \in Retriers \X Nat : c[1] \in Retriers
  BY <1>0, SMT
<1>2. ASSUME UNCHANGED attempts, day' \in Nat, day <= day',
             NEW w \in Retriers, retrier'[w] = retrier[w]
      PROVE  WorkerInv(w)'
  <2>1. AttemptIds' = AttemptIds /\ \A r \in AttemptIds : attempts'[r] = Row(r)
    BY <1>2 DEF AttemptIds, Row
  <2> QED BY <1>2, <2>1, WorkerKept
<1>3. CASE \E e \in Events :
             \/ CreateEvent(e)
             \/ \E status \in {"pending", "processing", "done"} : MoveOutbox(e, status)
  <2>1. UNCHANGED <<attempts, retrier, day>>
    BY <1>3 DEF CreateEvent, MoveOutbox
  <2> QED BY <1>0, <1>1, <1>2, <2>1 DEF ClaimInv, Typed
<1>4. ASSUME NEW e \in Events, FirstAttempt(e) PROVE ClaimInv'
  <2>1. UNCHANGED <<retrier, day>>
    BY <1>4 DEF FirstAttempt
  <2>2. /\ attempts' \in Seq(AttemptRows) /\ AttemptIds \subseteq AttemptIds'
        /\ \A r \in AttemptIds : attempts'[r] = Row(r)
    BY <1>0, <1>4, FirstRows
  <2>3. \A w \in Retriers : WorkerInv(w)'
    BY <1>0, <1>1, <2>1, <2>2, WorkerKept
  <2> QED BY <1>0, <2>1, <2>2, <2>3 DEF ClaimInv, Typed
<1>5. ASSUME NEW w \in Retriers, NEW r \in AttemptIds, NEW due \in BOOLEAN,
             ReadSource(w, r, due)
      PROVE  ClaimInv'
  <2>1. UNCHANGED <<attempts, day>>
    BY <1>5 DEF ReadSource
  <2> DEFINE x == [stage |-> "read", source |-> r, due |-> due,
                   at |-> IF due THEN day ELSE 0,
                   seen |-> Row(r).attached, held |-> NoEvent]
  <2>2. retrier' = [retrier EXCEPT ![w] = x]
    BY <1>5 DEF ReadSource
  <2>3. Row(r) \in AttemptRows /\ r \in Nat /\ 0 \in Nat
    BY <1>0, RowTyped, SMT
  <2>4. x \in Retrying /\ x.stage = "read"
    BY <1>0, <2>3 DEF Retrying, AttemptRows
  <2> HIDE DEF x
  <2>5. /\ retrier' \in [Retriers -> Retrying] /\ WorkerInv(w)'
        /\ \A v \in Retriers \ {w} : retrier'[v] = retrier[v]
    BY <2>2, <2>4, WorkerRests
  <2> QED BY <1>0, <1>1, <1>2, <2>1, <2>5 DEF ClaimInv, Typed
<1>6. ASSUME NEW w \in Retriers, GiveWay(w) PROVE ClaimInv'
  <2>1. UNCHANGED <<attempts, day>> /\ retrier' = [retrier EXCEPT ![w] = AtRest]
    BY <1>6 DEF GiveWay
  <2>2. /\ retrier' \in [Retriers -> Retrying] /\ WorkerInv(w)'
        /\ \A v \in Retriers \ {w} : retrier'[v] = retrier[v]
    BY <2>1, AtRestTyped, WorkerRests
  <2> QED BY <1>0, <1>1, <1>2, <2>1, <2>2 DEF ClaimInv, Typed
<1>7. ASSUME NEW w \in Retriers, ClaimSource(w) PROVE ClaimInv'
  <2>1. PICK r \in AttemptIds : r = retrier[w].source
    BY <1>0, <1>7, ClaimRows DEF There
  <2>2. PICK c \in Retriers \X Nat : c[1] = w /\ Rewritten(r, Row(r).scheduled, c)
    BY <1>0, <1>7, <2>1, ClaimRows
  <2>3. /\ attempts' \in Seq(AttemptRows) /\ AttemptIds' = AttemptIds
        /\ Row(r).there /\ Others(r) /\ UNCHANGED day
    BY <1>0, <1>7, <2>1, ClaimRows DEF ClaimSource, There
  <2>4. /\ attempts'[r].claimed = c /\ attempts'[r].there
        /\ attempts'[r].attached = Row(r).attached
    <3>1. Row(r).scheduled \in BOOLEAN
      BY <1>0, RowTyped DEF AttemptRows
    <3> QED BY <1>0, <2>2, <2>3, <3>1, RewrittenColumns
  <2> DEFINE x == [retrier[w] EXCEPT !.stage = "sending", !.held = Row(r).attached]
  <2>5. retrier' = [retrier EXCEPT ![w] = x]
    BY <1>7, <2>1 DEF ClaimSource
  <2>6. Row(r).attached \in Events \cup {NoEvent}
    BY <1>0, RowTyped DEF AttemptRows
  <2>7. x \in Retrying /\ x.source = r /\ x.held = Row(r).attached
    BY <1>0, <2>1, <2>6, ZenonT(30) DEF Retrying
  <2> HIDE DEF x
  <2>8. /\ retrier' \in [Retriers -> Retrying] /\ retrier'[w] = x
        /\ \A v \in Retriers \ {w} : retrier'[v] = retrier[v]
    BY <1>0, <2>5, <2>7
  <2>9. WorkerInv(w)'
    BY <2>3, <2>4, <2>7, <2>8 DEF WorkerInv, Row
  <2>10. ASSUME NEW v \in Retriers \ {w} PROVE WorkerInv(v)'
    <3>1. \A i \in AttemptIds :
            attempts'[i] = Row(i) \/ attempts'[i].claimed[1] # v
      BY <2>2, <2>3, <2>4 DEF Others
    <3> QED BY <1>0, <1>1, <2>3, <2>8, <3>1, WorkerKept
  <2> QED BY <1>0, <2>3, <2>8, <2>9, <2>10 DEF ClaimInv, Typed
<1>8. ASSUME NEW w \in Retriers, RecordSuccessor(w) \/ ReleaseSource(w) \/ CancelSource(w)
      PROVE  ClaimInv'
  <2>1. retrier' = [retrier EXCEPT ![w] = AtRest] /\ UNCHANGED day
    BY <1>8 DEF RecordSuccessor, ReleaseSource, CancelSource
  <2>2. /\ retrier' \in [Retriers -> Retrying] /\ WorkerInv(w)'
        /\ \A v \in Retriers \ {w} : retrier'[v] = retrier[v]
    BY <2>1, AtRestTyped, WorkerRests
  <2>3. /\ attempts' \in Seq(AttemptRows) /\ AttemptIds \subseteq AttemptIds'
        /\ \A i \in AttemptIds : attempts'[i] = Row(i) \/ attempts'[i].claimed = Unset
    <3>1. ASSUME NEW r \in AttemptIds, NEW f \in BOOLEAN, Rewritten(r, f, Unset)
          PROVE  attempts'[r].claimed = Unset
      BY <1>0, <3>1, RewrittenColumns
    <3>2. CASE RecordSuccessor(w)
      BY <1>0, <3>1, <3>2, RecordRows DEF Others, There
    <3>3. CASE ReleaseSource(w) \/ CancelSource(w)
      <4>1. CASE UNCHANGED attempts
        BY <1>0, <4>1 DEF AttemptIds, Row
      <4>2. CASE ~UNCHANGED attempts
        BY <1>0, <3>1, <3>3, <4>2, GiveBackRows DEF Others, There
      <4> QED BY <4>1, <4>2
    <3> QED BY <1>8, <3>2, <3>3
  <2>4. \A v \in Retriers \ {w} : WorkerInv(v)'
    BY <1>0, <1>1, <2>1, <2>2, <2>3, WorkerKept
  <2> QED BY <1>0, <2>1, <2>2, <2>3, <2>4 DEF ClaimInv, Typed
<1>9. CASE StopRetries
  <2>1. UNCHANGED <<retrier, day>>
    BY <1>9 DEF StopRetries
  <2>2. /\ attempts' \in Seq(AttemptRows) /\ AttemptIds' = AttemptIds
        /\ \A i \in AttemptIds : attempts'[i] = Row(i) \/ attempts'[i].claimed = Unset
    BY <1>0, <1>9, StopRows, RewrittenColumns
  <2>3. \A w \in Retriers : WorkerInv(w)'
    BY <1>0, <1>1, <2>1, <2>2, WorkerKept
  <2> QED BY <1>0, <2>1, <2>2, <2>3 DEF ClaimInv, Typed
<1>10. ASSUME NEW a \in BOOLEAN, NEW b \in BOOLEAN, CleanupHistory(a, b) PROVE ClaimInv'
  <2>1. UNCHANGED <<retrier, day>>
    BY <1>10 DEF CleanupHistory
  <2>2. PICK gone \in SUBSET AttemptIds, expired \in SUBSET Events : Cleaned(gone, expired)
    BY <1>0, <1>10, CleanRows
  <2>3. ASSUME NEW r \in AttemptIds
        PROVE  \/ Unclaimed(r, day) /\ attempts'[r].claimed = Row(r).claimed
               \/ /\ attempts'[r].claimed = Row(r).claimed
                  /\ attempts'[r].there = Row(r).there
                  /\ attempts'[r].attached = Row(r).attached
               \/ attempts'[r].claimed = Row(r).claimed /\ ~Row(r).there
    <3>1. CASE r \in gone
      BY <2>2, <3>1 DEF Cleaned
    <3>2. CASE r \notin gone /\ Row(r).attached \notin expired
      <4>1. Row(r).there \in BOOLEAN
        BY <1>0, RowTyped
      <4> QED BY <2>2, <3>2, <4>1 DEF Cleaned
    <3>3. CASE Row(r).attached \in expired /\ Row(r).there
      <4>1. Unclaimed(r, day)
        BY <2>2, <3>3 DEF Cleaned, Needed, There
      <4> QED BY <2>2, <4>1 DEF Cleaned
    <3> QED BY <2>2, <3>1, <3>2, <3>3 DEF Cleaned
  <2>4. ASSUME NEW w \in Retriers PROVE WorkerInv(w)'
    <3>1. CASE Row(retrier[w].source).there \/ retrier[w].stage # "sending"
                 \/ Unclaimed(retrier[w].source, day) \/ Row(retrier[w].source).claimed[1] # w
      <4> DEFINE r == retrier[w].source
      <4>1. CASE retrier[w].stage # "sending"
        BY <2>1, <4>1 DEF WorkerInv
      <4>2. CASE retrier[w].stage = "sending"
        <5>1. r \in AttemptIds /\ WorkerInv(w)
          BY <1>0, <4>2 DEF WorkerInv
        <5>2. attempts'[r].claimed = Row(r).claimed /\ r \in AttemptIds'
          BY <2>2, <5>1 DEF Cleaned
        <5>3. Unclaimed(r, day) => Unclaimed(r, day)'
          BY <2>1, <5>2 DEF Unclaimed, Row
        <5>4. CASE Unclaimed(r, day) \/ Row(r).claimed[1] # w
          BY <2>1, <5>2, <5>3, <5>4 DEF WorkerInv, Row
        <5>5. CASE ~(Unclaimed(r, day) \/ Row(r).claimed[1] # w)
          <6>1. /\ attempts'[r].there = Row(r).there
                /\ attempts'[r].attached = Row(r).attached
            BY <2>3, <3>1, <4>2, <5>1, <5>5
          <6>2. Row(r).there /\ Row(r).attached = retrier[w].held
            BY <4>2, <5>1, <5>5 DEF WorkerInv
          <6> QED BY <2>1, <5>2, <6>1, <6>2 DEF WorkerInv, Row
        <5> QED BY <5>4, <5>5
      <4> QED BY <4>1, <4>2
    <3>2. CASE ~(Row(retrier[w].source).there \/ retrier[w].stage # "sending"
                 \/ Unclaimed(retrier[w].source, day) \/ Row(retrier[w].source).claimed[1] # w)
      BY <1>0, <3>2 DEF WorkerInv
    <3> QED BY <3>1, <3>2
  <2> QED BY <1>0, <2>1, <2>2, <2>4 DEF ClaimInv, Typed, Cleaned
<1>11. CASE Restart
  <2>1. UNCHANGED <<attempts, day>> /\ retrier' = [w \in Retriers |-> AtRest]
    BY <1>11 DEF Restart
  <2>2. \A w \in Retriers : WorkerInv(w)'
    BY <2>1, AtRestTyped DEF WorkerInv
  <2> QED BY <1>0, <2>1, <2>2, AtRestTyped DEF ClaimInv, Typed
<1>12. CASE Day \/ UNCHANGED historyVars
  <2>1. UNCHANGED <<attempts, retrier>> /\ day' \in {day, day + 1}
    BY <1>12 DEF Day, historyVars
  <2>2. day' \in Nat /\ day <= day'
    BY <1>0, <2>1, SMT
  <2> QED BY <1>0, <1>2, <2>1, <2>2 DEF ClaimInv, Typed
<1> QED
  BY <1>3, <1>4, <1>5, <1>6, <1>7, <1>8, <1>9, <1>10, <1>11, <1>12 DEF HistoryNext

\* While a worker sends under a lease that is neither over nor revoked, no
\* cleanup deletes its row or the event of the row (CleanupHistory), whoever else
\* claims, records, stops or restarts.
THEOREM ClaimsRespected == HistorySpec => []ClaimedRowKept
<1>1. ClaimInv => ClaimedRowKept
  BY DEF ClaimInv, WorkerInv, ClaimedRowKept
<1> QED
  BY <1>1, HistoryInitTyped, ClaimStep, PTL DEF HistorySpec

-----------------------------------------------------------------------------
(* Chains of retries.                                                           *)

\* A retry is younger than what it retries, and a row that was followed is
\* neither scheduled nor claimed unless a worker put it back.
Followed(r) ==
  There(r) => Successors(r) # {} /\ ~Row(r).scheduled /\ Row(r).claimed = Unset

ChainInv ==
  /\ \A s \in AttemptIds :
       /\ Row(s).of < s /\ Row(s).created <= day
       /\ Row(s).of \in AttemptIds => Row(Row(s).of).created <= Row(s).created
  /\ superseded \subseteq AttemptIds
  /\ \A r \in superseded \ reopened : Followed(r)

LEMMA ChainInit == HistoryInit => ChainInv
BY SMT DEF HistoryInit, ChainInv, AttemptIds

\* Steps that write schedules and leases only, and none of a row that stays followed.
LEMMA ChainKept ==
  ASSUME Typed, ChainInv, AttemptIds' = AttemptIds, day' \in Nat, day <= day',
         \A r \in AttemptIds :
           /\ attempts'[r].of = Row(r).of /\ attempts'[r].created = Row(r).created
           /\ attempts'[r].there = Row(r).there,
         superseded' = superseded, reopened \subseteq reopened',
         \A r \in superseded \ reopened' :
           There(r) /\ ~Row(r).scheduled /\ Row(r).claimed = Unset =>
             ~attempts'[r].scheduled /\ attempts'[r].claimed = Unset
  PROVE  ChainInv'
<1>1. ASSUME NEW s \in AttemptIds
      PROVE  /\ attempts'[s].of < s /\ attempts'[s].created <= day'
             /\ attempts'[s].of \in AttemptIds =>
                  attempts'[attempts'[s].of].created <= attempts'[s].created
  <2>1. Row(s).created \in Nat /\ Row(s).created <= day /\ Row(s).of < s /\ day \in Nat
    BY RowTyped DEF ChainInv, Typed
  <2>2. Row(s).created <= day'
    BY <2>1, SMT
  <2>3. attempts'[s].of = Row(s).of /\ attempts'[s].created = Row(s).created
    OBVIOUS
  <2>4. Row(s).of \in AttemptIds => attempts'[Row(s).of].created <= Row(s).created
    BY DEF ChainInv
  <2> QED BY <2>1, <2>2, <2>3, <2>4
<1>2. ASSUME NEW r \in AttemptIds
      PROVE  Successors(r) = {q \in AttemptIds : attempts'[q].there /\ attempts'[q].of = r}
  BY DEF Successors
<1>3. ASSUME NEW r \in superseded \ reopened', r \in AttemptIds', attempts'[r].there
      PROVE  /\ {q \in AttemptIds : attempts'[q].there /\ attempts'[q].of = r} # {}
             /\ ~attempts'[r].scheduled /\ attempts'[r].claimed = Unset
  <2>1. r \in superseded \ reopened /\ There(r) /\ r \in AttemptIds
    BY <1>3 DEF There
  <2>2. Followed(r)
    BY <2>1 DEF ChainInv
  <2> QED BY <1>2, <2>1, <2>2 DEF Followed
<1>4. ASSUME NEW r \in superseded' \ reopened' PROVE Followed(r)'
  BY <1>3, <1>4 DEF Followed, There, Row, Successors
<1>5. superseded' \subseteq AttemptIds'
  BY DEF ChainInv
<1> QED
  BY <1>1, <1>4, <1>5 DEF ChainInv, Row

\* A row joins the others, as a first attempt or as the retry of one of them.
LEMMA ChainGrows ==
  ASSUME Typed, ChainInv, UNCHANGED day,
         AttemptIds' = AttemptIds \cup {Len(attempts) + 1},
         \A r \in AttemptIds :
           /\ attempts'[r].of = Row(r).of /\ attempts'[r].created = Row(r).created
           /\ attempts'[r].there = Row(r).there,
         attempts'[Len(attempts) + 1].created = day,
         attempts'[Len(attempts) + 1].of \in AttemptIds \cup {0}
  PROVE  /\ \A s \in AttemptIds' :
              /\ attempts'[s].of < s /\ attempts'[s].created <= day
              /\ attempts'[s].of \in AttemptIds' =>
                   attempts'[attempts'[s].of].created <= attempts'[s].created
         /\ \A r \in AttemptIds :
              Successors(r) \subseteq {q \in AttemptIds' : attempts'[q].there /\ attempts'[q].of = r}
         /\ Len(attempts) + 1 \notin AttemptIds
<1> DEFINE n == Len(attempts) + 1
<1>1. /\ day \in Nat /\ n \in Nat /\ n # 0 /\ 0 \notin AttemptIds
      /\ \A r \in AttemptIds : r < n /\ r \in Nat
  BY SMT DEF Typed, AttemptIds
<1>2. n \notin AttemptIds /\ day <= day
  BY <1>1, SMT
<1> HIDE DEF n
<1>3. ASSUME NEW s \in AttemptIds
      PROVE  /\ attempts'[s].of < s /\ attempts'[s].created <= day
             /\ attempts'[s].of \in AttemptIds' =>
                  attempts'[attempts'[s].of].created <= attempts'[s].created
  <2>1. Row(s).of < s /\ Row(s).created <= day
        /\ (Row(s).of \in AttemptIds => Row(Row(s).of).created <= Row(s).created)
    BY DEF ChainInv
  <2>2. Row(s).of # n
    <3>1. Row(s).of \in Nat /\ s < n /\ s \in Nat
      BY <1>1, RowTyped
    <3> QED BY <1>1, <2>1, <3>1, SMT
  <2> QED BY <2>1, <2>2 DEF n
<1>4. /\ attempts'[n].of < n /\ attempts'[n].created <= day
      /\ attempts'[n].of \in AttemptIds' =>
           attempts'[attempts'[n].of].created <= attempts'[n].created
  <2>1. attempts'[n].created = day /\ attempts'[n].of \in AttemptIds \cup {0}
    BY DEF n
  <2>2. 0 < n
    BY <1>1, SMT
  <2>3. attempts'[n].of \in AttemptIds' => attempts'[n].of \in AttemptIds
    BY <1>1, <2>1 DEF n
  <2>4. \A r \in AttemptIds : attempts'[r].created <= day
    BY DEF ChainInv
  <2> QED BY <1>1, <1>2, <2>1, <2>2, <2>3, <2>4
<1> QED
  BY <1>2, <1>3, <1>4 DEF n, Successors

\* Oldest first: with a row, every older one that may go is in the batch.
LEMMA BatchOrdered ==
  ASSUME NEW n \in Nat, NEW ids \in SUBSET (1..n), NEW s \in Batch(ids),
         NEW r \in ids, r < s
  PROVE  r \in Batch(ids)
<1> DEFINE Below(i) == {j \in ids : j < i}
<1>1. IsFiniteSet(1..n)
  BY FS_Interval, SMT
<1>2. IsFiniteSet(ids)
  BY <1>1, FS_Subset
<1>3. Below(s) \in SUBSET ids /\ s \in ids /\ Cardinality(Below(s)) < BatchSize
  BY DEF Batch
<1>4. IsFiniteSet(Below(s))
  BY <1>2, <1>3, FS_Subset
<1>5. Below(r) \in SUBSET Below(s)
  <2>1. \A j \in ids : j < r => j < s
    <3>1. \A j \in ids : j \in Nat
      BY SMT
    <3> QED BY <1>3, <3>1, SMT
  <2> QED BY <2>1
<1>6. /\ IsFiniteSet(Below(r)) /\ Cardinality(Below(r)) <= Cardinality(Below(s))
      /\ Cardinality(Below(r)) \in Nat /\ Cardinality(Below(s)) \in Nat
  BY <1>4, <1>5, FS_Subset, FS_CardinalityType
<1> HIDE DEF Below
<1>7. Cardinality(Below(r)) < BatchSize
  BY <1>3, <1>6, RetentionAssumption, SMT
<1> QED
  BY <1>7 DEF Batch, Below

LEMMA CleanChain ==
  ASSUME Typed, ChainInv, NEW a \in BOOLEAN, NEW b \in BOOLEAN, CleanupHistory(a, b)
  PROVE  ChainInv'
<1>1. UNCHANGED <<day, superseded, reopened>> /\ day \in Nat
  BY DEF CleanupHistory, Typed
<1>2. PICK gone \in SUBSET AttemptIds, expired \in SUBSET Events :
        gone = (IF b THEN candidates ELSE {}) /\ Cleaned(gone, expired)
  BY CleanRows
<1>3. ASSUME NEW s \in AttemptIds
      PROVE  /\ attempts'[s].of < s /\ attempts'[s].created <= day
             /\ attempts'[s].of \in AttemptIds =>
                  attempts'[attempts'[s].of].created <= attempts'[s].created
  <2>1. /\ attempts'[s].of \in {Row(s).of, 0} /\ attempts'[s].created = Row(s).created
        /\ \A q \in AttemptIds : attempts'[q].created = Row(q).created
    BY <1>2 DEF Cleaned
  <2>2. /\ Row(s).of < s /\ Row(s).created <= day
        /\ (Row(s).of \in AttemptIds => Row(Row(s).of).created <= Row(s).created)
    BY DEF ChainInv
  <2>3. 0 < s /\ 0 \notin AttemptIds
    BY RowTyped, SMT
  <2> QED BY <2>1, <2>2, <2>3
<1>4. ASSUME NEW r \in superseded \ reopened, attempts'[r].there
      PROVE  /\ \E s \in AttemptIds : attempts'[s].there /\ attempts'[s].of = r
             /\ ~attempts'[r].scheduled /\ attempts'[r].claimed = Unset
  <2>1. r \in AttemptIds /\ Followed(r)
    BY DEF ChainInv
  <2>2. There(r) /\ r \notin gone
    BY <1>2, <1>4, <2>1 DEF Cleaned, There
  <2>3. ~Row(r).scheduled /\ Row(r).claimed = Unset /\ Successors(r) # {}
    BY <2>1, <2>2 DEF Followed
  <2>4. PICK s \in AttemptIds : Row(s).there /\ Row(s).of = r
    BY <2>3 DEF Successors
  <2>5. s \notin gone
    <3> SUFFICES ASSUME s \in gone PROVE FALSE
      OBVIOUS
    <3> DEFINE ids == {i \in AttemptIds : /\ There(i) /\ Row(i).created + AttemptAge < day
                                          /\ ~Row(i).scheduled /\ Unclaimed(i, day)}
    <3>1. gone = Batch(ids)
      BY <1>2 DEF candidates
    <3>2. s \in ids
      BY <3>1 DEF Batch
    <3>3. r < s /\ Row(r).created <= Row(s).created
      BY <2>1, <2>4 DEF ChainInv
    <3>4. Row(r).created + AttemptAge < day
      <4>1. Row(s).created + AttemptAge < day
        BY <3>2
      <4>2. Row(r).created \in Nat /\ Row(s).created \in Nat
        BY <2>1, RowTyped
      <4> HIDE DEF ids
      <4> QED BY <1>1, <3>3, <4>1, <4>2, RetentionAssumption, SMT
    <3>5. r \in ids
      BY <2>1, <2>2, <2>3, <3>4 DEF Unclaimed
    <3>6. ids \in SUBSET (1..Len(attempts)) /\ Len(attempts) \in Nat
      <4>1. \A i \in AttemptIds : i \in 1..Len(attempts)
        BY RowTyped
      <4>2. Len(attempts) \in Nat
        BY <2>1, RowTyped
      <4> QED BY <4>1, <4>2
    <3> HIDE DEF ids
    <3>7. r \in Batch(ids)
      BY <3>1, <3>3, <3>5, <3>6, BatchOrdered
    <3> QED BY <2>2, <3>1, <3>7
  <2>6. attempts'[s].there /\ attempts'[s].of = r
    BY <1>2, <2>2, <2>4, <2>5 DEF Cleaned
  <2>7. ~attempts'[r].scheduled /\ attempts'[r].claimed = Unset
    BY <1>2, <2>1, <2>3 DEF Cleaned
  <2> QED BY <2>6, <2>7
<1>5. AttemptIds' = AttemptIds /\ superseded \subseteq AttemptIds
  BY <1>2 DEF Cleaned, ChainInv
<1>6. ASSUME NEW r \in superseded' \ reopened' PROVE Followed(r)'
  <2>1. r \in superseded \ reopened
    BY <1>1
  <2> QED BY <1>4, <1>5, <2>1 DEF Followed, There, Row, Successors
<1> QED
  BY <1>1, <1>3, <1>5, <1>6 DEF ChainInv, Row

LEMMA ChainStep ==
  ASSUME Typed, ChainInv, [HistoryNext]_historyVars
  PROVE  ChainInv'
<1>0. day \in Nat /\ day <= day /\ attempts \in Seq(AttemptRows)
  BY SMT DEF Typed
<1>1. ASSUME UNCHANGED <<attempts, superseded, reopened>>, day' \in {day, day + 1}
      PROVE  ChainInv'
  <2>1. AttemptIds' = AttemptIds /\ \A r \in AttemptIds : attempts'[r] = Row(r)
    BY <1>1 DEF AttemptIds, Row
  <2>2. day' \in Nat /\ day <= day'
    BY <1>0, <1>1, SMT
  <2>3. \A r \in superseded : r \in AttemptIds
    BY DEF ChainInv
  <2> QED BY <1>1, <2>1, <2>2, <2>3, ChainKept
<1>2. ASSUME NEW e \in Events, FirstAttempt(e) PROVE ChainInv'
  <2>1. UNCHANGED <<day, superseded, reopened>>
    BY <1>2 DEF FirstAttempt
  <2>2. /\ AttemptIds' = AttemptIds \cup {Len(attempts) + 1}
        /\ \A i \in AttemptIds : attempts'[i] = Row(i)
        /\ attempts'[Len(attempts) + 1].of = 0
        /\ attempts'[Len(attempts) + 1].created = day
    BY <1>2, FirstRows
  <2>3. /\ \A s \in AttemptIds' :
             /\ attempts'[s].of < s /\ attempts'[s].created <= day
             /\ attempts'[s].of \in AttemptIds' =>
                  attempts'[attempts'[s].of].created <= attempts'[s].created
        /\ \A r \in AttemptIds :
             Successors(r) \subseteq {q \in AttemptIds' : attempts'[q].there /\ attempts'[q].of = r}
    BY <2>1, <2>2, ChainGrows
  <2>4. ASSUME NEW r \in superseded' \ reopened' PROVE Followed(r)'
    <3>1. Followed(r) /\ r \in AttemptIds /\ attempts'[r] = Row(r)
      BY <2>1, <2>2, <2>4 DEF ChainInv
    <3> QED BY <2>2, <2>3, <3>1 DEF Followed, There, Row, Successors
  <2> QED BY <2>1, <2>2, <2>3, <2>4 DEF ChainInv, Row
<1>3. ASSUME NEW w \in Retriers, RecordSuccessor(w) PROVE ChainInv'
  <2>1. UNCHANGED day /\ superseded' = superseded \cup {retrier[w].source}
    BY <1>3 DEF RecordSuccessor
  <2>2. PICK r \in AttemptIds : r = retrier[w].source
    BY <1>3, RecordRows DEF There
  <2>3. /\ Successors(r) = {} /\ Row(r).there
        /\ AttemptIds' = AttemptIds \cup {Len(attempts) + 1}
        /\ attempts'[Len(attempts) + 1].of = r
        /\ attempts'[Len(attempts) + 1].created = day
        /\ attempts'[Len(attempts) + 1].there
        /\ Others(r)
    BY <1>3, <2>2, RecordRows DEF There
  <2>4. PICK readBack \in BOOLEAN :
          /\ Rewritten(r, ~readBack, Unset)
          /\ reopened' = IF readBack THEN reopened ELSE reopened \cup {r}
    BY <1>3, <2>2, RecordRows
  <2>5. /\ attempts'[r].claimed = Unset /\ attempts'[r].scheduled = ~readBack
        /\ attempts'[r].there = Row(r).there /\ attempts'[r].of = Row(r).of
        /\ attempts'[r].created = Row(r).created
    BY <2>4, RewrittenColumns
  <2>6. /\ \A s \in AttemptIds' :
             /\ attempts'[s].of < s /\ attempts'[s].created <= day
             /\ attempts'[s].of \in AttemptIds' =>
                  attempts'[attempts'[s].of].created <= attempts'[s].created
        /\ \A q \in AttemptIds :
             Successors(q) \subseteq {s \in AttemptIds' : attempts'[s].there /\ attempts'[s].of = q}
    BY <2>1, <2>3, <2>5, ChainGrows DEF Others
  <2>7. ASSUME NEW q \in superseded' \ reopened' PROVE Followed(q)'
    <3>1. CASE q = r
      <4>1. readBack
        BY <2>4, <2>7, <3>1
      <4> QED BY <2>3, <2>5, <3>1, <4>1 DEF Followed, There, Row, Successors
    <3>2. CASE q # r
      <4>1. q \in superseded \ reopened
        BY <2>1, <2>2, <2>4, <2>7, <3>2
      <4>2. Followed(q) /\ q \in AttemptIds /\ attempts'[q] = Row(q)
        BY <2>3, <3>2, <4>1 DEF ChainInv, Others
      <4> QED BY <2>3, <2>6, <4>2 DEF Followed, There, Row, Successors
    <3> QED BY <3>1, <3>2
  <2>8. superseded' \subseteq AttemptIds'
    BY <2>1, <2>2, <2>3 DEF ChainInv
  <2> QED BY <2>1, <2>6, <2>7, <2>8 DEF ChainInv, Row
<1>4. ASSUME NEW w \in Retriers, ClaimSource(w) PROVE ChainInv'
  <2>1. UNCHANGED <<day, superseded, reopened>>
    BY <1>4 DEF ClaimSource
  <2>2. PICK r \in AttemptIds : r = retrier[w].source /\ Row(r).there
    BY <1>4, ClaimRows DEF There
  <2>3. PICK c \in Retriers \X Nat : Rewritten(r, Row(r).scheduled, c)
    BY <1>4, <2>2, ClaimRows
  <2>4. Successors(r) = {} /\ AttemptIds' = AttemptIds /\ Others(r)
    BY <1>4, <2>2, ClaimRows
  <2>5. Row(r).scheduled \in BOOLEAN
    BY RowTyped DEF AttemptRows
  <2>6. \A q \in AttemptIds :
          /\ attempts'[q].of = Row(q).of /\ attempts'[q].created = Row(q).created
          /\ attempts'[q].there = Row(q).there
    BY <2>3, <2>4, <2>5, RewrittenColumns DEF Others
  <2>7. r \notin superseded \ reopened
    BY <2>2, <2>4 DEF ChainInv, Followed, There
  <2>8. ASSUME NEW q \in superseded \ reopened' PROVE attempts'[q] = Row(q)
    BY <2>1, <2>4, <2>7, <2>8 DEF Others, ChainInv
  <2> QED BY <1>0, <2>1, <2>4, <2>6, <2>8, ChainKept
<1>5. ASSUME NEW w \in Retriers, ReleaseSource(w) \/ CancelSource(w) PROVE ChainInv'
  <2>1. UNCHANGED <<day, superseded>>
    BY <1>5 DEF ReleaseSource, CancelSource
  <2>2. CASE UNCHANGED <<attempts, reopened>>
    BY <1>1, <2>1, <2>2
  <2>3. CASE ~UNCHANGED <<attempts, reopened>>
    <3>1. PICK r \in AttemptIds : r = retrier[w].source
      BY <1>5, <2>3, GiveBackRows DEF There
    <3>2. PICK f \in BOOLEAN :
            /\ Rewritten(r, f, Unset)
            /\ \/ f = TRUE /\ reopened' = reopened \cup ({r} \cap superseded)
               \/ f = FALSE /\ UNCHANGED reopened
      BY <1>5, <2>3, <3>1, GiveBackRows
    <3>3. AttemptIds' = AttemptIds /\ Others(r)
      BY <1>5, <2>3, <3>1, GiveBackRows
    <3>4. /\ attempts'[r].claimed = Unset /\ attempts'[r].scheduled = f
          /\ attempts'[r].there = Row(r).there /\ attempts'[r].of = Row(r).of
          /\ attempts'[r].created = Row(r).created
      BY <3>2, RewrittenColumns
    <3>5. ASSUME NEW q \in superseded \ reopened'
          PROVE  There(q) /\ ~Row(q).scheduled /\ Row(q).claimed = Unset =>
                   ~attempts'[q].scheduled /\ attempts'[q].claimed = Unset
      <4>1. CASE q = r
        BY <3>2, <3>4, <3>5, <4>1
      <4>2. CASE q # r
        BY <3>3, <4>2 DEF Others, ChainInv
      <4> QED BY <4>1, <4>2
    <3>6. \A q \in AttemptIds :
            /\ attempts'[q].of = Row(q).of /\ attempts'[q].created = Row(q).created
            /\ attempts'[q].there = Row(q).there
      BY <3>3, <3>4 DEF Others
    <3>7. reopened \subseteq reopened'
      BY <3>2
    <3> QED BY <1>0, <2>1, <3>3, <3>5, <3>6, <3>7, ChainKept
  <2> QED BY <2>2, <2>3
<1>6. CASE StopRetries
  <2>1. UNCHANGED <<day, superseded, reopened>>
    BY <1>6 DEF StopRetries
  <2>2. /\ AttemptIds' = AttemptIds
        /\ \A r \in AttemptIds : attempts'[r] = Row(r) \/ Rewritten(r, FALSE, Unset)
    BY <1>6, StopRows
  <2>3. ASSUME NEW r \in AttemptIds
        PROVE  /\ attempts'[r].of = Row(r).of /\ attempts'[r].created = Row(r).created
               /\ attempts'[r].there = Row(r).there
               /\ \/ attempts'[r] = Row(r)
                  \/ ~attempts'[r].scheduled /\ attempts'[r].claimed = Unset
    BY <2>2, RewrittenColumns
  <2>4. \A r \in superseded : r \in AttemptIds
    BY DEF ChainInv
  <2> QED BY <1>0, <2>1, <2>2, <2>3, <2>4, ChainKept
<1>7. CASE \/ \E e \in Events :
                \/ CreateEvent(e)
                \/ \E status \in {"pending", "processing", "done"} : MoveOutbox(e, status)
           \/ \E w \in Retriers :
                \/ \E r \in AttemptIds, due \in BOOLEAN : ReadSource(w, r, due)
                \/ GiveWay(w)
           \/ Restart \/ Day \/ UNCHANGED historyVars
  <2>1. UNCHANGED <<attempts, superseded, reopened>> /\ day' \in {day, day + 1}
    BY <1>7 DEF CreateEvent, MoveOutbox, ReadSource, GiveWay, Restart, Day, historyVars
  <2> QED BY <1>1, <2>1
<1> QED
  BY <1>2, <1>3, <1>4, <1>5, <1>6, <1>7, CleanChain DEF HistoryNext

\* As long as a notification's row is there, so is the retry that followed it:
\* cleanups take the oldest rows of a chain first (CleanupHistory, ORDER BY id),
\* for any batch size, ages and number of retries.
THEOREM ResolvedKept == HistorySpec => []ResolvedStaysResolved
<1>1. ChainInv => ResolvedStaysResolved
  BY DEF ChainInv, Followed, ResolvedStaysResolved
<1>2. ClaimInv /\ ChainInv /\ [HistoryNext]_historyVars => ClaimInv' /\ ChainInv'
  BY ClaimStep, ChainStep DEF ClaimInv
<1> QED
  BY <1>1, <1>2, HistoryInitTyped, ChainInit, PTL DEF HistorySpec
=============================================================================
