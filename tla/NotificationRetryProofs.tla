---------------------- MODULE NotificationRetryProofs ----------------------
(* Theorems about NotificationRetry, for any number of operators and rows. *)
EXTENDS NotificationRetry, SequenceTheorems, TLAPS

-----------------------------------------------------------------------------
(* Lemmas about the rows.                                                  *)

\* An interval from 1 determines its end.
LEMMA IntervalEnd ==
  ASSUME NEW m \in Nat, NEW n \in Nat, 1..m = 1..n
  PROVE  m = n
<1>1. CASE m < n
  <2>1. n \in 1..n /\ n \notin 1..m
    BY <1>1
  <2> QED
    BY <2>1
<1>2. CASE n < m
  <2>1. m \in 1..m /\ m \notin 1..n
    BY <1>2
  <2> QED
    BY <2>1
<1> QED
  BY <1>1, <1>2

\* Two tables with the same rows, except for their schedules and leases.
SameFields(old, new) ==
  /\ DOMAIN new = DOMAIN old
  /\ \A i \in DOMAIN old :
       /\ new[i].kind = old[i].kind
       /\ new[i].status = old[i].status
       /\ new[i].no = old[i].no
       /\ new[i].retryOf = old[i].retryOf

\* Clearing leases leaves the number of rows, and what else they say, alone.
LEMMA UnclaimedRows ==
  ASSUME attempts \in Seq(Row), NEW ids, NEW next \in Nat \cup {None},
         NEW rows, rows = Unclaimed(ids, next)
  PROVE  /\ rows \in Seq(Row)
         /\ Len(rows) = Len(attempts)
         /\ SameFields(attempts, rows)
         /\ \A i \in DOMAIN attempts :
              /\ i \in ids => rows[i].claim = None
              /\ i \notin ids => rows[i].claim = attempts[i].claim
<1>1. rows = [i \in 1..Len(attempts) |->
                IF i \in ids THEN [attempts[i] EXCEPT !.next = next, !.claim = None]
                             ELSE attempts[i]]
  BY LenProperties DEF Unclaimed
<1>2. \A i \in 1..Len(attempts) : attempts[i] \in Row
  OBVIOUS
<1>3. \A i \in 1..Len(attempts) : rows[i] \in Row
  <2>1. SUFFICES ASSUME NEW i \in 1..Len(attempts) PROVE rows[i] \in Row
    OBVIOUS
  <2>2. attempts[i] \in Row /\ [attempts[i] EXCEPT !.next = next, !.claim = None] \in Row
    BY <1>2 DEF Row
  <2>3. rows[i] = IF i \in ids THEN [attempts[i] EXCEPT !.next = next, !.claim = None]
                               ELSE attempts[i]
    BY <1>1
  <2> QED
    BY <2>2, <2>3
<1>4. rows \in Seq(Row) /\ Len(rows) = Len(attempts) /\ DOMAIN rows = DOMAIN attempts
  <2>1. Len(attempts) \in Nat /\ DOMAIN attempts = 1..Len(attempts)
    BY LenProperties
  <2>2. rows \in [1..Len(attempts) -> Row]
    BY <1>1, <1>3
  <2>3. rows \in Seq(Row)
    BY <2>1, <2>2, SeqDef
  <2>4. DOMAIN rows = 1..Len(rows) /\ Len(rows) \in Nat
    BY <2>3, LenProperties
  <2>5. DOMAIN rows = 1..Len(attempts)
    BY <1>1
  <2>6. Len(rows) = Len(attempts)
    BY <2>1, <2>4, <2>5, IntervalEnd
  <2> QED
    BY <2>1, <2>3, <2>5, <2>6
<1>5. ASSUME NEW i \in 1..Len(attempts)
      PROVE  /\ rows[i].kind = attempts[i].kind
             /\ rows[i].status = attempts[i].status
             /\ rows[i].no = attempts[i].no
             /\ rows[i].retryOf = attempts[i].retryOf
             /\ i \in ids => rows[i].claim = None
             /\ i \notin ids => rows[i].claim = attempts[i].claim
  <2>1. attempts[i] \in Row
    BY <1>2
  <2>2. rows[i] = IF i \in ids THEN [attempts[i] EXCEPT !.next = next, !.claim = None]
                               ELSE attempts[i]
    BY <1>1
  <2> QED
    BY <2>1, <2>2 DEF Row
<1>6. DOMAIN attempts = 1..Len(attempts)
  BY LenProperties
<1> QED
  BY <1>4, <1>5, <1>6 DEF SameFields

\* A claim writes one lease and nothing else.
LEMMA ClaimedRows ==
  ASSUME attempts \in Seq(Row), NEW id \in DOMAIN attempts, NEW stamp \in Nat
  PROVE  LET rows == [attempts EXCEPT ![id].claim = stamp] IN
         /\ rows \in Seq(Row)
         /\ SameFields(attempts, rows)
         /\ \A i \in DOMAIN attempts :
              /\ i = id => rows[i].claim = stamp
              /\ i # id => rows[i].claim = attempts[i].claim
<1> DEFINE row == [attempts[id] EXCEPT !.claim = stamp]
           rows == [attempts EXCEPT ![id] = row]
<1>1. DOMAIN attempts = 1..Len(attempts) /\ Len(attempts) \in Nat
  BY LenProperties
<1>2. \A i \in 1..Len(attempts) : attempts[i] \in Row
  BY ElementOfSeq
<1>3. /\ row \in Row
      /\ row.kind = attempts[id].kind /\ row.status = attempts[id].status
      /\ row.no = attempts[id].no /\ row.retryOf = attempts[id].retryOf
      /\ row.claim = stamp
  BY <1>1, <1>2 DEF Row
<1> HIDE DEF row
<1>4. /\ rows \in Seq(Row)
      /\ Len(rows) = Len(attempts)
      /\ \A i \in 1..Len(attempts) : rows[i] = IF i = id THEN row ELSE attempts[i]
  BY <1>1, <1>3, ExceptSeq
<1>5. DOMAIN rows = DOMAIN attempts
  OBVIOUS
<1> HIDE DEF rows
<1>6. \A i \in DOMAIN attempts :
        /\ rows[i].kind = attempts[i].kind
        /\ rows[i].status = attempts[i].status
        /\ rows[i].no = attempts[i].no
        /\ rows[i].retryOf = attempts[i].retryOf
        /\ i = id => rows[i].claim = stamp
        /\ i # id => rows[i].claim = attempts[i].claim
  BY <1>1, <1>3, <1>4
<1>7. [attempts EXCEPT ![id].claim = stamp] = rows
  BY DEF rows, row
<1> QED
  BY <1>4, <1>5, <1>6, <1>7 DEF SameFields

\* A new row is a row.
LEMMA NewRowType ==
  ASSUME now \in Nat, NEW kind \in AllKinds, NEW sent \in BOOLEAN,
         NEW no \in Nat \ {0}, NEW retryOf \in Nat \cup {None}
  PROVE  /\ NewRow(kind, sent, no, retryOf) \in Row
         /\ NewRow(kind, sent, no, retryOf).kind = kind
         /\ NewRow(kind, sent, no, retryOf).no = no
         /\ NewRow(kind, sent, no, retryOf).claim = None
         /\ NewRow(kind, sent, no, retryOf).retryOf = retryOf
<1>1. no < maxDeliveryAttempts => now + retryDelay[no] \in Nat
  <2>1. no < 3 => no = 1 \/ no = 2
    OBVIOUS
  <2>2. retryDelay[1] = 1 /\ retryDelay[2] = 2
    BY DEF retryDelay
  <2> QED
    BY <2>1, <2>2 DEF maxDeliveryAttempts
<1> QED
  BY <1>1 DEF NewRow, Row

\* Losing a lease is all that happens to the workers on a row.
LEMMA EvictType ==
  ASSUME NEW ids, NEW work \in [Workers -> Work], NEW rest, rest = Evict(ids, work)
  PROVE  /\ rest \in [Workers -> Work]
         /\ \A w \in Workers :
              /\ rest[w].stage = work[w].stage
              /\ rest[w].src = work[w].src
              /\ rest[w].since = work[w].since
              /\ rest[w].sent = work[w].sent
              /\ rest[w].leased = (work[w].leased /\ work[w].src \notin ids)
<1>1. ASSUME NEW w \in Workers
      PROVE  LET e == IF work[w].src \in ids THEN [work[w] EXCEPT !.leased = FALSE] ELSE work[w]
             IN  /\ e \in Work
                 /\ e.stage = work[w].stage /\ e.src = work[w].src
                 /\ e.since = work[w].since /\ e.sent = work[w].sent
                 /\ e.leased = (work[w].leased /\ work[w].src \notin ids)
  <2>1. work[w] \in Work
    OBVIOUS
  <2>2. CASE work[w].src \in ids
    BY <2>1, <2>2 DEF Work
  <2>3. CASE work[w].src \notin ids
    BY <2>1, <2>3 DEF Work
  <2> QED
    BY <2>2, <2>3
<1> QED
  BY <1>1 DEF Evict

-----------------------------------------------------------------------------
(* Types.                                                                  *)

\* A worker works on a failed attempt: rows neither vanish nor change status.
WorksOnFailed ==
  \A w \in Workers :
    Busy(w) => /\ worker[w].src \in DOMAIN attempts
               /\ attempts[worker[w].src].status = "failed"

TInv == TypeOK /\ WorksOnFailed

\* What a step leaves of the rows when it adds none.
SameChain == attempts' \in Seq(Row) /\ SameFields(attempts, attempts')

\* What a step leaves of the rows when it adds row.
OneMore(row) ==
  /\ row \in Row
  /\ attempts' \in Seq(Row)
  /\ Len(attempts) \in Nat
  /\ DOMAIN attempts = 1..Len(attempts)
  /\ DOMAIN attempts' = 1..(Len(attempts) + 1)
  /\ \A i \in DOMAIN attempts :
       /\ attempts'[i].kind = attempts[i].kind
       /\ attempts'[i].status = attempts[i].status
       /\ attempts'[i].no = attempts[i].no
       /\ attempts'[i].retryOf = attempts[i].retryOf
  /\ attempts'[Len(attempts) + 1] = row

\* Stopping schedules adds no row and leaves every worker where it is.
LEMMA StopRows ==
  ASSUME TypeOK, NEW kinds, StopScheduled(kinds)
  PROVE  /\ SameChain
         /\ worker' \in [Workers -> Work]
         /\ \A w \in Workers :
              worker'[w].stage = worker[w].stage /\ worker'[w].src = worker[w].src
<1> DEFINE ids == {i \in DOMAIN attempts : /\ attempts[i].status = "failed"
                                           /\ attempts[i].next # None
                                           /\ attempts[i].kind \in kinds}
<1>1. attempts' = Unclaimed(ids, None) /\ worker' = Evict(ids, worker)
  BY DEF StopScheduled
<1>2. attempts \in Seq(Row) /\ worker \in [Workers -> Work]
  BY DEF TypeOK
<1> HIDE DEF ids
<1>3. SameChain
  BY <1>1, <1>2, UnclaimedRows DEF SameChain
<1> QED
  BY <1>1, <1>2, <1>3, EvictType

\* The lease of row id is now stamp; the others are what they were.
LeasedAt(id, stamp) ==
  \A i \in DOMAIN attempts :
    /\ i = id => attempts'[i].claim = stamp
    /\ i # id => attempts'[i].claim = attempts[i].claim

\* A claim adds no row and puts one worker to work.
LEMMA ClaimRows ==
  ASSUME TypeOK, NEW w \in Workers, NEW id \in DOMAIN attempts, NEW stamp \in Nat,
         Claim(w, id, stamp)
  PROVE  /\ SameChain
         /\ LeasedAt(id, stamp)
         /\ worker' \in [Workers -> Work]
         /\ worker'[w] = [stage |-> "claimed", src |-> id, since |-> now,
                          sent |-> FALSE, leased |-> TRUE]
         /\ \A v \in Workers \ {w} : worker'[v] = worker[v]
<1> DEFINE job == [stage |-> "claimed", src |-> id, since |-> now,
                   sent |-> FALSE, leased |-> TRUE]
<1>1. /\ attempts \in Seq(Row) /\ worker \in [Workers -> Work] /\ now \in Nat
      /\ id \in Nat
  <2>1. attempts \in Seq(Row)
    BY DEF TypeOK
  <2>2. DOMAIN attempts = 1..Len(attempts)
    BY <2>1, LenProperties
  <2> QED
    BY <2>1, <2>2 DEF TypeOK
<1>2. attempts' = [attempts EXCEPT ![id].claim = stamp] /\ worker' = [worker EXCEPT ![w] = job]
  BY DEF Claim
<1>3. job \in Work
  BY <1>1 DEF Work, Stages
<1> HIDE DEF job
<1>4. SameChain /\ LeasedAt(id, stamp)
  BY <1>1, <1>2, ClaimedRows, ZenonT(30) DEF SameChain, LeasedAt
<1>5. /\ worker' \in [Workers -> Work] /\ worker'[w] = job
      /\ \A v \in Workers \ {w} : worker'[v] = worker[v]
  BY <1>1, <1>2, <1>3
<1> QED
  BY <1>4, <1>5 DEF job

\* The rows are rows and they are unchanged when nothing is said of them.
LEMMA SameRows ==
  ASSUME TypeOK, UNCHANGED attempts
  PROVE  SameChain
BY DEF TypeOK, SameChain, SameFields

\* Recording a retry of row id adds its successor and clears the lease of id.
LEMMA RecordRows ==
  ASSUME TInv, NEW w \in Workers, RecordRetry(w)
  PROVE  LET id == worker[w].src
             row == NewRow(attempts[id].kind, worker[w].sent, attempts[id].no + 1, id)
         IN  /\ id \in DOMAIN attempts /\ attempts[id].status = "failed"
             /\ OneMore(row)
             /\ row.kind = attempts[id].kind /\ row.no = attempts[id].no + 1
             /\ row.claim = None /\ row.retryOf = id
             /\ \A i \in DOMAIN attempts :
                  /\ i = id => attempts'[i].claim = None
                  /\ i # id => attempts'[i].claim = attempts[i].claim
             /\ worker' \in [Workers -> Work]
             /\ \A v \in Workers :
                  /\ worker'[v].stage = "idle"
                     \/ (worker'[v].src = worker[v].src /\ Busy(v))
                  /\ worker'[v].leased =>
                       /\ worker[v].leased /\ worker[v].src # id
                       /\ worker'[v].src = worker[v].src
                       /\ worker'[v].stage = worker[v].stage
                       /\ worker'[v].since = worker[v].since
<1> DEFINE id == worker[w].src
           row == NewRow(attempts[id].kind, worker[w].sent, attempts[id].no + 1, id)
           rows == Unclaimed({id}, None)
           done == [worker EXCEPT ![w] = Idle]
           released == [worker EXCEPT ![w].stage = "release"]
<1>1. /\ attempts \in Seq(Row) /\ worker \in [Workers -> Work] /\ now \in Nat
      /\ worker[w] \in Work
  BY DEF TInv, TypeOK
<1>2. /\ worker[w].stage = "answered"
      /\ attempts' = Append(rows, row)
      /\ worker' = Evict({id}, done) \/ worker' = Evict({id}, released)
  BY DEF RecordRetry
<1>3. id \in DOMAIN attempts /\ attempts[id].status = "failed" /\ Busy(w)
  BY <1>2 DEF TInv, WorksOnFailed, Busy
<1>4. attempts[id] \in Row /\ id \in Nat /\ DOMAIN attempts = 1..Len(attempts) /\ Len(attempts) \in Nat
  BY <1>1, <1>3, LenProperties
<1>5. /\ row \in Row /\ row.kind = attempts[id].kind /\ row.no = attempts[id].no + 1
      /\ row.claim = None /\ row.retryOf = id
  <2>1. /\ attempts[id].kind \in AllKinds /\ attempts[id].no + 1 \in Nat \ {0}
        /\ worker[w].sent \in BOOLEAN
    BY <1>1, <1>4 DEF Row, Work
  <2> QED
    BY <1>1, <1>4, <2>1, NewRowType
<1> HIDE DEF row
<1>6. /\ rows \in Seq(Row) /\ Len(rows) = Len(attempts) /\ SameFields(attempts, rows)
      /\ \A i \in DOMAIN attempts : /\ i \in {id} => rows[i].claim = None
                                    /\ i \notin {id} => rows[i].claim = attempts[i].claim
  BY <1>1, UnclaimedRows
<1> HIDE DEF rows, id
<1>7. /\ attempts' \in Seq(Row) /\ Len(attempts') = Len(attempts) + 1
      /\ \A i \in 1..Len(attempts) : attempts'[i] = rows[i]
      /\ attempts'[Len(attempts) + 1] = row
  BY <1>2, <1>5, <1>6, AppendProperties
<1>8. DOMAIN attempts' = 1..(Len(attempts) + 1)
  BY <1>7, LenProperties
<1>9. OneMore(row)
  BY <1>4, <1>5, <1>6, <1>7, <1>8 DEF OneMore, SameFields
<1>10. \A i \in DOMAIN attempts :
         /\ i = id => attempts'[i].claim = None
         /\ i # id => attempts'[i].claim = attempts[i].claim
  BY <1>4, <1>6, <1>7
<1>11. /\ done \in [Workers -> Work] /\ done[w] = Idle
       /\ released \in [Workers -> Work] /\ released[w].stage = "release"
       /\ released[w].src = id
       /\ \A v \in Workers \ {w} : done[v] = worker[v] /\ released[v] = worker[v]
  <2>1. Idle \in Work /\ [worker[w] EXCEPT !.stage = "release"] \in Work
    BY <1>1 DEF Idle, Work, Stages
  <2>2. [worker[w] EXCEPT !.stage = "release"].src = id
    BY <1>1 DEF Work, id
  <2>3. [worker[w] EXCEPT !.stage = "release"].stage = "release"
    BY <1>1 DEF Work
  <2> QED
    BY <1>1, <2>1, <2>2, <2>3
<1>12. \A v \in Workers : Busy(v) <=> worker[v].stage # "idle"
  BY DEF Busy
<1>13. Idle.stage = "idle" /\ ~Idle.leased
  BY DEF Idle
<1> DEFINE Effect ==
      /\ worker' \in [Workers -> Work]
      /\ \A v \in Workers :
           /\ worker'[v].stage = "idle" \/ (worker'[v].src = worker[v].src /\ Busy(v))
           /\ worker'[v].leased =>
                /\ worker[v].leased /\ worker[v].src # id
                /\ worker'[v].src = worker[v].src
                /\ worker'[v].stage = worker[v].stage
                /\ worker'[v].since = worker[v].since
<1>14. ASSUME worker' = Evict({id}, done) PROVE Effect
  <2> HIDE DEF done
  <2>1. /\ worker' \in [Workers -> Work]
        /\ \A v \in Workers :
             /\ worker'[v].stage = done[v].stage /\ worker'[v].src = done[v].src
             /\ worker'[v].since = done[v].since
             /\ worker'[v].leased = (done[v].leased /\ done[v].src \notin {id})
    BY <1>11, <1>14, EvictType
  <2>2. ASSUME NEW v \in Workers \ {w}
        PROVE  /\ worker'[v].stage = "idle" \/ (worker'[v].src = worker[v].src /\ Busy(v))
               /\ worker'[v].leased =>
                    /\ worker[v].leased /\ worker[v].src # id
                    /\ worker'[v].src = worker[v].src
                    /\ worker'[v].stage = worker[v].stage
                    /\ worker'[v].since = worker[v].since
    BY <1>11, <1>12, <2>1, ZenonT(30)
  <2>3. worker'[w].stage = "idle" /\ ~worker'[w].leased
    BY <1>11, <1>13, <2>1
  <2> QED
    BY <2>1, <2>2, <2>3
<1>15. ASSUME worker' = Evict({id}, released) PROVE Effect
  <2> HIDE DEF released
  <2>1. /\ worker' \in [Workers -> Work]
        /\ \A v \in Workers :
             /\ worker'[v].stage = released[v].stage /\ worker'[v].src = released[v].src
             /\ worker'[v].since = released[v].since
             /\ worker'[v].leased = (released[v].leased /\ released[v].src \notin {id})
    BY <1>11, <1>15, EvictType
  <2>2. ASSUME NEW v \in Workers \ {w}
        PROVE  /\ worker'[v].stage = "idle" \/ (worker'[v].src = worker[v].src /\ Busy(v))
               /\ worker'[v].leased =>
                    /\ worker[v].leased /\ worker[v].src # id
                    /\ worker'[v].src = worker[v].src
                    /\ worker'[v].stage = worker[v].stage
                    /\ worker'[v].since = worker[v].since
    BY <1>11, <1>12, <2>1
  <2>3. worker'[w].src = worker[w].src /\ Busy(w) /\ ~worker'[w].leased
    BY <1>3, <1>11, <2>1 DEF id
  <2> QED
    BY <2>1, <2>2, <2>3
<1>16. Effect
  BY <1>2, <1>14, <1>15
<1> QED
  BY <1>3, <1>5, <1>9, <1>10, <1>16 DEF id, row

\* A first attempt adds a row of its own.
LEMMA FirstRows ==
  ASSUME TypeOK, FirstAttempt
  PROVE  \/ SameChain /\ UNCHANGED attempts
         \/ \E row \in Row : /\ OneMore(row)
                             /\ row.retryOf = None /\ row.claim = None
                             /\ \A i \in DOMAIN attempts : attempts'[i] = attempts[i]
<1>1. attempts \in Seq(Row) /\ now \in Nat /\ sender.kind \in AllKinds
  BY DEF TypeOK
<1>2. CASE UNCHANGED attempts
  BY <1>2, SameRows
<1>3. ASSUME NEW sent \in BOOLEAN,
             attempts' = Append(attempts, NewRow(sender.kind, sent, 1, None))
      PROVE  \E row \in Row : /\ OneMore(row)
                              /\ row.retryOf = None /\ row.claim = None
                              /\ \A i \in DOMAIN attempts : attempts'[i] = attempts[i]
  <2> DEFINE row == NewRow(sender.kind, sent, 1, None)
  <2>1. row \in Row /\ row.retryOf = None /\ row.claim = None
    <3>1. retryDelay[1] = 1 /\ 1 < maxDeliveryAttempts
      BY DEF retryDelay, maxDeliveryAttempts
    <3> QED
      BY <1>1, <3>1 DEF NewRow, Row
  <2> HIDE DEF row
  <2>2. attempts' = Append(attempts, row)
    BY <1>3 DEF row
  <2>3. Len(attempts) \in Nat /\ DOMAIN attempts = 1..Len(attempts)
    BY <1>1, LenProperties
  <2>4. /\ attempts' \in Seq(Row) /\ Len(attempts') = Len(attempts) + 1
        /\ \A i \in 1..Len(attempts) : attempts'[i] = attempts[i]
        /\ attempts'[Len(attempts) + 1] = row
    BY <1>1, <2>1, <2>2, AppendProperties
  <2>5. DOMAIN attempts' = 1..(Len(attempts) + 1)
    BY <2>4, LenProperties
  <2>6. OneMore(row)
    BY <2>1, <2>3, <2>4, <2>5 DEF OneMore
  <2> QED
    BY <2>1, <2>3, <2>4, <2>6
<1> QED
  BY <1>2, <1>3 DEF FirstAttempt

\* Rows are never dropped, and keep everything but schedule and lease.
RowsKept ==
  /\ attempts' \in Seq(Row)
  /\ DOMAIN attempts \subseteq DOMAIN attempts'
  /\ \A i \in DOMAIN attempts :
       /\ attempts'[i].kind = attempts[i].kind
       /\ attempts'[i].status = attempts[i].status
       /\ attempts'[i].no = attempts[i].no
       /\ attempts'[i].retryOf = attempts[i].retryOf

LEMMA SameChainKeeps ==
  ASSUME SameChain PROVE RowsKept
BY DEF SameChain, SameFields, RowsKept

LEMMA OneMoreKeeps ==
  ASSUME NEW row, OneMore(row) PROVE RowsKept
BY DEF OneMore, RowsKept

\* Workers that stop, or go on with their row, keep working on failed rows.
LEMMA WorksKept ==
  ASSUME TInv, RowsKept,
         \A w \in Workers : worker'[w].stage = "idle"
                            \/ (worker'[w].src = worker[w].src /\ Busy(w))
                            \/ worker'[w] = worker[w]
  PROVE  WorksOnFailed'
BY DEF TInv, WorksOnFailed, RowsKept, Busy

\* So does a worker that claims a row.
LEMMA ClaimWorks ==
  ASSUME TInv, NEW w \in Workers, NEW id \in DOMAIN attempts, NEW stamp \in Nat,
         NEW t, NEW requireDue, Claimable(id, t, requireDue), Claim(w, id, stamp)
  PROVE  RowsKept /\ worker' \in [Workers -> Work] /\ WorksOnFailed'
<1>1. TypeOK /\ WorksOnFailed /\ attempts[id].status = "failed"
  BY DEF TInv, Claimable
<1>2. /\ SameChain
      /\ worker' \in [Workers -> Work]
      /\ worker'[w] = [stage |-> "claimed", src |-> id, since |-> now,
                       sent |-> FALSE, leased |-> TRUE]
      /\ \A v \in Workers \ {w} : worker'[v] = worker[v]
  BY <1>1, ClaimRows
<1>3. RowsKept
  BY <1>2, SameChainKeeps
<1>4. WorksOnFailed'
  BY <1>1, <1>2, <1>3 DEF WorksOnFailed, RowsKept, Busy
<1> QED
  BY <1>2, <1>3, <1>4

\* A worker that changes its stage stays within the types.
LEMMA GoToType ==
  ASSUME TypeOK, NEW w \in Workers, NEW stage \in Stages, GoTo(w, stage)
  PROVE  /\ worker' \in [Workers -> Work]
         /\ worker'[w] = [worker[w] EXCEPT !.stage = stage]
         /\ worker'[w].src = worker[w].src
         /\ \A v \in Workers \ {w} : worker'[v] = worker[v]
<1>1. worker \in [Workers -> Work] /\ worker[w] \in Work
  BY DEF TypeOK
<1>2. worker' = [worker EXCEPT ![w].stage = stage]
  BY DEF GoTo
<1>3. [worker[w] EXCEPT !.stage = stage] \in Work
      /\ [worker[w] EXCEPT !.stage = stage].src = worker[w].src
  BY <1>1 DEF Work
<1> QED
  BY <1>1, <1>2, <1>3

\* How CancelOrStop and Release end: the row loses its lease, and gets the
\* schedule next.
Clear(w, next) ==
  /\ attempts' = Unclaimed({worker[w].src}, next)
  /\ worker' = Evict({worker[w].src}, [worker EXCEPT ![w] = Idle])

LEMMA ClearWorks ==
  ASSUME TInv, NEW w \in Workers, Busy(w), NEW next \in Nat \cup {None}, Clear(w, next)
  PROVE  /\ SameChain
         /\ worker' \in [Workers -> Work]
         /\ \A v \in Workers :
              /\ worker'[v].stage = "idle" \/ (worker'[v].src = worker[v].src /\ Busy(v))
              /\ worker'[v].leased =>
                   /\ worker[v].leased /\ worker[v].src # worker[w].src
                   /\ worker'[v].src = worker[v].src
                   /\ worker'[v].stage = worker[v].stage
                   /\ worker'[v].since = worker[v].since
         /\ WorksOnFailed'
<1> DEFINE id == worker[w].src
           done == [worker EXCEPT ![w] = Idle]
<1>1. attempts \in Seq(Row) /\ worker \in [Workers -> Work]
  BY DEF TInv, TypeOK
<1>2. Idle \in Work /\ Idle.stage = "idle" /\ ~Idle.leased
  BY DEF Idle, Work, Stages
<1>3. done \in [Workers -> Work] /\ done[w] = Idle
      /\ \A v \in Workers \ {w} : done[v] = worker[v]
  BY <1>1, <1>2
<1> HIDE DEF id, done
<1>4. SameChain
  <2>1. attempts' = Unclaimed({id}, next)
    BY DEF Clear, id
  <2> QED
    BY <1>1, <2>1, UnclaimedRows DEF SameChain
<1>5. /\ worker' \in [Workers -> Work]
      /\ \A v \in Workers :
           /\ worker'[v].stage = done[v].stage /\ worker'[v].src = done[v].src
           /\ worker'[v].since = done[v].since
           /\ worker'[v].leased = (done[v].leased /\ done[v].src \notin {id})
  <2>1. worker' = Evict({id}, done)
    BY DEF Clear, id, done
  <2> QED
    BY <1>3, <2>1, EvictType
<1>6. \A v \in Workers :
        /\ worker'[v].stage = "idle" \/ (worker'[v].src = worker[v].src /\ Busy(v))
        /\ worker'[v].leased =>
             /\ worker[v].leased /\ worker[v].src # id
             /\ worker'[v].src = worker[v].src
             /\ worker'[v].stage = worker[v].stage
             /\ worker'[v].since = worker[v].since
  <2>1. ASSUME NEW v \in Workers \ {w}
        PROVE  /\ worker'[v].stage = "idle" \/ (worker'[v].src = worker[v].src /\ Busy(v))
               /\ worker'[v].leased =>
                    /\ worker[v].leased /\ worker[v].src # id
                    /\ worker'[v].src = worker[v].src
                    /\ worker'[v].stage = worker[v].stage
                    /\ worker'[v].since = worker[v].since
    BY <1>3, <1>5 DEF Busy
  <2>2. worker'[w].stage = "idle" /\ ~worker'[w].leased
    BY <1>2, <1>3, <1>5
  <2> QED
    BY <2>1, <2>2
<1>7. WorksOnFailed'
  BY <1>4, <1>6, SameChainKeeps, WorksKept
<1> QED
  BY <1>4, <1>5, <1>6, <1>7 DEF id

\* The lists of the pass are lists of rows as long as no row vanishes.
LEMMA DueKept ==
  ASSUME TypeOK, RowsKept, UNCHANGED pass
  PROVE  /\ pass' \in [phase : {"off", "outbox", "retries"}, now : Nat, due : SUBSET Nat]
         /\ pass'.due \subseteq DOMAIN attempts'
BY DEF TypeOK, RowsKept

\* Ending a pass, or the process.
LEMMA NoPassType ==
  /\ NoPass \in [phase : {"off", "outbox", "retries"}, now : Nat, due : SUBSET Nat]
  /\ NoPass.due = {}
BY DEF NoPass

\* Nothing happens to the workers.
LEMMA StillWorks ==
  ASSUME TInv, RowsKept, UNCHANGED worker
  PROVE  worker' \in [Workers -> Work] /\ WorksOnFailed'
BY WorksKept DEF TInv, TypeOK

\* A worker that only moves on to another stage.
LEMMA MoveOn ==
  ASSUME TInv, NEW w \in Workers, NEW stage \in Stages, Busy(w), GoTo(w, stage),
         UNCHANGED <<attempts, now, monitor, channel, pass, sender>>
  PROVE  TInv'
<1>1. TypeOK
  BY DEF TInv
<1>2. /\ worker' \in [Workers -> Work]
      /\ worker'[w].src = worker[w].src
      /\ \A v \in Workers \ {w} : worker'[v] = worker[v]
  BY <1>1, GoToType
<1>3. RowsKept
  BY <1>1, SameRows, SameChainKeeps
<1>4. WorksOnFailed'
  BY <1>2, <1>3, WorksKept
<1> QED
  BY <1>1, <1>2, <1>4 DEF TInv, TypeOK

\* One worker's steps.
LEMMA WorkerTypes ==
  ASSUME TInv, NEW w \in Workers, WorkerStep(w) \/ Abandon(w)
  PROVE  TInv'
<1>1. TypeOK /\ WorksOnFailed /\ worker[w] \in Work /\ now \in Nat /\ now + 1 \in Nat
  BY DEF TInv, TypeOK
<1>2. CASE CheckMonitor(w)
  <2>1. Busy(w) /\ \E stage \in Stages : GoTo(w, stage)
    BY <1>2 DEF CheckMonitor, Busy, Stages
  <2> QED
    BY <1>2, <2>1, MoveOn DEF CheckMonitor
<1>3. CASE CheckChannel(w)
  <2>1. Busy(w) /\ \E stage \in Stages : GoTo(w, stage)
    BY <1>3 DEF CheckChannel, Busy, Stages
  <2> QED
    BY <1>3, <2>1, MoveOn DEF CheckChannel
<1>4. CASE Answer(w)
  <2>1. PICK sent \in BOOLEAN :
          worker' = [worker EXCEPT ![w].stage = "answered", ![w].sent = sent]
    BY <1>4 DEF Answer
  <2> DEFINE job == [worker[w] EXCEPT !.stage = "answered", !.sent = sent]
  <2>2. job \in Work /\ job.src = worker[w].src
    BY <1>1 DEF Work, Stages
  <2>3. worker' = [worker EXCEPT ![w] = job] /\ worker \in [Workers -> Work]
    BY <1>1, <2>1 DEF TypeOK
  <2> HIDE DEF job
  <2>4. /\ worker' \in [Workers -> Work] /\ worker'[w].src = worker[w].src
        /\ \A v \in Workers \ {w} : worker'[v] = worker[v]
    BY <2>2, <2>3
  <2>5. RowsKept /\ Busy(w)
    BY <1>1, <1>4, SameRows, SameChainKeeps DEF Answer, Busy
  <2>6. WorksOnFailed'
    BY <2>4, <2>5, WorksKept
  <2> QED
    BY <1>1, <1>4, <2>4, <2>6 DEF Answer, TInv, TypeOK
<1>5. CASE RecordRetry(w)
  <2>1. /\ \E row : OneMore(row)
        /\ worker' \in [Workers -> Work]
        /\ \A v \in Workers : worker'[v].stage = "idle"
                              \/ (worker'[v].src = worker[v].src /\ Busy(v))
    BY <1>5, RecordRows
  <2>2. RowsKept
    BY <2>1, OneMoreKeeps
  <2>3. WorksOnFailed'
    BY <2>1, <2>2, WorksKept
  <2>4. UNCHANGED <<now, monitor, channel, pass, sender>>
    BY <1>5 DEF RecordRetry
  <2> QED
    BY <1>1, <2>1, <2>2, <2>3, <2>4, DueKept DEF TInv, TypeOK, RowsKept
<1>6. CASE RecordConflict(w)
  <2>1. Busy(w) /\ \E stage \in Stages : GoTo(w, stage)
    BY <1>6 DEF RecordConflict, Busy, Stages
  <2> QED
    BY <1>6, <2>1, MoveOn DEF RecordConflict
<1>7. ASSUME NEW next \in Nat \cup {None}, Busy(w), Clear(w, next),
             UNCHANGED <<now, monitor, channel, pass, sender>>
      PROVE  TInv'
  <2>1. SameChain /\ worker' \in [Workers -> Work] /\ WorksOnFailed'
    BY <1>7, ClearWorks
  <2>2. RowsKept
    BY <2>1, SameChainKeeps
  <2> QED
    BY <1>1, <1>7, <2>1, <2>2, DueKept DEF TInv, TypeOK, RowsKept
<1>8. CASE CancelOrStop(w)
  BY <1>7, <1>8 DEF CancelOrStop, Clear, Busy
<1>9. CASE Release(w)
  BY <1>1, <1>7, <1>9 DEF Release, Clear, Busy
<1>10. CASE Abandon(w)
  <2>1. /\ worker' = [worker EXCEPT ![w] = Idle]
        /\ UNCHANGED <<attempts, now, monitor, channel, pass, sender>>
    BY <1>10 DEF Abandon
  <2>2. Idle \in Work /\ Idle.stage = "idle"
    BY DEF Idle, Work, Stages
  <2>3. /\ worker' \in [Workers -> Work] /\ worker'[w].stage = "idle"
        /\ \A v \in Workers \ {w} : worker'[v] = worker[v]
    BY <1>1, <2>1, <2>2 DEF TypeOK
  <2>4. RowsKept
    BY <1>1, <2>1, SameRows, SameChainKeeps
  <2>5. WorksOnFailed'
    BY <2>3, <2>4, WorksKept
  <2> QED
    BY <1>1, <2>1, <2>3, <2>5 DEF TInv, TypeOK
<1> QED
  BY <1>2, <1>3, <1>4, <1>5, <1>6, <1>8, <1>9, <1>10 DEF WorkerStep


\* The steps of the maintenance pass, and of an operator that claims a row.
LEMMA ClaimTypes ==
  ASSUME TInv, NEW w \in Workers, NEW id \in DOMAIN attempts, NEW stamp \in Nat,
         NEW t, NEW requireDue, Claimable(id, t, requireDue), Claim(w, id, stamp),
         UNCHANGED <<now, monitor, channel, sender>>,
         UNCHANGED pass \/ pass' = [pass EXCEPT !.due = @ \ {id}]
  PROVE  TInv'
<1>1. RowsKept /\ worker' \in [Workers -> Work] /\ WorksOnFailed'
  BY ClaimWorks
<1>2. /\ pass' \in [phase : {"off", "outbox", "retries"}, now : Nat, due : SUBSET Nat]
      /\ pass'.due \subseteq pass.due
  BY DEF TInv, TypeOK
<1>3. pass'.due \subseteq DOMAIN attempts'
  BY <1>1, <1>2 DEF TInv, TypeOK, RowsKept
<1> QED
  BY <1>1, <1>2, <1>3 DEF TInv, TypeOK, RowsKept

LEMMA PassTypes ==
  ASSUME TInv, PassStep
  PROVE  TInv'
<1>1. TypeOK /\ WorksOnFailed /\ pass.now \in Nat /\ Maintenance \in Workers
  BY DEF TInv, TypeOK, Workers
<1>2. DOMAIN attempts \subseteq Nat
  <2>1. attempts \in Seq(Row)
    BY <1>1 DEF TypeOK
  <2> QED
    BY <2>1, LenProperties
<1>3. ASSUME UNCHANGED <<attempts, now, monitor, channel, worker, sender>>,
             pass' \in [phase : {"off", "outbox", "retries"}, now : Nat, due : SUBSET Nat],
             pass'.due \subseteq DOMAIN attempts
      PROVE  TInv'
  BY <1>1, <1>3 DEF TInv, TypeOK, WorksOnFailed, Busy
<1>4. CASE StartPass
  <2>1. now \in Nat
    BY <1>1 DEF TypeOK
  <2> QED
    BY <1>3, <1>4, <2>1 DEF StartPass
<1>5. CASE ListDue
  <2>1. Due(pass.now) \subseteq DOMAIN attempts
    BY DEF Due
  <2>2. CASE pass' = [pass EXCEPT !.phase = "retries", !.due = Due(pass.now)]
    <3>1. /\ pass' \in [phase : {"off", "outbox", "retries"}, now : Nat, due : SUBSET Nat]
          /\ pass'.due \subseteq DOMAIN attempts
      BY <1>1, <1>2, <2>1, <2>2 DEF TypeOK
    <3> QED
      BY <1>3, <1>5, <3>1 DEF ListDue
  <2>3. CASE pass' = NoPass
    BY <1>3, <1>5, <2>3, NoPassType DEF ListDue
  <2> QED
    BY <1>5, <2>2, <2>3 DEF ListDue
<1>6. CASE ClaimDue
  <2>1. PICK id \in pass.due : /\ Claimable(id, pass.now, TRUE)
                               /\ Claim(Maintenance, id, pass.now)
                               /\ pass' = [pass EXCEPT !.due = @ \ {id}]
    BY <1>6 DEF ClaimDue
  <2>2. id \in DOMAIN attempts
    BY <1>1 DEF TypeOK
  <2> QED
    BY <1>1, <1>6, <2>1, <2>2, ClaimTypes DEF ClaimDue
<1>7. CASE SkipDue
  <2>1. PICK id \in pass.due : pass' = [pass EXCEPT !.due = @ \ {id}]
    BY <1>7 DEF SkipDue
  <2>2. /\ pass' \in [phase : {"off", "outbox", "retries"}, now : Nat, due : SUBSET Nat]
        /\ pass'.due \subseteq DOMAIN attempts
    BY <1>1, <2>1 DEF TypeOK
  <2> QED
    BY <1>3, <1>7, <2>2 DEF SkipDue
<1>8. CASE EndPass
  BY <1>3, <1>8, NoPassType DEF EndPass
<1> QED
  BY <1>4, <1>5, <1>6, <1>7, <1>8 DEF PassStep

\* The steps of first attempts.
LEMMA SenderTypes ==
  ASSUME TInv, SenderStep
  PROVE  TInv'
<1>1. TypeOK /\ WorksOnFailed
  BY DEF TInv
<1>2. ASSUME UNCHANGED <<attempts, worker, pass>>, UNCHANGED <<now, channel>>,
             monitor' \in [archived : BOOLEAN, incident : BOOLEAN],
             sender' \in [stage : {"idle", "stop", "sending"}, kind : AllKinds, deliver : BOOLEAN]
      PROVE  TInv'
  BY <1>1, <1>2 DEF TInv, TypeOK, WorksOnFailed, Busy
<1>3. NoSend \in [stage : {"idle", "stop", "sending"}, kind : AllKinds, deliver : BOOLEAN]
  BY DEF NoSend, AllKinds
<1>4. CASE StartDelivery
  BY <1>1, <1>2, <1>4 DEF StartDelivery, AllKinds, TypeOK
<1>5. CASE StartTest
  BY <1>1, <1>2, <1>5 DEF StartTest, AllKinds, TypeOK
<1>6. CASE OpenIncident
  BY <1>1, <1>2, <1>6 DEF OpenIncident, AllKinds, TypeOK
<1>7. CASE CloseIncident
  BY <1>1, <1>2, <1>7 DEF CloseIncident, AllKinds, TypeOK
<1>8. CASE StopOpposite
  <2>1. sender' \in [stage : {"idle", "stop", "sending"}, kind : AllKinds, deliver : BOOLEAN]
    BY <1>1, <1>3, <1>8 DEF StopOpposite, TypeOK
  <2>2. CASE StopScheduled({"monitor_failure", "monitor_recovery"} \ {sender.kind})
    <3>1. /\ SameChain /\ worker' \in [Workers -> Work]
          /\ \A w \in Workers :
               worker'[w].stage = worker[w].stage /\ worker'[w].src = worker[w].src
      BY <1>1, <2>2, StopRows
    <3>2. RowsKept
      BY <3>1, SameChainKeeps
    <3>3. WorksOnFailed'
      BY <3>1, <3>2, WorksKept DEF Busy
    <3> QED
      BY <1>1, <1>8, <2>1, <3>1, <3>2, <3>3, DueKept DEF StopOpposite, TInv, TypeOK, RowsKept
  <2>3. CASE UNCHANGED <<attempts, worker>>
    BY <1>1, <1>2, <1>8, <2>1, <2>3 DEF StopOpposite, TypeOK
  <2> QED
    BY <1>8, <2>2, <2>3 DEF StopOpposite
<1>9. CASE FirstAttempt
  <2>1. RowsKept
    BY <1>1, <1>9, FirstRows, SameChainKeeps, OneMoreKeeps
  <2>2. UNCHANGED <<now, monitor, channel, worker, pass>> /\ sender' = NoSend
    BY <1>9 DEF FirstAttempt
  <2>3. worker' \in [Workers -> Work] /\ WorksOnFailed'
    BY <2>1, <2>2, StillWorks
  <2> QED
    BY <1>1, <1>3, <2>1, <2>2, <2>3, DueKept DEF TInv, TypeOK, RowsKept
<1> QED
  BY <1>4, <1>5, <1>6, <1>7, <1>8, <1>9 DEF SenderStep

\* Configuration, restart and time.
LEMMA OtherTypes ==
  ASSUME TInv, ConfigStep \/ Restart \/ Tick
  PROVE  TInv'
<1>1. TypeOK /\ WorksOnFailed
  BY DEF TInv
<1>2. ASSUME UNCHANGED <<attempts, worker, pass, sender>>,
             now' \in Nat, monitor' \in [archived : BOOLEAN, incident : BOOLEAN],
             channel' \in {"enabled", "disabled", "archived"}
      PROVE  TInv'
  BY <1>1, <1>2 DEF TInv, TypeOK, WorksOnFailed, Busy
<1>3. ASSUME NEW kinds, StopScheduled(kinds), UNCHANGED <<now, pass, sender>>,
             monitor' \in [archived : BOOLEAN, incident : BOOLEAN],
             channel' \in {"enabled", "disabled", "archived"}
      PROVE  TInv'
  <2>1. /\ SameChain /\ worker' \in [Workers -> Work]
        /\ \A w \in Workers :
             worker'[w].stage = worker[w].stage /\ worker'[w].src = worker[w].src
    BY <1>1, <1>3, StopRows
  <2>2. RowsKept
    BY <2>1, SameChainKeeps
  <2>3. WorksOnFailed'
    BY <2>1, <2>2, WorksKept DEF Busy
  <2> QED
    BY <1>1, <1>3, <2>1, <2>2, <2>3, DueKept DEF TInv, TypeOK, RowsKept
<1>4. CASE ArchiveMonitor
  BY <1>1, <1>3, <1>4 DEF ArchiveMonitor, TypeOK
<1>5. CASE ArchiveChannel
  BY <1>1, <1>3, <1>5 DEF ArchiveChannel, TypeOK
<1>6. CASE SwitchChannel
  BY <1>1, <1>2, <1>6 DEF SwitchChannel, TypeOK
<1>7. CASE ResetIncident
  BY <1>1, <1>2, <1>7 DEF ResetIncident, TypeOK
<1>8. CASE Restart
  <2>1. PICK ids : attempts' = Unclaimed(ids, None)
    BY <1>8 DEF Restart
  <2>2. SameChain
    BY <1>1, <2>1, UnclaimedRows DEF SameChain, TypeOK
  <2>3. /\ worker' = [w \in Workers |-> Idle] /\ pass' = NoPass /\ sender' = NoSend
        /\ UNCHANGED <<now, monitor, channel>>
    BY <1>8 DEF Restart
  <2>4. /\ Idle \in Work /\ Idle.stage = "idle"
        /\ NoSend \in [stage : {"idle", "stop", "sending"}, kind : AllKinds, deliver : BOOLEAN]
    BY DEF Idle, Work, Stages, NoSend, AllKinds
  <2>5. worker' \in [Workers -> Work] /\ \A w \in Workers : worker'[w].stage = "idle"
    BY <2>3, <2>4
  <2>6. RowsKept
    BY <2>2, SameChainKeeps
  <2>7. WorksOnFailed'
    BY <2>5, <2>6, WorksKept
  <2> QED
    BY <1>1, <2>3, <2>4, <2>5, <2>6, <2>7, NoPassType DEF TInv, TypeOK, RowsKept
<1>9. CASE Tick
  BY <1>1, <1>2, <1>9 DEF Tick, TypeOK
<1> QED
  BY <1>4, <1>5, <1>6, <1>7, <1>8, <1>9 DEF ConfigStep

LEMMA TypesInit == Init => TInv
<1>1. <<>> \in Seq(Row) /\ Idle \in Work /\ Idle.stage = "idle"
  BY DEF Idle, Work, Stages
<1>2. NoSend \in [stage : {"idle", "stop", "sending"}, kind : AllKinds, deliver : BOOLEAN]
  BY DEF NoSend, AllKinds
<1> QED
  BY <1>1, <1>2, NoPassType DEF Init, TInv, TypeOK, WorksOnFailed, Busy

LEMMA TypesStep == TInv /\ [Next]_vars => TInv'
<1>1. SUFFICES ASSUME TInv, [Next]_vars PROVE TInv'
  OBVIOUS
<1>2. CASE UNCHANGED vars
  BY <1>1, <1>2 DEF vars, TInv, TypeOK, WorksOnFailed, Busy
<1>3. ASSUME NEW w \in Operators, RetryAttempt(w) PROVE TInv'
  <2>1. PICK id \in DOMAIN attempts : Claimable(id, now, FALSE) /\ Claim(w, id, now)
    BY <1>3 DEF RetryAttempt
  <2>2. w \in Workers /\ now \in Nat
    BY <1>1 DEF Workers, TInv, TypeOK
  <2> QED
    BY <1>1, <1>3, <2>1, <2>2, ClaimTypes DEF RetryAttempt
<1> QED
  BY <1>1, <1>2, <1>3, WorkerTypes, PassTypes, SenderTypes, OtherTypes DEF Next

\* The table, the workers and the pass keep their types, and a worker works on
\* a failed row that exists: rows are never dropped under it.
THEOREM TypeCorrect == Spec => [](TypeOK /\ WorksOnFailed)
BY TypesInit, TypesStep, PTL DEF Spec, TInv

-----------------------------------------------------------------------------
(* Chains of retries.                                                      *)

\* What steps that claim nothing do to leases: a row keeps its lease or loses
\* it, and a worker that still holds one is where it was, on the same row.
ClaimsFall(rows) ==
  \A i \in DOMAIN attempts :
    rows[i].claim = None \/ rows[i].claim = attempts[i].claim

LeasesFall(rows, rest) ==
  \A w \in Workers :
    rest[w].leased /\ rest[w].stage # "idle" =>
      /\ Busy(w) /\ worker[w].leased
      /\ rest[w].src = worker[w].src
      /\ rest[w].since = worker[w].since
      /\ rows[worker[w].src].claim = attempts[worker[w].src].claim

Fall == ClaimsFall(attempts') /\ LeasesFall(attempts', worker')

\* Clearing the leases of some rows, while one worker at most becomes idle.
LEMMA UnclaimFalls ==
  ASSUME TInv, NEW ids, NEW next \in Nat \cup {None}, NEW work \in [Workers -> Work],
         NEW rows, NEW rest, rows = Unclaimed(ids, next), rest = Evict(ids, work),
         \A w \in Workers : work[w].stage = "idle" \/ work[w] = worker[w]
  PROVE  ClaimsFall(rows) /\ LeasesFall(rows, rest)
<1>1. attempts \in Seq(Row)
  BY DEF TInv, TypeOK
<1>2. \A i \in DOMAIN attempts : /\ i \in ids => rows[i].claim = None
                                 /\ i \notin ids => rows[i].claim = attempts[i].claim
  BY <1>1, UnclaimedRows
<1>3. \A w \in Workers : /\ rest[w].stage = work[w].stage /\ rest[w].src = work[w].src
                         /\ rest[w].since = work[w].since
                         /\ rest[w].leased = (work[w].leased /\ work[w].src \notin ids)
  BY EvictType
<1>4. ASSUME NEW w \in Workers, rest[w].leased, rest[w].stage # "idle"
      PROVE  /\ Busy(w) /\ worker[w].leased
             /\ rest[w].src = worker[w].src
             /\ rest[w].since = worker[w].since
             /\ rows[worker[w].src].claim = attempts[worker[w].src].claim
  <2>1. work[w] = worker[w] /\ worker[w].leased /\ worker[w].src \notin ids
    BY <1>3, <1>4
  <2>2. Busy(w) /\ worker[w].src \in DOMAIN attempts
    BY <1>3, <1>4, <2>1 DEF Busy, TInv, WorksOnFailed
  <2> QED
    BY <1>2, <1>3, <2>1, <2>2
<1> QED
  BY <1>2, <1>4 DEF ClaimsFall, LeasesFall

LEMMA StopFalls ==
  ASSUME TInv, NEW kinds, StopScheduled(kinds)
  PROVE  SameChain /\ Fall
<1> DEFINE ids == {i \in DOMAIN attempts : /\ attempts[i].status = "failed"
                                           /\ attempts[i].next # None
                                           /\ attempts[i].kind \in kinds}
<1>1. attempts' = Unclaimed(ids, None) /\ worker' = Evict(ids, worker)
  BY DEF StopScheduled
<1>2. TypeOK /\ worker \in [Workers -> Work]
  BY DEF TInv, TypeOK
<1> HIDE DEF ids
<1>3. SameChain
  BY <1>2, StopRows
<1>4. Fall
  BY <1>1, <1>2, UnclaimFalls DEF Fall
<1> QED
  BY <1>3, <1>4

LEMMA ClearFalls ==
  ASSUME TInv, NEW w \in Workers, Busy(w), NEW next \in Nat \cup {None}, Clear(w, next)
  PROVE  SameChain /\ Fall
<1> DEFINE id == worker[w].src
           done == [worker EXCEPT ![w] = Idle]
<1>1. Idle \in Work /\ Idle.stage = "idle" /\ worker \in [Workers -> Work]
  BY DEF Idle, Work, Stages, TInv, TypeOK
<1>2. /\ done \in [Workers -> Work]
      /\ \A v \in Workers : done[v].stage = "idle" \/ done[v] = worker[v]
  BY <1>1
<1>3. attempts' = Unclaimed({id}, next) /\ worker' = Evict({id}, done)
  BY DEF Clear
<1> HIDE DEF id, done
<1>4. Fall
  BY <1>2, <1>3, UnclaimFalls DEF Fall
<1> QED
  BY <1>4, ClearWorks

LEMMA RecordFalls ==
  ASSUME TInv, NEW w \in Workers, RecordRetry(w)
  PROVE  Fall
<1>1. /\ \A i \in DOMAIN attempts :
           /\ i = worker[w].src => attempts'[i].claim = None
           /\ i # worker[w].src => attempts'[i].claim = attempts[i].claim
      /\ \A v \in Workers :
           worker'[v].leased =>
             /\ worker[v].leased /\ worker[v].src # worker[w].src
             /\ worker'[v].src = worker[v].src
             /\ worker'[v].stage = worker[v].stage
             /\ worker'[v].since = worker[v].since
  BY RecordRows
<1>2. \A v \in Workers : worker[v].stage # "idle" => Busy(v) /\ worker[v].src \in DOMAIN attempts
  BY DEF Busy, TInv, WorksOnFailed
<1>3. ClaimsFall(attempts')
  BY <1>1 DEF ClaimsFall
<1>4. LeasesFall(attempts', worker')
  BY <1>1, <1>2 DEF LeasesFall
<1> QED
  BY <1>3, <1>4 DEF Fall

\* Steps that leave rows and leases alone.
LEMMA StillFalls ==
  ASSUME TInv, UNCHANGED attempts,
         \A w \in Workers : \/ worker'[w].stage = "idle"
                            \/ worker'[w] = worker[w]
                            \/ /\ Busy(w)
                               /\ worker'[w].src = worker[w].src
                               /\ worker'[w].since = worker[w].since
                               /\ worker'[w].leased = worker[w].leased
  PROVE  SameChain /\ Fall
<1>1. SameChain /\ ClaimsFall(attempts')
  BY SameRows DEF TInv, ClaimsFall
<1>2. LeasesFall(attempts', worker')
  <2>1. SUFFICES ASSUME NEW w \in Workers, worker'[w].leased, worker'[w].stage # "idle"
                 PROVE  /\ Busy(w) /\ worker[w].leased
                        /\ worker'[w].src = worker[w].src
                        /\ worker'[w].since = worker[w].since
                        /\ attempts'[worker[w].src].claim = attempts[worker[w].src].claim
    BY DEF LeasesFall
  <2>2. CASE worker'[w] = worker[w]
    BY <2>1, <2>2 DEF Busy
  <2>3. CASE worker'[w] # worker[w]
    BY <2>1, <2>3
  <2> QED
    BY <2>2, <2>3
<1> QED
  BY <1>1, <1>2 DEF Fall

\* Chains only depend on what SameChain keeps.
LEMMA ChainKept ==
  ASSUME TInv, ChainIntegrity, SameChain
  PROVE  /\ ChainIntegrity'
         /\ \A id : HasSuccessor(id)' <=> HasSuccessor(id)
<1>1. /\ DOMAIN attempts' = DOMAIN attempts
      /\ \A i \in DOMAIN attempts :
           /\ attempts'[i].kind = attempts[i].kind
           /\ attempts'[i].status = attempts[i].status
           /\ attempts'[i].no = attempts[i].no
           /\ attempts'[i].retryOf = attempts[i].retryOf
  BY DEF SameChain, SameFields
<1>2. \A id : HasSuccessor(id)' <=> HasSuccessor(id)
  BY <1>1 DEF HasSuccessor
<1>3. ChainIntegrity'
  BY <1>1 DEF ChainIntegrity
<1> QED
  BY <1>2, <1>3

\* A row added at the end starts a chain, or extends one at its end.
LEMMA ChainGrows ==
  ASSUME TInv, ChainIntegrity, NEW row, OneMore(row),
         \/ row.retryOf = None
         \/ /\ row.retryOf \in DOMAIN attempts
            /\ ~HasSuccessor(row.retryOf)
            /\ attempts[row.retryOf].status = "failed"
            /\ row.kind = attempts[row.retryOf].kind
            /\ row.no = attempts[row.retryOf].no + 1
  PROVE  /\ ChainIntegrity'
         /\ \A id : HasSuccessor(id)' <=> (HasSuccessor(id) \/ id = row.retryOf)
<1> DEFINE n == Len(attempts)
<1>1. /\ n \in Nat
      /\ DOMAIN attempts = 1..n /\ DOMAIN attempts' = 1..(n + 1)
      /\ \A i \in 1..n :
           /\ attempts'[i].kind = attempts[i].kind
           /\ attempts'[i].status = attempts[i].status
           /\ attempts'[i].no = attempts[i].no
           /\ attempts'[i].retryOf = attempts[i].retryOf
      /\ attempts'[n + 1] = row
  BY DEF OneMore
<1> HIDE DEF n
<1>2. \A i \in 1..(n + 1) : i \in 1..n \/ i = n + 1
  BY <1>1
<1>3. 1..n \subseteq 1..(n + 1) /\ n + 1 \in 1..(n + 1) /\ n + 1 \notin 1..n
  BY <1>1
<1>4. \A id : HasSuccessor(id)' <=> (HasSuccessor(id) \/ id = row.retryOf)
  BY <1>1, <1>2, <1>3 DEF HasSuccessor
<1>5. ASSUME NEW i \in 1..n, attempts[i].retryOf # None
      PROVE  LET source == attempts[i].retryOf IN
             /\ source \in 1..n /\ source < i
             /\ attempts[source].status = "failed"
             /\ attempts[source].kind = attempts[i].kind
             /\ attempts[source].no + 1 = attempts[i].no
             /\ \A j \in 1..n : attempts[j].retryOf = source => j = i
             /\ row.retryOf # source
  BY <1>1, <1>5 DEF ChainIntegrity, HasSuccessor
<1>6. ASSUME NEW i \in 1..n, attempts'[i].retryOf # None
      PROVE  LET source == attempts'[i].retryOf IN
             /\ source \in 1..(n + 1) /\ source < i
             /\ attempts'[source].status = "failed"
             /\ attempts'[source].kind = attempts'[i].kind
             /\ attempts'[source].no + 1 = attempts'[i].no
             /\ \A j \in 1..(n + 1) : attempts'[j].retryOf = source => j = i
  <2>1. attempts[i].retryOf # None /\ attempts'[i].retryOf = attempts[i].retryOf
    BY <1>1, <1>6
  <2> QED
    BY <1>1, <1>2, <1>3, <1>5, <2>1
<1>7. ASSUME row.retryOf # None
      PROVE  LET source == row.retryOf IN
             /\ source \in 1..(n + 1) /\ source < n + 1
             /\ attempts'[source].status = "failed"
             /\ attempts'[source].kind = row.kind
             /\ attempts'[source].no + 1 = row.no
             /\ \A j \in 1..(n + 1) : attempts'[j].retryOf = source => j = n + 1
  <2>1. /\ row.retryOf \in 1..n
        /\ \A j \in 1..n : attempts[j].retryOf # row.retryOf
        /\ attempts[row.retryOf].status = "failed"
        /\ row.kind = attempts[row.retryOf].kind
        /\ row.no = attempts[row.retryOf].no + 1
    BY <1>1, <1>7 DEF HasSuccessor
  <2>2. row.retryOf < n + 1
    BY <1>1, <2>1
  <2> QED
    BY <1>1, <1>2, <1>3, <2>1, <2>2
<1>8. ChainIntegrity'
  <2>1. SUFFICES ASSUME NEW i \in DOMAIN attempts', attempts'[i].retryOf # None
                 PROVE  LET source == attempts'[i].retryOf IN
                        /\ source \in DOMAIN attempts' /\ source < i
                        /\ attempts'[source].status = "failed"
                        /\ attempts'[source].kind = attempts'[i].kind
                        /\ attempts'[source].no + 1 = attempts'[i].no
                        /\ \A j \in DOMAIN attempts' : attempts'[j].retryOf = source => j = i
    BY DEF ChainIntegrity
  <2>2. CASE i \in 1..n
    BY <1>1, <1>6, <2>1, <2>2
  <2>3. CASE i = n + 1
    BY <1>1, <1>7, <2>1, <2>3
  <2> QED
    BY <1>1, <1>2, <2>1, <2>2, <2>3
<1> QED
  BY <1>4, <1>8


\* The steps that claim a row: an operator's, at the present time, and the
\* maintenance pass's, at the time of the pass.
ClaimStep(w, id, t) ==
  /\ \/ w \in Operators /\ t = now /\ UNCHANGED pass
     \/ /\ w = Maintenance /\ t = pass.now
        /\ pass.phase = "retries" /\ pass' = [pass EXCEPT !.due = @ \ {id}]
  /\ ~Busy(w)
  /\ \E requireDue \in BOOLEAN : Claimable(id, t, requireDue)
  /\ Claim(w, id, t)
  /\ UNCHANGED now

\* Every other step adds a row, or leaves the chains and lets leases fall.
LEMMA StepKinds ==
  ASSUME TInv, [Next]_vars
  PROVE  \/ SameChain /\ Fall
         \/ \E w \in Workers : \E id \in DOMAIN attempts : ClaimStep(w, id, now)
         \/ \E id \in DOMAIN attempts : ClaimStep(Maintenance, id, pass.now)
         \/ \E w \in Workers : RecordRetry(w)
         \/ FirstAttempt
<1>1. TypeOK /\ now \in Nat /\ now + 1 \in Nat
  BY DEF TInv, TypeOK
<1>2. ASSUME UNCHANGED <<attempts, worker>> PROVE SameChain /\ Fall
  BY <1>2, StillFalls
<1>3. CASE UNCHANGED vars
  BY <1>2, <1>3 DEF vars
<1>4. ASSUME NEW w \in Operators, RetryAttempt(w)
      PROVE  \E id \in DOMAIN attempts : ClaimStep(w, id, now)
  BY <1>4 DEF RetryAttempt, ClaimStep
<1>5. ASSUME NEW w \in Workers, WorkerStep(w) \/ Abandon(w), ~RecordRetry(w)
      PROVE  SameChain /\ Fall
  <2>1. ASSUME NEW stage \in Stages, Busy(w), GoTo(w, stage), UNCHANGED attempts
        PROVE  SameChain /\ Fall
    <3>1. worker \in [Workers -> Work] /\ worker[w] \in Work
      BY <1>1 DEF TypeOK
    <3>2. /\ worker'[w] = [worker[w] EXCEPT !.stage = stage]
          /\ \A v \in Workers \ {w} : worker'[v] = worker[v]
      BY <1>1, <2>1, GoToType
    <3>3. /\ worker'[w].src = worker[w].src /\ worker'[w].since = worker[w].since
          /\ worker'[w].leased = worker[w].leased
      BY <3>1, <3>2 DEF Work
    <3> QED
      BY <2>1, <3>2, <3>3, StillFalls
  <2>2. CASE CheckMonitor(w)
    BY <2>1, <2>2 DEF CheckMonitor, Busy, Stages
  <2>3. CASE CheckChannel(w)
    BY <2>1, <2>3 DEF CheckChannel, Busy, Stages
  <2>4. CASE Answer(w)
    <3>1. PICK sent \in BOOLEAN :
            worker' = [worker EXCEPT ![w].stage = "answered", ![w].sent = sent]
      BY <2>4 DEF Answer
    <3>2. worker \in [Workers -> Work] /\ worker[w] \in Work
      BY <1>1 DEF TypeOK
    <3>3. /\ worker'[w].src = worker[w].src /\ worker'[w].since = worker[w].since
          /\ worker'[w].leased = worker[w].leased
      BY <3>1, <3>2 DEF Work
    <3>4. \A v \in Workers \ {w} : worker'[v] = worker[v]
      BY <3>1, <3>2
    <3>5. Busy(w) /\ UNCHANGED attempts
      BY <2>4 DEF Answer, Busy
    <3> QED
      BY <3>3, <3>4, <3>5, StillFalls
  <2>5. CASE RecordConflict(w)
    BY <2>1, <2>5 DEF RecordConflict, Busy, Stages
  <2>6. CASE CancelOrStop(w)
    BY <2>6, ClearFalls DEF CancelOrStop, Clear, Busy
  <2>7. CASE Release(w)
    BY <1>1, <2>7, ClearFalls DEF Release, Clear, Busy
  <2>8. CASE Abandon(w)
    <3>1. worker' = [worker EXCEPT ![w] = Idle] /\ UNCHANGED attempts
      BY <2>8 DEF Abandon
    <3>2. worker'[w].stage = "idle" /\ \A v \in Workers \ {w} : worker'[v] = worker[v]
      BY <1>1, <3>1 DEF TypeOK, Idle
    <3> QED
      BY <3>1, <3>2, StillFalls
  <2> QED
    BY <1>5, <2>2, <2>3, <2>4, <2>5, <2>6, <2>7, <2>8 DEF WorkerStep
<1>6. CASE PassStep
  <2>1. CASE ClaimDue
    <3>1. PICK id \in pass.due : /\ Claimable(id, pass.now, TRUE)
                                 /\ Claim(Maintenance, id, pass.now)
                                 /\ pass' = [pass EXCEPT !.due = @ \ {id}]
      BY <2>1 DEF ClaimDue
    <3>2. id \in DOMAIN attempts
      BY <1>1 DEF TypeOK
    <3>3. ClaimStep(Maintenance, id, pass.now)
      BY <2>1, <3>1 DEF ClaimDue, ClaimStep
    <3> QED
      BY <3>2, <3>3
  <2> QED
    BY <1>2, <1>6, <2>1 DEF PassStep, StartPass, ListDue, SkipDue, EndPass
<1>7. ASSUME SenderStep, ~FirstAttempt PROVE SameChain /\ Fall
  <2>1. CASE StopOpposite
    BY <1>2, <2>1, StopFalls DEF StopOpposite
  <2> QED
    BY <1>2, <1>7, <2>1 DEF SenderStep, StartDelivery, StartTest, OpenIncident, CloseIncident
<1>8. CASE ConfigStep
  BY <1>2, <1>8, StopFalls DEF ConfigStep, ArchiveMonitor, ArchiveChannel, SwitchChannel, ResetIncident
<1>9. CASE Restart
  <2>1. PICK ids : attempts' = Unclaimed(ids, None)
    BY <1>9 DEF Restart
  <2>2. SameChain
    BY <1>1, <2>1, UnclaimedRows DEF SameChain, TypeOK
  <2>3. ClaimsFall(attempts')
    <3>1. attempts \in Seq(Row) /\ None \in Nat \cup {None}
      BY <1>1 DEF TypeOK
    <3>2. \A i \in DOMAIN attempts : /\ i \in ids => attempts'[i].claim = None
                                     /\ i \notin ids => attempts'[i].claim = attempts[i].claim
      BY <2>1, <3>1, UnclaimedRows
    <3> QED
      BY <3>2 DEF ClaimsFall
  <2>4. worker' = [w \in Workers |-> Idle] /\ Idle.stage = "idle"
    BY <1>9 DEF Restart, Idle
  <2>5. LeasesFall(attempts', worker')
    BY <2>4 DEF LeasesFall
  <2> QED
    BY <2>2, <2>3, <2>5 DEF Fall
<1>10. CASE Tick
  BY <1>2, <1>10 DEF Tick
<1> QED
  BY <1>3, <1>4, <1>5, <1>6, <1>7, <1>8, <1>9, <1>10 DEF Next, Workers

CInv == TInv /\ ChainIntegrity /\ SupersededUnclaimed

\* A claim leaves the chains alone, and never leases a superseded row.
LEMMA ClaimChains ==
  ASSUME CInv, NEW w \in Workers, NEW id \in DOMAIN attempts, NEW t \in Nat, ClaimStep(w, id, t)
  PROVE  ChainIntegrity' /\ SupersededUnclaimed' /\ SameChain /\ ~HasSuccessor(id)
<1>1. TypeOK /\ ~HasSuccessor(id) /\ Claim(w, id, t)
  BY DEF CInv, TInv, ClaimStep, Claimable
<1>2. SameChain /\ LeasedAt(id, t)
  BY <1>1, ClaimRows
<1>3. ChainIntegrity' /\ \A i : HasSuccessor(i)' <=> HasSuccessor(i)
  BY <1>2, ChainKept DEF CInv
<1>4. DOMAIN attempts' = DOMAIN attempts
  BY <1>2 DEF SameChain, SameFields
<1>5. SupersededUnclaimed'
  BY <1>1, <1>2, <1>3, <1>4 DEF CInv, SupersededUnclaimed, LeasedAt
<1> QED
  BY <1>1, <1>2, <1>3, <1>5

\* Recording a retry supersedes its source, which nobody has superseded, and
\* takes the lease of the source away with the same statement.
LEMMA RecordChains ==
  ASSUME CInv, NEW w \in Workers, RecordRetry(w)
  PROVE  /\ ChainIntegrity' /\ SupersededUnclaimed'
         /\ \A id : HasSuccessor(id)' <=> (HasSuccessor(id) \/ id = worker[w].src)
<1> DEFINE id == worker[w].src
           row == NewRow(attempts[id].kind, worker[w].sent, attempts[id].no + 1, id)
<1>1. TInv /\ ~HasSuccessor(id)
  BY DEF CInv, RecordRetry
<1>2. /\ id \in DOMAIN attempts /\ attempts[id].status = "failed"
      /\ OneMore(row)
      /\ row.kind = attempts[id].kind /\ row.no = attempts[id].no + 1
      /\ row.claim = None /\ row.retryOf = id
      /\ \A i \in DOMAIN attempts : /\ i = id => attempts'[i].claim = None
                                    /\ i # id => attempts'[i].claim = attempts[i].claim
  BY <1>1, RecordRows
<1> HIDE DEF row, id
<1>3. ChainIntegrity' /\ \A i : HasSuccessor(i)' <=> (HasSuccessor(i) \/ i = id)
  BY <1>1, <1>2, ChainGrows DEF CInv
<1>4. /\ Len(attempts) \in Nat /\ DOMAIN attempts = 1..Len(attempts)
      /\ DOMAIN attempts' = 1..(Len(attempts) + 1) /\ attempts'[Len(attempts) + 1] = row
  BY <1>2 DEF OneMore
<1>5. \A i \in DOMAIN attempts' : i \in DOMAIN attempts \/ i = Len(attempts) + 1
  BY <1>4
<1>6. SupersededUnclaimed'
  BY <1>2, <1>3, <1>4, <1>5 DEF CInv, SupersededUnclaimed
<1> QED
  BY <1>3, <1>6 DEF id

\* A first attempt starts a chain of its own.
LEMMA FirstChains ==
  ASSUME CInv, FirstAttempt
  PROVE  /\ ChainIntegrity' /\ SupersededUnclaimed'
         /\ \A id \in Nat : HasSuccessor(id)' <=> HasSuccessor(id)
<1>1. TInv /\ TypeOK
  BY DEF CInv, TInv
<1>2. CASE SameChain /\ UNCHANGED attempts
  BY <1>1, <1>2, ChainKept DEF CInv, SupersededUnclaimed
<1>3. ASSUME NEW row \in Row, OneMore(row), row.retryOf = None, row.claim = None,
             \A i \in DOMAIN attempts : attempts'[i] = attempts[i]
      PROVE  /\ ChainIntegrity' /\ SupersededUnclaimed'
             /\ \A id \in Nat : HasSuccessor(id)' <=> HasSuccessor(id)
  <2>1. ChainIntegrity' /\ \A i : HasSuccessor(i)' <=> (HasSuccessor(i) \/ i = None)
    BY <1>1, <1>3, ChainGrows DEF CInv
  <2>2. /\ Len(attempts) \in Nat /\ DOMAIN attempts = 1..Len(attempts)
        /\ DOMAIN attempts' = 1..(Len(attempts) + 1) /\ attempts'[Len(attempts) + 1] = row
    BY <1>3 DEF OneMore
  <2>3. \A i \in DOMAIN attempts' : i \in DOMAIN attempts \/ i = Len(attempts) + 1
    BY <2>2
  <2>4. \A i \in DOMAIN attempts' : i \in Nat
    BY <2>2
  <2>5. \A i \in Nat : HasSuccessor(i)' <=> HasSuccessor(i)
    BY <2>1, NoneAssumption
  <2>6. SupersededUnclaimed'
    BY <1>3, <2>2, <2>3, <2>4, <2>5 DEF CInv, SupersededUnclaimed
  <2> QED
    BY <2>1, <2>5, <2>6
<1> QED
  BY <1>1, <1>2, <1>3, FirstRows


LEMMA ChainsInit == Init => CInv
<1>1. ASSUME Init PROVE DOMAIN attempts = {}
  BY <1>1 DEF Init
<1> QED
  BY <1>1, TypesInit DEF CInv, ChainIntegrity, SupersededUnclaimed

LEMMA ChainsStep == CInv /\ [Next]_vars => CInv'
<1>1. SUFFICES ASSUME CInv, [Next]_vars PROVE ChainIntegrity' /\ SupersededUnclaimed'
  BY TypesStep DEF CInv
<1>2. TInv /\ now \in Nat /\ pass.now \in Nat /\ Maintenance \in Workers
  BY <1>1 DEF CInv, TInv, TypeOK, Workers
<1>3. CASE SameChain /\ Fall
  <2>1. ChainIntegrity' /\ \A i : HasSuccessor(i)' <=> HasSuccessor(i)
    BY <1>1, <1>2, <1>3, ChainKept DEF CInv
  <2>2. DOMAIN attempts' = DOMAIN attempts /\ ClaimsFall(attempts')
    BY <1>3 DEF SameChain, SameFields, Fall
  <2>3. SupersededUnclaimed'
    BY <1>1, <2>1, <2>2 DEF CInv, SupersededUnclaimed, ClaimsFall
  <2> QED
    BY <2>1, <2>3
<1> QED
  BY <1>1, <1>2, <1>3, StepKinds, ClaimChains, RecordChains, FirstChains

\* Whatever operators, passes, crashes and failing statements do, retries of a
\* notification form one chain of attempts: CreateNotificationAttempt tests and
\* writes in one transaction.
THEOREM ChainsCorrect == Spec => []ChainIntegrity
BY ChainsInit, ChainsStep, PTL DEF Spec, CInv

\* A superseded source holds no lease: the transaction that creates its
\* successor takes the lease away, and a claim asks for a row without one.
THEOREM SourcesUnclaimed == Spec => []SupersededUnclaimed
BY ChainsInit, ChainsStep, PTL DEF Spec, CInv

-----------------------------------------------------------------------------
(* Leases.                                                                 *)

\* What the lease of a worker says, as long as it is the worker's: an operator
\* stamped it with the time of its claim, the pass with the time of the pass.
HoldsLease(w) ==
  /\ ~HasSuccessor(worker[w].src)
  /\ now <= worker[w].since + MaxHold
  /\ w \in Operators => attempts[worker[w].src].claim = worker[w].since
  /\ w = Maintenance => /\ pass.phase = "retries"
                        /\ \/ attempts[worker[w].src].claim = pass.now
                           \/ pass.now + Lease <= now

PassTimes == pass.phase # "off" => pass.now <= now

LInv ==
  /\ CInv
  /\ PassTimes
  /\ \A w \in Workers : Busy(w) /\ worker[w].leased => HoldsLease(w)
  /\ OnlyLatePassOvertaken

\* A lease that says so covers its worker, if it is longer than a retry.
LEMMA HeldLeaseCovers ==
  ASSUME LInv, MaxHold < Lease
  PROVE  LeaseCovers
<1>1. SUFFICES ASSUME NEW w \in Workers, Busy(w), worker[w].leased
               PROVE  /\ worker[w].src \in DOMAIN attempts
                      /\ attempts[worker[w].src].status = "failed"
                      /\ ~HasSuccessor(worker[w].src)
                      /\ \/ w = Maintenance /\ PassOutlastsLease
                         \/ /\ attempts[worker[w].src].claim # None
                            /\ now < attempts[worker[w].src].claim + Lease
  BY DEF LeaseCovers
<1>2. /\ worker[w].src \in DOMAIN attempts /\ attempts[worker[w].src].status = "failed"
      /\ worker[w].since \in Nat /\ now \in Nat /\ pass.now \in Nat
      /\ Lease \in Nat /\ MaxHold \in Nat
  BY <1>1, TimeAssumption DEF LInv, CInv, TInv, WorksOnFailed, TypeOK, Work
<1>3. HoldsLease(w) /\ PassTimes
  BY <1>1 DEF LInv
<1>4. CASE w \in Operators
  BY <1>2, <1>3, <1>4, NoneAssumption DEF HoldsLease
<1>5. CASE w = Maintenance
  <2>1. pass.phase = "retries"
    BY <1>3, <1>5 DEF HoldsLease
  <2>2. CASE pass.now + Lease <= now
    BY <1>2, <1>3, <1>5, <2>1, <2>2 DEF HoldsLease, PassOutlastsLease
  <2>3. CASE ~(pass.now + Lease <= now)
    BY <1>2, <1>3, <1>5, <2>1, <2>3, NoneAssumption DEF HoldsLease
  <2> QED
    BY <2>2, <2>3
<1> QED
  BY <1>4, <1>5 DEF Workers

\* A row can be claimed only when no worker holds its lease, or when the pass
\* holds it and has outlasted it.
LEMMA ClaimAlone ==
  ASSUME LInv, MaxHold < Lease, NEW v \in Workers,
         NEW w \in Workers, NEW id \in DOMAIN attempts, NEW t \in Nat, ClaimStep(w, id, t),
         Busy(v), worker[v].leased, worker[v].src = id
  PROVE  v = Maintenance /\ PassOutlastsLease
<1>1. SUFFICES ASSUME ~(v = Maintenance /\ PassOutlastsLease) PROVE FALSE
  OBVIOUS
<1>2. /\ attempts[id].claim # None /\ now < attempts[id].claim + Lease
      /\ now \in Nat /\ Lease \in Nat /\ attempts[id] \in Row
  <2>1. attempts \in Seq(Row) /\ now \in Nat
    BY DEF LInv, CInv, TInv, TypeOK
  <2>2. attempts[id] \in Row
    BY <2>1, LenProperties, ElementOfSeq
  <2> QED
    BY <1>1, <2>1, <2>2, HeldLeaseCovers, TimeAssumption DEF LeaseCovers
<1>3. t <= now
  BY <1>2 DEF ClaimStep, LInv, PassTimes
<1>4. attempts[id].claim + Lease <= t
  BY <1>2 DEF ClaimStep, Claimable
<1> QED
  BY <1>2, <1>3, <1>4 DEF Row


\* Time passes only while nobody has run out of it, and nothing else happens.
LEMMA Clock ==
  ASSUME [Next]_vars
  PROVE  \/ UNCHANGED now
         \/ /\ now' = now + 1 /\ UNCHANGED <<attempts, worker, pass>>
            /\ \A w \in Workers : Busy(w) => now < worker[w].since + MaxHold
<1>1. CASE Tick
  BY <1>1 DEF Tick
<1>2. CASE \E w \in Workers : WorkerStep(w) \/ Abandon(w)
  BY <1>2 DEF WorkerStep, CheckMonitor, CheckChannel, Answer, RecordRetry,
              RecordConflict, CancelOrStop, Release, Abandon
<1>3. CASE PassStep
  BY <1>3 DEF PassStep, StartPass, ListDue, ClaimDue, SkipDue, EndPass
<1>4. CASE SenderStep
  BY <1>4 DEF SenderStep, StartDelivery, StartTest, OpenIncident, CloseIncident,
              StopOpposite, FirstAttempt
<1>5. CASE ConfigStep \/ Restart
  BY <1>5 DEF ConfigStep, ArchiveMonitor, ArchiveChannel, SwitchChannel, ResetIncident, Restart
<1>6. CASE \E w \in Operators : RetryAttempt(w)
  BY <1>6 DEF RetryAttempt
<1>7. CASE UNCHANGED vars
  BY <1>7 DEF vars
<1> QED
  BY <1>1, <1>2, <1>3, <1>4, <1>5, <1>6, <1>7 DEF Next

\* Only the pass, and a restart, touch the pass; it waits for its retry.
LEMMA PassMoves ==
  ASSUME [Next]_vars
  PROVE  PassStep \/ Restart \/ UNCHANGED pass
<1>1. CASE \E w \in Workers : WorkerStep(w) \/ Abandon(w)
  BY <1>1 DEF WorkerStep, CheckMonitor, CheckChannel, Answer, RecordRetry,
              RecordConflict, CancelOrStop, Release, Abandon
<1>2. CASE SenderStep
  BY <1>2 DEF SenderStep, StartDelivery, StartTest, OpenIncident, CloseIncident,
              StopOpposite, FirstAttempt
<1>3. CASE ConfigStep \/ Tick
  BY <1>3 DEF ConfigStep, ArchiveMonitor, ArchiveChannel, SwitchChannel, ResetIncident, Tick
<1>4. CASE \E w \in Operators : RetryAttempt(w)
  BY <1>4 DEF RetryAttempt
<1>5. CASE UNCHANGED vars
  BY <1>5 DEF vars
<1> QED
  BY <1>1, <1>2, <1>3, <1>4, <1>5 DEF Next

LEMMA PassWaits ==
  ASSUME [Next]_vars, Busy(Maintenance), pass.phase = "retries"
  PROVE  UNCHANGED pass \/ worker'[Maintenance].stage = "idle"
<1>1. CASE Restart
  <2>1. worker' = [w \in Workers |-> Idle] /\ Idle.stage = "idle" /\ Maintenance \in Workers
    BY <1>1 DEF Restart, Idle, Workers
  <2> QED
    BY <2>1
<1>2. ~PassStep
  BY DEF PassStep, StartPass, ListDue, ClaimDue, SkipDue, EndPass
<1> QED
  BY <1>1, <1>2, PassMoves

LEMMA PassTimesStep ==
  ASSUME TInv, PassTimes, [Next]_vars
  PROVE  PassTimes'
<1>1. /\ now \in Nat /\ pass.now \in Nat
      /\ pass \in [phase : {"off", "outbox", "retries"}, now : Nat, due : SUBSET Nat]
  BY DEF TInv, TypeOK
<1>2. CASE UNCHANGED now
  <2> DEFINE Moves == \/ UNCHANGED pass
                      \/ pass'.phase = "off"
                      \/ pass'.now = now
                      \/ pass.phase # "off" /\ pass'.now = pass.now
  <2>1. ASSUME StartPass PROVE Moves
    BY <2>1 DEF StartPass
  <2>2. ASSUME ListDue PROVE Moves
    <3>1. pass' = [pass EXCEPT !.phase = "retries", !.due = Due(pass.now)]
          => pass'.now = pass.now
      BY <1>1
    <3>2. pass' = NoPass => pass'.phase = "off"
      BY DEF NoPass
    <3> QED
      BY <2>2, <3>1, <3>2 DEF ListDue
  <2>3. ASSUME ClaimDue PROVE Moves
    BY <1>1, <2>3 DEF ClaimDue
  <2>4. ASSUME SkipDue PROVE Moves
    BY <1>1, <2>4 DEF SkipDue
  <2>5. ASSUME EndPass \/ Restart PROVE Moves
    BY <2>5 DEF EndPass, Restart, NoPass
  <2>6. ASSUME UNCHANGED pass PROVE Moves
    BY <2>6
  <2> HIDE DEF Moves
  <2>7. Moves
    BY <2>1, <2>2, <2>3, <2>4, <2>5, <2>6, PassMoves DEF PassStep
  <2> QED
    BY <1>1, <1>2, <2>7 DEF PassTimes, Moves
<1>3. CASE now' = now + 1 /\ UNCHANGED pass
  BY <1>1, <1>3 DEF PassTimes
<1> QED
  BY <1>2, <1>3, Clock

\* The leases that remain say what they said.
LEMMA HeldStep ==
  ASSUME LInv, [Next]_vars, LeasesFall(attempts', worker'),
         \A w \in Workers : worker'[w].leased /\ worker'[w].stage # "idle" =>
                              ~HasSuccessor(worker[w].src)'
  PROVE  /\ \A w \in Workers : (Busy(w) /\ worker[w].leased => HoldsLease(w))'
         /\ OnlyLatePassOvertaken'
<1>0. /\ now \in Nat /\ pass.now \in Nat /\ Lease \in Nat
      /\ now' = now \/ now' = now + 1
  BY TimeAssumption, Clock DEF LInv, CInv, TInv, TypeOK
<1>1. ASSUME NEW w \in Workers, worker'[w].leased, worker'[w].stage # "idle"
      PROVE  HoldsLease(w)'
  <2>1. /\ Busy(w) /\ worker[w].leased
        /\ worker'[w].src = worker[w].src /\ worker'[w].since = worker[w].since
        /\ attempts'[worker[w].src].claim = attempts[worker[w].src].claim
    BY <1>1 DEF LeasesFall
  <2>2. HoldsLease(w)
    BY <2>1 DEF LInv
  <2>3. ~HasSuccessor(worker[w].src)'
    BY <1>1
  <2>4. ~HasSuccessor(worker[w].src)' <=> ~\E i \in DOMAIN attempts' : attempts'[i].retryOf = worker'[w].src
    BY <2>1 DEF HasSuccessor
  <2>5. now' <= worker'[w].since + MaxHold
    <3>1. now \in Nat /\ worker[w].since \in Nat /\ MaxHold \in Nat
      BY TimeAssumption DEF LInv, CInv, TInv, TypeOK, Work
    <3> QED
      BY <2>1, <2>2, <3>1, Clock DEF HoldsLease
  <2>6. CASE w \in Operators
    BY <2>1, <2>2, <2>3, <2>4, <2>5, <2>6, WorkersAssumption DEF HoldsLease, HasSuccessor
  <2>7. CASE w = Maintenance
    <3>1. UNCHANGED pass
      BY <1>1, <2>1, <2>2, <2>7, PassWaits DEF HoldsLease
    <3>2. /\ pass'.phase = "retries"
          /\ \/ attempts'[worker'[w].src].claim = pass'.now
             \/ pass'.now + Lease <= now'
      BY <1>0, <2>1, <2>2, <2>7, <3>1 DEF HoldsLease
    <3> QED
      BY <2>1, <2>3, <2>4, <2>5, <2>7, <3>2, WorkersAssumption DEF HoldsLease, HasSuccessor
  <2> QED
    BY <2>6, <2>7 DEF Workers
<1>2. OnlyLatePassOvertaken'
  <2>1. SUFFICES ASSUME NEW v \in Workers, NEW w \in Workers, v # w,
                        worker'[v].stage # "idle", worker'[v].leased,
                        worker'[w].stage # "idle", worker'[w].leased,
                        worker'[v].src = worker'[w].src
                 PROVE  Maintenance \in {v, w} /\ pass'.phase = "retries" /\ pass'.now + Lease <= now'
    BY DEF OnlyLatePassOvertaken, BothRetry, Busy, PassOutlastsLease
  <2>2. BothRetry(v, w)
    BY <2>1 DEF LeasesFall, BothRetry
  <2>3. Maintenance \in {v, w} /\ pass.phase = "retries" /\ pass.now + Lease <= now
    BY <2>1, <2>2 DEF LInv, OnlyLatePassOvertaken, PassOutlastsLease
  <2>4. Busy(Maintenance) /\ worker'[Maintenance].stage # "idle"
    BY <2>1, <2>2, <2>3 DEF BothRetry
  <2>5. UNCHANGED pass
    BY <2>3, <2>4, PassWaits
  <2> QED
    BY <1>0, <2>3, <2>5
<1> QED
  BY <1>1, <1>2 DEF Busy


LEMMA ClaimHolds ==
  ASSUME LInv, MaxHold < Lease, [Next]_vars, NEW w \in Workers,
         NEW id \in DOMAIN attempts, NEW t \in Nat, ClaimStep(w, id, t)
  PROVE  /\ \A v \in Workers : (Busy(v) /\ worker[v].leased => HoldsLease(v))'
         /\ OnlyLatePassOvertaken'
<1>1. /\ CInv /\ TInv /\ TypeOK /\ ChainIntegrity
      /\ now \in Nat /\ MaxHold \in Nat /\ Claim(w, id, t) /\ UNCHANGED now
      /\ \/ w \in Operators /\ t = now /\ UNCHANGED pass
         \/ /\ w = Maintenance /\ t = pass.now
            /\ pass.phase = "retries" /\ pass' = [pass EXCEPT !.due = @ \ {id}]
  BY TimeAssumption DEF LInv, CInv, TInv, TypeOK, ClaimStep
<1>2. /\ SameChain /\ LeasedAt(id, t)
      /\ worker'[w] = [stage |-> "claimed", src |-> id, since |-> now,
                       sent |-> FALSE, leased |-> TRUE]
      /\ \A v \in Workers \ {w} : worker'[v] = worker[v]
  BY <1>1, ClaimRows
<1>3. ~HasSuccessor(id) /\ \A i : HasSuccessor(i)' <=> HasSuccessor(i)
  BY <1>1, <1>2, ChainKept, ClaimChains
<1>4. \A v \in Workers : Busy(v) /\ worker[v].leased /\ worker[v].src = id
                          => v = Maintenance /\ PassOutlastsLease
  BY ClaimAlone
<1>5. pass'.now = pass.now /\ pass'.phase = pass.phase
  <2>1. pass \in [phase : {"off", "outbox", "retries"}, now : Nat, due : SUBSET Nat]
    BY <1>1 DEF TypeOK
  <2> QED
    BY <1>1, <2>1
<1>6. \A i : ~HasSuccessor(i)' => ~\E j \in DOMAIN attempts' : attempts'[j].retryOf = i
  BY DEF HasSuccessor
<1>7. HoldsLease(w)'
  <2>1. /\ ~\E j \in DOMAIN attempts' : attempts'[j].retryOf = worker'[w].src
        /\ attempts'[worker'[w].src].claim = t
        /\ now' <= worker'[w].since + MaxHold
    BY <1>1, <1>2, <1>3, <1>6 DEF LeasedAt
  <2>2. w \in Operators => attempts'[worker'[w].src].claim = worker'[w].since
    BY <1>1, <1>2, <2>1, WorkersAssumption
  <2>3. w = Maintenance => pass'.phase = "retries" /\ attempts'[worker'[w].src].claim = pass'.now
    BY <1>1, <1>5, <2>1, WorkersAssumption
  <2> QED
    BY <2>1, <2>2, <2>3 DEF HoldsLease, HasSuccessor
<1>8. ASSUME NEW v \in Workers \ {w}, worker'[v].stage # "idle", worker'[v].leased
      PROVE  HoldsLease(v)' /\ (worker'[v].src = id => v = Maintenance /\ PassOutlastsLease)
  <2>1. Busy(v) /\ worker[v].leased /\ worker'[v] = worker[v]
    BY <1>2, <1>8 DEF Busy
  <2>2. HoldsLease(v) /\ worker[v].src \in DOMAIN attempts
    BY <1>1, <2>1 DEF LInv, TInv, WorksOnFailed
  <2>3. ~\E j \in DOMAIN attempts' : attempts'[j].retryOf = worker'[v].src
    BY <1>3, <1>6, <2>1, <2>2 DEF HoldsLease
  <2>4. CASE worker[v].src # id
    <3>1. attempts'[worker'[v].src].claim = attempts[worker[v].src].claim
      BY <1>2, <2>1, <2>2, <2>4 DEF LeasedAt
    <3> QED
      BY <1>1, <1>5, <2>1, <2>2, <2>3, <2>4, <3>1 DEF HoldsLease, HasSuccessor
  <2>5. CASE worker[v].src = id
    <3>1. v = Maintenance /\ PassOutlastsLease
      BY <1>4, <2>1, <2>5
    <3> QED
      BY <1>1, <1>5, <2>1, <2>2, <2>3, <3>1, WorkersAssumption
      DEF HoldsLease, HasSuccessor, PassOutlastsLease
  <2> QED
    BY <2>4, <2>5
<1>9. OnlyLatePassOvertaken'
  <2>1. SUFFICES ASSUME NEW u \in Workers, NEW v \in Workers, u # v,
                        worker'[u].stage # "idle", worker'[u].leased,
                        worker'[v].stage # "idle", worker'[v].leased,
                        worker'[u].src = worker'[v].src
                 PROVE  Maintenance \in {u, v} /\ PassOutlastsLease
    BY <1>1, <1>5 DEF OnlyLatePassOvertaken, BothRetry, Busy, PassOutlastsLease
  <2>2. worker'[w].src = id
    BY <1>2
  <2>3. CASE u = w
    BY <1>8, <2>1, <2>2, <2>3
  <2>4. CASE v = w
    BY <1>8, <2>1, <2>2, <2>4
  <2>5. CASE u # w /\ v # w
    <3>1. BothRetry(u, v)
      BY <1>2, <2>1, <2>5 DEF BothRetry, Busy
    <3> QED
      BY <2>1, <3>1 DEF LInv, OnlyLatePassOvertaken
  <2> QED
    BY <2>3, <2>4, <2>5
<1> QED
  BY <1>7, <1>8, <1>9 DEF Busy

LEMMA LeasesInit == Init => LInv
<1>1. ASSUME Init PROVE /\ \A w \in Workers : worker[w].stage = "idle"
                        /\ pass.phase = "off"
  BY <1>1 DEF Init, Idle, NoPass
<1> QED
  BY <1>1, ChainsInit DEF LInv, PassTimes, OnlyLatePassOvertaken, BothRetry, Busy

LEMMA LeasesStep ==
  ASSUME MaxHold < Lease
  PROVE  LInv /\ [Next]_vars => LInv'
<1>1. SUFFICES ASSUME LInv, [Next]_vars
               PROVE  /\ \A w \in Workers : (Busy(w) /\ worker[w].leased => HoldsLease(w))'
                      /\ OnlyLatePassOvertaken'
  BY ChainsStep, PassTimesStep DEF LInv, CInv
<1>2. CInv /\ TInv /\ WorksOnFailed /\ now \in Nat /\ pass.now \in Nat /\ Maintenance \in Workers
  BY <1>1 DEF LInv, CInv, TInv, TypeOK, Workers
<1>3. \A w \in Workers : Busy(w) /\ worker[w].leased => ~HasSuccessor(worker[w].src)
  BY <1>1 DEF LInv, HoldsLease
<1>4. CASE SameChain /\ Fall
  <2>1. \A i : HasSuccessor(i)' <=> HasSuccessor(i)
    BY <1>2, <1>4, ChainKept DEF CInv
  <2>2. LeasesFall(attempts', worker')
    BY <1>4 DEF Fall
  <2>3. \A w \in Workers : worker'[w].leased /\ worker'[w].stage # "idle" =>
                             ~HasSuccessor(worker[w].src)'
    BY <1>3, <2>1, <2>2 DEF LeasesFall
  <2> QED
    BY <1>1, <2>2, <2>3, HeldStep
<1>5. ASSUME NEW w \in Workers, NEW id \in DOMAIN attempts, NEW t \in Nat, ClaimStep(w, id, t)
      PROVE  /\ \A v \in Workers : (Busy(v) /\ worker[v].leased => HoldsLease(v))'
             /\ OnlyLatePassOvertaken'
  BY <1>1, <1>5, ClaimHolds
<1>6. ASSUME NEW w \in Workers, RecordRetry(w)
      PROVE  /\ \A v \in Workers : (Busy(v) /\ worker[v].leased => HoldsLease(v))'
             /\ OnlyLatePassOvertaken'
  <2>1. LeasesFall(attempts', worker')
    BY <1>2, <1>6, RecordFalls DEF Fall
  <2>2. \A id : HasSuccessor(id)' <=> (HasSuccessor(id) \/ id = worker[w].src)
    BY <1>2, <1>6, RecordChains
  <2>3. \A v \in Workers : worker'[v].leased => worker[v].src # worker[w].src
    BY <1>2, <1>6, RecordRows
  <2>4. \A v \in Workers : worker'[v].leased /\ worker'[v].stage # "idle" =>
                             ~HasSuccessor(worker[v].src)'
    BY <1>3, <2>1, <2>2, <2>3 DEF LeasesFall
  <2> QED
    BY <1>1, <2>1, <2>4, HeldStep
<1>7. CASE FirstAttempt
  <2>1. UNCHANGED worker /\ \A id \in Nat : HasSuccessor(id)' <=> HasSuccessor(id)
    BY <1>2, <1>7, FirstChains DEF FirstAttempt
  <2>2. \A i \in DOMAIN attempts : attempts'[i] = attempts[i]
    BY <1>2, <1>7, FirstRows DEF TInv
  <2>3. LeasesFall(attempts', worker')
    BY <1>2, <2>1, <2>2 DEF LeasesFall, WorksOnFailed, Busy
  <2>4. \A v \in Workers : worker[v].src \in Nat
    BY <1>2 DEF TInv, TypeOK, Work
  <2>5. \A v \in Workers : worker'[v].leased /\ worker'[v].stage # "idle" =>
                             ~HasSuccessor(worker[v].src)'
    BY <1>3, <2>1, <2>3, <2>4 DEF LeasesFall
  <2> QED
    BY <1>1, <2>3, <2>5, HeldStep
<1> QED
  BY <1>1, <1>2, <1>4, <1>5, <1>6, <1>7, StepKinds

\* As long as a lease outlasts a single retry, operators never take a retry from
\* each other nor from a pass that is younger than the lease: whoever is overtaken
\* is a pass that has gone on for longer than the lease it writes, because it
\* stamps its claims with the time it started.
THEOREM LeasesExclusive ==
  ASSUME MaxHold < Lease
  PROVE  Spec => [](LeaseCovers /\ OnlyLatePassOvertaken)
<1>1. LInv => LeaseCovers /\ OnlyLatePassOvertaken
  BY HeldLeaseCovers DEF LInv
<1>2. LInv /\ [Next]_vars => LInv'
  BY LeasesStep
<1> QED
  BY <1>1, <1>2, LeasesInit, PTL DEF Spec

-----------------------------------------------------------------------------
(* Schedules.  Without faults no worker releases a row, the only statement    *)
(* that gives an old row a schedule; a new one has a schedule only below the  *)
(* limit.                                                                     *)

NoRelease == \A w \in Workers : worker[w].stage # "release"

ScheduledBelowLimit ==
  \A i \in DOMAIN attempts : attempts[i].next # None => attempts[i].no < maxDeliveryAttempts

\* Old rows keep their schedules or lose them; new ones are below the limit.
SchedulesFall ==
  /\ \A i \in DOMAIN attempts :
       /\ i \in DOMAIN attempts' /\ attempts'[i].no = attempts[i].no
       /\ attempts'[i].next \in {attempts[i].next, None}
  /\ \A i \in DOMAIN attempts' \ DOMAIN attempts :
       attempts'[i].next # None => attempts'[i].no < maxDeliveryAttempts

LEMMA ClearedSchedules ==
  ASSUME TypeOK, NEW ids
  PROVE  LET rows == Unclaimed(ids, None) IN
         /\ rows \in Seq(Row) /\ DOMAIN rows = DOMAIN attempts
         /\ \A i \in DOMAIN attempts : /\ rows[i].no = attempts[i].no
                                       /\ rows[i].next \in {attempts[i].next, None}
<1> DEFINE rows == Unclaimed(ids, None)
<1>1. attempts \in Seq(Row)
  BY DEF TypeOK
<1>2. rows \in Seq(Row) /\ SameFields(attempts, rows)
  BY <1>1, UnclaimedRows
<1>3. \A i \in DOMAIN attempts : attempts[i] \in Row
  BY <1>1, LenProperties
<1>4. \A i \in DOMAIN attempts : rows[i].next \in {attempts[i].next, None}
  BY <1>3 DEF Unclaimed, Row
<1> HIDE DEF rows
<1>5. /\ rows \in Seq(Row) /\ DOMAIN rows = DOMAIN attempts
      /\ \A i \in DOMAIN attempts : /\ rows[i].no = attempts[i].no
                                    /\ rows[i].next \in {attempts[i].next, None}
  BY <1>2, <1>4 DEF SameFields
<1> QED BY <1>5 DEF rows

\* A table cleared somewhere, with a new row at its end or without.
LEMMA ClearedFalls ==
  ASSUME TypeOK, NEW ids, attempts' = Unclaimed(ids, None)
  PROVE  SchedulesFall
BY ClearedSchedules DEF SchedulesFall

LEMMA AppendedFalls ==
  ASSUME TypeOK, NEW rows \in Seq(Row), DOMAIN rows = DOMAIN attempts,
         \A i \in DOMAIN attempts : /\ rows[i].no = attempts[i].no
                                    /\ rows[i].next \in {attempts[i].next, None},
         NEW row \in Row, row.next # None => row.no < maxDeliveryAttempts,
         attempts' = Append(rows, row)
  PROVE  SchedulesFall
<1>1. /\ DOMAIN rows = 1..Len(rows) /\ Len(rows) \in Nat
      /\ attempts' \in Seq(Row) /\ Len(attempts') = Len(rows) + 1
      /\ \A i \in 1..Len(rows) : attempts'[i] = rows[i]
      /\ attempts'[Len(rows) + 1] = row
  BY AppendProperties, LenProperties
<1>2. DOMAIN attempts' = 1..(Len(rows) + 1)
  BY <1>1, LenProperties
<1>3. \A i \in DOMAIN attempts' \ DOMAIN attempts : i = Len(rows) + 1
  BY <1>1, <1>2
<1>4. \A i \in DOMAIN attempts : i \in DOMAIN attempts' /\ attempts'[i] = rows[i]
  BY <1>1, <1>2
<1> QED BY <1>1, <1>3, <1>4 DEF SchedulesFall

\* sendAndRecord schedules a row only below the limit.
LEMMA NewRowBelow ==
  ASSUME NEW kind, NEW sent \in BOOLEAN, NEW no, NEW source
  PROVE  LET row == NewRow(kind, sent, no, source) IN
         row.next # None => row.no < maxDeliveryAttempts
BY DEF NewRow

LEMMA StageKept ==
  ASSUME NoRelease,
         \A w \in Workers : \/ worker'[w].stage = worker[w].stage
                            \/ worker'[w].stage \in Stages \ {"release"}
  PROVE  NoRelease'
BY DEF NoRelease

LEMMA EvictStages ==
  ASSUME NEW work \in [Workers -> Work], NEW ids
  PROVE  \A w \in Workers : Evict(ids, work)[w].stage = work[w].stage
BY DEF Evict, Work

LEMMA SchedulesStep ==
  ASSUME Faults = FALSE, TInv, NoRelease, [Next]_vars
  PROVE  NoRelease' /\ SchedulesFall
<1>0. TypeOK /\ worker \in [Workers -> Work] /\ attempts \in Seq(Row) /\ Maintenance \in Workers
  BY DEF TInv, TypeOK, Workers
<1>s. ASSUME UNCHANGED attempts PROVE SchedulesFall
  BY <1>s DEF SchedulesFall
<1>u. ASSUME UNCHANGED <<attempts, worker>> PROVE NoRelease' /\ SchedulesFall
  BY <1>s, <1>u DEF NoRelease
<1>c. ASSUME NEW w \in Workers, NEW id \in DOMAIN attempts, NEW stamp \in Nat, Claim(w, id, stamp)
      PROVE  NoRelease' /\ SchedulesFall
  <2>1. /\ attempts' = [attempts EXCEPT ![id].claim = stamp]
        /\ worker' = [worker EXCEPT ![w] = [stage |-> "claimed", src |-> id, since |-> now,
                                            sent |-> FALSE, leased |-> TRUE]]
    BY <1>c DEF Claim
  <2>2. \A i \in DOMAIN attempts : attempts[i] \in Row
    BY <1>0, LenProperties
  <2>3. SchedulesFall
    BY <2>1, <2>2 DEF SchedulesFall, Row
  <2>4. \A v \in Workers : worker'[v].stage = worker[v].stage \/ worker'[v].stage = "claimed"
    BY <1>0, <2>1
  <2> QED BY <2>3, <2>4, StageKept DEF Stages
<1>g. ASSUME NEW w \in Workers, NEW stage \in Stages \ {"release"}, GoTo(w, stage), UNCHANGED attempts
      PROVE  NoRelease' /\ SchedulesFall
  <2>1. worker' = [worker EXCEPT ![w].stage = stage]
    BY <1>g DEF GoTo
  <2>2. \A v \in Workers : worker'[v].stage = worker[v].stage \/ worker'[v].stage = stage
    BY <1>0, <2>1 DEF Work
  <2> QED BY <1>g, <1>s, <2>2, StageKept
<1>k. ASSUME NEW kinds, StopScheduled(kinds) PROVE NoRelease' /\ SchedulesFall
  <2>1. PICK ids : attempts' = Unclaimed(ids, None) /\ worker' = Evict(ids, worker)
    BY <1>k DEF StopScheduled
  <2>2. \A v \in Workers : worker'[v].stage = worker[v].stage
    BY <1>0, <2>1, EvictStages
  <2> QED BY <1>0, <2>1, <2>2, ClearedFalls, StageKept
\* A worker is through with row id.
<1>e. ASSUME NEW w \in Workers, NEW id, worker' = Evict({id}, [worker EXCEPT ![w] = Idle])
      PROVE  NoRelease'
  <2>1. [worker EXCEPT ![w] = Idle] \in [Workers -> Work]
    BY <1>0 DEF Idle, Work, Stages
  <2>2. \A v \in Workers : worker'[v].stage = [worker EXCEPT ![w] = Idle][v].stage
    BY <1>e, <2>1, EvictStages
  <2>3. \A v \in Workers : worker'[v].stage = worker[v].stage \/ worker'[v].stage = "idle"
    BY <1>0, <2>2 DEF Idle
  <2> QED BY <2>3, StageKept DEF Stages
<1>1. ASSUME NEW w \in Operators, RetryAttempt(w) PROVE NoRelease' /\ SchedulesFall
  BY <1>0, <1>1, <1>c DEF RetryAttempt, Workers, TypeOK
<1>2. ASSUME NEW w \in Workers, WorkerStep(w) \/ Abandon(w) PROVE NoRelease' /\ SchedulesFall
  <2>1. CASE CheckMonitor(w) \/ CheckChannel(w) \/ RecordConflict(w)
    <3>1. PICK stage \in {"channel", "stop", "sending", "cancel"} : GoTo(w, stage) /\ UNCHANGED attempts
      BY <2>1 DEF CheckMonitor, CheckChannel, RecordConflict
    <3> QED BY <1>g, <3>1 DEF Stages
  <2>2. CASE Answer(w)
    <3>1. PICK sent \in BOOLEAN :
            worker' = [worker EXCEPT ![w].stage = "answered", ![w].sent = sent]
      BY <2>2 DEF Answer
    <3>2. \A v \in Workers : worker'[v].stage = worker[v].stage \/ worker'[v].stage = "answered"
      BY <1>0, <3>1 DEF Work
    <3> QED BY <1>s, <2>2, <3>2, StageKept DEF Answer, Stages
  <2>3. CASE RecordRetry(w)
    <3> DEFINE id == worker[w].src
               row == NewRow(attempts[id].kind, worker[w].sent, attempts[id].no + 1, id)
               rows == Unclaimed({id}, None)
    <3>1. attempts' = Append(rows, row) /\ worker' = Evict({id}, [worker EXCEPT ![w] = Idle])
      BY <2>3 DEF RecordRetry
    <3>2. row \in Row
      BY <2>3, RecordRows DEF OneMore
    <3>3. row.next # None => row.no < maxDeliveryAttempts
      BY <1>0, NewRowBelow DEF Work
    <3>4. /\ rows \in Seq(Row) /\ DOMAIN rows = DOMAIN attempts
          /\ \A i \in DOMAIN attempts : /\ rows[i].no = attempts[i].no
                                        /\ rows[i].next \in {attempts[i].next, None}
      BY <1>0, ClearedSchedules
    <3> HIDE DEF id, row, rows
    <3>5. SchedulesFall
      BY <1>0, <3>1, <3>2, <3>3, <3>4, AppendedFalls
    <3> QED BY <1>e, <3>1, <3>5
  <2>4. CASE CancelOrStop(w)
    <3>1. PICK id : attempts' = Unclaimed({id}, None) /\ worker' = Evict({id}, [worker EXCEPT ![w] = Idle])
      BY <2>4 DEF CancelOrStop
    <3> QED BY <1>0, <1>e, <3>1, ClearedFalls
  <2>5. CASE Release(w)
    BY <2>5 DEF Release, NoRelease
  <2>6. CASE Abandon(w)
    BY <2>6 DEF Abandon
  <2> QED BY <1>2, <2>1, <2>2, <2>3, <2>4, <2>5, <2>6 DEF WorkerStep
<1>3. CASE PassStep
  <2>1. CASE ClaimDue
    BY <1>0, <1>c, <2>1 DEF ClaimDue, TypeOK
  <2> QED BY <1>3, <1>u, <2>1 DEF PassStep, StartPass, ListDue, SkipDue, EndPass
<1>4. CASE SenderStep
  <2>1. CASE StopOpposite
    BY <1>k, <2>1 DEF StopOpposite
  <2>2. CASE FirstAttempt
    <3>1. PICK sent \in BOOLEAN :
            attempts' = Append(attempts, NewRow(sender.kind, sent, 1, None)) /\ UNCHANGED worker
      BY <2>2 DEF FirstAttempt
    <3> DEFINE row == NewRow(sender.kind, sent, 1, None)
    <3>2. row \in Row
      <4>1. sender.kind \in AllKinds /\ now \in Nat
        BY <1>0 DEF TypeOK
      <4>2. retryDelay[1] = 1 /\ 1 < maxDeliveryAttempts
        BY DEF retryDelay, maxDeliveryAttempts
      <4> QED BY <4>1, <4>2 DEF NewRow, Row
    <3>3. row.next # None => row.no < maxDeliveryAttempts
      BY NewRowBelow
    <3>4. attempts' = Append(attempts, row)
      BY <3>1
    <3> HIDE DEF row
    <3>5. SchedulesFall
      BY <1>0, <3>2, <3>3, <3>4, AppendedFalls
    <3> QED BY <3>1, <3>5 DEF NoRelease
  <2> QED BY <1>4, <1>u, <2>1, <2>2 DEF SenderStep, StartDelivery, StartTest, OpenIncident, CloseIncident
<1>5. CASE ConfigStep
  BY <1>5, <1>k, <1>u DEF ConfigStep, ArchiveMonitor, ArchiveChannel, SwitchChannel, ResetIncident
<1>6. CASE Restart
  <2>1. PICK ids : attempts' = Unclaimed(ids, None)
    BY <1>6 DEF Restart
  <2>2. \A v \in Workers : worker'[v].stage = "idle"
    BY <1>6 DEF Restart, Idle
  <2> QED BY <1>0, <2>1, <2>2, ClearedFalls DEF NoRelease
<1>7. CASE Tick \/ UNCHANGED vars
  BY <1>7, <1>u DEF Tick, vars
<1> QED BY <1>1, <1>2, <1>3, <1>4, <1>5, <1>6, <1>7 DEF Next

LEMMA NoReleaseInit == Init => NoRelease /\ ScheduledBelowLimit
<1>1. Init => attempts = <<>> /\ \A w \in Workers : worker[w].stage = "idle"
  BY DEF Init, Idle
<1>2. DOMAIN <<>> = {}
  OBVIOUS
<1> QED BY <1>1, <1>2 DEF NoRelease, ScheduledBelowLimit

\* Without faults a schedule that was cleared stays cleared, whoever was busy
\* with the row when it was: the retry then ends by clearing it again
\* (CancelNotificationRetry, StopNotificationRetry).
THEOREM StopsForGood == ASSUME Faults = FALSE PROVE Spec => StoppedStays
<1>1. TInv /\ NoRelease /\ [Next]_vars => NoRelease'
  BY SchedulesStep
<1>2. TInv /\ NoRelease /\ [Next]_vars =>
        [\A id \in DOMAIN attempts :
           attempts[id].status = "failed" /\ attempts[id].next = None
             => attempts'[id].next = None]_vars
  BY SchedulesStep DEF SchedulesFall
<1> QED BY <1>1, <1>2, TypesInit, TypesStep, NoReleaseInit, PTL DEF Spec, StoppedStays

\* Without faults the pass takes up only attempts below the limit: a row at the
\* limit is created without a schedule and never gets one.
THEOREM RetriesBounded == ASSUME Faults = FALSE PROVE Spec => AutomaticBudget
<1>1. TInv /\ NoRelease /\ [Next]_vars => NoRelease' /\ SchedulesFall
  BY SchedulesStep
<1>2. ScheduledBelowLimit /\ SchedulesFall => ScheduledBelowLimit'
  BY DEF ScheduledBelowLimit, SchedulesFall
<1>3. TInv /\ ScheduledBelowLimit /\ [Next]_vars =>
        [ClaimDue => attempts[worker'[Maintenance].src].no < maxDeliveryAttempts]_vars
  <2> SUFFICES ASSUME TInv, ScheduledBelowLimit, ClaimDue
               PROVE  attempts[worker'[Maintenance].src].no < maxDeliveryAttempts
    OBVIOUS
  <2>1. PICK id \in pass.due : Claimable(id, pass.now, TRUE) /\ Claim(Maintenance, id, pass.now)
    BY DEF ClaimDue
  <2>2. /\ id \in DOMAIN attempts /\ attempts[id].next # None
        /\ worker \in [Workers -> Work] /\ Maintenance \in Workers
    BY <2>1 DEF Claimable, TInv, TypeOK, Workers
  <2>3. worker'[Maintenance].src = id
    BY <2>1, <2>2 DEF Claim
  <2> QED BY <2>2, <2>3 DEF ScheduledBelowLimit
<1>4. TInv /\ NoRelease /\ ScheduledBelowLimit /\ [Next]_vars => ScheduledBelowLimit'
  BY <1>1, <1>2
<1> QED BY <1>1, <1>3, <1>4, TypesInit, TypesStep, NoReleaseInit, PTL DEF Spec, AutomaticBudget

-----------------------------------------------------------------------------
(* Messages.  A step of the rows is a step of NotificationDelivery on the     *)
(* latest attempts, or shows nothing there.                                   *)

\* A message as its latest attempt shows it.
MessageOf(row) == [state |-> MessageState(row), tries |-> row.no]

LEMMA Messages ==
  /\ Message = [i \in LatestAttempts |-> MessageOf(attempts[i])]
  /\ DOMAIN Message = LatestAttempts
  /\ \A i \in LatestAttempts : Message[i] = MessageOf(attempts[i])
  /\ Message' = [i \in LatestAttempts' |-> MessageOf(attempts'[i])]
  /\ DOMAIN Message' = LatestAttempts'
  /\ \A i \in LatestAttempts' : Message'[i] = MessageOf(attempts'[i])
BY DEF Message, MessageOf, MessageState

\* The latest attempts and what they are keep what SameChain keeps.
LEMMA SameMessages ==
  ASSUME CInv, SameChain
  PROVE  /\ LatestAttempts' = LatestAttempts
         /\ \A i \in LatestAttempts :
              /\ i \in DOMAIN attempts
              /\ MessageOf(attempts'[i]).tries = MessageOf(attempts[i]).tries
              /\ MessageOf(attempts'[i]).state =
                   IF attempts[i].status = "sent" THEN "sent"
                   ELSE IF attempts'[i].next # None THEN "scheduled" ELSE "resting"
<1>1. \A id : HasSuccessor(id)' <=> HasSuccessor(id)
  BY ChainKept DEF CInv
<1>2. /\ DOMAIN attempts' = DOMAIN attempts
      /\ \A i \in DOMAIN attempts : /\ attempts'[i].status = attempts[i].status
                                    /\ attempts'[i].no = attempts[i].no
  BY DEF SameChain, SameFields
<1>3. LatestAttempts' = LatestAttempts /\ LatestAttempts \subseteq DOMAIN attempts
  BY <1>1, <1>2 DEF LatestAttempts
<1> QED BY <1>2, <1>3 DEF MessageOf, MessageState

\* No row gains a schedule.
SchedulesKept == \A i \in DOMAIN attempts : attempts'[i].next \in {attempts[i].next, None}

LEMMA MessagesStop ==
  ASSUME CInv, SameChain, SchedulesKept
  PROVE  Delivery!Next
<1> DEFINE these == {i \in LatestAttempts : attempts'[i].next = None}
           stopped(i) == IF i \in these /\ Message[i].state = "scheduled"
                         THEN [Message[i] EXCEPT !.state = "resting"] ELSE Message[i]
<1>1. these \in SUBSET DOMAIN Message
  BY Messages
<1>2. ASSUME NEW i \in LatestAttempts PROVE Message'[i] = stopped(i)
  <2>1. /\ i \in DOMAIN attempts
        /\ MessageOf(attempts'[i]).tries = MessageOf(attempts[i]).tries
        /\ MessageOf(attempts'[i]).state =
             IF attempts[i].status = "sent" THEN "sent"
             ELSE IF attempts'[i].next # None THEN "scheduled" ELSE "resting"
    BY <1>2, SameMessages
  <2>2. Message[i] = MessageOf(attempts[i]) /\ Message'[i] = MessageOf(attempts'[i])
    BY <1>2, Messages, SameMessages
  <2>3. attempts'[i].next \in {attempts[i].next, None}
    BY <2>1 DEF SchedulesKept
  <2> QED BY <2>1, <2>2, <2>3 DEF MessageOf, MessageState
<1>3. Message' = [i \in LatestAttempts |-> Message'[i]]
  BY Messages, SameMessages
<1> HIDE DEF these, stopped
<1>4. Message' = [i \in DOMAIN Message |-> stopped(i)]
  BY <1>2, <1>3, Messages
<1>5. Delivery!Stop(these)
  BY <1>4 DEF Delivery!Stop, stopped
<1> QED BY <1>1, <1>5 DEF Delivery!Next

\* A worker that releases its row schedules it, superseded or not.
LEMMA MessagesResume ==
  ASSUME CInv, SameChain, Faults, NEW id \in DOMAIN attempts,
         attempts[id].status = "failed", attempts'[id].next # None,
         \A i \in DOMAIN attempts \ {id} : attempts'[i].next = attempts[i].next
  PROVE  [Delivery!Next]_Message
<1>1. ASSUME NEW i \in LatestAttempts
      PROVE  /\ i # id => Message'[i] = Message[i]
             /\ i = id => Message'[i] = [Message[i] EXCEPT !.state = "scheduled"]
             /\ i = id => Message[i].state \in {"resting", "scheduled"}
             /\ i = id /\ Message[i].state = "scheduled" => Message'[i] = Message[i]
  <2>1. /\ i \in DOMAIN attempts
        /\ MessageOf(attempts'[i]).tries = MessageOf(attempts[i]).tries
        /\ MessageOf(attempts'[i]).state =
             IF attempts[i].status = "sent" THEN "sent"
             ELSE IF attempts'[i].next # None THEN "scheduled" ELSE "resting"
    BY <1>1, SameMessages
  <2>2. Message[i] = MessageOf(attempts[i]) /\ Message'[i] = MessageOf(attempts'[i])
    BY <1>1, Messages, SameMessages
  <2> QED BY <2>1, <2>2 DEF MessageOf, MessageState
<1>2. /\ Message' = [i \in LatestAttempts |-> Message'[i]]
      /\ Message = [i \in LatestAttempts |-> Message[i]]
      /\ DOMAIN Message = LatestAttempts
  BY Messages, SameMessages
<1>3. CASE id \in LatestAttempts /\ Message[id].state = "resting"
  <2>1. Message' = [Message EXCEPT ![id].state = "scheduled"]
    BY <1>1, <1>2, <1>3
  <2>2. Delivery!Resume(id)
    BY <1>3, <2>1 DEF Delivery!Resume
  <2> QED BY <1>2, <1>3, <2>2 DEF Delivery!Next
<1>4. CASE ~(id \in LatestAttempts /\ Message[id].state = "resting")
  <2>1. \A i \in LatestAttempts : Message'[i] = Message[i]
    BY <1>1, <1>4
  <2>2. Message' = Message
    BY <1>2, <2>1
  <2> QED BY <2>2
<1> QED BY <1>3, <1>4

\* What sendAndRecord writes down is what the message promises.
LEMMA NewMessage ==
  ASSUME now \in Nat, NEW kind, NEW sent \in BOOLEAN, NEW no \in Nat \ {0}, NEW source
  PROVE  MessageOf(NewRow(kind, sent, no, source)) = Delivery!Outcome(no, sent)
<1>1. no < maxDeliveryAttempts => now + retryDelay[no] \in Nat
  <2>1. ASSUME no < maxDeliveryAttempts PROVE no = 1 \/ no = 2
    BY <2>1 DEF maxDeliveryAttempts
  <2>2. now + 1 \in Nat /\ now + 2 \in Nat
    OBVIOUS
  <2>3. retryDelay[1] = 1 /\ retryDelay[2] = 2
    BY DEF retryDelay
  <2> QED BY <2>1, <2>2, <2>3
<1>2. no < maxDeliveryAttempts => now + retryDelay[no] # None
  BY <1>1, NoneAssumption
<1> QED BY <1>2 DEF NewRow, MessageOf, MessageState, Delivery!Outcome

\* A first attempt begins a message.
LEMMA MessagesBegin ==
  ASSUME CInv, FirstAttempt
  PROVE  [Delivery!Next]_Message
<1>1. TypeOK /\ now \in Nat /\ attempts \in Seq(Row)
  BY DEF CInv, TInv, TypeOK
<1>2. CASE UNCHANGED attempts
  <2>1. Message' = Message
    BY <1>2 DEF Message, LatestAttempts, HasSuccessor, MessageState
  <2> QED BY <2>1
<1>3. ASSUME NEW sent \in BOOLEAN,
             attempts' = Append(attempts, NewRow(sender.kind, sent, 1, None))
      PROVE  Delivery!Next
  <2> DEFINE row == NewRow(sender.kind, sent, 1, None)
             a == Len(attempts) + 1
  <2>1. /\ DOMAIN attempts = 1..Len(attempts) /\ Len(attempts) \in Nat
        /\ DOMAIN attempts' = 1..a
        /\ \A i \in 1..Len(attempts) : attempts'[i] = attempts[i]
        /\ attempts'[a] = row
    BY <1>1, <1>3, LenProperties
  <2>2. row.retryOf = None
    BY DEF NewRow
  <2>3. MessageOf(row) = Delivery!Outcome(1, sent)
    BY <1>1, NewMessage
  <2> HIDE DEF row
  <2>4. /\ 1..a = 1..Len(attempts) \cup {a} /\ a \notin 1..Len(attempts)
        /\ \A i \in 1..a : i \in Nat
    BY <2>1
  <2> HIDE DEF a
  <2>5. \A i \in 1..a : HasSuccessor(i)' <=> HasSuccessor(i)
    BY <2>4, FirstChains
  <2>6. ~HasSuccessor(a)
    <3>1. SUFFICES ASSUME NEW i \in DOMAIN attempts, attempts[i].retryOf = a PROVE FALSE
      BY DEF HasSuccessor
    <3>2. a # None
      BY <2>4, NoneAssumption
    <3> QED BY <2>1, <2>4, <3>1, <3>2 DEF CInv, ChainIntegrity
  <2>7. LatestAttempts' = LatestAttempts \cup {a} /\ a \notin LatestAttempts
    BY <2>1, <2>4, <2>5, <2>6 DEF LatestAttempts
  <2>8. \A i \in LatestAttempts : i \in 1..Len(attempts) /\ i # a
    BY <2>1, <2>4 DEF LatestAttempts
  <2>9. Message' = [i \in LatestAttempts' |-> MessageOf(attempts'[i])]
    BY Messages
  <2>10. Message' = [i \in DOMAIN Message \cup {a} |->
                       IF i = a THEN Delivery!Outcome(1, sent) ELSE Message[i]]
    BY <2>1, <2>3, <2>7, <2>8, <2>9, Messages
  <2>11. Delivery!Begin(a, sent)
    BY <2>10 DEF Delivery!Begin
  <2>12. a \in DOMAIN Message' \ DOMAIN Message
    BY <2>7, <2>9, Messages
  <2> QED BY <2>11, <2>12 DEF Delivery!Next
<1> QED BY <1>2, <1>3 DEF FirstAttempt

\* Row id has schedule next, the others have theirs.
LEMMA UnclaimedSchedules ==
  ASSUME TypeOK, NEW ids, NEW next \in Nat \cup {None}
  PROVE  \A i \in DOMAIN attempts :
           Unclaimed(ids, next)[i].next = IF i \in ids THEN next ELSE attempts[i].next
<1>1. \A i \in DOMAIN attempts : attempts[i] \in Row
  BY LenProperties DEF TypeOK
<1> QED BY <1>1 DEF Unclaimed, Row

\* A retry that is recorded tries its message again, under the attempt number
\* after that of its source.
LEMMA MessagesRetry ==
  ASSUME CInv, NEW w \in Workers, RecordRetry(w)
  PROVE  Delivery!Next
<1> DEFINE id == worker[w].src
           no == attempts[id].no + 1
           sent == worker[w].sent
           row == NewRow(attempts[id].kind, sent, no, id)
           rows == Unclaimed({id}, None)
           a == Len(attempts) + 1
<1>1. /\ TInv /\ TypeOK /\ now \in Nat /\ attempts \in Seq(Row) /\ sent \in BOOLEAN
      /\ ~HasSuccessor(id)
  BY DEF CInv, TInv, TypeOK, Work, RecordRetry
<1>2. id \in DOMAIN attempts /\ attempts[id].status = "failed" /\ OneMore(row)
  BY <1>1, RecordRows
<1>3. attempts[id].no \in Nat /\ no \in Nat \ {0}
  <2>1. attempts[id] \in Row
    BY <1>1, <1>2, LenProperties
  <2> QED BY <2>1 DEF Row
<1>4. MessageOf(row) = Delivery!Outcome(no, sent)
  BY <1>1, <1>3, NewMessage
<1>5. \A i \in DOMAIN attempts : rows[i].next = IF i \in {id} THEN None ELSE attempts[i].next
  <2>1. \A i \in DOMAIN attempts : attempts[i] \in Row
    BY <1>1, LenProperties
  <2> HIDE DEF id
  <2> QED BY <2>1 DEF Unclaimed, Row
<1>6. /\ attempts' = Append(rows, row) /\ rows \in Seq(Row) /\ DOMAIN rows = DOMAIN attempts
  BY <1>1, ClearedSchedules DEF RecordRetry
<1>7. \A i \in Nat : HasSuccessor(i)' <=> (HasSuccessor(i) \/ i = id)
  BY RecordChains
<1> HIDE DEF row, rows
<1>8. /\ DOMAIN attempts = 1..Len(attempts) /\ Len(attempts) \in Nat
      /\ DOMAIN attempts' = 1..a
      /\ attempts'[a] = row
      /\ \A i \in DOMAIN attempts : /\ attempts'[i].status = attempts[i].status
                                    /\ attempts'[i].no = attempts[i].no
  BY <1>2 DEF OneMore
<1>9. \A i \in DOMAIN attempts \ {id} : attempts'[i].next = attempts[i].next
  <2>1. Len(rows) = Len(attempts)
    BY <1>6, <1>8, LenProperties, IntervalEnd
  <2> QED BY <1>5, <1>6, <1>8, <2>1
<1>10. /\ 1..a = 1..Len(attempts) \cup {a} /\ a \notin 1..Len(attempts)
       /\ \A i \in 1..a : i \in Nat
  BY <1>8
<1> HIDE DEF a, no, sent, id
<1>11. ~HasSuccessor(a) /\ a # id
  <2>1. SUFFICES ASSUME NEW i \in DOMAIN attempts, attempts[i].retryOf = a PROVE FALSE
    BY <1>2, <1>8, <1>10 DEF HasSuccessor
  <2>2. a # None
    BY <1>10, NoneAssumption
  <2> QED BY <1>8, <1>10, <2>1, <2>2 DEF CInv, ChainIntegrity
<1>12. /\ LatestAttempts' = (LatestAttempts \ {id}) \cup {a}
       /\ a \notin LatestAttempts /\ id \in LatestAttempts
       /\ LatestAttempts \subseteq DOMAIN attempts
  BY <1>1, <1>2, <1>7, <1>8, <1>10, <1>11 DEF LatestAttempts
<1>13. Message[id].state # "sent" /\ Message[id].tries + 1 = no
  BY <1>2, <1>12, Messages DEF MessageOf, MessageState, no
<1>14. \A i \in LatestAttempts \ {id} : MessageOf(attempts'[i]) = Message[i]
  BY <1>8, <1>9, <1>12, Messages DEF MessageOf, MessageState
<1>15. Message' = [i \in (DOMAIN Message \ {id}) \cup {a} |->
                     IF i = a THEN Delivery!Outcome(Message[id].tries + 1, sent) ELSE Message[i]]
  BY <1>4, <1>8, <1>12, <1>13, <1>14, Messages
<1>16. Delivery!TryAgain(id, a, sent)
  BY <1>13, <1>15 DEF Delivery!TryAgain
<1>17. a \in DOMAIN Message' \ DOMAIN Message /\ id \in DOMAIN Message
  BY <1>12, Messages
<1> QED BY <1>1, <1>16, <1>17 DEF Delivery!Next, sent

\* Without faults no worker releases a row.
Releases == ~Faults => NoRelease

\* Every other step leaves the messages alone or stops some.
LEMMA MessagesElse ==
  ASSUME CInv, [Next]_vars, ~FirstAttempt,
         \A w \in Workers : ~RecordRetry(w) /\ ~Release(w)
  PROVE  SameChain /\ SchedulesKept
<1>0. TypeOK /\ TInv /\ attempts \in Seq(Row)
  BY DEF CInv, TInv, TypeOK
<1>u. ASSUME UNCHANGED attempts PROVE SameChain /\ SchedulesKept
  BY <1>0, <1>u, SameRows DEF SchedulesKept
<1>n. ASSUME NEW ids, attempts' = Unclaimed(ids, None) PROVE SameChain /\ SchedulesKept
  BY <1>0, <1>n, UnclaimedRows, ClearedSchedules DEF SameChain, SchedulesKept
<1>c. ASSUME NEW w \in Workers, NEW id \in DOMAIN attempts, NEW stamp \in Nat, Claim(w, id, stamp)
      PROVE  SameChain /\ SchedulesKept
  <2>1. SameChain
    BY <1>0, <1>c, ClaimRows
  <2>2. \A i \in DOMAIN attempts : attempts[i] \in Row
    BY <1>0, LenProperties
  <2>3. attempts' = [attempts EXCEPT ![id].claim = stamp]
    BY <1>c DEF Claim
  <2>4. SchedulesKept
    BY <2>2, <2>3 DEF SchedulesKept, Row
  <2> QED BY <2>1, <2>4
<1>k. ASSUME NEW kinds, StopScheduled(kinds) PROVE SameChain /\ SchedulesKept
  BY <1>k, <1>n DEF StopScheduled
<1>1. ASSUME NEW w \in Operators, RetryAttempt(w) PROVE SameChain /\ SchedulesKept
  BY <1>0, <1>1, <1>c DEF RetryAttempt, Workers, TypeOK
<1>2. ASSUME NEW w \in Workers, WorkerStep(w) \/ Abandon(w) PROVE SameChain /\ SchedulesKept
  <2>1. CASE CancelOrStop(w)
    BY <1>n, <2>1 DEF CancelOrStop
  <2>2. CASE ~CancelOrStop(w)
    <3>1. UNCHANGED attempts
      BY <1>2, <2>2 DEF WorkerStep, CheckMonitor, CheckChannel, Answer, RecordConflict, Abandon
    <3> QED BY <1>u, <3>1
  <2> QED BY <2>1, <2>2
<1>3. CASE PassStep
  <2>1. CASE ClaimDue
    BY <1>0, <1>c, <2>1 DEF ClaimDue, TypeOK, Workers
  <2> QED BY <1>3, <1>u, <2>1 DEF PassStep, StartPass, ListDue, SkipDue, EndPass
<1>4. CASE SenderStep
  BY <1>4, <1>k, <1>u DEF SenderStep, StartDelivery, StartTest, OpenIncident, CloseIncident, StopOpposite
<1>5. CASE ConfigStep
  BY <1>5, <1>k, <1>u DEF ConfigStep, ArchiveMonitor, ArchiveChannel, SwitchChannel, ResetIncident
<1>6. CASE Restart
  BY <1>6, <1>n DEF Restart
<1>7. CASE Tick \/ UNCHANGED vars
  BY <1>7, <1>u DEF Tick, vars
<1> QED BY <1>1, <1>2, <1>3, <1>4, <1>5, <1>6, <1>7 DEF Next

LEMMA MessagesStep ==
  ASSUME CInv, Releases, [Next]_vars
  PROVE  [Delivery!Next]_Message
<1>1. CASE FirstAttempt
  BY <1>1, MessagesBegin
<1>2. ASSUME NEW w \in Workers, RecordRetry(w) PROVE Delivery!Next
  BY <1>2, MessagesRetry
<1>3. ASSUME NEW w \in Workers, Release(w) PROVE [Delivery!Next]_Message
  <2> DEFINE id == worker[w].src
  <2>1. TypeOK /\ now + 1 \in Nat /\ now + 1 # None /\ attempts \in Seq(Row)
    BY NoneAssumption DEF CInv, TInv, TypeOK
  <2>2. worker[w].stage = "release" /\ attempts' = Unclaimed({id}, now + 1)
    BY <1>3 DEF Release
  <2>3. id \in DOMAIN attempts /\ attempts[id].status = "failed"
    BY <2>2 DEF CInv, TInv, WorksOnFailed, Busy
  <2>4. SameChain
    BY <2>1, <2>2, UnclaimedRows DEF SameChain
  <2>5. \A i \in DOMAIN attempts :
          attempts'[i].next = IF i \in {id} THEN now + 1 ELSE attempts[i].next
    BY <2>1, <2>2, UnclaimedSchedules
  <2>6. Faults
    BY <1>3, <2>2 DEF Releases, NoRelease
  <2> HIDE DEF id
  <2>7. /\ attempts'[id].next # None
        /\ \A i \in DOMAIN attempts \ {id} : attempts'[i].next = attempts[i].next
    BY <2>1, <2>3, <2>5
  <2> QED BY <2>3, <2>4, <2>6, <2>7, MessagesResume
<1>4. ASSUME ~FirstAttempt, \A w \in Workers : ~RecordRetry(w) /\ ~Release(w)
      PROVE  Delivery!Next
  BY <1>4, MessagesElse, MessagesStop
<1> QED BY <1>1, <1>2, <1>3, <1>4

\* Retries implement NotificationDelivery, whatever the kinds of messages, the
\* operators, the configuration and the crashes: no message is tried again
\* after it was sent, two retries never follow the same try, a message is
\* scheduled only below the limit, and what rests is scheduled again only
\* when a statement failed.
THEOREM RetriesDeliver == Spec => DeliversMessages
<1>1. Init => CInv /\ Releases /\ Delivery!Init
  <2> SUFFICES ASSUME Init PROVE CInv /\ Releases /\ Delivery!Init
    OBVIOUS
  <2>1. LatestAttempts = {}
    BY DEF Init, LatestAttempts
  <2>2. Delivery!Init
    BY <2>1, Messages DEF Delivery!Init
  <2> QED BY <2>2, ChainsInit, NoReleaseInit DEF Releases
<1>2. CInv /\ Releases /\ [Next]_vars => Releases'
  <2>1. Faults = FALSE \/ Faults = TRUE
    BY BoundsAssumption
  <2> QED BY <2>1, SchedulesStep DEF Releases, CInv
<1>3. CInv /\ Releases /\ [Next]_vars => [Delivery!Next]_Message
  BY MessagesStep
<1> QED BY <1>1, <1>2, <1>3, ChainsStep, PTL DEF Spec, DeliversMessages, Delivery!Spec
=============================================================================
