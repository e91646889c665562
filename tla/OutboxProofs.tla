----------------------------- MODULE OutboxProofs -----------------------------
(***************************************************************************)
(* Theorems about module Outbox, for every set of calls and workers, every *)
(* lease and every sequence of limits.                                     *)
(***************************************************************************)
EXTENDS Outbox, TLAPS

\* What is not in hand has not been sent.
JobsShaped ==
  \A w \in Workers : work[w].call = None => work[w] = Idle

\* A worker that has seen its call executed and still owns the row is right:
\* the call is not enqueued anew, and so forgotten, under a claim.
SentInHand ==
  \A w \in Workers :
    work[w].result = "sent" /\ Owns(w) => work[w].call \in delivered

IInv == TypeOK /\ JobsShaped /\ SentInHand /\ SentMeansDelivered

-----------------------------------------------------------------------------
(* Operators                                                                *)

\* The countdown of a tick.
LEMMA CountDown ==
  ASSUME NEW n \in Nat
  PROVE  Max({0, n - 1}) \in 0 .. n
BY DEF Max

\* The back-off is a number of ticks.
LEMMA RetryDelayIsNat ==
  ASSUME NEW attempts \in Nat
  PROVE  RetryDelay(attempts) \in Nat
<1>1. Max({0, Min({attempts - 1, 8})}) \in 0 .. 8
  BY DEF Max, Min
<1>2. \A k \in 0 .. 8 : 2 ^ k \in Nat
  <2>1. /\ 2 ^ 0 \in Nat /\ 2 ^ 1 \in Nat /\ 2 ^ 2 \in Nat
        /\ 2 ^ 3 \in Nat /\ 2 ^ 4 \in Nat /\ 2 ^ 5 \in Nat
        /\ 2 ^ 6 \in Nat /\ 2 ^ 7 \in Nat /\ 2 ^ 8 \in Nat
    OBVIOUS
  <2>2. 0 .. 8 = {0, 1, 2, 3, 4, 5, 6, 7, 8}
    OBVIOUS
  <2> QED
    BY <2>1, <2>2, Zenon
<1> DEFINE d == 2 ^ Max({0, Min({attempts - 1, 8})})
<1>3. d \in Nat
  BY <1>1, <1>2
<1> HIDE DEF d
<1>4. Min({300, d}) \in Nat
  BY <1>3 DEF Min
<1> QED
  BY <1>4 DEF RetryDelay, d

\* Setting a column of a row makes a row, and leaves the other columns alone.
LEMMA RowColumns ==
  ASSUME NEW r \in Row
  PROVE  /\ \A v \in {"ABSENT", "PENDING", "SENT", "DEAD"} : [r EXCEPT !.status = v] \in Row
         /\ \A v \in Nat : [r EXCEPT !.attempts = v] \in Row
         /\ \A v \in Nat : [r EXCEPT !.wait = v] \in Row
         /\ \A v \in Workers \cup {None} : [r EXCEPT !.token = v] \in Row
         /\ \A v \in 0 .. ClaimTTL : [r EXCEPT !.lease = v] \in Row
BY DEF Row

\* Finished, released and failed rows are rows.
LEMMA RowsAfterAttempt ==
  ASSUME NEW r \in Row
  PROVE  Sent(r) \in Row /\ Failed(r) \in Row
<1>1. r.attempts \in Nat /\ 0 \in 0 .. ClaimTTL
  BY OutboxAssumption DEF Row
<1>2. RetryDelay(r.attempts) \in Nat
  BY <1>1, RetryDelayIsNat
<1> DEFINE sent  == [r EXCEPT !.status = "SENT"]
           freed == [r EXCEPT !.token = None]
           ended == [sent EXCEPT !.token = None]
           done  == [ended EXCEPT !.lease = 0]
           free  == [freed EXCEPT !.lease = 0]
<1>3. sent \in Row /\ freed \in Row
  BY RowColumns
<1> HIDE DEF sent, freed
<1>4. ended \in Row /\ free \in Row
  BY <1>1, <1>3, RowColumns
<1> HIDE DEF ended, free
<1>5. /\ done \in Row
      /\ [free EXCEPT !.status = "DEAD"] \in Row
      /\ [free EXCEPT !.wait = RetryDelay(r.attempts)] \in Row
  BY <1>1, <1>2, <1>4, RowColumns
<1> QED
  BY <1>5 DEF Sent, Failed, done, ended, sent, free, freed

-----------------------------------------------------------------------------
(* Invariance                                                               *)

LEMMA InitIInv == Init => IInv
<1> SUFFICES ASSUME Init PROVE IInv
  OBVIOUS
<1>1. ClaimTTL \in Nat /\ MaxCrashes \in Nat
  BY OutboxAssumption
<1>2. TypeOK
  BY <1>1, OutboxAssumption DEF Init, TypeOK, Row, Job, Idle, New, Absent
<1> QED
  BY <1>2, OutboxAssumption
  DEF Init, IInv, JobsShaped, SentInHand, SentMeansDelivered, Idle, New, Absent

LEMMA NextTypeOK ==
  ASSUME IInv, [Next]_outboxVars
  PROVE  TypeOK' /\ JobsShaped'
<1> USE DEF IInv
<1>0. /\ ClaimTTL \in Nat \ {0} /\ MaxCrashes \in Nat /\ None \notin Calls
      /\ None \notin Workers /\ Idle \in Job
  BY OutboxAssumption DEF Idle, Job
<1>1. ASSUME NEW c \in Calls, Enqueue(c) PROVE TypeOK' /\ JobsShaped'
  BY <1>0, <1>1 DEF Enqueue, EnqueueAll, TypeOK, JobsShaped, Row, New
<1>2. ASSUME NEW c \in Calls, Withdraw(c) PROVE TypeOK' /\ JobsShaped'
  BY <1>0, <1>2 DEF Withdraw, TypeOK, JobsShaped, Row
<1>3. ASSUME NEW c \in Calls, Purge(c) PROVE TypeOK' /\ JobsShaped'
  BY <1>0, <1>3 DEF Purge, TypeOK, JobsShaped, Row, Absent, New
<1>4. ASSUME NEW w \in Workers, NEW c \in Calls, Claim(w, c)
      PROVE  TypeOK' /\ JobsShaped'
  <2>1. rows[c] \in Row
    BY DEF TypeOK
  <2> DEFINE again == rows[c].attempts >= limit /\ Stale(rows[c])
             n == IF again THEN rows[c].attempts ELSE rows[c].attempts + 1
             counted == [rows[c] EXCEPT !.attempts = n]
             taken == [counted EXCEPT !.token = w]
             leased == [taken EXCEPT !.lease = ClaimTTL]
  <2>2. rows' \in [Calls -> Row]
    <3>1. n \in Nat /\ ClaimTTL \in 0 .. ClaimTTL
      BY <1>0, <2>1 DEF Row
    <3> HIDE DEF n
    <3>2. counted \in Row
      BY <2>1, <3>1, RowColumns
    <3> HIDE DEF counted
    <3>3. taken \in Row
      BY <3>2, RowColumns
    <3> HIDE DEF taken
    <3>4. leased \in Row
      BY <3>1, <3>3, RowColumns
    <3>5. rows' = [rows EXCEPT ![c] = leased]
      BY <1>4, Zenon DEF Claim, leased, taken, counted, n
    <3> HIDE DEF leased
    <3> QED
      BY <3>4, <3>5 DEF TypeOK
  <2>3. \A d \in Calls : rows'[d].token # None => rows'[d].status = "PENDING"
    BY <1>4, <2>1 DEF Claim, Claimable, TypeOK, Row
  <2>4. work' \in [Workers -> Job] /\ JobsShaped'
    BY <1>0, <1>4 DEF Claim, TypeOK, JobsShaped, Job
  <2> QED
    BY <1>0, <1>4, <2>2, <2>3, <2>4 DEF Claim, TypeOK
<1>5. ASSUME NEW w \in Workers, NEW e \in BOOLEAN, Send(w, e)
      PROVE  TypeOK' /\ JobsShaped'
  BY <1>0, <1>5 DEF Send, TypeOK, JobsShaped, Job, Idle
<1>6. ASSUME NEW w \in Workers, Skip(w) \/ MarkSent(w) \/ MarkFailed(w)
      PROVE  TypeOK' /\ JobsShaped'
  <2>1. work[w].call \in Calls
    BY <1>0, <1>6, OutboxAssumption
    DEF Skip, MarkSent, MarkFailed, TypeOK, JobsShaped, Job, Idle
  <2>2. rows[work[w].call] \in Row
    BY <2>1 DEF TypeOK
  <2>3. Sent(rows[work[w].call]) \in Row /\ Failed(rows[work[w].call]) \in Row
    BY <2>2, RowsAfterAttempt
  <2>4. rows' \in [Calls -> Row]
    BY <1>6, <2>1, <2>2, <2>3 DEF Skip, MarkSent, MarkFailed, TypeOK
  <2>5. /\ Sent(rows[work[w].call]).token = None
        /\ Failed(rows[work[w].call]).token = None
    BY <2>2 DEF Sent, Failed, Row
  <2>6. \A c \in Calls : rows'[c].token # None => rows'[c].status = "PENDING"
    BY <1>6, <2>1, <2>5 DEF Skip, MarkSent, MarkFailed, TypeOK
  <2> QED
    BY <1>0, <1>6, <2>4, <2>6 DEF Skip, MarkSent, MarkFailed, TypeOK, JobsShaped
<1>7. ASSUME NEW w \in Workers, Crash(w) PROVE TypeOK' /\ JobsShaped'
  BY <1>0, <1>7 DEF Crash, TypeOK, JobsShaped
<1>8. ASSUME NEW n \in Limits, Redeploy(n) PROVE TypeOK' /\ JobsShaped'
  BY <1>0, <1>8 DEF Redeploy, TypeOK, JobsShaped
<1>9. CASE Tick
  <2>1. ASSUME NEW c \in Calls
        PROVE  /\ Max({0, rows[c].wait - 1}) \in Nat
               /\ Max({0, rows[c].lease - 1}) \in 0 .. ClaimTTL
    BY <1>0, CountDown DEF TypeOK, Row
  <2>2. rows' \in [Calls -> Row]
    BY <1>9, <2>1 DEF Tick, TypeOK, Row
  <2>3. \A c \in Calls : rows'[c].token = rows[c].token /\ rows'[c].status = rows[c].status
    BY <1>9 DEF Tick, TypeOK, Row
  <2> QED
    BY <1>9, <2>2, <2>3 DEF Tick, TypeOK, JobsShaped
<1>10. CASE UNCHANGED outboxVars
  BY <1>10 DEF outboxVars, TypeOK, JobsShaped
<1> QED
  BY <1>1, <1>2, <1>3, <1>4, <1>5, <1>6, <1>7, <1>8, <1>9, <1>10 DEF Next

\* Whatever is in hand to be recorded was executed, and so was whatever is
\* recorded as sent and is not a welcome, which may have been skipped.
LEMMA NextDelivered ==
  ASSUME IInv, [Next]_outboxVars
  PROVE  SentInHand' /\ SentMeansDelivered'
<1> USE DEF IInv
<1>0. None \notin Calls /\ None \notin Workers
  BY OutboxAssumption
<1>1. ASSUME NEW c \in Calls, Enqueue(c) PROVE SentInHand' /\ SentMeansDelivered'
  BY <1>0, <1>1
  DEF Enqueue, EnqueueAll, Enters, New, Owns, SentInHand, SentMeansDelivered,
      TypeOK, Job, Row, JobsShaped, Idle
<1>2. ASSUME NEW c \in Calls, Withdraw(c) \/ Purge(c)
      PROVE  SentInHand' /\ SentMeansDelivered'
  BY <1>0, <1>2
  DEF Withdraw, Purge, Absent, New, Owns, SentInHand, SentMeansDelivered,
      TypeOK, Job, Row, JobsShaped, Idle
<1>3. ASSUME NEW w \in Workers, NEW c \in Calls, Claim(w, c)
      PROVE  SentInHand' /\ SentMeansDelivered'
  <2>1. rows'[c].status = "PENDING" /\ rows'[c].token = w
    BY <1>3 DEF Claim, Claimable, TypeOK, Row
  <2>2. \A d \in Calls \ {c} : rows'[d] = rows[d]
    BY <1>3 DEF Claim, TypeOK
  <2>3. work'[w].result # "sent" /\ \A v \in Workers \ {w} : work'[v] = work[v]
    BY <1>3 DEF Claim, TypeOK
  <2>4. UNCHANGED delivered
    BY <1>3 DEF Claim
  <2>5. \A v \in Workers : work[v].result = "sent" => work[v].call \in Calls
    BY <1>0 DEF TypeOK, Job, JobsShaped, Idle
  <2> QED
    BY <2>1, <2>2, <2>3, <2>4, <2>5 DEF SentInHand, SentMeansDelivered, Owns
<1>4. ASSUME NEW w \in Workers, NEW e \in BOOLEAN, Send(w, e)
      PROVE  SentInHand' /\ SentMeansDelivered'
  BY <1>0, <1>4 DEF Send, Owns, SentInHand, SentMeansDelivered, TypeOK, Job
<1>5. ASSUME NEW w \in Workers, Skip(w) \/ MarkSent(w) \/ MarkFailed(w)
      PROVE  SentInHand' /\ SentMeansDelivered'
  <2> DEFINE c == work[w].call
  <2>1. c \in Calls /\ rows[c] \in Row
    BY <1>0, <1>5, OutboxAssumption
    DEF Skip, MarkSent, MarkFailed, TypeOK, JobsShaped, Job, Idle
  <2>2. \A d \in Calls \ {c} : rows'[d] = rows[d]
    BY <1>5 DEF Skip, MarkSent, MarkFailed, TypeOK
  <2>3. \/ rows'[c] = rows[c]
        \/ /\ rows'[c].token = None
           /\ rows'[c].status = "SENT" => c \in delivered \/ c \in Welcomes
    <3>1. Failed(rows[c]).token = None /\ Sent(rows[c]).token = None
      BY <2>1 DEF Failed, Sent, Row
    <3>2. Failed(rows[c]).status \in {rows[c].status, "DEAD"}
      BY <2>1 DEF Failed, Row
    <3>3. Owns(w) => rows[c].status = "PENDING"
      BY DEF Owns
    <3>4. MarkSent(w) /\ Owns(w) => c \in delivered
      BY DEF MarkSent, SentInHand
    <3> HIDE DEF c
    <3>5. CASE MarkSent(w)
      BY <2>1, <3>1, <3>4, <3>5 DEF MarkSent, TypeOK, c
    <3>6. CASE MarkFailed(w)
      BY <2>1, <3>1, <3>2, <3>3, <3>6 DEF MarkFailed, TypeOK, c
    <3>7. CASE Skip(w)
      BY <2>1, <3>1, <3>7 DEF Skip, TypeOK, c
    <3> QED
      BY <1>5, <3>5, <3>6, <3>7
  <2>4. work'[w] = Idle /\ \A v \in Workers \ {w} : work'[v] = work[v]
    BY <1>5 DEF Skip, MarkSent, MarkFailed, TypeOK
  <2>5. UNCHANGED delivered
    BY <1>5 DEF Skip, MarkSent, MarkFailed
  <2>6. \A v \in Workers : work[v].result = "sent" => work[v].call \in Calls
    BY <1>0 DEF TypeOK, Job, JobsShaped, Idle
  <2> HIDE DEF c
  <2> QED
    BY <1>0, <2>2, <2>3, <2>4, <2>5, <2>6
    DEF SentInHand, SentMeansDelivered, Owns, Idle
<1>6. ASSUME NEW w \in Workers, Crash(w) PROVE SentInHand' /\ SentMeansDelivered'
  BY <1>6 DEF Crash, Owns, SentInHand, SentMeansDelivered, TypeOK, Idle
<1>7. ASSUME NEW n \in Limits, Redeploy(n) PROVE SentInHand' /\ SentMeansDelivered'
  BY <1>7 DEF Redeploy, SentInHand, SentMeansDelivered, Idle
<1>8. CASE Tick
  <2>1. \A c \in Calls : rows'[c].token = rows[c].token /\ rows'[c].status = rows[c].status
    BY <1>8 DEF Tick, TypeOK, Row
  <2>2. \A v \in Workers : work[v].result = "sent" => work[v].call \in Calls
    BY <1>0 DEF TypeOK, Job, JobsShaped, Idle
  <2> QED
    BY <1>8, <2>1, <2>2 DEF Tick, SentInHand, SentMeansDelivered, Owns
<1>9. CASE UNCHANGED outboxVars
  BY <1>9 DEF outboxVars, SentInHand, SentMeansDelivered, Owns
<1> QED
  BY <1>1, <1>2, <1>3, <1>4, <1>5, <1>6, <1>7, <1>8, <1>9 DEF Next

-----------------------------------------------------------------------------
(* Theorems                                                                 *)

\* The inductive invariant: types, the worker's memory, and what is delivered.
THEOREM Invariant == Spec => []IInv
<1>1. IInv /\ [Next]_outboxVars => IInv'
  BY NextTypeOK, NextDelivered DEF IInv
<1> QED
  BY <1>1, InitIInv, PTL DEF Spec

\* Rows, leases, attempts and workers keep their types, and only a PENDING row
\* is claimed (the columns of telegram_outbox).
THEOREM TypeCorrect == Spec => []TypeOK
BY Invariant, PTL DEF IInv

\* mark_sent: but for the answers to /start, a row becomes SENT only for a call
\* that the provider has executed since it was enqueued, whatever leases run out
\* and workers crash.
THEOREM SentIsDelivered == Spec => []SentMeansDelivered
BY Invariant, PTL DEF IInv

\* claim_next and finalize: nobody but its worker ends a claim whose lease runs.
THEOREM ClaimsAreKept == Spec => UnexpiredClaimsKept
<1> DEFINE Kept == \A c \in Calls, w \in Workers :
             rows[c].token = w /\ rows[c].lease > 0 /\ rows'[c].token # w =>
               work[w].call = c /\ work'[w] = Idle
<1>1. ASSUME IInv, [Next]_outboxVars PROVE Kept
  <2> USE <1>1
  <2> SUFFICES ASSUME NEW c \in Calls, NEW w \in Workers,
                      rows[c].token = w, rows[c].lease > 0, rows'[c].token # w
               PROVE  work[w].call = c /\ work'[w] = Idle
    OBVIOUS
  <2>0. w # None /\ rows[c].status = "PENDING" /\ rows[c].lease # 0 /\ rows[c] \in Row
    BY OutboxAssumption DEF IInv, TypeOK, Row
  <2>1. ASSUME NEW d \in Calls, Enqueue(d) \/ Withdraw(d) \/ Purge(d) PROVE FALSE
    BY <2>0, <2>1 DEF Enqueue, EnqueueAll, Enters, Withdraw, Purge, IInv, TypeOK, Row
  <2>2. ASSUME NEW v \in Workers, NEW d \in Calls, Claim(v, d) PROVE FALSE
    BY <2>0, <2>2 DEF Claim, Claimable, Stale, IInv, TypeOK, Row
  <2>3. ASSUME NEW v \in Workers, Skip(v) \/ MarkSent(v) \/ MarkFailed(v)
        PROVE  work[w].call = c /\ work'[w] = Idle
    <3>1. work[v].call = c /\ Owns(v)
      BY <2>3 DEF Skip, MarkSent, MarkFailed, IInv, TypeOK
    <3>2. v = w
      BY <3>1 DEF Owns
    <3> QED
      BY <2>3, <3>1, <3>2 DEF Skip, MarkSent, MarkFailed, IInv, TypeOK
  <2>4. CASE Tick
    BY <2>4 DEF Tick, IInv, TypeOK, Row
  <2> QED
    BY <2>1, <2>2, <2>3, <2>4 DEF Next, Send, Crash, Redeploy, outboxVars
<1>2. IInv /\ [Next]_outboxVars => [Kept]_outboxVars
  BY <1>1
<1> QED
  BY <1>2, Invariant, PTL DEF Spec, UnexpiredClaimsKept

\* mark_failed: while max_attempts stays what it is, a row that has used up its
\* attempts and is nobody's claim is DEAD.
THEOREM ExhaustedRowsDie ==
  ASSUME \A m, n \in Limits : m = n
  PROVE  Spec => []ExhaustedIsDead
<1>1. Init => ExhaustedIsDead
  BY DEF Init, ExhaustedIsDead, Absent, New
<1>2. ASSUME IInv, ExhaustedIsDead, [Next]_outboxVars PROVE ExhaustedIsDead'
  <2> USE <1>2 DEF IInv
  <2>0. limit \in Nat \ {0} /\ None \notin Workers
    BY OutboxAssumption DEF TypeOK
  <2>1. ASSUME NEW c \in Calls, Enqueue(c) \/ Withdraw(c) \/ Purge(c)
        PROVE  ExhaustedIsDead'
    BY <2>0, <2>1
    DEF Enqueue, EnqueueAll, Withdraw, Purge, Absent, New, ExhaustedIsDead, TypeOK, Row
  <2>2. ASSUME NEW w \in Workers, NEW c \in Calls, Claim(w, c)
        PROVE  ExhaustedIsDead'
    <3>1. rows'[c].token = w /\ \A d \in Calls \ {c} : rows'[d] = rows[d]
      BY <2>2 DEF Claim, TypeOK, Row
    <3> QED
      BY <2>0, <2>2, <3>1 DEF Claim, ExhaustedIsDead
  <2>3. ASSUME NEW w \in Workers, Skip(w) \/ MarkSent(w) PROVE ExhaustedIsDead'
    <3>1. \A c \in Calls : rows'[c] = rows[c] \/ rows'[c].status = "SENT"
      <4>1. ASSUME NEW r \in Row PROVE Sent(r).status = "SENT"
        BY <4>1 DEF Sent, Row
      <4>2. \A c \in Calls :
              rows[c] \in Row /\ (rows'[c] = rows[c] \/ rows'[c] = Sent(rows[c]))
        BY <2>3 DEF Skip, MarkSent, TypeOK
      <4> QED
        BY <4>1, <4>2
    <3> QED
      BY <2>3, <3>1 DEF Skip, MarkSent, ExhaustedIsDead
  <2>4. ASSUME NEW w \in Workers, MarkFailed(w) PROVE ExhaustedIsDead'
    <3>1. ASSUME NEW r \in Row PROVE Failed(r).status = "DEAD" \/ Failed(r).attempts < limit
      BY <2>0, <3>1 DEF Failed, Row
    <3>2. \A c \in Calls : rows[c] \in Row /\ (rows'[c] = rows[c] \/ rows'[c] = Failed(rows[c]))
      BY <2>4 DEF MarkFailed, TypeOK
    <3> QED
      BY <2>4, <3>1, <3>2 DEF MarkFailed, ExhaustedIsDead
  <2>5. CASE Tick
    <3>1. \A c \in Calls : /\ rows'[c].token = rows[c].token
                           /\ rows'[c].status = rows[c].status
                           /\ rows'[c].attempts = rows[c].attempts
      BY <2>5 DEF Tick, TypeOK, Row
    <3> QED
      BY <2>5, <3>1 DEF Tick, ExhaustedIsDead
  <2>6. ASSUME NEW n \in Limits, Redeploy(n) PROVE FALSE
    BY <2>6 DEF Redeploy, TypeOK
  <2>7. ASSUME NEW w \in Workers, Crash(w) \/ \E e \in BOOLEAN : Send(w, e)
        PROVE  ExhaustedIsDead'
    BY <2>7 DEF Crash, Send, ExhaustedIsDead
  <2>8. CASE UNCHANGED outboxVars
    BY <2>8 DEF outboxVars, ExhaustedIsDead
  <2> QED
    BY <2>1, <2>2, <2>3, <2>4, <2>5, <2>6, <2>7, <2>8 DEF Next
<1> QED
  BY <1>1, <1>2, Invariant, PTL DEF Spec
===============================================================================
