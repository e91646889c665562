-------------------------------- MODULE Outbox --------------------------------
(***************************************************************************)
(* The transactional outbox of Telegram calls, and the e-mail outbox that  *)
(* works the same way.  Business transactions insert rows; workers claim   *)
(* one row at a time under a lease, call the provider outside of any       *)
(* transaction and then record the result if the claim is still theirs.    *)
(*                                                                         *)
(* Time is counted in ticks of no particular length: a row knows how long  *)
(* it has to wait until it is available and how long its lease lasts.      *)
(***************************************************************************)
EXTENDS Integers, FiniteSets, FiniteSetsExt

CONSTANTS
  Calls,        \* dedupe keys of the calls that may be enqueued
  Requeuable,   \* calls about access requests, enqueued with requeue_dead
  Welcomes,     \* answers to /start, looked at again before they are sent
  Workers,      \* worker processes
  Limits,       \* values max_attempts takes from one deployment to the next
  ClaimTTL,     \* length of a lease
  MaxCrashes,   \* bound on worker crashes and failed finalizations
  None          \* no call, no claim

ASSUME OutboxAssumption ==
  /\ Requeuable \subseteq Calls /\ Welcomes \subseteq Calls
  /\ Limits \subseteq Nat \ {0} /\ Limits # {}
  /\ ClaimTTL \in Nat \ {0}
  /\ MaxCrashes \in Nat
  /\ None \notin Calls /\ None \notin Workers

VARIABLES
  rows,       \* the outbox table; ABSENT where there is no row
  work,       \* what each worker has in hand
  delivered,  \* calls the provider has executed since they were enqueued
  limit,      \* max_attempts of the running deployment
  crashes     \* crashes so far

outboxVars == <<rows, work, delivered, limit, crashes>>

\* A claim's token is a fresh random id.  A worker has one claim at a time, so
\* its own name distinguishes its claim from every other live one.
Row == [status   : {"ABSENT", "PENDING", "SENT", "DEAD"},
        attempts : Nat,
        wait     : Nat,
        token    : Workers \cup {None},
        lease    : 0 .. ClaimTTL]

New    == [status |-> "PENDING", attempts |-> 0, wait |-> 0,
           token |-> None, lease |-> 0]
Absent == [New EXCEPT !.status = "ABSENT"]

\* What a worker has in hand, and what came of it so far.
Job  == [call : Calls \cup {None}, result : {"unsent", "sent", "failed"}]
Idle == [call |-> None, result |-> "unsent"]

-----------------------------------------------------------------------------
\* A row that is there already is left alone, except a DEAD one that is
\* enqueued again on purpose.
Enters(c) ==
  \/ rows[c].status = "ABSENT"
  \/ rows[c].status = "DEAD" /\ c \in Requeuable

EnqueueAll(C) ==
  LET entering == {c \in C \cap Calls : Enters(c)} IN
  /\ rows' = [c \in Calls |-> IF c \in entering THEN New ELSE rows[c]]
  /\ delivered' = delivered \ entering
  /\ UNCHANGED <<work, limit, crashes>>

Enqueue(c) == Enters(c) /\ EnqueueAll({c})

\* Mutant: a claimed row is up for grabs at once.
StaleAtOnce(r) == r.token # None

\* Mutant: nobody looks for claims that were lost.
StaleNever(r) == FALSE

\* The lease has run out.
Stale(r) == r.token # None /\ r.lease = 0

Claimable(r) ==
  /\ r.status = "PENDING" /\ r.wait = 0
  /\ r.attempts < limit \/ Stale(r)
  /\ r.token = None \/ Stale(r)

\* A final attempt whose worker was lost is repeated without being counted.
Claim(w, c) ==
  LET r == rows[c]
      again == r.attempts >= limit /\ Stale(r)
  IN /\ work[w] = Idle /\ Claimable(r)
     /\ rows' = [rows EXCEPT ![c] =
                   [r EXCEPT !.attempts = IF again THEN r.attempts
                                                   ELSE r.attempts + 1,
                             !.token = w, !.lease = ClaimTTL]]
     /\ work' = [work EXCEPT ![w] = [call |-> c, result |-> "unsent"]]
     /\ UNCHANGED <<delivered, limit, crashes>>

\* The provider executes the call and says so; executes it and the answer is
\* lost; or does not execute it.
Send(w, executed) ==
  LET c == work[w].call IN
  /\ c # None /\ work[w].result = "unsent"
  /\ delivered' = IF executed THEN delivered \cup {c} ELSE delivered
  /\ \/ executed /\ work' = [work EXCEPT ![w].result = "sent"]
     \/ work' = [work EXCEPT ![w].result = "failed"]
  /\ UNCHANGED <<rows, limit, crashes>>

\* Mutant: the row is found by its id alone.
OwnsById(w) == rows[work[w].call].status = "PENDING"

\* The row is still claimed under the worker's token.
Owns(w) ==
  /\ rows[work[w].call].status = "PENDING"
  /\ rows[work[w].call].token = w

\* Delay before the next attempt.
RetryDelay(attempts) == Min({300, 2 ^ Max({0, Min({attempts - 1, 8})})})

Sent(r) == [r EXCEPT !.status = "SENT", !.token = None, !.lease = 0]

\* Mutant: the last attempt is retried like any other.
FailedNeverDead(r) ==
  [r EXCEPT !.token = None, !.lease = 0, !.wait = RetryDelay(r.attempts)]

Failed(r) ==
  LET released == [r EXCEPT !.token = None, !.lease = 0] IN
  IF r.attempts >= limit THEN [released EXCEPT !.status = "DEAD"]
                         ELSE [released EXCEPT !.wait = RetryDelay(r.attempts)]

MarkSent(w) ==
  LET c == work[w].call IN
  /\ work[w].result = "sent"
  /\ rows' = [rows EXCEPT ![c] = IF Owns(w) THEN Sent(@) ELSE @]
  /\ work' = [work EXCEPT ![w] = Idle]
  /\ UNCHANGED <<delivered, limit, crashes>>

MarkFailed(w) ==
  LET c == work[w].call IN
  /\ work[w].result = "failed"
  /\ rows' = [rows EXCEPT ![c] = IF Owns(w) THEN Failed(@) ELSE @]
  /\ work' = [work EXCEPT ![w] = Idle]
  /\ UNCHANGED <<delivered, limit, crashes>>

\* A welcome that is no longer wanted is recorded as sent without a call to the
\* provider.  Whether it still is wanted depends on the chat, which an instance
\* may follow; here it may be either.
Skip(w) ==
  LET c == work[w].call IN
  /\ c \in Welcomes /\ work[w].result = "unsent"
  /\ rows' = [rows EXCEPT ![c] = IF Owns(w) THEN Sent(@) ELSE @]
  /\ work' = [work EXCEPT ![w] = Idle]
  /\ UNCHANGED <<delivered, limit, crashes>>

\* A worker dies, or an exception in its iteration makes it forget the claim;
\* the row stays as it is.
Crash(w) ==
  /\ work[w] # Idle /\ crashes < MaxCrashes
  /\ crashes' = crashes + 1
  /\ work' = [work EXCEPT ![w] = Idle]
  /\ UNCHANGED <<rows, delivered, limit>>

\* A deployment restarts the workers, perhaps with another limit.
Redeploy(n) ==
  /\ n # limit /\ limit' = n
  /\ work' = [w \in Workers |-> Idle]
  /\ UNCHANGED <<rows, delivered, crashes>>

\* The reset of an account withdraws the call about its access request, unless
\* a worker has it.
Withdraw(c) ==
  /\ c \in Requeuable
  /\ rows[c].status = "PENDING" /\ rows[c].token = None
  /\ rows' = [rows EXCEPT ![c].status = "DEAD"]
  /\ UNCHANGED <<work, delivered, limit, crashes>>

\* Retention removes finished rows; it never meets a claimed one.
Purge(c) ==
  /\ rows[c].status \in {"SENT", "DEAD"} /\ rows[c].token = None
  /\ rows' = [rows EXCEPT ![c] = Absent]
  /\ UNCHANGED <<work, delivered, limit, crashes>>

Tick ==
  /\ \E c \in Calls : rows[c].wait > 0 \/ rows[c].lease > 0
  /\ rows' = [c \in Calls |->
                [rows[c] EXCEPT !.wait = Max({0, @ - 1}), !.lease = Max({0, @ - 1})]]
  /\ UNCHANGED <<work, delivered, limit, crashes>>

-----------------------------------------------------------------------------
Init ==
  /\ rows = [c \in Calls |-> Absent]
  /\ work = [w \in Workers |-> Idle]
  /\ delivered = {}
  /\ limit \in Limits
  /\ crashes = 0

Next ==
  \/ \E c \in Calls : Enqueue(c) \/ Withdraw(c) \/ Purge(c)
  \/ \E w \in Workers :
       \/ \E c \in Calls : Claim(w, c)
       \/ \E executed \in BOOLEAN : Send(w, executed)
       \/ Skip(w) \/ MarkSent(w) \/ MarkFailed(w) \/ Crash(w)
  \/ \E n \in Limits : Redeploy(n)
  \/ Tick

Spec == Init /\ [][Next]_outboxVars

-----------------------------------------------------------------------------
(* Properties                                                               *)

\* Every variable keeps its type, and a lease belongs to a claim.
TypeOK ==
  /\ rows \in [Calls -> Row]
  /\ work \in [Workers -> Job]
  /\ delivered \subseteq Calls
  /\ limit \in Limits
  /\ crashes \in 0 .. MaxCrashes
  /\ \A c \in Calls : rows[c].token # None => rows[c].status = "PENDING"

\* Until its lease runs out, a claim is ended by nobody but the worker that
\* holds it: not by a worker that held the row before, by a second claim, by
\* retention or by enqueueing the call again.
UnexpiredClaimsKept ==
  [][\A c \in Calls, w \in Workers :
       rows[c].token = w /\ rows[c].lease > 0 /\ rows'[c].token # w =>
         work[w].call = c /\ work'[w] = Idle]_outboxVars

\* A call is recorded as sent only if the provider has executed it.  An answer to
\* /start may also have been skipped: when it may is StartWelcome's business.
SentMeansDelivered ==
  \A c \in Calls \ Welcomes : rows[c].status = "SENT" => c \in delivered

\* A row that has used up its attempts and is nobody's claim is DEAD: it does
\* not linger as PENDING where no worker would take it.
ExhaustedIsDead ==
  \A c \in Calls :
    rows[c].status = "PENDING" /\ rows[c].token = None => rows[c].attempts < limit

\* Every call that was enqueued is eventually sent or given up.
CallsSettle ==
  \A c \in Calls :
    rows[c].status = "PENDING" ~> rows[c].status \in {"SENT", "DEAD", "ABSENT"}
===============================================================================
