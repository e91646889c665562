-------------------------- MODULE StartWelcomeProofs --------------------------
(***************************************************************************)
(* Theorems about module StartWelcome, for any number of updates, messages *)
(* and workers.                                                            *)
(***************************************************************************)
EXTENDS StartWelcome, OutboxProofs

\* What a worker keeps of the welcome it delivers: the stage, the message sent.
Hand == [stage : {"new", "checked", "cleanup"}, message : Nat]

\* Every variable keeps its type; what was sent is numbered.
Shape ==
  /\ rows \in [Calls -> Row] /\ work \in [Workers -> Job]
  /\ hand \in [Workers -> Hand]
  /\ latest \in Nat
  /\ messages \in Seq(Updates) /\ Len(messages) <= MaxMessages
  /\ last \in 0 .. Len(messages) /\ shown \subseteq 1 .. Len(messages)

\* A worker with a message has sent it, for the call in its hand.
HandsHold ==
  \A w \in Workers :
    hand[w].message # 0 =>
      /\ hand[w].message \in 1 .. Len(messages)
      /\ work[w].result = "sent" /\ work[w].call = Welcome(messages[hand[w].message])

\* A call in hand has its row, and if it removed a message that is gone.
JobsKnown ==
  \A w \in Workers :
    /\ work[w].call = None => work[w] = Idle
    /\ work[w].call # None => rows[work[w].call].status # "ABSENT"
    /\ work[w].result = "sent" => \A m \in shown : work[w].call # Unsend(m)

\* Only messages that were sent are removed, and those recorded as removed
\* are gone.
RemovalsTrue ==
  \A m \in 1 .. MaxMessages :
    /\ rows[Unsend(m)].status # "ABSENT" => m <= Len(messages)
    /\ rows[Unsend(m)].status = "SENT" => m \notin shown

\* The recorded welcome finished the call it answers.
LastFinished == last # 0 => rows[Welcome(messages[last])].status = "SENT"

\* What a worker remembers as sent was executed.
SendsTrue ==
  \A w \in Workers : work[w].result = "sent" => work[w].call \in delivered

\* The newest /start was processed, and no welcome answers a later one.
StartsKnown ==
  /\ latest = 0 \/ latest \in registered
  /\ \A u \in Updates : rows[Welcome(u)].status # "ABSENT" => u <= latest

\* The inductive invariant.
StartInv ==
  /\ Shape /\ HandsHold /\ JobsKnown /\ RemovalsTrue /\ LastFinished /\ WelcomesAccounted
  /\ SendsTrue /\ StartsKnown /\ SentMeansAnswered

-----------------------------------------------------------------------------
(* Calls                                                                    *)

\* The calls of a chat have different names.
LEMMA Names ==
  /\ \A u, v : Welcome(u) = Welcome(v) => u = v
  /\ \A m, n : Unsend(m) = Unsend(n) => m = n
  /\ \A u, m : Welcome(u) # Unsend(m) /\ Command(u) # Unsend(m)
  /\ \A u, v : Welcome(u) # Command(v)
BY DEF Welcome, Unsend, Command

\* The answers and the removals are calls of the outbox that are delivered.
LEMMA CallsOfChat ==
  /\ \A u \in Updates : Welcome(u) \in Calls
  /\ \A m \in 1 .. MaxMessages : Unsend(m) \in Calls
<1>1. \A u \in Updates : Welcome(u) \in StartCalls \ {Command(v) : v \in Updates}
  BY Names DEF StartCalls
<1>2. \A m \in 1 .. MaxMessages : Unsend(m) \in StartCalls \ {Command(v) : v \in Updates}
  BY Names DEF StartCalls
<1> QED
  BY <1>1, <1>2, StartAssumption

\* A worker on a welcome holds the call that answers its update.
LEMMA AnsweredIs ==
  ASSUME NEW w \in Workers, IsWelcome(w)
  PROVE  Answered(w) \in Updates /\ work[w].call = Welcome(Answered(w))
BY StartAssumption DEF IsWelcome, Answered

-----------------------------------------------------------------------------
(* Rows                                                                     *)

\* A worker has the welcome of a /start that no longer is the newest.
Overtaken(w) == IsWelcome(w) /\ ~StillNewest(Answered(w))

\* What a step may make of the row of a call.
RowMoves(c) ==
  \/ rows'[c].status = rows[c].status
  \/ /\ rows[c].status = "ABSENT" /\ rows'[c].status = "PENDING"
     /\ \A m : c = Unsend(m) => m = last
     /\ \A v : c = Welcome(v) => v = latest'
  \/ /\ rows[c].status = "PENDING" /\ rows'[c].status = "SENT"
     /\ \E w \in Workers : work[w].call = c /\ (Overtaken(w) \/ work[w].result = "sent")
  \/ rows[c].status = "PENDING" /\ rows'[c].status = "DEAD"

\* An attempt ends in SENT, in DEAD or where it was.
LEMMA AttemptStatus ==
  ASSUME NEW r \in Row
  PROVE  /\ Sent(r).status = "SENT"
         /\ Failed(r).status = r.status \/ Failed(r).status = "DEAD"
BY DEF Sent, Failed, Row

\* A result is recorded in the row of a worker that still owns it.
LEMMA RecordMoves ==
  ASSUME Shape, NEW w \in Workers, work[w].call \in Calls, NEW after,
         after \in {Sent(rows[work[w].call]), Failed(rows[work[w].call])},
         after = Sent(rows[work[w].call]) => Overtaken(w) \/ work[w].result = "sent",
         rows' = [rows EXCEPT ![work[w].call] = IF Owns(w) THEN after ELSE @]
  PROVE  rows' \in [Calls -> Row] /\ \A c \in Calls : RowMoves(c)
<1> DEFINE d == work[w].call
<1>1. rows[d] \in Row
  BY DEF Shape
<1>2. Sent(rows[d]) \in Row /\ Failed(rows[d]) \in Row
  BY <1>1, RowsAfterAttempt
<1>3. rows' \in [Calls -> Row]
  BY <1>2 DEF Shape
<1>4. \A c \in Calls \ {d} : RowMoves(c)
  BY DEF Shape, RowMoves
<1>5. RowMoves(d)
  <2>1. CASE ~Owns(w)
    BY <2>1 DEF Shape, RowMoves
  <2>2. CASE Owns(w)
    <3>1. rows'[d] = after /\ rows[d].status = "PENDING"
      BY <2>2 DEF Shape, Owns
    <3>2. CASE after = Sent(rows[d])
      BY <1>1, <3>1, <3>2, AttemptStatus DEF RowMoves
    <3>3. CASE after = Failed(rows[d])
      BY <1>1, <3>1, <3>3, AttemptStatus DEF RowMoves
    <3> QED
      BY <3>2, <3>3
  <2> QED
    BY <2>1, <2>2
<1> QED
  BY <1>3, <1>4, <1>5

\* The webhook adds rows that were absent; a removal only of the recorded welcome.
LEMMA EnqueueMoves ==
  ASSUME Shape, NEW u \in Updates, ProcessStart(u)
  PROVE  rows' \in [Calls -> Row] /\ \A c \in Calls : RowMoves(c)
<1>1. PICK C : /\ EnqueueAll(C) /\ \A m : Unsend(m) \in C => m = last
               /\ \A v : Welcome(v) \in C => v = latest'
  <2>1. PICK recent \in BOOLEAN :
          EnqueueAll({Command(u)}
                       \cup (IF Newest(u) = u THEN {Welcome(u)} ELSE {})
                       \cup (IF Newest(u) = u /\ last # 0 /\ recent THEN {Unsend(last)} ELSE {}))
    BY DEF ProcessStart
  <2> DEFINE C == {Command(u)}
                    \cup (IF Newest(u) = u THEN {Welcome(u)} ELSE {})
                    \cup (IF Newest(u) = u /\ last # 0 /\ recent THEN {Unsend(last)} ELSE {})
  <2>2. (\A m : Unsend(m) \in C => m = last) /\ \A v : Welcome(v) \in C => v = latest'
    BY Names DEF ProcessStart
  <2>3. EnqueueAll(C)
    BY <2>1
  <2> QED
    BY <2>2, <2>3
<1> DEFINE entering == {c \in C \cap Calls : Enters(c)}
<1>2. rows' = [c \in Calls |-> IF c \in entering THEN New ELSE rows[c]]
  BY <1>1 DEF EnqueueAll
<1>3. New \in Row /\ New.status = "PENDING"
  BY OutboxAssumption DEF New, Row
<1>4. \A c \in entering : rows[c].status = "ABSENT" /\ c \in C
  BY StartAssumption DEF Enters
<1> HIDE DEF entering
<1>5. rows' \in [Calls -> Row]
  BY <1>2, <1>3 DEF Shape
<1>6. \A c \in Calls : RowMoves(c)
  BY <1>1, <1>2, <1>3, <1>4 DEF RowMoves
<1> QED
  BY <1>5, <1>6

\* A claim counts, stamps and leases, but leaves the status.
LEMMA ClaimMoves ==
  ASSUME Shape, NEW w \in Workers, NEW c \in Calls, Claim(w, c)
  PROVE  rows' \in [Calls -> Row] /\ \A d \in Calls : rows'[d].status = rows[d].status
<1> DEFINE again == rows[c].attempts >= limit /\ Stale(rows[c])
           n == IF again THEN rows[c].attempts ELSE rows[c].attempts + 1
           counted == [rows[c] EXCEPT !.attempts = n]
           taken == [counted EXCEPT !.token = w]
           leased == [taken EXCEPT !.lease = ClaimTTL]
<1>1. rows[c] \in Row
  BY DEF Shape
<1>2. n \in Nat /\ ClaimTTL \in 0 .. ClaimTTL
  BY <1>1, OutboxAssumption DEF Row
<1>3. rows' = [rows EXCEPT ![c] = leased]
  BY Zenon DEF Claim, leased, taken, counted, n
<1> HIDE DEF n
<1>4. counted \in Row /\ counted.status = rows[c].status
  BY <1>1, <1>2, RowColumns DEF Row
<1> HIDE DEF counted
<1>5. taken \in Row /\ taken.status = rows[c].status
  BY <1>4, RowColumns DEF Row
<1> HIDE DEF taken
<1>6. leased \in Row /\ leased.status = rows[c].status
  BY <1>2, <1>5, RowColumns DEF Row
<1> HIDE DEF leased
<1> QED
  BY <1>3, <1>6 DEF Shape

\* Time leaves the status of every row.
LEMMA TickMoves ==
  ASSUME Shape, Tick
  PROVE  rows' \in [Calls -> Row] /\ \A c \in Calls : rows'[c].status = rows[c].status
<1> SUFFICES ASSUME NEW c \in Calls
             PROVE  rows'[c] \in Row /\ rows'[c].status = rows[c].status
  BY DEF Tick
<1> DEFINE waited == [rows[c] EXCEPT !.wait = Max({0, rows[c].wait - 1})]
           leased == [waited EXCEPT !.lease = Max({0, rows[c].lease - 1})]
<1>1. rows[c] \in Row /\ rows[c].wait \in Nat /\ rows[c].lease \in 0 .. ClaimTTL /\ ClaimTTL \in Nat
  BY OutboxAssumption DEF Shape, Row
<1>2. /\ Max({0, rows[c].wait - 1}) \in Nat
      /\ Max({0, rows[c].lease - 1}) \in 0 .. ClaimTTL
  <2>1. Max({0, rows[c].wait - 1}) \in 0 .. rows[c].wait
    BY <1>1, CountDown
  <2>2. Max({0, rows[c].lease - 1}) \in 0 .. rows[c].lease
    BY <1>1, CountDown
  <2> QED
    BY <1>1, <2>1, <2>2
<1>3. rows'[c] = leased
  <2>1. rows'[c] = [rows[c] EXCEPT !.wait = Max({0, @ - 1}), !.lease = Max({0, @ - 1})]
    BY DEF Tick
  <2> QED
    BY <1>1, <2>1 DEF Row
<1>4. waited \in Row /\ waited.status = rows[c].status
  BY <1>1, <1>2, RowColumns DEF Row
<1> HIDE DEF waited
<1>5. leased \in Row /\ leased.status = rows[c].status
  BY <1>2, <1>4, RowColumns DEF Row
<1> QED
  BY <1>3, <1>5

\* Every step moves the rows as RowMoves says.
LEMMA RowsProgress ==
  ASSUME Shape, JobsKnown, StartNext
  PROVE  rows' \in [Calls -> Row] /\ \A c \in Calls : RowMoves(c)
<1>1. ASSUME NEW u \in Updates, ProcessStart(u)
      PROVE  rows' \in [Calls -> Row] /\ \A c \in Calls : RowMoves(c)
  BY <1>1, EnqueueMoves
<1>2. ASSUME NEW w \in Workers, NEW c \in Calls, ClaimCall(w, c)
      PROVE  rows' \in [Calls -> Row] /\ \A d \in Calls : RowMoves(d)
  BY <1>2, ClaimMoves DEF ClaimCall, RowMoves
<1>3. CASE Tick
  BY <1>3, TickMoves DEF RowMoves
<1>4. CASE rows' = rows
  BY <1>4 DEF Shape, RowMoves
<1>5. ASSUME NEW w \in Workers, CheckWelcome(w) \/ FinalizeWelcome(w)
      PROVE  rows' \in [Calls -> Row] /\ \A c \in Calls : RowMoves(c)
  <2>1. IsWelcome(w) /\ work[w].call \in Calls
    BY <1>5, AnsweredIs, CallsOfChat DEF CheckWelcome, FinalizeWelcome
  <2>2. \/ rows' = rows
        \/ /\ rows' = [rows EXCEPT ![work[w].call] = IF Owns(w) THEN Sent(rows[work[w].call]) ELSE @]
           /\ Overtaken(w) \/ work[w].result = "sent"
    BY <1>5, <2>1 DEF CheckWelcome, Skip, FinalizeWelcome, Overtaken, Shape
  <2> QED
    BY <1>4, <2>1, <2>2, RecordMoves
<1>6. ASSUME NEW w \in Workers, FinalizeSuccess(w)
      PROVE  rows' \in [Calls -> Row] /\ \A c \in Calls : RowMoves(c)
  <2>1. MarkSent(w) /\ work[w].result = "sent" /\ work[w].call \in Calls
    BY <1>6, OutboxAssumption DEF FinalizeSuccess, MarkSent, Shape, Job, JobsKnown, Idle
  <2>2. rows' = [rows EXCEPT ![work[w].call] = IF Owns(w) THEN Sent(rows[work[w].call]) ELSE @]
    BY <2>1 DEF MarkSent, Shape
  <2> QED
    BY <2>1, <2>2, RecordMoves
<1>7. ASSUME NEW w \in Workers, FinalizeFailure(w)
      PROVE  rows' \in [Calls -> Row] /\ \A c \in Calls : RowMoves(c)
  <2>1. MarkFailed(w) /\ work[w].result = "failed" /\ work[w].call \in Calls
    BY <1>7, OutboxAssumption DEF FinalizeFailure, MarkFailed, Shape, Job, JobsKnown, Idle
  <2>2. rows' = [rows EXCEPT ![work[w].call] = IF Owns(w) THEN Failed(rows[work[w].call]) ELSE @]
    BY <2>1 DEF MarkFailed, Shape
  <2>3. rows[work[w].call] \in Row
    BY <2>1 DEF Shape
  <2>4. CASE Owns(w)
    <3>1. Failed(rows[work[w].call]).status # "SENT"
      BY <2>3, <2>4, AttemptStatus DEF Owns
    <3>2. Failed(rows[work[w].call]) # Sent(rows[work[w].call])
      BY <2>3, <3>1, AttemptStatus
    <3> QED
      BY <2>1, <2>2, <3>2, RecordMoves
  <2>5. CASE ~Owns(w)
    <3>1. rows' = rows
      BY <2>2, <2>5 DEF Shape
    <3> QED
      BY <1>4, <3>1
  <2> QED
    BY <2>4, <2>5
<1>8. ASSUME NEW w \in Workers,
             SendWelcome(w) \/ DeleteSuperseded(w) \/ SendOther(w) \/ LoseWorker(w)
      PROVE  rows' = rows
  BY <1>8 DEF SendWelcome, DeleteSuperseded, SendOther, LoseWorker, Send, Crash
<1> QED
  BY <1>1, <1>2, <1>3, <1>4, <1>5, <1>6, <1>7, <1>8 DEF StartNext, WorkerStep

-----------------------------------------------------------------------------
(* The chat                                                                 *)

\* A step sends at most one message.
LEMMA MessagesProgress ==
  ASSUME Shape, StartNext
  PROVE  \/ messages' = messages /\ shown' \subseteq shown
         \/ \E u \in Updates :
              /\ messages' = Append(messages, u) /\ Len(messages) + 1 <= MaxMessages
              /\ shown' = shown \cup {Len(messages) + 1}
<1>1. ASSUME NEW w \in Workers, SendWelcome(w)
      PROVE  \/ messages' = messages /\ shown' \subseteq shown
             \/ \E u \in Updates :
                  /\ messages' = Append(messages, u) /\ Len(messages) + 1 <= MaxMessages
                  /\ shown' = shown \cup {Len(messages) + 1}
  BY <1>1, AnsweredIs DEF SendWelcome
<1>2. ASSUME NEW u \in Updates, ProcessStart(u) PROVE messages' = messages /\ shown' \subseteq shown
  BY <1>2 DEF ProcessStart
<1>3. ASSUME NEW w \in Workers, NEW c \in Calls, ClaimCall(w, c)
      PROVE  messages' = messages /\ shown' \subseteq shown
  BY <1>3 DEF ClaimCall, chatVars
<1>4. ASSUME NEW w \in Workers,
             CheckWelcome(w) \/ FinalizeWelcome(w) \/ DeleteSuperseded(w) \/ SendOther(w)
             \/ FinalizeSuccess(w) \/ FinalizeFailure(w) \/ LoseWorker(w)
      PROVE  messages' = messages /\ shown' \subseteq shown
  BY <1>4 DEF CheckWelcome, FinalizeWelcome, DeleteSuperseded, SendOther, FinalizeSuccess,
              FinalizeFailure, LoseWorker, chatVars
<1>5. CASE Tick /\ UNCHANGED chatVars
  BY <1>5 DEF chatVars
<1> QED
  BY <1>1, <1>2, <1>3, <1>4, <1>5 DEF StartNext, WorkerStep

\* Messages keep their numbers.
LEMMA MessagesStay ==
  ASSUME Shape, StartNext
  PROVE  /\ messages' \in Seq(Updates) /\ Len(messages) <= Len(messages') /\ Len(messages') <= MaxMessages
         /\ \A m \in 1 .. Len(messages) : messages'[m] = messages[m] /\ (m \in shown' => m \in shown)
         /\ shown' \subseteq 1 .. Len(messages')
<1>1. CASE messages' = messages /\ shown' \subseteq shown
  BY <1>1 DEF Shape
<1>2. ASSUME NEW u \in Updates, messages' = Append(messages, u), Len(messages) + 1 <= MaxMessages,
             shown' = shown \cup {Len(messages) + 1}
      PROVE  /\ messages' \in Seq(Updates) /\ Len(messages) <= Len(messages') /\ Len(messages') <= MaxMessages
             /\ \A m \in 1 .. Len(messages) : messages'[m] = messages[m] /\ (m \in shown' => m \in shown)
             /\ shown' \subseteq 1 .. Len(messages')
  <2>1. messages \in Seq(Updates) /\ Len(messages) \in Nat /\ shown \subseteq 1 .. Len(messages)
    BY DEF Shape
  <2>2. messages' \in Seq(Updates) /\ Len(messages') = Len(messages) + 1
    BY <1>2, <2>1
  <2>3. \A m \in 1 .. Len(messages) : messages'[m] = messages[m]
    BY <1>2, <2>1
  <2>4. \A m \in 1 .. Len(messages) : m \in shown' => m \in shown
    BY <1>2, <2>1
  <2>5. ASSUME NEW m \in shown' PROVE m \in 1 .. Len(messages')
    <3>1. m \in 1 .. Len(messages) \/ m = Len(messages) + 1
      BY <1>2, <2>1
    <3> QED
      BY <2>1, <2>2, <3>1
  <2>6. Len(messages) <= Len(messages') /\ Len(messages') <= MaxMessages
    BY <1>2, <2>1, <2>2
  <2> QED
    BY <2>2, <2>3, <2>4, <2>5, <2>6
<1> QED
  BY <1>1, <1>2, MessagesProgress

\* What a step may record as the welcome of the chat.
LEMMA LastMoves ==
  ASSUME Shape, HandsHold, StartNext
  PROVE  \/ last' = last
         \/ \E w \in Workers :
              /\ FinalizeWelcome(w) /\ Owns(w) /\ StillNewest(Answered(w))
              /\ last' = hand[w].message /\ last' # 0
<1>1. ASSUME NEW w \in Workers, FinalizeWelcome(w)
      PROVE  \/ last' = last
             \/ /\ Owns(w) /\ StillNewest(Answered(w))
                /\ last' = hand[w].message /\ last' # 0
  BY <1>1 DEF FinalizeWelcome
<1>2. ASSUME NEW u \in Updates, ProcessStart(u) PROVE last' = last
  BY <1>2 DEF ProcessStart
<1>3. ASSUME NEW w \in Workers, NEW c \in Calls, ClaimCall(w, c) PROVE last' = last
  BY <1>3 DEF ClaimCall, chatVars
<1>4. ASSUME NEW w \in Workers,
             CheckWelcome(w) \/ SendWelcome(w) \/ DeleteSuperseded(w) \/ SendOther(w)
             \/ FinalizeSuccess(w) \/ FinalizeFailure(w) \/ LoseWorker(w)
      PROVE  last' = last
  BY <1>4 DEF CheckWelcome, SendWelcome, DeleteSuperseded, SendOther, FinalizeSuccess,
              FinalizeFailure, LoseWorker, chatVars
<1>5. CASE Tick /\ UNCHANGED chatVars
  BY <1>5 DEF chatVars
<1> QED
  BY <1>1, <1>2, <1>3, <1>4, <1>5 DEF StartNext, WorkerStep

\* A hand with one field replaced is a hand.
LEMMA HandColumns ==
  ASSUME NEW h \in Hand
  PROVE  /\ \A v \in {"new", "checked", "cleanup"} : [h EXCEPT !.stage = v] \in Hand
         /\ \A n \in Nat : [h EXCEPT !.message = n] \in Hand
BY DEF Hand

\* Every step keeps the types.
LEMMA ShapeKept ==
  ASSUME Shape, HandsHold, JobsKnown, StartNext
  PROVE  Shape'
<1>1. rows' \in [Calls -> Row]
  BY RowsProgress
<1>2. /\ messages' \in Seq(Updates) /\ Len(messages') <= MaxMessages
      /\ Len(messages) \in Nat /\ Len(messages') \in Nat
      /\ Len(messages) <= Len(messages') /\ shown' \subseteq 1 .. Len(messages')
  BY MessagesStay DEF Shape
<1>3. last' \in 0 .. Len(messages')
  <2>1. \A w \in Workers : hand[w].message # 0 => hand[w].message \in 1 .. Len(messages)
    BY DEF HandsHold
  <2> QED
    BY <1>2, <2>1, LastMoves DEF Shape
<1>4. Idle \in Job /\ \A c \in Calls : [call |-> c, result |-> "unsent"] \in Job
  BY DEF Idle, Job
<1>5. Empty \in Hand
  BY DEF Empty, Hand
<1>6. latest' \in Nat /\ work' \in [Workers -> Job]
      /\ hand' \in [Workers -> Hand]
  <2>1. ASSUME NEW u \in Updates, ProcessStart(u)
        PROVE  latest' \in Nat /\ work' = work /\ hand' = hand
    BY <2>1, StartAssumption DEF ProcessStart, Newest, EnqueueAll, Shape
  <2>2. ASSUME NEW w \in Workers, NEW c \in Calls, ClaimCall(w, c)
        PROVE  latest' = latest /\ work' \in [Workers -> Job] /\ hand' = hand
    BY <1>4, <2>2 DEF ClaimCall, Claim, chatVars, Shape
  <2>3. ASSUME NEW w \in Workers, CheckWelcome(w)
        PROVE  latest' = latest /\ work' \in [Workers -> Job]
               /\ hand' \in [Workers -> Hand]
    <3>1. hand' = hand \/ hand' = [hand EXCEPT ![w] = [hand[w] EXCEPT !.stage = "checked"]]
      BY <2>3 DEF CheckWelcome
    <3>2. hand' \in [Workers -> Hand]
      BY <3>1, HandColumns DEF Shape
    <3> QED
      BY <1>4, <2>3, <3>2 DEF CheckWelcome, Skip, Shape
  <2>4. ASSUME NEW w \in Workers, NEW e \in BOOLEAN, Send(w, e) PROVE work' \in [Workers -> Job]
    BY <2>4 DEF Send, Shape, Job
  <2>5. ASSUME NEW w \in Workers, SendWelcome(w)
        PROVE  latest' = latest /\ work' \in [Workers -> Job]
               /\ hand' \in [Workers -> Hand]
    <3>1. work' \in [Workers -> Job]
      BY <2>4, <2>5 DEF SendWelcome
    <3>2. hand' = hand \/ hand' = [hand EXCEPT ![w] = [hand[w] EXCEPT !.message = Len(messages) + 1]]
      BY <2>5 DEF SendWelcome
    <3>3. hand[w] \in Hand /\ Len(messages) + 1 \in Nat
      BY <1>2 DEF Shape
    <3>4. [hand[w] EXCEPT !.message = Len(messages) + 1] \in Hand
      BY <3>3, HandColumns
    <3>5. hand' \in [Workers -> Hand]
      BY <3>2, <3>4 DEF Shape
    <3> QED
      BY <2>5, <3>1, <3>5 DEF SendWelcome
  <2>6. ASSUME NEW w \in Workers, FinalizeWelcome(w)
        PROVE  latest' = latest /\ work' \in [Workers -> Job]
               /\ hand' \in [Workers -> Hand]
    <3>1. \/ hand' = [hand EXCEPT ![w] = [hand[w] EXCEPT !.stage = "cleanup"]]
          \/ hand' = [hand EXCEPT ![w] = Empty]
      BY <2>6 DEF FinalizeWelcome, Shape
    <3>2. work' = work \/ work' = [work EXCEPT ![w] = Idle]
      BY <2>6 DEF FinalizeWelcome
    <3>3. [hand[w] EXCEPT !.stage = "cleanup"] \in Hand
      BY HandColumns DEF Shape
    <3>4. hand' \in [Workers -> Hand]
      BY <1>5, <3>1, <3>3 DEF Shape
    <3> QED
      BY <1>4, <2>6, <3>2, <3>4 DEF FinalizeWelcome, Shape
  <2>7. ASSUME NEW w \in Workers, SendOther(w)
        PROVE  latest' = latest /\ work' \in [Workers -> Job] /\ hand' = hand
    BY <2>4, <2>7 DEF SendOther
  <2>8. ASSUME NEW w \in Workers, DeleteSuperseded(w) \/ FinalizeFailure(w) \/ LoseWorker(w)
        PROVE  latest' = latest /\ work' = [work EXCEPT ![w] = Idle] /\ hand' = [hand EXCEPT ![w] = Empty]
    BY <2>8 DEF DeleteSuperseded, FinalizeFailure, MarkFailed, LoseWorker, Crash
  <2>9. ASSUME NEW w \in Workers, FinalizeSuccess(w)
        PROVE  latest' = latest /\ work' = [work EXCEPT ![w] = Idle] /\ hand' = hand
    BY <2>9 DEF FinalizeSuccess, MarkSent, chatVars
  <2>10. CASE Tick /\ UNCHANGED chatVars
    BY <2>10 DEF Tick, chatVars, Shape
  <2> QED
    BY <1>4, <1>5, <2>1, <2>2, <2>3, <2>5, <2>6, <2>7, <2>8, <2>9, <2>10 DEF StartNext, WorkerStep, Shape
<1> QED
  BY <1>1, <1>2, <1>3, <1>6 DEF Shape

-----------------------------------------------------------------------------
(* Messages in hand                                                         *)

\* What a step may make of the message in a worker's hand.
HandMoves(v) ==
  \/ hand'[v].message = 0
  \/ hand'[v].message = hand[v].message /\ work'[v] = work[v]
  \/ /\ hand'[v].message = Len(messages) + 1 /\ messages' = Append(messages, Answered(v))
     /\ IsWelcome(v) /\ work'[v].call = work[v].call /\ work'[v].result = "sent"

\* Who has a message in hand has a welcome in hand.
LEMMA HandsWelcome ==
  ASSUME Shape, HandsHold, NEW v \in Workers, hand[v].message # 0
  PROVE  IsWelcome(v)
<1>1. messages[hand[v].message] \in Updates
  BY DEF HandsHold, Shape
<1>2. \A u \in Updates : Welcome(u) \in Welcomes
  BY StartAssumption
<1> QED
  BY <1>1, <1>2 DEF HandsHold, IsWelcome

\* What a step may put into a hand, or leave there.
LEMMA HandsProgress ==
  ASSUME Shape, HandsHold, StartNext, NEW v \in Workers
  PROVE  HandMoves(v)
<1>1. hand[v].message # 0 => work[v].result = "sent" /\ IsWelcome(v)
  BY HandsWelcome DEF HandsHold
<1>2. Empty.message = 0 /\ Idle.result = "unsent" /\ "unsent" # "sent" /\ "failed" # "sent"
  BY DEF Empty, Idle
<1>3. ASSUME NEW u \in Updates, ProcessStart(u) PROVE HandMoves(v)
  BY <1>3 DEF ProcessStart, EnqueueAll, HandMoves
<1>4. ASSUME NEW w \in Workers, NEW c \in Calls, ClaimCall(w, c) PROVE HandMoves(v)
  BY <1>1, <1>2, <1>4 DEF ClaimCall, Claim, chatVars, HandMoves, Shape
<1>5. ASSUME NEW w \in Workers, CheckWelcome(w) PROVE HandMoves(v)
  <2>1. hand' = hand \/ hand' = [hand EXCEPT ![w].stage = "checked"]
    BY <1>5 DEF CheckWelcome
  <2>2. hand'[v].message = hand[v].message
    BY <2>1 DEF Shape, Hand
  <2>3. CASE v # w
    BY <1>5, <2>2, <2>3 DEF CheckWelcome, Skip, HandMoves, Shape
  <2>4. CASE v = w
    BY <1>1, <1>2, <1>5, <2>2, <2>4 DEF CheckWelcome, HandMoves
  <2> QED
    BY <2>3, <2>4
<1>6. ASSUME NEW w \in Workers, SendWelcome(w) PROVE HandMoves(v)
  <2>1. CASE v # w
    BY <1>6, <2>1 DEF SendWelcome, Send, HandMoves, Shape
  <2>2. CASE v = w
    <3>1. work[v].result = "unsent" /\ hand[v].message = 0 /\ IsWelcome(v)
      BY <1>1, <1>2, <1>6, <2>2 DEF SendWelcome, Send
    <3>2. CASE hand' = hand
      BY <3>1, <3>2 DEF HandMoves
    <3>3. CASE hand' # hand
      <4>1. /\ messages' = Append(messages, Answered(v)) /\ work'[v].result = "sent"
            /\ hand' = [hand EXCEPT ![v].message = Len(messages) + 1] /\ Send(v, TRUE)
        BY <1>6, <2>2, <3>3 DEF SendWelcome
      <4>2. hand'[v].message = Len(messages) + 1
        BY <4>1 DEF Shape, Hand
      <4>3. work'[v].call = work[v].call
        BY <4>1 DEF Send, Shape, Job
      <4> QED
        BY <3>1, <4>1, <4>2, <4>3 DEF HandMoves
    <3> QED
      BY <3>2, <3>3
  <2> QED
    BY <2>1, <2>2
<1>7. ASSUME NEW w \in Workers, FinalizeWelcome(w) PROVE HandMoves(v)
  <2>1. CASE v # w
    BY <1>7, <2>1 DEF FinalizeWelcome, HandMoves, Shape
  <2>2. CASE v = w
    <3>1. \/ hand' = [hand EXCEPT ![v] = [hand[v] EXCEPT !.stage = "cleanup"]] /\ work' = work
          \/ hand' = [hand EXCEPT ![v] = Empty]
      BY <1>7, <2>2 DEF FinalizeWelcome, Shape
    <3> QED
      BY <1>2, <3>1 DEF HandMoves, Shape, Hand
  <2> QED
    BY <2>1, <2>2
<1>8. ASSUME NEW w \in Workers, DeleteSuperseded(w) \/ FinalizeFailure(w) \/ LoseWorker(w)
      PROVE  HandMoves(v)
  BY <1>2, <1>8 DEF DeleteSuperseded, FinalizeFailure, MarkFailed, LoseWorker, Crash, HandMoves, Shape
<1>9. ASSUME NEW w \in Workers, SendOther(w) PROVE HandMoves(v)
  BY <1>1, <1>2, <1>9 DEF SendOther, Send, HandMoves, Shape
<1>10. ASSUME NEW w \in Workers, FinalizeSuccess(w) PROVE HandMoves(v)
  BY <1>1, <1>10 DEF FinalizeSuccess, MarkSent, chatVars, HandMoves, Shape
<1>11. CASE Tick /\ UNCHANGED chatVars
  BY <1>11 DEF Tick, chatVars, HandMoves
<1> QED
  BY <1>3, <1>4, <1>5, <1>6, <1>7, <1>8, <1>9, <1>10, <1>11 DEF StartNext, WorkerStep

\* Every step keeps the hands true.
LEMMA HandsKept ==
  ASSUME Shape, HandsHold, StartNext
  PROVE  HandsHold'
<1> SUFFICES ASSUME NEW v \in Workers, hand'[v].message # 0
             PROVE  /\ hand'[v].message \in 1 .. Len(messages')
                    /\ work'[v].result = "sent" /\ work'[v].call = Welcome(messages'[hand'[v].message])
  BY DEF HandsHold
<1>1. HandMoves(v)
  BY HandsProgress
<1>2. CASE hand'[v].message = hand[v].message /\ work'[v] = work[v]
  <2>1. /\ hand[v].message \in 1 .. Len(messages)
        /\ work[v].result = "sent" /\ work[v].call = Welcome(messages[hand[v].message])
    BY <1>2 DEF HandsHold
  <2>2. Len(messages) <= Len(messages') /\ Len(messages) \in Nat /\ Len(messages') \in Nat
    BY MessagesStay DEF Shape
  <2> QED
    BY <1>2, <2>1, <2>2, MessagesStay
<1>3. CASE /\ hand'[v].message = Len(messages) + 1 /\ messages' = Append(messages, Answered(v))
           /\ IsWelcome(v) /\ work'[v].call = work[v].call /\ work'[v].result = "sent"
  <2>1. Answered(v) \in Updates /\ work[v].call = Welcome(Answered(v))
    BY <1>3, AnsweredIs
  <2>2. messages \in Seq(Updates) /\ Len(messages) \in Nat
    BY DEF Shape
  <2>3. Len(messages') = Len(messages) + 1 /\ messages'[Len(messages) + 1] = Answered(v)
    BY <1>3, <2>1, <2>2
  <2> QED
    BY <1>3, <2>1, <2>2, <2>3
<1> QED
  BY <1>1, <1>2, <1>3 DEF HandMoves

-----------------------------------------------------------------------------
(* Calls in hand and removals                                               *)

\* What a step may make of the call in a worker's hand.
JobMoves(v) ==
  \/ work'[v] = Idle
  \/ work'[v] = work[v]
  \/ work'[v].call \in Calls /\ work'[v].result = "unsent" /\ rows[work'[v].call].status # "ABSENT"
  \/ /\ work[v].call \in Calls /\ work'[v].call = work[v].call
     /\ work'[v].result = "sent" =>
          work[v].call \in delivered' /\ \A m \in shown' : work[v].call # Unsend(m)

\* A worker remembers a call as sent only if the provider executed it.
LEMMA SendsExecuted ==
  ASSUME Shape, NEW w \in Workers, NEW e \in BOOLEAN, Send(w, e), work'[w].result = "sent"
  PROVE  work[w].call \in delivered'
BY DEF Send, Shape, Job

\* Every step moves the jobs as JobMoves says.
LEMMA JobsProgress ==
  ASSUME Shape, JobsKnown, StartNext, NEW v \in Workers
  PROVE  JobMoves(v)
<1>1. ASSUME NEW u \in Updates, ProcessStart(u) PROVE JobMoves(v)
  BY <1>1 DEF ProcessStart, EnqueueAll, JobMoves
<1>2. ASSUME NEW w \in Workers, NEW c \in Calls, ClaimCall(w, c) PROVE JobMoves(v)
  BY <1>2 DEF ClaimCall, Claim, Claimable, JobMoves, Shape
<1>3. ASSUME NEW w \in Workers, SendWelcome(w) PROVE JobMoves(v)
  <2>1. CASE v # w
    BY <1>3, <2>1 DEF SendWelcome, Send, JobMoves, Shape
  <2>2. CASE v = w
    <3>1. work[v].call \in Calls /\ \A m : work[v].call # Unsend(m)
      BY <1>3, <2>2, AnsweredIs, CallsOfChat, Names DEF SendWelcome
    <3>2. work'[v].call = work[v].call
      BY <1>3, <2>2 DEF SendWelcome, Send, Shape, Job
    <3>3. work'[v].result = "sent" => work[v].call \in delivered'
      BY <1>3, <2>2, SendsExecuted DEF SendWelcome
    <3> QED
      BY <3>1, <3>2, <3>3 DEF JobMoves
  <2> QED
    BY <2>1, <2>2
<1>4. ASSUME NEW w \in Workers, SendOther(w) PROVE JobMoves(v)
  <2>1. CASE v # w
    BY <1>4, <2>1 DEF SendOther, Send, JobMoves, Shape
  <2>2. CASE v = w
    <3>1. work[v].call \in Calls /\ work'[v].call = work[v].call
      BY <1>4, <2>2 DEF SendOther, Send, Shape, Job
    <3>2. work'[v].result = "sent" => shown' = {m \in shown : work[v].call # Unsend(m)}
      <4>1. CASE Send(w, TRUE) /\ shown' = {m \in shown : work[w].call # Unsend(m)}
        BY <2>2, <4>1
      <4>2. CASE Send(w, FALSE)
        BY <2>2, <4>2 DEF Send, Shape, Job
      <4> QED
        BY <1>4, <4>1, <4>2 DEF SendOther
    <3>3. work'[v].result = "sent" => work[v].call \in delivered'
      BY <1>4, <2>2, SendsExecuted DEF SendOther
    <3> QED
      BY <3>1, <3>2, <3>3 DEF JobMoves
  <2> QED
    BY <2>1, <2>2
<1>5. ASSUME NEW w \in Workers, CheckWelcome(w) \/ FinalizeWelcome(w) \/ DeleteSuperseded(w)
      PROVE  JobMoves(v)
  BY <1>5 DEF CheckWelcome, Skip, FinalizeWelcome, DeleteSuperseded, JobMoves, Shape
<1>6. ASSUME NEW w \in Workers, FinalizeSuccess(w) \/ FinalizeFailure(w) \/ LoseWorker(w)
      PROVE  JobMoves(v)
  BY <1>6 DEF FinalizeSuccess, MarkSent, FinalizeFailure, MarkFailed, LoseWorker, Crash, JobMoves, Shape
<1>7. CASE Tick /\ UNCHANGED chatVars
  BY <1>7 DEF Tick, JobMoves
<1> QED
  BY <1>1, <1>2, <1>3, <1>4, <1>5, <1>6, <1>7 DEF StartNext, WorkerStep

\* A row stays where there is one, and one that is finished stays finished.
LEMMA RowsStay ==
  ASSUME Shape, JobsKnown, StartNext, NEW c \in Calls, rows[c].status # "ABSENT"
  PROVE  /\ rows'[c].status # "ABSENT"
         /\ rows[c].status = "SENT" => rows'[c].status = "SENT"
BY RowsProgress DEF RowMoves

\* Every step keeps what is known of the calls in hand.
LEMMA JobsKept ==
  ASSUME Shape, JobsKnown, RemovalsTrue, StartNext
  PROVE  JobsKnown'
<1> SUFFICES ASSUME NEW v \in Workers
             PROVE  /\ work'[v].call = None => work'[v] = Idle
                    /\ work'[v].call # None => rows'[work'[v].call].status # "ABSENT"
                    /\ work'[v].result = "sent" => \A m \in shown' : work'[v].call # Unsend(m)
  BY DEF JobsKnown
<1>1. JobMoves(v)
  BY JobsProgress
<1>2. Idle.call = None /\ Idle.result # "sent" /\ None \notin Calls
  BY OutboxAssumption DEF Idle
<1>3. work[v].call \in Calls \cup {None}
  BY DEF Shape, Job
<1>4. CASE work'[v] = Idle
  BY <1>2, <1>4
<1>5. CASE work'[v] = work[v]
  <2>1. work[v].call # None => rows[work[v].call].status # "ABSENT"
    BY DEF JobsKnown
  <2>2. work'[v].call # None => rows'[work'[v].call].status # "ABSENT"
    BY <1>3, <1>5, <2>1, RowsStay
  <2>3. ASSUME work[v].result = "sent", NEW m \in shown' PROVE work[v].call # Unsend(m)
    <3>1. CASE m \in shown
      BY <2>3, <3>1 DEF JobsKnown
    <3>2. CASE m \notin shown
      <4>1. m \in 1 .. MaxMessages /\ m = Len(messages) + 1
        BY <2>3, <3>2, MessagesProgress DEF Shape
      <4>2. rows[Unsend(m)].status = "ABSENT"
        BY <4>1 DEF RemovalsTrue, Shape
      <4>3. work[v].call # None
        BY <1>2, <2>3 DEF JobsKnown
      <4> QED
        BY <2>1, <4>2, <4>3
    <3> QED
      BY <3>1, <3>2
  <2> QED
    BY <1>5, <2>2, <2>3 DEF JobsKnown
<1>6. CASE work'[v].call \in Calls /\ work'[v].result = "unsent" /\ rows[work'[v].call].status # "ABSENT"
  BY <1>2, <1>6, RowsStay
<1>7. CASE /\ work[v].call \in Calls /\ work'[v].call = work[v].call
           /\ work'[v].result = "sent" => \A m \in shown' : work[v].call # Unsend(m)
  BY <1>2, <1>7, RowsStay DEF JobsKnown
<1> QED
  BY <1>1, <1>4, <1>5, <1>6, <1>7 DEF JobMoves

\* Every step keeps the removals true: SENT is recorded by a worker that removed.
LEMMA RemovalsKept ==
  ASSUME Shape, JobsKnown, RemovalsTrue, StartNext
  PROVE  RemovalsTrue'
<1> SUFFICES ASSUME NEW m \in 1 .. MaxMessages, rows'[Unsend(m)].status # "ABSENT"
             PROVE  /\ m <= Len(messages')
                    /\ rows'[Unsend(m)].status = "SENT" => m \notin shown'
  BY DEF RemovalsTrue
<1>1. Unsend(m) \in Calls /\ RowMoves(Unsend(m))
  BY CallsOfChat, RowsProgress
<1>2. /\ Len(messages) \in Nat /\ Len(messages') \in Nat /\ Len(messages) <= Len(messages')
      /\ m \in Nat \ {0} /\ MaxMessages \in Nat
      /\ m <= Len(messages) /\ m \notin shown => m \notin shown'
  BY MessagesStay, StartAssumption DEF Shape
<1>3. CASE rows'[Unsend(m)].status = rows[Unsend(m)].status
  BY <1>2, <1>3 DEF RemovalsTrue
<1>4. CASE rows[Unsend(m)].status = "ABSENT" /\ rows'[Unsend(m)].status = "PENDING" /\ m = last
  BY <1>2, <1>4 DEF Shape
<1>5. CASE /\ rows[Unsend(m)].status = "PENDING"
           /\ \E w \in Workers : work[w].call = Unsend(m) /\ (Overtaken(w) \/ work[w].result = "sent")
  <2>1. PICK w \in Workers : work[w].call = Unsend(m) /\ (Overtaken(w) \/ work[w].result = "sent")
    BY <1>5
  <2>2. work[w].result = "sent"
    BY <2>1, AnsweredIs, Names DEF Overtaken
  <2>3. m \notin shown
    BY <2>1, <2>2 DEF JobsKnown
  <2> QED
    BY <1>2, <1>5, <2>3 DEF RemovalsTrue
<1>6. CASE rows[Unsend(m)].status = "PENDING" /\ rows'[Unsend(m)].status = "DEAD"
  BY <1>2, <1>6 DEF RemovalsTrue
<1> QED
  BY <1>1, <1>3, <1>4, <1>5, <1>6 DEF RowMoves

-----------------------------------------------------------------------------
(* Calls recorded as sent                                                   *)

\* The newest /start only ever gets newer, and is one that was processed.
LEMMA StartsProgress ==
  ASSUME Shape, StartNext
  PROVE  /\ registered \subseteq registered' /\ latest <= latest'
         /\ latest' = latest \/ latest' \in registered'
<1>1. ASSUME NEW u \in Updates, ProcessStart(u)
      PROVE  /\ registered \subseteq registered' /\ latest <= latest'
             /\ latest' = latest \/ latest' \in registered'
  BY <1>1, StartAssumption DEF ProcessStart, Newest, Shape
<1>2. CASE registered' = registered /\ latest' = latest
  BY <1>2 DEF Shape
<1>3. ASSUME NEW w \in Workers, NEW c \in Calls, ClaimCall(w, c)
      PROVE  registered' = registered /\ latest' = latest
  BY <1>3 DEF ClaimCall, chatVars
<1>4. ASSUME NEW w \in Workers, WorkerStep(w) \/ LoseWorker(w)
      PROVE  registered' = registered /\ latest' = latest
  BY <1>4 DEF WorkerStep, CheckWelcome, SendWelcome, FinalizeWelcome, DeleteSuperseded,
              SendOther, FinalizeSuccess, FinalizeFailure, LoseWorker, chatVars
<1>5. CASE Tick /\ UNCHANGED chatVars
  BY <1>2, <1>5 DEF chatVars
<1> QED
  BY <1>1, <1>2, <1>3, <1>4, <1>5 DEF StartNext

\* An execution is forgotten only when the call is enqueued for the first time.
LEMMA DeliveredStays ==
  ASSUME StartNext, NEW c \in delivered, rows[c].status # "ABSENT"
  PROVE  c \in delivered'
<1>1. ASSUME NEW u \in Updates, ProcessStart(u) PROVE c \in delivered'
  <2>1. PICK C : EnqueueAll(C)
    BY <1>1 DEF ProcessStart
  <2>2. ~Enters(c)
    BY StartAssumption DEF Enters
  <2> QED
    BY <2>1, <2>2 DEF EnqueueAll
<1>2. ASSUME NEW w \in Workers, NEW d \in Calls, ClaimCall(w, d) PROVE delivered' = delivered
  BY <1>2 DEF ClaimCall, Claim
<1>3. ASSUME NEW w \in Workers, NEW e \in BOOLEAN, Send(w, e) PROVE delivered \subseteq delivered'
  BY <1>3 DEF Send
<1>4. ASSUME NEW w \in Workers, SendWelcome(w) \/ SendOther(w) PROVE delivered \subseteq delivered'
  BY <1>3, <1>4 DEF SendWelcome, SendOther
<1>5. ASSUME NEW w \in Workers,
             CheckWelcome(w) \/ FinalizeWelcome(w) \/ DeleteSuperseded(w)
             \/ FinalizeSuccess(w) \/ FinalizeFailure(w) \/ LoseWorker(w)
      PROVE  delivered' = delivered
  BY <1>5 DEF CheckWelcome, Skip, FinalizeWelcome, DeleteSuperseded, FinalizeSuccess, MarkSent,
              FinalizeFailure, MarkFailed, LoseWorker, Crash
<1>6. CASE Tick
  BY <1>6 DEF Tick
<1> QED
  BY <1>1, <1>2, <1>4, <1>5, <1>6 DEF StartNext, WorkerStep

\* Every step keeps what workers remember as sent true.
LEMMA SendsKept ==
  ASSUME Shape, JobsKnown, SendsTrue, StartNext
  PROVE  SendsTrue'
<1> SUFFICES ASSUME NEW v \in Workers, work'[v].result = "sent"
             PROVE  work'[v].call \in delivered'
  BY DEF SendsTrue
<1>1. JobMoves(v)
  BY JobsProgress
<1>2. Idle.result # "sent"
  BY DEF Idle
<1>3. CASE work'[v] = work[v]
  <2>1. work[v].call \in delivered /\ work[v].call # None
    BY <1>2, <1>3 DEF SendsTrue, JobsKnown
  <2>2. rows[work[v].call].status # "ABSENT"
    BY <2>1 DEF JobsKnown
  <2> QED
    BY <1>3, <2>1, <2>2, DeliveredStays
<1> QED
  BY <1>1, <1>2, <1>3 DEF JobMoves

\* Every step keeps the welcomes behind the newest /start.
LEMMA StartsKept ==
  ASSUME Shape, HandsHold, JobsKnown, StartsKnown, StartNext
  PROVE  StartsKnown'
<1>1. latest' = 0 \/ latest' \in registered'
  BY StartsProgress DEF StartsKnown
<1>2. ASSUME NEW u \in Updates, rows'[Welcome(u)].status # "ABSENT" PROVE u <= latest'
  <2>1. /\ latest \in Nat /\ latest' \in Nat /\ latest <= latest' /\ u \in Nat
    BY ShapeKept, StartsProgress, StartAssumption DEF Shape
  <2>2. RowMoves(Welcome(u))
    BY CallsOfChat, RowsProgress
  <2>3. rows[Welcome(u)].status # "ABSENT" => u <= latest
    BY DEF StartsKnown
  <2> QED
    BY <1>2, <2>1, <2>2, <2>3 DEF RowMoves
<1> QED
  BY <1>1, <1>2 DEF StartsKnown

\* Every step records as sent what was executed or what a newer /start overtook.
LEMMA AnswersKept ==
  ASSUME Shape, JobsKnown, SendsTrue, StartsKnown, SentMeansAnswered, StartNext
  PROVE  SentMeansAnswered'
<1> SUFFICES ASSUME NEW c \in Calls, rows'[c].status = "SENT"
             PROVE  \/ c \in delivered'
                    \/ \E u \in Updates : c = Welcome(u) /\ \E v \in registered' : v > u
  BY DEF SentMeansAnswered
<1>1. RowMoves(c) /\ registered \subseteq registered'
  BY RowsProgress, StartsProgress
<1>2. CASE rows[c].status = "SENT"
  BY <1>1, <1>2, DeliveredStays DEF SentMeansAnswered
<1>3. ASSUME rows[c].status = "PENDING", NEW w \in Workers, work[w].call = c,
             Overtaken(w) \/ work[w].result = "sent"
      PROVE  \/ c \in delivered'
             \/ \E u \in Updates : c = Welcome(u) /\ \E v \in registered' : v > u
  <2>1. CASE work[w].result = "sent"
    BY <1>3, <2>1, DeliveredStays DEF SendsTrue
  <2>2. CASE Overtaken(w)
    <3>1. PICK u \in Updates : c = Welcome(u) /\ latest # u
      BY <1>3, <2>2, AnsweredIs DEF Overtaken, StillNewest
    <3>2. u <= latest /\ u \in Nat \ {0} /\ latest \in Nat
      BY <1>3, <3>1, StartAssumption DEF StartsKnown, Shape
    <3>3. latest > u /\ latest \in registered
      BY <3>1, <3>2 DEF StartsKnown
    <3> QED
      BY <1>1, <3>1, <3>3
  <2> QED
    BY <1>3, <2>1, <2>2
<1> QED
  BY <1>1, <1>2, <1>3 DEF RowMoves

-----------------------------------------------------------------------------
(* The recorded welcome                                                     *)

\* Every step keeps the call of the recorded welcome finished.
LEMMA LastKept ==
  ASSUME Shape, HandsHold, JobsKnown, LastFinished, StartNext
  PROVE  LastFinished'
<1> SUFFICES ASSUME last' # 0 PROVE rows'[Welcome(messages'[last'])].status = "SENT"
  BY DEF LastFinished
<1>1. CASE last' = last
  <2>1. last \in 1 .. Len(messages) /\ messages[last] \in Updates
    BY <1>1 DEF Shape
  <2>2. messages'[last'] = messages[last] /\ Welcome(messages[last]) \in Calls
    BY <1>1, <2>1, MessagesStay, CallsOfChat
  <2> QED
    BY <1>1, <2>2, RowsStay DEF LastFinished
<1>2. ASSUME NEW w \in Workers, FinalizeWelcome(w), Owns(w), last' = hand[w].message
      PROVE  rows'[Welcome(messages'[last'])].status = "SENT"
  <2>1. /\ work[w].call = Welcome(messages[last']) /\ messages' = messages
        /\ messages[last'] \in Updates
    BY <1>2 DEF HandsHold, FinalizeWelcome, Shape
  <2>2. work[w].call \in Calls /\ rows[work[w].call] \in Row
    BY <2>1, CallsOfChat DEF Shape
  <2>3. rows'[work[w].call] = Sent(rows[work[w].call])
    BY <1>2, <2>2 DEF FinalizeWelcome, Shape
  <2> QED
    BY <2>1, <2>2, <2>3, AttemptStatus
<1> QED
  BY <1>1, <1>2, LastMoves

\* An answer is recorded once: its call has its row no longer then.
LEMMA RecordedOnce ==
  ASSUME Shape, HandsHold, LastFinished, StartNext, last # 0, messages[last] = latest
  PROVE  last' = last
<1> SUFFICES ASSUME NEW w \in Workers, FinalizeWelcome(w), Owns(w), StillNewest(Answered(w)) PROVE FALSE
  BY LastMoves
<1>1. work[w].call = Welcome(latest)
  BY AnsweredIs DEF FinalizeWelcome, StillNewest
<1>2. rows[Welcome(latest)].status = "SENT"
  BY DEF LastFinished
<1> QED
  BY <1>1, <1>2 DEF Owns

-----------------------------------------------------------------------------
(* Every welcome that is shown                                              *)

\* What has been given up stays so.
LEMMA AbandonedGrows == ASSUME StartNext PROVE abandoned \subseteq abandoned'
<1>1. ASSUME NEW u \in Updates, ProcessStart(u) PROVE abandoned \subseteq abandoned'
  BY <1>1 DEF ProcessStart
<1>2. ASSUME NEW w \in Workers, NEW c \in Calls, ClaimCall(w, c) PROVE abandoned' = abandoned
  BY <1>2 DEF ClaimCall, chatVars
<1>3. ASSUME NEW w \in Workers, SendWelcome(w) \/ DeleteSuperseded(w) \/ LoseWorker(w)
      PROVE  abandoned \subseteq abandoned'
  BY <1>3 DEF SendWelcome, DeleteSuperseded, LoseWorker
<1>4. ASSUME NEW w \in Workers,
             CheckWelcome(w) \/ FinalizeWelcome(w) \/ SendOther(w) \/ FinalizeSuccess(w) \/ FinalizeFailure(w)
      PROVE  abandoned' = abandoned
  BY <1>4 DEF CheckWelcome, FinalizeWelcome, SendOther, FinalizeSuccess, FinalizeFailure, chatVars
<1>5. CASE Tick /\ UNCHANGED chatVars
  BY <1>5 DEF chatVars
<1> QED
  BY <1>1, <1>2, <1>3, <1>4, <1>5 DEF StartNext, WorkerStep

\* A message leaves the hand of its worker recorded, removed or given up.
LEMMA HandLeft ==
  ASSUME Shape, HandsHold, StartNext, NEW v \in Workers, NEW m \in shown', hand[v].message = m, m # 0
  PROVE  \/ hand'[v].message = m
         \/ m = last' /\ messages'[m] = latest'
         \/ m \in abandoned'
<1>1. /\ work[v].result = "sent" /\ IsWelcome(v) /\ work[v].call = Welcome(messages[m])
      /\ "sent" # "unsent" /\ "sent" # "failed" /\ Idle.result = "unsent"
  BY HandsWelcome DEF HandsHold, Idle
<1>2. ASSUME NEW u \in Updates, ProcessStart(u) PROVE hand'[v].message = m
  BY <1>2 DEF ProcessStart
<1>3. ASSUME NEW w \in Workers, NEW c \in Calls, ClaimCall(w, c) PROVE hand'[v].message = m
  BY <1>3 DEF ClaimCall, chatVars
<1>4. ASSUME NEW w \in Workers, CheckWelcome(w) \/ SendWelcome(w) PROVE hand'[v].message = m
  <2>1. w # v
    BY <1>1, <1>4 DEF CheckWelcome, SendWelcome, Send
  <2> QED
    BY <1>4, <2>1 DEF CheckWelcome, SendWelcome, Shape
<1>5. ASSUME NEW w \in Workers, FinalizeWelcome(w)
      PROVE  hand'[v].message = m \/ (m = last' /\ messages'[m] = latest')
  <2>1. CASE w # v
    BY <1>5, <2>1 DEF FinalizeWelcome, Shape
  <2>2. CASE w = v
    <3>1. Answered(v) = messages[m]
      BY <1>1, AnsweredIs, Names
    <3>2. CASE Owns(v) /\ StillNewest(Answered(v))
      BY <1>5, <2>2, <3>1, <3>2 DEF FinalizeWelcome, StillNewest
    <3>3. CASE ~(Owns(v) /\ StillNewest(Answered(v)))
      <4>1. hand' = [hand EXCEPT ![v] = [hand[v] EXCEPT !.stage = "cleanup"]]
        BY <1>5, <2>2, <3>3 DEF FinalizeWelcome, Shape
      <4> QED
        BY <4>1 DEF Shape, Hand
    <3> QED
      BY <3>2, <3>3
  <2> QED
    BY <2>1, <2>2
<1>6. ASSUME NEW w \in Workers, DeleteSuperseded(w) PROVE hand'[v].message = m \/ m \in abandoned'
  BY <1>6 DEF DeleteSuperseded, Shape
<1>7. ASSUME NEW w \in Workers, SendOther(w) \/ FinalizeSuccess(w) PROVE hand'[v].message = m
  BY <1>7 DEF SendOther, FinalizeSuccess, chatVars
<1>8. ASSUME NEW w \in Workers, FinalizeFailure(w) PROVE hand'[v].message = m
  BY <1>1, <1>8 DEF FinalizeFailure, MarkFailed, Shape
<1>9. ASSUME NEW w \in Workers, LoseWorker(w) PROVE hand'[v].message = m \/ m \in abandoned'
  BY <1>9 DEF LoseWorker, Shape
<1>10. CASE Tick /\ UNCHANGED chatVars
  BY <1>10 DEF chatVars
<1> QED
  BY <1>2, <1>3, <1>4, <1>5, <1>6, <1>7, <1>8, <1>9, <1>10 DEF StartNext, WorkerStep

\* A message that was just sent is in its worker's hand, or its number is lost.
LEMMA NewMessage ==
  ASSUME Shape, StartNext, NEW m \in shown', m \notin shown
  PROVE  (\E w \in Workers : hand'[w].message = m) \/ m \in abandoned'
<1>1. ASSUME NEW w \in Workers, SendWelcome(w)
      PROVE  hand'[w].message = m \/ m \in abandoned'
  <2>1. m = Len(messages) + 1
    BY <1>1 DEF SendWelcome
  <2> QED
    BY <1>1, <2>1 DEF SendWelcome, Shape, Hand
<1>2. ASSUME NEW u \in Updates, ProcessStart(u) PROVE FALSE
  BY <1>2 DEF ProcessStart
<1>3. ASSUME NEW w \in Workers, NEW c \in Calls, ClaimCall(w, c) PROVE FALSE
  BY <1>3 DEF ClaimCall, chatVars
<1>4. ASSUME NEW w \in Workers,
             CheckWelcome(w) \/ FinalizeWelcome(w) \/ DeleteSuperseded(w) \/ SendOther(w)
             \/ FinalizeSuccess(w) \/ FinalizeFailure(w) \/ LoseWorker(w)
      PROVE  FALSE
  BY <1>4 DEF CheckWelcome, FinalizeWelcome, DeleteSuperseded, SendOther, FinalizeSuccess,
              FinalizeFailure, LoseWorker, chatVars
<1>5. CASE Tick /\ UNCHANGED chatVars
  BY <1>5 DEF chatVars
<1> QED
  BY <1>1, <1>2, <1>3, <1>4, <1>5 DEF StartNext, WorkerStep

\* A newer /start puts the removal of the recorded welcome in the outbox, or
\* leaves the welcome alone because it is too old.
LEMMA LatestMoves ==
  ASSUME Shape, StartNext, last # 0
  PROVE  latest' = latest \/ rows'[Unsend(last)].status # "ABSENT" \/ last \in abandoned'
<1>1. ASSUME NEW u \in Updates, ProcessStart(u), latest' # latest, last \notin abandoned'
      PROVE  rows'[Unsend(last)].status # "ABSENT"
  <2>1. Newest(u) = u
    BY <1>1 DEF ProcessStart, Newest
  <2>2. PICK C : EnqueueAll(C) /\ Unsend(last) \in C
    <3>1. PICK recent \in BOOLEAN :
            /\ EnqueueAll({Command(u)}
                            \cup (IF Newest(u) = u THEN {Welcome(u)} ELSE {})
                            \cup (IF Newest(u) = u /\ last # 0 /\ recent THEN {Unsend(last)} ELSE {}))
            /\ abandoned' = abandoned \cup (IF Newest(u) = u /\ last # 0 /\ ~recent THEN {last} ELSE {})
      BY <1>1 DEF ProcessStart
    <3>2. recent
      BY <1>1, <2>1, <3>1
    <3> DEFINE C == {Command(u)}
                      \cup (IF Newest(u) = u THEN {Welcome(u)} ELSE {})
                      \cup (IF Newest(u) = u /\ last # 0 /\ recent THEN {Unsend(last)} ELSE {})
    <3>3. EnqueueAll(C) /\ Unsend(last) \in C
      BY <2>1, <3>1, <3>2
    <3> QED
      BY <3>3
  <2>3. Unsend(last) \in Calls
    <3>1. last \in 1 .. MaxMessages
      BY StartAssumption DEF Shape
    <3> QED
      BY <3>1, CallsOfChat
  <2>4. rows'[Unsend(last)] = IF Enters(Unsend(last)) THEN New ELSE rows[Unsend(last)]
    BY <2>2, <2>3 DEF EnqueueAll
  <2>5. New.status # "ABSENT"
    BY DEF New
  <2> QED
    BY <2>4, <2>5 DEF Enters
<1>2. ASSUME NEW w \in Workers, NEW c \in Calls, ClaimCall(w, c) PROVE latest' = latest
  BY <1>2 DEF ClaimCall, chatVars
<1>3. ASSUME NEW w \in Workers,
             CheckWelcome(w) \/ SendWelcome(w) \/ FinalizeWelcome(w) \/ DeleteSuperseded(w)
             \/ SendOther(w) \/ FinalizeSuccess(w) \/ FinalizeFailure(w) \/ LoseWorker(w)
      PROVE  latest' = latest
  BY <1>3 DEF CheckWelcome, SendWelcome, FinalizeWelcome, DeleteSuperseded, SendOther,
              FinalizeSuccess, FinalizeFailure, LoseWorker, chatVars
<1>4. CASE Tick /\ UNCHANGED chatVars
  BY <1>4 DEF chatVars
<1> QED
  BY <1>1, <1>2, <1>3, <1>4 DEF StartNext, WorkerStep

\* Every step keeps every shown welcome accounted for.
LEMMA WelcomesKept ==
  ASSUME StartInv, StartNext
  PROVE  WelcomesAccounted'
<1> USE DEF StartInv
<1> SUFFICES ASSUME NEW m \in shown'
             PROVE  \/ m = last' /\ messages'[m] = latest'
                    \/ \E w \in Workers : hand'[w].message = m
                    \/ rows'[Unsend(m)].status \in {"PENDING", "DEAD"}
                    \/ m \in abandoned'
  BY DEF WelcomesAccounted
<1>1. rows'[Unsend(m)].status # "ABSENT" => rows'[Unsend(m)].status \in {"PENDING", "DEAD"}
  <2>1. Shape' /\ RemovalsTrue'
    BY ShapeKept, RemovalsKept
  <2>2. m \in 1 .. MaxMessages
    BY <2>1, StartAssumption DEF Shape
  <2>3. Unsend(m) \in Calls
    BY <2>2, CallsOfChat
  <2>4. rows'[Unsend(m)] \in Row
    BY <2>1, <2>3 DEF Shape
  <2> QED
    BY <2>1, <2>2, <2>4 DEF RemovalsTrue, Row
<1>2. CASE m \notin shown
  BY <1>2, NewMessage
<1>3. CASE m \in shown
  <2>1. m \in 1 .. Len(messages) /\ m # 0 /\ messages'[m] = messages[m] /\ Unsend(m) \in Calls
    <3>1. m \in 1 .. Len(messages) /\ m \in 1 .. MaxMessages
      BY <1>3, StartAssumption DEF Shape
    <3> QED
      BY <3>1, MessagesStay, CallsOfChat
  <2>2. CASE m = last /\ messages[m] = latest
    BY <1>1, <2>1, <2>2, RecordedOnce, LatestMoves
  <2>3. ASSUME NEW w \in Workers, hand[w].message = m
        PROVE  hand'[w].message = m \/ (m = last' /\ messages'[m] = latest') \/ m \in abandoned'
    BY <2>1, <2>3, HandLeft
  <2>4. CASE rows[Unsend(m)].status \in {"PENDING", "DEAD"}
    BY <1>1, <2>1, <2>4, RowsStay
  <2>5. CASE m \in abandoned
    BY <2>5, AbandonedGrows
  <2> QED
    BY <1>3, <2>2, <2>3, <2>4, <2>5 DEF WelcomesAccounted
<1> QED
  BY <1>2, <1>3

-----------------------------------------------------------------------------
(* Theorems                                                                 *)

\* An empty chat satisfies the invariant.
LEMMA StartBeginning == StartInit => StartInv
<1> SUFFICES ASSUME StartInit PROVE StartInv
  OBVIOUS
<1>1. /\ rows = [c \in Calls |-> Absent] /\ work = [w \in Workers |-> Idle]
      /\ latest = 0 /\ last = 0 /\ messages = <<>> /\ shown = {} /\ hand = [w \in Workers |-> Empty]
  BY DEF StartInit, Init
<1>2. Absent \in Row /\ Absent.status = "ABSENT" /\ Idle \in Job /\ Empty \in Hand
      /\ Empty.message = 0 /\ Idle.call = None /\ Idle.result = "unsent"
  BY OutboxAssumption DEF Absent, New, Row, Idle, Job, Empty, Hand
<1>3. Shape
  BY <1>1, <1>2, StartAssumption DEF Shape
<1>4. HandsHold /\ JobsKnown /\ LastFinished /\ WelcomesAccounted /\ SendsTrue
  BY <1>1, <1>2 DEF HandsHold, JobsKnown, LastFinished, WelcomesAccounted, SendsTrue
<1>5. RemovalsTrue
  BY <1>1, <1>2, CallsOfChat DEF RemovalsTrue
<1>6. StartsKnown /\ SentMeansAnswered
  BY <1>1, <1>2, CallsOfChat DEF StartsKnown, SentMeansAnswered
<1> QED
  BY <1>3, <1>4, <1>5, <1>6 DEF StartInv

\* Every step keeps the invariant.
LEMMA StartInvKept == StartInv /\ [StartNext]_startVars => StartInv'
<1>1. StartInv /\ StartNext => StartInv'
  BY ShapeKept, HandsKept, JobsKept, RemovalsKept, LastKept, WelcomesKept,
     SendsKept, StartsKept, AnswersKept DEF StartInv
<1>2. StartInv /\ UNCHANGED startVars => StartInv'
  BY DEF StartInv, startVars, Shape, HandsHold, JobsKnown, RemovalsTrue, LastFinished,
         WelcomesAccounted, SendsTrue, StartsKnown, SentMeansAnswered
<1> QED
  BY <1>1, <1>2

\* Whatever order, loss or repetition of /start messages, answers and removals,
\* the chat shows the recorded answer to the newest /start, and of any other
\* welcome somebody still takes care, unless a named failure lost it.
THEOREM WelcomesAreAccounted == StartSpec => []WelcomesAccounted
<1>1. StartInv => WelcomesAccounted
  BY DEF StartInv
<1> QED
  BY <1>1, StartBeginning, StartInvKept, PTL DEF StartSpec

\* run_worker_once: a welcome is recorded as sent without having been executed
\* only after a newer /start, in whatever order /start messages arrive and
\* workers look at the chat, call the provider and write.
THEOREM SentIsAnswered == StartSpec => []SentMeansAnswered
<1>1. StartInv => SentMeansAnswered
  BY DEF StartInv
<1> QED
  BY <1>1, StartBeginning, StartInvKept, PTL DEF StartSpec
=============================================================================
