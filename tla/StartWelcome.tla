----------------------------- MODULE StartWelcome -----------------------------
(***************************************************************************)
(* The answer to /start in one Telegram chat: the webhook removes the      *)
(* command and the previous welcome and enqueues a new one; the outbox     *)
(* workers send it only while its /start is the newest, and remove what    *)
(* they sent when it no longer is.  Webhook deliveries may be repeated,    *)
(* overlap and arrive out of order.                                        *)
(***************************************************************************)
EXTENDS Outbox, Sequences

CONSTANTS
  Updates,      \* update ids of the /start messages in the chat
  MaxMessages   \* bound on the welcomes sent

Command(u) == <<"command", u>>
Welcome(u) == <<"welcome", u>>
Unsend(m)  == <<"unsend", m>>

\* The calls that the chat gives rise to.  Removing a command concerns no other
\* call, so an instance need not follow it.
StartCalls ==
  {Command(u) : u \in Updates} \cup {Welcome(u) : u \in Updates}
    \cup {Unsend(m) : m \in 1 .. MaxMessages}

ASSUME StartAssumption ==
  /\ Updates \subseteq Nat \ {0}
  /\ MaxMessages \in Nat
  /\ StartCalls \ {Command(u) : u \in Updates} \subseteq Calls
  /\ Calls \subseteq StartCalls /\ Requeuable = {}
  /\ Welcomes = {Welcome(u) : u \in Updates}

VARIABLES
  registered,  \* telegram_updates: updates that were processed
  latest,      \* latest_start_update_id; 0 before the first /start
  last,        \* last_welcome_message_id; 0 before the first welcome
  messages,    \* the update that each welcome so far answered, by message id
  shown,       \* welcomes that the chat shows
  hand,        \* how far each worker is with a welcome, and its message id
  abandoned    \* welcomes that a failure put beyond everybody's reach

chatVars  == <<registered, latest, last, messages, shown, hand, abandoned>>
startVars == <<rows, work, delivered, limit, crashes,
               registered, latest, last, messages, shown, hand, abandoned>>

Empty == [stage |-> "new", message |-> 0]

-----------------------------------------------------------------------------
(* The webhook                                                              *)

\* Mutant: whichever /start is processed last counts as the newest.
NewestArrived(u) == u

Newest(u) == IF latest < u THEN u ELSE latest

\* One webhook transaction; an update that was processed before is ignored.
\* A welcome past the time in which Telegram deletes messages is left alone.
ProcessStart(u) ==
  /\ u \notin registered
  /\ registered' = registered \cup {u}
  /\ latest' = Newest(u)
  /\ \E recent \in BOOLEAN :
       LET answers  == Newest(u) = u
           replaces == answers /\ last # 0
       IN /\ EnqueueAll({Command(u)}
                          \cup (IF answers THEN {Welcome(u)} ELSE {})
                          \cup (IF replaces /\ recent THEN {Unsend(last)} ELSE {}))
          /\ abandoned' = abandoned \cup (IF replaces /\ ~recent THEN {last} ELSE {})
  /\ UNCHANGED <<last, messages, shown, hand>>

-----------------------------------------------------------------------------
(* The workers                                                              *)

IsWelcome(w) == work[w].call \in Welcomes

Answered(w) == CHOOSE u \in Updates : work[w].call = Welcome(u)

\* Mutant: a welcome is recorded whatever came in since.
StillNewestAlways(u) == TRUE

StillNewest(u) == latest = u

ClaimCall(w, c) == Claim(w, c) /\ UNCHANGED chatVars

\* A welcome that is no longer wanted is recorded as sent without being sent.
CheckWelcome(w) ==
  /\ IsWelcome(w) /\ work[w].result = "unsent" /\ hand[w].stage = "new"
  /\ \/ /\ StillNewest(Answered(w))
        /\ hand' = [hand EXCEPT ![w].stage = "checked"]
        /\ UNCHANGED <<rows, work>>
        /\ UNCHANGED <<delivered, limit, crashes>>
     \/ ~StillNewest(Answered(w)) /\ Skip(w) /\ UNCHANGED hand
  /\ UNCHANGED <<registered, latest, last, messages, shown, abandoned>>

\* If Telegram shows the welcome, its message id comes back with the answer,
\* unless the answer is lost or does not carry one.
SendWelcome(w) ==
  LET m == Len(messages) + 1 IN
  /\ IsWelcome(w) /\ hand[w].stage = "checked" /\ m <= MaxMessages
  /\ \/ /\ Send(w, TRUE)
        /\ messages' = Append(messages, Answered(w))
        /\ shown' = shown \cup {m}
        /\ \/ /\ work'[w].result = "sent"
              /\ hand' = [hand EXCEPT ![w].message = m]
              /\ UNCHANGED abandoned
           \/ /\ abandoned' = abandoned \cup {m}
              /\ UNCHANGED hand
     \/ Send(w, FALSE) /\ UNCHANGED <<messages, shown, hand, abandoned>>
  /\ UNCHANGED <<registered, latest, last>>

\* The row and the chat's state are written together, if the claim is still
\* the worker's own; a message that is not recorded has to go.
FinalizeWelcome(w) ==
  LET m == hand[w].message
      records == Owns(w) /\ StillNewest(Answered(w)) /\ m # 0
      cleans  == m # 0 /\ ~records
  IN /\ IsWelcome(w) /\ work[w].result = "sent" /\ hand[w].stage = "checked"
     /\ rows' = [rows EXCEPT ![work[w].call] = IF Owns(w) THEN Sent(@) ELSE @]
     /\ last' = IF records THEN m ELSE last
     /\ hand' = [hand EXCEPT ![w] = IF cleans THEN [@ EXCEPT !.stage = "cleanup"]
                                              ELSE Empty]
     /\ work' = IF cleans THEN work ELSE [work EXCEPT ![w] = Idle]
     /\ UNCHANGED <<delivered, limit, crashes,
                    registered, latest, messages, shown, abandoned>>

\* One attempt to delete the message, outside the outbox.
DeleteSuperseded(w) ==
  LET m == hand[w].message IN
  /\ hand[w].stage = "cleanup"
  /\ \/ shown' = shown \ {m} /\ UNCHANGED abandoned
     \/ abandoned' = abandoned \cup {m} /\ UNCHANGED shown
  /\ hand' = [hand EXCEPT ![w] = Empty]
  /\ work' = [work EXCEPT ![w] = Idle]
  /\ UNCHANGED <<rows, delivered, limit, crashes,
                 registered, latest, last, messages>>

\* Any other call: the removal of a command or of an earlier welcome.
SendOther(w) ==
  /\ ~IsWelcome(w)
  /\ \/ Send(w, TRUE) /\ shown' = {m \in shown : work[w].call # Unsend(m)}
     \/ Send(w, FALSE) /\ UNCHANGED shown
  /\ UNCHANGED <<registered, latest, last, messages, hand, abandoned>>

FinalizeSuccess(w) == ~IsWelcome(w) /\ MarkSent(w) /\ UNCHANGED chatVars

FinalizeFailure(w) ==
  /\ MarkFailed(w)
  /\ hand' = [hand EXCEPT ![w] = Empty]
  /\ UNCHANGED <<registered, latest, last, messages, shown, abandoned>>

LoseWorker(w) ==
  /\ Crash(w)
  /\ hand' = [hand EXCEPT ![w] = Empty]
  /\ abandoned' = abandoned \cup ({hand[w].message} \ {0})
  /\ UNCHANGED <<registered, latest, last, messages, shown>>

-----------------------------------------------------------------------------
StartInit ==
  /\ Init
  /\ registered = {} /\ latest = 0 /\ last = 0
  /\ messages = <<>> /\ shown = {} /\ abandoned = {}
  /\ hand = [w \in Workers |-> Empty]

WorkerStep(w) ==
  \/ CheckWelcome(w) \/ SendWelcome(w) \/ FinalizeWelcome(w)
  \/ DeleteSuperseded(w)
  \/ SendOther(w) \/ FinalizeSuccess(w) \/ FinalizeFailure(w)

StartNext ==
  \/ \E u \in Updates : ProcessStart(u)
  \/ \E w \in Workers :
       \/ \E c \in Calls : ClaimCall(w, c)
       \/ WorkerStep(w) \/ LoseWorker(w)
  \/ Tick /\ UNCHANGED chatVars

StartSpec == StartInit /\ [][StartNext]_startVars

\* The lease covers two provider timeouts and a margin, which the worker checks
\* when it starts: a worker that is alive is done before its lease runs out.
TimelyStartNext ==
  /\ StartNext
  /\ \A w \in Workers :
       work[w] # Idle /\ work'[w] = work[w] /\ Owns(w) => rows'[work[w].call].lease > 0

\* Workers keep polling and every call to the provider times out.  Rows are
\* claimed in the order of available_at, so none is passed over for ever.
StartFairness ==
  /\ \A c \in Calls : SF_startVars(\E w \in Workers : ClaimCall(w, c))
  /\ \A w \in Workers : WF_startVars(WorkerStep(w))
  /\ WF_startVars(Tick /\ UNCHANGED chatVars)

FairStartSpec == StartInit /\ [][TimelyStartNext]_startVars /\ StartFairness

-----------------------------------------------------------------------------
(* Properties                                                               *)

\* The chat shows one welcome, the recorded answer to the newest /start.  Any
\* other that it still shows is about to be dealt with by the worker that sent
\* it, has its removal in the outbox, or was lost to a named failure.
WelcomesAccounted ==
  \A m \in shown :
    \/ m = last /\ messages[m] = latest
    \/ \E w \in Workers : hand[w].message = m
    \/ rows[Unsend(m)].status \in {"PENDING", "DEAD"}
    \/ m \in abandoned

\* A welcome recorded as sent was executed by Telegram, or a newer /start came in
\* that made it unwanted; every other call recorded as sent was executed.
SentMeansAnswered ==
  \A c \in Calls :
    rows[c].status = "SENT" =>
      \/ c \in delivered
      \/ \E u \in Updates : c = Welcome(u) /\ \E v \in registered : v > u

\* The newest /start is answered by a recorded welcome, unless a newer one
\* comes in, its welcome is given up, or Telegram's answer does not say which
\* message it is.
NewestStartAnswered ==
  \A u \in Updates :
    (u \in registered /\ \A v \in registered : v <= u)
      ~> \/ \E v \in registered : v > u
         \/ last # 0 /\ messages[last] = u
         \/ rows[Welcome(u)].status = "DEAD"
         \/ \E m \in abandoned : messages[m] = u
===============================================================================
