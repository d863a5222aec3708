---------------------------- MODULE MailDelivery -----------------------------
(***************************************************************************)
(* E-mail deliveries: they are queued for a campaign or a notification and *)
(* worked off in batches.                                                  *)
(*                                                                         *)
(* Source: email.service.js and notification.service.js.  Batches take no  *)
(* row lock: a delivery is claimed by an UPDATE that names the status it   *)
(* was listed with, and every later write names the row only.  A           *)
(* notification may be created inside a transaction, while the task that   *)
(* queues its mail runs on a connection of its own.  The process may die   *)
(* between any two steps, and the answer of the mail server may be lost.   *)
(*                                                                         *)
(* Texts, addresses and the pause before a retry are left out; a           *)
(* PROCESSING delivery is listed when it has been so for 15 minutes.       *)
(***************************************************************************)
EXTENDS Integers, FiniteSets

CONSTANTS
    Letters,        \* deliveries of campaigns
    Notes,          \* notifications that are also sent by mail
    Batches,        \* runs of processPendingEmails
    MaxMails        \* bound: mails of one delivery

VARIABLES
    willing,        \* letters whose recipient is active and has not opted out
    note,           \* Notification rows
    bridge,         \* notifications whose queueNotificationEmail has not run yet
    delivery,       \* EmailDelivery.status
    mailed,         \* history: mails the server has accepted
    doubtful,       \* history: deliveries taken over, or whose answer was lost
    batch           \* control state of each batch, at the delivery it works on

deliveryVars == <<willing, note, bridge, delivery, mailed, doubtful, batch>>

-----------------------------------------------------------------------------
(* State *)

Mails == Letters \cup Notes

Statuses == {"none", "PENDING", "PROCESSING", "SENT", "FAILED", "SUPPRESSED"}

\* saw: the status the delivery was listed with.
Batch == [pc : {"idle", "listed", "claimed", "sending", "accepted", "refused"},
          x : Mails, saw : Statuses]

Idle == [pc |-> "idle", x |-> CHOOSE x \in Mails : TRUE, saw |-> "none"]

TypeOK ==
    /\ willing \subseteq Letters
    /\ note \in [Notes -> {"none", "uncommitted", "committed", "undone"}]
    /\ bridge \subseteq Notes
    /\ delivery \in [Mails -> Statuses]
    /\ mailed \in [Mails -> Nat]
    /\ doubtful \subseteq Mails
    /\ batch \in [Batches -> Batch]

Init ==
    /\ willing = Letters
    /\ note = [n \in Notes |-> "none"]
    /\ bridge = {}
    /\ delivery = [x \in Mails |-> "none"]
    /\ mailed = [x \in Mails |-> 0]
    /\ doubtful = {}
    /\ batch = [b \in Batches |-> Idle]

-----------------------------------------------------------------------------
(* Helpers *)

\* Mistakes: the UPDATE names the row only; the delivery does not name its notification.
AnyStatus(x, saw) == TRUE

\* updateMany { id, status: delivery.status }
StillAs(x, saw) == delivery[x] = saw

\* The foreign key EmailDelivery.notificationId.
Visible(n) == note[n] = "committed"

\* queueEmail: an insert, or the row that was there (P2002).
Queued(x) == delivery' = [delivery EXCEPT ![x] = IF @ = "none" THEN "PENDING" ELSE @]

\* recheckCampaignDelivery
Recheck(x) == x \in Letters => x \in willing

Written(x, status) == delivery' = [delivery EXCEPT ![x] = status]
Keep(b, q) == batch' = [batch EXCEPT ![b] = q]

-----------------------------------------------------------------------------
(* Queueing *)

\* sendCommunicationCampaign
QueueLetter(x) ==
    /\ x \in willing
    /\ Queued(x)
    /\ UNCHANGED <<willing, note, bridge, mailed, doubtful, batch>>

OptOut(x) ==
    /\ x \in willing
    /\ willing' = willing \ {x}
    /\ UNCHANGED <<note, bridge, delivery, mailed, doubtful, batch>>

\* createNotification, in the transaction of its caller or in none; setImmediate starts
\* queueNotificationEmail.
Notify(n, inTransaction) ==
    /\ note[n] = "none"
    /\ note' = [note EXCEPT ![n] = IF inTransaction THEN "uncommitted" ELSE "committed"]
    /\ bridge' = bridge \cup {n}
    /\ UNCHANGED <<willing, delivery, mailed, doubtful, batch>>

EndTransaction(n, outcome) ==
    /\ note[n] = "uncommitted"
    /\ outcome \in {"committed", "undone"}
    /\ note' = [note EXCEPT ![n] = outcome]
    /\ UNCHANGED <<willing, bridge, delivery, mailed, doubtful, batch>>

\* An insert that the foreign key refuses is logged.
QueueNote(n) ==
    /\ n \in bridge
    /\ bridge' = bridge \ {n}
    /\ IF Visible(n) THEN Queued(n) ELSE UNCHANGED delivery
    /\ UNCHANGED <<willing, note, mailed, doubtful, batch>>

-----------------------------------------------------------------------------
(* Batches *)

\* processPendingEmails lists what is due, and what has been PROCESSING for 15 minutes ...
List(b, x) ==
    /\ batch[b] = Idle
    /\ delivery[x] \in {"PENDING", "FAILED", "PROCESSING"}
    /\ mailed[x] < MaxMails
    /\ doubtful' = IF delivery[x] = "PROCESSING" THEN doubtful \cup {x} ELSE doubtful
    /\ Keep(b, [pc |-> "listed", x |-> x, saw |-> delivery[x]])
    /\ UNCHANGED <<willing, note, bridge, delivery, mailed>>

\* ... claims the delivery ...
Claim(b) ==
    LET q == batch[b] IN
    /\ q.pc = "listed"
    /\ IF StillAs(q.x, q.saw)
       THEN Written(q.x, "PROCESSING") /\ Keep(b, [q EXCEPT !.pc = "claimed"])
       ELSE UNCHANGED delivery /\ Keep(b, Idle)
    /\ UNCHANGED <<willing, note, bridge, mailed, doubtful>>

\* ... asks again whether the recipient wants it, and counts the attempt ...
Prepare(b) ==
    LET q == batch[b] IN
    /\ q.pc = "claimed"
    /\ IF Recheck(q.x)
       THEN Written(q.x, "PROCESSING") /\ Keep(b, [q EXCEPT !.pc = "sending"])
       ELSE Written(q.x, "SUPPRESSED") /\ Keep(b, Idle)
    /\ UNCHANGED <<willing, note, bridge, mailed, doubtful>>

\* ... hands it to the server, whose answer may be lost ...
Send(b, accepted, told) ==
    LET x == batch[b].x IN
    /\ batch[b].pc = "sending"
    /\ told => accepted
    /\ mailed' = IF accepted THEN [mailed EXCEPT ![x] = @ + 1] ELSE mailed
    /\ doubtful' = IF accepted /\ ~told THEN doubtful \cup {x} ELSE doubtful
    /\ Keep(b, [batch[b] EXCEPT !.pc = IF told THEN "accepted" ELSE "refused"])
    /\ UNCHANGED <<willing, note, bridge, delivery>>

\* ... and records the outcome.
Record(b) ==
    LET q == batch[b] IN
    /\ q.pc \in {"accepted", "refused"}
    /\ Written(q.x, IF q.pc = "accepted" THEN "SENT" ELSE "FAILED")
    /\ Keep(b, Idle)
    /\ UNCHANGED <<willing, note, bridge, mailed, doubtful>>

\* The process dies, or a statement fails and ends the batch.
Abort(b) ==
    /\ batch[b] # Idle
    /\ Keep(b, Idle)
    /\ UNCHANGED <<willing, note, bridge, delivery, mailed, doubtful>>

-----------------------------------------------------------------------------
(* Specification *)

BatchStep(b) ==
    \/ \E x \in Mails : List(b, x)
    \/ Claim(b)
    \/ Prepare(b)
    \/ \E accepted, told \in BOOLEAN : Send(b, accepted, told)
    \/ Record(b)
    \/ Abort(b)

Next ==
    \/ \E x \in Letters : QueueLetter(x) \/ OptOut(x)
    \/ \E n \in Notes :
         \/ \E inTransaction \in BOOLEAN : Notify(n, inTransaction)
         \/ \E outcome \in {"committed", "undone"} : EndTransaction(n, outcome)
         \/ QueueNote(n)
    \/ \E b \in Batches : BatchStep(b)

Spec == Init /\ [][Next]_deliveryVars

-----------------------------------------------------------------------------
(* Properties *)

\* A mail is sent once, by whichever batch claims it, unless it was taken over after a
\* quarter of an hour or the server's answer was lost (processPendingEmails).
SentOnce == \A x \in Mails : mailed[x] > 1 => x \in doubtful

=============================================================================
