---------------------------- MODULE MailCampaign -----------------------------
(***************************************************************************)
(* A mail campaign: an administrator drafts it, edits it and sends it to   *)
(* the people of its segment who accept such mail.                         *)
(*                                                                         *)
(* Source: adminCommunications.service.js, emailPreference.service.js and  *)
(* publicJobUpdates.service.js.                                            *)
(* The campaign is claimed by a conditional UPDATE and every other write   *)
(* names its row only.  Its deliveries are inserted side by side, each     *)
(* unique for its recipient: when one fails, the campaign is a draft again *)
(* while the others still come in.  The process may die between any two    *)
(* steps.  What becomes of a delivery is the subject of MailDelivery;      *)
(* texts and templates are left out.                                       *)
(***************************************************************************)
EXTENDS Integers, FiniteSets

CONSTANTS
    People,         \* registered users and public subscribers
    Users,          \* ... those who are registered
    Segments,       \* the sets of people a campaign may be addressed to
    Requests

VARIABLES
    campaign,
    eligible,       \* active people who have not opted out
    queued,         \* people who have an EmailDelivery of the campaign
    req

campaignVars == <<campaign, eligible, queued, req>>

-----------------------------------------------------------------------------
(* State *)

Campaign == [status : {"DRAFT", "SENDING", "SENT"}, segment : Segments, recipientCount : Nat]

\* to: the recipients still to be queued.
Request == [pc : {"idle", "edit", "read", "found", "queueing", "failing", "late"},
            segment : Segments, to : SUBSET People]

AnySegment == CHOOSE g \in Segments : TRUE

Idle == [pc |-> "idle", segment |-> AnySegment, to |-> {}]

TypeOK ==
    /\ campaign \in Campaign
    /\ eligible \subseteq People
    /\ queued \subseteq People
    /\ req \in [Requests -> Request]

Init ==
    /\ campaign = [status |-> "DRAFT", segment |-> AnySegment, recipientCount |-> 0]
    /\ eligible = Users
    /\ queued = {}
    /\ req = [r \in Requests |-> Idle]

-----------------------------------------------------------------------------
(* Helpers *)

\* updateMany { id, status: 'DRAFT' }; the mistake names the row only.
AnyCampaign == TRUE
Claimable == campaign.status = "DRAFT"

Keep(r, q) == req' = [req EXCEPT ![r] = q]
Answer(r) == Keep(r, Idle)

-----------------------------------------------------------------------------
(* Draft *)

\* updatePromotionalCampaign reads a draft ...
BeginEdit(r, g) ==
    /\ req[r] = Idle
    /\ campaign.status = "DRAFT"
    /\ Keep(r, [Idle EXCEPT !.pc = "edit", !.segment = g])
    /\ UNCHANGED <<campaign, eligible, queued>>

\* ... and writes its fields, whatever has become of it.
FinishEdit(r) ==
    /\ req[r].pc = "edit"
    /\ campaign' = [campaign EXCEPT !.segment = req[r].segment]
    /\ Answer(r)
    /\ UNCHANGED <<eligible, queued>>

\* updateEmailPreferences and unsubscribeMarketingEmail
ChangePreference(p, enabled) ==
    /\ p \in Users
    /\ eligible' = IF enabled THEN eligible \cup {p} ELSE eligible \ {p}
    /\ UNCHANGED <<campaign, queued, req>>

\* subscribeToJobUpdates: the row is upserted by its address.
Subscribe(p) ==
    /\ p \notin Users
    /\ eligible' = eligible \cup {p}
    /\ UNCHANGED <<campaign, queued, req>>

\* unsubscribeFromJobUpdates
Unsubscribe(p) ==
    /\ p \notin Users
    /\ eligible' = eligible \ {p}
    /\ UNCHANGED <<campaign, queued, req>>

-----------------------------------------------------------------------------
(* Sending *)

\* sendCommunicationCampaign reads the draft ...
BeginSend(r) ==
    /\ req[r] = Idle
    /\ campaign.status = "DRAFT"
    /\ Keep(r, [Idle EXCEPT !.pc = "read", !.segment = campaign.segment])
    /\ UNCHANGED <<campaign, eligible, queued>>

\* ... getEligibleCampaignRecipients ...
FindRecipients(r) ==
    LET to == req[r].segment \cap eligible IN
    /\ req[r].pc = "read"
    /\ Keep(r, IF to = {} THEN Idle ELSE [req[r] EXCEPT !.pc = "found", !.to = to])
    /\ UNCHANGED <<campaign, eligible, queued>>

\* ... claims it ...
ClaimCampaign(r) ==
    LET q == req[r] IN
    /\ q.pc = "found"
    /\ IF Claimable
       THEN /\ campaign' = [campaign EXCEPT !.status = "SENDING",
                                            !.recipientCount = Cardinality(q.to)]
            /\ Keep(r, [q EXCEPT !.pc = "queueing"])
       ELSE Answer(r) /\ UNCHANGED campaign
    /\ UNCHANGED <<eligible, queued>>

\* ... and inserts the deliveries in any order, the rest of them also after one has failed.
QueueOne(r, p) ==
    LET q == req[r] IN
    /\ q.pc \in {"queueing", "failing", "late"}
    /\ p \in q.to
    /\ queued' = queued \cup {p}
    /\ Keep(r, IF q.pc = "late" /\ q.to = {p} THEN Idle ELSE [q EXCEPT !.to = @ \ {p}])
    /\ UNCHANGED <<campaign, eligible>>

QueueFails(r, p) ==
    /\ req[r].pc = "queueing"
    /\ p \in req[r].to
    /\ Keep(r, [req[r] EXCEPT !.pc = "failing", !.to = @ \ {p}])
    /\ UNCHANGED <<campaign, eligible, queued>>

\* The catch block; an error of its own is ignored.
Reopen(r, written) ==
    LET q == req[r] IN
    /\ q.pc = "failing"
    /\ campaign' = IF written THEN [campaign EXCEPT !.status = "DRAFT"] ELSE campaign
    /\ Keep(r, IF q.to = {} THEN Idle ELSE [q EXCEPT !.pc = "late"])
    /\ UNCHANGED <<eligible, queued>>

\* The try block does not await the last UPDATE: its failure is an Abort.
FinishSend(r) ==
    /\ req[r].pc = "queueing"
    /\ req[r].to = {}
    /\ campaign' = [campaign EXCEPT !.status = "SENT"]
    /\ Answer(r)
    /\ UNCHANGED <<eligible, queued>>

\* The process dies, or a statement fails that no catch block handles.
Abort(r) ==
    /\ req[r] # Idle
    /\ Answer(r)
    /\ UNCHANGED <<campaign, eligible, queued>>

-----------------------------------------------------------------------------
(* Specification *)

RequestStep(r) ==
    \/ \E g \in Segments : BeginEdit(r, g)
    \/ FinishEdit(r)
    \/ BeginSend(r)
    \/ FindRecipients(r)
    \/ ClaimCampaign(r)
    \/ \E p \in People : QueueOne(r, p) \/ QueueFails(r, p)
    \/ \E written \in BOOLEAN : Reopen(r, written)
    \/ FinishSend(r)
    \/ Abort(r)

Next ==
    \/ \E p \in People :
         \/ \E enabled \in BOOLEAN : ChangePreference(p, enabled)
         \/ Subscribe(p)
         \/ Unsubscribe(p)
    \/ \E r \in Requests : RequestStep(r)

Spec == Init /\ [][Next]_campaignVars

-----------------------------------------------------------------------------
(* Properties *)

\* A campaign that counts as sent has a delivery for each of the recipients it reports,
\* although it may have failed half-way, been edited, or been sent by two administrators
\* at once (sendCommunicationCampaign).
CampaignIsWhole ==
    campaign.status = "SENT" => Cardinality(queued) >= campaign.recipientCount

=============================================================================
