------------------------------ MODULE Accounts -------------------------------
(***************************************************************************)
(* AccountAccess, StaffAccess, PlanUsage, PayoutAccounts, MailCampaign,    *)
(* MailDelivery, Conversations, ProfileFiles and InterviewTimes side by    *)
(* side.  As in Recruitment a behaviour is about one of them, the scene,   *)
(* which its initial state chooses.                                        *)
(***************************************************************************)
EXTENDS AccountAccess, InterviewTimes

CONSTANTS
    Invitations, Permissions, MaxTokens,
    Plans, Basic, Allowances, Records, MaxMonths, MaxTrials,
    Accounts, Withdrawals, Details, Fees, MaxVersion, MaxQuotes,
    People, Subscribers, Segments, Letters, Notes, MaxMails,
    Applications, Keys, MaxClock,
    Files

ASSUME ScenesAssumption ==
    /\ MaxTokens \in Nat /\ MaxClock \in Nat /\ MaxMonths \in Nat \ {0}
    /\ Basic \in Plans /\ Allowances \subseteq Nat
    /\ IsFiniteSet(Records) /\ IsFiniteSet(People \cup Subscribers)
    /\ Accounts # {} /\ Details # {} /\ Fees # {} /\ Segments # {} /\ Keys # {} /\ Letters # {}
    /\ NoRow \notin Files

VARIABLES
    scene,
    invitation, drawn, accounts, grants, ledger, staffReq,
    allowance, subscribed, trials, month, record, delivered, evaluated, usageReq,
    account, fee, quotes, withdrawal, payoutReq,
    campaign, eligible, queued, campaignReq,
    willing, note, bridge, delivery, mailed, doubtful, batch,
    conversation, lastMessageAt, message, told, clock, talkReq,
    profile, file, snapshot, fileReq

S == INSTANCE StaffAccess WITH req <- staffReq, NoInvitation <- NoRow
U == INSTANCE PlanUsage WITH req <- usageReq, NoRecord <- NoRow
P == INSTANCE PayoutAccounts WITH req <- payoutReq
C == INSTANCE MailCampaign WITH
        req <- campaignReq, Users <- People, People <- People \cup Subscribers
D == INSTANCE MailDelivery WITH Batches <- Requests
T == INSTANCE Conversations WITH req <- talkReq, NoApplication <- NoRow
F == INSTANCE ProfileFiles WITH req <- fileReq, NoFile <- NoRow, NoApplication <- NoRow

staff == <<invitation, drawn, accounts, grants, ledger, staffReq>>
usage == <<allowance, subscribed, trials, month, record, delivered, evaluated, usageReq>>
payouts == <<account, fee, quotes, withdrawal, payoutReq>>
campaigns == <<campaign, eligible, queued, campaignReq>>
deliveries == <<willing, note, bridge, delivery, mailed, doubtful, batch>>
talks == <<conversation, lastMessageAt, message, told, clock, talkReq>>
files == <<profile, file, snapshot, fileReq>>
all == <<scene, accountVars, staff, usage, payouts, campaigns, deliveries, talks, files,
         timeVars>>

\* Allowances, charges, zones and moments have one initial value in the scenes of the others.
InitAll ==
    /\ scene \in {"account", "staff", "usage", "payout", "campaign", "delivery",
                  "conversation", "files", "times"}
    /\ Init /\ S!Init /\ U!Init /\ P!Init /\ C!Init /\ D!Init /\ T!Init /\ F!Init
    /\ scene # "account" => user.kind = "none"
    /\ scene # "usage" => \A p \in Plans : allowance[p] = CHOOSE n \in Allowances : TRUE
    /\ scene # "payout" => fee.charge = CHOOSE n \in Fees : TRUE
    /\ scene # "times" => zone = (CHOOSE z \in Zones : TRUE) /\ now = (CHOOSE t \in Moments : TRUE)
    /\ InitTimes

NextInScene ==
    \/ /\ scene = "account" /\ Next
       /\ UNCHANGED <<scene, timeVars, staff, usage, payouts, campaigns, deliveries, talks,
                      files>>
    \/ /\ scene = "staff" /\ S!Next
       /\ UNCHANGED <<scene, timeVars, accountVars, usage, payouts, campaigns, deliveries, talks,
                      files>>
    \/ /\ scene = "usage" /\ U!Next
       /\ UNCHANGED <<scene, timeVars, accountVars, staff, payouts, campaigns, deliveries, talks,
                      files>>
    \/ /\ scene = "payout" /\ P!Next
       /\ UNCHANGED <<scene, timeVars, accountVars, staff, usage, campaigns, deliveries, talks,
                      files>>
    \/ /\ scene = "campaign" /\ C!Next
       /\ UNCHANGED <<scene, timeVars, accountVars, staff, usage, payouts, deliveries, talks,
                      files>>
    \/ /\ scene = "delivery" /\ D!Next
       /\ UNCHANGED <<scene, timeVars, accountVars, staff, usage, payouts, campaigns, talks,
                      files>>
    \/ /\ scene = "conversation" /\ T!Next
       /\ UNCHANGED <<scene, timeVars, accountVars, staff, usage, payouts, campaigns, deliveries,
                      files>>
    \/ /\ scene = "files" /\ F!Next
       /\ UNCHANGED <<scene, timeVars, accountVars, staff, usage, payouts, campaigns, deliveries,
                      talks>>
    \/ /\ scene = "times" /\ NextTimes
       /\ UNCHANGED <<scene, accountVars, staff, usage, payouts, campaigns, deliveries, talks,
                      files>>

SpecInScene == InitAll /\ [][NextInScene]_all

-----------------------------------------------------------------------------
(* Properties of the instances *)

\* An invitation is accepted with the token that was sent last, at most once for the
\* address (acceptAdminInvitation).
AcceptedWithLastToken == S!AcceptedWithLastToken

\* A change of permissions leaves exactly the permissions it was asked for, and the audit
\* events tell what is granted (updateStaffPermissions).
PermissionsAsAsked == S!PermissionsAsAsked

\* No reservation takes a month beyond the allowance its transaction read
\* (recordAiUsageInTransaction).
AllowanceKept == U!AllowanceKept

\* A mock interview is evaluated at most once (evaluateInterview).
EvaluatedOnce == U!EvaluatedOnce

\* A withdrawal pays to the bank details its quote showed, at the charge the quote showed,
\* which is the one in force (createSeekerWithdrawal).
PaysAsQuoted == P!PaysAsQuoted

\* A campaign that counts as sent has a delivery for each recipient it reports
\* (sendCommunicationCampaign).
CampaignIsWhole == C!CampaignIsWhole

\* A mail is sent once, unless it was taken over after a quarter of an hour or the server's
\* answer was lost (processPendingEmails).
SentOnce == D!SentOnce

\* A message is stored once and in one conversation, however often it is sent
\* (sendSeekerMessage).
StoredOnce == T!StoredOnce

\* A file that the profile or an application names is stored, unless it was removed or an
\* answer was lost (updateStoredFile).
NamedFilesAreStored == F!NamedFilesAreStored

=============================================================================
