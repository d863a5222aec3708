---------------------------- MODULE Conversations ----------------------------
(***************************************************************************)
(* The conversations of one seeker and one employer, one for each          *)
(* application, and their messages.                                        *)
(*                                                                         *)
(* Source: conversation.service.js and message.service.js.  Both sides     *)
(* open a conversation and send messages with the same statements: a read  *)
(* outside any transaction, then an insert that a unique index may refuse, *)
(* in which case the row of the other request is read and answered.  The   *)
(* transaction of a message holds its key until it commits.  A client that *)
(* got no answer sends the message again, with the same clientMessageId.   *)
(*                                                                         *)
(* Messages without a clientMessageId are always new and are left out, as  *)
(* are texts, and notifications, whose failure is ignored.                 *)
(***************************************************************************)
EXTENDS Integers, FiniteSets

CONSTANTS
    Applications,
    Keys,           \* values of clientMessageId
    Requests,
    MaxClock,       \* bound: the time at which the last message is inserted
    NoApplication

VARIABLES
    conversation,   \* for each application, the number of its Conversation rows
    lastMessageAt,
    message,        \* committed Message rows
    told,           \* what the answers to the senders said
    clock,
    req

conversationVars == <<conversation, lastMessageAt, message, told, clock, req>>

-----------------------------------------------------------------------------
(* State *)

Sides == {"seeker", "employer"}

\* at: createdAt
Message == [in : Applications, sender : Sides, key : Keys, at : 1..MaxClock, read : BOOLEAN]

Request == [pc : {"idle", "open", "reopen", "send", "inserted", "resend"}, side : Sides,
            in : Applications \cup {NoApplication}, key : Keys, at : 0..MaxClock]

Idle == [pc |-> "idle", side |-> "seeker", in |-> NoApplication,
         key |-> CHOOSE k \in Keys : TRUE, at |-> 0]

TypeOK ==
    /\ conversation \in [Applications -> Nat]
    /\ lastMessageAt \in [Applications -> 0..MaxClock]
    /\ message \subseteq Message
    /\ told \subseteq [sender : Sides, key : Keys, at : 1..MaxClock]
    /\ clock \in 0..MaxClock
    /\ req \in [Requests -> Request]

Init ==
    /\ conversation = [a \in Applications |-> 0]
    /\ lastMessageAt = [a \in Applications |-> 0]
    /\ message = {}
    /\ told = {}
    /\ clock = 0
    /\ req = [r \in Requests |-> Idle]

-----------------------------------------------------------------------------
(* Helpers *)

\* Mistakes: one of the unique indexes is missing.
NeverTaken(side, key) == FALSE

\* The rows an index of committed rows finds.
Sent(side, key) == {m \in message : m.sender = side /\ m.key = key}

\* @@unique([senderId, clientMessageId])
Taken(side, key) == Sent(side, key) # {}

\* An insert waits for the transaction that has inserted the key and not yet ended.
KeyFree(side, key) ==
    \A r \in Requests : ~(req[r].pc = "inserted" /\ req[r].side = side /\ req[r].key = key)

\* applicationId @unique
IsNew(a) == conversation[a] = 0

\* assertSeekerConversation and assertEmployerConversation
Exists(a) == conversation[a] > 0

Keep(r, q) == req' = [req EXCEPT ![r] = q]
Answer(r) == Keep(r, Idle)

\* The client is told of a message, unless the connection is lost.
Tell(r, m, arrives) ==
    /\ told' = IF arrives THEN told \cup {[sender |-> m.sender, key |-> m.key, at |-> m.at]}
               ELSE told
    /\ Answer(r)

-----------------------------------------------------------------------------
(* Opening *)

\* getOrCreateConversationForApplication and getOrCreateEmployerConversationForApplication
\* look for the conversation ...
BeginOpen(r, side, a) ==
    /\ req[r] = Idle
    /\ ~Exists(a)
    /\ Keep(r, [Idle EXCEPT !.pc = "open", !.side = side, !.in = a])
    /\ UNCHANGED <<conversation, lastMessageAt, message, told, clock>>

\* ... create it, which another request may have done meanwhile ...
CreateConversation(r) ==
    LET a == req[r].in IN
    /\ req[r].pc = "open"
    /\ IF IsNew(a)
       THEN conversation' = [conversation EXCEPT ![a] = @ + 1] /\ Answer(r)
       ELSE Keep(r, [req[r] EXCEPT !.pc = "reopen"]) /\ UNCHANGED conversation
    /\ UNCHANGED <<lastMessageAt, message, told, clock>>

\* ... and then answer the other's.
FindConcurrent(r) ==
    /\ req[r].pc = "reopen"
    /\ Answer(r)
    /\ UNCHANGED <<conversation, lastMessageAt, message, told, clock>>

-----------------------------------------------------------------------------
(* Messages *)

\* sendSeekerMessage or sendEmployerMessage finds the conversation, and answers the message
\* if it was sent before, in whichever conversation ...
BeginSend(r, side, a, key, arrives) ==
    /\ req[r] = Idle
    /\ Exists(a)
    /\ IF Taken(side, key)
       THEN \E m \in Sent(side, key) : Tell(r, m, arrives)
       ELSE /\ Keep(r, [Idle EXCEPT !.pc = "send", !.side = side, !.in = a, !.key = key])
            /\ UNCHANGED told
    /\ UNCHANGED <<conversation, lastMessageAt, message, clock>>

\* ... inserts it ...
InsertMessage(r) ==
    LET q == req[r] IN
    /\ q.pc = "send"
    /\ KeyFree(q.side, q.key)
    /\ IF Taken(q.side, q.key)
       THEN Keep(r, [q EXCEPT !.pc = "resend"]) /\ UNCHANGED clock
       ELSE /\ clock < MaxClock
            /\ clock' = clock + 1
            /\ Keep(r, [q EXCEPT !.pc = "inserted", !.at = clock + 1])
    /\ UNCHANGED <<conversation, lastMessageAt, message, told>>

\* ... writes its time to the conversation and commits ...
CommitMessage(r, arrives) ==
    LET q == req[r]
        m == [in |-> q.in, sender |-> q.side, key |-> q.key, at |-> q.at, read |-> FALSE] IN
    /\ q.pc = "inserted"
    /\ message' = message \cup {m}
    /\ lastMessageAt' = [lastMessageAt EXCEPT ![q.in] = q.at]
    /\ Tell(r, m, arrives)
    /\ UNCHANGED <<conversation, clock>>

\* ... or, refused by the index, answers the message that took the key.
AnswerExisting(r, arrives) ==
    /\ req[r].pc = "resend"
    /\ \E m \in Sent(req[r].side, req[r].key) : Tell(r, m, arrives)
    /\ UNCHANGED <<conversation, lastMessageAt, message, clock>>

\* markSeekerConversationRead and markEmployerConversationRead: the messages of the other.
MarkRead(side, a) ==
    /\ Exists(a)
    /\ message' = {IF m.in = a /\ m.sender # side THEN [m EXCEPT !.read = TRUE] ELSE m :
                     m \in message}
    /\ UNCHANGED <<conversation, lastMessageAt, told, clock, req>>

\* The process dies, or a transaction fails.
Abort(r) ==
    /\ req[r] # Idle
    /\ Answer(r)
    /\ UNCHANGED <<conversation, lastMessageAt, message, told, clock>>

-----------------------------------------------------------------------------
(* Specification *)

RequestStep(r) ==
    \/ \E side \in Sides, a \in Applications : BeginOpen(r, side, a)
    \/ CreateConversation(r)
    \/ FindConcurrent(r)
    \/ \E side \in Sides, a \in Applications, key \in Keys, arrives \in BOOLEAN :
         BeginSend(r, side, a, key, arrives)
    \/ InsertMessage(r)
    \/ \E arrives \in BOOLEAN : CommitMessage(r, arrives) \/ AnswerExisting(r, arrives)
    \/ Abort(r)

Next ==
    \/ \E side \in Sides, a \in Applications : MarkRead(side, a)
    \/ \E r \in Requests : RequestStep(r)

Spec == Init /\ [][Next]_conversationVars

-----------------------------------------------------------------------------
(* Properties *)

\* However often a message is sent, at once or again after a lost answer, it is stored once,
\* in the one conversation of an application, and every answer names that row
\* (sendSeekerMessage, getOrCreateConversationForApplication).
StoredOnce ==
    /\ \A t \in told : {m.at : m \in Sent(t.sender, t.key)} = {t.at}
    /\ \A a \in Applications : conversation[a] <= 1

=============================================================================
