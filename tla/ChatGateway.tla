----------------------------- MODULE ChatGateway -----------------------------
(***************************************************************************)
(* The websocket side of one chat room: which sockets hear it, what they   *)
(* are sent, and how that relates to the rows of the database, while       *)
(* members come and go as ChatMembership allows.  A socket that reconnects *)
(* is a new socket.  Rooms of sockets live in the memory of the process.   *)
(* Of markRead, which ChatMessages is about, only the commit is kept.      *)
(***************************************************************************)
EXTENDS Integers, Sequences, FiniteSets

CONSTANTS
    Users,
    Sockets,
    UserOf,   \* the user in the token of each socket
    Calls     \* events from clients and calls of markRead, as positive numbers

ASSUME SomeSockets == Sockets # {}
ASSUME UserOfTyped == UserOf \in [Sockets -> Users]
ASSUME CallsPositive == Calls \subseteq Nat \ {0} /\ IsFiniteSet(Calls)

VARIABLES
    room, member,   \* as in ChatMembership
    stored,         \* chat_message: the calls that created a message
    receipts,       \* chat_message_read: who read which message
    socket,         \* "new", "on", "expired" (the token is) or "off"
    joinedBy,       \* the call by which a socket joined the room, 0 if it is not in
    inbox,          \* what each socket was sent
    pc, job, answer,
    before          \* history: the calls answered before a call was made

rows == <<room, member, stored, receipts>>
wires == <<socket, joinedBy, inbox>>
vars == <<rows, wires, pc, job, answer, before>>

Membership == INSTANCE ChatMembership

-----------------------------------------------------------------------------
Kinds == {"none", "join", "leave", "send", "typing", "mark"}

RoomEvents == {"messageCreated", "typing", "readUpdated"}

\* by: the call that sent it; user: whose message, typing or mark it is; of: the
\* message.
Events == [type : RoomEvents \cup {"joinedRoom", "leftRoom"}, by : Calls,
           user : Users, of : Calls \cup {0}]

\* left: history, who had left when the call was made; hearers: history, the
\* sockets that have been in the room ever since.
Jobs == [kind : Kinds, socket : Sockets, user : Users, of : Calls \cup {0},
         left : SUBSET Users, hearers : SUBSET Sockets]

NoJob == LET s == CHOOSE s \in Sockets : TRUE
         IN [kind |-> "none", socket |-> s, user |-> UserOf[s], of |-> 0,
             left |-> {}, hearers |-> {}]

Phases == {"idle", "check", "act", "save", "emit", "done"}

Answers == {"none", "success", "unauthorized", "forbidden", "failed"}

Goto(c, phase) == pc' = [pc EXCEPT ![c] = phase] /\ UNCHANGED answer

Finish(c, a) ==
    /\ pc' = [pc EXCEPT ![c] = "done"]
    /\ answer' = [answer EXCEPT ![c] = a]

On(s) == socket[s] \in {"on", "expired"}
InRoom == {s \in Sockets : joinedBy[s] # 0}
Active(u) == member[u] = "active"

Arrive(c, j, phase) ==
    /\ pc[c] = "idle"
    /\ before' = [before EXCEPT ![c] = {d \in Calls : pc[d] = "done"}]
    /\ job' = [job EXCEPT ![c] = [j EXCEPT !.left = {u \in Users : member[u] = "left"},
                                           !.hearers = InRoom]]
    /\ UNCHANGED <<rows, wires>>
    /\ IF phase = "done" THEN Finish(c, "unauthorized") ELSE Goto(c, phase)

\* The sockets of S are no longer in the room.
Drop(S) ==
    /\ joinedBy' = [s \in Sockets |-> IF s \in S THEN 0 ELSE joinedBy[s]]
    /\ job' = [c \in Calls |-> [job[c] EXCEPT !.hearers = @ \ S]]

Event(c, type) == [type |-> type, by |-> c, user |-> job[c].user, of |-> job[c].of]

SentTo(S, event) ==
    inbox' = [s \in Sockets |-> IF s \in S THEN Append(inbox[s], event) ELSE inbox[s]]

-----------------------------------------------------------------------------
(* Membership, and sockets coming and going.                               *)

MembershipStep ==
    /\ Membership!Next
    /\ UNCHANGED <<stored, receipts, wires, pc, job, answer, before>>

Connect(s) ==
    /\ socket[s] = "new"
    /\ socket' = [socket EXCEPT ![s] = "on"]
    /\ UNCHANGED <<rows, joinedBy, inbox, pc, job, answer, before>>

Expire(s) ==
    /\ socket[s] = "on"
    /\ socket' = [socket EXCEPT ![s] = "expired"]
    /\ UNCHANGED <<rows, joinedBy, inbox, pc, job, answer, before>>

Disconnect(s) ==
    /\ On(s)
    /\ socket' = [socket EXCEPT ![s] = "off"]
    /\ Drop({s})
    /\ UNCHANGED <<rows, inbox, pc, answer, before>>

-----------------------------------------------------------------------------
\* An event from a client: WsJwtGuard verifies the token of the handshake for
\* each of them.
Receive(c) ==
    \E s \in Sockets, kind \in {"join", "leave", "send", "typing"} :
        /\ On(s)
        /\ Arrive(c, [NoJob EXCEPT !.kind = kind, !.socket = s, !.user = UserOf[s],
                                   !.of = IF kind = "send" THEN c ELSE 0],
                  CASE socket[s] = "expired" -> "done"
                    [] socket[s] # "expired" /\ kind = "send" -> "save"
                    [] OTHER -> "check")

\* Mutant: the membership is not looked up.
NoMemberCheck(c) ==
    /\ pc[c] = "check"
    /\ Goto(c, "act")
    /\ UNCHANGED <<rows, wires, job, before>>

\* getActiveMemberOrThrow of joinOrLeftRoom and typing.
MemberCheck(c) ==
    /\ pc[c] = "check"
    /\ IF Active(job[c].user) THEN Goto(c, "act") ELSE Finish(c, "forbidden")
    /\ UNCHANGED <<rows, wires, job, before>>

\* join and emit do nothing on a socket that was disconnected meanwhile.
JoinRoom(c) ==
    /\ pc[c] = "act"
    /\ job[c].kind = "join"
    /\ LET s == job[c].socket
       IN IF On(s)
          THEN /\ joinedBy' = [joinedBy EXCEPT ![s] = IF @ = 0 THEN c ELSE @]
               /\ SentTo({s}, Event(c, "joinedRoom"))
          ELSE UNCHANGED <<joinedBy, inbox>>
    /\ Finish(c, "success")
    /\ UNCHANGED <<rows, socket, job, before>>

\* Mutant: the client is told, and leaves the room when it has answered.
LeaveRoomLater(c) ==
    /\ job[c].kind = "leave"
    /\ LET s == job[c].socket
       IN \/ /\ pc[c] = "act"
             /\ SentTo(IF On(s) THEN {s} ELSE {}, Event(c, "leftRoom"))
             /\ Goto(c, "emit")
             /\ UNCHANGED <<joinedBy, job>>
          \/ /\ pc[c] = "emit"
             /\ Drop({s}) /\ Finish(c, "success")
             /\ UNCHANGED inbox
    /\ UNCHANGED <<rows, socket, before>>

LeaveRoom(c) ==
    /\ pc[c] = "act"
    /\ job[c].kind = "leave"
    /\ LET s == job[c].socket
       IN /\ Drop({s})
          /\ SentTo(IF On(s) THEN {s} ELSE {}, Event(c, "leftRoom"))
    /\ Finish(c, "success")
    /\ UNCHANGED <<rows, socket, before>>

\* To the others in the room, whether or not the sender has joined it.
Typing(c) ==
    /\ pc[c] = "act"
    /\ job[c].kind = "typing"
    /\ SentTo(InRoom \ {job[c].socket}, Event(c, "typing"))
    /\ Finish(c, "success")
    /\ UNCHANGED <<rows, socket, joinedBy, job, before>>

-----------------------------------------------------------------------------
(* sendMessage and markRead.                                               *)

\* Mutant: the message is broadcast while it is being saved.
SaveAndEmit(c) ==
    /\ pc[c] = "save"
    /\ job[c].kind = "send"
    /\ SentTo(InRoom, Event(c, "messageCreated"))
    /\ \/ room # "absent" /\ stored' = stored \cup {c} /\ Finish(c, "success")
       \/ Finish(c, "failed") /\ UNCHANGED stored
    /\ UNCHANGED <<room, member, receipts, socket, joinedBy, job, before>>

\* createMessage: nobody asks whether the sender is a member.
SaveMessage(c) ==
    /\ pc[c] = "save"
    /\ job[c].kind = "send"
    /\ IF room = "absent" THEN Finish(c, "failed") /\ UNCHANGED stored
       ELSE stored' = stored \cup {c} /\ (Goto(c, "emit") \/ Finish(c, "failed"))
    /\ UNCHANGED <<room, member, receipts, wires, job, before>>

\* markRead over REST, of a message of the room, by an active member.
Mark(c) ==
    \E u \in Users, m \in stored :
        /\ Active(u)
        /\ Arrive(c, [NoJob EXCEPT !.kind = "mark", !.user = u, !.of = m], "save")

SaveMark(c) ==
    /\ pc[c] = "save"
    /\ job[c].kind = "mark"
    /\ receipts' = receipts \cup {<<job[c].user, job[c].of>>}
    /\ Goto(c, "emit") \/ Finish(c, "failed")
    /\ UNCHANGED <<room, member, stored, wires, job, before>>

\* Mutant: a message goes to the others only.
BroadcastToOthers(c) ==
    /\ pc[c] = "emit"
    /\ SentTo(InRoom \ {job[c].socket},
              Event(c, IF job[c].kind = "send" THEN "messageCreated" ELSE "readUpdated"))
    /\ Finish(c, "success")
    /\ UNCHANGED <<rows, socket, joinedBy, job, before>>

\* Mutant: the call is answered first and broadcasts when it likes.
BroadcastLater(c) ==
    \/ /\ pc[c] = "emit" /\ answer[c] = "none"
       /\ Finish(c, "success")
       /\ UNCHANGED <<rows, wires, job, before>>
    \/ /\ pc[c] = "done" /\ answer[c] = "success" /\ job[c].kind \in {"send", "mark"}
       /\ ~ \E s \in Sockets : \E i \in DOMAIN inbox[s] : inbox[s][i].by = c
       /\ SentTo(InRoom,
                 Event(c, IF job[c].kind = "send" THEN "messageCreated" ELSE "readUpdated"))
       /\ UNCHANGED <<rows, socket, joinedBy, pc, job, answer, before>>

\* To everyone in the room when the row is known to be stored.
Broadcast(c) ==
    /\ pc[c] = "emit"
    /\ SentTo(InRoom,
              Event(c, IF job[c].kind = "send" THEN "messageCreated" ELSE "readUpdated"))
    /\ Finish(c, "success")
    /\ UNCHANGED <<rows, socket, joinedBy, job, before>>

-----------------------------------------------------------------------------
\* A statement fails, or the answer to one is lost.
Fail(c) ==
    /\ pc[c] \in {"check", "save"}
    /\ Finish(c, "failed")
    /\ UNCHANGED <<rows, wires, job, before>>

\* The process dies with its rooms; every client is disconnected.
Crash ==
    LET dying == {c \in Calls : pc[c] \notin {"idle", "done"}}
    IN /\ \E s \in Sockets : On(s)
       /\ socket' = [s \in Sockets |-> IF On(s) THEN "off" ELSE socket[s]]
       /\ Drop(Sockets)
       /\ pc' = [c \in Calls |-> IF c \in dying THEN "done" ELSE pc[c]]
       /\ answer' = [c \in Calls |-> IF c \in dying THEN "failed" ELSE answer[c]]
       /\ UNCHANGED <<rows, inbox, before>>

Init ==
    /\ Membership!Init
    /\ stored = {} /\ receipts = {}
    /\ socket = [s \in Sockets |-> "new"]
    /\ joinedBy = [s \in Sockets |-> 0]
    /\ inbox = [s \in Sockets |-> <<>>]
    /\ pc = [c \in Calls |-> "idle"]
    /\ job = [c \in Calls |-> NoJob]
    /\ answer = [c \in Calls |-> "none"]
    /\ before = [c \in Calls |-> {}]

Serve(c) ==
    \/ MemberCheck(c) \/ JoinRoom(c) \/ LeaveRoom(c) \/ Typing(c)
    \/ SaveMessage(c) \/ SaveMark(c) \/ Broadcast(c)

Next ==
    \/ MembershipStep \/ Crash
    \/ \E s \in Sockets : Connect(s) \/ Expire(s) \/ Disconnect(s)
    \/ \E c \in Calls : Receive(c) \/ Mark(c) \/ Serve(c) \/ Fail(c)

Spec == Init /\ [][Next]_vars

-----------------------------------------------------------------------------
(* Properties.                                                             *)

\* Rows, sockets and locals hold values of their kind; only sockets that are
\* connected are in the room.
TypeOK ==
    /\ room \in {"absent", "GROUP", "DM"}
    /\ member \in [Users -> {"none", "active", "left"}]
    /\ stored \subseteq Calls /\ receipts \subseteq Users \X stored
    /\ socket \in [Sockets -> {"new", "on", "expired", "off"}]
    /\ joinedBy \in [Sockets -> Calls \cup {0}]
    /\ \A s \in InRoom : On(s)
    /\ inbox \in [Sockets -> Seq(Events)]
    /\ pc \in [Calls -> Phases]
    /\ job \in [Calls -> Jobs]
    /\ answer \in [Calls -> Answers]
    /\ before \in [Calls -> SUBSET Calls]

SentToSome == UNION {{inbox[s][i] : i \in DOMAIN inbox[s]} : s \in Sockets}

\* What clients are told is in the database, whatever fails or crashes: the
\* message of every messageCreated and the receipt of every readUpdated.
EventsAreTrue ==
    \A e \in SentToSome :
        /\ e.type = "messageCreated" => e.of \in stored
        /\ e.type = "readUpdated" => <<e.user, e.of>> \in receipts

\* A socket hears the room only by a call of joinOrLeftRoom that its user made
\* while a member, or before leaving; leaving over REST does not take it out.
HearersWereMembers ==
    \A s \in InRoom :
        /\ member[UserOf[s]] # "none"
        /\ UserOf[s] \notin job[joinedBy[s]].left

Heard(s, c) == Cardinality({i \in DOMAIN inbox[s] : inbox[s][i].by = c /\ inbox[s][i].type \in RoomEvents})

\* A socket that is in the room throughout a successful call hears of it
\* exactly once, the sender's included; of typing the sender's does not hear.
RoomHears ==
    \A c \in Calls :
        LET excluded == IF job[c].kind = "typing" THEN {job[c].socket} ELSE {}
        IN /\ answer[c] = "success" /\ job[c].kind \in {"send", "typing", "mark"} =>
                \A s \in job[c].hearers \ excluded : Heard(s, c) = 1
           /\ \A s \in Sockets : Heard(s, c) <= 1
           /\ \A s \in excluded : Heard(s, c) = 0

\* Between leftRoom and the next joinedRoom, and before the first, a client is
\* sent nothing of the room, however its joins and leaves overlap.
QuietWhenOut ==
    \A s \in Sockets : \A i \in DOMAIN inbox[s] :
        inbox[s][i].type \in RoomEvents =>
            \E j \in 1 .. i - 1 :
                /\ inbox[s][j].type = "joinedRoom"
                /\ \A k \in j .. i - 1 : inbox[s][k].type # "leftRoom"

\* Of two calls that did not overlap the events come in their order: read marks
\* go back only when they were made at the same time.
EventsInOrder ==
    \A s \in Sockets : \A i, j \in DOMAIN inbox[s] :
        i < j => inbox[s][j].by \notin before[inbox[s][i].by]
=============================================================================
