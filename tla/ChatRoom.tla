------------------------------ MODULE ChatRoom ------------------------------
(***************************************************************************)
(* Membership of one chat room: ChatRoomService.createRoom, inviteMember   *)
(* and leaveRoom, called concurrently.  An action is what a handler does   *)
(* between two awaits.  Rows written in an open transaction are held in    *)
(* the handler's phase and published by its commit.                        *)
(***************************************************************************)
EXTENDS Integers, FiniteSets

CONSTANTS
    Users,
    Calls,        \* calls of the REST endpoints of this room
    MaxInvitees   \* most users named by membersUuid of an invitation

ASSUME MembersFinite == IsFiniteSet(Users) /\ IsFiniteSet(Calls) /\ Users # {}
ASSUME MaxInviteesNat == MaxInvitees \in Nat

VARIABLES
    room,         \* "absent", or the roomType "GROUP" or "DM"
    member,       \* chat_room_member: no row, leftDt IS NULL, or leftDt set
    history,      \* chat_room_member.isReadHistory
    memberCount,  \* chat_room.memberCount
    pc,           \* where the handler of each call stands
    job,          \* what the handler holds in its local variables
    answer        \* what each finished call was answered

roomVars == <<room, member, history, memberCount>>
vars == <<roomVars, pc, job, answer>>

-----------------------------------------------------------------------------
Active == {u \in Users : member[u] = "active"}

\* membersUuid: the users named, and those named more than once.
Invitations ==
    {i \in [asked : (SUBSET Users) \ {{}}, twice : SUBSET Users] :
        Cardinality(i.asked) <= MaxInvitees /\ i.twice \subseteq i.asked}

\* Local variables: caller, body.membersUuid, body.giveReadHistory, what was
\* read of the caller's row ("missing": no row) and toAdd.
Jobs == [user : Users, asked : SUBSET Users, twice : SUBSET Users,
         give : BOOLEAN, right : {"yes", "no", "missing"}, add : SUBSET Users]

NoJob == [user |-> CHOOSE u \in Users : TRUE, asked |-> {}, twice |-> {},
          give |-> FALSE, right |-> "no", add |-> {}]

Phases == {"idle", "checked", "rightRead", "filtered", "inserted",
           "leaving", "marked", "done"}

\* "failed" and "unconfirmed" are both a 500; the leave that is answered
\* "unconfirmed" has been committed.
Answers == {"none", "created", "added", "forbidden", "invalid", "success",
            "noneChat", "alreadyLeft", "failed", "unconfirmed"}

Goto(c, phase) == pc' = [pc EXCEPT ![c] = phase]

\* The call is over: its locals are gone.
Finish(c, a) ==
    /\ Goto(c, "done")
    /\ answer' = [answer EXCEPT ![c] = a]
    /\ job' = [job EXCEPT ![c] = NoJob]

-----------------------------------------------------------------------------
(* createRoom: room and members in one transaction.                        *)

OpenRoom(c) ==
    /\ pc[c] = "idle"
    /\ room = "absent"
    /\ \E user \in Users, others \in SUBSET Users, type \in {"GROUP", "DM"} :
        LET members == {user} \cup others IN
        /\ others # {}
        /\ room' = type
        /\ member' = [u \in Users |-> IF u \in members THEN "active" ELSE "none"]
        /\ memberCount' = Cardinality(members)
    /\ UNCHANGED history

CreateRoom(c) == OpenRoom(c) /\ Finish(c, "created")

-----------------------------------------------------------------------------
(* inviteMember.                                                           *)

\* getActiveMemberOrThrow(inviteUserUuid), a member named in the body, and
\* the room's type, which never changes.
InviteCheck(c) ==
    /\ pc[c] = "idle"
    /\ \E user, inviter \in Users, list \in Invitations, give \in BOOLEAN :
        \/ member[inviter] # "active" /\ Finish(c, "forbidden")
        \/ /\ member[inviter] = "active" /\ room = "DM"
           /\ Finish(c, "invalid")
        \/ /\ member[inviter] = "active" /\ room # "DM"
           /\ Goto(c, "checked")
           /\ job' = [job EXCEPT ![c] = [NoJob EXCEPT !.user = user,
                         !.asked = list.asked, !.twice = list.twice, !.give = give]]
           /\ UNCHANGED answer
    /\ UNCHANGED roomVars

\* isReadHistory of the caller, who need not be the inviter.
InviteReadRight(c) ==
    /\ pc[c] = "checked"
    /\ LET u == job[c].user IN
       job' = [job EXCEPT ![c].right =
                  IF member[u] = "none" THEN "missing"
                  ELSE IF history[u] THEN "yes" ELSE "no"]
    /\ Goto(c, "rightRead")
    /\ UNCHANGED <<roomVars, answer>>

NoRow(u) == member[u] = "none"

\* Users with any row, left or not, are taken off the list.
InviteFilter(c) ==
    /\ pc[c] = "rightRead"
    /\ LET add == {u \in job[c].asked : NoRow(u)} IN
       \/ add = {} /\ Finish(c, "added")
       \/ /\ add # {} /\ job[c].right = "missing"
          /\ Finish(c, "failed")
       \/ /\ add # {} /\ job[c].right # "missing"
          /\ Goto(c, "filtered")
          /\ job' = [job EXCEPT ![c].add = add]
          /\ UNCHANGED answer
    /\ UNCHANGED roomVars

Adds(c) == job[c].add
GivesHistory(c) == IF job[c].right = "yes" THEN job[c].give ELSE FALSE

\* Another transaction has inserted or updated a row of the same key
\* (uq_room_user).
KeyLocked(c) ==
    \E d \in Calls \ {c} :
        \/ pc[d] = "inserted" /\ Adds(d) \cap Adds(c) # {}
        \/ pc[d] = "marked" /\ job[d].user \in Adds(c)

\* One INSERT for all rows; a duplicate key fails it and rolls back.
InviteInsert(c) ==
    /\ pc[c] = "filtered"
    /\ ~KeyLocked(c)
    /\ \/ /\ \/ \E u \in Adds(c) : member[u] # "none"
             \/ job[c].twice \cap Adds(c) # {}
          /\ Finish(c, "failed")
       \/ /\ \A u \in Adds(c) : member[u] = "none"
          /\ job[c].twice \cap Adds(c) = {}
          /\ Goto(c, "inserted")
          /\ UNCHANGED <<job, answer>>
    /\ UNCHANGED roomVars

\* Every inserter shares the row of chat_room through the foreign key, and
\* the UPDATE of memberCount needs it exclusively.
RoomShared(c) == \E d \in Calls \ {c} : pc[d] = "inserted"

\* Mutant: membersUuid is upserted and counted in place of toAdd.
InviteCommitAsked(c) ==
    /\ pc[c] = "inserted"
    /\ ~RoomShared(c)
    /\ member' = [u \in Users |-> IF u \in job[c].asked THEN "active" ELSE member[u]]
    /\ history' = [u \in Users |-> IF u \in Adds(c) THEN GivesHistory(c)
                                   ELSE history[u]]
    /\ memberCount' = memberCount + Cardinality(job[c].asked)
    /\ Finish(c, "added")
    /\ UNCHANGED room

\* UPDATE memberCount + toAdd.length, and COMMIT.  (The insert succeeded, so
\* toAdd names nobody twice.)
PublishInvited(c) ==
    /\ pc[c] = "inserted"
    /\ ~RoomShared(c)
    /\ member' = [u \in Users |-> IF u \in Adds(c) THEN "active" ELSE member[u]]
    /\ history' = [u \in Users |-> IF u \in Adds(c) THEN GivesHistory(c)
                                   ELSE history[u]]
    /\ memberCount' = memberCount + Cardinality(Adds(c))
    /\ UNCHANGED room

InviteCommit(c) == PublishInvited(c) /\ Finish(c, "added")

\* Mutant: nothing resolves the deadlock.
InviteDeadlockKept(c) == FALSE

\* Two inserters both waiting for the row of chat_room: one is rolled back.
InviteDeadlock(c) ==
    /\ pc[c] = "inserted"
    /\ RoomShared(c)
    /\ Finish(c, "failed")
    /\ UNCHANGED roomVars

-----------------------------------------------------------------------------
(* leaveRoom.                                                              *)

\* The caller's row is read before the transaction.
LeaveFind(c) ==
    /\ pc[c] = "idle"
    /\ \E user \in Users :
        \/ member[user] = "none" /\ Finish(c, "noneChat")
        \/ member[user] = "left" /\ Finish(c, "alreadyLeft")
        \/ /\ member[user] = "active"
           /\ Goto(c, "leaving")
           /\ job' = [job EXCEPT ![c].user = user]
           /\ UNCHANGED answer
    /\ UNCHANGED roomVars

\* UPDATE leftDt of that row, whatever leftDt has become meanwhile.
LeaveMark(c) ==
    /\ pc[c] = "leaving"
    /\ \A d \in Calls \ {c} : ~(pc[d] = "marked" /\ job[d].user = job[c].user)
    /\ Goto(c, "marked")
    /\ UNCHANGED <<roomVars, job, answer>>

\* UPDATE memberCount - 1, and COMMIT.
PublishLeave(c) ==
    /\ pc[c] = "marked"
    /\ ~RoomShared(c)
    /\ memberCount > 0
    /\ member' = [member EXCEPT ![job[c].user] = "left"]
    /\ memberCount' = memberCount - 1
    /\ UNCHANGED <<room, history>>

LeaveCommit(c) == PublishLeave(c) /\ Finish(c, "success")

\* Mutant: GREATEST(memberCount - 1, 0) in place of memberCount - 1.
LeaveClamped(c) ==
    /\ pc[c] = "marked"
    /\ ~RoomShared(c)
    /\ memberCount = 0
    /\ Finish(c, "success")
    /\ member' = [member EXCEPT ![job[c].user] = "left"]
    /\ UNCHANGED <<room, history, memberCount>>

\* memberCount is unsigned: below zero the UPDATE fails and the transaction
\* rolls back.
LeaveBelowZero(c) ==
    /\ pc[c] = "marked"
    /\ ~RoomShared(c)
    /\ memberCount = 0
    /\ Finish(c, "failed")
    /\ UNCHANGED roomVars

-----------------------------------------------------------------------------
\* A statement fails or the connection is lost: rollback and 500.
Fail(c) ==
    /\ pc[c] \notin {"idle", "done"}
    /\ Finish(c, "failed")
    /\ UNCHANGED roomVars

\* COMMIT is executed and its acknowledgement is lost: 500 for what was done.
Unacknowledged(c) ==
    \/ OpenRoom(c) /\ Finish(c, "failed")
    \/ PublishInvited(c) /\ Finish(c, "failed")
    \/ PublishLeave(c) /\ Finish(c, "unconfirmed")

\* The process dies; open transactions are rolled back.
Crash ==
    /\ \E c \in Calls : pc[c] \notin {"idle", "done"}
    /\ pc' = [c \in Calls |-> IF pc[c] = "idle" THEN "idle" ELSE "done"]
    /\ answer' = [c \in Calls |->
                     IF pc[c] \in {"idle", "done"} THEN answer[c] ELSE "failed"]
    /\ job' = [c \in Calls |-> NoJob]
    /\ UNCHANGED roomVars

Init ==
    /\ room = "absent"
    /\ member = [u \in Users |-> "none"]
    /\ history = [u \in Users |-> FALSE]
    /\ memberCount = 0
    /\ pc = [c \in Calls |-> "idle"]
    /\ job = [c \in Calls |-> NoJob]
    /\ answer = [c \in Calls |-> "none"]

Arrive(c) == CreateRoom(c) \/ InviteCheck(c) \/ LeaveFind(c)

Serve(c) ==
    \/ InviteReadRight(c) \/ InviteFilter(c) \/ InviteInsert(c)
    \/ InviteCommit(c) \/ InviteDeadlock(c)
    \/ LeaveMark(c) \/ LeaveCommit(c) \/ LeaveBelowZero(c)

Next ==
    \/ Crash
    \/ \E c \in Calls : Arrive(c) \/ Serve(c) \/ Fail(c) \/ Unacknowledged(c)

Spec == Init /\ [][Next]_vars

FairSpec == Spec /\ \A c \in Calls : WF_vars(Serve(c))

-----------------------------------------------------------------------------
(* Properties.                                                             *)

\* Rows and locals hold values of their kind; memberCount stays unsigned.
TypeOK ==
    /\ room \in {"absent", "GROUP", "DM"}
    /\ member \in [Users -> {"none", "active", "left"}]
    /\ history \in [Users -> BOOLEAN]
    /\ memberCount \in Nat
    /\ pc \in [Calls -> Phases]
    /\ job \in [Calls -> Jobs]
    /\ answer \in [Calls -> Answers]

Rows == {u \in Users : member[u] # "none"}
\* The leaves that were committed.
Left == {c \in Calls : answer[c] \in {"success", "unconfirmed"}}

\* memberCount is the number of rows ever inserted less the number of leaves
\* that were committed, however invitations, leaves, failures, crashes and lost
\* acknowledgements interleave: nobody is counted twice, and nothing but a
\* second leave of the same member takes more than one off.
CountIsRowsLessLeaves == memberCount + Cardinality(Left) = Cardinality(Rows)

\* The strengthening that makes it inductive.  Before the room exists nobody
\* has a row and no handler is past its first check; only finished leaves
\* are committed; a pending leave has a row; invitations are pending
\* in group rooms only; an inserted row is not yet committed by anyone else.
BeforeRoomInv ==
    room = "absent" =>
        /\ \A u \in Users : member[u] = "none"
        /\ memberCount = 0
        /\ \A c \in Calls : pc[c] \in {"idle", "done"} /\ c \notin Left

PendingInv ==
    \A c \in Calls :
        /\ c \in Left => pc[c] = "done"
        /\ pc[c] \in {"leaving", "marked"} => member[job[c].user] # "none"
        /\ pc[c] \in {"checked", "rightRead", "filtered", "inserted"} =>
              room = "GROUP"
        /\ pc[c] \in {"filtered", "inserted"} => Adds(c) # {}
        /\ pc[c] = "inserted" => \A u \in Adds(c) : member[u] = "none"

RoomInv == TypeOK /\ BeforeRoomInv /\ PendingInv /\ CountIsRowsLessLeaves

Membership == INSTANCE ChatMembership

\* The handlers, with their races, failures and deadlocks, change the members
\* of a room only as ChatMembership allows: a DM is closed after its
\* creation, a row is inserted once, who left stays out.
ImplementsMembership == Membership!Spec

\* Every call is answered: the waits for rows, keys and the room resolve.
EveryCallAnswered ==
    \A c \in Calls : pc[c] \notin {"idle", "done"} ~> pc[c] = "done"

\* invite-room.dto.ts: giveReadHistory says whether the invited may read what was
\* written before.  An invitation that asks for it and is answered "added" has
\* given the right to all it admitted.
GiveReadHistoryGrants ==
    [][\A c \in Calls :
          pc[c] = "inserted" /\ job[c].give /\ answer'[c] = "added"
              => \A u \in Adds(c) : history'[u]]_vars

\* chat-room.entity.ts: memberCount is the number of people in the chat.
CountIsActiveMembers == memberCount = Cardinality(Active)
=============================================================================
