--------------------------- MODULE ChatRoomProofs ---------------------------
(***************************************************************************)
(* Theorems about the membership of a chat room, for any number of users   *)
(* and concurrent calls.                                                   *)
(***************************************************************************)
EXTENDS ChatRoom, FiniteSetTheorems, TLAPS

USE DEF roomVars, Goto, Finish, Phases, Answers

\* The idle job is a job.
LEMMA NoJobType == NoJob \in Jobs
  BY MembersFinite DEF NoJob, Jobs

\* The sets that are counted are finite.
LEMMA CountedFinite ==
    /\ IsFiniteSet(Left) /\ Cardinality(Left) \in Nat
    /\ IsFiniteSet(Rows) /\ Cardinality(Rows) \in Nat
<1>1. Left \subseteq Calls /\ Rows \subseteq Users
  BY DEF Left, Rows
<1>2. IsFiniteSet(Left) /\ IsFiniteSet(Rows)
  BY <1>1, MembersFinite, FS_Subset
<1>3. QED
  BY <1>2, FS_CardinalityType

LEMMA TypeInit == Init => TypeOK
  BY NoJobType DEF Init, TypeOK

\* Every step keeps the room and the handlers well typed.
LEMMA TypeStep == TypeOK /\ [Next]_vars => TypeOK'
<1> SUFFICES ASSUME TypeOK, [Next]_vars PROVE TypeOK'
  OBVIOUS
<1> USE NoJobType DEF TypeOK
<1>1. ASSUME NEW c \in Calls, NEW a \in {"created", "failed"},
             OpenRoom(c), Finish(c, a)
      PROVE  TypeOK'
  <2>1. PICK user \in Users, others \in SUBSET Users, type \in {"GROUP", "DM"} :
            /\ room' = type
            /\ member' = [u \in Users |-> IF u \in {user} \cup others
                                          THEN "active" ELSE "none"]
            /\ memberCount' = Cardinality({user} \cup others)
    BY <1>1 DEF OpenRoom
  <2>2. {user} \cup others \subseteq Users
    OBVIOUS
  <2>3. Cardinality({user} \cup others) \in Nat
    BY <2>2, MembersFinite, FS_Subset, FS_CardinalityType
  <2>4. member' \in [Users -> {"none", "active", "left"}]
    BY <2>1
  <2>5. QED
    BY <1>1, <2>1, <2>3, <2>4 DEF OpenRoom
<1>2. ASSUME NEW c \in Calls, InviteCheck(c) PROVE TypeOK'
  <2>1. PICK user \in Users, inviter \in Users,
             list \in Invitations, give \in BOOLEAN :
            \/ member[inviter] # "active" /\ Finish(c, "forbidden")
            \/ /\ member[inviter] = "active" /\ room = "DM"
               /\ Finish(c, "invalid")
            \/ /\ member[inviter] = "active" /\ room # "DM"
               /\ Goto(c, "checked")
               /\ job' = [job EXCEPT ![c] = [NoJob EXCEPT !.user = user,
                         !.asked = list.asked, !.twice = list.twice, !.give = give]]
               /\ UNCHANGED answer
    BY <1>2, Zenon DEF InviteCheck
  <2>2. list.asked \in SUBSET Users /\ list.twice \in SUBSET Users
    BY DEF Invitations
  <2>3. [NoJob EXCEPT !.user = user, !.asked = list.asked,
                      !.twice = list.twice, !.give = give] \in Jobs
    BY <2>2 DEF Jobs
  <2>4. QED
    BY <1>2, <2>1, <2>3 DEF InviteCheck
<1>3. ASSUME NEW c \in Calls, InviteReadRight(c) PROVE TypeOK'
  <2>1. job' \in [Calls -> Jobs]
    <3>1. \A r \in {"yes", "no", "missing"} : [job[c] EXCEPT !.right = r] \in Jobs
      BY DEF Jobs
    <3>2. QED
      BY <1>3, <3>1 DEF InviteReadRight
  <2>2. QED
    BY <1>3, <2>1 DEF InviteReadRight
<1>4. ASSUME NEW c \in Calls, InviteFilter(c) PROVE TypeOK'
  <2>1. \A add \in SUBSET Users : [job[c] EXCEPT !.add = add] \in Jobs
    BY DEF Jobs
  <2>2. {u \in job[c].asked : NoRow(u)} \in SUBSET Users
    BY DEF Jobs
  <2>3. job' \in [Calls -> Jobs]
    BY <1>4, <2>1, <2>2 DEF InviteFilter
  <2>4. QED
    BY <1>4, <2>3 DEF InviteFilter
<1>5. ASSUME NEW c \in Calls, InviteInsert(c) PROVE TypeOK'
  BY <1>5 DEF InviteInsert
<1>6. ASSUME NEW c \in Calls, NEW a \in {"added", "failed"},
             PublishInvited(c), Finish(c, a)
      PROVE  TypeOK'
  <2>1. Adds(c) \subseteq Users /\ job[c].give \in BOOLEAN
    BY DEF Adds, Jobs
  <2>2. GivesHistory(c) \in BOOLEAN
    BY <2>1 DEF GivesHistory
  <2>3. member' \in [Users -> {"none", "active", "left"}]
    BY <1>6 DEF PublishInvited
  <2>4. history' \in [Users -> BOOLEAN]
    BY <1>6, <2>2 DEF PublishInvited
  <2>5. Cardinality(Adds(c)) \in Nat
    BY <2>1, MembersFinite, FS_Subset, FS_CardinalityType
  <2>6. QED
    BY <1>6, <2>3, <2>4, <2>5 DEF PublishInvited
<1>7. ASSUME NEW c \in Calls, InviteDeadlock(c) PROVE TypeOK'
  BY <1>7 DEF InviteDeadlock
<1>8. ASSUME NEW c \in Calls, LeaveFind(c) PROVE TypeOK'
  <2>1. \A user \in Users : [job[c] EXCEPT !.user = user] \in Jobs
    BY DEF Jobs
  <2>2. PICK user \in Users :
            \/ Finish(c, "noneChat")
            \/ Finish(c, "alreadyLeft")
            \/ /\ Goto(c, "leaving")
               /\ job' = [job EXCEPT ![c].user = user]
               /\ UNCHANGED answer
    BY <1>8, Zenon DEF LeaveFind
  <2>3. job' \in [Calls -> Jobs]
    BY <2>1, <2>2
  <2>4. QED
    BY <1>8, <2>2, <2>3 DEF LeaveFind
<1>9. ASSUME NEW c \in Calls, LeaveMark(c) PROVE TypeOK'
  BY <1>9 DEF LeaveMark
<1>10. ASSUME NEW c \in Calls, NEW a \in {"success", "unconfirmed"},
              PublishLeave(c), Finish(c, a)
       PROVE  TypeOK'
  <2>1. memberCount' \in Nat
    BY <1>10 DEF PublishLeave
  <2>2. member' \in [Users -> {"none", "active", "left"}]
    BY <1>10 DEF PublishLeave
  <2>3. QED
    BY <1>10, <2>1, <2>2 DEF PublishLeave
<1>11. ASSUME NEW c \in Calls, Fail(c) \/ LeaveBelowZero(c) PROVE TypeOK'
  BY <1>11 DEF Fail, LeaveBelowZero
<1>12. ASSUME Crash PROVE TypeOK'
  BY <1>12 DEF Crash
<1>13. ASSUME UNCHANGED vars PROVE TypeOK'
  BY <1>13 DEF vars
<1>14. QED
  BY <1>1, <1>2, <1>3, <1>4, <1>5, <1>6, <1>7, <1>8, <1>9, <1>10, <1>11,
     <1>12, <1>13 DEF Next, Arrive, Serve, Unacknowledged, CreateRoom, InviteCommit, LeaveCommit

\* Every reachable state of the room and its handlers is well typed; in
\* particular the unsigned memberCount never wraps below zero.
THEOREM TypeCorrect == Spec => []TypeOK
  BY TypeInit, TypeStep, PTL DEF Spec

-----------------------------------------------------------------------------
\* A step that neither touches the rows nor commits a leave keeps the
\* count right.
LEMMA CountUntouched ==
    ASSUME CountIsRowsLessLeaves, memberCount' = memberCount,
           Rows' = Rows, Left' = Left
    PROVE  CountIsRowsLessLeaves'
  BY DEF CountIsRowsLessLeaves

LEMMA RoomInit == Init => RoomInv
<1> SUFFICES ASSUME Init PROVE RoomInv
  OBVIOUS
<1>1. Rows = {} /\ Left = {}
  BY DEF Init, Rows, Left
<1>2. CountIsRowsLessLeaves
  BY <1>1, FS_EmptySet DEF Init, CountIsRowsLessLeaves
<1>3. QED
  BY <1>2, TypeInit DEF Init, RoomInv, BeforeRoomInv, PendingInv, Left

LEMMA RoomStep == RoomInv /\ [Next]_vars => RoomInv'
<1> SUFFICES ASSUME RoomInv, [Next]_vars PROVE RoomInv'
  OBVIOUS
<1> USE DEF RoomInv, TypeOK
<1>0. TypeOK'
  BY TypeStep
<1>1. ASSUME NEW c \in Calls, NEW a \in {"created", "failed"},
             OpenRoom(c), Finish(c, a)
      PROVE  RoomInv'
  <2>1. PICK user \in Users, others \in SUBSET Users, type \in {"GROUP", "DM"} :
            /\ room' = type
            /\ member' = [u \in Users |-> IF u \in {user} \cup others
                                          THEN "active" ELSE "none"]
            /\ memberCount' = Cardinality({user} \cup others)
    BY <1>1 DEF OpenRoom
  <2>2. Rows' = {user} \cup others
    BY <2>1 DEF Rows
  <2>3. Left' = {}
    BY <1>1 DEF OpenRoom, BeforeRoomInv, Left
  <2>4. CountIsRowsLessLeaves'
    <3>1. memberCount' = Cardinality(Rows') /\ memberCount' \in Nat
      BY <1>0, <2>1, <2>2
    <3>2. Cardinality(Left') = 0
      BY <2>3, FS_EmptySet
    <3>3. QED
      BY <3>1, <3>2 DEF CountIsRowsLessLeaves
  <2>5. BeforeRoomInv'
    BY <2>1 DEF BeforeRoomInv, Left
  <2>6. PendingInv'
    BY <1>1 DEF OpenRoom, BeforeRoomInv, PendingInv, Left
  <2>7. QED
    BY <1>0, <2>4, <2>5, <2>6
<1>2. ASSUME NEW c \in Calls, UNCHANGED roomVars,
             answer'[c] \notin {"success", "unconfirmed"},
             \A d \in Calls \ {c} : /\ pc'[d] = pc[d]
                                    /\ answer'[d] = answer[d]
                                    /\ job'[d] = job[d],
             pc[c] \notin {"idle", "done"} \/ pc'[c] = "done" \/ room # "absent",
             pc[c] # "done",
             pc'[c] \in {"leaving", "marked"} => member[job'[c].user] # "none",
             pc'[c] \in {"checked", "rightRead", "filtered", "inserted"} =>
                room = "GROUP",
             pc'[c] \in {"filtered", "inserted"} => job'[c].add # {},
             pc'[c] = "inserted" => \A u \in job'[c].add : member[u] = "none"
      PROVE RoomInv'
  <2>1. Rows' = Rows
    BY <1>2 DEF Rows
  <2>2. c \notin Left
    BY <1>2 DEF PendingInv, Left
  <2>3. Left' = Left
    BY <1>2, <2>2 DEF Left
  <2>4. CountIsRowsLessLeaves'
    BY <1>2, <2>1, <2>3, CountUntouched
  <2>5. BeforeRoomInv'
    BY <1>2 DEF BeforeRoomInv, Left
  <2>6. PendingInv'
    BY <1>2 DEF PendingInv, Left, Adds
  <2>7. QED
    BY <1>0, <2>4, <2>5, <2>6
<1>3. ASSUME NEW c \in Calls, InviteCheck(c) PROVE RoomInv'
  <2>1. room = "absent" => pc'[c] = "done"
    BY <1>3 DEF InviteCheck, BeforeRoomInv, Left
  <2>2. QED
    BY <1>2, <1>3, <2>1 DEF InviteCheck, PendingInv, Left
<1>4. ASSUME NEW c \in Calls, InviteReadRight(c) PROVE RoomInv'
  BY <1>2, <1>4 DEF InviteReadRight, PendingInv, Left
<1>5. ASSUME NEW c \in Calls, InviteFilter(c) PROVE RoomInv'
  <2>1. pc'[c] = "filtered" => job'[c].add # {}
    BY <1>5 DEF InviteFilter, Jobs
  <2>2. QED
    BY <1>2, <1>5, <2>1 DEF InviteFilter, PendingInv, Left
<1>6. ASSUME NEW c \in Calls, InviteInsert(c) PROVE RoomInv'
  BY <1>2, <1>6 DEF InviteInsert, PendingInv, Left, Adds
<1>7. ASSUME NEW c \in Calls, NEW a \in {"added", "failed"},
             PublishInvited(c), Finish(c, a)
      PROVE  RoomInv'
  <2>1. Adds(c) \subseteq Users /\ IsFiniteSet(Adds(c))
    BY MembersFinite, FS_Subset DEF Adds, Jobs
  <2>2. Rows' = Rows \cup Adds(c) /\ Rows \cap Adds(c) = {}
    BY <1>7, <2>1 DEF PublishInvited, Rows, PendingInv, Left
  <2>3. Cardinality(Rows') = Cardinality(Rows) + Cardinality(Adds(c))
    <3>1. Cardinality(Rows \cap Adds(c)) = 0
      BY <2>2, FS_EmptySet
    <3>2. Cardinality(Adds(c)) \in Nat
      BY <2>1, FS_CardinalityType
    <3>3. Cardinality(Rows \cup Adds(c))
            = Cardinality(Rows) + Cardinality(Adds(c)) - Cardinality(Rows \cap Adds(c))
      BY <2>1, CountedFinite, FS_Union
    <3>4. QED
      BY <2>2, <3>1, <3>2, <3>3, CountedFinite
  <2>4. Left' = Left
    BY <1>7 DEF PublishInvited, Left, PendingInv
  <2>5. CountIsRowsLessLeaves'
    <3>1. Cardinality(Adds(c)) \in Nat
      BY <2>1, FS_CardinalityType
    <3>2. memberCount' = memberCount + Cardinality(Adds(c))
      BY <1>7 DEF PublishInvited
    <3>3. QED
      BY <2>3, <2>4, <3>1, <3>2, CountedFinite DEF CountIsRowsLessLeaves
  <2>6. BeforeRoomInv'
    BY <1>7 DEF PublishInvited, BeforeRoomInv, Left
  <2>7. PendingInv'
    <3>1. \A d \in Calls \ {c} : pc[d] # "inserted"
      BY <1>7 DEF PublishInvited, RoomShared
    <3>2. \A d \in Calls : job[d].user \in Users
      BY DEF Jobs
    <3>3. QED
      BY <1>7, <3>1, <3>2 DEF PublishInvited, PendingInv, Left, Adds
  <2>8. QED
    BY <1>0, <2>5, <2>6, <2>7
<1>8. ASSUME NEW c \in Calls, InviteDeadlock(c) PROVE RoomInv'
  BY <1>2, <1>8 DEF InviteDeadlock
<1>9. ASSUME NEW c \in Calls, LeaveFind(c) PROVE RoomInv'
  <2>1. room = "absent" => pc'[c] = "done"
    BY <1>9 DEF LeaveFind, BeforeRoomInv, Left
  <2>2. PICK user \in Users :
            \/ member[user] = "none" /\ Finish(c, "noneChat")
            \/ member[user] = "left" /\ Finish(c, "alreadyLeft")
            \/ /\ member[user] = "active"
               /\ Goto(c, "leaving")
               /\ job' = [job EXCEPT ![c].user = user]
               /\ UNCHANGED answer
    BY <1>9, Zenon DEF LeaveFind
  <2>3. pc'[c] = "leaving" => job'[c].user = user /\ member[user] = "active"
    BY <2>2 DEF Jobs
  <2>4. pc'[c] \in {"leaving", "done"} /\ answer'[c] \notin {"success", "unconfirmed"}
    BY <1>9, <2>2 DEF LeaveFind, PendingInv, Left
  <2>5. QED
    BY <1>2, <1>9, <2>1, <2>2, <2>3, <2>4 DEF LeaveFind
<1>10. ASSUME NEW c \in Calls, LeaveMark(c) PROVE RoomInv'
  BY <1>2, <1>10 DEF LeaveMark, PendingInv, Left
<1>11. ASSUME NEW c \in Calls, NEW a \in {"success", "unconfirmed"},
              PublishLeave(c), Finish(c, a)
       PROVE  RoomInv'
  <2>1. job[c].user \in Users /\ member[job[c].user] # "none"
    BY <1>11 DEF PublishLeave, PendingInv, Left, Jobs
  <2>2. Rows' = Rows
    BY <1>11, <2>1 DEF PublishLeave, Rows
  <2>3. Left' = Left \cup {c} /\ c \notin Left
    BY <1>11 DEF PublishLeave, Left, PendingInv
  <2>4. Cardinality(Left \cup {c}) = Cardinality(Left) + 1
    BY <2>3, CountedFinite, FS_AddElement
  <2>5. CountIsRowsLessLeaves'
    <3>1. memberCount' = memberCount - 1
      BY <1>11 DEF PublishLeave
    <3>2. QED
      BY <2>2, <2>3, <2>4, <3>1, CountedFinite DEF CountIsRowsLessLeaves
  <2>6. BeforeRoomInv'
    BY <1>11 DEF PublishLeave, BeforeRoomInv, Left
  <2>7. PendingInv'
    <3>1. \A d \in Calls \ {c} : pc[d] # "inserted"
      BY <1>11 DEF PublishLeave, RoomShared
    <3>2. \A d \in Calls : job[d].user \in Users
      BY DEF Jobs
    <3>3. QED
      BY <1>11, <3>1, <3>2 DEF PublishLeave, PendingInv, Left, Adds
  <2>8. QED
    BY <1>0, <2>5, <2>6, <2>7
<1>12. ASSUME NEW c \in Calls, LeaveBelowZero(c) PROVE RoomInv'
  BY <1>2, <1>12 DEF LeaveBelowZero
<1>13. ASSUME NEW c \in Calls, Fail(c) PROVE RoomInv'
  BY <1>2, <1>13 DEF Fail
<1>14. ASSUME Crash PROVE RoomInv'
  <2>1. Rows' = Rows /\ Left' = Left
    BY <1>14 DEF Crash, Rows, Left, PendingInv
  <2>2. CountIsRowsLessLeaves'
    BY <1>14, <2>1, CountUntouched DEF Crash
  <2>3. BeforeRoomInv' /\ PendingInv'
    BY <1>14 DEF Crash, BeforeRoomInv, PendingInv, Left
  <2>4. QED
    BY <1>0, <2>2, <2>3
<1>15. ASSUME UNCHANGED vars PROVE RoomInv'
  <2>1. Rows' = Rows /\ Left' = Left
    BY <1>15 DEF vars, Rows, Left
  <2>2. QED
    BY <1>0, <1>15, <2>1, CountUntouched DEF vars, BeforeRoomInv, PendingInv, Left, Adds
<1>16. QED
  BY <1>1, <1>3, <1>4, <1>5, <1>6, <1>7, <1>8, <1>9, <1>10, <1>11, <1>12,
     <1>13, <1>14, <1>15 DEF Next, Arrive, Serve, Unacknowledged, CreateRoom, InviteCommit, LeaveCommit

LEMMA RoomCorrect == Spec => []RoomInv
  BY RoomInit, RoomStep, PTL DEF Spec

\* memberCount is the number of rows ever inserted less the number of
\* committed leaves, for any number of concurrent invitations and leaves.
THEOREM CountCorrect == Spec => []CountIsRowsLessLeaves
  BY RoomCorrect, PTL DEF RoomInv

-----------------------------------------------------------------------------
(* The right to the history.                                               *)

\* Nobody may read what was written before joining.
NobodyReadsHistory == \A u \in Users : ~history[u]

\* createRoom starts with the right withheld, and only who has it passes it on.
HistoryInv == NobodyReadsHistory /\ \A c \in Calls : job[c].right # "yes"

\* A caller's right to the history is read from a table in which nobody has
\* it.
LEMMA HistoryStep ==
    TypeOK /\ HistoryInv /\ [Next]_vars => HistoryInv'
<1> SUFFICES ASSUME TypeOK, HistoryInv, [Next]_vars PROVE HistoryInv'
  OBVIOUS
<1> USE DEF TypeOK, HistoryInv, NobodyReadsHistory, NoJob
<1>1. ASSUME NEW c \in Calls, NEW a \in Answers, PublishInvited(c), Finish(c, a)
      PROVE  HistoryInv'
  BY <1>1 DEF PublishInvited, GivesHistory
<1>2. ASSUME NEW c \in Calls, InviteCheck(c) PROVE HistoryInv'
  <2>1. PICK user \in Users, inviter \in Users,
             list \in Invitations, give \in BOOLEAN :
            \/ member[inviter] # "active" /\ Finish(c, "forbidden")
            \/ /\ member[inviter] = "active" /\ room = "DM"
               /\ Finish(c, "invalid")
            \/ /\ member[inviter] = "active" /\ room # "DM"
               /\ Goto(c, "checked")
               /\ job' = [job EXCEPT ![c] = [NoJob EXCEPT !.user = user,
                         !.asked = list.asked, !.twice = list.twice, !.give = give]]
               /\ UNCHANGED answer
    BY <1>2, Zenon DEF InviteCheck
  <2>2. job'[c].right = "no" /\ \A d \in Calls \ {c} : job'[d] = job[d]
    <3>1. NoJob.right = "no"
      OBVIOUS
    <3>2. [NoJob EXCEPT !.user = user, !.asked = list.asked,
                        !.twice = list.twice, !.give = give].right = "no"
      OBVIOUS
    <3>3. job' = [job EXCEPT ![c] = NoJob]
          \/ job' = [job EXCEPT ![c] = [NoJob EXCEPT !.user = user,
                         !.asked = list.asked, !.twice = list.twice, !.give = give]]
      BY <2>1, Zenon
    <3>4. ASSUME NEW j, j.right = "no", job' = [job EXCEPT ![c] = j]
          PROVE  job'[c].right = "no" /\ \A d \in Calls \ {c} : job'[d] = job[d]
      BY <3>4
    <3>5. QED
      BY <3>1, <3>2, <3>3, <3>4, Zenon
  <2>3. UNCHANGED history
    BY <1>2 DEF InviteCheck
  <2>4. QED
    BY <2>2, <2>3
<1>3. ASSUME NEW c \in Calls, InviteReadRight(c) PROVE HistoryInv'
  BY <1>3 DEF InviteReadRight, Jobs
<1>4. ASSUME NEW c \in Calls, InviteFilter(c) PROVE HistoryInv'
  BY <1>4 DEF InviteFilter, Jobs
<1>5. ASSUME NEW c \in Calls, LeaveFind(c) PROVE HistoryInv'
  BY <1>5 DEF LeaveFind, Jobs
<1>6. ASSUME NEW c \in Calls,
             \/ \E a \in Answers : (OpenRoom(c) \/ PublishLeave(c)) /\ Finish(c, a)
             \/ InviteInsert(c) \/ InviteDeadlock(c)
             \/ LeaveMark(c) \/ LeaveBelowZero(c) \/ Fail(c)
      PROVE HistoryInv'
  BY <1>6 DEF OpenRoom, InviteInsert, InviteDeadlock, LeaveMark, PublishLeave,
     LeaveBelowZero, Fail
<1>7. ASSUME Crash \/ UNCHANGED vars PROVE HistoryInv'
  BY <1>7 DEF Crash, vars
<1>8. QED
  BY <1>1, <1>2, <1>3, <1>4, <1>5, <1>6, <1>7 DEF Next, Arrive, Serve, Unacknowledged, CreateRoom, InviteCommit, LeaveCommit

\* Why GiveReadHistoryGrants fails wherever it can: nobody ever gets
\* isReadHistory, in a room of any size, whatever the invitations ask for.
THEOREM NobodyReadsHistoryCorrect == Spec => []NobodyReadsHistory
<1>1. Init => HistoryInv
  BY DEF Init, HistoryInv, NobodyReadsHistory, NoJob
<1>2. HistoryInv => NobodyReadsHistory
  BY DEF HistoryInv
<1>3. QED
  BY <1>1, <1>2, HistoryStep, TypeCorrect, PTL DEF Spec

-----------------------------------------------------------------------------
\* A handler's step is a step of the membership or leaves it alone.
LEMMA MembershipStep ==
    RoomInv /\ [Next]_vars => [Membership!Next]_(Membership!membershipVars)
<1> SUFFICES ASSUME RoomInv, [Next]_vars
             PROVE  Membership!Next \/ UNCHANGED <<room, member>>
  BY DEF Membership!membershipVars
<1> USE DEF RoomInv, TypeOK, Membership!Next
<1>1. ASSUME NEW c \in Calls, OpenRoom(c) PROVE Membership!Create
  <2>1. PICK user \in Users, others \in SUBSET Users, type \in {"GROUP", "DM"} :
            /\ room' = type
            /\ member' = [u \in Users |-> IF u \in {user} \cup others
                                          THEN "active" ELSE "none"]
    BY <1>1 DEF OpenRoom
  <2>2. {user} \cup others \in (SUBSET Users) \ {{}}
    <3>1. {user} \cup others \subseteq Users /\ user \in {user} \cup others
      OBVIOUS
    <3>2. {user} \cup others # {}
      BY <3>1
    <3>3. QED
      BY <3>1, <3>2, Zenon
  <2>3. \E S \in (SUBSET Users) \ {{}} :
            member' = [u \in Users |-> IF u \in S THEN "active" ELSE "none"]
    BY <2>1, <2>2, Zenon
  <2>4. room = "absent" /\ room' \in {"GROUP", "DM"}
    BY <1>1, <2>1 DEF OpenRoom
  <2>5. QED
    BY <2>3, <2>4, Zenon DEF Membership!Create
<1>2. ASSUME NEW c \in Calls, PublishInvited(c) PROVE Membership!Admit(Adds(c))
  BY <1>2 DEF PublishInvited, PendingInv, Membership!Admit
<1>3. ASSUME NEW c \in Calls, PublishInvited(c) PROVE Adds(c) \in SUBSET Users
  BY DEF Adds, Jobs
<1>4. ASSUME NEW c \in Calls, PublishLeave(c)
      PROVE  Membership!Leave(job[c].user) \/ UNCHANGED <<room, member>>
  <2>1. job[c].user \in Users /\ member[job[c].user] \in {"active", "left"}
    BY <1>4 DEF PublishLeave, PendingInv, Jobs
  <2>2. QED
    BY <1>4, <2>1 DEF PublishLeave, Membership!Leave
<1>5. ASSUME NEW c \in Calls, PublishLeave(c) PROVE job[c].user \in Users
  BY DEF Jobs
<1>6. ASSUME NEW c \in Calls,
             InviteCheck(c) \/ InviteReadRight(c) \/ InviteFilter(c)
                \/ InviteInsert(c) \/ InviteDeadlock(c) \/ LeaveFind(c)
                \/ LeaveMark(c) \/ LeaveBelowZero(c) \/ Fail(c)
      PROVE  UNCHANGED <<room, member>>
  BY <1>6 DEF InviteCheck, InviteReadRight, InviteFilter, InviteInsert,
     InviteDeadlock, LeaveFind, LeaveMark, LeaveBelowZero, Fail
<1>7. ASSUME Crash \/ UNCHANGED vars PROVE UNCHANGED <<room, member>>
  BY <1>7 DEF Crash, vars
<1>8. QED
  BY <1>1, <1>2, <1>3, <1>4, <1>5, <1>6, <1>7 DEF Next, Arrive, Serve, Unacknowledged, CreateRoom, InviteCommit, LeaveCommit

\* The concurrent handlers implement the membership: rows appear with the
\* room or by an invitation to a group room, exactly once, and who has left
\* stays out.
THEOREM MembershipImplemented == Spec => ImplementsMembership
<1>1. Init => Membership!Init
  BY DEF Init, Membership!Init
<1>2. QED
  BY <1>1, MembershipStep, RoomCorrect, PTL
  DEF Spec, ImplementsMembership, Membership!Spec
=============================================================================
