-------------------------- MODULE ChatGatewayProofs --------------------------
(***************************************************************************)
(* Theorems about the websocket side of a chat room, for any number of     *)
(* users, sockets and events.                                              *)
(***************************************************************************)
EXTENDS ChatGateway, FiniteSetTheorems, TLAPS

USE DEF rows, wires

\* The idle job is a job.
LEMMA NoJobType == NoJob \in Jobs
<1>1. PICK s \in Sockets : s = CHOOSE t \in Sockets : TRUE
  BY SomeSockets
<1>2. UserOf[s] \in Users
  BY UserOfTyped
<1>3. NoJob = [kind |-> "none", socket |-> s, user |-> UserOf[s], of |-> 0,
               left |-> {}, hearers |-> {}]
  BY <1>1 DEF NoJob
<1>4. QED
  BY <1>2, <1>3 DEF Jobs, Kinds

-----------------------------------------------------------------------------
(* What a step does to the locals, the rows and the inboxes.               *)

\* Only the locals of call c change.
Local(c) ==
    /\ pc' \in [Calls -> Phases]
    /\ answer' \in [Calls -> Answers]
    /\ \A d \in Calls \ {c} : pc'[d] = pc[d] /\ answer'[d] = answer[d]

LEMMA Moved ==
    ASSUME TypeOK, NEW c \in Calls, NEW phase \in Phases, Goto(c, phase)
    PROVE  Local(c) /\ pc'[c] = phase /\ answer'[c] = answer[c]
  BY DEF TypeOK, Goto, Local

LEMMA Finished ==
    ASSUME TypeOK, NEW c \in Calls, NEW a \in Answers, Finish(c, a)
    PROVE  Local(c) /\ pc'[c] = "done" /\ answer'[c] = a
  BY DEF TypeOK, Finish, Local, Phases

\* The job of d, but for the sockets that still hear its call.
SameJob(d) ==
    /\ job'[d].kind = job[d].kind /\ job'[d].socket = job[d].socket
    /\ job'[d].user = job[d].user /\ job'[d].of = job[d].of
    /\ job'[d].left = job[d].left

LEMMA Dropped ==
    ASSUME TypeOK, NEW S \in SUBSET Sockets, Drop(S)
    PROVE  /\ job' \in [Calls -> Jobs] /\ \A d \in Calls : SameJob(d)
           /\ joinedBy' \in [Sockets -> Calls \cup {0}]
           /\ \A s \in Sockets : joinedBy'[s] = IF s \in S THEN 0 ELSE joinedBy[s]
<1>1. ASSUME NEW d \in Calls
      PROVE  [job[d] EXCEPT !.hearers = @ \ S] \in Jobs /\ SameJob(d)
  BY DEF TypeOK, Jobs, Drop, SameJob
<1>2. QED
  BY <1>1 DEF Drop, TypeOK

\* One socket was sent one event more, or nothing.
Received(s, e) ==
    \/ inbox'[s] = inbox[s]
    \/ /\ Len(inbox'[s]) = Len(inbox[s]) + 1
       /\ inbox'[s][Len(inbox[s]) + 1] = e
       /\ \A i \in 1 .. Len(inbox[s]) : inbox'[s][i] = inbox[s][i]

LEMMA Sent ==
    ASSUME TypeOK, NEW S, NEW e \in Events, SentTo(S, e)
    PROVE  /\ inbox' \in [Sockets -> Seq(Events)]
           /\ \A s \in Sockets : Received(s, e)
           /\ \A s \in Sockets : IF s \in S THEN inbox'[s] = Append(inbox[s], e)
                                            ELSE inbox'[s] = inbox[s]
<1>1. ASSUME NEW s \in Sockets
      PROVE  /\ inbox'[s] \in Seq(Events) /\ Received(s, e)
             /\ IF s \in S THEN inbox'[s] = Append(inbox[s], e) ELSE inbox'[s] = inbox[s]
  <2>1. inbox[s] \in Seq(Events)
    BY DEF TypeOK
  <2>2. inbox'[s] = IF s \in S THEN Append(inbox[s], e) ELSE inbox[s]
    BY DEF SentTo
  <2>3. QED
    BY <2>1, <2>2 DEF Received
<1>2. inbox' = [s \in Sockets |-> inbox'[s]]
  BY DEF SentTo
<1>3. QED
  BY <1>1, <1>2

LEMMA EventType ==
    ASSUME TypeOK, NEW c \in Calls, NEW type \in RoomEvents \cup {"joinedRoom", "leftRoom"}
    PROVE  /\ Event(c, type) \in Events
           /\ Event(c, type).by = c /\ Event(c, type).type = type
           /\ Event(c, type).user = job[c].user /\ Event(c, type).of = job[c].of
<1>1. job[c] \in Jobs
  BY DEF TypeOK
<1>2. QED
  BY <1>1 DEF Event, Events, Jobs

\* Rows are not removed, and who has left stays out.
RowsGrow ==
    /\ \A u \in Users : member[u] # "none" => member'[u] # "none"
    /\ \A u \in Users : member[u] = "left" => member'[u] = "left"
    /\ stored \subseteq stored' /\ receipts \subseteq receipts'

-----------------------------------------------------------------------------
(* The invariant.                                                          *)

\* What is known of a call in each phase.
JobMatches(c) ==
    /\ \A u \in job[c].left : member[u] = "left"
    /\ pc[c] \in {"check", "act"} =>
          /\ job[c].kind \in {"join", "leave", "typing"}
          /\ job[c].user = UserOf[job[c].socket]
    /\ pc[c] = "act" => member[job[c].user] # "none" /\ job[c].user \notin job[c].left
    /\ pc[c] = "save" => job[c].kind \in {"send", "mark"}
    /\ pc[c] \in {"save", "emit"} /\ job[c].kind = "send" => job[c].of = c
    /\ pc[c] = "save" /\ job[c].kind = "mark" => job[c].of \in stored
    /\ pc[c] = "emit" =>
          \/ job[c].kind = "send" /\ job[c].of \in stored
          \/ job[c].kind = "mark" /\ <<job[c].user, job[c].of>> \in receipts

\* Sockets are in the room by a call that is over.
JoinMatches(s) ==
    joinedBy[s] # 0 =>
        /\ pc[joinedBy[s]] = "done"
        /\ member[UserOf[s]] # "none"
        /\ UserOf[s] \notin job[joinedBy[s]].left

\* A room without a row has no members.
RoomMatches == room = "absent" => \A u \in Users : member[u] = "none"

Typed ==
    /\ TypeOK /\ RoomMatches
    /\ \A c \in Calls : JobMatches(c)
    /\ \A s \in Sockets : JoinMatches(s)

LEMMA TypeInit == Init => Typed
<1> SUFFICES ASSUME Init PROVE Typed
  OBVIOUS
<1>1. TypeOK
  BY NoJobType DEF Init, TypeOK, Membership!Init, InRoom, Phases, Answers
<1>2. ASSUME NEW c \in Calls PROVE JobMatches(c)
  <2>1. job[c].left = {} /\ pc[c] = "idle"
    BY <1>2 DEF Init, NoJob
  <2>2. QED
    BY <2>1 DEF JobMatches
<1>3. QED
  BY <1>1, <1>2 DEF Init, Typed, RoomMatches, JoinMatches, Membership!Init

\* A step of call c, or of no call: what the other calls and the sockets that
\* stay in the room rely on is kept.
Keeps(D) ==
    /\ RowsGrow
    /\ \A d \in D : pc'[d] = pc[d] /\ SameJob(d)
    /\ \A d \in Calls : pc[d] = "done" => pc'[d] = "done" /\ SameJob(d)

LEMMA Kept ==
    ASSUME Typed, NEW D \in SUBSET Calls, Keeps(D), NEW d \in D
    PROVE  JobMatches(d)'
<1>1. JobMatches(d) /\ pc'[d] = pc[d] /\ SameJob(d)
  BY DEF Typed, Keeps
<1>2. job[d] \in Jobs
  BY DEF Typed, TypeOK
<1>3. QED
  BY <1>1, <1>2 DEF JobMatches, SameJob, Keeps, RowsGrow, Jobs

LEMMA KeptJoined ==
    ASSUME Typed, NEW D \in SUBSET Calls, Keeps(D), NEW s \in Sockets,
           joinedBy'[s] \in {0, joinedBy[s]}
    PROVE  JoinMatches(s)'
<1>1. UserOf[s] \in Users
  BY UserOfTyped
<1>2. JoinMatches(s) /\ joinedBy[s] \in Calls \cup {0}
  BY DEF Typed, TypeOK
<1>3. QED
  BY <1>1, <1>2 DEF JoinMatches, Keeps, SameJob, RowsGrow

-----------------------------------------------------------------------------
(* Every step keeps the invariant.                                         *)

\* A step of call c.
Stepped(c) ==
    /\ TypeOK' /\ RoomMatches'
    /\ Keeps(Calls \ {c})
    /\ JobMatches(c)'
    /\ \A s \in Sockets : joinedBy'[s] \in {0, joinedBy[s]} \/ JoinMatches(s)'

LEMMA SteppedTyped == ASSUME Typed, NEW c \in Calls, Stepped(c) PROVE Typed'
<1>1. \A d \in Calls \ {c} : JobMatches(d)'
  BY Kept DEF Stepped
<1>2. \A s \in Sockets : JoinMatches(s)'
  BY KeptJoined DEF Stepped
<1>3. QED
  BY <1>1, <1>2 DEF Stepped, Typed

LEMMA ArriveStep ==
    ASSUME Typed, NEW c \in Calls, NEW j \in Jobs,
           NEW phase \in {"check", "save", "done"}, Arrive(c, j, phase)
    PROVE  /\ TypeOK' /\ RoomMatches' /\ Keeps(Calls \ {c})
           /\ UNCHANGED <<rows, wires>>
           /\ pc'[c] = phase
           /\ job'[c].kind = j.kind /\ job'[c].socket = j.socket
           /\ job'[c].user = j.user /\ job'[c].of = j.of
           /\ \A u \in job'[c].left : member[u] = "left"
<1> USE DEF Typed
<1>1. PICK k \in Jobs :
          k = [j EXCEPT !.left = {u \in Users : member[u] = "left"}, !.hearers = InRoom]
  BY DEF Jobs, InRoom
<1>2. /\ k.kind = j.kind /\ k.socket = j.socket /\ k.user = j.user /\ k.of = j.of
      /\ k.left = {u \in Users : member[u] = "left"}
  BY <1>1 DEF Jobs
<1>3. job' = [job EXCEPT ![c] = k] /\ pc[c] = "idle" /\ UNCHANGED <<rows, wires>>
  BY <1>1 DEF Arrive
<1>4. job'[c] = k /\ job' \in [Calls -> Jobs] /\ \A d \in Calls \ {c} : job'[d] = job[d]
  BY <1>3 DEF TypeOK
<1>5. Local(c) /\ pc'[c] = phase
  BY Moved, Finished DEF Arrive, Phases, Answers
<1>6. before' \in [Calls -> SUBSET Calls]
  BY DEF Arrive, TypeOK
<1>7. TypeOK'
  BY <1>3, <1>4, <1>5, <1>6 DEF TypeOK, Local, InRoom, On
<1>8. RowsGrow /\ RoomMatches'
  BY <1>3 DEF RowsGrow, RoomMatches
<1>9. Keeps(Calls \ {c})
  BY <1>3, <1>4, <1>5, <1>8 DEF Keeps, Local, SameJob
<1>10. QED
  BY <1>2, <1>3, <1>4, <1>5, <1>7, <1>8, <1>9

\* An event of a client arrives in the phase of its kind, or is rejected.
LEMMA ReceiveArrives ==
    ASSUME Typed, NEW c \in Calls, Receive(c)
    PROVE  \E j \in Jobs, phase \in {"check", "save", "done"} :
              /\ Arrive(c, j, phase)
              /\ j.user = UserOf[j.socket] /\ j.kind \in {"join", "leave", "send", "typing"}
              /\ j.kind = "send" => j.of = c
              /\ phase = "save" => j.kind = "send"
              /\ phase = "check" => j.kind # "send"
<1>1. PICK s \in Sockets, kind \in {"join", "leave", "send", "typing"} :
          Arrive(c, [NoJob EXCEPT !.kind = kind, !.socket = s, !.user = UserOf[s],
                                  !.of = IF kind = "send" THEN c ELSE 0],
                 CASE socket[s] = "expired" -> "done"
                   [] socket[s] # "expired" /\ kind = "send" -> "save"
                   [] OTHER -> "check")
  BY Zenon DEF Receive
<1>2. PICK j \in Jobs : j = [NoJob EXCEPT !.kind = kind, !.socket = s, !.user = UserOf[s],
                                         !.of = IF kind = "send" THEN c ELSE 0]
  <2>1. UserOf[s] \in Users /\ kind \in Kinds /\ (IF kind = "send" THEN c ELSE 0) \in Calls \cup {0}
    BY UserOfTyped DEF Kinds
  <2>2. QED
    BY <2>1, NoJobType DEF Jobs
<1>3. PICK phase \in {"check", "save", "done"} :
          /\ phase = CASE socket[s] = "expired" -> "done"
                       [] socket[s] # "expired" /\ kind = "send" -> "save"
                       [] OTHER -> "check"
          /\ phase = "save" => kind = "send"
          /\ phase = "check" => kind # "send"
  <2>1. CASE socket[s] = "expired"
    BY <2>1
  <2>2. CASE socket[s] # "expired" /\ kind = "send"
    BY <2>2
  <2>3. CASE socket[s] # "expired" /\ kind # "send"
    BY <2>3
  <2>4. QED
    BY <2>1, <2>2, <2>3
<1>4. Arrive(c, j, phase)
  BY <1>1, <1>2, <1>3
<1>5. j.kind = kind /\ j.socket = s /\ j.user = UserOf[s] /\ (kind = "send" => j.of = c)
  BY <1>2, NoJobType DEF Jobs
<1>6. QED
  BY <1>3, <1>4, <1>5

\* markRead arrives in the transaction that stores the receipt.
LEMMA MarkArrives ==
    ASSUME Typed, NEW c \in Calls, Mark(c)
    PROVE  \E j \in Jobs : Arrive(c, j, "save") /\ j.kind = "mark" /\ j.of \in stored
<1>1. PICK u \in Users : \E m \in stored :
          Arrive(c, [NoJob EXCEPT !.kind = "mark", !.user = u, !.of = m], "save")
  BY DEF Mark
<1>2. PICK m \in stored :
          Arrive(c, [NoJob EXCEPT !.kind = "mark", !.user = u, !.of = m], "save")
  BY <1>1
<1>3. PICK j \in Jobs : j = [NoJob EXCEPT !.kind = "mark", !.user = u, !.of = m]
  BY NoJobType DEF Jobs, Kinds, Typed, TypeOK
<1>4. Arrive(c, j, "save") /\ j.kind = "mark" /\ j.of = m
  BY <1>2, <1>3, NoJobType DEF Jobs
<1>5. QED
  BY <1>4

LEMMA ReceiveStep == ASSUME Typed, NEW c \in Calls, Receive(c) PROVE Stepped(c)
<1>1. PICK j \in Jobs, phase \in {"check", "save", "done"} :
          /\ Arrive(c, j, phase)
          /\ j.user = UserOf[j.socket] /\ j.kind \in {"join", "leave", "send", "typing"}
          /\ j.kind = "send" => j.of = c
          /\ phase = "save" => j.kind = "send"
          /\ phase = "check" => j.kind # "send"
  BY ReceiveArrives
<1>2. /\ UNCHANGED <<rows, wires>> /\ pc'[c] = phase
      /\ job'[c].kind = j.kind /\ job'[c].socket = j.socket
      /\ job'[c].user = j.user /\ job'[c].of = j.of
      /\ \A u \in job'[c].left : member[u] = "left"
  BY <1>1, ArriveStep
<1>3. JobMatches(c)'
  BY <1>1, <1>2 DEF JobMatches
<1>4. QED
  BY <1>1, <1>2, <1>3, ArriveStep DEF Stepped

LEMMA MarkStep == ASSUME Typed, NEW c \in Calls, Mark(c) PROVE Stepped(c)
<1>1. PICK j \in Jobs : Arrive(c, j, "save") /\ j.kind = "mark" /\ j.of \in stored
  BY MarkArrives
<1>2. /\ UNCHANGED <<rows, wires>> /\ pc'[c] = "save"
      /\ job'[c].kind = "mark" /\ job'[c].of \in stored
      /\ \A u \in job'[c].left : member[u] = "left"
  BY <1>1, ArriveStep
<1>3. JobMatches(c)'
  BY <1>2 DEF JobMatches
<1>4. QED
  BY <1>1, <1>2, <1>3, ArriveStep DEF Stepped

LEMMA ServeStep ==
    ASSUME Typed, NEW c \in Calls, Serve(c) \/ Fail(c) PROVE Stepped(c)
<1> USE DEF Typed
<1>0. /\ job[c] \in Jobs /\ JobMatches(c) /\ c # 0 /\ job[c].socket \in Sockets
      /\ job[c].user \in Users /\ job[c].of \in Calls \cup {0}
      /\ joinedBy \in [Sockets -> Calls \cup {0}]
  BY CallsPositive DEF TypeOK, Jobs
<1>1. CASE MemberCheck(c)
  <2>1. /\ Local(c) /\ pc'[c] \in {"act", "done"} /\ pc[c] = "check"
        /\ pc'[c] = "act" => member[job[c].user] = "active"
        /\ UNCHANGED <<rows, wires, job, before>>
    BY <1>1, Moved, Finished DEF MemberCheck, Phases, Answers, Active
  <2>2. TypeOK' /\ RoomMatches'
    BY <2>1 DEF Local, TypeOK, InRoom, On, RoomMatches
  <2>3. Keeps(Calls \ {c})
    BY <2>1 DEF Keeps, Local, RowsGrow, SameJob
  <2>4. JobMatches(c)'
    BY <1>0, <2>1 DEF JobMatches
  <2>5. QED
    BY <2>1, <2>2, <2>3, <2>4 DEF Stepped
<1>2. CASE JoinRoom(c)
  <2>1. /\ Local(c) /\ pc'[c] = "done" /\ pc[c] = "act"
        /\ UNCHANGED <<rows, socket, job, before>>
    BY <1>2, Finished DEF JoinRoom, Answers
  <2>2. \/ UNCHANGED <<joinedBy, inbox>>
        \/ /\ On(job[c].socket)
           /\ joinedBy' = [joinedBy EXCEPT ![job[c].socket] = IF @ = 0 THEN c ELSE @]
           /\ SentTo({job[c].socket}, Event(c, "joinedRoom"))
    BY <1>2 DEF JoinRoom
  <2>3. inbox' \in [Sockets -> Seq(Events)]
    BY <2>2, Sent, EventType DEF TypeOK
  <2>4. TypeOK' /\ RoomMatches'
    BY <1>0, <2>1, <2>2, <2>3 DEF Local, TypeOK, InRoom, On, RoomMatches
  <2>5. Keeps(Calls \ {c})
    BY <2>1 DEF Keeps, Local, RowsGrow, SameJob
  <2>6. JobMatches(c)'
    BY <1>0, <2>1 DEF JobMatches
  <2>7. ASSUME NEW s \in Sockets PROVE joinedBy'[s] \in {0, joinedBy[s]} \/ JoinMatches(s)'
    BY <1>0, <2>1, <2>2 DEF JoinMatches, JobMatches
  <2>8. QED
    BY <2>4, <2>5, <2>6, <2>7 DEF Stepped
<1>3. CASE LeaveRoom(c)
  <2>1. /\ Local(c) /\ pc'[c] = "done" /\ pc[c] = "act"
        /\ UNCHANGED <<rows, socket, before>>
        /\ Drop({job[c].socket})
    BY <1>3, Finished DEF LeaveRoom, Answers
  <2>2. /\ job' \in [Calls -> Jobs] /\ \A d \in Calls : SameJob(d)
        /\ joinedBy' \in [Sockets -> Calls \cup {0}]
        /\ \A s \in Sockets : joinedBy'[s] \in {0, joinedBy[s]}
    BY <1>0, <2>1, Dropped
  <2>3. inbox' \in [Sockets -> Seq(Events)]
    BY <1>3, Sent, EventType DEF LeaveRoom
  <2>4. TypeOK' /\ RoomMatches'
    BY <2>1, <2>2, <2>3 DEF Local, TypeOK, InRoom, On, RoomMatches
  <2>5. Keeps(Calls \ {c})
    BY <2>1, <2>2 DEF Keeps, Local, RowsGrow
  <2>6. JobMatches(c)'
    BY <1>0, <2>1, <2>2 DEF JobMatches, SameJob
  <2>7. QED
    BY <2>2, <2>4, <2>5, <2>6 DEF Stepped
<1>4. CASE Typing(c) \/ Broadcast(c)
  <2>1. /\ Local(c) /\ pc'[c] = "done" /\ pc[c] # "done"
        /\ UNCHANGED <<rows, socket, joinedBy, job, before>>
    BY <1>4, Finished DEF Typing, Broadcast, Answers
  <2>2. inbox' \in [Sockets -> Seq(Events)]
    BY <1>4, Sent, EventType DEF Typing, Broadcast, RoomEvents
  <2>3. TypeOK' /\ RoomMatches'
    BY <2>1, <2>2 DEF Local, TypeOK, InRoom, On, RoomMatches
  <2>4. Keeps(Calls \ {c})
    BY <2>1 DEF Keeps, Local, RowsGrow, SameJob
  <2>5. JobMatches(c)'
    BY <1>0, <2>1 DEF JobMatches
  <2>6. QED
    BY <2>1, <2>3, <2>4, <2>5 DEF Stepped
<1>5. CASE SaveMessage(c)
  <2>1. /\ Local(c) /\ pc[c] = "save" /\ job[c].kind = "send"
        /\ UNCHANGED <<room, member, receipts, wires, job, before>>
        /\ \/ pc'[c] = "done" /\ stored' \in {stored, stored \cup {c}}
           \/ pc'[c] = "emit" /\ stored' = stored \cup {c}
    BY <1>5, Moved, Finished DEF SaveMessage, Phases, Answers
  <2>2. TypeOK' /\ RoomMatches'
    BY <2>1 DEF Local, TypeOK, InRoom, On, RoomMatches
  <2>3. Keeps(Calls \ {c})
    BY <2>1 DEF Keeps, Local, RowsGrow, SameJob
  <2>4. JobMatches(c)'
    BY <1>0, <2>1 DEF JobMatches
  <2>5. QED
    BY <2>1, <2>2, <2>3, <2>4 DEF Stepped
<1>6. CASE SaveMark(c)
  <2>1. /\ Local(c) /\ pc[c] = "save" /\ job[c].kind = "mark"
        /\ UNCHANGED <<room, member, stored, wires, job, before>>
        /\ receipts' = receipts \cup {<<job[c].user, job[c].of>>}
        /\ pc'[c] \in {"emit", "done"}
    BY <1>6, Moved, Finished DEF SaveMark, Phases, Answers
  <2>2. TypeOK' /\ RoomMatches'
    BY <1>0, <2>1 DEF Local, TypeOK, InRoom, On, RoomMatches, JobMatches
  <2>3. Keeps(Calls \ {c})
    BY <2>1 DEF Keeps, Local, RowsGrow, SameJob
  <2>4. JobMatches(c)'
    BY <1>0, <2>1 DEF JobMatches
  <2>5. QED
    BY <2>1, <2>2, <2>3, <2>4 DEF Stepped
<1>7. CASE Fail(c)
  <2>1. /\ Local(c) /\ pc'[c] = "done" /\ pc[c] # "done"
        /\ UNCHANGED <<rows, wires, job, before>>
    BY <1>7, Finished DEF Fail, Answers
  <2>2. TypeOK' /\ RoomMatches'
    BY <2>1 DEF Local, TypeOK, InRoom, On, RoomMatches
  <2>3. Keeps(Calls \ {c})
    BY <2>1 DEF Keeps, Local, RowsGrow, SameJob
  <2>4. JobMatches(c)'
    BY <1>0, <2>1 DEF JobMatches
  <2>5. QED
    BY <2>1, <2>2, <2>3, <2>4 DEF Stepped
<1>8. QED
  BY <1>1, <1>2, <1>3, <1>4, <1>5, <1>6, <1>7 DEF Serve

\* A step of no call keeps what all of them rely on.
LEMMA OtherStep ==
    ASSUME Typed, MembershipStep \/ (\E s \in Sockets : Connect(s) \/ Expire(s) \/ Disconnect(s))
                  \/ UNCHANGED vars
    PROVE  Typed'
<1> USE DEF Typed
<1>1. CASE MembershipStep
  <2>1. /\ UNCHANGED <<stored, receipts, wires, pc, job, answer, before>>
        /\ Membership!Next
    BY <1>1 DEF MembershipStep
  <2>2. /\ room' \in {"absent", "GROUP", "DM"}
        /\ member' \in [Users -> {"none", "active", "left"}]
        /\ room' = "absent" => FALSE
        /\ RowsGrow
    <3>1. CASE Membership!Create
      BY <2>1, <3>1 DEF Membership!Create, TypeOK, RoomMatches, RowsGrow
    <3>2. CASE \E S \in SUBSET Users : Membership!Admit(S)
      BY <2>1, <3>2 DEF Membership!Admit, TypeOK, RowsGrow
    <3>3. CASE \E u \in Users : Membership!Leave(u)
      BY <2>1, <3>3 DEF Membership!Leave, TypeOK, RoomMatches, RowsGrow
    <3>4. QED
      BY <2>1, <3>1, <3>2, <3>3 DEF Membership!Next
  <2>3. TypeOK' /\ RoomMatches'
    BY <2>1, <2>2 DEF TypeOK, InRoom, On, RoomMatches
  <2>4. Keeps(Calls)
    BY <2>1, <2>2 DEF Keeps, SameJob
  <2>5. QED
    BY <2>1, <2>3, <2>4, Kept, KeptJoined
<1>2. ASSUME NEW s \in Sockets, Connect(s) \/ Expire(s) PROVE Typed'
  <2>1. UNCHANGED <<rows, joinedBy, inbox, pc, job, answer, before>>
    BY <1>2 DEF Connect, Expire
  <2>2. /\ socket' \in [Sockets -> {"new", "on", "expired", "off"}]
        /\ \A t \in Sockets : On(t) => On(t)'
    BY <1>2 DEF Connect, Expire, TypeOK, On
  <2>3. TypeOK' /\ RoomMatches'
    BY <2>1, <2>2 DEF TypeOK, InRoom, RoomMatches
  <2>4. Keeps(Calls)
    BY <2>1 DEF Keeps, SameJob, RowsGrow
  <2>5. QED
    BY <2>1, <2>3, <2>4, Kept, KeptJoined
<1>3. ASSUME NEW s \in Sockets, Disconnect(s) PROVE Typed'
  <2>1. /\ UNCHANGED <<rows, inbox, pc, answer, before>> /\ Drop({s})
        /\ socket' = [socket EXCEPT ![s] = "off"]
    BY <1>3 DEF Disconnect
  <2>2. /\ job' \in [Calls -> Jobs] /\ \A d \in Calls : SameJob(d)
        /\ joinedBy' \in [Sockets -> Calls \cup {0}]
        /\ \A t \in Sockets : joinedBy'[t] = IF t \in {s} THEN 0 ELSE joinedBy[t]
    BY <2>1, Dropped
  <2>3. TypeOK' /\ RoomMatches'
    BY <2>1, <2>2 DEF TypeOK, InRoom, On, RoomMatches
  <2>4. Keeps(Calls)
    BY <2>1, <2>2 DEF Keeps, RowsGrow
  <2>5. \A t \in Sockets : joinedBy'[t] \in {0, joinedBy[t]}
    BY <2>2
  <2>6. QED
    BY <2>3, <2>4, <2>5, Kept, KeptJoined
<1>4. CASE UNCHANGED vars
  <2>1. TypeOK' /\ RoomMatches' /\ Keeps(Calls) /\ UNCHANGED joinedBy
    BY <1>4 DEF vars, TypeOK, InRoom, On, RoomMatches, Keeps, SameJob, RowsGrow
  <2>2. QED
    BY <2>1, Kept, KeptJoined
<1>5. QED
  BY <1>1, <1>2, <1>3, <1>4

LEMMA CrashStep == ASSUME Typed, Crash PROVE Typed'
<1> USE DEF Typed
<1>1. /\ Drop(Sockets) /\ UNCHANGED <<rows, inbox, before>>
      /\ socket' = [s \in Sockets |-> IF On(s) THEN "off" ELSE socket[s]]
      /\ pc' = [c \in Calls |-> IF pc[c] \notin {"idle", "done"} THEN "done" ELSE pc[c]]
      /\ answer' \in [Calls -> Answers]
  BY DEF Crash, TypeOK, Answers
<1>2. /\ job' \in [Calls -> Jobs] /\ \A d \in Calls : SameJob(d)
      /\ joinedBy' \in [Sockets -> Calls \cup {0}]
      /\ \A s \in Sockets : joinedBy'[s] = 0
  BY <1>1, Dropped
<1>3. pc' \in [Calls -> Phases] /\ socket' \in [Sockets -> {"new", "on", "expired", "off"}]
  BY <1>1 DEF TypeOK, Phases, On
<1>4. TypeOK' /\ RoomMatches'
  BY <1>1, <1>2, <1>3 DEF TypeOK, InRoom, RoomMatches
<1>5. \A c \in Calls : JobMatches(c)'
  BY <1>1, <1>2 DEF JobMatches, SameJob
<1>6. \A s \in Sockets : JoinMatches(s)'
  BY <1>2 DEF JoinMatches
<1>7. QED
  BY <1>4, <1>5, <1>6

LEMMA TypeStep == Typed /\ [Next]_vars => Typed'
  BY ReceiveStep, MarkStep, ServeStep, SteppedTyped, OtherStep, CrashStep DEF Next

\* Rows, sockets and locals hold values of their kind; only sockets that are
\* connected are in the room.
THEOREM TypeCorrect == Spec => []TypeOK
<1>1. Typed => TypeOK
  BY DEF Typed
<1>2. QED
  BY TypeInit, TypeStep, <1>1, PTL DEF Spec

\* A socket hears the room only by a join of a member, or of one who had not
\* left when it was made: joinOrLeftRoom looks the member up.
THEOREM HearersCorrect == Spec => []HearersWereMembers
<1>1. Typed => HearersWereMembers
  BY DEF Typed, HearersWereMembers, JoinMatches, InRoom
<1>2. QED
  BY TypeInit, TypeStep, <1>1, PTL DEF Spec

-----------------------------------------------------------------------------
(* What clients are told.                                                  *)

\* The row an event speaks of is in the database.
TrueEvent(e) ==
    /\ e.type = "messageCreated" => e.of \in stored
    /\ e.type = "readUpdated" => <<e.user, e.of>> \in receipts

\* What an event that a socket is sent has to do with its being in the room.
Wire(s, e) ==
    \/ inbox'[s] = inbox[s] /\ joinedBy'[s] \in {0, joinedBy[s]}
    \/ /\ inbox'[s] = Append(inbox[s], e)
       /\ \/ e.type \in RoomEvents /\ joinedBy[s] # 0 /\ joinedBy'[s] = joinedBy[s]
          \/ e.type = "joinedRoom"
          \/ e.type = "leftRoom" /\ joinedBy'[s] = 0

Emission(c, e) ==
    /\ pc[c] # "done" /\ pc'[c] = "done"
    /\ e.by = c /\ TrueEvent(e)
    /\ UNCHANGED before
    /\ \A s \in Sockets : Wire(s, e)

Silence == \A s \in Sockets : inbox'[s] = inbox[s] /\ joinedBy'[s] \in {0, joinedBy[s]}

\* A call in flight sends its events in the step in which it ends.
LEMMA ServeEmits ==
    ASSUME Typed, NEW c \in Calls, Serve(c) \/ Fail(c)
    PROVE  Silence \/ \E e \in Events : Emission(c, e)
<1> USE DEF Typed
<1>0. /\ JobMatches(c) /\ job[c].socket \in Sockets /\ c # 0
      /\ joinedBy \in [Sockets -> Calls \cup {0}]
  BY CallsPositive DEF TypeOK, Jobs
<1>1. CASE MemberCheck(c) \/ SaveMessage(c) \/ SaveMark(c) \/ Fail(c)
  BY <1>1 DEF MemberCheck, SaveMessage, SaveMark, Fail, Silence
<1>2. CASE JoinRoom(c)
  <2>1. pc[c] = "act" /\ pc'[c] = "done" /\ UNCHANGED before
    BY <1>2, Finished DEF JoinRoom, Answers
  <2>2. CASE On(job[c].socket)
    <3>1. /\ joinedBy' = [joinedBy EXCEPT ![job[c].socket] = IF @ = 0 THEN c ELSE @]
          /\ SentTo({job[c].socket}, Event(c, "joinedRoom"))
      BY <1>2, <2>2 DEF JoinRoom
    <3>2. PICK e \in Events : e = Event(c, "joinedRoom")
      BY EventType
    <3>3. e.by = c /\ e.type = "joinedRoom"
      BY <3>2, EventType
    <3>4. \A s \in Sockets : Wire(s, e)
      <4>1. \A s \in Sockets : IF s = job[c].socket THEN inbox'[s] = Append(inbox[s], e)
                                                    ELSE inbox'[s] = inbox[s]
        BY <3>1, <3>2, Sent
      <4>2. QED
        BY <1>0, <3>1, <3>3, <4>1 DEF Wire
    <3>5. QED
      BY <2>1, <3>3, <3>4 DEF Emission, TrueEvent
  <2>3. CASE ~On(job[c].socket)
    BY <1>2, <2>3 DEF JoinRoom, Silence
  <2>4. QED
    BY <2>2, <2>3
<1>3. CASE LeaveRoom(c)
  <2>1. pc[c] = "act" /\ pc'[c] = "done" /\ UNCHANGED before
    BY <1>3, Finished DEF LeaveRoom, Answers
  <2>2. PICK e \in Events : e = Event(c, "leftRoom")
    BY EventType
  <2>3. e.by = c /\ e.type = "leftRoom"
    BY <2>2, EventType
  <2>4. PICK S \in {{}, {job[c].socket}} : Drop({job[c].socket}) /\ SentTo(S, e)
    BY <1>3, <2>2 DEF LeaveRoom
  <2>5. \A s \in Sockets : joinedBy'[s] = IF s = job[c].socket THEN 0 ELSE joinedBy[s]
    BY <1>0, <2>4, Dropped
  <2>6. \A s \in Sockets :
            \/ inbox'[s] = inbox[s]
            \/ s = job[c].socket /\ inbox'[s] = Append(inbox[s], e)
    BY <2>4, Sent
  <2>7. \A s \in Sockets : Wire(s, e)
    BY <2>3, <2>5, <2>6 DEF Wire
  <2>8. QED
    BY <2>1, <2>3, <2>7 DEF Emission, TrueEvent
<1>4. CASE Typing(c)
  <2>1. pc[c] = "act" /\ pc'[c] = "done" /\ UNCHANGED <<before, joinedBy>>
    BY <1>4, Finished DEF Typing, Answers
  <2>2. PICK e \in Events : e = Event(c, "typing")
    BY EventType DEF RoomEvents
  <2>3. e.by = c /\ e.type = "typing"
    BY <2>2, EventType DEF RoomEvents
  <2>4. SentTo(InRoom \ {job[c].socket}, e)
    BY <1>4, <2>2 DEF Typing
  <2>5. \A s \in Sockets : Wire(s, e)
    BY <2>1, <2>3, <2>4, Sent DEF Wire, InRoom, RoomEvents
  <2>6. QED
    BY <2>1, <2>3, <2>5 DEF Emission, TrueEvent
<1>5. CASE Broadcast(c)
  <2>1. pc[c] = "emit" /\ pc'[c] = "done" /\ UNCHANGED <<before, joinedBy>>
    BY <1>5, Finished DEF Broadcast, Answers
  <2>2. PICK type \in {"messageCreated", "readUpdated"} :
            type = IF job[c].kind = "send" THEN "messageCreated" ELSE "readUpdated"
    OBVIOUS
  <2>3. PICK e \in Events : e = Event(c, type)
    BY EventType DEF RoomEvents
  <2>4. e.by = c /\ e.type = type /\ e.user = job[c].user /\ e.of = job[c].of
    BY <2>3, EventType DEF RoomEvents
  <2>5. SentTo(InRoom, e)
    BY <1>5, <2>2, <2>3 DEF Broadcast
  <2>6. \A s \in Sockets : Wire(s, e)
    BY <2>1, <2>4, <2>5, Sent DEF Wire, InRoom, RoomEvents
  <2>7. TrueEvent(e)
    BY <1>0, <2>1, <2>2, <2>4 DEF TrueEvent, JobMatches
  <2>8. QED
    BY <2>1, <2>4, <2>6, <2>7 DEF Emission
<1>6. QED
  BY <1>1, <1>2, <1>3, <1>4, <1>5 DEF Serve

\* The rest of the system sends nothing, and takes nobody into the room.
LEMMA OtherSilence ==
    ASSUME Typed, [Next]_vars, ~(\E c \in Calls : Serve(c) \/ Fail(c))
    PROVE  Silence
<1>1. CASE MembershipStep \/ (\E s \in Sockets : Connect(s) \/ Expire(s)) \/ UNCHANGED vars
           \/ (\E c \in Calls : Receive(c) \/ Mark(c))
  BY <1>1 DEF MembershipStep, Connect, Expire, vars, Receive, Mark, Arrive, Silence
<1>2. CASE Crash \/ \E s \in Sockets : Disconnect(s)
  BY <1>2, Dropped DEF Crash, Disconnect, Silence, Typed
<1>3. QED
  BY <1>1, <1>2 DEF Next

\* Calls that are over stay over, and what was over when a call was made is
\* fixed then.
Passing ==
    /\ \A d \in Calls : pc[d] = "done" => pc'[d] = "done"
    /\ \A d \in Calls : pc[d] # "idle" => before'[d] = before[d]
    /\ \A d \in Calls : before'[d] \in {before[d], {k \in Calls : pc[k] = "done"}}
    /\ stored \subseteq stored' /\ receipts \subseteq receipts'

LEMMA PassingStep == ASSUME Typed, [Next]_vars PROVE Passing
<1> USE DEF Typed
<1>1. ASSUME NEW c \in Calls, Receive(c) \/ Mark(c) PROVE Passing
  <2>1. /\ pc[c] = "idle" /\ UNCHANGED rows
        /\ before' = [before EXCEPT ![c] = {d \in Calls : pc[d] = "done"}]
    BY <1>1 DEF Receive, Mark, Arrive
  <2>2. \A d \in Calls \ {c} : pc'[d] = pc[d]
    BY <1>1, ReceiveStep, MarkStep DEF Stepped, Keeps
  <2>3. QED
    BY <2>1, <2>2 DEF Passing, TypeOK
<1>2. ASSUME NEW c \in Calls, Serve(c) \/ Fail(c) PROVE Passing
  <2>1. UNCHANGED before /\ pc[c] # "done"
    BY <1>2 DEF Serve, Fail, MemberCheck, JoinRoom, LeaveRoom, Typing, SaveMessage,
                SaveMark, Broadcast
  <2>2. /\ \A d \in Calls \ {c} : pc'[d] = pc[d]
        /\ stored \subseteq stored' /\ receipts \subseteq receipts'
    BY <1>2, ServeStep DEF Stepped, Keeps, RowsGrow
  <2>3. QED
    BY <2>1, <2>2 DEF Passing
<1>3. CASE MembershipStep \/ (\E s \in Sockets : Connect(s) \/ Expire(s) \/ Disconnect(s))
           \/ UNCHANGED vars
  BY <1>3 DEF MembershipStep, Connect, Expire, Disconnect, vars, Passing
<1>4. CASE Crash
  BY <1>4 DEF Crash, Passing, TypeOK
<1>5. QED
  BY <1>1, <1>2, <1>3, <1>4 DEF Next

-----------------------------------------------------------------------------
(* The invariant of one inbox.                                             *)

Ordered == \A c, d \in Calls : c \in before[d] => pc[c] = "done"

\* Events are true and from calls that are over.
InboxTrue(s) ==
    \A i \in DOMAIN inbox[s] : pc[inbox[s][i].by] = "done" /\ TrueEvent(inbox[s][i])

InboxOrdered(s) ==
    \A i, j \in DOMAIN inbox[s] : i < j => inbox[s][j].by \notin before[inbox[s][i].by]

\* A joinedRoom at j, and no leftRoom from there to k.
JoinedSince(box, k) ==
    \E j \in 1 .. k : /\ box[j].type = "joinedRoom"
                      /\ \A m \in j .. k : box[m].type # "leftRoom"

InboxQuiet(s) ==
    /\ \A i \in DOMAIN inbox[s] :
          inbox[s][i].type \in RoomEvents => JoinedSince(inbox[s], i - 1)
    /\ joinedBy[s] # 0 => JoinedSince(inbox[s], Len(inbox[s]))

InboxInvariant ==
    Ordered /\ \A s \in Sockets : InboxTrue(s) /\ InboxOrdered(s) /\ InboxQuiet(s)

LEMMA InboxInit == Init => InboxInvariant
  BY DEF Init, InboxInvariant, Ordered, InboxTrue, InboxOrdered, InboxQuiet

\* The inbox of a socket that is sent nothing.
LEMMA InboxSilent ==
    ASSUME Typed, InboxInvariant, Passing, NEW s \in Sockets, inbox'[s] = inbox[s],
           joinedBy'[s] \in {0, joinedBy[s]}
    PROVE  InboxTrue(s)' /\ InboxOrdered(s)' /\ InboxQuiet(s)'
<1>1. inbox[s] \in Seq(Events)
  BY DEF Typed, TypeOK
<1>2. \A i \in DOMAIN inbox[s] : inbox[s][i].by \in Calls
  <2>1. \A i \in DOMAIN inbox[s] : inbox[s][i] \in Events
    BY <1>1
  <2>2. QED
    BY <2>1 DEF Events
<1>3. InboxTrue(s)'
  BY <1>2 DEF InboxInvariant, InboxTrue, TrueEvent, Passing
<1>4. InboxOrdered(s)'
  <2>1. \A i \in DOMAIN inbox[s] : before'[inbox[s][i].by] = before[inbox[s][i].by]
    BY <1>2 DEF InboxInvariant, InboxTrue, Passing
  <2>2. QED
    BY <2>1 DEF InboxInvariant, InboxOrdered
<1>5. InboxQuiet(s)'
  BY DEF InboxInvariant, InboxQuiet, JoinedSince
<1>6. QED
  BY <1>3, <1>4, <1>5

\* The inbox of a socket that is sent an event.
LEMMA InboxSent ==
    ASSUME Typed, InboxInvariant, Passing, NEW c \in Calls, NEW e \in Events,
           Emission(c, e), NEW s \in Sockets, inbox'[s] = Append(inbox[s], e),
           \/ e.type \in RoomEvents /\ joinedBy[s] # 0 /\ joinedBy'[s] = joinedBy[s]
           \/ e.type = "joinedRoom"
           \/ e.type = "leftRoom" /\ joinedBy'[s] = 0
    PROVE  InboxTrue(s)' /\ InboxOrdered(s)' /\ InboxQuiet(s)'
<1>1. PICK n \in Nat : n = Len(inbox[s]) /\ inbox[s] \in Seq(Events)
  BY DEF Typed, TypeOK
<1>2. /\ Len(inbox'[s]) = n + 1 /\ DOMAIN inbox'[s] = 1 .. n + 1
      /\ DOMAIN inbox[s] = 1 .. n
      /\ inbox'[s][n + 1] = e
      /\ \A i \in 1 .. n : inbox'[s][i] = inbox[s][i]
  BY <1>1
<1>3. \A i \in 1 .. n : inbox[s][i].by \in Calls
  <2>1. \A i \in 1 .. n : inbox[s][i] \in Events
    BY <1>1
  <2>2. QED
    BY <2>1 DEF Events
<1>4. InboxTrue(s)'
  <2>1. ASSUME NEW i \in 1 .. n
        PROVE  /\ pc'[inbox[s][i].by] = "done"
               /\ inbox[s][i].type = "messageCreated" => inbox[s][i].of \in stored'
               /\ inbox[s][i].type = "readUpdated" =>
                     <<inbox[s][i].user, inbox[s][i].of>> \in receipts'
    <3>1. pc[inbox[s][i].by] = "done" /\ TrueEvent(inbox[s][i])
      BY <1>2 DEF InboxInvariant, InboxTrue
    <3>2. inbox[s][i].by \in Calls
      BY <1>3
    <3>3. QED
      BY <3>1, <3>2 DEF TrueEvent, Passing
  <2>2. pc'[e.by] = "done" /\ TrueEvent(e)'
    BY DEF Emission, TrueEvent, Passing
  <2>3. \A i \in 1 .. n + 1 : i \in 1 .. n \/ i = n + 1
    BY <1>1
  <2>4. QED
    BY <1>2, <2>1, <2>2, <2>3 DEF InboxTrue, TrueEvent
<1>5. InboxOrdered(s)'
  <2>1. UNCHANGED before /\ e.by = c /\ pc[c] # "done"
    BY DEF Emission
  <2>2. \A i \in 1 .. n : c \notin before[inbox[s][i].by]
    BY <1>3, <2>1 DEF InboxInvariant, Ordered
  <2>3. \A i, j \in 1 .. n + 1 : i < j => i \in 1 .. n /\ (j \in 1 .. n \/ j = n + 1)
    BY <1>1
  <2>4. QED
    BY <1>2, <2>1, <2>2, <2>3 DEF InboxInvariant, InboxOrdered
<1>6. InboxQuiet(s)'
  <2>1. ASSUME NEW k \in 0 .. n, JoinedSince(inbox[s], k) PROVE JoinedSince(inbox'[s], k)
    BY <1>1, <1>2, <2>1 DEF JoinedSince
  <2>2. ASSUME NEW i \in 1 .. n, inbox'[s][i].type \in RoomEvents
        PROVE  JoinedSince(inbox'[s], i - 1)
    <3>1. JoinedSince(inbox[s], i - 1)
      BY <1>1, <1>2, <2>2 DEF InboxInvariant, InboxQuiet
    <3>2. i - 1 \in 0 .. n
      BY <1>1
    <3>3. QED
      BY <2>1, <3>1, <3>2
  <2>3. CASE e.type \in RoomEvents /\ joinedBy[s] # 0 /\ joinedBy'[s] = joinedBy[s]
    <3>1. JoinedSince(inbox[s], n)
      BY <1>1, <2>3 DEF InboxInvariant, InboxQuiet
    <3>2. JoinedSince(inbox'[s], n)
      BY <1>1, <2>1, <3>1
    <3>3. JoinedSince(inbox'[s], n + 1)
      <4>1. PICK j \in 1 .. n : /\ inbox'[s][j].type = "joinedRoom"
                                /\ \A m \in j .. n : inbox'[s][m].type # "leftRoom"
        BY <3>2 DEF JoinedSince
      <4>2. inbox'[s][n + 1].type # "leftRoom"
        BY <1>2, <2>3 DEF RoomEvents
      <4>3. \A m \in j .. n + 1 : m \in j .. n \/ m = n + 1
        BY <1>1
      <4>4. QED
        BY <1>1, <4>1, <4>2, <4>3 DEF JoinedSince
    <3>4. ASSUME NEW i \in 1 .. n + 1, inbox'[s][i].type \in RoomEvents
          PROVE  JoinedSince(inbox'[s], i - 1)
      <4>1. CASE i \in 1 .. n
        BY <2>2, <3>4, <4>1
      <4>2. CASE i = n + 1
        BY <1>1, <3>2, <4>2
      <4>3. QED
        BY <1>1, <4>1, <4>2
    <3>5. QED
      BY <1>2, <3>3, <3>4 DEF InboxQuiet
  <2>4. CASE e.type = "joinedRoom"
    <3>1. JoinedSince(inbox'[s], n + 1)
      BY <1>1, <1>2, <2>4 DEF JoinedSince
    <3>2. ASSUME NEW i \in 1 .. n + 1, inbox'[s][i].type \in RoomEvents
          PROVE  i \in 1 .. n
      BY <1>1, <1>2, <2>4, <3>2 DEF RoomEvents
    <3>3. QED
      BY <1>2, <2>2, <3>1, <3>2 DEF InboxQuiet
  <2>5. CASE e.type = "leftRoom" /\ joinedBy'[s] = 0
    <3>1. ASSUME NEW i \in 1 .. n + 1, inbox'[s][i].type \in RoomEvents
          PROVE  i \in 1 .. n
      BY <1>1, <1>2, <2>5, <3>1 DEF RoomEvents
    <3>2. QED
      BY <1>2, <2>2, <2>5, <3>1 DEF InboxQuiet
  <2>6. QED
    BY <2>3, <2>4, <2>5
<1>7. QED
  BY <1>4, <1>5, <1>6

LEMMA InboxStep == Typed /\ InboxInvariant /\ [Next]_vars => InboxInvariant'
<1> SUFFICES ASSUME Typed, InboxInvariant, [Next]_vars PROVE InboxInvariant'
  OBVIOUS
<1>1. Passing
  BY PassingStep
<1>2. Ordered'
  BY <1>1 DEF InboxInvariant, Ordered, Passing
<1>3. CASE Silence
  BY <1>1, <1>2, <1>3, InboxSilent DEF Silence, InboxInvariant
<1>4. ASSUME NEW c \in Calls, NEW e \in Events, Emission(c, e) PROVE InboxInvariant'
  <2>1. ASSUME NEW s \in Sockets
        PROVE  InboxTrue(s)' /\ InboxOrdered(s)' /\ InboxQuiet(s)'
    <3>1. Wire(s, e)
      BY <1>4 DEF Emission
    <3>2. QED
      BY <1>1, <1>4, <3>1, InboxSilent, InboxSent DEF Wire
  <2>2. QED
    BY <1>2, <2>1 DEF InboxInvariant
<1>5. QED
  BY <1>3, <1>4, ServeEmits, OtherSilence

\* What clients are told is in the database: messageCreated and readUpdated are
\* sent after the row is stored.
THEOREM EventsCorrect == Spec => []EventsAreTrue
<1>1. InboxInvariant => EventsAreTrue
  <2> SUFFICES ASSUME InboxInvariant, NEW e \in SentToSome PROVE TrueEvent(e)
    BY DEF EventsAreTrue, TrueEvent
  <2>1. PICK s \in Sockets : e \in {inbox[s][i] : i \in DOMAIN inbox[s]}
    BY DEF SentToSome
  <2>2. QED
    BY <2>1 DEF InboxInvariant, InboxTrue
<1>2. QED
  BY TypeInit, TypeStep, InboxInit, InboxStep, <1>1, PTL DEF Spec

\* Between leftRoom and the next joinedRoom a client hears nothing of the room.
THEOREM QuietCorrect == Spec => []QuietWhenOut
<1>1. InboxInvariant => QuietWhenOut
  BY DEF InboxInvariant, InboxQuiet, JoinedSince, QuietWhenOut
<1>2. QED
  BY TypeInit, TypeStep, InboxInit, InboxStep, <1>1, PTL DEF Spec

\* The events of two calls that did not overlap come in the order of the calls.
THEOREM OrderCorrect == Spec => []EventsInOrder
<1>1. InboxInvariant => EventsInOrder
  BY DEF InboxInvariant, InboxOrdered, EventsInOrder
<1>2. QED
  BY TypeInit, TypeStep, InboxInit, InboxStep, <1>1, PTL DEF Spec

-----------------------------------------------------------------------------
(* Who hears of a call, and how often.                                     *)

\* Where the inbox of s has an event of the room that call c sent.
Told(s, c) ==
    {i \in DOMAIN inbox[s] : inbox[s][i].by = c /\ inbox[s][i].type \in RoomEvents}

\* Of typing the socket it came from is not told.
Excluded(c) == IF job[c].kind = "typing" THEN {job[c].socket} ELSE {}

\* What a call that succeeds has told.
ToldAll(c) ==
    answer[c] = "success" /\ job[c].kind \in {"send", "typing", "mark"} =>
        \A s \in job[c].hearers \ Excluded(c) : Told(s, c) # {}

ToldOnce(c) ==
    /\ \A s \in Sockets : Told(s, c) = {} \/ \E i : Told(s, c) = {i}
    /\ \A s \in Excluded(c) : Told(s, c) = {}

HearingInvariant ==
    \A c \in Calls :
        /\ job[c].hearers \subseteq InRoom
        /\ answer[c] = "success" => pc[c] = "done"
        /\ ToldAll(c) /\ ToldOnce(c)

LEMMA ToldSame ==
    ASSUME NEW s, NEW c, inbox'[s] = inbox[s] PROVE Told(s, c)' = Told(s, c)
  BY DEF Told

LEMMA ToldMore ==
    ASSUME Typed, NEW s \in Sockets, NEW e \in Events, inbox'[s] = Append(inbox[s], e),
           NEW c
    PROVE  Told(s, c)' = IF e.by = c /\ e.type \in RoomEvents
                         THEN Told(s, c) \cup {Len(inbox[s]) + 1} ELSE Told(s, c)
<1>1. PICK n \in Nat : n = Len(inbox[s]) /\ inbox[s] \in Seq(Events)
  BY DEF Typed, TypeOK
<1>2. /\ DOMAIN inbox'[s] = 1 .. n + 1 /\ DOMAIN inbox[s] = 1 .. n
      /\ inbox'[s][n + 1] = e
      /\ \A i \in 1 .. n : inbox'[s][i] = inbox[s][i]
  BY <1>1
<1>3. \A i : i \in 1 .. n + 1 <=> i \in 1 .. n \/ i = n + 1
  BY <1>1
<1>4. QED
  BY <1>1, <1>2, <1>3 DEF Told

\* No client is told anything of the room.
Hushed == \A s \in Sockets, c \in Calls : Told(s, c)' = Told(s, c)

\* All that are in the room are told of call c, for the first time.
Announced(c) ==
    /\ job[c].kind \in {"send", "typing", "mark"}
    /\ \A s \in Sockets, d \in Calls \ {c} : Told(s, d)' = Told(s, d)
    /\ \A s \in InRoom \ Excluded(c) : \E i : Told(s, c)' = {i}
    /\ \A s \in Sockets \ (InRoom \ Excluded(c)) : Told(s, c)' = Told(s, c)

\* A call that is not over has told nobody.
LEMMA ToldLater ==
    ASSUME Typed, InboxInvariant, NEW c \in Calls, pc[c] # "done", NEW s \in Sockets
    PROVE  Told(s, c) = {}
  BY DEF InboxInvariant, InboxTrue, Told

LEMMA Announcing ==
    ASSUME Typed, InboxInvariant, NEW c \in Calls, pc[c] # "done", NEW e \in Events,
           e.by = c, e.type \in RoomEvents, job[c].kind \in {"send", "typing", "mark"},
           SentTo(InRoom \ Excluded(c), e)
    PROVE  Announced(c)
<1>1. \A s \in Sockets : IF s \in InRoom \ Excluded(c) THEN inbox'[s] = Append(inbox[s], e)
                                                       ELSE inbox'[s] = inbox[s]
  BY Sent DEF Typed
<1>2. ASSUME NEW s \in Sockets, NEW d \in Calls \ {c} PROVE Told(s, d)' = Told(s, d)
  BY <1>1, ToldSame, ToldMore
<1>3. ASSUME NEW s \in InRoom \ Excluded(c) PROVE \E i : Told(s, c)' = {i}
  <2>1. s \in Sockets
    BY DEF InRoom
  <2>2. Told(s, c)' = Told(s, c) \cup {Len(inbox[s]) + 1}
    BY <1>1, <2>1, ToldMore
  <2>3. QED
    BY <2>1, <2>2, ToldLater
<1>4. ASSUME NEW s \in Sockets \ (InRoom \ Excluded(c)) PROVE Told(s, c)' = Told(s, c)
  BY <1>1, ToldSame
<1>5. QED
  BY <1>2, <1>3, <1>4 DEF Announced

\* joinedRoom and leftRoom are of the client alone.
LEMMA PrivateHushed ==
    ASSUME Typed, NEW e \in Events, e.type \notin RoomEvents, NEW S, SentTo(S, e)
    PROVE  Hushed
<1>1. \A s \in Sockets : inbox'[s] = Append(inbox[s], e) \/ inbox'[s] = inbox[s]
  BY Sent DEF Typed
<1>2. QED
  BY <1>1, ToldSame, ToldMore DEF Hushed

\* A step of a handler tells the room, or nobody and then it ends no call of
\* which the room is told.
LEMMA ServeTells ==
    ASSUME Typed, InboxInvariant, NEW c \in Calls, Serve(c) \/ Fail(c)
    PROVE  \/ Announced(c)
           \/ Hushed /\ (answer'[c] \in {answer[c], "forbidden", "failed"}
                           \/ job[c].kind \in {"join", "leave"})
<1> USE DEF Typed
<1>1. CASE MemberCheck(c) \/ SaveMessage(c) \/ SaveMark(c) \/ Fail(c)
  <2>1. Hushed
    BY <1>1, ToldSame DEF MemberCheck, SaveMessage, SaveMark, Fail, Hushed
  <2>2. answer'[c] \in {answer[c], "forbidden", "failed"}
    BY <1>1 DEF MemberCheck, SaveMessage, SaveMark, Fail, Goto, Finish, TypeOK
  <2>3. QED
    BY <2>1, <2>2
<1>2. CASE JoinRoom(c)
  <2>1. CASE UNCHANGED inbox
    BY <1>2, <2>1, ToldSame DEF Hushed, JoinRoom
  <2>2. CASE SentTo({job[c].socket}, Event(c, "joinedRoom"))
    BY <1>2, <2>2, PrivateHushed, EventType DEF RoomEvents, JoinRoom
  <2>3. QED
    BY <1>2, <2>1, <2>2 DEF JoinRoom
<1>3. CASE LeaveRoom(c)
  <2>1. PICK S \in {{}, {job[c].socket}} : SentTo(S, Event(c, "leftRoom"))
    BY <1>3 DEF LeaveRoom
  <2>2. QED
    BY <1>3, <2>1, PrivateHushed, EventType DEF RoomEvents, LeaveRoom
<1>4. CASE Typing(c)
  <2>1. PICK e \in Events : e = Event(c, "typing") /\ e.by = c /\ e.type \in RoomEvents
    BY EventType DEF RoomEvents
  <2>2. SentTo(InRoom \ Excluded(c), e) /\ pc[c] # "done" /\ job[c].kind = "typing"
    BY <1>4, <2>1 DEF Typing, Excluded
  <2>3. QED
    BY <2>1, <2>2, Announcing
<1>5. CASE Broadcast(c)
  <2>1. PICK type \in {"messageCreated", "readUpdated"} :
            type = IF job[c].kind = "send" THEN "messageCreated" ELSE "readUpdated"
    OBVIOUS
  <2>2. PICK e \in Events : e = Event(c, type) /\ e.by = c /\ e.type \in RoomEvents
    BY EventType DEF RoomEvents
  <2>3. pc[c] = "emit" /\ job[c].kind \in {"send", "mark"}
    BY <1>5 DEF Broadcast, JobMatches
  <2>4. InRoom \ Excluded(c) = InRoom
    BY <2>3 DEF Excluded
  <2>5. SentTo(InRoom, e)
    BY <1>5, <2>1, <2>2 DEF Broadcast
  <2>6. QED
    BY <2>2, <2>3, <2>4, <2>5, Announcing
<1>6. QED
  BY <1>1, <1>2, <1>3, <1>4, <1>5 DEF Serve

\* What a step does to the hearers and the answer of call d.
HearersKept(d) ==
    /\ pc[d] # "idle" => SameJob(d) /\ job'[d].hearers \subseteq job[d].hearers
    /\ job[d].hearers \subseteq InRoom => job'[d].hearers \subseteq InRoom'
    /\ answer'[d] = "success" => answer[d] = "success" \/ pc'[d] = "done"
    /\ pc[d] \in {"idle", "done"} => answer'[d] \in {answer[d], "unauthorized"}

LEMMA HearersDropped ==
    ASSUME Typed, NEW S \in SUBSET Sockets, Drop(S), NEW d \in Calls
    PROVE  /\ SameJob(d) /\ job'[d].hearers = job[d].hearers \ S
           /\ InRoom' = InRoom \ S
<1>1. SameJob(d) /\ InRoom' = InRoom \ S
  BY Dropped DEF Typed, InRoom
<1>2. job[d] \in Jobs
  BY DEF Typed, TypeOK
<1>3. QED
  BY <1>1, <1>2 DEF Drop, Jobs

LEMMA HearersArrive ==
    ASSUME Typed, NEW c \in Calls, NEW j \in Jobs,
           NEW phase \in {"check", "save", "done"}, Arrive(c, j, phase)
    PROVE  \A d \in Calls : HearersKept(d)
<1>1. PICK k \in Jobs :
          k = [j EXCEPT !.left = {u \in Users : member[u] = "left"}, !.hearers = InRoom]
  BY DEF Jobs, InRoom
<1>2. k.hearers = InRoom
  BY <1>1 DEF Jobs
<1>3. /\ job' = [job EXCEPT ![c] = k] /\ pc[c] = "idle" /\ UNCHANGED <<rows, wires>>
      /\ answer'[c] \in {answer[c], "unauthorized"}
      /\ \A d \in Calls \ {c} : pc'[d] = pc[d] /\ answer'[d] = answer[d]
  BY <1>1 DEF Arrive, Goto, Finish, Typed, TypeOK
<1>4. InRoom' = InRoom
  BY <1>3 DEF InRoom
<1>5. ASSUME NEW d \in Calls PROVE HearersKept(d)
  BY <1>2, <1>3, <1>4 DEF HearersKept, SameJob, Typed, TypeOK
<1>6. QED
  BY <1>5

LEMMA HearersStep ==
    ASSUME Typed, [Next]_vars, NEW d \in Calls PROVE HearersKept(d)
<1>1. ASSUME NEW c \in Calls, Receive(c) \/ Mark(c) PROVE HearersKept(d)
  <2>1. \E j \in Jobs, phase \in {"check", "save", "done"} : Arrive(c, j, phase)
    BY <1>1, ReceiveArrives, MarkArrives
  <2>2. QED
    BY <2>1, HearersArrive
<1>2. ASSUME NEW c \in Calls, Serve(c) \/ Fail(c) PROVE HearersKept(d)
  <2>1. /\ pc[c] \notin {"idle", "done"}
        /\ d # c => pc'[d] = pc[d] /\ answer'[d] = answer[d]
        /\ answer'[c] = answer[c] \/ pc'[c] = "done"
    BY <1>2 DEF Serve, Fail, MemberCheck, JoinRoom, LeaveRoom, Typing, SaveMessage,
                SaveMark, Broadcast, Goto, Finish, Typed, TypeOK
  <2>2. CASE LeaveRoom(c)
    <3>1. job[c].socket \in Sockets /\ Drop({job[c].socket})
      BY <2>2 DEF LeaveRoom, Typed, TypeOK, Jobs
    <3>2. QED
      BY <2>1, <3>1, HearersDropped DEF HearersKept
  <2>3. CASE ~LeaveRoom(c)
    <3>1. UNCHANGED job
      BY <1>2, <2>3 DEF Serve, Fail, MemberCheck, JoinRoom, Typing, SaveMessage,
                        SaveMark, Broadcast
    <3>2. InRoom \subseteq InRoom'
      <4>1. CASE JoinRoom(c)
        <5>1. \A s \in Sockets : joinedBy'[s] \in {joinedBy[s], c} /\ c # 0
          BY <4>1, CallsPositive DEF JoinRoom, Typed, TypeOK
        <5>2. QED
          BY <5>1 DEF InRoom
      <4>2. CASE ~JoinRoom(c)
        BY <1>2, <2>3, <4>2 DEF Serve, Fail, MemberCheck, Typing, SaveMessage,
                                SaveMark, Broadcast, InRoom
      <4>3. QED
        BY <4>1, <4>2
    <3>3. QED
      BY <2>1, <3>1, <3>2 DEF HearersKept, SameJob
  <2>4. QED
    BY <2>2, <2>3
<1>3. ASSUME NEW s \in Sockets, Disconnect(s) PROVE HearersKept(d)
  <2>1. UNCHANGED <<pc, answer>> /\ Drop({s})
    BY <1>3 DEF Disconnect
  <2>2. QED
    BY <2>1, HearersDropped DEF HearersKept
<1>4. CASE Crash
  <2>1. /\ Drop(Sockets)
        /\ answer'[d] = IF pc[d] \notin {"idle", "done"} THEN "failed" ELSE answer[d]
    BY <1>4 DEF Crash
  <2>2. QED
    BY <2>1, HearersDropped DEF HearersKept
<1>5. CASE MembershipStep \/ (\E s \in Sockets : Connect(s) \/ Expire(s)) \/ UNCHANGED vars
  <2>1. UNCHANGED <<joinedBy, job, pc, answer>>
    BY <1>5 DEF MembershipStep, Connect, Expire, vars
  <2>2. QED
    BY <2>1 DEF HearersKept, SameJob, InRoom
<1>6. QED
  BY <1>1, <1>2, <1>3, <1>4, <1>5 DEF Next

\* A call that is over has told whom it had to; a client that is in the room
\* later is not among its hearers.
LEMMA HearingOver ==
    ASSUME Typed, HearingInvariant, NEW c \in Calls, HearersKept(c), pc[c] # "idle",
           \A s \in Sockets : Told(s, c)' = Told(s, c),
           answer'[c] = "success" => answer[c] = "success"
                                       \/ job[c].kind \in {"join", "leave"}
    PROVE  ToldAll(c)' /\ ToldOnce(c)'
<1>1. /\ job'[c].kind = job[c].kind /\ Excluded(c)' = Excluded(c)
      /\ job'[c].hearers \subseteq job[c].hearers /\ job[c].hearers \subseteq Sockets
  BY DEF HearersKept, SameJob, Excluded, HearingInvariant, InRoom
<1>2. ToldAll(c)'
  BY <1>1 DEF HearingInvariant, ToldAll
<1>3. ToldOnce(c)'
  <2>1. Excluded(c) \subseteq Sockets
    BY DEF Excluded, Typed, TypeOK, Jobs
  <2>2. ToldOnce(c)
    BY DEF HearingInvariant
  <2>3. QED
    BY <1>1, <2>1, <2>2 DEF ToldOnce
<1>4. QED
  BY <1>2, <1>3

\* A call that was not made before this step and did not end in it.
LEMMA HearingBegins ==
    ASSUME Typed, Typed', InboxInvariant, NEW c \in Calls, HearingInvariant,
           HearersKept(c), pc[c] = "idle", \A s \in Sockets : Told(s, c)' = Told(s, c)
    PROVE  ToldAll(c)' /\ ToldOnce(c)'
<1>1. answer'[c] # "success"
  BY DEF HearersKept, HearingInvariant
<1>2. \A s \in Sockets : Told(s, c)' = {}
  BY ToldLater
<1>3. Excluded(c)' \subseteq Sockets
  BY DEF Excluded, Typed, TypeOK, Jobs
<1>4. QED
  BY <1>1, <1>2, <1>3 DEF ToldAll, ToldOnce

LEMMA HearingNow ==
    ASSUME Typed, Typed', InboxInvariant, NEW c \in Calls, HearingInvariant,
           HearersKept(c), pc[c] \notin {"idle", "done"}, Announced(c)
    PROVE  ToldAll(c)' /\ ToldOnce(c)'
<1>1. /\ job'[c].kind = job[c].kind /\ Excluded(c)' = Excluded(c)
      /\ job'[c].hearers \subseteq InRoom
  BY DEF HearersKept, SameJob, Excluded, HearingInvariant
<1>2. Excluded(c) \subseteq Sockets
  BY DEF Excluded, Typed, TypeOK, Jobs
<1>3. \A s \in Sockets : Told(s, c) = {}
  BY ToldLater
<1>4. ToldAll(c)'
  BY <1>1 DEF ToldAll, Announced
<1>5. ToldOnce(c)'
  BY <1>1, <1>2, <1>3 DEF ToldOnce, Announced
<1>6. QED
  BY <1>4, <1>5

LEMMA HearingStep ==
    ASSUME Typed, Typed', InboxInvariant, HearingInvariant, [Next]_vars
    PROVE  HearingInvariant'
<1>1. \A d \in Calls : HearersKept(d)
  BY HearersStep
<1>2. \A d \in Calls : pc[d] = "done" => pc'[d] = "done"
  BY PassingStep DEF Passing
<1>3. ASSUME NEW d \in Calls
      PROVE  /\ job'[d].hearers \subseteq InRoom'
             /\ answer'[d] = "success" => pc'[d] = "done"
  BY <1>1, <1>2 DEF HearersKept, HearingInvariant
<1>4. ASSUME NEW d \in Calls, \A s \in Sockets : Told(s, d)' = Told(s, d),
             answer'[d] = "success" => answer[d] = "success"
                                         \/ job[d].kind \in {"join", "leave"}
      PROVE  ToldAll(d)' /\ ToldOnce(d)'
  BY <1>1, <1>4, HearingOver, HearingBegins
<1>5. ASSUME NEW c \in Calls, Serve(c) \/ Fail(c), NEW d \in Calls
      PROVE  ToldAll(d)' /\ ToldOnce(d)'
  <2>1. pc[c] \notin {"idle", "done"} /\ \A k \in Calls \ {c} : answer'[k] = answer[k]
    BY <1>5 DEF Serve, Fail, MemberCheck, JoinRoom, LeaveRoom, Typing, SaveMessage,
                SaveMark, Broadcast, Goto, Finish, Typed, TypeOK
  <2>2. CASE Announced(c)
    <3>1. CASE d = c
      BY <1>1, <2>1, <2>2, <3>1, HearingNow
    <3>2. CASE d # c
      BY <1>4, <2>1, <2>2, <3>2 DEF Announced
    <3>3. QED
      BY <3>1, <3>2
  <2>3. CASE Hushed /\ (answer'[c] \in {answer[c], "forbidden", "failed"}
                          \/ job[c].kind \in {"join", "leave"})
    BY <1>4, <2>1, <2>3 DEF Hushed
  <2>4. QED
    BY <1>5, <2>2, <2>3, ServeTells
<1>6. ASSUME ~ \E c \in Calls : Serve(c) \/ Fail(c), NEW d \in Calls
      PROVE  ToldAll(d)' /\ ToldOnce(d)'
  <2>1. \A s \in Sockets : Told(s, d)' = Told(s, d)
    BY <1>6, OtherSilence, ToldSame DEF Silence
  <2>2. answer'[d] \in {answer[d], "unauthorized", "failed"}
    <3>1. CASE \E c \in Calls : Receive(c) \/ Mark(c)
      <4>1. PICK c \in Calls : Receive(c) \/ Mark(c)
        BY <3>1
      <4>2. PICK j \in Jobs, phase \in {"check", "save", "done"} : Arrive(c, j, phase)
        BY <4>1, ReceiveArrives, MarkArrives
      <4>3. QED
        BY <4>2 DEF Arrive, Goto, Finish, Typed, TypeOK
    <3>2. CASE Crash
      BY <3>2 DEF Crash
    <3>3. CASE UNCHANGED answer
      BY <3>3
    <3>4. QED
      BY <1>6, <3>1, <3>2, <3>3 DEF Next, vars, MembershipStep, Connect, Expire, Disconnect
  <2>3. QED
    BY <1>4, <2>1, <2>2
<1>7. QED
  BY <1>3, <1>5, <1>6 DEF HearingInvariant

\* A socket that is in the room throughout a successful send, typing or mark
\* hears of it exactly once; no socket hears of a call twice, and none of its
\* own typing.
THEOREM RoomHearsCorrect == Spec => []RoomHears
<1>1. Init => HearingInvariant
  <2> SUFFICES ASSUME Init, NEW c \in Calls
               PROVE  /\ job[c].hearers \subseteq InRoom
                      /\ answer[c] = "success" => pc[c] = "done"
                      /\ ToldAll(c) /\ ToldOnce(c)
    BY DEF HearingInvariant
  <2>1. job[c].hearers = {} /\ job[c].kind = "none" /\ answer[c] = "none"
    BY DEF Init, NoJob
  <2>2. \A s \in Sockets : Told(s, c) = {}
    BY DEF Init, Told
  <2>3. QED
    BY <2>1, <2>2 DEF ToldAll, ToldOnce, Excluded
<1>2. Typed /\ HearingInvariant => RoomHears
  <2> SUFFICES ASSUME Typed, HearingInvariant, NEW c \in Calls
               PROVE  /\ answer[c] = "success" /\ job[c].kind \in {"send", "typing", "mark"} =>
                            \A s \in job[c].hearers \ Excluded(c) : Heard(s, c) = 1
                      /\ \A s \in Sockets : Heard(s, c) <= 1
                      /\ \A s \in Excluded(c) : Heard(s, c) = 0
    BY DEF RoomHears, Excluded
  <2>1. \A s : Heard(s, c) = Cardinality(Told(s, c))
    BY DEF Heard, Told
  <2>2. \A s \in Sockets : Told(s, c) = {} => Heard(s, c) = 0
    BY <2>1, FS_EmptySet
  <2>3. \A s \in Sockets : Told(s, c) # {} => Heard(s, c) = 1
    <3> SUFFICES ASSUME NEW s \in Sockets, Told(s, c) # {} PROVE Heard(s, c) = 1
      OBVIOUS
    <3>1. PICK i : Told(s, c) = {i}
      BY DEF HearingInvariant, ToldOnce
    <3>2. Cardinality({i}) = 1
      BY FS_Singleton
    <3>3. QED
      BY <2>1, <3>1, <3>2
  <2>4. job[c].hearers \subseteq Sockets /\ Excluded(c) \subseteq Sockets
    BY DEF Excluded, Typed, TypeOK, Jobs
  <2>5. QED
    BY <2>2, <2>3, <2>4 DEF HearingInvariant, ToldAll, ToldOnce
<1>3. Typed /\ Typed' /\ InboxInvariant /\ HearingInvariant /\ [Next]_vars => HearingInvariant'
  BY HearingStep
<1>4. QED
  BY TypeInit, TypeStep, InboxInit, InboxStep, <1>1, <1>2, <1>3, PTL DEF Spec
=============================================================================
