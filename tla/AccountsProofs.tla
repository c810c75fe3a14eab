---------------------------- MODULE AccountsProofs ----------------------------
(***************************************************************************)
(* Theorems about users, passwords and tokens, for any number of users and *)
(* concurrent calls.                                                       *)
(***************************************************************************)
EXTENDS Accounts, TLAPS

\* The idle job is a job.
LEMMA NoJobType == NoJob \in Jobs /\ NoJob.kind = "none" /\ ~NoJob.deleted
  BY SomeUsers DEF NoJob, Jobs, Kinds, Roles

\* A call that has not begun has no kind; each phase belongs to its handler;
\* nobody is about to change the own role; a call in flight has no answer.
KindMatches(c) ==
    /\ pc[c] = "idle" => job[c].kind = "none" /\ ~job[c].deleted
    /\ pc[c] \in {"compared", "signed"} => job[c].kind = "login"
    /\ pc[c] = "deleting" => job[c].kind \in {"login", "refresh", "logout"}
    /\ pc[c] = "setting" => job[c].kind \in {"login", "refresh"}
    /\ pc[c] \in {"hashed", "updated", "mailed"} => job[c].kind = "reset"
    /\ pc[c] = "inserting" => job[c].kind = "create"
    /\ pc[c] = "renaming" => job[c].kind = "update"
    /\ pc[c] = "changing" => job[c].kind = "role" /\ job[c].caller # job[c].user
    /\ pc[c] = "compared" => Exists(job[c].user)
    /\ pc[c] # "done" => answer[c] = "none"

Typed == TypeOK /\ \A c \in Calls : KindMatches(c)

LEMMA TypeInit == Init => Typed
<1> SUFFICES ASSUME Init PROVE Typed
  OBVIOUS
<1>1. TypeOK
  BY NoJobType DEF Init, TypeOK, Exists, Phases, Answers, Roles
<1>2. \A c \in Calls : KindMatches(c)
  BY NoJobType DEF Init, KindMatches
<1>3. QED
  BY <1>1, <1>2 DEF Typed

\* The locals are of their types, and only those of one call change.
Local(c) ==
    /\ pc' \in [Calls -> Phases]
    /\ answer' \in [Calls -> Answers]
    /\ \A d \in Calls \ {c} : pc'[d] = pc[d] /\ answer'[d] = answer[d]

LEMMA Moved ==
    ASSUME TypeOK, NEW c \in Calls, NEW phase \in Phases, Goto(c, phase)
    PROVE  Local(c) /\ pc'[c] = phase /\ answer'[c] = answer[c]
  BY DEF TypeOK, Goto, Local

LEMMA Finished ==
    ASSUME TypeOK, NEW c \in Calls, NEW a \in Answers, Finish(c, a)
    PROVE  Local(c) /\ pc'[c] = "done" /\ answer'[c] = a
  BY DEF TypeOK, Finish, Local, Phases

LEMMA Answered ==
    ASSUME TypeOK, NEW c \in Calls, Acknowledged(c)
    PROVE  Local(c) /\ pc'[c] = "done" /\ answer'[c] \in {"success", "failed"}
<1>1. "success" \in Answers /\ "failed" \in Answers
  BY DEF Answers
<1>2. QED
  BY <1>1, Finished DEF Acknowledged

\* What arrives at a call: a job of its own, and nothing else moves.
Arrived(c, kind) ==
    /\ pc[c] = "idle"
    /\ job' \in [Calls -> Jobs] /\ before' \in [Calls -> SUBSET Calls]
    /\ job'[c].kind = kind /\ ~job'[c].deleted
    /\ \A d \in Calls \ {c} : job'[d] = job[d]

LEMMA NewJob ==
    ASSUME NEW kind \in Kinds, NEW u \in Users, NEW a \in Users, NEW to \in Roles
    PROVE  /\ [NoJob EXCEPT !.kind = kind, !.user = u] \in Jobs
           /\ [NoJob EXCEPT !.kind = kind, !.user = u, !.to = to] \in Jobs
           /\ [NoJob EXCEPT !.kind = kind, !.user = u, !.caller = a, !.to = to] \in Jobs
  BY NoJobType DEF Jobs

LEMMA ArriveType ==
    ASSUME TypeOK, NEW c \in Calls, NEW kind \in Kinds, NEW u \in Users,
           Arrive(c, kind, u)
    PROVE  Arrived(c, kind) /\ job'[c].user = u
<1>1. PICK j \in Jobs : j = [NoJob EXCEPT !.kind = kind, !.user = u]
  BY NewJob, SomeUsers DEF Roles
<1>2. j.kind = kind /\ ~j.deleted /\ j.user = u
  BY <1>1, NoJobType DEF Jobs
<1>3. job' = [job EXCEPT ![c] = j]
  BY <1>1 DEF Arrive
<1>4. before' \in [Calls -> SUBSET Calls]
  BY DEF Arrive, TypeOK
<1>5. job \in [Calls -> Jobs] /\ pc[c] = "idle"
  BY DEF Arrive, TypeOK
<1>6. job'[c] = j /\ job' \in [Calls -> Jobs] /\ \A d \in Calls \ {c} : job'[d] = job[d]
  BY <1>3, <1>5
<1>7. QED
  BY <1>2, <1>4, <1>5, <1>6 DEF Arrived

\* A request: the store is left alone and the new phase fits the new kind.
Requested(c) ==
    /\ \E kind \in Kinds : Arrived(c, kind)
    /\ Local(c)
    /\ KindMatches(c)'
    /\ pc'[c] \notin {"idle", "updated", "mailed"} /\ answer'[c] # "success"
    /\ UNCHANGED <<userVars, mailVars, tokenVars>>

\* What an arriving call's KindMatches asks, once the kind is known.
LEMMA RequestKinds ==
    ASSUME Typed, NEW c \in Calls, Request(c) PROVE Requested(c)
<1> USE DEF Typed
<1>0. answer[c] = "none" \/ pc[c] # "idle"
  BY DEF KindMatches
<1>1. CASE Login(c)
  <2>1. PICK u \in Users :
            /\ Arrive(c, "login", u)
            /\ \/ Exists(u) /\ Goto(c, "compared")
               \/ Finish(c, "refused")
    BY <1>1 DEF Login
  <2>2. Arrived(c, "login") /\ job'[c].user = u
    BY <2>1, ArriveType DEF Kinds
  <2>3. UNCHANGED <<userVars, mailVars, tokenVars>>
    BY <1>1 DEF Login
  <2>4. \/ pc'[c] = "compared" /\ answer'[c] = answer[c] /\ Exists(u) /\ Local(c)
        \/ pc'[c] = "done" /\ Local(c) /\ answer'[c] # "success"
    BY <2>1, Moved, Finished DEF Phases, Answers
  <2>5. KindMatches(c)'
    BY <1>0, <2>2, <2>3, <2>4 DEF KindMatches, Arrived, Exists, userVars
  <2>6. QED
    BY <1>0, <2>2, <2>3, <2>4, <2>5 DEF Requested, Arrived, Kinds
<1>2. CASE Refresh(c)
  <2>1. PICK u \in Users :
            /\ Exists(u)
            /\ job' = [job EXCEPT ![c] = [NoJob EXCEPT !.kind = "refresh",
                                             !.user = u, !.to = role[u]]]
    BY <1>2 DEF Refresh
  <2>2. /\ pc[c] = "idle" /\ Goto(c, "deleting")
        /\ before' = [before EXCEPT ![c] = {d \in Calls : pc[d] = "done"}]
        /\ UNCHANGED <<userVars, mailVars, tokenVars>>
    BY <1>2 DEF Refresh
  <2>3. role[u] \in Roles
    BY <2>1 DEF TypeOK, Exists
  <2>4. PICK j \in Jobs :
            j = [NoJob EXCEPT !.kind = "refresh", !.user = u, !.to = role[u]]
    BY <2>3, NewJob, SomeUsers DEF Kinds
  <2>5. j.kind = "refresh" /\ ~j.deleted
    BY <2>4, NoJobType DEF Jobs
  <2>6. /\ job'[c] = j /\ job' \in [Calls -> Jobs]
        /\ \A d \in Calls \ {c} : job'[d] = job[d]
    BY <2>1, <2>4 DEF TypeOK
  <2>7. before' \in [Calls -> SUBSET Calls]
    BY <2>2 DEF TypeOK
  <2>8. Arrived(c, "refresh")
    BY <2>2, <2>5, <2>6, <2>7 DEF Arrived
  <2>9. Local(c) /\ pc'[c] = "deleting" /\ answer'[c] = answer[c]
    BY <2>2, Moved DEF Phases
  <2>10. KindMatches(c)'
    BY <1>0, <2>8, <2>9, <2>2 DEF KindMatches, Arrived
  <2>11. QED
    BY <1>0, <2>2, <2>8, <2>9, <2>10 DEF Requested, Arrived, Kinds
<1>3. CASE Logout(c)
  <2>1. PICK u \in Users :
            /\ Arrive(c, "logout", u)
            /\ Goto(c, "deleting")
    BY <1>3 DEF Logout
  <2>2. Arrived(c, "logout")
    BY <2>1, ArriveType DEF Kinds
  <2>3. UNCHANGED <<userVars, mailVars, tokenVars>>
    BY <1>3 DEF Logout
  <2>4. pc'[c] = "deleting" /\ answer'[c] = answer[c] /\ Local(c)
    BY <2>1, Moved DEF Phases
  <2>5. KindMatches(c)'
    BY <1>0, <2>2, <2>4 DEF KindMatches, Arrived
  <2>6. QED
    BY <1>0, <2>2, <2>3, <2>4, <2>5 DEF Requested, Arrived, Kinds
<1>4. CASE Reset(c)
  <2>1. PICK u \in Users :
            /\ Arrive(c, "reset", u)
            /\ Goto(c, "hashed") \/ Finish(c, "refused")
    BY <1>4 DEF Reset
  <2>2. Arrived(c, "reset")
    BY <2>1, ArriveType DEF Kinds
  <2>3. UNCHANGED <<userVars, mailVars, tokenVars>>
    BY <1>4 DEF Reset
  <2>4. \/ pc'[c] = "hashed" /\ answer'[c] = answer[c] /\ Local(c)
        \/ pc'[c] = "done" /\ Local(c) /\ answer'[c] # "success"
    BY <2>1, Moved, Finished DEF Phases, Answers
  <2>5. KindMatches(c)'
    BY <1>0, <2>2, <2>4 DEF KindMatches, Arrived
  <2>6. QED
    BY <1>0, <2>2, <2>3, <2>4, <2>5 DEF Requested, Arrived, Kinds
<1>5. CASE Create(c)
  <2>1. PICK u \in Users :
            /\ Arrive(c, "create", u)
            /\ Goto(c, "inserting") \/ Finish(c, "conflict")
    BY <1>5 DEF Create
  <2>2. Arrived(c, "create")
    BY <2>1, ArriveType DEF Kinds
  <2>3. UNCHANGED <<userVars, mailVars, tokenVars>>
    BY <1>5 DEF Create
  <2>4. \/ pc'[c] = "inserting" /\ answer'[c] = answer[c] /\ Local(c)
        \/ pc'[c] = "done" /\ Local(c) /\ answer'[c] # "success"
    BY <2>1, Moved, Finished DEF Phases, Answers
  <2>5. KindMatches(c)'
    BY <1>0, <2>2, <2>4 DEF KindMatches, Arrived
  <2>6. QED
    BY <1>0, <2>2, <2>3, <2>4, <2>5 DEF Requested, Arrived, Kinds
<1>6. CASE Update(c)
  <2>1. PICK u \in Users :
            /\ Arrive(c, "update", u)
            /\ Goto(c, "renaming") \/ Finish(c, "refused")
    BY <1>6 DEF Update
  <2>2. Arrived(c, "update")
    BY <2>1, ArriveType DEF Kinds
  <2>3. UNCHANGED <<userVars, mailVars, tokenVars>>
    BY <1>6 DEF Update
  <2>4. \/ pc'[c] = "renaming" /\ answer'[c] = answer[c] /\ Local(c)
        \/ pc'[c] = "done" /\ Local(c) /\ answer'[c] # "success"
    BY <2>1, Moved, Finished DEF Phases, Answers
  <2>5. KindMatches(c)'
    BY <1>0, <2>2, <2>4 DEF KindMatches, Arrived
  <2>6. QED
    BY <1>0, <2>2, <2>3, <2>4, <2>5 DEF Requested, Arrived, Kinds
<1>7. CASE ChangeRole(c)
  <2>1. /\ pc[c] = "idle"
        /\ before' = [before EXCEPT ![c] = {d \in Calls : pc[d] = "done"}]
        /\ UNCHANGED <<userVars, mailVars, tokenVars>>
    BY <1>7 DEF ChangeRole
  <2>2. PICK a \in Users, u \in Users, to \in Roles :
            /\ job' = [job EXCEPT ![c] = [NoJob EXCEPT !.kind = "role", !.user = u,
                                             !.caller = a, !.to = to]]
            /\ CASE ~Exists(u) \/ u = a -> Finish(c, "refused")
                 [] Exists(u) /\ u # a /\ role[u] = to -> Finish(c, "conflict")
                 [] OTHER -> Goto(c, "changing")
    BY <1>7, Zenon DEF ChangeRole
  <2>3. PICK j \in Jobs :
            j = [NoJob EXCEPT !.kind = "role", !.user = u, !.caller = a, !.to = to]
    BY NewJob DEF Kinds
  <2>4. j.kind = "role" /\ ~j.deleted /\ j.user = u /\ j.caller = a
    BY <2>3, NoJobType DEF Jobs
  <2>5. /\ job'[c] = j /\ job' \in [Calls -> Jobs]
        /\ \A d \in Calls \ {c} : job'[d] = job[d]
    BY <2>2, <2>3 DEF TypeOK
  <2>6. before' \in [Calls -> SUBSET Calls]
    BY <2>1 DEF TypeOK
  <2>7. Arrived(c, "role")
    BY <2>1, <2>4, <2>5, <2>6 DEF Arrived
  <2>8. \/ u # a /\ pc'[c] = "changing" /\ answer'[c] = answer[c] /\ Local(c)
        \/ pc'[c] = "done" /\ Local(c) /\ answer'[c] # "success"
    <3>1. CASE ~Exists(u) \/ u = a
      BY <2>2, <3>1, Finished DEF Answers
    <3>2. CASE Exists(u) /\ u # a /\ role[u] = to
      BY <2>2, <3>2, Finished DEF Answers
    <3>3. CASE Exists(u) /\ u # a /\ role[u] # to
      BY <2>2, <3>3, Moved DEF Phases
    <3>4. QED
      BY <3>1, <3>2, <3>3
  <2>9. KindMatches(c)'
    BY <1>0, <2>4, <2>5, <2>7, <2>8 DEF KindMatches, Arrived
  <2>10. QED
    BY <1>0, <2>1, <2>7, <2>8, <2>9 DEF Requested, Arrived, Kinds
<1>8. QED
  BY <1>1, <1>2, <1>3, <1>4, <1>5, <1>6, <1>7 DEF Request

\* A step of a call: the locals of the others stay, and no row goes away.
Stepped(c) ==
    /\ TypeOK'
    /\ Local(c)
    /\ \A d \in Calls \ {c} : job'[d] = job[d]
    /\ \A u \in Users : Exists(u) => Exists(u)'
    /\ KindMatches(c)'

LEMMA RequestSteps ==
    ASSUME Typed, NEW c \in Calls, Request(c) PROVE Stepped(c)
<1>1. Requested(c)
  BY RequestKinds
<1>2. TypeOK'
  BY <1>1 DEF Requested, Arrived, Local, Typed, TypeOK, userVars, mailVars, tokenVars
<1>3. QED
  BY <1>1, <1>2 DEF Requested, Arrived, Stepped, Exists, userVars

LEMMA ServeSteps ==
    ASSUME Typed, NEW c \in Calls, Serve(c) \/ Fail(c) PROVE Stepped(c)
<1> USE DEF Typed
<1>0. /\ c \in Calls /\ job[c] \in Jobs /\ job \in [Calls -> Jobs] /\ KindMatches(c)
      /\ job[c].user \in Users /\ job[c].to \in Roles
  BY DEF TypeOK, Jobs
<1>1. CASE LoginSign(c)
  <2>1. role[job[c].user] \in Roles
    BY <1>0, <1>1 DEF LoginSign, KindMatches, Exists, TypeOK
  <2>2. PICK j \in Jobs : j = [job[c] EXCEPT !.to = role[job[c].user]]
    BY <1>0, <2>1 DEF Jobs
  <2>3. job' = [job EXCEPT ![c] = j]
    BY <1>1, <2>2 DEF LoginSign
  <2>4. /\ job' \in [Calls -> Jobs] /\ job'[c].kind = job[c].kind
        /\ \A d \in Calls \ {c} : job'[d] = job[d]
    BY <1>0, <2>2, <2>3 DEF Jobs
  <2>5. Local(c) /\ pc'[c] = "signed" /\ answer'[c] = answer[c]
    BY <1>1, Moved DEF LoginSign, Phases
  <2>6. TypeOK'
    BY <1>1, <1>0, <2>4, <2>5 DEF LoginSign, Local, TypeOK, userVars, mailVars, tokenVars
  <2>7. KindMatches(c)'
    BY <1>1, <1>0, <2>4, <2>5 DEF LoginSign, KindMatches, Local, Exists, TypeOK, userVars, mailVars, tokenVars
  <2>8. QED
    BY <1>1, <1>0, <2>4, <2>5, <2>6, <2>7 DEF LoginSign, Stepped, Exists, TypeOK, userVars, mailVars, tokenVars
<1>2. CASE LoginGetToken(c)
  <2>1. Local(c) /\ pc'[c] \in {"deleting", "setting"} /\ answer'[c] = answer[c]
    BY <1>2, Moved DEF LoginGetToken, Phases
  <2>2. TypeOK'
    BY <1>2, <1>0, <2>1 DEF LoginGetToken, Local, TypeOK, userVars, mailVars, tokenVars
  <2>3. KindMatches(c)'
    BY <1>2, <1>0, <2>1 DEF LoginGetToken, KindMatches, Local, Exists, TypeOK, userVars, mailVars, tokenVars
  <2>4. QED
    BY <1>2, <1>0, <2>1, <2>2, <2>3 DEF LoginGetToken, Stepped, Exists, TypeOK, userVars, mailVars, tokenVars
<1>3. CASE DeleteToken(c)
  <2>1. PICK j \in Jobs : j = [job[c] EXCEPT !.deleted = TRUE]
    BY <1>0 DEF Jobs
  <2>2. job' = [job EXCEPT ![c] = j]
    BY <1>3, <2>1 DEF DeleteToken
  <2>3. /\ job' \in [Calls -> Jobs] /\ job'[c].kind = job[c].kind
        /\ \A d \in Calls \ {c} : job'[d] = job[d]
    BY <1>0, <2>1, <2>2 DEF Jobs
  <2>4. /\ Local(c)
        /\ \/ pc'[c] = "done"
           \/ pc'[c] = "setting" /\ job[c].kind # "logout" /\ answer'[c] = answer[c]
    BY <1>3, Moved, Finished, Answered DEF DeleteToken, Phases, Answers
  <2>5. TypeOK'
    BY <1>3, <1>0, <2>3, <2>4 DEF DeleteToken, Local, TypeOK, userVars, mailVars, tokenVars
  <2>6. KindMatches(c)'
    BY <1>3, <1>0, <2>3, <2>4 DEF DeleteToken, KindMatches, Local, Exists, TypeOK, userVars, mailVars, tokenVars
  <2>7. QED
    BY <1>3, <1>0, <2>3, <2>4, <2>5, <2>6 DEF DeleteToken, Stepped, Exists, TypeOK, userVars, mailVars, tokenVars
<1>4. CASE SetToken(c)
  <2>1. PICK j \in Jobs : j = [job[c] EXCEPT !.deleted = FALSE]
    BY <1>0 DEF Jobs
  <2>2. job' = [job EXCEPT ![c] = j]
    BY <1>4, <2>1 DEF SetToken
  <2>3. /\ job' \in [Calls -> Jobs]
        /\ \A d \in Calls \ {c} : job'[d] = job[d]
    BY <1>0, <2>1, <2>2
  <2>4. Local(c) /\ pc'[c] = "done"
    BY <1>4, Answered DEF SetToken
  <2>5. TypeOK'
    BY <1>4, <1>0, <2>3, <2>4 DEF SetToken, Local, TypeOK, userVars, mailVars, tokenVars
  <2>6. KindMatches(c)'
    BY <1>4, <1>0, <2>3, <2>4 DEF SetToken, KindMatches, Local, Exists, TypeOK, userVars, mailVars, tokenVars
  <2>7. QED
    BY <1>4, <1>0, <2>3, <2>4, <2>5, <2>6 DEF SetToken, Stepped, Exists, TypeOK, userVars, mailVars, tokenVars
<1>5. CASE ResetUpdate(c)
  <2>1. Local(c) /\ pc'[c] = "updated" /\ answer'[c] = answer[c]
    BY <1>5, Moved DEF ResetUpdate, Phases
  <2>2. TypeOK'
    BY <1>5, <1>0, <2>1 DEF ResetUpdate, Local, TypeOK, userVars, mailVars, tokenVars
  <2>3. KindMatches(c)'
    BY <1>5, <1>0, <2>1 DEF ResetUpdate, KindMatches, Local, Exists, TypeOK, userVars, mailVars, tokenVars
  <2>4. QED
    BY <1>5, <1>0, <2>1, <2>2, <2>3 DEF ResetUpdate, Stepped, Exists, TypeOK, userVars, mailVars, tokenVars
<1>6. CASE ResetMail(c)
  <2>1. /\ Local(c)
        /\ \/ pc'[c] = "done"
           \/ pc'[c] = "mailed" /\ answer'[c] = answer[c]
    BY <1>6, Moved, Finished DEF ResetMail, Phases, Answers
  <2>2. TypeOK'
    BY <1>6, <1>0, <2>1 DEF ResetMail, Local, TypeOK, userVars, mailVars, tokenVars
  <2>3. KindMatches(c)'
    BY <1>6, <1>0, <2>1 DEF ResetMail, KindMatches, Local, Exists, TypeOK, userVars, mailVars, tokenVars
  <2>4. QED
    BY <1>6, <1>0, <2>1, <2>2, <2>3 DEF ResetMail, Stepped, Exists, TypeOK, userVars, mailVars, tokenVars
<1>7. CASE ResetCommit(c)
  <2>1. Local(c) /\ pc'[c] = "done"
    BY <1>7, Answered DEF ResetCommit
  <2>2. TypeOK'
    BY <1>7, <1>0, <2>1 DEF ResetCommit, Local, TypeOK, userVars, mailVars, tokenVars
  <2>3. KindMatches(c)'
    BY <1>7, <1>0, <2>1 DEF ResetCommit, KindMatches, Local, Exists, TypeOK, userVars, mailVars, tokenVars
  <2>4. QED
    BY <1>7, <1>0, <2>1, <2>2, <2>3 DEF ResetCommit, Stepped, Exists, TypeOK, userVars, mailVars, tokenVars
<1>8. CASE CreateInsert(c)
  <2>1. Local(c) /\ pc'[c] = "done"
    BY <1>8, Answered, Finished DEF CreateInsert, Answers
  <2>2. TypeOK'
    BY <1>8, <1>0, <2>1 DEF CreateInsert, Local, TypeOK, userVars, mailVars, tokenVars, Roles
  <2>3. KindMatches(c)'
    BY <1>8, <1>0, <2>1 DEF CreateInsert, KindMatches, Local, Exists, TypeOK, userVars, mailVars, tokenVars, Roles
  <2>4. QED
    BY <1>8, <1>0, <2>1, <2>2, <2>3 DEF CreateInsert, Stepped, Exists, TypeOK, userVars, mailVars, tokenVars, Roles
<1>9. CASE UpdateName(c)
  <2>1. Local(c) /\ pc'[c] = "done"
    BY <1>9, Answered DEF UpdateName
  <2>2. TypeOK'
    BY <1>9, <1>0, <2>1 DEF UpdateName, Local, TypeOK, userVars, mailVars, tokenVars
  <2>3. KindMatches(c)'
    BY <1>9, <1>0, <2>1 DEF UpdateName, KindMatches, Local, Exists, TypeOK, userVars, mailVars, tokenVars
  <2>4. QED
    BY <1>9, <1>0, <2>1, <2>2, <2>3 DEF UpdateName, Stepped, Exists, TypeOK, userVars, mailVars, tokenVars
<1>10. CASE UpdateRole(c)
  <2>1. Local(c) /\ pc'[c] = "done"
    BY <1>10, Answered DEF UpdateRole
  <2>2. TypeOK'
    BY <1>10, <1>0, <2>1 DEF UpdateRole, Local, TypeOK, userVars, mailVars, tokenVars, Roles
  <2>3. KindMatches(c)'
    BY <1>10, <1>0, <2>1 DEF UpdateRole, KindMatches, Local, Exists, TypeOK, userVars, mailVars, tokenVars, Roles
  <2>4. QED
    BY <1>10, <1>0, <2>1, <2>2, <2>3 DEF UpdateRole, Stepped, Exists, TypeOK, userVars, mailVars, tokenVars, Roles
<1>11. CASE Fail(c)
  <2>1. Local(c) /\ pc'[c] = "done"
    BY <1>11, Finished DEF Fail, Answers
  <2>2. TypeOK'
    BY <1>11, <1>0, <2>1 DEF Fail, Local, TypeOK, userVars, mailVars, tokenVars
  <2>3. KindMatches(c)'
    BY <1>11, <1>0, <2>1 DEF Fail, KindMatches, Local, Exists, TypeOK, userVars, mailVars, tokenVars
  <2>4. QED
    BY <1>11, <1>0, <2>1, <2>2, <2>3 DEF Fail, Stepped, Exists, TypeOK, userVars, mailVars, tokenVars
<1>12. QED
  BY <1>1, <1>2, <1>3, <1>4, <1>5, <1>6, <1>7, <1>8, <1>9, <1>10, <1>11 DEF Serve

\* Every step keeps rows, tokens and locals well typed, and each call in the
\* phases of its handler.
LEMMA TypeStep == Typed /\ [Next]_vars => Typed'
<1> SUFFICES ASSUME Typed, [Next]_vars PROVE Typed'
  OBVIOUS
<1> USE DEF Typed
<1>1. ASSUME NEW c \in Calls, Stepped(c) PROVE Typed'
  <2>1. ASSUME NEW d \in Calls \ {c} PROVE KindMatches(d)'
    <3>1. pc'[d] = pc[d] /\ answer'[d] = answer[d] /\ job'[d] = job[d]
      BY <1>1 DEF Stepped, Local
    <3>2. job[d].user \in Users
      BY DEF TypeOK, Jobs
    <3>3. Exists(job[d].user) => role'[job[d].user] # "none"
      BY <1>1, <3>1, <3>2 DEF Stepped, Exists
    <3>4. KindMatches(d)
      OBVIOUS
    <3>5. QED
      BY <3>1, <3>3, <3>4 DEF KindMatches, Exists
  <2>2. QED
    BY <1>1, <2>1 DEF Stepped
<1>2. CASE Crash
  <2>1. TypeOK'
    BY <1>2 DEF Crash, TypeOK, Phases, Answers, userVars, mailVars, tokenVars
  <2>2. \A c \in Calls : KindMatches(c)'
    BY <1>2 DEF Crash, TypeOK, KindMatches
  <2>3. QED
    BY <2>1, <2>2
<1>3. CASE UNCHANGED vars
  BY <1>3 DEF vars, TypeOK, KindMatches, Exists, userVars, mailVars, tokenVars
<1>4. QED
  BY <1>1, <1>2, <1>3, RequestSteps, ServeSteps DEF Next

\* Rows, tokens and locals hold values of their kind.
THEOREM TypeCorrect == Spec => []TypeOK
<1>1. Typed => TypeOK
  BY DEF Typed
<1>2. QED
  BY TypeInit, TypeStep, <1>1, PTL DEF Spec

-----------------------------------------------------------------------------
(* The last administrator.                                                 *)

\* Only createUser and updateUserRole write roles.
LEMMA RoleWriters ==
    ASSUME Typed, [Next]_vars
    PROVE  \/ UNCHANGED role
           \/ \E c \in Calls : CreateInsert(c) \/ UpdateRole(c)
<1>1. ASSUME NEW c \in Calls, Request(c) PROVE UNCHANGED role
  BY <1>1, RequestKinds DEF Requested, userVars
<1>2. ASSUME NEW c \in Calls, Serve(c) \/ Fail(c), ~CreateInsert(c), ~UpdateRole(c)
      PROVE  UNCHANGED role
  BY <1>2 DEF Serve, Fail, LoginSign, LoginGetToken, DeleteToken, SetToken,
              ResetUpdate, ResetMail, ResetCommit, UpdateName, userVars
<1>3. CASE Crash \/ UNCHANGED vars
  BY <1>3 DEF Crash, vars, userVars
<1>4. QED
  BY <1>1, <1>2, <1>3 DEF Next

\* The last administrator is demoted only by somebody who is no administrator
\* any more: UserService.updateUserRole.
LastAdminStep ==
    Admins # {} /\ Admins' = {} =>
        \E c \in Calls : pc[c] = "changing" /\ pc'[c] = "done" /\ job[c].caller \notin Admins

LEMMA LastAdminOfStep == Typed /\ [Next]_vars => LastAdminStep
<1> SUFFICES ASSUME Typed, [Next]_vars, Admins # {}, Admins' = {}
             PROVE  \E c \in Calls :
                        pc[c] = "changing" /\ pc'[c] = "done" /\ job[c].caller \notin Admins
  BY DEF LastAdminStep
<1>1. ~UNCHANGED role
  BY DEF Admins
<1>2. ASSUME NEW c \in Calls, CreateInsert(c) PROVE FALSE
  <2>1. PICK r \in Roles : role' = [role EXCEPT ![job[c].user] = r] /\ role[job[c].user] = "none"
    BY <1>1, <1>2 DEF CreateInsert, Exists
  <2>2. Admins \subseteq Admins'
    BY <2>1 DEF Admins, Typed, TypeOK
  <2>3. QED
    BY <2>2
<1>3. ASSUME NEW c \in Calls, UpdateRole(c)
      PROVE  pc[c] = "changing" /\ pc'[c] = "done" /\ job[c].caller \notin Admins
  <2>1. job[c].caller # job[c].user /\ pc[c] = "changing"
    BY <1>3 DEF UpdateRole, Typed, KindMatches
  <2>2. Admins \subseteq {job[c].user}
    BY <1>3 DEF UpdateRole, Admins, Typed, TypeOK
  <2>3. pc'[c] = "done"
    BY <1>3, Answered DEF UpdateRole, Typed
  <2>4. QED
    BY <2>1, <2>2, <2>3
<1>4. QED
  BY <1>1, <1>2, <1>3, RoleWriters

\* Of two administrators who demote each other, one may leave the system
\* without any; nobody else can.
THEOREM LastAdminCorrect == Spec => LastAdminFallsToStaleCaller
<1>1. Typed /\ [Next]_vars => [LastAdminStep]_vars
  BY LastAdminOfStep
<1>2. Spec => [][LastAdminStep]_vars
  BY TypeInit, TypeStep, <1>1, PTL DEF Spec
<1>3. QED
  BY <1>2 DEF LastAdminFallsToStaleCaller, LastAdminStep

-----------------------------------------------------------------------------
(* Passwords and mails.                                                    *)

\* The row lock admits one reset of a user between UPDATE and commit; what it
\* mailed is the last mail; the last mail is from a reset of its user.
OneReset ==
    \A c, d \in Calls :
        /\ pc[c] \in {"updated", "mailed"} /\ pc[d] \in {"updated", "mailed"}
        /\ job[c].user = job[d].user
        => c = d

MailOfReset ==
    \A c \in Calls : pc[c] = "mailed" =>
        c \in mailed[job[c].user] /\ lastMail[job[c].user] = c

LastMailKnown ==
    \A u \in Users : lastMail[u] # 0 =>
        /\ lastMail[u] \in Calls
        /\ job[lastMail[u]].user = u
        /\ pc[lastMail[u]] \in {"mailed", "done"}

MailInvariant == OneReset /\ MailOfReset /\ LastMailKnown /\ PasswordsMatchMails

LEMMA MailInit == Init => MailInvariant
<1> SUFFICES ASSUME Init PROVE MailInvariant
  OBVIOUS
<1>1. OneReset /\ MailOfReset /\ LastMailKnown
  BY DEF Init, OneReset, MailOfReset, LastMailKnown
<1>2. PasswordsMatchMails
  BY DEF Init, PasswordsMatchMails, StoredPasswordWasMailed, LastMailWorks
<1>3. QED
  BY <1>1, <1>2 DEF MailInvariant

\* A step that neither mails nor stores a password.
Quiet(c) ==
    /\ UNCHANGED <<password, mailed, lastMail>>
    /\ Local(c)
    /\ \A d \in Calls \ {c} : job'[d] = job[d]
    /\ pc[c] # "done" /\ pc'[c] \notin {"updated", "mailed"}
    /\ pc[c] \in {"updated", "mailed"} =>
          pc'[c] = "done" /\ answer'[c] # "success" /\ job'[c] = job[c]

LEMMA QuietSteps ==
    ASSUME Typed, NEW c \in Calls, Request(c) \/ Serve(c) \/ Fail(c),
           ~ResetUpdate(c), ~ResetMail(c), ~ResetCommit(c)
    PROVE  Quiet(c)
<1> USE DEF Typed
<1>1. CASE Request(c)
  BY <1>1, RequestKinds DEF Requested, Arrived, Quiet, userVars, mailVars
<1>2. Serve(c) \/ Fail(c) =>
        /\ Local(c) /\ \A d \in Calls \ {c} : job'[d] = job[d]
        /\ pc[c] # "done"
  BY ServeSteps DEF Stepped, Serve, Fail, LoginSign, LoginGetToken, DeleteToken,
       SetToken, ResetUpdate, ResetMail, ResetCommit, CreateInsert, UpdateName, UpdateRole
<1>3. CASE Fail(c)
  BY <1>2, <1>3, Finished DEF Fail, Answers, Quiet, userVars, mailVars
<1>4. CASE LoginSign(c) \/ LoginGetToken(c)
  BY <1>2, <1>4, Moved DEF LoginSign, LoginGetToken, Serve, Phases, Quiet, userVars, mailVars
<1>5. CASE DeleteToken(c)
  BY <1>2, <1>5, Moved, Answered, Finished
     DEF DeleteToken, Serve, Phases, Answers, Quiet, userVars, mailVars
<1>6. CASE SetToken(c) \/ UpdateName(c) \/ UpdateRole(c)
  BY <1>2, <1>6, Answered DEF SetToken, UpdateName, UpdateRole, Serve, Quiet, userVars, mailVars
<1>7. CASE CreateInsert(c)
  BY <1>2, <1>7, Answered, Finished DEF CreateInsert, Serve, Answers, Quiet, mailVars
<1>8. QED
  BY <1>1, <1>3, <1>4, <1>5, <1>6, <1>7 DEF Serve

LEMMA QuietKeepsMails ==
    ASSUME Typed, MailInvariant, NEW c \in Calls, Quiet(c)
    PROVE  MailInvariant'
<1> USE DEF Typed, MailInvariant, Quiet, Local
<1>1. OneReset'
  BY DEF OneReset
<1>2. MailOfReset'
  BY DEF MailOfReset
<1>3. LastMailKnown'
  BY DEF LastMailKnown
<1>4. LastMailWorks'
  <2> SUFFICES ASSUME NEW u \in Users, lastMail[u] # 0, answer'[lastMail[u]] = "success"
               PROVE  password[u] = lastMail[u]
    BY DEF LastMailWorks
  <2>1. lastMail[u] # c
    BY DEF LastMailKnown
  <2>2. answer[lastMail[u]] = "success"
    BY <2>1 DEF LastMailKnown
  <2>3. QED
    BY <2>2 DEF PasswordsMatchMails, LastMailWorks
<1>5. StoredPasswordWasMailed'
  BY DEF PasswordsMatchMails, StoredPasswordWasMailed
<1>6. QED
  BY <1>1, <1>2, <1>3, <1>4, <1>5 DEF PasswordsMatchMails

LEMMA MailStep == Typed /\ MailInvariant /\ [Next]_vars => MailInvariant'
<1> SUFFICES ASSUME Typed, MailInvariant, [Next]_vars PROVE MailInvariant'
  OBVIOUS
<1> USE DEF Typed, MailInvariant
<1>0. job \in [Calls -> Jobs] /\ \A c \in Calls : job[c].user \in Users
  BY DEF TypeOK, Jobs
<1>1. ASSUME NEW c \in Calls, ResetUpdate(c) PROVE MailInvariant'
  <2>1. /\ UNCHANGED <<password, mailed, lastMail, job, answer>>
        /\ Local(c) /\ pc'[c] = "updated" /\ pc[c] = "hashed"
    BY <1>1, Moved DEF ResetUpdate, Phases, Goto, userVars, mailVars
  <2>2. \A d \in Calls : pc[d] \in {"updated", "mailed"} => job[d].user # job[c].user
    BY <1>1 DEF ResetUpdate, RowLocked
  <2>3. OneReset'
    BY <2>1, <2>2 DEF OneReset, Local
  <2>4. MailOfReset' /\ LastMailKnown'
    BY <2>1 DEF MailOfReset, LastMailKnown, Local
  <2>5. PasswordsMatchMails'
    BY <2>1 DEF PasswordsMatchMails, StoredPasswordWasMailed, LastMailWorks
  <2>6. QED
    BY <2>3, <2>4, <2>5
<1>2. ASSUME NEW c \in Calls, ResetMail(c) PROVE MailInvariant'
  <2>1. /\ UNCHANGED <<password, job>> /\ pc[c] = "updated" /\ Local(c)
        /\ answer'[c] # "success"
        /\ pc'[c] \in {"mailed", "done"}
    BY <1>2, Moved, Finished DEF ResetMail, Phases, Answers, userVars, KindMatches
  <2>2. CASE UNCHANGED mailVars /\ pc'[c] = "done"
    BY <2>1, <2>2, QuietKeepsMails DEF Quiet, mailVars
  <2>3. CASE /\ mailed' = [mailed EXCEPT ![job[c].user] = @ \cup {c}]
             /\ lastMail' = [lastMail EXCEPT ![job[c].user] = c]
    <3>1. OneReset'
      BY <2>1 DEF OneReset, Local
    <3>2. \A d \in Calls \ {c} : pc[d] = "mailed" => job[d].user # job[c].user
      BY <2>1 DEF OneReset
    <3>3. MailOfReset'
      BY <1>0, <2>1, <2>3, <3>2 DEF MailOfReset, Local, TypeOK
    <3>4. LastMailKnown'
      BY <1>0, <2>1, <2>3 DEF LastMailKnown, Local, TypeOK
    <3>5. LastMailWorks'
      BY <1>0, <2>1, <2>3 DEF LastMailWorks, LastMailKnown, PasswordsMatchMails, Local, TypeOK
    <3>6. StoredPasswordWasMailed'
      BY <1>0, <2>1, <2>3 DEF StoredPasswordWasMailed, PasswordsMatchMails, TypeOK
    <3>7. QED
      BY <3>1, <3>3, <3>4, <3>5, <3>6 DEF PasswordsMatchMails
  <2>4. QED
    BY <1>2, <2>2, <2>3, Finished DEF ResetMail, Answers
<1>3. ASSUME NEW c \in Calls, ResetCommit(c) PROVE MailInvariant'
  <2>1. /\ UNCHANGED <<mailed, lastMail, job>> /\ pc[c] = "mailed" /\ Local(c)
        /\ pc'[c] = "done"
        /\ password' = [password EXCEPT ![job[c].user] = c]
    BY <1>3, Answered DEF ResetCommit, mailVars
  <2>2. c \in mailed[job[c].user] /\ lastMail[job[c].user] = c
    BY <2>1 DEF MailOfReset
  <2>3. OneReset' /\ MailOfReset' /\ LastMailKnown'
    BY <2>1 DEF OneReset, MailOfReset, LastMailKnown, Local
  <2>4. StoredPasswordWasMailed'
    BY <1>0, <2>1, <2>2 DEF StoredPasswordWasMailed, PasswordsMatchMails, TypeOK
  <2>5. LastMailWorks'
    BY <1>0, <2>1, <2>2 DEF LastMailWorks, LastMailKnown, PasswordsMatchMails, Local, TypeOK
  <2>6. QED
    BY <2>3, <2>4, <2>5 DEF PasswordsMatchMails
<1>4. CASE Crash
  <2>1. /\ UNCHANGED <<password, mailed, lastMail, job>>
        /\ \A c \in Calls : pc'[c] \in {"idle", "done"}
        /\ \A c \in Calls : pc[c] # "idle" => pc'[c] = "done"
        /\ \A c \in Calls : answer'[c] = "success" => answer[c] = "success"
    BY <1>4 DEF Crash, userVars, mailVars
  <2>2. OneReset' /\ MailOfReset' /\ LastMailKnown'
    BY <2>1 DEF OneReset, MailOfReset, LastMailKnown
  <2>3. PasswordsMatchMails'
    BY <2>1 DEF PasswordsMatchMails, StoredPasswordWasMailed, LastMailWorks, LastMailKnown
  <2>4. QED
    BY <2>2, <2>3
<1>5. CASE UNCHANGED vars
  BY <1>5 DEF vars, userVars, mailVars, OneReset, MailOfReset, LastMailKnown,
       PasswordsMatchMails, StoredPasswordWasMailed, LastMailWorks
<1>6. QED
  BY <1>1, <1>2, <1>3, <1>4, <1>5, QuietSteps, QuietKeepsMails DEF Next

\* A stored password was mailed to its user, and the one mailed last, once its
\* reset was answered success, is the one stored: autoUpdatePassword.
THEOREM PasswordsCorrect == Spec => []PasswordsMatchMails
<1>1. MailInvariant => PasswordsMatchMails
  BY DEF MailInvariant
<1>2. QED
  BY TypeInit, TypeStep, MailInit, MailStep, <1>1, PTL DEF Spec

-----------------------------------------------------------------------------
(* The token in Redis.                                                     *)

\* What had been answered before a call was made stays answered.
Ordered ==
    \A c, d \in Calls : c \in before[d] => pc[c] = "done" /\ pc[d] # "idle"

TokenInvariant == Ordered /\ SessionHasToken

LEMMA TokenInit == Init => TokenInvariant
  BY DEF Init, TokenInvariant, Ordered, SessionHasToken, Sessions

\* A step that leaves the tokens alone, and answers success to no session.
Tokenless(c) ==
    /\ UNCHANGED token
    /\ Local(c) /\ pc[c] # "done" /\ pc'[c] # "idle"
    /\ \A d \in Calls \ {c} : job'[d] = job[d] /\ before'[d] = before[d]
    /\ before'[c] \in {before[c], {d \in Calls : pc[d] = "done"}}
    /\ pc[c] = "idle" \/ before'[c] = before[c]
    /\ \/ job'[c].deleted = job[c].deleted /\ job'[c].user = job[c].user
       \/ ~job[c].deleted
    /\ answer'[c] = "success" => job'[c].kind \notin {"login", "refresh"}

LEMMA TokenlessKeepsTokens ==
    ASSUME Typed, TokenInvariant, NEW c \in Calls, Tokenless(c)
    PROVE  TokenInvariant'
<1> USE DEF Typed, TokenInvariant, Tokenless, Local
<1>1. Ordered'
  BY DEF Ordered
<1>2. ASSUME NEW u \in Users, NEW e \in Sessions(u)', answer'[e] = "success"
      PROVE  /\ token'[u] \notin before'[e]
             /\ token'[u] = 0 => \E d \in Calls : job'[d].user = u /\ job'[d].deleted
  <2>1. e \in Calls \ {c} /\ e \in Sessions(u) /\ answer[e] = "success"
    BY <1>2 DEF Sessions
  <2>2. token[u] \notin before[e]
    BY <2>1 DEF SessionHasToken
  <2>3. ASSUME token[u] = 0
        PROVE  \E d \in Calls : job'[d].user = u /\ job'[d].deleted
    <3>1. PICK d \in Calls : job[d].user = u /\ job[d].deleted
      BY <2>1, <2>3 DEF SessionHasToken
    <3>2. job'[d].user = u /\ job'[d].deleted
      BY <3>1
    <3>3. QED
      BY <3>2
  <2>4. QED
    BY <2>1, <2>2, <2>3
<1>3. QED
  BY <1>1, <1>2 DEF SessionHasToken

LEMMA TokenlessSteps ==
    ASSUME Typed, NEW c \in Calls, Request(c) \/ Serve(c) \/ Fail(c),
           ~DeleteToken(c), ~SetToken(c)
    PROVE  Tokenless(c)
<1> USE DEF Typed
<1>0. job \in [Calls -> Jobs] /\ job[c] \in Jobs
  BY DEF TypeOK
<1>1. CASE Request(c)
  <2>1. /\ \A d \in Calls \ {c} : before'[d] = before[d]
        /\ before'[c] = {d \in Calls : pc[d] = "done"}
    BY <1>1 DEF TypeOK, Request, Login, Refresh, Logout, Reset, Create, Update, ChangeRole, Arrive
  <2>2. Requested(c)
    BY <1>1, RequestKinds
  <2>3. ~job[c].deleted
    BY <2>2 DEF Requested, Arrived, KindMatches
  <2>4. QED
    BY <2>1, <2>2, <2>3 DEF Requested, Arrived, Tokenless, tokenVars
<1>2. Serve(c) \/ Fail(c) =>
        /\ Local(c) /\ pc[c] \notin {"idle", "done"}
        /\ UNCHANGED before
        /\ \A d \in Calls \ {c} : job'[d] = job[d]
  BY ServeSteps DEF Stepped, Serve, Fail, LoginSign, LoginGetToken, DeleteToken,
       SetToken, ResetUpdate, ResetMail, ResetCommit, CreateInsert, UpdateName, UpdateRole
<1>3. CASE Fail(c)
  BY <1>2, <1>3, Finished DEF Fail, Answers, Tokenless, tokenVars
<1>4. CASE LoginSign(c)
  <2>1. /\ UNCHANGED token
        /\ pc'[c] = "signed" /\ answer'[c] = answer[c] /\ answer[c] = "none"
    BY <1>4, Moved DEF LoginSign, Phases, KindMatches, tokenVars
  <2>2. job'[c].deleted = job[c].deleted /\ job'[c].user = job[c].user
    <3>1. job' = [job EXCEPT ![c] = [job[c] EXCEPT !.to = role[job[c].user]]]
      BY <1>4 DEF LoginSign
    <3>2. QED
      BY <1>0, <3>1 DEF Jobs
  <2>3. QED
    BY <1>2, <1>4, <2>1, <2>2 DEF Serve, Tokenless
<1>5. CASE LoginGetToken(c)
  BY <1>2, <1>5, Moved DEF LoginGetToken, Serve, Phases, KindMatches, Tokenless, tokenVars
<1>6. CASE ResetUpdate(c) \/ ResetMail(c)
  BY <1>2, <1>6, Moved, Finished
     DEF ResetUpdate, ResetMail, Serve, Phases, Answers, KindMatches, Tokenless, tokenVars
<1>7. CASE ResetCommit(c) \/ UpdateName(c) \/ UpdateRole(c)
  BY <1>2, <1>7, Answered
     DEF ResetCommit, UpdateName, UpdateRole, Serve, KindMatches, Tokenless, tokenVars
<1>8. CASE CreateInsert(c)
  BY <1>2, <1>8, Answered, Finished
     DEF CreateInsert, Serve, Answers, KindMatches, Tokenless, tokenVars
<1>9. QED
  BY <1>1, <1>3, <1>4, <1>5, <1>6, <1>7, <1>8 DEF Serve

LEMMA TokenStep == Typed /\ TokenInvariant /\ [Next]_vars => TokenInvariant'
<1> SUFFICES ASSUME Typed, TokenInvariant, [Next]_vars PROVE TokenInvariant'
  OBVIOUS
<1> USE DEF Typed, TokenInvariant
<1>0. /\ job \in [Calls -> Jobs] /\ token \in [Users -> Calls \cup {0}]
      /\ \A c \in Calls : job[c].user \in Users /\ job[c] \in Jobs /\ before[c] \subseteq Calls
  BY DEF TypeOK, Jobs
<1>1. ASSUME NEW c \in Calls, DeleteToken(c) PROVE TokenInvariant'
  <2>1. /\ Local(c) /\ pc[c] = "deleting" /\ pc'[c] # "idle"
        /\ answer'[c] = "success" => job[c].kind = "logout"
    BY <1>1, Moved, Answered, Finished DEF DeleteToken, Phases, Answers, KindMatches
  <2>2. /\ token' = [token EXCEPT ![job[c].user] = 0]
        /\ job' = [job EXCEPT ![c] = [job[c] EXCEPT !.deleted = TRUE]]
        /\ UNCHANGED before
    BY <1>1 DEF DeleteToken
  <2>3. /\ job'[c].deleted /\ job'[c].user = job[c].user /\ job'[c].kind = job[c].kind
        /\ \A d \in Calls \ {c} : job'[d] = job[d]
    BY <1>0, <2>2 DEF Jobs
  <2>4. Ordered'
    BY <2>1, <2>2 DEF Ordered, Local
  <2>5. ASSUME NEW u \in Users, NEW e \in Sessions(u)', answer'[e] = "success"
        PROVE  /\ token'[u] \notin before'[e]
               /\ token'[u] = 0 => \E d \in Calls : job'[d].user = u /\ job'[d].deleted
    <3>1. CASE u = job[c].user
      <4>1. token'[u] = 0 /\ before'[e] \subseteq Calls
        BY <1>0, <2>2, <2>5, <3>1 DEF Sessions
      <4>2. QED
        BY <2>3, <3>1, <4>1, CallsPositive
    <3>2. CASE u # job[c].user
      <4>1. e \in Calls \ {c} /\ e \in Sessions(u) /\ answer[e] = "success"
        BY <2>1, <2>3, <2>5, <3>2 DEF Sessions, Local
      <4>2. token'[u] = token[u] /\ before'[e] = before[e]
        BY <1>0, <2>2, <3>2
      <4>3. QED
        BY <2>3, <4>1, <4>2 DEF SessionHasToken
    <3>3. QED
      BY <3>1, <3>2
  <2>6. QED
    BY <2>4, <2>5 DEF SessionHasToken
<1>2. ASSUME NEW c \in Calls, SetToken(c) PROVE TokenInvariant'
  <2>1. Local(c) /\ pc[c] = "setting" /\ pc'[c] = "done"
    BY <1>2, Answered DEF SetToken
  <2>2. /\ token' = [token EXCEPT ![job[c].user] = c]
        /\ job' = [job EXCEPT ![c] = [job[c] EXCEPT !.deleted = FALSE]]
        /\ UNCHANGED before
    BY <1>2 DEF SetToken
  <2>3. /\ job'[c].user = job[c].user /\ job'[c].kind = job[c].kind
        /\ \A d \in Calls \ {c} : job'[d] = job[d]
    BY <1>0, <2>2 DEF Jobs
  <2>4. Ordered'
    BY <2>1, <2>2 DEF Ordered, Local
  <2>5. ASSUME NEW u \in Users, NEW e \in Sessions(u)', answer'[e] = "success"
        PROVE  /\ token'[u] \notin before'[e]
               /\ token'[u] = 0 => \E d \in Calls : job'[d].user = u /\ job'[d].deleted
    <3>1. CASE u = job[c].user
      <4>1. token'[u] = c /\ c # 0
        BY <1>0, <2>2, <3>1, CallsPositive
      <4>2. c \notin before[e]
        BY <2>1, <2>5 DEF Ordered, Sessions
      <4>3. QED
        BY <2>2, <4>1, <4>2
    <3>2. CASE u # job[c].user
      <4>1. e \in Calls \ {c} /\ e \in Sessions(u) /\ answer[e] = "success"
        BY <2>1, <2>3, <2>5, <3>2 DEF Sessions, Local
      <4>2. token'[u] = token[u] /\ before'[e] = before[e]
        BY <1>0, <2>2, <3>2
      <4>3. QED
        BY <2>3, <3>2, <4>1, <4>2 DEF SessionHasToken
    <3>3. QED
      BY <3>1, <3>2
  <2>6. QED
    BY <2>4, <2>5 DEF SessionHasToken
<1>3. CASE Crash
  <2>1. /\ UNCHANGED <<token, job, before>>
        /\ \A c \in Calls : pc[c] # "idle" => pc'[c] = "done"
        /\ \A c \in Calls : answer'[c] = "success" => answer[c] = "success"
    BY <1>3 DEF Crash, tokenVars
  <2>2. Ordered'
    BY <2>1 DEF Ordered
  <2>3. SessionHasToken'
    BY <2>1 DEF SessionHasToken, Sessions
  <2>4. QED
    BY <2>2, <2>3
<1>4. CASE UNCHANGED vars
  BY <1>4 DEF vars, tokenVars, Ordered, SessionHasToken, Sessions
<1>5. QED
  BY <1>1, <1>2, <1>3, <1>4, TokenlessSteps, TokenlessKeepsTokens DEF Next

\* After a login or a refresh that was answered success, the token in Redis is
\* not one from before it, and is missing only where somebody took it out.
THEOREM SessionsCorrect == Spec => []SessionHasToken
<1>1. TokenInvariant => SessionHasToken
  BY DEF TokenInvariant
<1>2. QED
  BY TypeInit, TypeStep, TokenInit, TokenStep, <1>1, PTL DEF Spec

=============================================================================
