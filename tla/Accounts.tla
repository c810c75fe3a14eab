------------------------------ MODULE Accounts ------------------------------
(***************************************************************************)
(* Users and their tokens: AuthService.login, refreshAccessToken, logout   *)
(* and autoUpdatePassword, UserService.createUser, updateUser and          *)
(* updateUserRole, called concurrently.  An action is what a handler does  *)
(* between two awaits.  A password or a token is the call that made it;    *)
(* 0 is the password a user chose.                                         *)
(***************************************************************************)
EXTENDS Integers, FiniteSets

CONSTANTS
    Users,   \* e-mail addresses
    Calls    \* calls of the REST endpoints, as positive numbers

ASSUME SomeUsers == Users # {} /\ IsFiniteSet(Users)
ASSUME CallsPositive == Calls \subseteq Nat \ {0} /\ IsFiniteSet(Calls)

VARIABLES
    role,      \* user.userType, "none" when there is no row of this e-mail
    password,  \* user.password: which call generated it
    mailed,    \* the passwords mailed to each user
    lastMail,  \* the last of them, 0 before any
    token,     \* Redis, auth:refreshToken: which call signed it, 0 when absent
    handed,    \* the roles in the tokens that clients of each user hold
    pc, job, answer,
    before     \* history: the calls answered before a call was made

userVars == <<role, password>>
mailVars == <<mailed, lastMail>>
tokenVars == <<token, handed>>
vars == <<userVars, mailVars, tokenVars, pc, job, answer, before>>

-----------------------------------------------------------------------------
Roles == {"ADMIN", "GENERAL"}
Kinds == {"none", "login", "refresh", "logout", "reset", "create", "update", "role"}

\* user: whose row or token it is about; caller: who changes the role; to: the
\* role that is given, or signed into the token; deleted: this call took the
\* token out of Redis and has not put one back.
Jobs == [kind : Kinds, user : Users, caller : Users, to : Roles,
         deleted : BOOLEAN]

NoJob == LET u == CHOOSE u \in Users : TRUE IN
         [kind |-> "none", user |-> u, caller |-> u, to |-> "GENERAL",
          deleted |-> FALSE]

Phases == {"idle", "compared", "signed", "deleting", "setting", "hashed",
           "updated", "mailed", "inserting", "renaming", "changing", "done"}

Answers == {"none", "success", "refused", "conflict", "failed"}

Exists(u) == role[u] # "none"
Goto(c, phase) == pc' = [pc EXCEPT ![c] = phase] /\ UNCHANGED answer
Finish(c, a) ==
    /\ pc' = [pc EXCEPT ![c] = "done"]
    /\ answer' = [answer EXCEPT ![c] = a]

\* A statement took effect, or it did and its answer was lost.
Acknowledged(c) == Finish(c, "success") \/ Finish(c, "failed")

Arrive(c, kind, u) ==
    /\ pc[c] = "idle"
    /\ before' = [before EXCEPT ![c] = {d \in Calls : pc[d] = "done"}]
    /\ job' = [job EXCEPT ![c] = [NoJob EXCEPT !.kind = kind, !.user = u]]

\* The row is locked between the UPDATE of the password and the commit.
RowLocked(u) == \E d \in Calls : pc[d] \in {"updated", "mailed"} /\ job[d].user = u

-----------------------------------------------------------------------------
(* login and refreshAccessToken.                                           *)

\* getUser by e-mail, and bcrypt.compare.
Login(c) ==
    /\ \E u \in Users :
        /\ Arrive(c, "login", u)
        /\ \/ Exists(u) /\ Goto(c, "compared")
           \/ Finish(c, "refused")
    /\ UNCHANGED <<userVars, mailVars, tokenVars>>

\* The payload is read by a second query and signed.
LoginSign(c) ==
    /\ pc[c] = "compared"
    /\ job' = [job EXCEPT ![c].to = role[job[c].user]]
    /\ Goto(c, "signed")
    /\ UNCHANGED <<userVars, mailVars, tokenVars, before>>

\* Mutant: a token that is there already is left in place.
LoginKeepsToken(c) ==
    /\ pc[c] = "signed"
    /\ IF token[job[c].user] # 0 THEN Acknowledged(c) ELSE Goto(c, "setting")
    /\ UNCHANGED <<userVars, mailVars, tokenVars, job, before>>

\* A login deletes the token only if Redis has one.
LoginGetToken(c) ==
    /\ pc[c] = "signed"
    /\ Goto(c, IF token[job[c].user] # 0 THEN "deleting" ELSE "setting")
    /\ UNCHANGED <<userVars, mailVars, tokenVars, job, before>>

\* The client's token is verified by its signature only; getUser by the e-mail
\* in it; the new payload is signed.
Refresh(c) ==
    /\ \E u \in Users :
        /\ handed[u] # {} /\ Exists(u)
        /\ pc[c] = "idle"
        /\ before' = [before EXCEPT ![c] = {d \in Calls : pc[d] = "done"}]
        /\ job' = [job EXCEPT ![c] = [NoJob EXCEPT !.kind = "refresh",
                                         !.user = u, !.to = role[u]]]
        /\ Goto(c, "deleting")
    /\ UNCHANGED <<userVars, mailVars, tokenVars>>

Logout(c) ==
    /\ \E u \in Users :
        /\ handed[u] # {}
        /\ Arrive(c, "logout", u)
        /\ Goto(c, "deleting")
    /\ UNCHANGED <<userVars, mailVars, tokenVars>>

DeleteToken(c) ==
    /\ pc[c] = "deleting"
    /\ token' = [token EXCEPT ![job[c].user] = 0]
    /\ job' = [job EXCEPT ![c].deleted = TRUE]
    /\ \/ job[c].kind = "logout" /\ Acknowledged(c)
       \/ job[c].kind # "logout" /\ (Goto(c, "setting") \/ Finish(c, "failed"))
    /\ UNCHANGED <<userVars, mailVars, handed, before>>

SetToken(c) ==
    /\ pc[c] = "setting"
    /\ token' = [token EXCEPT ![job[c].user] = c]
    /\ handed' = [handed EXCEPT ![job[c].user] = @ \cup {job[c].to}]
    /\ job' = [job EXCEPT ![c].deleted = FALSE]
    /\ Acknowledged(c)
    /\ UNCHANGED <<userVars, mailVars, before>>

-----------------------------------------------------------------------------
(* autoUpdatePassword.                                                     *)

Reset(c) ==
    /\ \E u \in Users :
        /\ Arrive(c, "reset", u)
        /\ IF Exists(u) THEN Goto(c, "hashed") ELSE Finish(c, "refused")
    /\ UNCHANGED <<userVars, mailVars, tokenVars>>

\* Mutant: the row is read, not locked, before the mail.
ResetUpdateUnlocked(c) ==
    /\ pc[c] = "hashed"
    /\ Goto(c, "updated")
    /\ UNCHANGED <<userVars, mailVars, tokenVars, job, before>>

\* BEGIN, and UPDATE of the password: not visible yet, the row is locked.
ResetUpdate(c) ==
    /\ pc[c] = "hashed"
    /\ ~RowLocked(job[c].user)
    /\ Goto(c, "updated")
    /\ UNCHANGED <<userVars, mailVars, tokenVars, job, before>>

\* Mutant: the SMTP server never answers, and nobody stops waiting for it.
ResetMailHangs(c) == FALSE

\* The mail is delivered, or refused, or delivered although the call fails.
\* If the call fails the transaction is rolled back.
ResetMail(c) ==
    /\ pc[c] = "updated"
    /\ \/ /\ mailed' = [mailed EXCEPT ![job[c].user] = @ \cup {c}]
          /\ lastMail' = [lastMail EXCEPT ![job[c].user] = c]
          /\ Goto(c, "mailed") \/ Finish(c, "failed")
       \/ Finish(c, "failed") /\ UNCHANGED mailVars
    /\ UNCHANGED <<userVars, tokenVars, job, before>>

ResetCommit(c) ==
    /\ pc[c] = "mailed"
    /\ password' = [password EXCEPT ![job[c].user] = c]
    /\ Acknowledged(c)
    /\ UNCHANGED <<role, mailVars, tokenVars, job, before>>

-----------------------------------------------------------------------------
(* createUser, updateUser, updateUserRole.                                 *)

\* The e-mail is looked up, and the password hashed.
Create(c) ==
    /\ \E u \in Users :
        /\ Arrive(c, "create", u)
        /\ IF Exists(u) THEN Finish(c, "conflict") ELSE Goto(c, "inserting")
    /\ UNCHANGED <<userVars, mailVars, tokenVars>>

\* The unique e-mail makes a second INSERT fail.
CreateInsert(c) ==
    /\ pc[c] = "inserting"
    /\ IF Exists(job[c].user) THEN Finish(c, "failed") /\ UNCHANGED role
       ELSE /\ \E r \in Roles : role' = [role EXCEPT ![job[c].user] = r]
            /\ Acknowledged(c)
    /\ UNCHANGED <<password, mailVars, tokenVars, job, before>>

\* The row of the e-mail, whose userUuid must be that of the body; the name is
\* then written.
Update(c) ==
    /\ \E u \in Users :
        /\ Arrive(c, "update", u)
        /\ \/ Exists(u) /\ Goto(c, "renaming")
           \/ Finish(c, "refused")
    /\ UNCHANGED <<userVars, mailVars, tokenVars>>

UpdateName(c) ==
    /\ pc[c] = "renaming"
    /\ ~RowLocked(job[c].user)
    /\ Acknowledged(c)
    /\ UNCHANGED <<userVars, mailVars, tokenVars, job, before>>

\* RolesGuard looks at the role in the caller's token.
MayChangeRoles(u) == "ADMIN" \in handed[u]

\* Mutant: without the check that nobody changes the own role.
ChangeRoleOwn(c) ==
    /\ pc[c] = "idle"
    /\ before' = [before EXCEPT ![c] = {d \in Calls : pc[d] = "done"}]
    /\ \E a, u \in Users, to \in Roles :
        /\ MayChangeRoles(a)
        /\ job' = [job EXCEPT ![c] = [NoJob EXCEPT !.kind = "role", !.user = u,
                                         !.caller = a, !.to = to]]
        /\ CASE ~Exists(u) -> Finish(c, "refused")
             [] Exists(u) /\ role[u] = to -> Finish(c, "conflict")
             [] OTHER -> Goto(c, "changing")
    /\ UNCHANGED <<userVars, mailVars, tokenVars>>

\* The row of the target: it exists, is not the caller's, has another role.
ChangeRole(c) ==
    /\ pc[c] = "idle"
    /\ before' = [before EXCEPT ![c] = {d \in Calls : pc[d] = "done"}]
    /\ \E a, u \in Users, to \in Roles :
        /\ MayChangeRoles(a)
        /\ job' = [job EXCEPT ![c] = [NoJob EXCEPT !.kind = "role", !.user = u,
                                         !.caller = a, !.to = to]]
        /\ CASE ~Exists(u) \/ u = a -> Finish(c, "refused")
             [] Exists(u) /\ u # a /\ role[u] = to -> Finish(c, "conflict")
             [] OTHER -> Goto(c, "changing")
    /\ UNCHANGED <<userVars, mailVars, tokenVars>>

UpdateRole(c) ==
    /\ pc[c] = "changing"
    /\ ~RowLocked(job[c].user)
    /\ role' = [role EXCEPT ![job[c].user] = job[c].to]
    /\ Acknowledged(c)
    /\ UNCHANGED <<password, mailVars, tokenVars, job, before>>

-----------------------------------------------------------------------------
\* A statement or a call of Redis fails without effect: rollback and 500.
Fail(c) ==
    /\ pc[c] \notin {"idle", "done"}
    /\ Finish(c, "failed")
    /\ UNCHANGED <<userVars, mailVars, tokenVars, job, before>>

\* The process dies; open transactions are rolled back, mails are not.
Crash ==
    /\ \E c \in Calls : pc[c] \notin {"idle", "done"}
    /\ pc' = [c \in Calls |-> IF pc[c] = "idle" THEN "idle" ELSE "done"]
    /\ answer' = [c \in Calls |->
                     IF pc[c] \in {"idle", "done"} THEN answer[c] ELSE "failed"]
    /\ UNCHANGED <<userVars, mailVars, tokenVars, job, before>>

\* Some users exist, and may have logged in before.
Init ==
    /\ role \in [Users -> Roles \cup {"none"}]
    /\ password = [u \in Users |-> 0]
    /\ mailed = [u \in Users |-> {}] /\ lastMail = [u \in Users |-> 0]
    /\ token = [u \in Users |-> 0]
    /\ handed = [u \in Users |-> IF Exists(u) THEN {role[u]} ELSE {}]
    /\ pc = [c \in Calls |-> "idle"]
    /\ job = [c \in Calls |-> NoJob]
    /\ answer = [c \in Calls |-> "none"]
    /\ before = [c \in Calls |-> {}]

Request(c) ==
    \/ Login(c) \/ Refresh(c) \/ Logout(c) \/ Reset(c)
    \/ Create(c) \/ Update(c) \/ ChangeRole(c)

Serve(c) ==
    \/ LoginSign(c) \/ LoginGetToken(c) \/ DeleteToken(c) \/ SetToken(c)
    \/ ResetUpdate(c) \/ ResetMail(c) \/ ResetCommit(c)
    \/ CreateInsert(c) \/ UpdateName(c) \/ UpdateRole(c)

Next == Crash \/ \E c \in Calls : Request(c) \/ Serve(c) \/ Fail(c)

Spec == Init /\ [][Next]_vars

FairSpec == Spec /\ \A c \in Calls : WF_vars(Serve(c))

-----------------------------------------------------------------------------
(* Properties.                                                             *)

\* Rows, tokens and locals hold values of their kind.
TypeOK ==
    /\ role \in [Users -> Roles \cup {"none"}]
    /\ password \in [Users -> Calls \cup {0}]
    /\ mailed \in [Users -> SUBSET Calls]
    /\ lastMail \in [Users -> Calls \cup {0}]
    /\ token \in [Users -> Calls \cup {0}]
    /\ handed \in [Users -> SUBSET Roles]
    /\ pc \in [Calls -> Phases]
    /\ job \in [Calls -> Jobs]
    /\ answer \in [Calls -> Answers]
    /\ before \in [Calls -> SUBSET Calls]

\* auth.service.ts: nobody is left with a password that was never mailed to
\* them, whatever fails between the UPDATE, the mail and the commit.
StoredPasswordWasMailed ==
    \A u \in Users : password[u] \in mailed[u] \cup {0}

\* Of several resets in flight, the one whose mail came last is the one that
\* counts: if it was answered success, the password in it is the stored one.
LastMailWorks ==
    \A u \in Users :
        lastMail[u] # 0 /\ answer[lastMail[u]] = "success" => password[u] = lastMail[u]

\* Passwords and mails agree, whatever fails and however resets overlap.
PasswordsMatchMails == StoredPasswordWasMailed /\ LastMailWorks

Sessions(u) == {c \in Calls : job[c].kind \in {"login", "refresh"} /\ job[c].user = u}

\* After a successful login or refresh, the token in Redis is not one from
\* before it, and is missing only if a logout, or a login or refresh that has
\* not come to its end, has taken it out.
SessionHasToken ==
    \A u \in Users : \A c \in Sessions(u) : answer[c] = "success" =>
        /\ token[u] \notin before[c]
        /\ token[u] = 0 => \E d \in Calls : job[d].user = u /\ job[d].deleted

Admins == {u \in Users : role[u] = "ADMIN"}

\* The last administrator is demoted only by somebody who is no administrator
\* any more, and acts on a token from when they were.
LastAdminFallsToStaleCaller ==
    [][Admins # {} /\ Admins' = {} =>
          \E c \in Calls : pc[c] = "changing" /\ pc'[c] = "done" /\ job[c].caller \notin Admins]_vars

\* Every call is answered, although it may wait for a row that is locked while
\* a mail is sent.
EveryCallAnswered ==
    \A c \in Calls : pc[c] \notin {"idle", "done"} ~> pc[c] = "done"
=============================================================================
