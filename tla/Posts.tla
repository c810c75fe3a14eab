------------------------------- MODULE Posts -------------------------------
(***************************************************************************)
(* One post of PostService: reading it (which counts a view), editing and  *)
(* deleting it (both of which read it first) and toggling one's like, all  *)
(* called concurrently.  An action is what a handler does between two      *)
(* awaits.  The title is abstracted to the call that supplied it, the      *)
(* content is left out.                                                    *)
(***************************************************************************)
EXTENDS Integers, FiniteSets

CONSTANTS
    Users,
    Calls    \* calls of the REST endpoints of this post, as positive numbers

ASSUME SomeUsers == Users # {} /\ IsFiniteSet(Users)
ASSUME CallsPositive == Calls \subseteq Nat \ {0} /\ IsFiniteSet(Calls)

VARIABLES
    post,      \* "absent", "live", or "deleted" (deletedDt is set)
    title,     \* the call that gave post.title, 0 for that of its creation
    hits,      \* post.hits
    likes,     \* post.likes
    likeRow,   \* post_like: no row, actionDt set ("on") or NULL ("off")
    pc, job, answer,
    before     \* history: the calls answered before a call was made

postVars == <<post, title, hits, likes, likeRow>>
vars == <<postVars, pc, job, answer, before>>

-----------------------------------------------------------------------------
Kinds == {"none", "create", "view", "edit", "delete", "like"}

\* may: the caller is the owner or an administrator; newTitle: the body has a
\* title; hits, title, row: what was read; counted: the view or the toggle
\* took effect.
Jobs == [kind : Kinds, user : Users, may : BOOLEAN, newTitle : BOOLEAN,
         hits : Nat, title : Calls \cup {0}, row : {"none", "on", "off"},
         counted : BOOLEAN]

NoJob == [kind |-> "none", user |-> CHOOSE u \in Users : TRUE,
          may |-> FALSE, newTitle |-> FALSE, hits |-> 0, title |-> 0,
          row |-> "none", counted |-> FALSE]

Phases == {"idle", "read", "edit", "delete", "found", "toggling", "inserted",
           "toggled", "done"}

Answers == {"none", "created", "notFound", "shown", "notOwner", "edited",
            "deleted", "liked", "unliked", "failed"}

Goto(c, phase) == pc' = [pc EXCEPT ![c] = phase] /\ UNCHANGED answer

Finish(c, a) ==
    /\ pc' = [pc EXCEPT ![c] = "done"]
    /\ answer' = [answer EXCEPT ![c] = a]

Arrive(c) ==
    /\ pc[c] = "idle"
    /\ before' = [before EXCEPT ![c] = {d \in Calls : pc[d] = "done"}]

\* An INSERT into post_like shares the row of post through its foreign key;
\* an UPDATE of post waits for that transaction.
PostShared(c) == \E d \in Calls \ {c} : pc[d] = "inserted"

\* A statement took effect, or it did and its answer was lost.
Acknowledged(c, a) == Finish(c, a) \/ Finish(c, "failed")

-----------------------------------------------------------------------------
(* create.                                                                 *)

Create(c) ==
    /\ Arrive(c)
    /\ post = "absent"
    /\ post' = "live"
    /\ job' = [job EXCEPT ![c].kind = "create"]
    /\ Acknowledged(c, "created")
    /\ UNCHANGED <<title, hits, likes, likeRow>>

-----------------------------------------------------------------------------
(* selectPost, which updatePost and softDeletePost call first.             *)

\* Mutant: hits is not selected, and the entity's initial value 0 stands.
SelectPostWithoutHits(c) ==
    /\ Arrive(c)
    /\ \E kind \in {"view", "edit", "delete"}, may, newTitle \in BOOLEAN :
        /\ kind = "view" => ~may
        /\ newTitle => kind = "edit"
        /\ job' = [job EXCEPT ![c] =
                      IF post = "live"
                      THEN [NoJob EXCEPT !.kind = kind, !.may = may,
                               !.newTitle = newTitle, !.title = title]
                      ELSE [NoJob EXCEPT !.kind = kind]]
    /\ IF post = "live" THEN Goto(c, "read") ELSE Finish(c, "notFound")
    /\ UNCHANGED postVars

SelectPost(c) ==
    /\ Arrive(c)
    /\ \E kind \in {"view", "edit", "delete"}, may, newTitle \in BOOLEAN :
        /\ kind = "view" => ~may
        /\ newTitle => kind = "edit"
        /\ job' = [job EXCEPT ![c] =
                      IF post = "live"
                      THEN [NoJob EXCEPT !.kind = kind, !.may = may,
                               !.newTitle = newTitle, !.hits = hits, !.title = title]
                      ELSE [NoJob EXCEPT !.kind = kind]]
    /\ IF post = "live" THEN Goto(c, "read") ELSE Finish(c, "notFound")
    /\ UNCHANGED postVars

\* UPDATE hits, of a post that may be deleted by now; then assertOwnership.
CountView(c) ==
    /\ pc[c] = "read"
    /\ ~PostShared(c)
    /\ hits' = job[c].hits + 1
    /\ job' = [job EXCEPT ![c].counted = TRUE, ![c].hits = 0, ![c].may = FALSE]
    /\ CASE job[c].kind = "view" -> Acknowledged(c, "shown")
         [] job[c].kind # "view" /\ ~job[c].may -> Acknowledged(c, "notOwner")
         [] OTHER -> Goto(c, job[c].kind) \/ Finish(c, "failed")
    /\ UNCHANGED <<post, title, likes, likeRow, before>>

\* Mutant: the title read is written whether or not the body has one.
UpdatePostKeepingTitle(c) ==
    /\ pc[c] = "edit"
    /\ ~PostShared(c)
    /\ title' = job[c].title
    /\ Acknowledged(c, "edited")
    /\ UNCHANGED <<post, hits, likes, likeRow, job, before>>

\* A body without title writes back the title that selectPost read.
UpdatePost(c) ==
    /\ pc[c] = "edit"
    /\ ~PostShared(c)
    /\ title' = IF job[c].newTitle THEN c ELSE job[c].title
    /\ Acknowledged(c, "edited")
    /\ UNCHANGED <<post, hits, likes, likeRow, job, before>>

\* softDelete by id: a second one is a success, too.
SoftDelete(c) ==
    /\ pc[c] = "delete"
    /\ ~PostShared(c)
    /\ post' = "deleted"
    /\ Acknowledged(c, "deleted")
    /\ UNCHANGED <<title, hits, likes, likeRow, job, before>>

-----------------------------------------------------------------------------
(* postLike.                                                               *)

LikeFindPost(c) ==
    /\ Arrive(c)
    /\ \E user \in Users :
          job' = [job EXCEPT ![c] = [NoJob EXCEPT !.kind = "like", !.user = user]]
    /\ IF post = "live" THEN Goto(c, "found") ELSE Finish(c, "notFound")
    /\ UNCHANGED postVars

\* The user's row, read before the transaction.
LikeFindRow(c) ==
    /\ pc[c] = "found"
    /\ job' = [job EXCEPT ![c].row = likeRow[job[c].user]]
    /\ Goto(c, "toggling")
    /\ UNCHANGED <<postVars, before>>

\* Another transaction has written the row of this user.
RowLocked(c) ==
    \E d \in Calls \ {c} :
        pc[d] \in {"inserted", "toggled"} /\ job[d].user = job[c].user

\* INSERT of a first like; a duplicate key fails the call.
LikeInsert(c) ==
    /\ pc[c] = "toggling"
    /\ job[c].row = "none"
    /\ ~RowLocked(c)
    /\ IF likeRow[job[c].user] = "none" THEN Goto(c, "inserted")
       ELSE Finish(c, "failed")
    /\ UNCHANGED <<postVars, job, before>>

\* UPDATE of actionDt, whatever it has become meanwhile.
LikeToggle(c) ==
    /\ pc[c] = "toggling"
    /\ job[c].row # "none"
    /\ ~RowLocked(c)
    /\ Goto(c, "toggled")
    /\ UNCHANGED <<postVars, job, before>>

Up(c) == job[c].row # "on"

Toggled(c) == [likeRow EXCEPT ![job[c].user] = IF Up(c) THEN "on" ELSE "off"]

\* Mutant: likes is updated through another connection, outside the
\* transaction, and stays when the commit fails.
LikeCountOutside(c) ==
    /\ pc[c] \in {"inserted", "toggled"}
    /\ ~PostShared(c)
    /\ Up(c) \/ likes > 0
    /\ likes' = likes + (IF Up(c) THEN 1 ELSE -1)
    /\ \/ /\ likeRow' = Toggled(c)
          /\ job' = [job EXCEPT ![c].counted = TRUE]
          /\ Finish(c, IF Up(c) THEN "liked" ELSE "unliked")
       \/ Finish(c, "failed") /\ UNCHANGED <<likeRow, job>>
    /\ UNCHANGED <<post, title, hits, before>>

\* Mutant: the UPDATE runs on another connection and waits for the row that the
\* own transaction shares since its INSERT.
LikeCountApart(c) ==
    /\ pc[c] = "toggled"
    /\ ~PostShared(c)
    /\ Up(c) \/ likes > 0
    /\ likes' = likes + (IF Up(c) THEN 1 ELSE -1)
    /\ likeRow' = Toggled(c)
    /\ job' = [job EXCEPT ![c].counted = TRUE]
    /\ Finish(c, IF Up(c) THEN "liked" ELSE "unliked")
    /\ UNCHANGED <<post, title, hits, before>>

\* UPDATE likes + 1 or - 1, and COMMIT.  likes is unsigned: below zero the
\* statement fails and the transaction is rolled back.
LikeCount(c) ==
    /\ pc[c] \in {"inserted", "toggled"}
    /\ ~PostShared(c)
    /\ \/ /\ ~Up(c) /\ likes = 0
          /\ Finish(c, "failed")
          /\ UNCHANGED <<likes, likeRow, job>>
       \/ /\ Up(c) \/ likes > 0
          /\ likes' = likes + (IF Up(c) THEN 1 ELSE -1)
          /\ likeRow' = Toggled(c)
          /\ job' = [job EXCEPT ![c].counted = TRUE]
          /\ Acknowledged(c, IF Up(c) THEN "liked" ELSE "unliked")
    /\ UNCHANGED <<post, title, hits, before>>

\* Two first likes share the row of post and both want to update it: one of
\* them is rolled back.
LikeDeadlock(c) ==
    /\ pc[c] = "inserted"
    /\ PostShared(c)
    /\ Finish(c, "failed")
    /\ UNCHANGED <<postVars, job, before>>

-----------------------------------------------------------------------------
\* A statement fails without effect: rollback and 500.
Fail(c) ==
    /\ pc[c] \notin {"idle", "done"}
    /\ Finish(c, "failed")
    /\ UNCHANGED <<postVars, job, before>>

\* The process dies; open transactions are rolled back.
Crash ==
    /\ \E c \in Calls : pc[c] \notin {"idle", "done"}
    /\ pc' = [c \in Calls |-> IF pc[c] = "idle" THEN "idle" ELSE "done"]
    /\ answer' = [c \in Calls |->
                     IF pc[c] \in {"idle", "done"} THEN answer[c] ELSE "failed"]
    /\ UNCHANGED <<postVars, job, before>>

Init ==
    /\ post = "absent" /\ title = 0 /\ hits = 0 /\ likes = 0
    /\ likeRow = [u \in Users |-> "none"]
    /\ pc = [c \in Calls |-> "idle"]
    /\ job = [c \in Calls |-> NoJob]
    /\ answer = [c \in Calls |-> "none"]
    /\ before = [c \in Calls |-> {}]

Serve(c) ==
    \/ CountView(c) \/ UpdatePost(c) \/ SoftDelete(c)
    \/ LikeFindRow(c) \/ LikeInsert(c) \/ LikeToggle(c) \/ LikeCount(c)
    \/ LikeDeadlock(c)

Next ==
    \/ Crash
    \/ \E c \in Calls :
          Create(c) \/ SelectPost(c) \/ LikeFindPost(c) \/ Serve(c) \/ Fail(c)

Spec == Init /\ [][Next]_vars

FairSpec == Spec /\ \A c \in Calls : WF_vars(Serve(c))

-----------------------------------------------------------------------------
(* Properties.                                                             *)

\* Rows and locals hold values of their kind; likes stays unsigned.
TypeOK ==
    /\ post \in {"absent", "live", "deleted"}
    /\ title \in Calls \cup {0}
    /\ hits \in Nat /\ likes \in Nat
    /\ likeRow \in [Users -> {"none", "on", "off"}]
    /\ pc \in [Calls -> Phases]
    /\ job \in [Calls -> Jobs]
    /\ answer \in [Calls -> Answers]
    /\ before \in [Calls -> SUBSET Calls]

Made(c) == pc[c] # "idle"
Overlap(c, d) ==
    c # d /\ Made(c) /\ Made(d) /\ c \notin before[d] /\ d \notin before[c]

Views == {c \in Calls : job[c].kind \in {"view", "edit", "delete"} /\ job[c].counted}

\* hits never passes the number of views, is never set back to zero by a late
\* write, and is exact as long as no two views overlap.
HitsCountViews ==
    /\ hits <= Cardinality(Views)
    /\ Views # {} => hits > 0
    /\ (\A c, d \in Views : ~Overlap(c, d)) => hits = Cardinality(Views)

Toggles(U) == {c \in Calls : job[c].kind = "like" /\ job[c].user \in U /\ job[c].counted}

\* Users two of whose likes were in flight at the same time.
Racing ==
    {u \in Users : \E c, d \in Calls :
        /\ Overlap(c, d)
        /\ job[c].kind = "like" /\ job[d].kind = "like"
        /\ job[c].user = u /\ job[d].user = u}

\* likes is the number of users who like the post, whatever fails between the
\* row and the counter, except for what users add or take off who toggle
\* before their last toggle was answered.
LikesCountLikers ==
    LET ups == {c \in Toggles(Racing) : Up(c)}
        downs == Toggles(Racing) \ ups
        likers == {u \in Users \ Racing : likeRow[u] = "on"}
    IN likes = Cardinality(likers) + Cardinality(ups) - Cardinality(downs)

\* A title that was replaced comes back only through an edit without a title
\* that overlapped the edit which replaced it.
TitleNotUndone ==
    \A c \in Calls :
        /\ answer[c] = "edited" /\ job[c].newTitle
        /\ title \in before[c] \cup {0}
        => \E d \in Calls : job[d].kind = "edit" /\ ~job[d].newTitle /\ Overlap(c, d)

\* Every call is answered: waits for a like's row and for the post's resolve.
EveryCallAnswered ==
    \A c \in Calls : pc[c] \notin {"idle", "done"} ~> pc[c] = "done"
=============================================================================
