----------------------------- MODULE PostsProofs -----------------------------
(***************************************************************************)
(* Theorems about a post, for any number of users and concurrent calls.    *)
(***************************************************************************)
EXTENDS Posts, FiniteSetTheorems, TLAPS

USE DEF postVars, Goto, Finish, Acknowledged, Arrive, Phases, Answers

\* The idle job is a job.
LEMMA NoJobType == NoJob \in Jobs
  BY SomeUsers DEF NoJob, Jobs, Kinds

\* A call that has not begun has no kind; each phase belongs to its handler;
\* a call in flight has no answer.
KindsMatch ==
    \A c \in Calls :
        /\ pc[c] = "idle" => job[c] = NoJob
        /\ pc[c] = "read" => job[c].kind \in {"view", "edit", "delete"}
        /\ pc[c] = "edit" => job[c].kind = "edit"
        /\ pc[c] = "delete" => job[c].kind = "delete"
        /\ pc[c] \in {"found", "toggling", "inserted", "toggled"} => job[c].kind = "like"
        /\ pc[c] # "done" => answer[c] = "none"

Typed == TypeOK /\ KindsMatch

LEMMA TypeInit == Init => Typed
<1> SUFFICES ASSUME Init PROVE Typed
  OBVIOUS
<1>1. TypeOK
  BY NoJobType DEF Init, TypeOK
<1>2. KindsMatch
  BY DEF Init, KindsMatch
<1>3. QED
  BY <1>1, <1>2 DEF Typed

\* Every step keeps rows and locals well typed.
LEMMA TypeStep == Typed /\ [Next]_vars => TypeOK'
<1> SUFFICES ASSUME Typed, [Next]_vars PROVE TypeOK'
  OBVIOUS
<1> USE NoJobType DEF TypeOK, Typed
<1>1. ASSUME NEW c \in Calls, Create(c) PROVE TypeOK'
  <2>1. [job[c] EXCEPT !.kind = "create"] \in Jobs
    BY DEF Jobs, Kinds
  <2>2. QED
    BY <1>1, <2>1 DEF Create
<1>2. ASSUME NEW c \in Calls, SelectPost(c) PROVE TypeOK'
  <2>1. PICK kind \in {"view", "edit", "delete"}, may \in BOOLEAN, newTitle \in BOOLEAN :
            job' = [job EXCEPT ![c] =
                      IF post = "live"
                      THEN [NoJob EXCEPT !.kind = kind, !.may = may,
                               !.newTitle = newTitle, !.hits = hits, !.title = title]
                      ELSE [NoJob EXCEPT !.kind = kind]]
    BY <1>2, Zenon DEF SelectPost
  <2>2. /\ [NoJob EXCEPT !.kind = kind, !.may = may,
               !.newTitle = newTitle, !.hits = hits, !.title = title] \in Jobs
        /\ [NoJob EXCEPT !.kind = kind] \in Jobs
    BY DEF Jobs, Kinds
  <2>3. job' \in [Calls -> Jobs]
    BY <2>1, <2>2
  <2>4. QED
    BY <1>2, <2>3 DEF SelectPost
<1>3. ASSUME NEW c \in Calls, CountView(c) PROVE TypeOK'
  <2>1. [job[c] EXCEPT !.counted = TRUE, !.hits = 0, !.may = FALSE] \in Jobs
    BY DEF Jobs
  <2>2. job' = [job EXCEPT ![c] = [job[c] EXCEPT !.counted = TRUE, !.hits = 0, !.may = FALSE]]
    BY <1>3 DEF CountView
  <2>3. hits' \in Nat
    BY <1>3 DEF CountView, Jobs
  <2>4. /\ pc' \in [Calls -> Phases]
        /\ answer' \in [Calls -> Answers]
    <3>1. CASE job[c].kind = "view"
      BY <1>3, <3>1 DEF CountView
    <3>2. CASE job[c].kind # "view" /\ ~job[c].may
      BY <1>3, <3>2 DEF CountView
    <3>3. CASE job[c].kind # "view" /\ job[c].may
      BY <1>3, <3>3 DEF CountView, KindsMatch
    <3>4. QED
      BY <3>1, <3>2, <3>3
  <2>5. QED
    BY <1>3, <2>1, <2>2, <2>3, <2>4 DEF CountView
<1>4. ASSUME NEW c \in Calls, UpdatePost(c) PROVE TypeOK'
  BY <1>4 DEF UpdatePost, Jobs
<1>5. ASSUME NEW c \in Calls, SoftDelete(c) PROVE TypeOK'
  BY <1>5 DEF SoftDelete
<1>6. ASSUME NEW c \in Calls, LikeFindPost(c) PROVE TypeOK'
  <2>1. \A user \in Users : [NoJob EXCEPT !.kind = "like", !.user = user] \in Jobs
    BY DEF Jobs, Kinds
  <2>2. QED
    BY <1>6, <2>1 DEF LikeFindPost
<1>7. ASSUME NEW c \in Calls, LikeFindRow(c) PROVE TypeOK'
  <2>1. [job[c] EXCEPT !.row = likeRow[job[c].user]] \in Jobs
    BY DEF Jobs
  <2>2. QED
    BY <1>7, <2>1 DEF LikeFindRow
<1>8. ASSUME NEW c \in Calls, LikeInsert(c) PROVE TypeOK'
  BY <1>8 DEF LikeInsert
<1>9. ASSUME NEW c \in Calls, LikeToggle(c) PROVE TypeOK'
  BY <1>9 DEF LikeToggle
<1>10. ASSUME NEW c \in Calls, LikeCount(c) PROVE TypeOK'
  <2>1. [job[c] EXCEPT !.counted = TRUE] \in Jobs
    BY DEF Jobs
  <2>2. likes' \in Nat
    BY <1>10 DEF LikeCount
  <2>3. likeRow' \in [Users -> {"none", "on", "off"}]
    BY <1>10 DEF LikeCount, Toggled
  <2>4. job' \in [Calls -> Jobs]
    BY <1>10, <2>1 DEF LikeCount
  <2>5. QED
    BY <1>10, <2>2, <2>3, <2>4 DEF LikeCount
<1>11. ASSUME NEW c \in Calls, LikeDeadlock(c) PROVE TypeOK'
  BY <1>11 DEF LikeDeadlock
<1>12. ASSUME NEW c \in Calls, Fail(c) PROVE TypeOK'
  BY <1>12 DEF Fail
<1>13. ASSUME Crash PROVE TypeOK'
  BY <1>13 DEF Crash
<1>14. ASSUME UNCHANGED vars PROVE TypeOK'
  BY <1>14 DEF vars
<1>15. QED
  BY <1>1, <1>2, <1>3, <1>4, <1>5, <1>6, <1>7, <1>8, <1>9, <1>10, <1>11,
     <1>12, <1>13, <1>14 DEF Next, Serve

\* The kind of a call is fixed when it arrives, and no phase is entered from
\* another handler.
LEMMA KindsStep == Typed /\ [Next]_vars => KindsMatch'
<1> SUFFICES ASSUME Typed, [Next]_vars PROVE KindsMatch'
  OBVIOUS
<1> USE DEF TypeOK, Typed, KindsMatch, Jobs
<1>1. ASSUME NEW c \in Calls, Create(c) PROVE KindsMatch'
  BY <1>1 DEF Create
<1>2. ASSUME NEW c \in Calls, SelectPost(c) PROVE KindsMatch'
  <2>1. PICK kind \in {"view", "edit", "delete"}, may \in BOOLEAN, newTitle \in BOOLEAN :
            job' = [job EXCEPT ![c] =
                      IF post = "live"
                      THEN [NoJob EXCEPT !.kind = kind, !.may = may,
                               !.newTitle = newTitle, !.hits = hits, !.title = title]
                      ELSE [NoJob EXCEPT !.kind = kind]]
    BY <1>2, Zenon DEF SelectPost
  <2>2. post = "live" => job'[c].kind = kind
    BY <2>1 DEF NoJob
  <2>3. QED
    BY <1>2, <2>1, <2>2 DEF SelectPost
<1>3. ASSUME NEW c \in Calls, CountView(c) PROVE KindsMatch'
  <2>1. /\ job'[c].kind = job[c].kind
        /\ \A d \in Calls \ {c} : job'[d] = job[d] /\ pc'[d] = pc[d]
        /\ pc'[c] \in {"done", job[c].kind}
        /\ \A d \in Calls \ {c} : answer'[d] = answer[d]
        /\ pc'[c] # "done" => answer'[c] = answer[c]
    <3>1. CASE job[c].kind = "view"
      BY <1>3, <3>1 DEF CountView
    <3>2. CASE job[c].kind # "view" /\ ~job[c].may
      BY <1>3, <3>2 DEF CountView
    <3>3. CASE job[c].kind # "view" /\ job[c].may
      BY <1>3, <3>3 DEF CountView
    <3>4. QED
      BY <3>1, <3>2, <3>3
  <2>2. job[c].kind \in {"view", "edit", "delete"}
    BY <1>3 DEF CountView
  <2>3. pc[c] = "read"
    BY <1>3 DEF CountView
  <2>4. QED
    BY <2>1, <2>2, <2>3
<1>4. ASSUME NEW c \in Calls, UpdatePost(c) PROVE KindsMatch'
  BY <1>4 DEF UpdatePost
<1>5. ASSUME NEW c \in Calls, SoftDelete(c) PROVE KindsMatch'
  BY <1>5 DEF SoftDelete
<1>6. ASSUME NEW c \in Calls, LikeFindPost(c) PROVE KindsMatch'
  <2>1. PICK user \in Users :
            job' = [job EXCEPT ![c] = [NoJob EXCEPT !.kind = "like", !.user = user]]
    BY <1>6, Zenon DEF LikeFindPost
  <2>2. job'[c].kind = "like"
    BY <2>1 DEF NoJob
  <2>3. QED
    BY <1>6, <2>1, <2>2 DEF LikeFindPost
<1>7. ASSUME NEW c \in Calls, LikeFindRow(c) PROVE KindsMatch'
  BY <1>7 DEF LikeFindRow
<1>8. ASSUME NEW c \in Calls, LikeInsert(c) PROVE KindsMatch'
  BY <1>8 DEF LikeInsert
<1>9. ASSUME NEW c \in Calls, LikeToggle(c) PROVE KindsMatch'
  BY <1>9 DEF LikeToggle
<1>10. ASSUME NEW c \in Calls, LikeCount(c) PROVE KindsMatch'
  BY <1>10 DEF LikeCount
<1>11. ASSUME NEW c \in Calls, LikeDeadlock(c) PROVE KindsMatch'
  BY <1>11 DEF LikeDeadlock
<1>12. ASSUME NEW c \in Calls, Fail(c) PROVE KindsMatch'
  BY <1>12 DEF Fail
<1>13. ASSUME Crash PROVE KindsMatch'
  BY <1>13 DEF Crash
<1>14. ASSUME UNCHANGED vars PROVE KindsMatch'
  BY <1>14 DEF vars
<1>15. QED
  BY <1>1, <1>2, <1>3, <1>4, <1>5, <1>6, <1>7, <1>8, <1>9, <1>10, <1>11,
     <1>12, <1>13, <1>14 DEF Next, Serve

LEMMA TypedStep == Typed /\ [Next]_vars => Typed'
  BY TypeStep, KindsStep DEF Typed

\* Every reachable state of a post and its calls is well typed; in particular
\* the unsigned counter likes never wraps below zero.
THEOREM TypeCorrect == Spec => []TypeOK
<1>1. Typed => TypeOK
  BY DEF Typed
<1>2. QED
  BY <1>1, TypeInit, TypedStep, PTL DEF Spec

-----------------------------------------------------------------------------
(* The order of calls.                                                     *)

\* What no step changes: the order in which calls were made, and what is
\* finished.
Frame(c) ==
    /\ pc[c] # "idle" =>
          /\ pc'[c] # "idle" /\ before'[c] = before[c]
          /\ job'[c].kind = job[c].kind /\ job'[c].user = job[c].user
          /\ job'[c].newTitle = job[c].newTitle
    /\ pc[c] = "done" =>
          pc'[c] = "done" /\ job'[c] = job[c] /\ answer'[c] = answer[c]
    /\ \/ before'[c] = before[c]
       \/ pc[c] = "idle" /\ before'[c] = {d \in Calls : pc[d] = "done"}

LEMMA FrameStep ==
    ASSUME Typed, [Next]_vars, NEW c \in Calls
    PROVE  Frame(c)
<1> USE DEF TypeOK, Typed, Jobs, Frame
<1>1. ASSUME NEW d \in Calls, Create(d) PROVE Frame(c)
  BY <1>1 DEF Create
<1>2. ASSUME NEW d \in Calls, SelectPost(d) PROVE Frame(c)
  BY <1>2 DEF SelectPost
<1>3. ASSUME NEW d \in Calls, CountView(d) PROVE Frame(c)
  <2>1. /\ job'[d].kind = job[d].kind /\ job'[d].user = job[d].user
        /\ job'[d].newTitle = job[d].newTitle
        /\ before' = before
        /\ \A e \in Calls \ {d} : job'[e] = job[e]
    BY <1>3 DEF CountView
  <2>2. /\ \A e \in Calls \ {d} : pc'[e] = pc[e] /\ answer'[e] = answer[e]
        /\ pc[d] = "read" /\ pc'[d] \in {"done", job[d].kind}
    <3>1. CASE job[d].kind = "view"
      BY <1>3, <3>1 DEF CountView
    <3>2. CASE job[d].kind # "view" /\ ~job[d].may
      BY <1>3, <3>2 DEF CountView
    <3>3. CASE job[d].kind # "view" /\ job[d].may
      BY <1>3, <3>3 DEF CountView
    <3>4. QED
      BY <3>1, <3>2, <3>3
  <2>3. job[d].kind # "idle"
    BY <2>2 DEF KindsMatch
  <2>4. QED
    BY <2>1, <2>2, <2>3
<1>4. ASSUME NEW d \in Calls, UpdatePost(d) PROVE Frame(c)
  BY <1>4 DEF UpdatePost
<1>5. ASSUME NEW d \in Calls, SoftDelete(d) PROVE Frame(c)
  BY <1>5 DEF SoftDelete
<1>6. ASSUME NEW d \in Calls, LikeFindPost(d) PROVE Frame(c)
  BY <1>6 DEF LikeFindPost
<1>7. ASSUME NEW d \in Calls, LikeFindRow(d) PROVE Frame(c)
  BY <1>7 DEF LikeFindRow
<1>8. ASSUME NEW d \in Calls, LikeInsert(d) PROVE Frame(c)
  BY <1>8 DEF LikeInsert
<1>9. ASSUME NEW d \in Calls, LikeToggle(d) PROVE Frame(c)
  BY <1>9 DEF LikeToggle
<1>10. ASSUME NEW d \in Calls, LikeCount(d) PROVE Frame(c)
  BY <1>10 DEF LikeCount
<1>11. ASSUME NEW d \in Calls, LikeDeadlock(d) PROVE Frame(c)
  BY <1>11 DEF LikeDeadlock
<1>12. ASSUME NEW d \in Calls, Fail(d) PROVE Frame(c)
  BY <1>12 DEF Fail
<1>13. ASSUME Crash PROVE Frame(c)
  BY <1>13 DEF Crash
<1>14. ASSUME UNCHANGED vars PROVE Frame(c)
  BY <1>14 DEF vars
<1>15. QED
  BY <1>1, <1>2, <1>3, <1>4, <1>5, <1>6, <1>7, <1>8, <1>9, <1>10, <1>11,
     <1>12, <1>13, <1>14 DEF Next, Serve

\* Only calls that are over come before another.
Ordered == \A c, d \in Calls : c \in before[d] => pc[c] = "done"

Base == Typed /\ Ordered

LEMMA BaseInit == Init => Base
<1>1. Init => Ordered
  BY DEF Init, Ordered
<1>2. QED
  BY <1>1, TypeInit DEF Base

LEMMA BaseStep == Base /\ [Next]_vars => Base'
<1> SUFFICES ASSUME Base, [Next]_vars PROVE Ordered'
  BY TypedStep DEF Base
<1>1. \A c \in Calls : Frame(c)
  BY FrameStep DEF Base
<1>2. QED
  BY <1>1 DEF Base, Ordered, Frame

\* Two calls that overlapped did so for good.
LEMMA OverlapStays ==
    ASSUME Base, [Next]_vars, NEW c \in Calls, NEW d \in Calls, Overlap(c, d)
    PROVE  Overlap(c, d)'
<1>1. Frame(c) /\ Frame(d)
  BY FrameStep DEF Base
<1>2. QED
  BY <1>1 DEF Overlap, Made, Frame

\* Two calls in flight overlap.
LEMMA InFlightOverlap ==
    ASSUME Base, NEW c \in Calls, NEW d \in Calls, c # d,
           pc[c] \notin {"idle", "done"}, pc[d] \notin {"idle", "done"}
    PROVE  Overlap(c, d)
  BY DEF Base, Ordered, Overlap, Made

-----------------------------------------------------------------------------
(* Titles.                                                                 *)

Edited(c) == answer[c] = "edited" /\ job[c].newTitle

Excused(c) ==
    \E d \in Calls : job[d].kind = "edit" /\ ~job[d].newTitle /\ Overlap(c, d)

\* The title that a call is going to write back.
Holds(d) == pc[d] \in {"read", "edit"} /\ job[d].kind = "edit" /\ ~job[d].newTitle

\* What every step but an edit, or the SELECT before one, leaves as it is.
TitleQuiet ==
    /\ title' = title
    /\ \A c \in Calls : Edited(c)' => Edited(c)
    /\ \A d \in Calls : Holds(d)' => Holds(d) /\ job'[d].title = job[d].title

LEMMA TitleOtherwise ==
    ASSUME Typed, [Next]_vars,
           ~ \E c \in Calls : SelectPost(c) \/ UpdatePost(c)
    PROVE  TitleQuiet
<1> USE DEF TypeOK, Typed, Jobs, TitleQuiet, Edited, Holds
<1>1. ASSUME NEW d \in Calls, Create(d) PROVE TitleQuiet
  BY <1>1 DEF Create
<1>3. ASSUME NEW d \in Calls, CountView(d) PROVE TitleQuiet
  <2>1. /\ job'[d].kind = job[d].kind /\ job'[d].title = job[d].title
        /\ job'[d].newTitle = job[d].newTitle
        /\ title' = title
        /\ \A e \in Calls \ {d} : job'[e] = job[e]
    BY <1>3 DEF CountView
  <2>2. /\ \A e \in Calls \ {d} : pc'[e] = pc[e] /\ answer'[e] = answer[e]
        /\ pc[d] = "read" /\ (answer'[d] = "edited" => answer[d] = "edited")
    <3>1. CASE job[d].kind = "view"
      BY <1>3, <3>1 DEF CountView
    <3>2. CASE job[d].kind # "view" /\ ~job[d].may
      BY <1>3, <3>2 DEF CountView
    <3>3. CASE job[d].kind # "view" /\ job[d].may
      BY <1>3, <3>3 DEF CountView
    <3>4. QED
      BY <3>1, <3>2, <3>3
  <2>3. QED
    BY <2>1, <2>2
<1>5. ASSUME NEW d \in Calls, SoftDelete(d) PROVE TitleQuiet
  BY <1>5 DEF SoftDelete
<1>6. ASSUME NEW d \in Calls, LikeFindPost(d) PROVE TitleQuiet
  <2>1. PICK user \in Users :
            job' = [job EXCEPT ![d] = [NoJob EXCEPT !.kind = "like", !.user = user]]
    BY <1>6, Zenon DEF LikeFindPost
  <2>2. job'[d].kind = "like" /\ answer'[d] # "edited"
    BY <1>6, <2>1 DEF NoJob, LikeFindPost, KindsMatch
  <2>3. /\ title' = title
        /\ \A e \in Calls \ {d} : /\ job'[e] = job[e] /\ pc'[e] = pc[e]
                                  /\ answer'[e] = answer[e]
    BY <1>6, <2>1 DEF LikeFindPost
  <2>4. QED
    BY <2>2, <2>3
<1>7. ASSUME NEW d \in Calls, LikeFindRow(d) PROVE TitleQuiet
  BY <1>7 DEF LikeFindRow
<1>8. ASSUME NEW d \in Calls, LikeInsert(d) PROVE TitleQuiet
  BY <1>8 DEF LikeInsert
<1>9. ASSUME NEW d \in Calls, LikeToggle(d) PROVE TitleQuiet
  BY <1>9 DEF LikeToggle
<1>10. ASSUME NEW d \in Calls, LikeCount(d) PROVE TitleQuiet
  BY <1>10 DEF LikeCount
<1>11. ASSUME NEW d \in Calls, LikeDeadlock(d) PROVE TitleQuiet
  BY <1>11 DEF LikeDeadlock
<1>12. ASSUME NEW d \in Calls, Fail(d) PROVE TitleQuiet
  BY <1>12 DEF Fail
<1>13. ASSUME Crash PROVE TitleQuiet
  BY <1>13 DEF Crash
<1>14. ASSUME UNCHANGED vars PROVE TitleQuiet
  BY <1>14 DEF vars
<1>15. QED
  BY <1>1, <1>3, <1>5, <1>6, <1>7, <1>8, <1>9, <1>10, <1>11,
     <1>12, <1>13, <1>14 DEF Next, Serve

\* The titles that edits in flight may still write back are excused already.
TitleInvariant ==
    /\ TitleNotUndone
    /\ \A c, d \in Calls :
          Edited(c) /\ Holds(d) /\ job[d].title \in before[c] \cup {0} => Excused(c)

LEMMA TitleInit == Init => TitleInvariant
<1> SUFFICES ASSUME Init PROVE TitleInvariant
  OBVIOUS
<1>1. \A c \in Calls : answer[c] # "edited"
  BY DEF Init
<1>2. \A c \in Calls : ~Edited(c)
  BY <1>1 DEF Edited
<1>3. TitleNotUndone
  BY <1>1 DEF TitleNotUndone
<1>4. QED
  BY <1>2, <1>3 DEF TitleInvariant

LEMMA TitleStep == Base /\ TitleInvariant /\ [Next]_vars => TitleInvariant'
<1> SUFFICES ASSUME Base, TitleInvariant, [Next]_vars PROVE TitleInvariant'
  OBVIOUS
<1>0. /\ \A c \in Calls : Frame(c)
      /\ \A c \in Calls : Excused(c) => Excused(c)'
  BY FrameStep, OverlapStays DEF Base, Excused, Frame, Overlap, Made
<1>1. \A c \in Calls : Edited(c) /\ title \in before[c] \cup {0} => Excused(c)
  BY DEF TitleInvariant, TitleNotUndone, Edited, Excused
<1> SUFFICES ASSUME NEW c \in Calls, Edited(c)'
             PROVE  /\ title' \in before'[c] \cup {0} => Excused(c)'
                    /\ \A d \in Calls :
                          Holds(d)' /\ job'[d].title \in before'[c] \cup {0} => Excused(c)'
  BY Zenon DEF TitleInvariant, TitleNotUndone, Edited, Excused
<1> USE DEF TypeOK, Typed, Base
<1>3. Edited(c) => pc[c] = "done" /\ pc'[c] = "done" /\ before'[c] = before[c]
  BY <1>0 DEF KindsMatch, Edited, Frame
<1>4. CASE \E e \in Calls : SelectPost(e)
  <2>1. PICK e \in Calls : SelectPost(e)
    BY <1>4
  <2>2. /\ title' = title /\ pc[e] = "idle"
        /\ answer'[e] = "edited" => answer[e] = "edited"
        /\ \A d \in Calls \ {e} : /\ job'[d] = job[d] /\ pc'[d] = pc[d]
                                  /\ answer'[d] = answer[d]
    BY <2>1 DEF SelectPost
  <2>3. Holds(e)' => job'[e].title = title
    BY <2>1 DEF SelectPost, Holds, Jobs, NoJob
  <2>4. Edited(c)
    <3>1. c # e
      BY <2>2 DEF Edited, KindsMatch
    <3>2. QED
      BY <2>2, <3>1 DEF Edited
  <2>5. title \in before[c] \cup {0} => Excused(c)'
    BY <1>0, <1>1, <2>4
  <2>6. ASSUME NEW d \in Calls, Holds(d)', job'[d].title \in before[c] \cup {0}
        PROVE  Excused(c)'
    <3>1. CASE d = e
      BY <2>3, <2>5, <2>6, <3>1
    <3>2. CASE d # e
      <4>1. Holds(d) /\ job'[d].title = job[d].title
        BY <2>2, <2>6, <3>2 DEF Holds
      <4>2. QED
        BY <1>0, <2>4, <2>6, <4>1 DEF TitleInvariant
    <3>3. QED
      BY <3>1, <3>2
  <2>7. QED
    BY <1>3, <2>2, <2>4, <2>5, <2>6
<1>5. CASE \E e \in Calls : UpdatePost(e)
  <2>1. PICK e \in Calls : UpdatePost(e)
    BY <1>5
  <2>2. /\ pc[e] = "edit" /\ job[e].kind = "edit" /\ pc'[e] = "done"
        /\ title' = IF job[e].newTitle THEN e ELSE job[e].title
        /\ job' = job /\ before' = before
        /\ \A d \in Calls \ {e} : pc'[d] = pc[d] /\ answer'[d] = answer[d]
    BY <2>1 DEF UpdatePost, KindsMatch
  <2>3. CASE c = e
    \* The title is now that of c; whoever holds another is in flight with c.
    <3>1. job[c].newTitle /\ title' = c /\ c \notin before[c] /\ c # 0
      BY <2>2, <2>3, CallsPositive DEF Edited, Ordered
    <3>2. \A d \in Calls : Holds(d)' => Excused(c)
      BY <2>2, <2>3, <3>1, InFlightOverlap DEF Holds, Excused
    <3>3. QED
      BY <1>0, <2>2, <2>3, <3>1, <3>2
  <2>4. CASE c # e
    <3>1. Edited(c) /\ (\A d \in Calls : Holds(d)' => Holds(d))
      BY <2>2, <2>4 DEF Edited, Holds
    <3>2. title' \in before[c] \cup {0} => Excused(c)
      <4>1. CASE job[e].newTitle
        BY <2>2, <4>1, CallsPositive DEF Ordered
      <4>2. CASE ~job[e].newTitle
        BY <2>2, <3>1, <4>2 DEF TitleInvariant, Holds
      <4>3. QED
        BY <4>1, <4>2
    <3>3. QED
      BY <1>0, <1>3, <2>2, <3>1, <3>2 DEF TitleInvariant
  <2>5. QED
    BY <2>3, <2>4
<1>6. CASE ~ \E e \in Calls : SelectPost(e) \/ UpdatePost(e)
  <2>1. TitleQuiet
    BY <1>6, TitleOtherwise
  <2>2. QED
    BY <1>0, <1>1, <1>3, <2>1 DEF TitleQuiet, TitleInvariant
<1>7. QED
  BY <1>4, <1>5, <1>6

\* A title that was replaced comes back only through an edit without a title
\* that overlapped the edit which replaced it, for any number of edits.
THEOREM TitleCorrect == Spec => []TitleNotUndone
<1>1. TitleInvariant => TitleNotUndone
  BY DEF TitleInvariant
<1>2. QED
  BY <1>1, BaseInit, BaseStep, TitleInit, TitleStep, PTL DEF Spec

-----------------------------------------------------------------------------
(* Views.                                                                  *)

Apart == \A c, d \in Views : ~Overlap(c, d)

\* A view that has read hits has not counted yet; what it read is not more than
\* the views so far, and exact if it came after all of them.
HitsInvariant ==
    /\ HitsCountViews
    /\ \A c \in Calls : pc[c] = "read" =>
          /\ ~job[c].counted
          /\ job[c].hits <= Cardinality(Views)
          /\ Apart /\ Views \subseteq before[c] => job[c].hits = hits

LEMMA ViewsFinite == IsFiniteSet(Views) /\ Cardinality(Views) \in Nat
<1>1. Views \subseteq Calls
  BY DEF Views
<1>2. IsFiniteSet(Views)
  BY <1>1, CallsPositive, FS_Subset
<1>3. QED
  BY <1>2, FS_CardinalityType

LEMMA HitsInit == Init => HitsInvariant
<1> SUFFICES ASSUME Init PROVE HitsInvariant
  OBVIOUS
<1>1. Views = {}
  BY DEF Init, Views, NoJob
<1>2. Cardinality(Views) = 0
  BY <1>1, FS_EmptySet
<1>3. HitsCountViews
  BY <1>1, <1>2 DEF HitsCountViews, Init
<1>4. QED
  BY <1>3 DEF HitsInvariant, Init

\* What every step but a view's UPDATE leaves as it is.
HitsQuiet ==
    /\ hits' = hits
    /\ Views' = Views
    /\ \A c \in Calls : pc'[c] = "read" =>
          \/ pc[c] = "read" /\ job'[c] = job[c]
          \/ ~job'[c].counted /\ job'[c].hits = hits

LEMMA HitsOtherwise ==
    ASSUME Typed, [Next]_vars, ~ \E c \in Calls : CountView(c)
    PROVE  HitsQuiet
<1> USE DEF TypeOK, Typed, Jobs, HitsQuiet, Views
<1>1. ASSUME NEW d \in Calls, Create(d) PROVE HitsQuiet
  <2>1. ~job[d].counted /\ ~job'[d].counted
    BY <1>1 DEF Create, KindsMatch, NoJob
  <2>2. QED
    BY <1>1, <2>1 DEF Create
<1>2. ASSUME NEW d \in Calls, SelectPost(d) PROVE HitsQuiet
  <2>1. PICK kind \in {"view", "edit", "delete"}, may \in BOOLEAN, newTitle \in BOOLEAN :
            job' = [job EXCEPT ![d] =
                      IF post = "live"
                      THEN [NoJob EXCEPT !.kind = kind, !.may = may,
                               !.newTitle = newTitle, !.hits = hits, !.title = title]
                      ELSE [NoJob EXCEPT !.kind = kind]]
    BY <1>2, Zenon DEF SelectPost
  <2>2. ~job[d].counted /\ ~job'[d].counted
    BY <1>2, <2>1 DEF SelectPost, KindsMatch, NoJob
  <2>3. pc'[d] = "read" => job'[d].hits = hits
    BY <1>2, <2>1 DEF SelectPost, NoJob
  <2>4. /\ hits' = hits
        /\ \A e \in Calls \ {d} : job'[e] = job[e] /\ pc'[e] = pc[e]
    BY <1>2, <2>1 DEF SelectPost
  <2>5. QED
    BY <2>2, <2>3, <2>4
<1>4. ASSUME NEW d \in Calls, UpdatePost(d) PROVE HitsQuiet
  BY <1>4 DEF UpdatePost
<1>5. ASSUME NEW d \in Calls, SoftDelete(d) PROVE HitsQuiet
  BY <1>5 DEF SoftDelete
<1>6. ASSUME NEW d \in Calls, LikeFindPost(d) PROVE HitsQuiet
  <2>1. PICK user \in Users :
            job' = [job EXCEPT ![d] = [NoJob EXCEPT !.kind = "like", !.user = user]]
    BY <1>6, Zenon DEF LikeFindPost
  <2>2. ~job[d].counted /\ ~job'[d].counted
    BY <1>6, <2>1 DEF LikeFindPost, KindsMatch, NoJob
  <2>3. /\ hits' = hits /\ pc'[d] # "read"
        /\ \A e \in Calls \ {d} : job'[e] = job[e] /\ pc'[e] = pc[e]
    BY <1>6, <2>1 DEF LikeFindPost
  <2>4. QED
    BY <2>2, <2>3
<1>7. ASSUME NEW d \in Calls, LikeFindRow(d) PROVE HitsQuiet
  BY <1>7 DEF LikeFindRow
<1>8. ASSUME NEW d \in Calls, LikeInsert(d) PROVE HitsQuiet
  BY <1>8 DEF LikeInsert
<1>9. ASSUME NEW d \in Calls, LikeToggle(d) PROVE HitsQuiet
  BY <1>9 DEF LikeToggle
<1>10. ASSUME NEW d \in Calls, LikeCount(d) PROVE HitsQuiet
  <2>1. job[d].kind = "like" /\ job'[d].kind = "like"
    BY <1>10 DEF LikeCount, KindsMatch
  <2>2. /\ hits' = hits /\ pc'[d] # "read"
        /\ \A e \in Calls \ {d} : job'[e] = job[e] /\ pc'[e] = pc[e]
    BY <1>10 DEF LikeCount
  <2>3. QED
    BY <2>1, <2>2
<1>11. ASSUME NEW d \in Calls, LikeDeadlock(d) PROVE HitsQuiet
  BY <1>11 DEF LikeDeadlock
<1>12. ASSUME NEW d \in Calls, Fail(d) PROVE HitsQuiet
  BY <1>12 DEF Fail
<1>13. ASSUME Crash PROVE HitsQuiet
  BY <1>13 DEF Crash
<1>14. ASSUME UNCHANGED vars PROVE HitsQuiet
  BY <1>14 DEF vars
<1>15. QED
  BY <1>1, <1>2, <1>4, <1>5, <1>6, <1>7, <1>8, <1>9, <1>10, <1>11,
     <1>12, <1>13, <1>14 DEF Next, Serve

LEMMA HitsStep == Base /\ HitsInvariant /\ [Next]_vars => HitsInvariant'
<1> SUFFICES ASSUME Base, HitsInvariant, [Next]_vars PROVE HitsInvariant'
  OBVIOUS
<1> USE DEF TypeOK, Typed, Base
<1>1. CASE \E e \in Calls : CountView(e)
  <2>1. PICK e \in Calls : CountView(e)
    BY <1>1
  <2>2. /\ pc[e] = "read" /\ pc'[e] # "read" /\ job[e].kind \in {"view", "edit", "delete"}
        /\ ~job[e].counted /\ e \notin Views /\ job[e].hits \in Nat
    <3>1. pc[e] = "read" /\ job[e].kind \in {"view", "edit", "delete"}
      BY <2>1 DEF CountView, KindsMatch
    <3>2. pc'[e] \in {"done", job[e].kind}
      <4>1. CASE job[e].kind = "view"
        BY <2>1, <4>1 DEF CountView
      <4>2. CASE job[e].kind # "view" /\ ~job[e].may
        BY <2>1, <4>2 DEF CountView
      <4>3. CASE job[e].kind # "view" /\ job[e].may
        BY <2>1, <4>3 DEF CountView
      <4>4. QED
        BY <4>1, <4>2, <4>3
    <3>3. QED
      BY <3>1, <3>2 DEF HitsInvariant, Views, Jobs
  <2>3. /\ hits' = job[e].hits + 1 /\ before' = before
        /\ job'[e].counted /\ job'[e].kind = job[e].kind
        /\ \A d \in Calls \ {e} : job'[d] = job[d]
    BY <2>1 DEF CountView, Jobs
  <2>4. \A d \in Calls \ {e} : pc'[d] = pc[d]
    <3>1. CASE job[e].kind = "view"
      BY <2>1, <3>1 DEF CountView
    <3>2. CASE job[e].kind # "view" /\ ~job[e].may
      BY <2>1, <3>2 DEF CountView
    <3>3. CASE job[e].kind # "view" /\ job[e].may
      BY <2>1, <3>3 DEF CountView
    <3>4. QED
      BY <3>1, <3>2, <3>3
  <2>5. Views' = Views \cup {e}
    BY <2>2, <2>3 DEF Views
  <2>6. Cardinality(Views') = Cardinality(Views) + 1
    BY <2>2, <2>5, ViewsFinite, FS_AddElement
  <2>7. Apart' => Apart /\ Views \subseteq before[e]
    <3>1. ASSUME Apart' PROVE Apart
      BY <3>1, <2>5, OverlapStays DEF Apart, Views
    <3>2. ASSUME Apart', NEW d \in Views PROVE d \in before[e]
      <4>1. d \in Calls /\ d # e /\ ~Overlap(d, e)'
        BY <2>2, <2>5, <3>2 DEF Apart, Views
      <4>2. ~Overlap(d, e)
        BY <4>1, OverlapStays
      <4>3. Made(d) /\ Made(e)
        BY <2>2, <4>1, <3>2 DEF Made, Views, KindsMatch, NoJob
      <4>4. e \notin before[d]
        BY <2>2, <4>1 DEF Ordered
      <4>5. QED
        BY <4>1, <4>2, <4>3, <4>4 DEF Overlap
    <3>3. QED
      BY <3>1, <3>2
  <2>8. HitsCountViews'
    <3>1. hits' <= Cardinality(Views') /\ hits' > 0
      BY <2>2, <2>3, <2>6, ViewsFinite DEF HitsInvariant
    <3>2. Apart' => hits' = Cardinality(Views')
      BY <2>2, <2>3, <2>6, <2>7 DEF HitsInvariant, HitsCountViews, Apart
    <3>3. QED
      BY <3>1, <3>2 DEF HitsCountViews, Apart
  <2>9. ASSUME NEW c \in Calls, pc'[c] = "read"
        PROVE  /\ ~job'[c].counted
               /\ job'[c].hits <= Cardinality(Views')
               /\ e \notin before'[c]
    <3>1. c # e /\ pc[c] = "read" /\ job'[c] = job[c] /\ job[c].hits \in Nat
      BY <2>2, <2>3, <2>4, <2>9 DEF Jobs
    <3>2. QED
      BY <3>1, <2>2, <2>3, <2>6, ViewsFinite DEF HitsInvariant, Ordered
  <2>10. QED
    BY <2>5, <2>8, <2>9 DEF HitsInvariant
<1>2. CASE ~ \E e \in Calls : CountView(e)
  <2>1. HitsQuiet
    BY <1>2, HitsOtherwise
  <2>2. Apart' => Apart
    BY <2>1, OverlapStays DEF Apart, HitsQuiet, Views
  <2>3. Apart => hits = Cardinality(Views)
    BY DEF HitsInvariant, HitsCountViews, Apart
  <2>4. HitsCountViews'
    BY <2>1, <2>2, <2>3 DEF HitsInvariant, HitsCountViews, HitsQuiet, Apart
  <2>5. ASSUME NEW c \in Calls, pc'[c] = "read"
        PROVE  /\ ~job'[c].counted
               /\ job'[c].hits <= Cardinality(Views')
               /\ Apart' /\ Views' \subseteq before'[c] => job'[c].hits = hits'
    <3>1. CASE pc[c] = "read" /\ job'[c] = job[c]
      <4>1. before'[c] = before[c]
        BY <3>1, FrameStep DEF Frame
      <4>2. QED
        BY <2>1, <2>2, <3>1, <4>1 DEF HitsInvariant, HitsQuiet
    <3>2. CASE ~job'[c].counted /\ job'[c].hits = hits
      BY <2>1, <3>2 DEF HitsInvariant, HitsCountViews, HitsQuiet
    <3>3. QED
      BY <2>1, <2>5, <3>1, <3>2 DEF HitsQuiet
  <2>6. QED
    BY <2>4, <2>5 DEF HitsInvariant
<1>3. QED
  BY <1>1, <1>2

\* hits never passes the number of views, does not go back to zero, and is
\* exact as long as no two views overlap, for any number of calls.
THEOREM HitsCorrect == Spec => []HitsCountViews
<1>1. HitsInvariant => HitsCountViews
  BY DEF HitsInvariant
<1>2. QED
  BY <1>1, BaseInit, BaseStep, HitsInit, HitsStep, PTL DEF Spec

-----------------------------------------------------------------------------
(* Likes.                                                                  *)

Ups(U) == {c \in Toggles(U) : Up(c)}
Downs(U) == Toggles(U) \ Ups(U)
Likers == {u \in Users \ Racing : likeRow[u] = "on"}

\* LikesCountLikers, as a property of the sets it counts.
LikesAddUp ==
    likes = Cardinality(Likers) + Cardinality(Ups(Racing)) - Cardinality(Downs(Racing))

\* What a user who never raced added and took off is what the row says.
RowsAddUp ==
    \A u \in Users \ Racing :
        Cardinality(Ups({u})) - Cardinality(Downs({u})) =
            IF likeRow[u] = "on" THEN 1 ELSE 0

\* A toggle in flight has not counted; if its user does not race, the row is
\* still what it read.
RowsAreFresh ==
    \A c \in Calls :
        /\ pc[c] \in {"found", "toggling", "inserted", "toggled"} => ~job[c].counted
        /\ /\ pc[c] \in {"toggling", "inserted", "toggled"}
           /\ job[c].user \notin Racing
           => job[c].row = likeRow[job[c].user]

LikesInvariant == LikesAddUp /\ RowsAddUp /\ RowsAreFresh

LEMMA LikesEquation == LikesCountLikers <=> LikesAddUp
  BY DEF LikesCountLikers, LikesAddUp, Ups, Downs, Likers

LEMMA TogglesFinite ==
    ASSUME NEW U
    PROVE  /\ IsFiniteSet(Ups(U)) /\ Cardinality(Ups(U)) \in Nat
           /\ IsFiniteSet(Downs(U)) /\ Cardinality(Downs(U)) \in Nat
<1>1. Ups(U) \subseteq Calls /\ Downs(U) \subseteq Calls
  BY DEF Ups, Downs, Toggles
<1>2. IsFiniteSet(Ups(U)) /\ IsFiniteSet(Downs(U))
  BY <1>1, CallsPositive, FS_Subset
<1>3. QED
  BY <1>2, FS_CardinalityType

LEMMA LikersFinite == IsFiniteSet(Likers) /\ Cardinality(Likers) \in Nat
<1>1. Likers \subseteq Users
  BY DEF Likers
<1>2. IsFiniteSet(Likers)
  BY <1>1, SomeUsers, FS_Subset
<1>3. QED
  BY <1>2, FS_CardinalityType

LEMMA LikesInit == Init => LikesInvariant
<1> SUFFICES ASSUME Init PROVE LikesInvariant
  OBVIOUS
<1>1. /\ \A U : Ups(U) = {} /\ Downs(U) = {}
      /\ Likers = {}
  BY DEF Init, Ups, Downs, Toggles, Likers, NoJob
<1>2. Cardinality({}) = 0
  BY FS_EmptySet
<1>3. LikesAddUp
  BY <1>1, <1>2 DEF LikesAddUp, Init
<1>4. RowsAddUp
  BY <1>1, <1>2 DEF RowsAddUp, Init
<1>5. RowsAreFresh
  BY DEF RowsAreFresh, Init
<1>6. QED
  BY <1>3, <1>4, <1>5 DEF LikesInvariant

\* A step that is nothing to a like, or reads its row.
LikeGoesOn(c) ==
    \/ /\ job'[c] = job[c]
       /\ \/ pc'[c] = pc[c]
          \/ pc'[c] \notin {"found", "toggling", "inserted", "toggled"}
          \/ /\ pc[c] \in {"toggling", "inserted", "toggled"}
             /\ pc'[c] \in {"toggling", "inserted", "toggled"}
    \/ /\ job[c].kind # "like" /\ job'[c].kind # "like"
       /\ pc'[c] \notin {"found", "toggling", "inserted", "toggled"}
    \/ /\ pc[c] = "found" /\ pc'[c] = "toggling"
       /\ job'[c].kind = job[c].kind /\ job'[c].user = job[c].user
       /\ job'[c].counted = job[c].counted
       /\ job'[c].row = likeRow[job[c].user]

\* What every step but the first SELECT and the COMMIT of a like leaves as it is.
LikesQuiet ==
    /\ likes' = likes /\ likeRow' = likeRow
    /\ \A c \in Calls : LikeGoesOn(c)

LEMMA LikesOtherwise ==
    ASSUME Typed, [Next]_vars,
           ~ \E c \in Calls : LikeFindPost(c) \/ LikeCount(c)
    PROVE  LikesQuiet
<1> USE DEF TypeOK, Typed, Jobs, LikesQuiet, LikeGoesOn
<1>1. ASSUME NEW d \in Calls, Create(d) PROVE LikesQuiet
  <2>1. job[d].kind # "like" /\ job'[d].kind # "like"
    BY <1>1 DEF Create, KindsMatch, NoJob
  <2>2. QED
    BY <1>1, <2>1 DEF Create
<1>2. ASSUME NEW d \in Calls, SelectPost(d) PROVE LikesQuiet
  <2>1. PICK kind \in {"view", "edit", "delete"}, may \in BOOLEAN, newTitle \in BOOLEAN :
            job' = [job EXCEPT ![d] =
                      IF post = "live"
                      THEN [NoJob EXCEPT !.kind = kind, !.may = may,
                               !.newTitle = newTitle, !.hits = hits, !.title = title]
                      ELSE [NoJob EXCEPT !.kind = kind]]
    BY <1>2, Zenon DEF SelectPost
  <2>2. job[d].kind # "like" /\ job'[d].kind # "like"
    BY <1>2, <2>1 DEF SelectPost, KindsMatch, NoJob
  <2>3. /\ likes' = likes /\ likeRow' = likeRow
        /\ pc'[d] \in {"read", "done"}
        /\ \A e \in Calls \ {d} : job'[e] = job[e] /\ pc'[e] = pc[e]
    BY <1>2, <2>1 DEF SelectPost
  <2>4. QED
    BY <2>2, <2>3
<1>3. ASSUME NEW d \in Calls, CountView(d) PROVE LikesQuiet
  <2>1. /\ job'[d].kind = job[d].kind /\ job[d].kind \in {"view", "edit", "delete"}
        /\ likes' = likes /\ likeRow' = likeRow
        /\ \A e \in Calls \ {d} : job'[e] = job[e]
    BY <1>3 DEF CountView, KindsMatch
  <2>2. /\ \A e \in Calls \ {d} : pc'[e] = pc[e]
        /\ pc'[d] \in {"done", job[d].kind}
    <3>1. CASE job[d].kind = "view"
      BY <1>3, <3>1 DEF CountView
    <3>2. CASE job[d].kind # "view" /\ ~job[d].may
      BY <1>3, <3>2 DEF CountView
    <3>3. CASE job[d].kind # "view" /\ job[d].may
      BY <1>3, <3>3 DEF CountView
    <3>4. QED
      BY <3>1, <3>2, <3>3
  <2>3. QED
    BY <2>1, <2>2
<1>4. ASSUME NEW d \in Calls, UpdatePost(d) PROVE LikesQuiet
  BY <1>4 DEF UpdatePost
<1>5. ASSUME NEW d \in Calls, SoftDelete(d) PROVE LikesQuiet
  BY <1>5 DEF SoftDelete
<1>7. ASSUME NEW d \in Calls, LikeFindRow(d) PROVE LikesQuiet
  BY <1>7 DEF LikeFindRow
<1>8. ASSUME NEW d \in Calls, LikeInsert(d) PROVE LikesQuiet
  BY <1>8 DEF LikeInsert
<1>9. ASSUME NEW d \in Calls, LikeToggle(d) PROVE LikesQuiet
  BY <1>9 DEF LikeToggle
<1>11. ASSUME NEW d \in Calls, LikeDeadlock(d) PROVE LikesQuiet
  BY <1>11 DEF LikeDeadlock
<1>12. ASSUME NEW d \in Calls, Fail(d) PROVE LikesQuiet
  BY <1>12 DEF Fail
<1>13. ASSUME Crash PROVE LikesQuiet
  <2>1. job' = job /\ likes' = likes /\ likeRow' = likeRow
    BY <1>13 DEF Crash
  <2>2. \A c \in Calls : pc'[c] \in {"idle", "done"}
    BY <1>13 DEF Crash
  <2>3. QED
    BY <2>1, <2>2
<1>14. ASSUME UNCHANGED vars PROVE LikesQuiet
  BY <1>14 DEF vars
<1>15. QED
  BY <1>1, <1>2, <1>3, <1>4, <1>5, <1>7, <1>8, <1>9, <1>11,
     <1>12, <1>13, <1>14 DEF Next, Serve

\* Who races is decided when calls arrive.
LEMMA RacingStays ==
    ASSUME Base, [Next]_vars,
           \A c \in Calls : job'[c].kind = "like" => job[c].kind = "like"
    PROVE  Racing' = Racing
<1>1. \A c \in Calls : Frame(c)
  BY FrameStep DEF Base
<1>2. \A c \in Calls : job[c].kind = "like" => pc[c] # "idle"
  <2>1. NoJob.kind # "like"
    BY DEF NoJob
  <2>2. QED
    BY <2>1 DEF Base, Typed, KindsMatch
<1>3. ASSUME NEW c \in Calls, NEW d \in Calls, job'[c].kind = "like", job'[d].kind = "like"
      PROVE  /\ Overlap(c, d)' <=> Overlap(c, d)
             /\ job'[c].user = job[c].user /\ job'[d].user = job[d].user
  BY <1>1, <1>2, <1>3 DEF Frame, Overlap, Made
<1>4. \A c \in Calls : job[c].kind = "like" => job'[c].kind = "like"
  BY <1>1, <1>2 DEF Frame
<1>5. QED
  BY <1>3, <1>4 DEF Racing

LEMMA LikesQuietStep ==
    ASSUME Base, LikesInvariant, [Next]_vars, LikesQuiet
    PROVE  LikesInvariant'
<1> USE DEF TypeOK, Typed, Base
<1>1. \A c \in Calls : job'[c].kind = "like" <=> job[c].kind = "like"
  BY DEF LikesQuiet, LikeGoesOn
<1>2. Racing' = Racing
  BY <1>1, RacingStays
<1>3. \A c \in Calls : job[c].kind = "like" =>
          /\ job'[c].user = job[c].user /\ job'[c].counted = job[c].counted
          /\ job[c].counted => job'[c].row = job[c].row
  BY DEF LikesQuiet, LikeGoesOn, LikesInvariant, RowsAreFresh
<1>4. ASSUME NEW U
      PROVE  Toggles(U)' = Toggles(U) /\ Ups(U)' = Ups(U) /\ Downs(U)' = Downs(U)
  BY <1>1, <1>3 DEF Toggles, Ups, Downs, Up
<1>5. Ups(Racing)' = Ups(Racing) /\ Downs(Racing)' = Downs(Racing)
  BY <1>1, <1>2, <1>3 DEF Toggles, Ups, Downs, Up
<1>6. Likers' = Likers
  BY <1>2 DEF Likers, LikesQuiet
<1>7. LikesAddUp'
  BY <1>5, <1>6 DEF LikesInvariant, LikesAddUp, LikesQuiet
<1>8. RowsAddUp'
  BY <1>2, <1>4 DEF LikesInvariant, RowsAddUp, LikesQuiet
<1>9. RowsAreFresh'
  <2> SUFFICES ASSUME NEW c \in Calls
               PROVE  /\ pc'[c] \in {"found", "toggling", "inserted", "toggled"}
                            => ~job'[c].counted
                      /\ /\ pc'[c] \in {"toggling", "inserted", "toggled"}
                         /\ job'[c].user \notin Racing
                         => job'[c].row = likeRow[job'[c].user]
    BY <1>2 DEF RowsAreFresh, LikesQuiet
  <2>1. LikeGoesOn(c)
    BY DEF LikesQuiet
  <2>2. QED
    BY <2>1 DEF LikeGoesOn, LikesInvariant, RowsAreFresh
<1>10. QED
  BY <1>7, <1>8, <1>9 DEF LikesInvariant

\* A first SELECT may make its user a racer, whose toggles so far are then
\* counted one by one instead of by the row.
LEMMA LikesFindStep ==
    ASSUME Base, LikesInvariant, [Next]_vars, NEW e \in Calls, LikeFindPost(e)
    PROVE  LikesInvariant'
<1> USE DEF TypeOK, Typed, Base
<1>1. PICK u \in Users :
          job' = [job EXCEPT ![e] = [NoJob EXCEPT !.kind = "like", !.user = u]]
  BY Zenon DEF LikeFindPost
<1>2. /\ job[e].kind = "none" /\ pc[e] = "idle" /\ pc'[e] \in {"found", "done"}
      /\ job'[e].kind = "like" /\ job'[e].user = u /\ ~job'[e].counted
      /\ likes' = likes /\ likeRow' = likeRow
      /\ \A c \in Calls \ {e} : job'[c] = job[c] /\ pc'[c] = pc[c]
  <2>1. job[e].kind = "none" /\ pc[e] = "idle"
    BY DEF LikeFindPost, KindsMatch, NoJob
  <2>2. pc'[e] \in {"found", "done"} /\ likes' = likes /\ likeRow' = likeRow
    BY DEF LikeFindPost
  <2>3. job'[e].kind = "like" /\ job'[e].user = u /\ ~job'[e].counted
    BY <1>1 DEF NoJob
  <2>4. \A c \in Calls \ {e} : job'[c] = job[c] /\ pc'[c] = pc[c]
    BY <1>1 DEF LikeFindPost
  <2>5. QED
    BY <2>1, <2>2, <2>3, <2>4
<1>3. ASSUME NEW U
      PROVE  Toggles(U)' = Toggles(U) /\ Ups(U)' = Ups(U) /\ Downs(U)' = Downs(U)
  BY <1>2 DEF Toggles, Ups, Downs, Up
<1>4. Racing \subseteq Racing' /\ Racing' \subseteq Racing \cup {u}
  <2>1. \A c \in Calls : Frame(c)
    BY FrameStep
  <2>2. ASSUME NEW c \in Calls, NEW d \in Calls, Overlap(c, d)', c # e, d # e
        PROVE  Overlap(c, d)
    BY <1>2, <2>1, <2>2 DEF Frame, Overlap, Made
  <2>3. Racing' \subseteq Racing \cup {u}
    BY <1>2, <2>2 DEF Racing
  <2>4. Racing \subseteq Racing'
    BY <1>2, OverlapStays DEF Racing
  <2>5. QED
    BY <2>3, <2>4
<1>5. LikesAddUp'
  <2>1. CASE Racing' = Racing
    <3>1. Likers' = Likers
      BY <1>2, <2>1 DEF Likers
    <3>2. Ups(Racing)' = Ups(Racing) /\ Downs(Racing)' = Downs(Racing)
      BY <1>2, <2>1 DEF Toggles, Ups, Downs, Up
    <3>3. QED
      BY <1>2, <3>1, <3>2 DEF LikesInvariant, LikesAddUp
  <2>2. CASE Racing' # Racing
    <3>1. u \notin Racing /\ Racing' = Racing \cup {u}
      BY <1>4, <2>2
    <3>2. /\ Ups(Racing)' = Ups(Racing) \cup Ups({u})
          /\ Downs(Racing)' = Downs(Racing) \cup Downs({u})
      BY <1>2, <3>1 DEF Toggles, Ups, Downs, Up
    <3>3. /\ Ups(Racing) \cap Ups({u}) = {}
          /\ Downs(Racing) \cap Downs({u}) = {}
      BY <3>1 DEF Toggles, Ups, Downs
    <3>4. /\ Cardinality(Ups(Racing)') = Cardinality(Ups(Racing)) + Cardinality(Ups({u}))
          /\ Cardinality(Downs(Racing)')
                = Cardinality(Downs(Racing)) + Cardinality(Downs({u}))
      <4>1. /\ Cardinality(Ups(Racing) \cap Ups({u})) = 0
            /\ Cardinality(Downs(Racing) \cap Downs({u})) = 0
        BY <3>3, FS_EmptySet
      <4>2. Cardinality(Ups(Racing) \cup Ups({u})) =
                Cardinality(Ups(Racing)) + Cardinality(Ups({u}))
                - Cardinality(Ups(Racing) \cap Ups({u}))
        BY TogglesFinite, FS_Union
      <4>3. Cardinality(Downs(Racing) \cup Downs({u})) =
                Cardinality(Downs(Racing)) + Cardinality(Downs({u}))
                - Cardinality(Downs(Racing) \cap Downs({u}))
        BY TogglesFinite, FS_Union
      <4>4. /\ Cardinality(Ups(Racing)) \in Nat /\ Cardinality(Ups({u})) \in Nat
            /\ Cardinality(Downs(Racing)) \in Nat /\ Cardinality(Downs({u})) \in Nat
        BY TogglesFinite
      <4>5. QED
        BY <3>2, <4>1, <4>2, <4>3, <4>4
    <3>5. Cardinality(Likers') =
              Cardinality(Likers) - (IF likeRow[u] = "on" THEN 1 ELSE 0)
      <4>1. Likers' = Likers \ {u}
        BY <1>2, <3>1 DEF Likers
      <4>2. u \in Likers <=> likeRow[u] = "on"
        BY <3>1 DEF Likers
      <4>3. Cardinality(Likers \ {u}) =
                IF u \in Likers THEN Cardinality(Likers) - 1 ELSE Cardinality(Likers)
        BY LikersFinite, FS_RemoveElement
      <4>4. CASE likeRow[u] = "on"
        BY <4>1, <4>2, <4>3, <4>4, LikersFinite
      <4>5. CASE likeRow[u] # "on"
        BY <4>1, <4>2, <4>3, <4>5, LikersFinite
      <4>6. QED
        BY <4>4, <4>5
    <3>6. Cardinality(Ups({u})) - Cardinality(Downs({u})) =
              IF likeRow[u] = "on" THEN 1 ELSE 0
      BY <3>1 DEF LikesInvariant, RowsAddUp
    <3>7. likes' = Cardinality(Likers') + Cardinality(Ups(Racing)') - Cardinality(Downs(Racing)')
      BY <1>2, <3>4, <3>5, <3>6, TogglesFinite, LikersFinite
         DEF LikesInvariant, LikesAddUp
    <3>8. QED
      BY <3>7 DEF LikesAddUp
  <2>3. QED
    BY <2>1, <2>2
<1>6. RowsAddUp'
  BY <1>2, <1>3, <1>4 DEF LikesInvariant, RowsAddUp
<1>7. RowsAreFresh'
  BY <1>2, <1>4 DEF LikesInvariant, RowsAreFresh
<1>8. QED
  BY <1>5, <1>6, <1>7 DEF LikesInvariant

\* A COMMIT counts a toggle: by the row if its user does not race, and with the
\* other toggles of its user otherwise.
LEMMA LikesCountStep ==
    ASSUME Base, LikesInvariant, [Next]_vars, NEW e \in Calls, LikeCount(e)
    PROVE  LikesInvariant'
<1> USE DEF TypeOK, Typed, Base
<1>0. PICK u \in Users : u = job[e].user
  BY DEF Jobs
<1>1. /\ pc[e] \in {"inserted", "toggled"} /\ job[e].kind = "like" /\ job[e].user = u
      /\ pc'[e] = "done" /\ ~job[e].counted
      /\ \A c \in Calls \ {e} : job'[c] = job[c] /\ pc'[c] = pc[c]
      /\ job'[e].kind = "like" /\ job'[e].user = u /\ job'[e].row = job[e].row
  BY <1>0 DEF LikeCount, KindsMatch, LikesInvariant, RowsAreFresh, Jobs
<1>2. Racing' = Racing
  BY <1>1, RacingStays
<1>3. CASE UNCHANGED <<likes, likeRow, job>>
  <2>1. LikesQuiet
    BY <1>1, <1>3 DEF LikesQuiet, LikeGoesOn
  <2>2. QED
    BY <2>1, LikesQuietStep
<1>4. CASE /\ likes' = likes + (IF Up(e) THEN 1 ELSE -1)
           /\ likeRow' = Toggled(e)
           /\ job' = [job EXCEPT ![e].counted = TRUE]
  <2>1. job'[e].counted
    BY <1>4 DEF Jobs
  <2>2. ASSUME NEW U
        PROVE  /\ Ups(U)' = IF u \in U /\ Up(e) THEN Ups(U) \cup {e} ELSE Ups(U)
               /\ Downs(U)' = IF u \in U /\ ~Up(e) THEN Downs(U) \cup {e} ELSE Downs(U)
    BY <1>1, <2>1 DEF Toggles, Ups, Downs, Up
  <2>3. /\ Ups(Racing)' = IF u \in Racing /\ Up(e) THEN Ups(Racing) \cup {e} ELSE Ups(Racing)
        /\ Downs(Racing)' =
              IF u \in Racing /\ ~Up(e) THEN Downs(Racing) \cup {e} ELSE Downs(Racing)
    BY <1>1, <1>2, <2>1 DEF Toggles, Ups, Downs, Up
  <2>4. ASSUME NEW U
        PROVE  /\ Cardinality(Ups(U) \cup {e}) = Cardinality(Ups(U)) + 1
               /\ Cardinality(Downs(U) \cup {e}) = Cardinality(Downs(U)) + 1
    <3>1. e \notin Ups(U) /\ e \notin Downs(U)
      BY <1>1 DEF Ups, Downs, Toggles
    <3>2. QED
      BY <3>1, TogglesFinite, FS_AddElement
  <2>5. \A v \in Users \ {u} : likeRow'[v] = likeRow[v]
    BY <1>1, <1>4 DEF Toggled
  <2>6. likeRow'[u] = IF Up(e) THEN "on" ELSE "off"
    BY <1>1, <1>4 DEF Toggled
  <2>7. u \notin Racing => (likeRow[u] = "on" <=> ~Up(e))
    BY <1>1 DEF LikesInvariant, RowsAreFresh, Up
  <2>8. LikesAddUp'
    <3>1. CASE u \in Racing
      <4>1. Likers' = Likers
        BY <1>2, <2>5, <3>1 DEF Likers
      <4>2. likes' = Cardinality(Likers') + Cardinality(Ups(Racing)')
                     - Cardinality(Downs(Racing)')
        <5>1. likes = Cardinality(Likers) + Cardinality(Ups(Racing)) - Cardinality(Downs(Racing))
          BY DEF LikesInvariant, LikesAddUp
        <5>2. /\ Cardinality(Ups(Racing)) \in Nat /\ Cardinality(Downs(Racing)) \in Nat
              /\ Cardinality(Likers) \in Nat
          BY TogglesFinite, LikersFinite
        <5>3. /\ Cardinality(Ups(Racing) \cup {e}) = Cardinality(Ups(Racing)) + 1
              /\ Cardinality(Downs(Racing) \cup {e}) = Cardinality(Downs(Racing)) + 1
          BY <2>4
        <5>4. CASE Up(e)
          BY <1>4, <2>3, <3>1, <4>1, <5>1, <5>2, <5>3, <5>4
        <5>5. CASE ~Up(e)
          BY <1>4, <2>3, <3>1, <4>1, <5>1, <5>2, <5>3, <5>5
        <5>6. QED
          BY <5>4, <5>5
      <4>3. QED
        BY <4>2 DEF LikesAddUp
    <3>2. CASE u \notin Racing
      <4>1. Ups(Racing)' = Ups(Racing) /\ Downs(Racing)' = Downs(Racing)
        BY <2>3, <3>2
      <4>2. Cardinality(Likers') = Cardinality(Likers) + (IF Up(e) THEN 1 ELSE -1)
        <5>1. CASE Up(e)
          <6>1. Likers' = Likers \cup {u} /\ u \notin Likers
            BY <1>1, <1>2, <2>5, <2>6, <2>7, <3>2, <5>1 DEF Likers
          <6>2. QED
            BY <5>1, <6>1, LikersFinite, FS_AddElement
        <5>2. CASE ~Up(e)
          <6>1. Likers' = Likers \ {u} /\ u \in Likers
            BY <1>1, <1>2, <2>5, <2>6, <2>7, <3>2, <5>2 DEF Likers
          <6>2. Cardinality(Likers \ {u}) = Cardinality(Likers) - 1
            BY <6>1, LikersFinite, FS_RemoveElement
          <6>3. QED
            BY <5>2, <6>1, <6>2, LikersFinite
        <5>3. QED
          BY <5>1, <5>2
      <4>3. likes' = Cardinality(Likers') + Cardinality(Ups(Racing)')
                     - Cardinality(Downs(Racing)')
        BY <1>4, <4>1, <4>2, TogglesFinite, LikersFinite
           DEF LikesInvariant, LikesAddUp
      <4>4. QED
        BY <4>3 DEF LikesAddUp
    <3>3. QED
      BY <3>1, <3>2
  <2>9. RowsAddUp'
    <3> SUFFICES ASSUME NEW v \in Users \ Racing
                 PROVE  Cardinality(Ups({v})') - Cardinality(Downs({v})') =
                            IF likeRow'[v] = "on" THEN 1 ELSE 0
      BY <1>2 DEF RowsAddUp
    <3>1. Cardinality(Ups({v})) - Cardinality(Downs({v})) =
              IF likeRow[v] = "on" THEN 1 ELSE 0
      BY DEF LikesInvariant, RowsAddUp
    <3>2. CASE v # u
      BY <2>2, <2>5, <3>1, <3>2
    <3>3. CASE v = u
      <4>1. Cardinality(Ups({u})) \in Nat /\ Cardinality(Downs({u})) \in Nat
        BY TogglesFinite
      <4>2. /\ Cardinality(Ups({u}) \cup {e}) = Cardinality(Ups({u})) + 1
            /\ Cardinality(Downs({u}) \cup {e}) = Cardinality(Downs({u})) + 1
        BY <2>4
      <4>3. CASE Up(e)
        <5>1. /\ Cardinality(Ups({u})') = Cardinality(Ups({u})) + 1
              /\ Cardinality(Downs({u})') = Cardinality(Downs({u}))
          BY <2>2, <4>2, <4>3
        <5>2. likeRow'[u] = "on" /\ likeRow[u] # "on"
          BY <2>6, <2>7, <3>3, <4>3
        <5>3. QED
          BY <3>1, <3>3, <4>1, <5>1, <5>2
      <4>4. CASE ~Up(e)
        <5>1. /\ Cardinality(Ups({u})') = Cardinality(Ups({u}))
              /\ Cardinality(Downs({u})') = Cardinality(Downs({u})) + 1
          BY <2>2, <4>2, <4>4
        <5>2. likeRow'[u] = "off" /\ likeRow[u] = "on"
          BY <2>6, <2>7, <3>3, <4>4
        <5>3. QED
          BY <3>1, <3>3, <4>1, <5>1, <5>2
      <4>5. QED
        BY <4>3, <4>4
    <3>4. QED
      BY <3>2, <3>3
  <2>10. RowsAreFresh'
    <3> SUFFICES ASSUME NEW c \in Calls \ {e},
                        pc[c] \in {"found", "toggling", "inserted", "toggled"}
                 PROVE  /\ ~job[c].counted
                        /\ /\ pc[c] \in {"toggling", "inserted", "toggled"}
                           /\ job[c].user \notin Racing
                           => job[c].row = likeRow'[job[c].user]
      BY <1>1, <1>2 DEF RowsAreFresh
    <3>1. job[c].kind = "like" /\ job[c].user \in Users
      BY DEF KindsMatch, Jobs
    <3>2. Overlap(c, e)
      BY <1>1, InFlightOverlap
    <3>3. job[c].user = u => u \in Racing
      BY <1>1, <3>1, <3>2 DEF Racing
    <3>4. QED
      BY <2>5, <3>1, <3>3 DEF LikesInvariant, RowsAreFresh
  <2>11. QED
    BY <2>8, <2>9, <2>10 DEF LikesInvariant
<1>5. QED
  BY <1>3, <1>4 DEF LikeCount

LEMMA LikesStep == Base /\ LikesInvariant /\ [Next]_vars => LikesInvariant'
  BY LikesOtherwise, LikesQuietStep, LikesFindStep, LikesCountStep DEF Base

\* likes is the number of users who like the post, whatever fails and however
\* many users and calls there are, except for what users add or take off who
\* toggle before their last toggle was answered.
THEOREM LikesCorrect == Spec => []LikesCountLikers
<1>1. LikesInvariant => LikesCountLikers
  BY LikesEquation DEF LikesInvariant
<1>2. QED
  BY <1>1, BaseInit, BaseStep, LikesInit, LikesStep, PTL DEF Spec
=============================================================================
