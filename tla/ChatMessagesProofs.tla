------------------------- MODULE ChatMessagesProofs -------------------------
(***************************************************************************)
(* Theorems about the messages of a chat room, for any number of users,    *)
(* messages, readers and concurrent marks, and any page size.              *)
(***************************************************************************)
EXTENDS ChatMessages, FiniteSetTheorems, TLAPS

USE DEF Ids, Times, At

\* Sets of messages are finite.
LEMMA IdsFinite ==
    \A S \in SUBSET Ids : IsFiniteSet(S) /\ Cardinality(S) \in Nat
<1>1. IsFiniteSet(1 .. MaxMessages)
  BY BoundsNat, FS_Interval
<1>2. QED
  BY <1>1, FS_Subset, FS_CardinalityType

LEMMA TypeInit == Init => TypeOK
  BY BoundsNat, UsersNonempty
  DEF Init, TypeOK, Membership!Init, Messages, Session, Mark

\* What the environment does to the members keeps them well typed.
LEMMA JoinType ==
    ASSUME TypeOK, Join
    PROVE  /\ room' \in {"absent", "GROUP", "DM"}
           /\ member' \in [Users -> {"none", "active", "left"}]
           /\ joined' \in [Users -> Times]
<1> USE DEF TypeOK
<1>1. /\ room' \in {"absent", "GROUP", "DM"}
      /\ member' \in [Users -> {"none", "active", "left"}]
  <2>1. CASE Membership!Create
    BY <2>1 DEF Membership!Create
  <2>2. CASE \E S \in SUBSET Users : Membership!Admit(S)
    BY <2>2 DEF Membership!Admit
  <2>3. QED
    BY <2>1, <2>2 DEF Join
<1>2. joined' \in [Users -> Times]
  BY DEF Join, Stamps
<1>3. QED
  BY <1>1, <1>2

\* The fields of a reader after a check and after a page.
LEMMA CheckFields ==
    ASSUME TypeOK, NEW old \in Session, NEW u \in Users
    PROVE  /\ AfterCheck(old, u) \in Session
           /\ AfterCheck(old, u).cursor = old.cursor
           /\ AfterCheck(old, u).got = old.got
           /\ AfterCheck(old, u).shown = old.shown
           /\ AfterCheck(old, u).start = old.start
           /\ \/ /\ AfterCheck(old, u).phase = "checked" /\ member[u] = "active"
                 /\ AfterCheck(old, u).user = u
                 /\ AfterCheck(old, u).since = joined[u]
              \/ /\ AfterCheck(old, u).phase = "refused"
                 /\ AfterCheck(old, u).user = old.user
                 /\ AfterCheck(old, u).since = old.since
<1>1. CASE member[u] = "active"
  BY <1>1 DEF AfterCheck, Session, TypeOK
<1>2. CASE member[u] # "active"
  BY <1>2 DEF AfterCheck, Session, TypeOK
<1>3. QED
  BY <1>1, <1>2

PageGives(new, old, seen, items, next) ==
    /\ new.phase = (IF next = 0 THEN "end" ELSE "more")
    /\ new.user = old.user
    /\ new.since = old.since
    /\ new.cursor = next
    /\ new.got = old.got \cup items
    /\ new.shown = old.shown + Cardinality(items)
    /\ new.start = (IF old.cursor = MaxMessages + 1 THEN seen ELSE old.start)

LEMMA PageFields ==
    ASSUME NEW old \in Session, NEW seen \in SUBSET Ids,
           NEW items \in SUBSET seen, NEW next \in Ids \cup {0}
    PROVE  /\ AfterPage(old, seen, items, next) \in Session
           /\ PageGives(AfterPage(old, seen, items, next), old, seen, items, next)
<1>1. Cardinality(items) \in Nat
  BY IdsFinite
<1>2. next \in 0 .. MaxMessages + 1
  BY BoundsNat
<1> DEFINE p == IF next = 0 THEN "end" ELSE "more"
           g == old.got \cup items
           n == old.shown + Cardinality(items)
           f == IF old.cursor = MaxMessages + 1 THEN seen ELSE old.start
<1>3. old.got \in SUBSET Ids /\ old.shown \in Nat /\ old.start \in SUBSET Ids
  BY DEF Session
<1>4. g \in SUBSET Ids
  BY <1>3
<1>5. n \in Nat
  BY <1>1, <1>3
<1>6. f \in SUBSET Ids
  BY <1>3
<1>7. p \in {"end", "more"}
  OBVIOUS
<1> DEFINE new == AfterPage(old, seen, items, next)
<1>8. new = [phase |-> p, user |-> old.user, since |-> old.since, cursor |-> next,
             got |-> g, shown |-> n, start |-> f]
  BY DEF AfterPage
<1>9. old.user \in Users /\ old.since \in Times
  BY DEF Session
<1> HIDE DEF p, g, n, f, new
<1>10. new \in Session
  BY <1>2, <1>4, <1>5, <1>6, <1>7, <1>8, <1>9 DEF Session
<1>11. /\ new.phase = p /\ new.user = old.user /\ new.since = old.since
       /\ new.cursor = next /\ new.got = g /\ new.shown = n /\ new.start = f
  BY <1>8
<1>12. PageGives(new, old, seen, items, next)
  BY <1>11, Zenon DEF p, g, n, f, PageGives
<1>13. QED
  BY <1>10, <1>12 DEF new

LEMMA BelowIds == ASSUME NEW s PROVE Below(s) \in SUBSET Ids
  BY DEF Below, Readable, Sent

\* What a call of markRead does to its own variables.
LEMMA MarkFields ==
    ASSUME TypeOK, NEW k \in Marks, NEW phase, MarkGoto(k, phase)
    PROVE  /\ mark'[k].phase = phase
           /\ \A l \in Marks : mark'[l].user = mark[l].user /\ mark'[l].id = mark[l].id
           /\ \A l \in Marks \ {k} : mark'[l] = mark[l]
  BY DEF TypeOK, Mark, MarkGoto

LEMMA TypeStep == TypeOK /\ [Next]_vars => TypeOK'
<1> SUFFICES ASSUME TypeOK, [Next]_vars PROVE TypeOK'
  OBVIOUS
<1> USE DEF TypeOK, memberVars
<1>1. ASSUME Join PROVE TypeOK'
  BY <1>1, JoinType DEF Join
<1>2. ASSUME Leave PROVE TypeOK'
  BY <1>2 DEF Leave, Membership!Leave
<1>3. ASSUME Tick PROVE TypeOK'
  BY <1>3, BoundsNat DEF Tick
<1>4. ASSUME NEW m \in Ids, SendInsert(m) PROVE TypeOK'
  <2>1. \A t \in Times : [state |-> "pending", at |-> t] \in Messages
    BY DEF Messages
  <2>2. msg' \in [Ids -> Messages]
    BY <1>4, <2>1 DEF SendInsert, Stamps
  <2>3. QED
    BY <1>4, <2>2 DEF SendInsert
<1>5. ASSUME NEW m \in Ids, SendEnd(m) PROVE TypeOK'
  <2>1. \A state \in {"sent", "lost"} : [msg[m] EXCEPT !.state = state] \in Messages
    BY DEF Messages
  <2>2. msg' \in [Ids -> Messages]
    BY <1>5, <2>1 DEF SendEnd
  <2>3. QED
    BY <1>5, <2>2 DEF SendEnd
<1>6. ASSUME NEW s \in Sessions, PageCheck(s) PROVE TypeOK'
  <2>1. session' \in [Sessions -> Session]
    BY <1>6, CheckFields DEF PageCheck
  <2>2. QED
    BY <1>6, <2>1 DEF PageCheck
<1>7. ASSUME NEW s \in Sessions, PageQuery(s) PROVE TypeOK'
  <2>1. session' \in [Sessions -> Session]
    <3>1. PICK items \in SUBSET Below(s), next \in Ids \cup {0} :
            /\ IsPage(Below(s), items, next)
            /\ session' = [session EXCEPT ![s] =
                               AfterPage(session[s], Below(s), items, next)]
      BY <1>7, Zenon DEF PageQuery
    <3>2. session[s] \in Session /\ Below(s) \in SUBSET Ids
      BY BelowIds
    <3>3. AfterPage(session[s], Below(s), items, next) \in Session
      BY <3>2, PageFields
    <3>4. QED
      BY <3>1, <3>3
  <2>2. QED
    BY <1>7, <2>1 DEF PageQuery
<1>8. ASSUME NEW k \in Marks, MarkCheck(k) PROVE TypeOK'
  <2>1. mark' \in [Marks -> Mark]
    BY <1>8 DEF MarkCheck, Mark
  <2>2. QED
    BY <1>8, <2>1 DEF MarkCheck
<1>9. \A k \in Marks : /\ Receipt(k) \in Ids \X Users
                       /\ mark[k].id \in 0 .. MaxMessages
  BY BoundsNat DEF Receipt, Mark
<1>10. \A k \in Marks, phase \in {"found", "new", "success", "refused", "failed"} :
          [mark[k] EXCEPT !.phase = phase] \in Mark
  BY DEF Mark
<1>11. ASSUME NEW k \in Marks, MarkFind(k) PROVE TypeOK'
  BY <1>10, <1>11 DEF MarkFind, MarkGoto
<1>12. ASSUME NEW k \in Marks, MarkUpdate(k) PROVE TypeOK'
  <2>1. lastRead' \in [Users -> 0 .. MaxMessages]
    BY <1>9, <1>12 DEF MarkUpdate, Greatest
  <2>2. QED
    BY <1>10, <1>12, <2>1 DEF MarkUpdate, MarkGoto
<1>13. ASSUME NEW k \in Marks, MarkInsert(k) PROVE TypeOK'
  BY <1>9, <1>10, <1>13 DEF MarkInsert, MarkGoto
<1>14. ASSUME NEW k \in Marks, MarkFail(k) PROVE TypeOK'
  BY <1>10, <1>14 DEF MarkFail, MarkGoto
<1>15. ASSUME UNCHANGED vars PROVE TypeOK'
  BY <1>15 DEF vars
<1>16. QED
  BY <1>1, <1>2, <1>3, <1>4, <1>5, <1>6, <1>7, <1>8, <1>11, <1>12, <1>13,
     <1>14, <1>15 DEF Next, Send, Paging, Marking

\* Every reachable state of the room's messages and their readers is well
\* typed.
THEOREM TypeCorrect == Spec => []TypeOK
  BY TypeInit, TypeStep, PTL DEF Spec

-----------------------------------------------------------------------------
\* A page reaches down to the next cursor: of what the query saw, everything
\* at or above it is on the page, and nothing on the page is below it.
LEMMA PageReaches ==
    ASSUME NEW seen \in SUBSET Ids, NEW items \in SUBSET seen,
           NEW next \in Ids \cup {0}, IsPage(seen, items, next)
    PROVE  /\ \A m \in seen : m >= next => m \in items
           /\ \A m \in items : m >= next
           /\ next # 0 => next \in items
  BY BoundsNat DEF IsPage

\* A page's query keeps the strengthening.
LEMMA PageQueryInv ==
    ASSUME TypeOK, PageInv, NothingTwice, NEW s \in Sessions, PageQuery(s)
    PROVE  PageInv' /\ NothingTwice'
<1> USE DEF TypeOK
<1> DEFINE S == session[s]
<1>1. PICK items \in SUBSET Below(s), next \in Ids \cup {0} :
        /\ IsPage(Below(s), items, next)
        /\ session' = [session EXCEPT ![s] =
                           AfterPage(session[s], Below(s), items, next)]
  BY DEF PageQuery
<1>2. Below(s) \in SUBSET Ids /\ items \in SUBSET Ids /\ S.got \in SUBSET Ids
      /\ S.start \in SUBSET Ids /\ S.cursor \in 0 .. MaxMessages + 1
  BY DEF Below, Readable, Sent, Session
<1>3. /\ \A m \in Below(s) : m >= next => m \in items
      /\ \A m \in items : m >= next
      /\ next # 0 => next \in items
  BY <1>1, <1>2, PageReaches
<1>4. \A m \in Below(s) : m < S.cursor /\ m \in Sent /\ msg[m].at >= S.since
  BY DEF Below, Readable
<1>5. next < S.cursor \/ next = 0
  BY <1>2, <1>3, <1>4
<1>6. PageGives(session'[s], S, Below(s), items, next)
  <2>1. session'[s] = AfterPage(S, Below(s), items, next) /\ S \in Session
    BY <1>1
  <2>2. QED
    BY <2>1, PageFields, BelowIds, Zenon
<1> USE DEF PageGives
<1>7. \A r \in Sessions \ {s} : session'[r] = session[r]
  BY <1>1
<1>8. UNCHANGED <<memberVars, msg>> /\ S.phase = "checked"
  BY DEF PageQuery
<1>9. Sent' = Sent
  BY <1>8 DEF Sent
<1>10. \A m \in S.got \cup items : m >= next
  <2>1. SUFFICES ASSUME NEW m \in S.got PROVE m >= next
    BY <1>3
  <2>2. m >= S.cursor /\ m \in Ids
    BY <1>2 DEF PageInv
  <2>3. QED
    BY <1>2, <1>5, <2>2, BoundsNat
<1>11. \A m \in session'[s].start :
          /\ m \in Sent /\ msg[m].at >= S.since
          /\ m >= next => m \in S.got \cup items
  <2>1. CASE S.cursor = MaxMessages + 1
    BY <1>3, <1>4, <1>6, <2>1
  <2>2. CASE S.cursor # MaxMessages + 1
    <3>1. SUFFICES ASSUME NEW m \in S.start
                   PROVE  /\ m \in Sent /\ msg[m].at >= S.since
                          /\ m >= next => m \in S.got \cup items
      BY <1>6, <2>2
    <3>2. /\ m \in Sent /\ msg[m].at >= S.since
          /\ m >= S.cursor => m \in S.got
      BY DEF PageInv
    <3>3. m < S.cursor => m \in Below(s)
      BY <3>2 DEF Below, Readable
    <3>4. m >= S.cursor \/ m < S.cursor
      BY <1>2, BoundsNat
    <3>5. QED
      BY <1>3, <3>2, <3>3, <3>4
  <2>3. QED
    BY <2>1, <2>2
<1>12. PageInv'
  <2>1. S.phase = "checked" => /\ member[S.user] # "none" /\ S.since = joined[S.user]
    BY DEF PageInv
  <2>2. UNCHANGED <<room, member, joined>>
    BY <1>8 DEF memberVars
  <2>3. SUFFICES ASSUME NEW r \in Sessions
                 PROVE  /\ \A m \in session'[r].got : m >= session'[r].cursor
                        /\ \A m \in session'[r].start :
                              /\ m \in Sent /\ msg[m].at >= session'[r].since
                              /\ m >= session'[r].cursor => m \in session'[r].got
                        /\ session'[r].phase = "idle" =>
                              /\ session'[r].start = {}
                              /\ session'[r].cursor = MaxMessages + 1
                        /\ session'[r].phase = "end" => session'[r].cursor = 0
                        /\ session'[r].phase \in {"checked", "more"} =>
                              /\ member[session'[r].user] # "none"
                              /\ session'[r].since = joined[session'[r].user]
    BY <1>8, <1>9, <2>2 DEF PageInv
  <2>4. CASE r = s
    BY <1>6, <1>8, <1>10, <1>11, <2>1, <2>4
  <2>5. CASE r # s
    BY <1>7, <2>5 DEF PageInv
  <2>6. QED
    BY <2>4, <2>5
<1>13. NothingTwice'
  <2>1. S.got \cap items = {}
    BY <1>2, <1>4, BoundsNat DEF PageInv
  <2>2. Cardinality(S.got \cap items) = 0
    BY <2>1, FS_EmptySet
  <2>3. /\ IsFiniteSet(S.got) /\ IsFiniteSet(items)
        /\ Cardinality(S.got) \in Nat /\ Cardinality(items) \in Nat
    BY <1>2, IdsFinite
  <2>4. Cardinality(S.got \cup items)
          = Cardinality(S.got) + Cardinality(items) - Cardinality(S.got \cap items)
    BY <2>3, FS_Union
  <2>5. session'[s].shown = Cardinality(session'[s].got)
    BY <1>6, <2>2, <2>3, <2>4 DEF NothingTwice
  <2>6. QED
    BY <1>7, <2>5 DEF NothingTwice
<1>14. QED
  BY <1>12, <1>13

\* Every step keeps the strengthening for the pages.
LEMMA PageStep ==
    TypeOK /\ PageInv /\ NothingTwice /\ [Next]_vars => PageInv' /\ NothingTwice'
<1> SUFFICES ASSUME TypeOK, PageInv, NothingTwice, [Next]_vars
             PROVE  PageInv' /\ NothingTwice'
  OBVIOUS
<1> USE DEF TypeOK, memberVars
<1>1. ASSUME UNCHANGED session,
             \A m \in Sent : m \in Sent' /\ msg'[m].at = msg[m].at,
             room' = "absent" => \A u \in Users : member'[u] = "none",
             \A u \in Users : member[u] # "none" =>
                                 member'[u] # "none" /\ joined'[u] = joined[u]
      PROVE  PageInv' /\ NothingTwice'
  <2>1. \A s \in Sessions : session[s].user \in Users
    BY DEF Session
  <2>2. QED
    BY <1>1, <2>1 DEF PageInv, NothingTwice
<1>2. ASSUME Join PROVE PageInv' /\ NothingTwice'
  <2>1. \A u \in Users : member[u] # "none" => member'[u] # "none"
    BY <1>2 DEF Join, Membership!Create, Membership!Admit, PageInv
  <2>5. room' # "absent"
    BY <1>2 DEF Join, Membership!Create, Membership!Admit
  <2>2. \A u \in Users : member[u] # "none" => joined'[u] = joined[u]
    BY <1>2 DEF Join
  <2>3. UNCHANGED session /\ UNCHANGED msg /\ Sent' = Sent
    BY <1>2 DEF Join, Sent
  <2>4. QED
    BY <1>1, <2>1, <2>2, <2>3, <2>5
<1>3. ASSUME Leave PROVE PageInv' /\ NothingTwice'
  <2>1. \A u \in Users : member[u] # "none" => member'[u] # "none"
    BY <1>3 DEF Leave, Membership!Leave
  <2>2. UNCHANGED <<session, msg, joined>> /\ Sent' = Sent
    BY <1>3 DEF Leave, Sent
  <2>3. room # "absent" /\ UNCHANGED room
    BY <1>3 DEF Leave, Membership!Leave, PageInv
  <2>4. QED
    BY <1>1, <2>1, <2>2, <2>3
<1>4. ASSUME NEW m \in Ids, Send(m) PROVE PageInv' /\ NothingTwice'
  <2>1. \A k \in Sent : k \in Sent' /\ msg'[k].at = msg[k].at
    BY <1>4 DEF Send, SendInsert, SendEnd, Sent, Messages
  <2>2. UNCHANGED <<session, room, member, joined>>
    BY <1>4 DEF Send, SendInsert, SendEnd
  <2>3. QED
    BY <1>1, <2>1, <2>2 DEF PageInv
<1>5. ASSUME NEW s \in Sessions, PageCheck(s) PROVE PageInv' /\ NothingTwice'
  <2>1. PICK u \in Users :
          /\ session[s].phase = "more" => u = session[s].user
          /\ session' = [session EXCEPT ![s] = AfterCheck(session[s], u)]
    BY <1>5 DEF PageCheck
  <2>2. /\ session'[s].cursor = session[s].cursor
        /\ session'[s].got = session[s].got
        /\ session'[s].shown = session[s].shown
        /\ session'[s].start = session[s].start
        /\ \/ /\ session'[s].phase = "checked" /\ member[u] = "active"
              /\ session'[s].user = u /\ session'[s].since = joined[u]
           \/ /\ session'[s].phase = "refused"
              /\ session'[s].user = session[s].user
              /\ session'[s].since = session[s].since
    <3>1. session'[s] = AfterCheck(session[s], u) /\ session[s] \in Session
      BY <2>1
    <3>2. QED
      BY <3>1, CheckFields
  <2>3. \A r \in Sessions \ {s} : session'[r] = session[r]
    BY <2>1
  <2>4. UNCHANGED <<room, member, joined, msg>> /\ Sent' = Sent
    BY <1>5 DEF PageCheck, Sent
  <2>5. session[s].phase \in {"idle", "more"}
    BY <1>5 DEF PageCheck
  <2>6. session[s].start = {} \/ session'[s].since = session[s].since
    BY <2>1, <2>2, <2>5 DEF PageInv
  <2>7. PageInv'
    <3>1. SUFFICES ASSUME NEW r \in Sessions
                   PROVE  /\ \A m \in session'[r].got : m >= session'[r].cursor
                          /\ \A m \in session'[r].start :
                                /\ m \in Sent /\ msg[m].at >= session'[r].since
                                /\ m >= session'[r].cursor => m \in session'[r].got
                          /\ session'[r].phase = "idle" =>
                                /\ session'[r].start = {}
                                /\ session'[r].cursor = MaxMessages + 1
                          /\ session'[r].phase = "end" => session'[r].cursor = 0
                          /\ session'[r].phase \in {"checked", "more"} =>
                                /\ member[session'[r].user] # "none"
                                /\ session'[r].since = joined[session'[r].user]
      BY <2>4 DEF PageInv
    <3>2. CASE r = s
      <4>1. \A m \in session[s].start :
               /\ m \in Sent /\ msg[m].at >= session[s].since
               /\ m >= session[s].cursor => m \in session[s].got
        BY DEF PageInv
      <4>2. \A m \in session'[s].start :
               /\ m \in Sent /\ msg[m].at >= session'[s].since
               /\ m >= session'[s].cursor => m \in session'[s].got
        BY <2>2, <2>6, <4>1
      <4>3. \A m \in session'[s].got : m >= session'[s].cursor
        BY <2>2 DEF PageInv
      <4>4. session'[s].phase = "checked" =>
               /\ member[session'[s].user] # "none"
               /\ session'[s].since = joined[session'[s].user]
        BY <2>2
      <4>5. session'[s].phase \in {"checked", "refused"}
        BY <2>2
      <4>6. QED
        BY <3>2, <4>2, <4>3, <4>4, <4>5
    <3>3. CASE r # s
      BY <2>3, <3>3 DEF PageInv
    <3>4. QED
      BY <3>2, <3>3
  <2>8. NothingTwice'
    BY <2>2, <2>3 DEF NothingTwice
  <2>9. QED
    BY <2>7, <2>8
<1>6. ASSUME NEW s \in Sessions, PageQuery(s) PROVE PageInv' /\ NothingTwice'
  BY <1>6, PageQueryInv
<1>7. ASSUME Tick \/ (\E k \in Marks : Marking(k)) \/ UNCHANGED vars
      PROVE  PageInv' /\ NothingTwice'
  <2>1. UNCHANGED <<session, msg, room, member, joined>> /\ Sent' = Sent
    BY <1>7 DEF Tick, Marking, MarkCheck, MarkFind, MarkUpdate, MarkInsert,
       MarkFail, vars, Sent
  <2>2. QED
    BY <1>1, <2>1 DEF PageInv
<1>8. QED
  BY <1>2, <1>3, <1>4, <1>5, <1>6, <1>7 DEF Next, Paging

LEMMA PageCorrect == Spec => [](TypeOK /\ PageInv /\ NothingTwice)
<1>1. ASSUME Init PROVE PageInv /\ NothingTwice
  <2>1. \A s \in Sessions : /\ session[s].phase = "idle"
                             /\ session[s].cursor = MaxMessages + 1
                             /\ session[s].got = {} /\ session[s].start = {}
                             /\ session[s].shown = 0
    BY <1>1 DEF Init
  <2>2. \A u \in Users : member[u] = "none"
    BY <1>1 DEF Init, Membership!Init
  <2>3. QED
    BY <2>1, <2>2, FS_EmptySet DEF PageInv, NothingTwice
<1>2. QED
  BY <1>1, TypeInit, TypeStep, PageStep, PTL DEF Spec

\* Whoever pages back to the end has been shown everything the first page's
\* query could see, however sends interleave and whatever the page size.
THEOREM PagesCompleteCorrect == Spec => []PagesComplete
<1>1. ASSUME TypeOK, PageInv PROVE PagesComplete
  <2> SUFFICES ASSUME NEW s \in Sessions, session[s].phase = "end",
                      NEW m \in session[s].start
               PROVE  m \in session[s].got
    BY DEF PagesComplete
  <2>1. session[s].cursor = 0 /\ m \in Ids
    BY <1>1 DEF PageInv, TypeOK, Session
  <2>2. QED
    BY <1>1, <2>1 DEF PageInv
<1>2. QED
  BY <1>1, PageCorrect, PTL

\* No message is shown on two pages of one reader.
THEOREM NothingTwiceCorrect == Spec => []NothingTwice
  BY PageCorrect, PTL

-----------------------------------------------------------------------------
\* Every step keeps the receipts in step with the marks, and moves
\* lastReadMessageId forward only.
LEMMA MarkStep ==
    ASSUME TypeOK, MarkInv, LastReadHasReceipt, SecondMarkAdvances, [Next]_vars
    PROVE  /\ MarkInv' /\ LastReadHasReceipt' /\ SecondMarkAdvances'
           /\ \A u \in Users : lastRead'[u] >= lastRead[u]
<1> DEFINE Goal == /\ MarkInv' /\ LastReadHasReceipt' /\ SecondMarkAdvances'
                   /\ \A u \in Users : lastRead'[u] >= lastRead[u]
<1> USE DEF TypeOK
<1>0. \A k \in Marks : mark[k].user \in Users /\ mark[k].id \in Ids
  BY DEF Mark
<1>1. ASSUME UNCHANGED <<mark, receipts, lastRead>> PROVE Goal
  BY <1>1, BoundsNat
  DEF MarkInv, LastReadHasReceipt, SecondMarkAdvances, Receipt
<1>2. ASSUME NEW k \in Marks, UNCHANGED <<receipts, lastRead>>,
             mark'[k].phase # "success",
             mark'[k].phase = "found" => Receipt(k) \in receipts
                                         /\ mark'[k].user = mark[k].user
                                         /\ mark'[k].id = mark[k].id,
             \A l \in Marks \ {k} : mark'[l] = mark[l]
      PROVE  Goal
  <2>1. MarkInv'
    BY <1>2 DEF MarkInv, Receipt
  <2>2. LastReadHasReceipt' /\ \A u \in Users : lastRead'[u] >= lastRead[u]
    BY <1>2, BoundsNat DEF LastReadHasReceipt
  <2>3. SecondMarkAdvances'
    <3>1. SUFFICES ASSUME NEW j \in Marks, NEW l \in Marks, j # l,
                          At(j, "success")', At(l, "success")',
                          Receipt(j)' = Receipt(l)'
                   PROVE  lastRead'[mark'[j].user] >= mark'[j].id
      BY DEF SecondMarkAdvances
    <3>2. j # k /\ l # k
      BY <1>2, <3>1
    <3>3. mark'[j] = mark[j] /\ mark'[l] = mark[l]
      BY <1>2, <3>2
    <3>4. At(j, "success") /\ At(l, "success") /\ Receipt(j) = Receipt(l)
      BY <3>1, <3>3 DEF Receipt
    <3>5. QED
      BY <1>2, <3>1, <3>3, <3>4 DEF SecondMarkAdvances
  <2>4. QED
    BY <2>1, <2>2, <2>3
<1>20. ASSUME NEW k \in Marks, UNCHANGED <<receipts, lastRead>>,
              NEW phase \in {"refused", "found", "new", "failed"}, MarkGoto(k, phase),
              phase = "found" => Receipt(k) \in receipts
       PROVE  Goal
  <2>1. /\ mark'[k].phase = phase
        /\ mark'[k].user = mark[k].user /\ mark'[k].id = mark[k].id
        /\ \A l \in Marks \ {k} : mark'[l] = mark[l]
    BY <1>20, MarkFields
  <2>2. QED
    BY <1>2, <1>20, <2>1
<1>3. ASSUME NEW k \in Marks, MarkCheck(k) PROVE Goal
  <2>1. UNCHANGED <<receipts, lastRead>> /\ \A l \in Marks \ {k} : mark'[l] = mark[l]
    BY <1>3 DEF MarkCheck
  <2>2. mark'[k].phase \in {"checked", "refused"}
    BY <1>3 DEF MarkCheck
  <2>3. QED
    BY <1>2, <2>1, <2>2
<1>4. ASSUME NEW k \in Marks, MarkFind(k) PROVE Goal
  <2>1. UNCHANGED <<receipts, lastRead>>
    BY <1>4 DEF MarkFind
  <2>2. \/ MarkGoto(k, "refused")
        \/ Receipt(k) \in receipts /\ MarkGoto(k, "found")
        \/ MarkGoto(k, "new")
    BY <1>4 DEF MarkFind
  <2>3. QED
    BY <1>20, <2>1, <2>2
<1>5. ASSUME NEW k \in Marks, MarkFail(k) PROVE Goal
  <2>1. UNCHANGED <<receipts, lastRead>> /\ MarkGoto(k, "failed")
    BY <1>5 DEF MarkFail
  <2>2. QED
    BY <1>20, <2>1
<1>6. ASSUME NEW k \in Marks, MarkUpdate(k) PROVE Goal
  <2>1. /\ lastRead'[mark[k].user] >= mark[k].id
        /\ \A u \in Users : lastRead'[u] >= lastRead[u]
        /\ \A u \in Users : \/ lastRead'[u] = lastRead[u]
                            \/ u = mark[k].user /\ lastRead'[u] = mark[k].id
    BY <1>0, <1>6, BoundsNat DEF MarkUpdate, Greatest
  <2>2. /\ \A l \in Marks : mark'[l].user = mark[l].user /\ mark'[l].id = mark[l].id
        /\ \A l \in Marks \ {k} : mark'[l] = mark[l]
        /\ mark'[k].phase \in {"success", "failed"}
    BY <1>6, MarkFields DEF MarkUpdate
  <2>3. Receipt(k) \in receipts /\ UNCHANGED receipts
    BY <1>6 DEF MarkUpdate, MarkInv
  <2>4. MarkInv'
    BY <2>2, <2>3 DEF MarkInv, Receipt
  <2>5. LastReadHasReceipt'
    BY <2>1, <2>3 DEF LastReadHasReceipt, Receipt
  <2>6. SecondMarkAdvances'
    <3>1. SUFFICES ASSUME NEW j \in Marks, NEW l \in Marks, j # l,
                          At(j, "success")', At(l, "success")',
                          Receipt(j)' = Receipt(l)'
                   PROVE  lastRead'[mark[j].user] >= mark[j].id
      BY <2>2 DEF SecondMarkAdvances
    <3>2. mark[j].user = mark[l].user /\ mark[j].id = mark[l].id
      BY <2>2, <3>1 DEF Receipt
    <3>3. CASE j = k \/ l = k
      BY <2>1, <3>2, <3>3
    <3>4. CASE j # k /\ l # k
      <4>1. lastRead[mark[j].user] >= mark[j].id
        BY <2>2, <3>1, <3>2, <3>4 DEF SecondMarkAdvances, Receipt
      <4>2. mark[j].user \in Users /\ mark[j].id \in Ids
        BY <1>0
      <4>3. lastRead' \in [Users -> 0 .. MaxMessages]
        BY TypeStep
      <4>4. lastRead'[mark[j].user] >= lastRead[mark[j].user]
        BY <2>1, <4>2
      <4>5. QED
        BY <4>1, <4>2, <4>3, <4>4, BoundsNat
    <3>5. QED
      BY <3>3, <3>4
  <2>7. QED
    BY <2>1, <2>4, <2>5, <2>6
<1>7. ASSUME NEW k \in Marks, MarkInsert(k), Receipt(k) \notin receipts PROVE Goal
  <2>1. /\ \A l \in Marks : mark'[l].user = mark[l].user /\ mark'[l].id = mark[l].id
        /\ \A l \in Marks \ {k} : mark'[l] = mark[l]
        /\ mark'[k].phase \in {"success", "failed"}
    BY <1>7, MarkFields DEF MarkInsert
  <2>2. receipts' = receipts \cup {Receipt(k)} /\ UNCHANGED lastRead
    BY <1>7 DEF MarkInsert
  <2>3. \A l \in Marks \ {k} : At(l, "success") => Receipt(l) # Receipt(k)
    BY <1>7 DEF MarkInv
  <2>4. MarkInv'
    BY <2>1, <2>2 DEF MarkInv, Receipt
  <2>5. SecondMarkAdvances'
    <3>1. SUFFICES ASSUME NEW j \in Marks, NEW l \in Marks, j # l,
                          At(j, "success")', At(l, "success")',
                          Receipt(j)' = Receipt(l)'
                   PROVE  lastRead'[mark'[j].user] >= mark'[j].id
      BY DEF SecondMarkAdvances
    <3>2. Receipt(j) = Receipt(l)
      BY <2>1, <3>1 DEF Receipt
    <3>3. j # k /\ l # k
      BY <2>1, <2>3, <3>1, <3>2
    <3>4. mark'[j] = mark[j] /\ mark'[l] = mark[l]
      BY <2>1, <3>3
    <3>5. QED
      BY <2>2, <3>1, <3>2, <3>4 DEF SecondMarkAdvances
  <2>6. LastReadHasReceipt' /\ \A u \in Users : lastRead'[u] >= lastRead[u]
    BY <2>2, BoundsNat DEF LastReadHasReceipt
  <2>7. QED
    BY <2>4, <2>5, <2>6
<1>8. ASSUME NEW k \in Marks, MarkInsert(k), Receipt(k) \in receipts PROVE Goal
  <2>1. UNCHANGED <<receipts, lastRead>> /\ MarkGoto(k, "failed")
    BY <1>8 DEF MarkInsert
  <2>2. QED
    BY <1>20, <2>1
<1>9. ASSUME \/ Join \/ Leave \/ Tick
             \/ \E m \in Ids : Send(m)
             \/ \E s \in Sessions : Paging(s)
             \/ UNCHANGED vars
      PROVE  UNCHANGED <<mark, receipts, lastRead>>
  BY <1>9 DEF Join, Leave, Tick, Send, SendInsert, SendEnd, Paging, PageCheck,
     PageQuery, vars
<1>10. QED
  BY <1>1, <1>3, <1>4, <1>5, <1>6, <1>7, <1>8, <1>9 DEF Next, Marking

LEMMA MarkCorrect ==
    Spec => [](TypeOK /\ MarkInv /\ LastReadHasReceipt /\ SecondMarkAdvances)
<1>1. Init => MarkInv /\ LastReadHasReceipt /\ SecondMarkAdvances
  BY DEF Init, MarkInv, LastReadHasReceipt, SecondMarkAdvances
<1>2. TypeOK /\ MarkInv /\ LastReadHasReceipt /\ SecondMarkAdvances /\ [Next]_vars
        => MarkInv' /\ LastReadHasReceipt' /\ SecondMarkAdvances'
  BY MarkStep
<1>3. QED
  BY <1>1, <1>2, TypeInit, TypeStep, PTL DEF Spec

\* lastReadMessageId only names messages the user has a receipt for.
THEOREM LastReadHasReceiptCorrect == Spec => []LastReadHasReceipt
  BY MarkCorrect, PTL

\* Of two successful marks of one message by one user, one has moved
\* lastReadMessageId up to it.
THEOREM SecondMarkAdvancesCorrect == Spec => []SecondMarkAdvances
  BY MarkCorrect, PTL

\* lastReadMessageId never moves back, for any number of concurrent marks.
THEOREM LastReadForwardCorrect == Spec => LastReadForward
<1>1. TypeOK /\ MarkInv /\ LastReadHasReceipt /\ SecondMarkAdvances /\ [Next]_vars
        => [\A u \in Users : lastRead'[u] >= lastRead[u]]_vars
  BY MarkStep
<1>2. QED
  BY <1>1, MarkCorrect, PTL DEF Spec, LastReadForward
=============================================================================
