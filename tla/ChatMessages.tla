---------------------------- MODULE ChatMessages ----------------------------
(***************************************************************************)
(* The messages of one chat room: sending, paging back through them by     *)
(* cursor, and marking them read.  The members of the room change as       *)
(* ChatMembership allows, which ChatRoom implements.  Nobody has the right *)
(* to read what was written before joining (ChatRoomProofs), so            *)
(* isReadHistory is FALSE for everyone here.                               *)
(***************************************************************************)
EXTENDS Integers, FiniteSets

CONSTANTS
    Users,
    Sessions,     \* clients paging back: each asks, then follows nextCursor
    Marks,        \* calls of POST chat-rooms/:roomId/read
    MaxMessages,  \* bound on chat_message.id
    MaxTime,      \* bound on the clock, in seconds
    Limit         \* the query parameter limit, at least 1

ASSUME LimitPositive == Limit \in Nat \ {0}
ASSUME BoundsNat == MaxMessages \in Nat \ {0} /\ MaxTime \in Nat
ASSUME UsersNonempty == Users # {}

VARIABLES
    room, member,  \* as in ChatMembership
    clock,         \* CURRENT_TIMESTAMP(0)
    joined,        \* chat_room_member.joinedDt
    msg,           \* chat_message by id: state of the INSERT, and createdDt
    session,
    mark,
    receipts,      \* rows of chat_message_read
    lastRead       \* chat_room_member.lastReadMessageId, 0 when NULL

Membership == INSTANCE ChatMembership

memberVars == <<room, member, joined>>
vars == <<memberVars, clock, msg, session, mark, receipts, lastRead>>

-----------------------------------------------------------------------------
Ids == 1 .. MaxMessages
Times == 0 .. MaxTime

\* "pending": inserted by a statement that has not committed yet; "lost": that
\* statement failed, and the id is never used again.
Messages == [state : {"free", "pending", "sent", "lost"}, at : Times]

Sent == {m \in Ids : msg[m].state = "sent"}

\* user asks; since is the joinedDt read for the page; cursor is MaxMessages + 1
\* before the first page and 0 when nextCursor is null; got and shown are the
\* messages of all pages and how many items these had; start is what the first
\* page's query could see.
Session == [phase : {"idle", "checked", "more", "end", "refused"},
            user : Users, since : Times, cursor : 0 .. MaxMessages + 1,
            got : SUBSET Ids, shown : Nat, start : SUBSET Ids]

Mark == [phase : {"idle", "checked", "found", "new", "success", "refused",
                  "failed"},
         user : Users, id : Ids]

\* A time stamp is that of the statement's beginning, up to a second ago.
Stamps == {clock - 1, clock} \cap Times

-----------------------------------------------------------------------------
(* The members.                                                            *)

Join ==
    /\ Membership!Create \/ \E S \in SUBSET Users : Membership!Admit(S)
    /\ LET new == {u \in Users : member[u] = "none" /\ member'[u] # "none"} IN
       \E t \in Stamps : joined' = [u \in Users |-> IF u \in new THEN t ELSE joined[u]]
    /\ UNCHANGED <<clock, msg, session, mark, receipts, lastRead>>

Leave ==
    /\ \E u \in Users : Membership!Leave(u)
    /\ UNCHANGED <<joined, clock, msg, session, mark, receipts, lastRead>>

Tick ==
    /\ clock < MaxTime
    /\ clock' = clock + 1
    /\ UNCHANGED <<memberVars, msg, session, mark, receipts, lastRead>>

-----------------------------------------------------------------------------
(* createMessage, called by the gateway's sendMessage.                     *)

\* The statement takes the next id and the time ...
SendInsert(m) ==
    /\ room # "absent"
    /\ msg[m].state = "free"
    /\ \A k \in Ids : k < m => msg[k].state # "free"
    /\ \E t \in Stamps : msg' = [msg EXCEPT ![m] = [state |-> "pending", at |-> t]]
    /\ UNCHANGED <<memberVars, clock, session, mark, receipts, lastRead>>

\* ... and commits, in any order with other statements, or fails.
SendEnd(m) ==
    /\ msg[m].state = "pending"
    /\ \E state \in {"sent", "lost"} : msg' = [msg EXCEPT ![m].state = state]
    /\ UNCHANGED <<memberVars, clock, session, mark, receipts, lastRead>>

-----------------------------------------------------------------------------
(* getMessageByCursor, called until hasNext is false.                      *)

\* getActiveMemberOrThrow; the row it read is used by the query.
AfterCheck(old, u) ==
    IF member[u] = "active"
    THEN [old EXCEPT !.phase = "checked", !.user = u, !.since = joined[u]]
    ELSE [old EXCEPT !.phase = "refused"]

PageCheck(s) ==
    /\ session[s].phase \in {"idle", "more"}
    /\ \E u \in Users :
        /\ session[s].phase = "more" => u = session[s].user
        /\ session' = [session EXCEPT ![s] = AfterCheck(session[s], u)]
    /\ UNCHANGED <<memberVars, clock, msg, mark, receipts, lastRead>>

Readable(s) == {m \in Sent : msg[m].at >= session[s].since}

\* Mutant: msg.id <= :cursor.
UpToCursor(s) == {m \in Readable(s) : m <= session[s].cursor}

Below(s) == {m \in Readable(s) : m < session[s].cursor}

\* Mutant: a full page is taken for the last one.
IsPageWithoutProbe(seen, items, next) ==
    \/ /\ Cardinality(seen) <= Limit /\ items = seen /\ next = 0
    \/ /\ Cardinality(seen) > Limit /\ Cardinality(items) = Limit
       /\ \A a \in items, b \in seen \ items : a > b
       /\ next = 0

\* ORDER BY id DESC, taking one more than the page holds: if that many came,
\* the last one is dropped, and the page's last id is the next cursor.
IsPage(seen, items, next) ==
    \/ /\ Cardinality(seen) <= Limit /\ items = seen /\ next = 0
    \/ /\ Cardinality(seen) > Limit /\ Cardinality(items) = Limit
       /\ \A a \in items, b \in seen \ items : a > b
       /\ next \in items /\ \A a \in items : next <= a

\* What the reader holds after a page; old is what it held before.
AfterPage(old, seen, items, next) ==
    [phase  |-> IF next = 0 THEN "end" ELSE "more",
     user   |-> old.user,
     since  |-> old.since,
     cursor |-> next,
     got    |-> old.got \cup items,
     shown  |-> old.shown + Cardinality(items),
     start  |-> IF old.cursor = MaxMessages + 1 THEN seen ELSE old.start]

PageQuery(s) ==
    /\ session[s].phase = "checked"
    /\ \E items \in SUBSET Below(s), next \in Ids \cup {0} :
        /\ IsPage(Below(s), items, next)
        /\ session' = [session EXCEPT ![s] =
                           AfterPage(session[s], Below(s), items, next)]
    /\ UNCHANGED <<memberVars, clock, msg, mark, receipts, lastRead>>

-----------------------------------------------------------------------------
(* markRead.                                                               *)

At(k, phase) == mark[k].phase = phase
MarkGoto(k, phase) == mark' = [mark EXCEPT ![k].phase = phase]
Receipt(k) == <<mark[k].id, mark[k].user>>

\* getActiveMemberOrThrow.
MarkCheck(k) ==
    /\ At(k, "idle")
    /\ \E u \in Users, m \in Ids :
          mark' = [mark EXCEPT ![k] =
                      [user |-> u, id |-> m,
                       phase |-> IF member[u] = "active" THEN "checked"
                                 ELSE "refused"]]
    /\ UNCHANGED <<memberVars, clock, msg, session, receipts, lastRead>>

\* Mutant: any receipt of the user will do.
MarkFindAny(k) ==
    /\ At(k, "checked")
    /\ CASE mark[k].id \notin Sent -> MarkGoto(k, "refused")
         [] mark[k].id \in Sent /\ (\E m \in Ids : <<m, mark[k].user>> \in receipts) ->
                MarkGoto(k, "found")
         [] OTHER -> MarkGoto(k, "new")
    /\ UNCHANGED <<memberVars, clock, msg, session, receipts, lastRead>>

\* The message, and the receipt that decides between UPDATE and INSERT.
MarkFind(k) ==
    /\ At(k, "checked")
    /\ CASE mark[k].id \notin Sent -> MarkGoto(k, "refused")
         [] mark[k].id \in Sent /\ Receipt(k) \in receipts -> MarkGoto(k, "found")
         [] OTHER -> MarkGoto(k, "new")
    /\ UNCHANGED <<memberVars, clock, msg, session, receipts, lastRead>>

Greatest(a, b) == IF a > b THEN a ELSE b

\* Mutant: without GREATEST.
MarkUpdateTo(k) ==
    /\ At(k, "found")
    /\ lastRead' = [lastRead EXCEPT ![mark[k].user] = mark[k].id]
    /\ \E phase \in {"success", "failed"} : MarkGoto(k, phase)
    /\ UNCHANGED <<memberVars, clock, msg, session, receipts>>

\* "failed": the statement took effect, its answer was lost.
MarkUpdate(k) ==
    /\ At(k, "found")
    /\ lastRead' = [lastRead EXCEPT ![mark[k].user] = Greatest(@, mark[k].id)]
    /\ \E phase \in {"success", "failed"} : MarkGoto(k, phase)
    /\ UNCHANGED <<memberVars, clock, msg, session, receipts>>

\* Mutant: a duplicate key is ignored.
MarkInsertIgnore(k) ==
    /\ At(k, "new")
    /\ receipts' = receipts \cup {Receipt(k)}
    /\ \E phase \in {"success", "failed"} : MarkGoto(k, phase)
    /\ UNCHANGED <<memberVars, clock, msg, session, lastRead>>

\* A duplicate key (uq_message_user) fails the call.
MarkInsert(k) ==
    /\ At(k, "new")
    /\ IF Receipt(k) \in receipts
       THEN MarkGoto(k, "failed") /\ UNCHANGED receipts
       ELSE /\ receipts' = receipts \cup {Receipt(k)}
            /\ \E phase \in {"success", "failed"} : MarkGoto(k, phase)
    /\ UNCHANGED <<memberVars, clock, msg, session, lastRead>>

\* A statement fails, the process dies.
MarkFail(k) ==
    /\ mark[k].phase \in {"checked", "found", "new"}
    /\ MarkGoto(k, "failed")
    /\ UNCHANGED <<memberVars, clock, msg, session, receipts, lastRead>>

-----------------------------------------------------------------------------
Init ==
    /\ Membership!Init
    /\ clock = 0
    /\ joined = [u \in Users |-> 0]
    /\ msg = [m \in Ids |-> [state |-> "free", at |-> 0]]
    /\ session = [s \in Sessions |->
                     [phase |-> "idle", user |-> CHOOSE u \in Users : TRUE,
                      since |-> 0, cursor |-> MaxMessages + 1, got |-> {},
                      shown |-> 0, start |-> {}]]
    /\ mark = [k \in Marks |->
                  [phase |-> "idle", user |-> CHOOSE u \in Users : TRUE, id |-> 1]]
    /\ receipts = {}
    /\ lastRead = [u \in Users |-> 0]

Send(m) == SendInsert(m) \/ SendEnd(m)
Paging(s) == PageCheck(s) \/ PageQuery(s)
Marking(k) ==
    \/ MarkCheck(k) \/ MarkFind(k) \/ MarkUpdate(k) \/ MarkInsert(k)
    \/ MarkFail(k)

Next ==
    \/ Join \/ Leave \/ Tick
    \/ \E m \in Ids : Send(m)
    \/ \E s \in Sessions : Paging(s)
    \/ \E k \in Marks : Marking(k)

Spec == Init /\ [][Next]_vars

-----------------------------------------------------------------------------
(* Properties.                                                             *)

\* Rows, pages and marks hold values of their kind.
TypeOK ==
    /\ room \in {"absent", "GROUP", "DM"}
    /\ member \in [Users -> {"none", "active", "left"}]
    /\ clock \in Times
    /\ joined \in [Users -> Times]
    /\ msg \in [Ids -> Messages]
    /\ session \in [Sessions -> Session]
    /\ mark \in [Marks -> Mark]
    /\ receipts \subseteq Ids \X Users
    /\ lastRead \in [Users -> 0 .. MaxMessages]

\* Paging back to the end shows everything the reader was allowed to see when
\* the first page was read, while messages are sent and committed out of the
\* order of their ids.
PagesComplete ==
    \A s \in Sessions : session[s].phase = "end" => session[s].start \subseteq session[s].got

\* No message is shown on two pages.
NothingTwice ==
    \A s \in Sessions : session[s].shown = Cardinality(session[s].got)

\* The strengthening for the pages: the part of start that is at or above the
\* cursor has been shown, the rest can still be found by the query, because
\* neither joinedDt nor a sent message changes.
PageInv ==
    /\ room = "absent" => \A u \in Users : member[u] = "none"
    /\ \A s \in Sessions :
          /\ \A m \in session[s].got : m >= session[s].cursor
          /\ \A m \in session[s].start :
                /\ m \in Sent /\ msg[m].at >= session[s].since
                /\ m >= session[s].cursor => m \in session[s].got
          /\ session[s].phase = "idle" =>
                session[s].start = {} /\ session[s].cursor = MaxMessages + 1
          /\ session[s].phase = "end" => session[s].cursor = 0
          /\ session[s].phase \in {"checked", "more"} =>
                /\ member[session[s].user] # "none"
                /\ session[s].since = joined[session[s].user]

\* The strengthening for the marks.
MarkInv ==
    \A k \in Marks :
        At(k, "found") \/ At(k, "success") => Receipt(k) \in receipts

\* lastReadMessageId never moves back, in whatever order marks arrive.
LastReadForward ==
    [][\A u \in Users : lastRead'[u] >= lastRead[u]]_vars

\* It only ever names a message for which the user has a receipt.
LastReadHasReceipt ==
    \A u \in Users : lastRead[u] # 0 => <<lastRead[u], u>> \in receipts

\* Of two marks of one message by one user that both succeed, one has moved
\* lastReadMessageId: a first mark that loses the race for the receipt fails.
SecondMarkAdvances ==
    \A k, l \in Marks :
        k # l /\ At(k, "success") /\ At(l, "success") /\ Receipt(k) = Receipt(l)
            => lastRead[mark[k].user] >= mark[k].id
=============================================================================
