# TLA+ models of the nest-prac API server

The server is one NestJS process in front of MySQL (TypeORM, a pool of ten
connections), Redis, S3, an SMTP server and the Notion API. Requests are
handled concurrently: a handler runs until its next `await`, and between two
awaits of one handler any other handler, another process or the database may
act. That is where this system can go wrong, and what the models are about:
in every module an action is what happens between two awaits.

## 1. The system

| component | state | operations | what makes it correct | model |
|---|---|---|---|---|
| coupon issue (`src/src/coupon/coupon-issued`) | `coupon.issuedCount`, rows of `coupon_issued` and `coupon_issued_log` | general issue, first-come-first-served issue | no coupon beyond its limit, one per user, counter = rows, audit log = what happened, truthful answers, every call answered | `CouponIssue`, `CouponLedger` |
| coupon administration (`src/src/coupon/coupon.service.ts`) | rows of `coupon`, unique code | create, update, soft delete | unique codes, the code that was asked for, true conflicts | `CouponCatalog`; limits and flags in `CouponIssue` |
| coupon list (`getMyCoupons`) | Redis pages with a time to live | read through the cache | what is listed was true, not longer ago than the cache allows | `CouponCatalog` |
| chat rooms (`src/src/chat/service/chat-room.service.ts`) | `chat_room.memberCount`, `chat_room_member` | create, invite, leave | memberCount = rows - leaves, the right to the history as asked for, a leaver stays out | `ChatRoom`, `ChatMembership` |
| chat messages and read state (`chat-message.service.ts`, `chat-read-message.service.ts`) | messages, read receipts, `lastReadMessageId` | send, page back by cursor, mark read | the read mark only moves forward, pages miss and repeat nothing | `ChatMessages` |
| chat gateway (`src/src/chat/websocket`) | socket.io rooms, connections | joinOrLeftRoom, sendMessage, typing, readUpdated | only members and former members hear, once each, in order, and nothing that is not stored | `ChatGateway` |
| posts (`src/src/post`) | title, hits, likes, `post_like` | create, read, update, delete, like | likes = those who like, no view is lost unless views overlap, no edit is undone | `Posts` |
| authentication (`src/src/auth`) | refresh token in Redis, password in MySQL | login, refresh, logout, temporary password | a session keeps its token, the mailed password is the stored one | `Accounts` |
| users (`src/src/user`) | users and roles | create, update, change role | unique e-mail, the last administrator | `Accounts` |
| mail (`src/src/mail`) | - | send a temporary password | sent before the commit | a step of `Accounts` |
| file upload (`src/src/file-upload`) | S3 objects | upload one, upload several with rollback | a success is stored, what was rolled back stays gone, every call is answered | `FileUpload` |
| accounting (`src/src/accounting`) | transactions, journal entries and lines | Notion sync, generate entries, trial balance | entries balance, statuses are true, duplicates have a known cause | `Accounting`, `JournalLines` |
| application frame (modules, configuration, filters, pipes, middleware) | - | - | - | the pool in `CouponIssue`; nothing else has state |
| migrations, DTOs, containers, tests | - | - | - | not modelled |

How they interact. Every component keeps its state in MySQL, Redis or S3 and
none in the process (the socket.io rooms of the gateway are the exception), so
components meet in rows: administrators update the coupon row that the issue
handlers count in; markRead and getMessageByCursor read the member row that
inviteMember inserts and leaveRoom stamps; the gateway calls
`getActiveMemberOrThrow` and `createMessage`; a login compares the password
that a reset writes. All of them share the ten connections of one pool.

What is hard here: rows that are read before a transaction and trusted inside
it; two statements that must be one (a row and its counter, a deletion and a
write in Redis, an entry and a status); no transaction at all (coupon
administration, accounting, the cache); locks taken by a foreign key that nobody
sees in the code; a row that stays locked while a mail is sent; a second
connection taken while the first is held; commits in another order than ids;
unsigned columns; `Promise.all`, which stops waiting and not the work; a client
library that sends a request again; failures and crashes between any two of these. `PROJECT.json` lists each with its line.

## 2. The modules

A handler is a control state per call (`pc`, a phase) plus its local variables
(`job`). An action is everything a handler does from one `await` to the next, and
ends where the code awaits again. What a transaction has written but not
committed is not in the tables: it follows from the phase, is locked against
the others as InnoDB locks it, and the commit publishes it. A failing statement,
a lost connection, a deadlock victim and a crash all end the call and roll back
what was open; a commit, or a statement outside a transaction, that took effect
may still be answered with an error. `before[c]` remembers which calls had
been answered when `c` was made; two calls overlap if neither is in the other's.
Actions marked "Mutant" are never taken: they are mistakes that the properties
would notice.

**CouponIssue** models `createCouponIssueByUser` ("general") and
`createLimitCouponIssueByUser` ("limited") together: the phases and the actions
are shared, the order of the log row and the counter differs (`AtCount`,
`AtIssuedLog`).

| state | code |
|---|---|
| `coupon`, `granted`, `log` | committed rows of `coupon`, `coupon_issued`, `coupon_issued_log` |
| `call`, `pc`, `resp` | arguments, position and answer of each HTTP call |

`FindCoupon` is `findOneById` with the checks after it, `Begin` takes the
connection of the transaction, `InsertIssued` the `INSERT IGNORE`, `Count` the
increment (conditional for the limited kind), `DeleteIssued` the compensating
DELETE when it affected no row, `LogIssued`, `LogAlready`,
`LogSoldOut` the three log rows (the last two through `dataSource.manager`, on
another connection), `Commit` and `Rollback` the end of
`dataSource.transaction`. `DeadlockVictim`, `DbError`, `CommitUnacknowledged`,
`LogUnacknowledged` and `Crash` are what can go wrong, `AdminUpdate`, `AdminDelete`, `PeriodTurns`
what others do to the coupon row.

**CouponLedger** is what issuing promises without any of this: a book of holders
and quotas, where a request is served in one step. **CouponIssueRefinement**
maps the handlers to it. **CouponIssueInvariant** holds the inductive
invariants, **CouponProofs** the theorems.

**CouponCatalog** is the other side of the same rows. `tables` is the history of
`coupon` and of one user's `coupon_issued`, a version per write. `Create` is
createCoupon's look at the code, `UniqueCouponCode` one round of the loop of
`uniqueCouponCode` (with `findOne` on an undefined code, which finds any row),
`Insert` the INSERT; `Edit`, `CodeCheck`, `Update`, `Delete` the two handlers
that change a coupon. `MyCoupons` looks into the cache; on a miss `SelectIds`,
`SelectRows` and `CountAll` are the three queries of `getManyAndCount`, each seeing
another version, and `Store` writes the page. `Tick` lets pages expire. Its names
(`stage` for the phase, `MoveTo`, `Reply`) are none of `CouponIssue`'s, so that
one module holds the theorems of both.

**ChatRoom** models `createRoom`, `inviteMember` and `leaveRoom` of one room.
`member` is the row of each user (none, `leftDt` NULL, `leftDt` set), `history`
its `isReadHistory`. An invitation passes `InviteCheck`, `InviteReadRight`,
`InviteFilter`, `InviteInsert`, `InviteCommit`; a leave `LeaveFind`,
`LeaveMark`, `LeaveCommit`. A commit whose acknowledgement is lost has its effect
and is answered 500 (`Unacknowledged`). The inviter of the body and the caller are
two users, as in the code. **ChatMembership** is what the three promise together;
`ChatRoom` implements it, and that is why **ChatMessages** and **ChatGateway**
may use `ChatMembership` as their environment instead of the handlers.

**ChatMessages** models `createMessage` (an INSERT that takes an id and a time
stamp, and a commit that may come later than that of a greater id),
`getMessageByCursor` as a client uses it (check the membership, query, follow
`nextCursor`), and `markRead` (check, find message and receipt, then UPDATE or
INSERT). Time stamps have the precision of a second, as the columns have, and
are those of the beginning of a statement.

**ChatGateway** is the websocket side. `socket` is the state of a connection,
`joinedBy` whether it is in the room and by which call, `inbox` what it was sent.
`Receive` is WsJwtGuard, which verifies the token for each event;
`MemberCheck` is `getActiveMemberOrThrow` in joinOrLeftRoom and typing (sendMessage
has none); `JoinRoom`, `LeaveRoom`, `Typing` what follows it; `SaveMessage` and
`SaveMark` are the commits of createMessage and markRead, `Broadcast` the event
after them. `MembershipStep` composes it with the rooms: members come and go
over REST and nobody tells the sockets.

**Posts** is one post. `SelectPost` and `CountView` are `selectPost`, which
`updatePost` and `softDeletePost` call first; `UpdatePost` writes the entity with
the title that was read; `LikeFindPost`, `LikeFindRow` are postLike's reads before
its transaction, `LikeInsert` or `LikeToggle` and `LikeCount` the transaction, with
the locks on `post_like` and, through the foreign key, on `post`;
`LikeDeadlock` two first likes that each hold the share lock.

**Accounts** is the users, the tokens and the passwords. `Login`, `LoginSign`,
`LoginGetToken`, `Refresh`, `Logout`, `DeleteToken`, `SetToken` are the handlers
around the one key of a user in Redis; `Reset`, `ResetUpdate`, `ResetMail`,
`ResetCommit` autoUpdatePassword, whose UPDATE locks the row (`RowLocked`) until
the SMTP server has answered; `Create`, `CreateInsert`, `Update`, `UpdateName`,
`ChangeRole`, `UpdateRole` the user service. RolesGuard believes the roles in
the tokens that clients hold (`handed`).

**FileUpload** is the bucket. All files of a call are under way at once; a file's
last PUT is `sent`, `landed`, `acked` or `failed` for the client. The S3 client
sends a request again that failed or timed out (`PutRetried`, `DeleteRetried`, up to
`MaxAttempts` in all); those it has given up before S3 executed them are `astray`
and may land at any time (`StrayLands`), a DELETE may be executed as often as it
was sent. `PutFails` is a rejection for good, the first of which is that of
`Promise.all` and fixes what the rollback will delete: the keys acknowledged so
far. A PUT that is acknowledged later still marks its file `acked`, and nobody
deletes it.

**Accounting** is `syncNotion` (`Fetch`, `SyncFind`, `SyncInsert`) and
`generateJournalEntries` (`GenerateSelect`, `GenerateWithoutRule`,
`GenerateEntry`), both of which end a row with TypeORM's `save()`, which reads the
row again (`SaveLoad`) and writes the columns that differ (`SaveWrite`). `Edit`
is people at work in Notion. **JournalLines** is the arithmetic: VAT, lines,
balance and trial balance, in hundredths of a won.

The `MC` modules extend a module for TLC, with the order in which
interchangeable calls arrive. Theorems are in `CouponProofs`, `ChatRoomProofs`,
`ChatMessagesProofs`, `ChatGatewayProofs`, `PostsProofs`, `AccountsProofs`,
`FileUploadProofs` and `AccountingProofs`.

## 3. The runs

| run | instance | what it shows |
|---|---|---|
| `coupons` | issuing: 3 calls, 2 users, stock 1 or none, a connection to spare, limits left alone, fair | the handlers implement the ledger; counter, rows, log and answers agree; no over-issue; every call is answered |
| | the catalog: 3 calls on up to 3 coupons with 3 codes, or 2 lists of 2 pages while coupons are granted, renamed, deleted | codes are unique in every table; the code asked for unless it was taken; conflicts are true; what is listed was true within the time to live |
| `coupon_issue_pool` | 3 calls of one user, 2 connections, fair | **violated**: `RepeatIsLogged`. Transactions that each hold a connection wait for a second one for their log row, for good |
| `coupon_issue_relimit` | 2 calls, a limit set in between | **violated**: `IssueWithinTotal`. A general call counts past a limit set after its check |
| `chat_room` | 3 users, 3 calls, invitations of up to 2 with repetitions, fair | implements `ChatMembership`; memberCount = rows - committed leaves, also at the unsigned zero, where an UPDATE fails; every call is answered |
| `chat_room_history` | 3 users, an invitation with `giveReadHistory` | **violated**: `GiveReadHistoryGrants`. The invited gets no right to the history |
| `chat_room_leave` | 2 users, 3 calls | **violated**: `CountIsActiveMembers`. Two leaves of one member take two off |
| `chat_messages` | 1 reader, 2 users, 4 messages, 2 a page; or 4 marks of 2 messages | nothing readable at the first page is missed or shown twice; receipts and lastReadMessageId agree; it never moves back |
| `chat_gateway` | 2 users with a socket each, 4 events | what is told is stored; who hears was a member; who is in the room hears each event once and in order, who is out nothing |
| `posts` | the creation and 3 calls, 2 users, fair | views are lost only if they overlap; a title is undone only by an overlapping edit; likes = those who like, but for users who race with themselves; every call is answered |
| `accounts` | 3 calls, 2 users, fair | passwords and mails agree; a session has its token unless it was taken out; the last administrator falls only to a stale token; every call is answered |
| `file_upload` | 2 calls, 3 files in all, 2 keys, two requests sent twice, fair | a success is stored unless overwritten or rolled back under its name; what was rolled back comes back only by a PUT sent twice; every call is answered, after its rollback, too |
| `accounting` | 3 calls, 2 pages fetched one by one, 5 kinds of pages, fair | only entries of refunds do not balance; the trial balance is off by those and no more; PROCESSED and REVIEW are true; duplicates have one of three causes; a sync alone is complete; every call is answered |

Why the bounds are enough. Conflicts are between two calls, and a third is what
a bystander or a retry is: with three coupon calls by two users there is a
repeat, a rival and the last unit at once. A stock of one is the boundary; a
greater stock only delays it. The first call of a room or a post creates it, so
that the others conflict. Invitations of two users make both a list that
overlaps another and one with a repetition. A page of two with four
messages has a full last page, a page with one row over and a message committed
late with a lower id; readers do not influence each other, so one is
enough. Four marks are the least that can have two receipts and two updates in
the wrong order. A login, a refresh and a logout of one user are all that can
meet in one key; two resets and a third call of the row likewise. Three files in
one call are one acknowledged, one failed and one late; with two calls and two
keys both share a key or do not. Two attempts are a request and a retry: one is
given up and one counts. The client makes three by default; a third is a second
one astray, and the theorems are for any number. A room whose
creator names no one else has one member, whose two leaves bring the count to zero
and want it below. Two accounting pages in responses of one have a
page before and one behind the cursor; three calls are a sync between two
generations.

What the `MC` modules cut off, and why that loses nothing:

- `InOrder`: calls are interchangeable, so they arrive in the order of their
  numbers. Users, keys and codes are taken in order likewise (`MCInit`,
  `LowestFirst`, `KeysInOrder`). In `coupons` two of three calls are to one
  endpoint, which by counting is always so.
- `part` in `coupons`: CouponIssue and CouponCatalog share no variable and no property
  is about both, so each runs while the other stands still.
- `Settled` in `coupons`: when every call is past its check, administrators
  and time leave `active`, `open` and `deleted` alone until all are done. Handlers
  do not read them any more.
- `NobodyGives` in `chat_room`: `giveReadHistory` decides nothing but
  `isReadHistory`, which has a run of its own.
- `Unmixed` in `accounts` and `chat_messages`: tokens and passwords, and reading
  pages and marking, touch different data.
- `Beginning` in `chat_gateway`: the first two events are a join of user 1 and a
  message; everything may happen after them. A behaviour in which both users
  begin at once has the same steps with other calls.
- `Catalog` and `Listing` in `coupons`: creation and editing are checked
  from an empty table with no reader; lists are checked from two coupons, while one
  other call does what shows in them: its last write. There, `Failing` leaves out
  calls that fail without having stored a page: they show nothing.
- In `accounting` one page is edited, and only to what matters: a rule becomes
  applicable, or the page disappears. An edit of the other page is the same
  with the pages exchanged, but for the cursor, which passes both.

Bounds that do cut behaviour off, each with the guard it is in: `MaxMessages`
and `MaxTime` (no more messages, the clock stops), `MaxVersions` (a page is no
more edited), `MaxClock` and `MaxDelay` (ticks of ten seconds; a list takes at
most one), `MaxInFlight`, `FewRetries` (two requests to S3
are sent again), `MaxInvitees`, `Totals`, `PoolSize`. `MaxFiles` is three
where the controller takes up to five, `MaxAttempts` two where the S3 client makes
three.

Symmetry is declared only in `chat_messages`, over marks, where no liveness is
checked. A finite number of calls
ends, so `CHECK_DEADLOCK` is off and waiting is checked as liveness; it is on in
`coupon_issue_pool` and `coupon_issue_relimit`, where the coupon's period turns for ever.

Fairness is weak fairness of what serves a call (`Serve`, in FileUpload
`Settle`: every request of the S3 client ends with an answer, an error or a
timeout, whether or not S3 executes it): the event loop runs a handler whose await is over, MySQL executes a
statement that does not wait for a lock, the pool hands a free connection to a
waiting caller (its queue is first come, first served), InnoDB's deadlock
detection, on by default, picks a victim, and S3, Redis, SMTP and Notion answer
or time out. Nothing is assumed of clients, failures, crashes or administrators.
`CouponCatalog` and `ChatGateway` have no liveness: the loop that looks for a
code ends with probability one and not by fairness, and the gateway waits for
nothing but the database.

## 4. The theorems

All are proved by TLAPS for every value of the constants that the named ASSUMEs
allow (finite sets of users and calls, a positive pool and page size, at least
one socket).

*CouponProofs*, issuing. `SharedInv` is inductive with no assumption about
administrators: the coupon row is locked exclusively by who has counted
(`RowLockInv`), an uncommitted row is the only one of its key (`KeyLockInv`),
"issued" is logged once per grant. From it follow `CountMatchesRows`,
`AuditMatchesGrants`, `OneSuccessPerUser`. `QuotaInv` adds what needs limits to
stay put (`~LimitEdits`): the check before the transaction remains true
(`KindInv`), an uncommitted increment has its unit reserved and who is being
refused is refused for good (`StockInv`). From it follow `NoOverIssue`,
`SoldOutMeansExhausted`, and that the handlers implement the ledger: `Commit`
and `CommitUnacknowledged` are `Issue`, `Rollback` is `Refuse`, all else
leaves the book alone. None of these facts is inductive by itself:
`NoOverIssue` is kept by a commit only because the unit was reserved at `Count`
and the row has been locked since. `EffectInv` gives `AnswersMatchEffects`:
besides `SharedInv`, for who took the branch of a repeat the grant is committed
and stays (`RepeatInv`), and the log rows written outside the transaction, on
the second connection, are there as soon as the handler has passed them
(`OutsideLogInv`), so that an answer after a rollback still has its rows.

*CouponProofs*, catalog. `TablesInv`: the history only grows, each version is well
formed with unique codes and no coupon number ever vanishes; `Fields`: a call's
locals are of a table there was, and a list is not under way longer than a query
may take. `CodeInv` carries that the code a call was asked for has been
taken since its first look (`Had`) into the phases that believe it, whence
`CodeAsAsked`. `PageInv` says of a list under way that its parts were true when
their queries ran, of a cached one (`CacheTrue`) that it was true not earlier than
its expiry less the time to live and the time of a query; `PageWasTrue` is what
remains when the list is answered. All start from empty tables (`CatalogInit`).

*ChatRoomProofs.* `RoomInv` adds to `CountIsRowsLessLeaves` that an inserted,
uncommitted row is nobody else's (`PendingInv`: the unique key, and that the
count's UPDATE waits for every other inserter) and that nothing is pending
before the room exists. `HistoryInv` adds that no handler has read the right it
could pass on. `MembershipImplemented` maps `CreateRoom`, `InviteCommit` and
`LeaveCommit` to the abstract steps and the second of two leaves to a stutter.

*ChatMessagesProofs.* `PageInv` splits what the first page could see at the
cursor: at or above it everything was shown, below it everything can still be
found, because neither `joinedDt` nor a committed message changes.
`PagesComplete` is its special case at cursor 0; `NothingTwice` needs in
addition that whatever was shown is not below the cursor. `MarkInv` says that
who is about to update has a receipt; with it a successful second mark can only
be an update, so `SecondMarkAdvances`; `LastReadForward` follows per step.

*ChatGatewayProofs.* `JobMatches` says what a call in each phase has established:
behind the check its user has a row and had not left before; at the broadcast
its row is stored. `JoinMatches` carries the first over to the sockets that have
joined, which is `HearersWereMembers`. A call sends its events in the step that ends
it (`ServeEmits`); so all events are from calls that are over and their rows are
stored (`InboxTrue`, whence `EventsAreTrue`), a call that was over before another
was made cannot send behind it (`InboxOrdered`, whence `EventsInOrder`), and only
who has joined since the last leave is sent anything (`InboxQuiet`, whence
`QuietWhenOut`). `HearingInvariant` counts: the `hearers` of a call, in the room
since it was made, are there still, one that succeeded has told them all
(`ToldAll`), and none has told a socket twice nor the one that types (`ToldOnce`);
hence `RoomHears`.

*PostsProofs.* `Typed` and `Ordered` (what had been answered before a call began
is answered still) are shared. `HitsInvariant`: a view that has read `hits` has
not counted yet; what it read is not more than the views so far and, if no two
views overlap and it came after all of them, it is still what is stored.
`LikesInvariant` has three parts: `LikesAddUp`, the equation itself; `RowsAddUp`,
what a user who never raced has added and taken off is what the row says; and
`RowsAreFresh`, a toggle in flight has not counted and, unless its user races, the
row is still what it read. `TitleInvariant`: an edit that is about to write back
(`Holds`) a title older than a successful edit overlapped that edit (`Excused`).

*AccountsProofs.* `LastAdminFallsToStaleCaller` needs only that nobody changes the
own role (`KindMatches`). `MailInvariant`: the row lock admits one reset between
UPDATE and commit (`OneReset`), what it mailed is the last mail (`MailOfReset`), and
the last mail is from a reset of that user which is at its commit or over
(`LastMailKnown`); without the lock an earlier mail's password could be committed
last. `TokenInvariant` is `SessionHasToken` with `Ordered`.

*FileUploadProofs.* `Progress`: besides the types, only acknowledged uploads are
rolled back, and only by a call that fails (`OnlyAcked`), and a call that succeeds
has all its files acknowledged (`SuccessMeansAcked`); what a file sent once and did
not give up is not astray (in `UndoInv`), which is why a deleted file that was put
once is `Gone`. What a step does to one file is proved first, record by record
(`FileLands` to `FileOver`); `StoreSteps` reduces all steps to three: a PUT is
executed, a DELETE is, or neither. `Store`: what was rolled back and is `Gone` stays
so, and the key of every file that has landed is held, by that file, by a
rival of the same key or, after a rollback, by nothing (`KeyHolds`). With them
`RolledBackStaysGone` and `SuccessIsStored` follow.

*AccountingProofs.* The arithmetic first: an entry balances exactly if its VAT is
not negative, whatever the rule (`BalancedUnlessVatNegative`), and the VAT of an
amount that is not negative is not. With `Typed` (the types, and that each phase
has the locals it uses) this gives `OnlyRefundsUnbalanced`. `Base` adds the order of
calls. `OncePerPage` makes `DuplicatesExplained` inductive: the transaction of an
entry is still to be saved by its run or is no more READY, unless that run has
failed or a sync was not over before it (`EntryFollowed`); what a generation loaded as
handled is still (`LoadedHandled`); a later generation has not selected it
(`SelectedOnce`). `StatusInvariant`: PROCESSED, in the table or in a handler, has a
balanced entry (`ProcessedIsBooked`); if no sync overlaps a generation, every
row is justified by entries of its own content (`RowsJustified`), a generation
holds what is in the table (`SelectionCurrent`), and a row that a sync loaded as
READY is READY (`LoadedReady`). `SyncInvariant` is about a sync that overlaps nothing:
up to its cursor it has everything that was there throughout (`SyncHolds`; that
a page of a response misses none is `ResponseComplete`), what it loaded is in the table
(`SyncLoaded`), and the generations after it write no other content (`AfterSync`).
`TrialBalances` is a sum over sets. `Sum` is a sum as the library folds it, shown to
exist on every finite set, to be independent of the order, additive over disjoint
sets and summable key by key (`SumExists`, `SumTakesAny`, `SumUnion`, `SumByKey`).
The signed sum of all lines, taken by account, is the trial balance's difference
(`GapIsSum`); taken by entry, it is what each entry is off by (`GapOfEntries`), which
is nothing for the balanced ones. `BooksInvariant` adds that the entries are finitely
many with at most three lines and are marked as they are.

Only model-checked: liveness (`EveryRequestAnswered`, `EveryCallAnswered`), which
is out of the prover's reach, and the four properties of the runs that expect a
violation, which are false. Every other property of a run has a theorem. Proved and
not model-checked: the type invariants, but for `CatalogTypeOK`,
`OneSuccessPerUser`, `SoldOutMeansExhausted`, and `NobodyReadsHistory`, which says
that what `chat_room_history` shows is so in every room. The quota properties are not claimed while
limits are being edited (they fail: `coupon_issue_relimit`).

## 5. Findings

Four runs show the code doing something else than a comment or a document of the
repository says; each is described under `findings` with the quoted line:

- `coupon_issue_pool`: refusals that each hold a connection wait for a second one
  for their log row, for good, where `README.md:441` has every attempt tracked. This
  is the only run with as many calls as connections: `EveryRequestAnswered` is
  checked with a connection to spare and says nothing of an exhausted pool.
- `coupon_issue_relimit`: a limit set between a call's check and its increment is
  passed, where `README.md:41` says that over-issue is prevented.
- `chat_room_leave`: two concurrent leaves of one member take two off the number of
  people in the chat (`chat-room.entity.ts:44`).
- `chat_room_history`: `giveReadHistory` never has an effect, for the right is passed on
  only from who has it, and the creator does not (`chat-room.service.ts:70` and
  `135`), where `invite-room.dto.ts:14`, `chat-room.controller.ts:235` and
  `README.md:76` offer it.

Seen while modelling, without a run:

- The first mark of a message inserts a receipt and leaves `lastReadMessageId`
  alone (`chat-read-message.service.ts:72`), where
  `chat-read-message.controller.ts:45` says it is updated.
- `createRoom` accepts any number of members for a DM, which
  `chat-type.enum.ts:2` calls one-to-one and `inviteMember` keeps closed.
- Two concurrent leaves of one member are both answered "success", where the
  second should be told "already leave" (`chat-room.controller.ts:314`).
- `createdDt >= joinedDt` compares seconds: a message of the second of the
  invitation is shown to the invited although it was written before it; and one
  stamped before the join but committed after it is never shown to them.
- `getMyRooms` selects `unreadCount` at line 217 and then replaces the
  selection at line 226, so the count is always 0.
- `inviteMember` by a caller without a row fails with a TypeError (500) when
  somebody is left to add.
- Leaving a room over REST leaves the sockets in it, and `sendMessage` asks nobody
  for a membership: former members go on hearing, and anyone may send.
- "soldout" is logged twice for one refusal, and a call refused before
  its transaction, or answered 500, leaves no log row.
- `coupon.remainCount` is never maintained.
- The first coupon of an empty table, created without a code, is inserted without
  one and fails (500); a coupon created with the code of a deleted one silently
  gets a random code.
- A view sets `updatedDt` of the post.
- The rollback of an upload deletes the files acknowledged before the first failure;
  one whose PUT is answered after it stays in the bucket of a failed upload.
- The rollback of an upload deletes a file of the same name and day that another
  call has stored.
- A refresh verifies the signature of its token and never compares it with the
  one in Redis.
- Two administrators who demote each other at once leave none.
- The entry of a negative taxable amount does not balance, because a VAT line is
  written only for a positive VAT; it ends under REVIEW.
- A sync sets transactions that are processed back to READY, and the next
  generation writes their entries again.

## 6. Assumptions and what is left out

The locks are InnoDB's: an INSERT into `coupon_issued`, `chat_room_member` or
`post_like` locks the parent row in share mode through its foreign key, an UPDATE
locks exclusively, a unique key that another open transaction has written makes an
INSERT wait. Waiting for a pool connection has no timeout (`app.module.ts`);
that MySQL closes connections idle for eight hours would end the stall of
`coupon_issue_pool` by then. Connections used by administrators and other
components are not counted against the pool. A time stamp may be up to a second
older than the commit, no more. S3 replaces objects atomically and executes every
request that was sent to it at most once, maybe after the client gave it up and sent
it again. A command that Redis fails reaches the handler as an error (500), and may
have taken effect; whether the cache library passes such errors on is not to be seen
in `src/`, and if it swallows one, a login may succeed without its token stored,
which `SessionHasToken` does not cover.

Left out: contents and formatting of messages, posts, names and mails; logging to
the console; OpenAPI; the signatures and lifetimes of tokens (a client may hold
one or not, a socket's may expire) and the seven days after which Redis forgets a
refresh token; the layout of `exportExcel`; the read-only
lists; use of a coupon, for which there is no code. The Korean names of types
and VAT types are written in Latin letters.

Not modelled: migrations (run once), DTOs and decorators (their rules are the
ranges of the inputs), containers, the test page and the tests.

## 7. What is next

Every safety property that a run checks is proved. What could follow: the
lists that only read (posts, rooms, search), the seven days after which Redis
forgets a token; and the proofs that these additions would need.
