# A verification development of the tutoring platform (LMS)

TLA+ models of the NestJS backend under `src/src`, TLC configurations that check them on small
instances, and TLAPS proofs that hold for every instance. Paths below are relative to `src/src`
unless they start with `prisma/`.

Run `tlc -config <run>.cfg <Module>.tla` for a run (`PROJECT.json` lists which module goes with which
configuration) and `tlapm <Module>.tla` for the proofs of `LMSInvariants` (whose lemmas `LMSProofs`
cites) and of each `...Proofs` module.

## 1. Inventory

A teacher publishes sessions with dates, slots and a price; a student books a date, pays through
Stripe, joins, may cancel before joining, and may ask for another date once the session has been
started. A cron job marks as completed what was joined an hour ago. Around this core there are
accounts with their mails, an administrator's moderation, notifications, a socket gateway with chat
and calls, ratings and reports, uploaded files, and the content of the public site.

One Node process serves everything. Its state is a PostgreSQL database reached through Prisma, two
in-memory maps of the gateway, Redis (refresh tokens, the mail queue), files on disk or S3, and
Stripe. Hardly a service opens a transaction around its writes: **the unit of atomicity is one Prisma
call**, and every `await` is a point where other requests, the cron job and the webhook run.

| Component | State it keeps | Operations that change it | What is hard about it | What makes it correct |
|---|---|---|---|---|
| Students service (`modules/students`) | `book_sessions`, `reschedule_sessions`, the counter `create_sessions.slots_available`, `rate_sessions` | `bookASession`, `joinsession`, `cancellSession`, `requestRescheduleSession`, `rateASession` | every check and its write are separate statements | joined is paid; joined excludes cancelled; a slot is booked once; a request and its flag agree |
| Teacher service (`modules/teacher`) | `create_sessions`, decisions in `reschedule_sessions`, `started_at` of bookings, `pdf_attachment` and files | `create`, `update`, `startASession`, `remove`, `handleRequest`, `uploadMaterials`, `deleteMaterialFromSession` | two-statement starts; deletions under everything else; whole-list writes | started bookings have a started session; decisions are final; what is listed is stored |
| Scheduler (`SchedulerService.ts`) | completion of bookings and sessions | a batch every ten minutes | a list read once and worked off; a deleted session throws and ends the batch | completes only what was held; eventually all of it; sessions only after a booking |
| Stripe payment (`modules/payment/stripe`) | `payment_status` of bookings; intents and events held by Stripe | `pay`, `handleWebhook` | duplicated, reordered events; errors answered with a 2xx | paid is charged, and charged becomes paid |
| Pages (`students`, `teacher`, `admin/tutor`, `admin/student`, `admin/sessions`) | none | none: about thirty lists, each with filters of its own on flags or on the status text | columns written by four handlers in any order are read by different filters | the pages agree with one another; what is shown as earned was paid |
| Accounts (`modules/auth`, user and ucode repositories) | `users`, `ucodes`, Redis tokens, Stripe customers | register, verify, forgot, reset, change password, change of mail, log in and out, Google and LinkedIn | writes to four stores per registration; codes looked up by address and rows written by id some statements later | an address names one account; a deleted account stays deleted; passwords are written by their owner; a code is used once; who registers gets a link |
| Moderation (`modules/admin/tutor`, `student`, `user`) | `users` | accept, reject, restrict, unrestrict, approve, create, update, delete | a restriction is two columns, lifting it resets one; a decision and its letter are two steps | the last letter is the decision on the page; counts add up |
| Mail queue (`mail/`) | a Redis queue | add, process | one attempt per job | a letter is sent or something failed |
| Notifications repository (`common/repository/notification`) | `notification_events`, `notifications` | `createNotification`, the admin's `remove`, `removeAll` | find-or-create in two statements, mostly not awaited | an event once; a notification linked to what was asked |
| Contact, support, questions (`modules/admin/contact`, `help_and_support`, `faq`; `modules/application/contact`, `faq`) | `contacts`, `help_and_supports`, `faqs` | create, update, remove, toggle, `batchCreate` | notifications in a loop nobody awaits; a batch of deletions, updates and inserts row by row | every administrator is told; a batch leaves what it names |
| Message gateway (`modules/chat/message/message.gateway.ts`) | maps `clients`, `activeUsers`; `users.availability`; recordings on disk | connect, disconnect, `join`, relays, recordings | the maps change at once, the table an await later; crashes forget the maps | messages reach an open socket; the status follows the connection |
| Conversations and messages (`modules/chat`) | `conversations`, `messages` | create and remove a conversation, send, set a status | deletion under sending; store, touch, announce in three steps | a message has a conversation and is announced; one conversation a pair |
| Ratings and reports (`modules/extras`) | `rate_sessions`, `reports` | `giveRatingToTeaher`, `createReport` | the stage of a booking moves between check and write | reviewed means held |
| Uploaded files (`common/lib/Disk`, `uploadMaterials`, `createUser`, `updateUser` of auth) | files; names in `pdf_attachment`, `avatar`, `certifications` | put, delete | the driver swallows its errors; files are unlinked before the row is written | a link leads to a file |
| Site content (`modules/admin/website-info`, `web-infro`) | `website_infos`, `blogs`, `team_members`, images | CRUD by an administrator | "first row or create" in two statements | one description; images exist |
| Inbox of a user (`modules/application/notification`) | none | none: generated text | | |
| Payment transactions | `payment_transactions` | updates and deletes | `createTransaction` is never called, so the table is empty | nothing to say |
| Guards, abilities, PayPal, seed | none read back | | | |

Interactions: the services share tables (`Store`, `Users`) and the disk (`Disk`); they call
`createNotification` mostly without `await` and look up `MessageGateway.clients` to push a
notification; Stripe calls the webhook; the cron job is started by a timer; registration and
moderation queue letters a worker sends; deleting a session clears `create_session_id` of its bookings
(ON DELETE SET NULL); deleting a conversation deletes its messages (CASCADE).

## 2. Modules

| Module | Models | Composed with |
|---|---|---|
| `Store` | rows of the core's tables, requests in progress, clock, crashes and failing statements | base of the core |
| `StudentsService`, `TeacherService`, `Scheduler`, `StripeController` | one action per statement of each handler | extend `Store` |
| `LMS` | all of them interleaved; the properties of the core | the four above |
| `Listings` | what students, teachers and administrators are shown of the core, one operator per page | extends `LMS` |
| `BookingContract` | what a booking promises: made, paid, joined only if paid, completed only if joined, nothing taken back | implemented by `LMS`; used by `Reviews` |
| `SessionContract` | what a session promises: offered under an id of its own, booked while it is there, completed after a booking of it, withdrawn for good and from all its bookings at once | implemented by `LMS` |
| `Users` | tables `users` and `ucodes`, tokens, the mail queue, requests in progress; the statements of the repositories | base of the accounts |
| `AuthService`, `Moderation` | one action per statement of each handler of `auth` and of the administrator; the mail worker | extend `Users` |
| `Accounts` | all of them interleaved, failing and dying | the two above |
| `AccountPages` | what administrators are shown of users, and the counts | extends `Accounts` |
| `AccountContract` | what an account promises: opened under a free address, verified, moved to a free address, closed for good | implemented by `Accounts` |
| `Disk` | files, requests on them, writes and deletions that fail silently | base of the uploads |
| `Materials`, `Profile`, `SiteContent` | files of a session, of an account, of the site | extend `Disk` |
| `Uploads` | the three on one disk | the three above |
| `NotificationRepository` | `createNotification` and the admin's removals | used by `Support` |
| `Support` | contact messages, tickets, questions, and the calls of `createNotification` they start | extends `NotificationRepository` |
| `Gateway` | connections, maps, stored and announced status | by itself: the others only read `clients` to push |
| `Chat` | conversations, messages, statuses | by itself |
| `Reviews` | ratings and reports | on top of `BookingContract` |
| `MCLMS`, `MCAccounts`, `MCSupport`, `MCUploads` | symmetry and later initial states for TLC | |
| `LMSInvariants`, `LMSProofs`, `AccountsProofs`, `UploadsProofs`, `SupportProofs`, `GatewayProofs`, `ChatProofs`, `ReviewsProofs` | proofs | |

**How state corresponds to code.** A table is a function from ids to rows; `NULL` is an id without a
row, `Deleted`/`Gone` one whose row was deleted (ids are random and never come back).
A request is a small process: its first action reads, decides, and stores in `handler[h]` (or
`request[r]`, `work[w]`, `call[c]`, `task[..]`) the name of the next statement and exactly the local
values that statement uses; each further action is one Prisma call, one file operation or one call of
Stripe or of the queue. An early return or a thrown error ends the request. Refused requests change
nothing and are not steps. Statements without effect on a decision (a look-up whose result is only
returned, notifications of the core) are folded into the step before them.

History variables decide nothing. `overlap`, `crossed` and `disturbed` record that two requests (or
connections) met or that one failed halfway, so that one run states both what holds always and what
holds as long as nothing overlaps; `held`, `spent`, `reused`, `uploaded`, `deleted`, `cut`,
`dropped`, `met`, `asked` and `owed` record what happened to an account, a code, a file, a row, a
message or a notification, so that properties can relate a state to an earlier one.

`createSession`, `bookSession`, `reschedule` are the tables of `prisma/schema.prisma`;
`reschedule` is keyed by booking because of `@@unique([user_id, book_session_id])` and because only
the booking's student may insert. Integer flags holding 0 or 1 are BOOLEANs. `Number()` of the slot
counter is modelled with its `null -> 0` and NaN results. Dates are readings of the clock. A password
stands for who chose it (a user, the reader of an address, an administrator), and `verified` for the
address of the letter that proved it, because those are what the properties tell apart. A code can be
presented only by somebody who reads a letter it came in.

**Assumptions of the models.**
- The core deletes no user, and the type of an account does not change under a booking. (The deletion
  of users is modelled in `Accounts` and in `Gateway`.)
- `update` of a session writes whatever columns its body names: every column of `UpdateSessionDto` is
  optional, and the validation pipe strips no others. `Bodies` gives every column the choice of its old value and, if
  it is in `BodyColumns`, of any new one. `BodyAssumption` leaves out the columns no form has
  (`user_id`, `is_started`, `is_completed`, and `pdf_attachment` in `Materials`): a client that sent
  those could hand a session over, start or complete it by hand or rename its files, and what is said
  of starts, completion, owners and files would not hold. Each run gives `BodyColumns` the column its
  properties depend on; the proofs hold for any of the three.
- Two runs of the cron job do not overlap: a batch takes less than ten minutes.
- Stripe delivers an event at least once, in any order, and repeats it only until answered with a
  2xx, or by accident after that.
- Files of an upload have fresh names (`StringHelper.randomString`); two codes are never equal.
- The core, the accounts, the uploads and the support tables share no column that one decides on and
  the other writes, except the deletion of users and sessions, which each models for itself.
- A finite set of ids can be used up: `BookCreate`, `PayIntent`, `CreateEvent`, `Insert` and the like
  wait when it is, which removes behaviours and adds none.

**Bounds.** `MaxClock` ends time, `MaxFaults` (`MaxFailures`, `MaxCrashes` in `Gateway`) counts
crashes, failing statements, lost letters and failing file operations, `MaxMail` the letters waiting,
`MaxUpload` and `MaxCertificates` the files of one request; `Handlers`, `Requests`, `Workers`, `Calls`
are how many requests are served at once. Because of these bounds the system may stop, which is why
the configurations say `CHECK_DEADLOCK FALSE`; nothing in the code waits for anything but its own
next statement.

## 3. Runs

The hours of the code are scaled: `OneHour = 1`, the reschedule window opens at `TenSeconds = 1` and
closes at `ThreeHours = 2` after the start, and the clock goes to 2, so that every guard on time is
seen before, at and (by `<=`) after its boundary. Likewise a one-time code lives for one unit and a
verification link for none or two, on a clock that goes to one.

Each accounts run starts from some of the states `Users!Init` allows: `accounts_register` from an empty
table, the others from verified users (`MCAccounts`).

| Run | Shows | Instance and why it is enough |
|---|---|---|
| `lms_one` | types; references; what was read still holds when acted upon; paid was charged; completed was held; flags, starts and requests reach both their rows; the pages of students, teachers and administrators agree in every state; the refinements of `BookingContract` and `SessionContract` | two teachers, one booking of one session, two requests, one fault: every pair of handlers interleaves at every statement, with a crash or failure anywhere. The properties speak of one booking (and its session) at a time, and two requests are what a race needs. The pages see the booking unpaid and paid, cancelled, requested, completed and without its session, and each of these while the writes of another handler are halfway. The theorems of section 4 remove the bounds |
| `lms_slots` | the slot counter stays between a value its teacher gave it and that value less the bookings: lost, never doubled, never more than was offered | three bookings of two students, two requests that overlap, edits that set the counter or leave it, counters given as 5, missing (`NULL`) and no number (`NaN`), one fault; no payment and no time, which the counter does not depend on |
| `lms_sequential` | joined excludes cancelled, no double booking, decisions final, requests only while open; a charge reaches its booking unless something fails; every held booking gets completed, and its session follows unless something fails or it is deleted | starts from either of two states the services reach: `HeldInit`, two bookings of the same or of different sessions, paid and joined, with a cron batch to come; and `BookedInit`, a booking whose first payment was canceled, with another to be made. One request at a time, one fault, sessions deleted under the batch, fair. The checks of the services are right; only interleaving breaks them (a second handler breaks the first four, as `lms_double_booking` shows for one; with a single one they are proved for any tables) |
| `accounts_register` | the refinement of `AccountContract`; who is registered gets a letter with a code, unless something fails or the user is deleted | two accounts racing for one address through registration, two social profiles and an administrator's form, with deletion, approval and verification in between; codes expire (`MaxClock = 1`); one fault; fair |
| `accounts_codes` | a password was chosen and a verification proven by the owner of the account or a reader of an address it has had (as long as no address changes hands); a code changes one row once unless requests on it overlapped or one failed | two verified students, three addresses, two codes, two requests, one fault; codes are presented in every order with every other step. The clock stands still (`MaxClock = 0`): no code expires here, which leaves every code usable for longest; expiry is part of `accounts_register` |
| `accounts_moderation` | at rest the last letter is the decision on the page, unless decisions overlapped or a letter was lost; nobody is counted as active and suspended; lists are as long as counts | one tutor, two requests of administrators, two letters waiting, one fault: the properties speak of one account |
| `gateway` | the entry of a user names an open socket of that user, in any interleaving; status and connection agree where connections do not cross; a lasting connection makes its user online for good | one user and three sockets (a clean connection after two crossed ones), a failing statement, a crash. Users meet in no line of the gateway but the keys of its maps |
| `support` | every notification that is there tells, by its event, what its call was asked to tell; events are unique without overlap, and afterwards those there and those about to be made are no more than calls; what each administrator is owed of tickets and of messages is on its way, once; a batch that goes through leaves what it names, on every row nobody else made or removed since it began | two administrators, so that every message starts two calls at once, and calls of another type among them; two questions, one fault. Two events are enough for a bound of two: the third of a kind shows as a call about to insert beside two rows |
| `uploads` | links of sessions and of the site lead to files, or to writes the driver lost; without overlap a session's list is exact; what the columns of a profile name is on disk, and so is what its links lead to, unless an update is about to replace it or one was cut short since; one description of the site, and after an overlap no more, with those about to be made, than requests | three files, two requests of any of the three modules on one disk, one fault (a failing statement, a lost write, a file that is not unlinked, a crash). Two descriptions are enough for a bound of two, as two events are |
| `chat` | a message has its conversation; a stored message is announced, or its request is at it, or a failure struck that request; without overlap a pair has one conversation, and after one no more, with those about to be made, than requests | two users, conversations, messages and requests, one fault |
| `reviews` | a review is of a completed booking and a rating of an own one; nobody rates a booking twice, by either handler; reports are between users of different types, and between a student and a teacher only with a booking | one user of each type, one booking moving by the contract at any time, two ratings, two requests, one fault |

One run checks a sentence the code does not keep, and TLC shows how; the finding in `PROJECT.json`
quotes it: `lms_double_booking`, where the look for an earlier booking and the insert are two
statements, and a student books the same slot twice.

### Fairness

`LMS!Fairness`: weak fairness of each request's next statement (the event loop runs every
continuation whose promise is settled), of the cron job's start and steps (a timer), and of the
delivery of each success event (Stripe sends it until it is answered). Nobody is obliged to make a
request, to pay or to let time pass. Failing statements are allowed; where a promise does not survive
one, the property says `faults > 0`: a webhook answers 2xx to an event it dropped, and a session whose
only booking is completed is never selected again.
`Accounts!Fairness`: weak fairness of the next statement of a registration and of the mail worker,
which runs whenever a job waits. Nobody has to register, to read a letter or to decide.
`Gateway!Fairness`: weak fairness of each handler's continuation; nobody has to connect.

### Disagreements met while modelling

Texts of the repository that the code does not keep, found by reading a handler for its translation.
Each is in the model as the code does it; only the first is a run, since the others are single lines
that need no interleaving to be seen.

- The double booking of the run above.
- `students.service:60` compares `slots_available` the wrong way round for its message (line 62):
  bookings go on when no slot is left, and the counter goes below zero.
- `message.gateway:80` overwrites the entry of a user with a second connection, whose closing makes
  the first unreachable, against the comment at line 48.
- `extras.service:157` has `&&` where its comment (line 152) needs `||`: anybody may review a
  completed booking. `rateASession` does not look at the stage at all.
- A session may be deleted under its bookings, whose pages then read columns of a null session and
  throw (`students.service:746`, `:267`, `admin/student/student.service:440`), although
  `students.service:781` has a text for sessions that are gone.
- `students.service:265` shows the booking's own `user_id` as `teacherId`, and line 338 the student's
  name as `teacherName`.
- `auth.controller:126` answers "We have sent a verification link" also to a registration that failed
  after its row was written.
- `teacher.service:42` refuses only tutors whose application is pending, so a rejected one creates
  sessions, against its message at line 45.
- `tutor.service:226` announces a rejection with the type `teacher_application_accepted`.
- Lifting a restriction resets one of its two columns: the user is counted neither as active nor as
  suspended.
- `auth.service:1285` makes a new customer at Stripe at each sign-in with Google or LinkedIn.
- The local driver catches every error, so 'Image upload failed' (`web-infro.service:40`, `:89`) is
  never answered; and the logo and favicon of the site are never written at all, because the
  interceptor passes arrays and `files.logo.buffer` (`website-info.service:49`) is undefined.
- `auth.service:55` stores the text 'null' for a missing picture, which `me` (466) turns into a link;
  and its links to certificates (461) lack a slash, so that both lead nowhere (`ProfileLinks`).
- `help_and_support.service:114` notifies of the status that was, and notifies nobody, since no code
  gives a ticket a user.
- Two administrators make a ticket start two overlapping `createNotification` calls, which race to
  create the event the comment 'avoid duplicates' speaks of.
- A batch of questions that names a row deleted in between has deleted what it does not name, and
  then ends halfway.
- A late `offline` overwrites the `online` of the next connection (the proviso of
  `StatusFollowsConnection`); names registered for calls may outlive their socket (those of
  `RoutesToOpenSocket`); a booking made after its session was started is never stamped.

## 4. Proofs

Proved for any number of users, rows, requests, faults and any clock:

| Theorem | Property | Rests on |
|---|---|---|
| `LMSProofs!Invariance` | `Spec => []IInv` | `StoreAssumption`, `RowAssumption` |
| `TypeCorrect`, `ReferencesHold`, `ReadsHold`, `PaymentCorrect`, `CronCorrect`, `RequestCorrect`, `StatusCorrect`, `StartCorrect` | the invariants of `lms_one` but `PagesAgree` | `Invariance` |
| `SlotsCorrect` | `SlotsAccounted` | `Invariance`, `TablesCorrect` |
| `EarningsCorrect` | `EarnedWasPaid`, for any number of users | `Invariance` |
| `PagesCorrect` | `PagesAgree` | `Invariance`, `TablesCorrect`; `PagesAssumption` |
| `SoloJoinsOrCancels`, `SoloBooksOnce`, `SoloDecidesOnce`, `SoloRequestsWhileOpen` | `JoinedNotCancelled`, `NoDoubleBooking`, `DecisionFinal`, `RequestedWhileOpen` | `SoloInvariance`; `OneAtATime`: a single handler |
| `ContractImplemented` | `Spec => ContractKept`: the services implement `BookingContract` | `Invariance` |
| `SessionsImplemented` | `Spec => SessionsKept`: the services implement `SessionContract` | `Invariance` |
| `AccountsImplementContract`, `OneAccountPerAddress` | `Spec => AccountKept`: the handlers of accounts implement `AccountContract` | `UsersAssumption`, `RowsAssumption` |
| `CodesCorrect`, `WritersCorrect`, `LettersCorrect`, `CountsCorrect` | `CodeUsedOnce`, `WrittenByItsOwn`, `LastLetterIsTrue`, `CountedOnce` | the same |
| `UploadsProofs`: `LinksCorrect`, `ListCorrect`, `ProfileCorrect`, `DescriptionCorrect` | `LinksResolve`, `ListIsExact`, `ProfileResolves`, `OneDescription` | assumptions of the modules; the last: finitely many requests |
| `SupportProofs`: `LinkingCorrect`, `AdminsCorrect`, `BatchCorrect`, `EventsCorrect` | `LinkedAsAsked`, `AdminsTold`, `FaqIsBatch`, `EventsUnique` | assumptions of `Support` and `NotificationRepository`; `AdminsCorrect` and `EventsCorrect`: finitely many calls, the first also finitely many requests |
| `GatewayProofs`: `RoutingCorrect`, `StatusCorrect` | `RoutesToOpenSocket`, `StatusFollowsConnection` | that of `Gateway` |
| `ChatProofs`: `NoStrayMessage`, `MessagesAnnounced`, `OneConversation` | `MessageHasConversation`, `StoredIsAnnounced`, `ConversationsUnique` | that of `Chat`; the last: finitely many requests |
| `ReviewsProofs!ReviewsCorrect` | `ReviewsBacked` | `BookingContract` moves the bookings |

Assumed are only types of the constants and that special values (`NULL`, `Deleted`, `Gone`, `NaN`)
are no ids, rows, pages or integers; what more a theorem needs is the ASSUME of its statement. The
core, the uploads, the chat and the rest start from empty tables. The accounts start from any rows:
`Users!Init` allows every finite table in which addresses differ, a password is of somebody who may
choose it, a verification is of the row's address, and a restricted row is not active (`Left`), which
is how the handlers leave it.

**The core.** `IInv == TypeOK /\ References /\ PaymentInv /\ CronInv /\ RequestInv /\
StatusBackedByFlags /\ StartReachesSession`. The properties are not inductive by themselves, because a
handler writes what it decided from an earlier read: "joined is paid" is preserved by `JoinUpdate`
only if the booking is *still* paid. The strengthening is therefore `ReadsStillHold`, whose parts say
for each statement in flight what remains true of the row it was decided on: a join in flight is of a
paid booking; a success event is of an intent that succeeded; a booking in the cron batch is joined
and over, and belongs to the session selected with it unless that is deleted; a request past its
look-up is of a started booking; a decision in flight is of an existing row. Each holds because what
it reads is monotone: no code takes back a payment, a join, a completion, a start, or an intent's
success. `LMSInvariants` states once what each write does to a row and then proves one step lemma per
part of `IInv` with one case per action; `LMSProofs` combines them and proves the refinements from
`IInv`. What a teacher is shown as earned follows from the chain completed session - completed
booking - joined - paid.

*The slot counter.* `SlotsAccounted` compares a counter with a number of rows, and a booking in
progress holds a counter it read when there were fewer. `SlotsInv` says of both, the stored counter and
the one read, that they lie between a value a teacher gave and that value less the bookings there are;
a further booking lowers the lower bound by one, which pays for the decrement of the counter read, and
nothing but an edit raises a counter. Missing counters count as 0 and what is no number stays none. The numbers exist because
the tables are finite in every state (`TablesCorrect`) though the ids are not: a step of the contract
makes one booking at most, and a step of the teachers one session.

*A session and its bookings.* `SessionContract` sees of the two tables which ids are there and which are
gone, the flags, and the reference of each booking. Four handlers write a session whose id they read
earlier, the cron job among them; that none of them revives a deleted one is a step lemma for each
(`BeginStep`, `CloseStep`, `CounterStutters`): an update of a row that is gone matches nothing. `CloseStep`
needs `CronReads`, since the mark of the batch is acted upon a statement after the booking was completed,
and `WithdrawStep` is the foreign key. `QuietOrWrite` disposes of all the other steps.

*The pages.* `PagesAgree` needs hardly more than `IInv`, since each page is a query on a state; only that a booking
without its session comes of a deletion is an invariant of its own (`OrphansInv`). A
completed booking is joined (the teacher's filter and the student's), a completed session has a
completed booking, and a booking has one session, so the map from ended bookings to their sessions
covers the completed ones; a pending status text excludes the flag (`StatusBackedByFlags`), so the two
counts of a student are of disjoint sets; a booking whose session is not gone leads to a row and its
teacher (`References`), who is then on the administrator's page with that student. The counts exist
because the tables are finite in every state.

*One request at a time.* Four promises are broken by two overlapping requests, as the runs show.
`SoloInv` adds to `IInv` what a single request in progress read (`Fresh`): the booking it is about to
join is not cancelled, the slot it is about to book is not taken, the request it is about to decide is
still open. With one handler nobody writes these columns in between: the cron job, Stripe, a crash and a
failing statement are all allowed, and touch none of them.

**The accounts.** The mapping shows of a row whether it is there, verified and under which address.
The invariant is small (`AInv`: the types of users, requests and letters, and `AddressesUnique`), and
the work lies in the refinement: every statement of every handler is shown to do one of five things to
what a user can see of an account: nothing, open it (`InsertStep`), change a column that is not seen
or verify it (`EditStep`), move it to a free address (`MoveStep`), or close it (`CloseStep`).
No handler reopens a row it read before it was deleted, because each update is by id or address of an
existing row; and the stale check for a free address does no harm, because the unique index asks again
in the same statement as the write. `Insert` without that index is the mutant of this property.

*Codes.* `CodeInv` says who holds a code: whoever presented it, from its look-up to the statement that
deletes it. A code that is not `disturbed` has one holder at most, is still there while it is held, and
is spent only by a holder about to delete it, or gone. A second use needs a second holder, and the look-up
of that one finds the code spent (and gone) or held (and then both are `disturbed`). A request that
fails or dies in between puts the code it held into `disturbed` by `HalfDone`.

*The last letter.* Between a decision and its letter there are two statements and a queue. `LetterInv`
says of an account whose decisions did not overlap where the truth is (`Told`): at most one decision
of it is at work; if that one has written the row and not posted yet, what it will post is what the
row says; and otherwise the last letter about the account, in the queue or already sent, says so. A
letter about something else changes none of this, whoever queues it and whenever the worker takes one
out, which is most of the proof.

*Counts.* A row counts as suspended by one column and as active by another. `Suspended` (a restricted row
is not active) is kept by each statement that writes either, since a restriction sets both in one
statement and lifting it resets the first only; the sets counted are then disjoint, and they are finite
because a step of `AccountContract` opens one account at most.

*Who writes a row.* `WrittenByItsOwn` needs that a letter, a code and a request in progress lead to the
account they were meant for, some statements later. `OwnInv` says so relative to `AddressesKept`, which
is a property of the history: an address an account has had is then of no other, so the address on a
code, the address its letter went to and the account found by either are those of one account. Every
conjunct is kept because what it compares only grows (`Grown`: addresses are added to `held`, a code keeps
its row until it is deleted), and a step that hands an address over falsifies `AddressesKept`, for good.

**The uploads.** `UInv` says which names a request, a column or a link may hold: names of a request in
progress, of the columns of sessions, of the site and of the account come from disjoint uploads
(`taken` grows only), so what a profile update or a description unlinks is never a material or an
image. Names about to be unlinked are held apart from names that are kept, which is what makes the
deletions of one module harmless to the links of another.

*Profiles.* A column may name a file that is gone while an update has unlinked the old files and not
yet written the new names, and for good when it was cut short there; the history `cut` says in which
column. `ProfileResolves` says that nothing else breaks a name, failures elsewhere included, and two
updates that overlap seem to contradict it: each unlinks what it read. `OwnNames` is what saves them.
The names an update has made are its own, in nobody's column and nobody's hands, until its last
statement writes them; and whoever still holds names of the row, read earlier, is an update of the same
column, which is about to replace that column again. So a name that is dead has its update in progress,
or the update that was cut short (`Resolved`). The links of `me` follow: the one to a picture leads to
the file its column names, and those to the text 'null' and to certificates lead nowhere, as the code
writes them.

**Support.** A notification carries, as a history, what its call was asked to tell, and a call in
progress the kind it was asked for; the event it found has that kind, and still has it a statement later,
because events are only inserted. `owed` counts, for each administrator, the tickets and messages they
are still to be told of. `AdminsTold` says that it is the number of their calls and of announcing
requests in progress: `StartCalls` turns one request into one call for each administrator, a call that
stores its notification pays one off, and a failure writes off what it takes down and nothing else. So
whoever left somebody out, or told them twice, would break the count. The batch carries the
set of rows it has written, and as a history (`met`) those that others have made or removed: on all
others the table is the rows not cleared yet, those still to be updated and those written
(`Accounted`), whatever other batches and edits do. For `EventsUnique` the events of a kind are
counted together with the calls about to insert one: each call accounts for one at most, and a call that
looked while nobody else was in progress inserts only if it found none. `OneDescription` of the site and
`ConversationsUnique` of the chat have the same argument.

**The rest.** The gateway's map names an open socket because the entry is removed in the same turn of
the event loop in which the socket closes. The status of a user is written by handlers that suspend, and
`StatusInv` holds of users whose connections did not cross: their only open socket is the entry of the
map, the only handler writing `online` is that of the entry, and one writing `offline` is alone and runs
only while there is no entry. A message keeps its conversation because the deletion
cascades in one statement and the insert has a foreign key; and it is announced because its request
keeps it in hand from the insert on, and leaves it in `dropped` when it fails. A review was of a completed
booking because the contract takes no stage back, a rating is of an own booking because nobody rewrites
whose it is, and once, because the constraint is asked in the statement that inserts.

**Only model-checked.** Liveness, which the prover cannot do, since it needs ENABLED:
`ChargeReachesBooking`, `HeldGetsCompleted`, `SessionFollows`, `RegisteredGetsLink` and `StaysOnline`.
Every other property of a passing run is proved.

## 5. What is not modelled

Notification texts, wording and formatting; session periods, `joined_at` and other columns nothing
reads back; restriction columns of sessions, which nothing in the core reads; the acceptance of a
reschedule moves no `session_date`, in the code as in the model; relays of typing (no state); the
recording of a call, whose chunks are collected in memory and written to a file nothing reads.
Two-factor secrets, a column written and compared by one handler each; `validateUser`, the facebook
strategy and the templates no route reaches. PayPal and payment transactions (unused), the inbox of a
user (generated text without a table), guards and abilities (pure decisions of one request), the seed
command (one transaction), the drivers for S3 and GCS (they pass calls on, and throw where the local
driver does not).

## 6. Plan

1. Compose `Accounts` with `LMS`: the deletion of a user under its bookings, and a tutor whose
   application is decided while sessions are created.
2. `Recording` in the gateway, if a reader of the file is ever written.
3. A history of edits of the slot counter, so that a teacher's edit overwritten by a booking is visible.
4. Theorems about what the liveness properties rest on, short of liveness itself: that a cron batch
   shrinks with each step, and that a request in progress can always take one.
