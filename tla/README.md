# AutoMail / AutoCaller: a TLA+ verification project

AutoMail / AutoCaller is a CRM for small teams: contacts are imported from
spreadsheets, written to in bulk through the user's own Gmail account, and
called through a telephony provider.  The backend (`src/backend`, Express and
MongoDB) does the work; the frontend (`src/frontend`, Angular) is a
single-page client.  This directory holds TLA+ modules that model the program,
TLC configurations that check them on small instances, and TLAPS proofs of the
properties that matter most.  The modules stand for about 6 200 of the
program's 20 300 lines; `PROJECT.json` says which definition is of which.

Paths below are relative to `src/`; `B/` stands for `backend/src/` and `F/`
for `frontend/src/app/`.

## 1. Inventory

### 1.1 Backend

| Component | State it keeps | Operations | What is hard |
|---|---|---|---|
| Job queue, in-memory (`B/infrastructure/queue/in-process-queue.ts`) | array of jobs, `isDraining`, one timer, last start | `add`, `process`, `close`, the timer, `drain`/`runJob` | wake-ups handed from one early return to another; a drain suspended at `await` while timers and `add` go on; throttle against back-off |
| Job queue, Redis (`redis-queue.ts`) | BullMQ's | `add`, `process`, `close` | retry/discard classification; jobs handed out again when a worker is lost |
| Email compose and retry (`B/modules/emails/email.service.ts`) | email records | `compose`, `retry` | records first, jobs after, one by one; read-then-write of the status |
| Email library (same file, `B/infrastructure/storage`) | attachment records and files, signatures | upload, delete, create and delete signatures | record and file are two writes; identical bytes share a record; one default signature, which an index guards |
| Templates (`B/modules/emails/template-renderer.ts`) | templates | create, update, delete, preview, render | order of substituting, escaping and sanitizing; the stored list of variables |
| Email worker (`email.worker.ts`) | status, attempt count of the record | `handle` | an SMTP exchange between two writes; which attempt is the last; faults after `markSending` |
| Email accounts (`B/modules/email-accounts`) | accounts, one default, encrypted credential, verification status | connect, verify, set default, disconnect, record failures | "exactly one default" kept by several round trips against a partial unique index; limit checked before insert |
| Calls (`B/modules/calls`, `B/infrastructure/telephony`) | call records | start, webhook, cancel, refresh | provider first, record after; webhooks late, repeated and out of order; three writers of one status |
| Contacts (`B/modules/contacts`) | contacts | create, update, delete | check-then-insert |
| Imports (`B/modules/imports`) | parse sessions (in memory, expiry and quota), batches, contacts | analyze, commit, roll of duplicates | partial failure of a commit, concurrent imports, sessions that expire in between |
| Spreadsheet analysis (`B/modules/imports`: parser, header detector, value analyzer, column mapper, row builder) | - | sheet, header row, field of each column, rows | thresholds, and two columns that claim one field |
| Phone numbers and routing (`B/shared/utils/phone.ts`, `B/infrastructure/telephony/call-routing.ts`) | - | normalize, route, request | spellings of one line; a national number that begins like the country code |
| Auth (`B/modules/auth`, `users`, `workspaces`) | users, workspaces, sessions | register, login, logout, authenticate | three-step provisioning undone step by step, concurrent registrations, expiry |
| Cache and analytics (`B/infrastructure/cache`, `B/modules/analytics`) | TTL cache | summaries, get, set | what the key must hold; local days over changes of the clocks, by service and database |
| Dashboard, timeline, health (`B/modules/dashboard`, `timeline`, `health`) | notes | reads, add and delete notes | histories cut per source and then merged |
| Server (`B/server.ts`) | - | start, shutdown | closing the queue under a running job |
| Middleware, routes, validation, storage, encryption, logging, configuration | - | - | glue, libraries, pure input/output |

### 1.2 Frontend

Page services keep their state in signals and talk to the backend through
HTTP; what is hard is always the same: answers arrive late, out of order, or
after the user has moved on.  Services with state of their own: session
(`F/core/services/auth.service.ts`), calls page (a call queue with polling),
compose page (selection, previews, send), contact list (reload stream), import
wizard, contact timeline, e-mail accounts page, dashboard and analytics pages.

### 1.3 How the parts interact

`compose` and `retry` write records and enqueue a job per message; the queue
calls the worker, one job at a time; the worker reads and writes the records,
asks the accounts for a credential, and talks to SMTP.  A failed
authentication marks the account.  Calls are placed at the provider and their
records are moved by webhooks, by `refresh` and by `cancel`.  Imports write
contacts, which compose and calls read.  The contact's timeline, the dashboard
and the analytics read all records, the latter through the cache.  The
components share nothing but MongoDB documents, one queue, the parse-session
store and the cache.

## 2. Plan

In this order, the most consequential behaviour first:

1. `JobQueue`, `InProcessQueue`: the queue contract and the driver that
   implements it.  *Done, proofs included.*
2. `MessageLifecycle`, `EmailDelivery`: a message from "Send" to the provider.
   *Done, proofs included.*
3. `Calls`: start, webhook, cancel and refresh against the state machine and a
   provider with a line of its own.  *Done, proofs included.*
4. `EmailAccounts`: connect, verify, default, disconnect, with the indexes of
   the collection; the default, the limit, whose failure is recorded.  *Done,
   proofs included.*
5. `Imports` with contacts: session store, commit, duplicate strategies, edits
   by hand.  *Done, proofs included.*
6. `Sessions`: registration, sign-in and sign-out, with the session of the
   frontend.  *Done, proofs included.*
7. `Reports` with `ReportFigures`: the cache, the analytics and the dashboard,
   from the tables to the screens.  *Done, proofs included.*
8. Frontend pages: `CallsPage`, `ContactListPage`, `ComposePage`,
   `ImportWizard` with `SpreadsheetAnalysis`, `ContactTimeline` with the server's
   side, `AccountsPage`.  *Done, proofs included.*
9. The rest of the server: `EmailLibrary`, `Templates`, `Dialing`.  *Done,
   proofs included.*

Every invariant and action property that a passing run checks is now a theorem;
what stays with TLC is liveness (section 6).

## 3. What is modelled

### `InProcessQueue` - the in-memory driver

Every `await` of the driver ends a step, so one action is what the single
thread does between two awaits: `TimerFires` is the timer callback and
`drain()` up to the handler; `JobEnds` and `JobRetries` are the return of the
handler, `runJob`'s catch and finally, and the rest of `drain()`'s loop, which
may start the next job or end the drain and schedule the next one.  `Add`,
`Process` and `Close` are the methods.  Time is relative: `jobs[i].wait` is
`runAfter - now`, `gap` what is left of the throttle, `timer` what is left of
the pending `setTimeout`.  Timers may fire up to `Slack` early, as Node's may
relative to `Date.now()`.  `fate` is history.

### `JobQueue` - the contract

What `QueueDriver` (`job-queue.ts`) promises: one job at a time, starts at
least `Interval` apart, attempts only within the budget, and nothing lost but
by closing.  `InProcessQueue` implements it (`ImplementsJobQueue`; the proof is
`DriverKeepsContract`); the mapping reads a job's state and its attempts left
off the array and the invocation in flight.

### `EmailDelivery` - requests, worker, records, queue

One action per database or SMTP round trip.  `Compose`, `ComposeEnqueue`,
`ComposeFails` are `compose()`, one record per recipient and then one job
each; `RetryFind`, `RetryReset`, `RetryEnqueue`, `RetryFails` are `retry()`;
`Pick`, `Read`, `MarkSending`, `Refused`, `Accepted`, `Transient`,
`RecordSent`, `RecordFailed`, `HandlerThrows` are `EmailWorker.handle`.  A
message is a name; bodies, addresses and accounts play no part in the
properties.  Of the queue it keeps what both drivers share: `Durable` chooses
between the in-memory one and BullMQ, whose jobs survive a restart and are
handed out again when a worker dies or loses its lock (`Redelivered`, `Stall`,
external: they are how `redis-queue.ts` has BullMQ behave).  `Faults` names
what may go wrong in a run.  `confirmed` and `doubtful` count the copies the
provider took with and without the worker learning of it, and `cut` collects
the messages a fault has left without anybody to work on them.

Two branches of `handle` are left out because nothing reaches them: records
are never deleted, and `compose` always names an account.

### `MessageLifecycle` - what the sender is promised

Handed over at most once, `sent` final, `failed` retryable.  `EmailDelivery`
implements it where retries do not overlap and no job is handed out again.

### `Calls` - start, webhook, cancel, refresh

Each request or webhook is a `Handler` that stands at one of its awaits.
`PlaceCall` and `CreateRecord` are `startCall()`; `Webhook`, `Apply` and
`Touch` are `handleWebhook`/`applyEvent`; `Cancel`, `HangUp` and `RecordCancel`
are `cancelCall()`; `Refresh`, `Ask`, `AskFails` and `Find` are
`refreshCall()`, whose answer goes through `applyEvent` as well
(`ReadForEvent`) before it reads the record once more (`Reread`). The pages are
external here: `followed` are the calls some page polls, `Hears` what a page
makes of an answer, and `Leave` is skipping on, leaving or reloading, after
which nothing refreshes the call (`left`). `Allowed` is the table of
`call-state-machine.ts`, `Mapped` is `mapExotelStatus`. The provider is
external: `line` is its own status of the call, which moves forward on its own,
and `reports` what it has ever said about it. Delivery does not empty that set,
so a report may come late, again, out of order or never. `connected`,
`unreached` and `contended` are history the properties need: calls answered (or
hung up by us), calls a cancel did not reach, calls two handlers have worked on
at once.

### `EmailAccounts` - connect, verify, default, disconnect

Each request, and the worker's use of an account, is a `Handler` that stands
at one of its round trips to MongoDB or Gmail.  `Connect`, `Count`, `Verify`,
`First`, `Upsert` (or `UpsertCollides`) and `Clear` are `connect()`; `Load`,
`Check`, `RecordSuccess` and `RecordFailure` are `verifyStored()` and
`sendTestEmail()`, which note the outcome alike; `Load`, `Send` and
`RecordFailure` what `EmailWorker.handle` does to the account; `Find`,
`Unset`, `Set`, `Delete` and `Promote` are `setDefault()` and `disconnect()`.
The accounts are numbered in the order of their creation.  The unique index on
the address is `With`, by which an upsert finds what it overwrites; the
partial one on the default makes `UpsertCollides` of an `Upsert` and nothing
of a `Set`.  Gmail is external: it may take or refuse any password at any
time, because users revoke and create them.  `accepted` and `rejected` are
what it has said, `outrun` the accounts whose password was replaced while the
old one was being checked, `spoiled` whether requests have overlapped, failed
or reconnected the default.

### `Imports` - contacts, sessions, commits, edits by hand

A contact is its two channels, the e-mail and the normalized phone, which both
unique indexes are on and duplicates are found by; a row of a sheet is its
channels and a kind.  `Analyze`, `Expire` and `Forget` are the session store;
sessions are numbered in the order they come, so the quota drops the smallest
(`Stay`) and each expires before the next.  A `Handler` that serves a commit
goes through `Commit` (find the session, build the drafts, create the batch),
`Load`, one step per row (`Keep`, `Duplicate`, `Update`, `UpdateRefused`), one
step per document of the bulk insert, which is unordered (`Insert`),
`Complete` and `Forget`.  It decides on the index it loaded and on the channels
it has seen, not on the contacts as they have become.  `Edit` and `Write` are
`ContactService.create` and `update`, `Delete` is `delete`.  What RowBuilder
accepts and the schema refuses (a company of more than 160 characters) is the
kind `long`: an update with it throws, an insert leaves it out without an
error.  `cut` collects the batches whose commit failed, `crowded` those that
met another request.

### `Sessions` - signing up, in and out

A `Handler` is a request with its answer, from the tab that sends it to the tab
that reads it; each database round trip is a step. `Register`, `FindUsername`,
`CreateWorkspace`, `CreateUser`, `SetOwner`, `Connect` and `Issue` are a
registration, `Drop`, `DeleteUser` and `DeleteWorkspace` its undoing; `Login`
and `Issue` a sign-in; `LookUp` and `Resolve` the middleware; `Revoke` the
sign-out. The browser stores the cookie when the headers of an answer come
(`TakeCookie`), the tab sets its user when it has the body (`Arrive`), and
between the two, or instead of either, the answer may be lost (`Lose`) or the
tab reloaded; `Reload` drops the requests of a tab, the answers of which may
still set the cookie or may not (`Unheard`, `Drain`). A form waits for its
request only while it is shown, so a tab may sign in twice at once, which
`crossed` marks; `outdated` are the tabs for which somebody else's sign-in has
set the cookie since. `spoilt` and `disowned` are the registrations a fault
hit.

### `Reports` and `ReportFigures` - analytics and dashboard

`ReportFigures` holds, as operators, the ranges of local days in a zone whose
offset changes (`StartOfLocalDay`, `ResolveDateRange`), the aggregations
(`Totals`, `Breakdown`, `Buckets`), the series (`ActivitySeries`, `DaySeries`)
and the ranking (`MostContacted`).  In `Reports` a request begins (`Begin`:
range, bucket size, cache), reads (`Read`), is answered and kept (`Answer`,
`Stored`), and is shown or fails on its screen.  `Questions` are the ranges and
bucket sizes a user may choose.  `Touched` is `TtlCache.get`
with its expiry and order of use.

### The screens

Each has the fields of its page service as variables, an action for what the
user does, one for what the server answers and one for the answer's arrival or
failure, so that requests may be answered in any order.

- `CallsPage`: the queue, the call being placed, the one shown, and the timer
  that polls. `misled` and `late` mark answers to an older question.
- `ComposePage`: selection, recipients added by address one request after
  another (and such additions may overlap: `Adding`), the draft, previews, the
  send. `Compose` is the server's: all of the recipients are queued, or the
  request fails with any of them queued. `picked` and `unheard` are what the
  user chose and whom a send wrote to of which the page heard a failure.
- `ContactListPage`: search box with its debouncing (`typed` is what the
  debounce emits, also after the box was reset), filter, pages, deletion, the
  dialog; `Reload` is the `switchMap`, which drops the request before.
- `ImportWizard`: file, mapping, confirmations, commit; it EXTENDS
  `SpreadsheetAnalysis`, the server's parser, header detector, value analyzer,
  column mapper and row builder as operators. A cell stands for what its text
  is taken for.
- `ContactTimeline`: `Timeline` is the server's merge, the rest the page. An
  order is given by ranks (`InOrder`): the element in place `k` has `k - 1`
  elements before it.
- `AccountsPage`: the list, the form, the actions on an account. An action that
  fails leaves the accounts as they were or halfway (`Halfway`), and one the
  page gave up on may be done later or never (`GiveUp`). The worker may find an
  account unusable (`Unusable`). `Unasked` marks the changes after which the
  page does not load its list.

### `EmailLibrary`, `Templates`, `Dialing` - other parts of the server

`EmailLibrary` takes an upload through the storage (`Put`), the look for
identical bytes (`Look`) and `DropCopy` or `CreateAttachment`, a deletion
through record and file, a signature through `ListSignatures`, `ClearDefault`
and `CreateSignature`, and one message from `ResolveAttachments` to the
worker's `LoadRecords` and `LoadFiles`.  `EndEarly` is a failing call or a
restart at any of these.  `Templates` cuts texts into pieces: brackets, paths,
tags, line breaks and words; `RenderHtml` substitutes, escapes and sanitizes in the
code's order.  `Dialing` goes from a number's digits (`NormalizePhone`) and a
contact (`CreateContact`, `ImportContact`) to the provider, the checks in their
order and the request (`StartCall`).

`MCParts` joins these nine, which share no state: `part` says which one moves.
Each of them has a specification of its own (`CallsSpec`, `ListSpec`,
`LibrarySpec` and so on), which is what the theorems are about.

## 4. Runs

| Run | Asks | Result |
|---|---|---|
| `InProcessQueue` | lost wake-ups, two drains, starvation, and the contract | holds (17 454 states) |
| `EmailMemory` | one owner, one hand-over, true outcome, nothing forgotten, the lifecycle: two messages, one worker, faults and restarts | holds (17 226 states up to symmetry) |
| `EmailRedis` | the same message with two workers, redelivery and lost locks: nothing forgotten, sent means acknowledged, copies counted, everything settles | holds (290 528 states) |
| `Calls` | real outcome, real answers, forward only, and an end for every call a page stays on, with all webhooks lost: one call, two handlers, failing requests, restarts | holds (398 571 states) |
| `EmailAccounts` | no unverified password, failures of the password stored, the limit, the default: two handlers, four addresses, restarts and failing database calls | holds (901 740 states up to symmetry) |
| `Imports` | rows accounted for, no batch hangs, only updates overwrite, everybody is reached, no replay: two requests at once, two sheets and address books, restarts and failing database calls | holds (1 787 087 states up to symmetry) |
| `Sessions` | a sign-out that was answered is over, the user shown is the one served, who can sign in has a workspace, a registration leaves all or nothing: two requests at once, answers lost before, between and after cookie and body, a restart or failing call anywhere | holds (8 093 049 states up to symmetry) |
| `Reports` | an answer is of the question, the screen shows what was chosen, series, totals and breakdowns agree: two workspaces, two zones whose clocks have changed, midnight | holds (503 999 states up to symmetry) |
| `Parts` | each screen shows what the server holds, each of the nine parts keeps what it was given: answers in any order, failing or lost | holds (1 901 296 states up to symmetry) |
| `CallUnrecorded` | "The record exists before the provider is called" | violated |
| `EmailRetryRace` | "Sent messages are never re-sent" | violated |
| `EmailLostOutcome` | "nothing is silently lost from the user's point of view" | violated |

Of `Parts`, `CallIsFollowed` is about `CallsPage`, `ComposerIsTrue` about
`ComposePage`, `ListIsCurrent` about `ContactListPage`, `WizardIsTrue` about
`ImportWizard` and `SpreadsheetAnalysis`, `HistoryIsTrue` about
`ContactTimeline`, `LibraryIsWhole` about `EmailLibrary`, `OneContactPerLine`
about `Dialing`, `AccountsAreCurrent` about `AccountsPage` and
`TemplatesAreFaithful` about `Templates`.  The type invariants of the models
are proved (section 6) and not checked again.

**Bounds.**  Three jobs are enough for one in the handler, one waiting and one
being added; a throttle of 2 against back-offs of 1 and 2 and a requested
pause of 3 puts each of them first at some point; two attempts have a first, a
last and a retry in between.  The message runs have two job slots (a slot is
reused) and two attempts per job; `MaxSends` stops retries of a message that
has been attempted three or four times, after two rounds of everything; one
redelivery per job is BullMQ's default.  Two messages in `EmailMemory` let a
fault of one meet the other; `EmailRedis` has one message and two workers,
because what is at stake there is two workers on one message.  Calls share no
state, so one call is enough; two handlers on it are the least that race, and
every report, request and restart may still come in any number and order
before, between and after them.  Four addresses and four accounts against a
limit of two let a third slip in with two handlers and see a fourth refused;
one address has two passwords, for a reconnect to replace one that is being
checked; six requests are enough for three connects, two of them at once, with
a check, a change of default and a disconnect after them.  The sheets of
`Imports` have two accepted rows that share one channel with each other and one
with a contact, so that the e-mail and the phone of a row may lead to different
contacts, and a row of each other kind; one edit beside two commits lets every
pair of requests race, and a quota of one evicts sessions under a commit.

`Sessions` has two people who may register more than once, two requests at once
and one fault, in one tab: what two tabs add is only that one of them shows an
older user, which `ShownIsServed` excepts (a sign-in that a reload gave up does
the same to the one tab, so that exception is met). `Reports` keeps one answer,
so that one evicts another; its `MaxTime` of 1 lets midnight pass but not the
`Ttl` of 2, so a kept answer does not expire there. A report's queries see one
state of the tables, though the code sends them side by side; once two requests
of a screen have crossed, it is not used again; no contact is deleted. In
`Parts` every screen has two requests of a kind, where the code lets two be
under way (one request of the contact list, whose `switchMap` drops the one
before, and one load of the timeline, since a second is excepted by its
property), and everything else is the least that lets two of a thing differ;
the user of the accounts page starts two actions (`MaxActing`). The sheets of
the wizard are chosen for the header row, the thresholds and the collisions of
columns to go either way. After an answer has overtaken another, the screens
stop where nothing is said of what follows (`misled`, `mixed`, `missed`; of the
composer `raced` and `crossed`, in `MCParts` only, so that its theorem is of
all that follows).

**Fairness.** In `InProcessQueue` time passes, due timers fire, and handlers
return, which holds because each await of the worker is a database call or an
SMTP exchange with a time-out (`B/infrastructure/smtp/smtp-verifier.ts:123`).
In `EmailRedis` requests that have been received and workers that have a job go
on, and waiting jobs are picked up. In `Calls` a live line moves on, because
`startCall` limits how long it rings and lasts (`call.service.ts:106`); the
call a page is on is refreshed again and again by its timer
(`F/features/calls/calls-page/calls-page.service.ts:203`), for as long as the
page is on it; and of these polls not every one meets a failed request, a
restart or another handler in its way (strong fairness of the steps of a poll).
A page may leave its call at any time, and then nothing is assumed of it. No
webhook is assumed to arrive. No user, fault, close or restart is assumed to
happen or to stop happening. The other runs have no liveness property and no
fairness.

**Deadlock** is not checked: a closed queue, messages that are all settled
with the bounds used up, calls that are over and accounts with no request left have nothing
left to do, nor have uploads, commits, registrations and the parts once their
bounds are used up.  `Reports` cannot stop.

## 5. Findings

1. *A sent message can be re-sent* (`EmailRetryRace`). `retry()` reads the
   record with `status: 'failed'` and resets it in a second round trip whose
   filter names only the id. Two overlapping retries (a double click, two tabs)
   both pass the first; the second resets a message that the first one's job
   has delivered meanwhile. `email.service.ts:386` says "Sent messages are
   never re-sent."
2. *A message can stay at `sending` for ever* (`EmailLostOutcome`). An
   attachment that cannot be read throws after `markSending` and outside any
   `try`; the queue discards the job, nothing writes `failed`, and `retry()`
   accepts failed messages only. The same happens when a MongoDB call rejects
   there, and to everything in flight when the in-memory queue restarts, since
   `findResumable` (`email.repository.ts:138`) has no caller.
3. *A call can be reported before it is recorded* (`CallUnrecorded`).
   `startCall()` creates the record after the provider's answer; a report in
   between is dropped, and a call whose answer is lost has no record at all.
   `call.service.ts:95`: "The record exists before the provider is called, so a
   webhook that arrives before the API response still has something to attach
   to." The page that is on the call repairs the former by polling
   (`EveryCallEnds`), nothing the latter.

Seen while modelling, with no run of its own; each is excepted by the property
next to it or left out of the model.

*Messages, calls, accounts, imports.* A runnable job waits for the delay of
another, since `scheduleDrain()` keeps a pending timer
(`in-process-queue.ts:102`); a canceled call may be overwritten as completed
and the reverse, as both writers decide on a record read earlier
(`call.service.ts:254`; `call-state-machine.ts:11` has "a terminal status never
moves at all"), and a writer with an older record may so set a finished call
live; a call whose page has skipped on or was closed is refreshed by nobody, so
when its webhooks are lost it stays live for ever
(`calls-page.service.ts:137`); reconnecting the default account as an ordinary
one leaves the workspace without a default (`email-account.service.ts:68`); a
call hung up while it rings is reported as completed, so it may count as
answered and its contact as contacted, where `call.service.ts:215` has only
connected calls count (`AnsweredWasConnected` excepts them); after a retryable
failure the record stays at `sending`, where the comment
(`email.worker.ts:132`) says "Leave the record queued"; a job redelivered by
BullMQ after the provider took the message is sent again (`CopiesAreCounted`
bounds the copies by the attempt count); the in-memory `close()` does not wait
for the job being sent, as `server.ts:23` would have it; connecting an account
as the default while another one is can only fail, since the upsert runs into
the partial index before `clearDefaultExcept` (`email-account.service.ts:70`,
`:78`) makes way; a time-out of a check marks the account as failed, like a
refused password (`email-account.service.ts:102`); a row the schema refuses for
its length is counted as created although Mongoose's unordered `insertMany`
leaves it out without an error (`import.repository.ts:99`, where `:77` has "the
caller reconciles write errors back to row numbers"), and as an update it makes
the whole commit fail, as does an update an index refuses, leaving the batch at
`processing` (`import.service.ts:240`); with "import" and "update", a row may
be dropped for an earlier one of its file that is then refused itself
(`NobodyIsLost` is about "skip"); an update cuts the merged tags to 20 where
contacts may have 25 ("so an import never strips labels",
`import.service.ts:242`); two commits of one session that overlap both run
(`CommitNotReplayed` is about answered ones).

*Library and templates.*  An attachment deleted before the message is sent is
left out of it without a word, where only its file's absence is an error
(`email.worker.ts:164`); an upload that races a deletion of the same bytes may
be answered with a record that is gone; a deleted default signature is not
replaced; concurrent uploads pass the check of the number of attachments
together.  A placeholder split by a tag that is not allowed is not replaced but
joined by the sanitizing; `htmlToPlainText` decodes `&amp;` first, so
`&amp;lt;` becomes `<`; the variables of a template are looked for in subject
and body joined.

*Numbers.*  A foreign or short number without a plus is given the country
code of home or kept as it is, though the comment says "returns null when the
input cannot be trusted" (`phone.ts:6`); "domestic only" is decided by the
contact's country alone, not the agent's (`call-routing.ts:6`,
`call.service.ts:72`).

*Spreadsheets.*  Of two columns that claim a field the weaker is not always the
one that is demoted (`column-mapper.ts:166`); rows beyond `MAX_ROWS` and columns
beyond 100 are dropped in silence; an `.xls` file is always refused, though it
may be chosen; a first row of data with an address of a known word, such as
`asha@company.com`, may be taken for the header (`header-detector.ts:102`).

*Reports.*  When the clocks skip a midnight, or pass one twice, the start the
code finds for that day may lie in another day, whose records then have no point
in the series (`date-range.ts:80`).  `Regular` says of which zones this is not
so: a skipped midnight does no harm when the clocks go forward from it in a zone
ahead of UTC, a repeated one none when they go back to it in a zone behind UTC,
and the change must be of less than half a day.  Also, the ranking is cut
before deleted contacts are left out; the dashboard's e-mail success rate is of
all e-mails, that of the analytics of those attempted.

*Accounts.* A failure of `setOwner` deletes the workspace and leaves the user
(`auth.service.ts:192`): `disowned`. Two sign-ins of one tab that cross, from a
form opened again, may leave the cookie of one user and show the other
(`F/core/services/auth.service.ts:54`): `crossed`; so may a sign-in given up by
a reload whose cookie comes after the session was loaded: `outdated`. Between
the clearing of the default signature and the creation of the new one,
composing finds none (`email.service.ts:139`): `Standing`.

*Screens.* A poll or a cancel answered late sets a finished call live again,
with no timer to correct it (`calls-page.service.ts:221`); adding recipients
writes back the selection from before its requests, so of two additions that
overlap the later to end drops what the other added; a send that fails with
some recipients queued, or whose answer is lost, keeps all of them selected,
and those it reached are written to twice when it is sent again
(`compose-page.service.ts:385`, `email.service.ts:343`); previews are shown in
the order they are answered; one failed list request ends the reloads of the
contact list for good, a dialog closed while saving leaves it as it was, and
the page left empty by a deletion elsewhere shows "No contacts yet"; the
timeline of an earlier contact may be shown on the next, and a note added
during a load lost or doubled; a connection or disconnection whose answer is
lost, or that fails halfway (`email-account.service.ts:74`, `:170`), is not
shown until the page loads its list again (`email-accounts-page.service.ts:82`,
`:131`); answers of reports are shown in the order they come.

## 6. Proofs

| Module | Theorems |
|---|---|
| `InProcessQueueProofs` | `OneJobAtATime`, `QueueTypeCorrect`, `WakeupIsNeverLost`, `DriverKeepsContract` |
| `EmailDeliveryProofs` | `TypeCorrect`, `NothingForgotten`, `SentMeansConfirmed`, `NoUncountedCopy`, `OutcomesAreTrue`, `OneOwner`, `NotSentTwice`, `DeliveryImplementsLifecycle` |
| `CallProofs` | `CallTypeCorrect`, `OutcomesAreReal`, `AnsweredOnlyIfConnected`, `StatusMovesForward` |
| `EmailAccountProofs` | `AccountTypeCorrect`, `OnlyVerifiedIsStored`, `FailuresAreCurrent`, `LimitNearlyKept`, `DefaultIsKept` |
| `ImportProofs` | `TypeCorrect`, `ProcessingOwned`, `AnsweredOnce`, `NothingOverwritten`, `RowsAccounted`, `EverybodyReached` |
| `SessionProofs` | `SessionTypeCorrect`, `SessionsAreTrue`, `RegistrationsAreWhole` |
| `PartProofs` | `CallsAreFollowed`, `TheComposerIsTrue`, `TheListIsCurrent`, `TheAccountsAreCurrent`, `TheLibraryIsWhole`, `TheHistoryIsTrue` |
| `DataProofs` | `ResultsAreOfTheMapping`, `TheWizardIsTrue`, `AnswersAreToTheQuestion`, `TheChosenIsShown`, `TheFiguresAddUp`, `ContactsAreLines`, `TheTemplatesAreFaithful` |

They hold for every value of the constants that the assumption of the module
allows (`QueueAssumption`, `DeliveryAssumption`, `CallAssumption`,
`AccountAssumption`, `ImportAssumption`, `SessionAssumption`, and for each part
its own: `ListAssumption`, `ReportAssumption`, `TemplateAssumption` and so on):
any number of messages, jobs, workers and requests, of calls and handlers on
one call, of accounts, addresses and passwords, of files, rows and contacts, of
users and tabs, of pages, drafts and previews, of records and notes, of attachments and signatures,
any texts and tags, any budget and limit and any faults.  The assumptions say
what kind of thing a constant is, and in a few places what the code makes of it:
an empty search finds every contact (`ListAssumption`), a blank cell hints at no
field (`AnalysisAssumption`), the rows of a sheet are as long as its first
(`WizardAssumption`), a page has a question to begin with, whose days and offsets are integers
(`ReportAssumption`),
the escape of a tag is no tag (`TemplateAssumption`).

*Queue.*  `SingleFlight` is inductive: an invocation is in flight exactly
while `isDraining` is set, so `CanDrain` keeps a second one out.  The type
invariant needs it, and that a retry is within its budget, for the back-off to
be a natural number.  `NoLostWakeup` is then inductive on top of both.

*The contract.*  What the mapping shows of a job is read off what carries it,
so `HoldInv` says that something does, and only one thing: a job not given up
is in the array once, with an attempt left, or in the invocation in flight.
Each action then changes what is shown of the job it is about as the contract
allows, and of no other; a return of the handler that starts the next job is
the contract's `Handover`, of the job that leaves and the one that starts, and
the two may be the same.

*Types.*  `TypeOK` alone is not inductive: a step writes the record of the
message a job, a worker or a request carries.  `TypeInv` adds that whoever is
not idle or free carries a message (`JobHandsOK`, `WorkerHandsOK`,
`RetryHandsOK`).

*Nothing forgotten.*  The invariant says who is responsible: an active job has
a worker on it, and a worker at most one such job, so the step that ends a job
is the step that settles, retries or cuts the message.

*Copies.*  A copy leaves while its worker is at `send`, and leaving `mark` for
`send` has counted the attempt, so the copies plus the workers now at `send`
never exceed the attempt count; the workers are counted with `Cardinality`.

*One delivery.*  Under the hypothesis `Serial` (retries served one at a time;
a durable queue without crashes and lost locks) three invariants carry each
other: who holds a message knows its status (`StatusInv`), it has one holder
(`ClaimInv`), and the acknowledged copies agree with both (`ConfirmInv`).
`Serial` cannot be dropped: `EmailRetryRace` is a counterexample without its
first half, a redelivery after the acknowledgement one without its second.

*Calls.*  That an outcome is real follows from where it comes from: a report of
an end, and an event a handler has in hand, say what the line ended as, and a
handler about to write `canceled` has brought the line down or failed to
(`EndInv`).  `TalkInv` says the same of being answered.  `ForwardOnly` needs
what a handler knows of the record when it writes: two handlers are on one
call only if that is contended (`SoloInv`), so nobody has written since a
handler of an uncontended call read (`KnowInv`).

*Accounts.*  A password on its way to the upsert has been accepted
(`VerifiedInv`), a check is of the password its account holds or was outrun
(`CheckInv`).  The limit counts more than the accounts: the addresses that have
one and those that have passed the check of the limit together stay below the
limit plus the number of handlers (`LimitInv`), since the check bounds the
former and the handlers the latter, and every other step moves an address from
the one to the other or drops it.  The default is kept by what the only busy
handler knows at each of its steps (`SerialInv`).

*Imports.*  `TypeInv` adds to `TypeOK` that batches are of files, that a commit
has rows of its file in hand, and that ids above `created` are nobody's; the
last is also why an insert overwrites nothing.  `WorkInv` gives each unfinished
batch one handler or a failure, and keeps the sessions of finished ones out of
the store.  `CountInv` has each row of a commit counted, kept or still to be
looked at, by `Cardinality`, up to the moment the counts are written.
`EverybodyReached` needs to know what a commit knows: if it is alone
(`AloneInv`: whoever else begins makes it crowded), the index it loaded is
still right, the rows it keeps are of people not there, no two of them share a
channel, and every channel it has seen, and some channel of every row it has
dropped, is there or coming with a kept row (`SkipInv`); so none of its inserts
is refused, and when none is left all that was coming is there.

*Sessions.* `SessionInv` says what an answer under way may still do: the
session a sign-in brings is of its user, of nobody else's answer, and not yet
in the cookie (`SignInInv`); once the headers are in, the cookie is that
session until the body comes, unless the tab is marked (`BodyInv`); an answer
that signs out has ended its session (`SignOutInv`). A tab whose form is under
way is not signed in, so what it shows cannot be parted from a cookie that has
come already (`FormInv`: the guards of the routes keep the forms from a tab
that is signed in or still loading, and without them it fails, as the mutant of
`Outside` shows); a tab that loads its session does nothing else, so that its
cookie is replaced only by another tab's sign-in or one that nobody waits for
(`LoadInv`). `RegistrationInv` follows a registration by its number: nobody
else has it in hand (`AloneInv`), its workspace goes only after its user
(`SpaceInv`), and one without a fault has left what its next step expects
(`ProgressInv`).

*The screens.* Each invariant says which request will still set things right.
On the calls page every call that is on is the one shown or the one whose
answer is awaited (`KnownInv`). The composer's selection is what was picked
since it was last written to, or written to unheard (`Choosable`), counting
those to be added in each of the additions under way and leaving out those of a
send that is served but not answered (`SelectionInv`), and one preview at most
is under way (`PreviewInv`). The page of the contact list under way, or else
the one shown, is the one asked for last, unless a change of ours is about to
ask again (`ListInv`); on the accounts page, unless a change is missed, one
list at most is under way, and it or else the page has the accounts as they
are, or an action that changed them, wholly or halfway, is still to be answered
and will ask again or mark the change as missed (`AccountsInv`).

*Library.* `KeysInv` has each file be of one record or of one request, so no
step takes a file from under another; `OwedInv` finds the request that will
remove or record what has no record. While there is no default signature, a
request that will create one is under way (`SignatureInv`), which is the window
the property excepts. An attachment once deleted does not come back, so what
the worker misses was deleted (`MessageInv`).

*Timeline.*  `InOrder` puts each element of a set at the place of its rank,
which is shown to be free for it (`RanksTell`); sorting, and taking a note off
the entries, are both such an order.  A record that its source leaves out has
`Limit` newer ones of its kind, so `Limit` newer ones in the merge, and is not
among the last (`LeftOutIsOld`); `RecordInv` has no two events of a contact at
once.  `Follows` says what entries shown, or on their way, owe the records: they
are in order, each is of a record or of a note about to be taken off, and a note
newer than one of them is shown or about to be put in.  Without a crossing one
load at most is under way, and no note with it (`PageInv`), so every step keeps
`Follows`.  That a day has one heading is a matter of the order alone.

*Reports.*  An answer kept is kept under the key of its own space, range and
buckets, and a key tells these apart (`CacheInv`); a request has in hand what
the question was when it began (`RequestInv`), midnight or not; and one at most
is ours, of what is chosen (`ScreenInv`).

*Figures.*  The code looks for the beginning of a day by applying an offset and
correcting it once; in a zone that is `Regular` what it finds is at or before an
instant exactly when the day is at or before the local day of that instant
(`StartIs`, `DayIs`).  So the instants of a range are those of its days, the
cursor of `eachLocalDay()` goes from one beginning to the next (`EachDayIs`),
and every record counted has a point that counts it (`SeriesAddsUp`).  The
counts by key, status or day add up to the number of records (`CountsAddUp`).
A request reads whole days (`IsReport`), and what it has read goes on agreeing
while the tables change, since its queries see one state of them (`FigureInv`).

*The wizard.*  A commit under way holds the mapping that was sent (`WizardInv`).
That an edit keeps fields apart is plain; that the suggestion does
(`SuggestsOnce`) is not, because `resolveCollisions()` goes through the columns
from the strongest to the weakest and each takes what those before left.  Two
columns with one field would have one ahead of the other, which the weaker one
has seen.

*Lines.*  Contacts are told apart by what their number normalizes to, which is
also what is dialled (`HolderInv`).

*Templates.*  That a contact's field adds no tag is shown on the text: to
replace the placeholders is to join, piece by piece, what each comes to, the
values are escaped and so free of tags, and to strip, sanitize or close a text
treats the parts of a join each on its own.

**Recursion.**  The library's induction theorems are out of reach (their
parameter is an operator), but a recursive function of the model is over the
length of a sequence or the columns of a sheet, and for these a least
counterexample does: were the statement false, it would be false of a least
number (`WellFoundedInduction`'s `WFMin` over the naturals), and the step from
the one before contradicts that.  So it is proved that `resolveCollisions()`
settles every column, what replacing, stripping and joining of texts do, that
the cursor over the days of a range misses none, and that counts add up.

**Only model-checked:** liveness (`EveryJobSettles`, `EveryMessageSettles`,
`EveryCallEnds`), which is out of the prover's reach.

## 7. Not modelled

The components that `PROJECT.json` lists as `not_modelled`: glue around
libraries (routing, validation, mapping, logging, the rate limiter),
cryptography and token verification, health and metrics, configuration, pages
with one request and one answer, and presentation.  Of the modelled parts:
wording, sorting orders and most filters, the deletion of a contact under the
other parts, message histories and their paging, BullMQ's own limiter, the SMTP
dialogue (an exchange has the outcomes its callers tell apart), how a file is
cut into cells, import batches in the reports, rates, and everything that only
reads.
