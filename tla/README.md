# mereytoi in TLA+

mereytoi is a marketplace for planning a celebration: organizers collect
listings in an event workspace, submit them as a request, managers review the
request, providers keep their listings. The backend (`src/backend`, Go, gin,
gorm over PostgreSQL) holds all of the shared state; a Next.js site
(`src/frontend`) and a Flutter application (`src/flutter`) are its clients.

This directory holds models of the parts of the backend and of the web front end
whose correctness depends on the order of steps, the TLC runs that check them,
and the proofs of what the runs show. `PROJECT.json` lists components, runs, mutants, findings,
hazards, theorems, and the source lines every definition stands for.

## 1. Inventory

Every HTTP call is a goroutine (net/http). Handlers keep no state of their own:
they read rows, decide, and write rows back, mostly without a transaction and
without versions. gorm's `Save` writes every column of the copy that was read,
so a stale copy undoes what was written in between. That is the hard behaviour
of most components. `docker-compose.prod.yml` runs one backend container; the
recovery code promises to work across several.

| Component | State | Operations | Talks to | Hard behaviour | What makes it correct |
|---|---|---|---|---|---|
| Event request review (`handlers/event_request_handler.go`) | `event_requests` (status, latest revision, booking, comment), `event_request_revisions`, the linked `bookings` row | Get, Update, Submit, Cancel, AdminUpdateStatus; the desk's UpdateStatus, Delete and DeleteMine of bookings; deletion of the event | workspace (snapshot), notifications, mail | read, check and whole-row save in separate statements; label and mail after the save; crash in between | status only along `requestTransitions`; revisions frozen, numbered without gap; one booking, in step with the decision; one mail per decision |
| Recovery attempt limits (`recoverycode/service.go` reserve, release) | `recovery_attempts` | reserve, release, clean-up, fresh start on approval | every recovery call | insert and count are two statements of concurrent instances; errors and crashes between them | never more than the limit get through per key and window |
| One-time password codes (`passwordreset/`) | `password_reset_codes`; per instance a mutex per user, a queue of 256 jobs and two workers | RequestReset, RequestEmailReset, RequestChangeCode, deliver, ConfirmReset, ConfirmEmailReset, ChangeWithCode | accounts (phone, password), SMS and mail senders | delivery without the lock, full queue, uncertain sends, restarts, several instances | one live code, single use, newest only, limited per number, counted guesses, no undelivered live code |
| Backup codes and support requests (`recoverycode/service.go`, `support.go`) | backup-code columns of `users`, `password_recovery_requests` | Recover, Replace, RequestSupport, Approve, Reject, ResetWithTempCode | attempt limits, accounts, audit | admins racing each other and the client; lazy expiry | a code resets once; at most one open request per account; a reset revokes all sessions |
| Accounts and sessions (`auth_handler.go`, `password_handler.go`, `middleware/auth.go`) | `users`, tokens in the clients | Register, Login, UpdateMe, ChangePassword, validation of a token | codes, recovery, claims | profile save undoes a password change; login straddles a reset; whole-second comparison | after a password change no older session is accepted |
| Guest onboarding and claims (`onboarding.go`, `auth_handler.go`) | `users` pending or active, `account_claims` | find or create, Claim, ClaimResend | bookings, claim delivery | two guests with one phone; two clicks on one link | one account per phone, a link opens one session |
| Claim delivery (`claimdelivery/`, `telegram_handler.go`) | `claim_deliveries`, link tokens | Deliver, attempts over channels, Telegram webhook | WhatsApp, Telegram | limits checked before the send is recorded; retries | cooldown and hourly cap, one delivery per claim |
| Event workspace (`event_*_handler.go`) | `events`, members, invitations, candidates, votes, tasks, comments | role-checked edits of each | review (snapshot), notifications | selection in two statements; invitation saved after being revoked | one selected listing per category, no access after removal |
| Chats, notifications | conversations, messages, read marks, `notifications` | find or open, post, mark read | workspace, review | two openers of one conversation | one conversation per pair, unread counts right |
| Providers and listings | `providers`, `listings`, halls, menus, managers, views | owner and admin edits, view counting | catalogue | full-row saves against counters | owner and counters preserved |
| Rate limiter (`ratelimit/`) | sliding windows in memory | Allow, Reset | login, codes | none beyond the mutex | at most the limit per window |
| Mail, media, AI assistant | none, files | send, upload, poster, search | external services | failures only logged | out of scope |
| Catalogue, cities, statistics | lookup tables | single-statement reads and writes | | none | out of scope |
| Flutter application | session, cart, submit state in the client | log in and out, check out | the API | a 12 s time-out of an accepted booking; a late 401 of an old session | one booking per check-out, a session ends only for its own 401 |

The web front end is React state in the browser. A page calls the API with
`fetch`, goes on taking clicks, and is changed by the answer whenever it comes:
late, refused, after a later one, or when the page shows something else or is
gone. Most pages keep a guard of their own against that (a flag, a disabled
button, a `cancelled` closure, a ref with the latest request), and each guard is
written by hand. No page is pushed anything: what others change arrives by a poll
or a reload.

| Component | State | Operations | Hard behaviour | What makes it correct |
|---|---|---|---|---|
| Session and account pages (`AuthContext`, login, register, recover, claim, invite, admin login) | the signed-in user, the token in localStorage, the form | load, sign in and out, recover, claim, follow an invitation | answers of a page that was left; effects that run twice; a reload in the middle | user and token belong together; a claim that worked is shown as one; the admin form leaves only admins signed in |
| Manager chat widget | view, context, thread, drafts | leads, chat, polls, self-closing success screen | any page may change the context while loads, polls and sends are out | the thread shown is the context's; one lead per form |
| Assistant widget | the whole conversation | ask, close, reset | closing while it thinks; failing turns | a reply stands after its question |
| Cart and booking | lines and refs in localStorage, the filed order | add, remove, check out, resend | adding while a booking is filed | no line ordered twice; the resent list is the booked one |
| Service page and calculator | viewed menu, guests, extras, comment, saved ticks | view, compare, calculate, comment, add to an event | one React instance for every menu viewed | exact estimate; a tick means saved; one comment per text |
| Event discussion | shown, sending and deleted messages, the last seen | poll, send, delete | polls overlap sends and deletes | no message twice, none unsent, none deleted |
| Shortlist | candidates, votes, tallies, ticks to compare | vote, choose, remove, compare | votes shown before they are kept; loads that do not know them | tallies count a visitor once; votes shown are kept |
| Workspace shell, overview, budget | event, role, summary, welcome | open, switch tab, save | a save followed by refreshes in other tabs | what was saved is what every tab shows |
| Tasks, members, request page | lists and forms | add, tick, delete; invite, change role, remove, revoke; comment, send, cancel | loads not ordered with clicks | filed once; the list is current; what was confirmed stays |
| Backup-code card, profile | whether there is a code; the account's form, bookings, Telegram | create, replace; save, delete, link | Enter key beside a disabled button; a session set anew | no code replaced unasked; no deleted booking listed |
| Notifications: bell and page | count, lists, tab, page | poll, open, mark, mark all | grouped rows; marks elsewhere | the badge settles; a read row is read |
| Restaurant editor: menus and halls | the restaurant as last read, a form, photos being uploaded | create, edit, hide, move, copy, delete | changes send whole rows; two calls move one card | nothing else changes; a copy is whole |
| Provider's listings | the listings as last read, one form for a new or an edited one | create, edit, hide, delete | the backend replaces the whole row; two kinds of listing share a form that shows half of the fields | a listing is made once; what the form does not show stays |
| Admin desks: recovery requests, comments, bookings | a list, a filter, the code just issued | approve, reject, take down, change status and payment, delete | answers patch a list that is not read again; lists of two filters cross; two changes of one booking meet in the backend | the list is of its filter; no change undone; the code shown works |
| Admin desks: a chat, an event request | the thread and a reply; the request and a comment | reply, close, decide | a timer reads beside the replies; the organizer submits and withdraws meanwhile | a reply is sent once; shown is read; a decision is about what was on screen |
| Landing pages, lists of requests, chats and clients | lists and forms | load, save a row | none beyond the above | not modelled |

## 2. Plan

In order of importance; each module gets its instance (`MC...`), its runs and,
where it is worth it, a module of proofs.

1. `EventRequest` (done) with the abstract `RequestLifecycle` it implements;
   proofs in `EventRequestProofs` (done, the refinement included).
2. `RecoveryThrottle` (done) and `RecoveryThrottleProofs` (done, all properties).
3. `PasswordCodes` (done) and `PasswordCodesProofs` (done, all invariants).
4. `AccountRecovery` (done): one account's backup code, support requests,
   password and sessions; `AccountRecoveryProofs` (done, all properties). Then an
   abstract account that it and `PasswordCodes` implement.
5. `WebSession` and the pages of the web front end over `Calls` (done, explored
   by `MCWebPages`), but for the pages listed in section 6; proofs over
   `CallsProofs`, of the session and of what goes with the visitor from page to page
   (the widget, the cart, the assistant, the bell) in `WebSessionProofs`, of eleven
   other pages in `PageProofs`, put together in `WebPagesProofs` (done for these
   sixteen).
6. `Onboarding` and `ClaimDelivery`: pending accounts, links, channels, Telegram.
7. `Workspace`: members, invitations, candidates and votes statement by
   statement (the web modules have each handler as one step), composed with
   `EventRequest` through the selection a submission reads.
8. `Chats` of providers, `RateLimit`, view counts, the provider's own profile,
   the builder of a menu, and `ClientSession` for the Flutter application.

Theorems still worth proving: on the web, the other promises that speak of several
pages (`ClicksAnswered`, `SavesReachScreen`, `EditorKeepsTheRest`), page by page from
the lemmas of `CallsProofs`, as `FiledOnce`, `AnswerMatchesQuestion` and
`BadgeSettles` were; an abstract account that both ways of recovery implement.

## 3. The modules

Every concurrent module follows one scheme: a goroutine is a record in `procs`
(or `calls`) with a `pc` that names its next database statement and the private
values it holds; a statement, or a transaction, is one action. A handler's
early return is the goroutine going back to `Idle`. Failures (`Faults`,
`Errors`) end a call at any statement and keep what it committed, which also
stands for the server dying.

**`EventRequest`** is the review of one event. `req` is the row of
`event_requests` (`status = "none"` while there is none), `revisions` and
`bookings` the two tables in insertion order, `picks` what the workspace has
selected, `outbox` what was announced: activity, notifications and mail of a
call are one announcement, since they follow each other without a decision in
between. Nothing is announced when nobody is left to hear it (`Heard`): deleting the
event deletes its members, and only what managers are told of goes on being told. `StartX` actions are the calls with the checks of routes and middleware;
then `Load`/`Create` (getOrCreate), `SaveComment` (Update), `ReadEvent`,
`BuildSnapshot`, `Commit` (Submit and its transaction), `SaveCancel` (Cancel),
`LoadForReview`, `SaveReview`, `Mirror`, `Announce` (AdminUpdateStatus),
`LoadBooking`, `SaveBooking`, `RemoveBooking` (the desk), `Reselect` and
`DeleteEvent` (the workspace). A deleted booking keeps its index. The snapshot
is the set of selected listings; prices and counts are left out.

**`RequestLifecycle`** is the promise: the transitions of
`models/event_request.go`, one revision and one number per submission, one
booking. `EventRequest!Lifecycle` instantiates it with the rows and the two
table lengths.

**`RecoveryThrottle`** is `reserve` and `release` with the clean-up of old rows
and Approve's fresh start. A key is a (scope, hash) pair; `Wants` are the slot
lists callers pass. The stamp of a call is read before its first insert;
`Patience` bounds how long a call stays in `reserve`, a wait the database's
time-outs bound in practice, and the assumption
`Patience + Window <= Retention` is what makes the clean-up safe (24 h against
15 min in the code).

**`PasswordCodes`** is the life of one-time codes. A goroutine is a handler or a
delivery worker of an instance; the per-user mutex is had by whoever is at a
statement under it (`UnderLock`), and released with the call or, on a worker,
before the send. `AskReset`, `AskChange`, `TakeJob` are the calls and the
worker's lookup; `Purge`, `CheckCooldown`, `CheckHourly`, `Supersede`, `Create`
are the statements of issueCode (the last two are one transaction, whose insert
meets the unique index of live codes); `HandOver`, `Send`, `Undo` the delivery;
`StartRedeem`, `Find`, `Retire`, `Miss`, `Redeem` the use. A code's digits are
its index: codes are taken not to be guessed by luck or to coincide. `MovePhone`
is UpdateMe as far as the number goes. Accounts are active with a password.
`sent` and `resets` are histories, read by properties and by what users can type.

**`AccountRecovery`** is one account: `user` its row (password, time of its last
change, backup code), `requests` its rows of `password_recovery_requests`,
`tokens` the `iat` of the sessions handed out. Passwords and codes are numbered
in the order they are made. The first step of a call reads (`FindBackup`,
`CheckPassword`, `RedeemCode`, `LoadProfile`, `ReadForApproval`, `FindTemp`),
the second writes under the conditions of its UPDATE (`Recover`, `Replace`,
`SetPassword`, `SaveProfile`, `Approve`, `ResetWithTempCode`), `IssueToken` is
the answer. `Stamp` separates reading the clock from the write, which a tick may
follow. `expireStale` is committed with Approve's read: an admin's listing (`Look`) may
have run it just before. The code redeemed by `RedeemCode` is `PasswordCodes`'
business, the number of tries `RecoveryThrottle`'s. `resets` and `restored` are
histories of the passwords set with a code and of the backup codes a saved
profile brought back.

The web modules follow another scheme. `ui` is the component's React state,
`store` what the browser keeps, `srv` what the backend has (a handler of the
backend is one step here), `net` the calls in flight, `hist` what happened, for
the properties. **`Calls`** defines a call: `kind` is the handler that sent it,
`arg` what the handler captured, `here` whether the component that sent it still
listens, and then, once it is answered, whether it succeeded and with what. So a
click, the backend's service and the continuation after `await` are three steps;
calls are served and settle in any order, `ServeRefusal` is an error status,
a network failure or a backend that never saw the call, and `AnswerLost` (`SendLost`,
or a disjunct of the handler that makes something) is a call that was served and whose
answer is lost on the way back: `Refused` for the page all the same, since `fetch`
cannot tell. Every page has it, for every kind of call. An `await` that follows
another is a new call. Handlers keep the source's names.

**`WebSession`**: `AuthProvider` and the seven pages that sign somebody in.
`Visit` and `Reload` leave a page; the continuation of a page that is gone still
signs in and still redirects, as in the code. A token is an account and the
number of its password changes.

**`ManagerChat`**: the floating widget; `Commit` runs the load and poll effects
that a state change triggers, with the clean-up of those it replaces.
**`AiAssistant`**: the conversation, sent whole on each turn.
**`Cart`**: `CartProvider` and its drawer, where a line's identity is
`cartItemKey`. **`MenuCalculator`**: the chips, detail and calculator of a
restaurant's menus, pure computation over one instance's state.
**`ServicePage`**: the view it reports, the popover that adds to an event, the
comments. **`CommentThread`**: an event's discussion, polls merged with messages
being sent and deleted.

**`EventWorkspace`**: shell, context, overview and budget. **`Shortlist`**,
**`EventTasks`**, **`EventMembers`**, **`EventRequestPage`**: a tab each, with
other members or a manager writing in between. The request page sees the review
that `EventRequest` has in detail; here its answers are numbered by `version`.

**`RecoveryCodeCard`** and **`ProfilePage`** are parts of the profile.
**`NotificationList`** holds what **`NotificationBell`** and
**`NotificationsPage`** share: lists, grouping into rows, what a click marks.

**`RestaurantTabs`** holds what **`MenusTab`** and **`HallsTab`** share: order of
cards, whole rows sent back, the read of the restaurant after each change. Cards
with equal places come in any order, as the database gives them.

**`ProviderListings`** is the provider's panel as far as its listings go. A row
keeps apart what both kinds of listing show, what only a service's form shows,
what only a restaurant's does, and what neither shows (`rest`): so it can tell
which fields `Payload` and `listingToPayload` carry through an edit.

**`RecoveryDesk`**, **`CommentsDesk`** and **`BookingsDesk`** are the admins'
lists. The first decides one request at a time and shows a code once, which
another admin, its owner or time may use up. The second and third patch their
lists by the answers, any number at once. `BookingsDesk` is the one web module
whose backend handler is two steps, `ReadRow` and `SaveRow`: the desk is what
sends two changes of one booking. **`ChatDesk`** is a conversation as the managers
have it, with the read marks that every answer with the thread sets.
**`RequestDesk`** is a request as the manager decides it, with the organizer and
another manager acting between its reads; the handlers' statements are
`EventRequest`'s.

**`MCWebPages`** instantiates them all and explores one page per behaviour (the
variable `page`): pages share nothing but the backend, whose changes by others
every module has. Its properties gather, by what they promise, those of the
pages.

The other `MC` modules hold only definitions for the configurations. Operators marked
"mutant" are plausible errors in the code that the properties must notice; no
action uses them.

## 4. The runs

| Run | Shows | Bounds, and why they do |
|---|---|---|
| event_overlap | comment frozen, the linked booking the first revision's, numbers without gap, mail backed, while any two calls overlap | two goroutines (every race of the code is between two calls), bookings removed beside them, one listing, two comments, two accepted submissions; with the booking desk as a third writer the states are too many, and the theorem `BookingFollowsRevision` has it |
| event_serial | one call at a time, with failures and crashes anywhere: the handlers implement RequestLifecycle, a decision is announced last | one goroutine, two submissions, two announcements: a second round of review fits |
| event_fair | every decision reaches the booking and the members, for calls that neither overlap nor fail | one goroutine, all calls but the desk's, which may set the label by hand; four announcements |
| throttle_calls | never more than the limit, rows leave for cause | three calls on two kinds of keys with limits 1 and 2; time to 4 passes the retention |
| codes_guesses | types, attempts counted | two handlers and a worker, two codes of three purposes, two attempts; codes expire, and time to 4 passes the retention, so that old rows are purged |
| codes_instances | one live code, single use, newest only, sweep after email reset | two instances, three codes of two purposes, one attempt |
| codes_fair | cooldown and hourly cap per number; every code received or retired | a handler and a worker issue to an account that moves between two numbers, three codes; the cap is two in three ticks and the cooldown one, so that each refuses what the other lets through; a queue of one, so that it fills |
| account_overlap | each code sets one password, only the newest temporary code does, closed requests stay closed, a reset leaves none open | two goroutines with all calls but those that write as another does; two requests, room for two codes before a reset; one tick, which expires codes and requests |
| web_pages | every page's types and the fourteen promises of `MCWebPages` | see below; about 7.8 million states |

Bounds of web_pages. Two calls in flight on every page: each race of this code is
between two calls, or between one and a click, and the third call of a chain
(change, then read) leaves when the first has settled. Beyond that: the session
has a customer and an admin, one password change, two forms; the chat one
service beside the general context and two messages; the assistant three turns;
the cart a service and a menu, two additions and two orders; the calculator a
menu with a limit, one without and one withdrawn; the service page two menus and
one event; the discussion three messages; the shortlist two candidates, one of
them voted on, and two to compare; the workspace two saves and two visits; tasks
two, each of which a lost answer may file again, with two ticks; members a guest and two invitations; the request three
changes; the card three codes; the profile one booking, two names; the bell and
the notifications page a manager's message and two comments of one thread with
lists of two; the menu editor one hall and up to four menus, the hall editor
three halls and two photos; the provider three listings and two names; each desk
two requests, comments, bookings, messages or revisions, with three clicks: two
that overlap and one after. Each is the smallest at which the case its
properties are about arises, which the table of errors below confirms.

All runs set `CHECK_DEADLOCK FALSE`: with bounded histories and time, a system
that has done all it may do stops.

Runs that expect a violation, each one a statement of the repository the code
does not keep:

| Run | Statement | What happens |
|---|---|---|
| event_cancel_race | every transition out of a terminal status is rejected | a call with an older copy saves the whole row over a decision |
| codes_lost_delivery | "a code the user never received must never stay redeemable" | a restart loses the queue, a failed invalidate is ignored |
| account_stale_profile | `password_changed_at` "revokes every existing session" | a profile read before a recovery is saved after it, with the old password, time and backup code |

The models reach more behaviours that have no run of their own, some of them
against a comment of the code: a doubled Submit files two revisions under one
number, since both calls read an editable row before either saves
(`event_request_handler.go:200` says it never does); two overlapping decisions are
both announced (`event_request_handler.go:588` says they cannot be); two accounts
with one number hold different locks and together get more codes than the number is
allowed (`passwordreset/service.go:8`); a comment deleted while a poll is on its
way, and whose delete is answered first, flashes back with that poll
(`CommentThread.jsx:66`); the labels of two overlapping decisions may be written in the other
order and leave an approved request with a cancelled booking; deleting the event
leaves its request, revisions and bookings; a number edited between a code and
its use is stamped as verified (`passwordreset/service.go:457`).

On the web, the properties name the cases in which the code does not keep them,
each as a flag of `hist` (or a condition on what was clicked), so that everything
outside those cases is checked:

- a late answer of `/api/auth/me` replaces or removes a session begun after it left;
- a line put into the cart while a booking is filed is wiped with the rest;
- what was made by a call whose answer was lost is made again by the form that cannot
  tell: a booking, a review, a task, a menu, a listing, a comment or reply that is sent
  again; a backup code that the card does not know of is replaced without the dialog;
- members whose change was made but its answer lost, and the profile's name and list of
  bookings after a save or a delete of that kind, stay as they were until the next read;
- the answer of a chat message sent in another context puts that thread on screen, and
  a load that fails afterwards leaves it there, where it goes on being polled;
- a message deleted while a poll is on the way comes back with that poll, when the
  delete is answered first;
- ticks beside events, and the guests of the calculator, are carried over to
  the next menu viewed until something is set there;
- two votes or ticks of one row that overtake each other, or a list older than
  the last of them, leave the wrong one on screen;
- two refreshes of the workspace, two loads of members or two pages of
  notifications may overtake each other;
- a comment saved while the request is sent may put the draft back on screen;
- a booking deleted while the profile is left and reopened is listed again;
- a second creation of a backup code can be sent with the Enter key;
- "mark all" marks on screen what a shorter list or another tab had marked apart;
- a menu whose creation worked but whose read failed is made again by the same form;
- the badge and the rows after a mark that failed;
- a card of which one half of a move failed is placed by that half;
- a photo that arrives after another hall's form was opened is added to that hall;
- deleting a hall leaves its menus with a hall that is gone;
- cards with equal places are not moved by the arrows;
- a delete of a message that fails restores the thread as it was at the click;
- a comment approved or deleted while the list of another filter is on its way
  is patched by the filter of the click, in whichever list comes;
- two changes of one booking that overlap in the backend lose one of them, and a
  booking deleted between the two halves of a change comes back;
- a reply on the managers' desk typed while another is sent is wiped with it, and
  one whose answer was lost is sent again;
- the form of a listing opened while another one is being saved is closed by
  that answer;
- hiding or showing a listing sends the row as it was on screen: an edit saved
  since then is undone;
- a decision clicked before the request was read again, or beside another
  manager, may fall on a revision nobody has seen;
- the temporary code on the screen may have been withdrawn by another admin, or by
  an answer that was lost.

The run of web_pages checks each promise with one error in the code that breaks
it; these further ones break it on the other pages it speaks of:

| Promise | Errors found |
|---|---|
| FiledOnce | `CheckoutForm`/`CheckoutFormEager`, `TaskForm`/`TaskFormEager`, `ShutDown`/`ShutDownResets`, `CommentForm`/`CommentFormEager`, `MaySave`/`MaySaveAgain` (of `MenusTab` and of `ProviderListings`), `MayReply`/`MayReplyAgain` |
| ThreadKept | `stillPending`/`StillAll`, `SendFailed`/`SendFailedShown`, `SendFailed`/`SendFailedEmpty`, `Fresh`/`FreshAll` |
| ClicksAnswered | `FailedVote`/`FailedVoteStays`, `FailedTick`/`FailedTickStays`, `Tick`/`TickAlways`, `Counted`/`CountedTwice`, `Patched`/`PatchedEverywhere`, `Saved`/`SavedAsNew` |
| AnswerMatchesQuestion | `Cancel`/`CancelKeeps`, `MayAsk`/`MayAskAlways`, `Reload`/`NoReload`, `Reloaded`/`NotReloaded`, `NewList`/`SameList`, `MayDecide`/`MayDecideAgain`, `ReadAgain`/`SavedOnly` |
| SavesReachScreen | `AfterUpdate`/`SummaryOnly`, `Cancelled`/`ClosesOnly`, `Unlisted`/`StillListed`, `Updated`/`SavedOnly`, `Dismissed`/`DismissForgets`, `Issued`/`StillIssued`, `MarkedRead`/`ReadNothing` |
| OrderIsTheCart | `cartItemKey`/`KeyOfListing`, `OrderSent`/`OrderOnScreen` |
| EstimateIsExact | `Total`/`TotalPlainCharge`, `Slider`/`SliderOpenEnd` |
| BadgeSettles | `Less`/`OneLess`, `isRead`/`ReadAsLatest` |
| EditorKeepsTheRest | `menuRowToPayload`/`RowWithoutHall`, `payloadFromRow`/`RowWithoutPhotos`, `Added`/`AddedToOld`, `Payload`/`PayloadOfFields`, `listingToPayload`/`RowWithoutRest` |
| CardsAsAsked | `Place`/`PlaceOfUpper`, `Pieces`/`PiecesButExtras` |

Fairness. `EventRequest!FairSpec`: a goroutine under way is scheduled again (weak
fairness of `Step`); no statement there waits for another call, and users are
never assumed to call. `PasswordCodes!FairSpec`: weak fairness of the worker loop
and of statements under way, strong fairness of the two steps that take the
mutex, since Go's mutex hands over to a waiter that has starved for 1 ms.
Liveness is checked without failures: with them a crash may lose any answer. The
web modules state no fairness: a call may be lost for good and nobody need click,
so their promises speak of the moments when nothing is on its way.

## 5. The proofs

Each module of proofs has one inductive invariant (`IndInv`), lemmas for the
operators, one lemma per action, and the theorems at its end. The theorems hold
for every value of the constants that satisfies the assumptions of the module
they are about (finite or infinite sets of calls, users, codes; any bounds); what
they assume beyond that is said here.

`EventRequestProofs`: `TypeCorrect`, `CommentFrozen`, `BookingFollowsRevision`,
`NumbersGapless`, `MailBacked`, for any goroutines, listings, comments, bounds,
with failures. None of the invariants is inductive: a stale copy in a
goroutine's hands may become the row. `IndInv` therefore says of every copy what
it says of the row (`Backed`: it names a filed revision with its comment, its
booking a first revision's items), of every call what its pc entails (`ProcOK`),
and of the tables that their numbers have no gap. Tables only grow in what
`Backed` reads (`Grows`), so a step of one call keeps the others' copies good;
each action then has one lemma. The assumption used is that `Blank` is a comment.

Its second part proves `LastWord` (`DecisionIsLastWord`) and `Refinement`
(`ImplementsLifecycle`: initial states map to initial states of
`RequestLifecycle`, each step to one of its steps or a stutter), with failures
and crashes, from `OneAtATime`: there is at most one call. The hypothesis is
necessary, as the run event_cancel_race shows. With it, `SerialInv` says that the
copy in hand is the row (`Fresh`), so that the guard passed at the load still
holds at the save, that there are as many revisions and bookings as the row
counts (`Tallied`), and that after an announced decision no call has anything left
to say (`Closed`).

`RecoveryThrottleProofs`: `TypeCorrect`, `LimitHolds`, `RowsKept`. The invariant
counts `Hold(k, t)`: the calls that may still get through and have counted `k`,
stamped in the window ending at t. Its cardinality never exceeds the limit,
because a call joins only by a count, when its own count includes every row of
`Hold` for all t at which it is in the window: those rows are still there
(`Kept`: unless forgiven or past the retention, which the assumption on times
rules out for a call still in reserve). `Through` is a part of `Hold`.
Assumptions: finitely many calls, slot lists without repetition, limits natural,
`Patience + Window <= Retention`.

`AccountRecoveryProofs`: `TypeCorrect`, `CodesSpentOnce`, `OnlyNewestTempCode`,
`ResetsClose`, `ClosedForGood` (an action property) and `OneLiveTempCode`. Secrets
are numbered as they are made, so what must be excluded is that a code comes
back. `CodesMade` bounds every code by the last number and keeps temporary codes
apart from backup codes, those in stale copies of the users row included;
`OneApproved` says that at most one request is approved and has the code made
last; `SpentGone` that a code that set a password is nobody's, unless a saved
profile restored it (the disagreement the run account_stale_profile shows, which
`CodeSpentOnce` names). Each step changes `requests` by closing rows
(`Narrowed`), or by Approve's one new code.

`PasswordCodesProofs`: `TypeCorrect`, `OneLiveCode`, `CodesSpentOnce`,
`OnlyNewestCode`, `EmailResetsSweep`, for any number of instances, so without
help from the mutex across them. `NewestLive` (a code followed by another of its
user and purpose is dead) holds because Create meets the unique index and
because a dead row stays dead (`Onward`); `RightCode` says whose row a call under
way has in hand, `ResetsSpent` and `SweptDead` what a reset leaves behind.

Its second part are the limits, each with the hypothesis it needs:

- `GuessesLimited` (`GuessLimit`) in one instance: two instances read one count
  and both go past it. `GuessCounted`: under the lock, the count read is the count
  in the row.
- `CodesKeepLimits` (`CodesLimited`) in one instance, in behaviours that stay
  `Apart`: two accounts do not issue to one number at once, and a call does not
  stall for so long that another account's purge deletes rows it counts.
  `CodesKeepLimitsOfOne` needs no such condition when there is one account. Both
  conditions are real: the lock is per user, the count is per number and the purge
  is for everybody. The invariant says of a call between its reads and its insert
  that the rows it was judged by are all still there.
- `UndeliveredCodesDie`: a code whose delivery was given up is not live, unless a
  statement fails (codes_lost_delivery shows what happens then).

`CallsProofs` has what the operators of `Calls` do to a sequence of calls in flight,
over any set of calls and, where a page must be reasoned about without a type for
its calls (`Proper`), over any sequence: a call that settles, joins, is served or
refused leaves the others as they are, in their order (`Keeps`, `Joins`).
`Filtered`, the sequence at some of its positions only, is defined by counting
(`Nth`), so that `ProperFiltered` and `OneMore` can be proved where `SelectSeq`,
which recurs over data, would leave nothing to prove from; `NthOf` is the one fact
about counting it needs.

`WebSessionProofs`: `TypeCorrect`, `SessionsAgree`, `ClaimStands`,
`AdminDoorHolds`, for any accounts and any number of calls in flight, from
`SessionConstants` (admins are accounts, `None` is neither an account nor a token).
A continuation may run on any page long after the visitor left, so `IndInv` says
of every call what it may bring home (`Honest`: an answer of /api/auth/me is the
account of the token it left with, a sign-in brings a token) and on which page the
component that sent it still listens (`Heard`); of the claim, that it left once and
that nothing is to come once it worked (`ClaimOver`); of the admin form, that the
token it left is an admin's (`AdminToken`). Then, of what goes with the visitor from
page to page:

- `LeadOnce`, the widget. A lead is on its way only while `submitting` is set, and at
  most one is; whatever opens, closes or turns the widget leaves that flag alone, and
  the effects that follow a change throw away looks at a thread only (`Cancel`).
- `ThreadIsOfContext`, the widget. A look at a thread that is on its way was sent for
  the context on screen (`Looking`), because a change of context cancels the looks
  before the next is sent; a poll asks for the thread that is shown. The exception,
  named `strayed` in the model, is a message that went out under one context and was
  answered under another: its thread stays, through a load that fails, until a load or
  a message brings the context's own.
- `RepliesFollow`, the assistant. The one turn on its way carries the thread as it is
  on screen, whose last entry is its question, and nothing is put to the thread until
  it is answered (`Turns`).
- `LineOrderedOnce`, `CartIsTheOrder`, the cart. That no line is booked twice is not
  inductive: `BasketInv` adds that one booking is on its way at most and only while
  the button is off, that a line of the cart is in no booking unless that of the answer
  about to wipe it, and that what is on its way is in no booking until it is served,
  all but for a customer who was left in doubt about an answer.
- `BadgeIsTrue`, the bell. The badge counts the notifications that are neither read
  in the backend nor about to be by a mark on its way (`NotMarked`), unless something
  arrived, was marked elsewhere or again, or a mark failed (`off`).

`PageProofs` has one section per page, each with an invariant of its own. None of
the promises is inductive alone, and what is missing is the same idea each time:
where a text, a form or a row may be, and who may still act on it.

- `MenuMadeOnce`, from `None # 0`: the call that saves a form keeps its buttons off
  until the read after it, which closes the form. Unless a read failed or the answer of
  the create was lost (`unread`), names that made a menu are off the screen before they
  can be saved again.
- `CommentsKept`: a text is in the field, on its way, shown or gone with a refused
  call that gave it back; a shown message is one filed or pending, and a poll brings
  nothing that is being deleted (`ThreadInv`). A deleted message may come back only with
  a list older than its delete (`stale`, kept message by message) or with a failed
  delete that puts its list back (`rolledBack`).
- `CommentFiledOnce`: a comment is in the form and filed at once only while the answer
  that empties the form is on its way, unless the answer was lost (`AllHeard`).
- `ReplyFiledOnce`: from the click until the thread was read again the field of the
  desk sends nothing; what it then sends was filed by no call before.
- `ListingMadeOnce`, from `None # 0`: forms are numbered as they open, and the call
  that makes a listing carries the number. While a new listing's form is open its call
  is on its way at most once.
- `TaskFiledOnce`, from `None # "create"` and `MaxTasks \in Nat`: as for replies, over
  the form of tasks. A title whose answer was lost is told apart from what its form
  files afterwards (`Twin`): the latter is the exception.
- `MembersAreCurrent`: every change raises the event's version, and a load says which
  version it read (`MembersNet`). A change that was made either has its answer on the
  way, which asks for a load, or was asked about; an older load counts as stale, and so
  does the screen after a change whose answer was lost (`MembersShown`).
- `PageIsOfItsTab`: the load sent last is for the tab and the page on screen; unless an
  earlier load came after a later one (`overtaken`), what was heard last is of it
  (`AsAsked`).
- `ReadRowsTrue`: a notification that looks read on the page is read in the backend, has
  a mark on its way, or is one whose mark may not hold (`unsure`), in every list that is
  shown or still to come.
- `RequestsOfFilter`: what the desk hears was asked under the filter on screen, and the
  list is of that filter or being read (`Listed`), unless the filter was changed while
  something was on its way or a read failed (`mixed`).
- `DecidedAsSeen`: unless another manager decided, an answer was lost or a click came
  before the request was read again (`apart`), one call is on its way at most, and the
  request on screen is the stored one but for a withdrawal (`NobodyElse`); so the
  revision under the click is the one that is decided on.
- `CardReplacesIfConfirmed`. A creation that was not confirmed leaves only while the
  card believes that there is no code. Unless two creations overlap, the answer of one
  was lost or the look at the account came late, that belief is wrong only between the
  moment a creation is served and its answer, when nothing else leaves.

`WebPagesProofs`: the same promises of `MCWebPages` as run web_pages checks them,
for any number of calls in flight: `PagesSessionAgrees`, `PagesClaimStands`,
`PagesAdminDoor`, `PagesReplaceIfConfirmed`, `PagesThreadKept`, `PagesFiledOnce`
(seven pages), `PagesAnswerMatches` (six pages), `PagesOrderIsTheCart`,
`PagesBadgeSettles` (two pages). `MCWebPages` fixes the other constants, so the
theorems above are the general ones; these show that the composition keeps them (one
page is shown in a visit). The prover takes two instances of one module for different
operators, so each page has lemmas (`Same...`) that its two instances agree,
definition by definition. `NoneAssumption` of `MCWebPages` gives the assumptions on
`None`.

Only model-checked. Liveness (`DeliveryResolved`, `DecisionReachesBooking`,
`DecisionAnnounced`), which together with ENABLED is out of the prover's reach.
`EstimateIsExact` speaks of what a fold computes and `CardsAsAsked` of the order an
enumeration of a set gives, which needs induction over data. `ClicksAnswered`,
`SavesReachScreen`, `EditorKeepsTheRest` and the pages' joint `TypeOK` are not proved yet. No module here uses a RECURSIVE
operator.

## 6. Not modelled

The components marked so in the table of `PROJECT.json`, with reasons. Inside
the modelled ones: read-only handlers (AdminList, AdminGet, Lookup), the
contents of mail and notifications, prices, bcrypt and HMAC, audit rows, the
answers to clients except where they decide a retry. Clocks of several instances
are taken to agree; `PasswordCodes` reads one clock. Isolation is PostgreSQL's
read committed: a statement sees what is committed when it starts, so statements
are atomic steps, and transactions whose intermediate states no other statement
can see are one step.

On the web: typed text beyond which text it is, wording, validation messages,
spinners and layout; hiding of widgets on the admin pages; greeting texts and
suggestion chips; the PDF of an order; the profile's list of events; the form of
one-time password codes (`PasswordCodes` has its calls); the builder of a menu
(sections, dishes, extras), the import of menus and the address form of the
restaurant editor; the provider's own profile and the photos of a listing; the
admins' lists of event requests, chats and clients and their forms of categories,
clients and services. The statements inside a handler the pages call are one step
of `srv`, but for a change of a booking on the desk. Two tabs of one browser share localStorage and do not tell each other;
the modules have one tab.
