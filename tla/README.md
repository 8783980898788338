# Formal model of the Pickleball court-booking platform

TLA+ modules, TLC configurations and TLAPS proofs about this repository: the
back end (`apps/api`, NestJS + TypeORM + Postgres) and the web application
(`apps/web`, Next.js). `PROJECT.json` maps every definition to the lines it
stands for.

## The system

| Part | State it keeps | Operations that change it | Interacts with |
|---|---|---|---|
| Courts (`courts/courts.service.ts`) | `courts`: status, opening hours, slot length | create, update, remove, images | venues (owner), bookings (count) |
| Bookings (`bookings/`) | `bookings`, `booking_slots` (unique on court, date, start), one `payments` row each | create, createForOwner, cancel by customer or owner, cancelFutureOccurrences, lazy completePastBookings | courts, venues, pricing, payments, customer contacts, mail |
| Payments (`payments/`) | `payments`: unpaid, paid, refunded, by whom | createForBooking, markPaid, markRefunded, adminRefund | bookings, disputes, mail |
| Disputes (`disputes/`) | `disputes` (unique on booking) | createDispute, resolve | payments, mail |
| Recurring schedules (`recurring-schedules/`) | `recurring_schedules`: validity, status, autoRenew | create, cancel, pause, resume, update, renewal at 01:00 | bookings |
| Venues (`courts/venues.service.ts`) | `venues`: status, default flag, hidden flag, slug, logo; slug history, opening hours, logo files | create, update with change of slug, setDefault, remove, uploadLogo, approve, reject, setOperatingHours | courts, users, mail |
| Auth, users, staff | `users`, tables of verification, reset and refresh tokens | register, verifyEmail, login, refresh, logout, reset, change of password, approve, reject, staff handlers | mail, the web application's cookies |
| Pricing (`pricing/`) | `pricing_rules` | create, update, remove, copyFrom, copyFromVenue; resolvePrice reads | bookings, public list of slots |
| Customer contacts | `customer_contacts` (unique on owner, phone) | findOrCreate, create | bookings, schedules |
| Notification settings, daily report | one row per owner; a job at 23:00 | update | mail |
| Reports, dashboard, customers, admin statistics, page views, blog, contact forms | rows of others, or rows only appended | - | - |
| Web application, server side (`apps/web/src/app/api`, `lib/fetch-api-core.ts`) | two cookies per browser: access token (15 minutes), refresh token (30 days) | login, logout, forwarding with silent refresh | API, browser |
| Web application, pages and dialogs | what is shown, selected, typed and under way | load, select, open a form, type, save, click, abandon | its routes |

What makes the back end hard is the same everywhere. A request handler gives up
the thread at every `await`; Postgres runs at READ COMMITTED and no row is locked
or versioned. `repository.save(entity)` writes back every column in which the
entity, as it was READ, differs from the row of that moment, and inserts the
entity when its row is gone. So a status that was checked can be stale when it is
saved, two awaits that belong together can be cut by a restart, and the only
guards that hold by themselves are transactions and unique indexes. Jobs run at
fixed hours and are not repeated when missed. Mails go out after the commits
they announce, and `sendSafely` swallows their failures.

What makes the front end hard: each page keeps its own list and patches it by
hand, requests of one page are answered in any order, the selection (branch,
court, date, filter) changes while they are under way, one button can stand for
two requests of which the second fails, and the forwarding routes rotate the
cookies while other requests with the old cookies are on their way.

What makes each part correct: no two bookings of a court overlap and the public
calendar shows exactly what is booked; bookings are whole (status, slots,
payment) and outcomes final; refunds stand and dispute decisions are carried out;
schedules that renew themselves never lapse or leave gaps, and cancelled ones
book nothing; one default venue per owner and a bounded number of slug changes;
accounts and venues are active only by verification and approval; ended sessions
stay ended and live ones are not lost; a price is the one that was shown; a page
at rest shows the server's rows of its selection, saves what the user changed
to where it was read, and says truly what became of it.

## Modules

| Module | Stands for |
|---|---|
| `SlotGrid` | the arithmetic of grids, windows and slots (`booking-slot-generator.ts`, `slot-generator.ts`) |
| `Courts` | court rows and the owner's create, update and remove, split at their awaits |
| `Bookings` | extends `Courts`: creation, cancellation, sweep, completion, clock, venue approval, restart |
| `CourtCalendar` | abstract specification: slots are reserved all at once, held, released all at once |
| `Payments` | payments and disputes: six kinds of request, split at their awaits, restart |
| `RecurringSchedules` | schedules, their bookings by date, owner requests, nightly renewal, restarts, missed nights |
| `Venues` | venue rows, default flag, slugs with their history, logo files, decisions, removal |
| `Accounts` | user rows and the tokens mailed: registration, verification, decisions, profile, passwords, staff |
| `Sessions` | cookies of browsers, forwarding routes with the silent refresh, refresh tokens |
| `Pricing` | rules, their copies, the price of a slot, the total of a booking |
| `BookingPage` | the public page `dat-san` against the server and other customers |
| `Pages` | what a page that loads, selects, edits and saves does, by its traits |
| `WebPages` | the pages and dialogs of `apps/web` that load and save, as their traits |
| `*Proofs` | theorems about `Bookings` (with lemmas about `SlotGrid`), `Payments`, `RecurringSchedules`, `Venues`, `Accounts`, `Sessions`, `Pricing`; `WebProofs` about `BookingPage` and `Pages` with `WebPages` |
| `MC*` | values of constants for TLC |

Names are the source's. A handler in progress is a record `[pc, ...]` of what it
has read and not yet used; each action runs from one await to the next, with all
the writes in between. A transaction is one step, its commit. `Restart` empties
the records and keeps the rows. An action whose comment begins with *Mutant* is
not part of a specification: it is a plausible bug of the definition below it,
and the property the mutant names must fail when it is put in its place.

In **Bookings** each id belongs to one request, asking for `ask[b]` (court, day,
window, schedule), which may be repeated until it succeeds. `seen[b]` is the grid
its handler read; `slots` are the rows of `booking_slots`; `HeldSlots` is the
refinement mapping to `CourtCalendar`. Mails are handed over or lost.

In **Payments** handlers hold the row they read; `SavePaid` and `RefundedRow`
write that row back with the handler's change. `outbox` tells which mails went.

In **RecurringSchedules** one call of `createBookingRecord`, which `Bookings`
describes in steps, is one step with three outcomes: booked, conflict, other
exception. The find and the commit of the sweep are one
step here and two in `Bookings`. `occurrence[s][d]` is the latest booking of schedule `s` on date `d`,
`skipped` the dates reported as conflicts, `found` the rows the renewal read at
its start. Everything in progress ends before the next midnight: requests and
renewals last minutes, and midnight during one is left out of the model.

In **Venues** and **Accounts** a handler holds the whole row it read, and `Save`
writes it with the handler's change, inserts it when the row is gone, and fails on
a slug that is taken. The tables of courts, images and opening hours a venue
takes along when it is removed are the set `attached`; `slugHistory` is the
table, `slugChanges` the history of what the public really saw.

In **Sessions** an access and a refresh token are issued, stored and dropped
together, so a pair is a number and pairs lapse and expire in the order of their
issue. A call goes from the browser (`Send`, with the cookies of that moment)
through the route's first attempt, the three awaits of `refreshTokens`
(`RefreshRead`, `RefreshRevoke`, `RefreshIssue`), the second attempt, and back
(`Deliver` or `Lose`). The routes differ in two ways only: whether a 401 clears
the cookies (`Clearing`), and what else they do (`Kind`). Any request to the API can fail in three
ways: it is refused on its merits, it is not answered (`Fail`: the fetch rejects, the route answers 500
and sets no cookie), or it is turned down with a 429 of the global throttler or a 5xx (`TurnDown`).
The last is no 401, except where the request is the refresh itself: `fetchApiCore` then hands the
first 401 to the route, as if the token had been refused, and a clearing route clears the cookies of a
session that is alive. Those answers are kept apart as "denied".

In **Pricing** time counts in slots and prices in hundredths. `Resolvable` is the
set of prices `resolvePrice` may return: the rules created in one transaction carry the same
`created_at`, so that the code's order does not decide between them.

In **BookingPage** a place is a court on a date. The list shown remembers whose
it is, although the page does not: that is what the properties compare.

In **Pages** one page in one tab is a state machine with traits (`Views`,
`Editors`): whether the selection can change, what is cleared, whether overtaken
answers are dropped, when a form takes its values, what the save names, what is
done after it. `WebPages` gives the traits of each page and dialog, and
each entry is mapped to the code it was read from: the state, effects and handlers, and the markup as far
as it holds what the traits are about (fields with their `onChange`, the button with its `disabled`, what
a dialog is given to call). A page whose parts load in different ways is more than one entry: the day's
bookings are cleared by a change of branch and not by one of date (`DayOfBranchView`, `DayOfDateView`),
and a quick booking takes its court from the courts shown and its hour from the bookings shown
(`QuickBookCourt`, `QuickBookHour`); which place its form is of, that of the cell or that of the
selection, is open when the two differ (`Opens`). The dialog for a new court is mounted
once (`Mount`) for the branch selected then, keeps what was typed into it, lets its branch be
chosen (`ChooseBranch`), and appends the court to the rows shown, whosever they are (`strayed`).
The notification settings are saved one by one by their switches (`Click`) and all together by a button
(`ConfirmAll`). Left out: buttons that can be used before the list they stand over has come, pages that
only pass a token on (`verify-email`), and what headers and sidebars load about the user. A server item has two fields, the
one a form changes and one that goes along. (`WebProofs` extends both web modules, which is
why the initial predicate and the next-state relation of `Pages` are `PageInit` and `PageNext`.)

## Runs

| Run | Instance | Shows |
|---|---|---|
| `calendar` | 2 bookings, 1 canceller, 1 court, 2 grids of one lattice, windows on and off the grid | `NoDoubleBooking`, `CalendarIsHonest`, types |
| `cancel` | 2 bookings of a schedule or single, 1 canceller, sweep, 1 grid | `BookingIsWhole`, `MailIsTrue`, `CancelledIsFinal`, refinement of `CourtCalendar` |
| `regrid` | the owner may halve the slots | violates `NoDoubleBooking` |
| `refunds` | 1 booking, 1 markPaid at a time, 2 each of refunds, customers, admins | `RefundDecisionsAreCarriedOut`, `MoneyIsNotForgotten`, `RefundIsFinal` |
| `renewal` | 1 daily schedule, cancel and pause, 5 days, 2 restarts or missed nights | `NextRenewalIsPossible`, `RenewalLeavesNoGap`; under fairness `RenewingNeverLapses` |
| `requests` | all owner requests, blocked court, schedules that began in the past | `PastIsHistory`, types; the renewal that aborts |
| `venues` | 1 owner, 2 venues, 2 slugs, 1 request and 1 decision at a time, 4 days, 2 logos | `ActiveMeansApproved`; one request at a time `OneDefault`, `SlugChangesAreLimited`, `LogoIsOnDisk`, `RemovalIsComplete`, `DecisionsStand` |
| `accounts` | 2 users, 2 requests and 1 decision at a time, 3 passwords, 1 reset link | `ActiveIsEarned`; one request at a time `DecisionsStand`, `LinkSetsOnePassword`, `LinkWorksUntilVerified` |
| `sessions` | 2 browsers, 2 calls, 3 pairs, 1 rough browser; refused, failing, throttled and lost calls | `SessionsStayEnded`, `JarIsUsable`, `CookiesFollowTheUser` |
| `pricing` | 2 courts in 2 venues, 2 days of 2 slots, 3 price lists, 4 rules, 2 changes at a time | `RulesAreSound`, `SeenIsCharged`, `CopyMayChargeTheSame` |
| `booking_page` | 2 courts and one of another venue, 2 lists and 2 orders under way | `OrderIsAsShown`, `PageHolds`, `ConfirmedIsBooked`; under fairness `OrderIsAnswered` |
| `pages` | every entry of `WebPages`, 2 selections, 2 loads and 2 saves under way, 4 acts of the user | `ScreenTellsTheTruth`, `NothingCrosses`, `OnlyEditsAreSaved`, `MessagesAreTrue`; under fairness `ScreenCatchesUp` |

Why the bounds are enough.

* *Bookings, Payments.* Every property relates at most two bookings or two
  requests, so two of each meet in every order. A day has
  four time units so that windows can be whole, half, aligned and misaligned, and
  customers' cutoff (one unit) passes while requests are in progress. The proofs
  lift the bounds from the safety properties of these runs and of all others.
* *Recurring schedules.* Renewal is scaled down: 2 days per renewal and a horizon
  of 1 stand for 30 and 7; outages are bounded by Horizon + 1, which is exactly how
  many the code tolerates (with one more, `NextRenewalIsPossible` fails, because the
  renewal asks for a date that is past).
* *Venues, Accounts.* Each behaviour draws its kinds of request from one of the
  `Mixes`; any two kinds that write the same row or table are together in one
  of them, and a request of each overlaps an owner's, an admin's and a restart.
  `MinGap` 1, `Window` 2 and `MaxChanges` 2 stand for 60 days, 180 days and 3 changes, and
  `LastDay` lets a change fall in, at the edge of and out of the window.
* *Sessions.* Two browsers of one account with two calls in any distribution;
  three pairs are a login, its successor, and another login or a second successor.
  `MaxRough` bounds how many browsers have overlapped or lost calls: one, so that
  the other one still has something to lose.
  The run compares states by `SessionView`, which forgets of a call that is answered what no longer makes
  a difference: the route acts on its kind only to set or clear cookies (`CookiesAfter`).
* *Pricing.* Two days of two slots separate rules by day, by time of day, by date
  and by how long ahead they are; copies within and between venues have
  a source and a target. `MaxCreate` leaves room for what copies add.
* *Booking page.* Courts of two slots, one slot and another venue's, so that a
  list may be shorter than the one before; one answer to an order is lost, after or before it was booked.
* *Pages.* Each behaviour is one page. Two selections are enough for one to be
  wrong; with two requests under way the older may be answered last. Four acts are enough to open a dialog, abandon it,
select another branch and save there. The selections are interchangeable, so the run has
every page open with the first (`PageSpecFromFirst`) instead of a symmetry set.

Where properties are conditioned, a history variable names the condition: `alone` (no two requests
overlapped), `whole` (no restart cut one short), `rough` (a browser with
overlapping, failing or lost calls since its login, or with a token spent by a refresh that broke off), `patience` and `hasty` (the user did not wait
for a list or answer on its way), `behind` (the last request failed or was overtaken), `strayed` (a new court
was taken into another branch's list; it stays set, although a reload mends the list), `stable` (no price changed between look and charge). They are
conditions the code needs: without them the properties fail, as told below.

`LastDay`, `LastDate`, `MaxOutages`, `MaxPair` and the like bound clocks, ids and failures; at
the bound the system stops, so deadlock is not checked. Symmetry is used for
bookings, slugs, users, requests, browsers and calls, never with a temporal property
that needs fairness.

Fairness is assumed where something must happen, and nowhere else. Run `renewal` (`FairSpec`): the clock goes on, the
scheduler starts the job of each night (`MissRenewal` takes a bounded number of nights
away), and what the server has begun - a renewal, a create, a loaded request - it
goes on with, as the event loop does with a promise that is settled. No request is
ever forced to be sent, and a restart may cut any of it short. `BookingPage`: lists arrive, the
server books or refuses, and an answer, which may be lost once, arrives (strong
fairness, for the loss disables it). `Pages`: requests are answered, the interval
of the page that polls fires, the stored branch is restored by its effect. A user is never made
to do anything.

### Where the code and its design differ

One disagreement is kept as a run: `regrid`, a court's slot length changes under its bookings.
The others have a configuration beside the runs, which TLC finds violated:

| Configuration | Property | What happens | What the design says |
|---|---|---|---|
| `MCBookings_removal` | `BookedCourtExists` | a court is deleted between the count of its bookings and a commit | a court that was ever booked is not deleted (courts-list design, line 66) |
| `MCPayments_repaid` | `RefundIsFinal` | a stale `markPaid` turns a refund back | "Mọi transition khác ... → lỗi 400" (payments design, line 46) |
| `MCRecurringSchedules_poisoned` | `NextRenewalIsPossible` | one failing schedule ends the night's renewal of all | "Với mỗi lịch" (recurring design, line 122) |
| `MCRecurringSchedules_orphaned` | `CancelledHasNoFuture` | a restart between cancel and sweep leaves bookings | cancel sweeps every later booking (line 116) |
| `MCRecurringSchedules_revived` | `CancelledStaysCancelled` | the renewal writes the stale status of its first read | renewal concerns active schedules (line 121) |
| `MCVenues_defaults` | `AtMostOneDefault` | a decision writes back the default flag it read | exactly one default venue per owner (branches design, line 20) |
| `MCSessions_devices` | `PasswordChangeEndsAll` | a refresh under way outlives a change of password | every device logs in again (settings design, line 104) |
| `MCSessions_throttled` | `ThrottledStaysSignedIn` | a refresh turned down by the throttler (20 requests a minute) or with a 5xx clears the cookies of a live session | a 401 when the refresh fails too, whatever the failure (auth frontend design, line 25); the exception in `CookiesFollowTheUser` |
| `MCPages_new_court` | `OpensForTheSelection` | the dialog for a new court opens for the branch that was selected when the page mounted it (`court-form-dialog.tsx:96`) | it defaults to the branch selected (courts-list design, line 89, and plan, line 3118) |
| `MCPages_elsewhere` | `AddedWhereItIsShown` | a court added for one branch is appended to the list shown of another | nothing; the exception in `ScreenTellsTheTruth` |
| `MCPricing_copies` | `CopyChargesTheSame` | copies of one transaction are equally new, and the tie is open | the newer rule wins (pricing design, line 44) |
| `MCBookingPage_preset` | `PresetNeverBreaks` | a link's start is selected for a duration that no longer fits, and the page goes down | an unusable preselection is ignored (booking page design, line 20) |

Met while modelling, without a configuration:

* a cancel that read a booking while it was confirmed overwrites its completion (`bookings.service.ts:528`);
* the later of two overlapping dispute decisions replaces the earlier (`disputes.service.ts:154`);
* removing a venue leaves its opening hours behind, which the branches design has cascade
  (`RemovalIsComplete` says what is removed);
* two overlapping clicks on a verification link can put an owner approved in between
  back to pending approval (`auth.service.ts:106`), and a stale save of the profile undoes a
  suspension (`users.service.ts:157`);
* the branch settings tabs, whose form is that of the last answer and whose save names the
  selection, store one branch's values in another when answers are overtaken (the exception in
  `NothingCrosses`);
* a cell clicked in the grid of the day before, while the new day's is on its way, is booked on the new day
  (`bookings/page.tsx:205`, the other exception in `NothingCrosses`);
* the court dialogs of the owner's list stay mounted and keep what was typed and abandoned
  (the exception in `OnlyEditsAreSaved`);
* the account tab tells of the failed password and not of the profile saved before it (the
  exception in `MessagesAreTrue`).

## Proofs

`tlapm` checks every leaf, with Z3, Zenon and LS4; nothing is assumed but the
named assumptions on constants and those a theorem states.

* **SlotGrid.** `OverlapSharesStart`: two windows that fit grids of one lattice (same
  slot length, openings a whole number of slots apart) and share a minute share
  a slot start. This is the arithmetic behind the unique index.
* **Bookings.** `InductiveInvariant` is types, what handlers in progress know about rows
  (`HandlersAgreeWithRows`: needed because a commit relies on a check made
  steps before), `BookingsFitTheirGrid`, `BookingIsWhole`, `SlotHasOneHolder` (the index)
  and `MailIsTrue`. It is proved inductive action by action. From it and
  `OverlapSharesStart`: `NoDoubleBookingOnOneLattice` and
  `CalendarIsHonestOnOneLattice`, under the stated assumption that all grids are of one
  lattice - without it run `regrid` shows a counterexample. `CancelledStaysCancelled`
  is an action property; `BookingsImplementCalendar` the refinement.
* **Payments.** `PaymentsInvariant` adds to the columns and disputes what handlers hold
  (`HandlersAgreeWithRows`). `MoneyIsKept` follows for any number of overlapping requests,
  `RefundsStandWithOneMarker` under the assumption that there is one markPaid
  handler, for which `RefundsStand` is the strengthening.
* **RecurringSchedules.** `PastStaysAsItIs`: only the type of the table of bookings is
  needed as invariant, because both writers compare the date with today.
  `RenewalsLeaveNoGap` needs `NoGaps`: between a row and the stale copy a request holds, and between
  the end the renewal read and the one it will save, lie only dates that were tried or are still to be
  tried. It assumes that owners do not use `update`, which may move `valid_to` by hand. `RenewalStaysPossible` has the strengthening `ReachesFar`: a
  schedule that renews itself is valid beyond today by as much as the outages that are
  left can cost. It assumes `Undisturbed`: no court refuses bookings, owners only cancel
  and pause, there are at most Horizon + 1 outages, and a new schedule is long enough for
  them. The instance of run `renewal` is one of those; `MCRecurringSchedules_poisoned`, where a court
  refuses bookings, is not, and there the property fails.
* **Venues.** `ActiveIsAlwaysApproved`, for any number of overlapping requests and decisions:
  what is active was approved not only in the rows but in every row that a request
  still holds, because any of them may be written back. The others are about requests that come
  one at a time, with any restarts: `VenuesInvariant` says that then what the one request
  holds is what is stored (`AloneIsCurrent`), and which statements it has behind it:
  default flags (`DefaultsAreKept`), changes of slug and their times (`SlugsAreSpaced`: the
  history table is ahead of what the public saw, never behind), logo files (`LogosAreKept`),
  what is attached to a venue that is being removed (`RemovalsAreComplete`).
* **Accounts.** `ActiveIsAlwaysEarned`, of the same shape: rows and held rows that are
  active were verified and, for owners, approved; a token or link in progress is of a user
  it was mailed to. `AccountsInvariant` holds what `LinksSetOnePassword`, `LinksWorkUntilVerified`
  and `AccountDecisionsStand` need: no save changes a role, and while requests come one
  at a time a row held is the row stored, a reset link is spent with the request that
  used it, and the verification token is deleted only of a user who is verified.
* **Pricing.** `RulesSound` is the invariant of types and rules: not only the rules stored but
  those every change read, holds or is about to insert are valid, which is why overlapping
  updates stay sound - each save writes a whole row that was checked whole. `ChargesFollowQuotes`:
  `QuoteFits` says that the exact sum and the sum of rounded slots run over the same
  prices, and bounds their difference slot by slot; no number of slots or rules is fixed.
  `CopiesChargeAsTheirSource`: `CopyFits` says that the rules of the copy are the entries of the
  source and all of one time, so that of those that apply only the priority decides.
* **BookingPage.** `ConfirmationsAreTrue`: orders of this page stay booked with their slots
  (`OrdersAreKept`), and unless an answer was lost there is one order on its way, booked or
  confirmed (`OneOrder`) - which comes from the disabled button. `OrdersAreAsShown`: who
  waits for lists has one on its way at most, of the place selected, and nothing picked until
  it is there (`Waited`). `PageNeverBreaks` adds that what is picked is within the list
  (`Shown`).
* **Sessions.** `Inv` says that a login belongs to one browser (`SessionsAreApart`), that the pair
  of a login under way is nowhere else (`LoginsAreFresh`), and of every browser that is not
  rough (`Smooth`) that one call at a time carries the one live pair of the session from the
  cookies to the API and its successor back. A step is first brought to one of a few cases (`StepCases`);
  each conjunct is then kept case by case. `EndedSessionsStayEnded` needs the last part: a
  logout ends a session only because no other call holds a live pair of it.
  `JarStaysUsable` and `CookiesFollowTheUserAlways` follow from it, for any
  number of browsers, calls and pairs; the latter excepts by name the refresh that the API turned down,
  since there the code does sign a live session out.

* **Pages.** The theorems are about any subset of the pages `WebPages` lists, any selections,
  and any numbers of requests, saves and acts of the user. They hold for these combinations
  of traits and not for all, so `WebIsCoherent` first brings the list to what the proofs use
  (`Coherent`): what names the selection in its save is a new row, the page itself, or on a page
  whose selection stands; the page that polls has no form of what is shown but the cell of its quick booking; only a click is
  shown ahead of its answer; no save in parts says "saved" of a part that failed. From the
  last, `MessagesAlwaysTrue`. `NothingEverCrosses`: a dialog for a new row covers the page,
  so its selection is the page's when it is saved (`NewRowIsOfSelection`; the dialog for a new court is not
  of this kind: its save names the branch in its form, `SavesAreOwn`); the cell of a quick booking is of the selection as long as
  the user has waited for the grid (`CellTrue`); a page of clicks that
  names its selection has had no other (`SelectionStands`); hence what does not name an item is saved
  where it was read (`SavesAreOwn`), and the API finds a scoped item only there.
  `ScreenAlwaysTellsTheTruth` and `OnlyEditsAreEverSaved` have one invariant, `Truth`, about a user
  who waits: the last request is of the selection and no answer under way is older than
  the server (`Newest`); what a page at rest shows is the server's (`RowsTrue`, `FormTrue`) until a
  save is clicked; and then the one save under way knows how the server differs from the
  rows (`SaveTrue`: what was there before, what of it is sent, what is shown ahead). It is needed because
  rows are patched from the save's own values and never compared with the server again. Only where the
  editor appends its row can the rows have taken in another's (`Astray`), and there `RowsTrue` ends. `FormsFit`
  says that a dialog is never half open, so that an act under it is impossible. Proving the types
  showed that two arms of `FormSaved` overlapped where no form was open, and TLC had taken the first:
  the definition now says so.

Every invariant and action property of the runs is proved. Only model-checked, being out of the
prover's reach: liveness under fairness (`RenewingNeverLapses`, `OrderIsAnswered`, `ScreenCatchesUp`),
and what recursive definitions compute for every input. The types of `Payments`, `Venues`, `Sessions`,
`Accounts`, `Pricing`, `BookingPage` and `Pages` are proved and in no run.

## Not modelled, and abstractions

The save of an entity is taken as one step, although TypeORM reads
the row and writes the difference: the window between the two is part of the step.
Dates come from one clock, although the code takes "today" from the server in UTC and
`completePastBookings` from the database. A create that failed may be tried again
with the same request. Names, texts and identities of customers are left out.

Left out, with the reason: customer contacts (one unique index and one catch that reads again);
notification settings and the daily report (one row saved whole, a mail that changes nothing; the
settings tab is a page of `WebPages`); reports, dashboard, statistics, page views and blog (queries, or
rows only appended); which role or staff tier may call which route (a table of guards, without
state of its own); images of courts; migrations. Of the web application: layout, wording,
the checks forms make before they send, redirects, the map.

## Plan

1. (done) `SlotGrid`, `Courts`, `Bookings`, `CourtCalendar`, with proofs.
2. (done) `Payments` with proofs; `RecurringSchedules` with liveness of the renewal and
   a first theorem.
3. (done) `Venues`, `Accounts` with proofs; `Pricing`.
4. (done) `Sessions`: cookies, silent refresh and refresh tokens.
5. (done) `BookingPage`, `Pages` and `WebPages`: the web application.
6. (done) Proofs for `Sessions`, `Pricing`, `BookingPage`, and of the remaining properties of `Bookings`,
   `Payments`, `RecurringSchedules`, `Venues` and `Accounts`.
7. (open) `CustomerContacts` with `NotificationSettings`; `Access`, the table of roles and tiers.
8. (done) Proofs for `Pages` and the pages of `WebPages`.
