# Jesters' Rodeo: a verification project

TLA+ modules of the ticket registration system in `src/`, the TLC runs that check
them on small instances, and TLAPS proofs of their main properties for every
instance. Line references are to files under `src/`.

## 1. The system

A FastAPI application runs in AWS Lambda (15 s timeout, any number of concurrent
invocations). Its state is in DynamoDB tables; a single `put_item` / `update_item`,
with its condition, is atomic, and **nothing else is**: no handler uses a
transaction, so every handler that writes twice can interleave with, and be lost
between, any other. Stripe holds payment sessions and money, SMTP takes mail,
Cognito holds the accounts of the krewe's members ("clowns").

| component | state it keeps | operations | talks to |
|---|---|---|---|
| Checkout (`app/routes/public.py:146`) | `Orders` row, `tickets_sold_count` | read, reserve, put order, create session, roll back, redirect | Stripe, Events, Orders |
| Give tickets (`app/routes/admin.py:689`) | the same | reserve, put a paid order, mail it or flag it | SMTP, Events, Orders |
| Stripe webhook (`app/routes/webhooks.py`) | order status, payment intent, seats | completed: mark paid, reclaim, fulfil, flag; expired: mark, release | called by Stripe, at least once |
| Cleanup (`scripts/cleanup_pending_orders.py`) | order status, seats | every 15 min: scan, expire each old pending order, release its seats | Events, Orders |
| Refund (`app/routes/admin.py:620`) | order status, seats | read, claim, refund at Stripe, put back or release | Stripe |
| Check-in (`app/routes/admin.py:848`) | `checked_in` | read and validate, commit | scanners at several doors |
| Event catalogue (`app/routes/admin.py:195-470, 980`) | `Events` rows | create by year, open (closing the others), close, edit, images, banner | read by all of the above |
| Pricing (`app/pricing.py`, `admin.py:336`) | the event's price and its scheduled increase | amounts typed, price in effect, notice, fee gross-up, quantity limits | the register page, checkout |
| Announcements (`admin.py:891`, `scripts/send_announcement.py`) | announcement row | queue, async Lambda, resolve the recipients, send, retry | Orders, Waitlist, SMTP, Lambda |
| Clown profiles (`admin.py:1484-2072`) | `ClownProfiles` rows | first visit creates or relinks, link, unlink, edit, import, delete | Cognito |
| Accounts (`admin.py:1257-1481`), sign-in (`app/auth.py`, `auth_routes.py`) | Cognito users and groups, two cookies | login, callback, logout, the gates; invite, promote, demote, delete | Cognito, the session secret |
| Configuration (`app/config.py`) | per-container copy of SSM | load, refresh after 60 s | checkout, webhook and sign-in read the copy; an operator edits SSM |
| FAQ and krewe links (`admin.py:1161`, `1548`) | rows with a position | add, edit, move, delete, renumber | the public pages |
| Content: charity texts, beneficiaries, banner message | single rows | unconditional writes | none |

What is hard here:

* **Two writes per event of an order's life.** The status transition (conditional)
  and the change of `tickets_sold_count` are separate calls. Every handler counts on
  "whoever wins the transition does the second write", in some order.
* **At-least-once, late, reordered deliveries** from Stripe, racing the cleanup,
  racing the buyer; a payment may come after the order was expired.
* **Lost invocations and lost replies**: a handler can die between its writes; a
  Stripe or SMTP call can succeed and still raise.
* **Values read before a call and used after it**: the capacity in the reservation,
  the order in refund and check-in, the scan in the cleanup, in the opening of an event,
  in the first visit of a clown and in the import, the list of positions in a renumbering.
* **Copies of different age**: each container has its own mode, keys and session secret,
  up to a minute old, or older when nothing refreshes it; a session keeps the groups of
  its issue; an open page keeps the price of its day.
* **An asynchronous job that may run several times**, each time from the beginning.

What makes each part correct: seats are counted once per live order; a given-up
order cannot be paid; captured money becomes tickets; every payment is answered or
flagged; one refund and one admission per order; a void order has its money back and
does not admit; one event is open, and no event names a deleted image; a login has one
profile, and only its address or an admin gave it that profile; a mode flip reaches every
container, no copy opens into live mode, and a payment is heard across the flip; a former
admin's rights end; "sent" means sent; a list comes back to one order; a buyer
is charged the price that was shown and a fee that covers Stripe's cut. Where the code does
not keep one of these, section 4 shows how.

## 2. The modules

| module | models |
|---|---|
| `OrderStore` | constants, variables, types, and the writes several handlers share |
| `Checkout` | checkout and give-tickets, one action per call they make |
| `StripeWebhooks` | Stripe (sessions, money, time) and both webhook events |
| `Cleanup` | the scheduled sweep |
| `Refunds` | the refund button |
| `CheckIn` | the confirm endpoint at the doors |
| `Registration` | composes them over one event, with the admin's edits; properties |
| `BoxOffice` | abstract specification: what one buyer's order and money may do |
| `RegistrationInvariants` | the inductive invariant, part by part |
| `MCRegistration` | symmetry for TLC |
| `Sums` | the sum of a function over a finite set, as a difference of cardinalities |
| `SumTheorems` | how a sum changes with one of its summands |
| `RegistrationSafety` | types, the inductive invariant, seats per order, fulfilment, refunds |
| `RegistrationRefinement` | money, and the implementation of `BoxOffice` |
| `RegistrationService` | answers, admissions, payments, returned money; the count as a sum, the room |
| `EventCatalog` | several events: creation, opening and closing, images and their objects |
| `EventCatalogProofs` | one open event, no lost sale |
| `ClownProfiles` | the krewe's profiles and the accounts they are linked to |
| `ClownInvariants` | its inductive invariants: for any requests, and for one at a time |
| `ClownProfilesProofs`, `ClownSoloProofs` | the proofs for each |
| `MCEventCatalog`, `MCClownProfiles` | symmetry, addresses and files for TLC |
| `MCTables` | chooses the catalogue or the profiles for TLC |
| `SecureParams` | the parameters in SSM and each container's copy of them |
| `StripeMode` | which Stripe account checkouts and webhooks reach through their copies |
| `SignIn` | cookies, tokens and the admin group, under the session secret of a copy |
| `Announcements` | an announcement, its asynchronous runs, the orders and the waitlist it reads |
| `EditorialLists` | the FAQ and the krewe links, by concurrent requests |
| `Pricing` | amounts, the price in effect, the fee; the offer, the open page, the charge |
| `MCBackstage` | chooses one of the last five for TLC, with its bounds |
| `BackstageProofs` | the proofs for these five, and for the scenes `MCBackstage` makes of them |

The catalogue and the profiles share no state with each other. The catalogue meets the
registration in the event's item: `Sell` of `EventCatalog` is the reservation of
`Checkout`, and `SetEventOpen` of `Registration` is what opening and closing do to the
one event it models. `StripeMode` and `SignIn` extend `SecureParams`: both read the same
kind of copy, at different moments; `RefreshedElsewhere` is the refresh that the requests of
the one make under the requests of the other. A checkout or a delivery is one step in `StripeMode`,
because `Checkout` and `StripeWebhooks` take its calls apart with one account and what
matters here is the copy they use. `Announcements` reads the status the order handlers
write; of these it has the two transitions that decide who is mailed.

### From the code to the state

* `capacity`, `tickets_sold_count`, `registration_open` are the fields of the event's
  item. `status`, `quantity`, `payment_intent` (present or not), `checked_in` and
  `fulfillment_error` are fields of an `Orders` item; status `none` means that there is
  no item. Names, prices and addresses decide nothing here and are left out.
* `co[o]` is how far the request that makes order `o` has come; `quantity[o]` and
  `seen[o]` are then its local variables. `hookAt`, `refAt`, `doorAt`, `cleanAt` with
  `...Order` are the program counters and locals of the other invocations. An action is
  the code from just after one call to just after the next, so each action makes at most
  one external call. Conditional writes that fail and end the request change nothing
  and appear only where the request has local state to drop.
* `session[o]` and `money[o]` are Stripe's. `age[o]` counts ticks of a pending order's
  `created_at` up to `CleanupGrace`. `RESERVATION_TTL_MINUTES = 35` and
  `CLEANUP_GRACE_MINUTES = 45` become `SessionTTL < CleanupGrace`
  (`GraceAssumption`). Time does not pass while a checkout request runs (it lives at
  most 15 s), and Stripe closes a session on time.
* `ledger`, `fulfilments`, `mailed`, `late`, `admitted`, `offered`, `hit`, `crashes` are
  history: properties read them and no guard does (except `crashes < MaxCrashes`).
* A scan or a read sees every write that ended before it. The code asks DynamoDB for no
  consistent read (`ConsistentRead`), so a stale answer is possible everywhere; between
  separate requests a reader that misses the last write is also one that came a moment
  earlier, and those orders are explored. What is not explored is a reader that misses a
  write from before its own request began: the scans of an opening, of the cleanup and of
  the profiles and the reads of the pool are taken to be up to date. The one scan that follows a
  write of its own request, after a deletion in `EditorialLists`, is not: `Scans` lets it return
  the deleted row.
* A **loss** (`...Lost`) stands for the Lambda timeout and for an exception of a
  DynamoDB call. With `LostReplies`, `Session.create`, `Refund.create` and the SMTP call
  may have taken effect although they raise.
* In `EventCatalog`, `item[e]` is an `Events` row and `object[i]` an image in the bucket;
  `edit[p]` holds what a request read and will write. Uploads of one form are one step
  (an image no row names yet decides nothing), and so are its deletions, which never
  raise and may silently fail. `overlapped` and `spoiled` are history. Nothing deletes an
  `Events` row, so the updates without a condition always find theirs; and a removal from the
  pool names an image that is in it: a second removal of the same image writes the pool it
  read and deletes an object that is gone (`admin.py:323-333`), which is no step.
* In `ClownProfiles`, `rows[c]` is a `ClownProfiles` row and `account[s]` an account of the
  Cognito pool: `deleted` while a session of it may still be accepted, `retired` after, or
  from an earlier pool. A row remembers whether a put or an update made it (`is`) and who
  set its login last (`by`). Reads that follow one another without a write are one step:
  the scan with the list of accounts, and the liveness check with the write it allows.
  This is no restriction for the outcome of a check, since an account that is gone never
  comes back under its sub. Where several rows match, the code takes the first or the last
  of a scan, whose order is unspecified: the model takes any. Lines of a file carry more
  columns than the address, so an update always writes. An import asks of each stored sub
  whether its account is live (`users`), but takes the addresses from the first page of
  `list_users` (`admin.py:1990`), which may leave any live account out (`beyond`). An
  invitation may fail for any reason, and the line is then skipped.
* In `SecureParams`, `settings[c]` is the module-level `settings` of a container with the
  `age` of `_secure_params_loaded_at`, and a parameter's value is the mode it belongs to:
  `key["secret_key"] = "live"` is a key of the live account, whatever
  `settings.stripe_mode` says. `refresh_secure_params_if_stale` reads all parameters in one
  call, so it is one step. `since` is history: ticks since SSM was last edited, last said
  "live", last lacked the secret key of its mode (a gap); so is a copy's `opened`: whether its
  container has read "live" since it came up.
* In `SignIn`, `cookie[u]` is the session cookie with the secret that signed it and the
  claim its token carries; `op[u]` is what an admin's request is about to do after
  `require_admin`. The token expires with the cookie (`jesters_rodeo_stack.py:490` sets both
  to 8 hours). `gone` and `late` are history.
* In `Announcements`, `run[d]` is one copy of the asynchronous event: how often Lambda has
  run it, and the recipients the current run has left. The counts of the progress display
  are left out. `mail` and `entitled` are history.
* In `EditorialLists`, an id is the rank of its creation and `desk[p]` holds the ids a request
  renumbers. The tie-breakers (`created_at`, the label) are left open: equal positions come
  in any order. `was` is the row a deletion found, which its scan may still return; `alone` is
  history.
* In `Pricing`, amounts are whole cents and what is typed is in mills. The code's
  `math.ceil` divides floats; for every subtotal up to $30,000 they give the integer formula
  of `compute_processing_fee`, which was compared cent by cent. `page[b]` is what an open page says.
* The page reads, the resend button (an email, no state), logging and the comparison of
  event ids at the door (one event) are left out.

## 3. The runs

Bounds of the registration runs: `SessionTTL = 1`, `CleanupGrace = 2` (a session is open, over,
and old enough for the cleanup, in this order), `MaxTickets` 1 or 2.

| run | instance | shows |
|---|---|---|
| `RegPurchase` | 2 orders, 2 webhook invocations, capacity 1 or 2, quantities 1-2, lost replies, fairness | `OrdinarySeatsFit`, `PaidIsAnswered`, `GivenUpIsUnpayable`; `PendingEnds`, `PaymentHonoured`, `ExpiredSeatsReturn` |
| `RegRefund` | 1 order and 1 comp, 2 webhooks, 2 refunders, 2 doors, lost replies | `SettledLedger`, `SeatsMatchOrders`, `OneRefundAtATime`, `AdmittedOnce` |
| `RegCrash` | 1 order and 1 comp, 2 webhooks, 2 refunders, 2 losses | `TypeOK`, `FulfilledOnce`, `RefundedIsReturned`, `TicketsPaidFor`, `PaymentFindsItsOrder`, `ImplementsBoxOffice` |
| `RegAdmitVoided` | 1 order, 1 door, 1 refund | *violated*: a refunded order is admitted |
| `RegRefundLostReply` | 1 order, 1 refund, lost replies | *violated*: money returned, order paid |
| `RegRollbackCrash` | 1 order, 1 loss | *violated*: seats released twice |
| `RegSeatsLeak` | 1 order, 1 loss | *violated*: seats nobody returns |
| `Tables` | the catalogue: 2 events, 2 requests, 2 images, logo, one charity image and pool of one event; or the profiles: 3 logins (2 of one address, 1 unverified), 3 rows, files of 2 lines, 1 request at a time | `CatalogTypeOK`, `OneEventOpenAlone`, `ImagesExist`, `SoldIsKept`, `PoolLosesOnlyRemoved`; `TypeOK`, `OneRowPerLogin`, `EmailVouches`, `KeepsLiveLogin` |
| `CatalogTwoOpen` | 2 events, 2 requests, 1 image | *violated*: two events open |
| `ClownEditsOther` | 3 logins, 2 rows, 2 requests | *violated*: a form lands on another clown's profile |
| `Backstage` | six scenes, one behaviour each, see below | `TypeOK` and the thirteen properties of the table below |
| `StripeMissingKey` | 1 container, 1 purchase, TTL 1, 1 edit of SSM | *violated*: a container shows one mode and charges the other's account |

`Tables` checks the catalogue or the profiles, which share no table, as `table` says.
`Backstage` checks the components that share no table with each other; `scene` says which
one a behaviour is about, and the others stay as they are.

| scene | instance | shows |
|---|---|---|
| stripe | 2 containers, 1 purchase, TTL 2, 2 edits of SSM, both pairs or only the test pair stored | `FlipReaches`, `KeyMatchesBadge`, `NeverFailsOpen`, `PaidIsHeard` |
| rights | 2 logins, 1 of them an admin at first, sessions of 2 ticks, 1 container | `RightsEnd` |
| secrets | 2 containers, 2 session secrets, 2 edits, a PKCE cookie of 1 tick | `RetiredSecretOnce` |
| mail | 2 orders and 1 waitlist entry, two of them with one address; 2 copies of the event, 2 attempts each, 1 failure | `SentMeansSent`, `OncePerRun`, `NeverLeftHalfWay`, `AcceptedIsSent` |
| lists | 3 questions or 2 links, 2 editors | `RenumberingHeals` |
| prices | 3 days, 2 edits of the offer, amounts refused, rounded and even, 1 or 3 tickets, a donation or none | `ChargedAsShown`, `FeeIsExact` |

Why these are enough: a hazard here is about one order and two or three invocations, or
two orders and the last seat. Two webhooks allow a duplicate delivery, or a completion
during another delivery's second write; the cleanup adds a third actor; two refunders
are a double-click; two orders with capacity 1 are the race for the last seat. The
properties the runs show for two invocations are proved for any number (section 5).

Two events and two requests are enough for an opening beside any other handler. Two
images are one in a slot and its replacement, or the pool's one and an addition; one
charity slot beside the logo tells fields of one form from another's. Two logins of one
address are an account invited again after its deletion, or one of the retired pool; the
third is the other clown; three rows allow a retired row, a historical rider and a fresh
one. The profiles have one request in `Tables` because two of its properties hold for that only:
`OneRowPerLogin` and `KeepsLiveLogin` fail for two at once, and the code has nothing against
it. Two at once also make up rows: the form, the import and an adoption write without asking
that the row they read still exists (`admin.py:1696`, `2033`, `1515`), as the comment at
`admin.py:1648` knows; `SoloInv` needs that one at a time does not, and no run is
made of it. Accounts still change between any two calls of that request.
`EmailVouches` holds for any number of requests (section 5).

In `Backstage`, one purchase is enough because purchases meet only in the copies; two
containers are one that has heard of a flip and one that has not, and two edits are a flip
and its return, or a flip and a gap. TTL 2 separates a copy that is fresh, that has aged and
that is stale. Two logins are two admins against each other; the second has to be promoted
first, so a demotion, a promotion again and an expired claim all occur. They may also remove
each other, at once or with a claim that outlived its rights, and leave no admin: nothing in the
code prevents it (`admin.py:1460` refuses only oneself) and no document promises otherwise, so
no property is about it. Two copies of the
event with two attempts run beside and after each other, with a failure in any of them. Three
entries are a move past a neighbour beside a third one; the second editor only edits and
deletes, which suffices to disturb every step of the first. Three days are before, on and
after the date of an increase.

`MaxCrashes` bounds losses, `MaxTickets` quantities, `Capacities` what the admin types,
`CleanupGrace` the age, `MaxSold`, `Images` and `Rows` what a catalogue and a krewe
accumulate. `EventsTable` adds a bound of TLC's alone: once openings have overlapped no further
one starts, and nobody edits a field again that is spoiled; both are outside what
`OneEventOpenAlone`, `ImagesExist` and `PoolLosesOnlyRemoved` promise, and the theorems have no
such bound. No other variable of the registration is bounded: an order goes through finitely many
steps. `SYMMETRY` permutes orders that are not comps, webhooks, refunders and doors; it
is used in the safety runs only. In `Tables` it permutes images, the catalogue's requests, and rows.
Deadlock is checked except where a system may stop: orders that are all closed,
and uuids or accounts that are used up.

`OrdinarySeatsFit` is about a registration in which no invocation was lost and no late
payment refunded. A refund between a late payment's transition and its reclaiming of seats
lowers the count before those seats are back in it, so a third order can slip in: without
that condition TLC finds a paid order beyond the capacity. Comps and late payments oversell
on purpose (`webhooks.py:70`, `admin.py:712`) and are excluded by `CompOrders` and `late`.
`create_event` takes a negative capacity (`admin.py:204`; the details form does not,
`admin.py:367`), so a comparison with the capacity is made only if something was sold.
`ImagesExist` and `PoolLosesOnlyRemoved` exclude the fields two requests edited at once
or a lost one left (`spoiled`), and `OneEventOpenAlone` the openings that overlapped.
`KeyMatchesBadge` excepts the sessions made less than a TTL after SSM lacked the secret key of
its mode, and `NeverFailsOpen` allows a live session then, in a container that was live before:
finding 7 shows what happens there. `RenumberingHeals` is about a renumbering nobody wrote
beside: otherwise the code has no protection.
`FlipReaches` is about modes whose key is stored.
`SettledLedger`, `PaidIsAnswered` and `RefundedIsReturned` exclude the orders on which an
invocation was lost (`hit`): the code has no repair for them, and three of the first four
findings show what happens to such orders or to a lost answer.

### Fairness

`FairSpec` assumes: a request that has started makes its next call (weak fairness per
order and per webhook: an invocation is not suspended for ever, and in this run none is
lost); time passes and Stripe closes sessions (weak); the EventBridge rule
(`infra/jesters_rodeo_stack.py:250`) keeps the cleanup running (weak); Stripe redelivers
a completion until some invocation can take it (strong, because all invocations may be
busy again and again). No fairness is given to buyers paying, to `MarkExpired`, to
admins, to doors or to refunds: `PendingEnds` holds by the cleanup alone.

`StripeFairness` assumes that time passes, that a request to a function without containers
starts one (weak, while a delivery is due), and that Stripe repeats a delivery that was
answered 400 until some container has dealt with it (strong, because containers are recycled in
between). Nothing is assumed of the operator: `PaidIsHeard` is about operators who come to rest
in the session's mode. A container that is never recycled still hears, because the webhook
refreshes before it verifies. `MailFairness` assumes that Lambda runs what it accepted and that
a run goes on unless it raises or times out. `AcceptedIsSent` needs fewer failures than
attempts (`MaxFaults < Attempts`): after the last attempt nothing runs again.

## 4. Findings

1. **A refunded order can be admitted** (`RegAdmitVoided`): the check-in's condition
   (`admin.py:867`) does not include the status, which was read by an earlier call.
2. **A lost answer to a refund restores the order** (`RegRefundLostReply`): every
   exception of `Refund.create` is taken for "nothing has changed" (`admin.py:651`).
3. **The checkout's rollback can be doubled** (`RegRollbackCrash`): seats are released
   before the order leaves `pending` (`public.py:273`), so a loss in between lets the
   cleanup release them again. The webhook and the cleanup write the status first.
4. **Seats can leak** (`RegSeatsLeak`): a loss after the reservation and before the order
   is written leaves seats that no order names; the cleanup is not a backstop for these.
   A loss after an expiry's status write has the same effect.

5. **Two events can be open** (`CatalogTwoOpen`): two openings scan before either writes
   (`admin.py:266`), and the writes have no condition.
6. **A form can land on another clown's profile** (`ClownEditsOther`): the row is found by
   the session's sub and written by its id (`admin.py:1696`); an admin's link in between
   gives that row to someone else.

7. **A missing Stripe key does not fail loudly** (`StripeMissingKey`): `docs/DEPLOYMENT.md:82`
   and `:88` say that a missing parameter "falls back to an empty/default value" and "fails
   loudly at checkout, not silently". That is so after a cold start. A warm container keeps the
   key it had (`config.py:146`): after a flip to a mode whose secret key is missing it shows the
   new mode and charges the account of the old one, for as long as the key is missing. The flip
   may be from live to test: real cards are then charged while the badge says test.

Two more things are recorded without a run of their own:

* **A deleted entry can come back blank.** The scan after the deletion (`admin.py:1249`, `1634`)
  is not consistent and may return the deleted row; its position is then written without a
  condition (`admin.py:1182`, `1553`), which makes a row with nothing else. One request is enough,
  and a renumbering by another admin during a deletion does the same. The tests that delete
  (`tests/test_admin_routes.py:1684`, `tests/test_clowns_section.py:718`) expect that only the
  others are left. `EditorialLists` has both behaviours and no property says otherwise;
  `RenumberingHeals` holds with them.
* The comment at `public.py:163` says that a buyer whose page was loaded before an increase
  would "see the increase reflected before submitting anyway". The page is not rendered
  again; what it has is the notice of the increase, and `ChargedAsShown` says just that.

## 5. Proofs

The registration's proofs are for arbitrary `Orders`, `CompOrders`, `Hooks`, `Refunders`, `Doors`,
`Capacities`, `MaxTickets`, `MaxCrashes` and all `SessionTTL < CleanupGrace`.

The properties are not inductive: that a settled order counts once says nothing about a
release that is still due. `RegistrationInvariants` says what is true meanwhile:

* `LifeInv`: while a checkout request runs, nobody else can move its order (it is too
  young for the cleanup, and its session is neither paid nor expired); an order in the
  cleanup's batch has no open session; a claimed refund owns its order. The parts need
  each other: that the checkout's unconditional "canceled" overwrites nothing relies on
  the ages, and so does the order staying refunded while its claimer works.
* `SecondInv`: the transition behind a pending second write cannot happen again, so each
  second write is due at most once per order.
* `LedgerInv`: an order's seats are counted as its status says, plus the releases still
  due, minus the reclaim still due, and corrected for a running checkout.
* `MoneyInv`: money follows the status (only without lost replies).

From these: `TypeCorrect`; `Inductive`; `LedgerSettles`; `FulfilsOnce`;
`RefundsOneAtATime`; `GivenUpUnpayable`; with `LostReplies = FALSE`, `Implements` (each
step of a handler is a step of the box office or a stutter), `TicketsArePaid` and
`RefundsReturn`; and, each with a small invariant of its own, `PaymentsAnswered`,
`PaymentsFindTheirOrders` (a paid session's request was redirected, so its rollback is
behind it and nobody cancels the order any more) and `AdmitsOnce`. The hypothesis on lost
replies is necessary: finding 2 is the counterexample.

What the event's count is, is a sum over the orders:

* `CountInv`: `tickets_sold_count` is the sum of what the orders have booked (`Booked`, an
  order's releases and additions times its seats), in every state, lost invocations
  included (`CountAddsUp`). With every order settled, `LedgerSettles` says that each booked
  its seats or nothing, so the count is the seats of the pending and paid orders
  (`SeatsMatch`).
* `RoomInv`: as long as nothing was lost and no late payment refunded (`Undisturbed`), no
  order has less than nothing in the count, so the count bounds the seats of the orders that
  the reservation's condition let in. That condition compares the count with a capacity read
  earlier, which is at most the largest one offered. `OrdinaryOrdersFit` follows. The proof
  shows where a refunded late payment breaks in: it books less than nothing until the webhook
  has reclaimed its seats.

Sums are defined without recursion: the weights of the elements are laid out as disjoint
unit cells (`Units`), and the sum is the number of cells of the positive weights less that of
the negative ones. What a step needs to know, that changing one summand changes the sum by the
difference (`TotalChange`), then follows from facts about cardinalities instead of an induction.

For the catalogue, with any events, images, requests and `MaxSold`: `CatalogInductive`
adds to the types that openings under way which did not overlap know every open event
(`OpeningsApart`); `OneOpen` and `SalesAreKept` follow. `ImageInv` is about the bucket:
every image has one home, the event and field it was uploaded for, under which alone it is
named, read and deleted (`OneHome`); an upload that is not yet written is known to one
request (`HeldApart`); a field that is not spoiled has one editor (`EditsAlone`), who has
the pool in hand as it is (`PoolInHand`). So a deletion hits only images of a field that
its request is editing, and `NamedImagesExist` and `PoolKeepsTheRest` follow.

For the profiles, `ProfileInv` holds however many requests run at once. Its core is
`EmailsLast`: a row never changes its address, so an address that was read is still right
when the write comes, unless the row is gone or was made up meanwhile; with one live
account per address (`OneLivePerEmail`), every link the code makes by address joins equal
addresses (`LinksAreVouched`). `SoloInv` adds, for requests one at a time (`OneAtATime`)
and files that name nobody twice (`DistinctLines`), that what was read is still so: exactly
for a visit and a link, and for an import in respect of the lines to come, although its own
lines change the table (`ImportCurrent`, `ReclaimCurrent`). That no update then makes a row up
(`NoGhostRows`) is a part of it and not a result: it fails for two requests. `OneProfile` and
`LiveLoginsKeepProfiles` follow. Both hypotheses are necessary, and the hazards say so.

For the components of `Backstage`, for any containers, secrets, logins, orders, deliveries,
entries and prices:

* `ConfigInv` says what a copy is worth at its age (`CopyOK`): a copy younger than the last edit
  says what SSM says, with the secret key of its mode if SSM has one; one loaded since the last
  gap has the key of the mode it shows; when a live copy was loaded, SSM said "live"; and a
  container that never read "live" has no live key. `FlipReachesAlways`, `KeyMatchesBadgeAlways`
  and `NeverFailsOpenAlways` follow, because a checkout refreshes a copy that is older than the
  TTL. The last one covers gaps too: a missing test key leaves a live key in a container that
  was live (finding 7) and opens no other.
* For `SignIn`, whoever carries an admin's claim lost the group no longer ago than the cookie is
  old (`RightsInv`). A container that let a retired secret in has a copy with the new one by
  then (`LateInv`). `RightsAlwaysEnd` and `RetiredSecretAtMostOnce` follow.
* For `Announcements`, `Owes`: a run that has failed at nobody has among its remaining
  recipients every entitled mailbox without mail. `SentAlwaysMeansSent` follows for any
  interleaving of runs. `CopiesInv` counts the mails to a mailbox run by run: a run owes at
  most one, and none after it was made (one entry stands for each mailbox), so the sum over the
  runs bounds them (`OncePerRunAlways`). `TriesInv` counts faults against attempts: a run that
  faults has been tried at most once more than there were faults, so it is not the last, and
  the row is never left queued, sending or failed with nothing to come
  (`NeverLeftHalfWayAlways`, for fewer faults than attempts).
* For `EditorialLists`, `AloneInv` follows a renumbering that nobody writes beside: the
  positions before its cursor are written as its list says, and the list has every row, and
  perhaps the deleted one, which the renumbering then writes back. At its end
  the positions count up along the list, and then there is one order to show it in
  (`OneOrder`): a sorted list visits increasing positions from 0 to n-1, and the only way to
  count up from 1 to n in n steps is by ones (`OneWayUp`, by cardinality). So
  `RenumberingAlwaysHeals`.
* For `Pricing`, `FeeAlwaysExact` is integer arithmetic on the formula, for all subtotals;
  `AlwaysChargedAsShown` rests on what an unedited page knows of the offer.

`BackstageInv` puts these together: a component whose scene is not on stutters, so all types
stay (`BackstageTypes`). `ScenesAreBehaviours` says that every behaviour of the run is one of
the components' specifications (of `SignIn` in every scene but Stripe's, where operators edit
keys), so the theorems speak of what TLC explores. Its point is the copy that both share: a
refresh made by signing in is a step `StripeMode` allows.

The hypotheses are the modules' assumptions on their constants, and for the scenes that
`c1` is one of the containers.

Every invariant and action property that a passing run checks is a theorem. Only model-checked
are the five liveness properties (`PendingEnds`, `PaymentHonoured`, `ExpiredSeatsReturn`,
`PaidIsHeard`, `AcceptedIsSent`), because the prover has neither fairness nor ENABLED. What of
them can be said without fairness is proved: a captured payment can be taken
(`PaymentsFindTheirOrders`), an expired order's seats are back or on their way (`LedgerInv`),
and an accepted announcement has a run to come (`NeverLeftHalfWayAlways`). The first is checked
where `PaymentHonoured` is not, in `RegCrash` with losses.

## 6. Not modelled, and the plan

Left to do:

1. A refund in `StripeMode`: the key of the copy may be the other mode's, in which case Stripe
   refuses it and the order is put back, as in `Refunds`.
2. The order of equal positions in `EditorialLists`, if a property comes to depend on it.

Left out for good: HTML, rich text, the text of emails, CSV formatting, page sorting, JWT
verification with its key cache and the CDK stack: rendering, libraries and wiring without
state of their own. The beneficiaries, the charity's texts and the timeline are single
unconditional writes, and `update_clown_official` writes fields no other handler reads. Of
a clown's photo, the calls are those of the logo in `EventCatalog`.
