-------------------------------- MODULE Pricing --------------------------------
(***************************************************************************)
(* app/pricing.py and the requests that use it: the admin's offer (a price *)
(* and a scheduled increase), the page a buyer reads, and the charge the   *)
(* checkout makes later.  Amounts are whole cents; what an admin types is  *)
(* given in mills, so that rounding has something to round.                *)
(***************************************************************************)
EXTENDS Integers

CONSTANTS
  Buyers,
  Typed,       \* amounts an admin types, in mills
  LastDay,     \* bound: days 1..LastDay
  Quantities,  \* tickets of one checkout
  Donations,   \* donations, in whole dollars
  MaxOffers,   \* bound: edits of the offer
  NoneYet

ASSUME PricingAssumption ==
  /\ Typed \subseteq Int /\ \E m \in Typed : m >= 0
  /\ LastDay \in Nat \ {0}
  /\ Quantities \subseteq Nat \ {0} /\ Donations \subseteq Nat
  /\ MaxOffers \in Nat
  /\ NoneYet \notin [date : Int, cents : Int]

VARIABLES
  day,     \* today, UTC
  offer,   \* the event's price and its scheduled increase
  page,    \* what each buyer's open page says; "edited" is history
  sale,    \* the charge of each buyer's checkout
  offers   \* edits of the offer so far
pricingVars == <<day, offer, page, sale, offers>>

-----------------------------------------------------------------------------
(* pricing.py *)

\* For mutation: the sign is not looked at.
any_amount(m) == m \in Int
Accepted(m) == m >= 0

\* ROUND_HALF_UP of an amount that is accepted.
parse_dollars_to_cents(m) == (m + 5) \div 10

Ceil(n, d) == (n + d - 1) \div d
\* (subtotal + 30) / (1 - 0.029), rounded up.  The code divides floats; for
\* subtotals up to $30,000 they give this very integer.
compute_processing_fee(subtotal) ==
  IF subtotal <= 0 THEN 0 ELSE Ceil((subtotal + 30) * 1000, 971) - subtotal

\* For mutation: the increase takes effect the day after its date.
one_day_late(event, today) ==
  IF event.increase # NoneYet /\ today > event.increase.date
  THEN event.increase.cents ELSE event.price
current_ticket_price_cents(event, today) ==
  IF event.increase # NoneYet /\ today >= event.increase.date
  THEN event.increase.cents ELSE event.price

price_increase_is_upcoming(event, today) ==
  event.increase # NoneYet /\ today < event.increase.date

\* Stripe takes 2.9% of the whole charge, to the nearest cent, and 30 cents.
StripeCut(total) == (total * 29 + 500) \div 1000 + 30
Net(total) == total - StripeCut(total)

-----------------------------------------------------------------------------
(* State *)

Days == 1..LastDay
Cents == {parse_dollars_to_cents(m) : m \in {x \in Typed : x >= 0}}
Increases == [date : Days, cents : Cents]
Offer == [price : Cents, increase : Increases \cup {NoneYet}]
Page == [unit : Cents, notice : Increases \cup {NoneYet}, edited : BOOLEAN]
Sale == [unit : Cents, subtotal : Nat, fee : Nat]

-----------------------------------------------------------------------------
(* update_event_details: a price, and a date and an amount together or    *)
(* neither.  A negative amount is refused.                                 *)

UpdateOffer(new) ==
  /\ offers < MaxOffers
  /\ offer' = new
  /\ offers' = offers + 1
  /\ page' = [b \in Buyers |-> IF page[b] = NoneYet THEN NoneYet
                               ELSE [page[b] EXCEPT !.edited = TRUE]]
  /\ UNCHANGED <<day, sale>>

SetPrice(m) ==
  Accepted(m) /\ UpdateOffer([price |-> parse_dollars_to_cents(m), increase |-> NoneYet])
SetPriceAndIncrease(m, date, n) ==
  /\ Accepted(m) /\ Accepted(n)
  /\ UpdateOffer([price |-> parse_dollars_to_cents(m),
                  increase |-> [date |-> date, cents |-> parse_dollars_to_cents(n)]])

\* The page renders with today's date: the price, and the increase to come.
register_page(b) ==
  /\ sale[b] = NoneYet
  /\ page' = [page EXCEPT ![b] =
       [unit |-> current_ticket_price_cents(offer, day),
        notice |-> IF price_increase_is_upcoming(offer, day) THEN offer.increase ELSE NoneYet,
        edited |-> FALSE]]
  /\ UNCHANGED <<day, offer, sale, offers>>

\* For mutation: the fee covers the tickets only.
tickets_only(unit, quantity, donation) ==
  [unit |-> unit, subtotal |-> unit * quantity + donation * 100,
   fee |-> compute_processing_fee(unit * quantity)]
Charged(unit, quantity, donation) ==
  LET subtotal == unit * quantity + donation * 100 IN
  [unit |-> unit, subtotal |-> subtotal, fee |-> compute_processing_fee(subtotal)]

\* POST /checkout from an open page, however old: the price is today's.
Charge(b, quantity, donation) ==
  /\ page[b] # NoneYet
  /\ sale[b] = NoneYet
  /\ sale' = [sale EXCEPT ![b] =
                Charged(current_ticket_price_cents(offer, day), quantity, donation)]
  /\ UNCHANGED <<day, offer, page, offers>>

NextDay ==
  /\ day < LastDay
  /\ day' = day + 1
  /\ UNCHANGED <<offer, page, sale, offers>>

PricingInit ==
  /\ day = 1
  /\ offer \in [price : Cents, increase : {NoneYet}]
  /\ page = [b \in Buyers |-> NoneYet]
  /\ sale = [b \in Buyers |-> NoneYet]
  /\ offers = 0

PricingNext ==
  \/ \E m \in Typed : SetPrice(m)
  \/ \E m, n \in Typed, date \in Days : SetPriceAndIncrease(m, date, n)
  \/ \E b \in Buyers :
       \/ register_page(b)
       \/ \E quantity \in Quantities, donation \in Donations : Charge(b, quantity, donation)
  \/ NextDay

PricingSpec == PricingInit /\ [][PricingNext]_pricingVars

-----------------------------------------------------------------------------
(* Properties *)

PricingTypeOK ==
  /\ day \in Days
  /\ offer \in Offer
  /\ page \in [Buyers -> Page \cup {NoneYet}]
  /\ sale \in [Buyers -> Sale \cup {NoneYet}]
  /\ offers \in 0..MaxOffers

\* "The organizer still nets the full subtotal", tickets and donation, after
\* Stripe's cut of the whole charge, and the buyer pays at most one cent more
\* than that takes.
FeeIsExact ==
  \A b \in Buyers :
    sale[b] # NoneYet /\ sale[b].subtotal > 0 =>
      LET total == sale[b].subtotal + sale[b].fee IN
      Net(total) >= sale[b].subtotal /\ Net(total - 2) < sale[b].subtotal

\* A buyer is charged the price the page showed, however long it stood open,
\* unless an admin edited the offer meanwhile or the page itself announced the
\* increase that took effect.
ChargedAsShown ==
  [][\A b \in Buyers :
       sale[b] = NoneYet /\ sale'[b] # NoneYet /\ ~page[b].edited =>
         \/ sale'[b].unit = page[b].unit
         \/ /\ page[b].notice # NoneYet
            /\ sale'[b].unit = page[b].notice.cents
            /\ day >= page[b].notice.date]_pricingVars
=============================================================================
