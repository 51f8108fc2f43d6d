------------------------------ MODULE MCBackstage ------------------------------
(***************************************************************************)
(* The components beside the box office, one at a time: Stripe's mode,     *)
(* signing in (the rights of admins, and the session secret, each with its *)
(* own bounds), an announcement, the editorial lists and the prices.  They *)
(* share no table, so a behaviour chooses its scene and leaves what the    *)
(* others keep alone.                                                      *)
(***************************************************************************)
EXTENDS StripeMode, SignIn, Announcements, EditorialLists, Pricing, TLC

CONSTANTS p2, c1, x1, o1, o2, w1

ASSUME SceneAssumption == c1 \in Containers

VARIABLE scene
backstageVars == <<stripeVars, signInVars, mailVars, listVars, pricingVars, scene>>

\* One address on an order and on the waitlist.
MCMailboxOf == o1 :> "ann" @@ o2 :> "bob" @@ w1 :> "ann"
\* In mills: refused, rounded up to $12.35, and $20.
MCTyped == {-10, 12345, 20000}

sessionVars == <<poolVars, pkce, cookie, op, gone, late>>
saleVars    == <<purchase, session>>

-----------------------------------------------------------------------------

Starting(s) ==
  /\ scene = s
  /\ s # "stripe" => ssm.stored = Modes \X Fields
  /\ s # "secrets" => ssm.session_secret = x1
  /\ s # "mail" => order = [o \in TicketOrders |-> "pending"]
  /\ s # "lists" => list = "faq"
  /\ s # "prices" => offer.price = 2000

BackstageInit ==
  /\ StripeInit /\ SignInInit /\ MailInit /\ ListInit /\ PricingInit
  /\ \E s \in {"stripe", "rights", "secrets", "mail", "lists", "prices"} : Starting(s)

StripeScene ==
  /\ scene = "stripe"
  /\ StripeNext
  /\ UNCHANGED <<sessionVars, mailVars, listVars, pricingVars, scene>>

\* One container and one secret: what admins do to each other.
RightsScene ==
  /\ scene = "rights"
  /\ \/ \E u \in Clowns : ClownNext(u)
     \/ SignInTick
     \/ ColdStart(c1) /\ UNCHANGED sessionVars
  \* Bound: a browser signs in when it is signed out.
  /\ \A u \in Clowns : pkce'[u] # None => cookie[u] = None
  /\ UNCHANGED <<saleVars, mailVars, listVars, pricingVars, scene>>

\* Nobody's account changes: the cookies, the copies and the secret.
SecretsScene ==
  /\ scene = "secrets"
  /\ \/ \E u \in FirstAdmins : \/ logout(u)
                               \/ \E c \in Containers : \/ login(u, c) \/ callback(u, c)
                                                        \/ _restart_login(u, c)
                                                        \/ require_member(u, c)
     \/ SignInConfig \/ SecretEdited \/ SignInTick
  /\ UNCHANGED <<saleVars, mailVars, listVars, pricingVars, scene>>

MailScene ==
  /\ scene = "mail"
  /\ MailNext
  \* Bound: the announcement goes to the waitlist, or to both.
  /\ item' # Unwritten => "waitlist" \in item'.audience
  /\ UNCHANGED <<configVars, saleVars, sessionVars, listVars, pricingVars, scene>>

ListsScene ==
  /\ scene = "lists"
  /\ ListNext
  \* Bounds: two links; p2 adds and moves nothing, p1 does everything.
  /\ list = "krewe_links" => created' <= 2
  /\ desk[p2].at = "idle" => desk'[p2].at \notin {"create", "renumber"}
  /\ UNCHANGED <<configVars, saleVars, sessionVars, mailVars, pricingVars, scene>>

PricesScene ==
  /\ scene = "prices"
  /\ PricingNext
  /\ UNCHANGED <<configVars, saleVars, sessionVars, mailVars, listVars, scene>>

BackstageNext ==
  StripeScene \/ RightsScene \/ SecretsScene \/ MailScene \/ ListsScene \/ PricesScene

BackstageSpec == /\ BackstageInit
                 /\ [][BackstageNext]_backstageVars
                 /\ StripeFairness /\ MailFairness

-----------------------------------------------------------------------------

\* Every variable keeps its type.
TypeOK == StripeTypeOK /\ SignInTypeOK /\ MailTypeOK /\ ListTypeOK /\ PricingTypeOK
=============================================================================
