------------------------------ MODULE StripeMode ------------------------------
(***************************************************************************)
(* Which Stripe account a call reaches.  Checkouts and webhook deliveries  *)
(* are served by containers whose copies of the mode and the keys differ   *)
(* for a while after the operator flips stripe_mode.  A checkout and a     *)
(* delivery are single steps: their own calls are taken apart in Checkout  *)
(* and StripeWebhooks; what matters here is the copy they use.             *)
(***************************************************************************)
EXTENDS SecureParams

CONSTANT Purchases   \* checkouts

VARIABLES
  purchase,  \* status of the order
  session    \* Stripe's session: the account that made it, whether it is paid, and
             \* (history) the mode its container showed
stripeVars == <<configVars, purchase, session>>

Session == [account : Modes, shown : Modes, paid : BOOLEAN]

\* POST /checkout: refresh, then Session.create with the key of the copy.  An
\* empty key raises and the order is canceled.
checkout(o, c) ==
  /\ Warm(c)
  /\ purchase[o] = "none"
  /\ Refresh(c)
  /\ LET copy == refresh_secure_params_if_stale(c)
         key  == copy.key["secret_key"] IN
     IF key = None
     THEN purchase' = [purchase EXCEPT ![o] = "canceled"] /\ UNCHANGED session
     ELSE /\ purchase' = [purchase EXCEPT ![o] = "pending"]
          /\ session' = [session EXCEPT ![o] =
                           [account |-> key, shown |-> copy.stripe_mode, paid |-> FALSE]]
  /\ UNCHANGED <<ssm, since, edits>>

\* The buyer pays on the hosted page of the account that made the session.
Pay(o) ==
  /\ session[o] # None
  /\ ~session[o].paid
  /\ session' = [session EXCEPT ![o].paid = TRUE]
  /\ UNCHANGED <<configVars, purchase>>

Awaited(o) == session[o] # None /\ session[o].paid /\ purchase[o] = "pending"

\* For mutation: the handler trusts the copy it has.
webhook_without_refresh(o, c) ==
  /\ Warm(c)
  /\ Awaited(o)
  /\ settings[c].key["webhook_secret"] = session[o].account
  /\ purchase' = [purchase EXCEPT ![o] = "paid"]
  /\ UNCHANGED <<configVars, session>>

\* Stripe signs with the endpoint secret of the session's account and repeats
\* a delivery that is answered 400.
stripe_webhook(o, c) ==
  /\ Warm(c)
  /\ Awaited(o)
  /\ Refresh(c)
  /\ purchase' =
       IF refresh_secure_params_if_stale(c).key["webhook_secret"] = session[o].account
       THEN [purchase EXCEPT ![o] = "paid"] ELSE purchase
  /\ UNCHANGED <<ssm, since, edits, session>>

StripeInit ==
  /\ ConfigInit
  /\ purchase = [o \in Purchases |-> "none"]
  /\ session = [o \in Purchases |-> None]

StripeConfig == (Containing \/ Operating \/ ConfigTick) /\ UNCHANGED <<purchase, session>>

StripeNext ==
  \/ \E o \in Purchases :
       \/ Pay(o)
       \/ \E c \in Containers : checkout(o, c) \/ stripe_webhook(o, c)
  \/ StripeConfig

StripeSpec == StripeInit /\ [][StripeNext]_stripeVars

-----------------------------------------------------------------------------
(* Properties *)

StripeTypeOK ==
  /\ ConfigTypeOK
  /\ purchase \in [Purchases -> {"none", "pending", "canceled", "paid"}]
  /\ session \in [Purchases -> Session \cup {None}]

SessionMade(o) == session[o] = None /\ session'[o] # None

\* The flip reaches every checkout: once SSM has been left alone for the TTL,
\* whichever container serves a checkout, the session is made in the account
\* SSM names (the README's "within about 60 seconds").  Not promised while the
\* secret key of that mode is missing: see MissingKeyFailsLoudly.
FlipReaches ==
  [][\A o \in Purchases :
       SessionMade(o) /\ since.edit = TTL /\ Has(ssm, "secret_key") =>
         session'[o].account = EffectiveMode(ssm)]_stripeVars

\* A missing key fails loudly (DEPLOYMENT.md: switching too early "fails loudly
\* at checkout, not silently"; a missing parameter "just makes the next Stripe
\* call fail loudly"): no session is made in an account other than the mode its
\* container shows.  The code does not keep this: a warm container that misses
\* the key of the new mode goes on with the key of the mode before.
MissingKeyFailsLoudly ==
  \A o \in Purchases : session[o] # None => session[o].account = session[o].shown

\* The badge tells the truth: no checkout charges an account other than the
\* mode its container shows, unless within the last TTL SSM lacked the secret
\* key of its mode.  That exception is MissingKeyFailsLoudly's violation; no
\* other missing parameter, flip or stale copy makes one.
KeyMatchesBadge ==
  [][\A o \in Purchases :
       SessionMade(o) /\ since.gap = TTL =>
         session'[o].account = session'[o].shown]_stripeVars

\* Real cards are charged only
\*   - while SSM says "live" or said so less than the TTL ago, or while the test
\*     secret key is missing or was so less than the TTL ago (a live session is
\*     then made however long ago SSM said "live": MissingKeyFailsLoudly), and
\*   - by a container that has itself read "live" since it came up, gap or not.
\* No misspelling and no stale copy opens into live, and a missing test key
\* opens no container that was not live before.
NeverFailsOpen ==
  [][\A o \in Purchases, c \in Containers :
       SessionMade(o) /\ checkout(o, c) /\ session'[o].account = "live" =>
         /\ since.live < TTL \/ since.gap < TTL
         /\ settings'[c].opened = "once"]_stripeVars

\* A paid session is heard in the end, however often the mode was flipped
\* around it, provided the operator comes to rest in the session's mode with
\* its pair and the session secret in place.
Rests(m) == /\ EffectiveMode(ssm) = m /\ ssm.session_secret # None
            /\ \A f \in Fields : Has(ssm, f)
PaidIsHeard ==
  \A o \in Purchases, m \in Modes :
    <>[]Rests(m) =>
      ((session[o] # None /\ session[o].account = m /\ session[o].paid) ~> purchase[o] = "paid")

\* Time passes, Stripe repeats its deliveries, and a request to a cold function
\* starts a container.
StripeFairness ==
  /\ WF_stripeVars(ConfigTick /\ UNCHANGED <<purchase, session>>)
  /\ WF_stripeVars(/\ \E o \in Purchases : Awaited(o)
                   /\ \E c \in Containers : ColdStart(c)
                   /\ UNCHANGED <<purchase, session>>)
  /\ \A o \in Purchases : SF_stripeVars(\E c \in Containers : stripe_webhook(o, c))
=============================================================================
