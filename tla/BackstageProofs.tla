---------------------------- MODULE BackstageProofs ----------------------------
(***************************************************************************)
(* What the components beside the box office promise, for every value of   *)
(* their constants: the copies of the parameters and Stripe's mode, the    *)
(* rights of admins and the session secret, the announcement, the lists,   *)
(* and the prices.                                                         *)
(***************************************************************************)
EXTENDS MCBackstage, SumTheorems, TLAPS

-----------------------------------------------------------------------------
(* SecureParams: what a copy is worth at its age *)

\* A copy older than the last edit says nothing; a younger one says what SSM says.
Matches(k) ==
  /\ k.stripe_mode = EffectiveMode(ssm)
  /\ ssm.session_secret # None => k.session_secret = ssm.session_secret
  /\ \A f \in Fields : Has(ssm, f) => k.key[f] = EffectiveMode(ssm)

\* A copy with a live key has read "live" at some time, whatever its age.
CopyOK(k) ==
  /\ k \in Settings
  /\ since.edit > k.age => Matches(k)
  /\ since.gap > k.age => k.key["secret_key"] = k.stripe_mode
  /\ k.stripe_mode = "live" => since.live <= k.age
  /\ k.key["secret_key"] = "live" => k.opened = "once"

ConfigInv ==
  /\ ConfigTypeOK
  /\ Has(ssm, "secret_key") \/ since.gap = 0
  /\ ssm.stripe_mode = "live" => since.live = 0
  /\ \A c \in Containers : Warm(c) => CopyOK(settings[c])

\* What a step of either component may do to the parameters.
ConfigStep ==
  \/ UNCHANGED configVars
  \/ \E c \in Containers : Warm(c) /\ Refresh(c) /\ UNCHANGED <<ssm, since, edits>>
  \/ Containing
  \/ \E p \in Params : Edit(p)
  \/ ConfigTick

\* A copy is not the cold mark.
LEMMA ColdIsNoCopy ==
  ASSUME NEW k \in Settings
  PROVE  k # Cold
BY DEF Settings, Cold

\* A copy that has just been loaded.
LEMMA AppliedCopy ==
  ASSUME ConfigAssumption, ConfigTypeOK, Has(ssm, "secret_key") \/ since.gap = 0,
         ssm.stripe_mode = "live" => since.live = 0,
         NEW old, old.key \in [Fields -> Modes \cup {None}], old.session_secret \in Secrets,
         old.opened \in {"never", "once"}, old.key["secret_key"] = "live" => old.opened = "once"
  PROVE  LET k == _apply_secure_params(old) IN CopyOK(k) /\ Matches(k) /\ k.age = 0
<1> DEFINE k == _apply_secure_params(old)
<1> HIDE DEF k
<1>1. EffectiveMode(ssm) \in Modes
  BY DEF EffectiveMode, Modes
<1>2. /\ k.key = [f \in Fields |-> KeyValue(old.key[f], f)] /\ k.age = 0
      /\ k.stripe_mode = EffectiveMode(ssm)
      /\ k.session_secret = IF ssm.session_secret # None THEN ssm.session_secret
                            ELSE old.session_secret
      /\ k.opened = IF ssm.stripe_mode = "live" THEN "once" ELSE old.opened
  BY DEF k, _apply_secure_params
<1>3. \A f \in Fields : KeyValue(old.key[f], f) \in Modes \cup {None}
  BY <1>1 DEF KeyValue
<1>4. ssm.session_secret \in Secrets \cup {None}
  BY DEF ConfigTypeOK, Params
<1>5. 0 \in 0..TTL
  BY DEF ConfigAssumption
<1>6. k \in Settings
  <2>1. [f \in Fields |-> KeyValue(old.key[f], f)] \in [Fields -> Modes \cup {None}]
    BY <1>3
  <2>2. (IF ssm.session_secret # None THEN ssm.session_secret ELSE old.session_secret) \in Secrets
    BY <1>4
  <2>3. (IF ssm.stripe_mode = "live" THEN "once" ELSE old.opened) \in {"never", "once"}
    OBVIOUS
  <2> QED
    BY <1>1, <1>5, <2>1, <2>2, <2>3 DEF k, _apply_secure_params, Settings
<1>7. \A f \in Fields : Has(ssm, f) => k.key[f] = EffectiveMode(ssm)
  BY <1>2 DEF KeyValue
<1>8. Matches(k)
  BY <1>2, <1>7 DEF Matches
<1>9. since.gap > 0 => Has(ssm, "secret_key")
  BY DEF ConfigTypeOK
<1>10. k.stripe_mode = "live" => since.live = 0
  BY <1>2 DEF EffectiveMode
<1>11. k.key["secret_key"] = "live" => k.opened = "once"
  BY <1>2 DEF KeyValue, EffectiveMode, Fields
<1>12. CopyOK(k)
  BY <1>2, <1>6, <1>7, <1>8, <1>9, <1>10, <1>11 DEF CopyOK, ConfigTypeOK, Fields
<1> QED
  BY <1>2, <1>8, <1>12 DEF k

\* A copy that a request has refreshed is younger than the TTL.
LEMMA RefreshedCopy ==
  ASSUME ConfigAssumption, ConfigInv, NEW c \in Containers, Warm(c)
  PROVE  LET k == refresh_secure_params_if_stale(c) IN
         CopyOK(k) /\ k.age < TTL
           /\ (k = settings[c] \/ Matches(k))
<1>1. settings[c] \in Settings /\ CopyOK(settings[c])
  BY DEF ConfigInv, CopyOK
<1>2. /\ settings[c].key \in [Fields -> Modes \cup {None}] /\ settings[c].session_secret \in Secrets
      /\ settings[c].opened \in {"never", "once"} /\ settings[c].age \in 0..TTL
      /\ settings[c].key["secret_key"] = "live" => settings[c].opened = "once"
  BY <1>1 DEF Settings, CopyOK
<1>3. CASE settings[c].age < TTL
  BY <1>1, <1>3 DEF refresh_secure_params_if_stale
<1>4. CASE ~(settings[c].age < TTL)
  <2>1. refresh_secure_params_if_stale(c) = _apply_secure_params(settings[c])
    BY <1>4 DEF refresh_secure_params_if_stale
  <2> QED
    BY <1>2, <2>1, AppliedCopy DEF ConfigInv, ConfigAssumption
<1> QED
  BY <1>3, <1>4

\* The copies keep what they are worth through every step.
LEMMA CopiesKept ==
  ASSUME ConfigTypeOK, settings' \in [Containers -> Settings \cup {Cold}],
         UNCHANGED <<ssm, since, edits>>, ConfigInv,
         \A c \in Containers : Warm(c)' => CopyOK(settings'[c])
  PROVE  ConfigInv'
<1>1. \A k : CopyOK(k) => CopyOK(k)'
  BY DEF CopyOK, Matches, Has, EffectiveMode
<1>2. \A c \in Containers : Warm(c)' => CopyOK(settings[c])'
  BY <1>1 DEF CopyOK, Matches, Has, EffectiveMode
<1> QED
  BY <1>2 DEF ConfigInv, ConfigTypeOK, Has, EffectiveMode

LEMMA ConfigInvStep ==
  ASSUME ConfigAssumption, ConfigInv, ConfigStep
  PROVE  ConfigInv'
<1> USE DEF ConfigInv
<1>1. CASE UNCHANGED configVars
  BY <1>1 DEF configVars, ConfigTypeOK, Has, EffectiveMode, Warm, CopyOK, Matches
<1>2. CASE \E c \in Containers : Warm(c) /\ Refresh(c) /\ UNCHANGED <<ssm, since, edits>>
  <2>1. PICK c \in Containers : Warm(c) /\ Refresh(c) /\ UNCHANGED <<ssm, since, edits>>
    BY <1>2
  <2> DEFINE k == refresh_secure_params_if_stale(c)
  <2>2. CopyOK(k) /\ k \in Settings
    BY <2>1, RefreshedCopy DEF CopyOK
  <2> HIDE DEF k
  <2>3. settings' = [settings EXCEPT ![c] = k]
    BY <2>1 DEF Refresh, k
  <2>4. settings' \in [Containers -> Settings \cup {Cold}]
    BY <2>2, <2>3 DEF ConfigTypeOK
  <2>5. \A d \in Containers : Warm(d)' => CopyOK(settings'[d])
    BY <2>2, <2>3 DEF ConfigTypeOK, Warm
  <2> QED
    BY <2>1, <2>4, <2>5, CopiesKept
<1>3. ASSUME NEW c \in Containers, ColdStart(c)
      PROVE  ConfigInv'
  <2> DEFINE k == _apply_secure_params(Fresh)
  <2>1. /\ Fresh.key \in [Fields -> Modes \cup {None}] /\ Fresh.key["secret_key"] # "live"
        /\ Fresh.session_secret \in Secrets /\ Fresh.opened \in {"never", "once"}
    BY <1>3 DEF ColdStart, ConfigTypeOK, Params, Fresh, Fields, ConfigAssumption, Modes
  <2>2. CopyOK(k) /\ k \in Settings
    BY <2>1, AppliedCopy DEF CopyOK
  <2> HIDE DEF k
  <2>3. settings' = [settings EXCEPT ![c] = k] /\ UNCHANGED <<ssm, since, edits>>
    BY <1>3 DEF ColdStart, k
  <2>4. settings' \in [Containers -> Settings \cup {Cold}]
    BY <2>2, <2>3 DEF ConfigTypeOK
  <2>5. \A d \in Containers : Warm(d)' => CopyOK(settings'[d])
    BY <2>2, <2>3 DEF ConfigTypeOK, Warm
  <2> QED
    BY <2>3, <2>4, <2>5, CopiesKept
<1>4. ASSUME NEW c \in Containers, Recycle(c)
      PROVE  ConfigInv'
  <2>1. settings' \in [Containers -> Settings \cup {Cold}]
    BY <1>4 DEF Recycle, ConfigTypeOK
  <2>2. \A d \in Containers : Warm(d)' => CopyOK(settings'[d])
    BY <1>4 DEF Recycle, ConfigTypeOK, Warm
  <2> QED
    BY <1>4, <2>1, <2>2, CopiesKept DEF Recycle
<1>5. ASSUME NEW p \in Params, Edit(p)
      PROVE  ConfigInv'
  <2>1. ssm' = p /\ edits' = edits + 1 /\ edits < MaxEdits /\ UNCHANGED settings
        /\ since'.edit = 0
        /\ since'.live = (IF p.stripe_mode = "live" THEN 0 ELSE since.live)
        /\ since'.gap = (IF Has(p, "secret_key") THEN since.gap ELSE 0)
    BY <1>5 DEF Edit
  <2>2. ConfigTypeOK'
    BY <1>5 DEF Edit, ConfigTypeOK, ConfigAssumption
  <2>3. (Has(ssm, "secret_key") \/ since.gap = 0)'
    BY <2>1 DEF Has, EffectiveMode
  <2>4. (ssm.stripe_mode = "live" => since.live = 0)'
    BY <2>1
  <2>5. ASSUME NEW c \in Containers, Warm(c)'
        PROVE  CopyOK(settings[c])'
    <3>1. settings'[c] = settings[c] /\ CopyOK(settings[c]) /\ settings[c].age \in 0..TTL
      BY <2>1, <2>5 DEF Warm, CopyOK, Settings
    <3> QED
      BY <2>1, <3>1 DEF CopyOK, ConfigTypeOK, ConfigAssumption
  <2> QED
    BY <2>2, <2>3, <2>4, <2>5
<1>6. CASE ConfigTick
  <2>1. UNCHANGED <<ssm, edits>>
        /\ since'.edit = Older(since.edit)
        /\ since'.live = (IF ssm.stripe_mode = "live" THEN 0 ELSE Older(since.live))
        /\ since'.gap = (IF Has(ssm, "secret_key") THEN Older(since.gap) ELSE 0)
    BY <1>6 DEF ConfigTick
  <2>2. \A n \in 0..TTL : Older(n) \in 0..TTL
    BY DEF Older, ConfigAssumption
  <2>3. \A k \in Settings : [k EXCEPT !.age = Older(@)] \in Settings
    BY <2>2 DEF Settings
  <2>4. settings' \in [Containers -> Settings \cup {Cold}]
    BY <1>6, <2>3 DEF ConfigTick, ConfigTypeOK, Warm
  <2>5. ConfigTypeOK'
    <3>1. since' \in [edit : 0..TTL, live : 0..TTL, gap : 0..TTL]
      BY <1>6, <2>2 DEF ConfigTick, ConfigTypeOK, ConfigAssumption
    <3> QED
      BY <2>1, <2>4, <3>1 DEF ConfigTypeOK
  <2>6. (Has(ssm, "secret_key") \/ since.gap = 0)' /\ (ssm.stripe_mode = "live" => since.live = 0)'
    BY <2>1 DEF Has, EffectiveMode
  <2>7. ASSUME NEW c \in Containers, Warm(c)'
        PROVE  CopyOK(settings[c])'
    <3>1. Warm(c) /\ settings'[c] = [settings[c] EXCEPT !.age = Older(@)]
      BY <1>6, <2>7 DEF ConfigTick, Warm
    <3> DEFINE k == settings[c]
    <3>2. CopyOK(k) /\ k \in Settings
      BY <3>1 DEF CopyOK
    <3> HIDE DEF k
    <3>3. settings'[c] \in Settings /\ settings'[c].age = Older(k.age)
          /\ settings'[c].stripe_mode = k.stripe_mode
          /\ settings'[c].key = k.key /\ settings'[c].session_secret = k.session_secret
          /\ settings'[c].opened = k.opened
      BY <2>3, <3>1, <3>2 DEF Settings, k
    <3>4. k.age \in 0..TTL /\ since.edit \in 0..TTL /\ since.gap \in 0..TTL
          /\ since.live \in 0..TTL /\ TTL \in Nat \ {0}
      BY <3>2 DEF ConfigTypeOK, Settings, ConfigAssumption
    <3>5. since'.edit > settings'[c].age => since.edit > k.age
      BY <2>1, <3>3, <3>4 DEF Older
    <3>6. since'.gap > settings'[c].age => since.gap > k.age
      BY <2>1, <3>3, <3>4 DEF Older
    <3>7. k.stripe_mode = "live" => since'.live <= settings'[c].age
      BY <2>1, <3>2, <3>3, <3>4 DEF Older, CopyOK
    <3>8. Matches(k) => Matches(settings[c])'
      BY <2>1, <3>3 DEF Matches, Has, EffectiveMode
    <3>9. CopyOK(settings[c])'
      BY <3>2, <3>3, <3>5, <3>6, <3>7, <3>8 DEF CopyOK
    <3> QED
      BY <3>9
  <2> QED
    BY <2>5, <2>6, <2>7
<1> QED
  BY <1>1, <1>2, <1>3, <1>4, <1>5, <1>6 DEF ConfigStep, Containing, RefreshedElsewhere

LEMMA ConfigInvInit ==
  ASSUME ConfigAssumption, ConfigInit
  PROVE  ConfigInv
<1>1. ConfigTypeOK
  <2>1. ssm \in Params
    BY DEF ConfigInit, Params, Modes, Fields
  <2>2. settings \in [Containers -> Settings \cup {Cold}]
    BY DEF ConfigInit
  <2> QED
    BY <2>1, <2>2 DEF ConfigInit, ConfigTypeOK, ConfigAssumption
<1>2. Has(ssm, "secret_key")
  <2>1. {"test"} \X Fields \subseteq ssm.stored /\ ssm.stripe_mode = "test"
    BY DEF ConfigInit, Modes
  <2> QED
    BY <2>1 DEF Has, EffectiveMode, Fields
<1> QED
  BY <1>1, <1>2 DEF ConfigInit, ConfigInv, Warm

LEMMA OperatingIsEdit ==
  ASSUME ConfigTypeOK, Operating
  PROVE  \E p \in Params : Edit(p)
<1>1. ssm \in Params
  BY DEF ConfigTypeOK
<1>2. ASSUME NEW m \in Modes \cup {"other"}, SetMode(m)
      PROVE  \E p \in Params : Edit(p)
  <2>1. [ssm EXCEPT !.stripe_mode = m] \in Params
    BY <1>1 DEF Params
  <2> QED
    BY <1>2, <2>1 DEF SetMode
<1>3. ASSUME NEW k \in Modes \X Fields, PutKey(k) \/ DeleteKey(k)
      PROVE  \E p \in Params : Edit(p)
  <2>1. [ssm EXCEPT !.stored = @ \cup {k}] \in Params
        /\ [ssm EXCEPT !.stored = @ \ {k}] \in Params
    BY <1>1 DEF Params
  <2> QED
    BY <1>3, <2>1 DEF PutKey, DeleteKey
<1>4. ASSUME NEW x \in Secrets \cup {None}, SetSecret(x)
      PROVE  \E p \in Params : Edit(p)
  <2>1. [ssm EXCEPT !.session_secret = x] \in Params
    BY <1>1 DEF Params
  <2> QED
    BY <1>4, <2>1 DEF SetSecret
<1> QED
  BY <1>2, <1>3, <1>4 DEF Operating

-----------------------------------------------------------------------------
(* StripeMode *)

StripeInv == ConfigInv /\ StripeTypeOK

LEMMA StripeStepIsConfigStep ==
  ASSUME ConfigTypeOK, [StripeNext]_stripeVars
  PROVE  ConfigStep
<1>1. CASE UNCHANGED stripeVars
  BY <1>1 DEF stripeVars, ConfigStep
<1>2. ASSUME NEW o \in Purchases, Pay(o)
      PROVE  ConfigStep
  BY <1>2 DEF Pay, ConfigStep
<1>3. ASSUME NEW o \in Purchases, NEW c \in Containers, checkout(o, c) \/ stripe_webhook(o, c)
      PROVE  ConfigStep
  BY <1>3 DEF checkout, stripe_webhook, ConfigStep
<1>4. CASE StripeConfig
  BY <1>4, OperatingIsEdit DEF StripeConfig, ConfigStep
<1> QED
  BY <1>1, <1>2, <1>3, <1>4 DEF StripeNext

LEMMA StripeInvStep ==
  ASSUME ConfigAssumption, StripeInv, [StripeNext]_stripeVars
  PROVE  StripeInv'
<1> USE DEF StripeInv
<1>1. ConfigInv'
  BY StripeStepIsConfigStep, ConfigInvStep DEF ConfigInv
<1>2. ConfigTypeOK'
  BY <1>1 DEF ConfigInv
<1>3. ASSUME NEW o \in Purchases, NEW c \in Containers, checkout(o, c)
      PROVE  StripeTypeOK'
  <2> DEFINE k == refresh_secure_params_if_stale(c)
  <2>1. k \in Settings
    BY <1>3, RefreshedCopy DEF checkout, CopyOK
  <2>2. k.stripe_mode \in Modes /\ k.key["secret_key"] \in Modes \cup {None}
    BY <2>1 DEF Settings, Fields
  <2> HIDE DEF k
  <2>3. CASE k.key["secret_key"] = None
    BY <1>2, <1>3, <2>3 DEF checkout, k, StripeTypeOK
  <2>4. CASE k.key["secret_key"] # None
    <3>1. [account |-> k.key["secret_key"], shown |-> k.stripe_mode, paid |-> FALSE] \in Session
      BY <2>2, <2>4 DEF Session
    <3> QED
      BY <1>2, <1>3, <2>4, <3>1 DEF checkout, k, StripeTypeOK
  <2> QED
    BY <2>3, <2>4
<1>4. ASSUME NEW o \in Purchases, Pay(o)
      PROVE  StripeTypeOK'
  <2>1. session[o] \in Session
    BY <1>4 DEF Pay, StripeTypeOK
  <2>2. [session[o] EXCEPT !.paid = TRUE] \in Session
    BY <2>1 DEF Session
  <2> QED
    BY <1>2, <1>4, <2>2 DEF Pay, StripeTypeOK
<1>5. ASSUME NEW o \in Purchases, NEW c \in Containers, stripe_webhook(o, c)
      PROVE  StripeTypeOK'
  BY <1>2, <1>5 DEF stripe_webhook, StripeTypeOK
<1>6. StripeConfig \/ UNCHANGED stripeVars => StripeTypeOK'
  BY <1>2 DEF StripeConfig, stripeVars, StripeTypeOK
<1>7. StripeTypeOK'
  BY <1>3, <1>4, <1>5, <1>6 DEF StripeNext
<1> QED
  BY <1>1, <1>7

\* Every container is cold, and no order is there.
LEMMA StripeInvInit ==
  ASSUME ConfigAssumption, StripeInit
  PROVE  StripeInv
<1>1. ConfigInv
  BY ConfigInvInit DEF StripeInit
<1> QED
  BY <1>1 DEF StripeInit, StripeInv, StripeTypeOK, ConfigInv

\* The copies and the orders keep their types, and every copy is worth what its
\* age says.
THEOREM StripeTypes == ConfigAssumption => (StripeSpec => []StripeInv)
<1> SUFFICES ASSUME ConfigAssumption
             PROVE  StripeSpec => []StripeInv
  OBVIOUS
<1>1. StripeInit => StripeInv
  BY StripeInvInit
<1>2. StripeInv /\ [StripeNext]_stripeVars => StripeInv'
  BY StripeInvStep
<1> QED
  BY <1>1, <1>2, PTL DEF StripeSpec

\* Only a checkout makes a session, with the key of a refreshed copy.
LEMMA MadeByCheckout ==
  ASSUME ConfigAssumption, StripeInv, StripeNext, NEW o \in Purchases, SessionMade(o)
  PROVE  \E c \in Containers :
           LET k == refresh_secure_params_if_stale(c) IN
           /\ Warm(c) /\ CopyOK(k) /\ k.age < TTL /\ (k = settings[c] \/ Matches(k))
           /\ k.key["secret_key"] # None
           /\ session'[o].account = k.key["secret_key"]
           /\ session'[o].shown = k.stripe_mode
<1> USE DEF StripeInv
<1>1. CASE StripeConfig
  BY <1>1 DEF StripeConfig, SessionMade
<1>2. ASSUME NEW q \in Purchases, NEW c \in Containers, stripe_webhook(q, c)
      PROVE  FALSE
  BY <1>2 DEF stripe_webhook, SessionMade
<1>3. ASSUME NEW q \in Purchases, Pay(q)
      PROVE  FALSE
  BY <1>3 DEF Pay, SessionMade, StripeTypeOK
<1>4. ASSUME NEW q \in Purchases, NEW c \in Containers, checkout(q, c)
      PROVE  LET k == refresh_secure_params_if_stale(c) IN
           /\ Warm(c) /\ CopyOK(k) /\ k.age < TTL /\ (k = settings[c] \/ Matches(k))
           /\ k.key["secret_key"] # None
           /\ session'[o].account = k.key["secret_key"]
           /\ session'[o].shown = k.stripe_mode
  <2> DEFINE k == refresh_secure_params_if_stale(c)
  <2>1. Warm(c) /\ CopyOK(k) /\ k.age < TTL /\ (k = settings[c] \/ Matches(k))
    BY <1>4, RefreshedCopy DEF checkout
  <2> HIDE DEF k
  <2>2. k.key["secret_key"] # None /\ q = o
    BY <1>4 DEF checkout, SessionMade, StripeTypeOK, k
  <2>3. session' = [session EXCEPT ![o] =
           [account |-> k.key["secret_key"], shown |-> k.stripe_mode, paid |-> FALSE]]
    BY <1>4, <2>2 DEF checkout, k
  <2> QED
    BY <2>1, <2>2, <2>3 DEF StripeTypeOK, k
<1> QED
  BY <1>1, <1>2, <1>3, <1>4 DEF StripeNext, SessionMade

\* Once SSM has been left alone for the TTL, every checkout reaches the account
\* it names, if that mode's secret key is there.
THEOREM FlipReachesAlways == ConfigAssumption => (StripeSpec => FlipReaches)
<1> SUFFICES ASSUME ConfigAssumption
             PROVE  StripeSpec => FlipReaches
  OBVIOUS
<1>1. ASSUME StripeInv, StripeNext, NEW o \in Purchases, SessionMade(o),
             since.edit = TTL, Has(ssm, "secret_key")
      PROVE  session'[o].account = EffectiveMode(ssm)
  <2>1. PICK c \in Containers :
           LET k == refresh_secure_params_if_stale(c) IN
           /\ Warm(c) /\ CopyOK(k) /\ k.age < TTL /\ (k = settings[c] \/ Matches(k))
           /\ session'[o].account = k.key["secret_key"]
    BY <1>1, MadeByCheckout
  <2> DEFINE k == refresh_secure_params_if_stale(c)
  <2>2. since.edit > k.age
    BY <1>1, <2>1 DEF CopyOK, Settings, ConfigAssumption
  <2> QED
    BY <1>1, <2>1, <2>2 DEF CopyOK, Matches, Fields
<1>2. StripeInv /\ [StripeNext]_stripeVars =>
        [\A o \in Purchases :
           SessionMade(o) /\ since.edit = TTL /\ Has(ssm, "secret_key") =>
             session'[o].account = EffectiveMode(ssm)]_stripeVars
  BY <1>1
<1> QED
  BY <1>2, StripeTypes, PTL DEF StripeSpec, FlipReaches

\* A checkout of a container charges what the container shows, unless the secret
\* key of SSM's mode was missing within the TTL.
THEOREM KeyMatchesBadgeAlways == ConfigAssumption => (StripeSpec => KeyMatchesBadge)
<1> SUFFICES ASSUME ConfigAssumption
             PROVE  StripeSpec => KeyMatchesBadge
  OBVIOUS
<1>1. ASSUME StripeInv, StripeNext, NEW o \in Purchases, SessionMade(o), since.gap = TTL
      PROVE  session'[o].account = session'[o].shown
  <2>1. PICK c \in Containers :
           LET k == refresh_secure_params_if_stale(c) IN
           /\ CopyOK(k) /\ k.age < TTL
           /\ session'[o].account = k.key["secret_key"]
           /\ session'[o].shown = k.stripe_mode
    BY <1>1, MadeByCheckout
  <2> QED
    BY <1>1, <2>1 DEF CopyOK, Settings, ConfigAssumption
<1>2. StripeInv /\ [StripeNext]_stripeVars =>
        [\A o \in Purchases :
           SessionMade(o) /\ since.gap = TTL =>
             session'[o].account = session'[o].shown]_stripeVars
  BY <1>1
<1> QED
  BY <1>2, StripeTypes, PTL DEF StripeSpec, KeyMatchesBadge

\* A live session is made only while SSM says "live" or the test secret key is
\* missing, or was so within the TTL, and only by a container that has read
\* "live" itself.
THEOREM NeverFailsOpenAlways == ConfigAssumption => (StripeSpec => NeverFailsOpen)
<1> SUFFICES ASSUME ConfigAssumption
             PROVE  StripeSpec => NeverFailsOpen
  OBVIOUS
<1> DEFINE Allowed(o, c) ==
      SessionMade(o) /\ checkout(o, c) /\ session'[o].account = "live" =>
        /\ since.live < TTL \/ since.gap < TTL
        /\ settings'[c].opened = "once"
<1>1. ASSUME StripeInv, NEW o \in Purchases, NEW c \in Containers
      PROVE  Allowed(o, c)
  <2> SUFFICES ASSUME SessionMade(o), checkout(o, c), session'[o].account = "live"
               PROVE  (since.live < TTL \/ since.gap < TTL) /\ settings'[c].opened = "once"
    OBVIOUS
  <2> DEFINE k == refresh_secure_params_if_stale(c)
  <2>1. CopyOK(k) /\ k.age < TTL
    BY <1>1, RefreshedCopy DEF checkout, StripeInv
  <2> HIDE DEF k
  <2>2. settings'[c] = k
    BY <1>1 DEF checkout, Refresh, k, StripeInv, ConfigInv, ConfigTypeOK
  <2>3. k.key["secret_key"] # None
    BY <1>1 DEF checkout, SessionMade, k
  <2>4. session' = [session EXCEPT ![o] =
           [account |-> k.key["secret_key"], shown |-> k.stripe_mode, paid |-> FALSE]]
    BY <2>3 DEF checkout, k
  <2>5. k.key["secret_key"] = "live"
    BY <1>1, <2>4 DEF StripeInv, StripeTypeOK
  <2>6. since.gap > k.age => since.live <= k.age
    BY <2>1, <2>5 DEF CopyOK
  <2>7. since.gap \in Nat /\ since.live \in Nat /\ k.age \in Nat /\ TTL \in Nat
    BY <1>1, <2>1 DEF StripeInv, ConfigInv, ConfigTypeOK, CopyOK, Settings, ConfigAssumption
  <2>8. since.live < TTL \/ since.gap < TTL
    BY <2>1, <2>6, <2>7
  <2> QED
    BY <2>1, <2>2, <2>5, <2>8 DEF CopyOK
<1>2. StripeInv /\ [StripeNext]_stripeVars =>
        [\A o \in Purchases, c \in Containers : Allowed(o, c)]_stripeVars
  BY <1>1
<1> QED
  BY <1>2, StripeTypes, PTL DEF StripeSpec, NeverFailsOpen

-----------------------------------------------------------------------------
(* SignIn *)

\* Nobody is in the group without an account, and admins have lost nothing.
PoolInv ==
  \A u \in Clowns : /\ u \in admins => account[u] # "none"
                    /\ IsAdmin(u) => gone[u] = 0
\* The claim in a cookie is at most as old as the cookie.
RightsInv ==
  \A u \in Clowns : cookie[u] # None /\ cookie[u].is_admin => gone[u] <= cookie[u].age
\* A container that let a late request in has the new secret by then.
LateInv ==
  \A c \in Containers :
    late[c] >= 1 =>
      /\ since.edit = TTL
      /\ ssm.session_secret # None
      /\ Warm(c) => settings[c].session_secret = ssm.session_secret

SignInInv ==
  /\ ConfigInv /\ SignInTypeOK
  /\ PoolInv /\ RightsInv /\ LateInv /\ RetiredSecretOnce

LEMMA SignInStepIsConfigStep ==
  ASSUME ConfigTypeOK, [SignInNext]_signInVars
  PROVE  ConfigStep
<1>1. CASE UNCHANGED signInVars
  BY <1>1 DEF signInVars, ConfigStep
<1>2. ASSUME NEW u \in Clowns, ClownNext(u)
      PROVE  ConfigStep
  <2>1. ASSUME NEW c \in Containers,
               login(u, c) \/ callback(u, c) \/ _restart_login(u, c) \/ require_member(u, c)
                 \/ \E k \in Op : require_admin(u, c, k)
        PROVE  ConfigStep
    BY <2>1 DEF login, callback, _restart_login, require_member, require_admin,
                _authenticated_claims, ConfigStep
  <2>2. CASE logout(u) \/ _promote_clown(u) \/ _demote_clown(u) \/ _delete_clown(u)
               \/ _create_clown(u) \/ OpLost(u)
    BY <2>2 DEF logout, _promote_clown, _demote_clown, _delete_clown, _create_clown, OpLost,
                ConfigStep
  <2> QED
    BY <1>2, <2>1, <2>2 DEF ClownNext
<1>3. CASE SignInConfig
  BY <1>3 DEF SignInConfig, ConfigStep
<1>4. CASE SecretEdited
  <2>1. PICK x \in Secrets \cup {None} : SetSecret(x)
    BY <1>4 DEF SecretEdited
  <2> QED
    BY <2>1, OperatingIsEdit DEF Operating, ConfigStep
<1>5. CASE SignInTick
  BY <1>5 DEF SignInTick, ConfigStep
<1> QED
  BY <1>1, <1>2, <1>3, <1>4, <1>5 DEF SignInNext

\* The secret of a warm copy is one of the secrets.
LEMMA CopySecret ==
  ASSUME ConfigInv, NEW c \in Containers, Warm(c)
  PROVE  settings[c].session_secret \in Secrets
BY DEF ConfigInv, CopyOK, Settings

\* What a request that is let in may do to the count of late requests.
LEMMA LateTypes ==
  ASSUME SignInTypeOK, NEW u \in Clowns, NEW c \in Containers, _authenticated_claims(u, c)
  PROVE  late' \in [Containers -> 0..2]
<1>1. (IF Retired(cookie[u].secret) /\ late[c] < 2 THEN late[c] + 1 ELSE late[c]) \in 0..2
  BY DEF SignInTypeOK
<1> QED
  BY <1>1 DEF _authenticated_claims, SignInTypeOK

LEMMA SignInTypeStep ==
  ASSUME ConfigAssumption, SignInAssumption, SignInInv, [SignInNext]_signInVars, ConfigTypeOK'
  PROVE  SignInTypeOK'
<1> USE DEF SignInInv
<1>1. CASE UNCHANGED signInVars
  BY <1>1 DEF signInVars, SignInTypeOK
<1>2. ASSUME NEW u \in Clowns, NEW c \in Containers, login(u, c)
      PROVE  SignInTypeOK'
  <2>1. [secret |-> settings[c].session_secret, age |-> 0] \in PkceCookie
    BY <1>2, CopySecret DEF login, PkceCookie, SignInAssumption
  <2> QED
    BY <1>2, <2>1 DEF login, SignInTypeOK, poolVars
<1>3. ASSUME NEW u \in Clowns, NEW c \in Containers, callback(u, c)
      PROVE  SignInTypeOK'
  <2>1. [secret |-> settings[c].session_secret, is_admin |-> u \in admins, age |-> 0]
          \in SessionCookie
    BY <1>3, CopySecret DEF callback, PkceAccepted, SessionCookie, SignInAssumption
  <2> QED
    BY <1>3, <2>1 DEF callback, SignInTypeOK, poolVars
<1>4. ASSUME NEW u \in Clowns, NEW c \in Containers, _restart_login(u, c)
      PROVE  SignInTypeOK'
  BY <1>4 DEF _restart_login, SignInTypeOK, poolVars
<1>5. ASSUME NEW u \in Clowns, NEW c \in Containers, require_member(u, c)
      PROVE  SignInTypeOK'
  BY <1>5, LateTypes DEF require_member, SignInTypeOK, poolVars
<1>6. ASSUME NEW u \in Clowns, NEW c \in Containers, NEW k \in Op, require_admin(u, c, k)
      PROVE  SignInTypeOK'
  BY <1>6, LateTypes DEF require_admin, SignInTypeOK, poolVars
<1>7. ASSUME NEW u \in Clowns, logout(u)
      PROVE  SignInTypeOK'
  BY <1>7 DEF logout, SignInTypeOK, poolVars
<1>8. ASSUME NEW u \in Clowns, OpLost(u)
      PROVE  SignInTypeOK'
  BY <1>8 DEF OpLost, OpEnds, SignInTypeOK, poolVars
<1>9. ASSUME NEW u \in Clowns, _promote_clown(u)
      PROVE  SignInTypeOK'
  <2>1. op[u] \in Op
    BY <1>9 DEF _promote_clown, SignInTypeOK, NoOp
  <2>2. op[u].whom \in Clowns
    BY <2>1 DEF Op
  <2>3. admins' \subseteq Clowns
    BY <1>9, <2>2 DEF _promote_clown, SignInTypeOK
  <2>4. gone' \in [Clowns -> 0..SessionLife]
    BY <1>9 DEF _promote_clown, SignInTypeOK, SignInAssumption
  <2> QED
    BY <1>9, <2>3, <2>4 DEF _promote_clown, OpEnds, SignInTypeOK
<1>10. ASSUME NEW u \in Clowns, _demote_clown(u)
       PROVE  SignInTypeOK'
  BY <1>10 DEF _demote_clown, OpEnds, SignInTypeOK
<1>11. ASSUME NEW u \in Clowns, _delete_clown(u)
       PROVE  SignInTypeOK'
  <2>1. account' \in [Clowns -> {"none", "live", "deleted"}]
    BY <1>11 DEF _delete_clown, SignInTypeOK
  <2> QED
    BY <1>11, <2>1 DEF _delete_clown, OpEnds, SignInTypeOK
<1>12. ASSUME NEW u \in Clowns, _create_clown(u)
       PROVE  SignInTypeOK'
  <2>1. op[u] \in [kind : {"create"}, whom : Clowns, make_admin : BOOLEAN]
    <3>1. op[u] \in Op \cup {NoOp} /\ op[u].kind = "create"
      BY <1>12 DEF _create_clown, SignInTypeOK
    <3>2. op[u] # NoOp
      BY <3>1 DEF NoOp
    <3>3. \A k \in [kind : Kinds \ {"create"}, whom : Clowns, make_admin : {FALSE}] :
            k.kind # "create"
      OBVIOUS
    <3> QED
      BY <3>1, <3>2, <3>3 DEF Op
  <2>2. [op[u] EXCEPT !.kind = "promote", !.make_admin = FALSE] \in Op
    BY <2>1 DEF Op, Kinds
  <2>3. account' \in [Clowns -> {"none", "live", "deleted"}]
    BY <1>12 DEF _create_clown, SignInTypeOK
  <2>4. op' \in [Clowns -> Op \cup {NoOp}]
    BY <1>12, <2>2 DEF _create_clown, SignInTypeOK
  <2> QED
    BY <1>12, <2>3, <2>4 DEF _create_clown, SignInTypeOK
<1>13. CASE SignInConfig
  BY <1>13 DEF SignInConfig, SignInTypeOK, poolVars
<1>14. CASE SecretEdited
  BY <1>14 DEF SecretEdited, SignInTypeOK, poolVars
<1>15. CASE SignInTick
  <2>1. \A k \in PkceCookie \cup {None} : PkceAged(k) \in PkceCookie \cup {None}
    BY DEF PkceAged, PkceCookie, SignInAssumption
  <2>2. \A k \in SessionCookie \cup {None} : CookieAged(k) \in SessionCookie \cup {None}
    BY DEF CookieAged, SessionCookie, SignInAssumption
  <2>3. pkce' \in [Clowns -> PkceCookie \cup {None}]
    BY <1>15, <2>1 DEF SignInTick, SignInTypeOK
  <2>4. cookie' \in [Clowns -> SessionCookie \cup {None}]
    BY <1>15, <2>2 DEF SignInTick, SignInTypeOK
  <2>5. gone' \in [Clowns -> 0..SessionLife]
    BY <1>15 DEF SignInTick, SignInTypeOK, SignInAssumption
  <2> QED
    BY <1>15, <2>3, <2>4, <2>5 DEF SignInTick, SignInTypeOK, poolVars
<1> QED
  BY <1>1, <1>2, <1>3, <1>4, <1>5, <1>6, <1>7, <1>8, <1>9, <1>10, <1>11, <1>12, <1>13, <1>14,
     <1>15 DEF SignInNext, ClownNext

\* The group and the claims after every step.
LEMMA RightsStep ==
  ASSUME ConfigAssumption, SignInAssumption, SignInInv, [SignInNext]_signInVars
  PROVE  PoolInv' /\ RightsInv'
<1> USE DEF SignInInv
<1>0. /\ \A x \in Clowns : gone[x] \in 0..SessionLife
      /\ DOMAIN account = Clowns /\ DOMAIN cookie = Clowns
  BY DEF SignInTypeOK
<1>1. CASE UNCHANGED signInVars
  BY <1>1 DEF signInVars, poolVars, PoolInv, RightsInv, IsAdmin
<1>2. ASSUME NEW u \in Clowns, NEW c \in Containers,
             login(u, c) \/ _restart_login(u, c) \/ require_member(u, c)
      PROVE  PoolInv' /\ RightsInv'
  BY <1>2 DEF login, _restart_login, require_member, poolVars, PoolInv, RightsInv, IsAdmin
<1>3. ASSUME NEW u \in Clowns, NEW c \in Containers, callback(u, c)
      PROVE  PoolInv' /\ RightsInv'
  <2>1. PoolInv'
    BY <1>3 DEF callback, poolVars, PoolInv, IsAdmin
  <2>2. u \in admins => gone[u] = 0
    BY <1>3 DEF callback, PoolInv, IsAdmin
  <2>3. cookie'[u].age = 0 /\ (cookie'[u].is_admin => u \in admins)
    <3>1. cookie'[u] = [secret |-> settings[c].session_secret, is_admin |-> u \in admins,
                        age |-> 0]
      BY <1>0, <1>3 DEF callback
    <3>2. cookie'[u].age = 0
      BY <3>1
    <3>3. cookie'[u].is_admin => u \in admins
      <4>1. [secret |-> settings[c].session_secret, is_admin |-> u \in admins,
             age |-> 0].is_admin = (u \in admins)
        BY Zenon
      <4>2. cookie'[u].is_admin = (u \in admins)
        BY <3>1, <4>1, Zenon
      <4> QED
        BY <4>2, Zenon
    <3> QED
      BY <3>2, <3>3
  <2>4. UNCHANGED gone /\ \A x \in Clowns \ {u} : cookie'[x] = cookie[x]
    BY <1>0, <1>3 DEF callback
  <2>5. RightsInv'
    BY <2>2, <2>3, <2>4 DEF RightsInv
  <2> QED
    BY <2>1, <2>5
<1>4. ASSUME NEW u \in Clowns, NEW c \in Containers, NEW k \in Op, require_admin(u, c, k)
      PROVE  PoolInv' /\ RightsInv'
  BY <1>4 DEF require_admin, poolVars, PoolInv, RightsInv, IsAdmin
<1>5. ASSUME NEW u \in Clowns, logout(u)
      PROVE  PoolInv' /\ RightsInv'
  BY <1>0, <1>5 DEF logout, poolVars, PoolInv, RightsInv, IsAdmin
<1>6. ASSUME NEW u \in Clowns, OpLost(u)
      PROVE  PoolInv' /\ RightsInv'
  BY <1>6 DEF OpLost, poolVars, PoolInv, RightsInv, IsAdmin
<1>7. ASSUME NEW u \in Clowns, _promote_clown(u)
      PROVE  PoolInv' /\ RightsInv'
  <2>1. \A x \in Clowns : gone'[x] = 0 \/ gone'[x] = gone[x]
    BY <1>7 DEF _promote_clown
  <2>2. \A x \in Clowns : cookie[x] # None /\ cookie[x].is_admin => cookie[x].age >= 0
    BY DEF SignInTypeOK, SessionCookie
  <2>3. RightsInv'
    BY <1>7, <2>1, <2>2 DEF _promote_clown, RightsInv
  <2>4. \A x \in Clowns : IsAdmin(x)' => IsAdmin(x) \/ (x = op[u].whom /\ account[x] = "live")
    BY <1>7 DEF _promote_clown, IsAdmin
  <2>5. PoolInv'
    BY <1>7, <2>4 DEF _promote_clown, PoolInv, IsAdmin
  <2> QED
    BY <2>3, <2>5
<1>8. ASSUME NEW u \in Clowns, _demote_clown(u)
      PROVE  PoolInv' /\ RightsInv'
  BY <1>8 DEF _demote_clown, PoolInv, RightsInv, IsAdmin
<1>9. ASSUME NEW u \in Clowns, _delete_clown(u)
      PROVE  PoolInv' /\ RightsInv'
  <2>1. \A x \in Clowns : /\ account'[x] = "live" => account[x] = "live"
                          /\ account'[x] = "none" => account[x] = "none"
    BY <1>0, <1>9 DEF _delete_clown
  <2> QED
    BY <1>9, <2>1 DEF _delete_clown, PoolInv, RightsInv, IsAdmin
<1>10. ASSUME NEW u \in Clowns, _create_clown(u)
       PROVE  PoolInv' /\ RightsInv'
  <2>1. \A x \in Clowns : account'[x] # account[x] => account[x] = "none" /\ account'[x] = "live"
    BY <1>0, <1>10 DEF _create_clown
  <2>2. UNCHANGED <<admins, gone, cookie>>
    BY <1>10 DEF _create_clown
  <2>3. \A x \in Clowns : IsAdmin(x)' <=> IsAdmin(x)
    BY <2>1, <2>2 DEF IsAdmin, PoolInv
  <2> QED
    BY <2>1, <2>2, <2>3 DEF PoolInv, RightsInv
<1>11. CASE SignInConfig \/ SecretEdited
  BY <1>11 DEF SignInConfig, SecretEdited, poolVars, PoolInv, RightsInv, IsAdmin
<1>12. CASE SignInTick
  <2>1. PoolInv'
    BY <1>12 DEF SignInTick, poolVars, PoolInv, IsAdmin
  <2>2. \A x \in Clowns : gone'[x] <= gone[x] + 1
    BY <1>0, <1>12 DEF SignInTick, SignInAssumption
  <2>3. RightsInv'
    <3> SUFFICES ASSUME NEW x \in Clowns, cookie'[x] # None, cookie'[x].is_admin
                 PROVE  gone'[x] <= cookie'[x].age
      BY DEF RightsInv
    <3>a. cookie[x] # None /\ cookie'[x] = [cookie[x] EXCEPT !.age = cookie[x].age + 1]
      BY <1>12 DEF SignInTick, CookieAged
    <3>b. cookie[x] \in SessionCookie
      BY <3>a DEF SignInTypeOK
    <3>c. cookie'[x].age = cookie[x].age + 1 /\ cookie[x].age \in Nat
      BY <3>a, <3>b DEF SessionCookie, SignInAssumption
    <3>1. cookie[x].is_admin
      BY <3>a, <3>b, Zenon DEF SessionCookie
    <3>2. gone[x] <= cookie[x].age
      BY <3>1, <3>a DEF RightsInv
    <3>3. gone'[x] \in Nat /\ gone[x] \in Nat
      BY <1>0, <1>12 DEF SignInTick, SignInAssumption
    <3> QED
      BY <2>2, <3>c, <3>2, <3>3
  <2> QED
    BY <2>1, <2>3
<1> QED
  BY <1>1, <1>2, <1>3, <1>4, <1>5, <1>6, <1>7, <1>8, <1>9, <1>10, <1>11, <1>12
     DEF SignInNext, ClownNext

\* A container lets one late request in and is up to date after it.
LEMMA LateAdmitted ==
  ASSUME ConfigAssumption, SignInInv, NEW u \in Clowns, NEW c \in Containers,
         _authenticated_claims(u, c)
  PROVE  LateInv' /\ RetiredSecretOnce'
<1> USE DEF SignInInv
<1> DEFINE k == refresh_secure_params_if_stale(c)
<1>1. Warm(c) /\ read_session(u, c) /\ settings' = [settings EXCEPT ![c] = k]
      /\ UNCHANGED <<ssm, since>>
  BY DEF _authenticated_claims, Refresh
<1>2. CopyOK(k) /\ k.age < TTL /\ (k = settings[c] \/ Matches(k)) /\ CopyOK(settings[c])
  BY <1>1, RefreshedCopy DEF ConfigInv
<1> HIDE DEF k
<1>3. late \in [Containers -> 0..2] /\ settings \in [Containers -> Settings \cup {Cold}]
  BY DEF SignInTypeOK, ConfigTypeOK
<1>4. settings'[c] = k /\ \A d \in Containers \ {c} : settings'[d] = settings[d]
  BY <1>1, <1>3
<1>5. cookie[u].secret = settings[c].session_secret
  BY <1>1 DEF read_session
<1>6. \A d \in Containers \ {c} : late'[d] = late[d]
  BY <1>3 DEF _authenticated_claims
<1>7. CASE Retired(cookie[u].secret)
  <2>1. ssm.session_secret # settings[c].session_secret /\ ssm.session_secret # None
        /\ since.edit = TTL
    BY <1>5, <1>7 DEF Retired
  <2>2. late[c] = 0
    BY <1>1, <1>3, <2>1 DEF LateInv
  <2>3. late'[c] = 1
    BY <1>3, <1>7, <2>2 DEF _authenticated_claims
  <2>4. since.edit > k.age
    BY <1>2, <2>1 DEF CopyOK, Settings, ConfigAssumption
  <2>5. k.session_secret = ssm.session_secret
    BY <1>2, <2>1, <2>4 DEF CopyOK, Matches
  <2> QED
    BY <1>1, <1>4, <1>6, <2>1, <2>3, <2>5 DEF LateInv, RetiredSecretOnce, Warm
<1>8. CASE ~Retired(cookie[u].secret)
  <2>1. late'[c] = late[c]
    BY <1>3, <1>8 DEF _authenticated_claims
  <2>2. late[c] >= 1 => k.session_secret = ssm.session_secret
    BY <1>1, <1>2 DEF LateInv, Matches
  <2> QED
    BY <1>1, <1>4, <1>6, <2>1, <2>2 DEF LateInv, RetiredSecretOnce, Warm
<1> QED
  BY <1>7, <1>8

LEMMA LateStep ==
  ASSUME ConfigAssumption, SignInAssumption, SignInInv, [SignInNext]_signInVars
  PROVE  LateInv' /\ RetiredSecretOnce'
<1> USE DEF SignInInv
<1>1. ASSUME UNCHANGED <<configVars, late>>
      PROVE  LateInv' /\ RetiredSecretOnce'
  BY <1>1 DEF configVars, LateInv, RetiredSecretOnce, Warm
<1>2. UNCHANGED signInVars => UNCHANGED <<configVars, late>>
  BY DEF signInVars
<1>3. ASSUME NEW u \in Clowns, ClownNext(u)
      PROVE  LateInv' /\ RetiredSecretOnce'
  <2>1. ASSUME NEW c \in Containers, login(u, c) \/ callback(u, c) \/ _restart_login(u, c)
        PROVE  UNCHANGED <<configVars, late>>
    BY <2>1 DEF login, callback, _restart_login
  <2>2. ASSUME NEW c \in Containers,
               require_member(u, c) \/ \E k \in Op : require_admin(u, c, k)
        PROVE  LateInv' /\ RetiredSecretOnce'
    BY <2>2, LateAdmitted DEF require_member, require_admin
  <2>3. CASE logout(u) \/ _promote_clown(u) \/ _demote_clown(u) \/ _delete_clown(u)
               \/ _create_clown(u) \/ OpLost(u)
    <3>1. UNCHANGED <<configVars, late>>
      BY <2>3 DEF logout, _promote_clown, _demote_clown, _delete_clown, _create_clown, OpLost
    <3> QED
      BY <1>1, <3>1
  <2> QED
    BY <1>1, <1>3, <2>1, <2>2, <2>3 DEF ClownNext
<1>4. ASSUME NEW c \in Containers, ColdStart(c), UNCHANGED late
      PROVE  LateInv' /\ RetiredSecretOnce'
  <2> DEFINE k == _apply_secure_params(Fresh)
  <2>1. settings' = [settings EXCEPT ![c] = k] /\ UNCHANGED <<ssm, since>>
        /\ k.session_secret = ssm.session_secret
    BY <1>4 DEF ColdStart, _apply_secure_params
  <2> HIDE DEF k
  <2>2. \A d \in Containers : settings'[d] = (IF d = c THEN k ELSE settings[d])
    BY <2>1 DEF ConfigInv, ConfigTypeOK
  <2> QED
    BY <1>4, <2>1, <2>2 DEF LateInv, RetiredSecretOnce, Warm
<1>5. ASSUME NEW c \in Containers, Recycle(c), UNCHANGED late
      PROVE  LateInv' /\ RetiredSecretOnce'
  <2>1. \A d \in Containers : settings'[d] = (IF d = c THEN Cold ELSE settings[d])
    BY <1>5 DEF Recycle, ConfigInv, ConfigTypeOK
  <2> QED
    BY <1>5, <2>1 DEF Recycle, LateInv, RetiredSecretOnce, Warm
<1>6. ASSUME NEW c \in Containers, RefreshedElsewhere(c), UNCHANGED late
      PROVE  LateInv' /\ RetiredSecretOnce'
  <2> DEFINE k == refresh_secure_params_if_stale(c)
  <2>1. Warm(c) /\ settings' = [settings EXCEPT ![c] = k] /\ UNCHANGED <<ssm, since>>
    BY <1>6 DEF RefreshedElsewhere, Refresh
  <2>2. CopyOK(k) /\ (k = settings[c] \/ Matches(k))
    BY <2>1, RefreshedCopy
  <2> HIDE DEF k
  <2>3. \A d \in Containers : settings'[d] = (IF d = c THEN k ELSE settings[d])
    BY <2>1 DEF ConfigInv, ConfigTypeOK
  <2>4. late[c] >= 1 => k.session_secret = ssm.session_secret
    BY <2>1, <2>2 DEF LateInv, Matches
  <2> QED
    BY <1>6, <2>1, <2>3, <2>4 DEF LateInv, RetiredSecretOnce, Warm
<1>7. CASE SignInConfig
  BY <1>4, <1>5, <1>6, <1>7 DEF SignInConfig, Containing
<1>8. CASE SecretEdited
  BY <1>8 DEF SecretEdited, LateInv, RetiredSecretOnce
<1>9. CASE SignInTick
  <2>1. UNCHANGED <<ssm, late>> /\ since'.edit = Older(since.edit)
    BY <1>9 DEF SignInTick, ConfigTick
  <2>2. since.edit = TTL => since'.edit = TTL
    BY <2>1 DEF Older, ConfigAssumption
  <2>3. \A c \in Containers : Warm(c)' => Warm(c) /\ settings'[c] = [settings[c] EXCEPT !.age = Older(@)]
    BY <1>9 DEF SignInTick, ConfigTick, Warm
  <2>4. \A c \in Containers : Warm(c)' =>
          Warm(c) /\ settings'[c].session_secret = settings[c].session_secret
    BY <2>3 DEF ConfigInv, CopyOK, Settings
  <2> QED
    BY <2>1, <2>2, <2>4 DEF LateInv, RetiredSecretOnce
<1> QED
  BY <1>1, <1>2, <1>3, <1>7, <1>8, <1>9 DEF SignInNext

LEMMA SignInInvStep ==
  ASSUME ConfigAssumption, SignInAssumption, SignInInv, [SignInNext]_signInVars
  PROVE  SignInInv'
<1>1. ConfigInv'
  BY SignInStepIsConfigStep, ConfigInvStep DEF SignInInv, ConfigInv
<1>2. SignInTypeOK'
  BY <1>1, SignInTypeStep DEF ConfigInv
<1> QED
  BY <1>1, <1>2, RightsStep, LateStep DEF SignInInv

\* Nobody is signed in, and the first admins have their rights.
LEMMA SignInInvInit ==
  ASSUME ConfigAssumption, SignInAssumption, SignInInit
  PROVE  SignInInv
<1>1. ConfigInv
  BY ConfigInvInit DEF SignInInit
<1>2. SignInTypeOK
  <2>1. account \in [Clowns -> {"none", "live", "deleted"}] /\ admins \subseteq Clowns
    BY DEF SignInInit, SignInAssumption
  <2>2. gone \in [Clowns -> 0..SessionLife] /\ late \in [Containers -> 0..2]
    BY DEF SignInInit, SignInAssumption
  <2>3. /\ pkce \in [Clowns -> PkceCookie \cup {None}]
        /\ cookie \in [Clowns -> SessionCookie \cup {None}]
        /\ op \in [Clowns -> Op \cup {NoOp}]
    BY DEF SignInInit
  <2> QED
    BY <1>1, <2>1, <2>2, <2>3 DEF SignInTypeOK, ConfigInv
<1>3. PoolInv /\ RightsInv /\ LateInv /\ RetiredSecretOnce
  BY DEF SignInInit, PoolInv, RightsInv, LateInv, RetiredSecretOnce, IsAdmin, SignInAssumption
<1> QED
  BY <1>1, <1>2, <1>3 DEF SignInInv

\* The copies, the accounts, the cookies and the requests keep their types and
\* the relations the properties rest on.
THEOREM SignInTypes ==
  ConfigAssumption /\ SignInAssumption => (SignInSpec => []SignInInv)
<1> SUFFICES ASSUME ConfigAssumption, SignInAssumption
             PROVE  SignInSpec => []SignInInv
  OBVIOUS
<1>1. SignInInit => SignInInv
  BY SignInInvInit
<1>2. SignInInv /\ [SignInNext]_signInVars => SignInInv'
  BY SignInInvStep
<1> QED
  BY <1>1, <1>2, PTL DEF SignInSpec

\* A container lets at most one request in under a secret retired for the TTL.
THEOREM RetiredSecretAtMostOnce ==
  ConfigAssumption /\ SignInAssumption => (SignInSpec => []RetiredSecretOnce)
<1>1. SignInInv => RetiredSecretOnce
  BY DEF SignInInv
<1> QED
  BY <1>1, SignInTypes, PTL

\* The admin pages let nobody in who has been no admin for a session's life.
THEOREM RightsAlwaysEnd ==
  ConfigAssumption /\ SignInAssumption => (SignInSpec => RightsEnd)
<1> SUFFICES ASSUME ConfigAssumption, SignInAssumption
             PROVE  SignInSpec => RightsEnd
  OBVIOUS
<1>1. ASSUME SignInInv, SignInNext, NEW u \in Clowns, op[u] = NoOp, op'[u] # NoOp
      PROVE  gone[u] < SessionLife
  <2>1. ASSUME NEW c \in Containers, NEW k \in Op, require_admin(u, c, k)
        PROVE  gone[u] < SessionLife
    <3>1. cookie[u] # None /\ cookie[u].is_admin
      BY <2>1 DEF require_admin, _authenticated_claims, read_session
    <3>2. gone[u] <= cookie[u].age /\ cookie[u].age < SessionLife /\ gone[u] \in Nat
      BY <1>1, <3>1 DEF SignInInv, RightsInv, SignInTypeOK, SessionCookie, SignInAssumption
    <3> QED
      BY <3>1, <3>2, <1>1 DEF SignInInv, SignInTypeOK, SessionCookie, SignInAssumption
  <2>2. DOMAIN op = Clowns
    BY <1>1 DEF SignInInv, SignInTypeOK
  <2>3. \A x \in Clowns : op[x].kind \in Kinds => x # u
    BY <1>1 DEF NoOp, Kinds
  <2>4. ASSUME NEW x \in Clowns, ClownNext(x)
        PROVE  \E c \in Containers, k \in Op : require_admin(u, c, k)
    <3>1. ASSUME NEW c \in Containers, login(x, c) \/ callback(x, c) \/ _restart_login(x, c)
                   \/ require_member(x, c)
          PROVE  FALSE
      BY <1>1, <3>1 DEF login, callback, _restart_login, require_member
    <3>2. ASSUME NEW c \in Containers, NEW k \in Op, require_admin(x, c, k)
          PROVE  x = u
      BY <1>1, <2>2, <3>2 DEF require_admin
    <3>3. ASSUME logout(x) \/ _promote_clown(x) \/ _demote_clown(x) \/ _delete_clown(x)
                   \/ _create_clown(x) \/ OpLost(x)
          PROVE  FALSE
      BY <1>1, <2>2, <2>3, <3>3 DEF logout, _promote_clown, _demote_clown, _delete_clown,
           _create_clown, OpLost, OpEnds, Kinds
    <3> QED
      BY <2>4, <3>1, <3>2, <3>3 DEF ClownNext
  <2>5. CASE SignInConfig \/ SecretEdited \/ SignInTick
    BY <1>1, <2>5 DEF SignInConfig, SecretEdited, SignInTick
  <2> QED
    BY <1>1, <2>1, <2>4, <2>5 DEF SignInNext
<1>2. SignInInv /\ [SignInNext]_signInVars =>
        [\A u \in Clowns : op[u] = NoOp /\ op'[u] # NoOp => gone[u] < SessionLife]_signInVars
  BY <1>1
<1> QED
  BY <1>2, SignInTypes, PTL DEF SignInSpec, RightsEnd

-----------------------------------------------------------------------------
(* Announcements *)

\* What a run that has failed at nobody still owes: the mailboxes "entitled"
\* that have no mail yet are among those it has left.
Owes(r, boxes, mails) ==
  r.at = "send" /\ ~r.failed =>
    \A m \in boxes : mails[m] > 0 \/ \E x \in r.left : MailboxOf[x] = m

MailInv ==
  /\ MailTypeOK
  /\ item = Unwritten => entitled = {} /\ ~invoked
  /\ ~invoked => \A d \in Deliveries : run[d] = Absent
  /\ item # Unwritten =>
       entitled \subseteq {MailboxOf[x] : x \in Entitled(order, waiting, item.audience)}
  /\ \A d \in Deliveries : /\ run[d].at \in {"absent", "due"} => run[d].tries < Attempts
                           /\ Owes(run[d], entitled, mail)
  /\ SentMeansSent

\* A written announcement is a record of its own kind, whatever its status.
LEMMA Written ==
  ASSUME NEW i \in Announcement
  PROVE  i # Unwritten
<1>1. i.status # "none"
  BY DEF Announcement
<1> QED
  BY <1>1 DEF Unwritten

\* A run marks a row it knows, and leaves its audience alone.
LEMMA WrittenItem ==
  ASSUME NEW i \in Announcement, NEW s \in {"queued", "sending", "sent", "failed"},
         NEW b \in BOOLEAN
  PROVE  /\ [i EXCEPT !.status = s] \in Announcement
         /\ [i EXCEPT !.status = s].audience = i.audience
         /\ [i EXCEPT !.status = s].status = s
         /\ [i EXCEPT !.status = s, !.error = b] \in Announcement
         /\ [i EXCEPT !.status = s, !.error = b].audience = i.audience
         /\ [i EXCEPT !.status = s, !.error = b].status = s
         /\ [i EXCEPT !.status = s, !.error = b].error = b
<1>1. /\ [i EXCEPT !.status = s] \in Announcement
      /\ [i EXCEPT !.status = s].audience = i.audience
      /\ [i EXCEPT !.status = s].status = s
  BY DEF Announcement
<1>2. /\ [i EXCEPT !.status = s, !.error = b] \in Announcement
      /\ [i EXCEPT !.status = s, !.error = b].audience = i.audience
      /\ [i EXCEPT !.status = s, !.error = b].status = s
      /\ [i EXCEPT !.status = s, !.error = b].error = b
  BY DEF Announcement
<1> QED
  BY <1>1, <1>2

\* Every mailbox among the entries has one of the entries that stand for it.
LEMMA OneStandsForEach ==
  ASSUME NEW entries
  PROVE  /\ OnePerMailbox(entries) \subseteq entries
         /\ \A x \in entries : \E y \in OnePerMailbox(entries) : MailboxOf[y] = MailboxOf[x]
BY DEF OnePerMailbox

\* The runs a step leaves alone owe no more than before, if claims only lapse
\* and mails only arrive.
LEMMA OwesLess ==
  ASSUME NEW r, NEW boxes, NEW fewer \in SUBSET boxes, NEW mails \in [Mailboxes -> Nat],
         NEW more \in [Mailboxes -> Nat], boxes \subseteq Mailboxes,
         \A m \in Mailboxes : more[m] >= mails[m],
         Owes(r, boxes, mails)
  PROVE  Owes(r, fewer, more)
<1>1. \A m \in fewer : more[m] \in Nat /\ mails[m] \in Nat /\ more[m] >= mails[m]
  OBVIOUS
<1>2. \A m \in fewer : mails[m] > 0 => more[m] > 0
  BY <1>1
<1> QED
  BY <1>2 DEF Owes

\* What a step changes: at most one run, never more claims, never fewer mails.
LEMMA RunChanges ==
  ASSUME MailInv, NEW d \in Deliveries, NEW r \in Run, run' = [run EXCEPT ![d] = r],
         r.at \in {"absent", "due"} => r.tries < Attempts,
         entitled' \subseteq entitled, mail' \in [Mailboxes -> Nat],
         \A m \in Mailboxes : mail'[m] >= mail[m],
         Owes(r, entitled', mail')
  PROVE  /\ run' \in [Deliveries -> Run]
         /\ \A x \in Deliveries : /\ run'[x].at \in {"absent", "due"} => run'[x].tries < Attempts
                                  /\ Owes(run'[x], entitled', mail')
<1>1. run \in [Deliveries -> Run] /\ mail \in [Mailboxes -> Nat] /\ entitled \subseteq Mailboxes
  BY DEF MailInv, MailTypeOK
<1>2. \A x \in Deliveries : Owes(run[x], entitled, mail)
  BY DEF MailInv
<1>3. \A x \in Deliveries : Owes(run[x], entitled', mail')
  BY <1>1, <1>2, OwesLess
<1>4. run' \in [Deliveries -> Run] /\ run'[d] = r /\ \A x \in Deliveries \ {d} : run'[x] = run[x]
  BY <1>1
<1> QED
  BY <1>3, <1>4 DEF MailInv

\* The page's promise survives whatever leaves the row alone.
LEMMA SentStays ==
  ASSUME MailInv, item' = item, entitled' \subseteq entitled, mail' \in [Mailboxes -> Nat],
         \A m \in Mailboxes : mail'[m] >= mail[m]
  PROVE  SentMeansSent'
<1>1. mail \in [Mailboxes -> Nat] /\ entitled \subseteq Mailboxes
  BY DEF MailInv, MailTypeOK
<1>2. \A m \in entitled' : mail[m] > 0 => mail'[m] > 0
  BY <1>1
<1> QED
  BY <1>2 DEF MailInv, SentMeansSent

\* Sales, refunds and sign-ups: claims lapse, nothing else.
LEMMA TablesChange ==
  ASSUME MailInv, UNCHANGED <<item, invoked, run, mail, faults>>,
         order' \in [TicketOrders -> {"pending", "paid", "refunded"}],
         waiting' \subseteq Waiters,
         entitled' \subseteq entitled,
         item # Unwritten =>
           entitled' \subseteq {MailboxOf[x] : x \in Entitled(order', waiting', item.audience)}
  PROVE  MailInv'
<1>1. /\ run \in [Deliveries -> Run] /\ mail \in [Mailboxes -> Nat] /\ entitled \subseteq Mailboxes
  BY DEF MailInv, MailTypeOK
<1>2. \A m \in Mailboxes : mail'[m] >= mail[m]
  BY <1>1
<1>3. \A d \in Deliveries : Owes(run'[d], entitled', mail')
  BY <1>1, <1>2, OwesLess DEF MailInv
<1>4. SentMeansSent'
  BY <1>1, <1>2, SentStays
<1>5. MailTypeOK'
  BY <1>1 DEF MailInv, MailTypeOK
<1> QED
  BY <1>3, <1>4, <1>5 DEF MailInv

\* A step of one run: the tables and the claims stay.
LEMMA RunStep ==
  ASSUME MailInv, NEW d \in Deliveries, NEW r \in Run, run' = [run EXCEPT ![d] = r],
         r.at \in {"absent", "due"} => r.tries < Attempts,
         item # Unwritten, invoked' = TRUE,
         item' \in Announcement, item' # Unwritten, item'.audience = item.audience,
         UNCHANGED <<order, waiting, entitled>>, faults' \in 0..MaxFaults,
         mail' \in [Mailboxes -> Nat], \A m \in Mailboxes : mail'[m] >= mail[m],
         Owes(r, entitled, mail'), SentMeansSent'
  PROVE  MailInv'
<1>1. /\ run' \in [Deliveries -> Run]
      /\ \A x \in Deliveries : /\ run'[x].at \in {"absent", "due"} => run'[x].tries < Attempts
                               /\ Owes(run'[x], entitled', mail')
  BY RunChanges
<1>2. MailTypeOK'
  BY <1>1 DEF MailInv, MailTypeOK
<1>3. entitled' \subseteq {MailboxOf[x] : x \in Entitled(order', waiting', item'.audience)}
  BY DEF MailInv
<1> QED
  BY <1>1, <1>2, <1>3 DEF MailInv

LEMMA MailInvStep ==
  ASSUME AnnouncementAssumption, MailInv, [MailNext]_mailVars
  PROVE  MailInv'
<1>a. /\ order \in [TicketOrders -> {"pending", "paid", "refunded"}] /\ waiting \subseteq Waiters
      /\ item \in Announcement \cup {Unwritten} /\ invoked \in BOOLEAN
      /\ run \in [Deliveries -> Run] /\ mail \in [Mailboxes -> Nat]
      /\ entitled \subseteq Mailboxes /\ faults \in 0..MaxFaults
  BY DEF MailInv, MailTypeOK
<1>b. Attempts \in Nat \ {0} /\ MaxFaults \in Nat
  BY DEF AnnouncementAssumption
<1>c. \A orders, waiters, audience :
        waiters \subseteq Waiters => Entitled(orders, waiters, audience) \subseteq TicketOrders \cup Waiters
  BY DEF Entitled
<1>d. \A orders, waiters, audience :
        waiters \subseteq Waiters =>
          {MailboxOf[x] : x \in Entitled(orders, waiters, audience)} \subseteq Mailboxes
  BY <1>c DEF Mailboxes
<1>e. \A m \in Mailboxes : mail[m] >= mail[m]
  BY <1>a
<1>1. CASE UNCHANGED mailVars
  BY <1>a, <1>1, TablesChange DEF mailVars, MailInv
<1>2. ASSUME NEW o \in TicketOrders, Sold(o) \/ Refunded(o)
      PROVE  MailInv'
  <2>1. /\ order' \in [TicketOrders -> {"pending", "paid", "refunded"}]
        /\ UNCHANGED <<waiting, item, invoked, run, mail, faults>>
        /\ entitled' = StillEntitled(order', waiting)
    BY <1>a, <1>2 DEF Sold, Refunded
  <2>2. /\ entitled' \subseteq entitled
        /\ item # Unwritten =>
             entitled' \subseteq {MailboxOf[x] : x \in Entitled(order', waiting', item.audience)}
    BY <2>1 DEF StillEntitled
  <2> QED
    BY <1>a, <2>1, <2>2, TablesChange
<1>3. ASSUME NEW w \in Waiters, waitlist_signup(w)
      PROVE  MailInv'
  <2>1. waiting' = waiting \cup {w} /\ UNCHANGED <<order, item, invoked, run, mail, entitled, faults>>
    BY <1>3 DEF waitlist_signup
  <2>2. item # Unwritten =>
          Entitled(order, waiting, item.audience) \subseteq Entitled(order', waiting', item.audience)
    BY <2>1 DEF Entitled
  <2>3. item # Unwritten =>
          entitled' \subseteq {MailboxOf[x] : x \in Entitled(order', waiting', item.audience)}
    BY <2>1, <2>2 DEF MailInv
  <2> QED
    BY <1>a, <2>1, <2>3, TablesChange
<1>4. ASSUME NEW audience \in Audiences, create_announcement(audience)
      PROVE  MailInv'
  <2>1. /\ item = Unwritten /\ UNCHANGED <<order, waiting, invoked, run, mail, faults>>
        /\ item' = [status |-> "queued", audience |-> audience, error |-> FALSE]
        /\ entitled' = {MailboxOf[x] : x \in Entitled(order, waiting, audience)}
    BY <1>4 DEF create_announcement, tableVars
  <2>2. item' \in Announcement /\ item'.status = "queued" /\ item'.audience = audience
    BY <2>1 DEF Announcement
  <2>3. item' # Unwritten
    BY <2>2 DEF Unwritten
  <2>4. \A d \in Deliveries : run'[d].at = "absent" /\ run'[d].tries < Attempts
    BY <1>b, <2>1 DEF MailInv, Absent
  <2>5. \A d \in Deliveries : Owes(run'[d], entitled', mail')
    BY <2>4 DEF Owes
  <2>6. entitled' \subseteq Mailboxes
    BY <1>a, <1>d, <2>1
  <2>7. MailTypeOK'
    BY <1>a, <2>1, <2>2, <2>6 DEF MailTypeOK
  <2>8. SentMeansSent'
    BY <2>2 DEF SentMeansSent
  <2>9. ~invoked' => \A d \in Deliveries : run'[d] = Absent
    BY <2>1 DEF MailInv
  <2>10. entitled' \subseteq {MailboxOf[x] : x \in Entitled(order', waiting', item'.audience)}
    BY <2>1, <2>2
  <2> QED
    BY <2>3, <2>4, <2>5, <2>7, <2>8, <2>9, <2>10 DEF MailInv
<1>f. item # Unwritten => item \in Announcement
  BY <1>a
<1>g. \A d \in Deliveries : run[d].at # "absent" => invoked /\ item # Unwritten
  BY DEF MailInv, Absent
<1>h. item # Unwritten => /\ [item EXCEPT !.status = "sending"] \in Announcement
                          /\ [item EXCEPT !.status = "sending"].status = "sending"
                          /\ [item EXCEPT !.status = "sending"].audience = item.audience
  BY <1>f, WrittenItem
<1>i. item # Unwritten => /\ [item EXCEPT !.status = "failed", !.error = TRUE] \in Announcement
                          /\ [item EXCEPT !.status = "failed", !.error = TRUE].status = "failed"
                          /\ [item EXCEPT !.status = "failed", !.error = TRUE].audience = item.audience
  BY <1>f, WrittenItem
<1>5. ASSUME NEW d \in Deliveries, _invoke_announcement_lambda \/ Redelivered(d),
             run' = [run EXCEPT ![d].at = "due"]
      PROVE  MailInv'
  <2>1. run[d].at = "absent" /\ item # Unwritten /\ invoked' = TRUE
        /\ UNCHANGED <<order, waiting, item, mail, entitled, faults>>
    <3>1. CASE _invoke_announcement_lambda
      BY <3>1 DEF _invoke_announcement_lambda, tableVars, MailInv, Absent
    <3>2. CASE Redelivered(d)
      BY <1>a, <3>2 DEF Redelivered, tableVars, MailInv
    <3> QED
      BY <1>5, <3>1, <3>2
  <2> DEFINE r == [run[d] EXCEPT !.at = "due"]
  <2>2. r \in Run /\ r.at = "due" /\ r.tries = run[d].tries
    BY <1>a DEF Run
  <2>3. r.tries < Attempts
    BY <2>1, <2>2 DEF MailInv
  <2>4. run' = [run EXCEPT ![d] = r] /\ Owes(r, entitled, mail')
    BY <1>5, <2>2 DEF Owes
  <2> HIDE DEF r
  <2>5. SentMeansSent'
    BY <1>a, <1>e, <2>1, SentStays
  <2> QED
    BY <1>a, <1>e, <1>f, <2>1, <2>2, <2>3, <2>4, <2>5, RunStep
<1>6. ASSUME NEW d \in Deliveries, Begin(d)
      PROVE  MailInv'
  <2> DEFINE r == [Absent EXCEPT !.at = "resolve", !.tries = run[d].tries + 1]
  <2>1. run[d].at = "due" /\ run[d].tries \in 0..Attempts /\ run[d].tries < Attempts
    BY <1>a, <1>6 DEF Begin, MailInv, Run
  <2>2. r \in Run /\ r.at = "resolve"
    <3>1. Absent \in Run
      BY <1>b DEF Run, Absent
    <3>2. run[d].tries + 1 \in 0..Attempts
      BY <1>b, <2>1
    <3> QED
      BY <3>1, <3>2 DEF Run
  <2>3. /\ item # Unwritten /\ invoked' = TRUE
        /\ UNCHANGED <<order, waiting, mail, entitled, faults>>
        /\ item' = [item EXCEPT !.status = "sending"] /\ run' = [run EXCEPT ![d] = r]
    BY <1>a, <1>g, <1>6, <2>1 DEF Begin, tableVars
  <2> HIDE DEF r
  <2>4. item' \in Announcement /\ item'.status = "sending" /\ item'.audience = item.audience
    BY <1>h, <2>3
  <2>5. SentMeansSent' /\ item' # Unwritten
    BY <2>4, Written DEF SentMeansSent
  <2>6. Owes(r, entitled, mail')
    BY <2>2 DEF Owes
  <2> QED
    BY <1>a, <1>e, <2>2, <2>3, <2>4, <2>5, <2>6, RunStep
<1>7. ASSUME NEW d \in Deliveries, Resolve(d)
      PROVE  MailInv'
  <2> DEFINE r == [run[d] EXCEPT !.at = "send", !.left = _resolve_recipients]
  <2>1. /\ item # Unwritten /\ invoked' = TRUE
        /\ UNCHANGED <<order, waiting, item, mail, entitled, faults>>
        /\ run' = [run EXCEPT ![d] = r]
    BY <1>a, <1>g, <1>7 DEF Resolve, tableVars
  <2>2. _resolve_recipients \subseteq TicketOrders \cup Waiters
    <3>1. Entitled(order, waiting, item.audience) \subseteq TicketOrders \cup Waiters
      BY <1>a, <1>c
    <3>2. OnePerMailbox(Entitled(order, waiting, item.audience))
            \subseteq Entitled(order, waiting, item.audience)
      BY OneStandsForEach
    <3> QED
      BY <3>1, <3>2 DEF _resolve_recipients
  <2>3. r \in Run /\ r.at = "send" /\ r.left = _resolve_recipients
    BY <1>a, <2>2 DEF Run
  <2>4. \A m \in entitled : \E x \in _resolve_recipients : MailboxOf[x] = m
    BY <2>1, OneStandsForEach DEF MailInv, _resolve_recipients
  <2> HIDE DEF r
  <2>5. Owes(r, entitled, mail')
    BY <2>3, <2>4 DEF Owes
  <2>6. SentMeansSent'
    BY <1>a, <1>e, <2>1, SentStays
  <2> QED
    BY <1>a, <1>e, <1>f, <2>1, <2>3, <2>5, <2>6, RunStep
<1>8. ASSUME NEW d \in Deliveries, NEW x \in TicketOrders \cup Waiters, SendMail(d, x)
      PROVE  MailInv'
  <2>1. /\ run[d].at = "send" /\ item # Unwritten /\ invoked' = TRUE
        /\ UNCHANGED <<order, waiting, item, entitled>>
    BY <1>a, <1>g, <1>8 DEF SendMail, tableVars
  <2>2. run[d] \in Run /\ run[d].left \ {x} \in SUBSET (TicketOrders \cup Waiters)
    BY <1>a DEF Run
  <2>3. MailboxOf[x] \in Mailboxes
    BY DEF Mailboxes
  <2>4. /\ mail' \in [Mailboxes -> Nat] /\ \A m \in Mailboxes : mail'[m] >= mail[m]
    BY <1>a, <1>8, <2>3 DEF SendMail, Mailed
  <2>5. SentMeansSent'
    BY <2>1, <2>4, SentStays
  <2>6. CASE Mailed(x) /\ run' = [run EXCEPT ![d].left = @ \ {x}] /\ UNCHANGED faults
    <3> DEFINE r == [run[d] EXCEPT !.left = run[d].left \ {x}]
    <3>1. r \in Run /\ r.at = "send" /\ r.failed = run[d].failed /\ r.left = run[d].left \ {x}
      BY <2>1, <2>2 DEF Run
    <3>2. run' = [run EXCEPT ![d] = r]
      BY <2>6
    <3> HIDE DEF r
    <3>3. mail'[MailboxOf[x]] > 0
      BY <1>a, <2>3, <2>6 DEF Mailed
    <3>4. \A m \in entitled : mail[m] > 0 => mail'[m] > 0
      BY <1>a, <2>4
    <3>5. Owes(run[d], entitled, mail)
      BY DEF MailInv
    <3>6. Owes(r, entitled, mail')
      BY <2>1, <3>1, <3>3, <3>4, <3>5 DEF Owes
    <3> QED
      BY <1>a, <1>f, <2>1, <2>4, <2>5, <2>6, <3>1, <3>2, <3>6, RunStep
  <2>7. CASE /\ faults < MaxFaults /\ faults' = faults + 1
             /\ run' = [run EXCEPT ![d] = [@ EXCEPT !.left = run[d].left \ {x},
                                                    !.failed = Counted(run[d].failed)]]
    <3> DEFINE r == [run[d] EXCEPT !.left = run[d].left \ {x}, !.failed = Counted(run[d].failed)]
    <3>1. r \in Run /\ r.at = "send" /\ r.failed = TRUE
      BY <2>1, <2>2 DEF Run, Counted
    <3>2. run' = [run EXCEPT ![d] = r]
      BY <2>7
    <3> HIDE DEF r
    <3>3. Owes(r, entitled, mail')
      BY <3>1 DEF Owes
    <3>4. faults' \in 0..MaxFaults
      BY <1>a, <1>b, <2>7
    <3> QED
      BY <1>a, <1>f, <2>1, <2>4, <2>5, <3>1, <3>2, <3>3, <3>4, RunStep
  <2> QED
    BY <1>8, <2>6, <2>7 DEF SendMail
<1>9. ASSUME NEW d \in Deliveries, Finish(d)
      PROVE  MailInv'
  <2> DEFINE r == [run[d] EXCEPT !.at = "done"]
  <2>1. /\ run[d].at = "send" /\ run[d].left = {} /\ item # Unwritten /\ invoked' = TRUE
        /\ UNCHANGED <<order, waiting, mail, entitled, faults>>
        /\ item' = [item EXCEPT !.status = "sent", !.error = run[d].failed]
        /\ run' = [run EXCEPT ![d] = r]
    BY <1>a, <1>g, <1>9 DEF Finish, tableVars
  <2>2. r \in Run /\ r.at = "done" /\ run[d].failed \in BOOLEAN
    BY <1>a DEF Run
  <2> HIDE DEF r
  <2>3. /\ item' \in Announcement /\ item' # Unwritten
        /\ item'.error = run[d].failed /\ item'.audience = item.audience
    <3>1. item \in Announcement
      BY <1>f, <2>1
    <3> DEFINE b == run[d].failed
               i == [item EXCEPT !.status = "sent", !.error = b]
    <3>2. b \in BOOLEAN
      BY <2>2
    <3> HIDE DEF b
    <3>3. i \in Announcement /\ i.error = b /\ i.audience = item.audience
      BY <3>1, <3>2 DEF Announcement
    <3> HIDE DEF i
    <3>4. i # Unwritten
      BY <3>3, Written
    <3>5. item' = i
      BY <2>1 DEF i, b
    <3> QED
      BY <3>3, <3>4, <3>5 DEF b
  <2>4. Owes(run[d], entitled, mail)
    BY DEF MailInv
  <2>5. ~run[d].failed => \A m \in entitled : mail[m] > 0
    BY <2>1, <2>4 DEF Owes
  <2>6. SentMeansSent'
    BY <2>1, <2>3, <2>5 DEF SentMeansSent
  <2>7. Owes(r, entitled, mail')
    BY <2>2 DEF Owes
  <2> QED
    BY <1>a, <1>e, <2>1, <2>2, <2>3, <2>6, <2>7, RunStep
<1>10. ASSUME NEW d \in Deliveries, RunRaises(d) \/ RunTimesOut(d)
       PROVE  MailInv'
  <2> DEFINE r == [run[d] EXCEPT !.at = IF run[d].tries < Attempts THEN "due" ELSE "done"]
  <2>1. /\ run[d].at # "absent" /\ faults < MaxFaults /\ faults' = faults + 1
        /\ UNCHANGED <<order, waiting, mail, entitled, invoked>>
        /\ run' = [run EXCEPT ![d] = r]
    BY <1>10 DEF RunRaises, RunTimesOut, Running, Retried, tableVars
  <2>2. item # Unwritten /\ invoked' = TRUE /\ faults' \in 0..MaxFaults
    BY <1>a, <1>b, <1>g, <2>1
  <2>3. /\ r \in Run /\ r.at \in {"due", "done"} /\ r.tries = run[d].tries
        /\ r.at = "due" => run[d].tries < Attempts
    <3>1. CASE run[d].tries < Attempts
      BY <1>a, <3>1 DEF Run
    <3>2. CASE ~(run[d].tries < Attempts)
      BY <1>a, <3>2 DEF Run
    <3> QED
      BY <3>1, <3>2
  <2> HIDE DEF r
  <2>4. Owes(r, entitled, mail')
    BY <2>3 DEF Owes
  <2>5. /\ item' \in Announcement /\ item' # Unwritten /\ item'.audience = item.audience
        /\ SentMeansSent'
    <3>1. CASE RunRaises(d)
      BY <1>i, <2>2, <3>1, Written DEF RunRaises, SentMeansSent
    <3>2. CASE RunTimesOut(d)
      BY <1>a, <1>e, <1>f, <2>1, <2>2, <3>2, SentStays DEF RunTimesOut
    <3> QED
      BY <1>10, <3>1, <3>2
  <2> QED
    BY <1>a, <1>e, <2>1, <2>2, <2>3, <2>4, <2>5, RunStep
<1> QED
  BY <1>1, <1>2, <1>3, <1>4, <1>5, <1>6, <1>7, <1>8, <1>9, <1>10
     DEF MailNext, RunNext, _invoke_announcement_lambda, Redelivered

\* Nothing written, nothing owed.
LEMMA MailInvInit ==
  ASSUME AnnouncementAssumption, MailInit
  PROVE  MailInv
<1>1. Attempts \in Nat \ {0} /\ MaxFaults \in Nat
  BY DEF AnnouncementAssumption
<1>2. Absent \in Run /\ Absent.at = "absent" /\ Absent.tries = 0
  BY <1>1 DEF Absent, Run
<1>3. \A d \in Deliveries : Owes(run[d], entitled, mail) /\ run[d] = Absent
  BY <1>2 DEF MailInit, Owes
<1>4. MailTypeOK
  <2>1. run \in [Deliveries -> Run] /\ mail \in [Mailboxes -> Nat] /\ faults \in 0..MaxFaults
    BY <1>1, <1>2 DEF MailInit
  <2>2. order \in [TicketOrders -> {"pending", "paid", "refunded"}]
    BY DEF MailInit
  <2> QED
    BY <2>1, <2>2 DEF MailInit, MailTypeOK
<1>5. SentMeansSent
  BY DEF MailInit, SentMeansSent
<1> QED
  BY <1>1, <1>2, <1>3, <1>4, <1>5 DEF MailInit, MailInv

\* "Sent", without an error, means sent: for every set of orders, waitlist
\* entries and deliveries, and every number of runs that raise or time out.
THEOREM SentAlwaysMeansSent == AnnouncementAssumption => (MailSpec => []SentMeansSent)
<1> SUFFICES ASSUME AnnouncementAssumption
             PROVE  MailSpec => []SentMeansSent
  OBVIOUS
<1>1. MailInit => MailInv
  BY MailInvInit
<1>2. MailInv /\ [MailNext]_mailVars => MailInv'
  BY MailInvStep
<1>3. MailInv => SentMeansSent
  BY DEF MailInv
<1> QED
  BY <1>1, <1>2, <1>3, PTL DEF MailSpec

\* A run that is going on owes a mailbox its mail until it has sent it: one
\* mail for each run, less the ones still to come.
OwesTo(r, m) == r.at = "resolve" \/ (r.at = "send" /\ \E x \in r.left : MailboxOf[x] = m)
SentTo(r, m) == r.tries - (IF OwesTo(r, m) THEN 1 ELSE 0)
Copies(m) == [d \in Deliveries |-> SentTo(run[d], m)]
Tries == [d \in Deliveries |-> run[d].tries]

\* An entry stands for its mailbox alone among the ones left.
CleanRun(r) ==
  /\ r.at \in {"resolve", "send"} => r.tries > 0
  /\ r.at = "send" => \A x, y \in r.left : MailboxOf[x] = MailboxOf[y] => x = y
CopiesInv ==
  /\ \A d \in Deliveries : CleanRun(run[d])
  /\ Summable(Deliveries, Tries)
  /\ \A m \in Mailboxes : Summable(Deliveries, Copies(m)) /\ mail[m] <= Total(Deliveries, Copies(m))

\* No other entry stands for the same mailbox.
LEMMA OneStandsAlone ==
  ASSUME NEW entries, NEW x \in OnePerMailbox(entries), NEW y \in OnePerMailbox(entries),
         MailboxOf[x] = MailboxOf[y]
  PROVE  x = y
<1> DEFINE S(m) == CHOOSE z \in entries : MailboxOf[z] = m
<1>1. PICK a \in entries : x = S(MailboxOf[a])
  BY DEF OnePerMailbox
<1>2. PICK b \in entries : y = S(MailboxOf[b])
  BY DEF OnePerMailbox
<1>3. MailboxOf[x] = MailboxOf[a] /\ MailboxOf[y] = MailboxOf[b]
  BY <1>1, <1>2
<1> QED
  BY <1>1, <1>2, <1>3

LEMMA SentToType ==
  ASSUME NEW r \in Run, NEW m, CleanRun(r)
  PROVE  r.tries \in Int /\ SentTo(r, m) \in Int /\ SentTo(r, m) >= 0 /\ SentTo(r, m) <= r.tries
<1>1. r.tries \in Nat
  BY DEF Run
<1> QED
  BY <1>1 DEF SentTo, OwesTo, CleanRun

\* A step of one run sends a mailbox no more than the run owed it.
LEMMA CopiesStep ==
  ASSUME MailTypeOK, CopiesInv, NEW d \in Deliveries, NEW r \in Run, CleanRun(r),
         run' = [run EXCEPT ![d] = r], mail' \in [Mailboxes -> Nat],
         \A m \in Mailboxes : mail'[m] + SentTo(run[d], m) <= mail[m] + SentTo(r, m)
  PROVE  CopiesInv'
<1>1. run \in [Deliveries -> Run] /\ mail \in [Mailboxes -> Nat]
  BY DEF MailTypeOK
<1>2. run' \in [Deliveries -> Run] /\ run'[d] = r /\ \A y \in Deliveries \ {d} : run'[y] = run[y]
  BY <1>1
<1>3. \A y \in Deliveries : CleanRun(run[y]) /\ CleanRun(run'[y])
  BY <1>2 DEF CopiesInv
<1>4. Summable(Deliveries, Tries')
  <2>1. Tries \in [Deliveries -> Int] /\ Tries' \in [Deliveries -> Int]
    BY <1>1, <1>2, <1>3, SentToType DEF Tries
  <2>2. \A y \in Deliveries \ {d} : Tries'[y] = Tries[y]
    BY <1>2 DEF Tries
  <2> QED
    BY <2>1, <2>2, TotalChange DEF CopiesInv
<1>5. ASSUME NEW m \in Mailboxes
      PROVE  /\ Summable(Deliveries, Copies(m)')
             /\ mail'[m] <= Total(Deliveries, Copies(m)')
  <2> DEFINE w == Copies(m)
             v == [y \in Deliveries |-> SentTo(run'[y], m)]
  <2>1. w \in [Deliveries -> Int] /\ v \in [Deliveries -> Int]
    BY <1>1, <1>2, <1>3, SentToType DEF Copies
  <2>2. /\ \A y \in Deliveries \ {d} : v[y] = w[y]
        /\ v[d] = SentTo(r, m) /\ w[d] = SentTo(run[d], m)
    BY <1>2 DEF Copies
  <2>3. Copies(m)' = v
    BY DEF Copies
  <2>4. Summable(Deliveries, w) /\ mail[m] <= Total(Deliveries, w)
    BY DEF CopiesInv
  <2> HIDE DEF w, v
  <2>5. Summable(Deliveries, v) /\ Total(Deliveries, v) = Total(Deliveries, w) + v[d] - w[d]
    BY <2>1, <2>2, <2>4, TotalChange
  <2>6. /\ Total(Deliveries, w) \in Int /\ v[d] \in Int /\ w[d] \in Int
        /\ mail[m] \in Nat /\ mail'[m] \in Nat
    BY <1>1, <2>1, <2>4, TotalType
  <2>7. mail'[m] + w[d] <= mail[m] + v[d]
    BY <2>2
  <2>8. mail'[m] <= Total(Deliveries, v)
    BY <2>4, <2>5, <2>6, <2>7
  <2> QED
    BY <2>3, <2>5, <2>8
<1> QED
  BY <1>3, <1>4, <1>5 DEF CopiesInv

LEMMA CopiesInvStep ==
  ASSUME AnnouncementAssumption, MailInv, CopiesInv, [MailNext]_mailVars
  PROVE  CopiesInv'
<1>1. /\ run \in [Deliveries -> Run] /\ mail \in [Mailboxes -> Nat]
      /\ item \in Announcement \cup {Unwritten}
      /\ order \in [TicketOrders -> {"pending", "paid", "refunded"}] /\ waiting \subseteq Waiters
      /\ Attempts \in Nat
  BY DEF MailInv, MailTypeOK, AnnouncementAssumption
<1>2. \A d \in Deliveries : run[d] \in Run /\ CleanRun(run[d])
  BY <1>1 DEF CopiesInv
<1>3. \A d \in Deliveries, m \in Mailboxes :
        SentTo(run[d], m) \in Int /\ mail[m] \in Nat
  BY <1>1, <1>2, SentToType
<1>4. CASE UNCHANGED <<run, mail>>
  BY <1>4 DEF CopiesInv, Tries, Copies
\* The invocation and a redelivery start nothing.
<1>5. ASSUME NEW d \in Deliveries, UNCHANGED mail, run' = [run EXCEPT ![d].at = "due"],
             run[d].at # "resolve" /\ run[d].at # "send"
      PROVE  CopiesInv'
  <2> DEFINE r == [run[d] EXCEPT !.at = "due"]
  <2>1. r \in Run /\ r.at = "due" /\ r.tries = run[d].tries
    BY <1>2 DEF Run
  <2>2. run' = [run EXCEPT ![d] = r]
    BY <1>5
  <2> HIDE DEF r
  <2>3. CleanRun(r) /\ \A m \in Mailboxes : SentTo(r, m) = SentTo(run[d], m)
    BY <1>5, <2>1 DEF CleanRun, SentTo, OwesTo
  <2>4. \A m \in Mailboxes : mail'[m] + SentTo(run[d], m) <= mail[m] + SentTo(r, m)
    BY <1>3, <1>5, <2>3
  <2> QED
    BY <1>1, <1>5, <2>1, <2>2, <2>3, <2>4, CopiesStep DEF MailInv
<1>6. ASSUME NEW d \in Deliveries, Begin(d), run[d].tries < Attempts
      PROVE  CopiesInv'
  <2> DEFINE r == [Absent EXCEPT !.at = "resolve", !.tries = run[d].tries + 1]
  <2>1. run[d].at = "due" /\ run' = [run EXCEPT ![d] = r] /\ UNCHANGED mail
    BY <1>6 DEF Begin
  <2>2. run[d].tries \in Nat
    BY <1>2 DEF Run
  <2>3. r \in Run /\ r.at = "resolve" /\ r.tries = run[d].tries + 1
    <3>1. Absent \in Run
      BY <1>1 DEF Run, Absent
    <3>2. run[d].tries + 1 \in 0..Attempts
      BY <1>1, <1>6, <2>2
    <3> QED
      BY <3>1, <3>2 DEF Run
  <2> HIDE DEF r
  <2>4. CleanRun(r) /\ \A m \in Mailboxes : SentTo(r, m) = SentTo(run[d], m)
    BY <2>1, <2>2, <2>3 DEF CleanRun, SentTo, OwesTo
  <2>5. \A m \in Mailboxes : mail'[m] + SentTo(run[d], m) <= mail[m] + SentTo(r, m)
    BY <1>3, <2>1, <2>4
  <2> QED
    BY <1>1, <2>1, <2>3, <2>4, <2>5, CopiesStep DEF MailInv
<1>7. ASSUME NEW d \in Deliveries, Resolve(d)
      PROVE  CopiesInv'
  <2> DEFINE r == [run[d] EXCEPT !.at = "send", !.left = _resolve_recipients]
  <2>1. run[d].at = "resolve" /\ run' = [run EXCEPT ![d] = r] /\ UNCHANGED mail
    BY <1>7 DEF Resolve
  <2>2. _resolve_recipients \subseteq TicketOrders \cup Waiters
    <3>1. Entitled(order, waiting, item.audience) \subseteq TicketOrders \cup Waiters
      BY <1>1 DEF Entitled
    <3>2. OnePerMailbox(Entitled(order, waiting, item.audience))
            \subseteq Entitled(order, waiting, item.audience)
      BY OneStandsForEach
    <3> QED
      BY <3>1, <3>2 DEF _resolve_recipients
  <2>3. r \in Run /\ r.at = "send" /\ r.tries = run[d].tries /\ r.left = _resolve_recipients
    BY <1>2, <2>2 DEF Run
  <2>4. \A x, y \in _resolve_recipients : MailboxOf[x] = MailboxOf[y] => x = y
    BY OneStandsAlone DEF _resolve_recipients
  <2> HIDE DEF r
  <2>5. run[d].tries \in Nat /\ run[d].tries > 0
    BY <1>2, <2>1 DEF CleanRun, Run
  <2>6. CleanRun(r) /\ \A m \in Mailboxes : SentTo(r, m) >= SentTo(run[d], m)
    BY <2>1, <2>3, <2>4, <2>5 DEF CleanRun, SentTo, OwesTo
  <2>7. \A m \in Mailboxes : SentTo(r, m) \in Int
    BY <2>3, <2>6, SentToType
  <2>8. \A m \in Mailboxes : mail'[m] + SentTo(run[d], m) <= mail[m] + SentTo(r, m)
    BY <1>3, <2>1, <2>6, <2>7
  <2> QED
    BY <1>1, <2>1, <2>3, <2>6, <2>8, CopiesStep DEF MailInv
\* A mail to x is the last this run owes to its mailbox.
<1>8. ASSUME NEW d \in Deliveries, NEW x \in TicketOrders \cup Waiters, SendMail(d, x)
      PROVE  CopiesInv'
  <2>1. run[d].at = "send" /\ x \in run[d].left /\ (Mailed(x) \/ UNCHANGED mail)
    BY <1>8 DEF SendMail
  <2>2. PICK r \in Run : /\ run' = [run EXCEPT ![d] = r] /\ r.at = "send"
                         /\ r.tries = run[d].tries /\ r.left = run[d].left \ {x}
    <3> DEFINE r1 == [run[d] EXCEPT !.left = run[d].left \ {x}]
               r2 == [run[d] EXCEPT !.left = run[d].left \ {x},
                                    !.failed = Counted(run[d].failed)]
    <3>1. /\ r1 \in Run /\ r1.at = "send" /\ r1.tries = run[d].tries /\ r1.left = run[d].left \ {x}
          /\ r2 \in Run /\ r2.at = "send" /\ r2.tries = run[d].tries /\ r2.left = run[d].left \ {x}
      BY <1>2, <2>1 DEF Run, Counted
    <3>2. run' = [run EXCEPT ![d] = r1] \/ run' = [run EXCEPT ![d] = r2]
      BY <1>8 DEF SendMail
    <3> HIDE DEF r1, r2
    <3> QED
      BY <3>1, <3>2
  <2>3. MailboxOf[x] \in Mailboxes
    BY DEF Mailboxes
  <2>4. /\ mail' \in [Mailboxes -> Nat]
        /\ mail'[MailboxOf[x]] <= mail[MailboxOf[x]] + 1
        /\ \A m \in Mailboxes \ {MailboxOf[x]} : mail'[m] = mail[m]
    BY <1>1, <2>1, <2>3 DEF Mailed
  <2>5. /\ CleanRun(r) /\ ~OwesTo(r, MailboxOf[x]) /\ OwesTo(run[d], MailboxOf[x])
        /\ \A m \in Mailboxes \ {MailboxOf[x]} : OwesTo(r, m) <=> OwesTo(run[d], m)
    BY <1>2, <2>1, <2>2 DEF CleanRun, OwesTo
  <2>6. run[d].tries \in Nat
    BY <1>2 DEF Run
  <2>7. SentTo(r, MailboxOf[x]) = SentTo(run[d], MailboxOf[x]) + 1
    BY <2>2, <2>5, <2>6 DEF SentTo
  <2>8. \A m \in Mailboxes \ {MailboxOf[x]} : SentTo(r, m) = SentTo(run[d], m)
    BY <2>2, <2>5 DEF SentTo
  <2>9. \A m \in Mailboxes : mail'[m] + SentTo(run[d], m) <= mail[m] + SentTo(r, m)
    BY <1>3, <2>3, <2>4, <2>7, <2>8
  <2> QED
    BY <1>1, <2>2, <2>4, <2>5, <2>9, CopiesStep DEF MailInv
\* A run that ends, or is tried again, owes nothing any more.
<1>9. ASSUME NEW d \in Deliveries, NEW at \in {"due", "done"}, UNCHANGED mail,
             run' = [run EXCEPT ![d].at = at]
      PROVE  CopiesInv'
  <2> DEFINE r == [run[d] EXCEPT !.at = at]
  <2>1. r \in Run /\ r.at = at /\ r.tries = run[d].tries
    BY <1>2 DEF Run
  <2>2. run' = [run EXCEPT ![d] = r]
    BY <1>9
  <2> HIDE DEF r
  <2>3. run[d].tries \in Nat
    BY <1>2 DEF Run
  <2>4. CleanRun(r) /\ \A m \in Mailboxes : SentTo(r, m) >= SentTo(run[d], m)
    BY <2>1, <2>3 DEF CleanRun, SentTo, OwesTo
  <2>5. \A m \in Mailboxes : SentTo(r, m) \in Int
    BY <2>1, <2>4, SentToType
  <2>6. \A m \in Mailboxes : mail'[m] + SentTo(run[d], m) <= mail[m] + SentTo(r, m)
    BY <1>3, <1>9, <2>4, <2>5
  <2> QED
    BY <1>1, <1>9, <2>1, <2>2, <2>4, <2>6, CopiesStep DEF MailInv
<1>10. ASSUME UNCHANGED mailVars \/ (\E o \in TicketOrders : Sold(o) \/ Refunded(o))
                \/ (\E w \in Waiters : waitlist_signup(w))
                \/ (\E audience \in Audiences : create_announcement(audience))
       PROVE  CopiesInv'
  BY <1>4, <1>10 DEF mailVars, Sold, Refunded, waitlist_signup, create_announcement
<1>11. ASSUME _invoke_announcement_lambda
       PROVE  CopiesInv'
  <2>1. PICK d \in Deliveries : run' = [run EXCEPT ![d].at = "due"]
    BY <1>11, Zenon DEF _invoke_announcement_lambda
  <2>2. run[d].at = "absent" /\ UNCHANGED mail
    BY <1>11 DEF _invoke_announcement_lambda, MailInv, Absent
  <2> QED
    BY <1>5, <2>1, <2>2
<1>12. ASSUME NEW d \in Deliveries, Redelivered(d)
       PROVE  CopiesInv'
  BY <1>5, <1>12 DEF Redelivered
<1>13. ASSUME NEW d \in Deliveries, Begin(d)
       PROVE  CopiesInv'
  <2>1. run[d].at = "due"
    BY <1>13 DEF Begin
  <2>2. run[d].tries < Attempts
    BY <2>1 DEF MailInv
  <2> QED
    BY <1>6, <1>13, <2>2
<1>14. ASSUME NEW d \in Deliveries, Finish(d)
       PROVE  CopiesInv'
  BY <1>9, <1>14 DEF Finish
<1>15. ASSUME NEW d \in Deliveries, RunRaises(d) \/ RunTimesOut(d)
       PROVE  CopiesInv'
  <2>1. run' = [run EXCEPT ![d].at = IF run[d].tries < Attempts THEN "due" ELSE "done"]
        /\ UNCHANGED mail
    BY <1>15 DEF RunRaises, RunTimesOut, Retried
  <2>2. CASE run[d].tries < Attempts
    BY <1>9, <2>1, <2>2
  <2>3. CASE ~(run[d].tries < Attempts)
    BY <1>9, <2>1, <2>3
  <2> QED
    BY <2>2, <2>3
<1> QED
  BY <1>7, <1>8, <1>10, <1>11, <1>12, <1>13, <1>14, <1>15 DEF MailNext, RunNext

\* Only a repeated run repeats a mail, for every set of orders and waitlist
\* entries, every number of deliveries and of attempts, and whatever is sold,
\* refunded or joined while the runs send.
THEOREM OncePerRunAlways == AnnouncementAssumption => (MailSpec => []OncePerRun)
<1> SUFFICES ASSUME AnnouncementAssumption
             PROVE  MailSpec => []OncePerRun
  OBVIOUS
<1>1. MailInit => CopiesInv
  <2> SUFFICES ASSUME MailInit PROVE CopiesInv
    OBVIOUS
  <2>1. \A d \in Deliveries : run[d].at = "absent" /\ run[d].tries = 0
    BY DEF MailInit, Absent
  <2>2. Tries \in [Deliveries -> Int] /\ \A d \in Deliveries : Tries[d] = 0
    BY <2>1 DEF Tries
  <2>3. \A m : /\ Copies(m) \in [Deliveries -> Int]
               /\ \A d \in Deliveries : Copies(m)[d] = 0
    BY <2>1 DEF Copies, SentTo, OwesTo
  <2>4. \A m \in Mailboxes : Summable(Deliveries, Copies(m)) /\ Total(Deliveries, Copies(m)) = 0
    BY <2>3, TotalZero
  <2>5. Summable(Deliveries, Tries)
    BY <2>2, TotalZero
  <2> QED
    BY <2>1, <2>4, <2>5 DEF CopiesInv, CleanRun, MailInit
<1>2. MailInv /\ CopiesInv /\ [MailNext]_mailVars => CopiesInv'
  BY CopiesInvStep
<1>3. MailInv /\ CopiesInv => OncePerRun
  <2> SUFFICES ASSUME MailInv, CopiesInv, NEW m \in Mailboxes
               PROVE  mail[m] <= Cardinality(Runs)
    BY DEF OncePerRun
  <2>1. run \in [Deliveries -> Run] /\ mail[m] \in Nat
    BY DEF MailInv, MailTypeOK
  <2>2. \A d \in Deliveries : /\ Tries[d] \in Int /\ Copies(m)[d] \in Int
                              /\ Copies(m)[d] >= 0 /\ Copies(m)[d] <= Tries[d]
    BY <2>1, SentToType DEF CopiesInv, Tries, Copies
  <2>3. Tries \in [Deliveries -> Int] /\ Copies(m) \in [Deliveries -> Int]
    BY <2>2 DEF Tries, Copies
  <2>4. /\ Summable(Deliveries, Tries) /\ Summable(Deliveries, Copies(m))
        /\ mail[m] <= Total(Deliveries, Copies(m))
    BY DEF CopiesInv
  <2>5. \A d \in Deliveries : Tries[d] >= 0
    BY <2>2, <2>3
  <2>6. Total(Deliveries, Copies(m)) = Cardinality(Units(Deliveries, Copies(m)))
    BY <2>2, <2>3, <2>4, TotalOfNaturals
  <2>7. Cardinality(Units(Deliveries, Copies(m))) <= Total(Deliveries, Tries)
    BY <2>2, <2>3, <2>4, <2>5, PartOfTotal
  <2>8. Total(Deliveries, Tries) = Cardinality(Runs) /\ Total(Deliveries, Tries) \in Nat
    BY <2>3, <2>4, <2>5, TotalOfNaturals DEF Runs, Tries
  <2>9. Total(Deliveries, Copies(m)) \in Int
    BY <2>4, TotalType
  <2> QED
    BY <2>1, <2>4, <2>6, <2>7, <2>8, <2>9
<1>4. MailInit => MailInv
  BY MailInvInit
<1>5. MailInv /\ [MailNext]_mailVars => MailInv'
  BY MailInvStep
<1> QED
  BY <1>1, <1>2, <1>3, <1>4, <1>5, PTL DEF MailSpec


\* A run is repeated once for each fault, so a run that faults is not the last.
TriesInv ==
  /\ invoked => item \in Announcement
  /\ \A d \in Deliveries : /\ run[d].at = "absent" => run[d].tries = 0
                           /\ run[d].at = "due" => run[d].tries <= faults
                           /\ Running(d) => run[d].tries <= faults + 1
  /\ NeverLeftHalfWay

LEMMA TriesInvStep ==
  ASSUME AnnouncementAssumption, MaxFaults < Attempts, MailInv, TriesInv, [MailNext]_mailVars
  PROVE  TriesInv'
<1>1. /\ run \in [Deliveries -> Run] /\ item \in Announcement \cup {Unwritten}
      /\ faults \in Nat /\ MaxFaults \in Nat /\ Attempts \in Nat
  BY DEF MailInv, MailTypeOK, AnnouncementAssumption
<1>2. \A d \in Deliveries : run[d].tries \in Nat
  BY <1>1 DEF Run
<1>0. item \in Announcement =>
        /\ [item EXCEPT !.status = "sending"] \in Announcement
        /\ [item EXCEPT !.status = "failed", !.error = TRUE] \in Announcement
        /\ \A b \in BOOLEAN : LET i == [item EXCEPT !.status = "sent", !.error = b]
                              IN  i \in Announcement /\ i.status = "sent"
  BY DEF Announcement
<1>3. CASE UNCHANGED <<item, invoked, run, faults>>
  BY <1>3 DEF TriesInv, NeverLeftHalfWay, InHand, Running
<1>4. ASSUME NEW audience \in Audiences, create_announcement(audience)
      PROVE  TriesInv'
  BY <1>4 DEF create_announcement, TriesInv, NeverLeftHalfWay, InHand, Running, MailInv
\* The event is accepted, or handed out again: a first run is due.
<1>5. ASSUME NEW d \in Deliveries, run' = [run EXCEPT ![d].at = "due"], run[d].tries = 0,
             UNCHANGED <<item, faults>>, item \in Announcement
      PROVE  TriesInv'
  <2>1. run'[d].at = "due" /\ run'[d].tries = 0 /\ \A x \in Deliveries \ {d} : run'[x] = run[x]
    BY <1>1, <1>5 DEF Run
  <2>2. InHand'
    BY <2>1 DEF InHand
  <2> QED
    BY <1>1, <1>5, <2>1, <2>2 DEF TriesInv, NeverLeftHalfWay, Running
<1>6. ASSUME _invoke_announcement_lambda
      PROVE  TriesInv'
  <2>1. PICK d \in Deliveries : run' = [run EXCEPT ![d].at = "due"]
    BY <1>6, Zenon DEF _invoke_announcement_lambda
  <2>2. run[d].tries = 0 /\ UNCHANGED <<item, faults>> /\ item \in Announcement
    BY <1>1, <1>6 DEF _invoke_announcement_lambda, MailInv, Absent
  <2> QED
    BY <1>5, <2>1, <2>2
<1>7. ASSUME NEW d \in Deliveries, Redelivered(d)
      PROVE  TriesInv'
  <2>1. run[d].tries = 0
    BY <1>7 DEF Redelivered, TriesInv
  <2> QED
    BY <1>5, <1>7, <2>1 DEF Redelivered, TriesInv
\* A run that goes on is in hand; it has been tried no more often than before,
\* or it was due.
<1>8. ASSUME NEW d \in Deliveries, NEW r \in Run, run' = [run EXCEPT ![d] = r],
             r.at \in {"resolve", "send"}, r.tries <= faults + 1, faults' \in Nat,
             faults' >= faults, invoked' = invoked,
             invoked => item' \in Announcement
      PROVE  TriesInv'
  <2>1. run'[d] = r /\ \A x \in Deliveries \ {d} : run'[x] = run[x]
    BY <1>1, <1>8
  <2>2. InHand'
    BY <1>8, <2>1 DEF InHand, Running
  <2>3. \A x \in Deliveries : /\ run'[x].at = "absent" => run'[x].tries = 0
                              /\ run'[x].at = "due" => run'[x].tries <= faults'
                              /\ Running(x)' => run'[x].tries <= faults' + 1
    BY <1>1, <1>2, <1>8, <2>1 DEF TriesInv, Running, Run
  <2> QED
    BY <1>8, <2>2, <2>3 DEF TriesInv, NeverLeftHalfWay
<1>9. ASSUME NEW d \in Deliveries, Begin(d)
      PROVE  TriesInv'
  <2> DEFINE r == [Absent EXCEPT !.at = "resolve", !.tries = run[d].tries + 1]
  <2>1. run[d].at = "due" /\ run' = [run EXCEPT ![d] = r] /\ UNCHANGED <<invoked, faults>>
        /\ item' = [item EXCEPT !.status = "sending"]
    BY <1>9 DEF Begin
  <2>2. run[d].tries < Attempts /\ run[d].tries <= faults
    BY <2>1 DEF MailInv, TriesInv
  <2>3. r \in Run /\ r.at = "resolve" /\ r.tries = run[d].tries + 1
    <3>1. run[d].tries + 1 \in 0..Attempts
      BY <1>1, <1>2, <2>2
    <3>2. Absent \in Run
      BY <1>1 DEF Run, Absent
    <3> QED
      BY <3>1, <3>2 DEF Run
  <2>4. invoked => item' \in Announcement
    BY <1>0, <2>1 DEF TriesInv
  <2>5. r.tries <= faults + 1 /\ faults' \in Nat /\ faults' >= faults /\ invoked' = invoked
    BY <1>1, <1>2, <2>1, <2>2, <2>3
  <2> HIDE DEF r
  <2> QED
    BY <1>8, <2>1, <2>3, <2>4, <2>5
<1>10. ASSUME NEW d \in Deliveries, Resolve(d)
       PROVE  TriesInv'
  <2> DEFINE r == [run[d] EXCEPT !.at = "send", !.left = _resolve_recipients]
  <2>1. Running(d) /\ run' = [run EXCEPT ![d] = r] /\ UNCHANGED <<item, invoked, faults>>
    BY <1>10 DEF Resolve, Running
  <2>2. r.at = "send" /\ r.tries = run[d].tries
    BY <1>1 DEF Run
  <2>3. run'[d] = r
    BY <1>1, <2>1
  <2>4. r \in Run
    <3>1. [MailNext]_mailVars /\ MailInv'
      BY MailInvStep
    <3> QED
      BY <2>3, <3>1 DEF MailInv, MailTypeOK
  <2>5. r.tries <= faults + 1 /\ faults' \in Nat /\ faults' >= faults /\ invoked' = invoked
    BY <1>1, <2>1, <2>2 DEF TriesInv
  <2>6. invoked => item' \in Announcement
    BY <2>1 DEF TriesInv
  <2> HIDE DEF r
  <2> QED
    BY <1>8, <2>1, <2>2, <2>4, <2>5, <2>6
<1>11. ASSUME NEW d \in Deliveries, NEW x \in TicketOrders \cup Waiters, SendMail(d, x)
       PROVE  TriesInv'
  <2>1. PICK r \in Run : /\ run' = [run EXCEPT ![d] = r] /\ r.at = "send"
                         /\ r.tries = run[d].tries
    <3> DEFINE r1 == [run[d] EXCEPT !.left = @ \ {x}]
               r2 == [run[d] EXCEPT !.left = run[d].left \ {x},
                                    !.failed = Counted(run[d].failed)]
    <3>1. run[d] \in Run /\ run[d].at = "send"
      BY <1>1, <1>11 DEF SendMail
    <3>2. /\ r1 \in Run /\ r1.at = "send" /\ r1.tries = run[d].tries
          /\ r2 \in Run /\ r2.at = "send" /\ r2.tries = run[d].tries
      BY <3>1 DEF Run, Counted
    <3>3. run' = [run EXCEPT ![d] = r1] \/ run' = [run EXCEPT ![d] = r2]
      BY <1>11 DEF SendMail
    <3> HIDE DEF r1, r2
    <3> QED
      BY <3>2, <3>3
  <2>2. /\ Running(d) /\ UNCHANGED <<item, invoked>>
        /\ faults' \in Nat /\ faults' >= faults
    BY <1>1, <1>11 DEF SendMail, Running
  <2> QED
    BY <1>8, <2>1, <2>2 DEF TriesInv
\* The row says "sent".
<1>12. ASSUME NEW d \in Deliveries, Finish(d)
       PROVE  TriesInv'
  <2>1. /\ run' = [run EXCEPT ![d].at = "done"] /\ UNCHANGED <<invoked, faults>>
        /\ item' = [item EXCEPT !.status = "sent", !.error = run[d].failed]
    BY <1>12 DEF Finish
  <2>2. run'[d].at = "done" /\ \A x \in Deliveries \ {d} : run'[x] = run[x]
    BY <1>1, <2>1 DEF Run
  <2>3. run[d].failed \in BOOLEAN
    BY <1>1 DEF Run
  <2>4. invoked => item' \in Announcement /\ item'.status = "sent"
    BY <1>0, <2>1, <2>3 DEF TriesInv
  <2> QED
    BY <2>1, <2>2, <2>4 DEF TriesInv, NeverLeftHalfWay, Running
\* Fewer faults than attempts so far: Lambda runs it again.
<1>13. ASSUME NEW d \in Deliveries, RunRaises(d) \/ RunTimesOut(d)
       PROVE  TriesInv'
  <2>1. /\ Running(d) /\ faults < MaxFaults /\ faults' = faults + 1 /\ invoked' = invoked
        /\ run' = [run EXCEPT ![d].at = IF run[d].tries < Attempts THEN "due" ELSE "done"]
        /\ item' = item \/ item' = [item EXCEPT !.status = "failed", !.error = TRUE]
    BY <1>13 DEF RunRaises, RunTimesOut, Retried
  <2>2. run[d].tries <= faults + 1 /\ run[d].tries < Attempts
    BY <1>1, <1>2, <2>1 DEF TriesInv
  <2>3. /\ run'[d].at = "due" /\ run'[d].tries = run[d].tries
        /\ \A x \in Deliveries \ {d} : run'[x] = run[x]
    BY <1>1, <2>1, <2>2 DEF Run
  <2>4. invoked => item' \in Announcement
    BY <1>0, <2>1 DEF TriesInv
  <2>5. InHand'
    BY <2>3 DEF InHand
  <2>6. \A x \in Deliveries : /\ run'[x].at = "absent" => run'[x].tries = 0
                              /\ run'[x].at = "due" => run'[x].tries <= faults'
                              /\ Running(x)' => run'[x].tries <= faults' + 1
    BY <1>1, <1>2, <2>1, <2>2, <2>3 DEF TriesInv, Running
  <2> QED
    BY <2>1, <2>4, <2>5, <2>6 DEF TriesInv, NeverLeftHalfWay
<1>14. ASSUME UNCHANGED mailVars \/ (\E o \in TicketOrders : Sold(o) \/ Refunded(o))
                \/ (\E w \in Waiters : waitlist_signup(w))
       PROVE  TriesInv'
  BY <1>3, <1>14 DEF mailVars, Sold, Refunded, waitlist_signup
<1> QED
  BY <1>4, <1>6, <1>7, <1>9, <1>10, <1>11, <1>12, <1>13, <1>14 DEF MailNext, RunNext

\* An accepted announcement is reported sent, or Lambda still has a run of it to
\* do, for any number of deliveries and attempts, if fewer runs fail than Lambda
\* makes attempts.
THEOREM NeverLeftHalfWayAlways ==
  AnnouncementAssumption /\ MaxFaults < Attempts => (MailSpec => []NeverLeftHalfWay)
<1> SUFFICES ASSUME AnnouncementAssumption, MaxFaults < Attempts
             PROVE  MailSpec => []NeverLeftHalfWay
  OBVIOUS
<1>1. ASSUME MailInit
      PROVE  MailInv /\ TriesInv
  <2>1. ~invoked /\ \A d \in Deliveries : run[d].at = "absent" /\ run[d].tries = 0
    BY <1>1 DEF MailInit, Absent
  <2> QED
    BY <1>1, <2>1, MailInvInit DEF TriesInv, NeverLeftHalfWay, Running
<1>2. MailInv /\ TriesInv /\ [MailNext]_mailVars => (MailInv /\ TriesInv)'
  BY MailInvStep, TriesInvStep
<1>3. TriesInv => NeverLeftHalfWay
  BY DEF TriesInv
<1> QED
  BY <1>1, <1>2, <1>3, PTL DEF MailSpec

-----------------------------------------------------------------------------
(* Pricing *)

\* What compute_processing_fee returns: the organizer's net is the subtotal,
\* and a total two cents lower falls short of it.
LEMMA FeeOfSubtotal ==
  ASSUME NEW subtotal \in Nat
  PROVE  LET total == subtotal + compute_processing_fee(subtotal) IN
         /\ compute_processing_fee(subtotal) \in Nat
         /\ subtotal > 0 => Net(total) >= subtotal /\ Net(total - 2) < subtotal
<1>1. CASE subtotal = 0
  BY <1>1 DEF compute_processing_fee
<1>2. CASE subtotal > 0
  <2> DEFINE n == (subtotal + 30) * 1000
             total == Ceil(n, 971)
  <2>1. compute_processing_fee(subtotal) = total - subtotal
    BY <1>2 DEF compute_processing_fee
  <2>2. total \in Int /\ 971 * total >= n /\ 971 * total < n + 971
    BY DEF Ceil
  <2> HIDE DEF total
  <2>3. total > subtotal
    BY <2>2
  <2>4. \A t \in Int : LET cut == (t * 29 + 500) \div 1000 IN
          cut \in Int /\ 1000 * cut <= t * 29 + 500 /\ 1000 * cut > t * 29 - 500
    OBVIOUS
  <2>5. Net(total) >= subtotal
    <3> DEFINE cut == (total * 29 + 500) \div 1000
    <3>1. cut \in Int /\ 1000 * cut <= total * 29 + 500
      BY <2>2, <2>4
    <3> HIDE DEF cut
    <3>2. Net(total) = total - (cut + 30)
      BY DEF Net, StripeCut, cut
    <3>3. 1000 * (total - 30 - cut - subtotal) >= -500
      BY <2>2, <3>1
    <3> QED
      BY <2>2, <3>1, <3>2, <3>3
  <2>6. Net(total - 2) < subtotal
    <3> DEFINE cut == ((total - 2) * 29 + 500) \div 1000
    <3>1. cut \in Int /\ 1000 * cut > (total - 2) * 29 - 500
      BY <2>2, <2>4
    <3> HIDE DEF cut
    <3>2. Net(total - 2) = (total - 2) - (cut + 30)
      BY DEF Net, StripeCut, cut
    <3> QED
      BY <2>2, <3>1, <3>2
  <2>7. subtotal + compute_processing_fee(subtotal) = total
    BY <2>1, <2>2
  <2> QED
    BY <2>1, <2>2, <2>3, <2>5, <2>6, <2>7
<1> QED
  BY <1>1, <1>2

\* What the page says is what the offer says on the day it was read.
PageCurrent(b) ==
  page[b] # NoneYet /\ ~page[b].edited =>
    \E seen \in Days :
      /\ seen <= day
      /\ page[b].unit = current_ticket_price_cents(offer, seen)
      /\ page[b].notice = IF price_increase_is_upcoming(offer, seen) THEN offer.increase
                          ELSE NoneYet
PricingInv == PricingTypeOK /\ (\A b \in Buyers : PageCurrent(b)) /\ FeeIsExact

LEMMA CentsAreNat ==
  ASSUME PricingAssumption
  PROVE  /\ Cents \subseteq Nat
         /\ \A m \in Typed : Accepted(m) => parse_dollars_to_cents(m) \in Cents
BY DEF PricingAssumption, Cents, parse_dollars_to_cents, Accepted

LEMMA PriceIsCents ==
  ASSUME NEW event \in Offer, NEW today \in Days
  PROVE  current_ticket_price_cents(event, today) \in Cents
BY DEF Offer, Increases, current_ticket_price_cents

LEMMA PricingInvStep ==
  ASSUME PricingAssumption, PricingInv, [PricingNext]_pricingVars
  PROVE  PricingInv'
<1> USE DEF PricingInv
<1>1. CASE UNCHANGED pricingVars
  BY <1>1 DEF pricingVars, PricingTypeOK, PageCurrent, FeeIsExact
<1>2. ASSUME NEW new \in Offer, UpdateOffer(new)
      PROVE  PricingInv'
  <2>1. \A b \in Buyers : page[b] \in Page => [page[b] EXCEPT !.edited = TRUE] \in Page
    BY DEF Page
  <2>2. PricingTypeOK'
    BY <1>2, <2>1 DEF UpdateOffer, PricingTypeOK, PricingAssumption
  <2>3. \A b \in Buyers : PageCurrent(b)'
    <3> SUFFICES ASSUME NEW b \in Buyers, page'[b] # NoneYet
                 PROVE  page'[b].edited
      BY DEF PageCurrent
    <3>1. page[b] \in Page /\ page'[b] = [page[b] EXCEPT !.edited = TRUE]
      BY <1>2 DEF UpdateOffer, PricingTypeOK
    <3> QED
      BY <3>1 DEF Page
  <2> QED
    BY <1>2, <2>2, <2>3 DEF UpdateOffer, FeeIsExact
<1>3. ASSUME NEW m \in Typed, SetPrice(m)
      PROVE  PricingInv'
  <2>1. [price |-> parse_dollars_to_cents(m), increase |-> NoneYet] \in Offer
    BY <1>3, CentsAreNat DEF SetPrice, Offer
  <2> QED
    BY <1>2, <1>3, <2>1 DEF SetPrice
<1>4. ASSUME NEW m \in Typed, NEW n \in Typed, NEW date \in Days, SetPriceAndIncrease(m, date, n)
      PROVE  PricingInv'
  <2>1. [date |-> date, cents |-> parse_dollars_to_cents(n)] \in Increases
    BY <1>4, CentsAreNat DEF SetPriceAndIncrease, Increases
  <2>2. [price |-> parse_dollars_to_cents(m),
         increase |-> [date |-> date, cents |-> parse_dollars_to_cents(n)]] \in Offer
    BY <1>4, <2>1, CentsAreNat DEF SetPriceAndIncrease, Offer
  <2> QED
    BY <1>2, <1>4, <2>2 DEF SetPriceAndIncrease
<1>5. ASSUME NEW b \in Buyers, register_page(b)
      PROVE  PricingInv'
  <2> DEFINE shown == [unit |-> current_ticket_price_cents(offer, day),
         notice |-> IF price_increase_is_upcoming(offer, day) THEN offer.increase ELSE NoneYet,
         edited |-> FALSE]
  <2>1. offer \in Offer /\ day \in Days /\ day \in Nat
    BY DEF PricingTypeOK, Days
  <2>2. shown \in Page
    <3>1. current_ticket_price_cents(offer, day) \in Cents
      BY <2>1, PriceIsCents
    <3>2. offer.increase \in Increases \cup {NoneYet}
      BY <2>1 DEF Offer
    <3> QED
      BY <3>1, <3>2 DEF Page
  <2>3. page' = [page EXCEPT ![b] = shown] /\ UNCHANGED <<day, offer, sale, offers>>
    BY <1>5 DEF register_page
  <2>4. PricingTypeOK'
    BY <2>2, <2>3 DEF PricingTypeOK
  <2>5. PageCurrent(b)'
    BY <2>1, <2>3 DEF PageCurrent, PricingTypeOK, current_ticket_price_cents,
                      price_increase_is_upcoming
  <2>6. \A c \in Buyers \ {b} : PageCurrent(c)'
    BY <2>3 DEF PageCurrent, PricingTypeOK, current_ticket_price_cents,
                price_increase_is_upcoming
  <2> QED
    BY <2>3, <2>4, <2>5, <2>6 DEF FeeIsExact
<1>6. ASSUME NEW b \in Buyers, NEW quantity \in Quantities, NEW donation \in Donations,
             Charge(b, quantity, donation)
      PROVE  PricingInv'
  <2> DEFINE unit == current_ticket_price_cents(offer, day)
             subtotal == unit * quantity + donation * 100
             charge == [unit |-> unit, subtotal |-> subtotal,
                        fee |-> compute_processing_fee(subtotal)]
  <2>1. unit \in Cents /\ unit \in Nat
    BY PriceIsCents, CentsAreNat DEF PricingTypeOK
  <2>2. subtotal \in Nat
    <3>1. quantity \in Nat /\ donation \in Nat
      BY DEF PricingAssumption
    <3> HIDE DEF unit
    <3> QED
      BY <2>1, <3>1
  <2>3. sale' = [sale EXCEPT ![b] = charge] /\ UNCHANGED <<day, offer, page, offers>>
    BY <1>6 DEF Charge, Charged
  <2> HIDE DEF subtotal, unit
  <2>4. charge \in Sale
    BY <2>1, <2>2, FeeOfSubtotal DEF Sale
  <2>5. charge.subtotal > 0 =>
          LET total == charge.subtotal + charge.fee IN
          Net(total) >= charge.subtotal /\ Net(total - 2) < charge.subtotal
    BY <2>2, FeeOfSubtotal
  <2> HIDE DEF charge
  <2>6. PricingTypeOK'
    BY <2>3, <2>4 DEF PricingTypeOK
  <2>7. \A c \in Buyers : sale'[c] = charge \/ sale'[c] = sale[c]
    BY <2>3 DEF PricingTypeOK
  <2>8. FeeIsExact'
    BY <2>5, <2>7 DEF FeeIsExact
  <2> QED
    BY <2>3, <2>6, <2>8 DEF PageCurrent, current_ticket_price_cents, price_increase_is_upcoming
<1>7. CASE NextDay
  <2>1. PricingTypeOK'
    BY <1>7 DEF NextDay, PricingTypeOK, Days, PricingAssumption
  <2>2. \A b \in Buyers : PageCurrent(b)'
    BY <1>7 DEF NextDay, PageCurrent, PricingTypeOK, Days, current_ticket_price_cents,
                price_increase_is_upcoming
  <2> QED
    BY <1>7, <2>1, <2>2 DEF NextDay, FeeIsExact
<1> QED
  BY <1>1, <1>3, <1>4, <1>5, <1>6, <1>7 DEF PricingNext

\* No page is open, and nothing is sold.
LEMMA PricingInvInit ==
  ASSUME PricingAssumption, PricingInit
  PROVE  PricingInv
<1>1. PricingTypeOK
  BY DEF PricingInit, PricingTypeOK, Days, Offer, PricingAssumption
<1> QED
  BY <1>1 DEF PricingInit, PricingInv, PageCurrent, FeeIsExact

\* Offers, pages and charges keep their types, and an unedited page stays true to
\* the offer.
THEOREM PricingTypes == PricingAssumption => (PricingSpec => []PricingInv)
<1> SUFFICES ASSUME PricingAssumption
             PROVE  PricingSpec => []PricingInv
  OBVIOUS
<1>1. PricingInit => PricingInv
  BY PricingInvInit
<1>2. PricingInv /\ [PricingNext]_pricingVars => PricingInv'
  BY PricingInvStep
<1> QED
  BY <1>1, <1>2, PTL DEF PricingSpec

\* Every charge nets the organizer the full subtotal, for every price, donation
\* and quantity, and costs the buyer at most a cent more than that takes.
THEOREM FeeAlwaysExact == PricingAssumption => (PricingSpec => []FeeIsExact)
<1>1. PricingInv => FeeIsExact
  BY DEF PricingInv
<1> QED
  BY <1>1, PricingTypes, PTL

\* Nobody is charged a price the page neither showed nor announced, unless the
\* offer was edited under it.
THEOREM AlwaysChargedAsShown == PricingAssumption => (PricingSpec => ChargedAsShown)
<1> SUFFICES ASSUME PricingAssumption
             PROVE  PricingSpec => ChargedAsShown
  OBVIOUS
<1> DEFINE Honest(b) ==
      \/ sale'[b].unit = page[b].unit
      \/ /\ page[b].notice # NoneYet
         /\ sale'[b].unit = page[b].notice.cents
         /\ day >= page[b].notice.date
<1>1. ASSUME PricingInv, PricingNext, NEW b \in Buyers,
             sale[b] = NoneYet, sale'[b] # NoneYet, ~page[b].edited
      PROVE  Honest(b)
  <2>1. PICK quantity \in Quantities, donation \in Donations : Charge(b, quantity, donation)
    <3>1. ASSUME NEW c \in Buyers, NEW quantity \in Quantities, NEW donation \in Donations,
                 Charge(c, quantity, donation)
          PROVE  c = b
      BY <1>1, <3>1 DEF Charge, PricingInv, PricingTypeOK
    <3>2. \E c \in Buyers, quantity \in Quantities, donation \in Donations :
            Charge(c, quantity, donation)
      BY <1>1 DEF PricingNext, SetPrice, SetPriceAndIncrease, UpdateOffer, register_page, NextDay
    <3> QED
      BY <3>1, <3>2
  <2>2. sale'[b].unit = current_ticket_price_cents(offer, day) /\ page[b] # NoneYet
    BY <1>1, <2>1 DEF Charge, Charged, PricingInv, PricingTypeOK
  <2>3. PICK seen \in Days :
          /\ seen <= day
          /\ page[b].unit = current_ticket_price_cents(offer, seen)
          /\ page[b].notice = IF price_increase_is_upcoming(offer, seen) THEN offer.increase
                              ELSE NoneYet
    BY <1>1, <2>2 DEF PricingInv, PageCurrent
  <2>4. day \in Nat /\ seen \in Nat /\ offer \in Offer
    BY <1>1 DEF PricingInv, PricingTypeOK, Days
  <2>5. CASE offer.increase = NoneYet
    BY <2>2, <2>3, <2>5 DEF current_ticket_price_cents
  <2>6. CASE offer.increase # NoneYet
    <3>1. offer.increase.date \in Nat
      BY <2>4, <2>6 DEF Offer, Increases, Days
    <3>2. CASE day < offer.increase.date \/ seen >= offer.increase.date
      BY <2>2, <2>3, <2>4, <3>1, <3>2 DEF current_ticket_price_cents
    <3>3. CASE day >= offer.increase.date /\ seen < offer.increase.date
      BY <2>2, <2>3, <2>6, <3>1, <3>3 DEF current_ticket_price_cents, price_increase_is_upcoming
    <3> QED
      BY <2>4, <3>1, <3>2, <3>3
  <2> QED
    BY <2>5, <2>6
<1>2. PricingInv /\ [PricingNext]_pricingVars =>
        [\A b \in Buyers :
           sale[b] = NoneYet /\ sale'[b] # NoneYet /\ ~page[b].edited => Honest(b)]_pricingVars
  BY <1>1
<1> QED
  BY <1>2, PricingTypes, PTL DEF PricingSpec, ChargedAsShown

-----------------------------------------------------------------------------
(* EditorialLists *)

\* What a request holds.
Desk == [at : {"idle", "create", "deleted", "renumber"}, ids : Seq(Entries), next : Nat,
         entry : Nat, position : Nat, was : Row \cup {Gone}, alone : BOOLEAN]

\* Every entry a request is about to write is one of the table's.
ListInv ==
  /\ row \in [Entries -> Row \cup {Gone}]
  /\ created \in 0..MaxEntries
  /\ desk \in [Editors -> Desk]
  /\ \A p \in Editors :
       /\ desk[p].at \in {"create", "deleted"} => desk[p].entry \in Entries
       /\ desk[p].at = "renumber" => desk[p].next \in 1..Len(desk[p].ids)

LEMMA EntriesAreFinite ==
  ASSUME ListAssumption, NEW S \in SUBSET Entries
  PROVE  IsFiniteSet(S)
<1>1. IsFiniteSet(Entries)
  BY FS_Interval DEF Entries, ListAssumption
<1> QED
  BY <1>1, FS_Subset

LEMMA PresentIsFinite ==
  ASSUME ListAssumption, NEW r
  PROVE  IsFiniteSet(Present(r)) /\ Cardinality(Present(r)) \in Nat
<1>1. Present(r) \subseteq Entries
  BY DEF Present
<1> QED
  BY <1>1, EntriesAreFinite, FS_CardinalityType

\* The list a request reads names only entries that are there.
LEMMA SortedIsPresent ==
  ASSUME ListAssumption, NEW r, NEW ids \in Sorted(r)
  PROVE  ids \in Seq(Entries) /\ \A k \in DOMAIN ids : ids[k] \in Present(r)
<1>1. ids \in [1..Cardinality(Present(r)) -> Present(r)]
  BY DEF Sorted, SetToSeqs
<1>2. Cardinality(Present(r)) \in Nat
  BY PresentIsFinite
<1>3. ids \in Seq(Present(r)) /\ DOMAIN ids = 1..Cardinality(Present(r))
  BY <1>1, <1>2
<1>4. Present(r) \subseteq Entries
  BY DEF Present
<1> QED
  BY <1>1, <1>3, <1>4

\* What a write does to the desks of the others.
LEMMA WritesOnly ==
  ASSUME desk \in [Editors -> Desk], NEW p \in Editors, NEW state \in Desk,
         desk' = Writes(p, state) \/ desk' = Holds(p, state)
  PROVE  /\ desk' \in [Editors -> Desk]
         /\ desk'[p] = state
         /\ \A q \in Editors \ {p} :
              /\ desk'[q].at = desk[q].at /\ desk'[q].ids = desk[q].ids
              /\ desk'[q].next = desk[q].next /\ desk'[q].entry = desk[q].entry
              /\ desk'[q].position = desk[q].position
<1>1. \A q \in Editors : [desk[q] EXCEPT !.alone = FALSE] \in Desk
  BY DEF Desk
<1>2. /\ DOMAIN desk' = Editors /\ desk' = [q \in Editors |-> desk'[q]]
      /\ desk'[p] = state
      /\ \A q \in Editors \ {p} : desk'[q] = desk[q] \/ desk'[q] = [desk[q] EXCEPT !.alone = FALSE]
  <2>1. CASE desk' = Writes(p, state)
    BY <2>1 DEF Writes
  <2>2. CASE desk' = Holds(p, state)
    BY <2>2 DEF Holds
  <2> QED
    BY <2>1, <2>2
<1>3. \A q \in Editors : desk'[q] \in Desk
  BY <1>1, <1>2
<1>4. \A q \in Editors \ {p} :
        /\ desk'[q].at = desk[q].at /\ desk'[q].ids = desk[q].ids
        /\ desk'[q].next = desk[q].next /\ desk'[q].entry = desk[q].entry
        /\ desk'[q].position = desk[q].position
  <2>1. ASSUME NEW d \in Desk
        PROVE  LET e == [d EXCEPT !.alone = FALSE] IN
               /\ e.at = d.at /\ e.ids = d.ids /\ e.next = d.next /\ e.entry = d.entry
               /\ e.position = d.position
    BY DEF Desk
  <2> SUFFICES ASSUME NEW q \in Editors \ {p}
               PROVE  /\ desk'[q].at = desk[q].at /\ desk'[q].ids = desk[q].ids
                      /\ desk'[q].next = desk[q].next /\ desk'[q].entry = desk[q].entry
                      /\ desk'[q].position = desk[q].position
    OBVIOUS
  <2>2. CASE desk'[q] = desk[q]
    BY <2>2
  <2>3. CASE desk'[q] = [desk[q] EXCEPT !.alone = FALSE]
    <3>1. desk[q] \in Desk
      OBVIOUS
    <3> QED
      BY <2>1, <2>3, <3>1
  <2> QED
    BY <1>2, <2>2, <2>3
<1> QED
  BY <1>2, <1>3, <1>4

LEMMA IdleDesk ==
  AtDesk \in Desk /\ AtDesk.at = "idle"
BY DEF AtDesk, Desk, Gone

LEMMA DeskWith ==
  /\ \A d \in Desk, n \in Nat : [d EXCEPT !.next = n] \in Desk
  /\ \A n \in Nat, i \in Nat :
       /\ [AtDesk EXCEPT !.at = "create", !.entry = n, !.position = i] \in Desk
  /\ \A n \in Nat, r \in Row \cup {Gone} :
       [AtDesk EXCEPT !.at = "deleted", !.entry = n, !.was = r] \in Desk
<1>1. ASSUME NEW d \in Desk, NEW n \in Nat
      PROVE  [d EXCEPT !.next = n] \in Desk
  BY DEF Desk
<1>2. ASSUME NEW d \in Desk, NEW n \in Nat, NEW i \in Nat
      PROVE  [d EXCEPT !.at = "create", !.entry = n, !.position = i] \in Desk
  BY DEF Desk
<1>3. ASSUME NEW d \in Desk, NEW n \in Nat, NEW r \in Row \cup {Gone}
      PROVE  [d EXCEPT !.at = "deleted", !.entry = n, !.was = r] \in Desk
  BY DEF Desk
<1> QED
  BY <1>1, <1>2, <1>3, IdleDesk

\* What an update makes of a row, there or gone.
LEMMA RowWith ==
  ASSUME NEW r \in Row \cup {Gone}, NEW n \in Nat
  PROVE  /\ [r EXCEPT !.text = TRUE, !.at = "table"] \in Row
         /\ [r EXCEPT !.sort_order = n, !.at = "table"] \in Row
<1>1. CASE r = Gone
  BY <1>1 DEF Row, Gone
<1>2. CASE r \in Row
  BY <1>2 DEF Row
<1> QED
  BY <1>1, <1>2

\* Starting to renumber entries that are there.
LEMMA RenumbersType ==
  ASSUME NEW ids \in Seq(Entries)
  PROVE  LET d == Renumbers(ids) IN
         /\ d \in Desk /\ d.at \in {"idle", "renumber"} /\ d.ids = ids
         /\ d.at = "renumber" => d.next \in 1..Len(d.ids)
<1>1. ids = <<>> \/ Len(ids) >= 1
  OBVIOUS
<1>2. Renumbers(ids) \in Desk
  BY DEF Renumbers, AtDesk, Desk, Gone
<1>3. Renumbers(ids).next = 1
  BY DEF Renumbers, AtDesk
<1>4. Renumbers(ids).ids = ids
  BY DEF Renumbers, AtDesk
<1>5. Renumbers(ids).at = IF ids = <<>> THEN "idle" ELSE "renumber"
  BY DEF Renumbers, AtDesk
<1> QED
  BY <1>1, <1>2, <1>3, <1>4, <1>5

\* What a step must do to the table and to its own desk.
LEMMA ListInvKept ==
  ASSUME ListInv, NEW p \in Editors, NEW state \in Desk,
         desk' = Writes(p, state) \/ desk' = Holds(p, state),
         row' \in [Entries -> Row \cup {Gone}], created' \in 0..MaxEntries,
         state.at \in {"create", "deleted"} => state.entry \in Entries,
         state.at = "renumber" => state.next \in 1..Len(state.ids)
  PROVE  ListInv'
<1>1. desk \in [Editors -> Desk]
  BY DEF ListInv
<1>2. /\ desk' \in [Editors -> Desk] /\ desk'[p] = state
      /\ \A q \in Editors \ {p} :
           /\ desk'[q].at = desk[q].at /\ desk'[q].ids = desk[q].ids
           /\ desk'[q].next = desk[q].next /\ desk'[q].entry = desk[q].entry
  BY <1>1, WritesOnly
<1>3. \A q \in Editors : /\ desk'[q].at \in {"create", "deleted"} => desk'[q].entry \in Entries
                         /\ desk'[q].at = "renumber" => desk'[q].next \in 1..Len(desk'[q].ids)
  BY <1>2 DEF ListInv
<1> QED
  BY <1>2, <1>3 DEF ListInv

\* Rows, requests and positions keep their types.
LEMMA ListInvStep ==
  ASSUME ListAssumption, ListInv, [ListNext]_listVars
  PROVE  ListInv'
<1>0. /\ desk \in [Editors -> Desk] /\ row \in [Entries -> Row \cup {Gone}]
      /\ created \in 0..MaxEntries
  BY DEF ListInv
<1>1. CASE UNCHANGED listVars
  BY <1>1 DEF listVars, ListInv
<1>2. ASSUME NEW p \in Editors, CreateCounts(p)
      PROVE  ListInv'
  <2> DEFINE state == [AtDesk EXCEPT !.at = "create", !.entry = created + 1,
                                     !.position = Cardinality(Present(row))]
  <2>1. created + 1 \in Entries /\ Cardinality(Present(row)) \in Nat
    BY <1>0, <1>2, PresentIsFinite DEF CreateCounts, Entries, ListAssumption
  <2>2. state \in Desk
    <3>1. created + 1 \in Nat
      BY <2>1 DEF Entries, ListAssumption
    <3> QED
      BY <2>1, <3>1, DeskWith
  <2>3. state.at = "create" /\ state.entry = created + 1
    BY DEF AtDesk
  <2> HIDE DEF state
  <2>4. desk' = Holds(p, state) /\ created' = created + 1 /\ row' = row
    BY <1>2 DEF CreateCounts, state
  <2>5. created' \in 0..MaxEntries
    BY <1>0, <1>2, <2>4 DEF CreateCounts, ListAssumption
  <2> QED
    BY <1>0, <2>1, <2>2, <2>3, <2>4, <2>5, ListInvKept
<1>3. ASSUME NEW p \in Editors, CreatePuts(p)
      PROVE  ListInv'
  <2> DEFINE new == [text |-> TRUE, sort_order |-> desk[p].position, at |-> "table"]
  <2>1. desk[p].entry \in Entries /\ new \in Row
    BY <1>0, <1>3 DEF CreatePuts, ListInv, Desk, Row
  <2>2. row' = [row EXCEPT ![desk[p].entry] = new] /\ desk' = Writes(p, AtDesk) /\ UNCHANGED created
    BY <1>3 DEF CreatePuts
  <2> HIDE DEF new
  <2>3. row' \in [Entries -> Row \cup {Gone}]
    BY <1>0, <2>1, <2>2
  <2> QED
    BY <1>0, <2>2, <2>3, IdleDesk, ListInvKept
<1>4. ASSUME NEW p \in Editors, NEW e \in Entries, Updates(p, e)
      PROVE  ListInv'
  <2> DEFINE new == [row[e] EXCEPT !.text = TRUE, !.at = "table"]
  <2>1. new \in Row
    BY <1>0, RowWith
  <2>2. row' = [row EXCEPT ![e] = new] /\ desk' = Writes(p, AtDesk) /\ UNCHANGED created
    BY <1>4 DEF Updates
  <2> HIDE DEF new
  <2>3. row' \in [Entries -> Row \cup {Gone}]
    BY <1>0, <2>1, <2>2
  <2> QED
    BY <1>0, <2>2, <2>3, IdleDesk, ListInvKept
\* A request that starts to renumber.
<1>5. ASSUME NEW p \in Editors, NEW ids \in Seq(Entries),
             desk' = Holds(p, Renumbers(ids)), UNCHANGED <<row, created>>
      PROVE  ListInv'
  <2> DEFINE state == Renumbers(ids)
  <2>1. /\ state \in Desk /\ state.at \in {"idle", "renumber"}
        /\ state.at = "renumber" => state.next \in 1..Len(state.ids)
    BY RenumbersType
  <2>2. desk' = Holds(p, state)
    BY <1>5
  <2> HIDE DEF state
  <2> QED
    BY <1>0, <1>5, <2>1, <2>2, ListInvKept
<1>6. ASSUME NEW p \in Editors, NEW e \in Entries, Move(p, e)
      PROVE  ListInv'
  <2>1. PICK ids \in Sorted(row) : \E i, j \in DOMAIN ids : desk' = Holds(p, Renumbers(Swapped(ids, i, j)))
    BY <1>6 DEF Move
  <2>2. PICK i \in DOMAIN ids, j \in DOMAIN ids : desk' = Holds(p, Renumbers(Swapped(ids, i, j)))
    BY <2>1
  <2>3. ids \in Seq(Entries)
    BY <2>1, SortedIsPresent
  <2>4. Swapped(ids, i, j) \in Seq(Entries)
    BY <2>2, <2>3 DEF Swapped
  <2>5. UNCHANGED <<row, created>>
    BY <1>6 DEF Move
  <2> QED
    BY <1>5, <2>2, <2>4, <2>5
<1>7. ASSUME NEW p \in Editors, NEW e \in Entries, Delete(p, e)
      PROVE  ListInv'
  <2> DEFINE state == [AtDesk EXCEPT !.at = "deleted", !.entry = e, !.was = row[e]]
  <2>1. state \in Desk /\ state.at = "deleted" /\ state.entry = e
    <3>1. e \in Nat /\ row[e] \in Row \cup {Gone}
      BY <1>0 DEF Entries, ListAssumption
    <3>2. state.at = "deleted" /\ state.entry = e
      BY DEF AtDesk
    <3> QED
      BY <3>1, <3>2, DeskWith
  <2> HIDE DEF state
  <2>2. row' = [row EXCEPT ![e] = Gone] /\ desk' = Writes(p, state) /\ UNCHANGED created
    BY <1>7 DEF Delete, state
  <2>3. row' \in [Entries -> Row \cup {Gone}]
    BY <1>0, <2>2
  <2> QED
    BY <1>0, <2>1, <2>2, <2>3, ListInvKept
<1>8. ASSUME NEW p \in Editors, DeleteReads(p)
      PROVE  ListInv'
  <2>1. PICK seen \in Scans(p) : \E ids \in Sorted(seen) : desk' = Holds(p, Renumbers(ids))
    BY <1>8 DEF DeleteReads
  <2>2. PICK ids \in Sorted(seen) : desk' = Holds(p, Renumbers(ids))
    BY <2>1
  <2>3. ids \in Seq(Entries)
    BY <2>2, SortedIsPresent
  <2>4. UNCHANGED <<row, created>>
    BY <1>8 DEF DeleteReads
  <2> QED
    BY <1>5, <2>2, <2>3, <2>4
<1>9. ASSUME NEW p \in Editors, WritePosition(p)
      PROVE  ListInv'
  <2> DEFINE k == desk[p].next
             e == desk[p].ids[k]
             new == [row[e] EXCEPT !.sort_order = k - 1, !.at = "table"]
             state == IF k = Len(desk[p].ids) THEN AtDesk ELSE [desk[p] EXCEPT !.next = k + 1]
  <2>1. desk[p] \in Desk /\ k \in 1..Len(desk[p].ids) /\ desk[p].at = "renumber"
    BY <1>0, <1>9 DEF WritePosition, ListInv
  <2>2. desk[p].ids \in Seq(Entries) /\ k \in DOMAIN desk[p].ids /\ e \in Entries /\ k - 1 \in Nat
    BY <2>1 DEF Desk
  <2>3. new \in Row
    BY <1>0, <2>2, RowWith
  <2>4. row' = [row EXCEPT ![e] = new] /\ desk' = Writes(p, state) /\ UNCHANGED created
    BY <1>9 DEF WritePosition
  <2>5. state \in Desk
    <3>1. k + 1 \in Nat
      BY <2>1, <2>2
    <3> QED
      BY <2>1, <3>1, IdleDesk, DeskWith
  <2>6. state.at \notin {"create", "deleted"} /\ (state.at = "renumber" =>
          state.next \in 1..Len(state.ids) /\ state.ids = desk[p].ids)
    <3>1. CASE k = Len(desk[p].ids)
      BY <3>1, IdleDesk
    <3>2. CASE k # Len(desk[p].ids)
      <4> HIDE DEF k, e, new
      <4>0. \A d \in Desk : \A m :
              LET c == [d EXCEPT !.next = m]
              IN  c.at = d.at /\ c.next = m /\ c.ids = d.ids
        BY DEF Desk
      <4>1. state.at = "renumber" /\ state.next = k + 1 /\ state.ids = desk[p].ids
        BY <2>1, <3>2, <4>0
      <4> QED
        BY <2>1, <2>2, <3>2, <4>1
    <3> QED
      BY <3>1, <3>2
  <2> HIDE DEF new, state, e, k
  <2>7. row' \in [Entries -> Row \cup {Gone}]
    BY <1>0, <2>2, <2>3, <2>4
  <2> QED
    BY <1>0, <2>4, <2>5, <2>6, <2>7, ListInvKept
<1>10. ASSUME NEW p \in Editors, EditLost(p)
       PROVE  ListInv'
  <2>1. desk' = Holds(p, AtDesk) /\ UNCHANGED <<row, created>>
    BY <1>10 DEF EditLost
  <2> QED
    BY <1>0, <2>1, IdleDesk, ListInvKept
<1> QED
  BY <1>1, <1>2, <1>3, <1>4, <1>6, <1>7, <1>8, <1>9, <1>10
     DEF ListNext, EditorNext, create_faq, create_krewe_link, update_faq, update_krewe_link,
         move_faq, move_krewe_link, delete_faq, delete_krewe_link

\* Nobody is at a desk.
LEMMA ListInvInit ==
  ASSUME ListAssumption, ListInit
  PROVE  ListInv
<1>1. desk \in [Editors -> Desk] /\ \A p \in Editors : desk[p].at = "idle"
  BY IdleDesk DEF ListInit
<1> QED
  BY <1>1 DEF ListInit, ListInv, ListAssumption

\* The one way to count up from 1 to n in n steps.
LEMMA OneWayUp ==
  ASSUME NEW n \in Nat, NEW f \in [1..n -> 1..n],
         \A i, j \in 1..n : i < j => f[i] < f[j]
  PROVE  \A i \in 1..n : f[i] = i
<1> SUFFICES ASSUME NEW i \in 1..n
             PROVE  f[i] = i
  OBVIOUS
<1>1. f[i] \in 1..n
  OBVIOUS
<1>2. i <= f[i]
  <2> DEFINE g == [k \in 1..i |-> f[k]]
  <2>1. \A k \in 1..i : k \in 1..n /\ f[k] \in 1..n /\ (k # i => k < i)
    OBVIOUS
  <2>2. \A k \in 1..i : f[k] \in 1..f[i]
    <3> HIDE DEF g
    <3> TAKE k \in 1..i
    <3>1. f[k] \in 1..n /\ (k = i \/ f[k] < f[i])
      BY <2>1
    <3> QED
      BY <1>1, <3>1
  <2>3. \A j, k \in 1..i : f[j] = f[k] => j = k
    BY <2>1
  <2>4. g \in Injection(1..i, 1..f[i])
    BY <2>2, <2>3 DEF Injection, IsInjective
  <2> HIDE DEF g
  <2>5. IsFiniteSet(1..f[i]) /\ Cardinality(1..f[i]) = f[i] /\ Cardinality(1..i) = i
    BY <1>1, FS_Interval
  <2>6. Cardinality(1..i) <= Cardinality(1..f[i])
    BY <2>4, <2>5, FS_Injection
  <2> QED
    BY <2>5, <2>6
<1>3. f[i] <= i
  <2> DEFINE g == [k \in i..n |-> f[k]]
  <2>1. \A k \in i..n : k \in 1..n /\ f[k] \in 1..n /\ (k # i => i < k)
    OBVIOUS
  <2>2. \A k \in i..n : f[k] \in f[i]..n
    <3> HIDE DEF g
    <3> TAKE k \in i..n
    <3>1. f[k] \in 1..n /\ (k = i \/ f[i] < f[k])
      BY <2>1
    <3> QED
      BY <1>1, <3>1
  <2>3. \A j, k \in i..n : f[j] = f[k] => j = k
    BY <2>1
  <2>4. g \in Injection(i..n, f[i]..n)
    BY <2>2, <2>3 DEF Injection, IsInjective
  <2> HIDE DEF g
  <2>5. /\ IsFiniteSet(f[i]..n) /\ Cardinality(f[i]..n) = n - f[i] + 1
        /\ Cardinality(i..n) = n - i + 1
    BY <1>1, FS_Interval
  <2>6. Cardinality(i..n) <= Cardinality(f[i]..n)
    BY <2>4, <2>5, FS_Injection
  <2> QED
    BY <1>1, <2>5, <2>6
<1> QED
  BY <1>1, <1>2, <1>3

\* A list of a set has every element of it, once.
LEMMA Listing ==
  ASSUME NEW S, IsFiniteSet(S), NEW ids \in SetToSeqs(S)
  PROVE  /\ Cardinality(S) \in Nat /\ ids \in [1..Cardinality(S) -> S]
         /\ ids \in Seq(S) /\ Len(ids) = Cardinality(S)
         /\ \A i, j \in 1..Cardinality(S) : ids[i] = ids[j] => i = j
         /\ \A e \in S : \E k \in 1..Cardinality(S) : ids[k] = e
<1> DEFINE n == Cardinality(S)
<1>1. n \in Nat
  BY FS_CardinalityType
<1>2. ids \in [1..n -> S] /\ \A i, j \in 1..n : ids[i] = ids[j] => i = j
  BY DEF SetToSeqs
<1>3. ids \in Injection(1..n, S)
  BY <1>2 DEF Injection, IsInjective
<1>4. Cardinality(1..n) = n
  BY <1>1, FS_Interval
<1>5. ids \in Surjection(1..n, S)
  BY <1>3, <1>4, FS_Injection
<1>6. \A e \in S : \E k \in 1..n : ids[k] = e
  BY <1>5 DEF Surjection
<1>7. ids \in Seq(S) /\ Len(ids) = n
  <2> HIDE DEF n
  <2> QED
    BY <1>1, <1>2
<1> QED
  BY <1>1, <1>2, <1>6, <1>7

\* A list with two elements swapped is a list of the same set.
LEMMA SwappedListing ==
  ASSUME NEW S, NEW ids \in SetToSeqs(S), NEW i \in DOMAIN ids, NEW j \in DOMAIN ids
  PROVE  Swapped(ids, i, j) \in SetToSeqs(S)
<1> DEFINE n == Cardinality(S)
           t == Swapped(ids, i, j)
<1>1. ids \in [1..n -> S] /\ \A a, b \in 1..n : a # b => ids[a] # ids[b]
  BY DEF SetToSeqs
<1>2. i \in 1..n /\ j \in 1..n
  BY <1>1
<1> HIDE DEF n
<1>3. /\ t \in [1..n -> S]
      /\ t[j] = ids[i] /\ (i # j => t[i] = ids[j])
      /\ \A a \in 1..n : a # i /\ a # j => t[a] = ids[a]
  BY <1>1, <1>2 DEF Swapped
<1> HIDE DEF t
<1>4. \A a, b \in 1..n : a # b => t[a] # t[b]
  BY <1>1, <1>2, <1>3
<1> QED
  BY <1>3, <1>4 DEF SetToSeqs, n, t

\* Positions that count up leave one order to show the list in.
LEMMA OneOrder ==
  ASSUME ListAssumption, NEW r, NEW ids \in SetToSeqs(Present(r)),
         \A k \in DOMAIN ids : r[ids[k]].sort_order = k - 1
  PROVE  Sorted(r) = {ids}
<1> DEFINE n == Cardinality(Present(r))
<1>0. IsFiniteSet(Present(r))
  BY PresentIsFinite
<1>1. /\ n \in Nat /\ ids \in [1..n -> Present(r)]
      /\ \A e \in Present(r) : \E k \in 1..n : ids[k] = e
  BY <1>0, Listing
<1>2. \A k \in 1..n : r[ids[k]].sort_order = k - 1
  BY <1>1
<1>3. ids \in Sorted(r)
  <2>1. \A i, j \in DOMAIN ids : i < j => r[ids[i]].sort_order <= r[ids[j]].sort_order
    <3>1. DOMAIN ids = 1..n
      BY <1>1
    <3> HIDE DEF n
    <3> QED
      BY <1>1, <1>2, <3>1
  <2> QED
    BY <2>1 DEF Sorted
<1>4. ASSUME NEW s \in Sorted(r)
      PROVE  s = ids
  <2>1. s \in SetToSeqs(Present(r))
    BY DEF Sorted
  <2>2. s \in [1..n -> Present(r)] /\ \A i, j \in 1..n : s[i] = s[j] => i = j
    BY <1>0, <2>1, Listing
  <2>3. \A i, j \in 1..n : i < j => r[s[i]].sort_order <= r[s[j]].sort_order
    BY <2>2 DEF Sorted
  <2> DEFINE f == [i \in 1..n |-> r[s[i]].sort_order + 1]
  <2> HIDE DEF n
  <2>4. \A i \in 1..n : /\ f[i] \in 1..n /\ s[i] = ids[f[i]]
                        /\ r[s[i]].sort_order = f[i] - 1
    <3> SUFFICES ASSUME NEW i \in 1..n
                 PROVE  f[i] \in 1..n /\ s[i] = ids[f[i]] /\ r[s[i]].sort_order = f[i] - 1
      OBVIOUS
    <3>1. PICK k \in 1..n : ids[k] = s[i]
      BY <1>1, <2>2
    <3>2. r[s[i]].sort_order = k - 1
      BY <1>2, <3>1
    <3>3. f[i] = k
      BY <1>1, <3>2
    <3> QED
      BY <3>1, <3>2, <3>3
  <2> HIDE DEF f
  <2>5. \A i, j \in 1..n : i < j => f[i] < f[j]
    <3> SUFFICES ASSUME NEW i \in 1..n, NEW j \in 1..n, i < j
                 PROVE  f[i] < f[j]
      OBVIOUS
    <3>1. r[s[i]].sort_order <= r[s[j]].sort_order
      BY <2>3
    <3>2. f[i] \in 1..n /\ f[j] \in 1..n
      BY <2>4
    <3>3. f[i] # f[j]
      <4>1. s[i] # s[j]
        BY <2>2
      <4>2. s[i] = ids[f[i]] /\ s[j] = ids[f[j]]
        BY <2>4
      <4> QED
        BY <4>1, <4>2
    <3>4. r[s[i]].sort_order = f[i] - 1 /\ r[s[j]].sort_order = f[j] - 1
      BY <2>4
    <3>5. f[i] - 1 <= f[j] - 1
      BY <3>1, <3>4
    <3>6. f[i] \in Int /\ f[j] \in Int
      BY <1>1, <3>2
    <3> QED
      BY <3>3, <3>5, <3>6
  <2>6. f \in [1..n -> 1..n]
    BY <2>4 DEF f
  <2>7. \A i \in 1..n : f[i] = i
    BY <1>1, <2>5, <2>6, OneWayUp
  <2>8. \A i \in 1..n : s[i] = ids[i]
    BY <2>4, <2>7
  <2> QED
    BY <1>1, <2>2, <2>8
<1> QED
  BY <1>3, <1>4

\* A renumbering nobody wrote beside lists the whole table, perhaps with an entry
\* that is gone, and the positions it wrote so far still stand.
Undone(d) ==
  /\ \E S \in SUBSET Entries : Present(row) \subseteq S /\ d.ids \in SetToSeqs(S)
  /\ \A k \in 1..d.next - 1 : d.ids[k] \in Present(row) /\ row[d.ids[k]].sort_order = k - 1
AloneInv == \A p \in Editors : desk[p].at = "renumber" /\ desk[p].alone => Undone(desk[p])

\* What became of the others' renumberings, and what must be true of the own.
LEMMA AloneKept ==
  ASSUME AloneInv, NEW p \in Editors, NEW state,
         desk \in [Editors -> Desk],
         desk' = Writes(p, state) \/ (desk' = Holds(p, state) /\ row' = row),
         state.at = "renumber" /\ state.alone =>
           /\ \E S \in SUBSET Entries : Present(row') \subseteq S /\ state.ids \in SetToSeqs(S)
           /\ \A k \in 1..state.next - 1 :
                state.ids[k] \in Present(row') /\ row'[state.ids[k]].sort_order = k - 1
  PROVE  AloneInv'
<1> DEFINE Stands(d) ==
      /\ \E S \in SUBSET Entries : Present(row') \subseteq S /\ d.ids \in SetToSeqs(S)
      /\ \A k \in 1..d.next - 1 : d.ids[k] \in Present(row') /\ row'[d.ids[k]].sort_order = k - 1
<1> SUFFICES ASSUME NEW q \in Editors, desk'[q].at = "renumber", desk'[q].alone
             PROVE  Stands(desk'[q])
  BY DEF AloneInv, Undone, Present
<1>1. desk[q] \in Desk
  OBVIOUS
<1>2. CASE q = p
  <2>1. desk'[q] = state
    BY <1>2 DEF Writes, Holds
  <2> QED
    BY <2>1
<1>3. CASE q # p /\ desk' = Writes(p, state)
  <2>1. desk[q].at # "renumber"
    <3>1. desk[q].at = "renumber" => desk'[q].alone = FALSE
      BY <1>1, <1>3 DEF Writes, Desk
    <3> QED
      BY <3>1
  <2>2. desk'[q] = desk[q]
    BY <1>3, <2>1 DEF Writes
  <2> QED
    BY <2>1, <2>2
<1>4. CASE q # p /\ desk' = Holds(p, state) /\ row' = row
  <2>1. desk'[q] = desk[q]
    BY <1>4 DEF Holds
  <2>2. Undone(desk[q])
    BY <2>1 DEF AloneInv
  <2> QED
    BY <1>4, <2>1, <2>2 DEF Undone
<1> QED
  BY <1>2, <1>3, <1>4

\* Writing the next position undoes none before it.
LEMMA PositionWritten ==
  ASSUME ListAssumption, ListInv, AloneInv, NEW p \in Editors, WritePosition(p), desk[p].alone
  PROVE  /\ \E S \in SUBSET Entries : Present(row') \subseteq S /\ desk[p].ids \in SetToSeqs(S)
         /\ \A k \in 1..desk[p].next :
              desk[p].ids[k] \in Present(row') /\ row'[desk[p].ids[k]].sort_order = k - 1
<1> DEFINE ids == desk[p].ids
           m   == desk[p].next
           new == [row[ids[m]] EXCEPT !.sort_order = m - 1, !.at = "table"]
<1>1. /\ row \in [Entries -> Row \cup {Gone}] /\ m \in 1..Len(ids)
      /\ row' = [row EXCEPT ![ids[m]] = new]
  BY DEF WritePosition, ListInv
<1>2. PICK S \in SUBSET Entries : Present(row) \subseteq S /\ ids \in SetToSeqs(S)
  BY DEF AloneInv, Undone, WritePosition
<1>3. \A k \in 1..m - 1 : ids[k] \in Present(row) /\ row[ids[k]].sort_order = k - 1
  BY DEF AloneInv, Undone, WritePosition
<1>4. /\ Len(ids) \in Nat /\ ids \in [1..Len(ids) -> S]
      /\ \A i, j \in 1..Len(ids) : ids[i] = ids[j] => i = j
  <2>1. IsFiniteSet(S)
    BY <1>2, EntriesAreFinite
  <2> QED
    BY <1>2, <2>1, Listing
<1>5. ids[m] \in S /\ ids[m] \in Entries /\ row[ids[m]] \in Row \cup {Gone} /\ m - 1 \in Nat
  BY <1>1, <1>2, <1>4
<1>6. new \in Row /\ new.sort_order = m - 1
  <2>1. new \in Row
    BY <1>5, RowWith
  <2>2. new.sort_order = m - 1
    BY <1>5 DEF Row, Gone
  <2> QED
    BY <2>1, <2>2
<1> HIDE DEF new, ids, m
<1>7. row'[ids[m]] = new /\ \A e \in Entries \ {ids[m]} : row'[e] = row[e]
  BY <1>1, <1>5
<1>8. new # Gone
  BY <1>6 DEF Row, Gone
<1>9. Present(row') = Present(row) \cup {ids[m]}
  BY <1>5, <1>7, <1>8 DEF Present
<1>10. ASSUME NEW k \in 1..m
       PROVE  ids[k] \in Present(row') /\ row'[ids[k]].sort_order = k - 1
  <2>1. CASE k = m
    BY <1>6, <1>7, <1>9, <2>1
  <2>2. CASE k # m
    <3>1. k \in 1..m - 1 /\ k \in 1..Len(ids)
      BY <1>1, <1>4, <2>2
    <3>2. ids[k] \in Entries /\ ids[k] # ids[m]
      BY <1>1, <1>2, <1>4, <2>2, <3>1
    <3> QED
      BY <1>3, <1>7, <1>9, <3>1, <3>2
  <2> QED
    BY <2>1, <2>2
<1> QED
  BY <1>2, <1>5, <1>9, <1>10 DEF ids, m

LEMMA AloneStep ==
  ASSUME ListAssumption, ListInv, AloneInv, [ListNext]_listVars
  PROVE  AloneInv'
<1>0. desk \in [Editors -> Desk]
  BY DEF ListInv
<1>1. CASE UNCHANGED listVars
  BY <1>1 DEF listVars, AloneInv, Undone, Present
<1>2. ASSUME NEW p \in Editors, NEW d, d.at \notin {"renumber"},
             desk' = Writes(p, d) \/ (desk' = Holds(p, d) /\ row' = row)
      PROVE  AloneInv'
  BY <1>0, <1>2, AloneKept
<1>3. ASSUME NEW p \in Editors, CreateCounts(p) \/ CreatePuts(p) \/ EditLost(p)
      PROVE  AloneInv'
  <2>1. /\ AtDesk.at = "idle"
        /\ \A n, i : [AtDesk EXCEPT !.at = "create", !.entry = n, !.position = i].at = "create"
    BY DEF AtDesk
  <2>2. \/ desk' = Writes(p, AtDesk)
        \/ desk' = Holds(p, AtDesk) /\ row' = row
        \/ /\ desk' = Holds(p, [AtDesk EXCEPT !.at = "create", !.entry = created + 1,
                                              !.position = Cardinality(Present(row))])
           /\ row' = row
    BY <1>3 DEF CreateCounts, CreatePuts, EditLost
  <2> QED
    BY <1>2, <2>1, <2>2
<1>4. ASSUME NEW p \in Editors, NEW e \in Entries, Updates(p, e) \/ Delete(p, e)
      PROVE  AloneInv'
  <2>1. /\ AtDesk.at = "idle"
        /\ [AtDesk EXCEPT !.at = "deleted", !.entry = e, !.was = row[e]].at = "deleted"
    BY DEF AtDesk
  <2>2. \/ desk' = Writes(p, AtDesk)
        \/ desk' = Writes(p, [AtDesk EXCEPT !.at = "deleted", !.entry = e, !.was = row[e]])
    BY <1>4 DEF Updates, Delete
  <2> QED
    BY <1>2, <2>1, <2>2
\* A renumbering begins with the whole list, and has written nothing.
<1>5. ASSUME NEW p \in Editors, NEW S \in SUBSET Entries, NEW ids \in SetToSeqs(S),
             Present(row) \subseteq S, desk' = Holds(p, Renumbers(ids)), row' = row
      PROVE  AloneInv'
  <2>1. Renumbers(ids).ids = ids /\ Renumbers(ids).next = 1
    BY DEF Renumbers, AtDesk
  <2>2. 1..Renumbers(ids).next - 1 = {}
    BY <2>1
  <2> QED
    BY <1>0, <1>5, <2>1, <2>2, AloneKept
<1>6. ASSUME NEW p \in Editors, NEW e \in Entries, Move(p, e)
      PROVE  AloneInv'
  <2>1. PICK ids \in Sorted(row) : \E i, j \in DOMAIN ids : desk' = Holds(p, Renumbers(Swapped(ids, i, j)))
    BY <1>6 DEF Move
  <2>2. PICK i \in DOMAIN ids, j \in DOMAIN ids : desk' = Holds(p, Renumbers(Swapped(ids, i, j)))
    BY <2>1
  <2>3. Swapped(ids, i, j) \in SetToSeqs(Present(row))
    BY SwappedListing DEF Sorted
  <2>4. row' = row /\ Present(row) \in SUBSET Entries
    BY <1>6 DEF Move, Present
  <2> QED
    BY <1>5, <2>2, <2>3, <2>4
<1>7. ASSUME NEW p \in Editors, DeleteReads(p)
      PROVE  AloneInv'
  <2>1. PICK seen \in Scans(p) : \E ids \in Sorted(seen) : desk' = Holds(p, Renumbers(ids))
    BY <1>7 DEF DeleteReads
  <2>2. PICK ids \in Sorted(seen) : desk' = Holds(p, Renumbers(ids))
    BY <2>1
  <2>3. /\ ids \in SetToSeqs(Present(seen)) /\ row' = row
        /\ Present(seen) \in SUBSET Entries
    BY <1>7, <2>2 DEF Sorted, DeleteReads, Present
  <2>4. Present(row) \subseteq Present(seen)
    <3>1. row \in [Entries -> Row \cup {Gone}]
      BY DEF ListInv
    <3> QED
      BY <2>1, <3>1 DEF Scans, Present
  <2> QED
    BY <1>5, <2>2, <2>3, <2>4
<1>8. ASSUME NEW p \in Editors, WritePosition(p)
      PROVE  AloneInv'
  <2>1. CASE desk[p].next = Len(desk[p].ids)
    <3>1. desk' = Writes(p, AtDesk) /\ AtDesk.at = "idle"
      BY <1>8, <2>1 DEF WritePosition, AtDesk
    <3> QED
      BY <1>2, <3>1
  <2>2. CASE desk[p].next # Len(desk[p].ids)
    <3> DEFINE state == [desk[p] EXCEPT !.next = desk[p].next + 1]
    <3>1. desk' = Writes(p, state)
      BY <1>8, <2>2 DEF WritePosition
    <3>2. desk[p] \in Desk
      BY <1>0
    <3>3. /\ state.ids = desk[p].ids /\ state.alone = desk[p].alone
          /\ state.next - 1 = desk[p].next
      BY <3>2 DEF Desk
    <3> HIDE DEF state
    <3>4. state.alone =>
            /\ \E S \in SUBSET Entries : Present(row') \subseteq S /\ state.ids \in SetToSeqs(S)
            /\ \A k \in 1..state.next - 1 :
                 state.ids[k] \in Present(row') /\ row'[state.ids[k]].sort_order = k - 1
      BY <1>8, <3>3, PositionWritten
    <3> QED
      BY <1>0, <3>1, <3>4, AloneKept
  <2> QED
    BY <2>1, <2>2
<1> QED
  BY <1>1, <1>3, <1>4, <1>6, <1>7, <1>8
     DEF ListNext, EditorNext, create_faq, create_krewe_link, update_faq, update_krewe_link,
         move_faq, move_krewe_link, delete_faq, delete_krewe_link

\* A renumbering that nobody wrote beside leaves with its last write the order it
\* meant and no other, for every length of the list, whatever it started from,
\* and whether or not the list it read still had the deleted entry.
THEOREM RenumberingAlwaysHeals == ListAssumption => (ListSpec => RenumberingHeals)
<1> SUFFICES ASSUME ListAssumption
             PROVE  ListSpec => RenumberingHeals
  OBVIOUS
<1> DEFINE Heals(p) ==
      desk[p].alone /\ WritePosition(p) /\ Idle(p)' =>
        /\ Sorted(row') = {desk[p].ids}
        /\ \A k \in DOMAIN desk[p].ids : row'[desk[p].ids[k]].sort_order = k - 1
<1>1. ListInit => AloneInv
  BY DEF ListInit, AloneInv, AtDesk
<1>2. ListInv /\ AloneInv /\ [ListNext]_listVars => AloneInv'
  BY AloneStep
<1>3. ASSUME ListInv, AloneInv, NEW p \in Editors
      PROVE  Heals(p)
  <2> SUFFICES ASSUME desk[p].alone, WritePosition(p), desk'[p].at = "idle"
               PROVE  /\ Sorted(row') = {desk[p].ids}
                      /\ \A k \in DOMAIN desk[p].ids : row'[desk[p].ids[k]].sort_order = k - 1
    BY DEF Idle
  <2> DEFINE ids == desk[p].ids
  <2>1. desk[p] \in Desk /\ desk[p].at = "renumber"
    BY <1>3 DEF ListInv, WritePosition
  <2>2. desk[p].next = Len(ids)
    <3>1. SUFFICES ASSUME desk[p].next # Len(ids)
                   PROVE  FALSE
      OBVIOUS
    <3>2. desk'[p] = [desk[p] EXCEPT !.next = desk[p].next + 1]
      BY <3>1 DEF WritePosition, Writes
    <3> QED
      BY <2>1, <3>2 DEF Desk
  <2>3. PICK S \in SUBSET Entries : Present(row') \subseteq S /\ ids \in SetToSeqs(S)
    BY <1>3, PositionWritten
  <2>4. \A k \in 1..Len(ids) : ids[k] \in Present(row') /\ row'[ids[k]].sort_order = k - 1
    BY <1>3, <2>2, PositionWritten
  <2>5. /\ Len(ids) \in Nat /\ DOMAIN ids = 1..Len(ids)
        /\ \A e \in S : \E k \in 1..Len(ids) : ids[k] = e
    <3>1. IsFiniteSet(S)
      BY <2>3, EntriesAreFinite
    <3>2. /\ Cardinality(S) \in Nat /\ ids \in [1..Cardinality(S) -> S]
          /\ Len(ids) = Cardinality(S)
          /\ \A e \in S : \E k \in 1..Cardinality(S) : ids[k] = e
      BY <2>3, <3>1, Listing
    <3> QED
      BY <3>2
  <2> HIDE DEF ids
  <2>6. Present(row') = S
    BY <2>3, <2>4, <2>5
  <2>7. \A k \in DOMAIN ids : row'[ids[k]].sort_order = k - 1
    BY <2>4, <2>5
  <2>8. Sorted(row') = {ids}
    BY <2>3, <2>6, <2>7, OneOrder
  <2> QED
    BY <2>7, <2>8 DEF ids
<1>4. ListInit => ListInv
  BY ListInvInit
<1>5. ListInv /\ [ListNext]_listVars => ListInv'
  BY ListInvStep
<1>6. ListInv /\ AloneInv /\ [ListNext]_listVars => [\A p \in Editors : Heals(p)]_listVars
  BY <1>3
<1> QED
  BY <1>1, <1>2, <1>4, <1>5, <1>6, PTL DEF ListSpec, RenumberingHeals

\* The list a behaviour is about stays.
ListKinds == list \in {"faq", "krewe_links"}

LEMMA ListKindsStep ==
  ASSUME ListKinds, [ListNext]_listVars
  PROVE  ListKinds'
BY DEF ListKinds, listVars, ListNext, EditorNext, CreateCounts, CreatePuts, Updates, Move, Delete,
       DeleteReads, WritePosition, EditLost, create_faq, create_krewe_link, update_faq,
       update_krewe_link, move_faq, move_krewe_link, delete_faq, delete_krewe_link

-----------------------------------------------------------------------------
(* The scenes together *)

BackstageAssumptions ==
  /\ ConfigAssumption /\ SignInAssumption /\ AnnouncementAssumption
  /\ ListAssumption /\ PricingAssumption /\ SceneAssumption

\* The scene that flips Stripe's mode edits the parameters without counting the
\* late requests of the others, and lets nobody in.
BackstageInv ==
  /\ StripeInv
  /\ IF scene = "stripe" THEN SignInTypeOK ELSE SignInInv
  /\ MailInv /\ ListInv /\ ListKinds /\ PricingInv

\* No scene has begun.
LEMMA BackstageInvInit ==
  ASSUME BackstageAssumptions, BackstageInit
  PROVE  BackstageInv
BY StripeInvInit, SignInInvInit, MailInvInit, ListInvInit, PricingInvInit
   DEF BackstageAssumptions, BackstageInit, BackstageInv, SignInInv, ListKinds, ListInit

\* A request that signs in, or an admin's, does to the copies what StripeMode
\* lets requests it does not know do to them.
LEMMA SignInStepIsStripes ==
  ASSUME SignInNext, UNCHANGED saleVars
  PROVE  [StripeNext]_stripeVars
<1>1. ASSUME UNCHANGED configVars
      PROVE  [StripeNext]_stripeVars
  BY <1>1 DEF stripeVars, configVars, saleVars
<1>2. Containing \/ Operating \/ ConfigTick => StripeNext
  BY DEF StripeNext, StripeConfig, saleVars
<1>3. ASSUME NEW u \in Clowns, ClownNext(u)
      PROVE  UNCHANGED configVars \/ Containing
  <2>1. ASSUME NEW c \in Containers, login(u, c) \/ callback(u, c) \/ _restart_login(u, c)
        PROVE  UNCHANGED configVars
    BY <2>1 DEF login, callback, _restart_login
  <2>2. ASSUME NEW c \in Containers,
               require_member(u, c) \/ \E k \in Op : require_admin(u, c, k)
        PROVE  Containing
    <3>1. RefreshedElsewhere(c)
      BY <2>2 DEF require_member, require_admin, _authenticated_claims, RefreshedElsewhere
    <3> QED
      BY <3>1 DEF Containing
  <2>3. CASE logout(u) \/ _promote_clown(u) \/ _demote_clown(u) \/ _delete_clown(u)
               \/ _create_clown(u) \/ OpLost(u)
    BY <2>3 DEF logout, _promote_clown, _demote_clown, _delete_clown, _create_clown, OpLost
  <2> QED
    BY <1>3, <2>1, <2>2, <2>3 DEF ClownNext
<1>4. SignInConfig => Containing
  BY DEF SignInConfig
<1>5. SecretEdited => Operating
  BY DEF SecretEdited, Operating
<1>6. SignInTick => ConfigTick
  BY DEF SignInTick
<1> QED
  BY <1>1, <1>2, <1>3, <1>4, <1>5, <1>6 DEF SignInNext

\* A scene of signing in is a step of SignIn, with the bounds left out.
LEMMA SignInScenes ==
  ASSUME BackstageAssumptions, RightsScene \/ SecretsScene
  PROVE  SignInNext /\ scene' = scene /\ UNCHANGED <<saleVars, mailVars, listVars, pricingVars>>
<1>1. CASE RightsScene
  <2>1. ColdStart(c1) /\ UNCHANGED sessionVars => SignInConfig
    BY DEF BackstageAssumptions, SceneAssumption, SignInConfig, Containing, sessionVars
  <2> QED
    BY <1>1, <2>1 DEF RightsScene, SignInNext
<1>2. CASE SecretsScene
  BY <1>2 DEF BackstageAssumptions, SignInAssumption, SecretsScene, SignInNext, ClownNext
<1> QED
  BY <1>1, <1>2

\* A component whose scene is not on stutters.
LEMMA BackstageInvStep ==
  ASSUME BackstageAssumptions, BackstageInv, [BackstageNext]_backstageVars
  PROVE  BackstageInv'
<1> USE DEF BackstageAssumptions, BackstageInv
<1>1. UNCHANGED mailVars => MailInv'
  BY MailInvStep
<1>2. UNCHANGED listVars => ListInv' /\ ListKinds'
  BY ListInvStep, ListKindsStep
<1>3. UNCHANGED pricingVars => PricingInv'
  BY PricingInvStep
<1>4. UNCHANGED <<configVars, saleVars>> => StripeInv'
  BY StripeInvStep DEF stripeVars, configVars, saleVars
<1>5. UNCHANGED <<configVars, sessionVars, scene>> => (IF scene = "stripe" THEN SignInTypeOK ELSE SignInInv)'
  <2> SUFFICES ASSUME UNCHANGED <<configVars, sessionVars, scene>>
               PROVE  (IF scene = "stripe" THEN SignInTypeOK ELSE SignInInv)'
    OBVIOUS
  <2>1. UNCHANGED signInVars
    BY DEF signInVars, configVars, sessionVars, poolVars
  <2>2. SignInInv => SignInInv'
    BY <2>1, SignInInvStep
  <2>3. SignInTypeOK => SignInTypeOK'
    BY DEF SignInTypeOK, ConfigTypeOK, configVars, sessionVars, poolVars
  <2> QED
    BY <2>2, <2>3
<1>6. CASE StripeScene
  <2>1. StripeNext /\ scene = "stripe" /\ scene' = "stripe"
        /\ UNCHANGED <<sessionVars, mailVars, listVars, pricingVars>>
    BY <1>6 DEF StripeScene
  <2>2. StripeInv'
    BY <2>1, StripeInvStep
  <2>3. SignInTypeOK'
    BY <2>1, <2>2 DEF SignInTypeOK, StripeInv, ConfigInv, sessionVars, poolVars
  <2> QED
    BY <1>1, <1>2, <1>3, <2>1, <2>2, <2>3
<1>7. CASE RightsScene \/ SecretsScene
  <2>1. scene # "stripe" /\ scene' = scene /\ UNCHANGED <<saleVars, mailVars, listVars, pricingVars>>
    BY <1>7, SignInScenes DEF RightsScene, SecretsScene
  <2>2. SignInNext
    BY <1>7, SignInScenes
  <2>3. SignInInv'
    BY <2>1, <2>2, SignInInvStep
  <2>4. StripeInv'
    BY <2>1, <2>3 DEF StripeInv, StripeTypeOK, SignInInv, ConfigInv, saleVars
  <2> QED
    BY <1>1, <1>2, <1>3, <2>1, <2>3, <2>4
<1>8. CASE MailScene
  <2>1. MailNext /\ UNCHANGED <<configVars, saleVars, sessionVars, listVars, pricingVars, scene>>
    BY <1>8 DEF MailScene
  <2> QED
    BY <1>2, <1>3, <1>4, <1>5, <2>1, MailInvStep
<1>9. CASE ListsScene
  <2>1. ListNext /\ UNCHANGED <<configVars, saleVars, sessionVars, mailVars, pricingVars, scene>>
    BY <1>9 DEF ListsScene
  <2> QED
    BY <1>1, <1>3, <1>4, <1>5, <2>1, ListInvStep, ListKindsStep
<1>10. CASE PricesScene
  <2>1. PricingNext /\ UNCHANGED <<configVars, saleVars, sessionVars, mailVars, listVars, scene>>
    BY <1>10 DEF PricesScene
  <2> QED
    BY <1>1, <1>2, <1>4, <1>5, <2>1, PricingInvStep
<1>11. CASE UNCHANGED backstageVars
  <2>1. UNCHANGED <<configVars, saleVars, sessionVars, mailVars, listVars, pricingVars, scene>>
    BY <1>11 DEF backstageVars, stripeVars, signInVars, configVars, saleVars, sessionVars,
             poolVars
  <2> QED
    BY <1>1, <1>2, <1>3, <1>4, <1>5, <2>1
<1> QED
  BY <1>6, <1>7, <1>8, <1>9, <1>10, <1>11 DEF BackstageNext

\* Every variable of the six components keeps its type through every scene, for
\* all values of their constants.
THEOREM BackstageTypes == BackstageAssumptions => (BackstageSpec => []TypeOK)
<1> SUFFICES ASSUME BackstageAssumptions
             PROVE  BackstageSpec => []TypeOK
  OBVIOUS
<1>1. BackstageInit => BackstageInv
  BY BackstageInvInit
<1>2. BackstageInv /\ [BackstageNext]_backstageVars => BackstageInv'
  BY BackstageInvStep
<1>3. ListInv /\ ListKinds => ListTypeOK
  BY DEF ListInv, ListKinds, ListTypeOK, Desk
<1>4. BackstageInv => TypeOK
  BY <1>3 DEF BackstageInv, TypeOK, StripeInv, SignInInv, MailInv, PricingInv
<1> QED
  BY <1>1, <1>2, <1>4, PTL DEF BackstageSpec

\* What the run plays are behaviours of the components: every scene is a
\* behaviour of StripeMode, of the announcements, of the lists and of the prices,
\* and every scene but Stripe's is one of SignIn.  A refresh that signing in
\* makes is one that StripeMode allows for.
THEOREM ScenesAreBehaviours ==
  BackstageAssumptions =>
    (BackstageSpec => /\ StripeSpec /\ MailSpec /\ ListSpec /\ PricingSpec
                      /\ scene # "stripe" => SignInSpec)
<1> SUFFICES ASSUME BackstageAssumptions
             PROVE  BackstageSpec => /\ StripeSpec /\ MailSpec /\ ListSpec /\ PricingSpec
                                     /\ scene # "stripe" => SignInSpec
  OBVIOUS
<1>1. BackstageInit => StripeInit /\ SignInInit /\ MailInit /\ ListInit /\ PricingInit
  BY DEF BackstageInit
<1>2. ASSUME [BackstageNext]_backstageVars
      PROVE  /\ [StripeNext]_stripeVars /\ [MailNext]_mailVars
             /\ [ListNext]_listVars /\ [PricingNext]_pricingVars
             /\ scene # "stripe" => [SignInNext]_signInVars /\ (scene # "stripe")'
  <2>1. UNCHANGED <<configVars, saleVars>> => UNCHANGED stripeVars
    BY DEF stripeVars, configVars, saleVars
  <2>2. UNCHANGED <<configVars, sessionVars>> => UNCHANGED signInVars
    BY DEF signInVars, configVars, sessionVars, poolVars
  <2>3. CASE StripeScene
    BY <2>3 DEF StripeScene
  <2>4. CASE RightsScene \/ SecretsScene
    BY <2>4, SignInScenes, SignInStepIsStripes
  <2>5. CASE MailScene
    BY <2>1, <2>2, <2>5 DEF MailScene
  <2>6. CASE ListsScene
    BY <2>1, <2>2, <2>6 DEF ListsScene
  <2>7. CASE PricesScene
    BY <2>1, <2>2, <2>7 DEF PricesScene
  <2>8. CASE UNCHANGED backstageVars
    <3>1. UNCHANGED <<configVars, saleVars, sessionVars, mailVars, listVars, pricingVars, scene>>
      BY <2>8 DEF backstageVars, stripeVars, signInVars, configVars, saleVars, sessionVars,
               poolVars
    <3> QED
      BY <2>1, <2>2, <3>1
  <2> QED
    BY <1>2, <2>3, <2>4, <2>5, <2>6, <2>7, <2>8 DEF BackstageNext
<1>3. BackstageSpec => StripeSpec
  BY <1>1, <1>2, PTL DEF BackstageSpec, StripeSpec
<1>4. BackstageSpec => MailSpec
  BY <1>1, <1>2, PTL DEF BackstageSpec, MailSpec
<1>5. BackstageSpec => ListSpec
  BY <1>1, <1>2, PTL DEF BackstageSpec, ListSpec
<1>6. BackstageSpec => PricingSpec
  BY <1>1, <1>2, PTL DEF BackstageSpec, PricingSpec
<1>7. BackstageSpec /\ scene # "stripe" => SignInSpec
  BY <1>1, <1>2, PTL DEF BackstageSpec, SignInSpec
<1> QED
  BY <1>3, <1>4, <1>5, <1>6, <1>7, PTL
=============================================================================
