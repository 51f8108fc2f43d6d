----------------------------- MODULE SecureParams -----------------------------
(***************************************************************************)
(* app/config.py: the parameters an operator keeps in SSM, and the copy    *)
(* that each warm container of the application holds.  A copy is loaded    *)
(* at the cold start and again, by the requests that ask for it, once it   *)
(* is TTL old.  A parameter's value is abstracted to the Stripe mode it    *)
(* belongs to; the session secret keeps its identity.  The publishable key *)
(* has no reader and is left out.                                          *)
(***************************************************************************)
EXTENDS Naturals

CONSTANTS
  Containers,  \* execution environments of the application
  Secrets,     \* values the session secret may take
  TTL,         \* SECURE_PARAMS_TTL_SECONDS, in ticks
  MaxEdits,    \* bound: edits of SSM by the operator
  None

Modes  == {"test", "live"}
Fields == {"secret_key", "webhook_secret"}

ASSUME ConfigAssumption ==
  /\ TTL \in Nat \ {0}
  /\ MaxEdits \in Nat
  /\ None \notin Secrets \cup Modes

VARIABLES
  ssm,       \* the parameters as the operator left them
  settings,  \* the copy of each container
  since,     \* history: ticks (up to TTL) since SSM was edited, said "live", and
             \* lacked the secret key of its mode (a "gap")
  edits      \* edits so far
configVars == <<ssm, settings, since, edits>>

-----------------------------------------------------------------------------
(* State *)

Params == [stripe_mode : Modes \cup {"other"},   \* missing, empty or misspelled
           stored : SUBSET (Modes \X Fields),
           session_secret : Secrets \cup {None}]

\* "opened" is history: whether this container has read "live" since it came up.
Cold == [at |-> "cold"]
Settings == [stripe_mode : Modes, key : [Fields -> Modes \cup {None}],
             session_secret : Secrets, age : 0..TTL, opened : {"never", "once"}]
Warm(c) == settings[c] # Cold

\* "must never silently fail open into live"
fail_open(p) == IF p.stripe_mode = "test" THEN "test" ELSE "live"
EffectiveMode(p) == IF p.stripe_mode = "live" THEN "live" ELSE "test"
Has(p, f) == <<EffectiveMode(p), f>> \in p.stored

Older(n) == IF n < TTL THEN n + 1 ELSE TTL

-----------------------------------------------------------------------------
(* _apply_secure_params and refresh_secure_params_if_stale *)

\* For mutation: a key that is set is not replaced.
set_once(old, f) ==
  IF old = None /\ Has(ssm, f) THEN EffectiveMode(ssm) ELSE old
\* A field that SSM does not have keeps the value it had.
KeyValue(old, f) == IF Has(ssm, f) THEN EffectiveMode(ssm) ELSE old

_apply_secure_params(target) ==
  [stripe_mode |-> EffectiveMode(ssm),
   key |-> [f \in Fields |-> KeyValue(target.key[f], f)],
   session_secret |-> IF ssm.session_secret # None THEN ssm.session_secret
                      ELSE target.session_secret,
   age |-> 0,
   opened |-> IF ssm.stripe_mode = "live" THEN "once" ELSE target.opened]

\* For mutation: the copy is never taken for stale.
as_cached(c) == IF settings[c].age <= TTL THEN settings[c] ELSE Cold
refresh_secure_params_if_stale(c) ==
  IF settings[c].age < TTL THEN settings[c]
  ELSE _apply_secure_params(settings[c])

Refresh(c) == settings' = [settings EXCEPT ![c] = refresh_secure_params_if_stale(c)]

\* The import of app.config: no key yet, and without a session secret it raises
\* and the container never comes up.
Fresh == [key |-> [f \in Fields |-> None], session_secret |-> ssm.session_secret,
          opened |-> "never"]
ColdStart(c) ==
  /\ ~Warm(c)
  /\ ssm.session_secret # None
  /\ settings' = [settings EXCEPT ![c] = _apply_secure_params(Fresh)]
  /\ UNCHANGED <<ssm, since, edits>>

\* A request the component does not model (a member's page, a checkout, a
\* delivery) found the copy stale.
RefreshedElsewhere(c) ==
  /\ Warm(c)
  /\ Refresh(c)
  /\ UNCHANGED <<ssm, since, edits>>

Recycle(c) ==
  /\ Warm(c)
  /\ settings' = [settings EXCEPT ![c] = Cold]
  /\ UNCHANGED <<ssm, since, edits>>

-----------------------------------------------------------------------------
(* The operator and the clock *)

Edit(p) ==
  /\ edits < MaxEdits
  /\ p # ssm
  /\ ssm' = p
  /\ edits' = edits + 1
  /\ since' = [edit |-> 0,
               live |-> IF p.stripe_mode = "live" THEN 0 ELSE since.live,
               gap |-> IF Has(p, "secret_key") THEN since.gap ELSE 0]
  /\ UNCHANGED settings

SetMode(m) == Edit([ssm EXCEPT !.stripe_mode = m])
PutKey(k) == Edit([ssm EXCEPT !.stored = @ \cup {k}])
DeleteKey(k) == Edit([ssm EXCEPT !.stored = @ \ {k}])
SetSecret(x) == Edit([ssm EXCEPT !.session_secret = x])

ConfigTick ==
  /\ settings' = [c \in Containers |->
                    IF Warm(c) THEN [settings[c] EXCEPT !.age = Older(@)] ELSE Cold]
  /\ since' = [edit |-> Older(since.edit),
               live |-> IF ssm.stripe_mode = "live" THEN 0 ELSE Older(since.live),
               gap |-> IF Has(ssm, "secret_key") THEN Older(since.gap) ELSE 0]
  /\ UNCHANGED <<ssm, edits>>

\* As deployed: test mode, one pair or both filled in, every container cold.
ConfigInit ==
  /\ ssm \in [stripe_mode : {"test"}, stored : {{"test"} \X Fields, Modes \X Fields},
              session_secret : Secrets]
  /\ settings = [c \in Containers |-> Cold]
  /\ since = [edit |-> TTL, live |-> TTL, gap |-> TTL]
  /\ edits = 0

\* What other requests do for a container: it is started, stopped, and its copy
\* brought up to date.
Containing == \E c \in Containers : ColdStart(c) \/ Recycle(c) \/ RefreshedElsewhere(c)
Operating ==
  \/ \E m \in Modes \cup {"other"} : SetMode(m)
  \/ \E k \in Modes \X Fields : PutKey(k) \/ DeleteKey(k)
  \/ \E x \in Secrets \cup {None} : SetSecret(x)

ConfigTypeOK ==
  /\ ssm \in Params
  /\ settings \in [Containers -> Settings \cup {Cold}]
  /\ since \in [edit : 0..TTL, live : 0..TTL, gap : 0..TTL]
  /\ edits \in 0..MaxEdits
=============================================================================
