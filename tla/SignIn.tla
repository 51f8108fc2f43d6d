-------------------------------- MODULE SignIn --------------------------------
(***************************************************************************)
(* app/auth.py, app/routes/auth_routes.py and the account pages of         *)
(* admin.py: signing in with Cognito, the session cookie, the claims it    *)
(* carries, and what admins do to each other's accounts.  Two cookies are  *)
(* signed with the session secret of the container that answers.  The      *)
(* group is read once, when the ID token is issued; the pages trust the    *)
(* token until it expires.  Cognito (accounts, group, tokens) is external. *)
(***************************************************************************)
EXTENDS SecureParams

CONSTANTS
  Clowns,       \* logins of the pool (a login that is deleted never returns)
  FirstAdmins,  \* the group as it was set up by hand
  PkceLife,     \* PKCE_MAX_AGE_SECONDS, in ticks
  SessionLife   \* SESSION_MAX_AGE_SECONDS and the ID token's validity, in ticks

ASSUME SignInAssumption ==
  /\ FirstAdmins \subseteq Clowns /\ FirstAdmins # {}
  /\ PkceLife \in Nat \ {0} /\ SessionLife \in Nat \ {0}

VARIABLES
  account,  \* the user pool
  admins,   \* its group ADMIN_GROUP
  pkce,     \* each browser's PKCE cookie
  cookie,   \* each browser's session cookie
  op,       \* an admin's request between require_admin and its call to Cognito
  gone,     \* history: ticks (up to SessionLife) since a login was last an admin's
  late      \* history: requests a container let in under a retired secret
signInVars == <<configVars, account, admins, pkce, cookie, op, gone, late>>
poolVars == <<account, admins>>

-----------------------------------------------------------------------------
(* State *)

Kinds == {"promote", "demote", "delete", "create"}
NoOp == [kind |-> "none"]
Op == [kind : Kinds \ {"create"}, whom : Clowns, make_admin : {FALSE}]
      \cup [kind : {"create"}, whom : Clowns, make_admin : BOOLEAN]
PkceCookie == [secret : Secrets, age : 0..PkceLife - 1]
SessionCookie == [secret : Secrets, is_admin : BOOLEAN, age : 0..SessionLife - 1]

IsAdmin(u) == u \in admins /\ account[u] = "live"

-----------------------------------------------------------------------------
(* auth_routes.py.  Neither route refreshes the copy. *)

login(u, c) ==
  /\ Warm(c)
  /\ pkce' = [pkce EXCEPT ![u] = [secret |-> settings[c].session_secret, age |-> 0]]
  /\ UNCHANGED <<configVars, poolVars, cookie, op, gone, late>>

\* A cookie that is missing, too old or of another secret is answered 400: the
\* model drops it when it is too old (SignInTick).
PkceAccepted(u, c) ==
  /\ Warm(c)
  /\ pkce[u] # None
  /\ pkce[u].secret = settings[c].session_secret

callback(u, c) ==
  /\ PkceAccepted(u, c)
  /\ account[u] = "live"
  /\ cookie' = [cookie EXCEPT ![u] = [secret |-> settings[c].session_secret,
                                      is_admin |-> u \in admins, age |-> 0]]
  /\ pkce' = [pkce EXCEPT ![u] = None]
  /\ UNCHANGED <<configVars, poolVars, op, gone, late>>

\* The token exchange fails: a replayed code, a time-out, an outage.
_restart_login(u, c) ==
  /\ PkceAccepted(u, c)
  /\ pkce' = [pkce EXCEPT ![u] = None]
  /\ UNCHANGED <<configVars, poolVars, cookie, op, gone, late>>

logout(u) ==
  /\ cookie[u] # None
  /\ cookie' = [cookie EXCEPT ![u] = None]
  /\ UNCHANGED <<configVars, poolVars, pkce, op, gone, late>>

-----------------------------------------------------------------------------
(* auth.py *)

\* The cookie is read with the copy as it is, and the token in it verified.
read_session(u, c) == cookie[u] # None /\ cookie[u].secret = settings[c].session_secret

Retired(x) == since.edit = TTL /\ ssm.session_secret \notin {x, None}

\* For mutation: the pages of admins do not refresh the copy.
no_refresh(u, c) ==
  /\ Warm(c)
  /\ read_session(u, c)
  /\ late' = [late EXCEPT ![c] = IF Retired(cookie[u].secret) /\ @ < 2 THEN @ + 1 ELSE @]
  /\ UNCHANGED configVars

\* Only a request that is let in refreshes the copy, after its cookie was read.
_authenticated_claims(u, c) ==
  /\ Warm(c)
  /\ read_session(u, c)
  /\ Refresh(c)
  /\ late' = [late EXCEPT ![c] = IF Retired(cookie[u].secret) /\ @ < 2 THEN @ + 1 ELSE @]
  /\ UNCHANGED <<ssm, since, edits>>

require_member(u, c) ==
  /\ _authenticated_claims(u, c)
  /\ UNCHANGED <<poolVars, pkce, cookie, op, gone>>

NotOneself(u, k) == k.kind \in {"demote", "delete"} => k.whom # u

\* The page offers a new login, or an account it lists (it may be deleted since).
Offered(k) == k.kind = "create" <=> account[k.whom] = "none"

require_admin(u, c, k) ==
  /\ op[u] = NoOp
  /\ _authenticated_claims(u, c)
  /\ cookie[u].is_admin
  /\ Offered(k) /\ NotOneself(u, k)
  /\ op' = [op EXCEPT ![u] = k]
  /\ UNCHANGED <<poolVars, pkce, cookie, gone>>

-----------------------------------------------------------------------------
(* admin.py: the account pages.  A call Cognito refuses changes nothing. *)

OpEnds(u) == op' = [op EXCEPT ![u] = NoOp]

_promote_clown(u) ==
  /\ op[u].kind = "promote"
  /\ admins' = IF account[op[u].whom] = "live" THEN admins \cup {op[u].whom} ELSE admins
  /\ gone' = [x \in Clowns |-> IF x = op[u].whom /\ account[x] = "live" THEN 0 ELSE gone[x]]
  /\ OpEnds(u)
  /\ UNCHANGED <<configVars, account, pkce, cookie, late>>

_demote_clown(u) ==
  /\ op[u].kind = "demote"
  /\ admins' = admins \ {op[u].whom}
  /\ OpEnds(u)
  /\ UNCHANGED <<configVars, account, pkce, cookie, gone, late>>

_delete_clown(u) ==
  /\ op[u].kind = "delete"
  /\ account' = [account EXCEPT ![op[u].whom] = IF @ = "live" THEN "deleted" ELSE @]
  /\ admins' = admins \ {op[u].whom}
  /\ OpEnds(u)
  /\ UNCHANGED <<configVars, pkce, cookie, gone, late>>

\* The invitation, then the promotion by a call of its own.
_create_clown(u) ==
  /\ op[u].kind = "create"
  /\ LET new == account[op[u].whom] = "none" IN
     /\ account' = IF new THEN [account EXCEPT ![op[u].whom] = "live"] ELSE account
     /\ op' = [op EXCEPT ![u] = IF new /\ @.make_admin THEN [@ EXCEPT !.kind = "promote", !.make_admin = FALSE]
                                ELSE NoOp]
  /\ UNCHANGED <<configVars, admins, pkce, cookie, gone, late>>

OpLost(u) ==
  /\ op[u] # NoOp
  /\ OpEnds(u)
  /\ UNCHANGED <<configVars, poolVars, pkce, cookie, gone, late>>

-----------------------------------------------------------------------------
(* Time, the operator and the specification *)

\* A cookie that is past its max_age is the same as none: loads() refuses it,
\* and the token in it has expired.
PkceAged(k) == IF k = None \/ k.age + 1 = PkceLife THEN None ELSE [k EXCEPT !.age = @ + 1]

\* For mutation: a session is extended for as long as it is used.
CookieKept(k) == IF k = None \/ k.age + 1 = SessionLife THEN k ELSE [k EXCEPT !.age = @ + 1]
CookieAged(k) == IF k = None \/ k.age + 1 = SessionLife THEN None ELSE [k EXCEPT !.age = @ + 1]

SignInTick ==
  /\ ConfigTick
  /\ pkce' = [u \in Clowns |-> PkceAged(pkce[u])]
  /\ cookie' = [u \in Clowns |-> CookieAged(cookie[u])]
  /\ gone' = [u \in Clowns |-> IF IsAdmin(u) THEN 0
                               ELSE IF gone[u] < SessionLife THEN gone[u] + 1 ELSE SessionLife]
  /\ UNCHANGED <<poolVars, op, late>>

\* An edit of the session secret starts the count of late requests again.
SecretEdited ==
  /\ \E x \in Secrets \cup {None} : SetSecret(x)
  /\ late' = [c \in Containers |-> 0]
  /\ UNCHANGED <<poolVars, pkce, cookie, op, gone>>

SignInInit ==
  /\ ConfigInit
  /\ account = [u \in Clowns |-> IF u \in FirstAdmins THEN "live" ELSE "none"]
  /\ admins = FirstAdmins
  /\ pkce = [u \in Clowns |-> None]
  /\ cookie = [u \in Clowns |-> None]
  /\ op = [u \in Clowns |-> NoOp]
  /\ gone = [u \in Clowns |-> IF u \in FirstAdmins THEN 0 ELSE SessionLife]
  /\ late = [c \in Containers |-> 0]

ClownNext(u) ==
  \/ \E c \in Containers : \/ login(u, c) \/ callback(u, c) \/ _restart_login(u, c)
                           \/ require_member(u, c)
                           \/ \E k \in Op : require_admin(u, c, k)
  \/ logout(u)
  \/ _promote_clown(u) \/ _demote_clown(u) \/ _delete_clown(u) \/ _create_clown(u)
  \/ OpLost(u)

SignInConfig ==
  /\ Containing
  /\ UNCHANGED <<poolVars, pkce, cookie, op, gone, late>>

SignInNext == (\E u \in Clowns : ClownNext(u)) \/ SignInConfig \/ SecretEdited \/ SignInTick

SignInSpec == SignInInit /\ [][SignInNext]_signInVars

-----------------------------------------------------------------------------
(* Properties *)

SignInTypeOK ==
  /\ ConfigTypeOK
  /\ account \in [Clowns -> {"none", "live", "deleted"}]
  /\ admins \subseteq Clowns
  /\ pkce \in [Clowns -> PkceCookie \cup {None}]
  /\ cookie \in [Clowns -> SessionCookie \cup {None}]
  /\ op \in [Clowns -> Op \cup {NoOp}]
  /\ gone \in [Clowns -> 0..SessionLife]
  /\ late \in [Containers -> 0..2]

\* A demoted or deleted admin is let into the admin pages no longer than a
\* session lasts: the claim in the cookie is as old as the cookie.
RightsEnd ==
  [][\A u \in Clowns : op[u] = NoOp /\ op'[u] # NoOp => gone[u] < SessionLife]_signInVars

\* Once a rotation of the session secret is TTL old, a container lets at most
\* one more request in under the retired secret, however long it sat idle in
\* between: that request brings its copy up to date.
RetiredSecretOnce == \A c \in Containers : late[c] <= 1
=============================================================================
