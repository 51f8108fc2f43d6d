---------------------------- MODULE ClownProfiles ----------------------------
(***************************************************************************)
(* The krewe's profiles (the ClownProfiles table) and the accounts they    *)
(* are linked to (the Cognito user pool).  Every handler here reads the    *)
(* whole table first, decides on that copy, and writes one row with a      *)
(* later call; Requests are the invocations that run at the same time.     *)
(***************************************************************************)
EXTENDS Naturals, Sequences, FiniteSets

CONSTANTS
  Logins,     \* subs: the names of accounts of this pool and of retired ones
  Emails,
  EmailOf,    \* the address of each login
  Verified,   \* the logins whose address Cognito has verified
  Rows,       \* bound: clown_ids (a uuid each, so none is used twice)
  Csvs,       \* the email columns of the files an admin imports
  Requests,   \* concurrent requests that touch profiles
  None

ASSUME LoginsAssumption ==
  /\ EmailOf \in [Logins -> Emails]
  /\ Verified \subseteq Logins
  /\ None \notin Logins \cup Emails \cup Rows
ASSUME CsvsAssumption == Csvs \subseteq Seq(Emails)

VARIABLES account, rows, req
vars == <<account, rows, req>>

-----------------------------------------------------------------------------
(* State *)

\* "deleted": the account is gone and a session cookie of it may still be
\* accepted; "retired": no account of this pool, and no session either.
Account == {"none", "live", "deleted", "retired"}

\* "put" tells a row some put_item wrote from one that update_item invented;
\* "by" is history: who set cognito_sub last.
Item == [is : {"put", "ghost"}, cognito_sub : Logins \cup {None},
         email : Emails \cup {None}, by : {"clown", "admin"}]
Unused == [is |-> "unused"]
Deleted == [is |-> "deleted"]
Row == Item \cup {Unused, Deleted}

\* What a request holds between two calls: the table as it read it, the accounts
\* that were live and those of them beyond the page of list_users it read, the
\* login it is for, the row it will write, the CSV lines left.
Idle == [at |-> "idle", who |-> None, row |-> None, table |-> <<>>, users |-> {},
         beyond |-> {}, invite |-> FALSE, lines |-> <<>>]
Request == [at : {"idle", "adopt", "edit", "link", "import"}, who : Logins \cup {None},
            row : Rows \cup {None}, table : [Rows -> Row] \cup {<<>>},
            users : SUBSET Logins, beyond : SUBSET Logins, invite : BOOLEAN,
            lines : Seq(Emails)]

Exists(table, r) == table[r].is \in {"put", "ghost"}
LinkedTo(table, s) == {r \in Rows : Exists(table, r) /\ table[r].cognito_sub = s}
\* For mutation: the address is not compared.
anybody(table, e) == {r \in Rows : Exists(table, r) /\ table[r].email # None}
HasEmail(table, e) == {r \in Rows : Exists(table, r) /\ table[r].email = e}

\* For mutation: the Username, which is the sub on this pool, taken for the address.
NewRowByUsername(s, e, by) == [is |-> "put", cognito_sub |-> s, email |-> s, by |-> by]
NewRow(s, e, by) == [is |-> "put", cognito_sub |-> s, email |-> e, by |-> by]

\* update_item: the row is made if it is not there.
Upserted(r) == IF Exists(rows, r) THEN rows[r]
               ELSE [is |-> "ghost", cognito_sub |-> None, email |-> None, by |-> "clown"]
SetSub(r, s, by) == rows' = [rows EXCEPT ![r] = [Upserted(r) EXCEPT !.cognito_sub = s, !.by = by]]
PutRow(s, e, by) == \E r \in Rows : rows[r] = Unused /\ rows' = [rows EXCEPT ![r] = NewRow(s, e, by)]

Starts(p, state) == req[p].at = "idle" /\ req' = [req EXCEPT ![p] = state]
Ends(p) == req' = [req EXCEPT ![p] = Idle]

-----------------------------------------------------------------------------
(* _my_profile, the start of every page of a signed-in clown *)

\* For mutation: a stored sub is never looked up, so none counts as live.
sub_is_never_live(s) == account[s] = "none"
_cognito_sub_is_live(s) == account[s] = "live"

HasSession(s) == account[s] \in {"live", "deleted"}

\* 1. The clown's row is there; a posted profile form will write it.
VisitFinds(p, s) ==
  /\ HasSession(s)
  /\ \E r \in LinkedTo(rows, s) : Starts(p, [Idle EXCEPT !.at = "edit", !.who = s, !.row = r])
  /\ UNCHANGED <<account, rows>>

VisitMisses(p, s) ==
  /\ HasSession(s)
  /\ LinkedTo(rows, s) = {}
  /\ Starts(p, [Idle EXCEPT !.at = "adopt", !.who = s, !.table = rows])
  /\ UNCHANGED <<account, rows>>

\* Rows with the clown's verified address and no current account behind them.
Adoptable(table, s) ==
  {r \in HasEmail(table, EmailOf[s]) :
     /\ s \in Verified
     /\ table[r].cognito_sub = None \/ ~_cognito_sub_is_live(table[r].cognito_sub)}

\* 2. The first such row is taken over; the write has no condition.
VisitAdopts(p) ==
  LET s == req[p].who IN
  /\ req[p].at = "adopt"
  /\ \E r \in Adoptable(req[p].table, s) :
       /\ SetSub(r, s, "clown")
       /\ req' = [req EXCEPT ![p] = [Idle EXCEPT !.at = "edit", !.who = s, !.row = r]]
  /\ UNCHANGED account

\* 3. A fresh row.
VisitCreates(p) ==
  LET s == req[p].who IN
  /\ req[p].at = "adopt"
  /\ Adoptable(req[p].table, s) = {}
  /\ \E r \in Rows :
       /\ rows[r] = Unused
       /\ rows' = [rows EXCEPT ![r] = NewRow(s, EmailOf[s], "clown")]
       /\ req' = [req EXCEPT ![p] = [Idle EXCEPT !.at = "edit", !.who = s, !.row = r]]
  /\ UNCHANGED account

\* The form's write, which is not asked to require that the row exists.
EditOwn(p) ==
  /\ req[p].at = "edit"
  /\ rows' = [rows EXCEPT ![req[p].row] = Upserted(req[p].row)]
  /\ Ends(p)
  /\ UNCHANGED account

-----------------------------------------------------------------------------
(* The admin's pages *)

\* For mutation: the scan for another profile of that login is left out.
linked_nowhere(r, s) == r \in Rows
LinkAllowed(r, s) == LinkedTo(rows, s) \subseteq {r}

LinkReads(p, r, s) ==
  /\ account[s] = "live"
  /\ LinkAllowed(r, s)
  /\ rows[r] # Unused
  /\ Starts(p, [Idle EXCEPT !.at = "link", !.who = s, !.row = r])
  /\ UNCHANGED <<account, rows>>

\* The one update that asks for a row that exists.
LinkWrites(p) ==
  /\ req[p].at = "link"
  /\ IF Exists(rows, req[p].row) THEN SetSub(req[p].row, req[p].who, "admin")
     ELSE UNCHANGED rows
  /\ Ends(p)
  /\ UNCHANGED account

Unlink(p, r) ==
  /\ req[p].at = "idle"
  /\ Exists(rows, r)
  /\ SetSub(r, None, "admin")
  /\ UNCHANGED <<account, req>>

DeleteProfile(p, r) ==
  /\ req[p].at = "idle"
  /\ Exists(rows, r)
  /\ rows' = [rows EXCEPT ![r] = Deleted]
  /\ UNCHANGED <<account, req>>

AddHistorical(p) ==
  /\ req[p].at = "idle"
  /\ PutRow(None, None, "admin")
  /\ UNCHANGED <<account, req>>

-----------------------------------------------------------------------------
(* The CSV import *)

Live == {s \in Logins : account[s] = "live"}

\* Whose login is live is asked for one by one; the addresses come from the
\* first page of list_users, which may leave any of the accounts out.
ImportReads(p) ==
  /\ \E csv \in Csvs, invite \in BOOLEAN, beyond \in SUBSET Live :
       Starts(p, [Idle EXCEPT !.at = "import", !.table = rows, !.users = Live,
                              !.beyond = beyond, !.invite = invite, !.lines = csv])
  /\ UNCHANGED <<account, rows>>

\* cognito_by_email, then by_sub, then by_email, all as first read.
SubsOf(q, e) == {s \in q.users \ q.beyond : EmailOf[s] = e}
Reclaimable(q, e) ==
  {r \in HasEmail(q.table, e) : q.table[r].cognito_sub \notin q.users}
RowsOf(q, e) ==
  LET linked == UNION {LinkedTo(q.table, s) : s \in SubsOf(q, e)}
  IN IF linked # {} THEN linked ELSE Reclaimable(q, e)

NextLine(p) == [req EXCEPT ![p] = [@ EXCEPT !.lines = Tail(req[p].lines), !.who = None]]
AtLine(p) == req[p].at = "import" /\ req[p].lines # <<>>

ImportUpdates(p) ==
  LET q == req[p]
      e == Head(q.lines) IN
  /\ AtLine(p)
  /\ \E r \in RowsOf(q, e) :
       IF SubsOf(q, e) = {} THEN rows' = [rows EXCEPT ![r] = Upserted(r)]
       ELSE \E s \in SubsOf(q, e) :
              IF q.table[r].cognito_sub = s THEN rows' = [rows EXCEPT ![r] = Upserted(r)]
                                            ELSE SetSub(r, s, "clown")
  /\ req' = NextLine(p)
  /\ UNCHANGED account

\* admin_create_user: Cognito refuses an address that has an account; that or any
\* other error skips the line.
TakenEmail(e) == \E s \in Live : EmailOf[s] = e

ImportInvites(p) ==
  LET e == Head(req[p].lines) IN
  /\ AtLine(p)
  /\ RowsOf(req[p], e) = {} /\ SubsOf(req[p], e) = {}
  /\ req[p].invite /\ req[p].who = None
  /\ \/ req' = NextLine(p) /\ UNCHANGED account
     \/ \E s \in Logins :
          /\ ~TakenEmail(e)
          /\ account[s] = "none" /\ EmailOf[s] = e
          /\ account' = [account EXCEPT ![s] = "live"]
          /\ req' = [req EXCEPT ![p] = [@ EXCEPT !.who = s]]
  /\ UNCHANGED rows

ImportCreates(p) ==
  LET q == req[p]
      e == Head(q.lines) IN
  /\ AtLine(p)
  /\ RowsOf(q, e) = {}
  /\ \/ \E s \in SubsOf(q, e) : PutRow(s, e, "clown")
     \/ /\ SubsOf(q, e) = {}
        /\ q.invite => q.who # None
        /\ PutRow(q.who, e, "clown")
  /\ req' = NextLine(p)
  /\ UNCHANGED account

\* The page is shown and nothing more is written, or the invocation is lost.
RequestEnds(p) ==
  /\ req[p].at # "idle"
  /\ Ends(p)
  /\ UNCHANGED <<account, rows>>

-----------------------------------------------------------------------------
(* Accounts, changed on their own page and by single calls *)

Invite(s) ==
  /\ account[s] = "none"
  /\ ~TakenEmail(EmailOf[s])
  /\ account' = [account EXCEPT ![s] = "live"]
  /\ UNCHANGED <<rows, req>>

DeleteAccount(s) ==
  /\ account[s] = "live"
  /\ account' = [account EXCEPT ![s] = "deleted"]
  /\ UNCHANGED <<rows, req>>

SessionEnds(s) ==
  /\ account[s] = "deleted"
  /\ \A p \in Requests : req[p].who # s
  /\ account' = [account EXCEPT ![s] = "retired"]
  /\ UNCHANGED <<rows, req>>

-----------------------------------------------------------------------------

\* The table as a retired pool left it: one row for some of its logins.
LeftBehind(s) == [is |-> "put", cognito_sub |-> s, email |-> EmailOf[s], by |-> "clown"]
Init ==
  /\ account \in [Logins -> {"none", "retired"}]
  /\ rows \in [Rows -> {Unused} \cup {LeftBehind(s) : s \in Logins}]
  /\ \A r \in Rows : Exists(rows, r) => account[rows[r].cognito_sub] = "retired"
  /\ \A s \in Logins : \A r1, r2 \in LinkedTo(rows, s) : r1 = r2
  /\ req = [p \in Requests |-> Idle]

ProfileNext(p) ==
  \/ \E s \in Logins : VisitFinds(p, s) \/ VisitMisses(p, s)
  \/ VisitAdopts(p) \/ VisitCreates(p) \/ EditOwn(p)
  \/ \E r \in Rows, s \in Logins : LinkReads(p, r, s)
  \/ LinkWrites(p)
  \/ \E r \in Rows : Unlink(p, r) \/ DeleteProfile(p, r)
  \/ AddHistorical(p)
  \/ ImportReads(p) \/ ImportUpdates(p) \/ ImportInvites(p) \/ ImportCreates(p)
  \/ RequestEnds(p)
AccountNext == \E s \in Logins : Invite(s) \/ DeleteAccount(s) \/ SessionEnds(s)

Next == (\E p \in Requests : ProfileNext(p)) \/ AccountNext
Spec == Init /\ [][Next]_vars

-----------------------------------------------------------------------------
(* Properties *)

\* Types of the tables and of the requests.
TypeOK ==
  /\ account \in [Logins -> Account]
  /\ rows \in [Rows -> Row]
  /\ req \in [Requests -> Request]

\* A login has one profile: first visits, adoption by email, the admin's link
\* and the import, in any sequence and with accounts changing beneath them,
\* never leave two rows with the same cognito_sub (_my_profile's order of
\* matches, link_clown_account's scan, the importer's by_sub and by_email).
OneRowPerLogin == \A s \in Logins : \A r1, r2 \in LinkedTo(rows, s) : r1 = r2

\* Whoever a profile with an address is linked to has that address, unless an
\* admin made the link by hand: adoption and import match by email only.
EmailVouches ==
  \A r \in Rows : Exists(rows, r) /\ rows[r].by = "clown" =>
    \/ rows[r].cognito_sub = None
    \/ rows[r].email = None
    \/ EmailOf[rows[r].cognito_sub] = rows[r].email

\* A profile does not pass from an account that exists to another one except
\* by an admin's link (_cognito_sub_is_live: "not ours to adopt").
KeepsLiveLogin ==
  [][\A r \in Rows :
       LET s == rows[r].cognito_sub IN
       Exists(rows, r) /\ Exists(rows', r) /\ s # None /\ rows'[r].cognito_sub # s =>
         account[s] # "live" \/ rows'[r].by = "admin"]_vars

\* A profile form is written to the clown's own profile: when the write lands,
\* nobody else's account is linked to that row (the design's "a clown editing
\* someone else's profile: impossible").
EditsOwnRow ==
  \A p \in Requests :
    req[p].at = "edit" /\ Exists(rows, req[p].row) =>
      rows[req[p].row].cognito_sub \in {req[p].who, None}
=============================================================================
