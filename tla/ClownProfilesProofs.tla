------------------------- MODULE ClownProfilesProofs -------------------------
(***************************************************************************)
(* Theorems about ClownProfiles for every set of logins, rows, files and   *)
(* concurrent requests; OneRowPerLogin for requests one at a time.         *)
(***************************************************************************)
EXTENDS ClownInvariants, TLAPS

-----------------------------------------------------------------------------
(* Types *)

\* A request that holds nothing is one.
LEMMA IdleFacts ==
  /\ Idle \in Request
  /\ Idle.at = "idle" /\ Idle.who = None /\ Idle.users = {} /\ Idle.lines = <<>>
BY DEF Idle, Request

\* What update_item leaves is an item, whether the row was there or not.
LEMMA UpsertedType ==
  ASSUME rows \in [Rows -> Row], NEW r \in Rows
  PROVE  Upserted(r) \in Item
BY LoginsAssumption DEF Upserted, Row, Item, Exists, Unused, Deleted

\* So is what it leaves when it sets the login.
LEMMA SetSubType ==
  ASSUME rows \in [Rows -> Row], NEW r \in Rows, NEW s \in Logins \cup {None},
         NEW by \in {"clown", "admin"}, SetSub(r, s, by)
  PROVE  rows' \in [Rows -> Row]
<1>1. [Upserted(r) EXCEPT !.cognito_sub = s, !.by = by] \in Item
  BY UpsertedType DEF Item
<1> QED
  BY <1>1 DEF SetSub, Row

\* An import that is done with a line is a request with fewer lines.
LEMMA NextLineType ==
  ASSUME req \in [Requests -> Request], NEW p \in Requests, AtLine(p)
  PROVE  [req[p] EXCEPT !.lines = Tail(req[p].lines), !.who = None] \in Request
<1>1. Tail(req[p].lines) \in Seq(Emails)
  BY DEF AtLine, Request
<1> QED
  BY <1>1 DEF Request

\* An import that invited somebody is a request for that login.
LEMMA RequestForType ==
  ASSUME NEW q \in Request, NEW s \in Logins
  PROVE  [q EXCEPT !.who = s] \in Request
BY DEF Request

\* An import's update writes one row, with or without a login of its list.
LEMMA ImportedRow ==
  ASSUME TypeOK, NEW p \in Requests, ImportUpdates(p)
  PROVE  \E r \in RowsOf(req[p], Head(req[p].lines)) :
           /\ r \in Rows
           /\ \/ rows' = [rows EXCEPT ![r] = Upserted(r)]
              \/ \E s \in SubsOf(req[p], Head(req[p].lines)) :
                   /\ s \in Logins /\ req[p].table[r].cognito_sub # s
                   /\ SetSub(r, s, "clown")
BY DEF ImportUpdates, TypeOK, Request, SubsOf, RowsOf, LinkedTo, Reclaimable, HasEmail

\* Every step keeps the types, and what a request must know.
LEMMA TypeStep ==
  ASSUME TypeOK, RequestsKnow, [Next]_vars
  PROVE  TypeOK' /\ RequestsKnow'
<1> USE LoginsAssumption, IdleFacts DEF TypeOK, RequestsKnow, Reads, Starts, Ends
<1>1. ASSUME NEW p \in Requests, NEW s \in Logins, VisitFinds(p, s)
      PROVE  TypeOK' /\ RequestsKnow'
  <2> USE <1>1 DEF VisitFinds
  <2>6. PICK r \in Rows : req' = [req EXCEPT ![p] = [Idle EXCEPT !.at = "edit", !.who = s, !.row = r]]
    BY DEF LinkedTo
  <2>0. [Idle EXCEPT !.at = "edit", !.who = s, !.row = r] \in Request
    BY DEF Request
  <2>1. rows' \in [Rows -> Row]
    BY DEF Row
  <2>2. req' \in [Requests -> Request]
    BY <2>0, <2>6 DEF NextLine
  <2>3. account' \in [Logins -> Account]
    BY DEF Account
  <2>4. RequestsKnow'
    BY <2>0, <2>6 DEF Request, NextLine, AtLine
  <2> QED
    BY <2>1, <2>2, <2>3, <2>4
<1>2. ASSUME NEW p \in Requests, NEW s \in Logins, VisitMisses(p, s)
      PROVE  TypeOK' /\ RequestsKnow'
  BY <1>2 DEF VisitMisses, Account, Request, Row
<1>3. ASSUME NEW p \in Requests, VisitAdopts(p)
      PROVE  TypeOK' /\ RequestsKnow'
  <2> USE <1>3 DEF VisitAdopts
  <2>6. PICK r \in Rows :
          /\ SetSub(r, req[p].who, "clown")
          /\ req' = [req EXCEPT ![p] = [Idle EXCEPT !.at = "edit", !.who = req[p].who, !.row = r]]
    BY DEF Adoptable, HasEmail
  <2>0. [Idle EXCEPT !.at = "edit", !.who = req[p].who, !.row = r] \in Request
    BY DEF Request
  <2>7. rows' \in [Rows -> Row]
    BY <2>6, SetSubType
  <2>1. rows' \in [Rows -> Row]
    BY <2>7 DEF Row
  <2>2. req' \in [Requests -> Request]
    BY <2>0, <2>6 DEF NextLine
  <2>3. account' \in [Logins -> Account]
    BY DEF Account
  <2>4. RequestsKnow'
    BY <2>0, <2>6 DEF Request, NextLine, AtLine
  <2> QED
    BY <2>1, <2>2, <2>3, <2>4
<1>4. ASSUME NEW p \in Requests, VisitCreates(p)
      PROVE  TypeOK' /\ RequestsKnow'
  <2> USE <1>4 DEF VisitCreates
  <2>6. PICK r \in Rows :
          /\ rows' = [rows EXCEPT ![r] = NewRow(req[p].who, EmailOf[req[p].who], "clown")]
          /\ req' = [req EXCEPT ![p] = [Idle EXCEPT !.at = "edit", !.who = req[p].who, !.row = r]]
    OBVIOUS
  <2>0. [Idle EXCEPT !.at = "edit", !.who = req[p].who, !.row = r] \in Request
    BY DEF Request
  <2>7. NewRow(req[p].who, EmailOf[req[p].who], "clown") \in Item
    BY DEF NewRow, Item
  <2>1. rows' \in [Rows -> Row]
    BY <2>6, <2>7 DEF Row
  <2>2. req' \in [Requests -> Request]
    BY <2>0, <2>6 DEF NextLine
  <2>3. account' \in [Logins -> Account]
    BY DEF Account
  <2>4. RequestsKnow'
    BY <2>0, <2>6 DEF Request, NextLine, AtLine
  <2> QED
    BY <2>1, <2>2, <2>3, <2>4
<1>5. ASSUME NEW p \in Requests, EditOwn(p)
      PROVE  TypeOK' /\ RequestsKnow'
  BY <1>5, UpsertedType DEF EditOwn, Account, Request, Row
<1>6. ASSUME NEW p \in Requests, NEW r \in Rows, NEW s \in Logins, LinkReads(p, r, s)
      PROVE  TypeOK' /\ RequestsKnow'
  BY <1>6 DEF LinkReads, Account, Request, Row
<1>7. ASSUME NEW p \in Requests, LinkWrites(p)
      PROVE  TypeOK' /\ RequestsKnow'
  BY <1>7, SetSubType DEF LinkWrites, Account, Request, Row
<1>8. ASSUME NEW p \in Requests, NEW r \in Rows, Unlink(p, r)
      PROVE  TypeOK' /\ RequestsKnow'
  BY <1>8, SetSubType DEF Unlink, Account, Request, Row
<1>9. ASSUME NEW p \in Requests, NEW r \in Rows, DeleteProfile(p, r)
      PROVE  TypeOK' /\ RequestsKnow'
  BY <1>9 DEF DeleteProfile, Account, Request, Row
<1>10. ASSUME NEW p \in Requests, AddHistorical(p)
       PROVE  TypeOK' /\ RequestsKnow'
  <2> USE <1>10 DEF AddHistorical, PutRow
  <2>7. NewRow(None, None, "admin") \in Item
    BY DEF NewRow, Item
  <2>1. rows' \in [Rows -> Row]
    BY <2>7 DEF Row
  <2>2. req' \in [Requests -> Request]
    OBVIOUS
  <2>3. account' \in [Logins -> Account]
    BY DEF Account
  <2>4. RequestsKnow'
    BY DEF Request, NextLine, AtLine
  <2> QED
    BY <2>1, <2>2, <2>3, <2>4
<1>11. ASSUME NEW p \in Requests, ImportReads(p)
       PROVE  TypeOK' /\ RequestsKnow'
  <2> USE <1>11 DEF ImportReads
  <2>6. PICK csv \in Csvs, invite \in BOOLEAN, beyond \in SUBSET Live :
          req' = [req EXCEPT ![p] = [Idle EXCEPT !.at = "import", !.table = rows,
                     !.users = Live, !.beyond = beyond, !.invite = invite, !.lines = csv]]
    OBVIOUS
  <2>7. Live \subseteq Logins /\ csv \in Seq(Emails)
    BY CsvsAssumption DEF Live
  <2>0. [Idle EXCEPT !.at = "import", !.table = rows, !.users = Live, !.beyond = beyond,
                     !.invite = invite, !.lines = csv] \in Request
    BY <2>7 DEF Request
  <2>1. rows' \in [Rows -> Row]
    BY DEF Row
  <2>2. req' \in [Requests -> Request]
    BY <2>0, <2>6 DEF NextLine
  <2>3. account' \in [Logins -> Account]
    BY DEF Account
  <2>4. RequestsKnow'
    BY <2>0, <2>6 DEF Request, NextLine, AtLine
  <2> QED
    BY <2>1, <2>2, <2>3, <2>4
<1>12. ASSUME NEW p \in Requests, ImportUpdates(p)
       PROVE  TypeOK' /\ RequestsKnow'
  <2> USE <1>12 DEF ImportUpdates
  <2>6. [req[p] EXCEPT !.lines = Tail(req[p].lines), !.who = None] \in Request
    BY NextLineType
  <2>7. PICK r \in Rows :
          \/ rows' = [rows EXCEPT ![r] = Upserted(r)]
          \/ \E s \in Logins : SetSub(r, s, "clown")
    BY ImportedRow
  <2>8. rows' \in [Rows -> Row]
    <3>1. CASE rows' = [rows EXCEPT ![r] = Upserted(r)]
      BY <3>1, UpsertedType DEF Row
    <3>2. CASE \E s \in Logins : SetSub(r, s, "clown")
      BY <3>2, SetSubType
    <3> QED
      BY <2>7, <3>1, <3>2
  <2>1. rows' \in [Rows -> Row]
    BY <2>8 DEF Row
  <2>2. req' \in [Requests -> Request]
    BY <2>6 DEF NextLine
  <2>3. account' \in [Logins -> Account]
    BY DEF Account
  <2>4. RequestsKnow'
    BY <2>6 DEF Request, NextLine, AtLine
  <2> QED
    BY <2>1, <2>2, <2>3, <2>4
<1>13. ASSUME NEW p \in Requests, ImportInvites(p)
       PROVE  TypeOK' /\ RequestsKnow'
  <2> USE <1>13 DEF ImportInvites
  <2>6. [req[p] EXCEPT !.lines = Tail(req[p].lines), !.who = None] \in Request
    BY NextLineType
  <2>7. \A s \in Logins : [req[p] EXCEPT !.who = s] \in Request
    BY RequestForType
  <2>1. rows' \in [Rows -> Row]
    BY DEF Row
  <2>2. req' \in [Requests -> Request]
    BY <2>6, <2>7 DEF NextLine
  <2>3. account' \in [Logins -> Account]
    BY DEF Account
  <2>4. RequestsKnow'
    <3>1. CASE req' = NextLine(p)
      BY <3>1, <2>6 DEF Request, NextLine, AtLine
    <3>2. CASE \E s \in Logins : req' = [req EXCEPT ![p].who = s]
      BY <3>2 DEF Request, AtLine
    <3> QED
      BY <3>1, <3>2
  <2> QED
    BY <2>1, <2>2, <2>3, <2>4
<1>14. ASSUME NEW p \in Requests, ImportCreates(p)
       PROVE  TypeOK' /\ RequestsKnow'
  <2> USE <1>14 DEF ImportCreates, PutRow
  <2>6. [req[p] EXCEPT !.lines = Tail(req[p].lines), !.who = None] \in Request
    BY NextLineType
  <2>7. PICK s \in Logins \cup {None}, r \in Rows :
          rows' = [rows EXCEPT ![r] = NewRow(s, Head(req[p].lines), "clown")]
    BY DEF SubsOf, Request
  <2>8. NewRow(s, Head(req[p].lines), "clown") \in Item
    <3>1. Head(req[p].lines) \in Emails
      BY DEF AtLine, Request
    <3> QED
      BY <3>1 DEF NewRow, Item
  <2>1. rows' \in [Rows -> Row]
    BY <2>7, <2>8 DEF Row
  <2>2. req' \in [Requests -> Request]
    BY <2>6 DEF NextLine
  <2>3. account' \in [Logins -> Account]
    BY DEF Account
  <2>4. RequestsKnow'
    BY <2>6 DEF Request, NextLine, AtLine
  <2> QED
    BY <2>1, <2>2, <2>3, <2>4
<1>15. ASSUME NEW p \in Requests, RequestEnds(p)
       PROVE  TypeOK' /\ RequestsKnow'
  BY <1>15 DEF RequestEnds, Account, Request, Row
<1>16. ASSUME NEW s \in Logins, Invite(s)
       PROVE  TypeOK' /\ RequestsKnow'
  BY <1>16 DEF Invite, Account, Request, Row
<1>17. ASSUME NEW s \in Logins, DeleteAccount(s)
       PROVE  TypeOK' /\ RequestsKnow'
  BY <1>17 DEF DeleteAccount, Account, Request, Row
<1>18. ASSUME NEW s \in Logins, SessionEnds(s)
       PROVE  TypeOK' /\ RequestsKnow'
  BY <1>18 DEF SessionEnds, Account, Request, Row
<1>20. CASE UNCHANGED vars
  BY <1>20 DEF vars
<1> QED
  BY <1>1, <1>2, <1>3, <1>4, <1>5, <1>6, <1>7, <1>8, <1>9, <1>10, <1>11, <1>12, <1>13, <1>14, <1>15, <1>16, <1>17, <1>18,
     <1>20 DEF Next, ProfileNext, AccountNext

-----------------------------------------------------------------------------
(* Addresses *)

\* A row keeps its address; one that was there before never becomes unused.
AddressesStay ==
  \A r \in Rows :
    /\ rows'[r] = Unused => rows[r] = Unused
    /\ Exists(rows', r) /\ rows'[r].email # None =>
         \/ rows[r] = Unused
         \/ Exists(rows, r) /\ rows[r].email = rows'[r].email

\* update_item leaves the address as it was, or makes a row without one.
LEMMA UpsertedAddress ==
  ASSUME rows \in [Rows -> Row], NEW r \in Rows
  PROVE  /\ Upserted(r).is \in {"put", "ghost"}
         /\ Upserted(r).email # None => Exists(rows, r) /\ rows[r].email = Upserted(r).email
         /\ Exists(rows, r) => Upserted(r) = rows[r]
BY LoginsAssumption DEF Upserted, Row, Item, Exists, Unused, Deleted

\* No item is the mark of an unused row.
LEMMA ItemUsed == ASSUME NEW i \in Item PROVE i # Unused /\ i # Deleted /\ i.is \in {"put", "ghost"}
BY DEF Item, Unused, Deleted

\* One row is replaced, by update_item or a put to a row not used before.
LEMMA UpsertStays ==
  ASSUME rows \in [Rows -> Row], NEW r \in Rows, rows' = [rows EXCEPT ![r] = Upserted(r)]
  PROVE  AddressesStay
BY UpsertedAddress, UpsertedType, ItemUsed DEF AddressesStay, Exists

LEMMA SetSubStays ==
  ASSUME rows \in [Rows -> Row], NEW r \in Rows, NEW s \in Logins \cup {None},
         NEW by \in {"clown", "admin"}, SetSub(r, s, by)
  PROVE  AddressesStay
<1> DEFINE i == [Upserted(r) EXCEPT !.cognito_sub = s, !.by = by]
<1>1. i \in Item /\ i.email = Upserted(r).email
  BY UpsertedType DEF Item
<1>2. rows' = [rows EXCEPT ![r] = i]
  BY DEF SetSub
<1> QED
  BY <1>1, <1>2, UpsertedAddress, ItemUsed DEF AddressesStay, Exists

LEMMA PutStays ==
  ASSUME rows \in [Rows -> Row], NEW r \in Rows, rows[r] = Unused,
         NEW i, i.is = "put", rows' = [rows EXCEPT ![r] = i]
  PROVE  AddressesStay
BY DEF AddressesStay, Exists, Unused

\* So every step leaves them.
LEMMA AddressesStayStep ==
  ASSUME TypeOK, RequestsKnow, [Next]_vars
  PROVE  AddressesStay
<1> USE LoginsAssumption DEF TypeOK, RequestsKnow
<1>1. ASSUME NEW p \in Requests, NEW s \in Logins, VisitFinds(p, s)
      PROVE  AddressesStay
  BY <1>1 DEF VisitFinds, AddressesStay
<1>2. ASSUME NEW p \in Requests, NEW s \in Logins, VisitMisses(p, s)
      PROVE  AddressesStay
  BY <1>2 DEF VisitMisses, AddressesStay
<1>3. ASSUME NEW p \in Requests, VisitAdopts(p)
      PROVE  AddressesStay
  BY <1>3, SetSubStays DEF VisitAdopts, Adoptable, HasEmail
<1>4. ASSUME NEW p \in Requests, VisitCreates(p)
      PROVE  AddressesStay
  BY <1>4, PutStays DEF VisitCreates, NewRow
<1>5. ASSUME NEW p \in Requests, EditOwn(p)
      PROVE  AddressesStay
  BY <1>5, UpsertStays DEF EditOwn
<1>6. ASSUME NEW p \in Requests, NEW r \in Rows, NEW s \in Logins, LinkReads(p, r, s)
      PROVE  AddressesStay
  BY <1>6 DEF LinkReads, AddressesStay
<1>7. ASSUME NEW p \in Requests, LinkWrites(p)
      PROVE  AddressesStay
  BY <1>7, SetSubStays DEF LinkWrites, AddressesStay
<1>8. ASSUME NEW p \in Requests, NEW r \in Rows, Unlink(p, r)
      PROVE  AddressesStay
  BY <1>8, SetSubStays DEF Unlink
<1>9. ASSUME NEW p \in Requests, NEW r \in Rows, DeleteProfile(p, r)
      PROVE  AddressesStay
  BY <1>9 DEF DeleteProfile, AddressesStay, Deleted, Unused, Exists
<1>10. ASSUME NEW p \in Requests, AddHistorical(p)
       PROVE  AddressesStay
  BY <1>10, PutStays DEF AddHistorical, PutRow, NewRow
<1>11. ASSUME NEW p \in Requests, ImportReads(p)
       PROVE  AddressesStay
  BY <1>11 DEF ImportReads, AddressesStay
<1>12. ASSUME NEW p \in Requests, ImportUpdates(p)
       PROVE  AddressesStay
  BY <1>12, ImportedRow, UpsertStays, SetSubStays DEF ImportUpdates, TypeOK
<1>13. ASSUME NEW p \in Requests, ImportInvites(p)
       PROVE  AddressesStay
  BY <1>13 DEF ImportInvites, AddressesStay
<1>14. ASSUME NEW p \in Requests, ImportCreates(p)
       PROVE  AddressesStay
  BY <1>14, PutStays DEF ImportCreates, PutRow, NewRow
<1>15. ASSUME NEW p \in Requests, RequestEnds(p)
       PROVE  AddressesStay
  BY <1>15 DEF RequestEnds, AddressesStay
<1>16. ASSUME NEW s \in Logins, Invite(s)
       PROVE  AddressesStay
  BY <1>16 DEF Invite, AddressesStay
<1>17. ASSUME NEW s \in Logins, DeleteAccount(s)
       PROVE  AddressesStay
  BY <1>17 DEF DeleteAccount, AddressesStay
<1>18. ASSUME NEW s \in Logins, SessionEnds(s)
       PROVE  AddressesStay
  BY <1>18 DEF SessionEnds, AddressesStay
<1>20. CASE UNCHANGED vars
  BY <1>20 DEF vars, AddressesStay
<1> QED
  BY <1>1, <1>2, <1>3, <1>4, <1>5, <1>6, <1>7, <1>8, <1>9, <1>10,
     <1>11, <1>12, <1>13, <1>14, <1>15, <1>16, <1>17, <1>18, <1>20
  DEF Next, ProfileNext, AccountNext

\* Cognito either refuses the line's address or gives out a new sub for it.
LEMMA InviteCases ==
  ASSUME NEW p \in Requests, ImportInvites(p)
  PROVE  /\ AtLine(p) /\ req[p].who = None /\ rows' = rows
         /\ \/ req' = NextLine(p) /\ account' = account
            \/ \E s \in Logins :
                 /\ account[s] = "none" /\ EmailOf[s] = Head(req[p].lines)
                 /\ ~TakenEmail(EmailOf[s])
                 /\ account' = [account EXCEPT ![s] = "live"]
                 /\ req' = [req EXCEPT ![p] = [@ EXCEPT !.who = s]]
BY DEF ImportInvites

\* A request's copy of the table is the one it read, or read in this step.
TablesLast ==
  \A q \in Requests : Reads(q)' =>
    \/ Reads(q) /\ req'[q].table = req[q].table
    \/ req'[q].table = rows /\ rows' = rows

\* Every step leaves it.
LEMMA TablesLastStep ==
  ASSUME TypeOK, [Next]_vars
  PROVE  TablesLast
<1> USE IdleFacts DEF TypeOK, Reads, Starts, Ends, NextLine, AtLine, TablesLast
<1>1. ASSUME NEW p \in Requests, NEW s \in Logins, VisitFinds(p, s)
      PROVE  TablesLast
  BY <1>1 DEF VisitFinds
<1>2. ASSUME NEW p \in Requests, NEW s \in Logins, VisitMisses(p, s)
      PROVE  TablesLast
  BY <1>2 DEF VisitMisses
<1>3. ASSUME NEW p \in Requests, VisitAdopts(p)
      PROVE  TablesLast
  BY <1>3 DEF VisitAdopts
<1>4. ASSUME NEW p \in Requests, VisitCreates(p)
      PROVE  TablesLast
  BY <1>4 DEF VisitCreates
<1>5. ASSUME NEW p \in Requests, EditOwn(p)
      PROVE  TablesLast
  BY <1>5 DEF EditOwn
<1>6. ASSUME NEW p \in Requests, NEW r \in Rows, NEW s \in Logins, LinkReads(p, r, s)
      PROVE  TablesLast
  BY <1>6 DEF LinkReads
<1>7. ASSUME NEW p \in Requests, LinkWrites(p)
      PROVE  TablesLast
  BY <1>7 DEF LinkWrites
<1>8. ASSUME NEW p \in Requests, NEW r \in Rows, Unlink(p, r)
      PROVE  TablesLast
  BY <1>8 DEF Unlink
<1>9. ASSUME NEW p \in Requests, NEW r \in Rows, DeleteProfile(p, r)
      PROVE  TablesLast
  BY <1>9 DEF DeleteProfile
<1>10. ASSUME NEW p \in Requests, AddHistorical(p)
       PROVE  TablesLast
  BY <1>10 DEF AddHistorical
<1>11. ASSUME NEW p \in Requests, ImportReads(p)
       PROVE  TablesLast
  BY <1>11 DEF ImportReads
<1>12. ASSUME NEW p \in Requests, ImportUpdates(p)
       PROVE  TablesLast
  BY <1>12 DEF ImportUpdates
<1>13. ASSUME NEW p \in Requests, ImportInvites(p)
       PROVE  TablesLast
  <2>0. AtLine(p) /\ req[p].who = None /\ rows' = rows
    BY <1>13, InviteCases
  <2>1. CASE req' = NextLine(p) /\ account' = account
    BY <2>0, <2>1 DEF Request
  <2>2. ASSUME NEW s \in Logins, account[s] = "none", EmailOf[s] = Head(req[p].lines),
               ~TakenEmail(EmailOf[s]), account' = [account EXCEPT ![s] = "live"],
               req' = [req EXCEPT ![p] = [@ EXCEPT !.who = s]]
        PROVE  TablesLast
    BY <2>0, <2>2 DEF Request
  <2> QED
    BY <1>13, <2>1, <2>2, InviteCases
<1>14. ASSUME NEW p \in Requests, ImportCreates(p)
       PROVE  TablesLast
  BY <1>14 DEF ImportCreates
<1>15. ASSUME NEW p \in Requests, RequestEnds(p)
       PROVE  TablesLast
  BY <1>15 DEF RequestEnds
<1>16. ASSUME NEW s \in Logins, Invite(s)
       PROVE  TablesLast
  BY <1>16 DEF Invite
<1>17. ASSUME NEW s \in Logins, DeleteAccount(s)
       PROVE  TablesLast
  BY <1>17 DEF DeleteAccount
<1>18. ASSUME NEW s \in Logins, SessionEnds(s)
       PROVE  TablesLast
  BY <1>18 DEF SessionEnds
<1>20. CASE UNCHANGED vars
  BY <1>20 DEF vars
<1> QED
  BY <1>1, <1>2, <1>3, <1>4, <1>5, <1>6, <1>7, <1>8, <1>9, <1>10,
     <1>11, <1>12, <1>13, <1>14, <1>15, <1>16, <1>17, <1>18, <1>20
  DEF Next, ProfileNext, AccountNext

\* What a request read of a row's address stays right.
LEMMA EmailsLastStep ==
  ASSUME TypeOK, RequestsKnow, EmailsLast, [Next]_vars
  PROVE  EmailsLast'
<1>1. AddressesStay /\ TablesLast
  BY AddressesStayStep, TablesLastStep
<1>2. TypeOK' /\ RequestsKnow'
  BY TypeStep
<1> SUFFICES ASSUME NEW q \in Requests, NEW r \in Rows, Reads(q)'
             PROVE  /\ rows'[r] = Unused => req'[q].table[r] = Unused
                    /\ Exists(req'[q].table, r) /\ Exists(rows', r) /\ rows'[r].email # None =>
                         rows'[r].email = req'[q].table[r].email
  BY DEF EmailsLast
<1>3. CASE Reads(q) /\ req'[q].table = req[q].table
  BY <1>1, <1>3 DEF AddressesStay, EmailsLast, Exists, Unused
<1>4. CASE req'[q].table = rows /\ rows' = rows
  BY <1>4
<1> QED
  BY <1>1, <1>3, <1>4 DEF TablesLast

-----------------------------------------------------------------------------
(* Links *)

\* The only link a step may add is the one from login s to row r.
AddsLinkOnly(r, s) ==
  \A t \in Logins, x \in Rows :
    x \in LinkedTo(rows', t) => x \in LinkedTo(rows, t) \/ (x = r /\ t = s)

LEMMA UpsertLinks ==
  ASSUME rows \in [Rows -> Row], NEW r \in Rows, rows' = [rows EXCEPT ![r] = Upserted(r)]
  PROVE  AddsLinkOnly(r, None)
BY LoginsAssumption DEF AddsLinkOnly, LinkedTo, Upserted, Exists

LEMMA SetSubLinks ==
  ASSUME rows \in [Rows -> Row], NEW r \in Rows, NEW s \in Logins \cup {None},
         NEW by \in {"clown", "admin"}, SetSub(r, s, by)
  PROVE  AddsLinkOnly(r, s)
<1>1. [Upserted(r) EXCEPT !.cognito_sub = s, !.by = by].cognito_sub = s
  BY UpsertedType DEF Item
<1> QED
  BY <1>1 DEF AddsLinkOnly, LinkedTo, Exists, SetSub

LEMMA PutLinks ==
  ASSUME rows \in [Rows -> Row], NEW r \in Rows, NEW s, NEW e, NEW by,
         rows' = [rows EXCEPT ![r] = NewRow(s, e, by)]
  PROVE  AddsLinkOnly(r, s)
BY DEF AddsLinkOnly, LinkedTo, Exists, NewRow

\* Cognito gives out a sub no row and no request has.
LEMMA NewSubsUnseenStep ==
  ASSUME TypeOK, RequestsKnow, NewSubsUnseen, [Next]_vars
  PROVE  NewSubsUnseen'
<1> USE LoginsAssumption, IdleFacts DEF TypeOK, RequestsKnow, NewSubsUnseen, Reads, Starts, Ends
<1>1. ASSUME NEW p \in Requests, NEW s \in Logins, VisitFinds(p, s)
      PROVE  NewSubsUnseen'
  BY <1>1 DEF VisitFinds, HasSession, LinkedTo, Exists
<1>2. ASSUME NEW p \in Requests, NEW s \in Logins, VisitMisses(p, s)
      PROVE  NewSubsUnseen'
  BY <1>2 DEF VisitMisses, HasSession, LinkedTo, Exists
<1>3. ASSUME NEW p \in Requests, VisitAdopts(p)
      PROVE  NewSubsUnseen'
  <2>1. PICK r \in Rows :
          /\ SetSub(r, req[p].who, "clown")
          /\ req' = [req EXCEPT ![p] = [Idle EXCEPT !.at = "edit", !.who = req[p].who, !.row = r]]
    BY <1>3 DEF VisitAdopts, Adoptable, HasEmail
  <2>2. AddsLinkOnly(r, req[p].who)
    BY <1>3, <2>1, SetSubLinks DEF VisitAdopts
  <2>3. account' = account /\ req[p].at = "adopt"
    BY <1>3 DEF VisitAdopts
  <2> QED
    BY <2>1, <2>2, <2>3 DEF AddsLinkOnly, LinkedTo
<1>4. ASSUME NEW p \in Requests, VisitCreates(p)
      PROVE  NewSubsUnseen'
  <2>1. PICK r \in Rows :
          /\ rows' = [rows EXCEPT ![r] = NewRow(req[p].who, EmailOf[req[p].who], "clown")]
          /\ req' = [req EXCEPT ![p] = [Idle EXCEPT !.at = "edit", !.who = req[p].who, !.row = r]]
    BY <1>4 DEF VisitCreates
  <2>2. AddsLinkOnly(r, req[p].who)
    BY <2>1, PutLinks
  <2>3. /\ account' = account /\ req[p].at = "adopt"
        /\ req' = [req EXCEPT ![p] = [Idle EXCEPT !.at = "edit", !.who = req[p].who, !.row = r]]
    BY <1>4, <2>1 DEF VisitCreates
  <2> QED
    BY <2>2, <2>3 DEF AddsLinkOnly, LinkedTo
<1>5. ASSUME NEW p \in Requests, EditOwn(p)
      PROVE  NewSubsUnseen'
  <2>1. AddsLinkOnly(req[p].row, None)
    BY <1>5, UpsertLinks DEF EditOwn
  <2>2. account' = account /\ req' = [req EXCEPT ![p] = Idle]
    BY <1>5 DEF EditOwn
  <2> QED
    BY <2>1, <2>2 DEF AddsLinkOnly, LinkedTo
<1>6. ASSUME NEW p \in Requests, NEW r \in Rows, NEW s \in Logins, LinkReads(p, r, s)
      PROVE  NewSubsUnseen'
  BY <1>6 DEF LinkReads, Idle, LinkedTo
<1>7. ASSUME NEW p \in Requests, LinkWrites(p)
      PROVE  NewSubsUnseen'
  BY <1>7, SetSubLinks DEF LinkWrites, AddsLinkOnly, LinkedTo
<1>8. ASSUME NEW p \in Requests, NEW r \in Rows, Unlink(p, r)
      PROVE  NewSubsUnseen'
  BY <1>8, SetSubLinks DEF Unlink, AddsLinkOnly, LinkedTo
<1>9. ASSUME NEW p \in Requests, NEW r \in Rows, DeleteProfile(p, r)
      PROVE  NewSubsUnseen'
  BY <1>9 DEF DeleteProfile, LinkedTo, Exists, Deleted
<1>10. ASSUME NEW p \in Requests, AddHistorical(p)
       PROVE  NewSubsUnseen'
  <2>1. PICK r \in Rows : rows' = [rows EXCEPT ![r] = NewRow(None, None, "admin")]
    BY <1>10 DEF AddHistorical, PutRow
  <2>2. AddsLinkOnly(r, None)
    BY <2>1, PutLinks
  <2>3. account' = account /\ req' = req
    BY <1>10 DEF AddHistorical
  <2> QED
    BY <2>2, <2>3 DEF AddsLinkOnly, LinkedTo
<1>11. ASSUME NEW p \in Requests, ImportReads(p)
       PROVE  NewSubsUnseen'
  BY <1>11 DEF ImportReads, Live, Idle, LinkedTo
<1>12. ASSUME NEW p \in Requests, ImportUpdates(p)
       PROVE  NewSubsUnseen'
  <2>1. PICK r \in Rows, s \in Logins \cup {None} : AddsLinkOnly(r, s) /\ s \in req[p].users \cup {None}
    BY <1>12, ImportedRow, UpsertLinks, SetSubLinks DEF SubsOf
  <2>2. account' = account /\ req' = NextLine(p)
    BY <1>12 DEF ImportUpdates
  <2> QED
    BY <2>1, <2>2 DEF AddsLinkOnly, LinkedTo, NextLine
<1>13. ASSUME NEW p \in Requests, ImportInvites(p)
       PROVE  NewSubsUnseen'
  <2>0. AtLine(p) /\ req[p].who = None /\ rows' = rows
    BY <1>13, InviteCases
  <2>1. CASE req' = NextLine(p) /\ account' = account
    BY <2>0, <2>1 DEF Request, NextLine, AtLine, LinkedTo
  <2>2. ASSUME NEW s \in Logins, account[s] = "none", EmailOf[s] = Head(req[p].lines),
               ~TakenEmail(EmailOf[s]), account' = [account EXCEPT ![s] = "live"],
               req' = [req EXCEPT ![p] = [@ EXCEPT !.who = s]]
        PROVE  NewSubsUnseen'
    BY <2>0, <2>2 DEF Request, NextLine, AtLine, LinkedTo
  <2> QED
    BY <1>13, <2>1, <2>2, InviteCases
<1>14. ASSUME NEW p \in Requests, ImportCreates(p)
       PROVE  NewSubsUnseen'
  <2>1. PICK r \in Rows, s \in req[p].users \cup {req[p].who} :
          rows' = [rows EXCEPT ![r] = NewRow(s, Head(req[p].lines), "clown")]
    BY <1>14 DEF ImportCreates, PutRow, SubsOf
  <2>2. AddsLinkOnly(r, s)
    BY <2>1, PutLinks
  <2>3. account' = account /\ req' = NextLine(p)
    BY <1>14 DEF ImportCreates
  <2> QED
    BY <2>2, <2>3 DEF AddsLinkOnly, LinkedTo, NextLine
<1>15. ASSUME NEW p \in Requests, RequestEnds(p)
       PROVE  NewSubsUnseen'
  BY <1>15 DEF RequestEnds
<1>16. ASSUME NEW s \in Logins, Invite(s)
       PROVE  NewSubsUnseen'
  BY <1>16 DEF Invite
<1>17. ASSUME NEW s \in Logins, DeleteAccount(s)
       PROVE  NewSubsUnseen'
  BY <1>17 DEF DeleteAccount
<1>18. ASSUME NEW s \in Logins, SessionEnds(s)
       PROVE  NewSubsUnseen'
  BY <1>18 DEF SessionEnds
<1>20. CASE UNCHANGED vars
  BY <1>20 DEF vars
<1> QED
  BY <1>1, <1>2, <1>3, <1>4, <1>5, <1>6, <1>7, <1>8, <1>9, <1>10,
     <1>11, <1>12, <1>13, <1>14, <1>15, <1>16, <1>17, <1>18, <1>20
  DEF Next, ProfileNext, AccountNext

\* Cognito keeps an address to one account.
LEMMA OneLivePerEmailStep ==
  ASSUME TypeOK, OneLivePerEmail, [Next]_vars
  PROVE  OneLivePerEmail'
<1> USE LoginsAssumption, IdleFacts DEF TypeOK, OneLivePerEmail, Starts, Ends, NextLine, Live, TakenEmail
<1>1. ASSUME NEW p \in Requests, NEW s \in Logins, VisitFinds(p, s)
      PROVE  OneLivePerEmail'
  BY <1>1 DEF VisitFinds
<1>2. ASSUME NEW p \in Requests, NEW s \in Logins, VisitMisses(p, s)
      PROVE  OneLivePerEmail'
  BY <1>2 DEF VisitMisses
<1>3. ASSUME NEW p \in Requests, VisitAdopts(p)
      PROVE  OneLivePerEmail'
  BY <1>3 DEF VisitAdopts
<1>4. ASSUME NEW p \in Requests, VisitCreates(p)
      PROVE  OneLivePerEmail'
  BY <1>4 DEF VisitCreates
<1>5. ASSUME NEW p \in Requests, EditOwn(p)
      PROVE  OneLivePerEmail'
  BY <1>5 DEF EditOwn
<1>6. ASSUME NEW p \in Requests, NEW r \in Rows, NEW s \in Logins, LinkReads(p, r, s)
      PROVE  OneLivePerEmail'
  BY <1>6 DEF LinkReads
<1>7. ASSUME NEW p \in Requests, LinkWrites(p)
      PROVE  OneLivePerEmail'
  BY <1>7 DEF LinkWrites
<1>8. ASSUME NEW p \in Requests, NEW r \in Rows, Unlink(p, r)
      PROVE  OneLivePerEmail'
  BY <1>8 DEF Unlink
<1>9. ASSUME NEW p \in Requests, NEW r \in Rows, DeleteProfile(p, r)
      PROVE  OneLivePerEmail'
  BY <1>9 DEF DeleteProfile
<1>10. ASSUME NEW p \in Requests, AddHistorical(p)
       PROVE  OneLivePerEmail'
  BY <1>10 DEF AddHistorical
<1>11. ASSUME NEW p \in Requests, ImportReads(p)
       PROVE  OneLivePerEmail'
  BY <1>11 DEF ImportReads
<1>12. ASSUME NEW p \in Requests, ImportUpdates(p)
       PROVE  OneLivePerEmail'
  BY <1>12 DEF ImportUpdates
<1>13. ASSUME NEW p \in Requests, ImportInvites(p)
       PROVE  OneLivePerEmail'
  <2>0. AtLine(p) /\ req[p].who = None /\ rows' = rows
    BY <1>13, InviteCases
  <2>1. CASE req' = NextLine(p) /\ account' = account
    BY <2>0, <2>1 DEF Request
  <2>2. ASSUME NEW s \in Logins, account[s] = "none", EmailOf[s] = Head(req[p].lines),
               ~TakenEmail(EmailOf[s]), account' = [account EXCEPT ![s] = "live"],
               req' = [req EXCEPT ![p] = [@ EXCEPT !.who = s]]
        PROVE  OneLivePerEmail'
    BY <2>0, <2>2 DEF Request
  <2> QED
    BY <1>13, <2>1, <2>2, InviteCases
<1>14. ASSUME NEW p \in Requests, ImportCreates(p)
       PROVE  OneLivePerEmail'
  BY <1>14 DEF ImportCreates
<1>15. ASSUME NEW p \in Requests, RequestEnds(p)
       PROVE  OneLivePerEmail'
  BY <1>15 DEF RequestEnds
<1>16. ASSUME NEW s \in Logins, Invite(s)
       PROVE  OneLivePerEmail'
  BY <1>16 DEF Invite
<1>17. ASSUME NEW s \in Logins, DeleteAccount(s)
       PROVE  OneLivePerEmail'
  BY <1>17 DEF DeleteAccount
<1>18. ASSUME NEW s \in Logins, SessionEnds(s)
       PROVE  OneLivePerEmail'
  BY <1>18 DEF SessionEnds
<1>20. CASE UNCHANGED vars
  BY <1>20 DEF vars
<1> QED
  BY <1>1, <1>2, <1>3, <1>4, <1>5, <1>6, <1>7, <1>8, <1>9, <1>10,
     <1>11, <1>12, <1>13, <1>14, <1>15, <1>16, <1>17, <1>18, <1>20
  DEF Next, ProfileNext, AccountNext

\* The account of an import's current line stays that line's.
LEMMA InvitedForLineStep ==
  ASSUME TypeOK, RequestsKnow, NewSubsUnseen, InvitedForLine, [Next]_vars
  PROVE  InvitedForLine'
<1> USE LoginsAssumption, IdleFacts DEF TypeOK, InvitedForLine, NewSubsUnseen, Reads, Starts, Ends, NextLine, AtLine, LinkedTo
<1>1. ASSUME NEW p \in Requests, NEW s \in Logins, VisitFinds(p, s)
      PROVE  InvitedForLine'
  BY <1>1 DEF VisitFinds
<1>2. ASSUME NEW p \in Requests, NEW s \in Logins, VisitMisses(p, s)
      PROVE  InvitedForLine'
  BY <1>2 DEF VisitMisses
<1>3. ASSUME NEW p \in Requests, VisitAdopts(p)
      PROVE  InvitedForLine'
  BY <1>3 DEF VisitAdopts
<1>4. ASSUME NEW p \in Requests, VisitCreates(p)
      PROVE  InvitedForLine'
  BY <1>4 DEF VisitCreates
<1>5. ASSUME NEW p \in Requests, EditOwn(p)
      PROVE  InvitedForLine'
  BY <1>5 DEF EditOwn
<1>6. ASSUME NEW p \in Requests, NEW r \in Rows, NEW s \in Logins, LinkReads(p, r, s)
      PROVE  InvitedForLine'
  BY <1>6 DEF LinkReads
<1>7. ASSUME NEW p \in Requests, LinkWrites(p)
      PROVE  InvitedForLine'
  BY <1>7 DEF LinkWrites
<1>8. ASSUME NEW p \in Requests, NEW r \in Rows, Unlink(p, r)
      PROVE  InvitedForLine'
  BY <1>8 DEF Unlink
<1>9. ASSUME NEW p \in Requests, NEW r \in Rows, DeleteProfile(p, r)
      PROVE  InvitedForLine'
  BY <1>9 DEF DeleteProfile
<1>10. ASSUME NEW p \in Requests, AddHistorical(p)
       PROVE  InvitedForLine'
  BY <1>10 DEF AddHistorical
<1>11. ASSUME NEW p \in Requests, ImportReads(p)
       PROVE  InvitedForLine'
  BY <1>11 DEF ImportReads
<1>12. ASSUME NEW p \in Requests, ImportUpdates(p)
       PROVE  InvitedForLine'
  BY <1>12 DEF ImportUpdates
<1>13. ASSUME NEW p \in Requests, ImportInvites(p)
       PROVE  InvitedForLine'
  <2>0. AtLine(p) /\ req[p].who = None /\ rows' = rows
    BY <1>13, InviteCases
  <2>1. CASE req' = NextLine(p) /\ account' = account
    BY <2>0, <2>1 DEF Request
  <2>2. ASSUME NEW s \in Logins, account[s] = "none", EmailOf[s] = Head(req[p].lines),
               ~TakenEmail(EmailOf[s]), account' = [account EXCEPT ![s] = "live"],
               req' = [req EXCEPT ![p] = [@ EXCEPT !.who = s]]
        PROVE  InvitedForLine'
    BY <2>0, <2>2 DEF Request
  <2> QED
    BY <1>13, <2>1, <2>2, InviteCases
<1>14. ASSUME NEW p \in Requests, ImportCreates(p)
       PROVE  InvitedForLine'
  BY <1>14 DEF ImportCreates
<1>15. ASSUME NEW p \in Requests, RequestEnds(p)
       PROVE  InvitedForLine'
  BY <1>15 DEF RequestEnds
<1>16. ASSUME NEW s \in Logins, Invite(s)
       PROVE  InvitedForLine'
  BY <1>16 DEF Invite
<1>17. ASSUME NEW s \in Logins, DeleteAccount(s)
       PROVE  InvitedForLine'
  BY <1>17 DEF DeleteAccount
<1>18. ASSUME NEW s \in Logins, SessionEnds(s)
       PROVE  InvitedForLine'
  BY <1>18 DEF SessionEnds
<1>20. CASE UNCHANGED vars
  BY <1>20 DEF vars
<1> QED
  BY <1>1, <1>2, <1>3, <1>4, <1>5, <1>6, <1>7, <1>8, <1>9, <1>10,
     <1>11, <1>12, <1>13, <1>14, <1>15, <1>16, <1>17, <1>18, <1>20
  DEF Next, ProfileNext, AccountNext

-----------------------------------------------------------------------------
(* EmailVouches *)

\* Row r vouches: what EmailVouches says of it.
Vouches(i) ==
  i.is \in {"put", "ghost"} /\ i.by = "clown" =>
    i.cognito_sub = None \/ i.email = None \/ EmailOf[i.cognito_sub] = i.email

\* update_item of a row's other fields takes nothing from that.
LEMMA UpsertVouches ==
  ASSUME rows \in [Rows -> Row], EmailVouches, NEW r \in Rows,
         rows' = [rows EXCEPT ![r] = Upserted(r)]
  PROVE  EmailVouches'
<1>1. Vouches(Upserted(r))
  BY DEF Vouches, Upserted, EmailVouches, Exists
<1> QED
  BY <1>1 DEF Vouches, EmailVouches, Exists

\* A login set by match of address, or by an admin.
LEMMA SetSubVouches ==
  ASSUME rows \in [Rows -> Row], EmailVouches, NEW r \in Rows, NEW s \in Logins \cup {None},
         NEW by \in {"clown", "admin"}, SetSub(r, s, by),
         \/ by = "admin" \/ s = None
         \/ Exists(rows, r) /\ rows[r].email # None => rows[r].email = EmailOf[s]
  PROVE  EmailVouches'
<1> DEFINE i == [Upserted(r) EXCEPT !.cognito_sub = s, !.by = by]
<1>1. i \in Item /\ i.email = Upserted(r).email /\ i.cognito_sub = s /\ i.by = by
  BY UpsertedType DEF Item
<1>2. Vouches(i)
  BY <1>1, UpsertedAddress DEF Vouches
<1>3. rows' = [rows EXCEPT ![r] = i]
  BY DEF SetSub
<1> HIDE DEF i
<1> QED
  BY <1>2, <1>3 DEF Vouches, EmailVouches, Exists

\* A new row with its login's address, or without a login.
LEMMA PutVouches ==
  ASSUME rows \in [Rows -> Row], EmailVouches, NEW r \in Rows, NEW s, NEW e, NEW by,
         s = None \/ EmailOf[s] = e, rows' = [rows EXCEPT ![r] = NewRow(s, e, by)]
  PROVE  EmailVouches'
BY DEF EmailVouches, Exists, NewRow

\* An import links a row to a login only when their addresses are equal.
LEMMA ImportMatches ==
  ASSUME TypeOK, RequestsKnow, OneLivePerEmail, EmailsLast,
         NEW p \in Requests, req[p].at = "import", NEW e,
         NEW r \in RowsOf(req[p], e), NEW s \in SubsOf(req[p], e),
         req[p].table[r].cognito_sub # s
  PROVE  Exists(rows, r) /\ rows[r].email # None => rows[r].email = EmailOf[s]
<1>1. EmailOf[s] = e /\ s \in req[p].users
  BY DEF SubsOf
<1>2. \A t \in SubsOf(req[p], e) : t = s
  BY <1>1 DEF SubsOf, OneLivePerEmail
<1>3. r \notin UNION {LinkedTo(req[p].table, t) : t \in SubsOf(req[p], e)}
  BY <1>2 DEF LinkedTo
<1>4. r \in Rows /\ Exists(req[p].table, r) /\ req[p].table[r].email = e
  BY <1>3 DEF RowsOf, Reclaimable, HasEmail
<1> QED
  BY <1>1, <1>4 DEF EmailsLast, Reads

\* Adoption, import and a first visit go by the address alone.
LEMMA EmailVouchesStep ==
  ASSUME ProfileInv, [Next]_vars
  PROVE  EmailVouches'
<1> USE LoginsAssumption DEF ProfileInv, TypeOK, RequestsKnow
<1>1. ASSUME NEW p \in Requests, NEW s \in Logins, VisitFinds(p, s)
      PROVE  EmailVouches'
  BY <1>1 DEF VisitFinds, EmailVouches
<1>2. ASSUME NEW p \in Requests, NEW s \in Logins, VisitMisses(p, s)
      PROVE  EmailVouches'
  BY <1>2 DEF VisitMisses, EmailVouches
<1>3. ASSUME NEW p \in Requests, VisitAdopts(p)
      PROVE  EmailVouches'
  <2>1. PICK r \in Adoptable(req[p].table, req[p].who) : SetSub(r, req[p].who, "clown")
    BY <1>3 DEF VisitAdopts
  <2>2. /\ r \in Rows /\ req[p].at = "adopt" /\ req[p].who \in Logins
        /\ Exists(req[p].table, r) /\ req[p].table[r].email = EmailOf[req[p].who]
    BY <1>3 DEF VisitAdopts, Adoptable, HasEmail
  <2>3. Exists(rows, r) /\ rows[r].email # None => rows[r].email = EmailOf[req[p].who]
    BY <2>2 DEF EmailsLast, Reads
  <2> QED
    BY <2>1, <2>2, <2>3, SetSubVouches
<1>4. ASSUME NEW p \in Requests, VisitCreates(p)
      PROVE  EmailVouches'
  BY <1>4, PutVouches DEF VisitCreates
<1>5. ASSUME NEW p \in Requests, EditOwn(p)
      PROVE  EmailVouches'
  BY <1>5, UpsertVouches DEF EditOwn
<1>6. ASSUME NEW p \in Requests, NEW r \in Rows, NEW s \in Logins, LinkReads(p, r, s)
      PROVE  EmailVouches'
  BY <1>6 DEF LinkReads, EmailVouches
<1>7. ASSUME NEW p \in Requests, LinkWrites(p)
      PROVE  EmailVouches'
  BY <1>7, SetSubVouches DEF LinkWrites, EmailVouches
<1>8. ASSUME NEW p \in Requests, NEW r \in Rows, Unlink(p, r)
      PROVE  EmailVouches'
  BY <1>8, SetSubVouches DEF Unlink
<1>9. ASSUME NEW p \in Requests, NEW r \in Rows, DeleteProfile(p, r)
      PROVE  EmailVouches'
  BY <1>9 DEF DeleteProfile, EmailVouches, Exists, Deleted
<1>10. ASSUME NEW p \in Requests, AddHistorical(p)
       PROVE  EmailVouches'
  BY <1>10, PutVouches DEF AddHistorical, PutRow
<1>11. ASSUME NEW p \in Requests, ImportReads(p)
       PROVE  EmailVouches'
  BY <1>11 DEF ImportReads, EmailVouches
<1>12. ASSUME NEW p \in Requests, ImportUpdates(p)
       PROVE  EmailVouches'
  <2>1. PICK r \in RowsOf(req[p], Head(req[p].lines)) :
          /\ r \in Rows
          /\ \/ rows' = [rows EXCEPT ![r] = Upserted(r)]
             \/ \E s \in SubsOf(req[p], Head(req[p].lines)) :
                  s \in Logins /\ req[p].table[r].cognito_sub # s /\ SetSub(r, s, "clown")
    BY <1>12, ImportedRow
  <2>2. CASE rows' = [rows EXCEPT ![r] = Upserted(r)]
    BY <2>1, <2>2, UpsertVouches
  <2>3. ASSUME NEW s \in SubsOf(req[p], Head(req[p].lines)), s \in Logins,
               req[p].table[r].cognito_sub # s, SetSub(r, s, "clown")
        PROVE  EmailVouches'
    <3>1. Exists(rows, r) /\ rows[r].email # None => rows[r].email = EmailOf[s]
      BY <1>12, <2>3, ImportMatches DEF ImportUpdates, AtLine
    <3> QED
      BY <2>1, <2>3, <3>1, SetSubVouches
  <2> QED
    BY <2>1, <2>2, <2>3
<1>13. ASSUME NEW p \in Requests, ImportInvites(p)
       PROVE  EmailVouches'
  BY <1>13 DEF ImportInvites, EmailVouches
<1>14. ASSUME NEW p \in Requests, ImportCreates(p)
       PROVE  EmailVouches'
  <2>1. PICK r \in Rows, s \in SubsOf(req[p], Head(req[p].lines)) \cup {req[p].who} :
          rows' = [rows EXCEPT ![r] = NewRow(s, Head(req[p].lines), "clown")]
    BY <1>14 DEF ImportCreates, PutRow
  <2>2. s = None \/ EmailOf[s] = Head(req[p].lines)
    BY <1>14, <2>1 DEF ImportCreates, AtLine, InvitedForLine, SubsOf
  <2> QED
    BY <2>1, <2>2, PutVouches
<1>15. ASSUME NEW p \in Requests, RequestEnds(p)
       PROVE  EmailVouches'
  BY <1>15 DEF RequestEnds, EmailVouches
<1>16. ASSUME NEW s \in Logins, Invite(s)
       PROVE  EmailVouches'
  BY <1>16 DEF Invite, EmailVouches
<1>17. ASSUME NEW s \in Logins, DeleteAccount(s)
       PROVE  EmailVouches'
  BY <1>17 DEF DeleteAccount, EmailVouches
<1>18. ASSUME NEW s \in Logins, SessionEnds(s)
       PROVE  EmailVouches'
  BY <1>18 DEF SessionEnds, EmailVouches
<1>20. CASE UNCHANGED vars
  BY <1>20 DEF vars, EmailVouches
<1> QED
  BY <1>1, <1>2, <1>3, <1>4, <1>5, <1>6, <1>7, <1>8, <1>9, <1>10,
     <1>11, <1>12, <1>13, <1>14, <1>15, <1>16, <1>17, <1>18, <1>20
  DEF Next, ProfileNext, AccountNext

LEMMA ProfileInit == Init => ProfileInv
<1> SUFFICES ASSUME Init PROVE ProfileInv
  OBVIOUS
<1> USE LoginsAssumption, IdleFacts DEF Init
<1>1. TypeOK
  BY DEF TypeOK, Account, Row, Item, LeftBehind
<1>2. RequestsKnow /\ InvitedForLine /\ EmailsLast
  BY DEF RequestsKnow, InvitedForLine, EmailsLast, Reads
<1>3. NewSubsUnseen
  BY DEF NewSubsUnseen, LinkedTo, Reads
<1>4. OneLivePerEmail
  BY DEF OneLivePerEmail, Live
<1>5. EmailVouches
  BY DEF EmailVouches, Exists, LeftBehind, Unused
<1> QED
  BY <1>1, <1>2, <1>3, <1>4, <1>5 DEF ProfileInv

LEMMA ProfileStep == ProfileInv /\ [Next]_vars => ProfileInv'
BY TypeStep, NewSubsUnseenStep, OneLivePerEmailStep, InvitedForLineStep, EmailsLastStep,
   EmailVouchesStep DEF ProfileInv

\* The inductive invariant holds however many requests run at once.
THEOREM ProfilesInductive == Spec => []ProfileInv
BY ProfileInit, ProfileStep, PTL DEF Spec

\* Types of the accounts, the profiles and the requests, always.
THEOREM ProfileTypes == Spec => []TypeOK
<1>1. ProfileInv => TypeOK
  BY DEF ProfileInv
<1> QED
  BY ProfilesInductive, <1>1, PTL

\* _my_profile and clowns_import link rows by address alone: however many
\* requests are under way, a link no admin made joins a login and a row of the
\* same address.
THEOREM LinksAreVouched == Spec => []EmailVouches
<1>1. ProfileInv => EmailVouches
  BY DEF ProfileInv
<1> QED
  BY ProfilesInductive, <1>1, PTL
=============================================================================
