-------------------------- MODULE ClownSoloProofs --------------------------
(***************************************************************************)
(* What ClownProfiles promises besides when requests come one at a time,   *)
(* for every set of logins, rows and files that name nobody twice.         *)
(***************************************************************************)
EXTENDS ClownProfilesProofs

\* What is known of the state before a step.
Before == ProfileInv /\ SoloInv /\ OneAtATime /\ DistinctLines

\* Everything a lemma below needs of the types.
LEMMA BeforeFacts ==
  ASSUME Before
  PROVE  /\ TypeOK /\ RequestsKnow /\ rows \in [Rows -> Row] /\ req \in [Requests -> Request]
         /\ VisitCurrent /\ EditCurrent /\ LinkCurrent /\ ImportCurrent /\ ReclaimCurrent
         /\ OneRowPerLogin /\ NoGhostRows
         /\ \A p, q \in Requests : p = q
BY DEF Before, ProfileInv, SoloInv, TypeOK, OneAtATime

\* The rows a request writes are there when it writes them.
LEMMA RowsThere ==
  ASSUME Before, NEW p \in Requests
  PROVE  /\ VisitAdopts(p) => \A r \in Adoptable(req[p].table, req[p].who) : Exists(rows, r)
         /\ EditOwn(p) => Exists(rows, req[p].row)
         /\ ImportUpdates(p) => \A r \in RowsOf(req[p], Head(req[p].lines)) : Exists(rows, r)
<1> USE BeforeFacts
<1>1. VisitAdopts(p) => \A r \in Adoptable(req[p].table, req[p].who) : Exists(rows, r)
  BY DEF VisitAdopts, VisitCurrent, Adoptable, HasEmail
<1>2. EditOwn(p) => Exists(rows, req[p].row)
  BY DEF EditOwn, EditCurrent
<1>3. ImportUpdates(p) => \A r \in RowsOf(req[p], Head(req[p].lines)) : Exists(rows, r)
  BY DEF ImportUpdates, AtLine, ImportCurrent, RowsOf, LinkedTo, Reclaimable, HasEmail
<1> QED
  BY <1>1, <1>2, <1>3

-----------------------------------------------------------------------------
(* No ghost rows *)

\* update_item of a row that is there, and a put, make no ghost.
LEMMA UpsertNoGhost ==
  ASSUME rows \in [Rows -> Row], NoGhostRows, NEW r \in Rows, Exists(rows, r),
         rows' = [rows EXCEPT ![r] = Upserted(r)]
  PROVE  NoGhostRows'
BY DEF Upserted, NoGhostRows

LEMMA SetSubNoGhost ==
  ASSUME rows \in [Rows -> Row], NoGhostRows, NEW r \in Rows, NEW s \in Logins \cup {None},
         NEW by \in {"clown", "admin"}, SetSub(r, s, by), Exists(rows, r)
  PROVE  NoGhostRows'
<1>1. rows[r] \in Item /\ rows[r].is = "put" /\ Upserted(r) = rows[r]
  BY UpsertedType DEF Upserted, NoGhostRows, Exists
<1>2. [rows[r] EXCEPT !.cognito_sub = s, !.by = by].is = "put"
  BY <1>1 DEF Item
<1> QED
  BY <1>1, <1>2 DEF SetSub, NoGhostRows

\* So no step makes one.
LEMMA NoGhostStep ==
  ASSUME Before, [Next]_vars
  PROVE  NoGhostRows'
<1> USE BeforeFacts
<1>1. ASSUME NEW p \in Requests, NEW s \in Logins, VisitFinds(p, s)
      PROVE  NoGhostRows'
  BY <1>1 DEF VisitFinds, NoGhostRows
<1>2. ASSUME NEW p \in Requests, NEW s \in Logins, VisitMisses(p, s)
      PROVE  NoGhostRows'
  BY <1>2 DEF VisitMisses, NoGhostRows
<1>3. ASSUME NEW p \in Requests, VisitAdopts(p)
      PROVE  NoGhostRows'
  BY <1>3, SetSubNoGhost, RowsThere DEF VisitAdopts, Adoptable, HasEmail, RequestsKnow
<1>4. ASSUME NEW p \in Requests, VisitCreates(p)
      PROVE  NoGhostRows'
  BY <1>4 DEF VisitCreates, NewRow, NoGhostRows
<1>5. ASSUME NEW p \in Requests, EditOwn(p)
      PROVE  NoGhostRows'
  BY <1>5, UpsertNoGhost, RowsThere DEF EditOwn, RequestsKnow
<1>6. ASSUME NEW p \in Requests, NEW r \in Rows, NEW s \in Logins, LinkReads(p, r, s)
      PROVE  NoGhostRows'
  BY <1>6 DEF LinkReads, NoGhostRows
<1>7. ASSUME NEW p \in Requests, LinkWrites(p)
      PROVE  NoGhostRows'
  BY <1>7, SetSubNoGhost DEF LinkWrites, RequestsKnow, NoGhostRows
<1>8. ASSUME NEW p \in Requests, NEW r \in Rows, Unlink(p, r)
      PROVE  NoGhostRows'
  BY <1>8, SetSubNoGhost DEF Unlink
<1>9. ASSUME NEW p \in Requests, NEW r \in Rows, DeleteProfile(p, r)
      PROVE  NoGhostRows'
  BY <1>9 DEF DeleteProfile, Deleted, NoGhostRows
<1>10. ASSUME NEW p \in Requests, AddHistorical(p)
       PROVE  NoGhostRows'
  BY <1>10 DEF AddHistorical, PutRow, NewRow, NoGhostRows
<1>11. ASSUME NEW p \in Requests, ImportReads(p)
       PROVE  NoGhostRows'
  BY <1>11 DEF ImportReads, NoGhostRows
<1>12. ASSUME NEW p \in Requests, ImportUpdates(p)
       PROVE  NoGhostRows'
  BY <1>12, ImportedRow, UpsertNoGhost, SetSubNoGhost, RowsThere DEF ImportUpdates
<1>13. ASSUME NEW p \in Requests, ImportInvites(p)
       PROVE  NoGhostRows'
  BY <1>13, InviteCases DEF ImportInvites, NoGhostRows
<1>14. ASSUME NEW p \in Requests, ImportCreates(p)
       PROVE  NoGhostRows'
  BY <1>14 DEF ImportCreates, PutRow, NewRow, NoGhostRows
<1>15. ASSUME NEW p \in Requests, RequestEnds(p)
       PROVE  NoGhostRows'
  BY <1>15 DEF RequestEnds, NoGhostRows
<1>16. ASSUME NEW s \in Logins, Invite(s)
       PROVE  NoGhostRows'
  BY <1>16 DEF Invite, NoGhostRows
<1>17. ASSUME NEW s \in Logins, DeleteAccount(s)
       PROVE  NoGhostRows'
  BY <1>17 DEF DeleteAccount, NoGhostRows
<1>18. ASSUME NEW s \in Logins, SessionEnds(s)
       PROVE  NoGhostRows'
  BY <1>18 DEF SessionEnds, NoGhostRows
<1>20. CASE UNCHANGED vars
  BY <1>20 DEF vars, NoGhostRows
<1> QED
  BY <1>1, <1>2, <1>3, <1>4, <1>5, <1>6, <1>7, <1>8, <1>9, <1>10,
     <1>11, <1>12, <1>13, <1>14, <1>15, <1>16, <1>17, <1>18, <1>20
  DEF Next, ProfileNext, AccountNext

-----------------------------------------------------------------------------
(* One row per login *)

\* A link from a login on no other row leaves every login on one.
LEMMA OneMoreLink ==
  ASSUME OneRowPerLogin, NEW r, NEW s, AddsLinkOnly(r, s),
         s = None \/ LinkedTo(rows, s) \subseteq {r}
  PROVE  OneRowPerLogin'
BY LoginsAssumption DEF OneRowPerLogin, AddsLinkOnly, LinkedTo

\* An import's line finds no row of its login left out of the table it read.
LEMMA HeadUnlinked ==
  ASSUME Before, NEW p \in Requests, AtLine(p), NEW s \in Logins,
         EmailOf[s] = Head(req[p].lines)
  PROVE  LinkedTo(rows, s) \subseteq LinkedTo(req[p].table, s)
<1>1. req[p].lines \in Seq(Emails) /\ req[p].lines # <<>>
  BY BeforeFacts DEF AtLine, Request
<1>2. 1 \in 1..Len(req[p].lines) /\ Head(req[p].lines) = req[p].lines[1]
  BY <1>1
<1> QED
  BY <1>2, BeforeFacts DEF ImportCurrent, AtLine

\* The login an import's line sets is on no row yet.
LEMMA ImportLinksOnce ==
  ASSUME Before, NEW p \in Requests, AtLine(p)
  PROVE  /\ \A r \in RowsOf(req[p], Head(req[p].lines)) : \A s \in SubsOf(req[p], Head(req[p].lines)) :
              req[p].table[r].cognito_sub # s => LinkedTo(rows, s) = {}
         /\ RowsOf(req[p], Head(req[p].lines)) = {} =>
              \A s \in SubsOf(req[p], Head(req[p].lines)) : LinkedTo(rows, s) = {}
         /\ req[p].who # None => LinkedTo(rows, req[p].who) = {}
<1> DEFINE e == Head(req[p].lines)
<1>1. \A s \in SubsOf(req[p], e) : s \in Logins /\ EmailOf[s] = e
  BY BeforeFacts DEF SubsOf, Request
<1>2. \A s \in SubsOf(req[p], e) : LinkedTo(rows, s) \subseteq LinkedTo(req[p].table, s)
  BY <1>1, HeadUnlinked
<1>3. \A s, t \in SubsOf(req[p], e) : s = t
  BY <1>1 DEF SubsOf, Before, ProfileInv, OneLivePerEmail
<1>4. ASSUME NEW r \in RowsOf(req[p], e), NEW s \in SubsOf(req[p], e), req[p].table[r].cognito_sub # s
      PROVE  LinkedTo(rows, s) = {}
  <2>1. r \notin UNION {LinkedTo(req[p].table, t) : t \in SubsOf(req[p], e)}
    BY <1>3, <1>4 DEF LinkedTo
  <2>2. LinkedTo(req[p].table, s) = {}
    BY <2>1 DEF RowsOf
  <2> QED
    BY <1>2, <2>2
<1>5. ASSUME RowsOf(req[p], e) = {}, NEW s \in SubsOf(req[p], e)
      PROVE  LinkedTo(rows, s) = {}
  <2>1. LinkedTo(req[p].table, s) = {}
    BY <1>5 DEF RowsOf
  <2> QED
    BY <1>2, <2>1
<1>6. ASSUME req[p].who # None PROVE LinkedTo(rows, req[p].who) = {}
  <2>1. req[p].who \in Logins /\ EmailOf[req[p].who] = e /\ LinkedTo(req[p].table, req[p].who) = {}
    BY <1>6, BeforeFacts DEF Before, ProfileInv, InvitedForLine, AtLine, Request
  <2> QED
    BY <2>1, HeadUnlinked
<1> QED
  BY <1>4, <1>5, <1>6


\* No step links a login to a second row.
LEMMA OneRowStep ==
  ASSUME Before, [Next]_vars
  PROVE  OneRowPerLogin'
<1> USE BeforeFacts DEF RequestsKnow
<1>1. ASSUME NEW p \in Requests, NEW s \in Logins, VisitFinds(p, s)
      PROVE  OneRowPerLogin'
  BY <1>1 DEF VisitFinds, OneRowPerLogin, LinkedTo
<1>2. ASSUME NEW p \in Requests, NEW s \in Logins, VisitMisses(p, s)
      PROVE  OneRowPerLogin'
  BY <1>2 DEF VisitMisses, OneRowPerLogin, LinkedTo
<1>3. ASSUME NEW p \in Requests, VisitAdopts(p)
      PROVE  OneRowPerLogin'
  BY <1>3, SetSubLinks, OneMoreLink DEF VisitAdopts, Adoptable, HasEmail, VisitCurrent
<1>4. ASSUME NEW p \in Requests, VisitCreates(p)
      PROVE  OneRowPerLogin'
  <2>1. PICK r \in Rows : rows' = [rows EXCEPT ![r] = NewRow(req[p].who, EmailOf[req[p].who], "clown")]
    BY <1>4 DEF VisitCreates
  <2>2. AddsLinkOnly(r, req[p].who)
    BY <2>1, PutLinks
  <2>3. LinkedTo(rows, req[p].who) = {}
    BY <1>4 DEF VisitCreates, VisitCurrent
  <2> QED
    BY <2>2, <2>3, OneMoreLink
<1>5. ASSUME NEW p \in Requests, EditOwn(p)
      PROVE  OneRowPerLogin'
  BY <1>5, UpsertLinks, OneMoreLink DEF EditOwn
<1>6. ASSUME NEW p \in Requests, NEW r \in Rows, NEW s \in Logins, LinkReads(p, r, s)
      PROVE  OneRowPerLogin'
  BY <1>6 DEF LinkReads, OneRowPerLogin, LinkedTo
<1>7. ASSUME NEW p \in Requests, LinkWrites(p)
      PROVE  OneRowPerLogin'
  BY <1>7, SetSubLinks, OneMoreLink DEF LinkWrites, LinkCurrent, OneRowPerLogin, LinkedTo
<1>8. ASSUME NEW p \in Requests, NEW r \in Rows, Unlink(p, r)
      PROVE  OneRowPerLogin'
  BY <1>8, SetSubLinks, OneMoreLink DEF Unlink
<1>9. ASSUME NEW p \in Requests, NEW r \in Rows, DeleteProfile(p, r)
      PROVE  OneRowPerLogin'
  BY <1>9 DEF DeleteProfile, OneRowPerLogin, LinkedTo, Exists, Deleted
<1>10. ASSUME NEW p \in Requests, AddHistorical(p)
       PROVE  OneRowPerLogin'
  <2>1. PICK r \in Rows : rows' = [rows EXCEPT ![r] = NewRow(None, None, "admin")]
    BY <1>10 DEF AddHistorical, PutRow
  <2>2. AddsLinkOnly(r, None)
    BY <2>1, PutLinks
  <2> QED
    BY <2>2, OneMoreLink
<1>11. ASSUME NEW p \in Requests, ImportReads(p)
       PROVE  OneRowPerLogin'
  BY <1>11 DEF ImportReads, OneRowPerLogin, LinkedTo
<1>12. ASSUME NEW p \in Requests, ImportUpdates(p)
       PROVE  OneRowPerLogin'
  <2>1. PICK r \in Rows, s \in Logins \cup {None} :
          AddsLinkOnly(r, s) /\ (s = None \/ LinkedTo(rows, s) = {})
    BY <1>12, ImportedRow, ImportLinksOnce, UpsertLinks, SetSubLinks DEF ImportUpdates
  <2> QED
    BY <2>1, OneMoreLink
<1>13. ASSUME NEW p \in Requests, ImportInvites(p)
       PROVE  OneRowPerLogin'
  BY <1>13, InviteCases DEF ImportInvites, OneRowPerLogin, LinkedTo
<1>14. ASSUME NEW p \in Requests, ImportCreates(p)
       PROVE  OneRowPerLogin'
  <2>1. PICK r \in Rows, s \in SubsOf(req[p], Head(req[p].lines)) \cup {req[p].who} :
          rows' = [rows EXCEPT ![r] = NewRow(s, Head(req[p].lines), "clown")]
    BY <1>14 DEF ImportCreates, PutRow
  <2>2. s = None \/ LinkedTo(rows, s) = {}
    BY <1>14, <2>1, ImportLinksOnce DEF ImportCreates
  <2>3. AddsLinkOnly(r, s)
    BY <2>1, PutLinks
  <2> QED
    BY <2>2, <2>3, OneMoreLink
<1>15. ASSUME NEW p \in Requests, RequestEnds(p)
       PROVE  OneRowPerLogin'
  BY <1>15 DEF RequestEnds, OneRowPerLogin, LinkedTo
<1>16. ASSUME NEW s \in Logins, Invite(s)
       PROVE  OneRowPerLogin'
  BY <1>16 DEF Invite, OneRowPerLogin, LinkedTo
<1>17. ASSUME NEW s \in Logins, DeleteAccount(s)
       PROVE  OneRowPerLogin'
  BY <1>17 DEF DeleteAccount, OneRowPerLogin, LinkedTo
<1>18. ASSUME NEW s \in Logins, SessionEnds(s)
       PROVE  OneRowPerLogin'
  BY <1>18 DEF SessionEnds, OneRowPerLogin, LinkedTo
<1>20. CASE UNCHANGED vars
  BY <1>20 DEF vars, OneRowPerLogin, LinkedTo
<1> QED
  BY <1>1, <1>2, <1>3, <1>4, <1>5, <1>6, <1>7, <1>8, <1>9, <1>10,
     <1>11, <1>12, <1>13, <1>14, <1>15, <1>16, <1>17, <1>18, <1>20
  DEF Next, ProfileNext, AccountNext

-----------------------------------------------------------------------------
(* What a request has read is still so *)

LEMMA SetSubExists ==
  ASSUME rows \in [Rows -> Row], NEW r \in Rows, NEW s \in Logins \cup {None},
         NEW by \in {"clown", "admin"}, SetSub(r, s, by)
  PROVE  Exists(rows', r)
<1>1. [Upserted(r) EXCEPT !.cognito_sub = s, !.by = by] \in Item
  BY UpsertedType DEF Item
<1> QED
  BY <1>1, ItemUsed DEF SetSub, Exists

\* A visit's, a form's and a link's.
LEMMA VisitAndLinkStep ==
  ASSUME Before, [Next]_vars
  PROVE  VisitCurrent' /\ EditCurrent' /\ LinkCurrent'
<1> USE BeforeFacts, IdleFacts DEF RequestsKnow, Starts, Ends, NextLine, AtLine, VisitCurrent, EditCurrent, LinkCurrent
<1>1. ASSUME NEW p \in Requests, NEW s \in Logins, VisitFinds(p, s)
      PROVE  VisitCurrent' /\ EditCurrent' /\ LinkCurrent'
  BY <1>1 DEF VisitFinds, Idle, LinkedTo
<1>2. ASSUME NEW p \in Requests, NEW s \in Logins, VisitMisses(p, s)
      PROVE  VisitCurrent' /\ EditCurrent' /\ LinkCurrent'
  BY <1>2 DEF VisitMisses, Idle
<1>3. ASSUME NEW p \in Requests, VisitAdopts(p)
      PROVE  VisitCurrent' /\ EditCurrent' /\ LinkCurrent'
  <2>1. PICK r \in Rows :
          /\ SetSub(r, req[p].who, "clown")
          /\ req' = [req EXCEPT ![p] = [Idle EXCEPT !.at = "edit", !.who = req[p].who, !.row = r]]
    BY <1>3 DEF VisitAdopts, Adoptable, HasEmail
  <2>2. Exists(rows', r)
    BY <1>3, <2>1, SetSubExists DEF VisitAdopts
  <2> QED
    BY <2>1, <2>2 DEF Idle
<1>4. ASSUME NEW p \in Requests, VisitCreates(p)
      PROVE  VisitCurrent' /\ EditCurrent' /\ LinkCurrent'
  BY <1>4 DEF VisitCreates, Idle, NewRow, Exists
<1>5. ASSUME NEW p \in Requests, EditOwn(p)
      PROVE  VisitCurrent' /\ EditCurrent' /\ LinkCurrent'
  BY <1>5 DEF EditOwn
<1>6. ASSUME NEW p \in Requests, NEW r \in Rows, NEW s \in Logins, LinkReads(p, r, s)
      PROVE  VisitCurrent' /\ EditCurrent' /\ LinkCurrent'
  BY <1>6 DEF LinkReads, Idle, LinkAllowed
<1>7. ASSUME NEW p \in Requests, LinkWrites(p)
      PROVE  VisitCurrent' /\ EditCurrent' /\ LinkCurrent'
  BY <1>7 DEF LinkWrites
<1>8. ASSUME NEW p \in Requests, NEW r \in Rows, Unlink(p, r)
      PROVE  VisitCurrent' /\ EditCurrent' /\ LinkCurrent'
  BY <1>8 DEF Unlink
<1>9. ASSUME NEW p \in Requests, NEW r \in Rows, DeleteProfile(p, r)
      PROVE  VisitCurrent' /\ EditCurrent' /\ LinkCurrent'
  BY <1>9 DEF DeleteProfile
<1>10. ASSUME NEW p \in Requests, AddHistorical(p)
       PROVE  VisitCurrent' /\ EditCurrent' /\ LinkCurrent'
  BY <1>10 DEF AddHistorical
<1>11. ASSUME NEW p \in Requests, ImportReads(p)
       PROVE  VisitCurrent' /\ EditCurrent' /\ LinkCurrent'
  BY <1>11 DEF ImportReads
<1>12. ASSUME NEW p \in Requests, ImportUpdates(p)
       PROVE  VisitCurrent' /\ EditCurrent' /\ LinkCurrent'
  <2>1. req'[p].at = "import"
    BY <1>12 DEF ImportUpdates, Request
  <2> QED
    BY <2>1
<1>13. ASSUME NEW p \in Requests, ImportInvites(p)
       PROVE  VisitCurrent' /\ EditCurrent' /\ LinkCurrent'
  <2>1. rows' = rows /\ req[p].at = "import"
    BY <1>13, InviteCases DEF AtLine
  <2>2. req'[p].at = "import"
    <3>1. CASE req' = NextLine(p)
      BY <2>1, <3>1 DEF Request
    <3>2. CASE \E s \in Logins : req' = [req EXCEPT ![p] = [@ EXCEPT !.who = s]]
      BY <2>1, <3>2 DEF Request
    <3> QED
      BY <1>13, <3>1, <3>2, InviteCases
  <2> QED
    BY <2>1, <2>2
<1>14. ASSUME NEW p \in Requests, ImportCreates(p)
       PROVE  VisitCurrent' /\ EditCurrent' /\ LinkCurrent'
  <2>1. req'[p].at = "import"
    BY <1>14 DEF ImportCreates, Request
  <2> QED
    BY <2>1
<1>15. ASSUME NEW p \in Requests, RequestEnds(p)
       PROVE  VisitCurrent' /\ EditCurrent' /\ LinkCurrent'
  BY <1>15 DEF RequestEnds
<1>16. ASSUME NEW s \in Logins, Invite(s)
       PROVE  VisitCurrent' /\ EditCurrent' /\ LinkCurrent'
  BY <1>16 DEF Invite
<1>17. ASSUME NEW s \in Logins, DeleteAccount(s)
       PROVE  VisitCurrent' /\ EditCurrent' /\ LinkCurrent'
  BY <1>17 DEF DeleteAccount
<1>18. ASSUME NEW s \in Logins, SessionEnds(s)
       PROVE  VisitCurrent' /\ EditCurrent' /\ LinkCurrent'
  BY <1>18 DEF SessionEnds
<1>20. CASE UNCHANGED vars
  BY <1>20 DEF vars
<1> QED
  BY <1>1, <1>2, <1>3, <1>4, <1>5, <1>6, <1>7, <1>8, <1>9, <1>10,
     <1>11, <1>12, <1>13, <1>14, <1>15, <1>16, <1>17, <1>18, <1>20
  DEF Next, ProfileNext, AccountNext

-----------------------------------------------------------------------------
(* What an import has read is so for the lines to come *)

\* The lines to come name others than the line done.
LEMMA LinesToCome ==
  ASSUME NEW lines \in Seq(Emails), lines # <<>>, Distinct(lines)
  PROVE  /\ Distinct(Tail(lines))
         /\ \A i \in 1..Len(Tail(lines)) :
              /\ i + 1 \in 1..Len(lines) /\ Tail(lines)[i] = lines[i + 1]
              /\ Tail(lines)[i] # Head(lines)
BY DEF Distinct

\* A step of an import that is done with a line: what changes is of its address.
ImportsLine(p) ==
  LET e == Head(req[p].lines) IN
  /\ AtLine(p) /\ account' = account /\ req' = NextLine(p)
  /\ \A x \in Rows : Exists(rows, x) => Exists(rows', x)
  /\ \A x \in Rows : Exists(rows, x) /\ x \notin Reclaimable(req[p], e) => rows'[x] = rows[x]
  /\ \A t \in Logins : EmailOf[t] # e => LinkedTo(rows', t) \subseteq LinkedTo(rows, t)

LEMMA UpdateImportsLine ==
  ASSUME Before, NEW p \in Requests, ImportUpdates(p)
  PROVE  ImportsLine(p)
<1> USE BeforeFacts
<1> DEFINE e == Head(req[p].lines)
<1>1. PICK r \in RowsOf(req[p], e) :
        /\ r \in Rows
        /\ \/ rows' = [rows EXCEPT ![r] = Upserted(r)]
           \/ \E s \in SubsOf(req[p], e) :
                s \in Logins /\ req[p].table[r].cognito_sub # s /\ SetSub(r, s, "clown")
  BY ImportedRow
<1>2. AtLine(p) /\ account' = account /\ req' = NextLine(p)
  BY DEF ImportUpdates
<1>3. Exists(rows, r)
  BY <1>1, RowsThere
<1>4. CASE rows' = [rows EXCEPT ![r] = Upserted(r)]
  <2>1. rows' = rows
    BY <1>1, <1>3, <1>4 DEF Upserted
  <2> QED
    BY <1>2, <2>1 DEF ImportsLine
<1>5. ASSUME NEW s \in SubsOf(req[p], e), s \in Logins, req[p].table[r].cognito_sub # s,
             SetSub(r, s, "clown")
      PROVE  ImportsLine(p)
  <2>1. AddsLinkOnly(r, s) /\ Exists(rows', r)
    BY <1>1, <1>5, SetSubLinks, SetSubExists
  <2>2. EmailOf[s] = e /\ (\A t \in SubsOf(req[p], e) : t = s)
    BY <1>5 DEF SubsOf, Before, ProfileInv, OneLivePerEmail
  <2>3. r \notin UNION {LinkedTo(req[p].table, t) : t \in SubsOf(req[p], e)}
    BY <1>5, <2>2 DEF LinkedTo
  <2>4. r \in Reclaimable(req[p], e)
    BY <1>1, <2>3 DEF RowsOf
  <2>5. \A x \in Rows : x # r => rows'[x] = rows[x]
    BY <1>5 DEF SetSub
  <2>6. \A t \in Logins : EmailOf[t] # e => LinkedTo(rows', t) \subseteq LinkedTo(rows, t)
    BY <1>1, <2>1, <2>2 DEF AddsLinkOnly, LinkedTo
  <2> QED
    BY <1>1, <1>2, <2>1, <2>4, <2>5, <2>6 DEF ImportsLine, Exists
<1> QED
  BY <1>1, <1>4, <1>5

LEMMA CreateImportsLine ==
  ASSUME Before, NEW p \in Requests, ImportCreates(p)
  PROVE  ImportsLine(p)
<1> USE BeforeFacts
<1> DEFINE e == Head(req[p].lines)
<1>1. PICK r \in Rows, s \in SubsOf(req[p], e) \cup {req[p].who} :
        rows[r] = Unused /\ rows' = [rows EXCEPT ![r] = NewRow(s, e, "clown")]
  BY DEF ImportCreates, PutRow
<1>2. AtLine(p) /\ account' = account /\ req' = NextLine(p)
  BY DEF ImportCreates
<1>3. s \in Logins \cup {None} /\ (s = None \/ EmailOf[s] = e)
  <2>1. req[p].users \subseteq Logins /\ req[p].who \in Logins \cup {None}
    BY DEF Request
  <2>2. CASE s \in SubsOf(req[p], e)
    BY <2>1, <2>2 DEF SubsOf
  <2>3. CASE s = req[p].who
    BY <1>2, <2>1, <2>3 DEF AtLine, Before, ProfileInv, InvitedForLine
  <2> QED
    BY <1>1, <2>2, <2>3
<1>4. r \in Rows /\ AddsLinkOnly(r, s)
  BY <1>1, PutLinks
<1>5. ~Exists(rows, r) /\ (\A x \in Rows : x # r => rows'[x] = rows[x])
  BY <1>1 DEF Exists, Unused
<1>6. \A t \in Logins : EmailOf[t] # e => LinkedTo(rows', t) \subseteq LinkedTo(rows, t)
  BY <1>3, <1>4, LoginsAssumption DEF AddsLinkOnly, LinkedTo
<1> QED
  BY <1>2, <1>5, <1>6 DEF ImportsLine, Exists

LEMMA ImportsLineKeeps ==
  ASSUME Before, NEW p \in Requests, ImportsLine(p)
  PROVE  ImportCurrent' /\ ReclaimCurrent'
<1> USE BeforeFacts
<1> DEFINE q == req[p]
           e == Head(q.lines)
<1>1. q.at = "import" /\ q.lines \in Seq(Emails) /\ q.lines # <<>> /\ Distinct(q.lines)
  BY DEF ImportsLine, AtLine, Request, ImportCurrent
<1>2. /\ req'[p].at = "import" /\ req'[p].table = q.table /\ req'[p].users = q.users
      /\ req'[p].lines = Tail(q.lines)
  BY <1>1 DEF ImportsLine, NextLine, Request
<1>3. /\ \A x \in Rows : Exists(rows, x) => Exists(rows', x)
      /\ \A x \in Rows : Exists(rows, x) /\ x \notin Reclaimable(q, e) => rows'[x] = rows[x]
      /\ \A t \in Logins : EmailOf[t] # e => LinkedTo(rows', t) \subseteq LinkedTo(rows, t)
  BY DEF ImportsLine
<1>4. Distinct(Tail(q.lines))
  BY <1>1, LinesToCome
<1>5. \A x \in Rows : Exists(q.table, x) => Exists(rows, x)
  BY <1>1 DEF ImportCurrent
<1>6. ASSUME NEW i \in 1..Len(Tail(q.lines)), NEW t \in Logins, EmailOf[t] = Tail(q.lines)[i]
      PROVE  LinkedTo(rows', t) \subseteq LinkedTo(q.table, t)
  <2>1. i + 1 \in 1..Len(q.lines) /\ EmailOf[t] = q.lines[i + 1] /\ EmailOf[t] # e
    BY <1>1, <1>6, LinesToCome
  <2>2. LinkedTo(rows, t) \subseteq LinkedTo(q.table, t)
    BY <1>1, <2>1 DEF ImportCurrent
  <2> QED
    BY <1>3, <2>1, <2>2
<1>7. ImportCurrent'
  BY <1>2, <1>3, <1>4, <1>5, <1>6 DEF ImportCurrent
<1>8. \A x \in Rows, t \in Logins :
        x \in LinkedTo(q.table, t) /\ t \notin q.users => account'[t] # "live"
  BY <1>1 DEF ReclaimCurrent, ImportsLine
<1>9. ASSUME NEW i \in 1..Len(Tail(q.lines)), NEW x \in Rows, x \in Reclaimable(q, Tail(q.lines)[i])
      PROVE  rows'[x].cognito_sub = q.table[x].cognito_sub
  <2>1. i + 1 \in 1..Len(q.lines) /\ Tail(q.lines)[i] = q.lines[i + 1] /\ q.lines[i + 1] # e
    BY <1>1, LinesToCome
  <2>2. x \in Reclaimable(q, q.lines[i + 1])
    BY <1>9, <2>1
  <2>3. rows[x].cognito_sub = q.table[x].cognito_sub
    BY <1>1, <2>1, <2>2 DEF ReclaimCurrent
  <2>4. Exists(q.table, x) /\ q.table[x].email # e
    BY <2>1, <2>2 DEF Reclaimable, HasEmail
  <2>5. x \notin Reclaimable(q, e)
    BY <2>4 DEF Reclaimable, HasEmail
  <2> QED
    BY <1>3, <1>5, <2>3, <2>4, <2>5
<1>10. \A z : Reclaimable(req'[p], z) = Reclaimable(q, z)
  BY <1>2 DEF Reclaimable, HasEmail
<1>11. \A i \in 1..Len(Tail(q.lines)), x \in Rows :
          x \in Reclaimable(req'[p], Tail(q.lines)[i]) =>
            rows'[x].cognito_sub = q.table[x].cognito_sub
  BY <1>9, <1>10
<1>12. ReclaimCurrent'
  BY <1>2, <1>8, <1>11, ZenonT(40) DEF ReclaimCurrent
<1> QED
  BY <1>7, <1>12


\* A line whose address is refused changes nothing.
LEMMA RefusedImportsLine ==
  ASSUME NEW p \in Requests, AtLine(p), req' = NextLine(p), rows' = rows, account' = account
  PROVE  ImportsLine(p)
BY DEF ImportsLine

\* An account made while an import runs is on no row of its table.
LEMMA NewAccountKeeps ==
  ASSUME Before, NEW s \in Logins, account[s] = "none",
         account' = [account EXCEPT ![s] = "live"], rows' = rows,
         \A p \in Requests : /\ req'[p].at = req[p].at /\ req'[p].table = req[p].table
                             /\ req'[p].users = req[p].users /\ req'[p].lines = req[p].lines
  PROVE  ImportCurrent' /\ ReclaimCurrent'
<1> USE BeforeFacts
<1>1. \A p \in Requests : req[p].at = "import" => LinkedTo(req[p].table, s) = {}
  BY DEF Before, ProfileInv, NewSubsUnseen, Reads
<1>2. ImportCurrent'
  BY DEF ImportCurrent
<1>3. \A z : \A p \in Requests : Reclaimable(req'[p], z) = Reclaimable(req[p], z)
  BY DEF Reclaimable, HasEmail
<1>4. \A t \in Logins : account'[t] = "live" => account[t] = "live" \/ t = s
  BY DEF TypeOK
<1>5. ReclaimCurrent'
  BY <1>1, <1>3, <1>4 DEF ReclaimCurrent
<1> QED
  BY <1>2, <1>5

\* No step makes an import's copy misleading.
LEMMA ImportStep ==
  ASSUME Before, [Next]_vars
  PROVE  ImportCurrent' /\ ReclaimCurrent'
<1> USE BeforeFacts, IdleFacts DEF Starts, Ends
<1>1. ASSUME NEW p \in Requests, NEW s \in Logins, VisitFinds(p, s)
      PROVE  ImportCurrent' /\ ReclaimCurrent'
  <2>1. req'[p].at # "import"
    BY <1>1 DEF VisitFinds, Idle
  <2> QED
    BY <2>1 DEF ImportCurrent, ReclaimCurrent
<1>2. ASSUME NEW p \in Requests, NEW s \in Logins, VisitMisses(p, s)
      PROVE  ImportCurrent' /\ ReclaimCurrent'
  <2>1. req'[p].at # "import"
    BY <1>2 DEF VisitMisses, Idle
  <2> QED
    BY <2>1 DEF ImportCurrent, ReclaimCurrent
<1>3. ASSUME NEW p \in Requests, VisitAdopts(p)
      PROVE  ImportCurrent' /\ ReclaimCurrent'
  <2>1. req'[p].at # "import"
    BY <1>3 DEF VisitAdopts, Idle
  <2> QED
    BY <2>1 DEF ImportCurrent, ReclaimCurrent
<1>4. ASSUME NEW p \in Requests, VisitCreates(p)
      PROVE  ImportCurrent' /\ ReclaimCurrent'
  <2>1. req'[p].at # "import"
    BY <1>4 DEF VisitCreates, Idle
  <2> QED
    BY <2>1 DEF ImportCurrent, ReclaimCurrent
<1>5. ASSUME NEW p \in Requests, EditOwn(p)
      PROVE  ImportCurrent' /\ ReclaimCurrent'
  <2>1. req'[p].at # "import"
    BY <1>5 DEF EditOwn, Idle
  <2> QED
    BY <2>1 DEF ImportCurrent, ReclaimCurrent
<1>6. ASSUME NEW p \in Requests, NEW r \in Rows, NEW s \in Logins, LinkReads(p, r, s)
      PROVE  ImportCurrent' /\ ReclaimCurrent'
  <2>1. req'[p].at # "import"
    BY <1>6 DEF LinkReads, Idle
  <2> QED
    BY <2>1 DEF ImportCurrent, ReclaimCurrent
<1>7. ASSUME NEW p \in Requests, LinkWrites(p)
      PROVE  ImportCurrent' /\ ReclaimCurrent'
  <2>1. req'[p].at # "import"
    BY <1>7 DEF LinkWrites, Idle
  <2> QED
    BY <2>1 DEF ImportCurrent, ReclaimCurrent
<1>8. ASSUME NEW p \in Requests, NEW r \in Rows, Unlink(p, r)
      PROVE  ImportCurrent' /\ ReclaimCurrent'
  <2>1. \A q \in Requests : req[q].at # "import"
    BY <1>8 DEF Unlink
  <2> QED
    BY <1>8, <2>1 DEF Unlink, ImportCurrent, ReclaimCurrent
<1>9. ASSUME NEW p \in Requests, NEW r \in Rows, DeleteProfile(p, r)
      PROVE  ImportCurrent' /\ ReclaimCurrent'
  <2>1. \A q \in Requests : req[q].at # "import"
    BY <1>9 DEF DeleteProfile
  <2> QED
    BY <1>9, <2>1 DEF DeleteProfile, ImportCurrent, ReclaimCurrent
<1>10. ASSUME NEW p \in Requests, AddHistorical(p)
       PROVE  ImportCurrent' /\ ReclaimCurrent'
  <2>1. \A q \in Requests : req[q].at # "import"
    BY <1>10 DEF AddHistorical
  <2> QED
    BY <1>10, <2>1 DEF AddHistorical, ImportCurrent, ReclaimCurrent
<1>11. ASSUME NEW p \in Requests, ImportReads(p)
       PROVE  ImportCurrent' /\ ReclaimCurrent'
  <2>1. PICK csv \in Csvs, invite \in BOOLEAN, beyond \in SUBSET Live :
          req' = [req EXCEPT ![p] = [Idle EXCEPT !.at = "import", !.table = rows,
                     !.users = Live, !.beyond = beyond, !.invite = invite, !.lines = csv]]
    BY <1>11 DEF ImportReads
  <2>2. /\ req'[p].table = rows /\ req'[p].users = Live /\ req'[p].lines = csv
        /\ rows' = rows /\ account' = account
    BY <1>11, <2>1 DEF Idle, ImportReads
  <2>3. Distinct(csv)
    BY DEF Before, DistinctLines
  <2>4. ImportCurrent'
    BY <2>2, <2>3 DEF ImportCurrent
  <2>5. ReclaimCurrent'
    BY <2>2 DEF ReclaimCurrent, Reclaimable, HasEmail, LinkedTo, Live
  <2> QED
    BY <2>4, <2>5
<1>12. ASSUME NEW p \in Requests, ImportUpdates(p)
       PROVE  ImportCurrent' /\ ReclaimCurrent'
  BY <1>12, UpdateImportsLine, ImportsLineKeeps DEF ImportUpdates
<1>13. ASSUME NEW p \in Requests, ImportInvites(p)
       PROVE  ImportCurrent' /\ ReclaimCurrent'
  <2>1. CASE req' = NextLine(p) /\ account' = account
    BY <1>13, <2>1, InviteCases, RefusedImportsLine, ImportsLineKeeps
  <2>2. ASSUME NEW s \in Logins, account[s] = "none", account' = [account EXCEPT ![s] = "live"],
               req' = [req EXCEPT ![p] = [@ EXCEPT !.who = s]]
        PROVE  ImportCurrent' /\ ReclaimCurrent'
    <3>1. rows' = rows
      BY <1>13, InviteCases
    <3>2. \A u \in Requests : /\ req'[u].at = req[u].at /\ req'[u].table = req[u].table
                              /\ req'[u].users = req[u].users /\ req'[u].lines = req[u].lines
      BY <2>2 DEF Request
    <3> QED
      BY <2>2, <3>1, <3>2, NewAccountKeeps
  <2> QED
    BY <1>13, <2>1, <2>2, InviteCases
<1>14. ASSUME NEW p \in Requests, ImportCreates(p)
       PROVE  ImportCurrent' /\ ReclaimCurrent'
  BY <1>14, CreateImportsLine, ImportsLineKeeps DEF ImportCreates
<1>15. ASSUME NEW p \in Requests, RequestEnds(p)
       PROVE  ImportCurrent' /\ ReclaimCurrent'
  <2>1. req'[p].at # "import"
    BY <1>15 DEF RequestEnds, Idle
  <2> QED
    BY <2>1 DEF ImportCurrent, ReclaimCurrent
<1>16. ASSUME NEW s \in Logins, Invite(s)
       PROVE  ImportCurrent' /\ ReclaimCurrent'
  BY <1>16, NewAccountKeeps DEF Invite
<1>17. ASSUME NEW s \in Logins, DeleteAccount(s)
       PROVE  ImportCurrent' /\ ReclaimCurrent'
  <2>1. rows' = rows /\ req' = req /\ (\A t \in Logins : account'[t] = "live" => account[t] = "live")
    BY <1>17 DEF DeleteAccount, TypeOK
  <2> QED
    BY <2>1 DEF ImportCurrent, ReclaimCurrent, Reclaimable, HasEmail
<1>18. ASSUME NEW s \in Logins, SessionEnds(s)
       PROVE  ImportCurrent' /\ ReclaimCurrent'
  <2>1. rows' = rows /\ req' = req /\ (\A t \in Logins : account'[t] = "live" => account[t] = "live")
    BY <1>18 DEF SessionEnds, TypeOK
  <2> QED
    BY <2>1 DEF ImportCurrent, ReclaimCurrent, Reclaimable, HasEmail
<1>20. CASE UNCHANGED vars
  BY <1>20 DEF vars, ImportCurrent, ReclaimCurrent, Reclaimable, HasEmail
<1> QED
  BY <1>1, <1>2, <1>3, <1>4, <1>5, <1>6, <1>7, <1>8, <1>9, <1>10,
     <1>11, <1>12, <1>13, <1>14, <1>15, <1>16, <1>17, <1>18, <1>20
  DEF Next, ProfileNext, AccountNext

-----------------------------------------------------------------------------
(* Profiles of live logins *)

\* What KeepsLiveLogin says of one step.
KeepsLive ==
  \A r \in Rows :
    LET s == rows[r].cognito_sub IN
    Exists(rows, r) /\ Exists(rows', r) /\ s # None /\ rows'[r].cognito_sub # s =>
      account[s] # "live" \/ rows'[r].by = "admin"

\* A login replaced by update_item, by an admin or where none that lives was.
LEMMA SetSubKeepsLive ==
  ASSUME rows \in [Rows -> Row], NEW r \in Rows, NEW s \in Logins \cup {None},
         NEW by \in {"clown", "admin"}, SetSub(r, s, by),
         \/ by = "admin"
         \/ rows[r].cognito_sub = None \/ account[rows[r].cognito_sub] # "live"
  PROVE  KeepsLive
<1> DEFINE i == [Upserted(r) EXCEPT !.cognito_sub = s, !.by = by]
<1>1. i.by = by
  BY UpsertedType DEF Item
<1>2. rows' = [rows EXCEPT ![r] = i]
  BY DEF SetSub
<1> QED
  BY <1>1, <1>2 DEF KeepsLive

LEMMA UpsertKeepsLive ==
  ASSUME rows \in [Rows -> Row], NEW r \in Rows, rows' = [rows EXCEPT ![r] = Upserted(r)]
  PROVE  KeepsLive
BY DEF KeepsLive, Upserted

LEMMA PutKeepsLive ==
  ASSUME rows \in [Rows -> Row], NEW r \in Rows, NEW i, rows[r] = Unused,
         rows' = [rows EXCEPT ![r] = i]
  PROVE  KeepsLive
BY DEF KeepsLive, Exists, Unused

\* What an import reclaims has no live login now.
LEMMA ReclaimsDead ==
  ASSUME Before, NEW p \in Requests, AtLine(p), NEW r \in Reclaimable(req[p], Head(req[p].lines))
  PROVE  rows[r].cognito_sub = None \/ account[rows[r].cognito_sub] # "live"
<1> USE BeforeFacts
<1>1. req[p].at = "import" /\ req[p].lines \in Seq(Emails) /\ req[p].lines # <<>>
  BY DEF AtLine, Request
<1>2. 1 \in 1..Len(req[p].lines) /\ Head(req[p].lines) = req[p].lines[1]
  BY <1>1
<1>3. /\ r \in Rows /\ Exists(req[p].table, r) /\ Exists(rows, r)
      /\ req[p].table[r].cognito_sub \notin req[p].users
  BY <1>1 DEF Reclaimable, HasEmail, ImportCurrent
<1>4. rows[r].cognito_sub = req[p].table[r].cognito_sub
  BY <1>1, <1>2, <1>3 DEF ReclaimCurrent
<1>5. rows[r].cognito_sub \in Logins \cup {None}
  BY <1>3 DEF Exists, Row, Item, Unused, Deleted
<1> QED
  BY <1>1, <1>3, <1>4, <1>5 DEF ReclaimCurrent, LinkedTo

\* No step but an admin's takes a live login's profile away.
LEMMA KeepsLiveStep ==
  ASSUME Before, [Next]_vars
  PROVE  KeepsLive
<1> USE BeforeFacts DEF RequestsKnow
<1>1. ASSUME NEW p \in Requests, NEW s \in Logins, VisitFinds(p, s)
      PROVE  KeepsLive
  BY <1>1 DEF VisitFinds, KeepsLive
<1>2. ASSUME NEW p \in Requests, NEW s \in Logins, VisitMisses(p, s)
      PROVE  KeepsLive
  BY <1>2 DEF VisitMisses, KeepsLive
<1>3. ASSUME NEW p \in Requests, VisitAdopts(p)
      PROVE  KeepsLive
  BY <1>3, SetSubKeepsLive DEF VisitAdopts, Adoptable, HasEmail, VisitCurrent, _cognito_sub_is_live
<1>4. ASSUME NEW p \in Requests, VisitCreates(p)
      PROVE  KeepsLive
  BY <1>4, PutKeepsLive DEF VisitCreates
<1>5. ASSUME NEW p \in Requests, EditOwn(p)
      PROVE  KeepsLive
  BY <1>5, UpsertKeepsLive DEF EditOwn
<1>6. ASSUME NEW p \in Requests, NEW r \in Rows, NEW s \in Logins, LinkReads(p, r, s)
      PROVE  KeepsLive
  BY <1>6 DEF LinkReads, KeepsLive
<1>7. ASSUME NEW p \in Requests, LinkWrites(p)
      PROVE  KeepsLive
  BY <1>7, SetSubKeepsLive DEF LinkWrites, KeepsLive
<1>8. ASSUME NEW p \in Requests, NEW r \in Rows, Unlink(p, r)
      PROVE  KeepsLive
  BY <1>8, SetSubKeepsLive DEF Unlink
<1>9. ASSUME NEW p \in Requests, NEW r \in Rows, DeleteProfile(p, r)
      PROVE  KeepsLive
  BY <1>9 DEF DeleteProfile, KeepsLive, Exists, Deleted
<1>10. ASSUME NEW p \in Requests, AddHistorical(p)
       PROVE  KeepsLive
  BY <1>10, PutKeepsLive DEF AddHistorical, PutRow
<1>11. ASSUME NEW p \in Requests, ImportReads(p)
       PROVE  KeepsLive
  BY <1>11 DEF ImportReads, KeepsLive
<1>12. ASSUME NEW p \in Requests, ImportUpdates(p)
       PROVE  KeepsLive
  <2>1. PICK r \in RowsOf(req[p], Head(req[p].lines)) :
          /\ r \in Rows
          /\ \/ rows' = [rows EXCEPT ![r] = Upserted(r)]
             \/ \E s \in SubsOf(req[p], Head(req[p].lines)) :
                  s \in Logins /\ req[p].table[r].cognito_sub # s /\ SetSub(r, s, "clown")
    BY <1>12, ImportedRow
  <2>2. CASE rows' = [rows EXCEPT ![r] = Upserted(r)]
    BY <2>1, <2>2, UpsertKeepsLive
  <2>3. ASSUME NEW s \in Logins, SetSub(r, s, "clown")
        PROVE  KeepsLive
    <3>1. ImportsLine(p)
      BY <1>12, UpdateImportsLine
    <3>2. AtLine(p) /\ Exists(rows, r)
      BY <1>12, <2>1, RowsThere DEF ImportUpdates
    <3>3. CASE r \in Reclaimable(req[p], Head(req[p].lines))
      BY <2>1, <2>3, <3>2, <3>3, ReclaimsDead, SetSubKeepsLive
    <3>4. CASE r \notin Reclaimable(req[p], Head(req[p].lines))
      <4>1. rows'[r] = rows[r]
        BY <2>1, <3>1, <3>2, <3>4 DEF ImportsLine
      <4>2. \A x \in Rows : x # r => rows'[x] = rows[x]
        BY <2>1, <2>3 DEF SetSub
      <4> QED
        BY <4>1, <4>2 DEF KeepsLive
    <3> QED
      BY <3>3, <3>4
  <2> QED
    BY <2>1, <2>2, <2>3
<1>13. ASSUME NEW p \in Requests, ImportInvites(p)
       PROVE  KeepsLive
  BY <1>13, InviteCases DEF ImportInvites, KeepsLive
<1>14. ASSUME NEW p \in Requests, ImportCreates(p)
       PROVE  KeepsLive
  BY <1>14, PutKeepsLive DEF ImportCreates, PutRow
<1>15. ASSUME NEW p \in Requests, RequestEnds(p)
       PROVE  KeepsLive
  BY <1>15 DEF RequestEnds, KeepsLive
<1>16. ASSUME NEW s \in Logins, Invite(s)
       PROVE  KeepsLive
  BY <1>16 DEF Invite, KeepsLive
<1>17. ASSUME NEW s \in Logins, DeleteAccount(s)
       PROVE  KeepsLive
  BY <1>17 DEF DeleteAccount, KeepsLive
<1>18. ASSUME NEW s \in Logins, SessionEnds(s)
       PROVE  KeepsLive
  BY <1>18 DEF SessionEnds, KeepsLive
<1>20. CASE UNCHANGED vars
  BY <1>20 DEF vars, KeepsLive
<1> QED
  BY <1>1, <1>2, <1>3, <1>4, <1>5, <1>6, <1>7, <1>8, <1>9, <1>10,
     <1>11, <1>12, <1>13, <1>14, <1>15, <1>16, <1>17, <1>18, <1>20
  DEF Next, ProfileNext, AccountNext

-----------------------------------------------------------------------------
(* Theorems *)

LEMMA SoloInit == Init => SoloInv
<1> SUFFICES ASSUME Init PROVE SoloInv
  OBVIOUS
<1> USE IdleFacts DEF Init
<1>1. VisitCurrent /\ EditCurrent /\ LinkCurrent /\ ImportCurrent /\ ReclaimCurrent
  BY DEF VisitCurrent, EditCurrent, LinkCurrent, ImportCurrent, ReclaimCurrent
<1>2. OneRowPerLogin
  BY DEF OneRowPerLogin
<1>3. NoGhostRows
  BY DEF NoGhostRows, LeftBehind, Unused
<1> QED
  BY <1>1, <1>2, <1>3 DEF SoloInv

LEMMA SoloStep == Before /\ [Next]_vars => SoloInv'
BY NoGhostStep, OneRowStep, VisitAndLinkStep, ImportStep DEF SoloInv

\* Both invariants hold when requests come one at a time and no file names an
\* address twice.
THEOREM SoloInductive ==
  ASSUME OneAtATime, DistinctLines
  PROVE  Spec => [](ProfileInv /\ SoloInv)
<1>1. Init => ProfileInv /\ SoloInv
  BY ProfileInit, SoloInit
<1>2. ProfileInv /\ SoloInv /\ [Next]_vars => (ProfileInv /\ SoloInv)'
  BY ProfileStep, SoloStep DEF Before
<1> QED
  BY <1>1, <1>2, PTL DEF Spec

\* _my_profile, link_clown_account and clowns_import, one at a time, never link
\* a login to two rows.
THEOREM OneProfile ==
  ASSUME OneAtATime, DistinctLines
  PROVE  Spec => []OneRowPerLogin
<1>1. SoloInv => OneRowPerLogin
  BY DEF SoloInv
<1> QED
  BY SoloInductive, <1>1, PTL

\* A profile leaves a login that exists only by an admin's link: what
\* _cognito_sub_is_live and the importer's list of accounts are for.
THEOREM LiveLoginsKeepProfiles ==
  ASSUME OneAtATime, DistinctLines
  PROVE  Spec => KeepsLiveLogin
<1>1. ProfileInv /\ SoloInv /\ [Next]_vars => [KeepsLive]_vars
  BY KeepsLiveStep DEF Before
<1> QED
  BY SoloInductive, <1>1, PTL DEF Spec, KeepsLiveLogin, KeepsLive
=============================================================================
