--------------------------- MODULE ClownInvariants ---------------------------
(***************************************************************************)
(* The inductive invariants of ClownProfiles: what holds whatever runs at  *)
(* the same time, and what holds besides when requests come one at a time. *)
(***************************************************************************)
EXTENDS ClownProfiles

Reads(p) == req[p].at \in {"adopt", "import"}

\* A request past its first call knows its login, its row or its table.
RequestsKnow ==
  \A p \in Requests :
    /\ req[p].at \in {"adopt", "edit", "link"} => req[p].who \in Logins
    /\ req[p].at \in {"edit", "link"} => req[p].row \in Rows
    /\ Reads(p) => req[p].table \in [Rows -> Row]

\* A sub nobody was given yet is on no row and in no request.
NewSubsUnseen ==
  \A s \in Logins : account[s] = "none" =>
    /\ LinkedTo(rows, s) = {}
    /\ \A p \in Requests :
         /\ req[p].who # s /\ s \notin req[p].users
         /\ Reads(p) => LinkedTo(req[p].table, s) = {}

\* Cognito: one account for an address, and so in every list of accounts.
OneLivePerEmail ==
  /\ \A s, t \in Live : EmailOf[s] = EmailOf[t] => s = t
  /\ \A p \in Requests : \A s, t \in req[p].users : EmailOf[s] = EmailOf[t] => s = t

\* The account an import has just made is the one of its current line, and
\* newer than the import's copy of the table.
InvitedForLine ==
  \A p \in Requests : req[p].at = "import" /\ req[p].who # None =>
    /\ req[p].lines # <<>> /\ EmailOf[req[p].who] = Head(req[p].lines)
    /\ LinkedTo(req[p].table, req[p].who) = {}

\* A row never changes its address: what a request read is still right, if the
\* row is still there and was not made up meanwhile.
EmailsLast ==
  \A p \in Requests, r \in Rows : Reads(p) =>
    /\ rows[r] = Unused => req[p].table[r] = Unused
    /\ Exists(req[p].table, r) /\ Exists(rows, r) /\ rows[r].email # None =>
         rows[r].email = req[p].table[r].email

ProfileInv ==
  /\ TypeOK /\ RequestsKnow /\ NewSubsUnseen /\ OneLivePerEmail /\ InvitedForLine
  /\ EmailsLast /\ EmailVouches

-----------------------------------------------------------------------------
(* One request at a time, and files that name nobody twice *)

OneAtATime == \A p, q \in Requests : p = q
Distinct(lines) == \A i, j \in 1..Len(lines) : lines[i] = lines[j] => i = j
DistinctLines == \A csv \in Csvs : Distinct(csv)

\* What a request has read is what its write will find.
VisitCurrent ==
  \A p \in Requests : req[p].at = "adopt" =>
    req[p].table = rows /\ LinkedTo(rows, req[p].who) = {}
EditCurrent == \A p \in Requests : req[p].at = "edit" => Exists(rows, req[p].row)
LinkCurrent ==
  \A p \in Requests : req[p].at = "link" => LinkedTo(rows, req[p].who) \subseteq {req[p].row}

\* An import changes the table beneath its own copy; for the lines it has not
\* come to, the copy still names every row that counts.
ImportCurrent ==
  \A p \in Requests : req[p].at = "import" =>
    /\ Distinct(req[p].lines)
    /\ \A r \in Rows : Exists(req[p].table, r) => Exists(rows, r)
    /\ \A i \in 1..Len(req[p].lines), s \in Logins :
         EmailOf[s] = req[p].lines[i] => LinkedTo(rows, s) \subseteq LinkedTo(req[p].table, s)

\* A row whose login was not in the import's list of accounts is still free to
\* reclaim when its line comes: the login is not an account, and no earlier
\* line gave the row another.
ReclaimCurrent ==
  \A p \in Requests : req[p].at = "import" =>
    /\ \A r \in Rows, s \in Logins :
         r \in LinkedTo(req[p].table, s) /\ s \notin req[p].users => account[s] # "live"
    /\ \A i \in 1..Len(req[p].lines), r \in Rows :
         r \in Reclaimable(req[p], req[p].lines[i]) =>
           rows[r].cognito_sub = req[p].table[r].cognito_sub

\* A row that exists is not made up.  It is so only because nothing deletes a row
\* between another request's reading and writing it: the form (admin.py:1696), the
\* import (2033) and the adoption update a row by its id without a condition, and
\* would make one.
NoGhostRows == \A r \in Rows : rows[r].is # "ghost"

\* With ProfileInv, inductive when requests come one at a time.
SoloInv ==
  /\ VisitCurrent /\ EditCurrent /\ LinkCurrent /\ ImportCurrent /\ ReclaimCurrent
  /\ OneRowPerLogin /\ NoGhostRows
=============================================================================
