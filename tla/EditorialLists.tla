---------------------------- MODULE EditorialLists ----------------------------
(***************************************************************************)
(* The FAQ and the krewe links: two tables whose rows admins add, edit,    *)
(* move and delete, kept in order by a position in each row.  A move or a  *)
(* deletion reads the whole list and then writes one position after the    *)
(* other, with updates that create a row that is not there.  The two lists *)
(* share nothing and have the same handlers; "list" says which one a       *)
(* behaviour is about.  The key that decides between equal positions (the  *)
(* FAQ's created_at, a link's label) is left open: they come in any order. *)
(* The scans do not ask for a consistent read, and the one that follows a  *)
(* deletion in the same request may still return the deleted row.  What    *)
(* other requests wrote before a scan is taken as visible to it.           *)
(***************************************************************************)
EXTENDS Naturals, FiniteSets, Sequences, SequencesExt

CONSTANTS
  MaxEntries,  \* bound: entries ever created
  Editors      \* concurrent requests of admins

ASSUME ListAssumption == MaxEntries \in Nat

VARIABLES
  list,     \* "faq" or "krewe_links"
  row,      \* the table; an id is named by the rank of its creation
  created,  \* ids so far: an old page may still name any of them
  desk      \* what a request holds between its calls
listVars == <<list, row, created, desk>>

-----------------------------------------------------------------------------
(* State *)

\* "text" says that the row has its question or label, which every page shows.
\* A row without a sort_order sorts as 0 ("or 0"), so the model gives it 0.
Gone == [text |-> FALSE, sort_order |-> 0, at |-> "gone"]
Row == [text : BOOLEAN, sort_order : Nat, at : {"table"}]
Entries == 1..MaxEntries
Present(r) == {e \in Entries : r[e] # Gone}

\* "was" is the row a deletion found.  "alone" is history: no other request
\* wrote since this one read the list.
AtDesk == [at |-> "idle", ids |-> <<>>, next |-> 1, entry |-> 0, position |-> 0,
           was |-> Gone, alone |-> TRUE]

\* _sorted_faq_entries, _sorted_krewe_links
Sorted(r) ==
  {s \in SetToSeqs(Present(r)) :
     \A i, j \in DOMAIN s : i < j => r[s[i]].sort_order <= r[s[j]].sort_order}

Holds(p, state) == [x \in Editors |-> IF x = p THEN state ELSE desk[x]]
\* A write: the others that have read the list are no longer alone.
Writes(p, state) ==
  [x \in Editors |-> IF x = p THEN state
                     ELSE IF desk[x].at = "renumber" THEN [desk[x] EXCEPT !.alone = FALSE]
                     ELSE desk[x]]
Idle(p) == desk[p].at = "idle"

-----------------------------------------------------------------------------
(* Adding and editing *)

\* New entries land at the bottom: their position is the length of the list.
CreateCounts(p) ==
  /\ Idle(p) /\ created < MaxEntries
  /\ created' = created + 1
  /\ desk' = Holds(p, [AtDesk EXCEPT !.at = "create", !.entry = created + 1,
                                     !.position = Cardinality(Present(row))])
  /\ UNCHANGED <<list, row>>

CreatePuts(p) ==
  /\ desk[p].at = "create"
  /\ row' = [row EXCEPT ![desk[p].entry] =
               [text |-> TRUE, sort_order |-> desk[p].position, at |-> "table"]]
  /\ desk' = Writes(p, AtDesk)
  /\ UNCHANGED <<list, created>>

create_faq(p) == list = "faq" /\ CreatePuts(p)
create_krewe_link(p) == list = "krewe_links" /\ CreatePuts(p)

\* The form may come from a page older than the entry's deletion: the update
\* then makes a row without a position.
Updates(p, e) ==
  /\ Idle(p) /\ e <= created
  /\ row' = [row EXCEPT ![e] = [@ EXCEPT !.text = TRUE, !.at = "table"]]
  /\ desk' = Writes(p, AtDesk)
  /\ UNCHANGED <<list, created>>

update_faq(p, e) == list = "faq" /\ Updates(p, e)
update_krewe_link(p, e) == list = "krewe_links" /\ Updates(p, e)

-----------------------------------------------------------------------------
(* Moving, deleting and renumbering *)

Renumbers(ids) == [AtDesk EXCEPT !.at = IF ids = <<>> THEN "idle" ELSE "renumber", !.ids = ids]

\* For mutation: a move writes the neighbour over the entry.
overwritten(ids, i, j) == [ids EXCEPT ![i] = ids[j]]
Swapped(ids, i, j) == [ids EXCEPT ![i] = ids[j], ![j] = ids[i]]

Move(p, e) ==
  /\ Idle(p)
  /\ \E ids \in Sorted(row) : \E i, j \in DOMAIN ids :
       /\ ids[i] = e
       /\ j = i - 1 \/ j = i + 1
       /\ desk' = Holds(p, Renumbers(Swapped(ids, i, j)))
  /\ UNCHANGED <<list, row, created>>

move_faq(p, e) == list = "faq" /\ Move(p, e)
move_krewe_link(p, e) == list = "krewe_links" /\ Move(p, e)

Delete(p, e) ==
  /\ Idle(p) /\ e <= created
  /\ row' = [row EXCEPT ![e] = Gone]
  /\ desk' = Writes(p, [AtDesk EXCEPT !.at = "deleted", !.entry = e, !.was = row[e]])
  /\ UNCHANGED <<list, created>>

delete_faq(p, e) == list = "faq" /\ Delete(p, e)
delete_krewe_link(p, e) == list = "krewe_links" /\ Delete(p, e)

\* What the scan after a deletion may return: the table, or the table with the
\* deleted row still in it.
Scans(p) ==
  {row} \cup {[row EXCEPT ![desk[p].entry] = was] : was \in {desk[p].was} \ {Gone}}

DeleteReads(p) ==
  /\ desk[p].at = "deleted"
  /\ \E seen \in Scans(p) : \E ids \in Sorted(seen) : desk' = Holds(p, Renumbers(ids))
  /\ UNCHANGED <<list, row, created>>

\* _write_faq_order, _write_krewe_link_order: one update per id, no condition.
WritePosition(p) ==
  LET k == desk[p].next
      e == desk[p].ids[k] IN
  /\ desk[p].at = "renumber"
  /\ row' = [row EXCEPT ![e] = [@ EXCEPT !.sort_order = k - 1, !.at = "table"]]
  /\ desk' = Writes(p, IF k = Len(desk[p].ids) THEN AtDesk ELSE [desk[p] EXCEPT !.next = k + 1])
  /\ UNCHANGED <<list, created>>

EditLost(p) ==
  /\ ~Idle(p)
  /\ desk' = Holds(p, AtDesk)
  /\ UNCHANGED <<list, row, created>>

ListInit ==
  /\ list \in {"faq", "krewe_links"}
  /\ row = [e \in Entries |-> Gone]
  /\ created = 0
  /\ desk = [p \in Editors |-> AtDesk]

EditorNext(p) ==
  \/ \E e \in Entries : \/ update_faq(p, e) \/ update_krewe_link(p, e)
                        \/ move_faq(p, e) \/ move_krewe_link(p, e)
                        \/ delete_faq(p, e) \/ delete_krewe_link(p, e)
  \/ CreateCounts(p) \/ create_faq(p) \/ create_krewe_link(p)
  \/ DeleteReads(p) \/ WritePosition(p) \/ EditLost(p)

ListNext == \E p \in Editors : EditorNext(p)
ListSpec == ListInit /\ [][ListNext]_listVars

-----------------------------------------------------------------------------
(* Properties *)

ListTypeOK ==
  /\ list \in {"faq", "krewe_links"}
  /\ row \in [Entries -> Row \cup {Gone}]
  /\ created \in 0..MaxEntries
  /\ \A p \in Editors : /\ desk[p].at \in {"idle", "create", "deleted", "renumber"}
                        /\ desk[p].ids \in Seq(Entries)
                        /\ desk[p].was \in Row \cup {Gone}
                        /\ desk[p].alone \in BOOLEAN

\* A move or a deletion that nobody wrote beside leaves, with its last write,
\* exactly the order of the list it read: positions 0, 1, 2, ... and no row
\* outside them, whatever half-done renumberings, equal positions and rows
\* without one it started from, and though the list was read stale.
RenumberingHeals ==
  [][\A p \in Editors :
       desk[p].alone /\ WritePosition(p) /\ Idle(p)' =>
         /\ Sorted(row') = {desk[p].ids}
         /\ \A k \in DOMAIN desk[p].ids : row'[desk[p].ids[k]].sort_order = k - 1]_listVars
=============================================================================
