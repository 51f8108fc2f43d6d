------------------------------- MODULE MCTables -------------------------------
(***************************************************************************)
(* The catalogue and the profiles, one at a time.  They share no table, so *)
(* a behaviour is about one of them and leaves the other alone.            *)
(***************************************************************************)
EXTENDS MCEventCatalog, MCClownProfiles

VARIABLE table
tableVars == <<catalogVars, vars, table>>

MCSymmetry == MCEventSymmetry \cup MCProfileSymmetry

-----------------------------------------------------------------------------

\* The one that stays alone starts empty.
TablesInit ==
  /\ CatalogInit /\ Init
  /\ table \in {"events", "profiles"}
  /\ table = "events" => account = [s \in Logins |-> "none"]

EventsTable ==
  /\ table = "events"
  /\ CatalogNext
  \* Bound: openings that overlapped and fields that are spoiled are out of the
  \* promises, and no new request is made of them.
  /\ \A p \in Edits : edit[p] = NoEdit =>
       /\ edit'[p].at = "opening" => ~overlapped
       /\ \A f \in edit'[p].fields : <<edit'[p].event, f>> \notin spoiled
  /\ UNCHANGED <<vars, table>>

ProfilesTable == table = "profiles" /\ Next /\ UNCHANGED <<catalogVars, table>>

TablesNext == EventsTable \/ ProfilesTable
TablesSpec == TablesInit /\ [][TablesNext]_tableVars
=============================================================================
