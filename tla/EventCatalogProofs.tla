-------------------------- MODULE EventCatalogProofs --------------------------
(***************************************************************************)
(* Theorems about EventCatalog for every set of events, images, slots and  *)
(* concurrent requests.                                                    *)
(***************************************************************************)
EXTENDS EventCatalog, FiniteSetTheorems, TLAPS

-----------------------------------------------------------------------------
(* The inductive invariant *)

\* Events never vanish, so the event a request is for and those it has still
\* to close are in the table when it writes them; an addition has its image.
EventsKnown ==
  \A p \in Edits :
    /\ edit[p].at # "idle" => edit[p].event \in Events
    /\ edit[p].at \notin {"idle", "create"} => InTable(edit[p].event)
    /\ edit[p].at \in {"poolAdd", "poolAddWrite"} => edit[p].image \in Images
    /\ \A x \in edit[p].others : InTable(x)

\* While openings do not overlap there is one at most, and what is open is the
\* event it opens or one that it has still to close.
OpeningsApart ==
  ~overlapped =>
    /\ \A x, y \in Events : item[x].status = "open" /\ item[y].status = "open" => x = y
    /\ \A p, q \in Edits : edit[p].at = "opening" /\ edit[q].at = "opening" => p = q
    /\ \A p \in Edits, x \in Events :
         edit[p].at = "opening" /\ item[x].status = "open" =>
           x = edit[p].event \/ x \in edit[p].others

CatalogInv == CatalogTypeOK /\ EventsKnown /\ OpeningsApart

-----------------------------------------------------------------------------
(* It holds *)

\* A request that holds nothing is one.
LEMMA IdleFacts ==
  NoEdit \in Edit /\ NoEdit.at = "idle" /\ NoEdit.others = {} /\ NoEdit.event = Nothing
BY CatalogAssumption DEF NoEdit, Edit, Slots

\* An empty table, an empty bucket and no requests.
LEMMA InitCatalog == CatalogInit => CatalogInv
<1> SUFFICES ASSUME CatalogInit PROVE CatalogInv
  OBVIOUS
<1>1. CatalogTypeOK
  BY IdleFacts DEF CatalogInit, CatalogTypeOK
<1>2. EventsKnown /\ OpeningsApart
  BY IdleFacts DEF CatalogInit, EventsKnown, OpeningsApart, Absent
<1> QED
  BY <1>1, <1>2 DEF CatalogInv

\* Every step of a request, and every sale, keeps the types and the events.
LEMMA TypeStep ==
  ASSUME CatalogTypeOK, EventsKnown, [CatalogNext]_catalogVars
  PROVE  CatalogTypeOK' /\ EventsKnown'
<1> USE CatalogAssumption, IdleFacts DEF CatalogTypeOK, EventsKnown, InTable, EditStarts, Goes,
                                        EditEnds
<1>1. ASSUME NEW p \in Edits, NEW e \in Events, CreateUpload(p, e)
      PROVE  CatalogTypeOK' /\ EventsKnown'
  <2> USE <1>1 DEF CreateUpload, Uploads
  <2>0. \A new \in [Slots -> Images \cup {Nothing}] :
          [NoEdit EXCEPT !.at = "create", !.event = e, !.new = new] \in Edit
    BY DEF Edit
  <2>6. NoEdit.new \in [Slots -> Images \cup {Nothing}]
    BY DEF Edit
  <2>7. PICK i \in Images \cup {Nothing} :
          edit' = [edit EXCEPT ![p] = [NoEdit EXCEPT !.at = "create", !.event = e,
                                       !.new = [NoEdit.new EXCEPT !["logo"] = i]]]
    OBVIOUS
  <2>8. [NoEdit.new EXCEPT !["logo"] = i] \in [Slots -> Images \cup {Nothing}]
    BY <2>6
  <2>1. edit' \in [Edits -> Edit]
    BY <2>0, <2>7, <2>8
  <2>2. item' \in [Events -> EventItem \cup {Absent}]
    BY DEF Edit, EventItem
  <2>3. object' \in [Images -> {"unused", "stored", "deleted"}]
    OBVIOUS
  <2>4. overlapped' \in BOOLEAN /\ spoiled' \subseteq Events \X Fields
    BY DEF Edit
  <2>5. EventsKnown'
    BY DEF Edit, EventItem, Absent
  <2> QED
    BY <2>1, <2>2, <2>3, <2>4, <2>5
<1>2. ASSUME NEW p \in Edits, CreatePut(p)
      PROVE  CatalogTypeOK' /\ EventsKnown'
  <2> USE <1>2 DEF CreatePut, attribute_not_exists
  <2>1. edit' \in [Edits -> Edit]
    BY DEF Edit, EventItem
  <2>2. item' \in [Events -> EventItem \cup {Absent}]
    BY DEF Edit, EventItem
  <2>3. object' \in [Images -> {"unused", "stored", "deleted"}]
    OBVIOUS
  <2>4. overlapped' \in BOOLEAN /\ spoiled' \subseteq Events \X Fields
    BY DEF Edit
  <2>5. EventsKnown'
    BY DEF Edit, EventItem, Absent
  <2> QED
    BY <2>1, <2>2, <2>3, <2>4, <2>5
<1>3. ASSUME NEW p \in Edits, NEW e \in Events, OpenScan(p, e)
      PROVE  CatalogTypeOK' /\ EventsKnown'
  <2> USE <1>3 DEF OpenScan, OthersOpen
  <2>1. edit' \in [Edits -> Edit]
    BY DEF Edit, EventItem
  <2>2. item' \in [Events -> EventItem \cup {Absent}]
    BY DEF Edit, EventItem
  <2>3. object' \in [Images -> {"unused", "stored", "deleted"}]
    OBVIOUS
  <2>4. overlapped' \in BOOLEAN /\ spoiled' \subseteq Events \X Fields
    BY DEF Edit
  <2>5. EventsKnown'
    BY DEF Edit, EventItem, Absent
  <2> QED
    BY <2>1, <2>2, <2>3, <2>4, <2>5
<1>4. ASSUME NEW p \in Edits, OpenClosesOther(p)
      PROVE  CatalogTypeOK' /\ EventsKnown'
  <2> USE <1>4 DEF OpenClosesOther, _set_event_open
  <2>0. \A others \in SUBSET Events : [edit[p] EXCEPT !.others = others] \in Edit
    BY SMTT(20) DEF Edit
  <2>6. PICK x \in edit[p].others :
          /\ item' = [item EXCEPT ![x].status = "closed"]
          /\ edit' = [edit EXCEPT ![p] = [@ EXCEPT !.others = edit[p].others \ {x}]]
    OBVIOUS
  <2>9. edit[p].others \ {x} \in SUBSET Events
    BY DEF Edit
  <2>1. edit' \in [Edits -> Edit]
    BY <2>0, <2>6, <2>9
  <2>7. x \in Events /\ item[x] \in EventItem
    BY <2>6 DEF Edit
  <2>8. [item[x] EXCEPT !.status = "closed"] \in EventItem
    BY <2>7 DEF EventItem
  <2>2. item' \in [Events -> EventItem \cup {Absent}]
    BY <2>6, <2>8
  <2>3. object' \in [Images -> {"unused", "stored", "deleted"}]
    OBVIOUS
  <2>4. overlapped' \in BOOLEAN /\ spoiled' \subseteq Events \X Fields
    OBVIOUS
  <2>5. EventsKnown'
    <3>1. \A y \in Events : item[y] # Absent => item'[y] # Absent
      BY <2>6, <2>8 DEF EventItem, Absent
    <3> QED
      BY <2>6, <3>1, <2>9 DEF Edit
  <2> QED
    BY <2>1, <2>2, <2>3, <2>4, <2>5
<1>5. ASSUME NEW p \in Edits, OpenOpens(p)
      PROVE  CatalogTypeOK' /\ EventsKnown'
  <2> USE <1>5 DEF OpenOpens, _set_event_open
  <2>1. edit' \in [Edits -> Edit]
    BY DEF Edit, EventItem
  <2>0. item[edit[p].event] \in EventItem
    BY DEF Edit
  <2>6. [item[edit[p].event] EXCEPT !.status = "open"] \in EventItem
    BY <2>0 DEF EventItem
  <2>2. item' \in [Events -> EventItem \cup {Absent}]
    BY <2>6
  <2>3. object' \in [Images -> {"unused", "stored", "deleted"}]
    OBVIOUS
  <2>4. overlapped' \in BOOLEAN /\ spoiled' \subseteq Events \X Fields
    BY DEF Edit
  <2>5. EventsKnown'
    BY DEF Edit, EventItem, Absent
  <2> QED
    BY <2>1, <2>2, <2>3, <2>4, <2>5
<1>6. ASSUME NEW p \in Edits, NEW e \in Events, CloseEvent(p, e)
      PROVE  CatalogTypeOK' /\ EventsKnown'
  <2> USE <1>6 DEF CloseEvent, _set_event_open
  <2>1. edit' \in [Edits -> Edit]
    BY DEF Edit, EventItem
  <2>6. [item[e] EXCEPT !.status = "closed"] \in EventItem
    BY DEF EventItem
  <2>2. item' \in [Events -> EventItem \cup {Absent}]
    BY <2>6
  <2>3. object' \in [Images -> {"unused", "stored", "deleted"}]
    OBVIOUS
  <2>4. overlapped' \in BOOLEAN /\ spoiled' \subseteq Events \X Fields
    BY DEF Edit
  <2>5. EventsKnown'
    BY DEF Edit, EventItem, Absent
  <2> QED
    BY <2>1, <2>2, <2>3, <2>4, <2>5
<1>7. ASSUME NEW p \in Edits, NEW e \in Events, SlotsUpload(p, e)
      PROVE  CatalogTypeOK' /\ EventsKnown'
  <2> USE <1>7 DEF SlotsUpload, Uploads, Shared
  <2>0. \A fields \in SUBSET Fields, new \in [Slots -> Images \cup {Nothing}] :
          [NoEdit EXCEPT !.at = "slots", !.event = e, !.fields = fields, !.new = new] \in Edit
    BY DEF Edit
  <2>6. {{"logo"}} \cup (SUBSET CharitySlots \ {{}}) \subseteq SUBSET Fields
    BY DEF Fields, Slots
  <2>7. PICK fields \in SUBSET Fields, new \in [Slots -> Images \cup {Nothing}] :
          edit' = [edit EXCEPT ![p] = [NoEdit EXCEPT !.at = "slots", !.event = e,
                                       !.fields = fields, !.new = new]]
    BY <2>6
  <2>1. edit' \in [Edits -> Edit]
    BY <2>0, <2>7
  <2>2. item' \in [Events -> EventItem \cup {Absent}]
    BY DEF Edit, EventItem
  <2>3. object' \in [Images -> {"unused", "stored", "deleted"}]
    OBVIOUS
  <2>4. overlapped' \in BOOLEAN /\ spoiled' \subseteq Events \X Fields
    BY DEF Edit
  <2>5. EventsKnown'
    BY DEF Edit, EventItem, Absent
  <2> QED
    BY <2>1, <2>2, <2>3, <2>4, <2>5
<1>8. ASSUME NEW p \in Edits, SlotsRead(p)
      PROVE  CatalogTypeOK' /\ EventsKnown'
  <2> USE <1>8 DEF SlotsRead, Replaced, Named
  <2>6. item[edit[p].event] \in EventItem /\ edit[p].fields \subseteq Fields
    BY DEF Edit
  <2>7. Replaced(edit[p].event, edit[p].fields) \subseteq Images
    BY <2>6 DEF EventItem, Fields
  <2>0. \A old \in SUBSET Images :
          [edit[p] EXCEPT !.at = "slotsDelete", !.old = old] \in Edit
    BY DEF Edit
  <2>1. edit' \in [Edits -> Edit]
    BY <2>0, <2>7
  <2>2. item' \in [Events -> EventItem \cup {Absent}]
    BY DEF Edit, EventItem
  <2>3. object' \in [Images -> {"unused", "stored", "deleted"}]
    OBVIOUS
  <2>4. overlapped' \in BOOLEAN /\ spoiled' \subseteq Events \X Fields
    BY DEF Edit
  <2>5. EventsKnown'
    BY DEF Edit, EventItem, Absent
  <2> QED
    BY <2>1, <2>2, <2>3, <2>4, <2>5
<1>9. ASSUME NEW p \in Edits, SlotsDelete(p)
      PROVE  CatalogTypeOK' /\ EventsKnown'
  <2>a. edit[p] \in Edit
    OBVIOUS
  <2>0. [edit[p] EXCEPT !.at = "slotsWrite"] \in Edit
    BY <2>a DEF Edit
  <2> USE <1>9 DEF SlotsDelete, _delete_event_image
  <2>1. edit' \in [Edits -> Edit]
    BY <2>0
  <2>2. item' \in [Events -> EventItem \cup {Absent}]
    BY DEF Edit, EventItem
  <2>3. object' \in [Images -> {"unused", "stored", "deleted"}]
    OBVIOUS
  <2>4. overlapped' \in BOOLEAN /\ spoiled' \subseteq Events \X Fields
    BY DEF Edit
  <2>5. EventsKnown'
    BY DEF Edit, EventItem, Absent
  <2> QED
    BY <2>1, <2>2, <2>3, <2>4, <2>5
<1>10. ASSUME NEW p \in Edits, SlotsWrite(p)
       PROVE  CatalogTypeOK' /\ EventsKnown'
  <2> USE <1>10 DEF SlotsWrite
  <2>1. edit' \in [Edits -> Edit]
    BY DEF Edit, EventItem
  <2>0. item[edit[p].event] \in EventItem /\ edit[p].new \in [Slots -> Images \cup {Nothing}]
    BY DEF Edit
  <2>6. [item[edit[p].event] EXCEPT !.slot =
           [f \in Slots |-> IF f \in edit[p].fields THEN edit[p].new[f] ELSE @[f]]] \in EventItem
    BY <2>0 DEF EventItem
  <2>2. item' \in [Events -> EventItem \cup {Absent}]
    BY <2>6
  <2>3. object' \in [Images -> {"unused", "stored", "deleted"}]
    OBVIOUS
  <2>4. overlapped' \in BOOLEAN /\ spoiled' \subseteq Events \X Fields
    BY DEF Edit
  <2>5. EventsKnown'
    BY DEF Edit, EventItem, Absent
  <2> QED
    BY <2>1, <2>2, <2>3, <2>4, <2>5
<1>11. ASSUME NEW p \in Edits, NEW e \in Events, PoolUpload(p, e)
       PROVE  CatalogTypeOK' /\ EventsKnown'
  <2> USE <1>11 DEF PoolUpload, Shared
  <2>0. \A i \in Images : [NoEdit EXCEPT !.at = "poolAdd", !.event = e, !.fields = {"pool"},
                                      !.image = i] \in Edit
    BY DEF Edit, Fields
  <2>1. edit' \in [Edits -> Edit]
    BY <2>0, ZenonT(40)
  <2>2. item' \in [Events -> EventItem \cup {Absent}]
    BY DEF Edit, EventItem
  <2>3. object' \in [Images -> {"unused", "stored", "deleted"}]
    OBVIOUS
  <2>4. overlapped' \in BOOLEAN /\ spoiled' \subseteq Events \X Fields
    BY DEF Edit
  <2>5. EventsKnown'
    BY DEF Edit, EventItem, Absent
  <2> QED
    BY <2>1, <2>2, <2>3, <2>4, <2>5
<1>12. ASSUME NEW p \in Edits, PoolRead(p)
       PROVE  CatalogTypeOK' /\ EventsKnown'
  <2> USE <1>12 DEF PoolRead
  <2>6. item[edit[p].event].pool \in SUBSET Images
    BY DEF Edit, EventItem
  <2>0. [edit[p] EXCEPT !.at = "poolAddWrite", !.pool = item[edit[p].event].pool] \in Edit
    BY <2>6, ZenonT(40) DEF Edit
  <2>1. edit' \in [Edits -> Edit]
    BY <2>0
  <2>2. item' \in [Events -> EventItem \cup {Absent}]
    BY DEF Edit, EventItem
  <2>3. object' \in [Images -> {"unused", "stored", "deleted"}]
    OBVIOUS
  <2>4. overlapped' \in BOOLEAN /\ spoiled' \subseteq Events \X Fields
    BY DEF Edit
  <2>5. EventsKnown'
    BY DEF Edit, EventItem, Absent
  <2> QED
    BY <2>1, <2>2, <2>3, <2>4, <2>5
<1>13. ASSUME NEW p \in Edits, PoolAddWrite(p)
       PROVE  CatalogTypeOK' /\ EventsKnown'
  <2> USE <1>13 DEF PoolAddWrite, Appended
  <2>1. edit' \in [Edits -> Edit]
    BY DEF Edit, EventItem
  <2>0. item[edit[p].event] \in EventItem /\ edit[p].pool \cup {edit[p].image} \subseteq Images
    BY DEF Edit
  <2>6. [item[edit[p].event] EXCEPT !.pool = edit[p].pool \cup {edit[p].image}] \in EventItem
    BY <2>0 DEF EventItem
  <2>2. item' \in [Events -> EventItem \cup {Absent}]
    BY <2>6
  <2>3. object' \in [Images -> {"unused", "stored", "deleted"}]
    OBVIOUS
  <2>4. overlapped' \in BOOLEAN /\ spoiled' \subseteq Events \X Fields
    BY DEF Edit
  <2>5. EventsKnown'
    BY DEF Edit, EventItem, Absent
  <2> QED
    BY <2>1, <2>2, <2>3, <2>4, <2>5
<1>14. ASSUME NEW p \in Edits, NEW e \in Events, NEW i \in Images, PoolRemoveRead(p, e, i)
       PROVE  CatalogTypeOK' /\ EventsKnown'
  <2> USE <1>14 DEF PoolRemoveRead, Shared
  <2>6. item[e].pool \in SUBSET Images
    BY DEF EventItem
  <2>0. [NoEdit EXCEPT !.at = "poolDrop", !.event = e, !.fields = {"pool"}, !.image = i,
                     !.pool = item[e].pool] \in Edit
    BY <2>6 DEF Edit, Fields
  <2>1. edit' \in [Edits -> Edit]
    BY <2>0
  <2>2. item' \in [Events -> EventItem \cup {Absent}]
    BY DEF Edit, EventItem
  <2>3. object' \in [Images -> {"unused", "stored", "deleted"}]
    OBVIOUS
  <2>4. overlapped' \in BOOLEAN /\ spoiled' \subseteq Events \X Fields
    BY DEF Edit
  <2>5. EventsKnown'
    BY DEF Edit, EventItem, Absent
  <2> QED
    BY <2>1, <2>2, <2>3, <2>4, <2>5
<1>15. ASSUME NEW p \in Edits, PoolRemoveWrite(p)
       PROVE  CatalogTypeOK' /\ EventsKnown'
  <2> USE <1>15 DEF PoolRemoveWrite
  <2>0. [edit[p] EXCEPT !.at = "poolDelete"] \in Edit
    BY SMTT(20) DEF Edit
  <2>1. edit' \in [Edits -> Edit]
    BY <2>0
  <2>7. item[edit[p].event] \in EventItem /\ edit[p].pool \ {edit[p].image} \subseteq Images
    BY DEF Edit
  <2>6. [item[edit[p].event] EXCEPT !.pool = edit[p].pool \ {edit[p].image}] \in EventItem
    BY <2>7 DEF EventItem
  <2>2. item' \in [Events -> EventItem \cup {Absent}]
    BY <2>6
  <2>3. object' \in [Images -> {"unused", "stored", "deleted"}]
    OBVIOUS
  <2>4. overlapped' \in BOOLEAN /\ spoiled' \subseteq Events \X Fields
    BY DEF Edit
  <2>5. EventsKnown'
    BY DEF Edit, EventItem, Absent
  <2> QED
    BY <2>1, <2>2, <2>3, <2>4, <2>5
<1>16. ASSUME NEW p \in Edits, PoolRemoveDelete(p)
       PROVE  CatalogTypeOK' /\ EventsKnown'
  <2> USE <1>16 DEF PoolRemoveDelete, _delete_event_image
  <2>1. edit' \in [Edits -> Edit]
    BY DEF Edit, EventItem
  <2>2. item' \in [Events -> EventItem \cup {Absent}]
    BY DEF Edit, EventItem
  <2>3. object' \in [Images -> {"unused", "stored", "deleted"}]
    OBVIOUS
  <2>4. overlapped' \in BOOLEAN /\ spoiled' \subseteq Events \X Fields
    BY DEF Edit
  <2>5. EventsKnown'
    BY DEF Edit, EventItem, Absent
  <2> QED
    BY <2>1, <2>2, <2>3, <2>4, <2>5
<1>17. ASSUME NEW p \in Edits, RequestLost(p)
       PROVE  CatalogTypeOK' /\ EventsKnown'
  <2> USE <1>17 DEF RequestLost
  <2>1. edit' \in [Edits -> Edit]
    BY DEF Edit, EventItem
  <2>2. item' \in [Events -> EventItem \cup {Absent}]
    BY DEF Edit, EventItem
  <2>3. object' \in [Images -> {"unused", "stored", "deleted"}]
    OBVIOUS
  <2>4. overlapped' \in BOOLEAN /\ spoiled' \subseteq Events \X Fields
    BY DEF Edit
  <2>5. EventsKnown'
    BY DEF Edit, EventItem, Absent
  <2> QED
    BY <2>1, <2>2, <2>3, <2>4, <2>5
<1>18. ASSUME NEW e \in Events, Sell(e)
       PROVE  CatalogTypeOK' /\ EventsKnown'
  <2> USE <1>18 DEF Sell
  <2>1. edit' \in [Edits -> Edit]
    BY DEF Edit, EventItem
  <2>2. item' \in [Events -> EventItem \cup {Absent}]
    BY DEF Edit, EventItem
  <2>3. object' \in [Images -> {"unused", "stored", "deleted"}]
    OBVIOUS
  <2>4. overlapped' \in BOOLEAN /\ spoiled' \subseteq Events \X Fields
    BY DEF Edit
  <2>5. EventsKnown'
    BY DEF Edit, EventItem, Absent
  <2> QED
    BY <2>1, <2>2, <2>3, <2>4, <2>5
<1>19. CASE UNCHANGED catalogVars
  BY <1>19 DEF catalogVars
<1> QED
  BY <1>1, <1>2, <1>3, <1>4, <1>5, <1>6, <1>7, <1>8, <1>9, <1>10, <1>11, <1>12, <1>13,
     <1>14, <1>15, <1>16, <1>17, <1>18, <1>19 DEF CatalogNext, AdminNext

\* What the other steps leave alone: no event changes its status, no opening
\* moves, and none begins.
Aside ==
  /\ overlapped' = overlapped
  /\ \A x \in Events : item'[x].status = "open" => item[x].status = "open"
  /\ \A p \in Edits : edit'[p].at = "opening" =>
       edit[p].at = "opening" /\ edit'[p].event = edit[p].event /\ edit'[p].others = edit[p].others

\* Steps that do not open, close or scan are of that kind.
LEMMA OthersAside ==
  ASSUME CatalogTypeOK, EventsKnown, NEW p \in Edits,
         \/ CreatePut(p) \/ RequestLost(p)
         \/ SlotsRead(p) \/ SlotsDelete(p) \/ SlotsWrite(p)
         \/ PoolRead(p) \/ PoolAddWrite(p) \/ PoolRemoveWrite(p) \/ PoolRemoveDelete(p)
         \/ \E e \in Events : \/ CreateUpload(p, e) \/ SlotsUpload(p, e) \/ PoolUpload(p, e)
                             \/ CloseEvent(p, e)
                             \/ \E i \in Images : PoolRemoveRead(p, e, i)
  PROVE  Aside
<1> USE IdleFacts DEF CatalogTypeOK, EventsKnown, Aside, EditStarts, Goes, EditEnds, InTable
<1>1. CASE CreatePut(p)
  BY <1>1 DEF CreatePut, attribute_not_exists, Edit, EventItem
<1>2. CASE RequestLost(p)
  BY <1>2 DEF RequestLost, Edit, EventItem
<1>3. CASE SlotsRead(p)
  BY <1>3 DEF SlotsRead, Edit, EventItem
<1>4. CASE SlotsDelete(p)
  BY <1>4 DEF SlotsDelete, Edit, EventItem
<1>5. CASE SlotsWrite(p)
  BY <1>5 DEF SlotsWrite, Edit, EventItem
<1>6. CASE PoolRead(p)
  BY <1>6 DEF PoolRead, Edit, EventItem
<1>7. CASE PoolAddWrite(p)
  BY <1>7 DEF PoolAddWrite, Edit, EventItem
<1>8. CASE PoolRemoveWrite(p)
  BY <1>8 DEF PoolRemoveWrite, Edit, EventItem
<1>9. CASE PoolRemoveDelete(p)
  BY <1>9 DEF PoolRemoveDelete, Edit, EventItem
<1>10. ASSUME NEW e \in Events, CreateUpload(p, e) PROVE Aside
  <2>1. PICK new : edit' = [edit EXCEPT ![p] = [NoEdit EXCEPT !.at = "create", !.event = e, !.new = new]]
    BY <1>10 DEF CreateUpload
  <2>2. edit'[p].at = "create" /\ \A q \in Edits \ {p} : edit'[q] = edit[q]
    BY <2>1 DEF Edit
  <2> QED
    BY <1>10, <2>2 DEF CreateUpload
<1>11. ASSUME NEW e \in Events, SlotsUpload(p, e) PROVE Aside
  <2>1. PICK fields, new : edit' = [edit EXCEPT ![p] = [NoEdit EXCEPT !.at = "slots", !.event = e, !.fields = fields, !.new = new]]
    BY <1>11 DEF SlotsUpload
  <2>2. edit'[p].at = "slots" /\ \A q \in Edits \ {p} : edit'[q] = edit[q]
    BY <2>1 DEF Edit
  <2> QED
    BY <1>11, <2>2 DEF SlotsUpload
<1>12. ASSUME NEW e \in Events, PoolUpload(p, e) PROVE Aside
  <2>1. PICK i : edit' = [edit EXCEPT ![p] = [NoEdit EXCEPT !.at = "poolAdd", !.event = e, !.fields = {"pool"}, !.image = i]]
    BY <1>12 DEF PoolUpload
  <2>2. edit'[p].at = "poolAdd" /\ \A q \in Edits \ {p} : edit'[q] = edit[q]
    BY <2>1 DEF Edit
  <2> QED
    BY <1>12, <2>2 DEF PoolUpload
<1>13. ASSUME NEW e \in Events, CloseEvent(p, e) PROVE Aside
  BY <1>13 DEF CloseEvent, _set_event_open, Edit, EventItem
<1>14. ASSUME NEW e \in Events, NEW i \in Images, PoolRemoveRead(p, e, i) PROVE Aside
  BY <1>14 DEF PoolRemoveRead, Edit, EventItem
<1> QED
  BY <1>1, <1>2, <1>3, <1>4, <1>5, <1>6, <1>7, <1>8, <1>9, <1>10, <1>11, <1>12, <1>13, <1>14

\* Openings that run apart find and close whatever else is open.
LEMMA OpeningStep ==
  ASSUME CatalogTypeOK, EventsKnown, OpeningsApart, [CatalogNext]_catalogVars
  PROVE  OpeningsApart'
<1> USE IdleFacts DEF CatalogTypeOK, EventsKnown, OpeningsApart, InTable, EditStarts, EditEnds
<1>1. ASSUME Aside PROVE OpeningsApart'
  BY <1>1 DEF Aside
<1>2. ASSUME NEW p \in Edits, NEW e \in Events, OpenScan(p, e) PROVE OpeningsApart'
  BY <1>2 DEF OpenScan, OthersOpen, Edit
<1>3. ASSUME NEW p \in Edits, OpenClosesOther(p) PROVE OpeningsApart'
  BY <1>3 DEF OpenClosesOther, _set_event_open, Edit, EventItem
<1>4. ASSUME NEW p \in Edits, OpenOpens(p) PROVE OpeningsApart'
  BY <1>4 DEF OpenOpens, _set_event_open, Edit, EventItem
<1>5. ASSUME NEW e \in Events, Sell(e) PROVE OpeningsApart'
  <2>1. Aside
    BY <1>5 DEF Sell, Aside, EventItem
  <2> QED
    BY <2>1, <1>1
<1>6. CASE UNCHANGED catalogVars
  BY <1>6 DEF catalogVars
<1> QED
  BY <1>1, <1>2, <1>3, <1>4, <1>5, <1>6, OthersAside DEF CatalogNext, AdminNext

\* The catalogue is well typed and its openings find each other, always.
THEOREM CatalogInductive == CatalogSpec => []CatalogInv
<1>1. CatalogInv /\ [CatalogNext]_catalogVars => CatalogInv'
  BY TypeStep, OpeningStep DEF CatalogInv
<1> QED
  BY InitCatalog, <1>1, PTL DEF CatalogSpec

\* Types of the tables, the bucket and the requests, always.
THEOREM CatalogTypes == CatalogSpec => []CatalogTypeOK
<1>1. CatalogInv => CatalogTypeOK
  BY DEF CatalogInv
<1> QED
  BY CatalogInductive, <1>1, PTL

\* Openings that do not overlap leave one event open at most, however many
\* events there are and whatever else is done to them meanwhile.
THEOREM OneOpen == CatalogSpec => []OneEventOpenAlone
<1>1. ASSUME CatalogInv PROVE OneEventOpenAlone
  <2> DEFINE open == {e \in Events : item[e].status = "open"}
  <2>1. ASSUME ~overlapped, open # {} PROVE \E e : open = {e}
    BY <1>1, <2>1 DEF CatalogInv, OpeningsApart
  <2>2. Cardinality({}) = 0 /\ \A e : Cardinality({e}) = 1
    BY FS_EmptySet, FS_Singleton
  <2>3. ~overlapped => Cardinality(open) = 0 \/ Cardinality(open) = 1
    BY <2>1, <2>2
  <2> QED
    BY <2>3 DEF OneEventOpenAlone, OneEventOpen
<1> QED
  BY CatalogInductive, <1>1, PTL

\* No step forgets a sale, removes an event or makes it a draft again.
THEOREM SalesAreKept == CatalogSpec => SoldIsKept
<1> DEFINE Kept(e) == /\ item'[e].status # "absent" /\ item'[e].sold >= item[e].sold
                      /\ item'[e].status = "draft" => item[e].status = "draft"
<1>1. ASSUME CatalogInv, CatalogNext, NEW e \in Events, InTable(e) PROVE Kept(e)
  <2> USE <1>1, CatalogAssumption DEF CatalogInv, CatalogTypeOK, EventsKnown, InTable
  <2>1. item[e] \in EventItem /\ item[e].sold \in Nat
    BY DEF EventItem
  <2>2. CASE item' = item
    BY <2>1, <2>2 DEF EventItem
  <2>3. ASSUME NEW p \in Edits, CreatePut(p) PROVE Kept(e)
    BY <2>1, <2>3 DEF CreatePut, attribute_not_exists, EventItem, Edit
  <2>4. ASSUME NEW x \in Events, NEW isOpen \in BOOLEAN, _set_event_open(x, isOpen)
        PROVE  Kept(e)
    BY <2>1, <2>4 DEF _set_event_open, EventItem
  <2>5. ASSUME NEW p \in Edits, SlotsWrite(p) PROVE Kept(e)
    BY <2>1, <2>5 DEF SlotsWrite, EventItem, Edit
  <2>6. ASSUME NEW p \in Edits, PoolAddWrite(p) \/ PoolRemoveWrite(p) PROVE Kept(e)
    BY <2>1, <2>6 DEF PoolAddWrite, PoolRemoveWrite, EventItem, Edit
  <2>7. ASSUME NEW x \in Events, Sell(x) PROVE Kept(e)
    BY <2>1, <2>7 DEF Sell, EventItem
  <2>8. ASSUME NEW p \in Edits, OpenClosesOther(p) \/ OpenOpens(p) PROVE Kept(e)
    BY <2>4, <2>8 DEF OpenClosesOther, OpenOpens, Edit
  <2>9. ASSUME NEW p \in Edits, NEW x \in Events, CloseEvent(p, x) PROVE Kept(e)
    BY <2>4, <2>9 DEF CloseEvent
  <2> QED
    BY <2>2, <2>3, <2>5, <2>6, <2>7, <2>8, <2>9
       DEF CatalogNext, AdminNext, CreateUpload, OpenScan, SlotsUpload, PoolUpload, SlotsRead,
           SlotsDelete, PoolRead, PoolRemoveRead, PoolRemoveDelete, RequestLost
<1>2. CatalogInv /\ [CatalogNext]_catalogVars => [\A e \in Events : InTable(e) => Kept(e)]_catalogVars
  BY <1>1
<1> QED
  BY CatalogInductive, <1>2, PTL DEF CatalogSpec, SoldIsKept

-----------------------------------------------------------------------------
(* The images: what the bucket, the table and the requests know of each *)

\* The uploads a request has still to write into the table, and the images it
\* has read there or was told to delete.
Held(p) == {i \in Images :
  \/ \E f \in Slots : edit[p].new[f] = i
  \/ edit[p].at \in {"poolAdd", "poolAddWrite"} /\ edit[p].image = i}
Seen(p) == {i \in Images :
  \/ i \in edit[p].old \cup edit[p].pool
  \/ edit[p].at \in {"poolDrop", "poolDelete"} /\ edit[p].image = i}

\* A request edits the fields of its form and fills no others.
FieldsKnown ==
  \A p \in Edits :
    /\ edit[p].at \in {"idle", "create", "opening"} => edit[p].fields = {}
    /\ edit[p].at \in {"slots", "slotsDelete", "slotsWrite"} =>
         edit[p].fields \subseteq Slots /\ \A f \in Slots \ edit[p].fields : edit[p].new[f] = Nothing
    /\ edit[p].at \in {"poolAdd", "poolAddWrite", "poolDrop", "poolDelete"} =>
         edit[p].fields = {"pool"}

\* An image is named, read and deleted only under the one event and field it
\* was uploaded for, and an upload not yet written is known to one request.
NamedAtHome(evt, fld) ==
  \A e \in Events, f \in Fields : InTable(e) =>
    \A i \in Named(e, f) : i \in Images /\ object[i] # "unused" /\ evt[i] = e /\ fld[i] = f
SeenAtHome(evt, fld) ==
  \A p \in Edits : \A i \in Seen(p) :
    object[i] # "unused" /\ evt[i] = edit[p].event /\ fld[i] \in edit[p].fields
HeldAtHome(evt, fld) ==
  \A p \in Edits : \A i \in Held(p) :
    /\ object[i] = "stored" /\ evt[i] = edit[p].event
    /\ edit[p].at \in {"poolAdd", "poolAddWrite"} => fld[i] = "pool"
    /\ \A f \in Slots : edit[p].new[f] = i => fld[i] = f
HeldApart ==
  \A p \in Edits : \A i \in Held(p) :
    /\ \A e \in Events, f \in Fields : InTable(e) => i \notin Named(e, f)
    /\ \A q \in Edits : i \notin Seen(q) /\ (i \in Held(q) => p = q)
AtHome(evt, fld) ==
  NamedAtHome(evt, fld) /\ SeenAtHome(evt, fld) /\ HeldAtHome(evt, fld) /\ HeldApart
OneHome == \E evt, fld : AtHome(evt, fld)

\* Fields that are not spoiled have one editor at most.
EditsAlone ==
  \A p, q \in Edits : p # q /\ edit[p].event = edit[q].event =>
    \A f \in edit[p].fields \cap edit[q].fields : <<edit[p].event, f>> \in spoiled

\* What a field names is stored, under an edit of the pool too; an edit of the
\* pool has the pool as it is, and deletes what the pool does not name.
NamedAreStored ==
  \A e \in Events, f \in Fields :
    InTable(e) /\ <<e, f>> \notin spoiled
    /\ (f = "pool" \/ \A p \in Edits : edit[p].event = e => f \notin edit[p].fields)
    => \A i \in Named(e, f) : object[i] = "stored"
PoolInHand ==
  \A p \in Edits : edit[p].at # "idle" /\ <<edit[p].event, "pool">> \notin spoiled =>
    /\ edit[p].at \in {"poolAddWrite", "poolDrop"} => edit[p].pool = item[edit[p].event].pool
    /\ edit[p].at = "poolDelete" => edit[p].image \notin item[edit[p].event].pool

ImageInv ==
  CatalogInv /\ FieldsKnown /\ OneHome /\ EditsAlone /\ NamedAreStored /\ PoolInHand

\* What a step of p may do to the images: it names what it holds or has seen,
\* holds what was not used, sees what is named, and deletes what it has seen.
\* Homes are given to unused images only.
Moves(p, evt, fld, evt2, fld2) ==
  /\ \A q \in Edits \ {p} : edit'[q] = edit[q]
  /\ \A i \in Images : object[i] # "unused" =>
       object'[i] # "unused" /\ evt2[i] = evt[i] /\ fld2[i] = fld[i]
  /\ \A i \in Images : object[i] = "stored" => object'[i] = "stored" \/ i \in Seen(p)
  /\ \A e \in Events, f \in Fields : InTable(e)' => \A i \in Named(e, f)' :
       \/ InTable(e) /\ i \in Named(e, f)
       \/ i \in Held(p) \cup Seen(p) /\ evt2[i] = e /\ fld2[i] = f /\ i \notin Held(p)'
  /\ \A i \in Held(p)' :
       /\ i \in Held(p) \/ object[i] = "unused"
       /\ object'[i] = "stored" /\ evt2[i] = edit'[p].event
       /\ edit'[p].at \in {"poolAdd", "poolAddWrite"} => fld2[i] = "pool"
       /\ \A f \in Slots : edit'[p].new[f] = i => fld2[i] = f
  /\ \A i \in Seen(p)' :
       /\ i \in Seen(p) \/ \E e \in Events, f \in Fields : InTable(e) /\ i \in Named(e, f)
       /\ evt2[i] = edit'[p].event /\ fld2[i] \in edit'[p].fields

\* Such a step leaves every image at its home.
LEMMA MovesKeepHomes ==
  ASSUME CatalogTypeOK, NEW p \in Edits, NEW evt, NEW fld, NEW evt2, NEW fld2,
         AtHome(evt, fld), Moves(p, evt, fld, evt2, fld2)
  PROVE  AtHome(evt2, fld2)'
<1> USE DEF AtHome
<1>1. \A q \in Edits \ {p} : Held(q)' = Held(q) /\ Seen(q)' = Seen(q)
  BY DEF Moves, Held, Seen
<1>2. \A q \in Edits : Held(q) \subseteq Images /\ Seen(q) \subseteq Images
                          /\ Held(q)' \subseteq Images /\ Seen(q)' \subseteq Images
  BY DEF Held, Seen
<1>3. NamedAtHome(evt2, fld2)'
  <2>1. ASSUME NEW e \in Events, NEW f \in Fields, InTable(e)', NEW i \in Named(e, f)'
        PROVE  i \in Images /\ object'[i] # "unused" /\ evt2[i] = e /\ fld2[i] = f
    <3>1. CASE InTable(e) /\ i \in Named(e, f)
      BY <3>1 DEF NamedAtHome, Moves
    <3>2. CASE i \in Held(p) \cup Seen(p) /\ evt2[i] = e /\ fld2[i] = f
      BY <1>2, <3>2 DEF SeenAtHome, HeldAtHome, Moves
    <3> QED
      BY <2>1, <3>1, <3>2 DEF Moves
  <2> QED
    BY <2>1 DEF NamedAtHome
<1>4. SeenAtHome(evt2, fld2)'
  <2>1. ASSUME NEW q \in Edits, NEW i \in Seen(q)'
        PROVE  object'[i] # "unused" /\ evt2[i] = edit'[q].event /\ fld2[i] \in edit'[q].fields
    <3>1. CASE q = p
      BY <1>2, <2>1, <3>1 DEF Moves, SeenAtHome, NamedAtHome
    <3>2. CASE q # p
      BY <1>1, <1>2, <2>1, <3>2 DEF Moves, SeenAtHome
    <3> QED
      BY <3>1, <3>2
  <2> QED
    BY <2>1 DEF SeenAtHome
<1>5. HeldAtHome(evt2, fld2)'
  <2>1. ASSUME NEW q \in Edits \ {p}, NEW i \in Held(q)'
        PROVE  object'[i] = "stored" /\ evt2[i] = evt[i] /\ fld2[i] = fld[i]
               /\ i \in Held(q) /\ edit'[q] = edit[q]
    BY <1>1, <1>2, <2>1 DEF Moves, HeldAtHome, HeldApart
  <2> QED
    BY <2>1 DEF HeldAtHome, Moves
<1>6. HeldApart'
  <2>1. ASSUME NEW q \in Edits, NEW i \in Held(q)', NEW e \in Events, NEW f \in Fields,
               InTable(e)', i \in Named(e, f)'
        PROVE  FALSE
    <3>1. \/ InTable(e) /\ i \in Named(e, f)
          \/ i \in Held(p) \cup Seen(p) /\ i \notin Held(p)'
      BY <2>1 DEF Moves
    <3>2. CASE q = p
      BY <1>2, <2>1, <3>1, <3>2 DEF Moves, HeldApart, NamedAtHome
    <3>3. CASE q # p
      BY <1>1, <2>1, <3>1, <3>3 DEF HeldApart
    <3> QED
      BY <3>2, <3>3
  <2>2. ASSUME NEW q \in Edits, NEW i \in Held(q)', NEW r \in Edits, i \in Seen(r)'
        PROVE  FALSE
    <3>1. i \in Seen(r) \/ \E e \in Events, f \in Fields : InTable(e) /\ i \in Named(e, f)
      BY <1>1, <2>2 DEF Moves
    <3>2. i \in Held(q) \/ object[i] = "unused"
      BY <1>1, <2>2 DEF Moves
    <3> QED
      BY <3>1, <3>2 DEF HeldApart, SeenAtHome, NamedAtHome
  <2>3. ASSUME NEW q \in Edits, NEW i \in Held(q)', NEW r \in Edits, i \in Held(r)'
        PROVE  q = r
    <3>1. \A s \in Edits : i \in Held(s)' =>
            i \in Held(s) \/ (s = p /\ object[i] = "unused")
      BY <1>1 DEF Moves
    <3> QED
      BY <2>3, <3>1 DEF HeldApart, HeldAtHome
  <2> QED
    BY <2>1, <2>2, <2>3 DEF HeldApart
<1> QED
  BY <1>3, <1>4, <1>5, <1>6

\* Every step keeps a request to the fields of its form.
LEMMA FieldsStep ==
  ASSUME CatalogInv, FieldsKnown, [CatalogNext]_catalogVars
  PROVE  FieldsKnown'
<1> USE CatalogAssumption, IdleFacts DEF CatalogInv, CatalogTypeOK, EventsKnown, FieldsKnown,
                                        EditStarts, Goes, EditEnds
<1>1. ASSUME NEW p \in Edits, NEW e \in Events, CreateUpload(p, e) PROVE FieldsKnown'
  BY <1>1 DEF CreateUpload, Uploads, Edit, NoEdit, Slots
<1>2. ASSUME NEW p \in Edits, CreatePut(p) PROVE FieldsKnown'
  BY <1>2 DEF CreatePut, attribute_not_exists, Edit, NoEdit, Slots
<1>3. ASSUME NEW p \in Edits, NEW e \in Events, OpenScan(p, e) PROVE FieldsKnown'
  BY <1>3 DEF OpenScan, OthersOpen, Edit, NoEdit, Slots
<1>4. ASSUME NEW p \in Edits, OpenClosesOther(p) PROVE FieldsKnown'
  BY <1>4 DEF OpenClosesOther, _set_event_open, Edit, NoEdit, Slots
<1>5. ASSUME NEW p \in Edits, OpenOpens(p) PROVE FieldsKnown'
  BY <1>5 DEF OpenOpens, _set_event_open, Edit, NoEdit, Slots
<1>6. ASSUME NEW p \in Edits, NEW e \in Events, CloseEvent(p, e) PROVE FieldsKnown'
  BY <1>6 DEF CloseEvent, _set_event_open, Edit, NoEdit, Slots
<1>7. ASSUME NEW p \in Edits, NEW e \in Events, SlotsUpload(p, e) PROVE FieldsKnown'
  BY <1>7 DEF SlotsUpload, Uploads, Shared, Edit, NoEdit, Slots
<1>8. ASSUME NEW p \in Edits, SlotsRead(p) PROVE FieldsKnown'
  BY <1>8 DEF SlotsRead, Replaced, Edit, NoEdit, Slots
<1>9. ASSUME NEW p \in Edits, SlotsDelete(p) PROVE FieldsKnown'
  BY <1>9 DEF SlotsDelete, _delete_event_image, Edit, NoEdit, Slots
<1>10. ASSUME NEW p \in Edits, SlotsWrite(p) PROVE FieldsKnown'
  BY <1>10 DEF SlotsWrite, Edit, NoEdit, Slots
<1>11. ASSUME NEW p \in Edits, NEW e \in Events, PoolUpload(p, e) PROVE FieldsKnown'
  BY <1>11 DEF PoolUpload, Shared, Edit, NoEdit, Slots
<1>12. ASSUME NEW p \in Edits, PoolRead(p) PROVE FieldsKnown'
  BY <1>12 DEF PoolRead, Edit, NoEdit, Slots
<1>13. ASSUME NEW p \in Edits, PoolAddWrite(p) PROVE FieldsKnown'
  BY <1>13 DEF PoolAddWrite, Appended, Edit, NoEdit, Slots
<1>14. ASSUME NEW p \in Edits, NEW e \in Events, NEW i \in Images, PoolRemoveRead(p, e, i) PROVE FieldsKnown'
  BY <1>14 DEF PoolRemoveRead, Shared, Edit, NoEdit, Slots
<1>15. ASSUME NEW p \in Edits, PoolRemoveWrite(p) PROVE FieldsKnown'
  BY <1>15 DEF PoolRemoveWrite, Edit, NoEdit, Slots
<1>16. ASSUME NEW p \in Edits, PoolRemoveDelete(p) PROVE FieldsKnown'
  BY <1>16 DEF PoolRemoveDelete, _delete_event_image, Edit, NoEdit, Slots
<1>17. ASSUME NEW p \in Edits, RequestLost(p) PROVE FieldsKnown'
  BY <1>17 DEF RequestLost, Edit, NoEdit, Slots
<1>18. ASSUME NEW e \in Events, Sell(e) PROVE FieldsKnown'
  BY <1>18 DEF Sell, Edit, NoEdit, Slots
<1>19. CASE UNCHANGED catalogVars
  BY <1>19 DEF catalogVars
<1> QED
  BY <1>1, <1>2, <1>3, <1>4, <1>5, <1>6, <1>7, <1>8, <1>9, <1>10,
     <1>11, <1>12, <1>13, <1>14, <1>15, <1>16, <1>17, <1>18, <1>19 DEF CatalogNext, AdminNext

\* Who starts to edit a field that is being edited, and who is lost, spoils it.
LEMMA EditsStep ==
  ASSUME CatalogInv, FieldsKnown, EditsAlone, [CatalogNext]_catalogVars
  PROVE  EditsAlone'
<1> USE CatalogAssumption, IdleFacts DEF CatalogInv, CatalogTypeOK, EventsKnown, FieldsKnown,
                                        EditsAlone, EditStarts, Goes, EditEnds
<1>1. ASSUME NEW p \in Edits, NEW e \in Events, CreateUpload(p, e) PROVE EditsAlone'
  BY <1>1 DEF CreateUpload, Uploads, Edit, NoEdit
<1>2. ASSUME NEW p \in Edits, CreatePut(p) PROVE EditsAlone'
  BY <1>2 DEF CreatePut, attribute_not_exists, Edit, NoEdit
<1>3. ASSUME NEW p \in Edits, NEW e \in Events, OpenScan(p, e) PROVE EditsAlone'
  BY <1>3 DEF OpenScan, OthersOpen, Edit, NoEdit
<1>4. ASSUME NEW p \in Edits, OpenClosesOther(p) PROVE EditsAlone'
  BY <1>4 DEF OpenClosesOther, _set_event_open, Edit, NoEdit
<1>5. ASSUME NEW p \in Edits, OpenOpens(p) PROVE EditsAlone'
  BY <1>5 DEF OpenOpens, _set_event_open, Edit, NoEdit
<1>6. ASSUME NEW p \in Edits, NEW e \in Events, CloseEvent(p, e) PROVE EditsAlone'
  BY <1>6 DEF CloseEvent, _set_event_open, Edit, NoEdit
<1>7. ASSUME NEW p \in Edits, NEW e \in Events, SlotsUpload(p, e) PROVE EditsAlone'
  BY <1>7 DEF SlotsUpload, Uploads, Shared, Edit, NoEdit
<1>8. ASSUME NEW p \in Edits, SlotsRead(p) PROVE EditsAlone'
  BY <1>8 DEF SlotsRead, Replaced, Edit, NoEdit
<1>9. ASSUME NEW p \in Edits, SlotsDelete(p) PROVE EditsAlone'
  BY <1>9 DEF SlotsDelete, _delete_event_image, Edit, NoEdit
<1>10. ASSUME NEW p \in Edits, SlotsWrite(p) PROVE EditsAlone'
  BY <1>10 DEF SlotsWrite, Edit, NoEdit
<1>11. ASSUME NEW p \in Edits, NEW e \in Events, PoolUpload(p, e) PROVE EditsAlone'
  BY <1>11 DEF PoolUpload, Shared, Edit, NoEdit
<1>12. ASSUME NEW p \in Edits, PoolRead(p) PROVE EditsAlone'
  BY <1>12 DEF PoolRead, Edit, NoEdit
<1>13. ASSUME NEW p \in Edits, PoolAddWrite(p) PROVE EditsAlone'
  BY <1>13 DEF PoolAddWrite, Appended, Edit, NoEdit
<1>14. ASSUME NEW p \in Edits, NEW e \in Events, NEW i \in Images, PoolRemoveRead(p, e, i) PROVE EditsAlone'
  BY <1>14 DEF PoolRemoveRead, Shared, Edit, NoEdit
<1>15. ASSUME NEW p \in Edits, PoolRemoveWrite(p) PROVE EditsAlone'
  BY <1>15 DEF PoolRemoveWrite, Edit, NoEdit
<1>16. ASSUME NEW p \in Edits, PoolRemoveDelete(p) PROVE EditsAlone'
  BY <1>16 DEF PoolRemoveDelete, _delete_event_image, Edit, NoEdit
<1>17. ASSUME NEW p \in Edits, RequestLost(p) PROVE EditsAlone'
  BY <1>17 DEF RequestLost, Edit, NoEdit
<1>18. ASSUME NEW e \in Events, Sell(e) PROVE EditsAlone'
  BY <1>18 DEF Sell, Edit, NoEdit
<1>19. CASE UNCHANGED catalogVars
  BY <1>19 DEF catalogVars
<1> QED
  BY <1>1, <1>2, <1>3, <1>4, <1>5, <1>6, <1>7, <1>8, <1>9, <1>10,
     <1>11, <1>12, <1>13, <1>14, <1>15, <1>16, <1>17, <1>18, <1>19 DEF CatalogNext, AdminNext

\* What an event names is what it named.
KeepsNames ==
  \A e \in Events :
    /\ InTable(e)' <=> InTable(e)
    /\ InTable(e)' => item'[e].pool = item[e].pool /\ \A f \in Fields : Named(e, f)' = Named(e, f)

\* Steps that open, close or sell, and those that do not write the table, keep it.
LEMMA NamesKept ==
  ASSUME CatalogTypeOK, EventsKnown,
         \/ item' = item
         \/ \E p \in Edits : OpenClosesOther(p) \/ OpenOpens(p) \/ \E e \in Events : CloseEvent(p, e)
         \/ \E e \in Events : Sell(e)
  PROVE  KeepsNames
<1>1. ASSUME item' = item PROVE KeepsNames
  BY <1>1 DEF KeepsNames, InTable, Named
<1>2. ASSUME NEW x \in Events, item[x] \in EventItem, NEW r \in EventItem, item' = [item EXCEPT ![x] = r],
             r.slot = item[x].slot, r.pool = item[x].pool
      PROVE  KeepsNames
  <2>1. \A e \in Events \ {x} : item'[e] = item[e]
    BY <1>2 DEF CatalogTypeOK
  <2>2. item'[x] = r
    BY <1>2 DEF CatalogTypeOK
  <2>3. item[x] # Absent
    BY <1>2 DEF EventItem, Absent
  <2>6. r # Absent
    BY <1>2 DEF EventItem, Absent
  <2>4. InTable(x) /\ InTable(x)' /\ item'[x].pool = item[x].pool
        /\ \A f \in Fields : Named(x, f)' = Named(x, f)
    BY <1>2, <2>2, <2>3, <2>6 DEF Named, InTable
  <2>5. ASSUME NEW e \in Events, e # x
        PROVE  (InTable(e)' <=> InTable(e)) /\ item'[e].pool = item[e].pool
               /\ \A f \in Fields : Named(e, f)' = Named(e, f)
    BY <2>1, <2>5 DEF Named, InTable
  <2> QED
    BY <2>4, <2>5 DEF KeepsNames
<1>3. \A x \in Events : InTable(x) => item[x] \in EventItem
  BY DEF CatalogTypeOK, InTable
<1>4. ASSUME NEW x \in Events, InTable(x), NEW isOpen \in BOOLEAN, _set_event_open(x, isOpen)
      PROVE  KeepsNames
  <2> DEFINE r == [item[x] EXCEPT !.status = IF isOpen THEN "open" ELSE "closed"]
  <2>1. r \in EventItem /\ r.slot = item[x].slot /\ r.pool = item[x].pool
    BY <1>3, <1>4 DEF EventItem
  <2>2. item' = [item EXCEPT ![x] = r]
    BY <1>4 DEF _set_event_open
  <2> HIDE DEF r
  <2> QED
    BY <1>2, <1>3, <1>4, <2>1, <2>2
<1>5. ASSUME NEW p \in Edits, OpenClosesOther(p) PROVE KeepsNames
  BY <1>4, <1>5 DEF OpenClosesOther, EventsKnown, CatalogTypeOK, Edit
<1>6. ASSUME NEW p \in Edits, OpenOpens(p) PROVE KeepsNames
  BY <1>4, <1>6 DEF OpenOpens, EventsKnown, CatalogTypeOK, Edit
<1>7. ASSUME NEW p \in Edits, NEW e \in Events, CloseEvent(p, e) PROVE KeepsNames
  BY <1>4, <1>7 DEF CloseEvent
<1>8. ASSUME NEW e \in Events, Sell(e) PROVE KeepsNames
  <2> DEFINE r == [item[e] EXCEPT !.sold = @ + 1]
  <2>1. r \in EventItem /\ r.slot = item[e].slot /\ r.pool = item[e].pool
    BY <1>3, <1>8, CatalogAssumption DEF EventItem, Sell
  <2>2. item' = [item EXCEPT ![e] = r]
    BY <1>8 DEF Sell
  <2> HIDE DEF r
  <2> QED
    BY <1>2, <1>3, <1>8, <2>1, <2>2 DEF Sell
<1> QED
  BY <1>1, <1>5, <1>6, <1>7, <1>8

\* What the steps that write the table put there: held, seen, or named before.
LEMMA NamesWritten ==
  ASSUME CatalogInv, FieldsKnown, NEW p \in Edits,
         CreatePut(p) \/ SlotsWrite(p) \/ PoolAddWrite(p) \/ PoolRemoveWrite(p),
         NEW e \in Events, InTable(e)', NEW f \in Fields
  PROVE  \/ InTable(e) /\ Named(e, f)' = Named(e, f)
         \/ /\ CreatePut(p) /\ e = edit[p].event /\ ~InTable(e)
            /\ Named(e, f)' = IF f = "pool" THEN {} ELSE {edit[p].new[f]} \ {Nothing}
         \/ /\ SlotsWrite(p) /\ e = edit[p].event /\ f \in edit[p].fields /\ InTable(e)
            /\ Named(e, f)' = {edit[p].new[f]} \ {Nothing}
         \/ /\ PoolAddWrite(p) /\ e = edit[p].event /\ f = "pool" /\ InTable(e)
            /\ Named(e, f)' = edit[p].pool \cup {edit[p].image}
         \/ /\ PoolRemoveWrite(p) /\ e = edit[p].event /\ f = "pool" /\ InTable(e)
            /\ Named(e, f)' = edit[p].pool \ {edit[p].image}
<1> USE CatalogAssumption DEF CatalogInv, CatalogTypeOK, EventsKnown, FieldsKnown, Named, InTable
<1>0. edit[p] \in Edit /\ "pool" \notin Slots
  BY DEF Slots
<1>1. CASE CreatePut(p)
  BY <1>0, <1>1 DEF CreatePut, attribute_not_exists, Edit, Absent, Fields
<1>2. CASE SlotsWrite(p)
  <2>1. edit[p].event \in Events /\ item[edit[p].event] \in EventItem /\ edit[p].fields \subseteq Slots
    BY <1>0, <1>2 DEF SlotsWrite
  <2>2. \A x \in Events \ {edit[p].event} : item'[x] = item[x]
    BY <1>2 DEF SlotsWrite
  <2>3. item'[edit[p].event].slot =
          [g \in Slots |-> IF g \in edit[p].fields THEN edit[p].new[g]
                                                  ELSE item[edit[p].event].slot[g]]
        /\ item'[edit[p].event].pool = item[edit[p].event].pool
    BY <1>2, <2>1 DEF SlotsWrite, EventItem
  <2>4. item[edit[p].event] # Absent
    BY <1>2 DEF SlotsWrite
  <2>5. CASE e # edit[p].event
    BY <2>2, <2>5
  <2>6. CASE e = edit[p].event /\ f \in edit[p].fields
    BY <1>0, <1>2, <2>1, <2>3, <2>4, <2>6
  <2>7. CASE e = edit[p].event /\ f \notin edit[p].fields
    BY <1>0, <2>3, <2>4, <2>7 DEF Fields
  <2> QED
    BY <2>5, <2>6, <2>7
<1>3. CASE PoolAddWrite(p)
  <2>1. edit[p].event \in Events /\ item[edit[p].event] \in EventItem /\ item[edit[p].event] # Absent
    BY <1>0, <1>3 DEF PoolAddWrite
  <2>2. /\ \A x \in Events \ {edit[p].event} : item'[x] = item[x]
        /\ item'[edit[p].event].slot = item[edit[p].event].slot
        /\ item'[edit[p].event].pool = edit[p].pool \cup {edit[p].image}
    BY <1>3, <2>1 DEF PoolAddWrite, Appended, EventItem
  <2> QED
    BY <1>3, <2>1, <2>2
<1>4. CASE PoolRemoveWrite(p)
  <2>1. edit[p].event \in Events /\ item[edit[p].event] \in EventItem /\ item[edit[p].event] # Absent
    BY <1>0, <1>4 DEF PoolRemoveWrite
  <2>2. /\ \A x \in Events \ {edit[p].event} : item'[x] = item[x]
        /\ item'[edit[p].event].slot = item[edit[p].event].slot
        /\ item'[edit[p].event].pool = edit[p].pool \ {edit[p].image}
    BY <1>4, <2>1 DEF PoolRemoveWrite, EventItem
  <2> QED
    BY <1>4, <2>1, <2>2
<1> QED
  BY <1>1, <1>2, <1>3, <1>4

\* Every step leaves the images at home; uploads give homes to theirs.
LEMMA HomesStep ==
  ASSUME CatalogInv, FieldsKnown, OneHome, [CatalogNext]_catalogVars
  PROVE  OneHome'
<1> USE CatalogAssumption, IdleFacts
<1>0. PICK evt, fld : AtHome(evt, fld)
  BY DEF OneHome
<1>1. ASSUME NEW p \in Edits, NEW evt2, NEW fld2, Moves(p, evt, fld, evt2, fld2)
      PROVE  OneHome'
  BY <1>0, <1>1, MovesKeepHomes DEF OneHome, CatalogInv
<1>a. /\ CatalogTypeOK /\ EventsKnown /\ "pool" \notin Slots /\ "pool" \in Fields
      /\ \A p \in Edits : edit[p] \in Edit
  BY DEF CatalogInv, CatalogTypeOK, Slots, Fields
<1>b. \A p \in Edits : /\ Held(p) \subseteq Images /\ Seen(p) \subseteq Images
                       /\ Held(p)' \subseteq Images /\ Seen(p)' \subseteq Images
  BY DEF Held, Seen
\* A request that goes on with what it has, or ends.
<1>2. ASSUME NEW p \in Edits, KeepsNames, object' = object,
             \A q \in Edits \ {p} : edit'[q] = edit[q],
             \A i \in Held(p)' : i \in Held(p),
             \A i \in Seen(p)' : i \in Seen(p),
             \A i \in Held(p)' \cup Seen(p)' :
               /\ edit'[p].event = edit[p].event /\ edit'[p].fields = edit[p].fields
               /\ edit'[p].new = edit[p].new /\ edit'[p].at = edit[p].at
      PROVE  OneHome'
  <2>1. Moves(p, evt, fld, evt, fld)
    BY <1>0, <1>b, <1>2 DEF Moves, KeepsNames, AtHome, HeldAtHome, SeenAtHome
  <2> QED
    BY <1>1, <2>1
<1>3. ASSUME NEW p \in Edits, KeepsNames, object' = object,
             \A q \in Edits \ {p} : edit'[q] = edit[q],
             edit'[p].new = NoEdit.new, edit'[p].old = {}, edit'[p].pool = {},
             edit'[p].at \notin {"poolAdd", "poolAddWrite", "poolDrop", "poolDelete"}
      PROVE  OneHome'
  <2>1. Held(p)' = {} /\ Seen(p)' = {}
    BY <1>3 DEF Held, Seen, NoEdit
  <2> QED
    BY <1>2, <1>3, <2>1
<1>4. ASSUME NEW p \in Edits, NEW e \in Events, OpenScan(p, e) PROVE OneHome'
  <2>1. KeepsNames
    BY <1>a, <1>4, NamesKept DEF OpenScan
  <2>2. edit' = [edit EXCEPT ![p] = [NoEdit EXCEPT !.at = "opening", !.event = e, !.others = OthersOpen(e)]]
    BY <1>4 DEF OpenScan, EditStarts
  <2>3. edit'[p].new = NoEdit.new /\ edit'[p].old = {} /\ edit'[p].pool = {} /\ edit'[p].at = "opening"
    BY <1>a, <2>2 DEF CatalogTypeOK, NoEdit
  <2> QED
    BY <1>3, <1>4, <1>a, <2>1, <2>2, <2>3 DEF OpenScan, CatalogTypeOK
<1>5. ASSUME NEW p \in Edits, OpenClosesOther(p) PROVE OneHome'
  <2>1. KeepsNames
    BY <1>a, <1>5, NamesKept
  <2>2. PICK x : edit' = [edit EXCEPT ![p] = [@ EXCEPT !.others = edit[p].others \ {x}]]
    BY <1>5 DEF OpenClosesOther
  <2>3. /\ edit'[p].event = edit[p].event /\ edit'[p].fields = edit[p].fields
        /\ edit'[p].new = edit[p].new /\ edit'[p].at = edit[p].at /\ edit'[p].image = edit[p].image
        /\ edit'[p].old = edit[p].old /\ edit'[p].pool = edit[p].pool
    BY <1>a, <2>2 DEF CatalogTypeOK, Edit
  <2>4. Held(p)' = Held(p) /\ Seen(p)' = Seen(p)
    BY <2>3 DEF Held, Seen
  <2> QED
    BY <1>2, <1>5, <1>a, <2>1, <2>2, <2>3, <2>4 DEF OpenClosesOther, CatalogTypeOK
<1>6. ASSUME NEW p \in Edits, OpenOpens(p) PROVE OneHome'
  <2>1. KeepsNames
    BY <1>a, <1>6, NamesKept
  <2> QED
    BY <1>3, <1>6, <1>a, <2>1 DEF OpenOpens, EditEnds, CatalogTypeOK, NoEdit
<1>7. ASSUME NEW p \in Edits, NEW e \in Events, CloseEvent(p, e) PROVE OneHome'
  <2>1. KeepsNames
    BY <1>a, <1>7, NamesKept
  <2>2. Held(p)' = Held(p) /\ Seen(p)' = Seen(p)
    BY <1>7 DEF Held, Seen, CloseEvent
  <2> QED
    BY <1>2, <1>7, <2>1, <2>2 DEF CloseEvent
<1>8. ASSUME NEW p \in Edits, RequestLost(p) PROVE OneHome'
  <2>1. KeepsNames
    BY <1>a, <1>8, NamesKept DEF RequestLost
  <2> QED
    BY <1>3, <1>8, <1>a, <2>1 DEF RequestLost, EditEnds, CatalogTypeOK, NoEdit
<1>9. ASSUME KeepsNames, object' = object, edit' = edit PROVE OneHome'
  <2>1. AtHome(evt, fld)'
    BY <1>0, <1>9 DEF AtHome, NamedAtHome, SeenAtHome, HeldAtHome, HeldApart, Held, Seen, KeepsNames
  <2> QED
    BY <2>1 DEF OneHome
<1>10. ASSUME NEW p \in Edits, SlotsRead(p) PROVE OneHome'
  <2>1. KeepsNames
    BY <1>a, <1>10, NamesKept DEF SlotsRead
  <2>2. /\ edit'[p].event = edit[p].event /\ edit'[p].fields = edit[p].fields
        /\ edit'[p].new = edit[p].new /\ edit'[p].pool = edit[p].pool
        /\ edit'[p].at = "slotsDelete" /\ edit'[p].old = Replaced(edit[p].event, edit[p].fields)
        /\ \A q \in Edits \ {p} : edit'[q] = edit[q]
    BY <1>10, <1>a DEF SlotsRead, CatalogTypeOK, Edit
  <2>3. Held(p)' = Held(p) /\ Seen(p)' = {i \in Images : i \in Replaced(edit[p].event, edit[p].fields) \cup edit[p].pool}
    BY <1>10, <2>2 DEF Held, Seen, SlotsRead
  <2>4. edit[p].event \in Events /\ InTable(edit[p].event) /\ edit[p].fields \subseteq Fields
    BY <1>10, <1>a DEF SlotsRead, EventsKnown, Edit
  <2>5. ASSUME NEW i \in Seen(p)'
        PROVE  /\ i \in Seen(p) \/ \E f \in Fields : i \in Named(edit[p].event, f)
               /\ evt[i] = edit[p].event /\ fld[i] \in edit[p].fields
    <3>1. CASE i \in edit[p].pool
      BY <1>0, <1>b, <2>5, <3>1 DEF AtHome, SeenAtHome, Seen
    <3>2. ASSUME NEW f \in edit[p].fields, i \in Named(edit[p].event, f)
          PROVE  evt[i] = edit[p].event /\ fld[i] = f
      BY <1>0, <2>4, <3>2 DEF AtHome, NamedAtHome
    <3> QED
      BY <2>3, <2>4, <2>5, <3>1, <3>2 DEF Replaced
  <2>6. Moves(p, evt, fld, evt, fld)
    BY <1>0, <1>10, <1>b, <2>1, <2>2, <2>3, <2>4, <2>5
       DEF Moves, KeepsNames, AtHome, HeldAtHome, SlotsRead
  <2> QED
    BY <1>1, <2>6
<1>11. ASSUME NEW p \in Edits, SlotsDelete(p) PROVE OneHome'
  <2>1. KeepsNames
    BY <1>a, <1>11, NamesKept DEF SlotsDelete
  <2>2. /\ edit'[p].event = edit[p].event /\ edit'[p].fields = edit[p].fields
        /\ edit'[p].new = edit[p].new /\ edit'[p].pool = edit[p].pool
        /\ edit'[p].at = "slotsWrite" /\ edit'[p].old = edit[p].old
        /\ \A q \in Edits \ {p} : edit'[q] = edit[q]
    BY <1>11, <1>a DEF SlotsDelete, Goes, CatalogTypeOK, Edit
  <2>3. Held(p)' = Held(p) /\ Seen(p)' = Seen(p)
    BY <1>11, <2>2 DEF Held, Seen, SlotsDelete
  <2>4. \A i \in Images : \/ object'[i] = object[i]
                          \/ object'[i] = "deleted" /\ i \in Seen(p)
    BY <1>11, <1>a DEF SlotsDelete, _delete_event_image, Seen, CatalogTypeOK
  <2>5. \A i \in Held(p) : object'[i] = "stored"
    BY <1>0, <1>b, <2>4 DEF AtHome, HeldAtHome, HeldApart
  <2>6. Moves(p, evt, fld, evt, fld)
    BY <1>0, <1>b, <2>1, <2>2, <2>3, <2>4, <2>5 DEF Moves, KeepsNames, AtHome, HeldAtHome,
                                        SeenAtHome
  <2> QED
    BY <1>1, <2>6
<1>12. ASSUME NEW p \in Edits, PoolRead(p) PROVE OneHome'
  <2>1. KeepsNames
    BY <1>a, <1>12, NamesKept DEF PoolRead
  <2>2. /\ edit'[p].event = edit[p].event /\ edit'[p].fields = edit[p].fields
        /\ edit'[p].new = edit[p].new /\ edit'[p].old = edit[p].old /\ edit'[p].image = edit[p].image
        /\ edit'[p].at = "poolAddWrite" /\ edit'[p].pool = item[edit[p].event].pool
        /\ \A q \in Edits \ {p} : edit'[q] = edit[q]
    BY <1>12, <1>a DEF PoolRead, CatalogTypeOK, Edit
  <2>3. edit[p].event \in Events /\ InTable(edit[p].event) /\ edit[p].fields = {"pool"}
    BY <1>12, <1>a DEF PoolRead, EventsKnown, FieldsKnown
  <2>4. Held(p)' = Held(p)
    BY <1>12, <2>2 DEF Held, PoolRead
  <2>5. \A i \in Seen(p)' : i \in Seen(p) \/ i \in Named(edit[p].event, "pool")
    BY <2>2 DEF Seen, Named
  <2>6. \A i \in Seen(p)' : evt[i] = edit[p].event /\ fld[i] = "pool"
    BY <1>0, <1>a, <2>3, <2>5 DEF AtHome, SeenAtHome, NamedAtHome
  <2>7. Moves(p, evt, fld, evt, fld)
    BY <1>0, <1>12, <1>a, <1>b, <2>1, <2>2, <2>3, <2>4, <2>5, <2>6
       DEF Moves, KeepsNames, AtHome, HeldAtHome, PoolRead
  <2> QED
    BY <1>1, <2>7
<1>13. ASSUME NEW p \in Edits, NEW e \in Events, NEW i \in Images, PoolRemoveRead(p, e, i)
       PROVE  OneHome'
  <2>1. KeepsNames
    BY <1>a, <1>13, NamesKept DEF PoolRemoveRead
  <2>2. /\ edit'[p].event = e /\ edit'[p].fields = {"pool"} /\ edit'[p].new = NoEdit.new
        /\ edit'[p].old = {} /\ edit'[p].image = i
        /\ edit'[p].at = "poolDrop" /\ edit'[p].pool = item[e].pool
        /\ \A q \in Edits \ {p} : edit'[q] = edit[q]
    BY <1>13, <1>a DEF PoolRemoveRead, EditStarts, CatalogTypeOK, NoEdit
  <2>3. InTable(e) /\ i \in item[e].pool
    BY <1>13 DEF PoolRemoveRead
  <2>4. Held(p)' = {}
    BY <2>2 DEF Held, NoEdit
  <2>5. \A j \in Seen(p)' : j \in Named(e, "pool")
    BY <2>2, <2>3 DEF Seen, Named
  <2>6. \A j \in Seen(p)' : evt[j] = e /\ fld[j] = "pool"
    BY <1>0, <1>a, <2>3, <2>5 DEF AtHome, NamedAtHome
  <2>7. Moves(p, evt, fld, evt, fld)
    BY <1>13, <1>a, <1>b, <2>1, <2>2, <2>3, <2>4, <2>5, <2>6 DEF Moves, KeepsNames, PoolRemoveRead
  <2> QED
    BY <1>1, <2>7
<1>14. ASSUME NEW p \in Edits, PoolRemoveDelete(p) PROVE OneHome'
  <2>1. KeepsNames
    BY <1>a, <1>14, NamesKept DEF PoolRemoveDelete
  <2>2. edit'[p] = NoEdit /\ \A q \in Edits \ {p} : edit'[q] = edit[q]
    BY <1>14, <1>a DEF PoolRemoveDelete, EditEnds, CatalogTypeOK
  <2>3. Held(p)' = {} /\ Seen(p)' = {}
    BY <2>2 DEF Held, Seen, NoEdit
  <2>4. \A i \in Images : \/ object'[i] = object[i]
                          \/ object'[i] = "deleted" /\ i \in Seen(p)
    BY <1>14, <1>a DEF PoolRemoveDelete, _delete_event_image, Seen, CatalogTypeOK
  <2>5. Moves(p, evt, fld, evt, fld)
    BY <1>b, <2>1, <2>2, <2>3, <2>4 DEF Moves, KeepsNames
  <2> QED
    BY <1>1, <2>5
<1>15. ASSUME NEW p \in Edits, CreatePut(p) \/ SlotsWrite(p) PROVE OneHome'
  <2>1. edit'[p] = NoEdit /\ object' = object /\ \A q \in Edits \ {p} : edit'[q] = edit[q]
    BY <1>15, <1>a DEF CreatePut, SlotsWrite, EditEnds, CatalogTypeOK
  <2>2. Held(p)' = {} /\ Seen(p)' = {}
    BY <2>1 DEF Held, Seen, NoEdit
  <2>3. ASSUME NEW e \in Events, NEW f \in Fields, InTable(e)', NEW i \in Named(e, f)'
        PROVE  \/ InTable(e) /\ i \in Named(e, f)
               \/ i \in Held(p) /\ evt[i] = e /\ fld[i] = f
    <3>1. \/ InTable(e) /\ i \in Named(e, f)
          \/ e = edit[p].event /\ f \in Slots /\ i = edit[p].new[f] /\ i # Nothing
      <4>1. \A g \in edit[p].fields : SlotsWrite(p) => g \in Slots
        BY DEF SlotsWrite, FieldsKnown
      <4>2. ~(PoolAddWrite(p) \/ PoolRemoveWrite(p))
        BY <1>15 DEF CreatePut, SlotsWrite, PoolAddWrite, PoolRemoveWrite
      <4>3. f \in Slots \/ f = "pool"
        BY DEF Fields
      <4> QED
        BY <1>15, <2>3, <4>1, <4>2, <4>3, NamesWritten
    <3>2. CASE e = edit[p].event /\ f \in Slots /\ i = edit[p].new[f] /\ i # Nothing
      <4>1. i \in Images
        BY <1>a, <3>2 DEF Edit
      <4>2. i \in Held(p)
        BY <3>2, <4>1 DEF Held
      <4> QED
        BY <1>0, <3>2, <4>2 DEF AtHome, HeldAtHome
    <3> QED
      BY <3>1, <3>2
  <2>4. Moves(p, evt, fld, evt, fld)
    BY <1>b, <2>1, <2>2, <2>3 DEF Moves
  <2> QED
    BY <1>1, <2>4
<1>16. ASSUME NEW p \in Edits, PoolAddWrite(p) \/ PoolRemoveWrite(p) PROVE OneHome'
  <2>1. object' = object /\ \A q \in Edits \ {p} : edit'[q] = edit[q]
    BY <1>16, <1>a DEF PoolAddWrite, PoolRemoveWrite, EditEnds, Goes, CatalogTypeOK
  <2>2. /\ PoolAddWrite(p) => edit'[p] = NoEdit
        /\ PoolRemoveWrite(p) => /\ edit'[p].event = edit[p].event /\ edit'[p].fields = edit[p].fields
                                 /\ edit'[p].new = edit[p].new /\ edit'[p].pool = edit[p].pool
                                 /\ edit'[p].at = "poolDelete" /\ edit'[p].old = edit[p].old
                                 /\ edit'[p].image = edit[p].image
    BY <1>16, <1>a DEF PoolAddWrite, PoolRemoveWrite, EditEnds, Goes, CatalogTypeOK, Edit
  <2>3. PoolAddWrite(p) => Held(p)' = {} /\ Seen(p)' = {}
    BY <2>2 DEF Held, Seen, NoEdit
  <2>4. PoolRemoveWrite(p) => Held(p)' = Held(p) /\ Seen(p)' = Seen(p)
    BY <2>2 DEF Held, Seen, PoolRemoveWrite
  <2>5. ASSUME NEW e \in Events, NEW f \in Fields, InTable(e)', NEW i \in Named(e, f)'
        PROVE  \/ InTable(e) /\ i \in Named(e, f)
               \/ i \in Held(p) \cup Seen(p) /\ evt[i] = e /\ fld[i] = f /\ i \notin Held(p)'
    <3>1. ~(CreatePut(p) \/ SlotsWrite(p))
      BY <1>16 DEF CreatePut, SlotsWrite, PoolAddWrite, PoolRemoveWrite
    <3>2. \/ InTable(e) /\ i \in Named(e, f)
          \/ /\ e = edit[p].event /\ f = "pool"
             /\ i \in edit[p].pool \/ (PoolAddWrite(p) /\ i = edit[p].image)
      BY <1>16, <2>5, <3>1, NamesWritten
    <3>3. edit[p].fields = {"pool"} /\ edit[p].pool \subseteq Images
      BY <1>16, <1>a DEF PoolAddWrite, PoolRemoveWrite, FieldsKnown, Edit
    <3>4. ASSUME e = edit[p].event, f = "pool", i \in edit[p].pool
          PROVE  i \in Seen(p) /\ evt[i] = e /\ fld[i] = f /\ i \notin Held(p)'
      <4>1. i \in Seen(p)
        BY <3>3, <3>4 DEF Seen
      <4> QED
        BY <1>0, <1>16, <2>3, <2>4, <3>3, <3>4, <4>1 DEF AtHome, SeenAtHome, HeldApart
    <3>5. ASSUME e = edit[p].event, f = "pool", PoolAddWrite(p), i = edit[p].image
          PROVE  i \in Held(p) /\ evt[i] = e /\ fld[i] = f /\ i \notin Held(p)'
      <4>1. edit[p].at = "poolAddWrite" /\ edit[p].image \in Images
        BY <1>a, <3>5 DEF PoolAddWrite, EventsKnown
      <4>2. i \in Held(p)
        BY <3>5, <4>1 DEF Held
      <4> QED
        BY <1>0, <2>3, <3>5, <4>1, <4>2 DEF AtHome, HeldAtHome
    <3> QED
      BY <3>2, <3>4, <3>5
  <2>6. \A i \in Held(p)' \cup Seen(p)' :
          PoolRemoveWrite(p) /\ edit'[p].event = edit[p].event /\ edit'[p].fields = edit[p].fields
          /\ edit'[p].new = edit[p].new /\ edit'[p].at = "poolDelete"
    BY <1>16, <2>2, <2>3
  <2>7. Moves(p, evt, fld, evt, fld)
    BY <1>0, <1>16, <1>b, <2>1, <2>3, <2>4, <2>5, <2>6 DEF Moves, AtHome, HeldAtHome, SeenAtHome
  <2> QED
    BY <1>1, <2>7
\* Uploads, of a slot's files or one more image of the pool.
<1>17. ASSUME NEW p \in Edits, NEW e \in Events, NEW f2,
              item' = item, \A q \in Edits \ {p} : edit'[q] = edit[q],
              edit'[p].event = e, edit'[p].old = {}, edit'[p].pool = {},
              edit'[p].at \notin {"poolDrop", "poolDelete"},
              \A i \in Images : object[i] # "unused" => object'[i] = object[i],
              \A i \in Held(p)' :
                /\ object[i] = "unused" /\ object'[i] = "stored"
                /\ edit'[p].at \in {"poolAdd", "poolAddWrite"} => f2[i] = "pool"
                /\ \A f \in Slots : edit'[p].new[f] = i => f2[i] = f
       PROVE  OneHome'
  <2>1. KeepsNames
    BY <1>a, <1>17, NamesKept
  <2>3. Seen(p)' = {}
    BY <1>17 DEF Seen
  <2> DEFINE evt2 == [i \in Images |-> IF object[i] = "unused" THEN e ELSE evt[i]]
             fld2 == [i \in Images |-> IF object[i] = "unused" THEN f2[i] ELSE fld[i]]
  <2>4. \A i \in Images : /\ object[i] = "unused" => evt2[i] = e /\ fld2[i] = f2[i]
                          /\ object[i] # "unused" => evt2[i] = evt[i] /\ fld2[i] = fld[i]
    OBVIOUS
  <2> HIDE DEF evt2, fld2
  <2>5. Moves(p, evt, fld, evt2, fld2)
    BY <1>17, <1>b, <2>1, <2>3, <2>4 DEF Moves, KeepsNames
  <2> QED
    BY <1>1, <2>5
<1>18. ASSUME NEW p \in Edits, NEW e \in Events, NEW new \in [Slots -> Images \cup {Nothing}],
              item' = item, Uploads(new), \A q \in Edits \ {p} : edit'[q] = edit[q],
              edit'[p].at \in {"create", "slots"}, edit'[p].event = e, edit'[p].new = new,
              edit'[p].old = {}, edit'[p].pool = {}
       PROVE  OneHome'
  <2> DEFINE f2 == [i \in Images |-> CHOOSE f \in Slots : new[f] = i]
  <2>3. \A i \in Held(p)' : i \in Images /\ \E f \in Slots : new[f] = i
    BY <1>18 DEF Held
  <2>4. \A f \in Slots : new[f] # Nothing => object[new[f]] = "unused"
    BY <1>18 DEF Uploads
  <2>5. \A f, g \in Slots : new[f] # Nothing /\ new[f] = new[g] => f = g
    BY <1>18 DEF Uploads
  <2>6. \A i \in Images : object'[i] = IF \E f \in Slots : new[f] # Nothing /\ new[f] = i
                                      THEN "stored" ELSE object[i]
    BY <1>18 DEF Uploads
  <2>7. \A i \in Images : \A f \in Slots : new[f] = i => f2[i] = f
    <3>1. ASSUME NEW i \in Images, NEW f \in Slots, new[f] = i PROVE f2[i] = f
      <4>1. f2[i] = CHOOSE g \in Slots : new[g] = i
        OBVIOUS
      <4>2. f2[i] \in Slots /\ new[f2[i]] = i
        BY <3>1, <4>1
      <4> HIDE DEF f2
      <4> QED
        BY <2>5, <3>1, <4>2
    <3> QED
      BY <3>1
  <2> HIDE DEF f2
  <2>8. \A i \in Images : object[i] # "unused" => object'[i] = object[i]
    BY <2>4, <2>6
  <2>9. \A i \in Held(p)' : object[i] = "unused" /\ object'[i] = "stored"
    BY <2>3, <2>4, <2>6
  <2>10. edit'[p].at \notin {"poolDrop", "poolDelete", "poolAdd", "poolAddWrite"}
    BY <1>18
  <2>11. \A i \in Held(p)' :
           /\ object[i] = "unused" /\ object'[i] = "stored"
           /\ edit'[p].at \in {"poolAdd", "poolAddWrite"} => f2[i] = "pool"
           /\ \A f \in Slots : edit'[p].new[f] = i => f2[i] = f
    BY <1>18, <2>3, <2>7, <2>9, <2>10
  <2> QED
    BY <1>17, <1>18, <2>8, <2>10, <2>11
<1>19. ASSUME NEW p \in Edits, NEW e \in Events, CreateUpload(p, e) PROVE OneHome'
  <2>1. PICK i \in Images \cup {Nothing} :
          /\ Uploads([NoEdit.new EXCEPT !["logo"] = i])
          /\ edit' = [edit EXCEPT ![p] = [NoEdit EXCEPT !.at = "create", !.event = e,
                                          !.new = [NoEdit.new EXCEPT !["logo"] = i]]]
    BY <1>19, Zenon DEF CreateUpload, EditStarts
  <2>2. [NoEdit.new EXCEPT !["logo"] = i] \in [Slots -> Images \cup {Nothing}]
    BY DEF NoEdit
  <2>3. item' = item
    BY <1>19 DEF CreateUpload
  <2> DEFINE new == [NoEdit.new EXCEPT !["logo"] = i]
  <2> HIDE DEF new
  <2>4. /\ edit' = [edit EXCEPT ![p] = [NoEdit EXCEPT !.at = "create", !.event = e, !.new = new]]
        /\ new \in [Slots -> Images \cup {Nothing}] /\ Uploads(new)
    BY <2>1, <2>2 DEF new
  <2>5. /\ \A q \in Edits \ {p} : edit'[q] = edit[q]
        /\ edit'[p].at = "create" /\ edit'[p].event = e /\ edit'[p].new = new
        /\ edit'[p].old = {} /\ edit'[p].pool = {}
    BY <1>a, <2>4 DEF CatalogTypeOK, NoEdit
  <2> QED
    BY <1>18, <2>3, <2>4, <2>5
<1>20. ASSUME NEW p \in Edits, NEW e \in Events, SlotsUpload(p, e) PROVE OneHome'
  <2>1. {{"logo"}} \cup (SUBSET CharitySlots \ {{}}) \subseteq SUBSET Fields
    BY DEF Fields, Slots
  <2>2. PICK fields \in SUBSET Fields, new \in [Slots -> Images \cup {Nothing}] :
          /\ Uploads(new)
          /\ edit' = [edit EXCEPT ![p] = [NoEdit EXCEPT !.at = "slots", !.event = e,
                                          !.fields = fields, !.new = new]]
    BY <1>20, <2>1, Zenon DEF SlotsUpload, EditStarts
  <2>3. /\ \A q \in Edits \ {p} : edit'[q] = edit[q]
        /\ edit'[p].at = "slots" /\ edit'[p].event = e /\ edit'[p].new = new
        /\ edit'[p].old = {} /\ edit'[p].pool = {}
    BY <1>a, <2>2 DEF CatalogTypeOK, NoEdit
  <2>4. item' = item
    BY <1>20 DEF SlotsUpload
  <2> QED
    BY <1>18, <2>2, <2>3, <2>4
<1>21. ASSUME NEW p \in Edits, NEW e \in Events, PoolUpload(p, e) PROVE OneHome'
  <2>1. PICK i \in Images :
          /\ object[i] = "unused"
          /\ object' = [object EXCEPT ![i] = "stored"]
          /\ edit' = [edit EXCEPT ![p] = [NoEdit EXCEPT !.at = "poolAdd", !.event = e,
                                          !.fields = {"pool"}, !.image = i]]
    BY <1>21, Zenon DEF PoolUpload, EditStarts
  <2> DEFINE f2 == [j \in Images |-> "pool"]
  <2>2. /\ edit'[p] = [NoEdit EXCEPT !.at = "poolAdd", !.event = e, !.fields = {"pool"},
                                  !.new = NoEdit.new, !.image = i]
        /\ \A q \in Edits \ {p} : edit'[q] = edit[q]
    BY <1>a, <2>1 DEF CatalogTypeOK, NoEdit
  <2>3. edit'[p].image = i /\ edit'[p].new = NoEdit.new
    BY <2>2 DEF NoEdit
  <2>4. \A f \in Slots : NoEdit.new[f] = Nothing
    BY DEF NoEdit
  <2>5. \A j \in Held(p)' : j = i
    BY <2>3, <2>4 DEF Held
  <2>6. /\ \A j \in Images : object[j] # "unused" => object'[j] = object[j]
        /\ object'[i] = "stored"
    BY <1>a, <2>1 DEF CatalogTypeOK
  <2>8. \A j \in Held(p)' : \A f \in Slots : NoEdit.new[f] # j
    BY <1>b, <2>4
  <2>9. \A j \in Held(p)' : f2[j] = "pool"
    BY <1>b
  <2>10. /\ edit'[p].event = e /\ edit'[p].old = {} /\ edit'[p].pool = {}
         /\ edit'[p].at \notin {"poolDrop", "poolDelete"}
    BY <2>2 DEF NoEdit
  <2>11. \A j \in Held(p)' :
           /\ object[j] = "unused" /\ object'[j] = "stored"
           /\ edit'[p].at \in {"poolAdd", "poolAddWrite"} => f2[j] = "pool"
           /\ \A f \in Slots : edit'[p].new[f] = j => f2[j] = f
    BY <2>1, <2>3, <2>5, <2>6, <2>8, <2>9
  <2>12. item' = item
    BY <1>21 DEF PoolUpload
  <2>13. \A q \in Edits \ {p} : edit'[q] = edit[q]
    BY <2>2
  <2>14. \A j \in Images : object[j] # "unused" => object'[j] = object[j]
    BY <2>6
  <2> HIDE DEF f2
  <2> QED
    BY <1>17, <2>10, <2>11, <2>12, <2>13, <2>14
<1>22. ASSUME NEW e \in Events, Sell(e) PROVE OneHome'
  BY <1>9, <1>22, <1>a, NamesKept DEF Sell
<1>23. CASE UNCHANGED catalogVars
  BY <1>9, <1>23, <1>a, NamesKept DEF catalogVars
<1> QED
  BY <1>4, <1>5, <1>6, <1>7, <1>8, <1>10, <1>11, <1>12, <1>13, <1>14, <1>15, <1>16, <1>19,
     <1>20, <1>21, <1>22, <1>23 DEF CatalogNext, AdminNext

\* Every image an unspoiled field names stays in the bucket.
LEMMA StoredStep ==
  ASSUME CatalogInv, FieldsKnown, OneHome, EditsAlone, NamedAreStored, PoolInHand, [CatalogNext]_catalogVars
  PROVE  NamedAreStored' /\ PoolInHand'
<1> USE CatalogAssumption, IdleFacts
<1>0. PICK evt, fld : AtHome(evt, fld)
  BY DEF OneHome
<1>a. /\ CatalogTypeOK /\ EventsKnown /\ "pool" \notin Slots /\ "pool" \in Fields
      /\ \A p \in Edits : edit[p] \in Edit
  BY DEF CatalogInv, CatalogTypeOK, Slots, Fields
<1>b. EventsKnown'
  BY <1>a, TypeStep
<1>c. \A e \in Events, f \in Fields : InTable(e) => Named(e, f) \subseteq Images
  BY <1>0 DEF AtHome, NamedAtHome
\* The two parts, one field and one request at a time.
<1> DEFINE Free(e, f) == f = "pool" \/ \A p \in Edits : edit[p].event = e => f \notin edit[p].fields
<1>d. ASSUME \A e \in Events, f \in Fields : InTable(e)' /\ <<e, f>> \notin spoiled' /\ Free(e, f)' =>
               \A i \in Named(e, f)' : object'[i] = "stored"
      PROVE  NamedAreStored'
  BY <1>d DEF NamedAreStored
<1>e. ASSUME \A q \in Edits :
               InTable(edit[q].event)' /\ edit'[q].event \in Events /\ <<edit'[q].event, "pool">> \notin spoiled' =>
                 /\ edit'[q].at \in {"poolAddWrite", "poolDrop"} =>
                      edit'[q].pool = Named(edit[q].event, "pool")'
                 /\ edit'[q].at = "poolDelete" => edit'[q].image \notin Named(edit[q].event, "pool")'
      PROVE  PoolInHand'
  BY <1>b, <1>e DEF EventsKnown, PoolInHand, Named
<1>f. \A q \in Edits : <<edit[q].event, "pool">> \notin spoiled =>
        /\ edit[q].at \in {"poolAddWrite", "poolDrop"} => edit[q].pool = Named(edit[q].event, "pool")
        /\ edit[q].at = "poolDelete" => edit[q].image \notin Named(edit[q].event, "pool")
  BY DEF PoolInHand, Named
\* Steps that neither write names nor delete: a request edits what it edited,
\* or starts, or ends without an edit or spoiling it.
<1>1. ASSUME KeepsNames, spoiled \subseteq spoiled',
             \A i \in Images : object[i] = "stored" => object'[i] = "stored",
             \A q \in Edits : edit'[q] = edit[q] \/
               /\ \A f \in edit[q].fields \ {"pool"} :
                    \/ edit'[q].event = edit[q].event /\ f \in edit'[q].fields
                    \/ <<edit[q].event, f>> \in spoiled'
               /\ \/ edit'[q].at \notin {"poolAddWrite", "poolDrop", "poolDelete"}
                  \/ /\ edit'[q].at \in {"poolAddWrite", "poolDrop"}
                     /\ edit'[q].pool = Named(edit'[q].event, "pool")
      PROVE  NamedAreStored' /\ PoolInHand'
  <2>1. ASSUME NEW e \in Events, NEW f \in Fields, InTable(e)', <<e, f>> \notin spoiled', Free(e, f)',
               NEW i \in Named(e, f)'
        PROVE  object'[i] = "stored"
    <3>1. InTable(e) /\ i \in Named(e, f) /\ <<e, f>> \notin spoiled
      BY <1>1, <2>1 DEF KeepsNames
    <3>2. Free(e, f)
      BY <1>1, <2>1
    <3>3. object[i] = "stored" /\ i \in Images
      BY <1>c, <3>1, <3>2 DEF NamedAreStored
    <3> QED
      BY <1>1, <3>3
  <2>2. ASSUME NEW q \in Edits, InTable(edit[q].event)', edit'[q].event \in Events
        PROVE  Named(edit[q].event, "pool")' = Named(edit'[q].event, "pool")
    BY <1>1, <1>a, <2>2 DEF KeepsNames
  <2> QED
    BY <1>1, <1>d, <1>e, <1>f, <2>1, <2>2
<1>g. ASSUME NEW p \in Edits, NEW r, KeepsNames, spoiled \subseteq spoiled',
             edit[p].at = "idle", edit' = [edit EXCEPT ![p] = r],
             \A i \in Images : object[i] = "stored" => object'[i] = "stored",
             \/ r.at \notin {"poolAddWrite", "poolDrop", "poolDelete"}
             \/ r.at = "poolDrop" /\ r.pool = Named(r.event, "pool")
      PROVE  NamedAreStored' /\ PoolInHand'
  <2>1. edit[p].fields = {}
    BY <1>g DEF FieldsKnown
  <2>2. edit'[p] = r /\ \A q \in Edits \ {p} : edit'[q] = edit[q]
    BY <1>g, <1>a DEF CatalogTypeOK
  <2> QED
    BY <1>1, <1>g, <2>1, <2>2
<1>21. ASSUME NEW p \in Edits, NEW e \in Events, OpenScan(p, e)
       PROVE  NamedAreStored' /\ PoolInHand'
  <2>1. KeepsNames
    BY <1>21, <1>a, NamesKept DEF OpenScan
  <2>2. spoiled \subseteq spoiled' /\ edit[p].at = "idle"
    BY <1>21 DEF OpenScan, EditStarts
  <2>3. \A i \in Images : object[i] = "stored" => object'[i] = "stored"
    BY <1>21, <1>a DEF OpenScan, CatalogTypeOK
  <2> DEFINE r == [NoEdit EXCEPT !.at = "opening", !.event = e, !.others = OthersOpen(e)]
  <2>4. edit' = [edit EXCEPT ![p] = r]
    BY <1>21, Zenon DEF OpenScan, EditStarts
  <2>5. r.at = "opening"
    BY DEF NoEdit
  <2> HIDE DEF r
  <2> QED
    BY <1>g, <2>1, <2>2, <2>3, <2>4, <2>5
<1>22. ASSUME NEW p \in Edits, NEW e \in Events, CreateUpload(p, e)
       PROVE  NamedAreStored' /\ PoolInHand'
  <2>1. KeepsNames
    BY <1>22, <1>a, NamesKept DEF CreateUpload
  <2>2. spoiled \subseteq spoiled' /\ edit[p].at = "idle"
    BY <1>22 DEF CreateUpload, EditStarts
  <2>3. \A i \in Images : object[i] = "stored" => object'[i] = "stored"
    BY <1>22, <1>a DEF CreateUpload, CatalogTypeOK, Uploads
  <2>4. PICK new :
          edit' = [edit EXCEPT ![p] = [NoEdit EXCEPT !.at = "create", !.event = e, !.new = new]]
    BY <1>22, Zenon DEF CreateUpload, EditStarts
  <2> DEFINE r == [NoEdit EXCEPT !.at = "create", !.event = e, !.new = new]
  <2>5. r.at = "create"
    BY DEF NoEdit
  <2> HIDE DEF r
  <2> QED
    BY <1>g, <2>1, <2>2, <2>3, <2>4, <2>5 DEF r
<1>23. ASSUME NEW p \in Edits, NEW e \in Events, SlotsUpload(p, e)
       PROVE  NamedAreStored' /\ PoolInHand'
  <2>1. KeepsNames
    BY <1>23, <1>a, NamesKept DEF SlotsUpload
  <2>2. spoiled \subseteq spoiled' /\ edit[p].at = "idle"
    BY <1>23 DEF SlotsUpload, EditStarts
  <2>3. \A i \in Images : object[i] = "stored" => object'[i] = "stored"
    BY <1>23, <1>a DEF SlotsUpload, CatalogTypeOK, Uploads
  <2>4. PICK fields, new :
          edit' = [edit EXCEPT ![p] = [NoEdit EXCEPT !.at = "slots", !.event = e, !.fields = fields, !.new = new]]
    BY <1>23, Zenon DEF SlotsUpload, EditStarts
  <2> DEFINE r == [NoEdit EXCEPT !.at = "slots", !.event = e, !.fields = fields, !.new = new]
  <2>5. r.at = "slots"
    BY DEF NoEdit
  <2> HIDE DEF r
  <2> QED
    BY <1>g, <2>1, <2>2, <2>3, <2>4, <2>5 DEF r
<1>24. ASSUME NEW p \in Edits, NEW e \in Events, PoolUpload(p, e)
       PROVE  NamedAreStored' /\ PoolInHand'
  <2>1. KeepsNames
    BY <1>24, <1>a, NamesKept DEF PoolUpload
  <2>2. spoiled \subseteq spoiled' /\ edit[p].at = "idle"
    BY <1>24 DEF PoolUpload, EditStarts
  <2>3. \A i \in Images : object[i] = "stored" => object'[i] = "stored"
    BY <1>24, <1>a DEF PoolUpload, CatalogTypeOK
  <2>4. PICK i :
          edit' = [edit EXCEPT ![p] = [NoEdit EXCEPT !.at = "poolAdd", !.event = e, !.fields = {"pool"}, !.image = i]]
    BY <1>24, Zenon DEF PoolUpload, EditStarts
  <2> DEFINE r == [NoEdit EXCEPT !.at = "poolAdd", !.event = e, !.fields = {"pool"}, !.image = i]
  <2>5. r.at = "poolAdd"
    BY DEF NoEdit
  <2> HIDE DEF r
  <2> QED
    BY <1>g, <2>1, <2>2, <2>3, <2>4, <2>5 DEF r
<1>25. ASSUME NEW p \in Edits, NEW e \in Events, NEW i \in Images, PoolRemoveRead(p, e, i)
       PROVE  NamedAreStored' /\ PoolInHand'
  <2>1. KeepsNames
    BY <1>25, <1>a, NamesKept DEF PoolRemoveRead
  <2>2. spoiled \subseteq spoiled' /\ object' = object /\ edit[p].at = "idle"
    BY <1>25 DEF PoolRemoveRead, EditStarts
  <2> DEFINE r == [NoEdit EXCEPT !.at = "poolDrop", !.event = e, !.fields = {"pool"}, !.image = i,
                               !.pool = item[e].pool]
  <2>4. edit' = [edit EXCEPT ![p] = r]
    BY <1>25, Zenon DEF PoolRemoveRead, EditStarts
  <2>5. r.at = "poolDrop" /\ r.pool = Named(r.event, "pool")
    BY DEF NoEdit, Named
  <2> HIDE DEF r
  <2> QED
    BY <1>g, <2>1, <2>2, <2>4, <2>5
<1>26. ASSUME NEW p \in Edits, NEW e \in Events, CloseEvent(p, e)
       PROVE  NamedAreStored' /\ PoolInHand'
  BY <1>1, <1>26, <1>a, NamesKept DEF CloseEvent
<1>27. ASSUME NEW e \in Events, Sell(e)
       PROVE  NamedAreStored' /\ PoolInHand'
  BY <1>1, <1>27, <1>a, NamesKept DEF Sell
<1>28. CASE UNCHANGED catalogVars
  BY <1>1, <1>28, <1>a, NamesKept DEF catalogVars
<1>3. ASSUME NEW p \in Edits,
             OpenClosesOther(p) \/ OpenOpens(p) \/ SlotsRead(p) \/ PoolRead(p) \/ RequestLost(p)
      PROVE  NamedAreStored' /\ PoolInHand'
  <2>1. KeepsNames
    BY <1>3, <1>a, NamesKept DEF SlotsRead, PoolRead, RequestLost
  <2>2. spoiled \subseteq spoiled' /\ object' = object
    BY <1>3 DEF OpenClosesOther, OpenOpens, SlotsRead, PoolRead, RequestLost
  <2>3. \A q \in Edits \ {p} : edit'[q] = edit[q]
    BY <1>3, <1>a DEF OpenClosesOther, OpenOpens, SlotsRead, PoolRead, RequestLost, EditEnds,
                      CatalogTypeOK
  <2>4. /\ \A f \in edit[p].fields \ {"pool"} :
             \/ edit'[p].event = edit[p].event /\ f \in edit'[p].fields
             \/ <<edit[p].event, f>> \in spoiled'
        /\ \/ edit'[p].at \notin {"poolAddWrite", "poolDrop", "poolDelete"}
           \/ /\ edit'[p].at \in {"poolAddWrite", "poolDrop"}
              /\ edit'[p].pool = Named(edit'[p].event, "pool")
    <3>1. CASE OpenClosesOther(p)
      BY <3>1, <1>a DEF OpenClosesOther, CatalogTypeOK, Edit, FieldsKnown
    <3>2. CASE OpenOpens(p)
      BY <3>2, <1>a DEF OpenOpens, EditEnds, CatalogTypeOK, NoEdit, FieldsKnown
    <3>3. CASE SlotsRead(p)
      BY <3>3, <1>a DEF SlotsRead, CatalogTypeOK, Edit
    <3>4. CASE PoolRead(p)
      BY <3>4, <1>a DEF PoolRead, CatalogTypeOK, Edit, Named
    <3>5. CASE RequestLost(p)
      BY <3>5, <1>a DEF RequestLost, EditEnds, CatalogTypeOK, NoEdit
    <3> QED
      BY <1>3, <3>1, <3>2, <3>3, <3>4, <3>5
  <2> QED
    BY <1>1, <2>1, <2>2, <2>3, <2>4
<1>4. ASSUME NEW p \in Edits, SlotsDelete(p) \/ PoolRemoveDelete(p)
      PROVE  NamedAreStored' /\ PoolInHand'
  <2>1. KeepsNames
    BY <1>4, <1>a, NamesKept DEF SlotsDelete, PoolRemoveDelete
  <2>2. spoiled' = spoiled /\ \A q \in Edits \ {p} : edit'[q] = edit[q]
    BY <1>4, <1>a DEF SlotsDelete, PoolRemoveDelete, Goes, EditEnds, CatalogTypeOK
  <2>3. /\ SlotsDelete(p) => /\ edit'[p].event = edit[p].event /\ edit'[p].fields = edit[p].fields
                             /\ edit[p].fields \subseteq Slots /\ edit'[p].at = "slotsWrite"
        /\ PoolRemoveDelete(p) => /\ edit[p].fields = {"pool"} /\ edit'[p].at = "idle"
                                  /\ edit[p].at = "poolDelete"
    BY <1>4, <1>a DEF SlotsDelete, PoolRemoveDelete, Goes, EditEnds, CatalogTypeOK, Edit,
                      NoEdit, FieldsKnown
  <2>4. \A i \in Images : \/ object'[i] = object[i]
                          \/ SlotsDelete(p) /\ i \in Seen(p)
                          \/ PoolRemoveDelete(p) /\ i \in Seen(p) /\ i = edit[p].image
    BY <1>4, <1>a DEF SlotsDelete, PoolRemoveDelete, _delete_event_image, Seen, CatalogTypeOK
  <2>5. ASSUME NEW e \in Events, NEW f \in Fields, InTable(e)', <<e, f>> \notin spoiled', Free(e, f)',
               NEW i \in Named(e, f)'
        PROVE  object'[i] = "stored"
    <3>1. InTable(e) /\ i \in Named(e, f) /\ <<e, f>> \notin spoiled /\ i \in Images
      BY <1>c, <2>1, <2>2, <2>5 DEF KeepsNames
    <3>2. Free(e, f)
      BY <1>4, <2>2, <2>3, <2>5
    <3>3. object[i] = "stored"
      BY <3>1, <3>2 DEF NamedAreStored
    <3>7. evt[i] = e /\ fld[i] = f
      BY <1>0, <3>1 DEF AtHome, NamedAtHome
    <3>8. i \in Seen(p) => evt[i] = edit[p].event /\ fld[i] \in edit[p].fields
      BY <1>0 DEF AtHome, SeenAtHome
    <3>4. i \in Seen(p) => e = edit[p].event /\ f \in edit[p].fields
      BY <3>7, <3>8, Zenon
    <3>5. CASE SlotsDelete(p)
      BY <1>a, <2>3, <2>4, <3>1, <3>2, <3>3, <3>4, <3>5 DEF SlotsDelete, PoolRemoveDelete
    <3>6. CASE PoolRemoveDelete(p)
      BY <1>f, <2>3, <2>4, <3>1, <3>3, <3>4, <3>6 DEF SlotsDelete, PoolRemoveDelete
    <3> QED
      BY <1>4, <3>5, <3>6
  <2>6. \A q \in Edits : InTable(edit[q].event)' /\ edit'[q].event \in Events =>
          Named(edit[q].event, "pool")' = Named(edit'[q].event, "pool")
    BY <1>a, <2>1 DEF KeepsNames
  <2>7. PoolInHand'
    <3>1. edit'[p].at \notin {"poolAddWrite", "poolDrop", "poolDelete"}
      BY <1>4, <2>3
    <3> QED
      BY <1>e, <1>f, <2>2, <2>6, <3>1
  <2> QED
    BY <1>d, <2>5, <2>7
<1>5. ASSUME NEW p \in Edits, CreatePut(p) \/ SlotsWrite(p)
      PROVE  NamedAreStored' /\ PoolInHand'
  <2>1. /\ edit'[p].at = "idle" /\ object' = object /\ spoiled' = spoiled
        /\ \A q \in Edits \ {p} : edit'[q] = edit[q]
    BY <1>5, <1>a DEF CreatePut, SlotsWrite, EditEnds, CatalogTypeOK, NoEdit
  <2>2. \A i \in Held(p) : object[i] = "stored"
    BY <1>0 DEF AtHome, HeldAtHome
  <2>3. \A f \in Slots : edit[p].new[f] # Nothing => edit[p].new[f] \in Held(p)
    BY <1>a DEF Held, Edit
  <2>4. ~PoolAddWrite(p) /\ ~PoolRemoveWrite(p)
    BY <1>5 DEF CreatePut, SlotsWrite, PoolAddWrite, PoolRemoveWrite
  <2>5. SlotsWrite(p) => edit[p].fields \subseteq Slots
    BY <1>5 DEF SlotsWrite, FieldsKnown
  <2>6. CreatePut(p) => edit[p].fields = {}
    BY <1>5 DEF CreatePut, FieldsKnown
  <2>7. ASSUME NEW e \in Events, NEW f \in Fields, InTable(e)'
        PROVE  \/ /\ InTable(e) /\ Named(e, f)' = Named(e, f)
                  /\ ~(SlotsWrite(p) /\ e = edit[p].event /\ f \in edit[p].fields)
               \/ Named(e, f)' \subseteq Held(p)
    <3>1. f \in Slots \/ f = "pool"
      BY DEF Fields
    <3>2. CASE SlotsWrite(p) /\ e = edit[p].event /\ f \in edit[p].fields
      <4>1. Named(e, f)' = {edit[p].new[f]} \ {Nothing}
        <5>1. item[e] \in EventItem /\ edit[p].new \in [Slots -> Images \cup {Nothing}] /\ f \in Slots
          BY <1>a, <2>5, <3>2 DEF SlotsWrite, EventsKnown, CatalogTypeOK, InTable, Edit
        <5>2. item'[e].slot[f] = edit[p].new[f]
          BY <1>a, <3>2, <5>1 DEF SlotsWrite, CatalogTypeOK, EventItem
        <5> QED
          BY <1>a, <5>1, <5>2 DEF Named
      <4> QED
        BY <2>3, <2>5, <3>2, <4>1
    <3>3. CASE ~(SlotsWrite(p) /\ e = edit[p].event /\ f \in edit[p].fields)
      BY <1>5, <1>a, <2>3, <2>4, <2>7, <3>1, <3>3, NamesWritten
    <3> QED
      BY <3>2, <3>3
  <2>8. ASSUME NEW e \in Events, NEW f \in Fields, InTable(e)', <<e, f>> \notin spoiled', Free(e, f)',
               NEW i \in Named(e, f)'
        PROVE  object'[i] = "stored"
    <3>1. CASE i \in Held(p)
      BY <2>1, <2>2, <3>1
    <3>2. CASE /\ InTable(e) /\ Named(e, f)' = Named(e, f)
               /\ ~(SlotsWrite(p) /\ e = edit[p].event /\ f \in edit[p].fields)
      <4>1. Free(e, f)
        BY <1>5, <2>1, <2>6, <2>8, <3>2
      <4> QED
        BY <2>1, <2>8, <3>2, <4>1 DEF NamedAreStored
    <3> QED
      BY <2>7, <2>8, <3>1, <3>2
  <2>9. ASSUME NEW q \in Edits \ {p}, edit[q].event \in Events,
               edit[q].at \in {"poolAddWrite", "poolDrop", "poolDelete"}
        PROVE  item'[edit[q].event].pool = item[edit[q].event].pool
    <3>1. item[edit[q].event] \in EventItem /\ item[edit[q].event] # Absent
      BY <1>a, <2>9 DEF EventsKnown, CatalogTypeOK, InTable
    <3>2. CASE CreatePut(p)
      BY <1>a, <3>1, <3>2 DEF CreatePut, attribute_not_exists, InTable, CatalogTypeOK
    <3>3. CASE SlotsWrite(p)
      BY <1>a, <3>1, <3>3 DEF SlotsWrite, CatalogTypeOK, EventItem
    <3> QED
      BY <1>5, <3>2, <3>3
  <2>10. PoolInHand'
    <3>1. \A q \in Edits : edit'[q].at \in {"poolAddWrite", "poolDrop", "poolDelete"} =>
            q # p /\ edit'[q] = edit[q] /\ item'[edit[q].event].pool = item[edit[q].event].pool
      BY <1>a, <2>1, <2>9 DEF EventsKnown
    <3> QED
      BY <2>1, <3>1 DEF PoolInHand
  <2> QED
    BY <1>d, <2>8, <2>10
<1>6. ASSUME NEW p \in Edits, PoolAddWrite(p) \/ PoolRemoveWrite(p)
      PROVE  NamedAreStored' /\ PoolInHand'
  <2> DEFINE here == edit[p].event
  <2>1. /\ object' = object /\ spoiled' = spoiled
        /\ \A q \in Edits \ {p} : edit'[q] = edit[q]
        /\ edit'[p].at \in {"idle", "poolDelete"}
        /\ edit'[p].at = "poolDelete" =>
             PoolRemoveWrite(p) /\ edit'[p].event = here /\ edit'[p].image = edit[p].image
    BY <1>6, <1>a DEF PoolAddWrite, PoolRemoveWrite, EditEnds, Goes, CatalogTypeOK, NoEdit, Edit
  <2>2. /\ here \in Events /\ item[here] \in EventItem /\ InTable(here) /\ edit[p].fields = {"pool"}
        /\ edit[p].at \in {"poolAddWrite", "poolDrop"}
    BY <1>6, <1>a DEF PoolAddWrite, PoolRemoveWrite, EventsKnown, CatalogTypeOK, InTable,
                      FieldsKnown
  <2>3. /\ \A x \in Events \ {here} : item'[x] = item[x]
        /\ item'[here].slot = item[here].slot
        /\ item'[here].pool = IF PoolAddWrite(p) THEN edit[p].pool \cup {edit[p].image}
                                                 ELSE edit[p].pool \ {edit[p].image}
    <3>1. CASE PoolAddWrite(p)
      BY <3>1, <1>a, <2>2 DEF PoolAddWrite, Appended, CatalogTypeOK, EventItem
    <3>2. CASE ~PoolAddWrite(p) /\ PoolRemoveWrite(p)
      <4>1. item' = [item EXCEPT ![here].pool = edit[p].pool \ {edit[p].image}]
        BY <3>2 DEF PoolRemoveWrite
      <4> QED
        BY <3>2, <4>1, <1>a, <2>2 DEF CatalogTypeOK, EventItem
    <3> QED
      BY <1>6, <3>1, <3>2
  <2>4. PoolAddWrite(p) => edit[p].image \in Held(p)
    BY <1>a DEF Held, PoolAddWrite, EventsKnown
  <2>5. PoolAddWrite(p) => object[edit[p].image] = "stored"
    BY <1>0, <2>4 DEF AtHome, HeldAtHome
  <2>6. <<here, "pool">> \notin spoiled =>
          /\ edit[p].pool = Named(here, "pool") /\ \A i \in edit[p].pool : object[i] = "stored"
    BY <1>a, <1>f, <2>2 DEF NamedAreStored
  <2>7. ASSUME NEW e \in Events, NEW f \in Fields, InTable(e)', <<e, f>> \notin spoiled', Free(e, f)',
               NEW i \in Named(e, f)'
        PROVE  object'[i] = "stored"
    <3>1. CASE e = here /\ f = "pool"
      BY <2>1, <2>3, <2>5, <2>6, <2>7, <3>1 DEF Named
    <3>2. CASE ~(e = here /\ f = "pool")
      <4>1. InTable(e) /\ i \in Named(e, f)
        BY <2>2, <2>3, <2>7, <3>2 DEF Named, InTable
      <4>2. Free(e, f)
        BY <2>1, <2>2, <2>7, <3>2
      <4> QED
        BY <2>1, <2>7, <4>1, <4>2 DEF NamedAreStored
    <3> QED
      BY <3>1, <3>2
  <2>8. PoolInHand'
    <3>1. ASSUME NEW q \in Edits \ {p}, edit[q].at \in {"poolAddWrite", "poolDrop", "poolDelete"},
                 <<edit[q].event, "pool">> \notin spoiled
          PROVE  item'[edit[q].event].pool = item[edit[q].event].pool
      <4>1. edit[q].fields = {"pool"} /\ edit[q].event \in Events
        BY <1>a, <3>1 DEF FieldsKnown, EventsKnown
      <4>2. edit[q].event # here
        BY <2>2, <3>1, <4>1 DEF EditsAlone
      <4> QED
        BY <2>3, <4>1, <4>2
    <3>2. edit'[p].at = "poolDelete" => edit'[p].image \notin item'[edit'[p].event].pool
      <4>1. PoolRemoveWrite(p) => ~PoolAddWrite(p)
        BY DEF PoolAddWrite, PoolRemoveWrite
      <4> QED
        BY <2>1, <2>3, <4>1
    <3> QED
      BY <2>1, <3>1, <3>2 DEF PoolInHand
  <2> QED
    BY <1>d, <2>7, <2>8
<1> QED
  BY <1>3, <1>4, <1>5, <1>6, <1>21, <1>22, <1>23, <1>24, <1>25, <1>26, <1>27, <1>28
     DEF CatalogNext, AdminNext

\* What the images' promises rest on, always.
THEOREM ImagesInductive == CatalogSpec => []ImageInv
<1>1. CatalogInit => FieldsKnown /\ EditsAlone /\ NamedAreStored /\ PoolInHand
  BY IdleFacts DEF CatalogInit, FieldsKnown, EditsAlone, NamedAreStored, PoolInHand, InTable,
                   Absent, NoEdit
<1>2. CatalogInit => OneHome
  <2>1. ASSUME CatalogInit PROVE AtHome(Nothing, Nothing)
    <3>1. \A p \in Edits : Held(p) = {} /\ Seen(p) = {}
      BY <2>1, CatalogAssumption DEF CatalogInit, Held, Seen, NoEdit
    <3>2. \A e \in Events : ~InTable(e)
      BY <2>1 DEF CatalogInit, InTable
    <3> QED
      BY <3>1, <3>2 DEF AtHome, NamedAtHome, SeenAtHome, HeldAtHome, HeldApart
  <2> QED
    BY <2>1 DEF OneHome
<1>3. ImageInv /\ [CatalogNext]_catalogVars => ImageInv'
  BY TypeStep, OpeningStep, FieldsStep, HomesStep, EditsStep, StoredStep DEF ImageInv, CatalogInv
<1> QED
  BY InitCatalog, <1>1, <1>2, <1>3, PTL DEF CatalogSpec, ImageInv

\* Whatever images, events and requests there are: outside of fields two
\* requests edited at once, or a lost one, an image that is named is stored
\* whenever its field is not being edited.
THEOREM NamedImagesExist == CatalogSpec => []ImagesExist
<1>1. ASSUME ImageInv PROVE ImagesExist
  <2>1. ASSUME NEW e \in Events, NEW f \in Fields, InTable(e), <<e, f>> \notin spoiled,
               ~ \E p \in Edits : edit[p].event = e /\ f \in edit[p].fields
        PROVE  \A i \in Named(e, f) : object[i] = "stored"
    BY <1>1, <2>1 DEF ImageInv, NamedAreStored
  <2> QED
    BY <2>1, Zenon DEF ImagesExist
<1> QED
  BY ImagesInductive, <1>1, PTL

\* For the same fields, an image leaves the pool only by a request to remove it.
THEOREM PoolKeepsTheRest == CatalogSpec => PoolLosesOnlyRemoved
<1> DEFINE Keeps == \A e \in Events : InTable(e) /\ <<e, "pool">> \notin spoiled =>
              \A i \in item[e].pool \ item'[e].pool :
                \E p \in Edits : edit[p].at = "poolDrop" /\ edit[p].event = e /\ edit[p].image = i
<1>1. ASSUME ImageInv, CatalogNext PROVE Keeps
  <2> SUFFICES ASSUME NEW e \in Events, InTable(e), <<e, "pool">> \notin spoiled,
                      NEW i \in item[e].pool, i \notin item'[e].pool
               PROVE  \E p \in Edits : edit[p].at = "poolDrop" /\ edit[p].event = e /\ edit[p].image = i
    OBVIOUS
  <2> USE <1>1 DEF ImageInv, CatalogInv
  <2>0. CatalogTypeOK /\ EventsKnown /\ \A p \in Edits : edit[p] \in Edit
    BY DEF CatalogTypeOK
  <2>1. CASE KeepsNames
    BY <2>1 DEF KeepsNames
  <2>2. ASSUME NEW p \in Edits, CreatePut(p) PROVE FALSE
    <3>1. item[e] # Absent /\ item'[e] # item[e]
      BY DEF InTable
    <3> QED
      BY <2>0, <2>2, <3>1 DEF CreatePut, attribute_not_exists, InTable, CatalogTypeOK
  <2>3. ASSUME NEW p \in Edits, SlotsWrite(p) PROVE FALSE
    <3>1. edit[p].event \in Events /\ item[edit[p].event] \in EventItem
      BY <2>0, <2>3 DEF SlotsWrite, EventsKnown, CatalogTypeOK, InTable
    <3> QED
      BY <2>0, <2>3, <3>1 DEF SlotsWrite, CatalogTypeOK, EventItem
  <2>4. ASSUME NEW p \in Edits, PoolAddWrite(p) \/ PoolRemoveWrite(p)
        PROVE  edit[p].at = "poolDrop" /\ edit[p].event = e /\ edit[p].image = i
    <3>1. edit[p].event \in Events /\ item[edit[p].event] \in EventItem
      BY <2>0, <2>4 DEF PoolAddWrite, PoolRemoveWrite, EventsKnown, CatalogTypeOK, InTable
    <3>2. /\ \A x \in Events \ {edit[p].event} : item'[x] = item[x]
          /\ PoolAddWrite(p) => item'[edit[p].event].pool = edit[p].pool \cup {edit[p].image}
          /\ PoolRemoveWrite(p) => item'[edit[p].event].pool = edit[p].pool \ {edit[p].image}
      BY <2>0, <2>4, <3>1 DEF PoolAddWrite, PoolRemoveWrite, Appended, CatalogTypeOK, EventItem
    <3>3. edit[p].event = e
      BY <3>1, <3>2
    <3>4. edit[p].pool = item[e].pool
      BY <2>4, <3>3 DEF PoolInHand, PoolAddWrite, PoolRemoveWrite
    <3>5. ~PoolAddWrite(p)
      BY <3>2, <3>3, <3>4
    <3> QED
      BY <2>4, <3>2, <3>3, <3>4, <3>5 DEF PoolRemoveWrite
  <2>5. ASSUME item' = item PROVE FALSE
    BY <2>5
  <2>6. ASSUME NEW p \in Edits, OpenClosesOther(p) \/ OpenOpens(p) \/ \E x \in Events : CloseEvent(p, x)
        PROVE  KeepsNames
    BY <2>0, <2>6, NamesKept
  <2>7. ASSUME NEW x \in Events, Sell(x) PROVE KeepsNames
    BY <2>0, <2>7, NamesKept
  <2>8. ASSUME NEW p \in Edits, NEW x \in Events,
               \/ CreateUpload(p, x) \/ OpenScan(p, x) \/ SlotsUpload(p, x) \/ PoolUpload(p, x)
               \/ \E j \in Images : PoolRemoveRead(p, x, j)
        PROVE  item' = item
    BY <2>8, Zenon DEF CreateUpload, OpenScan, SlotsUpload, PoolUpload, PoolRemoveRead
  <2>9. ASSUME NEW p \in Edits,
               SlotsRead(p) \/ SlotsDelete(p) \/ PoolRead(p) \/ PoolRemoveDelete(p) \/ RequestLost(p)
        PROVE  item' = item
    BY <2>9 DEF SlotsRead, SlotsDelete, PoolRead, PoolRemoveDelete, RequestLost
  <2> QED
    BY <2>1, <2>2, <2>3, <2>4, <2>5, <2>6, <2>7, <2>8, <2>9, <1>1 DEF CatalogNext, AdminNext
<1>2. ImageInv /\ [CatalogNext]_catalogVars => [Keeps]_catalogVars
  BY <1>1
<1> QED
  BY ImagesInductive, <1>2, PTL DEF CatalogSpec, PoolLosesOnlyRemoved
=============================================================================
