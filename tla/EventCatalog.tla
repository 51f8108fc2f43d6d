----------------------------- MODULE EventCatalog -----------------------------
(***************************************************************************)
(* The Events table as the admin's pages change it: creation by year,      *)
(* opening one event and closing the others, and the images an event       *)
(* names, which are objects in a bucket of their own.  Opening is a scan   *)
(* and one write per event; an image request uploads, reads the item,      *)
(* deletes and writes by separate calls; these edits run at the same time. *)
(***************************************************************************)
EXTENDS Naturals, FiniteSets

CONSTANTS
  Events,        \* the years an admin creates: event_id is "evt_" and the year
  CharitySlots,  \* the single images of the charity page
  Images,        \* bound: uploads (every object key has a uuid)
  Illustrated,   \* bound: the events whose images are edited
  Edits,         \* concurrent requests of admins
  MaxSold,       \* bound: tickets sold
  Nothing

ASSUME CatalogAssumption ==
  /\ "logo" \notin CharitySlots /\ "pool" \notin CharitySlots
  /\ Nothing \notin Images \cup Events
  /\ Illustrated \subseteq Events
  /\ MaxSold \in Nat

VARIABLES
  item,        \* the Events table
  object,      \* the bucket: what became of each upload
  edit,        \* what a request holds between its calls
  overlapped,  \* history: two openings ran at the same time
  spoiled      \* history: image fields edited by two requests at once, or by a lost one
catalogVars == <<item, object, edit, overlapped, spoiled>>

-----------------------------------------------------------------------------
(* State *)

Slots  == {"logo"} \cup CharitySlots
Fields == Slots \cup {"pool"}

Absent == [status |-> "absent"]
EventItem == [status : {"draft", "open", "closed"}, sold : 0..MaxSold,
              slot : [Slots -> Images \cup {Nothing}], pool : SUBSET Images]
InTable(e) == item[e] # Absent

\* "fields" are those the request will write, "new" what it puts in the slots,
\* "old" the images it read there, "pool" the pool as it read it.
NoEdit == [at |-> "idle", event |-> Nothing, others |-> {}, fields |-> {},
           new |-> [f \in Slots |-> Nothing], old |-> {}, pool |-> {}, image |-> Nothing]
Edit == [at : {"idle", "create", "opening", "slots", "slotsDelete", "slotsWrite",
               "poolAdd", "poolAddWrite", "poolDrop", "poolDelete"},
         event : Events \cup {Nothing}, others : SUBSET Events,
         fields : SUBSET Fields, new : [Slots -> Images \cup {Nothing}],
         old : SUBSET Images, pool : SUBSET Images, image : Images \cup {Nothing}]

\* The images an event names in a field.
Named(e, f) == IF f = "pool" THEN item[e].pool ELSE {item[e].slot[f]} \ {Nothing}

EditStarts(p, state) ==
  /\ edit[p].at = "idle"
  /\ edit' = [edit EXCEPT ![p] = state]
Goes(p, at) == edit' = [edit EXCEPT ![p].at = at]
EditEnds(p) == edit' = [edit EXCEPT ![p] = NoEdit]

\* Image fields of e that another request is editing too.
Shared(p, e, fields) ==
  {<<e, f>> : f \in {g \in fields : \E q \in Edits \ {p} :
                                      edit[q].event = e /\ g \in edit[q].fields}}

\* put_object under fresh keys: one image for each slot that gets a file.
Uploads(new) ==
  LET files == {f \in Slots : new[f] # Nothing} IN
  /\ \A f \in files : object[new[f]] = "unused"
  /\ \A f, g \in files : new[f] = new[g] => f = g
  /\ object' = [i \in Images |-> IF \E f \in files : new[f] = i THEN "stored" ELSE object[i]]

\* _delete_event_image never raises: an object may stay behind.
_delete_event_image(images) ==
  \/ object' = [i \in Images |-> IF i \in images THEN "deleted" ELSE object[i]]
  \/ images # {} /\ UNCHANGED object

-----------------------------------------------------------------------------
(* create_event *)

CreateUpload(p, e) ==
  /\ \E i \in (IF e \in Illustrated THEN Images ELSE {}) \cup {Nothing} :
       LET new == [NoEdit.new EXCEPT !["logo"] = i] IN
       /\ Uploads(new)
       /\ EditStarts(p, [NoEdit EXCEPT !.at = "create", !.event = e, !.new = new])
  /\ UNCHANGED <<item, overlapped, spoiled>>

\* For mutation: the put has no condition.
put_anyway(e) == item[e].status \in {"absent", "draft", "open", "closed"}
attribute_not_exists(e) == ~InTable(e)

\* A refused put leaves the uploaded logo in the bucket.
CreatePut(p) ==
  LET e == edit[p].event IN
  /\ edit[p].at = "create"
  /\ item' = IF attribute_not_exists(e)
             THEN [item EXCEPT ![e] = [status |-> "draft", sold |-> 0,
                                       slot |-> edit[p].new, pool |-> {}]]
             ELSE item
  /\ EditEnds(p)
  /\ UNCHANGED <<object, overlapped, spoiled>>

-----------------------------------------------------------------------------
(* open_event and close_event *)

_set_event_open(e, isOpen) ==
  item' = [item EXCEPT ![e].status = IF isOpen THEN "open" ELSE "closed"]

\* For mutation: the event itself is opened and no other is looked for.
none_other(e) == {x \in {e} : x # e}
OthersOpen(e) == {x \in Events : item[x].status = "open" /\ x # e}

OpenScan(p, e) ==
  /\ InTable(e)
  /\ EditStarts(p, [NoEdit EXCEPT !.at = "opening", !.event = e, !.others = OthersOpen(e)])
  /\ overlapped' = (overlapped \/ \E q \in Edits : edit[q].at = "opening")
  /\ UNCHANGED <<item, object, spoiled>>

OpenClosesOther(p) ==
  /\ edit[p].at = "opening"
  /\ \E x \in edit[p].others :
       /\ _set_event_open(x, FALSE)
       /\ edit' = [edit EXCEPT ![p] = [@ EXCEPT !.others = edit[p].others \ {x}]]
  /\ UNCHANGED <<object, overlapped, spoiled>>

OpenOpens(p) ==
  /\ edit[p].at = "opening"
  /\ edit[p].others = {}
  /\ _set_event_open(edit[p].event, TRUE)
  /\ EditEnds(p)
  /\ UNCHANGED <<object, overlapped, spoiled>>

CloseEvent(p, e) ==
  /\ edit[p].at = "idle"
  /\ InTable(e)
  /\ _set_event_open(e, FALSE)
  /\ UNCHANGED <<object, edit, overlapped, spoiled>>

-----------------------------------------------------------------------------
(* The single images: update_event_images and update_charity *)

\* A chosen file, or the Remove box (Nothing), for each field of the form in use.
SlotsUpload(p, e) ==
  /\ e \in Illustrated /\ InTable(e)
  /\ \E fields \in {{"logo"}} \cup (SUBSET CharitySlots \ {{}}),
        new \in [Slots -> Images \cup {Nothing}] :
       /\ \A f \in Slots \ fields : new[f] = Nothing
       /\ Uploads(new)
       /\ EditStarts(p, [NoEdit EXCEPT !.at = "slots", !.event = e, !.fields = fields, !.new = new])
       /\ spoiled' = spoiled \cup Shared(p, e, fields)
  /\ UNCHANGED <<item, overlapped>>

\* For mutation: the pool's images are swept away with the slot's.
named_anywhere(e, fields) == UNION {Named(e, f) : f \in fields \cup {"pool"}}
\* For mutation: an empty slot is taken for an image.
empty_too(e, fields) == {item[e].slot[f] : f \in fields}
Replaced(e, fields) == UNION {Named(e, f) : f \in fields}

SlotsRead(p) ==
  /\ edit[p].at = "slots"
  /\ edit' = [edit EXCEPT ![p] = [@ EXCEPT !.at = "slotsDelete",
                                           !.old = Replaced(edit[p].event, edit[p].fields)]]
  /\ UNCHANGED <<item, object, overlapped, spoiled>>

SlotsDelete(p) ==
  /\ edit[p].at = "slotsDelete"
  /\ _delete_event_image(edit[p].old)
  /\ Goes(p, "slotsWrite")
  /\ UNCHANGED <<item, overlapped, spoiled>>

SlotsWrite(p) ==
  /\ edit[p].at = "slotsWrite"
  /\ item' = [item EXCEPT ![edit[p].event].slot =
                [f \in Slots |-> IF f \in edit[p].fields THEN edit[p].new[f] ELSE @[f]]]
  /\ EditEnds(p)
  /\ UNCHANGED <<object, overlapped, spoiled>>

-----------------------------------------------------------------------------
(* The banner pool *)

PoolUpload(p, e) ==
  /\ e \in Illustrated /\ InTable(e)
  /\ \E i \in Images :
       /\ object[i] = "unused"
       /\ object' = [object EXCEPT ![i] = "stored"]
       /\ EditStarts(p, [NoEdit EXCEPT !.at = "poolAdd", !.event = e, !.fields = {"pool"},
                                        !.image = i])
  /\ spoiled' = spoiled \cup Shared(p, e, {"pool"})
  /\ UNCHANGED <<item, overlapped>>

PoolRead(p) ==
  /\ edit[p].at = "poolAdd"
  /\ edit' = [edit EXCEPT ![p] = [@ EXCEPT !.at = "poolAddWrite",
                                           !.pool = item[edit[p].event].pool]]
  /\ UNCHANGED <<item, object, overlapped, spoiled>>

\* For mutation: the pool is replaced by the new image.
only_new(pool, i) == {j \in pool : FALSE} \cup {i}
Appended(pool, i) == pool \cup {i}

PoolAddWrite(p) ==
  /\ edit[p].at = "poolAddWrite"
  /\ item' = [item EXCEPT ![edit[p].event].pool = Appended(edit[p].pool, edit[p].image)]
  /\ EditEnds(p)
  /\ UNCHANGED <<object, overlapped, spoiled>>

\* The page names the image; it may be gone by now.
PoolRemoveRead(p, e, i) ==
  /\ InTable(e)
  /\ i \in item[e].pool
  /\ EditStarts(p, [NoEdit EXCEPT !.at = "poolDrop", !.event = e, !.fields = {"pool"},
                                   !.image = i, !.pool = item[e].pool])
  /\ spoiled' = spoiled \cup Shared(p, e, {"pool"})
  /\ UNCHANGED <<item, object, overlapped>>

PoolRemoveWrite(p) ==
  /\ edit[p].at = "poolDrop"
  /\ item' = [item EXCEPT ![edit[p].event].pool = edit[p].pool \ {edit[p].image}]
  /\ Goes(p, "poolDelete")
  /\ UNCHANGED <<object, overlapped, spoiled>>

PoolRemoveDelete(p) ==
  /\ edit[p].at = "poolDelete"
  /\ _delete_event_image({edit[p].image})
  /\ EditEnds(p)
  /\ UNCHANGED <<item, overlapped, spoiled>>

-----------------------------------------------------------------------------
(* Losses, sales and the specification *)

\* Any call may be the last one of an invocation.
RequestLost(p) ==
  /\ edit[p].at # "idle"
  /\ spoiled' = spoiled \cup {<<edit[p].event, f>> : f \in edit[p].fields}
  /\ EditEnds(p)
  /\ UNCHANGED <<item, object, overlapped>>

\* A checkout's reservation (module Checkout), while the event is open.
Sell(e) ==
  /\ InTable(e)
  /\ item[e].status = "open" /\ item[e].sold < MaxSold
  /\ item' = [item EXCEPT ![e].sold = @ + 1]
  /\ UNCHANGED <<object, edit, overlapped, spoiled>>

CatalogInit ==
  /\ item = [e \in Events |-> Absent]
  /\ object = [i \in Images |-> "unused"]
  /\ edit = [p \in Edits |-> NoEdit]
  /\ overlapped = FALSE
  /\ spoiled = {}

AdminNext(p) ==
  \/ \E e \in Events : CreateUpload(p, e) \/ OpenScan(p, e) \/ CloseEvent(p, e)
  \/ CreatePut(p) \/ OpenClosesOther(p) \/ OpenOpens(p)
  \/ \E e \in Events : SlotsUpload(p, e) \/ PoolUpload(p, e)
  \/ SlotsRead(p) \/ SlotsDelete(p) \/ SlotsWrite(p)
  \/ PoolRead(p) \/ PoolAddWrite(p)
  \/ \E e \in Events, i \in Images : PoolRemoveRead(p, e, i)
  \/ PoolRemoveWrite(p) \/ PoolRemoveDelete(p)
  \/ RequestLost(p)

CatalogNext == (\E p \in Edits : AdminNext(p)) \/ (\E e \in Events : Sell(e))
CatalogSpec == CatalogInit /\ [][CatalogNext]_catalogVars

-----------------------------------------------------------------------------
(* Properties *)

\* Types of the tables, the bucket and the requests.
CatalogTypeOK ==
  /\ item \in [Events -> EventItem \cup {Absent}]
  /\ object \in [Images -> {"unused", "stored", "deleted"}]
  /\ edit \in [Edits -> Edit]
  /\ overlapped \in BOOLEAN
  /\ spoiled \subseteq Events \X Fields

\* The public page shows "the" open event: there is never a second one (the
\* comment in open_event).
OneEventOpen == Cardinality({e \in Events : item[e].status = "open"}) <= 1

\* ... which holds at every moment, in the middle of an opening too, and
\* whatever closes, creations and losses run beside it, as long as openings
\* do not overlap.
OneEventOpenAlone == ~overlapped => OneEventOpen

\* Re-creating a year never resets an event: what was sold stays counted and
\* an event that was opened is never a draft again (the condition of
\* create_event's put, under double submits).
SoldIsKept ==
  [][\A e \in Events : InTable(e) =>
       /\ item'[e].status # "absent" /\ item'[e].sold >= item[e].sold
       /\ item'[e].status = "draft" => item[e].status = "draft"]_catalogVars

\* Every image an event names is in the bucket, whenever no request is editing
\* that field, and whatever is being edited in the other fields of the event
\* (delete-then-write for slots, write-then-delete for the pool).  Fields that
\* two requests edited at once, or a lost one, are out of the promise.
ImagesExist ==
  \A e \in Events, f \in Fields :
    \/ ~InTable(e)
    \/ <<e, f>> \in spoiled
    \/ \E p \in Edits : edit[p].event = e /\ f \in edit[p].fields
    \/ \A i \in Named(e, f) : object[i] = "stored"

\* An image leaves the pool only when its removal was asked for: an addition
\* keeps the images it read, a removal the others (the read-modify-write of
\* banner_image_urls).
PoolLosesOnlyRemoved ==
  [][\A e \in Events : InTable(e) /\ <<e, "pool">> \notin spoiled =>
       \A i \in item[e].pool \ item'[e].pool :
         \E p \in Edits : edit[p].at = "poolDrop" /\ edit[p].event = e /\ edit[p].image = i]_catalogVars
=============================================================================
