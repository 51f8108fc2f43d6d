------------------------------ MODULE BoxOffice ------------------------------
(***************************************************************************)
(* What the registration system promises about one buyer's tickets and     *)
(* money, with no tables, handlers or retries in sight.  An order is held  *)
(* while the buyer pays, and is sold only for captured money (or as a      *)
(* comp).  A sold order can be voided; its money goes back only while it   *)
(* is void, and once it is back the order is never sold again.             *)
(***************************************************************************)
CONSTANTS Orders, Comps

VARIABLES stage, money

boxVars == <<stage, money>>

BoxTypeOK ==
  /\ stage \in [Orders -> {"none", "held", "lapsed", "sold", "void"}]
  /\ money \in [Orders -> {"none", "captured", "returned"}]

BoxInit ==
  /\ stage = [o \in Orders |-> "none"]
  /\ money = [o \in Orders |-> "none"]

Moves(o, from, to) ==
  /\ stage[o] \in from
  /\ stage' = [stage EXCEPT ![o] = to]
  /\ UNCHANGED money

Pays(o, from, to) ==
  /\ money[o] = from
  /\ money' = [money EXCEPT ![o] = to]
  /\ UNCHANGED stage

Hold(o)      == o \notin Comps /\ Moves(o, {"none"}, "held")
GiveAway(o)  == o \in Comps /\ Moves(o, {"none"}, "sold")
Lapse(o)     == Moves(o, {"held"}, "lapsed")
Capture(o)   == stage[o] = "held" /\ Pays(o, "none", "captured")
Sell(o)      == money[o] = "captured" /\ Moves(o, {"held", "lapsed"}, "sold")
Void(o)      == Moves(o, {"sold"}, "void")
GiveBack(o)  == stage[o] = "void" /\ Pays(o, "captured", "returned")
Reinstate(o) == o \notin Comps /\ money[o] = "captured" /\ Moves(o, {"void"}, "sold")

BoxNext ==
  \E o \in Orders :
    \/ Hold(o) \/ GiveAway(o) \/ Lapse(o) \/ Capture(o)
    \/ Sell(o) \/ Void(o) \/ GiveBack(o) \/ Reinstate(o)

BoxSpec == BoxInit /\ [][BoxNext]_boxVars

\* A ticket that admits is a comp or has its buyer's money, and money that
\* went back leaves the order void.
TicketsArePaidFor ==
  \A o \in Orders :
    /\ stage[o] = "sold" => o \in Comps \/ money[o] = "captured"
    /\ money[o] = "returned" => stage[o] = "void"
=============================================================================
