------------------------------- MODULE Cleanup -------------------------------
(***************************************************************************)
(* scripts/cleanup_pending_orders.py: the job EventBridge runs every 15    *)
(* minutes.  It times out after 60 s, so one run is over before the next   *)
(* begins and a single cleanup process is enough.                          *)
(***************************************************************************)
EXTENDS OrderStore

\* For mutation: no age test, and the age test the wrong way round.
StaleAlways(o) == age[o] >= 0
StaleInverted(o) == age[o] < CleanupGrace
\* created_at is older than CLEANUP_GRACE_MINUTES.
Stale(o) == age[o] >= CleanupGrace

Sweeping(left) == IF left = {} THEN "idle" ELSE "sweep"

\* The cutoff is taken and the table scanned for pending orders.
CleanupScan ==
  /\ cleanAt = "idle"
  /\ LET found == {o \in Orders : status[o] = "pending" /\ Stale(o)}
     IN  /\ found # {}
         /\ batch' = found
  /\ cleanAt' = "sweep"
  /\ UNCHANGED <<eventVars, orderVars, age, stripeVars, coVars, hookVars, cleanOrder,
                 refundVars, doorVars, historyVars>>

\* For mutation: the scan's answer is trusted for an order paid since.
AssumedPending(o) == status[o] \in {"pending", "paid"}
\* The write is conditional on the order still being pending.
StillPending(o) == status[o] = "pending"

CleanupExpire(o) ==
  /\ cleanAt = "sweep"
  /\ o \in batch
  /\ StillPending(o)
  /\ SetStatus(o, "expired")
  /\ batch' = batch \ {o}
  /\ cleanAt' = "release"
  /\ cleanOrder' = o
  /\ UNCHANGED <<eventVars, quantity, payment_intent, checked_in, fulfillment_error,
                 age, stripeVars, coVars, hookVars, refundVars, doorVars, historyVars>>

\* A webhook got there first: leave the order alone.
CleanupSkip(o) ==
  /\ cleanAt = "sweep"
  /\ o \in batch
  /\ ~StillPending(o)
  /\ batch' = batch \ {o}
  /\ cleanAt' = Sweeping(batch \ {o})
  /\ UNCHANGED <<eventVars, orderVars, age, stripeVars, coVars, hookVars, cleanOrder,
                 refundVars, doorVars, historyVars>>

CleanupRelease ==
  /\ cleanAt = "release"
  /\ _release_capacity(cleanOrder)
  /\ cleanAt' = Sweeping(batch)
  /\ cleanOrder' = NoOrder
  /\ UNCHANGED <<orderVars, age, stripeVars, coVars, hookVars, batch, refundVars,
                 doorVars, fulfilments, mailed, late, admitted, offered, hit, crashes>>

\* The run dies between its two writes; the next run starts from a new scan.
CleanupLost ==
  /\ cleanAt = "release"
  /\ Lose(cleanOrder)
  /\ cleanAt' = "idle"
  /\ cleanOrder' = NoOrder
  /\ batch' = {}
  /\ UNCHANGED <<eventVars, orderVars, age, stripeVars, coVars, hookVars, refundVars,
                 doorVars, ledger, fulfilments, mailed, late, admitted, offered>>

CleanupNext ==
  \/ CleanupScan
  \/ \E o \in Orders : CleanupExpire(o) \/ CleanupSkip(o)
  \/ CleanupRelease
  \/ CleanupLost
=============================================================================
