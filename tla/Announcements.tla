----------------------------- MODULE Announcements -----------------------------
(***************************************************************************)
(* One announcement: the admin's page writes it and invokes a Lambda       *)
(* asynchronously; scripts/send_announcement.py resolves the recipients    *)
(* and mails them one by one, while orders are paid and refunded and       *)
(* people join the waitlist.  Lambda delivers an asynchronous event at     *)
(* least once and runs it again after an error or a time-out; the script   *)
(* starts from the first recipient each time, whatever the status says.    *)
(* The counts of the page's progress display decide nothing and are left   *)
(* out.                                                                    *)
(***************************************************************************)
EXTENDS Naturals, FiniteSets, Sums

CONSTANTS
  TicketOrders,  \* orders of the event
  Waiters,       \* waitlist entries of the event
  MailboxOf,     \* the address of each, as lowercased by the script
  Deliveries,    \* copies of the invocation's event that Lambda may deliver
  Attempts,      \* times Lambda runs one copy
  MaxFaults      \* bound: runs that raise or time out

Mailboxes == {MailboxOf[x] : x \in TicketOrders \cup Waiters}

ASSUME AnnouncementAssumption ==
  /\ TicketOrders \cap Waiters = {}
  /\ IsFiniteSet(TicketOrders) /\ IsFiniteSet(Waiters) /\ IsFiniteSet(Deliveries)
  /\ DOMAIN MailboxOf = TicketOrders \cup Waiters
  /\ Attempts \in Nat \ {0} /\ MaxFaults \in Nat

VARIABLES
  order,     \* status of each order
  waiting,   \* entries on the waitlist
  item,      \* the announcement's row
  invoked,   \* the asynchronous invocation was accepted
  run,       \* what became of each delivered copy
  mail,      \* history: mails a mailbox got
  entitled,  \* history: mailboxes with a claim on the mail ever since it was written
  faults     \* runs that raised or timed out
mailVars == <<order, waiting, item, invoked, run, mail, entitled, faults>>
tableVars == <<order, waiting>>

-----------------------------------------------------------------------------
(* State *)

Audiences == SUBSET {"attendees", "waitlist"} \ {{}}
Unwritten == [status |-> "none"]
Announcement == [status : {"queued", "sending", "sent", "failed"}, audience : Audiences,
                 error : BOOLEAN]

\* "left" are the recipients still to be mailed, "tries" the runs so far.
Absent == [at |-> "absent", tries |-> 0, left |-> {}, failed |-> FALSE]
Run == [at : {"absent", "due", "resolve", "send", "done"}, tries : 0..Attempts,
        left : SUBSET (TicketOrders \cup Waiters), failed : BOOLEAN]

-----------------------------------------------------------------------------
(* _resolve_recipients *)

Entitled(orders, waiters, audience) ==
  (IF "attendees" \in audience THEN {o \in TicketOrders : orders[o] = "paid"} ELSE {})
  \cup (IF "waitlist" \in audience THEN waiters ELSE {})

\* For mutation: addresses are not compared in lower case.
every_entry(entries) == {x \in entries : TRUE}
\* First seen wins: one entry stands for each mailbox.
OnePerMailbox(entries) ==
  {CHOOSE x \in entries : MailboxOf[x] = m : m \in {MailboxOf[x] : x \in entries}}

_resolve_recipients == OnePerMailbox(Entitled(order, waiting, item.audience))

-----------------------------------------------------------------------------
(* The admin's page, the buyers and the waitlist *)

\* Mailboxes that keep their claim through a change of the tables.
StillEntitled(orders, waiters) ==
  IF item = Unwritten THEN {}
  ELSE entitled \cap {MailboxOf[x] : x \in Entitled(orders, waiters, item.audience)}

Sold(o) ==
  /\ order[o] = "pending"
  /\ order' = [order EXCEPT ![o] = "paid"]
  /\ entitled' = StillEntitled(order', waiting)
  /\ UNCHANGED <<waiting, item, invoked, run, mail, faults>>

Refunded(o) ==
  /\ order[o] = "paid"
  /\ order' = [order EXCEPT ![o] = "refunded"]
  /\ entitled' = StillEntitled(order', waiting)
  /\ UNCHANGED <<waiting, item, invoked, run, mail, faults>>

waitlist_signup(w) ==
  /\ w \notin waiting
  /\ waiting' = waiting \cup {w}
  /\ UNCHANGED <<order, item, invoked, run, mail, entitled, faults>>

create_announcement(audience) ==
  /\ item = Unwritten
  /\ item' = [status |-> "queued", audience |-> audience, error |-> FALSE]
  /\ entitled' = {MailboxOf[x] : x \in Entitled(order, waiting, audience)}
  /\ UNCHANGED <<tableVars, invoked, run, mail, faults>>

\* The second call of the handler.  When it never comes, the row stays queued.
_invoke_announcement_lambda ==
  /\ item # Unwritten
  /\ ~invoked
  /\ invoked' = TRUE
  /\ \E d \in Deliveries : run' = [run EXCEPT ![d].at = "due"]
  /\ UNCHANGED <<tableVars, item, mail, entitled, faults>>

\* At least once: Lambda may hand out the event again.
Redelivered(d) ==
  /\ invoked
  /\ run[d].at = "absent"
  /\ run' = [run EXCEPT ![d].at = "due"]
  /\ UNCHANGED <<tableVars, item, invoked, mail, entitled, faults>>

-----------------------------------------------------------------------------
(* send_announcement *)

Begin(d) ==
  /\ run[d].at = "due"
  /\ item' = [item EXCEPT !.status = "sending"]
  /\ run' = [run EXCEPT ![d] = [Absent EXCEPT !.at = "resolve", !.tries = run[d].tries + 1]]
  /\ UNCHANGED <<tableVars, invoked, mail, entitled, faults>>

Resolve(d) ==
  /\ run[d].at = "resolve"
  /\ run' = [run EXCEPT ![d] = [@ EXCEPT !.at = "send", !.left = _resolve_recipients]]
  /\ UNCHANGED <<tableVars, item, invoked, mail, entitled, faults>>

Mailed(x) == mail' = [mail EXCEPT ![MailboxOf[x]] = @ + 1]

\* For mutation: a failed mail is not counted.
uncounted(failed) == failed
Counted(failed) == TRUE

\* The mail goes out, or SMTP raises, and then it may have gone out all the same.
SendMail(d, x) ==
  /\ run[d].at = "send" /\ x \in run[d].left
  /\ \/ /\ Mailed(x)
        /\ run' = [run EXCEPT ![d].left = @ \ {x}]
        /\ UNCHANGED faults
     \/ /\ faults < MaxFaults
        /\ Mailed(x) \/ UNCHANGED mail
        /\ run' = [run EXCEPT ![d] = [@ EXCEPT !.left = run[d].left \ {x},
                                               !.failed = Counted(run[d].failed)]]
        /\ faults' = faults + 1
  /\ UNCHANGED <<tableVars, item, invoked, entitled>>

Finish(d) ==
  /\ run[d].at = "send" /\ run[d].left = {}
  /\ item' = [item EXCEPT !.status = "sent", !.error = run[d].failed]
  /\ run' = [run EXCEPT ![d].at = "done"]
  /\ UNCHANGED <<tableVars, invoked, mail, entitled, faults>>

-----------------------------------------------------------------------------
(* handler, and Lambda's retries *)

Running(d) == run[d].at \in {"resolve", "send"}

\* For mutation: handler swallows the exception, so Lambda takes the run for done.
swallowed(d) == run' = [run EXCEPT ![d].at = IF Running(d) THEN "done" ELSE @]
Retried(d) == run' = [run EXCEPT ![d].at = IF run[d].tries < Attempts THEN "due" ELSE "done"]

\* A call to DynamoDB raises; handler marks the row and raises again.
RunRaises(d) ==
  /\ Running(d)
  /\ faults < MaxFaults
  /\ faults' = faults + 1
  /\ item' = [item EXCEPT !.status = "failed", !.error = TRUE]
  /\ Retried(d)
  /\ UNCHANGED <<tableVars, invoked, mail, entitled>>

\* The function's time-out: nothing is written.
RunTimesOut(d) ==
  /\ Running(d)
  /\ faults < MaxFaults
  /\ faults' = faults + 1
  /\ Retried(d)
  /\ UNCHANGED <<tableVars, item, invoked, mail, entitled>>

-----------------------------------------------------------------------------
(* The specification *)

MailInit ==
  /\ order \in [TicketOrders -> {"pending", "paid"}]
  /\ waiting = {}
  /\ item = Unwritten
  /\ invoked = FALSE
  /\ run = [d \in Deliveries |-> Absent]
  /\ mail = [m \in Mailboxes |-> 0]
  /\ entitled = {}
  /\ faults = 0

RunNext(d) ==
  \/ Begin(d) \/ Resolve(d)
  \/ \E x \in TicketOrders \cup Waiters : SendMail(d, x)
  \/ Finish(d)

MailNext ==
  \/ \E o \in TicketOrders : Sold(o) \/ Refunded(o)
  \/ \E w \in Waiters : waitlist_signup(w)
  \/ \E audience \in Audiences : create_announcement(audience)
  \/ _invoke_announcement_lambda
  \/ \E d \in Deliveries : Redelivered(d) \/ RunNext(d) \/ RunRaises(d) \/ RunTimesOut(d)

MailSpec == MailInit /\ [][MailNext]_mailVars

\* Lambda runs what it has accepted, and runs it again when it failed.
MailFairness == \A d \in Deliveries : WF_mailVars(RunNext(d))

-----------------------------------------------------------------------------
(* Properties *)

MailTypeOK ==
  /\ order \in [TicketOrders -> {"pending", "paid", "refunded"}]
  /\ waiting \subseteq Waiters
  /\ item \in Announcement \cup {Unwritten}
  /\ invoked \in BOOLEAN
  /\ run \in [Deliveries -> Run]
  /\ mail \in [Mailboxes -> Nat]
  /\ entitled \subseteq Mailboxes
  /\ faults \in 0..MaxFaults

\* When the page says "sent" and reports no error, everyone who was entitled to
\* the mail from its writing on has got it, whatever was paid, refunded, raised,
\* timed out, retried or delivered twice on the way.
SentMeansSent ==
  item # Unwritten /\ item.status = "sent" /\ ~item.error => \A m \in entitled : mail[m] > 0

\* Nobody gets the mail twice from one run, however many orders and waitlist
\* entries carry the address: only a repeated run repeats a mail.
Runs == Units(Deliveries, [d \in Deliveries |-> run[d].tries])
OncePerRun == \A m \in Mailboxes : mail[m] <= Cardinality(Runs)

\* An announcement that was accepted and is not reported sent (it is queued,
\* sending, or marked failed) still has a run before it: none is left half way,
\* as long as the runs that raise or time out are fewer than Lambda's attempts.
InHand == \E d \in Deliveries : run[d].at = "due" \/ Running(d)
NeverLeftHalfWay == invoked => item.status = "sent" \/ InHand

\* An accepted announcement is sent in the end and says so, as long as the
\* runs that raise or time out are fewer than Lambda's attempts.
AcceptedIsSent == invoked ~> (item # Unwritten /\ item.status = "sent")
=============================================================================
