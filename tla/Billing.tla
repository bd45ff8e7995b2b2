------------------------------- MODULE Billing -------------------------------
(***************************************************************************)
(* One tenant's subscription row and the provider's subscriptions it       *)
(* follows (saalr_api/billing): upgrades open checkouts at the provider,   *)
(* the provider reports what becomes of them in webhooks, and concurrent   *)
(* webhook handlers record each event once and apply it to the row.        *)
(*                                                                         *)
(* The provider is external.  It delivers every event until it is          *)
(* accepted, more than once and in any order.  Subscriptions and customers *)
(* are named after the upgrade request that created them.                  *)
(***************************************************************************)
EXTENDS Integers, Sequences

CONSTANTS
    Upgrades,    \* calls of POST /subscription/upgrade by the tenant
    PlanOf,      \* the tier each asks for
    Handlers,    \* webhook requests served at once
    MaxEvents,   \* bound: events the provider reports
    MaxFaults    \* bound: failed transactions and calls

None == "none"

ASSUME BillingConstantsOK ==
    /\ PlanOf \in [Upgrades -> {"pro", "premium"}]
    /\ MaxEvents \in Nat
    /\ MaxFaults \in Nat
    /\ None \notin Upgrades

VARIABLES
    customer,    \* tenants.stripe_customer_id
    upgrade,     \* where each upgrade request is
    buyer,       \* the customer its checkout is opened for
    sub,         \* external: the subscription each checkout created
    sent,        \* external: the events reported, oldest first
    row,         \* the tenant's row of subscriptions
    recorded,    \* billing_events: the events committed, by their place in sent
    at,          \* where each handler is
    event,       \* the event it handles, 0 for none
    work,        \* the subscription it retrieved, then the row it will write
    applied,     \* history: how often each event's transaction committed
    orderly,     \* history: no event overtook another, no two live subscriptions
    faults       \* faults so far

checkoutVars == <<customer, upgrade, buyer>>
providerVars == <<sub, sent>>
handlerVars == <<at, event, work>>
vars == <<checkoutVars, providerVars, row, recorded, handlerVars, applied, orderly,
          faults>>

Tier == {"free", "pro", "premium"}

\* Mutant of RowStatus: the CHECK before dunning was added.
RowStatusNoDunning == {"active", "cancelled", "trialing"}

\* CHECK on subscriptions.status.
RowStatus == {"active", "past_due", "cancelled", "trialing"}

\* A status of the provider's.  A trial counts as active: both are entitled.
SubStatus == {None, "active", "past_due", "canceled"}

InvoiceKind == {"payment_failed", "paid"}

Event == [kind : {"checkout", "updated", "deleted"} \cup InvoiceKind,
          sub : Upgrades, tier : Tier, status : SubStatus]

EventNo == 1..MaxEvents

Snapshot == [tier : Tier, status : SubStatus \cup RowStatus]

TypeOK ==
    /\ customer \in Upgrades \cup {None}
    /\ upgrade \in [Upgrades -> {"new", "ensured", "offered", "failed"}]
    /\ buyer \in [Upgrades -> Upgrades \cup {None}]
    /\ sub \in [Upgrades -> [tier : Tier, status : SubStatus]]
    /\ sent \in Seq(Event) /\ Len(sent) <= MaxEvents
    /\ row \in [tier : Tier, status : RowStatus]
    /\ recorded \subseteq EventNo
    /\ at \in [Handlers -> {"idle", "insert", "read", "finish"}]
    /\ event \in [Handlers -> 0..MaxEvents]
    /\ work \in [Handlers -> Snapshot]
    /\ applied \in [EventNo -> Nat]
    /\ orderly \in BOOLEAN
    /\ faults \in 0..MaxFaults

NoSub == [tier |-> "free", status |-> None]

Init ==
    /\ customer = None
    /\ upgrade = [u \in Upgrades |-> "new"]
    /\ buyer = [u \in Upgrades |-> None]
    /\ sub = [u \in Upgrades |-> NoSub]
    /\ sent = <<>>
    /\ row = [tier |-> "free", status |-> "active"]
    /\ recorded = {}
    /\ at = [h \in Handlers |-> "idle"]
    /\ event = [h \in Handlers |-> 0]
    /\ work = [h \in Handlers |-> NoSub]
    /\ applied = [n \in EventNo |-> 0]
    /\ orderly = TRUE
    /\ faults = 0

Fault == faults < MaxFaults /\ faults' = faults + 1

-----------------------------------------------------------------------------
(* POST /subscription/upgrade                                              *)

Goto(u, pc) == upgrade' = [upgrade EXCEPT ![u] = pc]

\* get_customer_id, then ensure_customer: the tenant's customer or a new one.
UpgradeEnsure(u) ==
    /\ upgrade[u] = "new"
    /\ buyer' = [buyer EXCEPT ![u] = IF customer = None THEN u ELSE customer]
    /\ Goto(u, "ensured")
    /\ UNCHANGED <<customer, providerVars, row, recorded, handlerVars, applied,
                   orderly, faults>>

\* set_customer_id when the customer is new, create_checkout_session, commit.
UpgradeOffer(u) ==
    /\ upgrade[u] = "ensured"
    /\ customer' = IF buyer[u] = u THEN u ELSE customer
    /\ Goto(u, "offered")
    /\ UNCHANGED <<buyer, providerVars, row, recorded, handlerVars, applied,
                   orderly, faults>>

\* A call to the provider raises (502) or the commit fails: rolled back.  The
\* commit comes after the checkout's URL has been cached under the request's key.
UpgradeFails(u) ==
    /\ Fault
    /\ \/ upgrade[u] \in {"new", "ensured"} /\ Goto(u, "failed")
       \/ upgrade[u] = "ensured" /\ Goto(u, "offered")
    /\ UNCHANGED <<customer, buyer, providerVars, row, recorded, handlerVars,
                   applied, orderly>>

-----------------------------------------------------------------------------
(* The provider                                                            *)

Live(u) == sub[u].status \in {"active", "past_due"}

\* The subscription becomes t, s, and the provider reports it.
Becomes(u, t, s, kind) ==
    /\ Len(sent) < MaxEvents
    /\ sub' = [sub EXCEPT ![u] = [tier |-> t, status |-> s]]
    /\ sent' = Append(sent, [kind |-> kind, sub |-> u, tier |-> t, status |-> s])
    /\ UNCHANGED <<checkoutVars, row, recorded, handlerVars, applied, faults>>

\* The customer pays at the checkout that was offered.
Subscribe(u) ==
    /\ upgrade[u] = "offered"
    /\ sub[u].status = None
    /\ Becomes(u, PlanOf[u], "active", "checkout")
    /\ orderly' = (orderly /\ \A v \in Upgrades : ~Live(v))

\* The other plan, chosen in the portal.  (A new period or the end of a trial is
\* reported in the same way and changes nothing modelled.)
Updates(u) ==
    /\ Live(u)
    /\ \E t \in {"pro", "premium"} \ {sub[u].tier} :
          Becomes(u, t, sub[u].status, "updated")
    /\ UNCHANGED orderly

PaymentFails(u) ==
    /\ sub[u].status = "active"
    /\ Becomes(u, sub[u].tier, "past_due", "payment_failed")
    /\ UNCHANGED orderly

Pays(u) ==
    /\ sub[u].status = "past_due"
    /\ Becomes(u, sub[u].tier, "active", "paid")
    /\ UNCHANGED orderly

Cancel(u) ==
    /\ Live(u)
    /\ Becomes(u, sub[u].tier, "canceled", "deleted")
    /\ UNCHANGED orderly

-----------------------------------------------------------------------------
(* POST /webhooks/stripe: handle_webhook                                   *)

Step(h, pc) == at' = [at EXCEPT ![h] = pc]

Drop(h) ==
    /\ Step(h, "idle")
    /\ event' = [event EXCEPT ![h] = 0]
    /\ work' = [work EXCEPT ![h] = NoSub]

\* _resolve_tenant: metadata of the subscription, else the customer's tenant.
\* An invoice carries only the customer.
Resolves(e) ==
    e.kind \in InvoiceKind => buyer[e.sub] = customer

\* The tenant is found (else 400), and for a checkout the subscription is
\* retrieved as it is now.
Receive(h, n) ==
    /\ at[h] = "idle"
    /\ n <= Len(sent)
    /\ Resolves(sent[n])
    /\ Step(h, "insert")
    /\ event' = [event EXCEPT ![h] = n]
    /\ work' = [work EXCEPT ![h] =
                   IF sent[n].kind = "checkout" THEN sub[sent[n].sub] ELSE NoSub]
    /\ UNCHANGED <<checkoutVars, providerVars, row, recorded, applied, orderly, faults>>

\* Mutant of Insert: no UNIQUE on billing_events.provider_event_id.
InsertUnindexed(h) ==
    /\ at[h] = "insert"
    /\ Step(h, "read")
    /\ UNCHANGED <<checkoutVars, providerVars, row, recorded, event, work, applied,
                   orderly, faults>>

\* record_billing_event.  An event already recorded is left alone: SELECT finds
\* it (200), or the INSERT, after waiting for a transaction that has inserted
\* the same event, raises (500).
Insert(h) ==
    /\ at[h] = "insert"
    /\ \A g \in Handlers : event[g] = event[h] => at[g] \notin {"read", "finish"}
    /\ IF event[h] \in recorded
       THEN Drop(h)
       ELSE Step(h, "read") /\ UNCHANGED <<event, work>>
    /\ UNCHANGED <<checkoutVars, providerVars, row, recorded, applied, orderly, faults>>

\* Mutant of Applied: a deletion keeps the tier.
AppliedKeepingTier(r, e, retrieved) ==
    CASE e.kind = "checkout" -> retrieved
      [] e.kind = "updated" -> [tier |-> e.tier, status |-> e.status]
      [] e.kind = "deleted" -> [r EXCEPT !.status = "active"]
      [] e.kind = "payment_failed" -> [r EXCEPT !.status = "past_due"]
      [] e.kind = "paid" -> [r EXCEPT !.status = "active"]

\* apply_subscription_event
Applied(r, e, retrieved) ==
    CASE e.kind = "checkout" -> retrieved
      [] e.kind = "updated" -> [tier |-> e.tier, status |-> e.status]
      [] e.kind = "deleted" -> [tier |-> "free", status |-> "active"]
      [] e.kind = "payment_failed" -> [r EXCEPT !.status = "past_due"]
      [] e.kind = "paid" -> [r EXCEPT !.status = "active"]

\* new_state != cur_state: no write when nothing changed.  The events of a
\* subscription also carry its period, which may have changed alone.
Writes(e, new) ==
    IF new # row THEN {new} ELSE IF e.kind \in InvoiceKind THEN {NoSub} ELSE {new, NoSub}

\* get_subscription and the new state: the whole row, from what was read.
Read(h) ==
    /\ at[h] = "read"
    /\ LET e == sent[event[h]] IN
       \E new \in Writes(e, Applied(row, e, work[h])) : work' = [work EXCEPT ![h] = new]
    /\ orderly' = (orderly /\ 1..(event[h] - 1) \subseteq recorded)
    /\ Step(h, "finish")
    /\ UNCHANGED <<checkoutVars, providerVars, row, recorded, event, applied, faults>>

\* Nothing to write, or a row that the CHECK lets through.
Accepts(r) == r = NoSub \/ r.status \in RowStatus

\* upsert_subscription and the commit.  An UPDATE of the row waits for one not
\* yet committed and then overwrites it, so the two are one step.
Finish(h) ==
    /\ at[h] = "finish"
    /\ IF Accepts(work[h])
       THEN /\ row' = IF work[h] = NoSub THEN row ELSE work[h]
            /\ recorded' = recorded \cup {event[h]}
            /\ applied' = [applied EXCEPT ![event[h]] = @ + 1]
       ELSE UNCHANGED <<row, recorded, applied>>
    /\ Drop(h)
    /\ UNCHANGED <<checkoutVars, providerVars, orderly, faults>>

\* A call to the provider or to the database raises, or the process dies: the
\* transaction is rolled back.
Fails(h) ==
    /\ at[h] # "idle"
    /\ Fault
    /\ Drop(h)
    /\ UNCHANGED <<checkoutVars, providerVars, row, recorded, applied, orderly>>

-----------------------------------------------------------------------------
Deliver(n) == \E h \in Handlers : Receive(h, n)

Handle(h) == Insert(h) \/ Read(h) \/ Finish(h)

ProviderActs(u) == Subscribe(u) \/ Updates(u) \/ PaymentFails(u) \/ Pays(u) \/ Cancel(u)

Next ==
    \/ \E u \in Upgrades :
          UpgradeEnsure(u) \/ UpgradeOffer(u) \/ UpgradeFails(u) \/ ProviderActs(u)
    \/ \E n \in EventNo : Deliver(n)
    \/ \E h \in Handlers : Handle(h) \/ Fails(h)

\* A handler that can go on does; the provider repeats an event for as long as
\* it finds a handler and the event is not recorded.
Fairness ==
    /\ \A h \in Handlers : WF_vars(Handle(h))
    /\ \A n \in EventNo : SF_vars(n \notin recorded /\ Deliver(n))

Spec == Init /\ [][Next]_vars /\ Fairness

-----------------------------------------------------------------------------
\* An event's transaction commits once, however often the event is delivered
\* and by however many handlers at once (record_billing_event and the row are
\* written in one transaction behind the unique provider_event_id).
AppliedOnce ==
    \A n \in EventNo : applied[n] = IF n \in recorded THEN 1 ELSE 0

\* What auth_resolve_principal grants.
Granted == IF row.status \in {"active", "trialing"} THEN row.tier ELSE "free"

Settled ==
    /\ \A h \in Handlers : at[h] = "idle"
    /\ DOMAIN sent \subseteq recorded

Paid == {sub[u].tier : u \in {v \in Upgrades : sub[v].status = "active"}}

\* Once every event is handled the tenant is granted the tier it pays for, and
\* "free" when it pays for none.
Mirrors == Settled => Granted \in (IF Paid = {} THEN {"free"} ELSE Paid)

\* The same as long as no event was applied before an earlier one was committed
\* and no two subscriptions were live at once: duplicates, concurrent handlers
\* of one event, and failures anywhere then leave no trace in the row.
OrderlyMirrors == orderly => Mirrors

\* What the code refuses on every delivery: an invoice of a customer that
\* another upgrade replaced or that was not stored (400), and a checkout whose
\* subscription has been canceled since, a status the CHECK does not know (500).
Refused(n) ==
    LET e == sent[n] IN
    \/ ~Resolves(e)
    \/ e.kind = "checkout" /\ sub[e.sub].status = "canceled"

\* Every other event the provider reports is recorded in the end: a failure is
\* answered with an error, so the event comes again.
EventsRecorded == []<>(\A n \in DOMAIN sent : n \in recorded \/ Refused(n))
=============================================================================
