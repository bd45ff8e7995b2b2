---------------------------- MODULE Billing_proofs ----------------------------
(***************************************************************************)
(* Proofs about Billing: for any number of upgrades, webhook handlers,     *)
(* events and faults, the types are kept, every event is applied once, and *)
(* the row grants what is paid for as long as no event overtakes another.  *)
(***************************************************************************)
EXTENDS Billing, TLAPS

Inserted(h) == at[h] \in {"read", "finish"}

\* A handler works on an event that was reported.
WorkKnown == \A h \in Handlers : at[h] # "idle" => event[h] \in DOMAIN sent

\* The unique index: one handler at most holds the insert of an event, and of
\* none that is committed.
InsertsUnique ==
    \A h \in Handlers : Inserted(h) =>
        /\ event[h] \notin recorded
        /\ \A g \in Handlers \ {h} : Inserted(g) => event[g] # event[h]

IInv == TypeOK /\ WorkKnown /\ InsertsUnique /\ AppliedOnce

-----------------------------------------------------------------------------
LEMMA InitInvariant == Init => IInv
<1> SUFFICES ASSUME Init PROVE IInv
    OBVIOUS
<1> USE BillingConstantsOK DEF Init
<1>1. TypeOK
    BY DEF TypeOK, NoSub, Snapshot, SubStatus, RowStatus, Tier
<1>2. WorkKnown /\ InsertsUnique
    BY DEF WorkKnown, InsertsUnique, Inserted
<1>3. AppliedOnce
    BY DEF AppliedOnce
<1> QED
    BY <1>1, <1>2, <1>3 DEF IInv

\* What an event makes of the row is a snapshot the handler can hold.
LEMMA AppliedType ==
    ASSUME NEW r \in [tier : Tier, status : RowStatus], NEW e \in Event,
           NEW s \in Snapshot
    PROVE  Applied(r, e, s) \in Snapshot
<1>1. CASE e.kind = "checkout"
    BY <1>1 DEF Applied
<1>2. CASE e.kind = "updated"
    BY <1>2 DEF Applied, Event, Snapshot
<1>3. CASE e.kind = "deleted"
    BY <1>3 DEF Applied, Snapshot, Tier, RowStatus
<1>4. CASE e.kind = "payment_failed"
    BY <1>4 DEF Applied, Snapshot, RowStatus
<1>5. CASE e.kind = "paid"
    BY <1>5 DEF Applied, Snapshot, RowStatus
<1> QED
    BY <1>1, <1>2, <1>3, <1>4, <1>5 DEF Event, InvoiceKind

\* Only a handler changes what the invariant says of handlers and records.
LEMMA ElsewhereInvariant ==
    ASSUME TypeOK', WorkKnown, InsertsUnique, AppliedOnce,
           UNCHANGED <<recorded, handlerVars, applied>>,
           DOMAIN sent \subseteq DOMAIN sent'
    PROVE  IInv'
<1>1. WorkKnown'
    BY DEF WorkKnown, handlerVars
<1>2. InsertsUnique'
    BY DEF InsertsUnique, Inserted, handlerVars
<1>3. AppliedOnce'
    BY DEF AppliedOnce
<1> QED
    BY <1>1, <1>2, <1>3 DEF IInv

LEMMA UpgradeInvariant ==
    ASSUME IInv, NEW u \in Upgrades,
           UpgradeEnsure(u) \/ UpgradeOffer(u) \/ UpgradeFails(u)
    PROVE  IInv'
<1> USE BillingConstantsOK
<1>1. UNCHANGED <<sub, sent, row, recorded, handlerVars, applied, orderly>>
    BY DEF UpgradeEnsure, UpgradeOffer, UpgradeFails, providerVars
<1>2. /\ upgrade' \in [Upgrades -> {"new", "ensured", "offered", "failed"}]
      /\ faults' \in 0..MaxFaults
      /\ customer' \in Upgrades \cup {None}
      /\ buyer' \in [Upgrades -> Upgrades \cup {None}]
  <2> USE DEF IInv, TypeOK, Goto
  <2>1. CASE UpgradeEnsure(u)
    BY <2>1 DEF UpgradeEnsure
  <2>2. CASE UpgradeOffer(u)
    BY <2>2 DEF UpgradeOffer
  <2>3. CASE UpgradeFails(u)
    <3>1. faults' \in 0..MaxFaults
      BY <2>3 DEF UpgradeFails, Fault
    <3> QED
      BY <2>3, <3>1 DEF UpgradeFails
  <2> QED
    BY <2>1, <2>2, <2>3
<1>4. TypeOK'
    BY <1>1, <1>2 DEF IInv, TypeOK, handlerVars
<1> QED
    BY <1>1, <1>4, ElsewhereInvariant DEF IInv

LEMMA ProviderInvariant ==
    ASSUME IInv, NEW u \in Upgrades, ProviderActs(u)
    PROVE  IInv'
<1> USE BillingConstantsOK
<1>1. PICK t \in Tier, s \in SubStatus, k \in {"checkout", "updated", "deleted"} \cup InvoiceKind :
         Becomes(u, t, s, k)
  <2>1. sub[u].tier \in Tier /\ sub[u].status \in SubStatus
    BY DEF IInv, TypeOK
  <2>2. CASE Subscribe(u)
    BY <2>2 DEF Subscribe, Tier, SubStatus
  <2>3. CASE Updates(u)
    BY <2>1, <2>3 DEF Updates, Tier
  <2>4. CASE PaymentFails(u)
    BY <2>1, <2>4 DEF PaymentFails, SubStatus, InvoiceKind
  <2>5. CASE Pays(u)
    BY <2>1, <2>5 DEF Pays, SubStatus, InvoiceKind
  <2>6. CASE Cancel(u)
    BY <2>1, <2>6 DEF Cancel, SubStatus
  <2> QED
    BY <2>2, <2>3, <2>4, <2>5, <2>6 DEF ProviderActs
<1>2. UNCHANGED <<checkoutVars, row, recorded, handlerVars, applied, faults>>
    BY <1>1 DEF Becomes
<1>3. sub' \in [Upgrades -> [tier : Tier, status : SubStatus]]
    BY <1>1 DEF Becomes, IInv, TypeOK
<1>4. /\ sent' \in Seq(Event)
      /\ Len(sent') <= MaxEvents
      /\ DOMAIN sent \subseteq DOMAIN sent'
  <2>1. [kind |-> k, sub |-> u, tier |-> t, status |-> s] \in Event
    BY <1>1 DEF Event
  <2>2. sent \in Seq(Event)
    BY DEF IInv, TypeOK
  <2> QED
    BY <1>1, <2>1, <2>2 DEF Becomes
<1>5. orderly' \in BOOLEAN
    BY DEF IInv, TypeOK, ProviderActs, Subscribe, Updates, PaymentFails, Pays, Cancel
<1>6. TypeOK'
    BY <1>2, <1>3, <1>4, <1>5 DEF IInv, TypeOK, checkoutVars, handlerVars
<1> QED
    BY <1>2, <1>4, <1>6, ElsewhereInvariant DEF IInv

-----------------------------------------------------------------------------
\* A handler that lets go of its event holds no insert.
LEMMA DropInvariant ==
    ASSUME IInv, NEW h \in Handlers, Drop(h)
    PROVE  /\ at' \in [Handlers -> {"idle", "insert", "read", "finish"}]
           /\ event' \in [Handlers -> 0..MaxEvents]
           /\ work' \in [Handlers -> Snapshot]
           /\ \A g \in Handlers \ {h} : at'[g] = at[g] /\ event'[g] = event[g]
           /\ at'[h] = "idle"
<1> USE BillingConstantsOK DEF IInv, TypeOK
<1>1. NoSub \in Snapshot
    BY DEF NoSub, Snapshot, Tier, SubStatus
<1> QED
    BY <1>1 DEF Drop, Step

LEMMA ReceiveInvariant ==
    ASSUME IInv, NEW h \in Handlers, NEW n \in EventNo, Receive(h, n)
    PROVE  IInv'
<1> USE BillingConstantsOK
<1>1. n \in DOMAIN sent /\ sent[n] \in Event
    BY DEF Receive, IInv, TypeOK, EventNo
<1>2. work' \in [Handlers -> Snapshot]
  <2>1. sub[sent[n].sub] \in Snapshot
    BY <1>1 DEF IInv, TypeOK, Event, Snapshot
  <2>2. NoSub \in Snapshot
    BY DEF NoSub, Snapshot, Tier, SubStatus
  <2> QED
    BY <2>1, <2>2 DEF Receive, IInv, TypeOK
<1>3. /\ at' = [at EXCEPT ![h] = "insert"]
      /\ event' = [event EXCEPT ![h] = n]
      /\ UNCHANGED <<checkoutVars, sub, sent, row, recorded, applied, orderly, faults>>
    BY DEF Receive, Step, providerVars
<1>4. TypeOK'
    BY <1>2, <1>3 DEF IInv, TypeOK, checkoutVars, EventNo
<1>5. WorkKnown'
    BY <1>1, <1>3 DEF IInv, TypeOK, WorkKnown
<1>6. InsertsUnique'
    BY <1>3 DEF IInv, TypeOK, InsertsUnique, Inserted
<1>7. AppliedOnce'
    BY <1>3 DEF IInv, AppliedOnce
<1> QED
    BY <1>4, <1>5, <1>6, <1>7 DEF IInv

\* A handler that gives up: the event was recorded already, or a failure.
LEMMA GivesUpInvariant ==
    ASSUME IInv, NEW h \in Handlers, Drop(h), faults' \in 0..MaxFaults,
           UNCHANGED <<checkoutVars, providerVars, row, recorded, applied, orderly>>
    PROVE  IInv'
<1> USE BillingConstantsOK
<1>1. TypeOK'
    BY DropInvariant DEF IInv, TypeOK, checkoutVars, providerVars
<1>2. WorkKnown'
    BY DropInvariant DEF IInv, WorkKnown, providerVars
<1>3. InsertsUnique'
    BY DropInvariant DEF IInv, InsertsUnique, Inserted
<1>4. AppliedOnce'
    BY DEF IInv, AppliedOnce
<1> QED
    BY <1>1, <1>2, <1>3, <1>4 DEF IInv

LEMMA InsertInvariant ==
    ASSUME IInv, NEW h \in Handlers, Insert(h)
    PROVE  IInv'
<1> USE BillingConstantsOK
<1>1. CASE event[h] \in recorded
  <2>1. faults' \in 0..MaxFaults
    BY DEF Insert, IInv, TypeOK
  <2> QED
    BY <1>1, <2>1, GivesUpInvariant DEF Insert
<1>2. CASE event[h] \notin recorded
  <2>1. /\ at' = [at EXCEPT ![h] = "read"]
        /\ UNCHANGED <<checkoutVars, sub, sent, row, recorded, event, work, applied,
                       orderly, faults>>
    BY <1>2 DEF Insert, Step, providerVars
  <2>2. TypeOK'
    BY <2>1 DEF IInv, TypeOK, checkoutVars
  <2>3. WorkKnown'
    BY <2>1 DEF IInv, TypeOK, WorkKnown, Insert
  <2>4. InsertsUnique'
    BY <1>2, <2>1 DEF IInv, TypeOK, InsertsUnique, Inserted, Insert
  <2>5. AppliedOnce'
    BY <2>1 DEF IInv, AppliedOnce
  <2> QED
    BY <2>2, <2>3, <2>4, <2>5 DEF IInv
<1> QED
    BY <1>1, <1>2

LEMMA ReadInvariant ==
    ASSUME IInv, NEW h \in Handlers, Read(h)
    PROVE  IInv'
<1> USE BillingConstantsOK
<1> DEFINE e == sent[event[h]]
<1>1. e \in Event
    BY DEF Read, IInv, WorkKnown, TypeOK
<1>2. work' \in [Handlers -> Snapshot]
  <2>1. Applied(row, e, work[h]) \in Snapshot
    BY <1>1, AppliedType DEF IInv, TypeOK
  <2>2. NoSub \in Snapshot
    BY DEF NoSub, Snapshot, Tier, SubStatus
  <2>3. Writes(e, Applied(row, e, work[h])) \subseteq Snapshot
    BY <2>1, <2>2 DEF Writes
  <2> QED
    BY <2>3 DEF Read, IInv, TypeOK
<1>3. /\ at' = [at EXCEPT ![h] = "finish"]
      /\ at[h] = "read"
      /\ orderly' \in BOOLEAN
      /\ UNCHANGED <<checkoutVars, sub, sent, row, recorded, event, applied, faults>>
    BY DEF Read, Step, providerVars, IInv, TypeOK
<1>4. TypeOK'
    BY <1>2, <1>3 DEF IInv, TypeOK, checkoutVars
<1>5. WorkKnown'
    BY <1>3 DEF IInv, TypeOK, WorkKnown
<1>6. InsertsUnique'
    BY <1>3 DEF IInv, TypeOK, InsertsUnique, Inserted
<1>7. AppliedOnce'
    BY <1>3 DEF IInv, AppliedOnce
<1> QED
    BY <1>4, <1>5, <1>6, <1>7 DEF IInv

LEMMA FinishInvariant ==
    ASSUME IInv, NEW h \in Handlers, Finish(h)
    PROVE  IInv'
<1> USE BillingConstantsOK
<1>1. faults' \in 0..MaxFaults /\ Drop(h)
    BY DEF Finish, IInv, TypeOK
<1>2. CASE ~Accepts(work[h])
    BY <1>1, <1>2, GivesUpInvariant DEF Finish
<1>3. CASE Accepts(work[h])
  <2>1. event[h] \in EventNo /\ event[h] \notin recorded
    BY DEF Finish, IInv, WorkKnown, InsertsUnique, Inserted, TypeOK, EventNo
  <2>2. /\ row' = IF work[h] = NoSub THEN row ELSE work[h]
        /\ recorded' = recorded \cup {event[h]}
        /\ applied' = [applied EXCEPT ![event[h]] = @ + 1]
        /\ UNCHANGED <<checkoutVars, providerVars, orderly, faults>>
    BY <1>3 DEF Finish
  <2>3. row' \in [tier : Tier, status : RowStatus]
    BY <1>3, <2>2 DEF Accepts, Snapshot, IInv, TypeOK
  <2>4. TypeOK'
    <3>1. /\ at' \in [Handlers -> {"idle", "insert", "read", "finish"}]
          /\ event' \in [Handlers -> 0..MaxEvents]
          /\ work' \in [Handlers -> Snapshot]
      BY <1>1, DropInvariant
    <3>2. recorded' \subseteq EventNo /\ applied' \in [EventNo -> Nat]
      BY <2>1, <2>2 DEF IInv, TypeOK
    <3> QED
      BY <1>1, <2>2, <2>3, <3>1, <3>2 DEF IInv, TypeOK, checkoutVars, providerVars
  <2>5. WorkKnown'
    BY <1>1, <2>2, DropInvariant DEF IInv, WorkKnown, providerVars
  <2>6. InsertsUnique'
    BY <1>1, <2>2, DropInvariant DEF IInv, InsertsUnique, Inserted, Finish
  <2>7. AppliedOnce'
    BY <2>1, <2>2 DEF IInv, TypeOK, AppliedOnce
  <2> QED
    BY <2>4, <2>5, <2>6, <2>7 DEF IInv
<1> QED
    BY <1>2, <1>3

LEMMA FailsInvariant ==
    ASSUME IInv, NEW h \in Handlers, Fails(h)
    PROVE  IInv'
<1>1. faults' \in 0..MaxFaults
    BY BillingConstantsOK DEF Fails, Fault, IInv, TypeOK
<1> QED
    BY <1>1, GivesUpInvariant DEF Fails

-----------------------------------------------------------------------------
(* The row follows the provider                                            *)

LiveStatus == {"active", "past_due"}

NoRow == [tier |-> "free", status |-> "active"]

\* What an event reports of its subscription.
Reported(e) == [tier |-> e.tier, status |-> e.status]

\* The subscription of event n is still live at event m of the history s.
Span(s, n, m) == \A i \in n..m : s[i].status \in LiveStatus

\* The row r is what events 1 to n of the history s make of it.  A checkout's row is
\* read from the provider when the event is handled, so it may know of a later event;
\* what invoices leave of it, the tier, may too.
Fits(s, r, n) ==
    IF n = 0 THEN r = NoRow
    ELSE IF s[n].kind = "deleted" THEN r = NoRow
    ELSE \E m \in n..Len(s) :
            /\ Span(s, n, m)
            /\ r.tier = s[m].tier
            /\ r.status = IF s[n].kind = "checkout" THEN s[m].status ELSE s[n].status

\* What a history with one live subscription at a time tells: an invoice keeps the tier
\* of the event before it.
Reports(s) ==
    \A n \in 1..Len(s) :
        /\ s[n].kind # "deleted" => s[n].status \in LiveStatus
        /\ s[n].kind = "payment_failed" => s[n].status = "past_due"
        /\ s[n].kind = "paid" => s[n].status = "active"
        /\ s[n].kind \in InvoiceKind =>
              n > 1 /\ s[n - 1].kind # "deleted" /\ s[n - 1].tier = s[n].tier

\* The live subscription is that of the last event, in the state it reports.
Current ==
    \A u \in Upgrades :
        /\ Live(u) => /\ Len(sent) > 0 /\ sent[Len(sent)].sub = u
                      /\ sent[Len(sent)].kind # "deleted"
                      /\ sub[u] = Reported(sent[Len(sent)])
        /\ Len(sent) > 0 /\ sent[Len(sent)].sub = u /\ sent[Len(sent)].kind # "deleted" => Live(u)

\* A subscription that was checked out is live ever since, or canceled.
Checkouts ==
    \A n \in 1..Len(sent) : sent[n].kind = "checkout" =>
        LET status == sub[sent[n].sub].status IN
            IF status \in LiveStatus THEN Span(sent, n, Len(sent)) ELSE status = "canceled"

\* The events recorded are the first k, and the row fits them.
RowFollows == \E k \in 0..Len(sent) : recorded = 1..k /\ Fits(sent, row, k)

\* What a handler retrieved for a checkout is a later state of that subscription.
Retrieved ==
    \A h \in Handlers : at[h] \in {"insert", "read"} /\ sent[event[h]].kind = "checkout" =>
        \/ work[h].status = "canceled"
        \/ \E m \in event[h]..Len(sent) :
              Span(sent, event[h], m) /\ work[h] = Reported(sent[m])

\* The row a handler is about to leave.
RowOf(h) == IF work[h] = NoSub THEN row ELSE work[h]

\* A handler that has computed its row waits for nobody: no other event is committed
\* before its own.
Finishing ==
    \A h \in Handlers : at[h] = "finish" =>
        /\ 1..(event[h] - 1) \subseteq recorded
        /\ Accepts(work[h]) => Fits(sent, RowOf(h), event[h])

Follows == Reports(sent) /\ Current /\ Checkouts /\ RowFollows /\ Retrieved /\ Finishing

MirrorInv == orderly => Follows

LEMMA InitMirrorInv == Init => MirrorInv
<1> SUFFICES ASSUME Init PROVE Follows
    BY DEF MirrorInv
<1>1. /\ sent = <<>> /\ Len(sent) = 0 /\ recorded = {} /\ row = NoRow
      /\ \A u \in Upgrades : ~Live(u)
      /\ \A h \in Handlers : at[h] = "idle"
    BY DEF Init, NoRow, Live, NoSub, None
<1>2. 0 \in 0..Len(sent) /\ 1..0 = {} /\ 1..Len(sent) = {}
    BY <1>1
<1>3. RowFollows
    BY <1>1, <1>2 DEF RowFollows, Fits
<1> QED
    BY <1>1, <1>2, <1>3 DEF Follows, Reports, Current, Checkouts, Retrieved, Finishing

\* A later event changes nothing of what a row fits.
LEMMA FitsLater ==
    ASSUME NEW s \in Seq(Event), NEW e \in Event, NEW n \in 0..Len(s), NEW r, Fits(s, r, n)
    PROVE  Fits(Append(s, e), r, n)
<1> DEFINE t == Append(s, e)
<1>1. /\ Len(s) \in Nat /\ Len(t) = Len(s) + 1 /\ \A i \in 1..Len(s) : t[i] = s[i]
    OBVIOUS
<1> HIDE DEF t
<1>2. CASE n = 0
    BY <1>2 DEF Fits, t
<1>3. CASE n # 0
  <2>1. n \in 1..Len(s) /\ t[n] = s[n]
    BY <1>1, <1>3
  <2>2. CASE s[n].kind = "deleted"
    BY <1>3, <2>1, <2>2 DEF Fits, t
  <2>3. CASE s[n].kind # "deleted"
    <3>1. PICK m \in n..Len(s) :
              /\ Span(s, n, m)
              /\ r.tier = s[m].tier
              /\ r.status = IF s[n].kind = "checkout" THEN s[m].status ELSE s[n].status
      BY <1>3, <2>3 DEF Fits
    <3>2. m \in n..Len(t) /\ m \in 1..Len(s) /\ \A i \in n..m : i \in 1..Len(s)
      BY <1>1, <2>1
    <3>3. Span(t, n, m) /\ t[m] = s[m]
      BY <1>1, <3>1, <3>2 DEF Span
    <3> QED
      BY <1>3, <2>1, <2>3, <3>1, <3>2, <3>3 DEF Fits, t
  <2> QED
    BY <2>2, <2>3
<1> QED
    BY <1>2, <1>3

\* How the events of a history with one live subscription come about.
LEMMA ProviderReports ==
    ASSUME IInv, NEW u \in Upgrades, ProviderActs(u)
    PROVE  \E e \in Event :
              /\ e.sub = u /\ sent' = Append(sent, e) /\ sub' = [sub EXCEPT ![u] = Reported(e)]
              /\ UNCHANGED <<checkoutVars, row, recorded, handlerVars>>
              /\ orderly' => orderly
              /\ \/ /\ e.kind = "checkout" /\ e.status = "active" /\ sub[u].status = None
                    /\ orderly' => \A v \in Upgrades : ~Live(v)
                 \/ e.kind = "updated" /\ e.status = sub[u].status /\ Live(u)
                 \/ e.kind = "payment_failed" /\ e.status = "past_due" /\ e.tier = sub[u].tier /\ Live(u)
                 \/ e.kind = "paid" /\ e.status = "active" /\ e.tier = sub[u].tier /\ Live(u)
                 \/ e.kind = "deleted" /\ e.status = "canceled" /\ Live(u)
<1> USE BillingConstantsOK
<1> DEFINE E(k, t, s) == [kind |-> k, sub |-> u, tier |-> t, status |-> s]
<1>1. sub[u].tier \in Tier /\ sub[u].status \in SubStatus
    BY DEF IInv, TypeOK
<1>2. CASE Subscribe(u)
  <2>1. E("checkout", PlanOf[u], "active") \in Event
    BY DEF Event, Tier, SubStatus
  <2> QED
    BY <1>2, <2>1 DEF Subscribe, Becomes, Reported
<1>3. CASE Updates(u)
  <2>1. PICK t \in {"pro", "premium"} : Becomes(u, t, sub[u].status, "updated")
    BY <1>3 DEF Updates
  <2>2. E("updated", t, sub[u].status) \in Event
    BY <1>1 DEF Event, Tier
  <2> QED
    BY <1>3, <2>1, <2>2 DEF Updates, Becomes, Reported
<1>4. CASE PaymentFails(u)
  <2>1. E("payment_failed", sub[u].tier, "past_due") \in Event
    BY <1>1 DEF Event, InvoiceKind, SubStatus
  <2> QED
    BY <1>4, <2>1 DEF PaymentFails, Becomes, Reported, Live
<1>5. CASE Pays(u)
  <2>1. E("paid", sub[u].tier, "active") \in Event
    BY <1>1 DEF Event, InvoiceKind, SubStatus
  <2> QED
    BY <1>5, <2>1 DEF Pays, Becomes, Reported, Live
<1>6. CASE Cancel(u)
  <2>1. E("deleted", sub[u].tier, "canceled") \in Event
    BY <1>1 DEF Event, SubStatus
  <2> QED
    BY <1>6, <2>1 DEF Cancel, Becomes, Reported
<1> QED
    BY <1>2, <1>3, <1>4, <1>5, <1>6 DEF ProviderActs

\* The provider reports another event.
LEMMA ProviderMirrorInv ==
    ASSUME IInv, MirrorInv, NEW u \in Upgrades, ProviderActs(u)
    PROVE  MirrorInv'
<1> SUFFICES ASSUME orderly' PROVE Follows'
    BY DEF MirrorInv
<1>1. PICK e \in Event :
         /\ e.sub = u /\ sent' = Append(sent, e) /\ sub' = [sub EXCEPT ![u] = Reported(e)]
         /\ UNCHANGED <<checkoutVars, row, recorded, handlerVars>>
         /\ orderly' => orderly
         /\ \/ /\ e.kind = "checkout" /\ e.status = "active" /\ sub[u].status = None
               /\ orderly' => \A v \in Upgrades : ~Live(v)
            \/ e.kind = "updated" /\ e.status = sub[u].status /\ Live(u)
            \/ e.kind = "payment_failed" /\ e.status = "past_due" /\ e.tier = sub[u].tier /\ Live(u)
            \/ e.kind = "paid" /\ e.status = "active" /\ e.tier = sub[u].tier /\ Live(u)
            \/ e.kind = "deleted" /\ e.status = "canceled" /\ Live(u)
    BY ProviderReports
<1> DEFINE l == Len(sent)
<1>2. /\ sent \in Seq(Event) /\ l \in Nat /\ Len(sent') = l + 1 /\ sent'[l + 1] = e
      /\ \A i \in 1..l : sent'[i] = sent[i] /\ sent[i] \in Event
    BY <1>1 DEF IInv, TypeOK
<1>3. Follows
    BY <1>1 DEF MirrorInv
<1>4. /\ sub'[u] = Reported(e) /\ \A v \in Upgrades \ {u} : sub'[v] = sub[v]
    BY <1>1 DEF IInv, TypeOK
<1>5. /\ e.kind # "deleted" => e.status \in LiveStatus
      /\ e.kind = "deleted" => e.status = "canceled"
      /\ e.kind \in InvoiceKind => Live(u) /\ e.tier = sub[u].tier
      /\ e.kind # "checkout" => Live(u)
      /\ e.kind = "payment_failed" => e.status = "past_due"
      /\ e.kind = "paid" => e.status = "active"
    BY <1>1 DEF LiveStatus, Live, InvoiceKind
<1>6. /\ Live(u)' <=> e.kind # "deleted"
      /\ sub'[u].status \in LiveStatus <=> e.kind # "deleted"
      /\ \A v \in Upgrades \ {u} : /\ ~Live(v)' /\ ~Live(v)
                                   /\ sub'[v].status \notin LiveStatus
                                   /\ sub[v].status \notin LiveStatus
  <2>1. \A v \in Upgrades \ {u} : ~Live(v)
    BY <1>1, <1>3, <1>5 DEF Follows, Current
  <2> QED
    BY <1>4, <1>5, <2>1 DEF Live, Reported, LiveStatus
<1> HIDE DEF l
<1>7. Reports(sent')
  <2> SUFFICES ASSUME NEW n \in 1..(l + 1)
               PROVE  /\ sent'[n].kind # "deleted" => sent'[n].status \in LiveStatus
                      /\ sent'[n].kind = "payment_failed" => sent'[n].status = "past_due"
                      /\ sent'[n].kind = "paid" => sent'[n].status = "active"
                      /\ sent'[n].kind \in InvoiceKind =>
                            n > 1 /\ sent'[n - 1].kind # "deleted" /\ sent'[n - 1].tier = sent'[n].tier
    BY <1>2 DEF Reports
  <2>1. CASE n \in 1..l
    <3>1. n > 1 => n - 1 \in 1..l
      BY <1>2, <2>1
    <3>2. /\ sent[n].kind # "deleted" => sent[n].status \in LiveStatus
          /\ sent[n].kind = "payment_failed" => sent[n].status = "past_due"
          /\ sent[n].kind = "paid" => sent[n].status = "active"
          /\ sent[n].kind \in InvoiceKind =>
                n > 1 /\ sent[n - 1].kind # "deleted" /\ sent[n - 1].tier = sent[n].tier
      BY <1>3, <2>1 DEF Follows, Reports, l
    <3> QED
      BY <1>2, <2>1, <3>1, <3>2
  <2>2. CASE n = l + 1
    <3>1. e.kind \in InvoiceKind =>
              l > 0 /\ sent[l].kind # "deleted" /\ sent[l].tier = e.tier
      BY <1>3, <1>5 DEF Follows, Current, Reported, l
    <3>2. (l + 1) - 1 = l /\ (l > 0 => l \in 1..l /\ l + 1 > 1)
      BY <1>2
    <3> QED
      BY <1>2, <1>5, <2>2, <3>1, <3>2
  <2> QED
    BY <1>2, <2>1, <2>2
<1>8. Current'
    BY <1>1, <1>2, <1>4, <1>6 DEF Current
<1>9. Checkouts'
  <2> SUFFICES ASSUME NEW n \in 1..(l + 1), sent'[n].kind = "checkout"
               PROVE  IF sub'[sent'[n].sub].status \in LiveStatus
                        THEN Span(sent', n, l + 1)
                        ELSE sub'[sent'[n].sub].status = "canceled"
    BY <1>2 DEF Checkouts
  <2>1. CASE n = l + 1
    <3>1. /\ sent'[n] = e /\ sub'[u].status \in LiveStatus /\ e.status \in LiveStatus
          /\ n..(l + 1) = {l + 1}
      BY <1>2, <1>5, <1>6, <2>1
    <3>2. Span(sent', n, l + 1)
      BY <1>2, <3>1 DEF Span
    <3> QED
      BY <1>1, <3>1, <3>2
  <2>2. CASE n \in 1..l
    <3> DEFINE v == sent[n].sub
    <3>1. /\ sent'[n] = sent[n] /\ v \in Upgrades /\ sent[n].kind = "checkout"
          /\ sub[v].status \in LiveStatus => Span(sent, n, l)
          /\ sub[v].status \notin LiveStatus => sub[v].status = "canceled"
      BY <1>2, <1>3, <2>2 DEF Follows, Checkouts, Event, l
    <3> HIDE DEF v
    <3>2. CASE v # u
      BY <1>4, <1>6, <3>1, <3>2 DEF v
    <3>3. CASE v = u
      <4>1. e.kind # "checkout"
        <5>1. sub[u].status # "canceled" => Live(u)
          BY <3>1, <3>3 DEF Live, LiveStatus
        <5>2. sub[u].status = None => ~Live(u) /\ sub[u].status # "canceled"
          BY DEF Live, None
        <5> QED
          BY <1>1, <5>1, <5>2
      <4>2. Span(sent, n, l)
        BY <1>5, <3>1, <3>3, <4>1 DEF Live, LiveStatus
      <4>3. e.kind # "deleted" => Span(sent', n, l + 1)
        <5> SUFFICES ASSUME e.kind # "deleted", NEW i \in n..(l + 1)
                     PROVE  sent'[i].status \in LiveStatus
          BY DEF Span
        <5>1. i = l + 1 \/ (i \in n..l /\ i \in 1..l)
          BY <1>2, <2>2
        <5> QED
          BY <1>2, <1>5, <4>2, <5>1 DEF Span
      <4>4. e.kind = "deleted" => sub'[u].status = "canceled"
        BY <1>4, <1>5 DEF Reported
      <4> QED
        BY <1>6, <3>1, <3>3, <4>3, <4>4 DEF v
    <3> QED
      BY <3>2, <3>3
  <2> QED
    BY <1>2, <2>1, <2>2
<1>10. RowFollows'
  <2>1. PICK k \in 0..l : recorded = 1..k /\ Fits(sent, row, k)
    BY <1>3 DEF Follows, RowFollows, l
  <2>2. Fits(sent', row, k)
    BY <1>1, <1>2, <2>1, FitsLater DEF l
  <2>3. k \in 0..Len(sent')
    BY <1>2, <2>1
  <2> QED
    BY <1>1, <2>1, <2>2, <2>3 DEF RowFollows
<1>11. UNCHANGED <<at, event, work>> /\ \A h \in Handlers : at[h] # "idle" => event[h] \in 1..l
  <2>1. DOMAIN sent = 1..l
    BY <1>2 DEF l
  <2> QED
    BY <1>1, <2>1 DEF handlerVars, IInv, WorkKnown
<1>12. Retrieved'
  <2> SUFFICES ASSUME NEW h \in Handlers, at[h] \in {"insert", "read"},
                      sent'[event[h]].kind = "checkout", work[h].status # "canceled"
               PROVE  \E m \in event[h]..(l + 1) :
                         Span(sent', event[h], m) /\ work[h] = Reported(sent'[m])
    BY <1>2, <1>11 DEF Retrieved
  <2>1. event[h] \in 1..l
    BY <1>11
  <2>2. PICK m \in event[h]..l : Span(sent, event[h], m) /\ work[h] = Reported(sent[m])
    BY <1>2, <1>3, <2>1 DEF Follows, Retrieved, l
  <2>3. m \in event[h]..(l + 1) /\ m \in 1..l /\ \A i \in event[h]..m : i \in 1..l
    BY <1>2, <2>1, <2>2
  <2> QED
    BY <1>2, <2>2, <2>3 DEF Span
<1>13. Finishing'
  <2> SUFFICES ASSUME NEW h \in Handlers, at[h] = "finish"
               PROVE  /\ 1..(event[h] - 1) \subseteq recorded
                      /\ Accepts(work[h]) => Fits(sent', RowOf(h), event[h])
    BY <1>1, <1>11 DEF Finishing, RowOf
  <2>1. /\ 1..(event[h] - 1) \subseteq recorded
        /\ Accepts(work[h]) => Fits(sent, RowOf(h), event[h])
    BY <1>3 DEF Follows, Finishing
  <2>2. event[h] \in 0..Len(sent)
    BY <1>2, <1>11 DEF l
  <2> QED
    BY <1>1, <1>2, <2>1, <2>2, FitsLater
<1> QED
    BY <1>7, <1>8, <1>9, <1>10, <1>12, <1>13 DEF Follows

\* Handlers that let go of their event, or a step elsewhere.
LEMMA IdleMirrorInv ==
    ASSUME MirrorInv, UNCHANGED <<providerVars, row, recorded>>, orderly' => orderly,
           \A h \in Handlers : \/ at'[h] = "idle"
                               \/ at'[h] = at[h] /\ event'[h] = event[h] /\ work'[h] = work[h]
    PROVE  MirrorInv'
<1> SUFFICES ASSUME orderly' PROVE Follows'
    BY DEF MirrorInv
<1>1. Follows /\ UNCHANGED <<sub, sent, row, recorded>>
    BY DEF MirrorInv, providerVars
<1>2. Reports(sent)' /\ Current' /\ Checkouts' /\ RowFollows'
    BY <1>1 DEF Follows, Current, Live, Checkouts, RowFollows
<1>3. Retrieved'
    BY <1>1 DEF Follows, Retrieved
<1>4. Finishing'
    BY <1>1 DEF Follows, Finishing, RowOf
<1> QED
    BY <1>2, <1>3, <1>4 DEF Follows

LEMMA DropMirrorInv ==
    ASSUME IInv, MirrorInv, NEW h \in Handlers, Drop(h),
           UNCHANGED <<providerVars, row, recorded>>, orderly' => orderly
    PROVE  MirrorInv'
<1>1. /\ at'[h] = "idle"
      /\ \A g \in Handlers \ {h} : at'[g] = at[g] /\ event'[g] = event[g] /\ work'[g] = work[g]
    BY DEF Drop, Step, IInv, TypeOK
<1> QED
    BY <1>1, IdleMirrorInv

\* The subscription retrieved for a checkout is as the last event left it, or canceled.
LEMMA ReceiveMirrorInv ==
    ASSUME IInv, MirrorInv, NEW h \in Handlers, NEW n \in EventNo, Receive(h, n)
    PROVE  MirrorInv'
<1> SUFFICES ASSUME orderly' PROVE Follows'
    BY DEF MirrorInv
<1>1. /\ Follows /\ UNCHANGED <<sub, sent, row, recorded>>
      /\ \A g \in Handlers \ {h} : at'[g] = at[g] /\ event'[g] = event[g] /\ work'[g] = work[g]
      /\ at'[h] = "insert" /\ event'[h] = n
      /\ sent[n].kind = "checkout" => work'[h] = sub[sent[n].sub]
    BY DEF MirrorInv, Receive, Step, providerVars, IInv, TypeOK
<1>2. /\ sent \in Seq(Event) /\ Len(sent) \in Nat /\ n \in 1..Len(sent) /\ sent[n] \in Event
      /\ Len(sent) \in n..Len(sent)
    BY DEF Receive, IInv, TypeOK, EventNo
<1>3. Reports(sent)' /\ Current' /\ Checkouts' /\ RowFollows'
    BY <1>1 DEF Follows, Current, Live, Checkouts, RowFollows
<1>4. Retrieved'
  <2> DEFINE s == sub[sent[n].sub]
  <2>1. ASSUME sent[n].kind = "checkout", s.status # "canceled"
        PROVE  Span(sent, n, Len(sent)) /\ s = Reported(sent[Len(sent)])
    <3>1. s.status \in LiveStatus /\ Span(sent, n, Len(sent))
      BY <1>1, <1>2, <2>1 DEF Follows, Checkouts
    <3>2. Live(sent[n].sub) /\ sent[n].sub \in Upgrades
      BY <1>2, <3>1 DEF Live, LiveStatus, Event
    <3>3. s = Reported(sent[Len(sent)])
      BY <1>1, <3>2 DEF Follows, Current
    <3> QED
      BY <3>1, <3>3
  <2> HIDE DEF s
  <2>2. sent[n].kind = "checkout" =>
           \/ work'[h].status = "canceled"
           \/ \E m \in n..Len(sent) : Span(sent, n, m) /\ work'[h] = Reported(sent[m])
    BY <1>1, <1>2, <2>1 DEF s
  <2> QED
    BY <1>1, <2>2 DEF Follows, Retrieved
<1>5. Finishing'
    BY <1>1 DEF Follows, Finishing, RowOf
<1> QED
    BY <1>3, <1>4, <1>5 DEF Follows

LEMMA InsertMirrorInv ==
    ASSUME IInv, MirrorInv, NEW h \in Handlers, Insert(h)
    PROVE  MirrorInv'
<1>1. CASE event[h] \in recorded
    BY <1>1, DropMirrorInv DEF Insert
<1>2. CASE event[h] \notin recorded
  <2> SUFFICES ASSUME orderly' PROVE Follows'
    BY DEF MirrorInv
  <2>1. /\ Follows /\ UNCHANGED <<sub, sent, row, recorded, event, work>>
        /\ at[h] = "insert" /\ at'[h] = "read"
        /\ \A g \in Handlers \ {h} : at'[g] = at[g]
    BY <1>2 DEF MirrorInv, Insert, Step, providerVars, IInv, TypeOK
  <2>2. Reports(sent)' /\ Current' /\ Checkouts' /\ RowFollows'
    BY <2>1 DEF Follows, Current, Live, Checkouts, RowFollows
  <2>3. Retrieved'
    BY <2>1 DEF Follows, Retrieved
  <2>4. Finishing'
    BY <2>1 DEF Follows, Finishing, RowOf
  <2> QED
    BY <2>2, <2>3, <2>4 DEF Follows
<1> QED
    BY <1>1, <1>2

\* What the next event makes of a row that fits the one before.
LEMMA NextFits ==
    ASSUME NEW s \in Seq(Event), Reports(s), NEW n \in 1..Len(s), NEW r, NEW new,
           NEW retrieved,
           Fits(s, r, n - 1), r \in [tier : Tier, status : RowStatus],
           new = Applied(r, s[n], retrieved), new.status # "canceled",
           s[n].kind = "checkout" =>
               \/ retrieved.status = "canceled"
               \/ \E m \in n..Len(s) : Span(s, n, m) /\ retrieved = Reported(s[m])
    PROVE  Fits(s, new, n)
<1>1. /\ s[n] \in Event /\ Len(s) \in Nat /\ n \in n..Len(s) /\ n # 0
      /\ s[n].kind # "deleted" => s[n].status \in LiveStatus
      /\ s[n].kind = "payment_failed" => s[n].status = "past_due"
      /\ s[n].kind = "paid" => s[n].status = "active"
      /\ s[n].kind \in InvoiceKind =>
              n > 1 /\ s[n - 1].kind # "deleted" /\ s[n - 1].tier = s[n].tier
    BY DEF Reports
<1>2. CASE s[n].kind = "deleted"
    BY <1>1, <1>2 DEF Fits, Applied, NoRow
<1>3. CASE s[n].kind = "checkout"
  <2>1. new = retrieved
    BY <1>3 DEF Applied
  <2>2. PICK m \in n..Len(s) : Span(s, n, m) /\ retrieved = Reported(s[m])
    BY <1>3, <2>1
  <2> QED
    BY <1>1, <1>3, <2>1, <2>2 DEF Fits, Reported
<1>4. CASE s[n].kind = "updated"
  <2>1. new = Reported(s[n])
    BY <1>4 DEF Applied, Reported
  <2>2. Span(s, n, n)
    BY <1>1, <1>4 DEF Span
  <2> QED
    BY <1>1, <1>4, <2>1, <2>2 DEF Fits, Reported
<1>5. CASE s[n].kind \in InvoiceKind
  <2>1. /\ n > 1 /\ s[n - 1].kind # "deleted" /\ s[n - 1].tier = s[n].tier /\ n - 1 # 0
        /\ s[n].kind # "deleted" /\ s[n].kind # "checkout"
    BY <1>1, <1>5 DEF InvoiceKind
  <2>2. new.tier = r.tier /\ new.status = s[n].status
    BY <1>1, <1>5 DEF Applied, InvoiceKind
  <2>3. PICK m \in (n - 1)..Len(s) : Span(s, n - 1, m) /\ r.tier = s[m].tier
    BY <2>1 DEF Fits
  <2>4. Span(s, n, n)
    BY <1>1, <2>1 DEF Span
  <2>5. CASE m = n - 1
    BY <1>1, <2>1, <2>2, <2>3, <2>4, <2>5 DEF Fits
  <2>6. CASE m # n - 1
    <3>1. m \in n..Len(s) /\ n..m \subseteq (n - 1)..m
      BY <2>3, <2>6
    <3>2. Span(s, n, m)
      BY <2>3, <3>1 DEF Span
    <3> QED
      BY <1>1, <2>1, <2>2, <2>3, <3>1, <3>2 DEF Fits
  <2> QED
    BY <2>5, <2>6
<1> QED
    BY <1>1, <1>2, <1>3, <1>4, <1>5 DEF Event

\* A row read in order is the row after the event before.
LEMMA ReadMirrorInv ==
    ASSUME IInv, MirrorInv, NEW h \in Handlers, Read(h)
    PROVE  MirrorInv'
<1> SUFFICES ASSUME orderly' PROVE Follows'
    BY DEF MirrorInv
<1> DEFINE n == event[h]
           new == Applied(row, sent[n], work[h])
<1>1. /\ Follows /\ UNCHANGED <<sub, sent, row, recorded, event>>
      /\ at[h] = "read" /\ at'[h] = "finish"
      /\ \A g \in Handlers \ {h} : at'[g] = at[g] /\ work'[g] = work[g]
      /\ work'[h] \in Writes(sent[n], new)
      /\ 1..(n - 1) \subseteq recorded
    BY DEF MirrorInv, Read, Step, providerVars, IInv, TypeOK
<1>2. /\ sent \in Seq(Event) /\ Len(sent) \in Nat /\ n \in 1..Len(sent)
      /\ n \notin recorded /\ row \in [tier : Tier, status : RowStatus]
  <2>1. n \in DOMAIN sent /\ n \notin recorded
    BY <1>1 DEF IInv, WorkKnown, InsertsUnique, Inserted
  <2> QED
    BY <2>1 DEF IInv, TypeOK
<1>3. Fits(sent, row, n - 1)
  <2>1. PICK k \in 0..Len(sent) : recorded = 1..k /\ Fits(sent, row, k)
    BY <1>1 DEF Follows, RowFollows
  <2>2. n - 1 = 0 \/ n - 1 \in 1..k
    BY <1>1, <1>2, <2>1
  <2>3. k = n - 1
    BY <1>2, <2>1, <2>2
  <2> QED
    BY <2>1, <2>3
<1>4. Accepts(work'[h]) => Fits(sent, IF work'[h] = NoSub THEN row ELSE work'[h], n)
  <2> SUFFICES ASSUME Accepts(work'[h])
               PROVE  Fits(sent, IF work'[h] = NoSub THEN row ELSE work'[h], n)
    OBVIOUS
  <2>1. work'[h] = new \/ (work'[h] = NoSub /\ new = row)
    BY <1>1 DEF Writes
  <2>2. new.status # "canceled"
    <3>1. \/ work'[h] = NoSub /\ new = row
          \/ work'[h] = new /\ work'[h] = NoSub
          \/ work'[h] = new /\ work'[h].status \in RowStatus
      BY <2>1 DEF Accepts
    <3> QED
      BY <1>2, <3>1 DEF RowStatus, NoSub, None
  <2>3. sent[n].kind = "checkout" =>
           \/ work[h].status = "canceled"
           \/ \E m \in n..Len(sent) : Span(sent, n, m) /\ work[h] = Reported(sent[m])
    BY <1>1 DEF Follows, Retrieved
  <2>4. Reports(sent)
    BY <1>1 DEF Follows
  <2> HIDE DEF n
  <2>5. new = Applied(row, sent[n], work[h])
    OBVIOUS
  <2> HIDE DEF new
  <2>6. Fits(sent, new, n)
    BY <1>2, <1>3, <2>2, <2>3, <2>4, <2>5, NextFits
  <2>7. work'[h] = new => work'[h] # NoSub
    <3>1. new = NoSub => FALSE
      <4> SUFFICES ASSUME new = NoSub PROVE FALSE
        OBVIOUS
      <4>1. new.status = None
        BY DEF NoSub
      <4>2. \A i \in 1..Len(sent) : sent[i].status \in LiveStatus \/ sent[i].kind = "deleted"
        BY <2>4 DEF Reports
      <4>3. new = NoRow \/ \E m \in n..Len(sent) :
                /\ new.status \in {sent[m].status, sent[n].status}
                /\ sent[m].status \in LiveStatus /\ sent[n].status \in LiveStatus
        BY <1>2, <2>6 DEF Fits, Span
      <4> QED
        BY <4>1, <4>3 DEF NoRow, LiveStatus, None
    <3> QED
      BY <3>1
  <2> QED
    BY <2>1, <2>6, <2>7
<1>5. Reports(sent)' /\ Current' /\ Checkouts' /\ RowFollows'
    BY <1>1 DEF Follows, Current, Live, Checkouts, RowFollows
<1>6. Retrieved'
    BY <1>1 DEF Follows, Retrieved
<1>7. Finishing'
    BY <1>1, <1>4 DEF Follows, Finishing, RowOf
<1> QED
    BY <1>5, <1>6, <1>7 DEF Follows

\* The commit records the next event with its row.
LEMMA FinishMirrorInv ==
    ASSUME IInv, MirrorInv, NEW h \in Handlers, Finish(h)
    PROVE  MirrorInv'
<1>1. CASE ~Accepts(work[h])
    BY <1>1, DropMirrorInv DEF Finish
<1>2. CASE Accepts(work[h])
  <2> SUFFICES ASSUME orderly' PROVE Follows'
    BY DEF MirrorInv
  <2> DEFINE n == event[h]
  <2>1. /\ Follows /\ UNCHANGED <<sub, sent>>
        /\ at[h] = "finish" /\ at'[h] = "idle"
        /\ \A g \in Handlers \ {h} : at'[g] = at[g] /\ event'[g] = event[g] /\ work'[g] = work[g]
        /\ row' = RowOf(h) /\ recorded' = recorded \cup {n}
    BY <1>2 DEF MirrorInv, Finish, Drop, Step, providerVars, IInv, TypeOK, RowOf
  <2>2. /\ sent \in Seq(Event) /\ Len(sent) \in Nat /\ n \in 1..Len(sent) /\ n \notin recorded
        /\ \A g \in Handlers \ {h} : at[g] = "finish" => event[g] \in 1..Len(sent) /\ event[g] # n
                                                          /\ event[g] \notin recorded
    <3>1. DOMAIN sent = 1..Len(sent) /\ sent \in Seq(Event) /\ Len(sent) \in Nat
      BY DEF IInv, TypeOK
    <3> QED
      BY <2>1, <3>1 DEF IInv, WorkKnown, InsertsUnique, Inserted
  <2>3. 1..(n - 1) \subseteq recorded /\ Fits(sent, row', n)
    BY <1>2, <2>1 DEF Follows, Finishing
  <2>4. PICK k \in 0..Len(sent) : recorded = 1..k
    BY <2>1 DEF Follows, RowFollows
  <2>5. recorded = 1..(n - 1) /\ recorded' = 1..n
    <3>1. n - 1 = 0 \/ n - 1 \in 1..k
      BY <2>2, <2>3, <2>4
    <3>2. k = n - 1
      BY <2>2, <2>4, <3>1
    <3> QED
      BY <2>1, <2>2, <2>4, <3>2
  <2>6. RowFollows'
    BY <2>1, <2>2, <2>3, <2>5 DEF RowFollows
  <2>7. Reports(sent)' /\ Current' /\ Checkouts'
    BY <2>1 DEF Follows, Current, Live, Checkouts
  <2>8. Retrieved'
    BY <2>1 DEF Follows, Retrieved
  <2>9. \A g \in Handlers : at'[g] # "finish"
    <3> SUFFICES ASSUME NEW g \in Handlers \ {h}, at[g] = "finish" PROVE FALSE
      BY <2>1
    <3>1. 1..(event[g] - 1) \subseteq 1..(n - 1)
      BY <2>1, <2>5 DEF Follows, Finishing
    <3>2. event[g] \in 1..Len(sent) /\ event[g] # n /\ event[g] \notin 1..(n - 1)
      BY <2>2, <2>5
    <3>3. n \in 1..(event[g] - 1)
      BY <2>2, <3>2
    <3> QED
      BY <2>2, <3>1, <3>3
  <2>10. Finishing'
    BY <2>9 DEF Finishing
  <2> QED
    BY <2>6, <2>7, <2>8, <2>10 DEF Follows
<1> QED
    BY <1>1, <1>2

LEMMA StepMirrorInv == IInv /\ MirrorInv /\ [Next]_vars => MirrorInv'
<1> SUFFICES ASSUME IInv, MirrorInv, [Next]_vars PROVE MirrorInv'
    OBVIOUS
<1>1. ASSUME NEW u \in Upgrades, UpgradeEnsure(u) \/ UpgradeOffer(u) \/ UpgradeFails(u)
      PROVE  MirrorInv'
  <2>1. UNCHANGED <<providerVars, row, recorded, at, event, work, orderly>>
    BY <1>1 DEF UpgradeEnsure, UpgradeOffer, UpgradeFails, handlerVars
  <2> QED
    BY <2>1, IdleMirrorInv
<1>2. ASSUME NEW u \in Upgrades, ProviderActs(u) PROVE MirrorInv'
    BY <1>2, ProviderMirrorInv
<1>3. ASSUME NEW n \in EventNo, Deliver(n) PROVE MirrorInv'
    BY <1>3, ReceiveMirrorInv DEF Deliver
<1>4. ASSUME NEW h \in Handlers, Handle(h) PROVE MirrorInv'
    BY <1>4, InsertMirrorInv, ReadMirrorInv, FinishMirrorInv DEF Handle
<1>5. ASSUME NEW h \in Handlers, Fails(h) PROVE MirrorInv'
    BY <1>5, DropMirrorInv DEF Fails
<1>6. CASE UNCHANGED vars
    BY <1>6, IdleMirrorInv DEF vars, handlerVars
<1> QED
    BY <1>1, <1>2, <1>3, <1>4, <1>5, <1>6 DEF Next

\* Once all that was reported is recorded, the row grants what the last event says.
LEMMA FollowsMirrors ==
    ASSUME IInv, Follows
    PROVE  Mirrors
<1> SUFFICES ASSUME Settled PROVE Granted \in (IF Paid = {} THEN {"free"} ELSE Paid)
    BY DEF Mirrors
<1> DEFINE l == Len(sent)
<1>1. /\ sent \in Seq(Event) /\ l \in Nat /\ DOMAIN sent = 1..l
      /\ \A i \in 1..l : sent[i] \in Event
    BY DEF IInv, TypeOK
<1>2. PICK k \in 0..l : recorded = 1..k /\ Fits(sent, row, k)
    BY DEF Follows, RowFollows
<1> HIDE DEF l
<1>3. k = l
  <2>1. l = 0 \/ l \in 1..k
    BY <1>1, <1>2 DEF Settled
  <2> QED
    BY <1>1, <1>2, <2>1
<1>4. /\ \A v \in Upgrades : Live(v) =>
            l > 0 /\ sent[l].sub = v /\ sent[l].kind # "deleted" /\ sub[v] = Reported(sent[l])
      /\ \A v \in Upgrades : l > 0 /\ sent[l].sub = v /\ sent[l].kind # "deleted" => Live(v)
    BY DEF Follows, Current, l
<1>5. \A v \in Upgrades : sub[v].status = "active" => Live(v)
    BY DEF Live
<1>6. CASE l = 0 \/ sent[l].kind = "deleted"
  <2>1. row = NoRow
    BY <1>2, <1>3, <1>6 DEF Fits
  <2>2. Paid = {}
    BY <1>4, <1>5, <1>6 DEF Paid
  <2> QED
    BY <2>1, <2>2 DEF Granted, NoRow
<1>7. CASE l # 0 /\ sent[l].kind # "deleted"
  <2>1. PICK m \in l..l :
            /\ Span(sent, l, m) /\ row.tier = sent[m].tier
            /\ row.status = IF sent[l].kind = "checkout" THEN sent[m].status ELSE sent[l].status
    BY <1>2, <1>3, <1>7 DEF Fits, l
  <2>2. row.tier = sent[l].tier /\ row.status = sent[l].status /\ sent[l].status \in LiveStatus
    BY <1>1, <2>1 DEF Span
  <2>3. sent[l].sub \in Upgrades /\ l > 0
    BY <1>1, <1>7 DEF Event
  <2>4. sub[sent[l].sub] = Reported(sent[l])
    BY <1>4, <1>7, <2>3
  <2>5. CASE sent[l].status = "active"
    <3>1. Paid = {sent[l].tier}
      BY <1>4, <1>5, <2>3, <2>4, <2>5 DEF Paid, Reported
    <3> QED
      BY <2>2, <2>5, <3>1 DEF Granted
  <2>6. CASE sent[l].status = "past_due"
    <3>1. Paid = {}
      BY <1>4, <1>5, <2>3, <2>4, <2>6 DEF Paid, Reported
    <3> QED
      BY <2>2, <2>6, <3>1 DEF Granted
  <2> QED
    BY <2>2, <2>5, <2>6 DEF LiveStatus
<1> QED
    BY <1>6, <1>7

-----------------------------------------------------------------------------
\* The invariant: types, handlers at work on reported events, the unique insert,
\* and each event applied exactly when it is recorded.
THEOREM Invariance == Spec => []IInv
<1>1. IInv /\ [Next]_vars => IInv'
  <2> SUFFICES ASSUME IInv, [Next]_vars PROVE IInv'
    OBVIOUS
  <2>1. ASSUME NEW u \in Upgrades, UpgradeEnsure(u) \/ UpgradeOffer(u) \/ UpgradeFails(u)
        PROVE  IInv'
    BY <2>1, UpgradeInvariant
  <2>2. ASSUME NEW u \in Upgrades, ProviderActs(u) PROVE IInv'
    BY <2>2, ProviderInvariant
  <2>3. ASSUME NEW n \in EventNo, Deliver(n) PROVE IInv'
    BY <2>3, ReceiveInvariant DEF Deliver
  <2>4. ASSUME NEW h \in Handlers, Handle(h) PROVE IInv'
    BY <2>4, InsertInvariant, ReadInvariant, FinishInvariant DEF Handle
  <2>5. ASSUME NEW h \in Handlers, Fails(h) PROVE IInv'
    BY <2>5, FailsInvariant
  <2>6. CASE UNCHANGED vars
    <3>1. TypeOK'
      BY <2>6 DEF IInv, TypeOK, vars, checkoutVars, providerVars, handlerVars
    <3> QED
      BY <2>6, <3>1, ElsewhereInvariant DEF IInv, vars, providerVars
  <2> QED
    BY <2>1, <2>2, <2>3, <2>4, <2>5, <2>6 DEF Next
<1> QED
    BY InitInvariant, <1>1, PTL DEF Spec

\* Every variable keeps its type; in particular the row never takes a status the
\* CHECK forbids (upsert_subscription).
THEOREM TypeCorrectness == Spec => []TypeOK
BY Invariance, PTL DEF IInv

\* An event's transaction commits once, whatever the provider delivers and
\* however many handlers run (record_billing_event).
THEOREM OneApplication == Spec => []AppliedOnce
BY Invariance, PTL DEF IInv

\* What is recorded stays recorded with its effect: no later delivery of the
\* event, failure or handler takes it back or repeats it.
THEOREM RecordedForGood ==
    Spec => [][\A n \in recorded : n \in recorded' /\ applied'[n] = applied[n]]_vars
<1>1. IInv /\ IInv' /\ [Next]_vars =>
        [\A n \in recorded : n \in recorded' /\ applied'[n] = applied[n]]_vars
  <2> SUFFICES ASSUME IInv, IInv', [Next]_vars, NEW n \in recorded
               PROVE  n \in recorded' /\ applied'[n] = applied[n]
    OBVIOUS
  <2>1. recorded \subseteq recorded'
    <3>1. ASSUME NEW u \in Upgrades, UpgradeEnsure(u) \/ UpgradeOffer(u) \/ UpgradeFails(u)
          PROVE  recorded' = recorded
      BY <3>1 DEF UpgradeEnsure, UpgradeOffer, UpgradeFails
    <3>2. ASSUME NEW u \in Upgrades, ProviderActs(u) PROVE recorded' = recorded
      BY <3>2 DEF ProviderActs, Subscribe, Updates, PaymentFails, Pays, Cancel, Becomes
    <3>3. ASSUME NEW m \in EventNo, Deliver(m) PROVE recorded' = recorded
      BY <3>3 DEF Deliver, Receive
    <3>4. ASSUME NEW h \in Handlers, Handle(h) \/ Fails(h) PROVE recorded \subseteq recorded'
      BY <3>4 DEF Handle, Fails, Insert, Read, Finish
    <3>5. CASE UNCHANGED vars
      BY <3>5 DEF vars
    <3> QED
      BY <3>1, <3>2, <3>3, <3>4, <3>5 DEF Next
  <2>2. applied[n] = 1 /\ applied'[n] = 1
    BY <2>1 DEF IInv, TypeOK, AppliedOnce
  <2> QED
    BY <2>1, <2>2
<1> QED
    BY <1>1, Invariance, PTL DEF Spec

\* For any number of upgrades, events, handlers and faults: while no event overtakes
\* another and one subscription is live at a time, a tenant whose events are all
\* recorded is granted what it pays for, though a checkout's row is read from the
\* provider when the event is handled and may be ahead of the events that follow
\* (apply_subscription_event and the row behind one unique event index).
THEOREM OrderlyRowMirrors == Spec => []OrderlyMirrors
<1>1. IInv /\ MirrorInv => OrderlyMirrors
    BY FollowsMirrors DEF MirrorInv, OrderlyMirrors
<1> QED
    BY <1>1, InitMirrorInv, StepMirrorInv, Invariance, PTL DEF Spec
=============================================================================
