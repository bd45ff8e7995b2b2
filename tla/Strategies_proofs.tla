-------------------------- MODULE Strategies_proofs --------------------------
(***************************************************************************)
(* What holds of a strategy for every number of requests in progress,      *)
(* every set of tokens and every length of the paper period; and of the    *)
(* orders for its legs, for every number of legs, retries and faults, with *)
(* either broker.                                                          *)
(***************************************************************************)
EXTENDS Strategies, StrategyOrders, FiniteSetTheorems, TLAPS

\* A promotion that passed its gates with a paper record of MinPaperDays.
Earned == \E i \in DOMAIN promotions : promotions[i].days >= MinPaperDays

\* A transition in progress to a live state was read from one: the promotion is
\* already in the history, which only grows.
MovesEarned ==
    \A h \in Handlers :
        handler[h].op = "move" /\ handler[h].target \in {"live", "paused"} => Earned

\* A request whose step-up token was taken and that has not been judged yet.
Verified(h) == handler[h].op = "promote" /\ handler[h].step_up

\* Such a request holds a token nobody else can present again.
VerifiedHolds ==
    \A h \in Handlers : Verified(h) =>
        /\ handler[h].token \in Tokens
        /\ token[handler[h].token] = "gone"
        /\ \A i \in DOMAIN promotions : promotions[i].token # handler[h].token

VerifiedApart ==
    \A g, h \in Handlers :
        Verified(g) /\ Verified(h) /\ handler[g].token = handler[h].token => g = h

PromotionsSpend ==
    \A i \in DOMAIN promotions :
        promotions[i].token \in Tokens /\ token[promotions[i].token] = "gone"

IInv ==
    /\ TypeOK
    /\ LiveWasEarned
    /\ MovesEarned
    /\ TokensOnce
    /\ PromotionsSpend
    /\ VerifiedHolds
    /\ VerifiedApart

-----------------------------------------------------------------------------
(* Lemmas                                                                  *)

\* A step that commits no promotion and takes no token leaves the history and the
\* requests that hold a token as they were.
LEMMA TokensUntouched ==
    ASSUME IInv, UNCHANGED promotions,
           \A t \in Tokens : token[t] = "gone" => token'[t] = "gone",
           \A h \in Handlers : Verified(h)' => Verified(h) /\ handler'[h].token = handler[h].token
    PROVE  TokensOnce' /\ PromotionsSpend' /\ VerifiedHolds' /\ VerifiedApart'
<1>1. TokensOnce'
    BY DEF IInv, TokensOnce
<1>2. PromotionsSpend'
    BY DEF IInv, PromotionsSpend
<1>3. VerifiedHolds'
    BY DEF IInv, VerifiedHolds, Verified
<1>4. VerifiedApart'
    BY DEF IInv, VerifiedApart, Verified
<1> QED
    BY <1>1, <1>2, <1>3, <1>4

\* Nor does a step that reaches no live state, and starts no move to one, need a
\* promotion.
LEMMA EarnedUntouched ==
    ASSUME IInv, UNCHANGED promotions,
           state' \in {"live", "paused"} => Earned,
           \A h \in Handlers :
              handler'[h].op = "move" /\ handler'[h].target \in {"live", "paused"} => Earned
    PROVE  LiveWasEarned' /\ MovesEarned'
<1>1. Earned => Earned'
    BY DEF Earned
<1> QED
    BY <1>1 DEF IInv, LiveWasEarned, MovesEarned, Earned

\* A request just begun, or ended, holds no token.
LEMMA Replaced ==
    ASSUME TypeOK, NEW h \in Handlers, NEW r \in Requests, ~(r.op = "promote" /\ r.step_up),
           handler' = [handler EXCEPT ![h] = r]
    PROVE  \A g \in Handlers : Verified(g)' => Verified(g) /\ handler'[g].token = handler[g].token
BY DEF TypeOK, Verified

LEMMA IdleIsRequest == Idle \in Requests
BY DEF Idle, Requests

-----------------------------------------------------------------------------
(* The invariant                                                           *)

LEMMA InitIInv == Init => IInv
<1> SUFFICES ASSUME Init PROVE IInv
    OBVIOUS
<1>1. TypeOK
    BY IdleIsRequest, StrategyAssumption DEF Init, TypeOK, StrategyState
<1>2. \A h \in Handlers : handler[h].op = "none"
    BY DEF Init, Idle
<1> QED
    BY <1>1, <1>2 DEF Init, IInv, LiveWasEarned, MovesEarned, TokensOnce, PromotionsSpend,
        VerifiedHolds, VerifiedApart, Verified

\* A request that begins and takes no token.
LEMMA BeginIInv ==
    ASSUME IInv, NEW h \in Handlers, NEW r \in Requests, Begin(h, r), UNCHANGED token,
           r.op # "promote",
           r.op = "move" /\ r.target \in {"live", "paused"} => Earned
    PROVE  IInv'
<1>1. TypeOK'
    BY DEF IInv, TypeOK, Begin
<1>2. TokensOnce' /\ PromotionsSpend' /\ VerifiedHolds' /\ VerifiedApart'
    BY Replaced, TokensUntouched DEF IInv, Begin
<1>3. LiveWasEarned' /\ MovesEarned'
  <2>1. state' \in {"live", "paused"} => Earned
    BY DEF IInv, LiveWasEarned, Earned, Begin
  <2>2. \A g \in Handlers :
           handler'[g].op = "move" /\ handler'[g].target \in {"live", "paused"} => Earned
    BY DEF IInv, MovesEarned, Begin, TypeOK
  <2> QED
    BY <2>1, <2>2, EarnedUntouched DEF Begin
<1> QED
    BY <1>1, <1>2, <1>3 DEF IInv

\* A request that ends without a promotion.
LEMMA EndIInv ==
    ASSUME IInv, NEW h \in Handlers, handler' = [handler EXCEPT ![h] = Idle],
           UNCHANGED <<token, promotions>>, TypeOK',
           state' \in {"live", "paused"} => Earned
    PROVE  IInv'
<1>1. TokensOnce' /\ PromotionsSpend' /\ VerifiedHolds' /\ VerifiedApart'
    BY Replaced, IdleIsRequest, TokensUntouched DEF IInv, Idle
<1>2. \A g \in Handlers :
         handler'[g].op = "move" /\ handler'[g].target \in {"live", "paused"} => Earned
    BY DEF IInv, MovesEarned, TypeOK, Idle
<1>3. LiveWasEarned' /\ MovesEarned'
    BY <1>2, EarnedUntouched
<1> QED
    BY <1>1, <1>3 DEF IInv

\* A step that is nobody's request.
LEMMA OutsideIInv ==
    ASSUME IInv, TypeOK', UNCHANGED <<state, handler, promotions>>,
           \A t \in Tokens : token[t] = "gone" => token'[t] = "gone"
    PROVE  IInv'
<1>1. TokensOnce' /\ PromotionsSpend' /\ VerifiedHolds' /\ VerifiedApart'
    BY TokensUntouched DEF Verified
<1>2. LiveWasEarned' /\ MovesEarned'
    BY DEF IInv, LiveWasEarned, MovesEarned, Earned
<1> QED
    BY <1>1, <1>2 DEF IInv

\* Taking the token is what makes it this request's: it was valid, so no promotion
\* and no other request has it.
LEMMA VerifyIInv ==
    ASSUME IInv, NEW h \in Handlers, VerifyStepUp(h)
    PROVE  IInv'
<1> DEFINE t == handler[h].token
<1>1. /\ handler[h] \in Requests
      /\ handler[h].op = "verify"
      /\ t \in Tokens \cup {NoToken}
    BY DEF IInv, TypeOK, VerifyStepUp, Requests
<1>2. /\ handler' = [handler EXCEPT ![h] = handler'[h]]
      /\ handler'[h] \in Requests
      /\ handler'[h].op = "promote"
      /\ handler'[h].token = t
      /\ handler'[h].step_up = Valid(t)
    BY <1>1 DEF IInv, TypeOK, VerifyStepUp, Requests, Valid
<1>3. TypeOK'
    BY <1>2 DEF IInv, TypeOK, VerifyStepUp
<1>4. LiveWasEarned' /\ MovesEarned'
  <2>1. state' \in {"live", "paused"} => Earned
    BY DEF IInv, LiveWasEarned, Earned, VerifyStepUp
  <2>2. \A g \in Handlers :
           handler'[g].op = "move" /\ handler'[g].target \in {"live", "paused"} => Earned
    BY <1>2 DEF IInv, MovesEarned, TypeOK
  <2> QED
    BY <2>1, <2>2, EarnedUntouched DEF VerifyStepUp
<1>5. CASE ~Valid(t)
  <2>1. \A g \in Handlers :
           Verified(g)' => Verified(g) /\ handler'[g].token = handler[g].token
    BY <1>2, <1>5 DEF Verified, IInv, TypeOK
  <2>2. TokensOnce' /\ PromotionsSpend' /\ VerifiedHolds' /\ VerifiedApart'
    BY <1>5, <2>1, TokensUntouched DEF VerifyStepUp
  <2> QED
    BY <1>3, <1>4, <2>2 DEF IInv
<1>6. CASE Valid(t)
  <2>1. /\ t \in Tokens
        /\ token[t] = "valid"
        /\ token' = [token EXCEPT ![t] = "gone"]
        /\ promotions' = promotions
    BY <1>6 DEF VerifyStepUp, Valid
  <2>2. token'[t] = "gone" /\ \A u \in Tokens : token[u] = "gone" => token'[u] = "gone"
    BY <2>1 DEF IInv, TypeOK
  <2>3. /\ \A i \in DOMAIN promotions : promotions[i].token # t
        /\ \A g \in Handlers : Verified(g) => handler[g].token # t
    BY <2>1 DEF IInv, PromotionsSpend, VerifiedHolds
  <2>4. \A g \in Handlers \ {h} : handler'[g] = handler[g]
    BY <1>2 DEF IInv, TypeOK
  <2>5. TokensOnce' /\ PromotionsSpend'
    BY <2>1, <2>2 DEF IInv, TokensOnce, PromotionsSpend
  <2>6. VerifiedHolds'
    BY <1>2, <2>1, <2>2, <2>3, <2>4 DEF IInv, VerifiedHolds, Verified
  <2>7. VerifiedApart'
    BY <1>2, <2>3, <2>4 DEF IInv, VerifiedApart, Verified
  <2> QED
    BY <1>3, <1>4, <2>5, <2>6, <2>7 DEF IInv
<1> QED
    BY <1>5, <1>6

LEMMA PromoteIInv ==
    ASSUME IInv, NEW h \in Handlers, Promote(h)
    PROVE  IInv'
<1>1. /\ handler[h] \in Requests
      /\ handler[h].op = "promote"
      /\ handler[h].token \in Tokens \cup {NoToken}
    BY DEF IInv, TypeOK, Promote, Requests
<1>2. CASE ~evaluate_promotion(handler[h])
  <2>1. UNCHANGED <<state, token, promotions>>
    BY <1>2 DEF Promote
  <2>2. TypeOK'
    BY <2>1, IdleIsRequest DEF IInv, TypeOK, Promote
  <2>3. state' \in {"live", "paused"} => Earned
    BY <2>1 DEF IInv, LiveWasEarned, Earned
  <2> QED
    BY <2>1, <2>2, <2>3, EndIInv DEF Promote
<1>3. CASE evaluate_promotion(handler[h])
  <2> DEFINE p == [token |-> handler[h].token, days |-> day - first_paper]
             n == Len(promotions)
  <2>1. /\ state' = "live"
        /\ promotions' = Append(promotions, p)
        /\ token' = token
        /\ handler' = [handler EXCEPT ![h] = Idle]
    BY <1>3 DEF Promote
  <2>2. Verified(h) /\ p.days >= MinPaperDays /\ p.days \in Int
    BY <1>1, <1>3, StrategyAssumption DEF evaluate_promotion, Verified, IInv, TypeOK, Never
  <2>3. p \in [token : Tokens \cup {NoToken}, days : Int]
    BY <1>1, <2>2
  <2>4. /\ n \in Nat
        /\ DOMAIN promotions = 1 .. n
        /\ DOMAIN promotions' = 1 .. (n + 1)
        /\ promotions'[n + 1] = p
        /\ \A i \in 1 .. n : promotions'[i] = promotions[i]
    BY <2>1, <2>3 DEF IInv, TypeOK
  <2>5. TypeOK'
    BY <2>1, <2>3, IdleIsRequest DEF IInv, TypeOK, Promote, StrategyState
  <2>6. Earned'
    BY <2>2, <2>4 DEF Earned
  <2>7. /\ p.token \in Tokens
        /\ token[p.token] = "gone"
        /\ \A i \in 1 .. n : promotions[i].token # p.token
    BY <2>2, <2>4 DEF IInv, VerifiedHolds
  <2>8. TokensOnce'
    <3>1. \A i \in DOMAIN promotions' : promotions'[i].token \in Tokens
      BY <2>4, <2>7 DEF IInv, TokensOnce
    <3>2. ASSUME NEW i \in DOMAIN promotions', NEW j \in DOMAIN promotions',
                 promotions'[i].token = promotions'[j].token
          PROVE  i = j
      <4>1. CASE i \in 1 .. n /\ j \in 1 .. n
        BY <2>4, <3>2, <4>1 DEF IInv, TokensOnce
      <4>2. CASE i = n + 1 /\ j \in 1 .. n
        BY <2>4, <2>7, <3>2, <4>2
      <4>3. CASE i \in 1 .. n /\ j = n + 1
        BY <2>4, <2>7, <3>2, <4>3
      <4>4. CASE i = n + 1 /\ j = n + 1
        BY <4>4
      <4> QED
        BY <2>4, <4>1, <4>2, <4>3, <4>4
    <3> QED
      BY <3>1, <3>2 DEF TokensOnce
  <2>9. PromotionsSpend'
    BY <2>1, <2>4, <2>7 DEF IInv, PromotionsSpend
  <2>10. \A g \in Handlers :
            Verified(g)' => g # h /\ Verified(g) /\ handler'[g] = handler[g]
    BY <2>1 DEF IInv, TypeOK, Verified, Idle
  <2>11. VerifiedHolds'
    <3>1. ASSUME NEW g \in Handlers, Verified(g)'
          PROVE  \A i \in 1 .. n + 1 : promotions'[i].token # handler'[g].token
      <4>1. handler[g].token # p.token
        BY <2>2, <2>10, <3>1 DEF IInv, VerifiedApart
      <4> QED
        BY <2>4, <2>10, <3>1, <4>1 DEF IInv, VerifiedHolds
    <3> QED
      BY <2>1, <2>4, <2>10, <3>1 DEF IInv, VerifiedHolds
  <2>12. VerifiedApart'
    BY <2>10 DEF IInv, VerifiedApart
  <2> QED
    BY <2>5, <2>6, <2>8, <2>9, <2>11, <2>12 DEF IInv, LiveWasEarned, MovesEarned, Earned
<1> QED
    BY <1>2, <1>3

LEMMA StepIInv == IInv /\ [Next]_vars => IInv'
<1> SUFFICES ASSUME IInv, [Next]_vars PROVE IInv'
    OBVIOUS
<1>1. ASSUME NEW h \in Handlers, StartPatch(h) PROVE IInv'
    BY <1>1, BeginIInv DEF StartPatch, Requests
<1>2. ASSUME NEW h \in Handlers, NEW target \in StrategyState, StartTransition(h, target)
      PROVE  IInv'
  <2>1. [op |-> "move", target |-> target] \in Requests
    BY DEF Requests
  <2>2. target \in {"live", "paused"} => Earned
    <3>1. state \in StrategyState
      BY DEF IInv, TypeOK
    <3>2. target \in {"live", "paused"} => state \in {"live", "paused"}
      BY <1>2, <3>1 DEF StartTransition, VALID_TRANSITIONS, StrategyState
    <3> QED
      BY <3>2 DEF IInv, LiveWasEarned, Earned
  <2> QED
    BY <1>2, <2>1, <2>2, BeginIInv DEF StartTransition
<1>3. ASSUME NEW h \in Handlers, StartArchive(h) PROVE IInv'
  <2>1. [op |-> "move", target |-> "archived"] \in Requests
    BY DEF Requests, StrategyState
  <2> QED
    BY <1>3, <2>1, BeginIInv DEF StartArchive
<1>4. ASSUME NEW h \in Handlers, NEW t \in Tokens, PromoteChallenge(h, t) PROVE IInv'
  <2>1. TypeOK'
    BY <1>4 DEF IInv, TypeOK, PromoteChallenge
  <2>2. \A u \in Tokens : token[u] = "gone" => token'[u] = "gone"
    BY <1>4 DEF IInv, TypeOK, PromoteChallenge
  <2> QED
    BY <1>4, <2>1, <2>2, OutsideIInv DEF PromoteChallenge
<1>5. ASSUME NEW h \in Handlers, NEW t \in Tokens \cup {NoToken}, StartPromote(h, t)
      PROVE  IInv'
  <2> DEFINE r == [op |-> "verify", seen |-> state, brokers |-> brokers, token |-> t,
                   step_up |-> FALSE]
  <2>1. r \in Requests
    BY DEF Requests, IInv, TypeOK
  <2>2. r.op = "verify"
    OBVIOUS
  <2>3. Begin(h, r) /\ UNCHANGED token
    BY <1>5 DEF StartPromote
  <2> HIDE DEF r
  <2> QED
    BY <2>1, <2>2, <2>3, BeginIInv
<1>6. ASSUME NEW h \in Handlers, NEW account \in {"paper", "live"}, StartOrder(h, account)
      PROVE  IInv'
  <2>1. [op |-> "order", account |-> account, created |-> day] \in Requests
    BY DEF Requests, IInv, TypeOK
  <2> QED
    BY <1>6, <2>1, BeginIInv DEF StartOrder
<1>7. ASSUME NEW h \in Handlers, Patch(h) PROVE IInv'
  <2>1. TypeOK'
    BY <1>7, IdleIsRequest DEF IInv, TypeOK, Patch
  <2>2. state' \in {"live", "paused"} => Earned
    BY <1>7 DEF IInv, LiveWasEarned, Earned, Patch
  <2> QED
    BY <1>7, <2>1, <2>2, EndIInv DEF Patch
<1>8. ASSUME NEW h \in Handlers, Move(h) PROVE IInv'
  <2>1. handler[h].target \in StrategyState
    BY <1>8 DEF Move, IInv, TypeOK, Requests
  <2>2. TypeOK'
    BY <1>8, <2>1, IdleIsRequest DEF IInv, TypeOK, Move
  <2>3. state' \in {"live", "paused"} => Earned
    BY <1>8 DEF IInv, MovesEarned, Move
  <2> QED
    BY <1>8, <2>2, <2>3, EndIInv DEF Move
<1>9. ASSUME NEW h \in Handlers, VerifyStepUp(h) PROVE IInv'
    BY <1>9, VerifyIInv
<1>10. ASSUME NEW h \in Handlers, Promote(h) PROVE IInv'
    BY <1>10, PromoteIInv
<1>11. ASSUME NEW h \in Handlers, Order(h) PROVE IInv'
  <2>1. handler[h].created \in Nat
    BY <1>11 DEF Order, IInv, TypeOK, Requests
  <2>2. TypeOK'
    BY <1>11, <2>1, IdleIsRequest DEF IInv, TypeOK, Order
  <2>3. state' \in {"live", "paused"} => Earned
    BY <1>11 DEF IInv, LiveWasEarned, Earned, Order
  <2> QED
    BY <1>11, <2>2, <2>3, EndIInv DEF Order
<1>12. ASSUME NEW h \in Handlers, Abort(h) PROVE IInv'
  <2>1. TypeOK'
    BY <1>12, IdleIsRequest DEF IInv, TypeOK, Abort
  <2>2. state' \in {"live", "paused"} => Earned
    BY <1>12 DEF IInv, LiveWasEarned, Earned, Abort
  <2> QED
    BY <1>12, <2>1, <2>2, EndIInv DEF Abort
<1>13. CASE Tick
  <2>1. TypeOK'
    BY <1>13 DEF IInv, TypeOK, Tick
  <2> QED
    BY <1>13, <2>1, OutsideIInv DEF Tick
<1>14. ASSUME NEW t \in Tokens, TokenExpires(t) PROVE IInv'
  <2>1. TypeOK'
    BY <1>14 DEF IInv, TypeOK, TokenExpires
  <2>2. \A u \in Tokens : token[u] = "gone" => token'[u] = "gone"
    BY <1>14 DEF IInv, TypeOK, TokenExpires
  <2> QED
    BY <1>14, <2>1, <2>2, OutsideIInv DEF TokenExpires
<1>15. CASE TierChanges
  <2>1. TypeOK'
    BY <1>15 DEF IInv, TypeOK, TierChanges
  <2> QED
    BY <1>15, <2>1, OutsideIInv DEF TierChanges
<1>16. CASE UNCHANGED vars
  <2>1. TypeOK'
    BY <1>16 DEF vars, IInv, TypeOK
  <2> QED
    BY <1>16, <2>1, OutsideIInv DEF vars
<1> QED
    BY <1>1, <1>2, <1>3, <1>4, <1>5, <1>6, <1>7, <1>8, <1>9, <1>10, <1>11, <1>12, <1>13,
       <1>14, <1>15, <1>16 DEF Next, Request

-----------------------------------------------------------------------------
(* Theorems                                                                *)

\* The invariant holds of every reachable state of the strategy endpoints.
THEOREM Invariance == Spec => []IInv
    BY InitIInv, StepIInv, PTL DEF Spec

\* A strategy is live, or paused from it, only after a promotion that passed the
\* gates of promotion.py, however the requests that read the row earlier race.
THEOREM LiveIsEarned == Spec => []LiveWasEarned
<1>1. IInv => LiveWasEarned
    BY DEF IInv
<1> QED
    BY <1>1, Invariance, PTL

\* GETDEL lets a step-up token promote once, for any number of requests that present
\* it.
THEOREM TokensPromoteOnce == Spec => []TokensOnce
<1>1. IInv => TokensOnce
    BY DEF IInv
<1> QED
    BY <1>1, Invariance, PTL

-----------------------------------------------------------------------------
(* The orders for the legs                                                 *)

\* A strategy has legs, and no request, status or broker is the absent one.
LegsOK == Legs \in Nat \ {0} /\ MaxFaults \in Nat /\ None \notin Calls \cup Status \cup {"alpaca", "tradier"}

At == {"new", "lookup", "insert", "submit", "answered", "dead", "done", "failed"}

RequestRecord == [at : At, leg : 1 .. Legs + 1, rows : [Leg -> Status \cup {None}],
                  results : Seq(Status)]

Types ==
    /\ broker \in {"alpaca", "tradier", None}
    /\ row \in [Leg -> Status \cup {None}]
    /\ request \in [Calls -> RequestRecord]
    /\ DOMAIN book = Leg
    /\ faults \in Nat

Working(q) == q.at \in {"lookup", "insert", "submit", "answered"}

\* A request's rows are of the legs it has passed or is sending, and no leg of them has
\* a committed one.
Fits(q) ==
    /\ q.at = "new" => q = NotSent
    /\ Working(q) => \A l \in Leg : q.rows[l] # None =>
          row[l] = None /\ (l < q.leg \/ (l = q.leg /\ q.at = "submit"))
    /\ q.at \in {"lookup", "insert", "submit"} => q.leg \in Leg
    /\ q.at = "submit" => q.rows[q.leg] = "pending" /\ broker # None
    /\ q.at = "answered" => q.leg = Legs + 1

RequestsFit == \A r \in Calls : Fits(request[r])

\* The unique index on the key: one uncommitted row for a leg.
HeldOnce ==
    \A p, r \in Calls, l \in Leg :
        /\ Working(request[p]) /\ request[p].rows[l] # None
        /\ Working(request[r]) /\ request[r].rows[l] # None
        => p = r

\* The insert of a row that another request has committed: it will fail.
Doomed(q) == q.at = "insert" /\ row[q.leg] # None

\* Will commit an order of leg l, unless there is another fault.
Keeps(q, l) == Working(q) /\ q.rows[l] = "submitted" /\ ~Doomed(q)

\* An order of leg l has its row, or will have it when the request commits.
Recorded(l) == row[l] # None \/ \E r \in Calls : Keeps(request[r], l)

\* Passed leg l, for a failed call, without a row: another request's order of l is
\* forgotten if this one's commit makes it lose the race for a later leg.
Skips(q, l) == Working(q) /\ l < q.leg /\ q.rows[l] = None /\ row[l] = None
Skippers(l) == {r \in Calls : Skips(request[r], l)}

\* Alpaca holds one id once. Each of Tradier's orders has its row, or was lost with a
\* fault of its own: that of its call or process, or of the call another request skipped
\* the leg for.
Exposure(l) ==
    /\ IsFiniteSet(book[l])
    /\ broker = "alpaca" =>
          /\ \A o \in book[l] : o[2] = <<None, l>>
          /\ Cardinality(book[l]) <= 1
    /\ broker = None => book[l] = {}
    /\ broker = "tradier" =>
          /\ IsFiniteSet(Skippers(l))
          /\ Cardinality(book[l]) + Cardinality(Skippers(l))
                <= faults + (IF Recorded(l) THEN 1 ELSE 0)

Exposures == \A l \in Leg : Exposure(l)

LegsIInv ==
    /\ Types
    /\ RequestsFit
    /\ HeldOnce
    /\ Exposures

-----------------------------------------------------------------------------
(* Lemmas                                                                  *)

\* A step of r before its commit: the books are left to show.
LEMMA Moves ==
    ASSUME LegsIInv, NEW r \in Calls, NEW q \in RequestRecord,
           UNCHANGED <<broker, row>>, DOMAIN book' = Leg, faults' \in Nat,
           request' = [request EXCEPT ![r] = q], Fits(q),
           \A l \in Leg : Working(q) /\ q.rows[l] # None =>
              \/ Working(request[r]) /\ request[r].rows[l] # None
              \/ \A p \in Calls : Working(request[p]) => request[p].rows[l] = None
    PROVE  Types' /\ RequestsFit' /\ HeldOnce'
<1>1. /\ request'[r] = q
      /\ \A p \in Calls \ {r} : request'[p] = request[p]
    BY DEF LegsIInv, Types
<1>2. Types'
    BY DEF LegsIInv, Types
<1>3. \A p \in Calls : Fits(request'[p]) <=> Fits(request[p])'
    BY DEF Fits, Working, NotSent
<1>4. RequestsFit'
    BY <1>1, <1>3 DEF LegsIInv, RequestsFit, Fits, NotSent, Working
<1>5. HeldOnce'
    BY <1>1 DEF LegsIInv, HeldOnce
<1> QED
    BY <1>2, <1>4, <1>5

\* Who skips a leg after a step of r.
LEMMA SkippersAfter ==
    ASSUME LegsIInv, NEW r \in Calls, NEW q \in RequestRecord, NEW l \in Leg,
           row'[l] = row[l], request' = [request EXCEPT ![r] = q],
           IsFiniteSet(Skippers(l))
    PROVE  /\ IsFiniteSet(Skippers(l)') /\ Cardinality(Skippers(l)') \in Nat
           /\ Cardinality(Skippers(l)) \in Nat
           /\ Cardinality(Skippers(l)') <= Cardinality(Skippers(l)) + 1
           /\ (Skips(q, l) => Skips(request[r], l)) =>
                 Cardinality(Skippers(l)') <= Cardinality(Skippers(l))
           /\ Skips(request[r], l) /\ ~Skips(q, l) =>
                 Cardinality(Skippers(l)') = Cardinality(Skippers(l)) - 1
<1> DEFINE S == Skippers(l)
           T == Skippers(l)'
<1>1. /\ request'[r] = q
      /\ \A p \in Calls \ {r} : request'[p] = request[p]
    BY DEF LegsIInv, Types
<1>2. /\ \A p \in Calls \ {r} : p \in T <=> p \in S
      /\ r \in T <=> Skips(q, l)
      /\ r \in S <=> Skips(request[r], l)
      /\ S \subseteq Calls /\ T \subseteq Calls
    BY <1>1 DEF Skippers, Skips, Working
<1>3. IsFiniteSet(S)
    OBVIOUS
<1> HIDE DEF S, T
<1>4. T = S \/ (r \notin S /\ T = S \cup {r}) \/ (r \in S /\ r \notin T /\ T = S \ {r})
  <2>1. \A p : p # r => (p \in T <=> p \in S)
    BY <1>2
  <2>2. r \in T /\ r \in S => T = S
    BY <2>1
  <2>3. r \notin T /\ r \notin S => T = S
    BY <2>1
  <2>4. r \in T /\ r \notin S => T = S \cup {r}
    BY <2>1
  <2>5. r \notin T /\ r \in S => T = S \ {r}
    BY <2>1
  <2> QED
    BY <2>2, <2>3, <2>4, <2>5
<1>5. Cardinality(S) \in Nat
    BY <1>3, FS_CardinalityType
<1>6. CASE T = S
    BY <1>2, <1>3, <1>5, <1>6 DEF S, T
<1>7. CASE r \notin S /\ T = S \cup {r}
  <2>1. IsFiniteSet(T) /\ Cardinality(T) = Cardinality(S) + 1
    BY <1>3, <1>7, FS_AddElement
  <2> QED
    BY <1>2, <1>5, <1>7, <2>1 DEF S, T
<1>8. CASE r \in S /\ r \notin T /\ T = S \ {r}
  <2>1. IsFiniteSet(T) /\ Cardinality(T) = Cardinality(S) - 1
    BY <1>3, <1>8, FS_RemoveElement
  <2>2. Cardinality(T) \in Nat
    BY <2>1, FS_CardinalityType
  <2> QED
    BY <1>2, <1>5, <1>8, <2>1, <2>2 DEF S, T
<1> QED
    BY <1>4, <1>6, <1>7, <1>8

\* A step of r that sends nothing and takes back nothing it has sent.
LEMMA SendsNothing ==
    ASSUME LegsIInv, NEW r \in Calls, NEW q \in RequestRecord,
           UNCHANGED <<broker, row, book, faults>>,
           request' = [request EXCEPT ![r] = q], Fits(q),
           \A l \in Leg : Working(q) /\ q.rows[l] # None =>
              \/ Working(request[r]) /\ request[r].rows[l] # None
              \/ \A p \in Calls : Working(request[p]) => request[p].rows[l] = None,
           \A l \in Leg : Keeps(request[r], l) => Keeps(q, l),
           \A l \in Leg : Skips(q, l) => Skips(request[r], l)
    PROVE  LegsIInv'
<1>1. /\ request'[r] = q
      /\ \A p \in Calls \ {r} : request'[p] = request[p]
    BY DEF LegsIInv, Types
<1>2. Types' /\ RequestsFit' /\ HeldOnce'
    BY Moves DEF LegsIInv, Types
<1>3. \A l \in Leg : Recorded(l) => Recorded(l)'
    BY <1>1 DEF Recorded, Keeps, Working, Doomed
<1>4. Exposures'
  <2> SUFFICES ASSUME NEW l \in Leg PROVE Exposure(l)'
    BY DEF Exposures
  <2>1. Exposure(l) /\ Cardinality(book[l]) \in Nat /\ faults \in Nat
    BY FS_CardinalityType DEF LegsIInv, Types, Exposures, Exposure
  <2>2. ASSUME IsFiniteSet(Skippers(l))
        PROVE  /\ IsFiniteSet(Skippers(l)') /\ Cardinality(Skippers(l)') \in Nat
               /\ Cardinality(Skippers(l)) \in Nat
               /\ Cardinality(Skippers(l)') <= Cardinality(Skippers(l))
    BY <2>2, SkippersAfter
  <2> QED
    BY <1>3, <2>1, <2>2 DEF Exposure
<1> QED
    BY <1>2, <1>4 DEF LegsIInv

\* A step of r that sends at most one order, for the leg l it is at; what Tradier's
\* book gains is accounted for.
LEMMA Sends ==
    ASSUME LegsOK, LegsIInv, NEW r \in Calls, NEW q \in RequestRecord, NEW l \in Leg,
           UNCHANGED <<broker, row>>,
           request' = [request EXCEPT ![r] = q], Fits(q), Working(q),
           Working(request[r]), request[r].rows[l] = "pending", request[r].leg = l,
           q.leg = l + 1, q.at # "insert", q.rows[l] # None,
           \A k \in Leg \ {l} : q.rows[k] = request[r].rows[k],
           \/ book' = book
           \/ book' = Placed(r, l) /\ ~Taken(r, l),
           broker # None,
           faults' \in Nat, faults' >= faults,
           book' # book => q.rows[l] = "submitted" \/ faults' = faults + 1
    PROVE  LegsIInv'
<1>1. /\ request'[r] = q
      /\ \A p \in Calls \ {r} : request'[p] = request[p]
    BY DEF LegsIInv, Types
<1>2. DOMAIN book' = Leg /\ \A k \in Leg \ {l} : book'[k] = book[k]
    BY DEF LegsIInv, Types, Placed
<1>3. request[r].rows[l] # None
    BY DEF LegsOK, Status
<1>4. Types' /\ RequestsFit' /\ HeldOnce'
    BY <1>2, <1>3, Moves
<1>5. ~Recorded(l)
    BY <1>3 DEF LegsOK, Status, LegsIInv, Recorded, Keeps, HeldOnce, RequestsFit, Fits
<1>10. \A k \in Leg : Skips(q, k) => Skips(request[r], k)
  <2>1. \A k \in Leg \ {l} : k < l + 1 => k < l
    BY DEF Leg
  <2> QED
    BY <2>1 DEF Skips
<1>11. ASSUME NEW k \in Leg, IsFiniteSet(Skippers(k))
       PROVE  /\ IsFiniteSet(Skippers(k)') /\ Cardinality(Skippers(k)') \in Nat
              /\ Cardinality(Skippers(k)) \in Nat
              /\ Cardinality(Skippers(k)') <= Cardinality(Skippers(k))
    BY <1>10, <1>11, SkippersAfter
<1>6. /\ Exposure(l)
      /\ IsFiniteSet(book[l]) /\ Cardinality(book[l]) \in Nat
      /\ faults \in Nat
    BY FS_CardinalityType DEF LegsIInv, Types, Exposures, Exposure
<1>7. ASSUME NEW k \in Leg \ {l} PROVE Exposure(k)'
  <2>1. Recorded(k) => Recorded(k)'
    BY <1>1, <1>7 DEF Recorded, Keeps, Working, Doomed
  <2>2. Exposure(k) /\ Cardinality(book[k]) \in Nat
    BY FS_CardinalityType DEF LegsIInv, Exposures, Exposure
  <2> QED
    BY <1>2, <1>6, <1>11, <2>1, <2>2 DEF Exposure
<1>8. CASE book' = book
    BY <1>4, <1>5, <1>6, <1>7, <1>8, <1>11 DEF LegsIInv, Exposures, Exposure
<1>9. CASE book' # book
  <2> DEFINE o == <<r, <<None, l>>>>
  <2>1. book'[l] = book[l] \cup {o} /\ ~Taken(r, l)
    BY <1>9 DEF Placed, ClientOrderId, LegsIInv, Types
  <2>0. o[2] = <<None, l>>
    OBVIOUS
  <2> HIDE DEF o
  <2>2. /\ IsFiniteSet(book'[l])
        /\ Cardinality(book'[l]) = IF o \in book[l] THEN Cardinality(book[l])
                                                    ELSE Cardinality(book[l]) + 1
    <3>1. /\ IsFiniteSet(book[l] \cup {o})
          /\ Cardinality(book[l] \cup {o}) = IF o \in book[l] THEN Cardinality(book[l])
                                              ELSE Cardinality(book[l]) + 1
      BY <1>6, FS_AddElement
    <3> QED
      BY <2>1, <3>1
  <2>3. broker = "alpaca" => book[l] = {}
    BY <1>6, <2>1 DEF Exposure, Taken, ClientOrderId
  <2>4. broker = "alpaca" => Cardinality(book[l]) = 0
    BY <2>3, FS_EmptySet
  <2>5. broker = "alpaca" =>
            /\ \A b \in book'[l] : b[2] = <<None, l>>
            /\ Cardinality(book'[l]) <= 1
    BY <2>0, <2>1, <2>2, <2>3, <2>4
  <2>6. q.rows[l] = "submitted" => Recorded(l)'
    BY <1>1 DEF Recorded, Keeps, Working, Doomed
  <2>7. broker = "tradier" =>
            /\ IsFiniteSet(Skippers(l)')
            /\ Cardinality(book'[l]) + Cardinality(Skippers(l)')
                  <= faults' + (IF Recorded(l)' THEN 1 ELSE 0)
    BY <1>5, <1>6, <1>9, <1>11, <2>2, <2>6 DEF Exposure
  <2>8. Exposure(l)'
    BY <2>2, <2>5, <2>7 DEF Exposure
  <2> QED
    BY <1>4, <1>7, <2>8 DEF LegsIInv, Exposures
<1> QED
    BY <1>8, <1>9

\* A leg's answer takes the request to the next leg, or to the end.
LEMMA ReportedIs ==
    ASSUME LegsOK, LegsIInv, NEW r \in Calls, request[r].at \in {"lookup", "insert", "submit"},
           NEW result \in Status
    PROVE  /\ Reported(r, result) \in RequestRecord
           /\ Reported(r, result).at \in {"answered", "lookup"}
           /\ Reported(r, result).at = "answered" <=> request[r].leg = Legs
           /\ Reported(r, result).leg = request[r].leg + 1
           /\ Reported(r, result).rows = request[r].rows
<1>1. request[r] \in RequestRecord /\ request[r].leg \in Leg /\ Legs \in Nat
    BY DEF LegsIInv, Types, RequestsFit, Fits, LegsOK
<1>2. /\ request[r].leg + 1 \in 1 .. Legs + 1
      /\ Append(request[r].results, result) \in Seq(Status)
    BY <1>1 DEF RequestRecord, Leg
<1> QED
    BY <1>1, <1>2 DEF Reported, RequestRecord, At

\* And it is behind the request.
LEMMA ReportedFits ==
    ASSUME LegsOK, LegsIInv, NEW r \in Calls, request[r].at \in {"lookup", "insert", "submit"},
           NEW q \in RequestRecord, NEW l \in Leg, l = request[r].leg,
           q.at \in {"answered", "lookup"}, q.at = "answered" <=> l = Legs, q.leg = l + 1,
           \A k \in Leg \ {l} : q.rows[k] = request[r].rows[k],
           q.rows[l] # None => row[l] = None
    PROVE  Fits(q) /\ Working(q)
<1>1. Fits(request[r]) /\ Working(request[r]) /\ Legs \in Nat \ {0}
    BY DEF LegsIInv, RequestsFit, Working, LegsOK
<1>2. /\ q.at = "answered" => q.leg = Legs + 1
      /\ q.at = "lookup" => q.leg \in Leg
    BY <1>1 DEF Leg
<1>4. \A k \in Leg : k < l => k < q.leg
    BY <1>1 DEF Leg
<1>5. l < q.leg
    BY <1>1 DEF Leg
<1>7. \A k \in Leg : q.rows[k] # None => row[k] = None /\ k < q.leg
    BY <1>1, <1>4, <1>5 DEF Fits
<1> QED
  <2>1. q.at # "new" /\ q.at # "submit" /\ q.at # "insert"
    OBVIOUS
  <2>2. Working(q)
    BY DEF Working
  <2>3. \A k \in Leg : q.rows[k] # None =>
            row[k] = None /\ (k < q.leg \/ (k = q.leg /\ q.at = "submit"))
    BY <1>7
  <2>4. q.at \in {"lookup", "insert", "submit"} => q.leg \in Leg
    BY <1>2, <2>1
  <2> QED
    BY <1>2, <2>1, <2>2, <2>3, <2>4 DEF Fits

-----------------------------------------------------------------------------
(* The invariant                                                           *)

LEMMA NotSentFits ==
    ASSUME LegsOK
    PROVE  /\ NotSent \in RequestRecord
           /\ NotSent.at = "new" /\ NotSent.leg = 1 /\ NotSent.leg \in Leg
           /\ \A l \in Leg : NotSent.rows[l] = None
BY DEF LegsOK, NotSent, RequestRecord, At, Leg

LEMMA LegsInitIInv == LegsOK /\ LegsInit => LegsIInv
<1> SUFFICES ASSUME LegsOK, LegsInit PROVE LegsIInv
    OBVIOUS
<1>1. \A r \in Calls : request[r] = NotSent
    BY DEF LegsInit
<1>2. Types
    BY NotSentFits DEF LegsInit, Types
<1>3. RequestsFit /\ HeldOnce
    BY <1>1, NotSentFits DEF RequestsFit, Fits, HeldOnce, Working
<1>4. Exposures
  <2>1. \A l \in Leg : Skippers(l) = {}
    BY <1>1, NotSentFits DEF Skippers, Skips, Working
  <2> QED
    BY <2>1, FS_EmptySet DEF LegsInit, Exposures, Exposure
<1> QED
    BY <1>2, <1>3, <1>4 DEF LegsIInv

LEMMA StartIInv ==
    ASSUME LegsOK, LegsIInv, NEW r \in Calls, StartLegs(r)
    PROVE  LegsIInv'
<1> DEFINE q == [request[r] EXCEPT !.at = "lookup"]
<1>1. request[r] \in RequestRecord /\ request[r].at = "new" /\ request[r] = NotSent
    BY DEF StartLegs, LegsIInv, Types, RequestsFit, Fits
<1>2. /\ request' = [request EXCEPT ![r] = q] /\ q \in RequestRecord
      /\ q.at = "lookup" /\ q.leg = 1 /\ q.leg \in Leg /\ q.rows = NotSent.rows
    BY <1>1, NotSentFits DEF StartLegs, RequestRecord, At
<1> HIDE DEF q
<1>3. \A l \in Leg : q.rows[l] = None /\ ~(l < q.leg)
    BY <1>2, NotSentFits DEF Leg
<1>4. Fits(q)
    BY <1>2, <1>3 DEF Fits
<1>5. \A l \in Leg : ~Skips(q, l) /\ ~Keeps(request[r], l)
    BY <1>1, <1>3 DEF Skips, Keeps, Working
<1> QED
    BY <1>1, <1>2, <1>3, <1>4, <1>5, SendsNothing DEF StartLegs, Working

LEMMA ReplayIInv ==
    ASSUME LegsOK, LegsIInv, NEW r \in Calls, Replay(r)
    PROVE  LegsIInv'
<1> DEFINE l == request[r].leg
           q == Reported(r, row[l])
<1>1. /\ request[r].at = "lookup" /\ l \in Leg /\ row[l] # None /\ row[l] \in Status
      /\ UNCHANGED <<broker, row, book, faults>>
      /\ request' = [request EXCEPT ![r] = q]
    BY DEF Replay, LegsIInv, Types, RequestsFit, Fits
<1>2. /\ q \in RequestRecord /\ q.at \in {"answered", "lookup"}
      /\ q.at = "answered" <=> l = Legs
      /\ q.leg = l + 1 /\ q.rows = request[r].rows
    BY <1>1, ReportedIs
<1>3. q.rows[l] = None
    BY <1>1, <1>2 DEF LegsIInv, RequestsFit, Fits, Working
<1> HIDE DEF q
<1>4. Fits(q)
    BY <1>1, <1>2, <1>3, ReportedFits
<1>5. \A k \in Leg : Keeps(request[r], k) => Keeps(q, k)
    BY <1>1, <1>2 DEF Keeps, Working, Doomed
<1>6. \A k \in Leg : Skips(q, k) => Skips(request[r], k)
  <2>1. \A k \in Leg : k < l + 1 => k = l \/ k < l
    BY <1>1 DEF Leg
  <2> QED
    BY <1>1, <1>2, <2>1 DEF Skips, Working
<1> QED
    BY <1>1, <1>2, <1>4, <1>5, <1>6, SendsNothing DEF Working

LEMMA LookupIInv ==
    ASSUME LegsIInv, NEW r \in Calls, Lookup(r)
    PROVE  LegsIInv'
<1> DEFINE q == [request[r] EXCEPT !.at = "insert"]
<1>1. request[r] \in RequestRecord /\ request[r].at = "lookup" /\ Fits(request[r])
    BY DEF Lookup, LegsIInv, Types, RequestsFit
<1>2. /\ request' = [request EXCEPT ![r] = q] /\ q \in RequestRecord
      /\ q.at = "insert" /\ q.leg = request[r].leg /\ q.rows = request[r].rows
    BY <1>1 DEF Lookup, RequestRecord, At
<1> HIDE DEF q
<1>3. Fits(q)
    BY <1>1, <1>2 DEF Fits, Working
<1>4. \A l \in Leg :
         /\ Keeps(request[r], l) => Keeps(q, l)
         /\ Skips(q, l) => Skips(request[r], l)
    BY <1>1, <1>2 DEF Lookup, Keeps, Skips, Working, Doomed
<1> QED
    BY <1>1, <1>2, <1>3, <1>4, SendsNothing DEF Lookup, Working

\* A leg that is refused early is skipped, for a fault.
LEMMA RefuseEarlyIInv ==
    ASSUME LegsOK, LegsIInv, NEW r \in Calls, RefuseEarly(r)
    PROVE  LegsIInv'
<1> DEFINE l == request[r].leg
           q == Reported(r, "rejected")
<1>1. /\ request[r].at = "insert" /\ l \in Leg
      /\ UNCHANGED <<broker, row, book>>
      /\ request' = [request EXCEPT ![r] = q]
      /\ request[r].rows[l] = None
    BY DEF RefuseEarly, LegsIInv, RequestsFit, Fits, Working, Leg
<1>2. /\ q \in RequestRecord
      /\ q.at \in {"answered", "lookup"} /\ (q.at = "answered" <=> l = Legs)
      /\ q.leg = l + 1 /\ q.rows = request[r].rows
    BY <1>1, ReportedIs DEF Status
<1>3. /\ request'[r] = q
      /\ \A p \in Calls \ {r} : request'[p] = request[p]
    BY <1>1 DEF LegsIInv, Types
<1> HIDE DEF q
<1>4. Fits(q) /\ Working(q)
    BY <1>1, <1>2, ReportedFits
<1>5. /\ faults \in Nat /\ faults' \in Nat /\ DOMAIN book' = Leg
      /\ broker = None \/ faults' = faults + 1
    BY <1>1 DEF RefuseEarly, Fault, LegsIInv, Types
<1>6. Types' /\ RequestsFit' /\ HeldOnce'
  <2>1. \A k \in Leg : q.rows[k] # None => Working(request[r]) /\ request[r].rows[k] # None
    BY <1>1, <1>2 DEF Working
  <2>2. UNCHANGED <<broker, row>>
    BY <1>1
  <2> QED
    BY <1>1, <1>2, <1>4, <1>5, <2>1, <2>2, Moves
<1>7. ASSUME NEW k \in Leg PROVE Exposure(k)'
  <2>1. Exposure(k) /\ Cardinality(book[k]) \in Nat
    BY FS_CardinalityType DEF LegsIInv, Exposures, Exposure
  <2>2. Recorded(k) => Recorded(k)'
    BY <1>1, <1>2, <1>3 DEF Recorded, Keeps, Working, Doomed
  <2>3. ASSUME IsFiniteSet(Skippers(k))
        PROVE  /\ IsFiniteSet(Skippers(k)') /\ Cardinality(Skippers(k)') \in Nat
               /\ Cardinality(Skippers(k)) \in Nat
               /\ Cardinality(Skippers(k)') <= Cardinality(Skippers(k)) + 1
    BY <1>1, <1>2, <2>3, SkippersAfter
  <2> QED
    BY <1>1, <1>5, <2>1, <2>2, <2>3 DEF Exposure, LegsOK
<1> QED
    BY <1>6, <1>7 DEF LegsIInv, Exposures

\* The leg has its row in this transaction from here on: refused ...
LEMMA RefuseIInv ==
    ASSUME LegsOK, LegsIInv, NEW r \in Calls, Refuse(r)
    PROVE  LegsIInv'
<1> DEFINE l == request[r].leg
           t == Reported(r, "rejected")
           q == [t EXCEPT !.rows[l] = "rejected"]
<1>1. /\ request[r].at = "insert" /\ l \in Leg /\ row[l] = None
      /\ \A p \in Calls : Working(request[p]) => request[p].rows[l] = None
      /\ UNCHANGED <<broker, row, book, faults>>
      /\ request' = [request EXCEPT ![r] = q]
    BY DEF Refuse, MayInsert, Held, Active, Working, LegsIInv, RequestsFit, Fits
<1>2. /\ t \in RequestRecord
      /\ t.at \in {"answered", "lookup"} /\ (t.at = "answered" <=> l = Legs)
      /\ t.leg = l + 1 /\ t.rows = request[r].rows
    BY <1>1, ReportedIs DEF Status
<1> HIDE DEF t
<1>3. /\ q \in RequestRecord /\ q.at = t.at /\ q.leg = t.leg
      /\ q.rows[l] = "rejected" /\ \A k \in Leg \ {l} : q.rows[k] = request[r].rows[k]
    BY <1>1, <1>2 DEF RequestRecord, Status
<1>4. "rejected" # None
    BY DEF LegsOK, Status
<1> HIDE DEF q
<1>5. Fits(q)
    BY <1>1, <1>2, <1>3, <1>4, ReportedFits
<1>6. Working(request[r]) /\ Working(q)
    BY <1>1, <1>2, <1>3 DEF Working
<1>7. request[r].rows[l] # "submitted"
    BY <1>1, <1>6 DEF LegsOK, Status
<1>8. \A k \in Leg : Keeps(request[r], k) => Keeps(q, k)
    BY <1>2, <1>3, <1>6, <1>7 DEF Keeps, Doomed
<1>9. \A k \in Leg : Skips(q, k) => Skips(request[r], k)
  <2>1. \A k \in Leg : k < l + 1 => k = l \/ k < l
    BY <1>1 DEF Leg
  <2> QED
    BY <1>2, <1>3, <1>4, <1>6, <2>1 DEF Skips
<1> QED
    BY <1>1, <1>3, <1>5, <1>6, <1>7, <1>8, <1>9, SendsNothing

\* ... or about to be sent.
LEMMA InsertIInv ==
    ASSUME LegsOK, LegsIInv, NEW r \in Calls, Insert(r)
    PROVE  LegsIInv'
<1> DEFINE l == request[r].leg
           q == [request[r] EXCEPT !.at = "submit", !.rows[l] = "pending"]
<1>1. /\ request[r] \in RequestRecord /\ request[r].at = "insert" /\ l \in Leg /\ row[l] = None
      /\ broker # None
      /\ Fits(request[r])
      /\ \A p \in Calls : Working(request[p]) => request[p].rows[l] = None
      /\ UNCHANGED <<broker, row, book, faults>>
    BY DEF Insert, MayInsert, Held, Active, Working, LegsIInv, Types, RequestsFit, Fits
<1>2. /\ request' = [request EXCEPT ![r] = q] /\ q \in RequestRecord
      /\ q.at = "submit" /\ q.leg = l /\ q.rows[l] = "pending"
      /\ \A k \in Leg \ {l} : q.rows[k] = request[r].rows[k]
    BY <1>1 DEF Insert, RequestRecord, At, Status
<1> HIDE DEF q
<1>3. Working(request[r]) /\ Working(q)
    BY <1>1, <1>2 DEF Working
<1>4. ~(l < l)
    BY <1>1 DEF Leg
<1>5. Fits(q)
    BY <1>1, <1>2, <1>3, <1>4 DEF Fits
<1>6. request[r].rows[l] # "submitted"
    BY <1>1, <1>3 DEF LegsOK, Status
<1>7. \A k \in Leg :
         /\ Keeps(request[r], k) => Keeps(q, k)
         /\ Skips(q, k) => Skips(request[r], k)
    BY <1>2, <1>3, <1>4, <1>6 DEF Keeps, Skips, Doomed
<1> QED
    BY <1>1, <1>2, <1>3, <1>5, <1>6, <1>7, SendsNothing

\* Its orders were not counted on since the row it loses to was committed.
LEMMA InsertFailsIInv ==
    ASSUME LegsIInv, NEW r \in Calls, InsertFails(r)
    PROVE  LegsIInv'
<1> DEFINE q == [request[r] EXCEPT !.at = "dead"]
<1>1. /\ request[r] \in RequestRecord /\ request[r].at = "insert"
      /\ request[r].leg \in Leg /\ row[request[r].leg] # None
    BY DEF InsertFails, LegsIInv, Types, RequestsFit, Fits
<1>2. request' = [request EXCEPT ![r] = q] /\ q \in RequestRecord /\ q.at = "dead"
    BY <1>1 DEF InsertFails, RequestRecord, At
<1> HIDE DEF q
<1>3. Fits(q) /\ ~Working(q)
    BY <1>2 DEF Fits, Working
<1>4. \A l \in Leg : ~Keeps(request[r], l) /\ ~Skips(q, l)
    BY <1>1, <1>3 DEF Keeps, Skips, Doomed
<1> QED
    BY <1>2, <1>3, <1>4, SendsNothing DEF InsertFails

\* The leg is answered and its row has a status; the broker may have an order more.
LEMMA AnsweredIInv ==
    ASSUME LegsOK, LegsIInv, NEW r \in Calls, request[r].at = "submit",
           NEW answer \in Status, NEW status \in Status, broker # None,
           request' = [request EXCEPT ![r] =
              [Reported(r, answer) EXCEPT !.rows[request[r].leg] = status]],
           UNCHANGED <<broker, row>>,
           \/ book' = book
           \/ book' = Placed(r, request[r].leg) /\ ~Taken(r, request[r].leg),
           faults' \in Nat, faults' >= faults,
           book' # book => status = "submitted" \/ faults' = faults + 1
    PROVE  LegsIInv'
<1> DEFINE l == request[r].leg
           t == Reported(r, answer)
           q == [t EXCEPT !.rows[l] = status]
<1>1. l \in Leg /\ request[r].rows[l] = "pending" /\ Working(request[r])
    BY DEF LegsIInv, RequestsFit, Fits, Working
<1>0. request[r].leg = l
    OBVIOUS
<1>2. /\ t \in RequestRecord
      /\ t.at \in {"answered", "lookup"} /\ (t.at = "answered" <=> l = Legs)
      /\ t.leg = l + 1 /\ t.rows = request[r].rows
    BY <1>1, ReportedIs
<1> HIDE DEF t
<1>3. /\ q \in RequestRecord /\ q.at = t.at /\ q.leg = t.leg
      /\ q.rows[l] = status /\ \A k \in Leg \ {l} : q.rows[k] = request[r].rows[k]
    BY <1>1, <1>2 DEF RequestRecord
<1>4. request' = [request EXCEPT ![r] = q]
    BY DEF t
<1>5. status # None /\ "pending" # None
    BY DEF LegsOK, Status
<1>6. row[l] = None
    BY <1>1, <1>5 DEF LegsIInv, RequestsFit, Fits
<1> HIDE DEF q
<1>7. Fits(q) /\ Working(q)
    BY <1>1, <1>2, <1>3, <1>5, <1>6, ReportedFits
<1>8. q.leg = l + 1 /\ q.at # "insert" /\ q.rows[l] # None
    BY <1>2, <1>3, <1>5
<1> HIDE DEF l
<1> QED
    BY <1>0, <1>1, <1>3, <1>4, <1>7, <1>8, Sends DEF l

LEMMA SubmitIInv ==
    ASSUME LegsOK, LegsIInv, NEW r \in Calls, NEW result \in {"submitted", "rejected"},
           Submit(r, result)
    PROVE  LegsIInv'
<1>1. faults' \in Nat /\ faults' >= faults /\ broker # None
    BY DEF Submit, LegsIInv, Types, RequestsFit, Fits
<1> QED
    BY <1>1, AnsweredIInv DEF Submit, Status

LEMMA SubmitFailsIInv ==
    ASSUME LegsOK, LegsIInv, NEW r \in Calls, SubmitFails(r)
    PROVE  LegsIInv'
<1>1. AfterFailure \in Status /\ "rejected" \in Status
    BY DEF AfterFailure, Status
<1>2. /\ faults' \in Nat /\ faults' >= faults
      /\ book' # book => faults' = faults + 1
    BY DEF SubmitFails, Fault, LegsIInv, Types
<1>3. /\ request[r].at = "submit"
      /\ request' = [request EXCEPT ![r] =
            [Reported(r, "rejected") EXCEPT !.rows[request[r].leg] = AfterFailure]]
      /\ UNCHANGED <<broker, row>>
      /\ \/ book' = book
         \/ book' = Placed(r, request[r].leg) /\ ~Taken(r, request[r].leg)
      /\ broker # None
    BY DEF SubmitFails, LegsIInv, RequestsFit, Fits
<1> HIDE DEF AfterFailure
<1> QED
    BY <1>1, <1>2, <1>3, AnsweredIInv

\* The winner of a race for leg k over a request that has sent leg l skipped l.
LEMMA WinnerSkipped ==
    ASSUME LegsOK, LegsIInv, NEW r \in Calls, Commit(r), NEW p \in Calls \ {r}, NEW l \in Leg,
           Keeps(request[p], l), Doomed(request[p])'
    PROVE  Skips(request[r], l)
<1>1. /\ Fits(request[r]) /\ Fits(request[p]) /\ request[r].at = "answered"
      /\ request[p].leg \in Leg /\ row[request[p].leg] = None
      /\ row[l] = None /\ request[p].rows[l] # None
  <2>1. request' = [request EXCEPT ![r].at = "done"] /\ request \in [Calls -> RequestRecord]
    BY DEF Commit, LegsIInv, Types
  <2>2. request'[p] = request[p]
    BY <2>1
  <2>3. Fits(request[r]) /\ Fits(request[p]) /\ request[r].at = "answered"
    BY DEF Commit, LegsIInv, RequestsFit
  <2>4. request[p].rows[l] = "submitted" /\ "submitted" # None
    BY DEF Keeps, LegsOK, Status
  <2> QED
    BY <2>2, <2>3, <2>4 DEF Keeps, Doomed, Fits
<1>2. l < request[r].leg
    BY <1>1 DEF Fits, Leg, LegsOK
<1>3. Working(request[r]) /\ Working(request[p])
    BY <1>1 DEF Working, Keeps
<1>4. request[r].rows[l] = None
    BY <1>1, <1>3 DEF LegsIInv, HeldOnce
<1> QED
    BY <1>1, <1>2, <1>3, <1>4 DEF Skips

\* The rows of the request are committed, each at most once.
LEMMA CommitIInv ==
    ASSUME LegsOK, LegsIInv, NEW r \in Calls, Commit(r)
    PROVE  LegsIInv'
<1> DEFINE q == [request[r] EXCEPT !.at = "done"]
<1>1. /\ request[r] \in RequestRecord /\ request[r].at = "answered" /\ Fits(request[r])
      /\ UNCHANGED <<broker, book, faults>>
      /\ row \in [Leg -> Status \cup {None}]
      /\ row' = [l \in Leg |-> IF request[r].rows[l] # None THEN request[r].rows[l] ELSE row[l]]
    BY DEF Commit, LegsIInv, Types, RequestsFit
<1>2. request' = [request EXCEPT ![r] = q] /\ q \in RequestRecord /\ q.at = "done"
    BY <1>1 DEF Commit, RequestRecord, At
<1> HIDE DEF q
<1>3. /\ request'[r] = q
      /\ \A p \in Calls \ {r} : request'[p] = request[p]
    BY <1>2 DEF LegsIInv, Types
<1>4. \A l \in Leg : row[l] # None => row'[l] # None
    BY <1>1
<1>5. Working(request[r]) /\ ~Working(q)
    BY <1>1, <1>2 DEF Working
<1>6. Types'
  <2>1. row' \in [Leg -> Status \cup {None}]
    BY <1>1 DEF RequestRecord
  <2> QED
    BY <1>1, <1>2, <2>1 DEF LegsIInv, Types
<1>7. RequestsFit'
  <2> SUFFICES ASSUME NEW p \in Calls PROVE Fits(request[p])'
    BY DEF RequestsFit
  <2>1. CASE p = r
    BY <1>2, <1>3, <2>1 DEF Fits, Working
  <2>2. CASE p # r
    <3>1. request'[p] = request[p] /\ Fits(request[p])
      BY <1>3, <2>2 DEF LegsIInv, RequestsFit
    <3>2. Working(request[p]) => \A l \in Leg :
              request[p].rows[l] # None => row'[l] = None
      <4> SUFFICES ASSUME Working(request[p]), NEW l \in Leg, request[p].rows[l] # None
                   PROVE  row'[l] = None
        OBVIOUS
      <4>1. request[r].rows[l] = None
        BY <1>5, <2>2 DEF LegsIInv, HeldOnce
      <4>2. row[l] = None
        BY <3>1 DEF Fits
      <4> QED
        BY <1>1, <4>1, <4>2
    <3> QED
      BY <1>1, <3>1, <3>2 DEF Fits, Working, NotSent
  <2> QED
    BY <2>1, <2>2
<1>8. HeldOnce'
    BY <1>2, <1>3 DEF LegsIInv, HeldOnce, Working
<1>9. Exposures'
  <2> SUFFICES ASSUME NEW l \in Leg PROVE Exposure(l)'
    BY DEF Exposures
  <2>1. Exposure(l) /\ Cardinality(book[l]) \in Nat /\ faults \in Nat
    BY FS_CardinalityType DEF LegsIInv, Types, Exposures, Exposure
  <2>2. ASSUME IsFiniteSet(Skippers(l))
        PROVE  /\ IsFiniteSet(Skippers(l)') /\ Cardinality(Skippers(l)') \in Nat
               /\ Cardinality(Skippers(l)) \in Nat
               /\ Cardinality(Skippers(l)') <= Cardinality(Skippers(l))
               /\ Skips(request[r], l) => Cardinality(Skippers(l)') < Cardinality(Skippers(l))
    <3> DEFINE S == Skippers(l)
               T == Skippers(l)'
    <3>1. T \subseteq S \ {r}
      <4> SUFFICES ASSUME NEW p \in T PROVE p \in S /\ p # r
        OBVIOUS
      <4>1. p \in Calls /\ Skips(request[p], l)'
        BY DEF Skippers
      <4>2. p # r
        BY <1>3, <1>5, <4>1 DEF Skips, Working
      <4>3. request'[p] = request[p] /\ row[l] = None
        BY <1>3, <1>4, <4>1, <4>2 DEF Skips
      <4> QED
        BY <4>1, <4>2, <4>3 DEF Skippers, Skips, Working
    <3>2. IsFiniteSet(S)
      BY <2>2
    <3>3. r \in S <=> Skips(request[r], l)
      BY DEF Skippers
    <3> HIDE DEF S, T
    <3>4. IsFiniteSet(S \ {r}) /\ IsFiniteSet(T)
      BY <3>1, <3>2, FS_Subset, FS_RemoveElement
    <3>5. Cardinality(T) <= Cardinality(S \ {r})
      BY <3>1, <3>4, FS_Subset
    <3>6. Cardinality(S \ {r}) = IF r \in S THEN Cardinality(S) - 1 ELSE Cardinality(S)
      BY <3>2, FS_RemoveElement
    <3>7. Cardinality(S) \in Nat /\ Cardinality(T) \in Nat
      BY <3>2, <3>4, FS_CardinalityType
    <3> QED
      BY <3>3, <3>4, <3>5, <3>6, <3>7 DEF S, T
  <2>3. Recorded(l) => Recorded(l)' \/ Skips(request[r], l)
    <3> SUFFICES ASSUME Recorded(l), ~Skips(request[r], l) PROVE Recorded(l)'
      OBVIOUS
    <3>1. CASE row[l] # None
      BY <1>4, <3>1 DEF Recorded
    <3>2. CASE Keeps(request[r], l)
      <4>1. request[r].rows[l] # None
        BY <3>2 DEF Keeps, LegsOK, Status
      <4>2. row'[l] # None
        BY <1>1, <4>1
      <4> QED
        BY <4>2 DEF Recorded
    <3>3. ASSUME NEW p \in Calls \ {r}, Keeps(request[p], l) PROVE Recorded(l)'
      <4>1. ~Doomed(request[p])'
        BY <3>3, WinnerSkipped
      <4>2. request'[p] = request[p]
        BY <1>3
      <4> QED
        BY <3>3, <4>1, <4>2 DEF Recorded, Keeps, Working
    <3> QED
      BY <3>1, <3>2, <3>3 DEF Recorded
  <2> QED
    BY <1>1, <2>1, <2>2, <2>3 DEF Exposure
<1> QED
    BY <1>6, <1>7, <1>8, <1>9 DEF LegsIInv

LEMMA FailsIInv ==
    ASSUME LegsOK, LegsIInv, NEW r \in Calls, Fails(r)
    PROVE  LegsIInv'
<1> DEFINE q == [NotSent EXCEPT !.at = "failed"]
<1>1. /\ request' = [request EXCEPT ![r] = q] /\ q \in RequestRecord /\ q.at = "failed"
      /\ UNCHANGED <<broker, row, book>>
    BY NotSentFits DEF Fails, RequestRecord, At
<1> HIDE DEF q
<1>2. Fits(q) /\ ~Working(q)
    BY <1>1 DEF Fits, Working
<1>3. CASE request[r].at = "dead" /\ UNCHANGED faults
  <2>1. \A l \in Leg : ~Keeps(request[r], l) /\ ~Skips(q, l)
    BY <1>2, <1>3 DEF Keeps, Skips, Working
  <2> QED
    BY <1>1, <1>2, <1>3, <2>1, SendsNothing DEF Working
<1>4. CASE faults' = faults + 1
  <2>1. faults \in Nat /\ faults' \in Nat /\ DOMAIN book' = Leg
    BY <1>1, <1>4 DEF LegsIInv, Types
  <2>2. Types' /\ RequestsFit' /\ HeldOnce'
    <3>1. UNCHANGED <<broker, row>>
      BY <1>1
    <3>2. \A l \in Leg : Working(q) /\ q.rows[l] # None =>
              \/ Working(request[r]) /\ request[r].rows[l] # None
              \/ \A p \in Calls : Working(request[p]) => request[p].rows[l] = None
      BY <1>2
    <3> QED
      BY <1>1, <1>2, <2>1, <3>1, <3>2, Moves
  <2>3. ASSUME NEW l \in Leg PROVE Exposure(l)'
    <3>1. Exposure(l) /\ Cardinality(book[l]) \in Nat
      BY FS_CardinalityType DEF LegsIInv, Exposures, Exposure
    <3>2. ~Skips(q, l)
      BY <1>2 DEF Skips
    <3>3. ASSUME IsFiniteSet(Skippers(l))
          PROVE  /\ IsFiniteSet(Skippers(l)') /\ Cardinality(Skippers(l)') \in Nat
                 /\ Cardinality(Skippers(l)) \in Nat
                 /\ Cardinality(Skippers(l)') <= Cardinality(Skippers(l))
      <4>1. row'[l] = row[l]
        BY <1>1
      <4> QED
        BY <1>1, <3>2, <3>3, <4>1, SkippersAfter
    <3> QED
      BY <1>1, <1>4, <2>1, <3>1, <3>3 DEF Exposure
  <2> QED
    BY <2>2, <2>3 DEF LegsIInv, Exposures
<1> QED
    BY <1>3, <1>4 DEF Fails, Fault

LEMMA LegsStepIInv == LegsOK /\ LegsIInv /\ [LegsNext]_legsVars => LegsIInv'
<1> SUFFICES ASSUME LegsOK, LegsIInv, [LegsNext]_legsVars PROVE LegsIInv'
    OBVIOUS
<1>1. ASSUME NEW r \in Calls, StartLegs(r) PROVE LegsIInv'
    BY <1>1, StartIInv
<1>2. ASSUME NEW r \in Calls, Replay(r) PROVE LegsIInv'
    BY <1>2, ReplayIInv
<1>3. ASSUME NEW r \in Calls, Lookup(r) PROVE LegsIInv'
    BY <1>3, LookupIInv
<1>4. ASSUME NEW r \in Calls, Refuse(r) PROVE LegsIInv'
    BY <1>4, RefuseIInv
<1>12. ASSUME NEW r \in Calls, RefuseEarly(r) PROVE LegsIInv'
    BY <1>12, RefuseEarlyIInv
<1>5. ASSUME NEW r \in Calls, Insert(r) PROVE LegsIInv'
    BY <1>5, InsertIInv
<1>6. ASSUME NEW r \in Calls, InsertFails(r) PROVE LegsIInv'
    BY <1>6, InsertFailsIInv
<1>7. ASSUME NEW r \in Calls, NEW raw \in RawStatus, Submit(r, map_status(raw)) PROVE LegsIInv'
  <2>1. map_status(raw) \in {"submitted", "rejected"}
    BY DEF map_status
  <2> QED
    BY <1>7, <2>1, SubmitIInv
<1>8. ASSUME NEW r \in Calls, SubmitFails(r) PROVE LegsIInv'
    BY <1>8, SubmitFailsIInv
<1>9. ASSUME NEW r \in Calls, Commit(r) PROVE LegsIInv'
    BY <1>9, CommitIInv
<1>10. ASSUME NEW r \in Calls, Fails(r) PROVE LegsIInv'
    BY <1>10, FailsIInv
<1>11. CASE UNCHANGED legsVars
  <2>1. Types' /\ RequestsFit' /\ HeldOnce'
    BY <1>11 DEF legsVars, LegsIInv, Types, RequestsFit, Fits, NotSent, HeldOnce, Working
  <2>2. Exposures'
    BY <1>11 DEF legsVars, LegsIInv, Exposures, Exposure, Recorded, Keeps, Doomed,
                 Skippers, Skips, Working
  <2> QED
    BY <2>1, <2>2 DEF LegsIInv
<1> QED
    BY <1>1, <1>2, <1>3, <1>4, <1>5, <1>6, <1>7, <1>8, <1>9, <1>10, <1>11, <1>12
    DEF LegsNext

-----------------------------------------------------------------------------
(* Theorems                                                                *)

\* Each leg of a strategy is at Alpaca once, and at Tradier once and once more for
\* each call, process or commit that failed, however often the strategy is sent again.
\* A retry that loses the race for a key is rolled back with the orders it has sent, but
\* it has sent one only of a leg that the winner skipped, for a failed call of its own.
THEOREM LegsAreExposedOnce ==
    ASSUME LegsOK
    PROVE  LegsSpec => []LegsExposedOnce
<1>1. LegsIInv => LegsExposedOnce
  <2> SUFFICES ASSUME LegsIInv, NEW l \in Leg
               PROVE  Cardinality(book[l]) <= IF broker = "alpaca" THEN 1 ELSE 1 + faults
    BY DEF LegsExposedOnce
  <2>1. Exposure(l) /\ Cardinality(book[l]) \in Nat /\ faults \in Nat
    BY FS_CardinalityType DEF LegsIInv, Types, Exposures, Exposure
  <2>2. broker = "tradier" => Cardinality(Skippers(l)) \in Nat
    BY <2>1, FS_CardinalityType DEF Exposure
  <2>3. broker = None => Cardinality(book[l]) = 0
    BY <2>1, FS_EmptySet DEF Exposure
  <2> QED
    BY <2>1, <2>2, <2>3 DEF Exposure, LegsIInv, Types
<1>2. LegsInit => LegsIInv
    BY LegsInitIInv
<1>3. LegsIInv /\ [LegsNext]_legsVars => LegsIInv'
    BY LegsStepIInv
<1> QED
    BY <1>1, <1>2, <1>3, PTL DEF LegsSpec

=============================================================================
