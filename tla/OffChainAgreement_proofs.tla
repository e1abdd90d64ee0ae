---------------------- MODULE OffChainAgreement_proofs ----------------------
(***************************************************************************)
(* When nothing is in flight and no connection was lost the two nodes      *)
(* agree on the balances, for every deposit, word size and number of calls *)
(* in flight, overdrafts included.                                         *)
(***************************************************************************)
EXTENDS OffChainPayments_proofs

-----------------------------------------------------------------------------
(* The inductive invariant, beside PInv.  The opening states, one reading  *)
(* of each clock, are the only ones the nodes do not share; they are older *)
(* than every payment, the partner's by the check of timestamps.           *)
Shared(n, ts) ==
  ts \in DOMAIN log[Other(n)] /\ SameSplit(log[n][ts], log[Other(n)][ts])

Awaited(ts) == \E c \in calls : c.req.timestamp = ts /\ c.stage = "approved"

OpeningKept(o) ==
  \A n \in Nodes : /\ o[n] \in DOMAIN log[n] /\ o[n] <= clock[n]
                   /\ log[n][o[n]].alice_balance = Deposit
                   /\ log[n][o[n]].bob_balance = 0

PaymentsLater(o) ==
  \A n \in Nodes : \A ts \in DOMAIN log[n] :
    ts # o[n] => ts > o[n] /\ ts > o[Other(n)]

CallsLater(o) ==
  \A c \in calls : /\ c.req.timestamp > o[c.req.from]
                   /\ c.stage \in {"checked", "approved"} =>
                        c.req.timestamp > o[Other(c.req.from)]

Matched(o) ==
  losses = 0 =>
    \A n \in Nodes : \A ts \in DOMAIN log[n] :
      ts # o[n] => Shared(n, ts) \/ Awaited(ts)

Waiting == losses = 0 => \A c \in calls : c.waiting

Opening(o) ==
  /\ o \in [Nodes -> 1..MaxTime]
  /\ OpeningKept(o) /\ PaymentsLater(o) /\ CallsLater(o) /\ Matched(o)
  /\ Waiting

AInv == PInv /\ \E o \in [Nodes -> 1..MaxTime] : Opening(o)

LEMMA InitAInv == Init => AInv
<1> SUFFICES ASSUME Init PROVE AInv
  OBVIOUS
<1>1. PInv
  BY InitPInv
<1>2. /\ clock \in [Nodes -> 1..MaxTime] /\ calls = {}
      /\ \A n \in Nodes : log[n] = Store(EmptyLog, OpenedState(clock[n]))
  BY DEF Init
<1>3. ASSUME NEW n \in Nodes
      PROVE  /\ DOMAIN log[n] = {clock[n]}
             /\ log[n][clock[n]] = OpenedState(clock[n])
  <2>1. clock[n] \in 1..MaxTime
    BY <1>2
  <2> QED
    BY <1>2, <2>1, OpenedLog
<1>4. PICK o \in [Nodes -> 1..MaxTime] : o = clock
  BY <1>2
<1>5. OpeningKept(o)
  <2>1. ASSUME NEW n \in Nodes PROVE clock[n] <= clock[n]
    BY <1>2
  <2>2. ASSUME NEW ts PROVE /\ OpenedState(ts).alice_balance = Deposit
                            /\ OpenedState(ts).bob_balance = 0
    BY DEF OpenedState, OffChainEntry
  <2> QED
    BY <1>3, <1>4, <2>1, <2>2 DEF OpeningKept
<1>6. PaymentsLater(o) /\ CallsLater(o) /\ Matched(o) /\ Waiting
  BY <1>2, <1>3, <1>4 DEF PaymentsLater, CallsLater, Matched, Waiting
<1> QED
  BY <1>1, <1>5, <1>6 DEF AInv, Opening

-----------------------------------------------------------------------------
LEMMA LatestIsMax ==
  ASSUME NEW l, IsLog(l)
  PROVE  \A ts \in DOMAIN l : ts <= LatestTimestamp(l)
  BY DEF IsLog, LatestTimestamp

LEMMA AInvAgrees == AInv => LogsAgreeAtRest
<1> SUFFICES ASSUME AInv, calls = {}, losses = 0
             PROVE  SameSplit(Latest(log[Alice]), Latest(log[Bob]))
  BY DEF LogsAgreeAtRest, SameSplit
<1> DEFINE a == LatestTimestamp(log[Alice])
           b == LatestTimestamp(log[Bob])
<1>1. PICK o \in [Nodes -> 1..MaxTime] : Opening(o)
  BY DEF AInv
<1>2. /\ Alice \in Nodes /\ Bob \in Nodes
      /\ Other(Alice) = Bob /\ Other(Bob) = Alice
  BY PaymentsAssumption DEF Nodes, Other
<1>3. IsLog(log[Alice]) /\ IsLog(log[Bob])
  BY <1>2 DEF AInv, PInv, Typed
<1>4. /\ a \in DOMAIN log[Alice] /\ Latest(log[Alice]) = log[Alice][a]
      /\ \A ts \in DOMAIN log[Alice] : ts <= a
      /\ b \in DOMAIN log[Bob] /\ Latest(log[Bob]) = log[Bob][b]
      /\ \A ts \in DOMAIN log[Bob] : ts <= b
  BY <1>3, LatestIsEntry, LatestIsMax
<1> HIDE DEF a, b
<1>5. a \in Int /\ b \in Int
  BY <1>3, <1>4 DEF IsLog
<1>6. /\ a # o[Alice] => /\ a > o[Bob] /\ a \in DOMAIN log[Bob]
                         /\ SameSplit(log[Alice][a], log[Bob][a])
      /\ b # o[Bob] => /\ b > o[Alice] /\ b \in DOMAIN log[Alice]
                       /\ SameSplit(log[Bob][b], log[Alice][b])
  BY <1>1, <1>2, <1>4 DEF Opening, PaymentsLater, Matched, Shared, Awaited
<1>7. o[Alice] \in Int /\ o[Bob] \in Int
  BY <1>2
<1>8. CASE a # o[Alice]
  <2>1. a <= b /\ b # o[Bob]
    BY <1>4, <1>5, <1>6, <1>7, <1>8
  <2>2. b <= a
    BY <1>4, <1>6, <2>1
  <2>3. a = b
    BY <1>5, <2>1, <2>2
  <2> QED
    BY <1>4, <1>6, <1>8, <2>3
<1>9. CASE b # o[Bob]
  <2>1. b <= a /\ a # o[Alice]
    BY <1>4, <1>5, <1>6, <1>7, <1>9
  <2> QED
    BY <1>8, <2>1
<1>10. CASE a = o[Alice] /\ b = o[Bob]
  BY <1>1, <1>2, <1>4, <1>10 DEF Opening, OpeningKept, SameSplit
<1> QED
  BY <1>8, <1>9, <1>10

-----------------------------------------------------------------------------
LEMMA PayKeepsOpening ==
  ASSUME PInv, NEW o, Opening(o), NEW n \in Nodes, NEW amount \in Amounts,
         NEW ts \in Now(n), Pay(n, amount, ts)
  PROVE  Opening(o)'
<1>1. PICK r : r = PayRequest(AppId, n, MeAlice(n), Latest(log[n]), amount, ts)
  OBVIOUS
<1>2. PICK d : d = [req |-> r, stage |-> "sent", waiting |-> TRUE]
  OBVIOUS
<1>3. /\ calls' = calls \cup {d} /\ clock' = [clock EXCEPT ![n] = ts]
      /\ log' = log /\ losses' = losses
  BY <1>1, <1>2 DEF Pay
<1>4. /\ d.req.from = n /\ d.req.timestamp = ts
      /\ d.stage = "sent" /\ d.waiting = TRUE
  BY <1>1, <1>2 DEF PayRequest
<1>5. /\ ts \in Int /\ ts > clock[n]
      /\ clock \in [Nodes -> 1..MaxTime] /\ o \in [Nodes -> 1..MaxTime]
      /\ \A m \in Nodes : o[m] <= clock[m]
  BY ReadingParts DEF PInv, Typed, Opening, OpeningKept
<1>6. \A m \in Nodes : o[m] <= clock'[m]
  BY <1>3, <1>5
<1>7. ts > o[n]
  BY <1>5
<1>8. OpeningKept(o)' /\ PaymentsLater(o)'
  BY <1>3, <1>6 DEF Opening, OpeningKept, PaymentsLater
<1>9. CallsLater(o)'
  BY <1>3, <1>4, <1>7 DEF Opening, CallsLater
<1>10. Matched(o)' /\ Waiting'
  BY <1>3, <1>4 DEF Opening, Matched, Waiting, Shared, Awaited
<1> QED
  BY <1>5, <1>8, <1>9, <1>10 DEF Opening

\* A call that moves on without a state being stored.
LEMMA MoveKeepsOpening ==
  ASSUME NEW o, Opening(o), NEW c \in calls, NEW d, d.req = c.req,
         d.stage = c.stage \/ d.stage = "rejected" \/
           (d.stage = "checked" /\ c.req.timestamp > o[Other(c.req.from)]),
         calls' \subseteq (calls \ {c}) \cup {d}, log' = log, clock' = clock,
         \/ losses' # 0
         \/ /\ losses' = losses /\ c.stage # "approved" /\ d.waiting = c.waiting
            /\ calls \ {c} \subseteq calls'
  PROVE  Opening(o)'
<1>1. OpeningKept(o)' /\ PaymentsLater(o)'
  BY DEF Opening, OpeningKept, PaymentsLater
<1>2. CallsLater(o)'
  BY DEF Opening, CallsLater
<1>3. Waiting'
  BY DEF Opening, Waiting
<1>4. Matched(o)'
  <2>1. CASE losses' # 0
    BY <2>1 DEF Matched
  <2>2. CASE losses' = losses /\ c.stage # "approved" /\ calls \ {c} \subseteq calls'
    <3>1. \A ts : Awaited(ts) => Awaited(ts)'
      BY <2>2 DEF Awaited
    <3> QED
      BY <2>2, <3>1 DEF Opening, Matched, Shared
  <2> QED
    BY <2>1, <2>2
<1> QED
  BY <1>1, <1>2, <1>3, <1>4 DEF Opening

LEMMA CheckKeepsOpening ==
  ASSUME PInv, NEW o, Opening(o), NEW c \in calls, CheckPayRequest(c)
  PROVE  Opening(o)'
<1> DEFINE me == Other(c.req.from)
<1>1. IsCall(c) /\ c.req.from \in Nodes /\ me \in Nodes /\ c.stage = "sent"
  BY CallParts, OtherNode DEF CheckPayRequest
<1>2. PICK s \in {"checked", "rejected"} :
        /\ calls' \subseteq (calls \ {c}) \cup {[c EXCEPT !.stage = s]}
        /\ calls \ {c} \subseteq calls'
        /\ s = "checked" => PayAcceptable(AppId, MeAlice(me), Latest(log[me]),
                                           c.req, PenaltyReserve)
  BY DEF CheckPayRequest, Proceed
<1>3. log' = log /\ clock' = clock /\ losses' = losses
  BY DEF CheckPayRequest
<1> DEFINE d == [c EXCEPT !.stage = s]
<1>4. d.req = c.req /\ d.stage = s /\ d.waiting = c.waiting
  BY <1>1 DEF IsCall
<1>5. s = "checked" => c.req.timestamp > o[me]
  <2>1. IsLog(log[me]) /\ o[me] \in DOMAIN log[me]
    BY <1>1 DEF PInv, Typed, Opening, OpeningKept
  <2>2. /\ o[me] <= LatestTimestamp(log[me])
        /\ Latest(log[me]).timestamp = LatestTimestamp(log[me])
        /\ LatestTimestamp(log[me]) \in DOMAIN log[me]
    BY <2>1, LatestIsMax, LatestIsEntry DEF IsEntry
  <2>3. /\ LatestTimestamp(log[me]) \in Int /\ o[me] \in Int
        /\ c.req.timestamp \in Int
    BY <2>1, <2>2, CallParts DEF IsLog
  <2>4. s = "checked" => Latest(log[me]).timestamp < c.req.timestamp
    BY <1>2 DEF PayAcceptable, Beneficial
  <2> QED
    BY <2>2, <2>3, <2>4
<1> HIDE DEF d
<1>6. /\ calls' \subseteq (calls \ {c}) \cup {d}
      /\ d.stage = "rejected" \/
           (d.stage = "checked" /\ c.req.timestamp > o[Other(c.req.from)])
  BY <1>2, <1>4, <1>5 DEF d
<1>7. c.stage # "approved"
  BY <1>1
<1> QED
  BY <1>2, <1>3, <1>4, <1>6, <1>7, MoveKeepsOpening

LEMMA DropKeepsOpening ==
  ASSUME PInv, NEW o, Opening(o), NEW c \in calls,
         PayRejected(c) \/ LoseRequest(c) \/ LoseResponse(c)
  PROVE  Opening(o)'
<1>1. IsCall(c) /\ losses \in Nat
  BY CallParts, PaymentsAssumption DEF PInv, Typed
<1>2. log' = log /\ clock' = clock
  BY DEF PayRejected, LoseRequest, LoseResponse
<1>3. CASE PayRejected(c)
  <2>1. /\ calls' \subseteq (calls \ {c}) \cup {c} /\ calls \ {c} \subseteq calls'
        /\ losses' = losses /\ c.stage # "approved"
    BY <1>3 DEF PayRejected
  <2> QED
    BY <1>2, <2>1, MoveKeepsOpening
<1>4. CASE LoseRequest(c)
  <2>1. calls' \subseteq (calls \ {c}) \cup {c} /\ losses' # 0
    BY <1>1, <1>4 DEF LoseRequest
  <2> QED
    BY <1>2, <2>1, MoveKeepsOpening
<1>5. CASE LoseResponse(c)
  <2> DEFINE d == [c EXCEPT !.waiting = FALSE]
  <2>1. calls' \subseteq (calls \ {c}) \cup {d} /\ losses' # 0
    BY <1>1, <1>5 DEF LoseResponse
  <2>2. d.req = c.req /\ d.stage = c.stage
    BY <1>1 DEF IsCall
  <2> HIDE DEF d
  <2> QED
    BY <1>2, <2>1, <2>2, MoveKeepsOpening
<1> QED
  BY <1>3, <1>4, <1>5

-----------------------------------------------------------------------------
(* A state is stored in the log of me: the opening states are where they   *)
(* were and the new one is later.                                          *)
LEMMA StoreKeepsOpening ==
  ASSUME PInv, NEW o, Opening(o), NEW me \in Nodes, NEW e,
         NEW t \in 1..MaxTime, IsEntry(e, t), clock' = clock,
         log' = [log EXCEPT ![me] = Store(@, e)],
         t > o[me], t > o[Other(me)]
  PROVE  /\ OpeningKept(o)' /\ PaymentsLater(o)'
         /\ DOMAIN log'[me] = DOMAIN log[me] \cup {t}
         /\ log'[me][t] = e
         /\ \A ts \in DOMAIN log[me] : ts # t => log'[me][ts] = log[me][ts]
         /\ log'[Other(me)] = log[Other(me)]
<1>1. Typed
  BY DEF PInv
<1>2. /\ log' = [n \in Nodes |-> log'[n]]
      /\ \A n \in Nodes : IsLog(log'[n])
      /\ DOMAIN log'[me] = DOMAIN log[me] \cup {t}
      /\ log'[me][t] = e
      /\ \A ts \in DOMAIN log[me] : ts # t => log'[me][ts] = log[me][ts]
      /\ log'[Other(me)] = log[Other(me)]
  BY <1>1, SavedLog
<1>3. \A n \in Nodes : n = me \/ n = Other(me)
  BY DEF Nodes, Other
<1>4. Other(me) \in Nodes /\ Other(Other(me)) = me
  BY OtherNode
<1>5. o[me] # t
  <2>1. o[me] \in Int /\ t \in Int
    BY DEF Opening
  <2> QED
    BY <2>1
<1>6. OpeningKept(o)'
  BY <1>2, <1>3, <1>4, <1>5 DEF Opening, OpeningKept
<1>7. PaymentsLater(o)'
  BY <1>2, <1>3, <1>4 DEF Opening, PaymentsLater
<1> QED
  BY <1>2, <1>6, <1>7

LEMMA SaveKeepsOpening ==
  ASSUME PInv, NEW o, Opening(o), NEW c \in calls, SavePayRequest(c)
  PROVE  Opening(o)'
<1> DEFINE payer == c.req.from
           me == Other(payer)
           t == c.req.timestamp
           e == ReceiverEntry(AppId, me, MeAlice(me), c.req)
           d == [c EXCEPT !.stage = "approved"]
<1>1. IsCall(c) /\ Trace(c) /\ c.stage = "checked"
  BY CallParts DEF SavePayRequest
<1>2. /\ payer \in Nodes /\ me \in Nodes /\ me # payer /\ Other(me) = payer
      /\ t \in 1..MaxTime
  BY CallParts, OtherNode
<1>3. IsEntry(e, t)
  BY <1>1 DEF IsEntry, ReceiverEntry, OffChainEntry, IsCall, IsRequest
<1>4. /\ log' = [log EXCEPT ![me] = Store(@, e)]
      /\ calls' \subseteq (calls \ {c}) \cup {d}
      /\ calls \ {c} \subseteq calls'
      /\ c.waiting => d \in calls'
      /\ clock' = clock /\ losses' = losses
  BY DEF SavePayRequest, Proceed
<1>5. d.req = c.req /\ d.stage = "approved" /\ d.waiting = c.waiting
  BY <1>1 DEF IsCall
<1>6. t > o[payer] /\ t > o[me]
  BY <1>1 DEF Opening, CallsLater
<1>7. t \notin DOMAIN log[payer] /\ t \notin DOMAIN log[me]
  BY <1>1 DEF Trace
<1>8. \A n \in Nodes : n = me \/ n = payer
  BY <1>2 DEF Nodes
<1> HIDE DEF e, d
<1>9. CallsLater(o)'
  BY <1>4, <1>5, <1>6 DEF Opening, CallsLater
<1>10. Waiting'
  BY <1>4, <1>5 DEF Opening, Waiting
<1>11. d.req.timestamp = t
  BY <1>5
<1> HIDE DEF payer, me, t
<1>12. Other(payer) = me
  BY DEF me
<1>13. t > o[Other(me)]
  BY <1>2, <1>6
<1>14. PInv /\ Opening(o)
  OBVIOUS
<1>15. /\ OpeningKept(o)' /\ PaymentsLater(o)'
       /\ DOMAIN log'[me] = DOMAIN log[me] \cup {t}
       /\ log'[me][t] = e
       /\ \A ts \in DOMAIN log[me] : ts # t => log'[me][ts] = log[me][ts]
       /\ log'[Other(me)] = log[Other(me)]
  BY <1>2, <1>3, <1>4, <1>6, <1>13, <1>14, StoreKeepsOpening
<1>16. Matched(o)'
  <2> SUFFICES ASSUME losses = 0, NEW n \in Nodes, NEW ts \in DOMAIN log'[n],
                      ts # o[n]
               PROVE  Shared(n, ts)' \/ Awaited(ts)'
    BY <1>4 DEF Matched
  <2>1. CASE ts = t
    <3>1. d \in calls'
      BY <1>4 DEF Opening, Waiting
    <3> QED
      BY <1>5, <1>11, <2>1, <3>1 DEF Awaited
  <2>2. CASE ts # t
    <3>1. ts \in DOMAIN log[n] /\ log'[n][ts] = log[n][ts]
      BY <1>2, <1>8, <1>15, <2>2
    <3>2. Shared(n, ts) \/ Awaited(ts)
      BY <3>1 DEF Opening, Matched
    <3>3. Shared(n, ts) => Shared(n, ts)'
      BY <1>2, <1>8, <1>12, <1>15, <2>2, <3>1 DEF Shared, SameSplit
    <3>4. Awaited(ts) => Awaited(ts)'
      BY <1>1, <1>4 DEF Awaited
    <3> QED
      BY <3>2, <3>3, <3>4
  <2> QED
    BY <2>1, <2>2
<1> QED
  BY <1>9, <1>10, <1>15, <1>16 DEF Opening

LEMMA ApprovedKeepsOpening ==
  ASSUME PInv, NEW o, Opening(o), NEW c \in calls, PayApproved(c)
  PROVE  Opening(o)'
<1> DEFINE me == c.req.from
           partner == Other(me)
           t == c.req.timestamp
           e == PayerEntry(AppId, c.req, ReceiverSignature(AppId, partner, c.req))
<1>1. IsCall(c) /\ Trace(c) /\ c.stage = "approved"
  BY CallParts DEF PayApproved
<1>2. /\ me \in Nodes /\ partner \in Nodes /\ me # partner /\ Other(partner) = me
      /\ t \in 1..MaxTime
  BY CallParts, OtherNode
<1>3. IsEntry(e, t) /\ SameSplit(c.req, e)
  BY <1>1 DEF IsEntry, SameSplit, PayerEntry, OffChainEntry, IsCall, IsRequest
<1>4. /\ log' = [log EXCEPT ![me] = Store(@, e)]
      /\ calls' = calls \ {c}
      /\ clock' = clock /\ losses' = losses
  BY DEF PayApproved
<1>5. t > o[me] /\ t > o[Other(me)]
  BY <1>1 DEF Opening, CallsLater
<1>6. t \in DOMAIN log[partner] /\ SameSplit(c.req, log[partner][t])
  BY <1>1 DEF Trace
<1>7. \A n \in Nodes : n = me \/ n = partner
  BY <1>2 DEF Nodes
<1>8. CallsLater(o)' /\ Waiting'
  BY <1>4 DEF Opening, CallsLater, Waiting
<1> HIDE DEF me, partner, t, e
<1>9. Other(me) = partner
  BY DEF partner
<1>10. PInv /\ Opening(o)
  OBVIOUS
<1>11. /\ OpeningKept(o)' /\ PaymentsLater(o)'
       /\ DOMAIN log'[me] = DOMAIN log[me] \cup {t}
       /\ log'[me][t] = e
       /\ \A ts \in DOMAIN log[me] : ts # t => log'[me][ts] = log[me][ts]
       /\ log'[Other(me)] = log[Other(me)]
  <2>1. /\ me \in Nodes /\ t \in 1..MaxTime /\ IsEntry(e, t) /\ clock' = clock
        /\ log' = [log EXCEPT ![me] = Store(@, e)]
        /\ t > o[me] /\ t > o[Other(me)]
    BY <1>2, <1>3, <1>4, <1>5
  <2> QED
    BY <1>10, <2>1, StoreKeepsOpening
<1>12. Matched(o)'
  <2> SUFFICES ASSUME losses = 0, NEW n \in Nodes, NEW ts \in DOMAIN log'[n],
                      ts # o[n]
               PROVE  Shared(n, ts)' \/ Awaited(ts)'
    BY <1>4 DEF Matched
  <2>1. CASE ts = t
    BY <1>2, <1>3, <1>6, <1>7, <1>9, <1>11, <2>1 DEF Shared, SameSplit
  <2>2. CASE ts # t
    <3>1. ts \in DOMAIN log[n] /\ log'[n][ts] = log[n][ts]
      BY <1>2, <1>7, <1>9, <1>11, <2>2
    <3>2. Shared(n, ts) \/ Awaited(ts)
      BY <3>1 DEF Opening, Matched
    <3>3. Shared(n, ts) => Shared(n, ts)'
      BY <1>2, <1>7, <1>9, <1>11, <2>2, <3>1 DEF Shared, SameSplit
    <3>4. Awaited(ts) => Awaited(ts)'
      BY <1>4, <2>2 DEF Awaited, t
    <3> QED
      BY <3>2, <3>3, <3>4
  <2> QED
    BY <2>1, <2>2
<1> QED
  BY <1>8, <1>11, <1>12 DEF Opening

-----------------------------------------------------------------------------
LEMMA NextAInv == AInv /\ [Next]_vars => AInv'
<1> SUFFICES ASSUME PInv, NEW o \in [Nodes -> 1..MaxTime], Opening(o), [Next]_vars
             PROVE  Opening(o)'
  BY NextPInv DEF AInv
<1>1. CASE \E n \in Nodes : \E amount \in Amounts, ts \in Now(n) : Pay(n, amount, ts)
  BY <1>1, PayKeepsOpening
<1>2. ASSUME NEW c \in calls,
             \/ CheckPayRequest(c)
             \/ SavePayRequest(c)
             \/ PayApproved(c)
             \/ PayRejected(c)
             \/ LoseRequest(c)
             \/ LoseResponse(c)
      PROVE  Opening(o)'
  BY <1>2, CheckKeepsOpening, SaveKeepsOpening, ApprovedKeepsOpening, DropKeepsOpening
<1>3. CASE UNCHANGED vars
  BY <1>3 DEF vars, Opening, OpeningKept, PaymentsLater, CallsLater, Matched,
              Waiting, Shared, Awaited
<1> QED
  BY <1>1, <1>2, <1>3 DEF Next

\* With no call outstanding and no connection lost both nodes have the same
\* latest balances, however many payments crossed: what is stored on one side
\* only is its opening state, and the check of timestamps makes that older than
\* every payment.
THEOREM LogsAgree == Spec => []LogsAgreeAtRest
<1> QED
  BY InitAInv, NextAInv, AInvAgrees, PTL DEF Spec
=============================================================================
