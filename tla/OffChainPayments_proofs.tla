---------------------- MODULE OffChainPayments_proofs ----------------------
(***************************************************************************)
(* Theorems about concurrent payments, for every deposit, reserve, word    *)
(* size and any number of calls in flight and of connections lost.         *)
(***************************************************************************)
EXTENDS OffChainPayments, OffChainState_proofs

-----------------------------------------------------------------------------
(* Words and nodes.                                                        *)
LEMMA UintType ==
  ASSUME NEW x \in Int
  PROVE  Uint(x) \in Balances
  BY UintSizeAssumption DEF Uint, Balances

LEMMA WordUint ==
  ASSUME NEW x \in Balances
  PROVE  Uint(x) = x
  BY UintSizeAssumption DEF Uint, Balances

LEMMA OtherNode ==
  ASSUME NEW n \in Nodes
  PROVE  Other(n) \in Nodes /\ Other(n) # n /\ Other(Other(n)) = n
  BY PaymentsAssumption DEF Nodes, Other

LEMMA ReadingParts ==
  ASSUME NEW n \in Nodes, NEW ts \in Now(n)
  PROVE  /\ ts \in 1..MaxTime /\ StampedBy(ts) = n
         /\ ts > clock[n]
  BY DEF Now, Readings

-----------------------------------------------------------------------------
(* Logs.  That a log has a latest state is part of being one, for Latest   *)
(* is a CHOOSE.                                                            *)
IsLog(l) ==
  /\ DOMAIN l \subseteq 1..MaxTime
  /\ \A ts \in DOMAIN l : IsEntry(l[ts], ts)
  /\ \E ts \in DOMAIN l : \A other \in DOMAIN l : other <= ts

LEMMA LatestIsEntry ==
  ASSUME NEW l, IsLog(l)
  PROVE  /\ LatestTimestamp(l) \in DOMAIN l
         /\ Latest(l) = l[LatestTimestamp(l)]
         /\ IsEntry(Latest(l), LatestTimestamp(l))
  BY DEF IsLog, LatestTimestamp, Latest

LEMMA StoreParts ==
  ASSUME NEW l, NEW e, NEW t, e.timestamp = t
  PROVE  /\ DOMAIN Store(l, e) = DOMAIN l \cup {t}
         /\ Store(l, e)[t] = e
         /\ \A ts \in DOMAIN l : ts # t => Store(l, e)[ts] = l[ts]
  BY DEF Store

LEMMA StoreIsLog ==
  ASSUME NEW l, IsLog(l), NEW e, NEW t \in 1..MaxTime, IsEntry(e, t)
  PROVE  IsLog(Store(l, e))
<1>1. e.timestamp = t
  BY DEF IsEntry
<1>2. /\ DOMAIN Store(l, e) = DOMAIN l \cup {t}
      /\ Store(l, e)[t] = e
      /\ \A ts \in DOMAIN l : ts # t => Store(l, e)[ts] = l[ts]
  BY <1>1 DEF Store
<1>3. \A ts \in DOMAIN Store(l, e) : IsEntry(Store(l, e)[ts], ts)
  <2>1. IsEntry(Store(l, e)[t], t)
    BY <1>2
  <2>2. ASSUME NEW ts \in DOMAIN l, ts # t
        PROVE  IsEntry(Store(l, e)[ts], ts)
    <3>1. Store(l, e)[ts] = l[ts]
      BY <1>2, <2>2
    <3> QED
      BY <3>1 DEF IsLog
  <2> QED
    BY <1>2, <2>1, <2>2
<1>4. PICK m \in DOMAIN l : \A other \in DOMAIN l : other <= m
  BY DEF IsLog
<1>5. m \in Int /\ t \in Int /\ DOMAIN l \subseteq Int
  BY <1>4 DEF IsLog
<1>6. \E ts \in DOMAIN Store(l, e) : \A other \in DOMAIN Store(l, e) : other <= ts
  <2>1. CASE t <= m
    BY <1>2, <1>4, <2>1
  <2>2. CASE ~(t <= m)
    <3>1. \A other \in DOMAIN l \cup {t} : other <= t
      BY <1>4, <1>5, <2>2
    <3> QED
      BY <1>2, <3>1
  <2> QED
    BY <2>1, <2>2
<1>7. DOMAIN Store(l, e) \subseteq 1..MaxTime
  BY <1>2 DEF IsLog
<1> QED
  BY <1>3, <1>6, <1>7 DEF IsLog

-----------------------------------------------------------------------------
(* The inductive invariant.                                                *)

\* What the payer sends.
IsRequest(r) ==
  /\ r.from \in Nodes
  /\ r.timestamp \in 1..MaxTime
  /\ StampedBy(r.timestamp) = r.from
  /\ r.alice_balance \in Balances /\ r.bob_balance \in Balances
  /\ r.signature = SignState(AppId, r.from, r.alice_balance, r.bob_balance, r.timestamp)

IsCall(c) ==
  /\ c = [req |-> c.req, stage |-> c.stage, waiting |-> c.waiting]
  /\ IsRequest(c.req)
  /\ c.stage \in Stages /\ c.waiting \in BOOLEAN

Typed ==
  /\ log = [n \in Nodes |-> log[n]]
  /\ \A n \in Nodes : IsLog(log[n])
  /\ clock \in [Nodes -> 1..MaxTime]
  /\ \A c \in calls : IsCall(c)
  /\ losses \in 0..MaxLosses

\* Nobody has a state from the future: readings of a clock are fresh.
Fresh ==
  /\ \A n \in Nodes : \A ts \in DOMAIN log[n] : ts <= clock[StampedBy(ts)]
  /\ \A c \in calls : c.req.timestamp <= clock[c.req.from]

\* No two calls have the same timestamp.
Distinct ==
  \A c, d \in calls : c.req.timestamp = d.req.timestamp => c = d

SameSplit(e, f) ==
  e.alice_balance = f.alice_balance /\ e.bob_balance = f.bob_balance

\* A call has left no trace before its handler stores the state, and one at the
\* handler only until the payer gets the answer.
Trace(c) ==
  LET n == c.req.from
      ts == c.req.timestamp
  IN  /\ ts \notin DOMAIN log[n]
      /\ c.stage \in {"sent", "checked"} => ts \notin DOMAIN log[Other(n)]
      /\ c.stage = "approved" =>
           ts \in DOMAIN log[Other(n)] /\ SameSplit(c.req, log[Other(n)][ts])

Traces == \A c \in calls : Trace(c)

\* PayerNeverAhead, by timestamp.
Ahead ==
  \A n \in Nodes : \A ts \in DOMAIN log[n] :
    (StampedBy(ts) = n /\ log[n][ts].alice_signature # NoSignature) =>
      ts \in DOMAIN log[Other(n)] /\ SameSplit(log[n][ts], log[Other(n)][ts])

PInv == Typed /\ Fresh /\ Distinct /\ Traces /\ Ahead

LEMMA PInvImplies == PInv => TypeOK /\ PayerNeverAhead
<1> SUFFICES ASSUME PInv PROVE TypeOK /\ PayerNeverAhead
  OBVIOUS
<1>1. TypeOK
  BY DEF PInv, Typed, TypeOK, IsLog, IsCall, IsRequest
<1>2. ASSUME NEW n \in Nodes, NEW e \in Paid(n), Payer(e) = n
      PROVE  /\ e.timestamp \in DOMAIN log[Other(n)]
             /\ SameSplit(log[Other(n)][e.timestamp], e)
  <2>1. PICK ts \in DOMAIN log[n] : e = log[n][ts] /\ e.alice_signature # NoSignature
    BY DEF Paid
  <2>2. e.timestamp = ts
    BY <2>1 DEF PInv, Typed, IsLog, IsEntry
  <2> QED
    BY <1>2, <2>1, <2>2 DEF PInv, Ahead, Payer, SameSplit
<1>3. PayerNeverAhead
  BY <1>2 DEF PayerNeverAhead, SameSplit
<1> QED
  BY <1>1, <1>3

-----------------------------------------------------------------------------
(* The initial states.                                                     *)
LEMMA OpenedLog ==
  ASSUME NEW ts \in 1..MaxTime
  PROVE  /\ DOMAIN Store(EmptyLog, OpenedState(ts)) = {ts}
         /\ Store(EmptyLog, OpenedState(ts))[ts] = OpenedState(ts)
         /\ IsEntry(OpenedState(ts), ts)
         /\ IsLog(Store(EmptyLog, OpenedState(ts)))
<1>1. OpenedState(ts).timestamp = ts
  BY DEF OpenedState, OffChainEntry
<1>2. /\ DOMAIN Store(EmptyLog, OpenedState(ts)) = {ts}
      /\ Store(EmptyLog, OpenedState(ts))[ts] = OpenedState(ts)
  BY <1>1 DEF Store, EmptyLog
<1>3. 0 \in Balances /\ Deposit \in Balances
  BY UintSizeAssumption, PaymentsAssumption DEF Balances
<1>4. IsEntry(OpenedState(ts), ts)
  BY <1>3 DEF IsEntry, OpenedState, OffChainEntry
<1>5. ts <= ts
  OBVIOUS
<1> QED
  BY <1>2, <1>4, <1>5 DEF IsLog

LEMMA InitPInv == Init => PInv
<1> SUFFICES ASSUME Init PROVE PInv
  OBVIOUS
<1>1. /\ clock \in [Nodes -> 1..MaxTime]
      /\ \A n \in Nodes : StampedBy(clock[n]) = n
  BY DEF Init
<1>2. /\ log = [n \in Nodes |-> log[n]]
      /\ \A n \in Nodes : log[n] = Store(EmptyLog, OpenedState(clock[n]))
  BY DEF Init
<1>3. ASSUME NEW n \in Nodes
      PROVE  /\ DOMAIN log[n] = {clock[n]}
             /\ log[n][clock[n]] = OpenedState(clock[n])
             /\ IsLog(log[n])
  <2>1. clock[n] \in 1..MaxTime
    BY <1>1
  <2> QED
    BY <1>2, <2>1, OpenedLog
<1>4. calls = {} /\ losses \in 0..MaxLosses
  BY PaymentsAssumption DEF Init
<1>5. Typed
  BY <1>1, <1>2, <1>3, <1>4 DEF Typed
<1>6. Fresh
  <2>1. ASSUME NEW n \in Nodes PROVE clock[n] <= clock[n]
    BY <1>1
  <2> QED
    BY <1>1, <1>3, <1>4, <2>1 DEF Fresh
<1>7. Ahead
  <2>1. \A ts : OpenedState(ts).alice_signature = NoSignature
    BY DEF OpenedState, OffChainEntry
  <2> QED
    BY <1>3, <2>1 DEF Ahead
<1> QED
  BY <1>4, <1>5, <1>6, <1>7 DEF PInv, Distinct, Traces

-----------------------------------------------------------------------------
(* Steps that move one call on, or drop it.                                *)
LEMMA MoveParts ==
  ASSUME Typed, Fresh, Distinct, NEW c \in calls, NEW d, IsCall(d),
         d.req = c.req, calls' \subseteq (calls \ {c}) \cup {d},
         clock' = clock
  PROVE  /\ \A x \in calls' : IsCall(x)
         /\ \A x \in calls' : x.req.timestamp <= clock'[x.req.from]
         /\ \A x \in calls' : x = d \/ x.req.timestamp # c.req.timestamp
         /\ Distinct'
<1>1. \A x \in calls' : x = d \/ (x \in calls /\ x # c)
  OBVIOUS
<1>2. \A x \in calls' : IsCall(x)
  BY <1>1 DEF Typed
<1>3. \A x \in calls' : x.req.timestamp <= clock'[x.req.from]
  BY <1>1 DEF Fresh
<1>4. \A x \in calls' : x = d \/ x.req.timestamp # c.req.timestamp
  BY <1>1 DEF Distinct
<1>5. Distinct'
  BY <1>1, <1>4 DEF Distinct
<1> QED
  BY <1>2, <1>3, <1>4, <1>5

LEMMA QuietMove ==
  ASSUME PInv, NEW c \in calls, NEW d, IsCall(d), d.req = c.req, Trace(d),
         calls' \subseteq (calls \ {c}) \cup {d},
         log' = log, clock' = clock, losses' \in 0..MaxLosses
  PROVE  PInv'
<1>1. /\ \A x \in calls' : IsCall(x)
      /\ \A x \in calls' : x.req.timestamp <= clock'[x.req.from]
      /\ Distinct'
  BY MoveParts DEF PInv
<1>2. Typed'
  BY <1>1 DEF PInv, Typed
<1>3. Fresh'
  BY <1>1 DEF PInv, Fresh
<1>4. Traces'
  BY DEF PInv, Traces, Trace
<1>5. Ahead'
  BY DEF PInv, Ahead
<1> QED
  BY <1>1, <1>2, <1>3, <1>4, <1>5 DEF PInv

LEMMA CallParts ==
  ASSUME PInv, NEW c \in calls
  PROVE  /\ IsCall(c) /\ Trace(c)
         /\ c.req.from \in Nodes
         /\ c.req.timestamp \in 1..MaxTime
         /\ StampedBy(c.req.timestamp) = c.req.from
  BY DEF PInv, Typed, IsCall, IsRequest, Traces

LEMMA CallUpdates ==
  ASSUME NEW R, NEW c \in [req : R, stage : Stages, waiting : BOOLEAN],
         NEW s \in Stages, NEW w \in BOOLEAN
  PROVE  /\ [c EXCEPT !.stage = s] =
              [req |-> c.req, stage |-> s, waiting |-> c.waiting]
         /\ [c EXCEPT !.waiting = w] =
              [req |-> c.req, stage |-> c.stage, waiting |-> w]
<1>1. [c EXCEPT !.stage = s] = [req |-> c.req, stage |-> s, waiting |-> c.waiting]
  OBVIOUS
<1>2. [c EXCEPT !.waiting = w] = [req |-> c.req, stage |-> c.stage, waiting |-> w]
  OBVIOUS
<1> QED
  BY <1>1, <1>2

LEMMA SameRequest ==
  ASSUME NEW c, IsCall(c), NEW s \in Stages, NEW w \in BOOLEAN
  PROVE  /\ IsCall([c EXCEPT !.stage = s])
         /\ [c EXCEPT !.stage = s].req = c.req
         /\ [c EXCEPT !.stage = s].stage = s
         /\ IsCall([c EXCEPT !.waiting = w])
         /\ [c EXCEPT !.waiting = w].req = c.req
         /\ [c EXCEPT !.waiting = w].stage = c.stage
<1>1. c \in [req : {c.req}, stage : Stages, waiting : BOOLEAN]
  BY DEF IsCall
<1>2. /\ [c EXCEPT !.stage = s] =
           [req |-> c.req, stage |-> s, waiting |-> c.waiting]
      /\ [c EXCEPT !.waiting = w] =
           [req |-> c.req, stage |-> c.stage, waiting |-> w]
  BY <1>1, CallUpdates
<1>3. /\ IsCall([req |-> c.req, stage |-> s, waiting |-> c.waiting])
      /\ IsCall([req |-> c.req, stage |-> c.stage, waiting |-> w])
  BY DEF IsCall
<1> QED
  BY <1>2, <1>3

LEMMA CheckStep ==
  ASSUME PInv, NEW c \in calls, CheckPayRequest(c)
  PROVE  PInv'
<1>1. PICK s \in {"checked", "rejected"} :
        /\ calls' \subseteq (calls \ {c}) \cup {[c EXCEPT !.stage = s]}
        /\ c.stage = "sent" /\ UNCHANGED <<log, clock, losses>>
  BY DEF CheckPayRequest, Proceed
<1> DEFINE d == [c EXCEPT !.stage = s]
<1>2. IsCall(d) /\ d.req = c.req /\ d.stage = s
  <2>1. s \in Stages
    BY DEF Stages
  <2> QED
    BY <2>1, CallParts, SameRequest
<1>3. Trace(d)
  BY <1>1, <1>2, CallParts DEF Trace
<1>4. losses' \in 0..MaxLosses
  BY <1>1 DEF PInv, Typed
<1> HIDE DEF d
<1> QED
  BY <1>1, <1>2, <1>3, <1>4, QuietMove DEF d

LEMMA DropStep ==
  ASSUME PInv, NEW c \in calls, PayRejected(c) \/ LoseRequest(c)
  PROVE  PInv'
<1>1. calls' \subseteq (calls \ {c}) \cup {c} /\ log' = log /\ clock' = clock
  BY DEF PayRejected, LoseRequest
<1>2. losses' \in 0..MaxLosses
  BY PaymentsAssumption DEF PInv, Typed, PayRejected, LoseRequest
<1> QED
  BY <1>1, <1>2, CallParts, QuietMove

LEMMA LoseResponseStep ==
  ASSUME PInv, NEW c \in calls, LoseResponse(c)
  PROVE  PInv'
<1> DEFINE d == [c EXCEPT !.waiting = FALSE]
<1>1. calls' \subseteq (calls \ {c}) \cup {d} /\ log' = log /\ clock' = clock
  BY DEF LoseResponse
<1>2. IsCall(d) /\ d.req = c.req /\ d.stage = c.stage
  BY CallParts, SameRequest DEF IsCall
<1>3. Trace(d)
  BY <1>2, CallParts DEF Trace
<1>4. losses' \in 0..MaxLosses
  BY PaymentsAssumption DEF PInv, Typed, LoseResponse
<1> HIDE DEF d
<1> QED
  BY <1>1, <1>2, <1>3, <1>4, QuietMove

-----------------------------------------------------------------------------
(* Steps that store a state.                                               *)
LEMMA SavedLog ==
  ASSUME Typed, NEW me \in Nodes, NEW e, NEW t \in 1..MaxTime, IsEntry(e, t),
         log' = [log EXCEPT ![me] = Store(@, e)]
  PROVE  /\ log' = [n \in Nodes |-> log'[n]]
         /\ \A n \in Nodes : IsLog(log'[n])
         /\ DOMAIN log'[me] = DOMAIN log[me] \cup {t}
         /\ log'[me][t] = e
         /\ \A ts \in DOMAIN log[me] : ts # t => log'[me][ts] = log[me][ts]
         /\ log'[Other(me)] = log[Other(me)]
<1>1. log = [n \in Nodes |-> log[n]] /\ \A n \in Nodes : IsLog(log[n])
  BY DEF Typed
<1>2. /\ log' = [n \in Nodes |-> log'[n]]
      /\ log'[me] = Store(log[me], e)
      /\ \A n \in Nodes : n # me => log'[n] = log[n]
  BY <1>1
<1>3. IsLog(Store(log[me], e))
  BY <1>1, StoreIsLog
<1>4. \A n \in Nodes : IsLog(log'[n])
  BY <1>1, <1>2, <1>3
<1>5. e.timestamp = t
  BY DEF IsEntry
<1>6. /\ DOMAIN log'[me] = DOMAIN log[me] \cup {t}
      /\ log'[me][t] = e
      /\ \A ts \in DOMAIN log[me] : ts # t => log'[me][ts] = log[me][ts]
  BY <1>2, <1>5 DEF Store
<1>7. log'[Other(me)] = log[Other(me)]
  BY <1>2, OtherNode
<1> QED
  BY <1>2, <1>4, <1>6, <1>7

\* A call other than the one whose state is stored keeps its trace.
LEMMA OthersKeepTrace ==
  ASSUME PInv, NEW me \in Nodes, NEW t \in 1..MaxTime,
         DOMAIN log'[me] = DOMAIN log[me] \cup {t},
         \A ts \in DOMAIN log[me] : ts # t => log'[me][ts] = log[me][ts],
         log'[Other(me)] = log[Other(me)],
         NEW x \in calls, x.req.timestamp # t
  PROVE  Trace(x)'
<1>1. Trace(x) /\ x.req.from \in Nodes
  BY CallParts
<1>2. x.req.from = me \/ x.req.from = Other(me)
  BY <1>1 DEF Nodes, Other
<1> QED
  BY <1>1, <1>2, OtherNode DEF Trace

LEMMA SaveStep ==
  ASSUME PInv, NEW c \in calls, SavePayRequest(c)
  PROVE  PInv'
<1> DEFINE payer == c.req.from
           me == Other(payer)
           t == c.req.timestamp
           e == ReceiverEntry(AppId, me, MeAlice(me), c.req)
           d == [c EXCEPT !.stage = "approved"]
<1>1. IsCall(c) /\ Trace(c) /\ c.stage = "checked"
  BY CallParts DEF SavePayRequest
<1>2. /\ payer \in Nodes /\ me \in Nodes /\ me # payer /\ Other(me) = payer
      /\ t \in 1..MaxTime /\ StampedBy(t) = payer
  BY CallParts, OtherNode
<1>3. IsEntry(e, t) /\ SameSplit(c.req, e)
  BY <1>1 DEF IsEntry, SameSplit, ReceiverEntry, OffChainEntry, IsCall, IsRequest
<1>4. /\ log' = [log EXCEPT ![me] = Store(@, e)]
      /\ calls' \subseteq (calls \ {c}) \cup {d}
      /\ clock' = clock /\ losses' = losses
  BY DEF SavePayRequest, Proceed
<1>5. IsCall(d) /\ d.req = c.req /\ d.stage = "approved"
  <2>1. "approved" \in Stages /\ TRUE \in BOOLEAN
    BY DEF Stages
  <2> QED
    BY <1>1, <2>1, SameRequest
<1>6. Typed /\ Fresh /\ Distinct /\ Traces /\ Ahead
  BY DEF PInv
<1> HIDE DEF payer, me, t, e, d
<1>7. /\ log' = [n \in Nodes |-> log'[n]]
      /\ \A n \in Nodes : IsLog(log'[n])
      /\ DOMAIN log'[me] = DOMAIN log[me] \cup {t}
      /\ log'[me][t] = e
      /\ \A ts \in DOMAIN log[me] : ts # t => log'[me][ts] = log[me][ts]
      /\ log'[payer] = log[payer]
  <2>1. /\ Typed /\ me \in Nodes /\ t \in 1..MaxTime /\ IsEntry(e, t)
        /\ log' = [log EXCEPT ![me] = Store(@, e)]
    BY <1>2, <1>3, <1>4, <1>6
  <2>2. /\ log' = [n \in Nodes |-> log'[n]]
        /\ \A n \in Nodes : IsLog(log'[n])
        /\ DOMAIN log'[me] = DOMAIN log[me] \cup {t}
        /\ log'[me][t] = e
        /\ \A ts \in DOMAIN log[me] : ts # t => log'[me][ts] = log[me][ts]
        /\ log'[Other(me)] = log[Other(me)]
    BY <2>1, SavedLog
  <2> QED
    BY <1>2, <2>2
<1>8. /\ \A x \in calls' : IsCall(x)
      /\ \A x \in calls' : x.req.timestamp <= clock'[x.req.from]
      /\ \A x \in calls' : x = d \/ x.req.timestamp # t
      /\ Distinct'
  BY <1>4, <1>5, <1>6, MoveParts DEF t
<1>9. t \notin DOMAIN log[payer] /\ t \notin DOMAIN log[me]
  BY <1>1 DEF Trace, payer, me, t
<1>10. \A n \in Nodes : n = me \/ n = payer
  BY <1>2 DEF Nodes
<1>11. Typed'
  BY <1>4, <1>6, <1>7, <1>8 DEF Typed
<1>12. Fresh'
  <2>1. t <= clock[StampedBy(t)]
    BY <1>2, <1>6 DEF Fresh, t, payer
  <2>2. \A n \in Nodes : \A ts \in DOMAIN log'[n] : ts <= clock'[StampedBy(ts)]
    BY <1>4, <1>6, <1>7, <1>10, <2>1 DEF Fresh
  <2> QED
    BY <1>8, <2>2 DEF Fresh
<1>13. Traces'
  <2>1. Trace(d)'
    BY <1>2, <1>3, <1>5, <1>7, <1>9 DEF Trace, payer, me, t
  <2>2. ASSUME NEW x \in calls', x # d PROVE Trace(x)'
    BY <1>2, <1>4, <1>7, <1>8, <2>2, OthersKeepTrace
  <2> QED
    BY <2>1, <2>2 DEF Traces
<1>14. Ahead'
  <2>1. ASSUME NEW ts \in DOMAIN log'[payer], StampedBy(ts) = payer,
               log'[payer][ts].alice_signature # NoSignature
        PROVE  /\ ts \in DOMAIN log'[me]
               /\ SameSplit(log'[payer][ts], log'[me][ts])
    <3>1. ts \in DOMAIN log[payer] /\ ts # t
      BY <1>7, <1>9, <2>1
    <3>2. ts \in DOMAIN log[me] /\ SameSplit(log[payer][ts], log[me][ts])
      BY <1>2, <1>6, <1>7, <2>1, <3>1 DEF Ahead, me
    <3> QED
      BY <1>7, <3>1, <3>2 DEF SameSplit
  <2>2. ASSUME NEW ts \in DOMAIN log'[me], StampedBy(ts) = me,
               log'[me][ts].alice_signature # NoSignature
        PROVE  /\ ts \in DOMAIN log'[payer]
               /\ SameSplit(log'[me][ts], log'[payer][ts])
    <3>1. ts \in DOMAIN log[me] /\ log'[me][ts] = log[me][ts]
      BY <1>2, <1>7, <2>2
    <3> QED
      BY <1>2, <1>6, <1>7, <2>2, <3>1 DEF Ahead
  <2> QED
    BY <1>2, <1>10, <2>1, <2>2 DEF Ahead, me
<1> QED
  BY <1>8, <1>11, <1>12, <1>13, <1>14 DEF PInv

LEMMA ApprovedStep ==
  ASSUME PInv, NEW c \in calls, PayApproved(c)
  PROVE  PInv'
<1> DEFINE me == c.req.from
           partner == Other(me)
           t == c.req.timestamp
           e == PayerEntry(AppId, c.req, ReceiverSignature(AppId, partner, c.req))
<1>1. IsCall(c) /\ Trace(c) /\ c.stage = "approved"
  BY CallParts DEF PayApproved
<1>2. /\ me \in Nodes /\ partner \in Nodes /\ me # partner /\ Other(partner) = me
      /\ t \in 1..MaxTime /\ StampedBy(t) = me
  BY CallParts, OtherNode
<1>3. IsEntry(e, t) /\ SameSplit(c.req, e)
  BY <1>1 DEF IsEntry, SameSplit, PayerEntry, OffChainEntry, IsCall, IsRequest
<1>4. /\ log' = [log EXCEPT ![me] = Store(@, e)]
      /\ calls' \subseteq calls \ {c}
      /\ calls' \subseteq (calls \ {c}) \cup {c}
      /\ clock' = clock /\ losses' = losses
  BY DEF PayApproved
<1>5. Typed /\ Fresh /\ Distinct /\ Traces /\ Ahead
  BY DEF PInv
<1> HIDE DEF me, partner, t, e
<1>6. /\ log' = [n \in Nodes |-> log'[n]]
      /\ \A n \in Nodes : IsLog(log'[n])
      /\ DOMAIN log'[me] = DOMAIN log[me] \cup {t}
      /\ log'[me][t] = e
      /\ \A ts \in DOMAIN log[me] : ts # t => log'[me][ts] = log[me][ts]
      /\ log'[Other(me)] = log[Other(me)]
  BY <1>2, <1>3, <1>4, <1>5, SavedLog
<1>7. /\ \A x \in calls' : IsCall(x)
      /\ \A x \in calls' : x.req.timestamp <= clock'[x.req.from]
      /\ \A x \in calls' : x = c \/ x.req.timestamp # t
      /\ Distinct'
  BY <1>1, <1>4, <1>5, MoveParts DEF t
<1>8. t \in DOMAIN log[partner] /\ SameSplit(c.req, log[partner][t])
  BY <1>1 DEF Trace, me, partner, t
<1>9. \A n \in Nodes : n = me \/ n = partner
  BY <1>2 DEF Nodes
<1>10. log'[partner] = log[partner]
  BY <1>6 DEF partner
<1>11. Typed'
  BY <1>4, <1>5, <1>6, <1>7 DEF Typed
<1>12. Fresh'
  <2>1. t <= clock[StampedBy(t)]
    BY <1>2, <1>5 DEF Fresh, t, me
  <2>2. \A n \in Nodes : \A ts \in DOMAIN log'[n] : ts <= clock'[StampedBy(ts)]
    BY <1>4, <1>5, <1>6, <1>9, <1>10, <2>1 DEF Fresh
  <2> QED
    BY <1>7, <2>2 DEF Fresh
<1>13. Traces'
  <2>1. ASSUME NEW x \in calls' PROVE Trace(x)'
    BY <1>2, <1>4, <1>6, <1>7, OthersKeepTrace
  <2> QED
    BY <2>1 DEF Traces
<1>14. Ahead'
  <2>1. ASSUME NEW ts \in DOMAIN log'[me], StampedBy(ts) = me,
               log'[me][ts].alice_signature # NoSignature
        PROVE  /\ ts \in DOMAIN log'[partner]
               /\ SameSplit(log'[me][ts], log'[partner][ts])
    <3>1. CASE ts = t
      BY <1>3, <1>6, <1>8, <1>10, <3>1 DEF SameSplit
    <3>2. CASE ts # t
      <4>1. ts \in DOMAIN log[me] /\ log'[me][ts] = log[me][ts]
        BY <1>6, <2>1, <3>2
      <4> QED
        BY <1>2, <1>5, <1>10, <2>1, <4>1 DEF Ahead, partner
    <3> QED
      BY <3>1, <3>2
  <2>2. ASSUME NEW ts \in DOMAIN log'[partner], StampedBy(ts) = partner,
               log'[partner][ts].alice_signature # NoSignature
        PROVE  /\ ts \in DOMAIN log'[me]
               /\ SameSplit(log'[partner][ts], log'[me][ts])
    <3>1. ts # t
      BY <1>2, <2>2
    <3>2. ts \in DOMAIN log[me] /\ SameSplit(log[partner][ts], log[me][ts])
      BY <1>2, <1>5, <1>10, <2>2 DEF Ahead
    <3> QED
      BY <1>6, <1>10, <3>1, <3>2
  <2> QED
    BY <1>2, <1>9, <2>1, <2>2 DEF Ahead, partner
<1> QED
  BY <1>7, <1>11, <1>12, <1>13, <1>14 DEF PInv

-----------------------------------------------------------------------------
(* A new call.                                                             *)
LEMMA RequestType ==
  ASSUME NEW n \in Nodes, NEW last, NEW lt, IsEntry(last, lt),
         NEW amount \in Amounts, NEW ts \in 1..MaxTime, StampedBy(ts) = n
  PROVE  LET r == PayRequest(AppId, n, MeAlice(n), last, amount, ts)
         IN  IsRequest(r) /\ r.from = n /\ r.timestamp = ts
<1> DEFINE r == PayRequest(AppId, n, MeAlice(n), last, amount, ts)
           mine == Uint(BalanceOf(MeAlice(n), last) - amount)
           theirs == Uint(BalanceOf(~MeAlice(n), last) + amount)
<1>1. /\ BalanceOf(MeAlice(n), last) \in Int
      /\ BalanceOf(~MeAlice(n), last) \in Int
      /\ amount \in Int
  BY UintSizeAssumption, PaymentsAssumption DEF IsEntry, Balances, BalanceOf
<1>2. /\ BalanceOf(MeAlice(n), last) - amount \in Int
      /\ BalanceOf(~MeAlice(n), last) + amount \in Int
  BY <1>1
<1>3. mine \in Balances /\ theirs \in Balances
  BY <1>2, UintType
<1> HIDE DEF mine, theirs
<1>4. /\ r.from = n /\ r.timestamp = ts
      /\ r.alice_balance = (IF MeAlice(n) THEN mine ELSE theirs)
      /\ r.bob_balance = (IF MeAlice(n) THEN theirs ELSE mine)
      /\ r.signature = SignState(AppId, n, r.alice_balance, r.bob_balance, ts)
  BY DEF PayRequest, mine, theirs
<1> HIDE DEF r
<1>5. r.alice_balance \in Balances /\ r.bob_balance \in Balances
  BY <1>3, <1>4
<1>6. IsRequest(r)
  BY <1>4, <1>5 DEF IsRequest
<1> QED
  BY <1>4, <1>6 DEF r

LEMMA PayStep ==
  ASSUME PInv, NEW n \in Nodes, NEW amount \in Amounts, NEW ts \in Now(n),
         Pay(n, amount, ts)
  PROVE  PInv'
<1> DEFINE r == PayRequest(AppId, n, MeAlice(n), Latest(log[n]), amount, ts)
<1>1. ts \in 1..MaxTime /\ StampedBy(ts) = n /\ ts > clock[n]
  BY ReadingParts
<1>2. IsRequest(r) /\ r.from = n /\ r.timestamp = ts
  <2>1. IsLog(log[n])
    BY DEF PInv, Typed
  <2>2. IsEntry(Latest(log[n]), LatestTimestamp(log[n]))
    BY <2>1, LatestIsEntry
  <2> QED
    BY <1>1, <2>2, RequestType
<1>3. PICK d : d = [req |-> r, stage |-> "sent", waiting |-> TRUE]
  OBVIOUS
<1>4. /\ calls' = calls \cup {d}
      /\ clock' = [clock EXCEPT ![n] = ts]
      /\ log' = log /\ losses' = losses
  BY <1>3 DEF Pay
<1> HIDE DEF r
<1>5. /\ IsCall(d) /\ d.stage = "sent"
      /\ d.req.from = n /\ d.req.timestamp = ts
  BY <1>2, <1>3 DEF IsCall, Stages
<1>6. Typed /\ Fresh /\ Distinct /\ Traces /\ Ahead
  BY DEF PInv
<1>7. /\ clock' \in [Nodes -> 1..MaxTime] /\ clock'[n] = ts
      /\ \A m \in Nodes : clock[m] <= clock'[m]
      /\ \A m \in Nodes : clock[m] \in Int /\ clock'[m] \in Int
  BY <1>1, <1>4, <1>6 DEF Typed
<1>8. \A m \in Nodes : ts \notin DOMAIN log[m]
  BY <1>1, <1>6, <1>7 DEF Fresh, Typed, IsLog
<1>9. \A x \in calls : x.req.timestamp # ts
  <2>1. ASSUME NEW x \in calls, x.req.timestamp = ts PROVE FALSE
    <3>1. x.req.from = n
      BY <1>1, <2>1, CallParts
    <3> QED
      BY <1>1, <1>6, <1>7, <2>1, <3>1 DEF Fresh
  <2> QED
    BY <2>1
<1>10. Typed'
  BY <1>4, <1>5, <1>6, <1>7 DEF Typed
<1>11. Fresh'
  <2>1. ASSUME NEW m \in Nodes, NEW s \in DOMAIN log[m]
        PROVE  s <= clock'[StampedBy(s)]
    <3>1. s <= clock[StampedBy(s)] /\ s \in Int /\ StampedBy(s) \in Nodes
      BY <1>6 DEF Fresh, Typed, IsLog, StampedBy, Nodes
    <3> QED
      BY <1>7, <3>1
  <2>2. ASSUME NEW x \in calls PROVE x.req.timestamp <= clock'[x.req.from]
    <3>1. /\ x.req.timestamp <= clock[x.req.from]
          /\ x.req.timestamp \in Int /\ x.req.from \in Nodes
      BY <1>6, CallParts DEF Fresh
    <3> QED
      BY <1>7, <3>1
  <2>3. d.req.timestamp <= clock'[d.req.from]
    BY <1>1, <1>2, <1>5, <1>7
  <2> QED
    BY <1>4, <2>1, <2>2, <2>3 DEF Fresh
<1>12. Distinct'
  BY <1>2, <1>4, <1>5, <1>6, <1>9 DEF Distinct
<1>13. Traces'
  <2>1. Trace(d)'
    BY <1>2, <1>4, <1>5, <1>8, OtherNode DEF Trace
  <2>2. ASSUME NEW x \in calls PROVE Trace(x)'
    BY <1>4, <1>6 DEF Traces, Trace
  <2> QED
    BY <1>4, <2>1, <2>2 DEF Traces
<1>14. Ahead'
  BY <1>4, <1>6 DEF Ahead
<1> QED
  BY <1>10, <1>11, <1>12, <1>13, <1>14 DEF PInv

-----------------------------------------------------------------------------
LEMMA NextPInv == PInv /\ [Next]_vars => PInv'
<1> SUFFICES ASSUME PInv, [Next]_vars PROVE PInv'
  OBVIOUS
<1>1. CASE \E n \in Nodes : \E amount \in Amounts, ts \in Now(n) : Pay(n, amount, ts)
  BY <1>1, PayStep
<1>2. ASSUME NEW c \in calls,
             \/ CheckPayRequest(c)
             \/ SavePayRequest(c)
             \/ PayApproved(c)
             \/ PayRejected(c)
             \/ LoseRequest(c)
             \/ LoseResponse(c)
      PROVE  PInv'
  BY <1>2, CheckStep, SaveStep, ApprovedStep, DropStep, LoseResponseStep
<1>3. CASE UNCHANGED vars
  BY <1>3 DEF vars, PInv, Typed, Fresh, Distinct, Traces, Trace, Ahead
<1> QED
  BY <1>1, <1>2, <1>3 DEF Next

\* The invariant is one of the specification.
THEOREM PaymentsInvariance == Spec => []PInv
<1> QED
  BY InitPInv, NextPInv, PTL DEF Spec

\* Logs, clocks and calls keep their types, whatever is in flight: every state
\* a node has stored is filed under its own timestamp, with balances that are
\* words, even where Pay has wrapped around.
THEOREM PaymentsTyped == Spec => []TypeOK
<1> QED
  BY PaymentsInvariance, PInvImplies, PTL

\* A payer never counts a payment that its partner does not hold: handlers
\* store before they answer, and two calls never share a timestamp, so that no
\* later payment of either side replaces what was agreed.
THEOREM PayerIsNeverAhead == Spec => []PayerNeverAhead
<1> QED
  BY PaymentsInvariance, PInvImplies, PTL
=============================================================================
