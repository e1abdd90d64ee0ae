--------------------- MODULE OffChainEnforcement_proofs ---------------------
(***************************************************************************)
(* What a node that was paid can do with the states in its log, for every  *)
(* deposit, reserve, word size and any number of calls in flight: as long  *)
(* as no user asks to pay more than there is, no balance wraps around,     *)
(* every stored payment leaves its payer the penalty, and the contract     *)
(* takes it from the receiver.  With one call at a time, besides, every    *)
(* payment stored benefits its receiver, and the two logs implement one    *)
(* pair of balances (AtomicPayments).                                      *)
(***************************************************************************)
EXTENDS OffChainPayments_proofs, FiniteSetTheorems

-----------------------------------------------------------------------------
(* The inductive invariant, beside PInv.                                   *)
Balanced(e) == e.alice_balance + e.bob_balance = Deposit

KeepsReserve(payer, e) == BalanceOf(payer = Alice, e) >= PenaltyReserve

CoSigned(e, ts) ==
  /\ e.alice_signature = SignState(AppId, Alice, e.alice_balance, e.bob_balance, ts)
  /\ e.bob_signature = SignState(AppId, Bob, e.alice_balance, e.bob_balance, ts)

GoodEntry(n, ts, e) ==
  /\ Balanced(e)
  /\ e.alice_signature # NoSignature =>
       /\ KeepsReserve(StampedBy(ts), e)
       /\ StampedBy(ts) # n => CoSigned(e, ts)

GoodCall(c) ==
  /\ Balanced(c.req)
  /\ c.stage \in {"checked", "approved"} => KeepsReserve(c.req.from, c.req)

GoodLogs == \A n \in Nodes : \A ts \in DOMAIN log[n] : GoodEntry(n, ts, log[n][ts])
GoodCalls == \A c \in calls : GoodCall(c)

EInv == PInv /\ GoodLogs /\ GoodCalls

LEMMA GoodCallOfRequest ==
  ASSUME NEW c, NEW d, GoodCall(c), d.req = c.req,
         d.stage = c.stage \/ d.stage = "rejected"
                           \/ (d.stage \in {"checked", "approved"}
                                 /\ KeepsReserve(c.req.from, c.req))
  PROVE  GoodCall(d)
  BY DEF GoodCall

LEMMA InitEInv == Init => EInv
<1> SUFFICES ASSUME Init PROVE EInv
  OBVIOUS
<1>1. PInv
  BY InitPInv
<1>2. calls = {} /\ \A n \in Nodes : log[n] = Store(EmptyLog, OpenedState(clock[n]))
  BY DEF Init
<1>3. ASSUME NEW ts PROVE /\ OpenedState(ts).alice_balance = Deposit
                          /\ OpenedState(ts).bob_balance = 0
                          /\ OpenedState(ts).alice_signature = NoSignature
  BY DEF OpenedState, OffChainEntry
<1>4. ASSUME NEW n \in Nodes, NEW ts \in DOMAIN log[n]
      PROVE  GoodEntry(n, ts, log[n][ts])
  <2>1. clock[n] \in 1..MaxTime
    BY <1>1 DEF PInv, Typed
  <2>2. log[n][ts] = OpenedState(clock[n])
    BY <1>2, <2>1, OpenedLog
  <2>3. Deposit + 0 = Deposit
    BY PaymentsAssumption
  <2> QED
    BY <1>3, <2>2, <2>3 DEF GoodEntry, Balanced
<1> QED
  BY <1>1, <1>2, <1>4 DEF EInv, GoodLogs, GoodCalls

-----------------------------------------------------------------------------
(* Pay: without an overdraft nothing wraps.                                *)
LEMMA RequestBalanced ==
  ASSUME NEW n \in Nodes, NEW last, NEW lt, IsEntry(last, lt), Balanced(last),
         NEW amount \in Amounts, amount <= BalanceOf(MeAlice(n), last), NEW ts
  PROVE  LET r == PayRequest(AppId, n, MeAlice(n), last, amount, ts)
         IN  /\ Balanced(r)
             /\ BalanceOf(MeAlice(n), r) <= BalanceOf(MeAlice(n), last)
<1> DEFINE m == BalanceOf(MeAlice(n), last)
           t == BalanceOf(~MeAlice(n), last)
           r == PayRequest(AppId, n, MeAlice(n), last, amount, ts)
<1>1. m \in Nat /\ t \in Nat /\ amount \in Nat
  BY UintSizeAssumption, PaymentsAssumption DEF IsEntry, Balances, BalanceOf
<1>2. m + t = Deposit
  BY <1>1 DEF IsEntry, Balances, BalanceOf, Balanced
<1>3. amount <= m
  OBVIOUS
<1>4. \/ r.alice_balance = Uint(m - amount) /\ r.bob_balance = Uint(t + amount)
      \/ r.bob_balance = Uint(m - amount) /\ r.alice_balance = Uint(t + amount)
  BY DEF PayRequest
<1>9. BalanceOf(MeAlice(n), r) = Uint(m - amount)
  BY DEF PayRequest, BalanceOf
<1> HIDE DEF m, t, r
<1>5. m - amount \in Balances /\ t + amount \in Balances
  BY <1>1, <1>2, <1>3, UintSizeAssumption, PaymentsAssumption DEF Balances
<1>6. Uint(m - amount) = m - amount /\ Uint(t + amount) = t + amount
  BY <1>5, WordUint
<1>7. (m - amount) + (t + amount) = Deposit /\ (t + amount) + (m - amount) = Deposit
  BY <1>1, <1>2
<1>8. r.alice_balance + r.bob_balance = Deposit
  BY <1>4, <1>6, <1>7
<1>10. BalanceOf(MeAlice(n), r) <= m
  BY <1>1, <1>6, <1>9
<1> QED
  BY <1>8, <1>10 DEF Balanced, m, r

LEMMA PayKeepsGood ==
  ASSUME ~AllowOverdraft, EInv, NEW n \in Nodes, NEW amount \in Amounts,
         NEW ts \in Now(n), Pay(n, amount, ts)
  PROVE  GoodLogs' /\ GoodCalls'
<1>1. IsLog(log[n])
  BY DEF EInv, PInv, Typed
<1>2. /\ IsEntry(Latest(log[n]), LatestTimestamp(log[n]))
      /\ Balanced(Latest(log[n]))
  BY <1>1, LatestIsEntry DEF EInv, GoodLogs, GoodEntry
<1>3. amount <= BalanceOf(MeAlice(n), Latest(log[n]))
  BY DEF Pay
<1>4. PICK r : r = PayRequest(AppId, n, MeAlice(n), Latest(log[n]), amount, ts)
  OBVIOUS
<1>5. Balanced(r)
  BY <1>2, <1>3, <1>4, RequestBalanced
<1>6. PICK d : d = [req |-> r, stage |-> "sent", waiting |-> TRUE]
  OBVIOUS
<1>7. GoodCall(d)
  BY <1>5, <1>6 DEF GoodCall
<1>8. calls' = calls \cup {d} /\ log' = log
  BY <1>4, <1>6 DEF Pay
<1> QED
  BY <1>7, <1>8 DEF EInv, GoodLogs, GoodCalls

-----------------------------------------------------------------------------
(* Steps that store nothing.                                               *)
LEMMA QuietKeepsGood ==
  ASSUME EInv, NEW c \in calls, NEW d, GoodCall(d),
         calls' \subseteq (calls \ {c}) \cup {d}, log' = log
  PROVE  GoodLogs' /\ GoodCalls'
  BY DEF EInv, GoodLogs, GoodCalls

\* What the handler has checked, of a request it goes on with.
LEMMA CheckedKeepsReserve ==
  ASSUME NEW c, IsCall(c), NEW last, NEW me, me = Other(c.req.from),
         PayAcceptable(AppId, MeAlice(me), last, c.req, PenaltyReserve)
  PROVE  KeepsReserve(c.req.from, c.req)
<1>1. c.req.from \in Nodes
  BY DEF IsCall, IsRequest
<1>2. MeAlice(me) <=> c.req.from # Alice
  BY <1>1, PaymentsAssumption DEF Nodes, Other, MeAlice
<1>3. BalanceOf(~MeAlice(me), c.req) >= PenaltyReserve
  BY DEF PayAcceptable, Beneficial
<1> QED
  BY <1>2, <1>3 DEF KeepsReserve, BalanceOf

LEMMA CheckKeepsGood ==
  ASSUME EInv, NEW c \in calls, CheckPayRequest(c)
  PROVE  GoodLogs' /\ GoodCalls'
<1> DEFINE me == Other(c.req.from)
<1>1. IsCall(c) /\ GoodCall(c)
  BY CallParts DEF EInv, GoodCalls
<1>2. PICK s \in {"checked", "rejected"} :
        /\ calls' \subseteq (calls \ {c}) \cup {[c EXCEPT !.stage = s]}
        /\ s = "checked" => PayAcceptable(AppId, MeAlice(me), Latest(log[me]),
                                           c.req, PenaltyReserve)
  BY DEF CheckPayRequest, Proceed
<1>3. log' = log
  BY DEF CheckPayRequest
<1> DEFINE d == [c EXCEPT !.stage = s]
<1>4. d.req = c.req /\ d.stage = s
  <2>1. s \in Stages /\ TRUE \in BOOLEAN
    BY DEF Stages
  <2> QED
    BY <1>1, <2>1, SameRequest
<1>5. s = "checked" => KeepsReserve(c.req.from, c.req)
  BY <1>1, <1>2, CheckedKeepsReserve
<1>6. GoodCall(d)
  BY <1>1, <1>4, <1>5 DEF GoodCall
<1> HIDE DEF d
<1> QED
  BY <1>2, <1>3, <1>6, QuietKeepsGood DEF d

LEMMA DropKeepsGood ==
  ASSUME EInv, NEW c \in calls,
         PayRejected(c) \/ LoseRequest(c) \/ LoseResponse(c)
  PROVE  GoodLogs' /\ GoodCalls'
<1> DEFINE d == [c EXCEPT !.waiting = FALSE]
<1>1. IsCall(c) /\ GoodCall(c)
  BY CallParts DEF EInv, GoodCalls
<1>2. d.req = c.req /\ d.stage = c.stage
  <2>1. c.stage \in Stages /\ FALSE \in BOOLEAN
    BY <1>1 DEF IsCall
  <2> QED
    BY <1>1, <2>1, SameRequest
<1>3. GoodCall(d)
  BY <1>1, <1>2 DEF GoodCall
<1>4. log' = log
  BY DEF PayRejected, LoseRequest, LoseResponse
<1>5. \/ calls' \subseteq (calls \ {c}) \cup {c}
      \/ calls' \subseteq (calls \ {c}) \cup {d}
  BY DEF PayRejected, LoseRequest, LoseResponse
<1> HIDE DEF d
<1> QED
  BY <1>1, <1>3, <1>4, <1>5, QuietKeepsGood

-----------------------------------------------------------------------------
(* Steps that store a state.                                               *)
LEMMA StoredKeepsGood ==
  ASSUME EInv, NEW me \in Nodes, NEW e, NEW t \in 1..MaxTime, IsEntry(e, t),
         GoodEntry(me, t, e), log' = [log EXCEPT ![me] = Store(@, e)]
  PROVE  GoodLogs'
<1>1. Typed
  BY DEF EInv, PInv
<1>2. /\ log' = [n \in Nodes |-> log'[n]]
      /\ \A n \in Nodes : IsLog(log'[n])
      /\ DOMAIN log'[me] = DOMAIN log[me] \cup {t}
      /\ log'[me][t] = e
      /\ \A ts \in DOMAIN log[me] : ts # t => log'[me][ts] = log[me][ts]
      /\ log'[Other(me)] = log[Other(me)]
  BY <1>1, SavedLog
<1>3. ASSUME NEW ts \in DOMAIN log'[me] PROVE GoodEntry(me, ts, log'[me][ts])
  BY <1>2 DEF EInv, GoodLogs
<1>4. ASSUME NEW ts \in DOMAIN log'[Other(me)]
      PROVE  GoodEntry(Other(me), ts, log'[Other(me)][ts])
  BY <1>2, OtherNode DEF EInv, GoodLogs
<1>5. \A n \in Nodes : n = me \/ n = Other(me)
  BY DEF Nodes, Other
<1> QED
  BY <1>3, <1>4, <1>5 DEF GoodLogs

LEMMA SaveKeepsGood ==
  ASSUME EInv, NEW c \in calls, SavePayRequest(c)
  PROVE  GoodLogs' /\ GoodCalls'
<1> DEFINE payer == c.req.from
           me == Other(payer)
           t == c.req.timestamp
           e == ReceiverEntry(AppId, me, MeAlice(me), c.req)
           d == [c EXCEPT !.stage = "approved"]
<1>1. IsCall(c) /\ GoodCall(c) /\ c.stage = "checked"
  BY CallParts DEF EInv, GoodCalls, SavePayRequest
<1>2. /\ payer \in Nodes /\ me \in Nodes /\ me # payer
      /\ t \in 1..MaxTime /\ StampedBy(t) = payer
  BY CallParts, OtherNode DEF EInv
<1>3. /\ e.alice_balance = c.req.alice_balance /\ e.bob_balance = c.req.bob_balance
      /\ IsEntry(e, t)
  BY <1>1 DEF IsEntry, ReceiverEntry, OffChainEntry, IsCall, IsRequest
<1>4. CoSigned(e, t)
  <2>1. c.req.signature = SignState(AppId, payer, e.alice_balance, e.bob_balance, t)
    BY <1>1, <1>3 DEF IsCall, IsRequest
  <2>2. ReceiverSignature(AppId, me, c.req)
          = SignState(AppId, me, e.alice_balance, e.bob_balance, t)
    BY <1>3 DEF ReceiverSignature
  <2>3. /\ e.alice_signature = (IF me = Alice THEN ReceiverSignature(AppId, me, c.req)
                                              ELSE c.req.signature)
        /\ e.bob_signature = (IF me = Alice THEN c.req.signature
                                            ELSE ReceiverSignature(AppId, me, c.req))
    BY DEF ReceiverEntry, OffChainEntry, MeAlice
  <2>4. \/ me = Alice /\ payer = Bob
        \/ me = Bob /\ payer = Alice /\ me # Alice
    BY <1>2, PaymentsAssumption DEF Nodes
  <2> HIDE DEF e, me, payer, t
  <2> QED
    BY <2>1, <2>2, <2>3, <2>4 DEF CoSigned
<1>5. GoodEntry(me, t, e)
  BY <1>1, <1>2, <1>3, <1>4 DEF GoodEntry, GoodCall, Balanced, KeepsReserve, BalanceOf
<1>6. GoodCall(d)
  <2>1. "approved" \in Stages /\ TRUE \in BOOLEAN
    BY DEF Stages
  <2>2. d.req = c.req /\ d.stage = "approved"
    BY <1>1, <2>1, SameRequest
  <2> QED
    BY <1>1, <2>2 DEF GoodCall
<1>7. /\ log' = [log EXCEPT ![me] = Store(@, e)]
      /\ calls' \subseteq (calls \ {c}) \cup {d}
  BY DEF SavePayRequest, Proceed
<1> HIDE DEF payer, me, t, e, d
<1>8. GoodLogs'
  BY <1>2, <1>3, <1>5, <1>7, StoredKeepsGood
<1>9. GoodCalls'
  BY <1>6, <1>7 DEF EInv, GoodCalls
<1> QED
  BY <1>8, <1>9

LEMMA ApprovedKeepsGood ==
  ASSUME EInv, NEW c \in calls, PayApproved(c)
  PROVE  GoodLogs' /\ GoodCalls'
<1> DEFINE me == c.req.from
           t == c.req.timestamp
           e == PayerEntry(AppId, c.req, ReceiverSignature(AppId, Other(me), c.req))
<1>1. IsCall(c) /\ GoodCall(c) /\ c.stage = "approved"
  BY CallParts DEF EInv, GoodCalls, PayApproved
<1>2. me \in Nodes /\ t \in 1..MaxTime /\ StampedBy(t) = me
  BY CallParts DEF EInv
<1>3. /\ e.alice_balance = c.req.alice_balance /\ e.bob_balance = c.req.bob_balance
      /\ IsEntry(e, t)
  BY <1>1 DEF IsEntry, PayerEntry, OffChainEntry, IsCall, IsRequest
<1>4. GoodEntry(me, t, e)
  BY <1>1, <1>2, <1>3 DEF GoodEntry, GoodCall, Balanced, KeepsReserve, BalanceOf
<1>5. /\ log' = [log EXCEPT ![me] = Store(@, e)]
      /\ calls' \subseteq calls
  BY DEF PayApproved
<1> HIDE DEF me, t, e
<1>6. GoodLogs'
  BY <1>2, <1>3, <1>4, <1>5, StoredKeepsGood
<1>7. GoodCalls'
  BY <1>5 DEF EInv, GoodCalls
<1> QED
  BY <1>6, <1>7

-----------------------------------------------------------------------------
LEMMA NextEInv ==
  ASSUME ~AllowOverdraft
  PROVE  EInv /\ [Next]_vars => EInv'
<1> SUFFICES ASSUME EInv, [Next]_vars PROVE EInv'
  OBVIOUS
<1>1. PInv'
  BY NextPInv DEF EInv
<1>2. CASE \E n \in Nodes : \E amount \in Amounts, ts \in Now(n) : Pay(n, amount, ts)
  BY <1>1, <1>2, PayKeepsGood DEF EInv
<1>3. ASSUME NEW c \in calls,
             \/ CheckPayRequest(c)
             \/ SavePayRequest(c)
             \/ PayApproved(c)
             \/ PayRejected(c)
             \/ LoseRequest(c)
             \/ LoseResponse(c)
      PROVE  EInv'
  BY <1>1, <1>3, CheckKeepsGood, SaveKeepsGood, ApprovedKeepsGood, DropKeepsGood
     DEF EInv
<1>4. CASE UNCHANGED vars
  BY <1>1, <1>4 DEF vars, EInv, GoodLogs, GoodCalls
<1> QED
  BY <1>2, <1>3, <1>4 DEF Next

LEMMA PaidParts ==
  ASSUME EInv, NEW n \in Nodes, NEW e \in Paid(n)
  PROVE  /\ GoodEntry(n, e.timestamp, e) /\ IsEntry(e, e.timestamp)
         /\ e.alice_signature # NoSignature
<1>1. PICK ts \in DOMAIN log[n] : e = log[n][ts] /\ e.alice_signature # NoSignature
  BY DEF Paid
<1>2. IsEntry(e, ts) /\ GoodEntry(n, ts, e)
  BY <1>1 DEF EInv, PInv, Typed, IsLog, GoodLogs
<1>3. e.timestamp = ts
  BY <1>2 DEF IsEntry
<1> QED
  BY <1>1, <1>2, <1>3

LEMMA EInvCovers == EInv => PenaltyCovered
<1> SUFFICES ASSUME EInv, NEW n \in Nodes, NEW e \in Paid(n)
             PROVE  BalanceOf(Payer(e) = Alice, e) \in PenaltyReserve..Deposit
  BY DEF PenaltyCovered
<1>1. /\ e.alice_balance \in Nat /\ e.bob_balance \in Nat
      /\ e.alice_balance + e.bob_balance = Deposit
      /\ BalanceOf(Payer(e) = Alice, e) >= PenaltyReserve
  BY PaidParts, UintSizeAssumption
     DEF IsEntry, Balances, GoodEntry, Balanced, KeepsReserve, Payer
<1> QED
  BY <1>1, PaymentsAssumption DEF BalanceOf

LEMMA EInvEnforces == EInv => ReceiverCanEnforce
<1> SUFFICES ASSUME EInv, NEW n \in Nodes, NEW e \in Paid(n), Payer(e) # n
             PROVE  InitiateTakesEffect(Channel, n,
                      Call(e.alice_balance, e.bob_balance, e.timestamp,
                           e.alice_signature, e.bob_signature))
  BY DEF ReceiverCanEnforce
<1>1. /\ CoSigned(e, e.timestamp)
      /\ e.alice_balance + e.bob_balance = Deposit
  BY PaidParts DEF GoodEntry, Balanced, Payer
<1>2. /\ Channel.alice_address = Alice /\ Channel.bob_address = Bob
      /\ Channel.app_id = AppId /\ Channel.total_deposit = Deposit
  BY DEF Channel, Funded, Created
<1>3. IsParty(Channel, n)
  BY <1>2 DEF IsParty, Nodes
<1> DEFINE call == Call(e.alice_balance, e.bob_balance, e.timestamp,
                        e.alice_signature, e.bob_signature)
<1>4. /\ call.alice_balance = e.alice_balance /\ call.bob_balance = e.bob_balance
      /\ call.timestamp = e.timestamp
      /\ call.alice_signature = e.alice_signature
      /\ call.bob_signature = e.bob_signature
  BY DEF Call
<1> HIDE DEF call
<1>5. BothSigned(Channel, STATE_UPDATE, call)
  BY <1>1, <1>2, <1>4 DEF BothSigned, CoSigned, SignState
<1>6. SumsToDeposit(Channel, call)
  BY <1>1, <1>2, <1>4 DEF SumsToDeposit
<1> QED
  BY <1>3, <1>5, <1>6 DEF InitiateTakesEffect, call

\* Of every payment a node has accepted the payer has the penalty left, out of
\* what is in the channel: what server.go:260 requires, of users who do not
\* overdraw (a payment of more than one has wraps around and is accepted).
THEOREM PayersKeepThePenalty ==
  ASSUME ~AllowOverdraft
  PROVE  Spec => []PenaltyCovered
<1>1. EInv /\ [Next]_vars => EInv'
  BY NextEInv
<1> QED
  BY <1>1, InitEInv, EInvCovers, PTL DEF Spec

\* Whatever the interleaving of calls, handlers and lost answers, the contract
\* takes every payment in a receiver's log: its balances sum to the deposit and
\* each signature is in the field of its side.
THEOREM ReceiversCanEnforce ==
  ASSUME ~AllowOverdraft
  PROVE  Spec => []ReceiverCanEnforce
<1>1. EInv /\ [Next]_vars => EInv'
  BY NextEInv
<1> QED
  BY <1>1, InitEInv, EInvEnforces, PTL DEF Spec

-----------------------------------------------------------------------------
(* One call at a time.  The inductive invariant, beside EInv: a request is *)
(* made from the payer's latest state and, once checked, is better for the *)
(* receiver than its latest state; no other call replaces either of them.  *)
Mine(n, e) == BalanceOf(MeAlice(n), e)

Pending(c) ==
  LET payer == c.req.from
      me == Other(payer)
  IN  /\ c.stage \in {"sent", "checked"} =>
           Mine(payer, c.req) <= Mine(payer, Latest(log[payer]))
      /\ c.stage = "checked" =>
           /\ Mine(me, Latest(log[me])) < Mine(me, c.req)
           /\ LatestTimestamp(log[me]) < c.req.timestamp

Alone == \A c, d \in calls : c = d

Serial == EInv /\ Alone /\ \A c \in calls : Pending(c)

LEMMA LogOrdered ==
  ASSUME NEW l, IsLog(l)
  PROVE  /\ Ordered(l) /\ HasLatest(l)
         /\ LatestTimestamp(l) \in DOMAIN l /\ LatestTimestamp(l) \in Nat
         /\ Latest(l) = l[LatestTimestamp(l)]
         /\ Latest(l).timestamp = LatestTimestamp(l)
         /\ \A ts \in DOMAIN l : ts <= LatestTimestamp(l)
<1>1. Ordered(l) /\ DOMAIN l # {}
  BY DEF IsLog, Ordered
<1>2. /\ HasLatest(l) /\ LatestTimestamp(l) \in DOMAIN l
      /\ Latest(l) = l[LatestTimestamp(l)]
      /\ \A ts \in DOMAIN l : ts <= LatestTimestamp(l)
  BY <1>1, OrderedLatest
<1>3. LatestTimestamp(l) \in Nat
  BY <1>2 DEF IsLog
<1> QED
  BY <1>1, <1>2, <1>3 DEF IsLog, IsEntry

\* A state of the channel: both balances fit, and sum to the deposit.
IsSplit(e) ==
  /\ e.alice_balance \in Small /\ e.bob_balance \in Small
  /\ e.alice_balance + e.bob_balance = Deposit

LEMMA BalancedSplit ==
  ASSUME NEW e, Balanced(e), e.alice_balance \in Balances, e.bob_balance \in Balances
  PROVE  IsSplit(e)
<1>1. e.alice_balance \in Nat /\ e.bob_balance \in Nat
  BY UintSizeAssumption DEF Balances
<1> QED
  BY <1>1, HalfType, PaymentsAssumption DEF Balanced, IsSplit, Small, Half

LEMMA LatestSplit ==
  ASSUME EInv, NEW n \in Nodes
  PROVE  IsLog(log[n]) /\ IsSplit(Latest(log[n]))
<1>1. IsLog(log[n])
  BY DEF EInv, PInv, Typed
<1>2. /\ LatestTimestamp(log[n]) \in DOMAIN log[n]
      /\ Latest(log[n]) = log[n][LatestTimestamp(log[n])]
  BY <1>1, LogOrdered
<1>3. Balanced(Latest(log[n]))
  BY <1>2 DEF EInv, GoodLogs, GoodEntry
<1>4. IsEntry(Latest(log[n]), LatestTimestamp(log[n]))
  BY <1>1, LatestIsEntry
<1> QED
  BY <1>1, <1>3, <1>4, BalancedSplit DEF IsEntry

LEMMA CallSplit ==
  ASSUME EInv, NEW c \in calls
  PROVE  IsSplit(c.req)
<1>1. IsCall(c) /\ Balanced(c.req)
  BY DEF EInv, PInv, Typed, GoodCalls, GoodCall
<1> QED
  BY <1>1, BalancedSplit DEF IsCall, IsRequest

\* What one side has, the other has not.
LEMMA Sides ==
  ASSUME NEW n \in Nodes, NEW e, NEW f, IsSplit(e), IsSplit(f)
  PROVE  /\ Mine(n, e) \in Nat /\ Mine(n, f) \in Nat
         /\ Mine(n, e) < Mine(n, f) <=> Mine(Other(n), f) < Mine(Other(n), e)
         /\ Mine(n, e) = Mine(n, f) => SameSplit(e, f)
<1>1. /\ e.alice_balance \in Nat /\ e.bob_balance \in Nat
      /\ f.alice_balance \in Nat /\ f.bob_balance \in Nat
      /\ e.alice_balance + e.bob_balance = f.alice_balance + f.bob_balance
  BY HalfType DEF IsSplit, Small
<1>2. \/ /\ Mine(n, e) = e.alice_balance /\ Mine(Other(n), e) = e.bob_balance
         /\ Mine(n, f) = f.alice_balance /\ Mine(Other(n), f) = f.bob_balance
      \/ /\ Mine(n, e) = e.bob_balance /\ Mine(Other(n), e) = e.alice_balance
         /\ Mine(n, f) = f.bob_balance /\ Mine(Other(n), f) = f.alice_balance
  BY PaymentsAssumption DEF Nodes, Other, Mine, MeAlice, BalanceOf
<1> QED
  BY <1>1, <1>2 DEF SameSplit

-----------------------------------------------------------------------------
(* The invariant is inductive.                                             *)
LEMMA InitSerial == Init => Serial
  BY InitEInv DEF Init, Serial, Alone

LEMMA SoleMove ==
  ASSUME Alone, NEW c \in calls, NEW d, calls' \subseteq (calls \ {c}) \cup {d},
         Pending(d)'
  PROVE  Alone' /\ (\A x \in calls : Pending(x))'
<1>1. \A x \in calls' : x = d
  BY DEF Alone
<1> QED
  BY <1>1 DEF Alone

LEMMA PayStaysSerial ==
  ASSUME ~AllowOverdraft, MaxInFlight = 1, Serial, NEW n \in Nodes,
         NEW amount \in Amounts, NEW ts \in Now(n), Pay(n, amount, ts)
  PROVE  Alone' /\ (\A x \in calls : Pending(x))'
<1>1. PICK r : r = PayRequest(AppId, n, MeAlice(n), Latest(log[n]), amount, ts)
  OBVIOUS
<1>2. PICK d : d = [req |-> r, stage |-> "sent", waiting |-> TRUE]
  OBVIOUS
<1>3. /\ Cardinality(calls) < 1 /\ calls' = calls \cup {d} /\ log' = log
      /\ amount <= BalanceOf(MeAlice(n), Latest(log[n]))
  BY <1>1, <1>2 DEF Pay
<1>4. calls = {}
  <2> SUFFICES ASSUME NEW c \in calls PROVE FALSE
    OBVIOUS
  <2>1. calls = {c}
    BY DEF Serial, Alone
  <2>2. Cardinality(calls) = 1
    BY <2>1, FS_Singleton
  <2> QED
    BY <1>3, <2>2
<1>5. Mine(n, r) <= Mine(n, Latest(log[n]))
  <2>1. IsLog(log[n]) /\ Balanced(Latest(log[n]))
    BY LatestSplit DEF Serial, IsSplit, Balanced
  <2>2. IsEntry(Latest(log[n]), LatestTimestamp(log[n]))
    BY <2>1, LatestIsEntry
  <2> QED
    BY <1>1, <1>3, <2>1, <2>2, RequestBalanced DEF Mine
<1>6. r.from = n
  BY <1>1 DEF PayRequest
<1>7. d.req = r /\ d.stage = "sent"
  BY <1>2
<1>8. Pending(d)'
  BY <1>3, <1>5, <1>6, <1>7 DEF Pending
<1> QED
  BY <1>3, <1>4, <1>8 DEF Alone

LEMMA CheckStaysSerial ==
  ASSUME Serial, NEW c \in calls, CheckPayRequest(c)
  PROVE  Alone' /\ (\A x \in calls : Pending(x))'
<1>1. PICK me : me = Other(c.req.from)
  OBVIOUS
<1>2. PICK s \in {"checked", "rejected"} :
        /\ calls' \subseteq (calls \ {c}) \cup {[c EXCEPT !.stage = s]}
        /\ s = "checked" => Beneficial(MeAlice(me), Latest(log[me]), c.req,
                                       PenaltyReserve)
  BY <1>1 DEF CheckPayRequest, Proceed, PayAcceptable
<1>3. PICK d : d = [c EXCEPT !.stage = s]
  OBVIOUS
<1>4. d.req = c.req /\ d.stage = s
  <2>1. s \in Stages /\ TRUE \in BOOLEAN /\ IsCall(c)
    BY CallParts DEF Stages, Serial, EInv
  <2> QED
    BY <1>3, <2>1, SameRequest
<1>5. log' = log /\ c.stage = "sent" /\ Pending(c)
  BY DEF CheckPayRequest, Serial
<1>6. me \in Nodes /\ IsLog(log[me]) /\ IsSplit(Latest(log[me])) /\ IsSplit(c.req)
  BY <1>1, CallParts, OtherNode, LatestSplit, CallSplit DEF Serial, EInv
<1>7. ASSUME s = "checked"
      PROVE  /\ Mine(me, Latest(log[me])) < Mine(me, c.req)
             /\ LatestTimestamp(log[me]) < c.req.timestamp
  <2>1. MeAlice(me) \in BOOLEAN
    BY DEF MeAlice
  <2>2. /\ Mine(me, Latest(log[me])) < Mine(me, c.req)
        /\ Latest(log[me]).timestamp < c.req.timestamp
    BY <1>2, <1>6, <1>7, <2>1, BeneficialSums DEF IsSplit, Mine
  <2> QED
    BY <1>6, <2>2, LogOrdered
<1>8. Pending(d)'
  BY <1>1, <1>4, <1>5, <1>7 DEF Pending
<1> QED
  BY <1>2, <1>3, <1>8, SoleMove DEF Serial

LEMMA OthersStaySerial ==
  ASSUME Serial, NEW c \in calls,
         \/ SavePayRequest(c) \/ PayApproved(c) \/ PayRejected(c)
         \/ LoseRequest(c) \/ LoseResponse(c)
  PROVE  Alone' /\ (\A x \in calls : Pending(x))'
<1>1. IsCall(c) /\ Pending(c) /\ Alone
  BY CallParts DEF Serial, EInv
<1>2. CASE PayApproved(c) \/ PayRejected(c) \/ LoseRequest(c)
  <2>1. calls' = {}
    BY <1>1, <1>2 DEF PayApproved, PayRejected, LoseRequest, Alone
  <2> QED
    BY <2>1 DEF Alone
<1>3. CASE SavePayRequest(c)
  <2>1. PICK d : d = [c EXCEPT !.stage = "approved"]
    OBVIOUS
  <2>2. d.stage = "approved"
    BY <1>1, <2>1, SameRequest DEF Stages
  <2>3. Pending(d)'
    BY <2>2 DEF Pending
  <2>4. calls' \subseteq (calls \ {c}) \cup {d}
    BY <1>3, <2>1 DEF SavePayRequest, Proceed
  <2> QED
    BY <1>1, <2>3, <2>4, SoleMove
<1>4. CASE LoseResponse(c)
  <2>1. PICK d : d = [c EXCEPT !.waiting = FALSE]
    OBVIOUS
  <2>2. d.req = c.req /\ d.stage = c.stage
    <3>1. c.stage \in Stages /\ FALSE \in BOOLEAN
      BY <1>1 DEF IsCall
    <3> QED
      BY <1>1, <2>1, <3>1, SameRequest
  <2>3. log' = log /\ calls' \subseteq (calls \ {c}) \cup {d}
    BY <1>4, <2>1 DEF LoseResponse
  <2>4. Pending(d)'
    BY <1>1, <2>2, <2>3 DEF Pending
  <2> QED
    BY <1>1, <2>3, <2>4, SoleMove
<1> QED
  BY <1>2, <1>3, <1>4

LEMMA NextSerial ==
  ASSUME ~AllowOverdraft, MaxInFlight = 1
  PROVE  Serial /\ [Next]_vars => Serial'
<1> SUFFICES ASSUME Serial, [Next]_vars PROVE Serial'
  OBVIOUS
<1>1. EInv'
  BY NextEInv DEF Serial
<1>2. CASE \E n \in Nodes : \E amount \in Amounts, ts \in Now(n) : Pay(n, amount, ts)
  BY <1>1, <1>2, PayStaysSerial DEF Serial
<1>3. ASSUME NEW c \in calls,
             \/ CheckPayRequest(c)
             \/ SavePayRequest(c)
             \/ PayApproved(c)
             \/ PayRejected(c)
             \/ LoseRequest(c)
             \/ LoseResponse(c)
      PROVE  Serial'
  BY <1>1, <1>3, CheckStaysSerial, OthersStaySerial DEF Serial
<1>4. CASE UNCHANGED vars
  BY <1>1, <1>4 DEF vars, Serial, Alone, Pending
<1> QED
  BY <1>2, <1>3, <1>4 DEF Next

-----------------------------------------------------------------------------
(* What a step does to the latest states.                                  *)

\* The handler's state becomes the receiver's latest one, better than the last
\* and no better for the payer than the payer's own.
SavedAsLatest(payer, t, e) ==
  LET me == Other(payer)
  IN  /\ IsSplit(e) /\ e.timestamp = t /\ t \in Nat
      /\ Mine(payer, e) >= PenaltyReserve
      /\ log'[payer] = log[payer] /\ Latest(log'[me]) = e
      /\ LatestTimestamp(log[me]) < t /\ LatestTimestamp(log[payer]) # t
      /\ Mine(me, Latest(log[me])) < Mine(me, e)
      /\ Mine(payer, e) <= Mine(payer, Latest(log[payer]))

LEMMA SaveParts ==
  ASSUME Serial, NEW c \in calls, SavePayRequest(c)
  PROVE  \E e : SavedAsLatest(c.req.from, c.req.timestamp, e)
<1>1. PICK payer : payer = c.req.from
  OBVIOUS
<1>2. PICK me : me = Other(payer)
  OBVIOUS
<1>3. PICK t : t = c.req.timestamp
  OBVIOUS
<1>4. PICK e : e = ReceiverEntry(AppId, me, MeAlice(me), c.req)
  OBVIOUS
<1>5. /\ payer \in Nodes /\ me \in Nodes /\ me # payer
      /\ t \in 1..MaxTime /\ Trace(c)
  BY <1>1, <1>2, <1>3, CallParts, OtherNode DEF Serial, EInv
<1>6. /\ e.alice_balance = c.req.alice_balance /\ e.bob_balance = c.req.bob_balance
      /\ e.timestamp = t
  BY <1>3, <1>4 DEF ReceiverEntry, OffChainEntry
<1>7. IsSplit(c.req) /\ IsSplit(e)
  BY <1>6, CallSplit DEF Serial, IsSplit
<1>8. /\ Mine(payer, e) >= PenaltyReserve
      /\ \A n \in Nodes : Mine(n, e) = Mine(n, c.req)
  <2>1. c.stage = "checked" /\ GoodCall(c)
    BY DEF SavePayRequest, Serial, EInv, GoodCalls
  <2> QED
    BY <1>1, <1>5, <1>6, <2>1 DEF GoodCall, KeepsReserve, Mine, MeAlice, BalanceOf
<1>9. /\ Mine(payer, c.req) <= Mine(payer, Latest(log[payer]))
      /\ Mine(me, Latest(log[me])) < Mine(me, c.req)
      /\ LatestTimestamp(log[me]) < t
  BY <1>1, <1>2, <1>3 DEF SavePayRequest, Serial, Pending
<1>10. log'[me] = Store(log[me], e) /\ log'[payer] = log[payer]
  <2>1. log = [n \in Nodes |-> log[n]]
    BY DEF Serial, EInv, PInv, Typed
  <2>2. log' = [log EXCEPT ![me] = Store(@, e)]
    BY <1>1, <1>2, <1>4 DEF SavePayRequest
  <2> QED
    BY <1>5, <2>1, <2>2
<1>11. Latest(log'[me]) = e
  <2>1. /\ Ordered(log[me]) /\ LatestTimestamp(log[me]) \in Nat
        /\ \A ts \in DOMAIN log[me] : ts \in Nat /\ ts <= LatestTimestamp(log[me])
    BY <1>5, LatestSplit, LogOrdered DEF Serial, IsLog
  <2>2. \A ts \in DOMAIN log[me] : ts < t
    BY <1>5, <1>9, <2>1
  <2> QED
    BY <1>5, <1>6, <1>10, <2>1, <2>2, LatestAfterStore
<1>12. LatestTimestamp(log[payer]) # t
  <2>1. LatestTimestamp(log[payer]) \in DOMAIN log[payer]
    BY <1>5, LatestSplit, LogOrdered DEF Serial
  <2> QED
    BY <1>1, <1>3, <1>5, <2>1 DEF Trace
<1>13. SavedAsLatest(payer, t, e)
  BY <1>2, <1>5, <1>6, <1>7, <1>8, <1>9, <1>10, <1>11, <1>12 DEF SavedAsLatest
<1> QED
  BY <1>1, <1>3, <1>13

\* The payer stores what its partner holds; it may be older than what either
\* has by then.
StoredByPayer(me, t, e) ==
  LET partner == Other(me)
  IN  /\ e.timestamp = t /\ t \in Nat /\ LatestTimestamp(log[me]) # t
      /\ log'[partner] = log[partner]
      /\ t \in DOMAIN log[partner] /\ SameSplit(e, log[partner][t])
      /\ Latest(log'[me]) = IF LatestTimestamp(log[me]) > t THEN Latest(log[me]) ELSE e

LEMMA ApprovedParts ==
  ASSUME PInv, NEW c \in calls, PayApproved(c)
  PROVE  \E e : StoredByPayer(c.req.from, c.req.timestamp, e)
<1>1. PICK me : me = c.req.from
  OBVIOUS
<1>2. PICK partner : partner = Other(me)
  OBVIOUS
<1>3. PICK t : t = c.req.timestamp
  OBVIOUS
<1>4. PICK e : e = PayerEntry(AppId, c.req, ReceiverSignature(AppId, partner, c.req))
  OBVIOUS
<1>5. /\ me \in Nodes /\ partner \in Nodes /\ me # partner
      /\ t \in 1..MaxTime /\ Trace(c) /\ c.stage = "approved"
  BY <1>1, <1>2, <1>3, CallParts, OtherNode DEF PayApproved
<1>6. /\ e.alice_balance = c.req.alice_balance /\ e.bob_balance = c.req.bob_balance
      /\ e.timestamp = t
  BY <1>3, <1>4 DEF PayerEntry, OffChainEntry
<1>7. log'[me] = Store(log[me], e) /\ log'[partner] = log[partner]
  <2>1. log = [n \in Nodes |-> log[n]]
    BY DEF PInv, Typed
  <2>2. log' = [log EXCEPT ![me] = Store(@, e)]
    BY <1>1, <1>2, <1>4 DEF PayApproved
  <2> QED
    BY <1>5, <2>1, <2>2
<1>8. /\ t \in DOMAIN log[partner] /\ SameSplit(e, log[partner][t])
      /\ t \notin DOMAIN log[me]
  BY <1>1, <1>2, <1>3, <1>5, <1>6 DEF Trace, SameSplit
<1>9. /\ IsLog(log[me]) /\ Ordered(log[me]) /\ HasLatest(log[me])
      /\ LatestTimestamp(log[me]) \in DOMAIN log[me]
      /\ LatestTimestamp(log[me]) \in Nat
      /\ \A ts \in DOMAIN log[me] : ts \in Nat /\ ts <= LatestTimestamp(log[me])
  BY <1>5, LogOrdered DEF PInv, Typed, IsLog
<1>10. Latest(log'[me]) = IF LatestTimestamp(log[me]) > t THEN Latest(log[me]) ELSE e
  <2>1. CASE LatestTimestamp(log[me]) > t
    BY <1>5, <1>6, <1>7, <1>9, <2>1, LatestAfterStore
  <2>2. CASE ~(LatestTimestamp(log[me]) > t)
    <3>1. \A ts \in DOMAIN log[me] : ts < t
      BY <1>5, <1>8, <1>9, <2>2
    <3>2. Latest(log'[me]) = e
      BY <1>5, <1>6, <1>7, <1>9, <3>1, LatestAfterStore
    <3> QED
      BY <2>2, <3>2
  <2> QED
    BY <2>1, <2>2
<1>11. StoredByPayer(me, t, e)
  BY <1>2, <1>5, <1>6, <1>7, <1>8, <1>9, <1>10 DEF StoredByPayer
<1> QED
  BY <1>1, <1>3, <1>11

\* Every other step leaves the logs alone.
LEMMA LogSteps ==
  ASSUME [Next]_vars
  PROVE  \/ log' = log
         \/ \E c \in calls : SavePayRequest(c) \/ PayApproved(c)
  BY DEF Next, vars, Pay, CheckPayRequest, PayRejected, LoseRequest, LoseResponse

-----------------------------------------------------------------------------
(* SavesBenefitReceiver.                                                   *)
Benefit ==
  \A n \in Nodes :
    LET old == Latest(log[n])
        new == Latest(log'[n])
    IN  (new # old /\ Payer(new) # n) =>
          BalanceOf(MeAlice(n), new) > BalanceOf(MeAlice(n), old)

LEMMA SerialBenefit == Serial /\ [Next]_vars => Benefit
<1> SUFFICES ASSUME Serial, [Next]_vars, NEW n \in Nodes,
                    Latest(log'[n]) # Latest(log[n]), Payer(Latest(log'[n])) # n
             PROVE  Mine(n, Latest(log'[n])) > Mine(n, Latest(log[n]))
  BY DEF Benefit, Mine
<1>1. CASE log' = log
  BY <1>1
<1>2. ASSUME NEW c \in calls, SavePayRequest(c)
      PROVE  Mine(n, Latest(log'[n])) > Mine(n, Latest(log[n]))
  <2>1. PICK payer : payer = c.req.from
    OBVIOUS
  <2>2. PICK e : SavedAsLatest(payer, c.req.timestamp, e)
    BY <1>2, <2>1, SaveParts
  <2>3. payer \in Nodes
    BY <2>1, CallParts DEF Serial, EInv
  <2>4. n = Other(payer)
    <3>1. n # payer
      BY <2>2 DEF SavedAsLatest
    <3> QED
      BY <2>3, <3>1, PaymentsAssumption DEF Nodes, Other
  <2>5. /\ Latest(log'[n]) = e /\ IsSplit(e)
        /\ Mine(n, Latest(log[n])) < Mine(n, e)
    BY <2>2, <2>4 DEF SavedAsLatest
  <2>6. Mine(n, Latest(log[n])) \in Nat /\ Mine(n, e) \in Nat
    BY <2>5, LatestSplit, Sides DEF Serial
  <2> QED
    BY <2>5, <2>6
<1>3. ASSUME NEW c \in calls, PayApproved(c) PROVE FALSE
  <2>1. PICK me : me = c.req.from
    OBVIOUS
  <2>2. PICK t : t = c.req.timestamp
    OBVIOUS
  <2>3. PICK e : StoredByPayer(me, t, e)
    BY <1>3, <2>1, <2>2, ApprovedParts DEF Serial, EInv
  <2>4. me \in Nodes /\ StampedBy(t) = me
    BY <2>1, <2>2, CallParts DEF Serial, EInv
  <2>5. n = me
    <3>1. n # Other(me)
      BY <2>3 DEF StoredByPayer
    <3> QED
      BY <2>4, <3>1, PaymentsAssumption DEF Nodes, Other
  <2>6. Latest(log'[n]) = e /\ e.timestamp = t
    BY <2>3, <2>5 DEF StoredByPayer
  <2> QED
    BY <2>4, <2>5, <2>6 DEF Payer
<1> QED
  BY <1>1, <1>2, <1>3, LogSteps

-----------------------------------------------------------------------------
(* RefinesAtomicPayments.                                                  *)
Pair(e) == <<e.alice_balance, e.bob_balance>>

\* The newest state is the latest of one of the nodes, and no other is newer.
LEMMA NewestParts ==
  ASSUME NEW n \in Nodes, NEW p, NEW r, NEW x,
         p.timestamp \in Nat, r.timestamp \in Nat,
         \/ n = Alice /\ x = (IF p.timestamp > r.timestamp THEN p ELSE r)
         \/ n = Bob /\ x = (IF r.timestamp > p.timestamp THEN r ELSE p)
  PROVE  /\ x = p \/ x = r
         /\ p.timestamp > r.timestamp => x = p
         /\ r.timestamp > p.timestamp => x = r
  OBVIOUS

LEMMA NewestOf ==
  ASSUME NEW n \in Nodes
  PROVE  LET p == Latest(log[n])
             r == Latest(log[Other(n)])
         IN  \/ n = Alice /\ Newest = (IF p.timestamp > r.timestamp THEN p ELSE r)
             \/ n = Bob /\ Newest = (IF r.timestamp > p.timestamp THEN r ELSE p)
  BY PaymentsAssumption DEF Nodes, Other, Newest

\* A payer that has less after a step than before, and the reserve, has made a
\* transfer.
LEMMA SplitMoves ==
  ASSUME NEW n \in Nodes, NEW x, NEW y, IsSplit(x), IsSplit(y),
         Mine(n, y) < Mine(n, x), Mine(n, y) >= PenaltyReserve,
         Pair(Newest) = Pair(x), Pair(Newest)' = Pair(y)
  PROVE  Atomic!Next
<1>1. /\ x.alice_balance \in Nat /\ x.bob_balance \in Nat
      /\ y.alice_balance \in Nat /\ y.bob_balance \in Nat
      /\ y.alice_balance + y.bob_balance = x.alice_balance + x.bob_balance
  BY HalfType DEF IsSplit, Small
<1>2. PICK a \in Nat, b \in Nat, c \in Nat, d \in Nat :
        /\ a = x.alice_balance /\ b = x.bob_balance
        /\ c = y.alice_balance /\ d = y.bob_balance
  BY <1>1
<1>3. c + d = a + b
  BY <1>1, <1>2
<1>4. Pair(Newest) = <<a, b>> /\ Pair(Newest)' = <<c, d>>
  BY <1>2 DEF Pair
<1>5. PenaltyReserve \in Nat
  BY PaymentsAssumption
<1>6. CASE n = Alice
  <2>1. c < a /\ c >= PenaltyReserve
    BY <1>2, <1>6 DEF Mine, MeAlice, BalanceOf
  <2>2. PICK amount : amount = a - c
    OBVIOUS
  <2>3. /\ amount \in 1..a /\ a - amount = c /\ b + amount = d
        /\ a - amount >= PenaltyReserve
    BY <1>3, <1>5, <2>1, <2>2
  <2>4. /\ <<a, b>>[1] = a
        /\ <<c, d>> = [<<a, b>> EXCEPT ![1] = @ - amount, ![2] = @ + amount]
    BY <2>3
  <2>5. Atomic!Transfer(1, 2)
    BY <1>4, <2>3, <2>4 DEF Atomic!Transfer, Pair
  <2> QED
    BY <2>5 DEF Atomic!Next
<1>7. CASE n = Bob
  <2>1. d < b /\ d >= PenaltyReserve
    BY <1>2, <1>7, PaymentsAssumption DEF Mine, MeAlice, BalanceOf
  <2>2. PICK amount : amount = b - d
    OBVIOUS
  <2>3. /\ amount \in 1..b /\ b - amount = d /\ a + amount = c
        /\ b - amount >= PenaltyReserve
    BY <1>3, <1>5, <2>1, <2>2
  <2>4. /\ <<a, b>>[2] = b
        /\ <<c, d>> = [<<a, b>> EXCEPT ![2] = @ - amount, ![1] = @ + amount]
    BY <2>3
  <2>5. Atomic!Transfer(2, 1)
    BY <1>4, <2>3, <2>4 DEF Atomic!Transfer, Pair
  <2> QED
    BY <2>5 DEF Atomic!Next
<1> QED
  BY <1>6, <1>7 DEF Nodes

LEMMA SaveTransfers ==
  ASSUME Serial, NEW c \in calls, SavePayRequest(c)
  PROVE  Atomic!Next \/ Pair(Newest)' = Pair(Newest)
<1>1. PICK payer : payer = c.req.from
  OBVIOUS
<1>2. PICK me : me = Other(payer)
  OBVIOUS
<1>3. PICK t : t = c.req.timestamp
  OBVIOUS
<1>4. PICK e : SavedAsLatest(payer, t, e)
  BY <1>1, <1>3, SaveParts
<1>5. PICK p : p = Latest(log[payer])
  OBVIOUS
<1>6. PICK r : r = Latest(log[me])
  OBVIOUS
<1>7. payer \in Nodes /\ me \in Nodes /\ Other(me) = payer
  BY <1>1, <1>2, CallParts, OtherNode DEF Serial, EInv
<1>8. /\ IsSplit(p) /\ p.timestamp \in Nat /\ p.timestamp = LatestTimestamp(log[payer])
      /\ IsSplit(r) /\ r.timestamp \in Nat /\ r.timestamp = LatestTimestamp(log[me])
  BY <1>5, <1>6, <1>7, LatestSplit, LogOrdered DEF Serial
<1>9. /\ IsSplit(e) /\ e.timestamp = t /\ t \in Nat
      /\ Mine(payer, e) >= PenaltyReserve
      /\ Latest(log'[payer]) = p /\ Latest(log'[me]) = e
      /\ r.timestamp < t /\ p.timestamp # t
      /\ Mine(me, r) < Mine(me, e)
      /\ Mine(payer, e) <= Mine(payer, p)
  BY <1>2, <1>4, <1>5, <1>6, <1>8 DEF SavedAsLatest
<1>10. /\ Newest = p \/ Newest = r
       /\ p.timestamp > r.timestamp => Newest = p
  BY <1>2, <1>5, <1>6, <1>7, <1>8, NewestOf, NewestParts
<1>11. /\ p.timestamp > t => Newest' = p
       /\ t > p.timestamp => Newest' = e
  <2>1. \/ payer = Alice /\ Newest' = (IF p.timestamp > t THEN p ELSE e)
        \/ payer = Bob /\ Newest' = (IF t > p.timestamp THEN e ELSE p)
    BY <1>2, <1>7, <1>9, PaymentsAssumption DEF Nodes, Other, Newest
  <2> QED
    BY <1>8, <1>9, <2>1
<1>12. CASE p.timestamp > t
  <2>1. Newest = p /\ Newest' = p
    BY <1>8, <1>9, <1>10, <1>11, <1>12
  <2> QED
    BY <2>1 DEF Pair
<1>13. CASE t > p.timestamp
  <2>1. Newest' = e
    BY <1>11, <1>13
  <2>2. Pair(Newest)' = Pair(e)
    BY <2>1 DEF Pair
  <2>3. CASE Newest = p
    <3>1. Mine(payer, e) \in Nat /\ Mine(payer, p) \in Nat
      BY <1>7, <1>8, <1>9, Sides
    <3>2. CASE Mine(payer, e) = Mine(payer, p)
      <4>1. SameSplit(e, p)
        BY <1>7, <1>8, <1>9, <3>2, Sides
      <4> QED
        BY <2>2, <2>3, <4>1 DEF SameSplit, Pair
    <3>3. CASE Mine(payer, e) < Mine(payer, p)
      BY <1>7, <1>8, <1>9, <2>2, <2>3, <3>3, SplitMoves
    <3> QED
      BY <1>9, <3>1, <3>2, <3>3
  <2>4. CASE Newest = r
    <3>1. Mine(payer, e) < Mine(payer, r)
      BY <1>7, <1>8, <1>9, Sides
    <3> QED
      BY <1>7, <1>8, <1>9, <2>2, <2>4, <3>1, SplitMoves
  <2> QED
    BY <1>10, <2>3, <2>4
<1> QED
  BY <1>8, <1>9, <1>12, <1>13

\* The payer's copy is of a state its partner has, or of no newer one.
LEMMA ApprovedTransfersNothing ==
  ASSUME Serial, NEW c \in calls, PayApproved(c)
  PROVE  Pair(Newest)' = Pair(Newest)
<1>1. PICK me : me = c.req.from
  OBVIOUS
<1>2. PICK partner : partner = Other(me)
  OBVIOUS
<1>3. PICK t : t = c.req.timestamp
  OBVIOUS
<1>4. PICK e : StoredByPayer(me, t, e)
  BY <1>1, <1>3, ApprovedParts DEF Serial, EInv
<1>5. PICK p : p = Latest(log[me])
  OBVIOUS
<1>6. PICK r : r = Latest(log[partner])
  OBVIOUS
<1>7. me \in Nodes /\ partner \in Nodes /\ Other(partner) = me
  BY <1>1, <1>2, CallParts, OtherNode DEF Serial, EInv
<1>8. /\ p.timestamp \in Nat /\ p.timestamp = LatestTimestamp(log[me])
      /\ r.timestamp \in Nat /\ r = log[partner][r.timestamp]
      /\ \A ts \in DOMAIN log[partner] : ts <= r.timestamp
  BY <1>5, <1>6, <1>7, LatestSplit, LogOrdered DEF Serial
<1>9. /\ e.timestamp = t /\ t \in Nat /\ p.timestamp # t
      /\ Latest(log'[partner]) = r
      /\ Latest(log'[me]) = IF p.timestamp > t THEN p ELSE e
      /\ t <= r.timestamp /\ SameSplit(e, log[partner][t])
  BY <1>2, <1>4, <1>5, <1>6, <1>8 DEF StoredByPayer
<1>10. PICK q : q = Latest(log'[me])
  OBVIOUS
<1>11. \/ /\ me = Alice
          /\ Newest = (IF p.timestamp > r.timestamp THEN p ELSE r)
          /\ Newest' = (IF q.timestamp > r.timestamp THEN q ELSE r)
       \/ /\ me = Bob
          /\ Newest = (IF r.timestamp > p.timestamp THEN r ELSE p)
          /\ Newest' = (IF r.timestamp > q.timestamp THEN r ELSE q)
  BY <1>2, <1>5, <1>6, <1>7, <1>9, <1>10, PaymentsAssumption DEF Nodes, Other, Newest
<1>12. CASE p.timestamp > t
  <2>1. q = p
    BY <1>9, <1>10, <1>12
  <2>2. Newest' = Newest
    BY <1>11, <2>1
  <2> QED
    BY <2>2 DEF Pair
<1>13. CASE ~(p.timestamp > t)
  <2>1. q = e /\ p.timestamp < r.timestamp /\ q.timestamp <= r.timestamp
    BY <1>8, <1>9, <1>10, <1>13
  <2>2. Newest = r /\ (Newest' = r \/ (Newest' = e /\ t = r.timestamp))
    BY <1>8, <1>9, <1>11, <2>1
  <2>3. t = r.timestamp => Pair(e) = Pair(r)
    BY <1>8, <1>9 DEF SameSplit, Pair
  <2> QED
    BY <2>2, <2>3 DEF Pair
<1> QED
  BY <1>12, <1>13

LEMMA SerialTransfers == Serial /\ [Next]_vars => [Atomic!Next]_(Pair(Newest))
<1> SUFFICES ASSUME Serial, [Next]_vars
             PROVE  Atomic!Next \/ Pair(Newest)' = Pair(Newest)
  OBVIOUS
<1>1. CASE log' = log
  BY <1>1 DEF Newest, Pair
<1> QED
  BY <1>1, LogSteps, SaveTransfers, ApprovedTransfersNothing

LEMMA InitTransfers == Init => Atomic!Init
<1> SUFFICES ASSUME Init PROVE Pair(Newest) = <<Deposit, 0>>
  BY DEF Atomic!Init, Pair
<1>1. \A n \in Nodes : /\ log[n] = Store(EmptyLog, OpenedState(clock[n]))
                       /\ clock[n] \in 1..MaxTime
  BY DEF Init
<1>2. ASSUME NEW n \in Nodes PROVE Pair(Latest(log[n])) = <<Deposit, 0>>
  <2>1. /\ DOMAIN log[n] = {clock[n]}
        /\ log[n][clock[n]] = OpenedState(clock[n])
    BY <1>1, OpenedLog
  <2>2. IsLog(log[n])
    BY InitEInv, LatestSplit
  <2>3. Latest(log[n]) = OpenedState(clock[n])
    BY <2>1, <2>2, LogOrdered
  <2> QED
    BY <2>3 DEF OpenedState, OffChainEntry, Pair
<1>3. Newest = Latest(log[Alice]) \/ Newest = Latest(log[Bob])
  BY DEF Newest
<1> QED
  BY <1>2, <1>3 DEF Nodes

-----------------------------------------------------------------------------
\* With one call at a time, every payment a node stores as its latest state
\* leaves it better off than the latest state it replaces, lost connections and
\* clocks that are ahead included: the check of server.go:245 is of the state
\* that is replaced.
THEOREM PaymentsBenefitTheirReceivers ==
  ASSUME ~AllowOverdraft, MaxInFlight = 1
  PROVE  Spec => SavesBenefitReceiver
<1>1. Serial /\ [Next]_vars => Serial'
  BY NextSerial
<1>2. Serial /\ [Next]_vars => Benefit
  BY SerialBenefit
<1> QED
  BY <1>1, <1>2, InitSerial, PTL DEF Spec, SavesBenefitReceiver, Benefit

\* With one call at a time, two logs, a connection and clocks that agree on
\* nothing are one pair of balances: every step of Pay and pay_request is an
\* atomic transfer that leaves the payer its reserve, or moves nothing.
THEOREM SerialPaymentsAreAtomic ==
  ASSUME ~AllowOverdraft, MaxInFlight = 1
  PROVE  Spec => RefinesAtomicPayments
<1>1. Serial /\ [Next]_vars => Serial'
  BY NextSerial
<1>2. Serial /\ [Next]_vars => [Atomic!Next]_(Pair(Newest))
  BY SerialTransfers
<1> QED
  BY <1>1, <1>2, InitSerial, InitTransfers, PTL
     DEF Spec, RefinesAtomicPayments, Atomic!Spec, Pair
=============================================================================
